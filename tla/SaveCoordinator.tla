-------------------------- MODULE SaveCoordinator --------------------------
(***************************************************************************)
(* PdfSaveCoordinator.#drain(): the one save pass of a session, from the   *)
(* request to the recorded save, with commitSaveCandidate() and            *)
(* markSaveFailed() of the broker. POSIX: a rename is always confirmed.    *)
(***************************************************************************)
EXTENDS SessionBroker

(* The pass is over; "requested" survives it.                              *)
Parked(pc, requested) == [NoDelivery EXCEPT !.pc = pc, !.requested = requested]
At(pc) == [save EXCEPT !.pc = pc]
Again == Parked("top", TRUE)
NextPass(requested) == Parked("top", save.requested \/ requested)

SaveBytes == Rendered(save.src, save.items)

(* A step of the pass that only moves the queue.                           *)
Move(s) ==
  /\ save' = s
  /\ UNCHANGED <<reviewVars, store, commit, tail, holds, pristine, obs, insp,
                 diskVars, refused, faults>>

(* retry(): a reviewer asks for a save once more, which the window offers  *)
(* after a failed save. (A retry while a save runs would only set the      *)
(* requested bit once more, as an edit does.)                              *)
RetrySave ==
  /\ dest.active
  /\ sync.phase = "not-saved"
  /\ Move(Requested(save))

DrainTop ==
  /\ save.pc = "top"
  /\ save.requested
  /\ Move(IF ~dest.active THEN Parked("off", FALSE)
          ELSE [Parked(IF obs.physical THEN "settle" ELSE "freeze", FALSE)
                  EXCEPT !.destGen = dest.gen, !.kind = dest.kind])

DrainEnds ==
  /\ save.pc = "top"
  /\ ~save.requested
  /\ Move(Parked("off", FALSE))

(* settlePhysicalSaveBarrier() flushes the observer and waits. It gives up *)
(* when the newest observation was inspected and did not settle. (The code *)
(* also gives up after four attempts that each met a newer observation;    *)
(* that observation resumes saving when it settles, like this one.)        *)
DrainSettled ==
  /\ save.pc \in {"settle", "settleAgain"}
  /\ ~obs.physical
  /\ Move(At(IF save.pc = "settle" THEN "freeze" ELSE "validate"))

DrainUnsettled ==
  /\ save.pc \in {"settle", "settleAgain"}
  /\ obs.physical
  /\ insp.pc = "idle" /\ obs.wanted = "none"
  /\ Move(IF save.pc = "settle" THEN Parked("off", save.requested) ELSE Again)

(* freezeSaveDelivery(). The tail is first in, first out: chooseOriginal() *)
(* has queued its second section before a pass for that destination can.   *)
Freeze ==
  /\ save.pc = "freeze"
  /\ TailFree
  /\ pristine.gen # save.destGen \/ pristine = NotDue
  /\ Move([save EXCEPT !.pc = "write", !.rev = sync.desRev, !.digest = sync.des,
                       !.items = review.items, !.src = review.src,
                       !.orig = originalDigest, !.docGen = review.gen])

(* A commit barrier that does not settle stops the pass.                   *)
DrainBlocked ==
  /\ save.pc \in {"freeze", "validate"}
  /\ commit.kind # "none"
  /\ tail = "free"
  /\ Move(Parked("off", save.requested))

(* The writer, the verifier and stagePublication().                        *)
WriteCandidate ==
  /\ save.pc = "write"
  /\ eligible
  /\ Move(At(IF obs.physical THEN "settleAgain" ELSE "validate"))

WriteFails ==
  /\ save.pc = "write"
  /\ save' = At("failed")
  /\ IF eligible THEN Fault ELSE UNCHANGED faults
  /\ UNCHANGED <<reviewVars, store, commit, tail, holds, pristine, obs, insp,
                 diskVars, refused>>

-----------------------------------------------------------------------------
(* Mutants of CandidateIsCurrent: without the physical-save barrier, and   *)
(* without the destination generation.                                     *)
CandidateUnobserved ==
  /\ dest.active
  /\ dest.gen = save.destGen
  /\ review.gen = save.docGen
  /\ review.src = save.src

CandidateForAnyDestination ==
  /\ dest.active
  /\ review.gen = save.docGen
  /\ review.src = save.src
  /\ ~obs.physical

(* commitSaveCandidate(): the broker's fences for a candidate.             *)
CandidateIsCurrent ==
  /\ dest.active
  /\ dest.gen = save.destGen
  /\ review.gen = save.docGen
  /\ review.src = save.src
  /\ ~obs.physical

(* validateOriginalForReplacement() and validateDestination(): the file is *)
(* the approved one and holds what the capability expects.                 *)
OriginalMatches == files.original.approved /\ files.original.bytes = save.orig
CopyMatches ==
  IF copyFingerprint = Absent
  THEN files.copy.bytes = Absent
  ELSE files.copy.approved /\ files.copy.bytes = copyFingerprint
TargetMatches == OriginalMatches /\ (save.kind = "copy" => CopyMatches)

(* Entering the tail section with a stale candidate or a changed target.   *)
ValidateStale ==
  /\ save.pc = "validate"
  /\ TailFree
  /\ ~CandidateIsCurrent
  /\ Move(Again)

ValidateMismatch ==
  /\ save.pc = "validate"
  /\ TailFree
  /\ CandidateIsCurrent
  /\ ~TargetMatches
  /\ Move(At("failed"))

Validate ==
  /\ save.pc = "validate"
  /\ TailFree
  /\ CandidateIsCurrent
  /\ TargetMatches
  /\ tail' = "save"
  /\ save' = At("publish")
  /\ UNCHANGED <<reviewVars, store, commit, holds, pristine, obs, insp,
                 diskVars, refused, faults>>

(* The tail section ends without a publication.                            *)
LeaveTail(s) ==
  /\ tail' = "free"
  /\ save' = s
  /\ UNCHANGED <<reviewVars, store, commit, holds, pristine, obs, insp,
                 diskVars, refused>>

PublishStale ==
  /\ save.pc = "publish"
  /\ ~CandidateIsCurrent
  /\ LeaveTail(Again)
  /\ UNCHANGED faults

PublishFails ==
  /\ save.pc = "publish"
  /\ CandidateIsCurrent
  /\ LeaveTail(At("failed"))
  /\ Fault

(* The original is another file now than the one anybody looked at.        *)
OriginalReplaced ==
  /\ obs' = [obs EXCEPT !.notify = TRUE, !.unchanged = FALSE, !.lineage = FALSE]
  /\ insp' = [insp EXCEPT !.same = FALSE, !.staged = FALSE]
  /\ commit' = [commit EXCEPT !.staged = FALSE]

(* publishFile(): the rename, with the fences rechecked just before it.    *)
Publish ==
  /\ save.pc = "publish"
  /\ CandidateIsCurrent
  /\ files' = [files EXCEPT ![save.kind] = [bytes |-> SaveBytes, approved |-> FALSE]]
  /\ delivered' = [delivered EXCEPT ![save.kind] = SaveBytes]
  /\ IF save.kind = "original"
     THEN OriginalReplaced /\ unannounced' = FALSE
     ELSE UNCHANGED <<obs, insp, commit, unannounced>>
  /\ save' = At("confirm")
  /\ UNCHANGED <<reviewVars, store, tail, holds, pristine, copyFingerprint,
                 refused, faults, events>>

(* The draft a committed candidate makes durable, and its barrier. Its     *)
(* acknowledgedAt differs from that of the draft it replaces.              *)
SavedDraft ==
  [DraftOf(review, dest, CommittedSync(save.rev, save.digest))
     EXCEPT !.at = ~Recovered(store).at]
SaveBarrier ==
  [NoCommit EXCEPT !.kind = "save", !.successor = SavedDraft,
                   !.predecessor = Recovered(store), !.bytes = SaveBytes]
Stale == ~CommittedIsCurrent(save.rev, save.digest)

(* publication.settle() and persist(): the save is recorded, the target    *)
(* was taken over by somebody else, or the outcome stays uncertain.        *)
ConfirmSaved ==
  /\ save.pc = "confirm"
  /\ files[save.kind].bytes = SaveBytes
  /\ RefreshTarget(save.kind, SaveBytes)
  /\ store' = Published(store, SavedDraft)
  /\ ApplySave(SavedDraft, SaveBytes)
  /\ save' = NextPass(Stale)
  /\ tail' = "free"
  /\ UNCHANGED <<review, dest, eligible, commit, holds, pristine, obs, insp,
                 delivered, unannounced, events, refused, faults>>

ConfirmUnpersisted ==
  /\ save.pc = "confirm"
  /\ files[save.kind].bytes = SaveBytes
  /\ RefreshTarget(save.kind, SaveBytes)
  /\ Fault
  /\ store' \in FailedWrites(SavedDraft)
  /\ commit' = SaveBarrier
  /\ save' = At("resolve")
  /\ UNCHANGED <<reviewVars, tail, holds, pristine, obs, insp, delivered,
                 unannounced, events, refused>>

ConfirmSuperseded ==
  /\ save.pc = "confirm"
  /\ files[save.kind].bytes \notin {SaveBytes, Absent}
  /\ LeaveTail(At("failed"))
  /\ UNCHANGED faults

ConfirmUncertain ==
  /\ save.pc = "confirm"
  /\ \/ files[save.kind].bytes = Absent /\ UNCHANGED faults
     \/ files[save.kind].bytes = SaveBytes /\ Fault
  /\ commit' = SaveBarrier
  /\ save' = NextPass(FALSE)
  /\ tail' = "free"
  /\ UNCHANGED <<reviewVars, store, holds, pristine, obs, insp, diskVars, refused>>

(* The barrier is resolved once before the tail is released.               *)
DrainResolves ==
  /\ save.pc = "resolve"
  /\ SettleSave(NextPass(commit.successor.sync.phase = "saving"), At("failed"), NextPass(FALSE))
  /\ UNCHANGED <<review, dest, eligible, holds, pristine, obs, insp, delivered,
                 unannounced, events>>

-----------------------------------------------------------------------------
(* The catch clause of #drain() with markSaveFailed().                     *)
DrainFailed ==
  LET s == [sync EXCEPT !.phase = "not-saved", !.desRev = review.rev]
  IN
  /\ save.pc = "failed"
  /\ save' = Parked("off", save.requested)
  /\ IF commit.kind # "none" \/ ~dest.active \/ dest.gen # save.destGen
     THEN UNCHANGED <<sync, store, faults, refused>>
     ELSE /\ tail = "free"
          /\ PersistPlain(DraftOf(review, dest, s), sync' = s, UNCHANGED sync)
  /\ UNCHANGED <<review, dest, originalDigest, eligible, commit, tail, holds,
                 pristine, obs, insp, diskVars>>
=============================================================================
