--------------------------- MODULE SessionBroker ---------------------------
(***************************************************************************)
(* Operations of the session broker that reviewers call (mutations, drafts,*)
(* the choice of a save destination, Interaction Holds), the settlement of *)
(* the commit barriers, and the two state transitions that other parties   *)
(* commit through the broker: a saved candidate and a new generation.      *)
(***************************************************************************)
EXTENDS SessionState

(* reduceReview(): every accepted command raises the revision.             *)
Edited(items) == [review EXCEPT !.rev = @ + 1, !.items = items]

(* #deriveMutationSync() for a command that affects the PDF, and put-draft.*)
MutationSync(r) ==
  [sync EXCEPT !.phase = IF dest.active THEN "saving" ELSE "not-saved",
               !.desRev = r.rev, !.des = Digest(r)]
DraftSync(r) ==
  IF sync.phase = "clean"
  THEN [sync EXCEPT !.desRev = r.rev, !.savRev = r.rev]
  ELSE sync

Accept(r, s, requests) ==
  /\ TailFree
  /\ MayEdit
  /\ PersistPlain(DraftOf(r, dest, s),
       /\ review' = r
       /\ sync' = s
       /\ AnEdit
       /\ save' = IF requests THEN Requested(save) ELSE save,
       UNCHANGED <<review, sync, events, save>>)
  /\ UNCHANGED <<dest, originalDigest, eligible, commit, tail, holds, pristine,
                 obs, insp, files, copyFingerprint, delivered, unannounced>>

(* acceptMutation(), then the save the server requests for it.             *)
Mutate(items) ==
  /\ items # review.items
  /\ Accept(Edited(items), MutationSync(Edited(items)), dest.active)

PutDraft == Accept(Edited(review.items), DraftSync(Edited(review.items)), FALSE)

-----------------------------------------------------------------------------
(* chooseCopy() and chooseOriginal(): establishSaveDestination() with an   *)
(* optional confirmation command, then a save, except that an original     *)
(* nobody reviewed yet is recorded as saved in a second tail section. A    *)
(* copy goes to a path where no file exists.                               *)
Establish(kind, items) ==
  LET r == IF items = review.items THEN review ELSE Edited(items)
      d == [active |-> TRUE, gen |-> dest.gen + 1, kind |-> kind]
      s == [sync EXCEPT !.phase = "saving", !.desRev = r.rev, !.des = Digest(r)]
      untouched == kind = "original" /\ r.rev = 0 /\ r.items = NoItems
  IN
  /\ TailFree
  /\ eligible
  /\ pristine = NotDue
  /\ dest.gen - (review.gen - 1) < MaxDestinations
  /\ items = review.items \/ MayEdit
  /\ PersistPlain(DraftOf(r, d, s),
       /\ review' = r
       /\ dest' = d
       /\ sync' = s
       /\ IF items = review.items THEN UNCHANGED events ELSE AnEdit
       /\ pristine' = IF untouched THEN [gen |-> d.gen, current |-> r.current]
                     ELSE NotDue
       /\ save' = IF untouched THEN save ELSE Requested(save)
       /\ IF kind = "copy"
          THEN /\ files' = [files EXCEPT !.copy = [bytes |-> Absent, approved |-> FALSE]]
               /\ copyFingerprint' = Absent
               /\ delivered' = [delivered EXCEPT !.copy = Absent]
          ELSE UNCHANGED <<files, copyFingerprint, delivered>>,
       UNCHANGED <<review, dest, sync, events, pristine, save, files, copyFingerprint,
                   delivered>>)
  /\ UNCHANGED <<originalDigest, eligible, commit, tail, holds, obs, insp, unannounced>>

(* #committedSaveTransition(): what a committed save makes of the sync.    *)
CommittedIsCurrent(rev, digest) == sync.desRev = rev /\ sync.des = digest
CommittedSync(rev, digest) ==
  [sync EXCEPT !.phase = IF CommittedIsCurrent(rev, digest) THEN "clean" ELSE "saving",
               !.savRev = rev, !.sav = digest]

(* markSaveCommitted() of the untouched original: revision 0, no items.    *)
MarkPristine ==
  LET s == CommittedSync(0, [gen |-> review.gen, current |-> pristine.current,
                             items |-> NoItems])
  IN
  /\ pristine # NotDue
  /\ TailFree
  /\ pristine' = NotDue
  /\ IF dest.gen = pristine.gen
     THEN PersistPlain(DraftOf(review, dest, s),
            /\ sync' = s
            /\ originalDigest' = review.src
            /\ delivered' = [delivered EXCEPT !.original = review.src],
            UNCHANGED <<sync, originalDigest, delivered>>)
     ELSE UNCHANGED <<sync, originalDigest, delivered, store, refused, faults>>
  /\ UNCHANGED <<review, dest, eligible, commit, tail, holds, save, obs, insp,
                 files, copyFingerprint, unannounced, events>>

(* ... which a commit barrier that does not settle refuses.                *)
MarkPristineRefused ==
  /\ pristine # NotDue
  /\ commit.kind # "none"
  /\ pristine' = NotDue
  /\ UNCHANGED <<reviewVars, store, commit, tail, holds, save, obs, insp,
                 diskVars, refused, faults>>

-----------------------------------------------------------------------------
(* Interaction Holds. begin() runs on the session tail, a disconnect does  *)
(* not; the last release hints the observer.                               *)
Begin(v) ==
  /\ TailFree
  /\ holds[v] = 0
  /\ holds' = [holds EXCEPT ![v] = review.gen]
  /\ UNCHANGED <<reviewVars, store, commit, tail, pristine, save, obs, insp,
                 diskVars, refused, faults>>

EndHold(v) ==
  /\ holds[v] # 0
  /\ holds' = [holds EXCEPT ![v] = 0]
  /\ IF \E w \in Views \ {v} : holds[w] # 0
     THEN UNCHANGED <<obs, insp, commit, unannounced>>
     ELSE Admit("full")
  /\ UNCHANGED <<reviewVars, store, tail, pristine, save, files, copyFingerprint,
                 delivered, refused, faults, events>>

-----------------------------------------------------------------------------
(* Mutant of ApplySave: the digest of the original stays the old one.      *)
ApplySaveKeepingDigest(successor, bytes) ==
  sync' = successor.sync /\ UNCHANGED originalDigest

(* The successor of a saved candidate takes effect in memory.              *)
SaveKind == commit.successor.dest.kind
ApplySave(successor, bytes) ==
  /\ sync' = successor.sync
  /\ originalDigest' = IF successor.dest.kind = "original" THEN bytes ELSE originalDigest

(* The capability of a target is moved to the file that is there now.      *)
RefreshTarget(kind, bytes) ==
  /\ files' = [files EXCEPT ![kind].approved = TRUE]
  /\ copyFingerprint' = IF kind = "copy" THEN bytes ELSE copyFingerprint

(* barrier.resolve() of a saved candidate: the successor is durable; or the*)
(* predecessor is, and the publication on disk decides. The three          *)
(* arguments are the save queue after each outcome.                        *)
SettleSave(applied, superseded, uncertain) ==
  LET durable == Recovered(store)
      bytes == files[SaveKind].bytes
      stranded == {store.current, store.previous} \cap {commit.successor}
      Apply == /\ ApplySave(commit.successor, commit.bytes)
               /\ commit' = NoCommit
               /\ save' = applied
      Wait == /\ save' = uncertain
              /\ UNCHANGED <<sync, originalDigest, commit>>
  IN
  /\ commit.kind = "save"
  /\ \/ /\ durable = commit.successor
        /\ Apply
        /\ UNCHANGED <<files, copyFingerprint, store, refused, faults>>
     \/ /\ durable = commit.predecessor /\ durable # commit.successor
        /\ bytes \notin {Absent, commit.bytes}
        /\ commit' = NoCommit
        /\ save' = superseded
        /\ refused' = refused \cup {AtLess(d) : d \in stranded}
        /\ UNCHANGED <<sync, originalDigest, files, copyFingerprint, store, faults>>
     \/ /\ durable = commit.predecessor /\ durable # commit.successor
        /\ bytes = commit.bytes
        /\ RefreshTarget(SaveKind, bytes)
        /\ UNCHANGED refused
        /\ \/ /\ store' = Published(store, commit.successor)
              /\ Apply
              /\ UNCHANGED faults
           \/ /\ Fault
              /\ store' \in FailedWrites(commit.successor)
              /\ IF Recovered(store') = commit.successor THEN Apply ELSE Wait
     \/ /\ Wait        \* files or target unreadable, or a third draft
        /\ UNCHANGED <<files, copyFingerprint, store, refused, faults>>
  /\ tail' = "free"

-----------------------------------------------------------------------------
(* activateSuccessor(): a new document generation takes effect. An         *)
(* observation admitted since keeps the physical-save barrier up.          *)
ActivateGeneration(successor, bytes, canRewrite, newest) ==
  /\ review' = successor.review
  /\ dest' = successor.dest
  /\ sync' = successor.sync
  /\ originalDigest' = bytes
  /\ eligible' = canRewrite
  /\ save' = IF newest /\ obs.physical THEN Resumed(save, successor.sync.phase) ELSE save

(* #assertReplacementCommitSettled(): whoever needs the session tail first *)
(* tries to settle the barrier.                                            *)
ResolveSave ==
  /\ tail = "free"
  /\ SettleSave(save, save, save)
  /\ UNCHANGED <<review, dest, eligible, holds, pristine, obs, insp, delivered,
                 unannounced, events>>

ResolveReplacement ==
  /\ tail = "free"
  /\ commit.kind = "replace"
  /\ commit' = NoCommit
  /\ \/ /\ Recovered(store) = commit.successor
        /\ ActivateGeneration(commit.successor, commit.bytes, commit.eligible,
                              commit.newest)
        /\ obs' = [obs EXCEPT !.physical = @ /\ ~commit.newest, !.lineage = commit.staged]
     \/ /\ Recovered(store) = commit.predecessor
        /\ UNCHANGED <<reviewVars, obs, save>>
  /\ UNCHANGED <<store, tail, holds, pristine, insp, diskVars, refused, faults>>
=============================================================================
