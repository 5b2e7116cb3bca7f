-------------------------- MODULE DocumentObserver --------------------------
(***************************************************************************)
(* The local document observer and what the broker does with what it sees: *)
(* settle an observation of the bytes the session already has, or ingest   *)
(* new bytes as the next document generation. Reviews in annotation mode,  *)
(* without explicit rebuild hints, so that there is one newest observation.*)
(***************************************************************************)
EXTENDS SaveCoordinator

Original == files.original.bytes
Present == Original # Absent

(* #request() and #run(): the watcher reported a change; its event was     *)
(* lost; a timer fired; the host or a reconnecting view asked; the retry   *)
(* timer fired. A timer only looks at the identity while an inspection of  *)
(* the newest observation is busy, and never replaces a full audit.        *)
Observe(reason) ==
  /\ Admit(reason)
  /\ UNCHANGED <<reviewVars, store, tail, holds, pristine, save, files,
                 copyFingerprint, delivered, refused, faults>>

WatchEvent ==
  /\ obs.notify
  /\ Raise([obs EXCEPT !.wanted = "full", !.unseen = TRUE, !.notify = FALSE])
  /\ UNCHANGED <<reviewVars, store, tail, holds, pristine, save, files,
                 copyFingerprint, delivered, refused, faults, events>>

DropNotification ==
  /\ obs.notify
  /\ obs' = [obs EXCEPT !.notify = FALSE]
  /\ UNCHANGED <<reviewVars, store, commit, tail, holds, pristine, save, insp,
                 diskVars, refused, faults>>

Tick(reason) ==
  /\ obs.wanted # "audit"
  /\ insp.pc # "idle" => insp.newest /\ ~insp.same
  /\ Observe(reason)
  /\ UNCHANGED events

HostHint ==
  /\ Outside
  /\ Observe("full")

RetryTick ==
  /\ obs.retry
  /\ Raise([obs EXCEPT !.wanted = "full", !.retry = FALSE])
  /\ UNCHANGED <<reviewVars, store, tail, holds, pristine, save, files,
                 copyFingerprint, delivered, refused, faults, events>>

-----------------------------------------------------------------------------
(* Outcomes of an inspection, which only the newest one may act on:        *)
(* "current" settles the physical-save barrier, "retry" arms the timer.    *)
Settled == [obs EXCEPT !.physical = FALSE, !.unseen = FALSE, !.retry = FALSE,
                       !.unchanged = insp.same]

OutcomeCurrent ==
  /\ insp' = NoInspection
  /\ IF insp.newest
     THEN /\ obs' = Settled
          /\ save' = IF obs.physical THEN Resumed(save, sync.phase) ELSE save
     ELSE UNCHANGED <<obs, save>>

OutcomeRetry ==
  /\ insp' = NoInspection
  /\ obs' = [obs EXCEPT !.retry = @ \/ insp.newest]

RetryLater ==
  /\ OutcomeRetry
  /\ UNCHANGED <<reviewVars, store, commit, tail, holds, pristine, save,
                 diskVars, refused, faults>>

(* A section of the inspection finds the commit barrier unsettled.         *)
InspectBlocked ==
  /\ insp.pc \in {"sameDigest", "stage", "stagedSame", "invalid", "retained", "replace"}
  /\ tail = "free"
  /\ commit.kind # "none"
  /\ RetryLater

(* #inspectQueued(): an identity wakeup with nothing new settles at once.  *)
InspectStart ==
  /\ insp.pc = "idle"
  /\ obs.wanted # "none"
  /\ IF obs.wanted = "identity" /\ ~obs.unseen /\ obs.unchanged /\ Present
     THEN /\ obs' = [obs EXCEPT !.wanted = "none", !.physical = FALSE]
          /\ save' = Resumed(save, sync.phase)
          /\ UNCHANGED insp
     ELSE /\ obs' = [obs EXCEPT !.wanted = "none"]
          /\ insp' = [NoInspection EXCEPT !.pc = "hash", !.newest = TRUE, !.same = TRUE]
          /\ UNCHANGED save
  /\ UNCHANGED <<reviewVars, store, commit, tail, holds, pristine, diskVars,
                 refused, faults>>

(* #inspectLocalDocumentCandidate(): the bytes of the session, or a rename *)
(* of its own that is not recorded yet, are not new.                       *)
OwnPublication(bytes) ==
  tail = "save" /\ save.kind = "original" /\ bytes = SaveBytes

InspectHash ==
  /\ insp.pc = "hash"
  /\ insp' = IF insp.same /\ Present /\ (Original = originalDigest \/ OwnPublication(Original))
             THEN [insp EXCEPT !.pc = "sameDigest", !.bytes = Original]
             ELSE [insp EXCEPT !.pc = "stage"]
  /\ UNCHANGED <<reviewVars, store, commit, tail, holds, pristine, save, obs,
                 diskVars, refused, faults>>

(* #settleObservedSameDigest().                                            *)
Refreshed == [review EXCEPT !.current = TRUE]
RefreshedSync ==
  IF review.current THEN sync
  ELSE [sync EXCEPT !.desRev = review.rev, !.des = Digest(Refreshed)]

SettleSuperseded ==
  /\ insp.pc = "sameDigest"
  /\ TailFree
  /\ ~insp.newest \/ ~insp.same \/ originalDigest # insp.bytes
  /\ RetryLater

SettleSame ==
  /\ insp.pc = "sameDigest"
  /\ TailFree
  /\ insp.newest /\ insp.same /\ originalDigest = insp.bytes
  /\ files' = IF obs.lineage THEN files ELSE [files EXCEPT !.original.approved = TRUE]
  /\ IF obs.lineage /\ review.current
     THEN /\ obs' = Settled
          /\ insp' = NoInspection
          /\ save' = IF obs.physical THEN Resumed(save, sync.phase) ELSE save
          /\ UNCHANGED <<review, sync, store, refused, faults>>
     ELSE PersistPlain(DraftOf(Refreshed, dest, RefreshedSync),
            /\ review' = Refreshed
            /\ sync' = RefreshedSync
            /\ obs' = [Settled EXCEPT !.lineage = TRUE]
            /\ insp' = NoInspection
            /\ save' = IF obs.physical THEN Resumed(save, sync.phase) ELSE save,
            OutcomeRetry /\ UNCHANGED <<review, sync, save>>)
  /\ UNCHANGED <<dest, originalDigest, eligible, commit, tail, holds, pristine,
                 copyFingerprint, delivered, unannounced, events>>

-----------------------------------------------------------------------------
(* #replaceDocument(), from the observation fence to the staged snapshot.  *)
IngestedAnyway(bytes) == FALSE      \* mutant of IngestionFails
IngestionFails(bytes) == bytes = Torn
RetentionRejects(generation) == generation >= MaxGeneration

InspectMissing ==
  /\ insp.pc = "stage"
  /\ TailFree
  /\ ~Present
  /\ PersistPlain(Draft, TRUE, TRUE)
  /\ OutcomeRetry
  /\ UNCHANGED <<reviewVars, commit, tail, holds, pristine, save, diskVars>>

InspectStage ==
  /\ insp.pc = "stage"
  /\ TailFree
  /\ Present
  /\ insp' = IF ~insp.newest THEN NoInspection
             ELSE [insp EXCEPT !.gen = review.gen, !.bytes = Original, !.staged = TRUE,
                     !.pc = IF Original = originalDigest THEN "stagedSame"
                            ELSE IF IngestionFails(Original) THEN "invalid"
                            ELSE IF RetentionRejects(review.gen) THEN "retained"
                            ELSE "replace"]
  /\ UNCHANGED <<reviewVars, store, commit, tail, holds, pristine, save, obs,
                 diskVars, refused, faults>>

(* Staging, the last checks of the commit section or its preparations fail:*)
(* the candidate is treated as one that cannot become a generation.        *)
InspectFails ==
  /\ insp.pc \in {"stage", "replace"}
  /\ TailFree
  /\ Present
  /\ insp.newest
  /\ insp.pc = "replace" => review.gen = insp.gen /\ insp.staged /\ ~Held
  /\ Fault
  /\ insp' = [insp EXCEPT !.gen = review.gen, !.pc = "invalid"]
  /\ UNCHANGED <<reviewVars, store, commit, tail, holds, pristine, save, obs,
                 diskVars, refused>>

(* The staged bytes are the session's: the barrier goes before the record  *)
(* of it is durable.                                                       *)
StagedSameConflicts ==
  /\ insp.pc = "stagedSame"
  /\ TailFree
  /\ insp.newest
  /\ \/ review.gen # insp.gen
     \/ originalDigest # insp.bytes
     \/ Original # insp.bytes          \* the capability cannot be refreshed
  /\ RetryLater

StagedSameSuperseded ==
  /\ insp.pc = "stagedSame"
  /\ TailFree
  /\ ~insp.newest
  /\ insp' = NoInspection
  /\ UNCHANGED <<reviewVars, store, commit, tail, holds, pristine, save, obs,
                 diskVars, refused, faults>>

StagedSame ==
  /\ insp.pc = "stagedSame"
  /\ TailFree
  /\ insp.newest
  /\ review.gen = insp.gen
  /\ originalDigest = insp.bytes /\ Original = insp.bytes
  /\ files' = [files EXCEPT !.original.approved = TRUE]
  /\ save' = IF obs.physical THEN Resumed(save, sync.phase) ELSE save
  /\ insp' = NoInspection
  /\ PersistPlain(DraftOf(Refreshed, dest, RefreshedSync),
       /\ review' = Refreshed
       /\ sync' = RefreshedSync
       /\ obs' = [Settled EXCEPT !.lineage = insp.staged],
       /\ obs' = [obs EXCEPT !.physical = FALSE, !.retry = TRUE]
       /\ UNCHANGED <<review, sync>>)
  /\ UNCHANGED <<dest, originalDigest, eligible, commit, tail, holds, pristine,
                 copyFingerprint, delivered, unannounced, events>>

(* markInvalid(): a candidate that cannot become a generation leaves the   *)
(* review possibly stale and its saving stopped. A candidate the retention *)
(* budget rejects is not tried again; an invalid one is.                   *)
MarkInvalid ==
  LET r == [review EXCEPT !.current = FALSE]
      s == IF review.current
           THEN [sync EXCEPT !.phase = "not-saved", !.desRev = review.rev, !.des = Digest(r)]
           ELSE sync
  IN
  /\ insp.pc \in {"invalid", "retained"}
  /\ TailFree
  /\ IF insp.newest /\ review.gen = insp.gen
     THEN PersistPlain(DraftOf(r, dest, s),
            /\ review' = r
            /\ sync' = s
            /\ insp' = NoInspection
            /\ IF insp.pc = "retained"
               THEN obs' = Settled /\ save' = IF obs.physical THEN Resumed(save, s.phase) ELSE save
               ELSE obs' = [obs EXCEPT !.retry = TRUE] /\ UNCHANGED save,
            OutcomeRetry /\ UNCHANGED <<review, sync, save>>)
     ELSE /\ IF insp.pc = "retained" THEN OutcomeCurrent ELSE OutcomeRetry /\ UNCHANGED save
          /\ UNCHANGED <<review, sync, store, refused, faults>>
  /\ UNCHANGED <<dest, originalDigest, eligible, commit, tail, holds, pristine, diskVars>>

-----------------------------------------------------------------------------
(* The commit section of #replaceDocument(): its fences in their order ... *)
ReplaceAbandoned ==
  /\ insp.pc = "replace"
  /\ TailFree
  /\ \/ /\ review.gen # insp.gen \/ (insp.staged /\ ~insp.newest)
        /\ OutcomeCurrent
     \/ /\ review.gen = insp.gen
        /\ ~insp.staged \/ (insp.newest /\ Held)
        /\ OutcomeRetry
        /\ UNCHANGED save
  /\ UNCHANGED <<reviewVars, store, commit, tail, holds, pristine, diskVars,
                 refused, faults>>

ReplaceUnderHold ==      \* mutant of Replace
  /\ insp.pc = "replace"
  /\ TailFree
  /\ review.gen = insp.gen
  /\ insp.staged
  /\ insp.newest
  /\ files' = [files EXCEPT !.original.approved = TRUE]
  /\ tail' = "replace"
  /\ insp' = [insp EXCEPT !.pc = "persist"]
  /\ UNCHANGED <<reviewVars, store, commit, holds, pristine, save, obs,
                 copyFingerprint, delivered, unannounced, events, refused, faults>>

Replace ==
  /\ insp.pc = "replace"
  /\ TailFree
  /\ review.gen = insp.gen
  /\ insp.staged
  /\ insp.newest
  /\ ~Held
  /\ files' = [files EXCEPT !.original.approved = TRUE]
  /\ tail' = "replace"
  /\ insp' = [insp EXCEPT !.pc = "persist"]
  /\ UNCHANGED <<reviewVars, store, commit, holds, pristine, save, obs,
                 copyFingerprint, delivered, unannounced, events, refused, faults>>

(* Mutant of Successor: the save phase of the old generation stays.        *)
SuccessorStillSaved(canRewrite, reconciled) ==
  LET r == [review EXCEPT !.rev = @ + 1, !.gen = @ + 1, !.current = TRUE, !.src = insp.bytes]
      d == [dest EXCEPT !.gen = IF dest.active THEN @ + 1 ELSE @]
  IN DraftOf(r, d, sync)

(* ... and the successor it commits. Whether the new PDF can be rewritten, *)
(* and whether its native annotations were reconciled, depends on it.      *)
Successor(canRewrite, reconciled) ==
  LET r == [review EXCEPT !.rev = @ + 1, !.gen = @ + 1, !.current = TRUE, !.src = insp.bytes]
      d == [dest EXCEPT !.gen = IF dest.active THEN @ + 1 ELSE @]
      s == [sync EXCEPT !.phase = IF d.active /\ canRewrite /\ reconciled
                                  THEN "saving" ELSE "not-saved",
                        !.desRev = r.rev, !.des = Digest(r)]
  IN DraftOf(r, d, s)

ReplacePersisted(canRewrite, reconciled) ==
  LET successor == Successor(canRewrite, reconciled) IN
  /\ insp.pc = "persist"
  /\ \/ /\ store' = Published(store, successor)
        /\ UNCHANGED faults
     \/ /\ Fault
        /\ store' \in FailedWrites(successor)
        /\ Recovered(store') = successor
  /\ tail' = "free"
  /\ insp' = NoInspection
  /\ ActivateGeneration(successor, insp.bytes, canRewrite, insp.newest)
  /\ obs' = [IF insp.newest THEN Settled ELSE obs EXCEPT !.lineage = insp.staged]
  /\ UNCHANGED <<commit, holds, pristine, diskVars, refused>>

(* persist() failed: the files give the predecessor back, or something     *)
(* else, or cannot be read.                                                *)
ReplaceUnpersisted(canRewrite, reconciled, readable) ==
  LET successor == Successor(canRewrite, reconciled) IN
  /\ insp.pc = "persist"
  /\ Fault
  /\ store' \in FailedWrites(successor)
  /\ readable => Recovered(store') # successor
  /\ tail' = "free"
  /\ IF readable /\ Recovered(store') = Recovered(store)
     THEN /\ insp' = [insp EXCEPT !.pc = "invalid"]
          /\ UNCHANGED <<commit, obs>>
     ELSE /\ commit' = [kind |-> "replace", successor |-> successor,
                        predecessor |-> Recovered(store), bytes |-> insp.bytes,
                        newest |-> insp.newest, staged |-> insp.staged,
                        eligible |-> canRewrite]
          /\ OutcomeRetry
  /\ UNCHANGED <<reviewVars, holds, pristine, save, diskVars, refused>>

-----------------------------------------------------------------------------
(* Another program writes, truncates, removes or replaces a PDF, in place  *)
(* or as a new file.                                                       *)
ExternalWrite(bytes, inPlace) ==
  /\ Outside
  /\ bytes # Original
  /\ files' = [files EXCEPT !.original =
        [bytes |-> bytes, approved |-> @.approved /\ inPlace /\ bytes # Absent]]
  /\ unannounced' = TRUE
  /\ OriginalReplaced
  /\ UNCHANGED <<reviewVars, store, tail, holds, pristine, save, copyFingerprint,
                 delivered, refused, faults>>

ExternalCopyWrite(bytes) ==
  /\ Outside
  /\ bytes # files.copy.bytes
  /\ files' = [files EXCEPT !.copy =
        [bytes |-> bytes, approved |-> @.approved /\ bytes # Absent]]
  /\ UNCHANGED <<reviewVars, store, commit, tail, holds, pristine, save, obs, insp,
                 copyFingerprint, delivered, unannounced, refused, faults>>
=============================================================================
