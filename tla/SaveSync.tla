------------------------------ MODULE SaveSync ------------------------------
(***************************************************************************)
(* A review session with its save coordinator, its document observer, its  *)
(* reviewers and the other programs that write the same PDFs, and what     *)
(* must be true of them together.                                          *)
(***************************************************************************)
EXTENDS DocumentObserver

CONSTANT Openings   \* how a session may start, and the events and faults it meets

ASSUME OpeningsAssumption ==
  Openings \subseteq [imported : BOOLEAN, edits : 0..MaxRevision,
                      events : 0..MaxEvents, faults : 0..MaxFaults]

(* A session opened on the original, its first draft persisted. Portable   *)
(* annotations found in it (imported) make the original the destination.   *)
Init ==
  /\ \E opening \in Openings :
       /\ review = [rev |-> 0, gen |-> 1, current |-> TRUE, src |-> External(FirstVersion),
                    items |-> NoItems]
       /\ dest = [active |-> opening.imported,
                  gen |-> IF opening.imported THEN 1 ELSE 0, kind |-> "original"]
       /\ faults = MaxFaults - opening.faults
       /\ events = [outside |-> MaxEvents - opening.events,
                    edits |-> MaxRevision - opening.edits]
  /\ sync = [phase |-> "clean", desRev |-> 0, des |-> Digest(review),
             savRev |-> 0, sav |-> Digest(review)]
  /\ originalDigest = review.src
  /\ eligible = TRUE
  /\ store = [current |-> Draft, previous |-> NoDraft]
  /\ commit = NoCommit
  /\ tail = "free"
  /\ holds = [v \in Views |-> 0]
  /\ pristine = NotDue
  /\ save = NoDelivery
  /\ obs = [physical |-> FALSE, wanted |-> "none", unseen |-> FALSE, unchanged |-> TRUE,
            lineage |-> TRUE, retry |-> FALSE, notify |-> FALSE]
  /\ insp = NoInspection
  /\ files = [original |-> [bytes |-> review.src, approved |-> TRUE],
              copy |-> [bytes |-> Absent, approved |-> FALSE]]
  /\ copyFingerprint = Absent
  /\ delivered = [original |-> review.src, copy |-> Absent]
  /\ unannounced = FALSE
  /\ refused = {}

Reviewers ==
  \/ \E items \in ItemSets : Mutate(items)
  \/ PutDraft
  \/ \E kind \in Kinds, items \in ItemSets : Establish(kind, items)
  \/ MarkPristine
  \/ MarkPristineRefused
  \/ \E v \in Views : Begin(v) \/ EndHold(v)
  \/ RetrySave

Barriers == ResolveSave \/ ResolveReplacement

DrainSteps ==
  \/ DrainTop \/ DrainEnds \/ DrainSettled \/ DrainUnsettled
  \/ Freeze \/ DrainBlocked \/ WriteCandidate \/ WriteFails
  \/ ValidateStale \/ ValidateMismatch \/ Validate
  \/ PublishStale \/ PublishFails \/ Publish
  \/ ConfirmSaved \/ ConfirmUnpersisted \/ ConfirmSuperseded \/ ConfirmUncertain
  \/ DrainResolves \/ DrainFailed

Admissions ==
  \/ WatchEvent
  \/ DropNotification
  \/ \E reason \in {"identity", "audit"} : Tick(reason)
  \/ HostHint
  \/ RetryTick

InspectSteps ==
  \/ InspectStart \/ InspectHash \/ InspectBlocked
  \/ SettleSuperseded \/ SettleSame
  \/ InspectMissing \/ InspectStage \/ InspectFails
  \/ StagedSameConflicts \/ StagedSameSuperseded \/ StagedSame
  \/ MarkInvalid
  \/ ReplaceAbandoned \/ Replace
  \/ \E canRewrite, reconciled \in BOOLEAN : ReplacePersisted(canRewrite, reconciled)
  \/ \E canRewrite, reconciled, readable \in BOOLEAN :
        ReplaceUnpersisted(canRewrite, reconciled, readable)

OtherPrograms ==
  \/ \E bytes \in {External(v) : v \in Versions} \cup {Torn, Absent},
        inPlace \in BOOLEAN : ExternalWrite(bytes, inPlace)
  \/ \E bytes \in {External(v) : v \in Versions} \cup {Absent} : ExternalCopyWrite(bytes)

Next ==
  \/ Reviewers
  \/ Barriers
  \/ DrainSteps
  \/ Admissions
  \/ InspectSteps
  \/ OtherPrograms

Spec == Init /\ [][Next]_vars

-----------------------------------------------------------------------------
(* "Saved" is the truth: what the service last wrote to the destination    *)
(* holds the present items, on the present generation's source.            *)
CleanIsDelivered ==
  (dest.active /\ sync.phase = "clean") =>
     /\ delivered[dest.kind].by \in {"external", "service"}
     /\ delivered[dest.kind].items = review.items
     /\ delivered[dest.kind].base = review.src.base

(* A view never holds an interaction against a generation that is gone.    *)
HoldsAtCurrentGeneration ==
  \A v \in Views : holds[v] \in {0, review.gen}

(* A crash between two operations brings back the state in memory, or a    *)
(* change that was refused although its write had reached the disk, or the *)
(* record of a save whose publication somebody else has replaced.          *)
DurableMatchesMemory ==
  (tail = "free" /\ commit.kind = "none") =>
     AtLess(Recovered(store)) \in {Draft} \cup refused

(* A publication over bytes nobody at the service has seen happens only if *)
(* the change is so recent that no observation was admitted after it.      *)
OverwritesOnlyUnannouncedChanges ==
  [][(save.pc = "publish" /\ save'.pc = "confirm" /\ save.kind = "original"
        /\ Original # save.orig) => unannounced]_vars

(* The document never moves to a new generation under a reviewer's hands.  *)
GenerationNeverAdvancesUnderAHold ==
  [][review'.gen # review.gen => ~Held]_vars

(* The service never mistakes the PDF it last recorded as saved at the     *)
(* original for a rebuild. (An older rendering of its own it may: choosing *)
(* the untouched original again records the bytes the session was opened   *)
(* on as saved, although a save in between may have rewritten the file.)   *)
OwnPublicationNeverBecomesGeneration ==
  [][(review'.gen # review.gen /\ review'.src.by = "service") =>
        review'.src # delivered.original]_vars

-----------------------------------------------------------------------------
(* Fairness: the event loop runs every task that is ready, timers fire and *)
(* the identity timer (seconds apart) cannot forever strike in the         *)
(* milliseconds between a candidate's two fences.                          *)
Fairness ==
  /\ WF_vars(DrainSteps)
  /\ WF_vars(InspectSteps)
  /\ WF_vars(Barriers)
  /\ WF_vars(MarkPristine \/ MarkPristineRefused)
  /\ WF_vars(WatchEvent)
  /\ WF_vars(RetryTick)
  /\ WF_vars(Tick("identity"))
  /\ SF_vars(DrainSettled)
  /\ SF_vars(Freeze)
  /\ SF_vars(ValidateMismatch)
  /\ SF_vars(Validate)
  /\ SF_vars(Publish)

FairSpec == Spec /\ Fairness

(* Saving ends: once the PDF can be read, the target of an uncertain save  *)
(* exists and nobody holds an interaction, a session that is saving gets   *)
(* clean or reports that it could not save.                                *)
SaveSettles ==
  (<>[](/\ Original \notin {Torn, Absent}
        /\ commit.kind = "save" => files[SaveKind].bytes # Absent
        /\ ~Held)) =>
     (sync.phase = "saving" ~> sync.phase # "saving")
=============================================================================
