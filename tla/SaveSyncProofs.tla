--------------------------- MODULE SaveSyncProofs ---------------------------
(***************************************************************************)
(* Proofs about a review session, for any number of views, items, file     *)
(* contents and any bounds: a hold pins the generation; the records keep   *)
(* their types; "saved" is the truth; a crash brings back the memory; only *)
(* an unannounced change is overwritten; the service's own publication is  *)
(* never taken for a rebuild.                                              *)
(***************************************************************************)
EXTENDS SaveSyncInvariants, TLAPS

(* A step that leaves the commit barrier for the same successor.           *)
SameBarrier ==
  /\ "kind" \in DOMAIN commit' /\ "successor" \in DOMAIN commit'
  /\ commit'.kind = commit.kind
  /\ commit'.successor = commit.successor

-----------------------------------------------------------------------------
(* A session opens without holds, inspection, save or commit barrier.      *)
LEMMA InitHInv == Init => HInv
BY DEF Init, HInv, Shapes, TailOwner, NoHoldDuringReplacement, HoldsAtCurrentGeneration,
       NoInspection, NoDelivery, NoCommit, Held

(* What a step has to respect: it may end or begin holds as the code does, *)
(* and may only advance the generation when there are none.                *)
LEMMA QueueStep ==
  ASSUME HInv, UNCHANGED <<holds, review, tail, commit, insp>>,
         "pc" \in DOMAIN save',
         save'.pc \in {"publish", "confirm", "resolve"} => tail = "save"
  PROVE  HInv'
BY DEF HInv, Shapes, TailOwner, NoHoldDuringReplacement, HoldsAtCurrentGeneration, Held

(* A step of an inspection that is not about to commit a generation.       *)
LEMMA InspectionStep ==
  ASSUME HInv, UNCHANGED <<holds, tail>>,
         "gen" \in DOMAIN review', review'.gen = review.gen,
         SameBarrier,
         "pc" \in DOMAIN insp', insp'.pc = "persist" => insp.pc = "persist",
         "pc" \in DOMAIN save', save'.pc \in {save.pc, "top"}
  PROVE  HInv'
BY DEF SameBarrier, HInv, Shapes, TailOwner, NoHoldDuringReplacement, HoldsAtCurrentGeneration, Held

(* Admitting an observation, and a new original, touch only fields of the  *)
(* inspection and of the commit barrier that no invariant here reads.      *)
LEMMA RaiseStep ==
  ASSUME Shapes, NEW o, Raise(o)
  PROVE  SameBarrier /\ "pc" \in DOMAIN insp' /\ insp'.pc = insp.pc
<1>1. commit' = [commit EXCEPT !.newest = FALSE] /\ insp' = [insp EXCEPT !.newest = FALSE]
  BY DEF Raise
<1> QED BY <1>1 DEF Shapes, SameBarrier

(* A new file at the original, by a publication or by another program.     *)
LEMMA OriginalReplacedStep ==
  ASSUME Shapes, OriginalReplaced
  PROVE  SameBarrier /\ "pc" \in DOMAIN insp' /\ insp'.pc = insp.pc
<1>1. /\ commit' = [commit EXCEPT !.staged = FALSE]
      /\ insp' = [insp EXCEPT !.same = FALSE, !.staged = FALSE]
  BY DEF OriginalReplaced
<1> QED BY <1>1 DEF Shapes, SameBarrier

(* A save request never moves the queue into the session tail.             *)
LEMMA RequestedQueue ==
  ASSUME "pc" \in DOMAIN save, NEW phase
  PROVE  /\ "pc" \in DOMAIN Requested(save) /\ Requested(save).pc \in {save.pc, "top"}
         /\ "pc" \in DOMAIN Resumed(save, phase) /\ Resumed(save, phase).pc \in {save.pc, "top"}
BY DEF Requested, Resumed

-----------------------------------------------------------------------------
(* Mutations, destination choices, holds and retries.                      *)
LEMMA ReviewersHInv == HInv /\ Reviewers => HInv'
<1> SUFFICES ASSUME HInv, Reviewers PROVE HInv'
  OBVIOUS
<1> USE RequestedQueue DEF PersistPlain, Edited, SameBarrier
<1>1. ASSUME NEW items \in ItemSets, Mutate(items) PROVE HInv'
  BY <1>1, InspectionStep DEF Mutate, Accept, HInv, Shapes
<1>2. CASE PutDraft
  BY <1>2, InspectionStep DEF PutDraft, Accept, HInv, Shapes
<1>3. ASSUME NEW kind \in Kinds, NEW items \in ItemSets, Establish(kind, items)
      PROVE  HInv'
  BY <1>3, InspectionStep DEF Establish, HInv, Shapes
<1>4. CASE MarkPristine
  BY <1>4, InspectionStep DEF MarkPristine, HInv, Shapes, diskVars
<1>5. CASE MarkPristineRefused
  BY <1>5, InspectionStep DEF MarkPristineRefused, HInv, Shapes, reviewVars
<1>6. ASSUME NEW v \in Views, Begin(v) PROVE HInv'
  BY <1>6 DEF Begin, HInv, Shapes, TailOwner, NoHoldDuringReplacement, Held, TailFree,
              HoldsAtCurrentGeneration, reviewVars
<1>7. ASSUME NEW v \in Views, EndHold(v) PROVE HInv'
  <2>1. /\ UNCHANGED <<review, tail, save>>
        /\ SameBarrier
        /\ "pc" \in DOMAIN insp' /\ insp'.pc = insp.pc
    <3>1. CASE \E w \in Views \ {v} : holds[w] # 0
      BY <1>7, <3>1 DEF EndHold, HInv, Shapes, SameBarrier, reviewVars
    <3>2. CASE ~ \E w \in Views \ {v} : holds[w] # 0
      BY <1>7, <3>2, RaiseStep DEF EndHold, Admit, HInv, reviewVars
    <3> QED BY <3>1, <3>2
  <2>2. /\ holds' = [w \in Views |-> holds'[w]]
        /\ \A w \in Views : holds'[w] \in {0, holds[w]}
    BY <1>7 DEF EndHold, HInv, Shapes
  <2> QED BY <2>1, <2>2 DEF HInv, Shapes, TailOwner, NoHoldDuringReplacement, Held,
                            HoldsAtCurrentGeneration
<1>8. CASE RetrySave
  BY <1>8, InspectionStep DEF RetrySave, Move, HInv, Shapes, reviewVars
<1> QED BY <1>1, <1>2, <1>3, <1>4, <1>5, <1>6, <1>7, <1>8 DEF Reviewers

(* barrier.resolve() of a save neither moves the document nor a hold.      *)
LEMMA SettleSaveStep ==
  ASSUME HInv, NEW a, NEW b, NEW c, SettleSave(a, b, c)
  PROVE  /\ "kind" \in DOMAIN commit' /\ "successor" \in DOMAIN commit'
         /\ commit'.kind \in {"none", "save"}
         /\ save' \in {a, b, c}
         /\ tail' = "free"
BY DEF SettleSave, HInv, Shapes, NoCommit

(* A settled commit barrier may activate the generation it was for: no     *)
(* hold began since, because begin() needs the tail the barrier blocks.    *)
LEMMA BarriersHInv == HInv /\ Barriers => HInv'
<1> SUFFICES ASSUME HInv, Barriers PROVE HInv'
  OBVIOUS
<1>1. CASE ResolveSave
  <2>1. /\ "kind" \in DOMAIN commit' /\ "successor" \in DOMAIN commit'
        /\ commit'.kind # "replace" /\ save' = save /\ tail' = tail
    BY <1>1, SettleSaveStep DEF ResolveSave
  <2> QED BY <1>1, <2>1 DEF ResolveSave, HInv, Shapes, TailOwner, NoHoldDuringReplacement,
                            HoldsAtCurrentGeneration, Held
<1>2. CASE ResolveReplacement
  <2>1. "pc" \in DOMAIN save' /\ save'.pc \in {save.pc, "top"}
    BY <1>2, RequestedQueue DEF ResolveReplacement, ActivateGeneration, HInv, Shapes
  <2>2. "gen" \in DOMAIN review'
    BY <1>2 DEF ResolveReplacement, ActivateGeneration, HInv, Shapes, reviewVars
  <2>3. ~Held /\ UNCHANGED <<holds, tail, insp>> /\ commit' = NoCommit
    BY <1>2 DEF ResolveReplacement, HInv, NoHoldDuringReplacement
  <2> QED BY <2>1, <2>2, <2>3 DEF HInv, Shapes, TailOwner, NoHoldDuringReplacement, Held,
                                  HoldsAtCurrentGeneration, NoCommit
<1> QED BY <1>1, <1>2 DEF Barriers

(* The save pass never touches a hold or the generation.                   *)
LEMMA DrainHInv == HInv /\ DrainSteps => HInv'
<1> SUFFICES ASSUME HInv, DrainSteps PROVE HInv'
  OBVIOUS
<1> USE DEF At, Again, NextPass, Parked, NoDelivery
<1>1. CASE DrainTop \/ DrainEnds \/ DrainSettled \/ DrainUnsettled \/ Freeze \/ DrainBlocked
  <2>1. CASE DrainTop \/ DrainEnds
    <3>1. \E pc \in {"off", "settle", "freeze"} : save'.pc = pc /\ "pc" \in DOMAIN save'
      BY <2>1 DEF DrainTop, DrainEnds, Move
    <3>2. UNCHANGED <<holds, review, tail, commit, insp>>
      BY <2>1 DEF DrainTop, DrainEnds, Move, reviewVars
    <3> QED BY <3>1, <3>2, QueueStep
  <2>2. CASE DrainSettled \/ DrainUnsettled
    BY <2>2, QueueStep DEF DrainSettled, DrainUnsettled, Move, HInv, Shapes, reviewVars
  <2>3. CASE Freeze \/ DrainBlocked
    BY <2>3, QueueStep DEF Freeze, DrainBlocked, Move, HInv, Shapes, reviewVars
  <2> QED BY <1>1, <2>1, <2>2, <2>3
<1>2. CASE WriteCandidate \/ WriteFails \/ ValidateStale \/ ValidateMismatch
  BY <1>2, QueueStep DEF WriteCandidate, WriteFails, ValidateStale, ValidateMismatch, Move,
                         HInv, Shapes, reviewVars
<1>3. CASE Validate
  BY <1>3 DEF Validate, HInv, Shapes, TailOwner, NoHoldDuringReplacement, TailFree,
              HoldsAtCurrentGeneration, Held, reviewVars
<1>4. CASE PublishStale \/ PublishFails \/ ConfirmSuperseded
  BY <1>4 DEF PublishStale, PublishFails, ConfirmSuperseded, LeaveTail, HInv, Shapes, TailOwner,
              NoHoldDuringReplacement, HoldsAtCurrentGeneration, Held, reviewVars
<1>5. CASE Publish
  <2>1. /\ UNCHANGED <<holds, review, tail>>
        /\ SameBarrier
        /\ "pc" \in DOMAIN insp' /\ insp'.pc = insp.pc
        /\ "pc" \in DOMAIN save' /\ tail = "save"
    <3>1. CASE save.kind = "original"
      BY <1>5, <3>1, OriginalReplacedStep DEF Publish, HInv, Shapes, TailOwner, reviewVars
    <3>2. CASE save.kind # "original"
      BY <1>5, <3>2 DEF Publish, SameBarrier, HInv, Shapes, TailOwner, reviewVars
    <3> QED BY <3>1, <3>2
  <2> QED BY <2>1 DEF SameBarrier, HInv, Shapes, TailOwner, NoHoldDuringReplacement, Held,
                      HoldsAtCurrentGeneration
<1>6. CASE ConfirmSaved
  BY <1>6 DEF ConfirmSaved, HInv, Shapes, TailOwner, NoHoldDuringReplacement,
              HoldsAtCurrentGeneration, Held
<1>7. CASE ConfirmUnpersisted
  BY <1>7 DEF ConfirmUnpersisted, SaveBarrier, NoCommit, HInv, Shapes, TailOwner,
              NoHoldDuringReplacement, HoldsAtCurrentGeneration, Held, reviewVars
<1>8. CASE ConfirmUncertain
  BY <1>8 DEF ConfirmUncertain, SaveBarrier, NoCommit, HInv, Shapes, TailOwner,
              NoHoldDuringReplacement, HoldsAtCurrentGeneration, Held, reviewVars
<1>9. CASE DrainResolves
  <2>1. /\ "kind" \in DOMAIN commit' /\ "successor" \in DOMAIN commit'
        /\ commit'.kind # "replace" /\ tail' = "free"
        /\ "pc" \in DOMAIN save' /\ save'.pc \in {"top", "failed"}
    <3> DEFINE applied == NextPass(commit.successor.sync.phase = "saving")
    <3>1. SettleSave(applied, At("failed"), NextPass(FALSE))
      BY <1>9 DEF DrainResolves
    <3>2. save' \in {applied, At("failed"), NextPass(FALSE)} /\ tail' = "free"
          /\ "kind" \in DOMAIN commit' /\ "successor" \in DOMAIN commit'
          /\ commit'.kind # "replace"
      BY <3>1, SettleSaveStep
    <3> QED BY <3>2 DEF HInv, Shapes
  <2>2. tail = "save" /\ UNCHANGED <<holds, review, insp>>
    BY <1>9 DEF DrainResolves, HInv, TailOwner
  <2> QED BY <2>1, <2>2 DEF HInv, Shapes, TailOwner, NoHoldDuringReplacement, Held,
                            HoldsAtCurrentGeneration
<1>10. CASE DrainFailed
  BY <1>10, QueueStep DEF DrainFailed, HInv, Shapes
<1> QED BY <1>1, <1>2, <1>3, <1>4, <1>5, <1>6, <1>7, <1>8, <1>9, <1>10 DEF DrainSteps

(* Admitting an observation only outdates the inspection in progress.      *)
LEMMA AdmissionsHInv == HInv /\ Admissions => HInv'
<1> SUFFICES ASSUME HInv, Admissions PROVE HInv'
  OBVIOUS
<1>1. ASSUME NEW o, Raise(o), UNCHANGED <<reviewVars, tail, holds, save>> PROVE HInv'
  <2>1. SameBarrier /\ "pc" \in DOMAIN insp' /\ insp'.pc = insp.pc
    BY <1>1, RaiseStep DEF HInv
  <2> QED BY <1>1, <2>1, InspectionStep DEF HInv, Shapes, reviewVars
<1>2. CASE WatchEvent
  BY <1>1, <1>2 DEF WatchEvent
<1>3. CASE RetryTick
  BY <1>1, <1>3 DEF RetryTick
<1>4. CASE DropNotification
  BY <1>4, InspectionStep DEF DropNotification, HInv, Shapes, SameBarrier, reviewVars
<1>5. ASSUME NEW reason, Observe(reason) PROVE HInv'
  BY <1>1, <1>5 DEF Observe, Admit
<1> QED BY <1>2, <1>3, <1>4, <1>5 DEF Admissions, Tick, HostHint

(* An inspection enters and leaves the commit of a generation as the tail  *)
(* and the holds allow.                                                    *)
LEMMA InspectHInv == HInv /\ InspectSteps => HInv'
<1> SUFFICES ASSUME HInv, InspectSteps PROVE HInv'
  OBVIOUS
<1> USE InspectionStep, RequestedQueue
    DEF SameBarrier, OutcomeCurrent, OutcomeRetry, RetryLater, NoInspection, PersistPlain
<1>1. CASE InspectStart
  BY <1>1 DEF InspectStart, HInv, Shapes, reviewVars
<1>11. CASE InspectHash
  <2>1. "pc" \in DOMAIN insp' /\ insp'.pc # "persist"
    BY <1>11 DEF InspectHash, HInv, Shapes
  <2> QED BY <1>11, <2>1 DEF InspectHash, HInv, Shapes, reviewVars
<1>12. CASE InspectBlocked
  BY <1>12 DEF InspectBlocked, HInv, Shapes, reviewVars
<1>13. CASE SettleSuperseded
  BY <1>13 DEF SettleSuperseded, HInv, Shapes, reviewVars
<1>2. CASE SettleSame
  BY <1>2 DEF SettleSame, Refreshed, HInv, Shapes
<1>3. CASE InspectMissing
  BY <1>3 DEF InspectMissing, HInv, Shapes, reviewVars
<1>14. CASE InspectStage
  <2>1. "pc" \in DOMAIN insp' /\ insp'.pc # "persist"
    BY <1>14 DEF InspectStage, HInv, Shapes
  <2> QED BY <1>14, <2>1 DEF InspectStage, HInv, Shapes, reviewVars
<1>15. CASE InspectFails
  <2>1. "pc" \in DOMAIN insp' /\ insp'.pc # "persist"
    BY <1>15 DEF InspectFails, HInv, Shapes
  <2> QED BY <1>15, <2>1 DEF InspectFails, HInv, Shapes, reviewVars
<1>4. CASE StagedSameConflicts \/ StagedSameSuperseded
  BY <1>4 DEF StagedSameConflicts, StagedSameSuperseded, HInv, Shapes, reviewVars
<1>5. CASE StagedSame
  BY <1>5 DEF StagedSame, Refreshed, HInv, Shapes
<1>6. CASE MarkInvalid
  BY <1>6 DEF MarkInvalid, HInv, Shapes
<1>7. CASE ReplaceAbandoned
  BY <1>7 DEF ReplaceAbandoned, HInv, Shapes, reviewVars
<1>8. CASE Replace
  BY <1>8 DEF Replace, HInv, Shapes, TailOwner, NoHoldDuringReplacement, TailFree,
              HoldsAtCurrentGeneration, Held, reviewVars
<1>9. ASSUME NEW canRewrite \in BOOLEAN, NEW reconciled \in BOOLEAN,
             ReplacePersisted(canRewrite, reconciled)
      PROVE  HInv'
  <2>1. "pc" \in DOMAIN save' /\ save'.pc \in {save.pc, "top"}
    BY <1>9 DEF ReplacePersisted, ActivateGeneration, HInv, Shapes
  <2>2. "gen" \in DOMAIN review'
    BY <1>9 DEF ReplacePersisted, ActivateGeneration, Successor, DraftOf, HInv, Shapes
  <2>3. /\ tail = "replace" /\ tail' = "free" /\ ~Held
        /\ UNCHANGED <<holds, commit>> /\ insp' = NoInspection
    BY <1>9 DEF ReplacePersisted, HInv, TailOwner, NoHoldDuringReplacement
  <2> QED BY <2>1, <2>2, <2>3 DEF HInv, Shapes, TailOwner, NoHoldDuringReplacement, Held,
                                  HoldsAtCurrentGeneration
<1>10. ASSUME NEW canRewrite \in BOOLEAN, NEW reconciled \in BOOLEAN, NEW readable \in BOOLEAN,
              ReplaceUnpersisted(canRewrite, reconciled, readable)
       PROVE  HInv'
  <2>1. /\ tail = "replace" /\ tail' = "free" /\ ~Held
        /\ UNCHANGED <<holds, review, save>>
    BY <1>10 DEF ReplaceUnpersisted, HInv, TailOwner, NoHoldDuringReplacement, reviewVars
  <2>2. "pc" \in DOMAIN insp' /\ insp'.pc # "persist"
    BY <1>10 DEF ReplaceUnpersisted, HInv, Shapes
  <2>3. "gen" \in DOMAIN Successor(canRewrite, reconciled).review
    BY DEF Successor, DraftOf, HInv, Shapes
  <2>4. /\ "kind" \in DOMAIN commit' /\ "successor" \in DOMAIN commit'
        /\ commit'.kind = "replace" => "gen" \in DOMAIN commit'.successor.review
    BY <1>10, <2>3 DEF ReplaceUnpersisted, HInv, Shapes
  <2> QED BY <2>1, <2>2, <2>4 DEF HInv, Shapes, TailOwner, NoHoldDuringReplacement, Held,
                                  HoldsAtCurrentGeneration
<1> QED BY <1>1, <1>2, <1>3, <1>4, <1>5, <1>6, <1>7, <1>8, <1>9, <1>10,
           <1>11, <1>12, <1>13, <1>14, <1>15 DEF InspectSteps

(* Other programs change files only.                                       *)
LEMMA OtherProgramsHInv == HInv /\ OtherPrograms => HInv'
<1> SUFFICES ASSUME HInv, OtherPrograms PROVE HInv'
  OBVIOUS
<1>1. ASSUME NEW bytes, NEW inPlace, ExternalWrite(bytes, inPlace) PROVE HInv'
  <2>1. SameBarrier /\ "pc" \in DOMAIN insp' /\ insp'.pc = insp.pc
    BY <1>1, OriginalReplacedStep DEF ExternalWrite, HInv
  <2> QED BY <1>1, <2>1, InspectionStep DEF ExternalWrite, HInv, Shapes, reviewVars
<1>2. ASSUME NEW bytes, ExternalCopyWrite(bytes) PROVE HInv'
  BY <1>2, InspectionStep DEF ExternalCopyWrite, SameBarrier, HInv, Shapes, reviewVars
<1> QED BY <1>1, <1>2 DEF OtherPrograms

(* HInv is inductive: every step of Next preserves it.                     *)
LEMMA NextHInv == HInv /\ [Next]_vars => HInv'
<1>1. HInv /\ UNCHANGED vars => HInv'
  BY DEF vars, HInv, Shapes, TailOwner, NoHoldDuringReplacement, Held, HoldsAtCurrentGeneration
<1> QED BY <1>1, ReviewersHInv, BarriersHInv, DrainHInv, AdmissionsHInv, InspectHInv,
           OtherProgramsHInv DEF Next

(* The inductive invariant holds in every reachable state.                 *)
THEOREM HInvariant == Spec => []HInv
BY InitHInv, NextHInv, PTL DEF Spec

(* begin(), release() and #replaceDocument(): whatever the interleaving, an*)
(* interaction is held against the generation that is shown.               *)
THEOREM HoldsPinGeneration == Spec => []HoldsAtCurrentGeneration
<1>1. HInv => HoldsAtCurrentGeneration
  BY DEF HInv
<1> QED BY <1>1, HInvariant, PTL

-----------------------------------------------------------------------------
(* Most steps keep the generation; the two that commit one meet no hold.   *)
LEMMA GenerationStep ==
  ASSUME HInv, Next
  PROVE  review'.gen = review.gen \/ ~Held
<1> USE DEF HInv, Shapes
<1>1. CASE Reviewers
  <2> USE DEF PersistPlain, Edited, reviewVars
  <2>1. ASSUME NEW items \in ItemSets, Mutate(items) PROVE review'.gen = review.gen
    BY <2>1 DEF Mutate, Accept
  <2>2. CASE PutDraft
    BY <2>2 DEF PutDraft, Accept
  <2>3. ASSUME NEW kind \in Kinds, NEW items \in ItemSets, Establish(kind, items)
        PROVE  review'.gen = review.gen
    BY <2>3 DEF Establish
  <2>4. CASE MarkPristine \/ MarkPristineRefused \/ RetrySave
    BY <2>4 DEF MarkPristine, MarkPristineRefused, RetrySave, Move
  <2>5. ASSUME NEW v \in Views, Begin(v) \/ EndHold(v) PROVE review' = review
    BY <2>5 DEF Begin, EndHold
  <2> QED BY <1>1, <2>1, <2>2, <2>3, <2>4, <2>5 DEF Reviewers
<1>2. CASE Barriers
  <2>1. CASE ResolveSave
    BY <2>1 DEF ResolveSave
  <2>2. CASE ResolveReplacement
    BY <2>2 DEF ResolveReplacement, NoHoldDuringReplacement
  <2> QED BY <1>2, <2>1, <2>2 DEF Barriers
<1>3. CASE DrainSteps
  <2>1. review' = review
    BY <1>3 DEF DrainSteps, DrainTop, DrainEnds, DrainSettled, DrainUnsettled, Freeze,
       DrainBlocked, WriteCandidate, WriteFails, ValidateStale, ValidateMismatch, Validate,
       PublishStale, PublishFails, Publish, ConfirmSaved, ConfirmUnpersisted,
       ConfirmSuperseded, ConfirmUncertain, DrainResolves, DrainFailed, Move, LeaveTail,
       reviewVars
  <2> QED BY <2>1
<1>4. CASE Admissions
  BY <1>4 DEF Admissions, WatchEvent, DropNotification, Tick, HostHint, Observe, RetryTick,
              reviewVars
<1>5. CASE InspectSteps
  <2> USE DEF PersistPlain, RetryLater, reviewVars
  <2>1. CASE InspectStart \/ InspectHash \/ InspectBlocked \/ SettleSuperseded
             \/ InspectMissing \/ InspectStage \/ InspectFails \/ StagedSameConflicts
             \/ StagedSameSuperseded \/ ReplaceAbandoned \/ Replace
    BY <2>1 DEF InspectStart, InspectHash, InspectBlocked, SettleSuperseded, InspectMissing,
       InspectStage, InspectFails, StagedSameConflicts, StagedSameSuperseded, ReplaceAbandoned, Replace
  <2>2. CASE SettleSame
    BY <2>2 DEF SettleSame, Refreshed
  <2>3. CASE StagedSame
    BY <2>3 DEF StagedSame, Refreshed
  <2>4. CASE MarkInvalid
    BY <2>4 DEF MarkInvalid
  <2>5. ASSUME NEW canRewrite \in BOOLEAN, NEW reconciled \in BOOLEAN,
               ReplacePersisted(canRewrite, reconciled)
        PROVE  ~Held
    BY <2>5 DEF ReplacePersisted, TailOwner, NoHoldDuringReplacement
  <2>6. ASSUME NEW canRewrite \in BOOLEAN, NEW reconciled \in BOOLEAN,
               NEW readable \in BOOLEAN,
               ReplaceUnpersisted(canRewrite, reconciled, readable)
        PROVE  review' = review
    BY <2>6 DEF ReplaceUnpersisted
  <2> QED BY <1>5, <2>1, <2>2, <2>3, <2>4, <2>5, <2>6 DEF InspectSteps
<1>6. CASE OtherPrograms
  BY <1>6 DEF OtherPrograms, ExternalWrite, ExternalCopyWrite, reviewVars
<1> QED BY <1>1, <1>2, <1>3, <1>4, <1>5, <1>6 DEF Next

(* #replaceDocument() and barrier.resolve(): no step of any actor moves the*)
(* document to another generation while an interaction is held.            *)
THEOREM GenerationPinned == Spec => GenerationNeverAdvancesUnderAHold
<1>1. HInv /\ [Next]_vars => [review'.gen # review.gen => ~Held]_vars
  BY GenerationStep
<1> QED BY <1>1, HInvariant, PTL DEF Spec, GenerationNeverAdvancesUnderAHold

-----------------------------------------------------------------------------
(* What the assumptions on the bounds give.                                *)
LEMMA Bounds ==
  /\ MaxRev \in Nat /\ MaxDestGen \in Nat /\ MaxGeneration \in Nat /\ 1 \in 1..MaxGeneration
  /\ 0 \in 0..MaxRev /\ 0 \in 0..MaxDestGen
BY BoundsAssumption DEF MaxRev, MaxDestGen

(* The PDFs that other programs and the service write are PDFs.            *)
LEMMA PdfsTyped ==
  /\ \A v \in Versions : External(v) \in Pdfs
  /\ External(FirstVersion) \in Pdfs
  /\ Absent \in Contents /\ Torn \in Contents /\ Pdfs \subseteq Contents
  /\ \A src \in Pdfs, items \in ItemSets : Rendered(src, items) \in Pdfs
BY ItemsAssumption, VersionsAssumption DEF External, Pdfs, Contents, Rendered

(* Records built from typed parts are typed.                               *)
LEMMA DraftTyped ==
  ASSUME NEW r \in Reviews, NEW d \in Destinations, NEW s \in Syncs
  PROVE  DraftOf(r, d, s) \in Drafts
BY DEF DraftOf, Drafts, Reviews

(* ... the digest of a review as well.                                     *)
LEMMA DigestTyped ==
  ASSUME NEW r \in Reviews
  PROVE  Digest(r) \in Digests
BY DEF Digest, Digests, Reviews

(* Every move of the pass and every request leaves a typed record.         *)
LEMMA PassRecords ==
  ASSUME save \in SaveStates
  PROVE  /\ \A pc \in SavePcs : At(pc) \in SaveStates
         /\ \A pc \in SavePcs, b \in BOOLEAN : Parked(pc, b) \in SaveStates
         /\ Requested(save) \in SaveStates
         /\ \A phase : Resumed(save, phase) \in SaveStates
<1>1. NoDelivery \in SaveStates
  BY Bounds, PdfsTyped, ItemsAssumption DEF NoDelivery, SaveStates, SavePcs, Digests, Kinds
<1>2. ASSUME NEW pc \in SavePcs PROVE At(pc) \in SaveStates
  BY <1>2 DEF At, SaveStates
<1>3. ASSUME NEW pc \in SavePcs, NEW b \in BOOLEAN PROVE Parked(pc, b) \in SaveStates
  BY <1>1 DEF Parked, SaveStates
<1>4. Requested(save) \in SaveStates
  <2>1. save.pc \in SavePcs /\ "top" \in SavePcs
    BY DEF SaveStates, SavePcs
  <2> QED BY <2>1 DEF Requested, SaveStates
<1>5. ASSUME NEW phase PROVE Resumed(save, phase) \in SaveStates
  BY <1>4 DEF Resumed
<1> QED BY <1>2, <1>3, <1>4, <1>5

(* However far a persist() gets, a draft stays on disk.                    *)
LEMMA WritesTyped ==
  ASSUME Stored(store), NEW d \in Drafts
  PROVE  /\ Stored(Published(store, d))
         /\ \A s \in FailedWrites(d) : Stored(s)
<1> USE NoDraftAssumption
<1>1. Stored(Rotated(store))
  BY DEF Stored, Rotated
<1>2. Stored(Published(store, d))
  BY <1>1 DEF Stored, Published
<1> QED BY <1>1, <1>2 DEF FailedWrites

(* What a crash brings back is a draft.                                    *)
LEMMA RecoveredTyped ==
  ASSUME Stored(store)
  PROVE  Recovered(store) \in Drafts
BY NoDraftAssumption DEF Stored, Recovered

(* Faults stay within their bound.                                         *)
LEMMA FaultTyped == ASSUME faults \in 0..MaxFaults, Fault PROVE faults' \in 0..MaxFaults
BY BoundsAssumption DEF Fault

(* A persist() with any outcome leaves typed recovery files.               *)
LEMMA PersistTyped ==
  ASSUME StoreTyped, NEW d \in Drafts, PersistPlain(d, TRUE, TRUE)
  PROVE  StoreTyped'
<1>1. Stored(store')
  BY WritesTyped DEF PersistPlain, StoreTyped
<1>2. faults' \in 0..MaxFaults /\ refused' \in SUBSET Drafts
  BY FaultTyped DEF PersistPlain, StoreTyped
<1> QED BY <1>1, <1>2 DEF StoreTyped, Stored

-----------------------------------------------------------------------------
(* The review states and sync states that operations compute.              *)
LEMMA EditedTyped ==
  ASSUME ReviewTyped, MayEdit, NEW items \in ItemSets
  PROVE  /\ Edited(items) \in Reviews
         /\ Edited(items).rev = review.rev + 1
         /\ Edited(items).gen = review.gen
         /\ review.rev + 2 <= events.edits + 1 + review.gen
         /\ events.edits + 1 \in 0..MaxRevision
<1>1. /\ events.edits \in 0..MaxRevision /\ events.edits < MaxRevision
      /\ review.rev \in Nat /\ review.gen \in 1..MaxGeneration
      /\ review.rev + 1 <= events.edits + review.gen
  BY BoundsAssumption DEF ReviewTyped, MayEdit, Reviews, Bounded, MaxRev
<1>2. /\ review.rev + 2 <= events.edits + 1 + review.gen
      /\ events.edits + 1 \in 0..MaxRevision
      /\ review.rev + 1 \in 0..MaxRev
  BY <1>1, BoundsAssumption DEF MaxRev
<1> QED BY <1>2 DEF ReviewTyped, Edited, Reviews

(* Edits stay within their bound.                                          *)
LEMMA AnEditTyped ==
  ASSUME ReviewTyped, MayEdit, AnEdit
  PROVE  /\ events' \in [outside : 0..MaxEvents, edits : 0..MaxRevision]
         /\ events'.edits = events.edits + 1
<1>1. events \in [outside : 0..MaxEvents, edits : 0..MaxRevision]
  BY DEF ReviewTyped
<1>2. events.edits + 1 \in 0..MaxRevision
  BY <1>1, BoundsAssumption DEF MayEdit
<1> QED BY <1>1, <1>2 DEF AnEdit

(* The sync states of an accepted command are typed.                       *)
LEMMA SyncTyped ==
  ASSUME ReviewTyped, NEW r \in Reviews
  PROVE  MutationSync(r) \in Syncs /\ DraftSync(r) \in Syncs
<1>1. Digest(r) \in Digests /\ r.rev \in 0..MaxRev
  BY DigestTyped DEF Reviews
<1> QED BY <1>1 DEF ReviewTyped, MutationSync, DraftSync, Syncs

(* ... that of a committed save,                                           *)
LEMMA CommittedSyncTyped ==
  ASSUME ReviewTyped, NEW rev \in 0..MaxRev, NEW digest \in Digests
  PROVE  CommittedSync(rev, digest) \in Syncs
BY DEF ReviewTyped, CommittedSync, Syncs

(* ... and those of a review known to be current again.                    *)
LEMMA RefreshedTyped ==
  ASSUME ReviewTyped
  PROVE  Refreshed \in Reviews /\ RefreshedSync \in Syncs
         /\ Refreshed.rev = review.rev /\ Refreshed.gen = review.gen
<1>1. Refreshed \in Reviews /\ Refreshed.rev = review.rev /\ Refreshed.gen = review.gen
  BY DEF ReviewTyped, Refreshed, Reviews
<1>2. Digest(Refreshed) \in Digests /\ review.rev \in 0..MaxRev
  BY <1>1, DigestTyped DEF Reviews
<1> QED BY <1>1, <1>2 DEF ReviewTyped, RefreshedSync, Syncs

(* The next generation is typed: the retention policy bounds it.           *)
LEMMA SuccessorTyped ==
  ASSUME ReviewTyped, InspectionTyped, insp.pc = "persist",
         NEW canRewrite \in BOOLEAN, NEW reconciled \in BOOLEAN
  PROVE  /\ Successor(canRewrite, reconciled) \in Drafts
         /\ Bounded(Successor(canRewrite, reconciled).review,
                    Successor(canRewrite, reconciled).dest)
<1> DEFINE r == [review EXCEPT !.rev = @ + 1, !.gen = @ + 1, !.current = TRUE, !.src = insp.bytes]
           d == [dest EXCEPT !.gen = IF dest.active THEN @ + 1 ELSE @]
           s == [sync EXCEPT !.phase = IF d.active /\ canRewrite /\ reconciled
                                       THEN "saving" ELSE "not-saved",
                             !.desRev = r.rev, !.des = Digest(r)]
<1>1. review.gen + 1 \in 1..MaxGeneration /\ insp.bytes \in Pdfs
  BY BoundsAssumption DEF ReviewTyped, InspectionTyped, Reviews
<1>2. review.rev + 1 \in 0..MaxRev
  BY <1>1, BoundsAssumption DEF ReviewTyped, Reviews, Bounded, MaxRev
<1>3. /\ r \in Reviews
      /\ r.rev = review.rev + 1 /\ r.gen = review.gen + 1
  BY <1>1, <1>2 DEF ReviewTyped, Reviews
<1>4. /\ d \in Destinations
      /\ d.gen \in {dest.gen, dest.gen + 1}
  BY <1>1, BoundsAssumption DEF ReviewTyped, Destinations, Bounded, MaxDestGen, Reviews
<1>5. s \in Syncs
  <2>1. Digest(r) \in Digests /\ r.rev \in 0..MaxRev
    BY <1>3, DigestTyped DEF Reviews
  <2> HIDE DEF r, d
  <2> QED BY <2>1 DEF ReviewTyped, Syncs
<1>6. Bounded(r, d)
  BY <1>3, <1>4, BoundsAssumption DEF ReviewTyped, Bounded, Reviews, Destinations
<1>7. Successor(canRewrite, reconciled) = DraftOf(r, d, s)
  BY DEF Successor
<1> HIDE DEF r, d, s
<1> QED BY <1>3, <1>4, <1>5, <1>6, <1>7, DraftTyped DEF DraftOf

-----------------------------------------------------------------------------
(* The review, its destination and its sync through every step.            *)
LEMMA SameReview ==
  ASSUME ReviewTyped, UNCHANGED <<reviewVars, pristine, events>>
  PROVE  ReviewTyped'
BY DEF ReviewTyped, reviewVars, Bounded

(* ... nor does an outside event spend an edit.                            *)
LEMMA SameReviewOutside ==
  ASSUME ReviewTyped, UNCHANGED <<reviewVars, pristine>>, Outside
  PROVE  ReviewTyped'
<1>1. events' \in [outside : 0..MaxEvents, edits : 0..MaxRevision] /\ events'.edits = events.edits
  BY BoundsAssumption DEF ReviewTyped, Outside
<1> QED BY <1>1 DEF ReviewTyped, reviewVars, Bounded

(* A new sync state within the review changes nothing else.                *)
LEMMA NewSync ==
  ASSUME ReviewTyped, UNCHANGED <<review, dest, eligible, events>>,
         pristine' \in {pristine, NotDue}, sync' \in Syncs, originalDigest' \in Pdfs
  PROVE  ReviewTyped'
<1>1. NotDue \in [gen : 0..MaxDestGen, current : BOOLEAN]
  BY Bounds DEF NotDue
<1> QED BY <1>1 DEF ReviewTyped, Bounded

(* ... when the reviewers act,                                             *)
LEMMA ReviewersReview == TInv /\ Reviewers => ReviewTyped'
<1> SUFFICES ASSUME TInv, Reviewers PROVE ReviewTyped'
  OBVIOUS
<1> USE DEF PersistPlain
<1>1. ASSUME NEW items \in ItemSets, NEW s \in Syncs, NEW b,
             Accept(Edited(items), s, b)
      PROVE  ReviewTyped'
  <2>1. MayEdit /\ ReviewTyped /\ UNCHANGED <<dest, originalDigest, eligible, pristine>>
    BY <1>1 DEF Accept, TInv
  <2>2. CASE UNCHANGED <<review, sync, events>>
    BY <2>1, <2>2, SameReview DEF reviewVars
  <2>3. CASE review' = Edited(items) /\ sync' = s /\ AnEdit
    <3>1. /\ events' \in [outside : 0..MaxEvents, edits : 0..MaxRevision]
          /\ events'.edits = events.edits + 1
      BY <2>1, <2>3, AnEditTyped
    <3>2. /\ review' \in Reviews /\ review'.gen = review.gen
          /\ review'.rev + 1 <= events'.edits + review'.gen
      <4>1. events.edits \in Nat /\ review.rev \in Nat /\ review.gen \in Nat
        BY <2>1, Bounds DEF ReviewTyped, Reviews
      <4> QED BY <2>1, <2>3, <3>1, <4>1, EditedTyped
    <3> QED BY <2>1, <2>3, <3>1, <3>2 DEF ReviewTyped, Bounded
  <2> QED BY <1>1, <2>2, <2>3 DEF Accept
<1>2. ASSUME NEW items \in ItemSets, Mutate(items) PROVE ReviewTyped'
  <2>1. MutationSync(Edited(items)) \in Syncs
    BY <1>2, EditedTyped, SyncTyped DEF Mutate, Accept, TInv
  <2> QED BY <1>1, <1>2, <2>1 DEF Mutate
<1>3. CASE PutDraft
  <2>1. review.items \in ItemSets
    BY DEF TInv, ReviewTyped, Reviews
  <2>2. DraftSync(Edited(review.items)) \in Syncs
    BY <1>3, <2>1, EditedTyped, SyncTyped DEF PutDraft, Accept, TInv
  <2> QED BY <1>1, <1>3, <2>1, <2>2 DEF PutDraft
<1>4. ASSUME NEW kind \in Kinds, NEW items \in ItemSets, Establish(kind, items)
      PROVE  ReviewTyped'
  <2> DEFINE r == IF items = review.items THEN review ELSE Edited(items)
             d == [active |-> TRUE, gen |-> dest.gen + 1, kind |-> kind]
             s == [sync EXCEPT !.phase = "saving", !.desRev = r.rev, !.des = Digest(r)]
             untouched == kind = "original" /\ r.rev = 0 /\ r.items = NoItems
  <2>1. UNCHANGED <<originalDigest, eligible>> /\ ReviewTyped
    BY <1>4 DEF Establish, TInv
  <2>2. CASE UNCHANGED <<review, dest, sync, events, pristine>>
    BY <2>1, <2>2, SameReview DEF reviewVars
  <2>3. CASE /\ review' = r /\ dest' = d /\ sync' = s
             /\ IF items = review.items THEN UNCHANGED events ELSE AnEdit
             /\ pristine' = IF untouched THEN [gen |-> d.gen, current |-> r.current] ELSE NotDue
    <3>1. /\ r \in Reviews
          /\ events' \in [outside : 0..MaxEvents, edits : 0..MaxRevision]
          /\ r.rev + 1 <= events'.edits + r.gen
          /\ r.gen = review.gen
      <4>1. CASE items = review.items
        BY <2>1, <2>3, <4>1 DEF ReviewTyped, Bounded
      <4>2. CASE items # review.items
        <5>1. MayEdit /\ AnEdit
          BY <1>4, <2>3, <4>2 DEF Establish
        <5>2. /\ events' \in [outside : 0..MaxEvents, edits : 0..MaxRevision]
              /\ events'.edits = events.edits + 1
          BY <2>1, <5>1, AnEditTyped
        <5>3. events.edits \in Nat /\ review.rev \in Nat /\ review.gen \in Nat
          BY <2>1, Bounds DEF ReviewTyped, Reviews
        <5>4. r = Edited(items)
          BY <4>2
        <5> HIDE DEF r
        <5> QED BY <2>1, <5>1, <5>2, <5>3, <5>4, EditedTyped
      <4> QED BY <4>1, <4>2
    <3>2. dest.gen \in Nat /\ dest.gen - (review.gen - 1) < MaxDestinations
          /\ review.gen \in 1..MaxGeneration
      BY <1>4, <2>1, Bounds DEF Establish, ReviewTyped, Destinations, Reviews
    <3>3. dest.gen + 1 \in 0..MaxDestGen /\ dest.gen + 1 <= MaxDestinations + review.gen
      BY <3>2, BoundsAssumption DEF MaxDestGen
    <3>4. s \in Syncs
      <4>1. Digest(r) \in Digests /\ r.rev \in 0..MaxRev
        BY <3>1, DigestTyped DEF Reviews
      <4> HIDE DEF r
      <4> QED BY <2>1, <4>1 DEF ReviewTyped, Syncs
    <3>5. pristine' \in [gen : 0..MaxDestGen, current : BOOLEAN]
      <4>1. r.current \in BOOLEAN
        BY <3>1 DEF Reviews
      <4> HIDE DEF r
      <4> QED BY <2>3, <3>3, <4>1, Bounds DEF NotDue
    <3>6. d \in Destinations
      BY <3>3 DEF Destinations
    <3> HIDE DEF r, s
    <3> QED BY <2>1, <2>3, <3>1, <3>3, <3>4, <3>5, <3>6 DEF ReviewTyped, Bounded
  <2> QED BY <1>4, <2>2, <2>3 DEF Establish
<1>5. CASE MarkPristine
  <2> DEFINE digest == [gen |-> review.gen, current |-> pristine.current, items |-> NoItems]
  <2>1. CommittedSync(0, digest) \in Syncs
    <3>1. digest \in Digests
      BY ItemsAssumption DEF TInv, ReviewTyped, Reviews, Digests
    <3> QED BY <3>1, Bounds, CommittedSyncTyped DEF TInv
  <2>2. sync' \in {sync, CommittedSync(0, digest)} /\ originalDigest' \in {originalDigest, review.src}
        /\ UNCHANGED <<review, dest, eligible, events>> /\ pristine' = NotDue
    BY <1>5 DEF MarkPristine
  <2>3. sync' \in Syncs /\ originalDigest' \in Pdfs
    BY <2>1, <2>2 DEF TInv, ReviewTyped, Reviews
  <2> QED BY <2>2, <2>3, NewSync DEF TInv
<1>6. CASE MarkPristineRefused
  BY <1>6, NewSync DEF MarkPristineRefused, TInv, ReviewTyped, reviewVars, diskVars
<1>7. ASSUME NEW v \in Views, Begin(v) \/ EndHold(v) PROVE ReviewTyped'
  BY <1>7, SameReview DEF Begin, EndHold, TInv, diskVars
<1>8. CASE RetrySave
  BY <1>8, SameReview DEF RetrySave, Move, TInv, diskVars
<1> QED BY <1>2, <1>3, <1>4, <1>5, <1>6, <1>7, <1>8 DEF Reviewers

(* The successor of a settled save is typed.                               *)
LEMMA SettledSync ==
  ASSUME TInv, NEW a, NEW b, NEW c, SettleSave(a, b, c)
  PROVE  sync' \in Syncs /\ originalDigest' \in Pdfs
<1>1. /\ commit.successor.sync \in Syncs
      /\ commit.bytes \in Pdfs
      /\ sync \in Syncs /\ originalDigest \in Pdfs
  BY DEF SettleSave, TInv, BarrierTyped, ReviewTyped, Drafts
<1>2. /\ sync' \in {sync, commit.successor.sync}
      /\ originalDigest' \in {originalDigest, commit.bytes}
  BY DEF SettleSave, ApplySave
<1> QED BY <1>1, <1>2

(* ... when a commit barrier is settled,                                   *)
LEMMA BarriersReview == TInv /\ Barriers => ReviewTyped'
<1> SUFFICES ASSUME TInv, Barriers PROVE ReviewTyped'
  OBVIOUS
<1>1. CASE ResolveSave
  BY <1>1, SettledSync, NewSync DEF ResolveSave, TInv
<1>2. CASE ResolveReplacement
  <2>1. UNCHANGED <<pristine, events>> /\ commit.kind = "replace"
    BY <1>2 DEF ResolveReplacement, diskVars
  <2>2. CASE UNCHANGED reviewVars
    BY <2>1, <2>2, SameReview DEF TInv
  <2>3. CASE ActivateGeneration(commit.successor, commit.bytes, commit.eligible, commit.newest)
    <3>1. /\ commit.successor \in Drafts /\ commit.bytes \in Pdfs /\ commit.eligible \in BOOLEAN
          /\ Bounded(commit.successor.review, commit.successor.dest)
      BY <2>1 DEF TInv, BarrierTyped, CommitBarriers
    <3> QED BY <2>1, <2>3, <3>1 DEF ActivateGeneration, TInv, ReviewTyped, Drafts, Bounded
  <2> QED BY <1>2, <2>2, <2>3 DEF ResolveReplacement
<1> QED BY <1>1, <1>2 DEF Barriers

(* ... when the drain moves,                                               *)
LEMMA DrainReview == TInv /\ DrainSteps => ReviewTyped'
<1> SUFFICES ASSUME TInv, DrainSteps PROVE ReviewTyped'
  OBVIOUS
<1>1. CASE UNCHANGED <<reviewVars, pristine, events>>
  BY <1>1, SameReview DEF TInv
<1>2. CASE ConfirmSaved
  <2>1. sync' = CommittedSync(save.rev, save.digest)
        /\ originalDigest' \in {originalDigest, SaveBytes}
        /\ UNCHANGED <<review, dest, eligible, events, pristine>>
    BY <1>2 DEF ConfirmSaved, ApplySave, SavedDraft, DraftOf
  <2>2. sync' \in Syncs
    BY <2>1, CommittedSyncTyped DEF TInv, PassTyped, SaveStates
  <2>3. SaveBytes \in Pdfs
    BY PdfsTyped DEF SaveBytes, TInv, PassTyped, SaveStates
  <2> QED BY <2>1, <2>2, <2>3, NewSync DEF TInv, ReviewTyped
<1>3. CASE DrainResolves
  <2>1. SettleSave(NextPass(commit.successor.sync.phase = "saving"), At("failed"), NextPass(FALSE))
        /\ UNCHANGED <<review, dest, eligible, pristine, events>>
    BY <1>3 DEF DrainResolves
  <2> QED BY <2>1, SettledSync, NewSync DEF TInv
<1>4. CASE DrainFailed
  <2>1. sync' \in {sync, [sync EXCEPT !.phase = "not-saved", !.desRev = review.rev]}
        /\ UNCHANGED <<review, dest, originalDigest, eligible, pristine, events>>
    BY <1>4 DEF DrainFailed, PersistPlain, diskVars
  <2>2. sync' \in Syncs
    BY <2>1 DEF TInv, ReviewTyped, Syncs, Reviews
  <2> QED BY <2>1, <2>2, NewSync DEF TInv, ReviewTyped
<1> QED BY <1>1, <1>2, <1>3, <1>4 DEF DrainSteps, DrainTop, DrainEnds, DrainSettled, DrainUnsettled,
      Freeze, DrainBlocked, WriteCandidate, WriteFails, ValidateStale, ValidateMismatch, Validate,
      PublishStale, PublishFails, Publish, ConfirmUnpersisted, ConfirmSuperseded,
      ConfirmUncertain, Move, LeaveTail, reviewVars, diskVars

(* ... when something outside happens,                                     *)
LEMMA ObserverReview == TInv /\ (Admissions \/ OtherPrograms) => ReviewTyped'
<1> SUFFICES ASSUME TInv, Admissions \/ OtherPrograms PROVE ReviewTyped'
  OBVIOUS
<1>1. UNCHANGED <<reviewVars, pristine>> /\ (Outside \/ UNCHANGED events)
  BY DEF Admissions, OtherPrograms, WatchEvent, DropNotification, Tick, HostHint, RetryTick,
         Observe, ExternalWrite, ExternalCopyWrite, reviewVars, diskVars
<1> QED BY <1>1, SameReview, SameReviewOutside DEF TInv

(* ... and when the observer inspects.                                     *)
LEMMA InspectReview == TInv /\ InspectSteps => ReviewTyped'
<1> SUFFICES ASSUME TInv, InspectSteps PROVE ReviewTyped'
  OBVIOUS
<1> USE DEF PersistPlain
<1>1. CASE UNCHANGED <<reviewVars, pristine, events>>
  BY <1>1, SameReview DEF TInv
<1>2. CASE SettleSame \/ StagedSame
  <2>1. /\ UNCHANGED <<dest, originalDigest, eligible, pristine, events>>
        /\ \/ UNCHANGED <<review, sync>>
           \/ review' = Refreshed /\ sync' = RefreshedSync
    BY <1>2 DEF SettleSame, StagedSame
  <2> QED BY <2>1, RefreshedTyped DEF TInv, ReviewTyped, Bounded
<1>3. CASE MarkInvalid
  <2> DEFINE r == [review EXCEPT !.current = FALSE]
             s == IF review.current
                  THEN [sync EXCEPT !.phase = "not-saved", !.desRev = review.rev, !.des = Digest(r)]
                  ELSE sync
  <2>1. /\ UNCHANGED <<dest, originalDigest, eligible, pristine, events>>
        /\ \/ UNCHANGED <<review, sync>>
           \/ review' = r /\ sync' = s
    BY <1>3 DEF MarkInvalid, diskVars
  <2>2. r \in Reviews /\ r.rev = review.rev /\ r.gen = review.gen
    BY DEF TInv, ReviewTyped, Reviews
  <2>3. s \in Syncs
    <3>1. Digest(r) \in Digests /\ review.rev \in 0..MaxRev
      BY <2>2, DigestTyped DEF Reviews
    <3> HIDE DEF r
    <3> QED BY <3>1 DEF TInv, ReviewTyped, Syncs
  <2> HIDE DEF r, s
  <2> QED BY <2>1, <2>2, <2>3 DEF TInv, ReviewTyped, Bounded
<1>4. ASSUME NEW canRewrite \in BOOLEAN, NEW reconciled \in BOOLEAN,
             ReplacePersisted(canRewrite, reconciled)
      PROVE  ReviewTyped'
  <2>1. /\ UNCHANGED <<pristine, events>> /\ insp.pc = "persist" /\ insp.bytes \in Pdfs
        /\ ActivateGeneration(Successor(canRewrite, reconciled), insp.bytes, canRewrite, insp.newest)
    BY <1>4 DEF ReplacePersisted, diskVars, TInv, InspectionTyped
  <2> QED BY <2>1, SuccessorTyped DEF ActivateGeneration, TInv, ReviewTyped, Drafts, Bounded
<1> QED BY <1>1, <1>2, <1>3, <1>4 DEF InspectSteps, InspectStart, InspectHash, InspectBlocked,
      SettleSuperseded, InspectMissing, InspectStage, InspectFails, StagedSameConflicts,
      StagedSameSuperseded, ReplaceAbandoned, Replace, ReplaceUnpersisted, RetryLater,
      reviewVars, diskVars

-----------------------------------------------------------------------------
(* The recovery files through every step.                                  *)
LEMMA SameStore ==
  ASSUME StoreTyped, UNCHANGED <<store, refused>>, faults' = faults \/ Fault
  PROVE  StoreTyped'
BY FaultTyped DEF StoreTyped, Stored

(* The recovery files through every step of the reviewers,                 *)
LEMMA ReviewersStore == TInv /\ Reviewers => StoreTyped'
<1> SUFFICES ASSUME TInv, Reviewers PROVE StoreTyped'
  OBVIOUS
<1> USE DEF PersistPlain
<1>0. ReviewTyped /\ StoreTyped
  BY DEF TInv
<1>1. ASSUME NEW items \in ItemSets, Mutate(items) PROVE StoreTyped'
  <2>1. DraftOf(Edited(items), dest, MutationSync(Edited(items))) \in Drafts
    BY <1>0, <1>1, EditedTyped, SyncTyped, DraftTyped DEF Mutate, Accept, ReviewTyped
  <2> QED BY <1>0, <1>1, <2>1, PersistTyped DEF Mutate, Accept
<1>2. CASE PutDraft
  <2>1. review.items \in ItemSets
    BY <1>0 DEF ReviewTyped, Reviews
  <2>2. DraftOf(Edited(review.items), dest, DraftSync(Edited(review.items))) \in Drafts
    BY <1>0, <1>2, <2>1, EditedTyped, SyncTyped, DraftTyped DEF PutDraft, Accept, ReviewTyped
  <2> QED BY <1>0, <1>2, <2>2, PersistTyped DEF PutDraft, Accept
<1>3. ASSUME NEW kind \in Kinds, NEW items \in ItemSets, Establish(kind, items)
      PROVE  StoreTyped'
  <2> DEFINE r == IF items = review.items THEN review ELSE Edited(items)
             d == [active |-> TRUE, gen |-> dest.gen + 1, kind |-> kind]
             s == [sync EXCEPT !.phase = "saving", !.desRev = r.rev, !.des = Digest(r)]
  <2>1. r \in Reviews
    BY <1>0, <1>3, EditedTyped DEF Establish, ReviewTyped
  <2>2. d \in Destinations
    <3>1. dest.gen \in Nat /\ dest.gen - (review.gen - 1) < MaxDestinations
          /\ review.gen \in 1..MaxGeneration
      BY <1>0, <1>3, Bounds DEF Establish, ReviewTyped, Destinations, Reviews
    <3>2. dest.gen + 1 \in 0..MaxDestGen
      BY <3>1, BoundsAssumption DEF MaxDestGen
    <3> QED BY <3>2 DEF Destinations
  <2>3. s \in Syncs
    <3>1. Digest(r) \in Digests /\ r.rev \in 0..MaxRev
      BY <2>1, DigestTyped DEF Reviews
    <3> HIDE DEF r
    <3> QED BY <1>0, <3>1 DEF ReviewTyped, Syncs
  <2>4. PersistPlain(DraftOf(r, d, s), TRUE, TRUE)
    BY <1>3 DEF Establish
  <2> HIDE DEF r, d, s
  <2> QED BY <1>0, <2>1, <2>2, <2>3, <2>4, DraftTyped, PersistTyped
<1>4. CASE MarkPristine
  <2> DEFINE digest == [gen |-> review.gen, current |-> pristine.current, items |-> NoItems]
  <2>1. DraftOf(review, dest, CommittedSync(0, digest)) \in Drafts
    <3>1. digest \in Digests
      BY <1>0, ItemsAssumption DEF ReviewTyped, Reviews, Digests
    <3>2. CommittedSync(0, digest) \in Syncs
      BY <1>0, <3>1, Bounds, CommittedSyncTyped
    <3> QED BY <1>0, <3>2, DraftTyped DEF ReviewTyped
  <2>2. \/ UNCHANGED <<store, refused, faults>>
        \/ PersistPlain(DraftOf(review, dest, CommittedSync(0, digest)), TRUE, TRUE)
    BY <1>4 DEF MarkPristine
  <2> HIDE DEF digest
  <2> QED BY <1>0, <2>1, <2>2, PersistTyped, SameStore
<1>5. CASE MarkPristineRefused \/ RetrySave
  BY <1>0, <1>5, SameStore DEF MarkPristineRefused, RetrySave, Move
<1>6. ASSUME NEW v \in Views, Begin(v) \/ EndHold(v) PROVE StoreTyped'
  BY <1>0, <1>6, SameStore DEF Begin, EndHold
<1> QED BY <1>1, <1>2, <1>3, <1>4, <1>5, <1>6 DEF Reviewers

(* ... when an uncertain save is settled,                                  *)
LEMMA SettledStore ==
  ASSUME TInv, NEW a, NEW b, NEW c, SettleSave(a, b, c)
  PROVE  StoreTyped'
<1>1. StoreTyped /\ commit.successor \in Drafts
  BY DEF SettleSave, TInv, BarrierTyped
<1>2. Stored(store')
  BY <1>1, WritesTyped DEF SettleSave, StoreTyped
<1>3. faults' \in 0..MaxFaults
  BY <1>1, FaultTyped DEF SettleSave, StoreTyped
<1>4. refused' \in SUBSET Drafts
  <2>1. AtLess(commit.successor) \in Drafts
    BY <1>1 DEF AtLess, Drafts
  <2> QED BY <1>1, <2>1 DEF SettleSave, StoreTyped
<1> QED BY <1>2, <1>3, <1>4 DEF StoreTyped, Stored

(* ... by whoever needs the session tail,                                  *)
LEMMA BarriersStore == TInv /\ Barriers => StoreTyped'
BY SettledStore, SameStore DEF Barriers, ResolveSave, ResolveReplacement, TInv

(* The draft that records a save is a draft.                               *)
LEMMA SavedDraftTyped ==
  ASSUME TInv
  PROVE  SavedDraft \in Drafts
<1>1. CommittedSync(save.rev, save.digest) \in Syncs
  BY CommittedSyncTyped DEF TInv, PassTyped, SaveStates
<1>2. DraftOf(review, dest, CommittedSync(save.rev, save.digest)) \in Drafts
  BY <1>1, DraftTyped DEF TInv, ReviewTyped
<1>3. (~Recovered(store).at) \in BOOLEAN
  OBVIOUS
<1> QED BY <1>2, <1>3 DEF SavedDraft, Drafts

(* ... when the drain moves,                                               *)
LEMMA DrainStore == TInv /\ DrainSteps => StoreTyped'
<1> SUFFICES ASSUME TInv, DrainSteps PROVE StoreTyped'
  OBVIOUS
<1>0. ReviewTyped /\ StoreTyped
  BY DEF TInv
<1>1. CASE UNCHANGED <<store, refused>> /\ (faults' = faults \/ Fault)
  BY <1>0, <1>1, SameStore
<1>2. CASE ConfirmSaved \/ ConfirmUnpersisted
  <2>1. /\ store' \in {Published(store, SavedDraft)} \cup FailedWrites(SavedDraft)
        /\ UNCHANGED refused /\ (faults' = faults \/ Fault)
    BY <1>2 DEF ConfirmSaved, ConfirmUnpersisted
  <2>2. Stored(store')
    BY <1>0, <2>1, SavedDraftTyped, WritesTyped DEF StoreTyped
  <2> QED BY <1>0, <2>1, <2>2, FaultTyped DEF StoreTyped, Stored
<1>3. CASE DrainResolves
  BY <1>3, SettledStore DEF DrainResolves
<1>4. CASE DrainFailed
  <2> DEFINE s == [sync EXCEPT !.phase = "not-saved", !.desRev = review.rev]
  <2>1. DraftOf(review, dest, s) \in Drafts
    <3>1. s \in Syncs
      BY <1>0 DEF ReviewTyped, Syncs, Reviews
    <3> QED BY <1>0, <3>1, DraftTyped DEF ReviewTyped
  <2>2. UNCHANGED <<store, refused, faults>> \/ PersistPlain(DraftOf(review, dest, s), TRUE, TRUE)
    BY <1>4 DEF DrainFailed, PersistPlain
  <2> HIDE DEF s
  <2> QED BY <1>0, <2>1, <2>2, PersistTyped, SameStore
<1> QED BY <1>1, <1>2, <1>3, <1>4 DEF DrainSteps, DrainTop, DrainEnds, DrainSettled, DrainUnsettled,
      Freeze, DrainBlocked, WriteCandidate, WriteFails, ValidateStale, ValidateMismatch, Validate,
      PublishStale, PublishFails, Publish, ConfirmSuperseded, ConfirmUncertain, Move, LeaveTail

(* ... when something outside happens,                                     *)
LEMMA ObserverStore == TInv /\ (Admissions \/ OtherPrograms) => StoreTyped'
<1> SUFFICES ASSUME TInv, Admissions \/ OtherPrograms PROVE StoreTyped'
  OBVIOUS
<1>1. UNCHANGED <<store, refused, faults>>
  BY DEF Admissions, OtherPrograms, WatchEvent, DropNotification, Tick, HostHint, RetryTick,
         Observe, ExternalWrite, ExternalCopyWrite
<1> QED BY <1>1, SameStore DEF TInv

(* ... and when the observer inspects.                                     *)
LEMMA InspectStore == TInv /\ InspectSteps => StoreTyped'
<1> SUFFICES ASSUME TInv, InspectSteps PROVE StoreTyped'
  OBVIOUS
<1>0. ReviewTyped /\ StoreTyped
  BY DEF TInv
<1>1. CASE UNCHANGED <<store, refused>> /\ (faults' = faults \/ Fault)
  BY <1>0, <1>1, SameStore
<1>2. CASE SettleSame \/ StagedSame
  <2>1. DraftOf(Refreshed, dest, RefreshedSync) \in Drafts
    BY <1>0, RefreshedTyped, DraftTyped DEF ReviewTyped
  <2>2. UNCHANGED <<store, refused, faults>>
        \/ PersistPlain(DraftOf(Refreshed, dest, RefreshedSync), TRUE, TRUE)
    BY <1>2 DEF SettleSame, StagedSame, PersistPlain
  <2> QED BY <1>0, <2>1, <2>2, PersistTyped, SameStore
<1>3. CASE MarkInvalid
  <2> DEFINE r == [review EXCEPT !.current = FALSE]
             s == IF review.current
                  THEN [sync EXCEPT !.phase = "not-saved", !.desRev = review.rev, !.des = Digest(r)]
                  ELSE sync
  <2>1. r \in Reviews
    BY <1>0 DEF ReviewTyped, Reviews
  <2>2. s \in Syncs
    <3>1. Digest(r) \in Digests /\ review.rev \in 0..MaxRev
      BY <1>0, <2>1, DigestTyped DEF ReviewTyped, Reviews
    <3> HIDE DEF r
    <3> QED BY <1>0, <3>1 DEF ReviewTyped, Syncs
  <2>3. UNCHANGED <<store, refused, faults>> \/ PersistPlain(DraftOf(r, dest, s), TRUE, TRUE)
    BY <1>3 DEF MarkInvalid, PersistPlain
  <2> HIDE DEF r, s
  <2> QED BY <1>0, <2>1, <2>2, <2>3, DraftTyped, PersistTyped, SameStore DEF ReviewTyped
<1>4. CASE InspectMissing
  <2>1. Draft \in Drafts
    BY <1>0, DraftTyped DEF ReviewTyped, Draft
  <2> QED BY <1>0, <1>4, <2>1, PersistTyped DEF InspectMissing
<1>5. ASSUME NEW canRewrite \in BOOLEAN, NEW reconciled \in BOOLEAN, NEW readable,
             \/ ReplacePersisted(canRewrite, reconciled)
             \/ ReplaceUnpersisted(canRewrite, reconciled, readable)
      PROVE  StoreTyped'
  <2>1. Successor(canRewrite, reconciled) \in Drafts
    BY <1>5, SuccessorTyped DEF ReplacePersisted, ReplaceUnpersisted, TInv
  <2>2. Stored(store')
    BY <1>0, <1>5, <2>1, WritesTyped DEF ReplacePersisted, ReplaceUnpersisted, StoreTyped
  <2> QED BY <1>0, <1>5, <2>2, FaultTyped
          DEF ReplacePersisted, ReplaceUnpersisted, StoreTyped, Stored
<1> QED BY <1>1, <1>2, <1>3, <1>4, <1>5 DEF InspectSteps, InspectStart, InspectHash, InspectBlocked,
      SettleSuperseded, InspectStage, InspectFails, StagedSameConflicts,
      StagedSameSuperseded, ReplaceAbandoned, Replace, RetryLater

-----------------------------------------------------------------------------
(* The inspection through every step.                                      *)
Outdated ==
  insp' \in {insp, [insp EXCEPT !.newest = FALSE],
             [insp EXCEPT !.same = FALSE, !.staged = FALSE]}

(* An inspection that is only outdated stays typed.                        *)
LEMMA OutdatedTyped ==
  ASSUME InspectionTyped, Outdated, review'.gen = review.gen \/ insp.pc # "persist"
  PROVE  InspectionTyped'
<1>1. insp' \in InspectionStates
  BY DEF InspectionTyped, Outdated, InspectionStates
<1>2. insp'.pc = insp.pc /\ insp'.bytes = insp.bytes /\ insp'.gen = insp.gen
  BY DEF InspectionTyped, Outdated, InspectionStates
<1> QED BY <1>1, <1>2 DEF InspectionTyped

(* No one else moves an inspection, or the generation under its commit.    *)
LEMMA OutsideInspection ==
  ASSUME HInv, TInv, Reviewers \/ Barriers \/ DrainSteps \/ Admissions \/ OtherPrograms
  PROVE  Outdated /\ (review'.gen = review.gen \/ insp.pc # "persist")
<1> USE DEF HInv, Shapes, PersistPlain, reviewVars, diskVars, Outdated, Raise, Admit, OriginalReplaced
<1>1. CASE Reviewers
  <2>1. ASSUME NEW items \in ItemSets, Mutate(items)
        PROVE  UNCHANGED insp /\ review'.gen = review.gen
    BY <2>1 DEF Mutate, Accept, Edited
  <2>2. CASE PutDraft
    BY <2>2 DEF PutDraft, Accept, Edited
  <2>3. ASSUME NEW kind \in Kinds, NEW items \in ItemSets, Establish(kind, items)
        PROVE  UNCHANGED insp /\ review'.gen = review.gen
    BY <2>3 DEF Establish, Edited
  <2>4. CASE MarkPristine \/ MarkPristineRefused \/ RetrySave
    BY <2>4 DEF MarkPristine, MarkPristineRefused, RetrySave, Move
  <2>5. ASSUME NEW v \in Views, Begin(v) \/ EndHold(v)
        PROVE  Outdated /\ review'.gen = review.gen
    BY <2>5 DEF Begin, EndHold
  <2> QED BY <1>1, <2>1, <2>2, <2>3, <2>4, <2>5 DEF Reviewers
<1>2. CASE Barriers
  <2>1. UNCHANGED insp /\ tail = "free"
    BY <1>2 DEF Barriers, ResolveSave, ResolveReplacement
  <2> QED BY <2>1 DEF TailOwner
<1>3. CASE DrainSteps
  BY <1>3 DEF DrainSteps, DrainTop, DrainEnds, DrainSettled, DrainUnsettled, Freeze,
       DrainBlocked, WriteCandidate, WriteFails, ValidateStale, ValidateMismatch, Validate,
       PublishStale, PublishFails, Publish, ConfirmSaved, ConfirmUnpersisted,
       ConfirmSuperseded, ConfirmUncertain, DrainResolves, DrainFailed, Move, LeaveTail
<1>4. CASE Admissions
  BY <1>4 DEF Admissions, WatchEvent, DropNotification, Tick, HostHint, Observe, RetryTick
<1>5. CASE OtherPrograms
  BY <1>5 DEF OtherPrograms, ExternalWrite, ExternalCopyWrite
<1> QED BY <1>1, <1>2, <1>3, <1>4, <1>5

(* No inspection is a typed inspection.                                    *)
LEMMA NoInspectionTyped ==
  ASSUME insp' = NoInspection
  PROVE  InspectionTyped'
BY Bounds, PdfsTyped DEF InspectionTyped, InspectionStates, NoInspection, InspPcs

(* The inspection moves on: only a candidate that is a PDF and fits the    *)
(* retention budget reaches the commit section.                            *)
LEMMA InspectInspection == HInv /\ TInv /\ InspectSteps => InspectionTyped'
<1> SUFFICES ASSUME HInv, TInv, InspectSteps PROVE InspectionTyped'
  OBVIOUS
<1>0. insp \in InspectionStates /\ review.gen \in 1..MaxGeneration /\ Original \in Contents
  BY DEF TInv, InspectionTyped, ReviewTyped, Reviews, DiskTyped, Original, Kinds
<1> USE DEF PersistPlain, reviewVars, diskVars, OutcomeCurrent, OutcomeRetry, RetryLater
<1>1. CASE insp' = NoInspection
  BY <1>1, NoInspectionTyped
<1>2. CASE InspectStart
  <2>1. CASE insp' = [NoInspection EXCEPT !.pc = "hash", !.newest = TRUE, !.same = TRUE]
    BY <2>1, Bounds, PdfsTyped DEF InspectionTyped, InspectionStates, NoInspection, InspPcs
  <2>2. CASE UNCHANGED <<insp, review>>
    BY <2>2, OutdatedTyped DEF Outdated, TInv
  <2> QED BY <1>2, <2>1, <2>2 DEF InspectStart
<1>3. CASE InspectHash
  <2>1. insp' \in {[insp EXCEPT !.pc = "sameDigest", !.bytes = Original],
                   [insp EXCEPT !.pc = "stage"]}
    BY <1>3 DEF InspectHash
  <2> QED BY <1>0, <2>1 DEF InspectionTyped, InspectionStates, InspPcs
<1>4. CASE InspectStage
  <2>1. /\ Present /\ UNCHANGED review
        /\ \/ insp' = NoInspection
           \/ insp' = [insp EXCEPT !.gen = review.gen, !.bytes = Original, !.staged = TRUE,
                     !.pc = IF Original = originalDigest THEN "stagedSame"
                            ELSE IF IngestionFails(Original) THEN "invalid"
                            ELSE IF RetentionRejects(review.gen) THEN "retained"
                            ELSE "replace"]
    BY <1>4 DEF InspectStage
  <2>2. ~IngestionFails(Original) => Original \in Pdfs
    BY <1>0, <2>1 DEF Contents, Present, IngestionFails
  <2>3. ~RetentionRejects(review.gen) => review.gen < MaxGeneration
    BY <1>0, Bounds DEF RetentionRejects
  <2> QED BY <1>0, <1>1, <2>1, <2>2, <2>3 DEF InspectionTyped, InspectionStates, InspPcs
<1>5. CASE InspectFails
  BY <1>0, <1>5 DEF InspectFails, InspectionTyped, InspectionStates, InspPcs
<1>6. CASE Replace
  BY <1>0, <1>6 DEF Replace, TInv, InspectionTyped, InspectionStates, InspPcs
<1>7. ASSUME NEW canRewrite \in BOOLEAN, NEW reconciled \in BOOLEAN, NEW readable \in BOOLEAN,
             ReplaceUnpersisted(canRewrite, reconciled, readable)
      PROVE  InspectionTyped'
  <2>1. insp' = [insp EXCEPT !.pc = "invalid"] \/ insp' = NoInspection
    BY <1>7 DEF ReplaceUnpersisted
  <2> QED BY <1>0, <1>1, <2>1 DEF InspectionTyped, InspectionStates, InspPcs
<1> QED BY <1>1, <1>2, <1>3, <1>4, <1>5, <1>6, <1>7 DEF InspectSteps, InspectBlocked,
      SettleSuperseded, SettleSame, InspectMissing, StagedSameConflicts, StagedSameSuperseded,
      StagedSame, MarkInvalid, ReplaceAbandoned, ReplacePersisted

(* The inspection through every step.                                      *)
LEMMA InspectionStepTyped == HInv /\ TInv /\ Next => InspectionTyped'
BY OutsideInspection, OutdatedTyped, InspectInspection DEF Next, TInv

-----------------------------------------------------------------------------
(* The commit barrier through every step.                                  *)
OutdatedBarrier ==
  commit' \in {commit, NoCommit, [commit EXCEPT !.newest = FALSE], [commit EXCEPT !.staged = FALSE]}

(* A barrier that is only outdated, or gone, stays typed.                  *)
LEMMA OutdatedBarrierTyped ==
  ASSUME BarrierTyped, OutdatedBarrier, events.edits \in Nat,
         events' = events \/ (events'.edits \in {events.edits, events.edits + 1})
  PROVE  BarrierTyped'
<1>1. CASE commit' = NoCommit
  BY <1>1, PdfsTyped DEF BarrierTyped, NoCommit, CommitBarriers
<1>2. CASE commit' # NoCommit
  <2>1. commit' \in CommitBarriers
    BY <1>2 DEF BarrierTyped, OutdatedBarrier, CommitBarriers
  <2>2. commit'.kind = commit.kind /\ commit'.successor = commit.successor
        /\ commit'.bytes = commit.bytes
    BY <1>2 DEF BarrierTyped, OutdatedBarrier, CommitBarriers
  <2>3. ASSUME commit.kind = "replace"
        PROVE  Bounded(commit.successor.review, commit.successor.dest)'
    <3>1. commit.successor.review.rev \in Nat /\ commit.successor.review.gen \in Nat
      BY <2>3, Bounds DEF BarrierTyped, Drafts, Reviews
    <3> QED BY <2>2, <2>3, <3>1 DEF BarrierTyped, Bounded
  <2> QED BY <2>1, <2>2, <2>3 DEF BarrierTyped
<1> QED BY <1>1, <1>2

(* A reviewer's command at most asks for another pass, and edits at most   *)
(* once.                                                                   *)
LEMMA ReviewersRequest ==
  ASSUME Reviewers
  PROVE  save' \in {save, Requested(save)} /\ (events' = events \/ AnEdit)
<1>1. ASSUME NEW r, NEW s, NEW requests, Accept(r, s, requests)
      PROVE  save' \in {save, Requested(save)} /\ (events' = events \/ AnEdit)
  BY <1>1 DEF Accept, PersistPlain
<1>2. CASE PutDraft \/ \E items \in ItemSets : Mutate(items)
  <2>1. CASE PutDraft
    BY <1>1, <2>1 DEF PutDraft
  <2>2. CASE \E items \in ItemSets : Mutate(items)
    BY <1>1, <2>2 DEF Mutate
  <2> QED BY <1>2, <2>1, <2>2
<1>3. ASSUME NEW kind \in Kinds, NEW items \in ItemSets, Establish(kind, items)
      PROVE  save' \in {save, Requested(save)} /\ (events' = events \/ AnEdit)
  BY <1>3 DEF Establish, PersistPlain
<1>4. CASE MarkPristine \/ MarkPristineRefused
  BY <1>4 DEF MarkPristine, MarkPristineRefused, diskVars
<1>5. CASE (\E v \in Views : Begin(v) \/ EndHold(v)) \/ RetrySave
  BY <1>5 DEF Begin, EndHold, RetrySave, Move, diskVars
<1> QED BY <1>2, <1>3, <1>4, <1>5 DEF Reviewers

(* An edit is counted once, and nothing takes one back.                    *)
LEMMA NextEdits ==
  ASSUME TInv, Next
  PROVE  events.edits \in Nat
         /\ (events' = events \/ events'.edits \in {events.edits, events.edits + 1})
<1>1. events \in [outside : 0..MaxEvents, edits : 0..MaxRevision]
  BY DEF TInv, ReviewTyped
<1>2. events' = events \/ Outside \/ AnEdit
  <2>1. CASE Reviewers
    BY <2>1, ReviewersRequest
  <2>2. CASE Barriers
    BY <2>2 DEF Barriers, ResolveSave, ResolveReplacement, diskVars
  <2>3. CASE DrainSteps
    <3>1. CASE \/ DrainTop \/ DrainEnds \/ DrainSettled \/ DrainUnsettled \/ Freeze
               \/ DrainBlocked \/ WriteCandidate \/ WriteFails \/ ValidateStale
               \/ ValidateMismatch
      BY <3>1 DEF DrainTop, DrainEnds, DrainSettled, DrainUnsettled, Freeze, DrainBlocked,
         WriteCandidate, WriteFails, ValidateStale, ValidateMismatch, Move, diskVars
    <3>2. CASE \/ Validate \/ PublishStale \/ PublishFails \/ Publish \/ ConfirmSaved
               \/ ConfirmUnpersisted \/ ConfirmSuperseded \/ ConfirmUncertain
               \/ DrainResolves \/ DrainFailed
      BY <3>2 DEF Validate, PublishStale, PublishFails, Publish, ConfirmSaved, ConfirmUnpersisted,
         ConfirmSuperseded, ConfirmUncertain, LeaveTail, DrainResolves, DrainFailed, Move,
         PersistPlain, diskVars
    <3> QED BY <2>3, <3>1, <3>2 DEF DrainSteps
  <2>4. CASE Admissions
    BY <2>4 DEF Admissions, WatchEvent, DropNotification, Tick, HostHint, Observe, RetryTick, diskVars
  <2>5. CASE InspectSteps
    <3>1. CASE \/ InspectStart \/ InspectHash \/ InspectBlocked \/ SettleSuperseded
               \/ SettleSame \/ InspectMissing \/ InspectStage \/ InspectFails
      BY <3>1 DEF InspectStart, InspectHash, InspectBlocked, SettleSuperseded, SettleSame,
         InspectMissing, InspectStage, InspectFails, PersistPlain, RetryLater, diskVars
    <3>2. CASE \/ StagedSameConflicts \/ StagedSameSuperseded \/ StagedSame \/ MarkInvalid
               \/ ReplaceAbandoned \/ Replace
      BY <3>2 DEF StagedSameConflicts, StagedSameSuperseded, StagedSame, MarkInvalid,
         ReplaceAbandoned, Replace, PersistPlain, RetryLater, diskVars
    <3>3. CASE \/ \E canRewrite, reconciled \in BOOLEAN : ReplacePersisted(canRewrite, reconciled)
               \/ \E canRewrite, reconciled, readable \in BOOLEAN :
                     ReplaceUnpersisted(canRewrite, reconciled, readable)
      BY <3>3 DEF ReplacePersisted, ReplaceUnpersisted, RetryLater, diskVars
    <3> QED BY <2>5, <3>1, <3>2, <3>3 DEF InspectSteps
  <2>6. CASE OtherPrograms
    BY <2>6 DEF OtherPrograms, ExternalWrite, ExternalCopyWrite
  <2> QED BY <2>1, <2>2, <2>3, <2>4, <2>5, <2>6 DEF Next
<1> QED BY <1>1, <1>2, BoundsAssumption DEF Outside, AnEdit

(* A barrier is raised with the draft that was being persisted.            *)
LEMMA BarrierStepTyped == TInv /\ Next => BarrierTyped'
<1> SUFFICES ASSUME TInv, Next PROVE BarrierTyped'
  OBVIOUS
<1>1. CASE OutdatedBarrier
  BY <1>1, OutdatedBarrierTyped, NextEdits DEF TInv
<1>2. CASE ConfirmUnpersisted \/ ConfirmUncertain
  <2>1. commit' = SaveBarrier
    BY <1>2 DEF ConfirmUnpersisted, ConfirmUncertain
  <2>2. SavedDraft \in Drafts /\ Recovered(store) \in Drafts /\ SaveBytes \in Pdfs
        /\ SaveBytes \in Contents
    BY SavedDraftTyped, RecoveredTyped, PdfsTyped
       DEF SaveBytes, TInv, PassTyped, SaveStates, StoreTyped
  <2>3. /\ SaveBarrier \in CommitBarriers /\ SaveBarrier.kind = "save"
        /\ SaveBarrier.successor = SavedDraft /\ SaveBarrier.bytes = SaveBytes
    BY <2>2 DEF SaveBarrier, NoCommit, CommitBarriers
  <2> QED BY <2>1, <2>2, <2>3 DEF BarrierTyped
<1>3. ASSUME NEW canRewrite \in BOOLEAN, NEW reconciled \in BOOLEAN, NEW readable \in BOOLEAN,
             ReplaceUnpersisted(canRewrite, reconciled, readable)
      PROVE  BarrierTyped'
  <2> DEFINE successor == Successor(canRewrite, reconciled)
  <2>1. CASE UNCHANGED commit
    BY <1>1, <2>1 DEF OutdatedBarrier
  <2>2. CASE commit' = [kind |-> "replace", successor |-> successor,
                        predecessor |-> Recovered(store), bytes |-> insp.bytes,
                        newest |-> insp.newest, staged |-> insp.staged,
                        eligible |-> canRewrite]
    <3>1. /\ successor \in Drafts /\ Bounded(successor.review, successor.dest)
          /\ insp.bytes \in Pdfs /\ insp.newest \in BOOLEAN /\ insp.staged \in BOOLEAN
      BY <1>3, SuccessorTyped DEF ReplaceUnpersisted, TInv, InspectionTyped, InspectionStates
    <3>2. Recovered(store) \in Drafts /\ events' = events
      BY <1>3, RecoveredTyped DEF TInv, StoreTyped, ReplaceUnpersisted, diskVars
    <3> HIDE DEF successor
    <3> QED BY <2>2, <3>1, <3>2, PdfsTyped DEF BarrierTyped, CommitBarriers, Bounded
  <2> QED BY <1>3, <2>1, <2>2 DEF ReplaceUnpersisted
<1>4. ~(OutdatedBarrier \/ ConfirmUnpersisted \/ ConfirmUncertain
        \/ \E canRewrite, reconciled, readable \in BOOLEAN :
              ReplaceUnpersisted(canRewrite, reconciled, readable)) => FALSE
  BY DEF OutdatedBarrier, Next, Reviewers, Mutate, PutDraft, Accept, Establish, MarkPristine, MarkPristineRefused,
       RetrySave, Begin, EndHold, Move, Barriers, ResolveSave, ResolveReplacement,
       DrainSteps, DrainTop, DrainEnds, DrainSettled, DrainUnsettled, Freeze,
       DrainBlocked, WriteCandidate, WriteFails, ValidateStale, ValidateMismatch, Validate,
       PublishStale, PublishFails, Publish, ConfirmSaved, LeaveTail, SettleSave,
       ConfirmSuperseded, DrainResolves, DrainFailed, Admissions,
       WatchEvent, DropNotification, Tick, HostHint, Observe, RetryTick, InspectSteps,
       InspectStart, InspectHash, InspectBlocked, SettleSuperseded, SettleSame, InspectMissing,
       InspectStage, InspectFails, StagedSameConflicts, StagedSameSuperseded, StagedSame,
       MarkInvalid, ReplaceAbandoned, Replace, ReplacePersisted, RetryLater,
       OtherPrograms, ExternalWrite, ExternalCopyWrite, Raise, Admit, OriginalReplaced
<1> QED BY <1>1, <1>2, <1>3, <1>4

-----------------------------------------------------------------------------
(* The save pass through every step.                                       *)
LEMMA PassStepTyped == TInv /\ Next => PassTyped'
<1> SUFFICES ASSUME TInv, Next PROVE PassTyped'
  OBVIOUS
<1>0. save \in SaveStates
  BY DEF TInv, PassTyped
<1>1. CASE save' \in {save, Requested(save)}
  BY <1>0, <1>1, PassRecords DEF PassTyped
<1>2. CASE \/ \E pc \in SavePcs : save' = At(pc)
           \/ \E pc \in SavePcs, b \in BOOLEAN : save' = Parked(pc, b)
  BY <1>0, <1>2, PassRecords DEF PassTyped
<1>3. CASE DrainTop
  <2>1. save' = Parked("off", FALSE)
        \/ save' = [Parked(IF obs.physical THEN "settle" ELSE "freeze", FALSE)
                      EXCEPT !.destGen = dest.gen, !.kind = dest.kind]
    BY <1>3 DEF DrainTop, Move
  <2>2. Parked("off", FALSE) \in SaveStates /\ Parked("settle", FALSE) \in SaveStates
        /\ Parked("freeze", FALSE) \in SaveStates
    BY <1>0, PassRecords DEF SavePcs
  <2>3. dest.gen \in 0..MaxDestGen /\ dest.kind \in Kinds
    BY DEF TInv, ReviewTyped, Destinations
  <2> QED BY <2>1, <2>2, <2>3 DEF PassTyped, SaveStates
<1>4. CASE Freeze
  <2>1. save' = [save EXCEPT !.pc = "write", !.rev = sync.desRev, !.digest = sync.des,
                       !.items = review.items, !.src = review.src,
                       !.orig = originalDigest, !.docGen = review.gen]
    BY <1>4 DEF Freeze, Move
  <2> QED BY <1>0, <2>1 DEF PassTyped, SaveStates, SavePcs, TInv, ReviewTyped, Syncs, Reviews
<1>6. CASE Reviewers
  <2>1. save' \in {save, Requested(save)}
    BY <1>6, ReviewersRequest
  <2> QED BY <1>1, <2>1
<1>7. CASE Admissions \/ OtherPrograms
  BY <1>1, <1>7 DEF Admissions, WatchEvent, DropNotification, Tick, HostHint, Observe, RetryTick,
       OtherPrograms, ExternalWrite, ExternalCopyWrite
<1>8. CASE Barriers
  <2>1. ASSUME NEW phase, save' \in {save, Resumed(save, phase)} PROVE PassTyped'
    BY <1>0, <2>1, PassRecords DEF PassTyped
  <2> QED BY <1>8, <2>1 DEF Barriers, ResolveSave, SettleSave, ResolveReplacement, ActivateGeneration
<1>9. CASE InspectSteps
  <2>1. ASSUME NEW phase, save' \in {save, Resumed(save, phase)} PROVE PassTyped'
    BY <1>0, <2>1, PassRecords DEF PassTyped
  <2> QED BY <1>9, <2>1
          DEF InspectSteps, InspectStart, InspectHash, InspectBlocked, SettleSuperseded,
              SettleSame, InspectMissing, InspectStage, InspectFails, StagedSameConflicts,
              StagedSameSuperseded, StagedSame, MarkInvalid, ReplaceAbandoned, Replace,
              ReplacePersisted, ReplaceUnpersisted, ActivateGeneration, RetryLater,
              OutcomeCurrent, PersistPlain
<1>10. CASE DrainSteps /\ ~(DrainTop \/ Freeze)
  <2>1. save.requested \in BOOLEAN
    BY <1>0 DEF SaveStates
  <2>2. Stale \in BOOLEAN /\ (commit.successor.sync.phase = "saving") \in BOOLEAN
    BY DEF Stale
  <2>3. ASSUME NEW pc \in SavePcs, save' = At(pc) PROVE PassTyped'
    BY <1>2, <2>3
  <2>4. ASSUME NEW pc \in SavePcs, NEW b \in BOOLEAN, save' = Parked(pc, b) PROVE PassTyped'
    BY <1>2, <2>4
  <2>5. ASSUME NEW b \in BOOLEAN, save' = NextPass(b) PROVE PassTyped'
    BY <2>1, <2>4, <2>5 DEF NextPass, SavePcs
  <2>6. CASE DrainEnds \/ DrainSettled \/ DrainUnsettled \/ DrainBlocked
    BY <1>1, <2>1, <2>3, <2>4, <2>6 DEF DrainEnds, DrainSettled, DrainUnsettled, DrainBlocked, Move,
       Again, SavePcs
  <2>7. CASE WriteCandidate \/ WriteFails \/ ValidateStale \/ ValidateMismatch \/ Validate
    BY <1>1, <2>1, <2>3, <2>4, <2>7 DEF WriteCandidate, WriteFails, ValidateStale,
       ValidateMismatch, Validate, Move, Again, SavePcs
  <2>8. CASE PublishStale \/ PublishFails \/ Publish \/ ConfirmUnpersisted \/ ConfirmSuperseded
    BY <2>3, <2>4, <2>8 DEF PublishStale, PublishFails, Publish, ConfirmUnpersisted,
       ConfirmSuperseded, LeaveTail, Again, SavePcs
  <2>9. CASE ConfirmSaved \/ ConfirmUncertain
    BY <2>2, <2>5, <2>9 DEF ConfirmSaved, ConfirmUncertain
  <2>10. CASE DrainResolves
    <3>1. \/ save' = NextPass(commit.successor.sync.phase = "saving")
          \/ save' = At("failed") \/ save' = NextPass(FALSE)
      BY <2>10 DEF DrainResolves, SettleSave
    <3> QED BY <2>2, <2>3, <2>5, <3>1 DEF SavePcs
  <2>11. CASE DrainFailed
    BY <2>1, <2>4, <2>11 DEF DrainFailed, SavePcs
  <2> QED BY <1>10, <2>6, <2>7, <2>8, <2>9, <2>10, <2>11 DEF DrainSteps
<1> QED BY <1>3, <1>4, <1>6, <1>7, <1>8, <1>9, <1>10 DEF Next

-----------------------------------------------------------------------------
(* The observer, the files and who holds what through every step.          *)
LEMMA ObserverTyped ==
  ASSUME TInv, Next
  PROVE  obs' \in ObserverStates
<1>0. obs \in ObserverStates /\ insp.same \in BOOLEAN /\ insp.newest \in BOOLEAN
      /\ insp.staged \in BOOLEAN /\ commit.newest \in BOOLEAN /\ commit.staged \in BOOLEAN
  BY DEF TInv, DiskTyped, InspectionTyped, InspectionStates, BarrierTyped, CommitBarriers
<1>1. Settled \in ObserverStates
  BY <1>0 DEF Settled, ObserverStates
<1>2. ASSUME NEW b \in BOOLEAN
      PROVE  /\ [Settled EXCEPT !.lineage = b] \in ObserverStates
             /\ [obs EXCEPT !.lineage = b] \in ObserverStates
  BY <1>0, <1>1 DEF ObserverStates
<1>3. ASSUME NEW o \in ObserverStates, Raise(o) PROVE obs' \in ObserverStates
  BY <1>3 DEF Raise, ObserverStates
<1>4. \A w \in {"none", "identity", "full", "audit"} : [obs EXCEPT !.wanted = w] \in ObserverStates
  BY <1>0 DEF ObserverStates
<1>5. ASSUME OriginalReplaced PROVE obs' \in ObserverStates
  BY <1>0, <1>5 DEF OriginalReplaced, ObserverStates
<1>6. CASE Reviewers
  <2>1. UNCHANGED obs \/ Admit("full")
    BY <1>6 DEF Reviewers, Mutate, PutDraft, Accept, Establish, MarkPristine, MarkPristineRefused,
       RetrySave, Begin, EndHold, Move
  <2> QED BY <1>0, <1>3, <1>4, <2>1 DEF Admit
<1>7. CASE Barriers
  <2>1. obs' \in {obs, [obs EXCEPT !.physical = @ /\ ~commit.newest, !.lineage = commit.staged]}
    BY <1>7 DEF Barriers, ResolveSave, ResolveReplacement
  <2> QED BY <1>0, <2>1 DEF ObserverStates
<1>8. CASE DrainSteps
  <2>1. UNCHANGED obs \/ OriginalReplaced
    BY <1>8 DEF DrainSteps, DrainTop, DrainEnds, DrainSettled, DrainUnsettled, Freeze,
       DrainBlocked, WriteCandidate, WriteFails, ValidateStale, ValidateMismatch, Validate,
       PublishStale, PublishFails, Publish, ConfirmSaved, ConfirmUnpersisted, LeaveTail,
       ConfirmSuperseded, ConfirmUncertain, DrainResolves, DrainFailed, Move
  <2> QED BY <1>0, <1>5, <2>1
<1>9. CASE Admissions
  <2>1. [obs EXCEPT !.wanted = "full", !.unseen = TRUE, !.notify = FALSE] \in ObserverStates
        /\ [obs EXCEPT !.wanted = "full", !.retry = FALSE] \in ObserverStates
        /\ [obs EXCEPT !.notify = FALSE] \in ObserverStates
    BY <1>0 DEF ObserverStates
  <2> QED BY <1>3, <1>4, <1>9, <2>1
          DEF Admissions, WatchEvent, DropNotification, Tick, HostHint, Observe, RetryTick, Admit
<1>10. CASE OtherPrograms
  BY <1>0, <1>5, <1>10 DEF OtherPrograms, ExternalWrite, ExternalCopyWrite
<1>11. CASE InspectSteps
  <2>1. /\ [obs EXCEPT !.retry = @ \/ insp.newest] \in ObserverStates
        /\ [obs EXCEPT !.retry = TRUE] \in ObserverStates
        /\ [obs EXCEPT !.physical = FALSE, !.retry = TRUE] \in ObserverStates
        /\ [obs EXCEPT !.wanted = "none", !.physical = FALSE] \in ObserverStates
        /\ [obs EXCEPT !.wanted = "none"] \in ObserverStates
        /\ [Settled EXCEPT !.lineage = TRUE] \in ObserverStates
        /\ [Settled EXCEPT !.lineage = insp.staged] \in ObserverStates
        /\ [IF insp.newest THEN Settled ELSE obs EXCEPT !.lineage = insp.staged] \in ObserverStates
    <3>1. ASSUME NEW o \in ObserverStates, NEW b \in BOOLEAN
          PROVE  /\ [o EXCEPT !.lineage = b] \in ObserverStates
                 /\ [o EXCEPT !.retry = b] \in ObserverStates
                 /\ [o EXCEPT !.wanted = "none"] \in ObserverStates
      BY DEF ObserverStates
    <3>2. /\ [obs EXCEPT !.physical = FALSE, !.retry = TRUE] \in ObserverStates
          /\ [obs EXCEPT !.wanted = "none", !.physical = FALSE] \in ObserverStates
          /\ (obs.retry \/ insp.newest) \in BOOLEAN
      BY <1>0, <1>1 DEF ObserverStates
    <3> QED BY <1>0, <1>1, <1>2, <3>1, <3>2
  <2>2. obs' \in {obs, Settled, [obs EXCEPT !.retry = @ \/ insp.newest], [obs EXCEPT !.retry = TRUE],
                  [obs EXCEPT !.physical = FALSE, !.retry = TRUE],
                  [obs EXCEPT !.wanted = "none", !.physical = FALSE], [obs EXCEPT !.wanted = "none"],
                  [Settled EXCEPT !.lineage = TRUE], [Settled EXCEPT !.lineage = insp.staged],
                  [IF insp.newest THEN Settled ELSE obs EXCEPT !.lineage = insp.staged]}
    BY <1>11 DEF InspectSteps, InspectStart, InspectHash, InspectBlocked, SettleSuperseded,
              SettleSame, InspectMissing, InspectStage, InspectFails, StagedSameConflicts,
              StagedSameSuperseded, StagedSame, MarkInvalid, ReplaceAbandoned, Replace,
              ReplacePersisted, ReplaceUnpersisted, RetryLater,
              OutcomeCurrent, OutcomeRetry, PersistPlain
  <2> QED BY <1>0, <1>1, <2>1, <2>2
<1> QED BY <1>6, <1>7, <1>8, <1>9, <1>10, <1>11 DEF Next

(* ... what is on disk and what was delivered there,                       *)
LEMMA FilesTyped ==
  ASSUME TInv, Next
  PROVE  /\ files' \in [Kinds -> [bytes : Contents, approved : BOOLEAN]]
         /\ copyFingerprint' \in Contents
         /\ delivered' \in [Kinds -> Contents]
<1>0. /\ files \in [Kinds -> [bytes : Contents, approved : BOOLEAN]]
      /\ copyFingerprint \in Contents
      /\ delivered \in [Kinds -> Contents]
      /\ SaveBytes \in Contents /\ review.src \in Contents /\ Absent \in Contents
      /\ save.kind \in Kinds
  BY PdfsTyped DEF TInv, DiskTyped, PassTyped, SaveStates, SaveBytes, ReviewTyped, Reviews
<1>1. CASE UNCHANGED <<files, copyFingerprint, delivered>>
  BY <1>0, <1>1
<1>2. ASSUME NEW kind \in Kinds, NEW bytes \in Contents, RefreshTarget(kind, bytes),
             UNCHANGED delivered
      PROVE  /\ files' \in [Kinds -> [bytes : Contents, approved : BOOLEAN]]
             /\ copyFingerprint' \in Contents /\ delivered' \in [Kinds -> Contents]
  BY <1>0, <1>2 DEF RefreshTarget
<1>3. ASSUME NEW kind \in Kinds, NEW items \in ItemSets, Establish(kind, items)
      PROVE  /\ files' \in [Kinds -> [bytes : Contents, approved : BOOLEAN]]
             /\ copyFingerprint' \in Contents /\ delivered' \in [Kinds -> Contents]
  <2>1. \/ UNCHANGED <<files, copyFingerprint, delivered>>
        \/ /\ files' = [files EXCEPT !.copy = [bytes |-> Absent, approved |-> FALSE]]
           /\ copyFingerprint' = Absent
           /\ delivered' = [delivered EXCEPT !.copy = Absent]
    BY <1>3 DEF Establish, PersistPlain
  <2>2. [bytes |-> Absent, approved |-> FALSE] \in [bytes : Contents, approved : BOOLEAN]
    BY <1>0
  <2>3. CASE UNCHANGED <<files, copyFingerprint, delivered>>
    BY <1>1, <2>3
  <2>4. CASE /\ files' = [files EXCEPT !.copy = [bytes |-> Absent, approved |-> FALSE]]
             /\ copyFingerprint' = Absent
             /\ delivered' = [delivered EXCEPT !.copy = Absent]
    BY <1>0, <2>2, <2>4 DEF Kinds
  <2> QED BY <2>1, <2>3, <2>4
<1>4. CASE MarkPristine
  <2>1. /\ UNCHANGED <<files, copyFingerprint>>
        /\ delivered' \in {delivered, [delivered EXCEPT !.original = review.src]}
    BY <1>4 DEF MarkPristine, PersistPlain
  <2> QED BY <1>0, <2>1 DEF Kinds
<1>5. ASSUME NEW a, NEW b, NEW c, SettleSave(a, b, c), UNCHANGED delivered
      PROVE  /\ files' \in [Kinds -> [bytes : Contents, approved : BOOLEAN]]
             /\ copyFingerprint' \in Contents /\ delivered' \in [Kinds -> Contents]
  <2>1. SaveKind \in Kinds
    BY <1>5 DEF SettleSave, SaveKind, TInv, BarrierTyped, Drafts, Destinations
  <2>2. UNCHANGED <<files, copyFingerprint>> \/ RefreshTarget(SaveKind, files[SaveKind].bytes)
    BY <1>5 DEF SettleSave
  <2> QED BY <1>0, <1>2, <1>5, <2>1, <2>2
<1>6. CASE Publish
  <2>1. /\ files' = [files EXCEPT ![save.kind] = [bytes |-> SaveBytes, approved |-> FALSE]]
        /\ delivered' = [delivered EXCEPT ![save.kind] = SaveBytes]
        /\ UNCHANGED copyFingerprint
    BY <1>6 DEF Publish
  <2> QED BY <1>0, <2>1
<1>7. CASE ConfirmSaved \/ ConfirmUnpersisted
  BY <1>0, <1>2, <1>7 DEF ConfirmSaved, ConfirmUnpersisted
<1>8. CASE SettleSame \/ StagedSame \/ Replace
  <2>1. files' \in {files, [files EXCEPT !.original.approved = TRUE]}
        /\ UNCHANGED <<copyFingerprint, delivered>>
    BY <1>8 DEF SettleSame, StagedSame, Replace
  <2>2. "original" \in Kinds /\ files.original \in [bytes : Contents, approved : BOOLEAN]
    BY <1>0 DEF Kinds
  <2>3. [files EXCEPT !.original.approved = TRUE] \in [Kinds -> [bytes : Contents, approved : BOOLEAN]]
    BY <1>0, <2>2
  <2> QED BY <1>0, <2>1, <2>3
<1>9. ASSUME NEW bytes \in {External(v) : v \in Versions} \cup {Torn, Absent},
             NEW inPlace \in BOOLEAN, ExternalWrite(bytes, inPlace)
      PROVE  /\ files' \in [Kinds -> [bytes : Contents, approved : BOOLEAN]]
             /\ copyFingerprint' \in Contents /\ delivered' \in [Kinds -> Contents]
  <2>1. bytes \in Contents
    BY PdfsTyped
  <2>2. files' = [files EXCEPT !.original =
                    [bytes |-> bytes, approved |-> @.approved /\ inPlace /\ bytes # Absent]]
        /\ UNCHANGED <<copyFingerprint, delivered>>
    BY <1>9 DEF ExternalWrite
  <2> QED BY <1>0, <2>1, <2>2 DEF Kinds
<1>10. ASSUME NEW bytes \in {External(v) : v \in Versions} \cup {Absent}, ExternalCopyWrite(bytes)
       PROVE  /\ files' \in [Kinds -> [bytes : Contents, approved : BOOLEAN]]
              /\ copyFingerprint' \in Contents /\ delivered' \in [Kinds -> Contents]
  <2>1. bytes \in Contents
    BY PdfsTyped
  <2>2. files' = [files EXCEPT !.copy =
                    [bytes |-> bytes, approved |-> @.approved /\ bytes # Absent]]
        /\ UNCHANGED <<copyFingerprint, delivered>>
    BY <1>10 DEF ExternalCopyWrite
  <2> QED BY <1>0, <2>1, <2>2 DEF Kinds
<1>11. CASE Reviewers
  BY <1>1, <1>3, <1>4, <1>11 DEF Reviewers, Mutate, PutDraft, Accept, MarkPristineRefused,
     RetrySave, Begin, EndHold, Move, diskVars
<1>12. CASE Barriers
  BY <1>1, <1>5, <1>12 DEF Barriers, ResolveSave, ResolveReplacement, diskVars
<1>13. CASE DrainSteps
  BY <1>1, <1>5, <1>6, <1>7, <1>13
     DEF DrainSteps, DrainTop, DrainEnds, DrainSettled, DrainUnsettled, Freeze,
       DrainBlocked, WriteCandidate, WriteFails, ValidateStale, ValidateMismatch, Validate,
       PublishStale, PublishFails, LeaveTail, ConfirmSuperseded, ConfirmUncertain,
       DrainResolves, DrainFailed, Move, diskVars
<1>14. CASE Admissions
  BY <1>1, <1>14 DEF Admissions, WatchEvent, DropNotification, Tick, HostHint, Observe, RetryTick,
     diskVars
<1>15. CASE InspectSteps
  BY <1>1, <1>8, <1>15 DEF InspectSteps, InspectStart, InspectHash, InspectBlocked,
     SettleSuperseded, InspectMissing, InspectStage, InspectFails, StagedSameConflicts,
     StagedSameSuperseded, MarkInvalid, ReplaceAbandoned, ReplacePersisted, ReplaceUnpersisted,
     RetryLater, diskVars
<1>16. CASE OtherPrograms
  BY <1>9, <1>10, <1>16 DEF OtherPrograms
<1> QED BY <1>11, <1>12, <1>13, <1>14, <1>15, <1>16 DEF Next

(* ... the session tail and the holds.                                     *)
LEMMA HoldersTyped ==
  ASSUME TInv, Next
  PROVE  /\ unannounced' \in BOOLEAN
         /\ tail' \in {"free", "save", "replace"}
         /\ holds' \in [Views -> 0..MaxGeneration]
<1>1. /\ unannounced' \in {unannounced, TRUE, FALSE}
      /\ tail' \in {tail, "free", "save", "replace"}
      /\ \/ UNCHANGED holds
         \/ \E v \in Views : holds' = [holds EXCEPT ![v] = review.gen]
         \/ \E v \in Views : holds' = [holds EXCEPT ![v] = 0]
  BY DEF Next, Reviewers, Mutate, PutDraft, Accept, Establish, MarkPristine, MarkPristineRefused,
       RetrySave, Begin, EndHold, Move, Barriers, ResolveSave, ResolveReplacement,
       DrainSteps, DrainTop, DrainEnds, DrainSettled, DrainUnsettled, Freeze,
       DrainBlocked, WriteCandidate, WriteFails, ValidateStale, ValidateMismatch, Validate,
       PublishStale, PublishFails, Publish, ConfirmSaved, ConfirmUnpersisted, LeaveTail,
       ConfirmSuperseded, ConfirmUncertain, DrainResolves, DrainFailed, SettleSave, Admissions,
       WatchEvent, DropNotification, Tick, HostHint, Observe, RetryTick, InspectSteps,
       InspectStart, InspectHash, InspectBlocked, SettleSuperseded, SettleSame, InspectMissing,
       InspectStage, InspectFails, StagedSameConflicts, StagedSameSuperseded, StagedSame,
       MarkInvalid, ReplaceAbandoned, Replace, ReplacePersisted, ReplaceUnpersisted, RetryLater,
       OtherPrograms, ExternalWrite, ExternalCopyWrite, Raise, Admit, diskVars
<1>2. review.gen \in 0..MaxGeneration /\ 0 \in 0..MaxGeneration
  BY Bounds DEF TInv, ReviewTyped, Reviews
<1> QED BY <1>1, <1>2 DEF TInv, DiskTyped

-----------------------------------------------------------------------------
(* A session opens typed.                                                  *)
LEMMA InitTInv == Init => TInv
<1> SUFFICES ASSUME Init PROVE TInv
  OBVIOUS
<1> USE Bounds, PdfsTyped, ItemsAssumption, BoundsAssumption
<1>1. /\ review \in Reviews /\ review.rev = 0 /\ review.gen = 1
      /\ dest \in Destinations /\ dest.gen \in {0, 1}
  <2>1. PICK opening \in Openings :
              dest = [active |-> opening.imported,
                      gen |-> IF opening.imported THEN 1 ELSE 0, kind |-> "original"]
    BY DEF Init
  <2>2. opening.imported \in BOOLEAN
    BY OpeningsAssumption
  <2> QED BY <2>1, <2>2 DEF Init, Reviews, Destinations, Kinds, MaxDestGen
<1>2. sync \in Syncs
  BY <1>1, DigestTyped DEF Init, Syncs
<1>3. faults \in 0..MaxFaults /\ events \in [outside : 0..MaxEvents, edits : 0..MaxRevision]
  BY OpeningsAssumption DEF Init
<1>4. ReviewTyped
  <2>1. pristine \in [gen : 0..MaxDestGen, current : BOOLEAN]
    BY DEF Init, NotDue
  <2>2. originalDigest \in Pdfs /\ eligible \in BOOLEAN
    BY DEF Init
  <2>3. Bounded(review, dest)
    BY <1>1, <1>3 DEF Bounded
  <2> QED BY <1>1, <1>2, <1>3, <2>1, <2>2, <2>3 DEF ReviewTyped
<1>5. StoreTyped
  <2>1. Draft \in Drafts
    BY <1>1, <1>2, DraftTyped DEF Draft
  <2> QED BY <1>3, <2>1, NoDraftAssumption DEF Init, StoreTyped, Stored
<1>6. InspectionTyped
  BY DEF Init, NoInspection, InspectionTyped, InspectionStates, InspPcs
<1>7. BarrierTyped
  BY DEF Init, NoCommit, BarrierTyped, CommitBarriers
<1>8. PassTyped
  BY DEF Init, NoDelivery, PassTyped, SaveStates, SavePcs, Digests, Kinds
<1>9. DiskTyped
  <2>1. /\ [bytes |-> review.src, approved |-> TRUE] \in [bytes : Contents, approved : BOOLEAN]
        /\ [bytes |-> Absent, approved |-> FALSE] \in [bytes : Contents, approved : BOOLEAN]
        /\ review.src \in Contents
    BY <1>1 DEF Reviews
  <2>2. files \in [Kinds -> [bytes : Contents, approved : BOOLEAN]]
    <3>1. files = [original |-> [bytes |-> review.src, approved |-> TRUE],
                   copy |-> [bytes |-> Absent, approved |-> FALSE]]
      BY DEF Init
    <3> DEFINE a == [bytes |-> review.src, approved |-> TRUE]
               b == [bytes |-> Absent, approved |-> FALSE]
    <3>2. a \in [bytes : Contents, approved : BOOLEAN] /\ b \in [bytes : Contents, approved : BOOLEAN]
      BY <2>1
    <3>3. files = [original |-> a, copy |-> b]
      BY <3>1
    <3> HIDE DEF a, b
    <3> QED BY <3>2, <3>3 DEF Kinds
  <2>3. delivered \in [Kinds -> Contents]
    BY <2>1 DEF Init, Kinds
  <2>4. obs \in ObserverStates
    BY DEF Init, ObserverStates
  <2>5. copyFingerprint \in Contents /\ tail \in {"free", "save", "replace"}
    BY DEF Init
  <2>6. holds \in [Views -> 0..MaxGeneration]
    <3>1. holds = [v \in Views |-> 0] /\ 0 \in 0..MaxGeneration
      BY DEF Init
    <3> QED BY <3>1
  <2>7. unannounced \in BOOLEAN
    BY DEF Init
  <2> QED BY <2>2, <2>3, <2>4, <2>5, <2>6, <2>7 DEF DiskTyped
<1> QED BY <1>4, <1>5, <1>6, <1>7, <1>8, <1>9 DEF TInv

(* TInv is inductive, relative to HInv.                                    *)
LEMMA NextTInv == HInv /\ TInv /\ [Next]_vars => TInv'
<1>1. ASSUME HInv, TInv, Next PROVE TInv'
  <2>1. ReviewTyped'
    BY <1>1, ReviewersReview, BarriersReview, DrainReview, ObserverReview, InspectReview DEF Next
  <2>2. StoreTyped'
    BY <1>1, ReviewersStore, BarriersStore, DrainStore, ObserverStore, InspectStore DEF Next
  <2>3. InspectionTyped' /\ BarrierTyped' /\ PassTyped'
    BY <1>1, InspectionStepTyped, BarrierStepTyped, PassStepTyped
  <2>4. DiskTyped'
    BY <1>1, ObserverTyped, FilesTyped, HoldersTyped DEF DiskTyped
  <2> QED BY <2>1, <2>2, <2>3, <2>4 DEF TInv
<1>2. ASSUME TInv, UNCHANGED vars PROVE TInv'
  BY <1>2 DEF vars, TInv, ReviewTyped, Bounded, StoreTyped, Stored, InspectionTyped, BarrierTyped,
              PassTyped, DiskTyped
<1> QED BY <1>1, <1>2

(* Types, with the bounds that keep them, hold in every reachable state.   *)
THEOREM TInvariant == Spec => [](HInv /\ TInv)
BY InitHInv, NextHInv, InitTInv, NextTInv, PTL DEF Spec

(* Every record of the session keeps its shape and its bounds.             *)
THEOREM SessionIsTyped == Spec => []TypeOK
<1>1. TInv => TypeOK
  BY DEF TInv, ReviewTyped, StoreTyped, Stored, InspectionTyped, BarrierTyped, PassTyped,
         DiskTyped, TypeOK
<1> QED BY <1>1, TInvariant, PTL

-----------------------------------------------------------------------------
(* What most steps do to the pass: nothing, end it, or move it on with the *)
(* same delivery.                                                          *)
SameDelivery ==
  /\ save'.destGen = save.destGen /\ save'.kind = save.kind /\ save'.rev = save.rev
  /\ save'.digest = save.digest /\ save'.items = save.items /\ save'.src = save.src
  /\ save'.orig = save.orig /\ save'.docGen = save.docGen
SamePass == SameDelivery /\ save'.pc = save.pc
PassOver == save'.pc \in {"off", "top"} /\ save.pc # "resolve"
PassAdvances ==
  /\ SameDelivery
  /\ save.pc \notin {"off", "top", "resolve"}
  /\ save'.pc \notin {"confirm", "resolve"}
  /\ save'.pc \in Frozen => save.pc \in Frozen
  /\ commit.kind = "save" => save'.pc = "freeze"

SameCommit ==
  /\ commit'.kind = commit.kind /\ commit'.successor = commit.successor
  /\ commit'.bytes = commit.bytes

(* Steps of the queue from outside of the pass.                            *)
LEMMA QueuedPass ==
  ASSUME save \in SaveStates, NEW phase, save' \in {save, Requested(save), Resumed(save, phase)}
  PROVE  SamePass \/ PassOver
<1>1. CASE save' = save
  BY <1>1 DEF SamePass, SameDelivery
<1>2. CASE save' = Requested(save)
  BY <1>2 DEF Requested, SaveStates, SamePass, SameDelivery, PassOver
<1> QED BY <1>1, <1>2 DEF Resumed

(* A pass that is parked has nothing but its place.                        *)
LEMMA ParkedPass ==
  ASSUME NEW b, NEW pc, save' = Parked(pc, b)
  PROVE  save'.pc = pc
BY DEF Parked, NoDelivery

(* A pass that moves keeps its delivery.                                   *)
LEMMA MovedPass ==
  ASSUME save \in SaveStates, NEW pc, save' = At(pc)
  PROVE  SameDelivery /\ save'.pc = pc
BY DEF At, SaveStates, SameDelivery

(* Steps that leave the review, its destination and deliveries alone.      *)
LEMMA StillCInv ==
  ASSUME CInv, UNCHANGED <<review, dest, sync, delivered>>,
         pristine' \in {pristine, NotDue},
         SameCommit, tail' \in {tail, "free"} \/ commit.kind = "none",
         SamePass \/ PassOver \/ PassAdvances
  PROVE  CInv'
<1> USE DEF SameCommit, CInv
<1>1. Exclusive'
  BY DEF Exclusive, SamePass, PassOver, PassAdvances
<1>2. PassKeepsItsDestination' /\ FrozenIsDesired'
  BY DEF PassKeepsItsDestination, FrozenIsDesired, Frozen, SamePass, PassOver, PassAdvances, SameDelivery
<1>3. PublishedIsDelivered'
  BY DEF PublishedIsDelivered, SamePass, PassOver, PassAdvances, SameDelivery, SaveBytes
<1>4. PristineIsFirst' /\ CleanIsDelivered' /\ Desired(review, sync)'
  BY DEF PristineIsFirst, CleanIsDelivered, Desired
<1>5. SaveBarrierIsDelivered' /\ ReplacementIsNext'
  BY DEF SaveBarrierIsDelivered, ReplacementIsNext, NextGeneration, Desired
<1> QED BY <1>1, <1>2, <1>3, <1>4, <1>5

(* Steps on the session tail that change the review within its generation. *)
LEMMA ReviewChanges ==
  ASSUME CInv, TailOwner, TailFree, UNCHANGED <<dest, delivered, tail, commit, pristine>>,
         review'.gen = review.gen, review'.src = review.src,
         Desired(review', sync'),
         sync'.phase = "clean" => sync.phase = "clean" /\ review'.items = review.items,
         SamePass \/ PassOver
  PROVE  CInv'
<1> USE DEF CInv
<1>1. commit.kind = "none" /\ save.pc \notin {"publish", "confirm", "resolve"}
  BY DEF TailFree, TailOwner
<1>2. Exclusive' /\ SaveBarrierIsDelivered' /\ ReplacementIsNext'
  BY <1>1 DEF Exclusive, SamePass, PassOver, SaveBarrierIsDelivered, ReplacementIsNext
<1>3. PassKeepsItsDestination' /\ FrozenIsDesired' /\ PublishedIsDelivered'
  BY <1>1 DEF PassKeepsItsDestination, FrozenIsDesired, PublishedIsDelivered, Frozen, SamePass, PassOver, SameDelivery
<1>4. PristineIsFirst' /\ CleanIsDelivered' /\ Desired(review, sync)'
  BY DEF PristineIsFirst, CleanIsDelivered
<1> QED BY <1>2, <1>3, <1>4

-----------------------------------------------------------------------------
(* Mutations, destination choices, the record of an untouched original.    *)
LEMMA AcceptCInv ==
  ASSUME HInv, TInv, CInv, NEW items \in ItemSets, NEW s, NEW b, Accept(Edited(items), s, b),
         s.des.items = items, s.desRev # 0 \/ review.gen = 1,
         s.phase = "clean" => sync.phase = "clean" /\ items = review.items
  PROVE  CInv'
<1> USE DEF PersistPlain
<1>1. /\ TailFree /\ TailOwner /\ save \in SaveStates /\ review \in Reviews
      /\ UNCHANGED <<dest, delivered, tail, commit, pristine>>
  BY DEF Accept, HInv, TInv, PassTyped, ReviewTyped
<1>2. CASE UNCHANGED <<review, sync, save>>
  BY <1>1, <1>2, StillCInv DEF SamePass, SameDelivery, SameCommit
<1>3. CASE review' = Edited(items) /\ sync' = s /\ save' \in {save, Requested(save)}
  <2>1. SamePass \/ PassOver
    BY <1>1, <1>3, QueuedPass
  <2>2. /\ review'.gen = review.gen /\ review'.src = review.src
        /\ review'.items = items /\ review'.rev = review.rev + 1
    BY <1>1, <1>3 DEF Edited, Reviews
  <2>3. Desired(review', sync')
    <3>1. review.rev \in Nat
      BY <1>1, Bounds DEF Reviews
    <3> QED BY <1>3, <2>2, <3>1 DEF Desired
  <2> QED BY <1>1, <1>3, <2>1, <2>2, <2>3, ReviewChanges
<1> QED BY <1>2, <1>3 DEF Accept

(* chooseCopy() and chooseOriginal(): nothing is saved there yet, unless   *)
(* an untouched original is about to be recorded.                          *)
LEMMA EstablishCInv ==
  ASSUME HInv, TInv, CInv, NEW kind \in Kinds, NEW items \in ItemSets, Establish(kind, items)
  PROVE  CInv'
<1> DEFINE r == IF items = review.items THEN review ELSE Edited(items)
           d == [active |-> TRUE, gen |-> dest.gen + 1, kind |-> kind]
           s == [sync EXCEPT !.phase = "saving", !.desRev = r.rev, !.des = Digest(r)]
           untouched == kind = "original" /\ r.rev = 0 /\ r.items = NoItems
<1>1. /\ TailFree /\ TailOwner /\ save \in SaveStates /\ review \in Reviews /\ sync \in Syncs
      /\ dest.gen \in Nat /\ save.destGen \in Nat /\ pristine = NotDue
      /\ UNCHANGED <<tail, commit>>
  BY Bounds DEF Establish, HInv, TInv, PassTyped, ReviewTyped, Destinations, SaveStates
<1>2. CASE UNCHANGED <<review, dest, sync, delivered, pristine, save>>
  BY <1>1, <1>2, StillCInv DEF SamePass, SameDelivery, SameCommit
<1>3. CASE /\ review' = r /\ dest' = d /\ sync' = s
           /\ pristine' = IF untouched THEN [gen |-> d.gen, current |-> r.current] ELSE NotDue
           /\ save' = IF untouched THEN save ELSE Requested(save)
  <2>1. SamePass \/ PassOver
    BY <1>1, <1>3, QueuedPass
  <2>2. /\ r.gen = review.gen /\ r.src = review.src /\ r.items = items
        /\ r.rev \in {review.rev, review.rev + 1}
    BY <1>1 DEF Edited, Reviews
  <2>3. s.phase = "saving" /\ s.desRev = r.rev /\ s.des.items = items
    BY <1>1, <2>2 DEF Syncs, Digest
  <2>4. commit.kind = "none" /\ save.pc \notin {"publish", "confirm", "resolve"}
    BY <1>1 DEF TailFree, TailOwner
  <2>5. Desired(review, sync)'
    <3>1. review.rev \in Nat /\ Desired(review, sync)
      BY <1>1, Bounds DEF Reviews, CInv
    <3> HIDE DEF r, s
    <3> QED BY <1>3, <2>2, <2>3, <3>1 DEF Desired
  <2>6. Exclusive' /\ SaveBarrierIsDelivered' /\ ReplacementIsNext'
    BY <1>1, <2>1, <2>4 DEF Exclusive, SamePass, PassOver, SaveBarrierIsDelivered, ReplacementIsNext, CInv
  <2>7. PassKeepsItsDestination' /\ PublishedIsDelivered' /\ CleanIsDelivered'
    <3>1. dest'.gen = dest.gen + 1 /\ sync'.phase = "saving"
      BY <1>3, <2>3
    <3> QED BY <1>1, <2>1, <2>4, <3>1 DEF PassKeepsItsDestination, PublishedIsDelivered, CleanIsDelivered,
         SamePass, PassOver, SameDelivery, CInv
  <2>8. pristine' # NotDue => /\ untouched /\ pristine'.gen = dest.gen + 1
    BY <1>3
  <2>9. FrozenIsDesired'
    <3>1. sync'.phase = "saving"
      BY <1>3, <2>3
    <3>2. save.pc \in Frozen => save.destGen <= dest.gen
      BY DEF CInv, PassKeepsItsDestination, Frozen
    <3> HIDE DEF untouched
    <3> QED BY <1>1, <2>1, <2>8, <3>1, <3>2 DEF FrozenIsDesired, Frozen, SamePass, PassOver, SameDelivery, CInv
  <2>10. PristineIsFirst'
    <3>1. untouched => review.gen = 1
      <4>1. review.gen # 1 => review.rev # 0 /\ review.rev \in Nat
        BY <1>1, Bounds DEF CInv, Desired, Reviews
      <4> QED BY <2>2, <4>1
    <3>2. untouched => kind = "original"
      OBVIOUS
    <3>3. /\ review'.gen = review.gen /\ review'.src = review.src
          /\ dest'.gen = dest.gen + 1 /\ dest'.active /\ dest'.kind = kind
      BY <1>3, <2>2
    <3> HIDE DEF untouched, r, d, s
    <3> QED BY <1>1, <2>8, <3>1, <3>2, <3>3 DEF PristineIsFirst, CInv
  <2> QED BY <2>5, <2>6, <2>7, <2>9, <2>10 DEF CInv
<1> QED BY <1>2, <1>3 DEF Establish, PersistPlain

(* The second section of chooseOriginal() records the file the session was *)
(* opened on, if nobody chose again in between.                            *)
LEMMA PristineCInv ==
  ASSUME HInv, TInv, CInv, MarkPristine
  PROVE  CInv'
<1> DEFINE digest == [gen |-> review.gen, current |-> pristine.current, items |-> NoItems]
           s == CommittedSync(0, digest)
<1>1. /\ TailFree /\ TailOwner /\ sync \in Syncs /\ pristine # NotDue /\ pristine' = NotDue
      /\ delivered \in [Kinds -> Contents]
      /\ UNCHANGED <<tail, commit, save, review, dest>>
  BY DEF MarkPristine, HInv, TInv, ReviewTyped, DiskTyped
<1>2. CASE UNCHANGED <<sync, delivered>>
  BY <1>1, <1>2, StillCInv DEF SamePass, SameDelivery, SameCommit
<1>3. CASE /\ dest.gen = pristine.gen /\ sync' = s
           /\ delivered' = [delivered EXCEPT !.original = review.src]
  <2>1. /\ s.des = sync.des /\ s.desRev = sync.desRev
        /\ s.phase = "clean" => sync.des = digest
    BY <1>1 DEF Syncs, CommittedSync, CommittedIsCurrent
  <2>2. commit.kind = "none" /\ save.pc \notin {"publish", "confirm", "resolve"}
    BY <1>1 DEF TailFree, TailOwner
  <2>3. Desired(review, sync)'
    BY <1>1, <1>3, <2>1 DEF Desired, CInv
  <2>4. Exclusive' /\ SaveBarrierIsDelivered' /\ ReplacementIsNext' /\ PublishedIsDelivered'
        /\ PassKeepsItsDestination' /\ PristineIsFirst'
    BY <1>1, <2>2 DEF Exclusive, SaveBarrierIsDelivered, ReplacementIsNext, PublishedIsDelivered,
       PassKeepsItsDestination, PristineIsFirst, CInv
  <2>5. FrozenIsDesired'
    BY <1>1, <1>3 DEF FrozenIsDesired, CInv
  <2>6. CleanIsDelivered'
    <3>1. dest.kind = "original" /\ review.src = External(FirstVersion)
      BY <1>1, <1>3 DEF CInv, PristineIsFirst
    <3>2. delivered'[dest.kind] = External(FirstVersion)
      BY <1>1, <1>3, <3>1 DEF Kinds
    <3>3. s.phase = "clean" => review.items = NoItems
      BY <2>1 DEF CInv, Desired
    <3> HIDE DEF s, digest
    <3> QED BY <1>1, <1>3, <3>1, <3>2, <3>3 DEF CleanIsDelivered, External
  <2> QED BY <2>3, <2>4, <2>5, <2>6 DEF CInv
<1> QED BY <1>2, <1>3 DEF MarkPristine, PersistPlain

(* What the reviewers do to what is saved.                                 *)
LEMMA ReviewersCInv == HInv /\ TInv /\ CInv /\ Reviewers => CInv'
<1> SUFFICES ASSUME HInv, TInv, CInv, Reviewers PROVE CInv'
  OBVIOUS
<1>0. save \in SaveStates /\ sync \in Syncs /\ review \in Reviews /\ review.rev \in Nat
      /\ commit \in CommitBarriers
  BY Bounds DEF TInv, PassTyped, ReviewTyped, Reviews, BarrierTyped
<1>1. ASSUME NEW items \in ItemSets, Mutate(items) PROVE CInv'
  <2>1. /\ MutationSync(Edited(items)).des.items = items
        /\ MutationSync(Edited(items)).desRev = review.rev + 1
        /\ MutationSync(Edited(items)).phase # "clean"
    BY <1>0 DEF MutationSync, Edited, Digest, Syncs, Reviews
  <2> QED BY <1>0, <1>1, <2>1, AcceptCInv DEF Mutate
<1>2. CASE PutDraft
  <2>1. /\ DraftSync(Edited(review.items)).des = sync.des
        /\ DraftSync(Edited(review.items)).desRev \in {sync.desRev, review.rev + 1}
        /\ DraftSync(Edited(review.items)).phase = sync.phase
    BY <1>0 DEF DraftSync, Edited, Syncs, Reviews
  <2>2. sync.des.items = review.items /\ (review.gen # 1 => sync.desRev # 0)
        /\ review.items \in ItemSets
    BY <1>0 DEF CInv, Desired, Reviews
  <2>3. DraftSync(Edited(review.items)).desRev # 0 \/ review.gen = 1
    BY <1>0, <2>1, <2>2
  <2>4. Accept(Edited(review.items), DraftSync(Edited(review.items)), FALSE)
    BY <1>2 DEF PutDraft
  <2> QED BY <2>1, <2>2, <2>3, <2>4, AcceptCInv
<1>3. CASE MarkPristineRefused
  BY <1>3, StillCInv DEF MarkPristineRefused, SamePass, SameDelivery, SameCommit, reviewVars, diskVars
<1>4. CASE RetrySave
  BY <1>0, <1>4, QueuedPass, StillCInv DEF RetrySave, Move, SameCommit, reviewVars, diskVars
<1>5. ASSUME NEW v \in Views, Begin(v) \/ EndHold(v) PROVE CInv'
  <2>1. commit' \in {commit, [commit EXCEPT !.newest = FALSE]}
        /\ UNCHANGED <<review, dest, sync, delivered, pristine, tail, save>>
    BY <1>5 DEF Begin, EndHold, Admit, Raise, reviewVars, diskVars
  <2>2. SameCommit
    BY <1>0, <2>1 DEF CommitBarriers, SameCommit
  <2> QED BY <2>1, <2>2, StillCInv DEF SamePass, SameDelivery
<1> QED BY <1>1, <1>2, <1>3, <1>4, <1>5, EstablishCInv, PristineCInv DEF Reviewers

-----------------------------------------------------------------------------
(* barrier.resolve() of a save, whatever it finds.                         *)
LEMMA SettledOutcome ==
  ASSUME NEW a, NEW b, NEW c, SettleSave(a, b, c)
  PROVE  /\ commit.kind = "save" /\ tail' = "free"
         /\ \/ sync' = commit.successor.sync /\ commit' = NoCommit /\ save' = a
            \/ sync' = sync /\ commit' = NoCommit /\ save' = b
            \/ sync' = sync /\ commit' = commit /\ save' = c
BY DEF SettleSave, ApplySave

(* A settled save is clean only with what it published.                    *)
LEMMA SettledCInv ==
  ASSUME HInv, TInv, CInv, NEW a, NEW b, NEW c, SettleSave(a, b, c),
         UNCHANGED <<review, dest, delivered, pristine>>,
         \/ SamePass /\ save.pc # "resolve"
         \/ save'.pc = "top"
         \/ SameDelivery /\ save.pc = "resolve" /\ save'.pc = "failed" /\ commit' # commit
  PROVE  CInv'
<1>1. commit.kind = "save" /\ commit'.kind \in {"none", "save"} /\ tail' = "free"
  BY SettledOutcome DEF NoCommit
<1>2. save.pc \in {"off", "top", "settle", "freeze", "resolve"}
  BY <1>1 DEF CInv, Exclusive
<1>3. Exclusive'
  BY <1>1, <1>2, SettledOutcome DEF Exclusive, SamePass, NoCommit
<1>4. PassKeepsItsDestination' /\ FrozenIsDesired' /\ PublishedIsDelivered'
  BY <1>2 DEF PassKeepsItsDestination, FrozenIsDesired, PublishedIsDelivered, Frozen, SamePass,
              SameDelivery, CInv
<1>5. PristineIsFirst'
  BY DEF PristineIsFirst, CInv
<1>6. SaveBarrierIsDelivered' /\ ReplacementIsNext'
  <2>1. commit'.kind = "save" => commit' = commit /\ sync' = sync
    BY SettledOutcome DEF NoCommit
  <2> QED BY <1>1, <2>1 DEF SaveBarrierIsDelivered, ReplacementIsNext, CInv, Desired
<1>7. Desired(review, sync)' /\ CleanIsDelivered'
  <2>1. CASE sync' = sync
    BY <2>1 DEF CInv, Desired, CleanIsDelivered
  <2>2. CASE sync' = commit.successor.sync
    BY <1>1, <2>2 DEF CInv, SaveBarrierIsDelivered, Desired, CleanIsDelivered
  <2> QED BY <2>1, <2>2, SettledOutcome
<1> QED BY <1>3, <1>4, <1>5, <1>6, <1>7 DEF CInv

(* A new generation takes effect: it is saved nowhere.                     *)
LEMMA ActivatedCInv ==
  ASSUME TInv, CInv, NEW d, NEW bytes, NEW e, NEW n,
         ActivateGeneration(d, bytes, e, n), NextGeneration(d),
         UNCHANGED <<delivered, pristine>>, commit'.kind = "none",
         save.pc \notin {"publish", "confirm", "resolve"}
  PROVE  CInv'
<1>1. /\ review' = d.review /\ dest' = d.dest /\ sync' = d.sync
      /\ SamePass \/ PassOver
  BY QueuedPass DEF ActivateGeneration, TInv, PassTyped
<1>2. /\ review.gen \in Nat \ {0} /\ dest.gen \in Nat /\ save.destGen \in Nat
      /\ dest.active \in BOOLEAN
      /\ pristine \in [gen : 0..MaxDestGen, current : BOOLEAN]
  BY Bounds DEF TInv, ReviewTyped, Reviews, Destinations, PassTyped, SaveStates
<1>3. /\ review'.gen = review.gen + 1 /\ sync'.phase # "clean" /\ Desired(review', sync')
      /\ dest'.active = dest.active /\ dest'.kind = dest.kind
      /\ dest'.gen = IF dest.active THEN dest.gen + 1 ELSE dest.gen
  BY <1>1 DEF NextGeneration
<1>4. Exclusive' /\ SaveBarrierIsDelivered' /\ ReplacementIsNext'
  BY <1>1 DEF Exclusive, SamePass, PassOver, SaveBarrierIsDelivered, ReplacementIsNext, CInv
<1>5. PassKeepsItsDestination' /\ PublishedIsDelivered'
  BY <1>1, <1>2, <1>3 DEF PassKeepsItsDestination, PublishedIsDelivered, SamePass, PassOver,
                          SameDelivery, CInv
<1>6. FrozenIsDesired' /\ CleanIsDelivered'
  BY <1>1, <1>3 DEF FrozenIsDesired, CleanIsDelivered, Frozen, SamePass, PassOver, SameDelivery, CInv
<1>7. PristineIsFirst'
  <2>1. review'.gen # 1 /\ (pristine # NotDue => pristine.gen <= dest'.gen /\ pristine.gen \in Nat)
    BY <1>2, <1>3, Bounds DEF PristineIsFirst, CInv
  <2>2. ~(pristine # NotDue /\ pristine.gen = dest'.gen)
    BY <1>2, <1>3, <2>1 DEF PristineIsFirst, CInv
  <2> QED BY <2>1, <2>2 DEF PristineIsFirst
<1> QED BY <1>3, <1>4, <1>5, <1>6, <1>7 DEF CInv

(* Whoever needs the session tail settles a barrier.                       *)
LEMMA BarriersCInv == HInv /\ TInv /\ CInv /\ Barriers => CInv'
<1> SUFFICES ASSUME HInv, TInv, CInv, Barriers PROVE CInv'
  OBVIOUS
<1>1. CASE ResolveSave
  <2>1. SettleSave(save, save, save) /\ tail = "free" /\ UNCHANGED <<review, dest, delivered, pristine>>
    BY <1>1 DEF ResolveSave
  <2>2. save' = save /\ save.pc # "resolve"
    BY <2>1, SettledOutcome DEF HInv, TailOwner
  <2> QED BY <2>1, <2>2, SettledCInv DEF SamePass, SameDelivery
<1>2. CASE ResolveReplacement
  <2>1. /\ commit.kind = "replace" /\ commit' = NoCommit /\ tail = "free"
        /\ UNCHANGED <<delivered, pristine, tail>>
    BY <1>2 DEF ResolveReplacement, diskVars
  <2>2. NextGeneration(commit.successor)
    BY <2>1 DEF CInv, ReplacementIsNext
  <2>3. save.pc \notin {"publish", "confirm", "resolve"}
    BY <2>1 DEF HInv, TailOwner
  <2>4. CASE ActivateGeneration(commit.successor, commit.bytes, commit.eligible, commit.newest)
    BY <2>1, <2>2, <2>3, <2>4, ActivatedCInv DEF NoCommit
  <2>5. CASE UNCHANGED <<reviewVars, save>>
    <3>1. Exclusive' /\ SaveBarrierIsDelivered' /\ ReplacementIsNext'
      BY <2>1, <2>3, <2>5 DEF NoCommit, Exclusive, SaveBarrierIsDelivered, ReplacementIsNext
    <3> QED BY <2>1, <2>5, <3>1 DEF CInv, Desired, PassKeepsItsDestination, FrozenIsDesired,
         PublishedIsDelivered, PristineIsFirst, CleanIsDelivered, SaveBytes, reviewVars
  <2> QED BY <1>2, <2>4, <2>5 DEF ResolveReplacement
<1> QED BY <1>1, <1>2 DEF Barriers

-----------------------------------------------------------------------------
(* The pass begins, freezes what it delivers, publishes and records it.    *)
LEMMA DrainTopCInv == TInv /\ CInv /\ DrainTop => CInv'
<1> SUFFICES ASSUME TInv, CInv, DrainTop PROVE CInv'
  OBVIOUS
<1> DEFINE pass == [Parked(IF obs.physical THEN "settle" ELSE "freeze", FALSE)
                      EXCEPT !.destGen = dest.gen, !.kind = dest.kind]
<1>1. /\ UNCHANGED <<review, dest, sync, delivered, pristine, tail, commit>>
      /\ save.pc = "top"
      /\ save' = Parked("off", FALSE) \/ save' = pass
  BY DEF DrainTop, Move, reviewVars, diskVars
<1>2. CASE save' = Parked("off", FALSE)
  BY <1>1, <1>2, ParkedPass, StillCInv DEF PassOver, SameCommit
<1>3. CASE save' = pass
  <2>1. save'.pc \in {"settle", "freeze"} /\ save'.destGen = dest.gen /\ save'.kind = dest.kind
    BY <1>3 DEF Parked, NoDelivery
  <2>2. Exclusive' /\ FrozenIsDesired' /\ PublishedIsDelivered'
    BY <1>1, <2>1 DEF CInv, Exclusive, FrozenIsDesired, PublishedIsDelivered, Frozen
  <2>3. PassKeepsItsDestination'
    <3>1. dest.gen \in Nat
      BY Bounds DEF TInv, ReviewTyped, Destinations
    <3> QED BY <1>1, <2>1, <3>1 DEF PassKeepsItsDestination
  <2>4. Desired(review, sync)' /\ PristineIsFirst' /\ SaveBarrierIsDelivered'
        /\ ReplacementIsNext' /\ CleanIsDelivered'
    BY <1>1 DEF CInv, Desired, PristineIsFirst, SaveBarrierIsDelivered, ReplacementIsNext,
                NextGeneration, CleanIsDelivered
  <2> QED BY <2>2, <2>3, <2>4 DEF CInv
<1> QED BY <1>1, <1>2, <1>3

(* The delivery is frozen from the desired state,                          *)
LEMMA FreezeCInv == TInv /\ CInv /\ Freeze => CInv'
<1> SUFFICES ASSUME TInv, CInv, Freeze PROVE CInv'
  OBVIOUS
<1>1. /\ UNCHANGED <<review, dest, sync, delivered, pristine, tail, commit>>
      /\ save.pc = "freeze" /\ commit.kind = "none"
      /\ pristine.gen # save.destGen \/ pristine = NotDue
      /\ save \in SaveStates
      /\ save' = [save EXCEPT !.pc = "write", !.rev = sync.desRev, !.digest = sync.des,
                       !.items = review.items, !.src = review.src,
                       !.orig = originalDigest, !.docGen = review.gen]
  BY DEF Freeze, Move, TailFree, TInv, PassTyped, reviewVars, diskVars
<1>2. /\ save'.pc = "write" /\ save'.digest = sync.des /\ save'.items = review.items
      /\ save'.destGen = save.destGen /\ save'.kind = save.kind
  BY <1>1 DEF SaveStates
<1>3. Exclusive' /\ PassKeepsItsDestination' /\ FrozenIsDesired' /\ PublishedIsDelivered'
  BY <1>1, <1>2 DEF CInv, Exclusive, PassKeepsItsDestination, FrozenIsDesired, PublishedIsDelivered,
                    Desired
<1>4. Desired(review, sync)' /\ PristineIsFirst' /\ SaveBarrierIsDelivered'
      /\ ReplacementIsNext' /\ CleanIsDelivered'
  BY <1>1 DEF CInv, Desired, PristineIsFirst, SaveBarrierIsDelivered, ReplacementIsNext,
              NextGeneration, CleanIsDelivered
<1> QED BY <1>3, <1>4 DEF CInv

(* ... published on the generation and destination it was frozen for,      *)
LEMMA PublishCInv == HInv /\ TInv /\ CInv /\ Publish => CInv'
<1> SUFFICES ASSUME HInv, TInv, CInv, Publish PROVE CInv'
  OBVIOUS
<1>1. /\ UNCHANGED <<review, dest, sync, pristine, tail>>
      /\ save.pc = "publish" /\ save.kind \in Kinds /\ delivered \in [Kinds -> Contents]
      /\ dest.active /\ dest.gen = save.destGen /\ review.gen = save.docGen /\ review.src = save.src
      /\ delivered' = [delivered EXCEPT ![save.kind] = SaveBytes]
      /\ save' = At("confirm") /\ save \in SaveStates
      /\ commit' \in {commit, [commit EXCEPT !.staged = FALSE]} /\ commit \in CommitBarriers
  BY DEF Publish, CandidateIsCurrent, OriginalReplaced, TInv, PassTyped, SaveStates, DiskTyped,
         BarrierTyped, reviewVars
<1>2. SameDelivery /\ save'.pc = "confirm"
  BY <1>1, MovedPass
<1>3. commit.kind = "none" /\ commit'.kind = "none"
  BY <1>1 DEF CInv, Exclusive, HInv, TailOwner, CommitBarriers
<1>4. /\ save.kind = dest.kind /\ delivered'[save.kind] = SaveBytes
      /\ SaveBytes' = SaveBytes /\ save'.kind = save.kind
  BY <1>1, <1>2 DEF CInv, PassKeepsItsDestination, SameDelivery, SaveBytes
<1>5. Exclusive' /\ PassKeepsItsDestination' /\ FrozenIsDesired' /\ PublishedIsDelivered'
  BY <1>1, <1>2, <1>3, <1>4 DEF CInv, Exclusive, PassKeepsItsDestination, FrozenIsDesired,
     PublishedIsDelivered, SameDelivery, Frozen
<1>6. Desired(review, sync)' /\ PristineIsFirst' /\ SaveBarrierIsDelivered' /\ ReplacementIsNext'
  BY <1>1, <1>3 DEF CInv, Desired, PristineIsFirst, SaveBarrierIsDelivered, ReplacementIsNext
<1>7. CleanIsDelivered'
  <2>1. sync.phase = "clean" => save.items = review.items
    BY <1>1 DEF CInv, FrozenIsDesired, Frozen
  <2>2. SaveBytes.by = "service" /\ SaveBytes.items = save.items /\ SaveBytes.base = save.src.base
    BY DEF SaveBytes, Rendered
  <2> QED BY <1>1, <1>4, <2>1, <2>2 DEF CleanIsDelivered
<1> QED BY <1>5, <1>6, <1>7 DEF CInv

(* What a pass in "confirm" is about to record is true.                    *)
LEMMA ConfirmedIsDelivered ==
  ASSUME HInv, TInv, CInv, save.pc = "confirm"
  PROVE  /\ dest.active /\ delivered[dest.kind] = SaveBytes /\ save.kind = dest.kind
         /\ SaveBytes.by = "service" /\ SaveBytes.base = review.src.base
         /\ Desired(review, CommittedSync(save.rev, save.digest))
         /\ CommittedSync(save.rev, save.digest).phase = "clean" => SaveBytes.items = review.items
         /\ commit.kind = "none"
<1>1. /\ dest.active /\ save.kind = dest.kind /\ review.src = save.src
      /\ delivered[dest.kind] = SaveBytes
  BY DEF CInv, PassKeepsItsDestination, PublishedIsDelivered
<1>2. SaveBytes.by = "service" /\ SaveBytes.items = save.items /\ SaveBytes.base = save.src.base
  BY DEF SaveBytes, Rendered
<1>3. /\ CommittedSync(save.rev, save.digest).desRev = sync.desRev
      /\ CommittedSync(save.rev, save.digest).des = sync.des
      /\ CommittedSync(save.rev, save.digest).phase = "clean" => sync.des = save.digest
  BY DEF CommittedSync, CommittedIsCurrent, TInv, ReviewTyped, Syncs
<1>4. sync.des.items = review.items /\ save.digest.items = save.items
  BY DEF CInv, Desired, FrozenIsDesired, Frozen
<1>5. commit.kind = "none"
  BY DEF CInv, Exclusive, HInv, TailOwner
<1> QED BY <1>1, <1>2, <1>3, <1>4, <1>5 DEF CInv, Desired

(* ... and recorded, durably or behind a barrier.                          *)
LEMMA ConfirmCInv ==
  ASSUME HInv, TInv, CInv, ConfirmSaved \/ ConfirmUnpersisted \/ ConfirmUncertain
  PROVE  CInv'
<1> DEFINE s == CommittedSync(save.rev, save.digest)
<1>1. /\ UNCHANGED <<review, dest, delivered, pristine>> /\ save.pc = "confirm"
      /\ save \in SaveStates
  BY DEF ConfirmSaved, ConfirmUnpersisted, ConfirmUncertain, TInv, PassTyped, reviewVars, diskVars
<1>2. /\ SavedDraft = [DraftOf(review, dest, s) EXCEPT !.at = SavedDraft.at]
      /\ SavedDraft.sync = s
  BY DEF SavedDraft, DraftOf
<1>3. CASE ConfirmSaved
  <2>1. sync' = s /\ save'.pc = "top" /\ UNCHANGED commit
    <3>1. save' = Parked("top", save.requested \/ Stale)
      BY <1>3 DEF ConfirmSaved, NextPass
    <3> QED BY <1>2, <1>3, <3>1, ParkedPass DEF ConfirmSaved, ApplySave
  <2> HIDE DEF s
  <2>2. Exclusive' /\ PassKeepsItsDestination' /\ FrozenIsDesired' /\ PublishedIsDelivered'
        /\ SaveBarrierIsDelivered' /\ ReplacementIsNext'
    BY <1>1, <2>1, ConfirmedIsDelivered DEF Exclusive, PassKeepsItsDestination, FrozenIsDesired,
       PublishedIsDelivered, SaveBarrierIsDelivered, ReplacementIsNext, Frozen
  <2>3. PristineIsFirst'
    BY <1>1 DEF CInv, PristineIsFirst
  <2>4. Desired(review, sync)' /\ CleanIsDelivered'
    BY <1>1, <2>1, ConfirmedIsDelivered DEF CleanIsDelivered, Desired, s
  <2> QED BY <2>2, <2>3, <2>4 DEF CInv
<1>4. CASE ConfirmUnpersisted \/ ConfirmUncertain
  <2>1. /\ UNCHANGED sync /\ commit' = SaveBarrier
        /\ save'.pc = "resolve" \/ (save'.pc = "top" /\ tail' = "free")
    <3>1. \/ save' = At("resolve")
          \/ save' = Parked("top", save.requested \/ FALSE) /\ tail' = "free"
      BY <1>4 DEF ConfirmUnpersisted, ConfirmUncertain, NextPass
    <3> QED BY <1>1, <1>4, <3>1, ParkedPass, MovedPass DEF ConfirmUnpersisted, ConfirmUncertain, reviewVars
  <2>2. /\ commit'.kind = "save" /\ commit'.successor = SavedDraft /\ commit'.bytes = SaveBytes
    BY <2>1 DEF SaveBarrier, NoCommit
  <2>3. Exclusive' /\ FrozenIsDesired' /\ PublishedIsDelivered' /\ ReplacementIsNext'
    BY <1>1, <2>1, <2>2 DEF Exclusive, FrozenIsDesired, PublishedIsDelivered, ReplacementIsNext, Frozen
  <2>4. PassKeepsItsDestination'
    <3>1. save'.pc = "resolve" => save'.destGen = save.destGen /\ save'.kind = save.kind
      BY <1>1, <1>4, MovedPass, ParkedPass DEF ConfirmUnpersisted, ConfirmUncertain, NextPass, SameDelivery
    <3> QED BY <1>1, <2>1, <3>1 DEF PassKeepsItsDestination, CInv
  <2>5. SaveBarrierIsDelivered'
    <3> HIDE DEF s
    <3>1. /\ commit'.successor = [DraftOf(review, dest, s) EXCEPT !.at = commit'.successor.at]
          /\ commit'.successor.sync = s
      BY <1>2, <2>2
    <3> QED BY <1>1, <2>2, <3>1, ConfirmedIsDelivered DEF SaveBarrierIsDelivered, Desired, s
  <2>6. Desired(review, sync)' /\ PristineIsFirst' /\ CleanIsDelivered'
    BY <1>1, <2>1 DEF CInv, Desired, PristineIsFirst, CleanIsDelivered
  <2> QED BY <2>3, <2>4, <2>5, <2>6 DEF CInv
<1> QED BY <1>3, <1>4

(* What the drain does to what is saved.                                   *)
LEMMA DrainCInv == HInv /\ TInv /\ CInv /\ DrainSteps => CInv'
<1> SUFFICES ASSUME HInv, TInv, CInv, DrainSteps PROVE CInv'
  OBVIOUS
<1>0. save \in SaveStates /\ commit \in CommitBarriers /\ sync \in Syncs
      /\ (commit.kind = "save" => save.pc \in {"off", "top", "settle", "freeze", "resolve"})
  BY DEF TInv, PassTyped, BarrierTyped, ReviewTyped, CInv, Exclusive
<1> USE DEF SameCommit
<1>1. CASE DrainEnds \/ DrainUnsettled \/ DrainBlocked \/ ValidateStale \/ PublishStale
  <2>1. /\ UNCHANGED <<review, dest, sync, delivered, pristine, commit>> /\ tail' \in {tail, "free"}
        /\ save.pc # "resolve"
        /\ \E pc \in {"off", "top"}, b \in BOOLEAN : save' = Parked(pc, b)
    BY <1>0, <1>1 DEF DrainEnds, DrainUnsettled, DrainBlocked, ValidateStale, PublishStale,
       Move, LeaveTail, Again, SaveStates, reviewVars, diskVars
  <2> QED BY <2>1, ParkedPass, StillCInv DEF PassOver
<1>2. CASE DrainSettled \/ WriteCandidate \/ WriteFails \/ ValidateMismatch \/ Validate
           \/ PublishFails \/ ConfirmSuperseded
  <2>1. /\ UNCHANGED <<review, dest, sync, delivered, pristine, commit>>
        /\ tail' \in {tail, "free"} \/ commit.kind = "none"
    BY <1>2 DEF DrainSettled, WriteCandidate, WriteFails, ValidateMismatch, Validate,
       PublishFails, ConfirmSuperseded, Move, LeaveTail, TailFree, reviewVars, diskVars
  <2>2. PICK pc : /\ save' = At(pc)
                  /\ save.pc \notin {"off", "top", "resolve"}
                  /\ pc \in {"freeze", "settleAgain", "validate", "publish", "failed"}
                  /\ pc \in Frozen => save.pc \in Frozen
                  /\ save.pc \in {"settle", "freeze"} => pc = "freeze"
    <3>1. CASE DrainSettled
      BY <3>1 DEF DrainSettled, Move, Frozen
    <3>2. CASE WriteCandidate
      BY <3>2 DEF WriteCandidate, Move, Frozen
    <3>3. CASE WriteFails \/ ValidateMismatch \/ Validate
      BY <3>3 DEF WriteFails, ValidateMismatch, Validate, Move, Frozen
    <3>4. CASE PublishFails \/ ConfirmSuperseded
      BY <3>4 DEF PublishFails, ConfirmSuperseded, LeaveTail, Frozen
    <3> QED BY <1>2, <3>1, <3>2, <3>3, <3>4
  <2>3. SameDelivery /\ save'.pc = pc
    BY <1>0, <2>2, MovedPass
  <2>4. PassAdvances
    BY <1>0, <2>2, <2>3 DEF PassAdvances
  <2> QED BY <2>1, <2>4, StillCInv
<1>3. CASE DrainResolves
  <2>1. /\ SettleSave(NextPass(commit.successor.sync.phase = "saving"), At("failed"), NextPass(FALSE))
        /\ save.pc = "resolve" /\ UNCHANGED <<review, dest, delivered, pristine>>
    BY <1>3 DEF DrainResolves
  <2>2. \/ save' = NextPass(commit.successor.sync.phase = "saving") \/ save' = NextPass(FALSE)
        \/ save' = At("failed") /\ commit' # commit
    <3> DEFINE applied == NextPass(commit.successor.sync.phase = "saving")
               uncertain == NextPass(FALSE)
    <3>1. NoCommit.kind = "none"
      BY DEF NoCommit
    <3>2. SettleSave(applied, At("failed"), uncertain)
      BY <2>1
    <3> HIDE DEF applied, uncertain
    <3>3. commit.kind = "save" /\ (save' = applied \/ save' = uncertain
                                  \/ (save' = At("failed") /\ commit' = NoCommit))
      BY <3>2, SettledOutcome
    <3>4. save' = applied \/ save' = uncertain \/ (save' = At("failed") /\ commit' # commit)
      BY <3>1, <3>3
    <3> QED BY <3>4 DEF applied, uncertain
  <2>3. save'.pc = "top" \/ (SameDelivery /\ save'.pc = "failed" /\ commit' # commit)
    BY <1>0, <2>2, ParkedPass, MovedPass DEF NextPass
  <2> QED BY <2>1, <2>3, SettledCInv
<1>4. CASE DrainFailed
  <2> DEFINE s == [sync EXCEPT !.phase = "not-saved", !.desRev = review.rev]
  <2>1. /\ UNCHANGED <<review, dest, delivered, pristine, commit, tail>>
        /\ save.pc = "failed" /\ save' = Parked("off", save.requested)
        /\ UNCHANGED sync \/ (sync' = s /\ TailFree)
    BY <1>4 DEF DrainFailed, PersistPlain, TailFree, diskVars
  <2>2. PassOver
    BY <2>1, ParkedPass DEF PassOver
  <2>3. CASE UNCHANGED sync
    BY <2>1, <2>2, <2>3, StillCInv
  <2>4. CASE sync' = s /\ TailFree
    <3>1. s.phase = "not-saved" /\ s.des = sync.des /\ s.desRev = review.rev
      BY <1>0 DEF Syncs
    <3>2. Desired(review', sync')
      BY <2>1, <2>4, <3>1 DEF Desired, CInv
    <3> QED BY <2>1, <2>2, <2>4, <3>1, <3>2, ReviewChanges DEF HInv
  <2> QED BY <2>1, <2>3, <2>4
<1> QED BY <1>1, <1>2, <1>3, <1>4, DrainTopCInv, FreezeCInv, PublishCInv, ConfirmCInv DEF DrainSteps

-----------------------------------------------------------------------------
(* The observer and the other programs deliver nothing.                    *)
LEMMA ObserverCInv == TInv /\ CInv /\ (Admissions \/ OtherPrograms) => CInv'
<1> SUFFICES ASSUME TInv, CInv, Admissions \/ OtherPrograms PROVE CInv'
  OBVIOUS
<1>1. /\ UNCHANGED <<review, dest, sync, delivered, pristine, tail, save>>
      /\ commit' \in {commit, [commit EXCEPT !.newest = FALSE], [commit EXCEPT !.staged = FALSE]}
  BY DEF Admissions, OtherPrograms, WatchEvent, DropNotification, Tick, HostHint, RetryTick,
         Observe, Admit, Raise, OriginalReplaced, ExternalWrite, ExternalCopyWrite, reviewVars, diskVars
<1>2. SameCommit
  BY <1>1 DEF SameCommit, TInv, BarrierTyped, CommitBarriers
<1> QED BY <1>1, <1>2, StillCInv DEF SamePass, SameDelivery

(* An ingested PDF becomes a generation that is saved nowhere.             *)
LEMMA SuccessorIsNext ==
  ASSUME TInv, CInv, insp.pc = "persist", NEW canRewrite, NEW reconciled
  PROVE  /\ NextGeneration(Successor(canRewrite, reconciled))
         /\ Successor(canRewrite, reconciled).review.src = insp.bytes
         /\ Successor(canRewrite, reconciled).at = FALSE
<1> DEFINE r == [review EXCEPT !.rev = @ + 1, !.gen = @ + 1, !.current = TRUE, !.src = insp.bytes]
           d == [dest EXCEPT !.gen = IF dest.active THEN @ + 1 ELSE @]
           s == [sync EXCEPT !.phase = IF d.active /\ canRewrite /\ reconciled
                                       THEN "saving" ELSE "not-saved",
                             !.desRev = r.rev, !.des = Digest(r)]
<1>1. review \in Reviews /\ dest \in Destinations /\ sync \in Syncs
      /\ review.rev \in Nat /\ review.gen \in Nat
  BY Bounds DEF TInv, ReviewTyped, Reviews
<1>2. /\ r.rev = review.rev + 1 /\ r.gen = review.gen + 1 /\ r.src = insp.bytes
      /\ r.items = review.items
  BY <1>1 DEF Reviews
<1>3. /\ d.active = dest.active /\ d.kind = dest.kind
      /\ d.gen = IF dest.active THEN dest.gen + 1 ELSE dest.gen
  BY <1>1 DEF Destinations
<1>4. /\ s.phase # "clean" /\ s.desRev = r.rev /\ s.des.items = r.items
  BY <1>1 DEF Syncs, Digest
<1>5. Successor(canRewrite, reconciled) = DraftOf(r, d, s)
  BY DEF Successor
<1> HIDE DEF r, d, s
<1>6. /\ DraftOf(r, d, s).review = r /\ DraftOf(r, d, s).dest = d /\ DraftOf(r, d, s).sync = s
      /\ DraftOf(r, d, s).at = FALSE
  BY DEF DraftOf
<1>7. Desired(r, s)
  BY <1>1, <1>2, <1>4 DEF Desired
<1> QED BY <1>2, <1>3, <1>4, <1>5, <1>6, <1>7 DEF NextGeneration

(* The observer settles, marks invalid and replaces: a new generation is   *)
(* saved nowhere.                                                          *)
LEMMA InspectCInv == HInv /\ TInv /\ CInv /\ InspectSteps => CInv'
<1> SUFFICES ASSUME HInv, TInv, CInv, InspectSteps PROVE CInv'
  OBVIOUS
<1>0. save \in SaveStates /\ sync \in Syncs /\ review \in Reviews /\ commit \in CommitBarriers
  BY DEF TInv, PassTyped, ReviewTyped, BarrierTyped
<1> USE DEF SameCommit
<1>1. ASSUME UNCHANGED <<review, dest, sync, delivered, pristine, commit>>,
             UNCHANGED tail \/ commit.kind = "none",
             NEW phase, save' \in {save, Resumed(save, phase)}
      PROVE  CInv'
  BY <1>0, <1>1, QueuedPass, StillCInv
<1>2. CASE SettleSame \/ StagedSame
  <2>1. /\ UNCHANGED <<dest, delivered, pristine, commit, tail>> /\ TailFree
        /\ save' \in {save, Resumed(save, sync.phase)}
        /\ UNCHANGED <<review, sync>> \/ (review' = Refreshed /\ sync' = RefreshedSync)
    BY <1>2 DEF SettleSame, StagedSame, PersistPlain
  <2>2. CASE UNCHANGED <<review, sync>>
    BY <1>1, <2>1, <2>2
  <2>3. CASE review' = Refreshed /\ sync' = RefreshedSync
    <3>1. /\ Refreshed.gen = review.gen /\ Refreshed.src = review.src
          /\ Refreshed.items = review.items /\ Refreshed.rev = review.rev
      BY <1>0 DEF Refreshed, Reviews
    <3>2. /\ RefreshedSync.phase = sync.phase
          /\ RefreshedSync.des.items = review.items
          /\ RefreshedSync.desRev \in {sync.desRev, review.rev}
      BY <1>0, <3>1 DEF RefreshedSync, Digest, Syncs, CInv, Desired
    <3>3. Desired(review', sync')
      BY <2>3, <3>1, <3>2 DEF Desired, CInv
    <3>4. SamePass \/ PassOver
      BY <1>0, <2>1, QueuedPass
    <3> QED BY <2>1, <2>3, <3>1, <3>2, <3>3, <3>4, ReviewChanges DEF HInv
  <2> QED BY <2>1, <2>2, <2>3
<1>3. CASE MarkInvalid
  <2> DEFINE r == [review EXCEPT !.current = FALSE]
             s == IF review.current
                  THEN [sync EXCEPT !.phase = "not-saved", !.desRev = review.rev, !.des = Digest(r)]
                  ELSE sync
  <2>1. /\ UNCHANGED <<dest, delivered, pristine, commit, tail>> /\ TailFree
        /\ save' \in {save, Resumed(save, s.phase), Resumed(save, sync.phase)}
        /\ UNCHANGED <<review, sync>> \/ (review' = r /\ sync' = s)
    BY <1>3 DEF MarkInvalid, PersistPlain, OutcomeCurrent, OutcomeRetry, diskVars
  <2>2. SamePass \/ PassOver
    BY <1>0, <2>1, QueuedPass
  <2>3. CASE UNCHANGED <<review, sync>>
    BY <2>1, <2>2, <2>3, StillCInv
  <2>4. CASE review' = r /\ sync' = s
    <3>1. r.gen = review.gen /\ r.src = review.src /\ r.items = review.items /\ r.rev = review.rev
      BY <1>0 DEF Reviews
    <3>2. /\ s.phase = "clean" => sync.phase = "clean"
          /\ s.des.items = review.items
          /\ s.desRev \in {sync.desRev, review.rev}
      BY <1>0, <3>1 DEF Digest, Syncs, CInv, Desired
    <3> HIDE DEF r, s
    <3>3. Desired(review', sync')
      BY <2>4, <3>1, <3>2 DEF Desired, CInv
    <3> QED BY <2>1, <2>2, <2>4, <3>1, <3>2, <3>3, ReviewChanges DEF HInv
  <2> QED BY <2>1, <2>3, <2>4
<1>4. CASE Replace
  <2>1. UNCHANGED <<review, dest, sync, delivered, pristine, commit, save>> /\ commit.kind = "none"
    BY <1>4 DEF Replace, TailFree, reviewVars
  <2> QED BY <2>1, StillCInv DEF SamePass, SameDelivery
<1>5. ASSUME insp.pc = "persist"
      PROVE  commit.kind = "none" /\ save.pc \notin {"publish", "confirm", "resolve"}
  BY <1>5 DEF CInv, Exclusive, HInv, TailOwner
<1>6. ASSUME NEW canRewrite \in BOOLEAN, NEW reconciled \in BOOLEAN,
             ReplacePersisted(canRewrite, reconciled)
      PROVE  CInv'
  <2>1. /\ ActivateGeneration(Successor(canRewrite, reconciled), insp.bytes, canRewrite, insp.newest)
        /\ insp.pc = "persist" /\ UNCHANGED <<delivered, pristine, commit>>
    BY <1>6 DEF ReplacePersisted, diskVars
  <2> QED BY <1>5, <2>1, SuccessorIsNext, ActivatedCInv
<1>7. ASSUME NEW canRewrite \in BOOLEAN, NEW reconciled \in BOOLEAN, NEW readable \in BOOLEAN,
             ReplaceUnpersisted(canRewrite, reconciled, readable)
      PROVE  CInv'
  <2> DEFINE successor == Successor(canRewrite, reconciled)
  <2>1. /\ UNCHANGED <<review, dest, sync, delivered, pristine, save>>
        /\ insp.pc = "persist" /\ tail' = "free"
    BY <1>7 DEF ReplaceUnpersisted, reviewVars, diskVars
  <2>2. CASE UNCHANGED commit
    BY <2>1, <2>2, StillCInv DEF SamePass, SameDelivery
  <2>3. CASE /\ commit'.kind = "replace" /\ commit'.successor = successor
             /\ commit'.bytes = insp.bytes
    <3>1. NextGeneration(successor) /\ insp.bytes = successor.review.src
      BY <2>1, SuccessorIsNext
    <3> HIDE DEF successor
    <3>2. ReplacementIsNext'
      BY <2>1, <2>3, <3>1 DEF ReplacementIsNext, NextGeneration, Desired
    <3>3. Exclusive' /\ SaveBarrierIsDelivered'
      BY <1>5, <2>1, <2>3 DEF Exclusive, SaveBarrierIsDelivered
    <3> QED BY <2>1, <3>2, <3>3 DEF CInv, Desired, PassKeepsItsDestination, FrozenIsDesired,
         PublishedIsDelivered, PristineIsFirst, CleanIsDelivered, SaveBytes
  <2> QED BY <1>7, <2>2, <2>3 DEF ReplaceUnpersisted
<1>8. CASE UNCHANGED <<review, dest, sync, delivered, pristine, commit, tail>>
           /\ save' \in {save, Resumed(save, sync.phase)}
  BY <1>1, <1>8
<1> QED BY <1>2, <1>3, <1>4, <1>6, <1>7, <1>8
        DEF InspectSteps, InspectStart, InspectHash, InspectBlocked, SettleSuperseded,
            InspectMissing, InspectStage, InspectFails, StagedSameConflicts,
            StagedSameSuperseded, ReplaceAbandoned, RetryLater, OutcomeCurrent,
            reviewVars, diskVars

-----------------------------------------------------------------------------
(* A session opens on a file whose items it shows.                         *)
LEMMA InitCInv == Init => CInv
<1> SUFFICES ASSUME Init PROVE CInv
  OBVIOUS
<1>1. /\ review = [rev |-> 0, gen |-> 1, current |-> TRUE, src |-> External(FirstVersion),
                   items |-> NoItems]
      /\ dest.kind = "original" /\ sync.des = Digest(review)
      /\ commit = NoCommit /\ pristine = NotDue /\ save = NoDelivery
      /\ delivered = [original |-> review.src, copy |-> Absent]
  BY DEF Init
<1>2. Exclusive /\ PassKeepsItsDestination /\ FrozenIsDesired /\ PublishedIsDelivered
      /\ SaveBarrierIsDelivered /\ ReplacementIsNext
  BY <1>1 DEF NoCommit, NoDelivery, Exclusive, PassKeepsItsDestination, FrozenIsDesired, Frozen,
     PublishedIsDelivered, SaveBarrierIsDelivered, ReplacementIsNext
<1>3. Desired(review, sync) /\ PristineIsFirst
  BY <1>1 DEF Desired, Digest, PristineIsFirst
<1>4. CleanIsDelivered
  BY <1>1 DEF CleanIsDelivered, External
<1> QED BY <1>2, <1>3, <1>4 DEF CInv

(* CInv is inductive, relative to HInv and TInv.                           *)
LEMMA NextCInv == HInv /\ TInv /\ CInv /\ [Next]_vars => CInv'
<1>1. CInv /\ UNCHANGED vars => CInv'
  BY DEF vars, CInv, Exclusive, Desired, PassKeepsItsDestination, FrozenIsDesired,
         PublishedIsDelivered, PristineIsFirst, SaveBarrierIsDelivered, ReplacementIsNext,
         NextGeneration, CleanIsDelivered, SaveBytes
<1> QED BY <1>1, ReviewersCInv, BarriersCInv, DrainCInv, ObserverCInv, InspectCInv DEF Next

(* The invariants of holds, types and saving hold together.                *)
THEOREM CInvariant == Spec => [](HInv /\ TInv /\ CInv)
BY InitCInv, NextCInv, TInvariant, InitHInv, InitTInv, NextHInv, NextTInv, PTL DEF Spec

(* markSaveCommitted() and the settlement of the commit barriers: when a   *)
(* session reports "clean", the last PDF the service put at its            *)
(* destination, or opened there, holds the items and the source of the     *)
(* review.                                                                 *)
THEOREM SavedIsDelivered == Spec => []CleanIsDelivered
<1>1. CInv => CleanIsDelivered
  BY DEF CInv
<1> QED BY <1>1, CInvariant, PTL

-----------------------------------------------------------------------------
(* A crash brings back a kept draft.                                       *)
LEMMA RecoveredIsKept ==
  ASSUME NEW s, Stored(s), NEW A, NEW P, Durable(s, A, P)
  PROVE  Kept(Recovered(s), A, P)
<1>1. /\ s.current \in Drafts \cup {NoDraft} /\ s.previous \in Drafts \cup {NoDraft}
      /\ \A f \in Drafts : f.rev \in Nat
  BY Bounds DEF Stored, Drafts
<1> QED BY <1>1, NoDraftAssumption DEF Durable, Recovered

(* More allowed drafts keep more files.                                    *)
LEMMA DurableGrows ==
  ASSUME NEW s, NEW A, NEW P, Durable(s, A, P), NEW A2, NEW P2, A \subseteq A2, P \subseteq P2
  PROVE  Durable(s, A2, P2)
BY DEF Durable, Kept

(* The renames of a persist() move kept drafts, and write a kept one.      *)
LEMMA RotationKeeps ==
  ASSUME NEW s, Stored(s), NEW A, NEW P, Durable(s, A, P)
  PROVE  Durable(Rotated(s), A, P)
<1>1. s.current # NoDraft \/ s.previous # NoDraft
  BY DEF Stored
<1> QED BY <1>1 DEF Durable, Rotated

(* ... whichever of them it stops at.                                      *)
LEMMA WritesKeep ==
  ASSUME NEW s, Stored(s), NEW A, NEW P, Durable(s, A, P), NEW d \in Drafts, Kept(d, A, P),
         NEW t \in {s, Rotated(s), Published(s, d)}
  PROVE  Durable(t, A, P)
<1>1. s.current # NoDraft \/ s.previous # NoDraft
  BY DEF Stored
<1>2. Durable(Rotated(s), A, P)
  BY RotationKeeps
<1>3. Durable(Published(s, d), A, P)
  BY <1>1, <1>2, NoDraftAssumption DEF Durable, Rotated, Published
<1> QED BY <1>2, <1>3

(* A persist() that succeeds makes its draft the state of the session.     *)
LEMMA PublishedIsMemory ==
  ASSUME NEW s, Stored(s), NEW m, NEW R, NEW d \in Drafts, NEW P, P \subseteq {d},
         Durable(s, {m} \cup R, P), m.rev <= d.rev
  PROVE  Durable(Published(s, d), {AtLess(d)} \cup R, {})
<1> DEFINE f == Published(s, d).previous
<1>1. Published(s, d).current = d /\ d # NoDraft /\ Published(s, d).previous = f
  BY NoDraftAssumption DEF Published
<1>2. ASSUME f # NoDraft PROVE Kept(f, {m} \cup R, P) /\ f \in Drafts
  BY <1>2 DEF Published, Rotated, Durable, Stored
<1>3. ASSUME f # NoDraft PROVE Kept(f, {AtLess(d)} \cup R, {}) \/ f.rev <= d.rev
  <2>1. AtLess(f) = m => f.rev = m.rev
    BY <1>2, <1>3 DEF AtLess, Drafts
  <2> HIDE DEF f
  <2> QED BY <1>2, <1>3, <2>1 DEF Kept
<1> HIDE DEF f
<1> QED BY <1>1, <1>3 DEF Durable, Kept

(* A pending draft that a crash brings back may become the state.          *)
LEMMA RecoveredIsMemory ==
  ASSUME NEW s, Stored(s), NEW m, NEW R, NEW d \in Drafts, Durable(s, {m} \cup R, {d}),
         Recovered(s) = d, s.previous # d \/ m.rev = d.rev
  PROVE  Durable(s, {AtLess(d)} \cup R, {})
<1>1. /\ s.current \in Drafts \cup {NoDraft} /\ s.previous \in Drafts \cup {NoDraft}
      /\ \A f \in Drafts : f.rev \in Nat /\ AtLess(f).rev = f.rev
  BY Bounds DEF Stored, Drafts, AtLess
<1>2. CASE s.current = d
  BY <1>1, <1>2, NoDraftAssumption DEF Durable, Recovered, Kept
<1>3. CASE s.current # d
  <2>1. s.previous = d /\ (s.current # NoDraft => s.previous.rev > s.current.rev) /\ m.rev = d.rev
    BY <1>3 DEF Recovered
  <2>2. s.current # NoDraft => AtLess(s.current) \in R
    BY <1>1, <1>3, <2>1 DEF Durable, Kept
  <2> QED BY <2>1, <2>2, NoDraftAssumption DEF Durable, Kept
<1> QED BY <1>2, <1>3

(* A pending draft that is given up is either on no file, or refused.      *)
LEMMA GivenUp ==
  ASSUME NEW s, NEW A, NEW d, Durable(s, A, {d}), NEW A2,
         A \cup {AtLess(f) : f \in {s.current, s.previous} \cap {d}} \subseteq A2
  PROVE  Durable(s, A2, {})
BY DEF Durable, Kept

(* A review that moves on, and writes that stay behind it, leave no file   *)
(* too far ahead.                                                          *)
LEMMA BehindGrows ==
  ASSUME NEW s, Stored(s), NEW rev \in Nat, NEW gen \in Nat, NEW a, FilesBehind(s, rev, gen, a),
         NEW rev2 \in Nat, NEW gen2 \in Nat, rev <= rev2, gen <= gen2
  PROVE  /\ FilesBehind(s, rev2, gen2, a)
         /\ \A d : a \subseteq {d} /\ NotAhead(d, rev2, gen2) => FilesBehind(s, rev2, gen2, {})
<1>1. \A f \in Drafts : f.rev \in Nat /\ f.review.gen \in Nat
  BY Bounds DEF Drafts, Reviews
<1>2. \A f \in {s.current, s.previous} : f \in Drafts \cup {NoDraft}
  BY DEF Stored
<1>3. \A f \in {s.current, s.previous} : f = NoDraft \/ f \in a \/ NotAhead(f, rev2, gen2)
  BY <1>1, <1>2 DEF FilesBehind, NotAhead
<1> QED BY <1>3 DEF FilesBehind

(* ... nor does a write that stays behind it.                              *)
LEMMA WritesBehind ==
  ASSUME NEW s, NEW rev, NEW gen, NEW a, FilesBehind(s, rev, gen, a),
         NEW d, d \in a \/ NotAhead(d, rev, gen)
  PROVE  /\ FilesBehind(Rotated(s), rev, gen, a)
         /\ FilesBehind(Published(s, d), rev, gen, a)
BY DEF FilesBehind, Rotated, Published

-----------------------------------------------------------------------------
(* A draft of a state, with any acknowledgedAt.                            *)
LEMMA DraftFields ==
  ASSUME NEW r, NEW d, NEW s
  PROVE  /\ DraftOf(r, d, s).rev = r.rev /\ DraftOf(r, d, s).review = r
         /\ AtLess(DraftOf(r, d, s)) = DraftOf(r, d, s)
<1> DEFINE no == FALSE
<1> HIDE DEF no
<1>1. ASSUME NEW f, f = [rev |-> r.rev, review |-> r, dest |-> d, sync |-> s, at |-> no]
      PROVE  [f EXCEPT !.at = no] = f /\ f.rev = r.rev /\ f.review = r
  BY <1>1
<1> QED BY <1>1 DEF DraftOf, AtLess, no

(* ... and a typed draft is that of its fields but for acknowledgedAt.     *)
LEMMA AcknowledgedFields ==
  ASSUME NEW f \in Drafts, f.rev = f.review.rev
  PROVE  AtLess(f) = DraftOf(f.review, f.dest, f.sync)
<1> DEFINE no == FALSE
<1> HIDE DEF no
<1>1. ASSUME NEW g, g = [f EXCEPT !.at = no]
      PROVE  g = [rev |-> f.review.rev, review |-> f.review, dest |-> f.dest, sync |-> f.sync,
                  at |-> no]
  BY <1>1 DEF Drafts
<1> QED BY <1>1 DEF DraftOf, AtLess, no

(* Steps that write no recovery file.                                      *)
LEMMA StillDInv ==
  ASSUME DInv, UNCHANGED <<review, dest, sync, store, refused>>,
         commit'.kind = commit.kind, commit'.successor = commit.successor,
         commit'.predecessor = commit.predecessor
  PROVE  DInv'
BY DEF DInv, Durable, FilesBehind, Kept, NotAhead, Pending, Ahead, Draft

(* A persist() whose caller keeps its memory when it throws.               *)
LEMMA PersistDInv ==
  ASSUME TInv, TInv', DInv, TailFree, UNCHANGED commit, NEW r, NEW d, NEW s,
         r.gen = review.gen, r.rev \in {review.rev, review.rev + 1},
         \/ /\ store' = Published(store, DraftOf(r, d, s))
            /\ review' = r /\ dest' = d /\ sync' = s
            /\ UNCHANGED refused
         \/ /\ store' \in FailedWrites(DraftOf(r, d, s))
            /\ refused' = IF store' = Published(store, DraftOf(r, d, s))
                          THEN refused \cup {DraftOf(r, d, s)} ELSE refused
            /\ UNCHANGED <<review, dest, sync>>
  PROVE  DInv'
<1> DEFINE draft == DraftOf(r, d, s)
<1>1. /\ draft.rev = r.rev /\ draft.review = r /\ AtLess(draft) = draft
      /\ Draft.rev = review.rev
  BY DraftFields DEF Draft
<1>2. /\ review.rev \in Nat /\ review.gen \in Nat /\ Stored(store)
      /\ review'.rev \in Nat /\ review'.gen \in Nat
  BY Bounds DEF TInv, ReviewTyped, StoreTyped, Reviews
<1>3. /\ Durable(store, {Draft} \cup refused, {}) /\ FilesBehind(store, review.rev, review.gen, {})
      /\ commit'.kind = "none" /\ Pending' = {} /\ Ahead' = {}
  BY DEF DInv, TailFree, Pending, Ahead
<1>4. CASE /\ store' = Published(store, draft)
           /\ review' = r /\ dest' = d /\ sync' = s /\ UNCHANGED refused
  <2>1. Draft' = draft /\ draft \in Drafts
    <3>1. Draft' = draft
      BY <1>4 DEF Draft
    <3>2. DraftOf(review', dest', sync') \in Drafts
      BY DraftTyped DEF TInv, ReviewTyped
    <3> QED BY <3>1, <3>2 DEF Draft
  <2> HIDE DEF draft
  <2>2. Draft.rev <= draft.rev
    BY <1>1, <1>2
  <2>3. Durable(Published(store, draft), {AtLess(draft)} \cup refused, {})
    BY <1>2, <1>3, <2>1, <2>2, PublishedIsMemory
  <2>4. Durable(store', {Draft'} \cup refused', {})
    BY <1>1, <1>4, <2>1, <2>3
  <2>5. review.rev <= review'.rev /\ review.gen <= review'.gen
        /\ NotAhead(draft, review'.rev, review'.gen)
    BY <1>1, <1>2, <1>4 DEF NotAhead
  <2>6. FilesBehind(store, review'.rev, review'.gen, {})
    BY <1>2, <1>3, <2>5, BehindGrows
  <2>7. FilesBehind(store', review'.rev, review'.gen, {})
    BY <1>4, <2>5, <2>6, WritesBehind
  <2> QED BY <1>3, <2>4, <2>7 DEF DInv
<1>5. CASE /\ store' \in FailedWrites(draft)
           /\ refused' = IF store' = Published(store, draft) THEN refused \cup {draft} ELSE refused
           /\ UNCHANGED <<review, dest, sync>>
  <2>1. /\ Draft' = Draft /\ refused \subseteq refused'
        /\ store' = Published(store, draft) => draft \in Drafts /\ draft \in refused'
    BY <1>5 DEF Draft, TInv, StoreTyped
  <2> HIDE DEF draft
  <2>2. Durable(store, {Draft'} \cup refused', {})
    BY <1>3, <2>1, DurableGrows
  <2>3. Durable(store', {Draft'} \cup refused', {})
    <3>1. CASE store' = Published(store, draft)
      BY <1>1, <1>2, <2>1, <2>2, <3>1, WritesKeep DEF Kept
    <3>2. CASE store' \in {store, Rotated(store)}
      BY <1>2, <2>2, <3>2, RotationKeeps
    <3> QED BY <1>5, <3>1, <3>2 DEF FailedWrites
  <2>4. FilesBehind(store', review'.rev, review'.gen, {})
    <3>1. NotAhead(draft, review.rev, review.gen)
      BY <1>1, <1>2 DEF NotAhead
    <3> QED BY <1>3, <1>5, <3>1, WritesBehind DEF FailedWrites
  <2> QED BY <1>3, <2>3, <2>4 DEF DInv
<1> QED BY <1>4, <1>5

(* An edit, a destination choice, a recorded original: one persist() each. *)
LEMMA ReviewersDInv == TInv /\ TInv' /\ DInv /\ Reviewers => DInv'
<1> SUFFICES ASSUME TInv, TInv', DInv, Reviewers PROVE DInv'
  OBVIOUS
<1>0. review \in Reviews /\ commit \in CommitBarriers
  BY DEF TInv, ReviewTyped, BarrierTyped
<1> USE DEF PersistPlain
<1>1. ASSUME NEW items \in ItemSets, NEW s, NEW b, Accept(Edited(items), s, b) PROVE DInv'
  <2>1. Edited(items).gen = review.gen /\ Edited(items).rev \in {review.rev, review.rev + 1}
    BY <1>0 DEF Edited, Reviews
  <2> QED BY <1>1, <2>1, PersistDInv DEF Accept
<1>2. ASSUME NEW items \in ItemSets, Mutate(items) PROVE DInv'
  BY <1>1, <1>2 DEF Mutate
<1>3. CASE PutDraft
  BY <1>0, <1>1, <1>3 DEF PutDraft, Reviews
<1>4. ASSUME NEW kind \in Kinds, NEW items \in ItemSets, Establish(kind, items) PROVE DInv'
  <2> DEFINE r == IF items = review.items THEN review ELSE Edited(items)
             d == [active |-> TRUE, gen |-> dest.gen + 1, kind |-> kind]
             s == [sync EXCEPT !.phase = "saving", !.desRev = r.rev, !.des = Digest(r)]
  <2>1. r.gen = review.gen /\ r.rev \in {review.rev, review.rev + 1}
    BY <1>0 DEF Edited, Reviews
  <2>2. /\ TailFree /\ UNCHANGED commit
        /\ PersistPlain(DraftOf(r, d, s), review' = r /\ dest' = d /\ sync' = s,
                        UNCHANGED <<review, dest, sync>>)
    BY <1>4 DEF Establish
  <2> HIDE DEF r, d, s
  <2> QED BY <2>1, <2>2, PersistDInv
<1>5. CASE MarkPristine
  <2> DEFINE s == CommittedSync(0, [gen |-> review.gen, current |-> pristine.current,
                                    items |-> NoItems])
  <2>1. \/ UNCHANGED <<review, dest, sync, store, refused, commit>>
        \/ /\ TailFree /\ UNCHANGED <<commit, review, dest>>
           /\ PersistPlain(DraftOf(review, dest, s), sync' = s, UNCHANGED sync)
    BY <1>5 DEF MarkPristine
  <2> HIDE DEF s
  <2> QED BY <2>1, StillDInv, PersistDInv
<1>6. CASE MarkPristineRefused \/ RetrySave
  BY <1>6, StillDInv DEF MarkPristineRefused, RetrySave, Move, reviewVars
<1>7. ASSUME NEW v \in Views, Begin(v) \/ EndHold(v) PROVE DInv'
  <2>1. commit' \in {commit, [commit EXCEPT !.newest = FALSE]}
        /\ UNCHANGED <<review, dest, sync, store, refused>>
    BY <1>7 DEF Begin, EndHold, Admit, Raise, reviewVars
  <2> QED BY <1>0, <2>1, StillDInv DEF CommitBarriers
<1> QED BY <1>2, <1>3, <1>4, <1>5, <1>6, <1>7 DEF Reviewers

(* barrier.resolve() of a save.                                            *)
LEMMA SettledDInv ==
  ASSUME TInv, TInv', CInv, DInv, UNCHANGED <<review, dest>>,
         NEW a, NEW b, NEW c, SettleSave(a, b, c)
  PROVE  DInv'
<1> DEFINE d == commit.successor
           A == {Draft} \cup refused
<1>1. /\ commit.kind = "save" /\ d \in Drafts /\ Stored(store) /\ commit.kind # "none"
      /\ review.rev \in Nat /\ review.gen \in Nat
  BY Bounds DEF SettleSave, TInv, BarrierTyped, StoreTyped, ReviewTyped, Reviews
<1>2. /\ Draft.rev = d.rev /\ d.rev = review.rev /\ d.review = review
      /\ AtLess(d) = DraftOf(review, dest, d.sync)
  <2>1. d = [DraftOf(review, dest, d.sync) EXCEPT !.at = d.at]
    BY <1>1 DEF CInv, SaveBarrierIsDelivered
  <2>2. d.rev = review.rev /\ d.review = review /\ d.dest = dest
    BY <2>1 DEF DraftOf
  <2> HIDE DEF d
  <2>3. AtLess(d) = DraftOf(review, dest, d.sync)
    BY <1>1, <2>2, AcknowledgedFields
  <2> QED BY <2>2, <2>3, DraftFields DEF Draft
<1>3. Durable(store, A, {d}) /\ FilesBehind(store, review.rev, review.gen, {})
  BY <1>1 DEF DInv, Pending, Ahead
<1>4. NotAhead(d, review.rev, review.gen)
  BY <1>1, <1>2 DEF NotAhead
<1>5. CASE /\ sync' = d.sync /\ commit' = NoCommit /\ UNCHANGED refused
           /\ \/ Recovered(store') = d /\ store' \in {store} \cup FailedWrites(d)
              \/ store' = Published(store, d)
  <2>1. Draft' = AtLess(d) /\ Pending' = {} /\ Ahead' = {} /\ commit'.kind = "none"
    BY <1>2, <1>5 DEF Draft, Pending, Ahead, NoCommit
  <2>2. Durable(store', {Draft'} \cup refused', {})
    <3>1. CASE store' = Published(store, d)
      <4>1. Draft.rev <= d.rev /\ {d} \subseteq {d}
        BY <1>1, <1>2
      <4> HIDE DEF d
      <4>2. Durable(Published(store, d), {AtLess(d)} \cup refused, {})
        BY <1>1, <1>3, <4>1, PublishedIsMemory
      <4> QED BY <1>5, <2>1, <3>1, <4>2
    <3>2. CASE Recovered(store') = d /\ store' \in {store} \cup FailedWrites(d)
      <4>1. Durable(store', A, {d}) /\ Stored(store')
        BY <1>1, <1>3, <3>2, WritesKeep, WritesTyped DEF FailedWrites, Kept
      <4>2. Durable(store', {AtLess(d)} \cup refused, {})
        BY <1>1, <1>2, <3>2, <4>1, RecoveredIsMemory
      <4> QED BY <1>5, <2>1, <4>2
    <3> QED BY <1>5, <3>1, <3>2
  <2>3. FilesBehind(store', review'.rev, review'.gen, {})
    BY <1>3, <1>4, <1>5, WritesBehind DEF FailedWrites
  <2> QED BY <2>1, <2>2, <2>3 DEF DInv
<1>6. CASE /\ UNCHANGED <<sync, store>> /\ commit' = NoCommit
           /\ refused' = refused \cup {AtLess(f) : f \in {store.current, store.previous} \cap {d}}
  <2>1. Draft' = Draft /\ Pending' = {} /\ Ahead' = {} /\ commit'.kind = "none"
    BY <1>6 DEF Draft, Pending, Ahead, NoCommit
  <2>2. Durable(store, A, {d}) /\ refused' = refused \cup {AtLess(f) : f \in {store.current, store.previous} \cap {d}}
    BY <1>3, <1>6
  <2>3. A \cup {AtLess(f) : f \in {store.current, store.previous} \cap {d}} \subseteq {Draft} \cup refused'
    BY <2>2
  <2> HIDE DEF A, d
  <2>4. Durable(store, {Draft} \cup refused', {})
    BY <2>2, <2>3, GivenUp
  <2> QED BY <1>3, <1>6, <2>1, <2>4 DEF DInv
<1>7. CASE UNCHANGED <<sync, commit, refused>> /\ store' \in {store} \cup FailedWrites(d)
  <2>1. Draft' = Draft /\ Pending' = {d} /\ Ahead' = {} /\ commit'.kind # "replace"
    BY <1>1, <1>7 DEF Draft, Pending, Ahead
  <2>2. Durable(store', A, {d})
    BY <1>1, <1>3, <1>7, WritesKeep DEF FailedWrites, Kept
  <2>3. FilesBehind(store', review.rev, review.gen, {})
    BY <1>3, <1>4, <1>7, WritesBehind DEF FailedWrites
  <2> QED BY <1>7, <2>1, <2>2, <2>3 DEF DInv
<1>8. \/ /\ sync' = d.sync /\ commit' = NoCommit /\ UNCHANGED refused
         /\ \/ Recovered(store') = d /\ store' \in {store} \cup FailedWrites(d)
            \/ store' = Published(store, d)
      \/ /\ UNCHANGED <<sync, store>> /\ commit' = NoCommit
         /\ refused' = refused \cup {AtLess(f) : f \in {store.current, store.previous} \cap {d}}
      \/ UNCHANGED <<sync, commit, refused>> /\ store' \in {store} \cup FailedWrites(d)
  BY DEF SettleSave, ApplySave
<1> QED BY <1>5, <1>6, <1>7, <1>8

(* An uncertain replacement that turns out to be durable takes effect; one *)
(* that turns out not to be is on neither file.                            *)
LEMMA BarriersDInv == TInv /\ TInv' /\ CInv /\ DInv /\ Barriers => DInv'
<1> SUFFICES ASSUME TInv, TInv', CInv, DInv, Barriers PROVE DInv'
  OBVIOUS
<1>1. CASE ResolveSave
  BY <1>1, SettledDInv DEF ResolveSave
<1>2. CASE ResolveReplacement
  <2> DEFINE d == commit.successor
             A == {Draft} \cup refused
  <2>1. /\ d \in Drafts /\ Stored(store) /\ review.rev \in Nat /\ review.gen \in Nat
        /\ UNCHANGED <<store, refused>> /\ commit' = NoCommit /\ commit.kind = "replace"
    BY <1>2, Bounds DEF ResolveReplacement, TInv, BarrierTyped, StoreTyped, ReviewTyped, Reviews
  <2>2. /\ d = DraftOf(d.review, d.dest, d.sync)
        /\ d.review.rev = review.rev + 1 /\ d.review.gen = review.gen + 1
    BY <2>1 DEF CInv, ReplacementIsNext, NextGeneration
  <2>3. /\ Durable(store, A, {d}) /\ FilesBehind(store, review.rev, review.gen, {d})
        /\ d # store.previous /\ d # commit.predecessor
    BY <2>1 DEF DInv, Pending, Ahead
  <2>4. Pending' = {} /\ Ahead' = {} /\ commit'.kind # "replace"
    BY <2>1 DEF Pending, Ahead, NoCommit
  <2> HIDE DEF d
  <2>5. d.rev = review.rev + 1 /\ AtLess(d) = d
    BY <2>2, DraftFields
  <2>6. CASE Recovered(store) = d /\ review' = d.review /\ dest' = d.dest /\ sync' = d.sync
    <3>1. Draft' = d
      BY <2>2, <2>6 DEF Draft
    <3>2. Durable(store, {AtLess(d)} \cup refused, {})
      BY <2>1, <2>3, <2>6, RecoveredIsMemory
    <3>3. FilesBehind(store, review'.rev, review'.gen, {})
      <4>1. NotAhead(d, d.review.rev, d.review.gen) /\ {d} \subseteq {d}
            /\ review.rev <= d.review.rev /\ review.gen <= d.review.gen
            /\ d.review.rev \in Nat /\ d.review.gen \in Nat
        BY <2>1, <2>2, <2>5 DEF NotAhead
      <4>2. FilesBehind(store, d.review.rev, d.review.gen, {})
        BY <2>1, <2>3, <4>1, BehindGrows
      <4> QED BY <2>6, <4>2
    <3> QED BY <2>1, <2>4, <2>5, <3>1, <3>2, <3>3 DEF DInv
  <2>7. CASE Recovered(store) = commit.predecessor /\ UNCHANGED <<review, dest, sync>>
    <3>1. store.current # d
      <4>1. ASSUME store.current = d PROVE Recovered(store) = d
        <5>1. d # NoDraft /\ (store.previous # NoDraft => store.previous.rev <= review.rev + 1)
          BY <2>1, <2>3, NoDraftAssumption DEF FilesBehind, NotAhead
        <5>2. store.previous # NoDraft => store.previous.rev \in Nat
          BY <2>1, Bounds DEF Stored, Drafts
        <5> QED BY <2>1, <2>5, <4>1, <5>1, <5>2 DEF Recovered
      <4> QED BY <2>3, <2>7, <4>1
    <3>2. Durable(store, A, {})
      BY <2>3, <3>1 DEF Durable, Kept
    <3>3. FilesBehind(store, review.rev, review.gen, {})
      BY <2>3, <3>1 DEF FilesBehind
    <3>4. Draft' = Draft
      BY <2>7 DEF Draft
    <3> QED BY <2>1, <2>4, <2>7, <3>2, <3>3, <3>4 DEF DInv
  <2> QED BY <1>2, <2>6, <2>7 DEF ResolveReplacement, ActivateGeneration, reviewVars, d
<1> QED BY <1>1, <1>2 DEF Barriers

(* The saved draft becomes the state, or the draft of a pending commit.    *)
LEMMA DrainDInv == HInv /\ TInv /\ TInv' /\ CInv /\ DInv /\ DrainSteps => DInv'
<1> SUFFICES ASSUME HInv, TInv, TInv', CInv, DInv, DrainSteps PROVE DInv'
  OBVIOUS
<1>0. /\ review \in Reviews /\ commit \in CommitBarriers /\ Stored(store)
      /\ review.rev \in Nat /\ review.gen \in Nat /\ SavedDraft \in Drafts
  BY Bounds, SavedDraftTyped DEF TInv, ReviewTyped, BarrierTyped, StoreTyped, Reviews
<1>1. CASE /\ UNCHANGED <<review, dest, sync, store, refused>>
           /\ commit' \in {commit, [commit EXCEPT !.staged = FALSE]}
  BY <1>0, <1>1, StillDInv DEF CommitBarriers
<1>2. CASE ConfirmSaved \/ ConfirmUnpersisted \/ ConfirmUncertain
  <2> DEFINE s == CommittedSync(save.rev, save.digest)
  <2>1. save.pc = "confirm" /\ UNCHANGED <<review, dest, refused>>
    BY <1>2 DEF ConfirmSaved, ConfirmUnpersisted, ConfirmUncertain, reviewVars
  <2>2. commit.kind = "none"
    BY <2>1, ConfirmedIsDelivered
  <2>3. /\ Durable(store, {Draft} \cup refused, {})
        /\ FilesBehind(store, review.rev, review.gen, {})
    BY <2>2 DEF DInv, Pending, Ahead
  <2>4. /\ SavedDraft.rev = review.rev /\ SavedDraft.review = review
        /\ AtLess(SavedDraft) = DraftOf(review, dest, s) /\ SavedDraft.sync = s
    <3>1. /\ SavedDraft.rev = review.rev /\ SavedDraft.review = review
          /\ SavedDraft.dest = dest /\ SavedDraft.sync = s
      BY DEF SavedDraft, DraftOf
    <3> QED BY <1>0, <3>1, AcknowledgedFields
  <2>5. NotAhead(SavedDraft, review.rev, review.gen)
    BY <1>0, <2>4 DEF NotAhead
  <2>6. CASE ConfirmSaved
    <3>1. /\ store' = Published(store, SavedDraft) /\ sync' = s /\ UNCHANGED commit
      BY <2>4, <2>6 DEF ConfirmSaved, ApplySave
    <3>2. Draft' = AtLess(SavedDraft) /\ Pending' = {} /\ Ahead' = {} /\ commit'.kind # "replace"
      BY <2>1, <2>2, <2>4, <3>1 DEF Draft, Pending, Ahead
    <3>3. Draft.rev <= SavedDraft.rev /\ {} \subseteq {SavedDraft}
      BY <1>0, <2>4, DraftFields DEF Draft
    <3>4. Durable(store', {Draft'} \cup refused', {})
      <4>1. Durable(Published(store, SavedDraft), {AtLess(SavedDraft)} \cup refused, {})
        BY <1>0, <2>3, <3>3, PublishedIsMemory
      <4> QED BY <2>1, <3>1, <3>2, <4>1
    <3>5. FilesBehind(store', review'.rev, review'.gen, {})
      BY <2>1, <2>3, <2>5, <3>1, WritesBehind
    <3> QED BY <3>2, <3>4, <3>5 DEF DInv
  <2>7. CASE ConfirmUnpersisted \/ ConfirmUncertain
    <3>1. /\ store' \in {store} \cup FailedWrites(SavedDraft) /\ UNCHANGED sync
          /\ commit' = SaveBarrier
      BY <2>7 DEF ConfirmUnpersisted, ConfirmUncertain, reviewVars, diskVars
    <3>2. Draft' = Draft /\ Pending' = {SavedDraft} /\ Ahead' = {} /\ commit'.kind # "replace"
      BY <2>1, <3>1 DEF Draft, Pending, Ahead, SaveBarrier, NoCommit
    <3>3. Durable(store', {Draft} \cup refused, {SavedDraft})
      <4>1. Durable(store, {Draft} \cup refused, {SavedDraft})
        BY <2>3, DurableGrows
      <4> QED BY <1>0, <3>1, <4>1, WritesKeep DEF FailedWrites, Kept
    <3>4. FilesBehind(store', review.rev, review.gen, {})
      BY <2>3, <2>5, <3>1, WritesBehind DEF FailedWrites
    <3> QED BY <2>1, <3>2, <3>3, <3>4 DEF DInv
  <2> QED BY <1>2, <2>6, <2>7
<1>3. CASE DrainResolves
  BY <1>3, SettledDInv DEF DrainResolves
<1>4. CASE DrainFailed
  <2> DEFINE s == [sync EXCEPT !.phase = "not-saved", !.desRev = review.rev]
  <2>1. \/ UNCHANGED <<review, dest, sync, store, refused, commit>>
        \/ /\ TailFree /\ UNCHANGED <<review, dest, commit>>
           /\ PersistPlain(DraftOf(review, dest, s), sync' = s, UNCHANGED sync)
    BY <1>4 DEF DrainFailed, TailFree, PersistPlain
  <2> HIDE DEF s
  <2> QED BY <1>0, <2>1, StillDInv, PersistDInv DEF PersistPlain
<1> QED BY <1>1, <1>2, <1>3, <1>4
        DEF DrainSteps, DrainTop, DrainEnds, DrainSettled, DrainUnsettled, Freeze, DrainBlocked,
            WriteCandidate, WriteFails, ValidateStale, ValidateMismatch, Validate, PublishStale,
            PublishFails, Publish, ConfirmSuperseded, Move, LeaveTail, OriginalReplaced, reviewVars

-----------------------------------------------------------------------------
(* Observations and other programs write no recovery file.                 *)
LEMMA ObserverDInv == TInv /\ DInv /\ (Admissions \/ OtherPrograms) => DInv'
<1> SUFFICES ASSUME TInv, DInv, Admissions \/ OtherPrograms PROVE DInv'
  OBVIOUS
<1>1. /\ UNCHANGED <<review, dest, sync, store, refused>>
      /\ commit' \in {commit, [commit EXCEPT !.newest = FALSE], [commit EXCEPT !.staged = FALSE]}
  BY DEF Admissions, OtherPrograms, WatchEvent, DropNotification, Tick, HostHint, RetryTick,
         Observe, Admit, Raise, OriginalReplaced, ExternalWrite, ExternalCopyWrite, reviewVars
<1> QED BY <1>1, StillDInv DEF TInv, BarrierTyped, CommitBarriers

(* A new generation is of a higher revision than every file, so it is      *)
(* recovered if and only if it was written.                                *)
LEMMA SuccessorIsAhead ==
  ASSUME TInv, DInv, commit.kind = "none", NEW d \in Drafts,
         d.rev = review.rev + 1, d.review.gen = review.gen + 1
  PROVE  /\ d \notin {store.current, store.previous}
         /\ \A t \in FailedWrites(d) :
              /\ d # t.previous
              /\ Recovered(t) = d <=> t = Published(store, d)
<1>1. /\ Stored(store) /\ d # NoDraft /\ FilesBehind(store, review.rev, review.gen, {})
      /\ review.rev \in Nat /\ review.gen \in Nat
  BY Bounds, NoDraftAssumption DEF TInv, StoreTyped, ReviewTyped, Reviews, DInv, Ahead
<1>2. \A f \in Drafts : f.rev \in Nat /\ f.review.gen \in Nat
  BY Bounds DEF Drafts, Reviews
<1>3. \A f \in {store.current, store.previous} :
         f # d /\ (f # NoDraft => f \in Drafts /\ f.rev <= d.rev)
  BY <1>1, <1>2 DEF Stored, FilesBehind, NotAhead
<1>4. Rotated(store).previous \in {store.current, store.previous}
      /\ Published(store, d).previous = Rotated(store).previous
  BY DEF Rotated, Published
<1>5. Recovered(store) # d /\ Recovered(Rotated(store)) # d
  BY <1>3, <1>4 DEF Recovered, Rotated
<1>6. Recovered(Published(store, d)) = d
  <2> DEFINE f == Published(store, d).previous
  <2>1. f # NoDraft => f.rev \in Nat /\ f.rev <= d.rev /\ d.rev \in Nat
    BY <1>2, <1>3, <1>4
  <2>2. Published(store, d).current = d /\ Published(store, d).previous = f
    BY DEF Published
  <2> HIDE DEF f
  <2> QED BY <1>1, <2>1, <2>2 DEF Recovered
<1> QED BY <1>3, <1>4, <1>5, <1>6 DEF FailedWrites

(* The outcomes of an inspection, a generation that is committed included. *)
LEMMA InspectDInv == HInv /\ TInv /\ TInv' /\ CInv /\ DInv /\ InspectSteps => DInv'
<1> SUFFICES ASSUME HInv, TInv, TInv', CInv, DInv, InspectSteps PROVE DInv'
  OBVIOUS
<1>0. review \in Reviews /\ Stored(store) /\ review.rev \in Nat /\ review.gen \in Nat
  BY Bounds DEF TInv, ReviewTyped, StoreTyped, Reviews
<1>1. CASE UNCHANGED <<review, dest, sync, store, refused, commit>>
  BY <1>1, StillDInv
<1>2. CASE SettleSame \/ StagedSame
  <2>1. \/ UNCHANGED <<review, dest, sync, store, refused, commit>>
        \/ /\ TailFree /\ UNCHANGED <<dest, commit>>
           /\ PersistPlain(DraftOf(Refreshed, dest, RefreshedSync),
                           review' = Refreshed /\ sync' = RefreshedSync, UNCHANGED <<review, sync>>)
    BY <1>2 DEF SettleSame, StagedSame, PersistPlain
  <2>2. Refreshed.gen = review.gen /\ Refreshed.rev = review.rev
    BY RefreshedTyped DEF TInv
  <2> QED BY <1>0, <2>1, <2>2, StillDInv, PersistDInv DEF PersistPlain
<1>3. CASE MarkInvalid
  <2> DEFINE r == [review EXCEPT !.current = FALSE]
             s == IF review.current
                  THEN [sync EXCEPT !.phase = "not-saved", !.desRev = review.rev, !.des = Digest(r)]
                  ELSE sync
  <2>1. \/ UNCHANGED <<review, dest, sync, store, refused, commit>>
        \/ /\ TailFree /\ UNCHANGED <<dest, commit>>
           /\ PersistPlain(DraftOf(r, dest, s), review' = r /\ sync' = s, UNCHANGED <<review, sync>>)
    BY <1>3 DEF MarkInvalid, PersistPlain, diskVars
  <2>2. r.gen = review.gen /\ r.rev = review.rev
    BY <1>0 DEF Reviews
  <2> HIDE DEF r, s
  <2> QED BY <1>0, <2>1, <2>2, StillDInv, PersistDInv DEF PersistPlain
<1>4. CASE InspectMissing
  <2>1. /\ TailFree /\ UNCHANGED <<review, dest, sync, commit>>
        /\ PersistPlain(DraftOf(review, dest, sync), TRUE, TRUE)
    BY <1>4 DEF InspectMissing, Draft, reviewVars
  <2> QED BY <1>0, <2>1, PersistDInv DEF PersistPlain
<1>5. ASSUME NEW canRewrite \in BOOLEAN, NEW reconciled \in BOOLEAN, NEW d,
             d = Successor(canRewrite, reconciled), insp.pc = "persist"
      PROVE  /\ d \in Drafts /\ d = DraftOf(d.review, d.dest, d.sync) /\ AtLess(d) = d
             /\ d.rev = review.rev + 1 /\ d.review.rev = review.rev + 1
             /\ d.review.gen = review.gen + 1
             /\ commit.kind = "none" /\ Durable(store, {Draft} \cup refused, {})
             /\ FilesBehind(store, review.rev, review.gen, {}) /\ Draft.rev <= d.rev
             /\ d \notin {store.current, store.previous}
             /\ \A t \in FailedWrites(d) :
                  /\ d # t.previous
                  /\ Recovered(t) = d <=> t = Published(store, d)
  <2>1. commit.kind = "none"
    BY <1>5 DEF CInv, Exclusive, HInv, TailOwner
  <2>2. Successor(canRewrite, reconciled) \in Drafts
    BY <1>5, SuccessorTyped DEF TInv
  <2>3. NextGeneration(Successor(canRewrite, reconciled))
    BY <1>5, SuccessorIsNext
  <2>4. /\ d = DraftOf(d.review, d.dest, d.sync) /\ d.review.rev = review.rev + 1
        /\ d.review.gen = review.gen + 1
    BY <1>5, <2>3 DEF NextGeneration
  <2>5. AtLess(d) = d /\ d.rev = review.rev + 1
    BY <2>4, DraftFields
  <2>6. Draft.rev <= d.rev
    BY <1>0, <2>5, DraftFields DEF Draft
  <2>7. Durable(store, {Draft} \cup refused, {}) /\ FilesBehind(store, review.rev, review.gen, {})
    BY <2>1 DEF DInv, Pending, Ahead
  <2> QED BY <1>5, <2>1, <2>2, <2>4, <2>5, <2>6, <2>7, SuccessorIsAhead
<1>6. ASSUME NEW canRewrite \in BOOLEAN, NEW reconciled \in BOOLEAN,
             ReplacePersisted(canRewrite, reconciled)
      PROVE  DInv'
  <2>1. PICK d : d = Successor(canRewrite, reconciled)
    OBVIOUS
  <2>2. /\ insp.pc = "persist" /\ UNCHANGED <<commit, refused>>
        /\ store' = Published(store, d) \/ (store' \in FailedWrites(d) /\ Recovered(store') = d)
        /\ review' = d.review /\ dest' = d.dest /\ sync' = d.sync
    BY <1>6, <2>1 DEF ReplacePersisted, ActivateGeneration
  <2>3. store' = Published(store, d)
    BY <1>5, <2>1, <2>2
  <2>4. Draft' = d /\ AtLess(d) = d /\ commit'.kind = "none" /\ Pending' = {} /\ Ahead' = {}
    BY <1>5, <2>1, <2>2 DEF Draft, Pending, Ahead
  <2>5. Durable(store', {Draft'} \cup refused', {})
    <3>1. d \in Drafts /\ Draft.rev <= d.rev /\ {} \subseteq {d}
          /\ Durable(store, {Draft} \cup refused, {})
      BY <1>5, <2>1, <2>2
    <3>2. Durable(Published(store, d), {AtLess(d)} \cup refused, {})
      BY <1>0, <3>1, PublishedIsMemory
    <3> QED BY <2>2, <2>3, <2>4, <3>2
  <2>6. FilesBehind(store', review'.rev, review'.gen, {})
    <3>1. /\ review'.rev = review.rev + 1 /\ review'.gen = review.gen + 1 /\ d.rev = review'.rev
          /\ FilesBehind(store, review.rev, review.gen, {}) /\ d.review = review'
      BY <1>5, <2>1, <2>2
    <3>2. NotAhead(d, review'.rev, review'.gen) /\ review.rev <= review'.rev
          /\ review.gen <= review'.gen /\ review'.rev \in Nat /\ review'.gen \in Nat
      BY <1>0, <3>1 DEF NotAhead
    <3>3. FilesBehind(store, review'.rev, review'.gen, {})
      BY <1>0, <3>1, <3>2, BehindGrows
    <3> QED BY <2>3, <3>2, <3>3, WritesBehind
  <2> QED BY <2>4, <2>5, <2>6 DEF DInv
<1>7. ASSUME NEW canRewrite \in BOOLEAN, NEW reconciled \in BOOLEAN, NEW readable \in BOOLEAN,
             ReplaceUnpersisted(canRewrite, reconciled, readable)
      PROVE  DInv'
  <2>1. PICK d : d = Successor(canRewrite, reconciled)
    OBVIOUS
  <2>2. /\ insp.pc = "persist" /\ UNCHANGED <<review, dest, sync, refused>>
        /\ store' \in FailedWrites(d)
        /\ \/ /\ UNCHANGED commit /\ Recovered(store') # d
           \/ /\ commit'.kind = "replace" /\ commit'.successor = d
              /\ commit'.predecessor = Recovered(store)
    BY <1>7, <2>1 DEF ReplaceUnpersisted, reviewVars
  <2>3. /\ d \in Drafts /\ commit.kind = "none" /\ Durable(store, {Draft} \cup refused, {})
        /\ FilesBehind(store, review.rev, review.gen, {})
        /\ d # store'.previous /\ (Recovered(store') = d <=> store' = Published(store, d))
        /\ d \notin {store.current, store.previous}
    <3>1. /\ d \in Drafts /\ commit.kind = "none" /\ Durable(store, {Draft} \cup refused, {})
          /\ FilesBehind(store, review.rev, review.gen, {})
          /\ d \notin {store.current, store.previous}
      BY <1>5, <2>1, <2>2
    <3>2. d # store'.previous /\ (Recovered(store') = d <=> store' = Published(store, d))
      BY <1>5, <2>1, <2>2
    <3> QED BY <3>1, <3>2
  <2>4. Draft' = Draft
    BY <2>2 DEF Draft
  <2>5. CASE UNCHANGED commit /\ Recovered(store') # d
    <3>1. Pending' = {} /\ Ahead' = {} /\ commit'.kind = "none"
      BY <2>3, <2>5 DEF Pending, Ahead
    <3>2. store' \in {store, Rotated(store)}
      BY <2>2, <2>3, <2>5 DEF FailedWrites
    <3>3. Durable(store', {Draft} \cup refused, {})
      BY <1>0, <2>3, <3>2, RotationKeeps
    <3>4. FilesBehind(store', review.rev, review.gen, {})
      BY <2>3, <3>2 DEF FilesBehind, Rotated
    <3> QED BY <2>2, <2>4, <3>1, <3>3, <3>4 DEF DInv
  <2>6. CASE /\ commit'.kind = "replace" /\ commit'.successor = d
             /\ commit'.predecessor = Recovered(store)
    <3>1. Pending' = {d} /\ Ahead' = {d}
      BY <2>6 DEF Pending, Ahead
    <3>2. Durable(store', {Draft} \cup refused, {d})
      <4>1. Durable(store, {Draft} \cup refused, {d}) /\ Kept(d, {Draft} \cup refused, {d})
        BY <2>3, DurableGrows DEF Kept
      <4> QED BY <1>0, <2>2, <2>3, <4>1, WritesKeep DEF FailedWrites
    <3>3. FilesBehind(store', review.rev, review.gen, {d})
      <4>1. FilesBehind(store, review.rev, review.gen, {d})
        BY <2>3 DEF FilesBehind
      <4> QED BY <2>2, <4>1, WritesBehind DEF FailedWrites
    <3>4. d \notin {store'.previous, commit'.predecessor}
      BY <2>3, <2>6 DEF Recovered
    <3> QED BY <2>2, <2>4, <2>6, <3>1, <3>2, <3>3, <3>4 DEF DInv
  <2> QED BY <2>2, <2>5, <2>6
<1> QED BY <1>1, <1>2, <1>3, <1>4, <1>6, <1>7
        DEF InspectSteps, InspectStart, InspectHash, InspectBlocked, SettleSuperseded,
            InspectStage, InspectFails, StagedSameConflicts, StagedSameSuperseded,
            ReplaceAbandoned, Replace, RetryLater, reviewVars, diskVars

(* A session opens with its first draft in the current file.               *)
LEMMA InitDInv == Init => DInv
<1> SUFFICES ASSUME Init PROVE DInv
  OBVIOUS
<1>1. /\ store = [current |-> Draft, previous |-> NoDraft] /\ commit = NoCommit
      /\ review.rev = 0 /\ review.gen = 1
  BY DEF Init
<1>2. Pending = {} /\ Ahead = {} /\ commit.kind # "replace"
  BY <1>1 DEF NoCommit, Pending, Ahead
<1>3. Draft.rev = 0 /\ Draft.review = review /\ AtLess(Draft) = Draft
  BY <1>1, DraftFields DEF Draft
<1>4. Durable(store, {Draft} \cup refused, {})
  BY <1>1, <1>3 DEF Durable, Kept
<1>5. FilesBehind(store, review.rev, review.gen, {})
  BY <1>1, <1>3 DEF FilesBehind, NotAhead
<1> QED BY <1>2, <1>4, <1>5 DEF DInv

(* DInv is inductive, relative to the invariants before it.                *)
LEMMA NextDInv == HInv /\ TInv /\ TInv' /\ CInv /\ DInv /\ [Next]_vars => DInv'
<1>1. DInv /\ UNCHANGED vars => DInv'
  BY StillDInv DEF vars
<1> QED BY <1>1, ReviewersDInv, BarriersDInv, DrainDInv, ObserverDInv, InspectDInv DEF Next

(* persist() and recover(): whichever rename a failed persist() stopped at,*)
(* and however often, a crash between two operations brings back the state *)
(* in memory, a refused change, or the record of a superseded save.        *)
THEOREM CrashBringsBackMemory == Spec => []DurableMatchesMemory
<1>1. TInv /\ DInv => DurableMatchesMemory
  <2> SUFFICES ASSUME TInv, DInv, commit.kind = "none"
               PROVE  AtLess(Recovered(store)) \in {Draft} \cup refused
    BY DEF DurableMatchesMemory
  <2>1. Durable(store, {Draft} \cup refused, {}) /\ Stored(store)
    BY DEF TInv, StoreTyped, DInv, Pending
  <2> QED BY <2>1, RecoveredIsKept DEF Kept
<1> QED BY <1>1, CInvariant, InitDInv, NextDInv, PTL DEF Spec

-----------------------------------------------------------------------------
(* Only a publication and another program change the bytes of the original.*)
LEMMA OriginalStep ==
  ASSUME TInv, Next
  PROVE  \/ Original' = Original
         \/ Publish /\ save.kind = "original"
         \/ \E bytes \in {External(v) : v \in Versions} \cup {Torn, Absent},
               inPlace \in BOOLEAN : ExternalWrite(bytes, inPlace)
<1> USE DEF Original
<1>0. /\ files \in [Kinds -> [bytes : Contents, approved : BOOLEAN]]
      /\ save.kind \in Kinds /\ "original" \in Kinds /\ "copy" \in Kinds
  BY DEF TInv, DiskTyped, PassTyped, SaveStates, Kinds
<1>1. CASE UNCHANGED files
  BY <1>1
<1>2. ASSUME NEW kind \in Kinds, NEW bytes, RefreshTarget(kind, bytes) PROVE Original' = Original
  BY <1>0, <1>2 DEF RefreshTarget
<1>3. ASSUME NEW f, files' = [files EXCEPT !.copy = f] PROVE Original' = Original
  BY <1>0, <1>3
<1>4. CASE files' = [files EXCEPT !.original.approved = TRUE]
  BY <1>0, <1>4
<1>5. CASE Reviewers
  <2>1. ASSUME NEW kind \in Kinds, NEW items \in ItemSets, Establish(kind, items)
        PROVE  Original' = Original
    BY <1>1, <1>3, <2>1 DEF Establish, PersistPlain
  <2> QED BY <1>1, <1>5, <2>1 DEF Reviewers, Mutate, PutDraft, Accept, MarkPristine,
       MarkPristineRefused, RetrySave, Begin, EndHold, Move, diskVars
<1>6. ASSUME NEW a, NEW b, NEW c, SettleSave(a, b, c) PROVE Original' = Original
  <2>1. SaveKind \in Kinds
    BY <1>6 DEF SettleSave, SaveKind, TInv, BarrierTyped, Drafts, Destinations
  <2>2. UNCHANGED files \/ RefreshTarget(SaveKind, files[SaveKind].bytes)
    BY <1>6 DEF SettleSave
  <2> QED BY <1>1, <1>2, <2>1, <2>2
<1>7. CASE Barriers
  BY <1>1, <1>6, <1>7 DEF Barriers, ResolveSave, ResolveReplacement, diskVars
<1>8. CASE ConfirmSaved \/ ConfirmUnpersisted
  BY <1>0, <1>2, <1>8 DEF ConfirmSaved, ConfirmUnpersisted
<1>9. CASE Publish /\ save.kind # "original"
  BY <1>0, <1>9 DEF Publish
<1>10. CASE DrainSteps
  BY <1>1, <1>6, <1>8, <1>9, <1>10
     DEF DrainSteps, DrainTop, DrainEnds, DrainSettled, DrainUnsettled, Freeze,
       DrainBlocked, WriteCandidate, WriteFails, ValidateStale, ValidateMismatch, Validate,
       PublishStale, PublishFails, LeaveTail, ConfirmSuperseded, ConfirmUncertain,
       DrainResolves, DrainFailed, Move, diskVars
<1>11. CASE Admissions
  BY <1>1, <1>11 DEF Admissions, WatchEvent, DropNotification, Tick, HostHint, Observe, RetryTick,
     diskVars
<1>12. CASE InspectSteps
  <2>1. UNCHANGED files \/ files' = [files EXCEPT !.original.approved = TRUE]
    BY <1>12 DEF InspectSteps, InspectStart, InspectHash, InspectBlocked, SettleSuperseded,
       SettleSame, InspectMissing, InspectStage, InspectFails, StagedSameConflicts,
       StagedSameSuperseded, StagedSame, MarkInvalid, ReplaceAbandoned, Replace,
       ReplacePersisted, ReplaceUnpersisted, RetryLater, diskVars
  <2> QED BY <1>1, <1>4, <2>1
<1>13. CASE OtherPrograms
  BY <1>0, <1>3, <1>13 DEF OtherPrograms, ExternalCopyWrite
<1> QED BY <1>5, <1>7, <1>10, <1>11, <1>12, <1>13 DEF Next

-----------------------------------------------------------------------------
(* A pass is about to publish because it was validated, and has published  *)
(* because it did, or was there before.                                    *)
LEMMA PublishPass ==
  ASSUME TInv, Next, save'.pc \in {"publish", "confirm"}
  PROVE  \/ save.pc = save'.pc /\ SameDelivery
         \/ Validate /\ save'.pc = "publish"
         \/ Publish /\ save'.pc = "confirm"
<1>0. save \in SaveStates
  BY DEF TInv, PassTyped
<1>1. ASSUME NEW phase, save' \in {save, Requested(save), Resumed(save, phase)}
      PROVE  save.pc = save'.pc /\ SameDelivery
  BY <1>0, <1>1, QueuedPass DEF SamePass, PassOver
<1>2. CASE Reviewers
  <2>1. save' \in {save, Requested(save)}
    BY <1>2, ReviewersRequest
  <2> QED BY <1>1, <2>1
<1>3. CASE Admissions \/ OtherPrograms
  BY <1>1, <1>3 DEF Admissions, WatchEvent, DropNotification, Tick, HostHint, Observe, RetryTick,
       OtherPrograms, ExternalWrite, ExternalCopyWrite
<1>4. CASE Barriers
  BY <1>1, <1>4 DEF Barriers, ResolveSave, SettleSave, ResolveReplacement, ActivateGeneration
<1>5. CASE InspectSteps
  BY <1>1, <1>5
     DEF InspectSteps, InspectStart, InspectHash, InspectBlocked, SettleSuperseded,
         SettleSame, InspectMissing, InspectStage, InspectFails, StagedSameConflicts,
         StagedSameSuperseded, StagedSame, MarkInvalid, ReplaceAbandoned, Replace,
         ReplacePersisted, ReplaceUnpersisted, ActivateGeneration, RetryLater,
         OutcomeCurrent, PersistPlain
<1>6. CASE DrainSteps
  <2>1. ASSUME NEW pc \in {"off", "top", "freeze", "settleAgain", "validate", "resolve", "failed"},
               save' = At(pc) \/ \E b : save' = Parked(pc, b)
        PROVE  FALSE
    BY <1>0, <2>1, MovedPass, ParkedPass
  <2>2. CASE DrainTop
    <3>1. save'.pc \in {"off", "settle", "freeze"}
      BY <2>2 DEF DrainTop, Move, Parked, NoDelivery
    <3> QED BY <3>1
  <2>3. CASE Freeze
    <3>1. save'.pc = "write"
      BY <1>0, <2>3 DEF Freeze, Move, SaveStates
    <3> QED BY <3>1
  <2>4. CASE DrainEnds \/ DrainSettled \/ DrainUnsettled \/ DrainBlocked \/ WriteCandidate \/ WriteFails
    BY <2>1, <2>4 DEF DrainEnds, DrainSettled, DrainUnsettled, DrainBlocked, WriteCandidate,
       WriteFails, Move, Again
  <2>5. CASE ValidateStale \/ ValidateMismatch \/ PublishStale \/ PublishFails
    BY <2>1, <2>5 DEF ValidateStale, ValidateMismatch, PublishStale, PublishFails,
       Move, LeaveTail, Again
  <2>8. CASE Validate \/ Publish
    BY <1>0, <2>8, MovedPass DEF Validate, Publish
  <2>6. CASE ConfirmSaved \/ ConfirmUnpersisted \/ ConfirmSuperseded \/ ConfirmUncertain \/ DrainFailed
    BY <2>1, <2>6 DEF ConfirmSaved, ConfirmUnpersisted, ConfirmSuperseded, ConfirmUncertain,
       DrainFailed, LeaveTail, NextPass
  <2>7. CASE DrainResolves
    <3>1. save' = NextPass(commit.successor.sync.phase = "saving") \/ save' = At("failed")
          \/ save' = NextPass(FALSE)
      BY <2>7 DEF DrainResolves, SettleSave
    <3> QED BY <2>1, <3>1 DEF NextPass
  <2> QED BY <1>6, <2>2, <2>3, <2>4, <2>5, <2>6, <2>7, <2>8 DEF DrainSteps
<1> QED BY <1>2, <1>3, <1>4, <1>5, <1>6 DEF Next

(* While a pass is in its tail section no inspection settles a change.     *)
LEMMA StaysUnseen ==
  ASSUME HInv, TInv, Next, ChangeIsUnseen, save.pc = "publish", save'.pc = "publish"
  PROVE  ChangeIsUnseen'
<1> USE DEF ChangeIsUnseen
<1>0. tail = "save" /\ insp.pc # "persist" /\ obs \in ObserverStates /\ ~TailFree
  BY DEF HInv, TailOwner, TInv, DiskTyped, TailFree
<1>1. ASSUME NEW o \in ObserverStates, Raise(o), ~o.unchanged PROVE ChangeIsUnseen'
  BY <1>1 DEF Raise, ObserverStates
<1>2. CASE UNCHANGED <<obs, unannounced>>
  BY <1>2
<1>3. ASSUME OriginalReplaced, unannounced' PROVE ChangeIsUnseen'
  BY <1>0, <1>3 DEF OriginalReplaced, ObserverStates
<1>4. \A w \in {"none", "identity", "full", "audit"} :
         [obs EXCEPT !.wanted = w] \in ObserverStates /\ ~[obs EXCEPT !.wanted = w].unchanged
  BY <1>0 DEF ObserverStates
<1>5. CASE Reviewers
  <2>1. UNCHANGED <<obs, unannounced>> \/ Admit("full")
    BY <1>5 DEF Reviewers, Mutate, PutDraft, Accept, Establish, MarkPristine, MarkPristineRefused,
       RetrySave, Begin, EndHold, Move, diskVars
  <2> QED BY <1>1, <1>2, <1>4, <2>1 DEF Admit
<1>6. CASE Barriers
  BY <1>0, <1>6 DEF Barriers, ResolveSave, ResolveReplacement
<1>7. CASE Publish
  BY <1>7, MovedPass DEF Publish, TInv, PassTyped
<1>8. CASE DrainSteps
  BY <1>2, <1>7, <1>8 DEF DrainSteps, DrainTop, DrainEnds, DrainSettled, DrainUnsettled, Freeze,
       DrainBlocked, WriteCandidate, WriteFails, ValidateStale, ValidateMismatch, Validate,
       PublishStale, PublishFails, ConfirmSaved, ConfirmUnpersisted, LeaveTail,
       ConfirmSuperseded, ConfirmUncertain, DrainResolves, DrainFailed, Move, diskVars
<1>9. CASE Admissions
  <2>1. /\ [obs EXCEPT !.wanted = "full", !.unseen = TRUE, !.notify = FALSE] \in ObserverStates
        /\ ~[obs EXCEPT !.wanted = "full", !.unseen = TRUE, !.notify = FALSE].unchanged
        /\ [obs EXCEPT !.wanted = "full", !.retry = FALSE] \in ObserverStates
        /\ ~[obs EXCEPT !.wanted = "full", !.retry = FALSE].unchanged
    BY <1>0 DEF ObserverStates
  <2>2. CASE DropNotification
    BY <1>0, <2>2 DEF DropNotification, diskVars, ObserverStates
  <2> QED BY <1>1, <1>4, <1>9, <2>1, <2>2
          DEF Admissions, WatchEvent, Tick, HostHint, Observe, RetryTick, Admit
<1>10. CASE OtherPrograms
  BY <1>2, <1>3, <1>10 DEF OtherPrograms, ExternalWrite, ExternalCopyWrite
<1>11. CASE InspectSteps
  <2>1. CASE InspectStart
    <3>1. obs' = [obs EXCEPT !.wanted = "none"] /\ UNCHANGED unannounced
      BY <2>1 DEF InspectStart, diskVars
    <3> QED BY <1>0, <3>1 DEF ObserverStates
  <2>2. CASE InspectHash
    BY <1>2, <2>2 DEF InspectHash, diskVars
  <2> QED BY <1>0, <1>11, <2>1, <2>2
          DEF InspectSteps, InspectBlocked, SettleSuperseded,
              SettleSame, InspectMissing, InspectStage, InspectFails, StagedSameConflicts,
              StagedSameSuperseded, StagedSame, MarkInvalid, ReplaceAbandoned, Replace,
              ReplacePersisted, ReplaceUnpersisted
<1> QED BY <1>5, <1>6, <1>8, <1>9, <1>10, <1>11 DEF Next

(* VInv is inductive, relative to HInv and TInv.                           *)
LEMMA NextVInv == HInv /\ TInv /\ VInv /\ [Next]_vars => VInv'
<1> SUFFICES ASSUME HInv, TInv, VInv, Next, save'.pc = "publish", save'.kind = "original"
             PROVE  Original' = save'.orig \/ ChangeIsUnseen'
  <2>1. VInv /\ UNCHANGED vars => VInv'
    BY DEF vars, VInv, ChangeIsUnseen, Original
  <2> QED BY <2>1 DEF VInv
<1>1. CASE Validate
  <2>1. UNCHANGED files /\ files.original.bytes = save.orig /\ save' = At("publish")
    BY <1>1 DEF Validate, TargetMatches, OriginalMatches, diskVars
  <2>2. save'.orig = save.orig
    BY <2>1, MovedPass DEF SameDelivery, TInv, PassTyped
  <2> QED BY <2>1, <2>2 DEF Original
<1>2. CASE save.pc = "publish" /\ SameDelivery
  <2>1. ASSUME NEW bytes, NEW inPlace, ExternalWrite(bytes, inPlace) PROVE ChangeIsUnseen'
    BY <2>1 DEF ExternalWrite, OriginalReplaced, ChangeIsUnseen, TInv, DiskTyped, ObserverStates
  <2>2. CASE Publish
    BY <2>2, MovedPass DEF Publish, TInv, PassTyped
  <2>3. CASE Original' = Original
    BY <1>2, <2>3, StaysUnseen DEF VInv, SameDelivery
  <2> QED BY <2>1, <2>2, <2>3, OriginalStep
<1> QED BY <1>1, <1>2, PublishPass

(* A session opens with no pass.                                           *)
LEMMA InitVInv == Init => VInv
BY DEF Init, VInv, NoDelivery

(* commitSaveCandidate() and publishFile(): whatever the interleaving of   *)
(* the pass with the observer, a publication over bytes nobody here has    *)
(* seen happens only before the change is announced.                       *)
THEOREM OverwritesAreUnannounced == Spec => OverwritesOnlyUnannouncedChanges
<1>1. TInv /\ VInv /\ [Next]_vars =>
        [(save.pc = "publish" /\ save'.pc = "confirm" /\ save.kind = "original"
            /\ Original # save.orig) => unannounced]_vars
  <2> SUFFICES ASSUME TInv, VInv, Next, save.pc = "publish", save'.pc = "confirm",
                      save.kind = "original", Original # save.orig
               PROVE  unannounced
    OBVIOUS
  <2>1. ~obs.physical
    BY PublishPass DEF Publish, CandidateIsCurrent, Validate
  <2> QED BY <2>1 DEF VInv, ChangeIsUnseen
<1> QED BY <1>1, TInvariant, InitVInv, NextVInv, PTL DEF Spec, OverwritesOnlyUnannouncedChanges

-----------------------------------------------------------------------------
(* Steps that neither stage nor settle anything.                           *)
SameCandidate ==
  insp'.pc \in {"replace", "persist"} =>
     insp'.pc = insp.pc /\ insp'.bytes = insp.bytes /\ insp'.staged = insp.staged
SameUncertain ==
  /\ commit'.kind = "replace" =>
       commit.kind = "replace" /\ commit'.bytes = commit.bytes /\ commit'.staged = commit.staged
  /\ commit.kind = "save" =>
       commit'.kind = "save" /\ commit'.bytes = commit.bytes /\ dest'.kind = dest.kind
StillConfirms == save.pc = "confirm" => save'.pc = "confirm" /\ SameDelivery

(* ... keep what is known of the original.                                 *)
LEMMA StillOInv ==
  ASSUME OInv, UNCHANGED <<Original, originalDigest>>, delivered'.original = delivered.original,
         SameCandidate, SameUncertain, StillConfirms
  PROVE  OInv'
<1>1. \A bytes, staged : Ingestible(bytes, staged)' <=> Ingestible(bytes, staged)
  BY DEF Ingestible, NotDelivered
<1>2. PublicationIsKnown'
  BY DEF OInv, PublicationIsKnown, SameUncertain, StillConfirms, SameDelivery, SaveBytes
<1> QED BY <1>1, <1>2 DEF OInv, SameCandidate, SameUncertain

(* A request leaves a pass that is about to confirm alone.                 *)
LEMMA QueueConfirms ==
  ASSUME save \in SaveStates, NEW phase, save' \in {save, Requested(save), Resumed(save, phase)}
  PROVE  StillConfirms
<1>1. CASE save' = save
  BY <1>1 DEF StillConfirms, SameDelivery
<1>2. CASE save' = Requested(save)
  BY <1>2 DEF Requested, SaveStates, StillConfirms, SameDelivery
<1> QED BY <1>1, <1>2 DEF Resumed

(* A new file at the original outdates what was staged.                    *)
LEMMA ReplacedOInv ==
  ASSUME TInv, OInv, OriginalReplaced, UNCHANGED dest,
         Original'.by # "service" \/
           /\ insp.pc # "persist" /\ commit.kind = "none"
           /\ save'.pc = "confirm" /\ save'.kind = "original" /\ Original' = SaveBytes',
         delivered'.original = delivered.original \/ Original'.by = "service"
  PROVE  OInv'
<1>1. /\ insp \in InspectionStates /\ commit \in CommitBarriers
      /\ insp' = [insp EXCEPT !.same = FALSE, !.staged = FALSE]
      /\ commit' = [commit EXCEPT !.staged = FALSE]
  BY DEF OriginalReplaced, TInv, InspectionTyped, BarrierTyped
<1>2. /\ insp'.pc = insp.pc /\ insp'.bytes = insp.bytes /\ ~insp'.staged
  BY <1>1 DEF InspectionStates
<1>3. /\ commit'.kind = commit.kind /\ commit'.bytes = commit.bytes /\ ~commit'.staged
  BY <1>1 DEF CommitBarriers
<1>4. CASE Original'.by # "service"
  BY <1>2, <1>3, <1>4 DEF OInv, PublicationIsKnown, Ingestible, NotDelivered
<1>5. CASE /\ insp.pc # "persist" /\ commit.kind = "none"
           /\ save'.pc = "confirm" /\ save'.kind = "original" /\ Original' = SaveBytes'
  BY <1>2, <1>3, <1>5 DEF OInv, PublicationIsKnown
<1> QED BY <1>4, <1>5

(* Choosing the untouched original records the first version as delivered, *)
(* which no service wrote.                                                 *)
LEMMA ReviewersOInv == HInv /\ TInv /\ CInv /\ OInv /\ Reviewers => OInv'
<1> SUFFICES ASSUME HInv, TInv, CInv, OInv, Reviewers PROVE OInv'
  OBVIOUS
<1>0. /\ save \in SaveStates /\ insp \in InspectionStates /\ commit \in CommitBarriers
      /\ delivered \in [Kinds -> Contents]
      /\ files \in [Kinds -> [bytes : Contents, approved : BOOLEAN]]
      /\ TailFree => commit.kind = "none" /\ insp.pc # "persist" /\ save.pc # "confirm"
  BY DEF TInv, PassTyped, InspectionTyped, BarrierTyped, DiskTyped, HInv, TailOwner, TailFree
<1> USE DEF SameCandidate, SameUncertain
<1>1. ASSUME UNCHANGED <<dest, insp, commit, originalDigest, files, delivered>>,
             save' \in {save, Requested(save)}
      PROVE  OInv'
  BY <1>0, <1>1, StillOInv, QueueConfirms DEF Original
<1>2. ASSUME NEW kind \in Kinds, NEW items \in ItemSets, Establish(kind, items) PROVE OInv'
  <2>1. /\ TailFree /\ UNCHANGED <<insp, commit, originalDigest>>
        /\ UNCHANGED files \/ files' = [files EXCEPT !.copy = [bytes |-> Absent, approved |-> FALSE]]
        /\ UNCHANGED delivered \/ delivered' = [delivered EXCEPT !.copy = Absent]
    BY <1>2 DEF Establish, PersistPlain
  <2>2. Original' = Original /\ delivered'.original = delivered.original
    BY <1>0, <2>1 DEF Original, Kinds
  <2> QED BY <1>0, <2>1, <2>2, StillOInv DEF StillConfirms
<1>3. CASE MarkPristine
  <2>1. /\ TailFree /\ UNCHANGED <<dest, insp, commit, save, files>>
        /\ \/ UNCHANGED <<originalDigest, delivered>>
           \/ /\ dest.gen = pristine.gen /\ pristine # NotDue
              /\ delivered' = [delivered EXCEPT !.original = review.src]
    BY <1>3 DEF MarkPristine, PersistPlain
  <2>2. CASE UNCHANGED <<originalDigest, delivered>>
    BY <1>1, <2>1, <2>2
  <2>3. CASE /\ dest.gen = pristine.gen /\ pristine # NotDue
             /\ delivered' = [delivered EXCEPT !.original = review.src]
    <3>1. review.src = External(FirstVersion)
      BY <2>3 DEF CInv, PristineIsFirst
    <3>2. delivered'.original.by = "external"
      BY <1>0, <2>3, <3>1 DEF Kinds, External
    <3>3. PublicationIsKnown' /\ \A bytes : NotDelivered(bytes)'
      BY <3>2 DEF PublicationIsKnown, NotDelivered
    <3> QED BY <1>0, <2>1, <3>3 DEF OInv, Ingestible, Original
  <2> QED BY <2>1, <2>2, <2>3
<1>4. ASSUME NEW v \in Views, Begin(v) \/ EndHold(v) PROVE OInv'
  <2>1. /\ insp' \in {insp, [insp EXCEPT !.newest = FALSE]}
        /\ commit' \in {commit, [commit EXCEPT !.newest = FALSE]}
        /\ UNCHANGED <<dest, originalDigest, files, delivered, save>>
    BY <1>4 DEF Begin, EndHold, Admit, Raise, reviewVars, diskVars
  <2>2. SameCandidate
    BY <1>0, <2>1 DEF InspectionStates
  <2>3. SameUncertain
    BY <1>0, <2>1 DEF CommitBarriers
  <2> QED BY <1>0, <2>1, <2>2, <2>3, StillOInv, QueueConfirms DEF Original
<1> QED BY <1>1, <1>2, <1>3, <1>4 DEF Reviewers, Mutate, PutDraft, Accept, MarkPristineRefused,
       RetrySave, Move, PersistPlain, reviewVars, diskVars

(* A settled save leaves its publication known.                            *)
LEMMA SettledOInv ==
  ASSUME TInv, CInv, OInv, NEW a, NEW b, NEW c, SettleSave(a, b, c),
         UNCHANGED <<dest, insp, delivered>>
  PROVE  OInv'
<1>0. /\ commit.kind = "save" /\ SaveKind \in Kinds /\ SaveKind = dest.kind
      /\ commit.successor.dest.kind = dest.kind
      /\ files \in [Kinds -> [bytes : Contents, approved : BOOLEAN]] /\ "original" \in Kinds
      /\ delivered[dest.kind] = commit.bytes
  <2>1. commit.kind = "save" /\ SaveKind \in Kinds
    BY DEF SettleSave, SaveKind, TInv, BarrierTyped, Drafts, Destinations
  <2>2. commit.successor.dest = dest /\ delivered[dest.kind] = commit.bytes
    BY <2>1 DEF CInv, SaveBarrierIsDelivered, DraftOf
  <2> QED BY <2>1, <2>2 DEF SaveKind, Kinds, TInv, DiskTyped
<1>1. Original' = Original
  <2>1. UNCHANGED files \/ RefreshTarget(SaveKind, files[SaveKind].bytes)
    BY DEF SettleSave
  <2> QED BY <1>0, <2>1 DEF RefreshTarget, Original
<1>2. \/ commit' = NoCommit /\ originalDigest' = (IF dest.kind = "original" THEN commit.bytes
                                                   ELSE originalDigest)
      \/ commit' = NoCommit /\ originalDigest' = originalDigest
         /\ files[dest.kind].bytes # commit.bytes
      \/ commit' = commit /\ originalDigest' = originalDigest
  BY <1>0 DEF SettleSave, ApplySave
<1>3. commit'.kind # "replace" /\ save.pc # "confirm"
  BY <1>0, <1>2 DEF NoCommit, CInv, Exclusive
<1>4. PublicationIsKnown'
  BY <1>0, <1>1, <1>2, <1>3 DEF OInv, PublicationIsKnown, Original
<1> QED BY <1>1, <1>3, <1>4 DEF OInv, Ingestible, NotDelivered

(* A replacement that takes effect makes its bytes the known original.     *)
LEMMA BarriersOInv == TInv /\ CInv /\ OInv /\ HInv /\ Barriers => OInv'
<1> SUFFICES ASSUME TInv, CInv, OInv, HInv, Barriers PROVE OInv'
  OBVIOUS
<1>1. CASE ResolveSave
  BY <1>1, SettledOInv DEF ResolveSave
<1>2. CASE ResolveReplacement
  <2>1. /\ commit.kind = "replace" /\ commit' = NoCommit /\ tail = "free"
        /\ UNCHANGED <<insp, files, delivered>>
        /\ \/ originalDigest' = commit.bytes
           \/ UNCHANGED <<originalDigest, dest, save>>
    BY <1>2 DEF ResolveReplacement, ActivateGeneration, diskVars, reviewVars
  <2>2. insp.pc # "persist" /\ save.pc # "confirm"
    BY <2>1 DEF HInv, TailOwner
  <2>3. Ingestible(commit.bytes, commit.staged) /\ PublicationIsKnown
    BY <2>1 DEF OInv
  <2>4. PublicationIsKnown'
    BY <2>1, <2>2, <2>3 DEF PublicationIsKnown, Ingestible, Original
  <2> QED BY <2>1, <2>2, <2>4 DEF OInv, NoCommit, Ingestible, NotDelivered, Original
<1> QED BY <1>1, <1>2 DEF Barriers

(* A publication at the original is known from its rename to its record:   *)
(* the pass confirms it, records it or leaves a barrier for it.            *)
LEMMA DrainOInv == HInv /\ TInv /\ CInv /\ OInv /\ DrainSteps => OInv'
<1> SUFFICES ASSUME HInv, TInv, CInv, OInv, DrainSteps PROVE OInv'
  OBVIOUS
<1>0. /\ save \in SaveStates /\ delivered \in [Kinds -> Contents]
      /\ files \in [Kinds -> [bytes : Contents, approved : BOOLEAN]]
      /\ save.kind \in Kinds /\ "original" \in Kinds
  BY DEF TInv, PassTyped, DiskTyped, SaveStates, Kinds
<1>1. CASE /\ UNCHANGED <<dest, insp, commit, originalDigest, files, delivered>>
           /\ save.pc # "confirm" \/ files[save.kind].bytes # SaveBytes
  <2>1. PublicationIsKnown'
    BY <1>1 DEF OInv, PublicationIsKnown, Original
  <2> QED BY <1>1, <2>1 DEF OInv, Ingestible, NotDelivered, Original
<1>2. CASE Publish
  <2>1. /\ save.pc = "publish" /\ tail = "save" /\ insp.pc # "persist" /\ commit.kind = "none"
    BY <1>2 DEF Publish, HInv, TailOwner, CInv, Exclusive
  <2>2. SameDelivery /\ save'.pc = "confirm" /\ SaveBytes' = SaveBytes
    BY <1>0, <1>2, MovedPass DEF Publish, SaveBytes, SameDelivery
  <2>3. /\ files' = [files EXCEPT ![save.kind] = [bytes |-> SaveBytes, approved |-> FALSE]]
        /\ delivered' = [delivered EXCEPT ![save.kind] = SaveBytes]
        /\ UNCHANGED <<dest, originalDigest>>
    BY <1>2 DEF Publish, reviewVars
  <2>4. CASE save.kind = "original"
    <3>1. OriginalReplaced
      BY <1>2, <2>4 DEF Publish
    <3>2. Original' = SaveBytes /\ SaveBytes.by = "service"
      BY <1>0, <2>3, <2>4 DEF Original, SaveBytes, Rendered
    <3> QED BY <2>1, <2>2, <2>3, <2>4, <3>1, <3>2, ReplacedOInv DEF SameDelivery
  <2>5. CASE save.kind # "original"
    <3>1. UNCHANGED <<insp, commit>>
      BY <1>2, <2>5 DEF Publish
    <3>2. Original' = Original /\ delivered'.original = delivered.original
      BY <1>0, <2>3, <2>5 DEF Original
    <3> QED BY <2>1, <2>3, <3>1, <3>2, StillOInv DEF SameCandidate, SameUncertain, StillConfirms
  <2> QED BY <2>4, <2>5
<1>3. CASE ConfirmSaved \/ ConfirmUnpersisted \/ ConfirmUncertain
  <2>1. /\ save.pc = "confirm" /\ tail = "save" /\ insp.pc # "persist" /\ commit.kind = "none"
        /\ save.kind = dest.kind
    BY <1>3, ConfirmedIsDelivered DEF ConfirmSaved, ConfirmUnpersisted, ConfirmUncertain, HInv, TailOwner
  <2>2. /\ UNCHANGED <<dest, insp, delivered>>
        /\ UNCHANGED files \/ RefreshTarget(save.kind, SaveBytes)
    BY <1>3 DEF ConfirmSaved, ConfirmUnpersisted, ConfirmUncertain, reviewVars, diskVars
  <2>3. Original' = Original
    BY <1>0, <2>2 DEF RefreshTarget, Original
  <2>4. CASE ConfirmSaved
    <3>1. SavedDraft.dest = dest
      BY DEF SavedDraft, DraftOf
    <3>2. /\ UNCHANGED commit /\ files[save.kind].bytes = SaveBytes
          /\ originalDigest' = (IF dest.kind = "original" THEN SaveBytes ELSE originalDigest)
      BY <2>4, <3>1 DEF ConfirmSaved, ApplySave
    <3>3. PublicationIsKnown'
      BY <2>1, <2>2, <2>3, <3>2 DEF OInv, PublicationIsKnown, Original
    <3> QED BY <2>1, <2>2, <2>3, <3>2, <3>3 DEF OInv, Ingestible, NotDelivered
  <2>5. CASE ConfirmUnpersisted \/ ConfirmUncertain
    <3>1. /\ UNCHANGED originalDigest /\ commit' = SaveBarrier
      BY <2>5 DEF ConfirmUnpersisted, ConfirmUncertain, reviewVars
    <3>2. commit'.kind = "save" /\ commit'.bytes = SaveBytes
      BY <3>1 DEF SaveBarrier, NoCommit
    <3>3. PublicationIsKnown'
      BY <2>1, <2>2, <2>3, <3>1, <3>2 DEF OInv, PublicationIsKnown, Original
    <3> QED BY <2>1, <2>2, <2>3, <3>2, <3>3 DEF OInv, Ingestible, NotDelivered
  <2> QED BY <1>3, <2>4, <2>5
<1>4. CASE DrainResolves
  BY <1>4, SettledOInv DEF DrainResolves
<1> QED BY <1>1, <1>2, <1>3, <1>4
        DEF DrainSteps, DrainTop, DrainEnds, DrainSettled, DrainUnsettled, Freeze, DrainBlocked,
            WriteCandidate, WriteFails, ValidateStale, ValidateMismatch, Validate, PublishStale,
            PublishFails, ConfirmSuperseded, DrainFailed, Move, LeaveTail, reviewVars, diskVars

(* An observation only outdates; another program's file is nobody's own.   *)
LEMMA ObserverOInv == TInv /\ OInv /\ (Admissions \/ OtherPrograms) => OInv'
<1> SUFFICES ASSUME TInv, OInv, Admissions \/ OtherPrograms PROVE OInv'
  OBVIOUS
<1>0. /\ save \in SaveStates /\ insp \in InspectionStates /\ commit \in CommitBarriers
      /\ files \in [Kinds -> [bytes : Contents, approved : BOOLEAN]]
      /\ "original" \in Kinds /\ "copy" \in Kinds
  BY DEF TInv, PassTyped, InspectionTyped, BarrierTyped, DiskTyped, Kinds
<1>1. CASE /\ insp' \in {insp, [insp EXCEPT !.newest = FALSE]}
           /\ commit' \in {commit, [commit EXCEPT !.newest = FALSE]}
           /\ UNCHANGED <<dest, originalDigest, Original, delivered, save>>
  <2>1. SameCandidate
    BY <1>0, <1>1 DEF InspectionStates, SameCandidate
  <2>2. SameUncertain
    BY <1>0, <1>1 DEF CommitBarriers, SameUncertain
  <2> QED BY <1>0, <1>1, <2>1, <2>2, StillOInv, QueueConfirms
<1>2. CASE Admissions
  BY <1>1, <1>2 DEF Admissions, WatchEvent, DropNotification, Tick, HostHint, RetryTick, Observe,
     Admit, Raise, Original, reviewVars, diskVars
<1>3. ASSUME NEW bytes \in {External(v) : v \in Versions} \cup {Torn, Absent},
             NEW inPlace \in BOOLEAN, ExternalWrite(bytes, inPlace)
      PROVE  OInv'
  <2>1. OriginalReplaced /\ UNCHANGED <<dest, delivered>>
    BY <1>3 DEF ExternalWrite, reviewVars
  <2>2. Original' = bytes
    BY <1>0, <1>3 DEF ExternalWrite, Original
  <2>3. bytes.by # "service"
    BY DEF External, Torn, Absent
  <2> QED BY <2>1, <2>2, <2>3, ReplacedOInv
<1>4. ASSUME NEW bytes, ExternalCopyWrite(bytes) PROVE OInv'
  <2>1. Original' = Original
    BY <1>0, <1>4 DEF ExternalCopyWrite, Original
  <2> QED BY <1>1, <1>4, <2>1 DEF ExternalCopyWrite, reviewVars
<1> QED BY <1>2, <1>3, <1>4 DEF OtherPrograms

(* Bytes are staged for a generation when they are not the known original; *)
(* then no publication is on its way, so they are not the service's last.  *)
LEMMA InspectOInv == HInv /\ TInv /\ CInv /\ OInv /\ InspectSteps => OInv'
<1> SUFFICES ASSUME HInv, TInv, CInv, OInv, InspectSteps PROVE OInv'
  OBVIOUS
<1>0. /\ save \in SaveStates /\ insp \in InspectionStates
      /\ files \in [Kinds -> [bytes : Contents, approved : BOOLEAN]] /\ "original" \in Kinds
      /\ TailFree => commit.kind = "none" /\ insp.pc # "persist" /\ save.pc # "confirm"
      /\ insp.pc = "persist" => commit.kind = "none" /\ save.pc # "confirm"
  BY DEF TInv, PassTyped, InspectionTyped, DiskTyped, Kinds, HInv, TailOwner, TailFree, CInv, Exclusive
<1>1. ASSUME UNCHANGED <<dest, originalDigest, commit, delivered>>, SameCandidate,
             files' \in {files, [files EXCEPT !.original.approved = TRUE]},
             save' \in {save, Requested(save)}
      PROVE  OInv'
  <2>1. Original' = Original
    BY <1>0, <1>1 DEF Original
  <2>2. StillConfirms
    BY <1>0, <1>1, QueueConfirms
  <2> QED BY <1>1, <2>1, <2>2, StillOInv DEF SameUncertain
<1>2. insp' = NoInspection \/ insp' = insp => SameCandidate
  BY DEF NoInspection, SameCandidate
<1>3. CASE InspectStart \/ InspectBlocked \/ SettleSuperseded \/ InspectMissing
             \/ StagedSameConflicts \/ StagedSameSuperseded \/ ReplaceAbandoned
  <2>1. \/ insp' = NoInspection \/ insp' = insp
        \/ insp' = [NoInspection EXCEPT !.pc = "hash", !.newest = TRUE, !.same = TRUE]
    BY <1>3 DEF InspectStart, InspectBlocked, SettleSuperseded, InspectMissing, StagedSameConflicts,
       StagedSameSuperseded, ReplaceAbandoned, RetryLater, OutcomeRetry, OutcomeCurrent
  <2>2. SameCandidate
    BY <1>2, <2>1 DEF NoInspection, SameCandidate
  <2>3. UNCHANGED <<dest, originalDigest, commit, delivered, files>> /\ save' \in {save, Requested(save)}
    BY <1>3 DEF InspectStart, InspectBlocked, SettleSuperseded, InspectMissing, StagedSameConflicts,
       StagedSameSuperseded, ReplaceAbandoned, RetryLater, OutcomeCurrent, Resumed, reviewVars, diskVars
  <2> QED BY <1>1, <2>2, <2>3
<1>4. CASE SettleSame \/ StagedSame \/ MarkInvalid
  <2>1. SameCandidate
    BY <1>2, <1>4 DEF SettleSame, StagedSame, MarkInvalid, PersistPlain, OutcomeRetry, OutcomeCurrent
  <2>2. /\ UNCHANGED <<dest, originalDigest, commit, delivered>>
        /\ files' \in {files, [files EXCEPT !.original.approved = TRUE]}
        /\ save' \in {save, Requested(save)}
    BY <1>4 DEF SettleSame, StagedSame, MarkInvalid, PersistPlain, OutcomeCurrent, Resumed, diskVars
  <2> QED BY <1>1, <2>1, <2>2
<1>5. CASE InspectHash \/ InspectFails
  <2>1. SameCandidate
    BY <1>0, <1>5 DEF InspectHash, InspectFails, SameCandidate, InspectionStates
  <2> QED BY <1>1, <1>5, <2>1 DEF InspectHash, InspectFails, reviewVars, diskVars
<1>6. CASE InspectStage
  <2>1. UNCHANGED <<dest, originalDigest, commit, delivered, files, save>> /\ TailFree
    BY <1>6 DEF InspectStage, reviewVars, diskVars
  <2>2. insp' = NoInspection \/ insp'.pc \notin {"replace", "persist"}
        \/ (insp'.pc = "replace" /\ insp'.bytes = Original /\ Original # originalDigest)
    BY <1>0, <1>6 DEF InspectStage, InspectionStates
  <2>3. CASE insp'.pc = "replace"
    <3>1. insp'.bytes = Original /\ Original # originalDigest
      BY <2>2, <2>3 DEF NoInspection
    <3>2. NotDelivered(Original)
      BY <1>0, <2>1, <3>1 DEF OInv, PublicationIsKnown, NotDelivered
    <3> QED BY <1>0, <2>1, <2>3, <3>1, <3>2 DEF OInv, PublicationIsKnown, Ingestible, NotDelivered,
                                            Original
  <2>4. CASE insp'.pc # "replace"
    <3>1. SameCandidate
      BY <2>2, <2>4 DEF SameCandidate, NoInspection
    <3> QED BY <1>1, <2>1, <3>1
  <2> QED BY <2>3, <2>4
<1>7. CASE Replace
  <2>1. /\ UNCHANGED <<dest, originalDigest, commit, delivered, save>> /\ TailFree
        /\ files' = [files EXCEPT !.original.approved = TRUE]
        /\ insp.pc = "replace" /\ insp.staged
        /\ insp' = [insp EXCEPT !.pc = "persist"]
    BY <1>7 DEF Replace, reviewVars
  <2>2. Original' = Original
    BY <1>0, <2>1 DEF Original
  <2>3. insp'.pc = "persist" /\ insp'.bytes = insp.bytes /\ insp'.staged = insp.staged
    BY <1>0, <2>1 DEF InspectionStates
  <2> QED BY <1>0, <2>1, <2>2, <2>3 DEF OInv, PublicationIsKnown, Ingestible, NotDelivered
<1>8. ASSUME NEW canRewrite \in BOOLEAN, NEW reconciled \in BOOLEAN,
             ReplacePersisted(canRewrite, reconciled)
      PROVE  OInv'
  <2>1. /\ insp.pc = "persist" /\ insp' = NoInspection /\ UNCHANGED <<commit, delivered, files>>
        /\ originalDigest' = insp.bytes
    BY <1>8 DEF ReplacePersisted, ActivateGeneration, diskVars
  <2>2. Ingestible(insp.bytes, insp.staged)
    BY <2>1 DEF OInv
  <2>3. PublicationIsKnown'
    BY <2>1, <2>2 DEF PublicationIsKnown, Ingestible, NotDelivered, Original
  <2> QED BY <1>0, <2>1, <2>3 DEF OInv, NoInspection
<1>9. ASSUME NEW canRewrite \in BOOLEAN, NEW reconciled \in BOOLEAN, NEW readable \in BOOLEAN,
             ReplaceUnpersisted(canRewrite, reconciled, readable)
      PROVE  OInv'
  <2>1. /\ insp.pc = "persist" /\ UNCHANGED <<dest, originalDigest, delivered, files, save>>
        /\ insp'.pc \notin {"replace", "persist"}
        /\ \/ UNCHANGED commit
           \/ commit'.kind = "replace" /\ commit'.bytes = insp.bytes /\ commit'.staged = insp.staged
    BY <1>0, <1>9 DEF ReplaceUnpersisted, OutcomeRetry, NoInspection, InspectionStates, reviewVars, diskVars
  <2>2. \A bytes, staged : Ingestible(bytes, staged)' <=> Ingestible(bytes, staged)
    BY <2>1 DEF Ingestible, NotDelivered, Original
  <2>3. PublicationIsKnown' /\ commit.kind = "none" /\ Ingestible(insp.bytes, insp.staged)
    BY <1>0, <2>1 DEF OInv, PublicationIsKnown, Original
  <2> QED BY <2>1, <2>2, <2>3 DEF OInv
<1> QED BY <1>3, <1>4, <1>5, <1>6, <1>7, <1>8, <1>9 DEF InspectSteps

(* A session opens on a file that another program wrote.                   *)
LEMMA InitOInv == Init => OInv
<1> SUFFICES ASSUME Init PROVE OInv
  OBVIOUS
<1>1. /\ insp.pc = "idle" /\ commit.kind = "none"
      /\ files = [original |-> [bytes |-> External(FirstVersion), approved |-> TRUE],
                  copy |-> [bytes |-> Absent, approved |-> FALSE]]
  BY DEF Init, NoInspection, NoCommit
<1>2. Original.by = "external"
  BY <1>1 DEF Original, External
<1> QED BY <1>1, <1>2 DEF OInv, PublicationIsKnown

(* OInv is inductive, relative to the invariants before it.                *)
LEMMA NextOInv == HInv /\ TInv /\ CInv /\ OInv /\ [Next]_vars => OInv'
<1>1. OInv /\ UNCHANGED vars => OInv'
  BY DEF vars, OInv, Ingestible, NotDelivered, PublicationIsKnown, Original, SaveBytes
<1> QED BY <1>1, ReviewersOInv, BarriersOInv, DrainOInv, ObserverOInv, InspectOInv DEF Next

(* A generation begins with the bytes its ingestion staged.                *)
LEMMA GenerationSource ==
  ASSUME HInv, TInv, CInv, OInv, Next, review'.gen # review.gen
  PROVE  NotDelivered(review'.src)
<1>1. review \in Reviews
  BY DEF TInv, ReviewTyped
<1>2. ~Reviewers
  <2> USE <1>1 DEF PersistPlain, Edited, reviewVars, Reviews
  <2>1. ASSUME NEW items \in ItemSets, Mutate(items) PROVE FALSE
    BY <2>1 DEF Mutate, Accept
  <2>2. CASE PutDraft
    BY <2>2 DEF PutDraft, Accept
  <2>3. ASSUME NEW kind \in Kinds, NEW items \in ItemSets, Establish(kind, items)
        PROVE  FALSE
    BY <2>3 DEF Establish
  <2>4. CASE MarkPristine \/ MarkPristineRefused \/ RetrySave
    BY <2>4 DEF MarkPristine, MarkPristineRefused, RetrySave, Move
  <2>5. ASSUME NEW v \in Views, Begin(v) \/ EndHold(v) PROVE FALSE
    BY <2>5 DEF Begin, EndHold
  <2> QED BY <2>1, <2>2, <2>3, <2>4, <2>5 DEF Reviewers
<1>3. CASE Barriers
  <2>1. commit.kind = "replace" /\ review' = commit.successor.review
    BY <1>3 DEF Barriers, ResolveSave, ResolveReplacement, ActivateGeneration, reviewVars
  <2>2. review'.src = commit.bytes
    BY <2>1 DEF CInv, ReplacementIsNext
  <2> QED BY <2>1, <2>2 DEF OInv, Ingestible
<1>4. ~DrainSteps
  BY DEF DrainSteps, DrainTop, DrainEnds, DrainSettled, DrainUnsettled, Freeze,
     DrainBlocked, WriteCandidate, WriteFails, ValidateStale, ValidateMismatch, Validate,
     PublishStale, PublishFails, Publish, ConfirmSaved, ConfirmUnpersisted,
     ConfirmSuperseded, ConfirmUncertain, DrainResolves, DrainFailed, Move, LeaveTail,
     reviewVars
<1>5. ~Admissions /\ ~OtherPrograms
  BY DEF Admissions, WatchEvent, DropNotification, Tick, HostHint, Observe, RetryTick,
     OtherPrograms, ExternalWrite, ExternalCopyWrite, reviewVars
<1>6. CASE InspectSteps
  <2>1. review' = review \/ review' = Refreshed \/ review' = [review EXCEPT !.current = FALSE]
        \/ \E canRewrite, reconciled \in BOOLEAN : ReplacePersisted(canRewrite, reconciled)
    BY <1>6 DEF InspectSteps, InspectStart, InspectHash, InspectBlocked, SettleSuperseded, SettleSame,
       InspectMissing, InspectStage, InspectFails, StagedSameConflicts, StagedSameSuperseded,
       StagedSame, MarkInvalid, ReplaceAbandoned, Replace, ReplaceUnpersisted, RetryLater,
       PersistPlain, reviewVars
  <2>2. PICK canRewrite \in BOOLEAN, reconciled \in BOOLEAN : ReplacePersisted(canRewrite, reconciled)
    BY <1>1, <2>1 DEF Refreshed, Reviews
  <2>3. insp.pc = "persist" /\ review' = Successor(canRewrite, reconciled).review
    BY <2>2 DEF ReplacePersisted, ActivateGeneration
  <2>4. review' = [review EXCEPT !.rev = @ + 1, !.gen = @ + 1, !.current = TRUE, !.src = insp.bytes]
    BY <2>3 DEF Successor, DraftOf
  <2>5. review'.src = insp.bytes
    BY <1>1, <2>4 DEF Reviews
  <2> QED BY <2>3, <2>5 DEF OInv, Ingestible
<1> QED BY <1>2, <1>3, <1>4, <1>5, <1>6 DEF Next

(* #inspectLocalDocumentCandidate() and #replaceDocument(): however saves, *)
(* rebuilds and uncertain commits interleave, the rendering that was last  *)
(* recorded at the original is never ingested as a rebuild.                *)
THEOREM OwnPublicationIsRecognized == Spec => OwnPublicationNeverBecomesGeneration
<1>1. HInv /\ TInv /\ CInv /\ OInv /\ [Next]_vars =>
        [(review'.gen # review.gen /\ review'.src.by = "service") =>
            review'.src # delivered.original]_vars
  BY GenerationSource DEF NotDelivered
<1> QED BY <1>1, CInvariant, InitOInv, NextOInv, PTL DEF Spec, OwnPublicationNeverBecomesGeneration
=============================================================================
