---------------------- MODULE DraftSnapshotStoreProofs ----------------------
(***************************************************************************)
(* Proofs about the recovery store, for every bound on revisions and       *)
(* writes: what a crash can bring back, and that persist() implements the  *)
(* abstract store AcknowledgedDraft.                                       *)
(***************************************************************************)
EXTENDS DraftSnapshotStore, TLAPS

(* The drafts the session may be made of.                                  *)
Live == {acked} \cup fresh
Known == Live \cup aged

(* Before the first rename, and between writes: current is live, or it was *)
(* rotated away by a write that failed and previous is live. Anything else *)
(* that is left in previous cannot win the selection of recover().         *)
Untouched ==
  \/ /\ store.current \in Live
     /\ \/ store.previous = NoDraft
        \/ store.previous \in Known
        \/ store.previous.rev <= store.current.rev
  \/ store.current = NoDraft /\ store.previous \in Live

(* Between the two renames, and after the second.                          *)
RotatedAway == store.current = NoDraft /\ store.previous \in Live
PublishedOver == store.current = submitted /\ store.previous \in Live

StoreShape ==
  /\ pc \in {"idle", "staged"} => Untouched
  /\ pc = "rotated" => RotatedAway
  /\ pc = "published" => PublishedOver
  /\ pc = "unsettled" => Untouched \/ RotatedAway \/ PublishedOver

(* The write in progress is newer than every known draft.                  *)
Submission ==
  /\ \A d \in Known : d.stamp <= stamp
  /\ pc = "idle" => submitted = NoDraft
  /\ pc # "idle" =>
       /\ submitted \in Drafts
       /\ submitted.rev >= acked.rev
       /\ submitted.stamp = stamp
       /\ \A d \in Known : d.stamp < stamp

(* A fenced write compares with the draft the session is made of.          *)
Fence ==
  /\ pc = "unsettled" => fenced
  /\ (pc # "idle" /\ fenced /\ fresh \cup aged = {}) => predecessor = acked

IInv == TypeOK /\ StoreShape /\ Submission /\ Fence
-----------------------------------------------------------------------------
(* A missing file is not a draft.                                          *)
LEMMA NoDraftIsNotADraft == NoDraft \notin Drafts
BY NoDraftAssumption, BoundsAssumption DEF Drafts

(* Drafts have natural revisions and stamps.                               *)
LEMMA DraftFields ==
  ASSUME NEW d \in Drafts
  PROVE  d.rev \in Nat /\ d.stamp \in Nat
BY BoundsAssumption DEF Drafts

(* recover() of a store in one of its three shapes.                        *)
LEMMA RecoveredUntouched ==
  ASSUME TypeOK, Untouched
  PROVE  Recovered(store) \in Known
BY NoDraftIsNotADraft, DraftFields DEF TypeOK, Untouched, Recovered, Known, Live

(* ... after the first rename, which leaves previous alone.                *)
LEMMA RecoveredRotated ==
  ASSUME TypeOK, RotatedAway
  PROVE  Recovered(store) \in Live
BY DEF RotatedAway, Recovered

(* ... and after the final rename.                                         *)
LEMMA RecoveredPublished ==
  ASSUME TypeOK, PublishedOver, submitted \in Drafts
  PROVE  Recovered(store) \in Live \cup {submitted}
BY NoDraftIsNotADraft DEF PublishedOver, Recovered, TypeOK

(* The first rename of a write turns the untouched shape into the rotated  *)
(* one: the live draft survives as previous.                               *)
LEMMA RotationKeepsLive ==
  ASSUME TypeOK, Untouched
  PROVE  /\ Rotated(store).current = NoDraft
         /\ Rotated(store).previous \in Live
BY NoDraftIsNotADraft DEF TypeOK, Untouched, Rotated, Live

-----------------------------------------------------------------------------
(* A session opens with its acknowledged draft as current.                 *)
LEMMA InitIInv == Init => IInv
<1> SUFFICES ASSUME Init PROVE IInv
  OBVIOUS
<1>1. acked \in Drafts /\ acked.stamp = 0 /\ 0 \in 0..MaxStamp
  BY BoundsAssumption DEF Init, Drafts
<1>2. TypeOK
  BY <1>1 DEF Init, TypeOK, PersistSteps
<1>3. StoreShape /\ Submission /\ Fence
  BY <1>1 DEF Init, StoreShape, Submission, Fence, Untouched, Known, Live
<1> QED BY <1>2, <1>3 DEF IInv

(* A write that ends leaves one of the three shapes behind; whichever it   *)
(* is, the session made of the acknowledged and the landed drafts has an   *)
(* untouched store.                                                        *)
LEMMA AdoptInvariant ==
  ASSUME IInv, PublishedOver, submitted \in Drafts, Adopt
  PROVE  IInv'
<1> USE NoDraftIsNotADraft, DraftFields, BoundsAssumption
<1>1. TypeOK'
  BY DEF IInv, TypeOK, Adopt, PersistSteps
<1>2. Untouched'
  <2>1. store'.current = acked' /\ store'.current \in Live'
    BY DEF Adopt, PublishedOver, Live
  <2>2. store'.previous \in Known' \/ store'.previous.rev <= store'.current.rev
    <3>1. CASE store.previous = acked
      <4>1. acked.rev <= submitted.rev
        BY DEF IInv, Submission, TypeOK, PublishedOver, Adopt
      <4> QED BY <3>1, <4>1 DEF Adopt, PublishedOver
    <3>2. CASE store.previous \in fresh
      BY <3>2 DEF IInv, TypeOK, Adopt, PublishedOver, Known, Live
    <3> QED BY <3>1, <3>2 DEF PublishedOver, Live
  <2> QED BY <2>1, <2>2 DEF Untouched
<1>3. StoreShape'
  BY <1>2 DEF StoreShape, Adopt
<1>4. Submission'
  BY DEF IInv, TypeOK, Submission, Adopt, Known, Live
<1>5. Fence'
  BY DEF Fence, Adopt
<1> QED BY <1>1, <1>3, <1>4, <1>5 DEF IInv

(* A refused write leaves the store as one of the three shapes of the      *)
(* acknowledged draft, with the refused draft accounted for.               *)
LEMMA RejectInvariant ==
  ASSUME IInv, pc # "idle", Reject
  PROVE  IInv'
<1> USE NoDraftIsNotADraft, DraftFields, BoundsAssumption
<1>0. submitted \in Drafts
  BY DEF IInv, Submission
<1>1. TypeOK'
  BY <1>0 DEF IInv, TypeOK, Reject, PersistSteps
<1>2. Untouched'
  <2>1. CASE Untouched
    BY <2>1, <1>0 DEF Untouched, Reject, Live, Known
  <2>2. CASE RotatedAway
    BY <2>2, <1>0 DEF RotatedAway, Untouched, Reject, Live, Known
  <2>3. CASE PublishedOver
    BY <2>3, <1>0 DEF PublishedOver, Untouched, Reject, Live, Known
  <2> QED BY <2>1, <2>2, <2>3 DEF IInv, TypeOK, PersistSteps, StoreShape
<1>3. StoreShape'
  BY <1>2 DEF StoreShape, Reject
<1>4. Submission'
  BY <1>0 DEF IInv, TypeOK, Submission, Reject, Known, Live
<1>5. Fence'
  BY DEF Fence, Reject
<1> QED BY <1>1, <1>3, <1>4, <1>5 DEF IInv

(* A settled successor was read back because it had been published.        *)
LEMMA SuccessorWasPublished ==
  ASSUME IInv, pc = "unsettled", Recovered(store) = submitted
  PROVE  PublishedOver /\ submitted \in Drafts
<1>1. submitted \in Drafts /\ submitted \notin Known
  BY DraftFields DEF IInv, Submission
<1>2. ~Untouched
  BY <1>1, RecoveredUntouched DEF IInv
<1>3. ~RotatedAway
  BY <1>1, RecoveredRotated DEF IInv, Known
<1> QED BY <1>1, <1>2, <1>3 DEF IInv, StoreShape

(* IInv is inductive: every step of persist(), its caller and a crash      *)
(* preserves it.                                                           *)
LEMMA NextIInv == IInv /\ [Next]_vars => IInv'
<1> SUFFICES ASSUME IInv, [Next]_vars PROVE IInv'
  OBVIOUS
<1> USE NoDraftIsNotADraft, DraftFields, BoundsAssumption
<1>1. ASSUME NEW rev \in 0..MaxRevision, NEW isFenced \in BOOLEAN, Submit(rev, isFenced)
      PROVE  IInv'
  <2>1. submitted' \in Drafts /\ submitted'.rev >= acked.rev
        /\ submitted'.stamp = stamp + 1
    BY <1>1 DEF Submit, Drafts, IInv, TypeOK
  <2>2. Recovered(store) \in Known /\ Known \subseteq Drafts
    BY <1>1, RecoveredUntouched DEF Submit, IInv, StoreShape, TypeOK, Known, Live
  <2>3. TypeOK'
    BY <1>1, <2>1, <2>2 DEF Submit, IInv, TypeOK, PersistSteps
  <2>4. StoreShape'
    BY <1>1 DEF Submit, IInv, StoreShape, Untouched, Live, Known
  <2>5. Submission'
    BY <1>1, <2>1, <2>2 DEF Submit, IInv, TypeOK, Submission, Known, Live
  <2>6. Fence'
    BY <1>1, <2>2 DEF Submit, Fence, Known, Live
  <2> QED BY <2>3, <2>4, <2>5, <2>6 DEF IInv
<1>2. CASE RotateStep
  <2>1. TypeOK'
    BY <1>2 DEF RotateStep, IInv, TypeOK, PersistSteps, Rotated
  <2>2. StoreShape'
    BY <1>2, RotationKeepsLive DEF RotateStep, IInv, StoreShape, RotatedAway, Live
  <2>3. Submission' /\ Fence'
    BY <1>2 DEF RotateStep, IInv, Submission, Fence, Known, Live
  <2> QED BY <2>1, <2>2, <2>3 DEF IInv
<1>3. CASE FinalRename
  <2>1. submitted \in Drafts
    BY <1>3 DEF FinalRename, IInv, Submission
  <2>2. TypeOK'
    BY <1>3, <2>1 DEF FinalRename, IInv, TypeOK, PersistSteps, Published, Rotated
  <2>3. StoreShape'
    BY <1>3 DEF FinalRename, IInv, StoreShape, RotatedAway, PublishedOver, Published,
                Rotated, Live
  <2>4. Submission' /\ Fence'
    BY <1>3 DEF FinalRename, IInv, Submission, Fence, Known, Live
  <2> QED BY <2>2, <2>3, <2>4 DEF IInv
<1>4. CASE PersistReturns
  BY <1>4, AdoptInvariant DEF PersistReturns, IInv, StoreShape, Submission
<1>5. CASE PlainFailure
  BY <1>5, RejectInvariant DEF PlainFailure
<1>6. CASE FencedFailure
  <2>1. TypeOK' /\ Submission' /\ Fence'
    BY <1>6 DEF FencedFailure, IInv, TypeOK, PersistSteps, Submission, Fence, Known, Live
  <2>2. Untouched \/ RotatedAway \/ PublishedOver
    BY <1>6 DEF FencedFailure, IInv, StoreShape
  <2>3. StoreShape'
    BY <1>6, <2>2 DEF FencedFailure, StoreShape, Untouched, RotatedAway, PublishedOver,
                      Live, Known
  <2> QED BY <2>1, <2>3 DEF IInv
<1>7. CASE SettleSuccessor
  BY <1>7, SuccessorWasPublished, AdoptInvariant DEF SettleSuccessor
<1>8. CASE SettlePredecessor
  BY <1>8, RejectInvariant DEF SettlePredecessor
<1>9. CASE CrashAndRecover
  <2>1. /\ Recovered(store) \in Known \cup (IF submitted = NoDraft THEN {} ELSE {submitted})
        /\ Known \subseteq Drafts
    <3>1. CASE Untouched
      BY <3>1, RecoveredUntouched DEF IInv, TypeOK, Known, Live
    <3>2. CASE RotatedAway
      BY <3>2, RecoveredRotated DEF IInv, TypeOK, Known, Live
    <3>3. CASE PublishedOver /\ submitted \in Drafts
      BY <3>3, RecoveredPublished DEF IInv, TypeOK, Known, Live
    <3> QED BY <3>1, <3>2, <3>3 DEF IInv, TypeOK, PersistSteps, StoreShape, Submission
  <2>2. Recovered(store) \in Drafts
    BY <2>1 DEF IInv, TypeOK
  <2>3. Live' = Known \cup (IF submitted = NoDraft THEN {} ELSE {submitted})
    BY <1>9, <2>1 DEF CrashAndRecover, Live, Known
  <2>4. TypeOK'
    BY <1>9, <2>2 DEF CrashAndRecover, IInv, TypeOK, PersistSteps
  <2>5. Untouched'
    <3>1. CASE Untouched
      BY <1>9, <3>1, <2>3 DEF CrashAndRecover, Untouched, Known
    <3>2. CASE RotatedAway
      BY <1>9, <3>2, <2>3 DEF CrashAndRecover, RotatedAway, Untouched, Known
    <3>3. CASE PublishedOver /\ submitted \in Drafts
      BY <1>9, <3>3, <2>3 DEF CrashAndRecover, PublishedOver, Untouched, Known
    <3> QED BY <3>1, <3>2, <3>3 DEF IInv, TypeOK, PersistSteps, StoreShape, Submission
  <2>6. StoreShape'
    BY <1>9, <2>5 DEF CrashAndRecover, StoreShape
  <2>7. \A d \in Known' : d.stamp <= stamp'
    <3>1. Known' = Live'
      BY <1>9 DEF CrashAndRecover, Known
    <3>2. \A d \in Known : d.stamp <= stamp
      BY DEF IInv, Submission
    <3>3. submitted # NoDraft => submitted.stamp <= stamp
      BY DEF IInv, Submission, TypeOK
    <3> QED BY <1>9, <2>3, <3>1, <3>2, <3>3 DEF CrashAndRecover
  <2>8. Submission' /\ Fence'
    BY <1>9, <2>7 DEF CrashAndRecover, Submission, Fence
  <2> QED BY <2>4, <2>6, <2>8 DEF IInv
<1>10. CASE UNCHANGED vars
  BY <1>10 DEF vars, IInv, TypeOK, StoreShape, Submission, Fence, Untouched,
               RotatedAway, PublishedOver, Known, Live
<1> QED
  BY <1>1, <1>2, <1>3, <1>4, <1>5, <1>6, <1>7, <1>8, <1>9, <1>10 DEF Next

(* The inductive invariant holds in every reachable state.                 *)
THEOREM Inductive == Spec => []IInv
BY InitIInv, NextIInv, PTL DEF Spec

-----------------------------------------------------------------------------
(* Every reachable state of the store is well typed.                       *)
THEOREM TypeCorrect == Spec => []TypeOK
<1>1. IInv => TypeOK
  BY DEF IInv
<1> QED BY <1>1, Inductive, PTL

(* persist() and its callers: a crash brings back the acknowledged draft,  *)
(* one whose refused write had reached the disk or, inside a write, that   *)
(* write.                                                                  *)
THEOREM CrashRestores == Spec => []RecoversAcknowledgedOrRefused
<1>1. IInv => RecoversAcknowledgedOrRefused
  <2> SUFFICES ASSUME IInv PROVE RecoversAcknowledgedOrRefused
    OBVIOUS
  <2>1. CASE pc = "idle"
    BY <2>1, RecoveredUntouched DEF IInv, StoreShape, RecoversAcknowledgedOrRefused, Known, Live
  <2>2. CASE pc # "idle"
    BY <2>2, RecoveredUntouched, RecoveredRotated, RecoveredPublished
       DEF IInv, TypeOK, PersistSteps, StoreShape, Submission, RecoversAcknowledgedOrRefused, Known, Live
  <2> QED
    BY <2>1, <2>2
<1> QED BY <1>1, Inductive, PTL

(* The commit barrier of a fenced write settles unless a refused draft is  *)
(* still on the disk.                                                      *)
THEOREM BarrierSettles == Spec => []FencedWriteSettles
<1>1. IInv => FencedWriteSettles
  <2> SUFFICES ASSUME IInv, pc = "unsettled", fresh \cup aged = {}
               PROVE  Recovered(store) \in {submitted, predecessor}
    BY DEF FencedWriteSettles
  <2>1. predecessor = acked /\ Known = {acked} /\ submitted \in Drafts
    BY DEF IInv, Fence, Submission, Known, Live
  <2> QED BY <2>1, RecoveredUntouched, RecoveredRotated, RecoveredPublished
          DEF IInv, StoreShape, Known, Live
<1> QED BY <1>1, Inductive, PTL

-----------------------------------------------------------------------------
(* persist() with its failures and crashes implements the abstract store:  *)
(* a refused write lingers only as long as the abstract store says.        *)
THEOREM Refinement == Spec => RefinesAcknowledgedDraft
<1> USE DEF Abstract!absVars, Abstract!AbsNext
<1>1. Init => Abstract!AbsInit
  BY BoundsAssumption DEF Init, Abstract!AbsInit, Drafts
<1>2. IInv /\ [Next]_vars => [Abstract!AbsNext]_(Abstract!absVars)
  <2> SUFFICES ASSUME IInv, [Next]_vars PROVE [Abstract!AbsNext]_(Abstract!absVars)
    OBVIOUS
  <2> USE NoDraftIsNotADraft, DraftFields
  <2>1. ASSUME NEW rev \in 0..MaxRevision, NEW isFenced \in BOOLEAN, Submit(rev, isFenced)
        PROVE  Abstract!Submit
    <3>1. submitted' \in Drafts /\ submitted'.rev >= acked.rev
      BY <2>1, BoundsAssumption DEF Submit, Drafts, IInv, TypeOK
    <3> QED BY <2>1, <3>1 DEF Submit, Abstract!Submit, IInv, Submission
  <2>2. CASE RotateStep
    BY <2>2 DEF RotateStep
  <2>3. CASE FinalRename
    BY <2>3 DEF FinalRename
  <2>4. ASSUME pc # "idle", Adopt PROVE Abstract!Acknowledge
    BY <2>4 DEF Adopt, Abstract!Acknowledge, IInv, Submission
  <2>5. ASSUME pc # "idle", Reject PROVE Abstract!Refuse
    BY <2>5 DEF Reject, Abstract!Refuse, IInv, Submission
  <2>6. CASE FencedFailure
    BY <2>6 DEF FencedFailure
  <2>7. CASE CrashAndRecover
    <3>1. Recovered(store) \in Abstract!Recoverable
      <4>1. Abstract!Recoverable = Known \cup (IF submitted = NoDraft THEN {} ELSE {submitted})
        BY DEF Abstract!Recoverable, Known, Live
      <4>2. CASE Untouched
        BY <4>1, <4>2, RecoveredUntouched DEF IInv
      <4>3. CASE RotatedAway
        BY <4>1, <4>3, RecoveredRotated DEF IInv, Known
      <4>4. CASE PublishedOver /\ submitted \in Drafts
        BY <4>1, <4>4, RecoveredPublished DEF IInv, Known
      <4> QED BY <4>2, <4>3, <4>4 DEF IInv, TypeOK, PersistSteps, StoreShape, Submission
    <3> QED BY <2>7, <3>1 DEF CrashAndRecover, Abstract!Restart, Abstract!Recoverable
  <2>8. CASE UNCHANGED vars
    BY <2>8 DEF vars
  <2> QED BY <2>1, <2>2, <2>3, <2>4, <2>5, <2>6, <2>7, <2>8
          DEF Next, PersistReturns, PlainFailure, SettleSuccessor, SettlePredecessor
<1> QED BY <1>1, <1>2, Inductive, PTL DEF Spec, RefinesAcknowledgedDraft, Abstract!AbsSpec
=============================================================================
