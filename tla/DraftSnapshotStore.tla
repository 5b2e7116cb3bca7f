------------------------- MODULE DraftSnapshotStore -------------------------
(***************************************************************************)
(* DraftSnapshotStore.persist() step by step, driven by a session broker   *)
(* that writes before it publishes a change in memory, with an error or a  *)
(* crash possible between any two steps.                                   *)
(*                                                                         *)
(* A draft is its review revision and a stamp that tells two writes apart  *)
(* (the destination, the synchronization watermarks and acknowledgedAt all *)
(* differ between two writes at one revision).                             *)
(***************************************************************************)
EXTENDS DraftFiles

CONSTANTS MaxRevision,      \* bound on user mutations
          MaxStamp          \* bound on the number of writes

ASSUME BoundsAssumption == MaxRevision \in Nat /\ MaxStamp \in Nat
ASSUME NoDraftAssumption == NoDraft \notin [rev : Nat, stamp : Nat]

Drafts == [rev : 0..MaxRevision, stamp : 0..MaxStamp]

PersistSteps == {"idle", "staged", "rotated", "published", "unsettled"}

VARIABLES
  store,        \* the two files
  pc,           \* progress of the write that holds the session tail
  submitted,    \* the draft persist() was called with
  fenced,       \* the caller settles a failure by reading the files back
  predecessor,  \* what recover() returned before a fenced write
  acked,        \* the draft that matches the session in memory
  stamp,        \* the last stamp given out
  fresh, aged   \* history: refused drafts that reached the disk

vars == <<store, pc, submitted, fenced, predecessor, acked, stamp, fresh, aged>>

TypeOK ==
  /\ store \in [current : Drafts \cup {NoDraft}, previous : Drafts \cup {NoDraft}]
  /\ pc \in PersistSteps
  /\ submitted \in Drafts \cup {NoDraft}
  /\ fenced \in BOOLEAN
  /\ predecessor \in Drafts \cup {NoDraft}
  /\ acked \in Drafts
  /\ stamp \in 0..MaxStamp
  /\ fresh \in SUBSET Drafts
  /\ aged \in SUBSET Drafts

(* A session opens with its first draft already persisted.                 *)
Init ==
  /\ acked = [rev |-> 0, stamp |-> 0]
  /\ store = [current |-> acked, previous |-> NoDraft]
  /\ pc = "idle"
  /\ submitted = NoDraft
  /\ fenced = FALSE
  /\ predecessor = NoDraft
  /\ stamp = 0
  /\ fresh = {}
  /\ aged = {}

-----------------------------------------------------------------------------
(* A broker operation reaches persist() on the session tail. Mutations     *)
(* raise the revision; destination and synchronization changes do not.     *)
(* Commits of a save, a replacement or a receipt are fenced: they read the *)
(* store first and compare afterwards.                                     *)
Submit(rev, isFenced) ==
  /\ pc = "idle"
  /\ stamp < MaxStamp
  /\ rev \in {acked.rev, acked.rev + 1} \cap (0..MaxRevision)
  /\ stamp' = stamp + 1
  /\ submitted' = [rev |-> rev, stamp |-> stamp + 1]
  /\ fenced' = isFenced
  /\ predecessor' = IF isFenced THEN Recovered(store) ELSE NoDraft
  /\ pc' = "staged"
  /\ UNCHANGED <<store, acked, fresh, aged>>

RotateStep ==
  /\ pc = "staged"
  /\ store' = Rotated(store)
  /\ pc' = "rotated"
  /\ UNCHANGED <<submitted, fenced, predecessor, acked, stamp, fresh, aged>>

FinalRename ==
  /\ pc = "rotated"
  /\ store' = Published(store, submitted)
  /\ pc' = "published"
  /\ UNCHANGED <<submitted, fenced, predecessor, acked, stamp, fresh, aged>>

(* The broker publishes the draft in memory: the write is acknowledged.    *)
Adopt ==
  /\ acked' = submitted
  /\ aged' = {d \in fresh : d.rev > submitted.rev}
  /\ fresh' = {}
  /\ pc' = "idle"
  /\ submitted' = NoDraft
  /\ predecessor' = NoDraft
  /\ UNCHANGED <<store, stamp, fenced>>

(* The broker keeps its memory and reports the error to its caller.        *)
Reject ==
  /\ fresh' = IF store.current = submitted THEN fresh \cup {submitted} ELSE fresh
  /\ pc' = "idle"
  /\ submitted' = NoDraft
  /\ predecessor' = NoDraft
  /\ UNCHANGED <<store, acked, stamp, fenced, aged>>

(* chmod and the directory sync succeed: persist() returns.                *)
PersistReturns ==
  /\ pc = "published"
  /\ Adopt

(* An I/O error, an aborted signal or a lost authority ends persist()      *)
(* after any step; a plain caller rejects whatever the disk now holds.     *)
PlainFailure ==
  /\ pc \in {"staged", "rotated", "published"}
  /\ ~fenced
  /\ Reject

FencedFailure ==
  /\ pc \in {"staged", "rotated", "published"}
  /\ fenced
  /\ pc' = "unsettled"
  /\ UNCHANGED <<store, submitted, fenced, predecessor, acked, stamp, fresh, aged>>

(* The commit barrier: the successor or the predecessor must be read back. *)
SettleSuccessor ==
  /\ pc = "unsettled"
  /\ Recovered(store) = submitted
  /\ Adopt

SettlePredecessor ==
  /\ pc = "unsettled"
  /\ Recovered(store) # submitted
  /\ Recovered(store) = predecessor
  /\ Reject

(* The process dies and a later one resumes the session from the files.    *)
CrashAndRecover ==
  /\ acked' = Recovered(store)
  /\ fresh' = ({acked} \cup fresh \cup aged \cup
                 (IF submitted = NoDraft THEN {} ELSE {submitted})) \ {acked'}
  /\ aged' = {}
  /\ pc' = "idle"
  /\ submitted' = NoDraft
  /\ predecessor' = NoDraft
  /\ UNCHANGED <<store, stamp, fenced>>

Next ==
  \/ \E rev \in 0..MaxRevision, isFenced \in BOOLEAN : Submit(rev, isFenced)
  \/ RotateStep
  \/ FinalRename
  \/ PersistReturns
  \/ PlainFailure
  \/ FencedFailure
  \/ SettleSuccessor
  \/ SettlePredecessor
  \/ CrashAndRecover

Spec == Init /\ [][Next]_vars

-----------------------------------------------------------------------------
(* The abstract store, with the write in progress as its in-flight draft.  *)
Abstract == INSTANCE AcknowledgedDraft WITH inflight <- submitted

(* The detailed persist(), with its renames, failures and barriers,        *)
(* implements it: refused drafts linger on the disk only as long as the    *)
(* abstract store says.                                                    *)
RefinesAcknowledgedDraft == Abstract!AbsSpec

(* The draft a crash would bring back is the acknowledged one, one that    *)
(* was refused after it had reached the disk or, while a write is in       *)
(* progress, that write: no failure point of persist() loses the           *)
(* acknowledged draft to an older one, a half-finished persist() never     *)
(* resurrects anything else, and the store is never empty.                 *)
RecoversAcknowledgedOrRefused ==
  Recovered(store) \in {acked} \cup fresh \cup aged
                         \cup (IF pc = "idle" THEN {} ELSE {submitted})

(* The barrier of a fenced write settles without a restart: the files give *)
(* back the successor or the predecessor, never a third draft. A refused   *)
(* draft that lingers on the disk is the one exception: it can be the      *)
(* predecessor that the rotation then destroys.                            *)
FencedWriteSettles ==
  (pc = "unsettled" /\ fresh \cup aged = {}) =>
     Recovered(store) \in {submitted, predecessor}

(* A write that was acknowledged is not undone by a crash between writes:  *)
(* what comes back is at least as recent. This is what the recovery notes  *)
(* promise of a failed write; a plain write refused after its final rename *)
(* breaks it, because its higher revision outranks later writes.           *)
AcknowledgedDraftRetained ==
  pc = "idle" => Recovered(store).stamp >= acked.stamp
=============================================================================
