------------------------- MODULE SaveSyncInvariants -------------------------
(***************************************************************************)
(* The inductive invariants of a review session, which SaveSyncProofs      *)
(* proves: who holds what (HInv), types with the bounds that keep them     *)
(* (TInv), what is saved (CInv), what is durable (DInv), what a pass may   *)
(* replace (VInv) and what may become a generation (OInv).                 *)
(***************************************************************************)
EXTENDS SaveSync

(* The records that are updated field by field have those fields.          *)
Shapes ==
  /\ holds = [v \in Views |-> holds[v]]
  /\ "gen" \in DOMAIN review
  /\ "pc" \in DOMAIN insp
  /\ "pc" \in DOMAIN save
  /\ "kind" \in DOMAIN commit /\ "successor" \in DOMAIN commit
  /\ commit.kind = "replace" => "gen" \in DOMAIN commit.successor.review

(* Who holds the session tail across steps.                                *)
TailOwner ==
  /\ insp.pc = "persist" => tail = "replace"
  /\ save.pc \in {"publish", "confirm", "resolve"} => tail = "save"

(* A replacement that is being committed, or whose outcome is uncertain,   *)
(* meets no hold: it was refused under one, and none can begin.            *)
NoHoldDuringReplacement ==
  tail = "replace" \/ commit.kind = "replace" => ~Held

HInv == Shapes /\ TailOwner /\ NoHoldDuringReplacement /\ HoldsAtCurrentGeneration

-----------------------------------------------------------------------------
(* Edits, rebuilds and destination choices stay within their bounds.       *)
Bounded(r, d) ==
  /\ r.rev + 1 <= events.edits + r.gen
  /\ d.gen <= MaxDestinations + r.gen

ReviewTyped ==
  /\ review \in Reviews /\ dest \in Destinations /\ sync \in Syncs
  /\ originalDigest \in Pdfs /\ eligible \in BOOLEAN
  /\ pristine \in [gen : 0..MaxDestGen, current : BOOLEAN]
  /\ events \in [outside : 0..MaxEvents, edits : 0..MaxRevision]
  /\ Bounded(review, dest)

(* A session always has a draft on disk.                                   *)
Stored(s) ==
  /\ s \in [current : Drafts \cup {NoDraft}, previous : Drafts \cup {NoDraft}]
  /\ s.current # NoDraft \/ s.previous # NoDraft

StoreTyped ==
  /\ Stored(store)
  /\ refused \in SUBSET Drafts
  /\ faults \in 0..MaxFaults

(* What an inspection is about to make the next generation ...             *)
InspectionTyped ==
  /\ insp \in InspectionStates
  /\ insp.pc \in {"replace", "persist"} => insp.bytes \in Pdfs /\ insp.gen < MaxGeneration
  /\ insp.pc = "persist" => insp.gen = review.gen

(* ... and what a commit barrier stands for.                               *)
BarrierTyped ==
  /\ commit \in CommitBarriers
  /\ commit.kind # "none" => commit.successor \in Drafts /\ commit.bytes \in Pdfs
  /\ commit.kind = "replace" => Bounded(commit.successor.review, commit.successor.dest)

PassTyped == save \in SaveStates

DiskTyped ==
  /\ files \in [Kinds -> [bytes : Contents, approved : BOOLEAN]]
  /\ copyFingerprint \in Contents
  /\ delivered \in [Kinds -> Contents]
  /\ unannounced \in BOOLEAN
  /\ obs \in ObserverStates
  /\ tail \in {"free", "save", "replace"}
  /\ holds \in [Views -> 0..MaxGeneration]

TInv == ReviewTyped /\ StoreTyped /\ InspectionTyped /\ BarrierTyped /\ PassTyped /\ DiskTyped

-----------------------------------------------------------------------------
(* A commit barrier, the session tail and the pass exclude one another.    *)
Exclusive ==
  /\ commit.kind # "none" => tail = "free" \/ save.pc = "resolve"
  /\ commit.kind = "save" => save.pc \in {"off", "top", "settle", "freeze", "resolve"}
  /\ save.pc = "resolve" => commit.kind = "save"

(* The desired digest is that of the review. Only a session nobody edited  *)
(* and no rebuild reached is desired at revision 0.                        *)
Desired(r, s) ==
  /\ s.des.items = r.items
  /\ r.gen # 1 => r.rev # 0 /\ s.desRev # 0

(* The pass works for the destination it began with, ...                   *)
PassKeepsItsDestination ==
  save.pc \notin {"off", "top"} =>
     /\ save.destGen <= dest.gen
     /\ save.destGen = dest.gen => save.kind = dest.kind

Frozen == {"write", "settleAgain", "validate", "publish", "confirm"}

(* ... the items it froze are still desired if nothing asked for more, ... *)
FrozenIsDesired ==
  save.pc \in Frozen =>
     /\ save.digest.items = save.items
     /\ pristine # NotDue => pristine.gen # save.destGen
     /\ (sync.phase = "clean" /\ dest.gen = save.destGen /\ review.gen = save.docGen) =>
           save.items = review.items

(* ... and until it is recorded what it published is what was delivered.   *)
PublishedIsDelivered ==
  save.pc = "confirm" =>
     /\ dest.active /\ dest.gen = save.destGen
     /\ review.src = save.src /\ review.gen = save.docGen
     /\ delivered[save.kind] = SaveBytes

(* chooseOriginal() of an untouched document: what it is about to record   *)
(* as delivered is the file the session was opened on.                     *)
PristineIsFirst ==
  /\ review.gen = 1 => review.src = External(FirstVersion)
  /\ pristine # NotDue => pristine.gen <= dest.gen
  /\ (pristine # NotDue /\ pristine.gen = dest.gen) =>
        dest.kind = "original" /\ dest.active /\ review.gen = 1

(* An uncertain save has published what its successor says is delivered.   *)
SaveBarrierIsDelivered ==
  commit.kind = "save" =>
     /\ commit.successor = [DraftOf(review, dest, commit.successor.sync)
                              EXCEPT !.at = commit.successor.at]
     /\ Desired(review, commit.successor.sync)
     /\ dest.active
     /\ delivered[dest.kind] = commit.bytes
     /\ commit.bytes.by = "service"
     /\ commit.bytes.base = review.src.base
     /\ commit.successor.sync.phase = "clean" => commit.bytes.items = review.items

(* An uncertain replacement is the next generation, and nowhere saved.     *)
NextGeneration(d) ==
  /\ d = DraftOf(d.review, d.dest, d.sync)
  /\ d.review.rev = review.rev + 1
  /\ d.review.gen = review.gen + 1
  /\ Desired(d.review, d.sync)
  /\ d.sync.phase # "clean"
  /\ d.dest.active = dest.active /\ d.dest.kind = dest.kind
  /\ d.dest.gen = IF dest.active THEN dest.gen + 1 ELSE dest.gen

ReplacementIsNext ==
  commit.kind = "replace" =>
     NextGeneration(commit.successor) /\ commit.bytes = commit.successor.review.src

CInv == /\ Exclusive /\ Desired(review, sync)
        /\ PassKeepsItsDestination /\ FrozenIsDesired /\ PublishedIsDelivered
        /\ PristineIsFirst /\ SaveBarrierIsDelivered /\ ReplacementIsNext
        /\ CleanIsDelivered

-----------------------------------------------------------------------------
(* A file is kept if it holds an allowed state, or is the draft of a       *)
(* commit whose outcome is pending.                                        *)
Kept(f, allowed, pending) == AtLess(f) \in allowed \/ f \in pending

(* What a crash may bring back now or after the next rotation is kept.     *)
Durable(s, allowed, pending) ==
  /\ s.current # NoDraft => Kept(s.current, allowed, pending)
  /\ s.current = NoDraft => Kept(s.previous, allowed, pending)
  /\ s.previous # NoDraft =>
       Kept(s.previous, allowed, pending) \/ s.previous.rev <= s.current.rev

(* No file is more than one revision, or any generation, ahead of the      *)
(* review, except the draft of a pending replacement.                      *)
NotAhead(f, rev, gen) == f.rev <= rev + 1 /\ f.review.gen <= gen
FilesBehind(s, rev, gen, ahead) ==
  \A f \in {s.current, s.previous} : f = NoDraft \/ f \in ahead \/ NotAhead(f, rev, gen)

Pending == IF commit.kind # "none" THEN {commit.successor} ELSE {}
Ahead == IF commit.kind = "replace" THEN {commit.successor} ELSE {}

DInv ==
  /\ Durable(store, {Draft} \cup refused, Pending)
  /\ FilesBehind(store, review.rev, review.gen, Ahead)
  /\ commit.kind = "replace" => commit.successor \notin {store.previous, commit.predecessor}

-----------------------------------------------------------------------------
(* The original a pass is about to replace is the one it validated, or it  *)
(* changed since, and either nobody told the observer or its observation   *)
(* is not settled.                                                         *)
ChangeIsUnseen == ~obs.unchanged /\ (unannounced \/ obs.physical)
VInv == (save.pc = "publish" /\ save.kind = "original") => Original = save.orig \/ ChangeIsUnseen

(* What is about to become a generation is not what the service last       *)
(* delivered, and is at the original unless another program wrote since.   *)
NotDelivered(bytes) == bytes.by = "service" => bytes # delivered.original
Ingestible(bytes, staged) ==
  /\ NotDelivered(bytes)
  /\ IF staged THEN Original = bytes ELSE Original.by # "service"

(* A publication at the original is recorded, or about to be.              *)
PublicationIsKnown ==
  (Original.by = "service" /\ Original = delivered.original) =>
     \/ Original = originalDigest
     \/ save.pc = "confirm" /\ save.kind = "original" /\ Original = SaveBytes
     \/ commit.kind = "save" /\ dest.kind = "original" /\ Original = commit.bytes

OInv ==
  /\ insp.pc = "replace" /\ insp.staged => Ingestible(insp.bytes, TRUE)
  /\ insp.pc = "persist" => Ingestible(insp.bytes, insp.staged)
  /\ commit.kind = "replace" => Ingestible(commit.bytes, commit.staged)
  /\ PublicationIsKnown
=============================================================================
