------------------------- MODULE ReviewInteractions -------------------------
(***************************************************************************)
(* The interactions of one view with a review, on the service: the view's  *)
(* attachment, with what its present connection holds, the order fences of *)
(* its requests, and the receipts of finished interactions. Requests run in*)
(* the session tail; connections come and go outside of it. finalize and   *)
(* acknowledge persist the review and its receipts in one commit, whose    *)
(* outcome may stay unknown until a later operation of the tail settles it.*)
(* Left out: the list of drafts shown as being edited (which a lost        *)
(* connection keeps for five seconds) and the eviction of order fences     *)
(* (lastOrder refuses what an evicted fence would).                        *)
(***************************************************************************)
EXTENDS Naturals, FiniteSets

CONSTANTS
  Tokens,         \* interactions; each finishes or discards one protected draft
  MaxReceipts,    \* maxPendingReceipts
  MaxGeneration   \* bound: document generations

ASSUME InteractionsAssumption ==
  /\ MaxReceipts \in Nat \ {0}
  /\ MaxGeneration \in Nat \ {0}

VARIABLES
  record,   \* the attachment: incarnation (0: none), holds, fences, lastOrder
  doc,      \* the session in memory: generation, finished drafts, receipts
  disk,     \* its draft on disk
  tail,     \* the finalize or acknowledge whose commit is being persisted
  barrier   \* the one whose commit has an unknown outcome

serviceVars == <<record, doc, disk, tail, barrier>>

NoRequest == [kind |-> "none", token |-> "none", order |-> 0, inc |-> 0, gen |-> 0]
NoHold == [gen |-> 0, order |-> 0]

Attachment(inc) ==
  [inc |-> inc, holds |-> [t \in Tokens |-> NoHold], fences |-> [t \in Tokens |-> 0],
   lastOrder |-> 0]

ServiceInit ==
  /\ record = Attachment(0)
  /\ doc = [gen |-> 1, finished |-> {}, receipts |-> {}]
  /\ disk = doc
  /\ tail = NoRequest
  /\ barrier = NoRequest

Larger(i, j) == IF i > j THEN i ELSE j
Holds(t) == record.holds[t] # NoHold
Held == \E t \in Tokens : Holds(t)
Authentic(m) == record.inc # 0 /\ record.inc = m.inc
TailFree == tail = NoRequest /\ barrier = NoRequest

-----------------------------------------------------------------------------
(* begin(): a receipt or the hold itself answers a repeated request; a     *)
(* first one needs an order after every earlier one of this connection.    *)
BeginAnswer(m) ==
  IF ~Authentic(m) THEN "unauthorized"
  ELSE IF m.token \in doc.receipts THEN "finalized"
  ELSE IF m.gen # doc.gen THEN "stale"
  ELSE IF Holds(m.token) THEN "accepted"
  ELSE IF m.order <= record.fences[m.token] \/ m.order <= record.lastOrder
       THEN "out-of-order" ELSE "accepted"

Begin(m) ==
  /\ record' =
       IF BeginAnswer(m) \in {"unauthorized", "finalized", "stale"} \/ Holds(m.token)
          \/ m.order <= record.fences[m.token] THEN record
       ELSE IF m.order <= record.lastOrder THEN [record EXCEPT !.fences[m.token] = 0]
       ELSE [record EXCEPT !.fences[m.token] = 0, !.lastOrder = m.order,
                           !.holds[m.token] = [gen |-> m.gen, order |-> m.order]]
  /\ UNCHANGED <<doc, disk, tail, barrier>>

(* Mutant of Fenced: a release that finds no hold leaves no trace.         *)
Unfenced(t, order) == record

(* #recordTerminalFence()                                                  *)
Fenced(t, order) ==
  [record EXCEPT !.fences[t] = Larger(@, order), !.lastOrder = Larger(@, order)]

(* release()                                                               *)
ReleaseAnswer(m) ==
  IF ~Authentic(m) THEN "unauthorized"
  ELSE IF m.token \in doc.receipts THEN "finalized"
  ELSE IF ~Holds(m.token) THEN "missing"
  ELSE IF m.order <= record.holds[m.token].order THEN "out-of-order" ELSE "released"

Release(m) ==
  /\ record' = CASE ReleaseAnswer(m) = "missing" -> Fenced(m.token, m.order)
                 [] ReleaseAnswer(m) = "released" ->
                      [Fenced(m.token, m.order) EXCEPT !.holds[m.token] = NoHold]
                 [] OTHER -> record
  /\ UNCHANGED <<doc, disk, tail, barrier>>

-----------------------------------------------------------------------------
(* finalize() and acknowledge(): refused, or answered at once, or the      *)
(* commit of their successor is started. "error" is a draft that is no     *)
(* longer pending.                                                         *)
(* Mutant of Full: one receipt too many.                                   *)
FullBeyond == Cardinality(doc.receipts) > MaxReceipts
Full == Cardinality(doc.receipts) >= MaxReceipts

FinalizeAnswer(m) ==
  IF ~Authentic(m) THEN "unauthorized"
  ELSE IF m.token \in doc.receipts THEN "finalized"
  ELSE IF ~Holds(m.token) THEN "missing"
  ELSE IF m.order <= record.holds[m.token].order THEN "out-of-order"
  ELSE IF Full THEN "backpressure"
  ELSE IF m.token \in doc.finished THEN "error" ELSE "commit"

AcknowledgeAnswer(m) ==
  IF ~Authentic(m) THEN "unauthorized"
  ELSE IF m.token \notin doc.receipts THEN "missing" ELSE "commit"

Finalize(m) ==
  /\ tail' = IF FinalizeAnswer(m) = "commit" THEN m ELSE tail
  /\ UNCHANGED <<record, doc, disk, barrier>>

Acknowledge(m) ==
  /\ tail' = IF AcknowledgeAnswer(m) = "commit" THEN m ELSE tail
  /\ UNCHANGED <<record, doc, disk, barrier>>

Successor(m) ==
  IF m.kind = "finalize"
  THEN [doc EXCEPT !.finished = @ \cup {m.token}, !.receipts = @ \cup {m.token}]
  ELSE [doc EXCEPT !.receipts = @ \ {m.token}]

(* The end of finalize(), and recoverFinalized(): the hold of the          *)
(* connection it was asked on is over.                                     *)
Consumed(m) ==
  [record EXCEPT !.holds[m.token] = IF m.kind = "finalize" THEN NoHold ELSE @,
                 !.lastOrder = IF m.kind = "finalize" /\ Authentic(m)
                               THEN Larger(@, m.order) ELSE @]

(* The commit is on disk, also when its write failed after the rename and  *)
(* the draft that is read back is the successor.                           *)
Committed ==
  /\ tail # NoRequest
  /\ disk' = Successor(tail)
  /\ doc' = Successor(tail)
  /\ record' = Consumed(tail)
  /\ tail' = NoRequest
  /\ UNCHANGED barrier

(* The write failed and the draft that is read back is the predecessor.    *)
NotCommitted ==
  /\ tail # NoRequest
  /\ tail' = NoRequest
  /\ UNCHANGED <<record, doc, disk, barrier>>

(* The write failed and nothing can be read back.                          *)
Uncertain ==
  /\ tail # NoRequest
  /\ disk' \in {disk, Successor(tail)}
  /\ barrier' = tail
  /\ tail' = NoRequest
  /\ UNCHANGED <<record, doc>>

(* #assertReplacementCommitSettled(), by whichever operation is next.      *)
Settled ==
  IF disk = doc THEN record
  ELSE [record EXCEPT !.holds[barrier.token] = IF barrier.kind = "finalize" THEN NoHold ELSE @]

Settle ==
  /\ barrier # NoRequest
  /\ doc' = disk
  /\ record' = Settled
  /\ barrier' = NoRequest
  /\ UNCHANGED <<disk, tail>>

-----------------------------------------------------------------------------
(* register() revokes the connection before it; disconnect() only its own. *)
Register(inc) ==
  /\ record' = Attachment(inc)
  /\ UNCHANGED <<doc, disk, tail, barrier>>

(* Mutant of Disconnected: a late close ends the connection that followed. *)
DisconnectedAny(inc) == Attachment(0)
Disconnected(inc) == IF record.inc = inc THEN Attachment(0) ELSE record

Disconnect(inc) ==
  /\ record' = Disconnected(inc)
  /\ UNCHANGED <<doc, disk, tail, barrier>>

(* A new document generation, which no hold may see.                       *)
Replace ==
  /\ TailFree
  /\ ~Held
  /\ doc.gen < MaxGeneration
  /\ doc' = [doc EXCEPT !.gen = @ + 1]
  /\ disk' = doc'
  /\ UNCHANGED <<record, tail, barrier>>

(* Mutant of Hydrated: receipts do not survive a restart.                   *)
HydratedWithoutReceipts(d) == [d EXCEPT !.receipts = {}]
(* hydrate()                                                               *)
Hydrated(d) == d

(* The service dies, at worst while a commit is being persisted.           *)
ServiceDies ==
  /\ disk' \in IF tail = NoRequest THEN {disk} ELSE {disk, Successor(tail)}
  /\ doc' = Hydrated(disk')
  /\ record' = Attachment(0)
  /\ tail' = NoRequest
  /\ barrier' = NoRequest
=============================================================================
