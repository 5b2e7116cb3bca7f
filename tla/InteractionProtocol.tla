------------------------ MODULE InteractionProtocol ------------------------
(***************************************************************************)
(* A view with its annotation editors (one token each), the lane in which  *)
(* the editors' requests to ReviewInteractions take turns                  *)
(* (attachmentOrderedInteractionTransport), and the connections between    *)
(* view and service: a request may fail at the view while it is still on   *)
(* its way, a connection may be lost and replaced, the close of a lost one *)
(* may be noticed late, and the service may die.                           *)
(*                                                                         *)
(* Results that are kept for an editor that asks for its release a second  *)
(* time (recoveredReleases) are left out: editors ask once and leave.      *)
(***************************************************************************)
EXTENDS ReviewInteractions

CONSTANTS
  MaxConnections,  \* bound: connections of the view
  MaxFaults,       \* bound: failed requests and commits, crashes of the service
  MaxOrders,       \* bound: orders given, after which the reader starts nothing new
  Openings         \* the editors, connections and faults a behaviour may have

ASSUME ProtocolAssumption ==
  /\ MaxConnections \in Nat \ {0}
  /\ MaxFaults \in Nat
  /\ MaxOrders \in Nat \ {0}
  /\ Openings \subseteq [editors : SUBSET Tokens, connections : 1..MaxConnections,
                         faults : 0..MaxFaults]

VARIABLES
  editor,    \* per token: its phase, whether it has asked to be finalized
  lane,      \* the operation in the lane, how far it is, and its request
  orders,    \* per token: the orders its requests were given (0: none yet)
  nextOrder,
  pending,   \* releases that failed and are tried again: token and order
  late,      \* requests given up by the view and still on their way
  att,       \* the connection the view knows (0: none)
  closing,   \* lost connections whose end the service has not noticed
  made,      \* number of connections made
  faults

clientVarsButLane == <<editor, orders, nextOrder, pending>>
clientVars == <<clientVarsButLane, lane>>
linkVars == <<late, att, closing, made>>
vars == <<serviceVars, clientVars, linkVars, faults>>

Kinds == {"begin", "finalize", "release", "acknowledge"}
NoOrders == [k \in Kinds |-> 0]
IdleLane == [op |-> "idle", token |-> "none", step |-> "idle", req |-> NoRequest,
             reply |-> "none"]

(* An editor's phases: new, opening, open; settled (its receipt is known), *)
(* done (and acknowledged); leaving (to be released), closed (released, or *)
(* the release is retained), and dropped (it left without either).         *)
Phases == {"new", "opening", "open", "settled", "done", "leaving", "closed", "dropped"}

Init ==
  /\ ServiceInit
  /\ \E opening \in Openings :
       /\ editor = [t \in Tokens |-> [phase |-> IF t \in opening.editors THEN "new" ELSE "closed",
                                     gen |-> 0, asked |-> FALSE]]
       /\ made = MaxConnections - opening.connections
       /\ faults = MaxFaults - opening.faults
  /\ lane = IdleLane
  /\ orders = [t \in Tokens |-> NoOrders]
  /\ nextOrder = 1
  /\ pending = {}
  /\ late = {}
  /\ att = 0
  /\ closing = {}

Fault == faults < MaxFaults /\ faults' = faults + 1

-----------------------------------------------------------------------------
(* An operation takes the lane. First it drains what is pending.           *)
Take(op, t) ==
  /\ lane = IdleLane
  /\ lane' = [IdleLane EXCEPT !.op = op, !.token = t, !.step = "drain"]
  /\ UNCHANGED <<serviceVars, orders, nextOrder, pending, linkVars, faults>>

Enter(t, phase) == editor' = [editor EXCEPT ![t].phase = phase]

MayAsk == nextOrder <= MaxOrders

(* beginReviewInteraction(), at the generation the view shows.             *)
StartBegin(t) ==
  /\ editor[t].phase = "new" /\ MayAsk
  /\ editor' = [editor EXCEPT ![t].phase = "opening", ![t].gen = doc.gen]
  /\ Take("begin", t)

(* The handle's reacquire(): after every new bootstrap of the view         *)
(* (reacquire), and before a completion (recheck).                         *)
StartReacquire(t) ==
  /\ editor[t].phase = "open" /\ MayAsk
  /\ \E op \in {"reacquire", "recheck"} : Take(op, t)
  /\ UNCHANGED editor

(* The handle's finalize(), first or again.                                *)
StartFinalize(t) ==
  /\ editor[t].phase = "open"
  /\ editor' = [editor EXCEPT ![t].asked = TRUE]
  /\ Take("finalize", t)

StartRelease(t) == editor[t].phase = "leaving" /\ Take("release", t) /\ UNCHANGED editor
StartAcknowledge(t) == editor[t].phase = "settled" /\ Take("acknowledge", t) /\ UNCHANGED editor

(* The timer of the pending releases.                                      *)
StartDrain == pending # {} /\ Take("drain", "none") /\ UNCHANGED editor

(* The handle's release() does nothing once completion was asked for.      *)
Quit(t) == IF editor[t].asked THEN "dropped" ELSE "leaving"

(* The reader closes an editor, or the document is no longer the one it    *)
(* was opened on. Only the latter ends an editor that asked for completion.*)
Leave(t) ==
  /\ editor[t].phase = "open" /\ lane.token # t
  /\ editor[t].asked => editor[t].gen # doc.gen
  /\ Enter(t, Quit(t))
  /\ UNCHANGED <<serviceVars, lane, orders, nextOrder, pending, linkVars, faults>>

-----------------------------------------------------------------------------
(* Requests. The order of a request is given once per token and kind.      *)
KindOf(op) == IF op \in {"reacquire", "recheck"} THEN "begin" ELSE op
Ordered(t, kind) == IF orders[t][kind] = 0 THEN nextOrder ELSE orders[t][kind]
Allocate(t, kind) ==
  /\ orders' = [orders EXCEPT ![t][kind] = Ordered(t, kind)]
  /\ nextOrder' = IF orders[t][kind] = 0 THEN nextOrder + 1 ELSE nextOrder
Request(kind, t, order) ==
  [kind |-> kind, token |-> t, order |-> order, inc |-> att,
   gen |-> IF kind = "begin" THEN editor[t].gen ELSE 0]

Unsent == lane.req = NoRequest /\ att # 0
SendAs(step, m) == lane' = [lane EXCEPT !.step = step, !.req = m]

SendPending ==
  /\ lane.step = "drain" /\ Unsent
  /\ \E p \in pending : SendAs("drain", Request("release", p.token, p.order))
  /\ UNCHANGED <<serviceVars, editor, orders, nextOrder, pending, linkVars, faults>>

SendOwn ==
  /\ lane.step = "drain" /\ Unsent
  /\ pending = {} /\ lane.op # "drain"
  /\ Allocate(lane.token, KindOf(lane.op))
  /\ SendAs(IF KindOf(lane.op) = "begin" /\ orders[lane.token]["begin"] = 0
            THEN "first" ELSE "own",
            Request(KindOf(lane.op), lane.token, Ordered(lane.token, KindOf(lane.op))))
  /\ UNCHANGED <<serviceVars, editor, pending, linkVars, faults>>

(* The release of a failed begin, and the second attempt of a release.     *)
SendRelease ==
  /\ lane.step \in {"abandon", "again"} /\ Unsent
  /\ Allocate(lane.token, "release")
  /\ SendAs(lane.step, Request("release", lane.token, Ordered(lane.token, "release")))
  /\ UNCHANGED <<serviceVars, editor, pending, linkVars, faults>>

DrainEnds ==
  /\ lane.op = "drain" /\ lane.req = NoRequest /\ pending = {}
  /\ lane' = IdleLane
  /\ UNCHANGED <<serviceVars, editor, orders, nextOrder, pending, linkVars, faults>>

-----------------------------------------------------------------------------
(* Answers. A status that ends a token forgets its orders.                 *)
Ended == {"released", "missing"}
Forget(t) == orders' = [orders EXCEPT ![t] = NoOrders]
Finish == lane' = IdleLane
Continue(step) == lane' = [lane EXCEPT !.step = step, !.req = NoRequest, !.reply = "none"]
Waiting == {"none", "serving"}
Answered(step) == lane.step = step /\ lane.reply \notin Waiting \cup {"failed"}
Failed(step) == lane.step = step /\ lane.reply = "failed"
Local == UNCHANGED <<serviceVars, nextOrder, linkVars, faults>>

(* A failed operation: an editor that could not open is gone; one that     *)
(* could not be reacquired is given up; a release is over, sent or not.    *)
OperationFails ==
  /\ CASE lane.op = "begin" -> Enter(lane.token, "closed")
       [] lane.op = "reacquire" -> Enter(lane.token, Quit(lane.token))
       [] lane.op = "release" -> Enter(lane.token, "dropped")
       [] OTHER -> UNCHANGED editor
  /\ Finish

Drained ==
  /\ Answered("drain") /\ lane.reply \in Ended
  /\ pending' = {p \in pending : p.token # lane.req.token}
  /\ Forget(lane.req.token)
  /\ Continue("drain")
  /\ UNCHANGED editor /\ Local

NotDrained ==
  /\ lane.step = "drain" /\ lane.reply \notin Ended \cup Waiting
  /\ OperationFails
  /\ UNCHANGED <<orders, pending>> /\ Local

BeginAnswered ==
  LET t == lane.token IN
  /\ Answered("first") \/ (Answered("own") /\ KindOf(lane.op) = "begin")
  /\ CASE lane.reply = "accepted" ->
            /\ Enter(t, "open")
            /\ Finish
            /\ UNCHANGED orders
       [] lane.reply = "finalized" /\ lane.op # "begin" ->
            Enter(t, "settled") /\ Finish /\ Forget(t)
       [] OTHER -> OperationFails /\ Forget(t)
  /\ UNCHANGED pending /\ Local

OwnAnswered ==
  LET t == lane.token IN
  /\ Answered("own") /\ KindOf(lane.op) # "begin"
  /\ CASE lane.op = "finalize" /\ lane.reply = "finalized" ->
            Enter(t, "settled") /\ UNCHANGED orders
       [] lane.op = "acknowledge" /\ lane.reply \in Ended -> Enter(t, "done") /\ Forget(t)
       [] lane.op = "release" -> Enter(t, "closed") /\ Forget(t)
       [] OTHER -> UNCHANGED <<editor, orders>>
  /\ Finish
  /\ UNCHANGED pending /\ Local

(* Mutant of Retained: the release of a failed begin is not tried again.   *)
NotRetained(t) == pending
Retained(t) == pending \cup {[token |-> t, order |-> orders[t]["release"]]}

(* A release is answered, or fails a first or a second time; the one of a  *)
(* failed begin is retained, too, when it is answered otherwise.           *)
ReleaseEnds ==
  LET t == lane.token IN
  /\ Answered("abandon") \/ Answered("again") \/ Failed("again")
  /\ IF lane.reply \in Ended \/ (lane.op = "release" /\ lane.reply # "failed")
     THEN Forget(t) /\ UNCHANGED pending
     ELSE pending' = Retained(t) /\ UNCHANGED orders
  /\ IF lane.op = "release" THEN Enter(t, "closed") /\ Finish ELSE OperationFails
  /\ Local

(* A request fails: the first begin is followed by a release, a release is *)
(* tried again, and nothing else is.                                       *)
OwnFails ==
  /\ Failed("first") \/ Failed("abandon") \/ Failed("own")
  /\ CASE lane.step = "first" -> Continue("abandon") /\ UNCHANGED editor
       [] lane.step = "abandon" \/ lane.op = "release" -> Continue("again") /\ UNCHANGED editor
       [] OTHER -> OperationFails
  /\ UNCHANGED <<orders, pending>> /\ Local

Receive == Drained \/ NotDrained \/ BeginAnswered \/ OwnAnswered \/ ReleaseEnds \/ OwnFails

-----------------------------------------------------------------------------
(* The service takes a request that arrives, one after the other; nobody   *)
(* waits for the answer to a late one.                                     *)
Sent == IF lane.reply = "none" THEN {lane.req} \ {NoRequest} ELSE {}
Reply(answer) ==
  /\ lane' = [lane EXCEPT !.reply = IF answer = "commit" THEN "serving" ELSE answer]
  /\ UNCHANGED late

ServeBegin(m) == m.kind = "begin" /\ Begin(m)
ServeRelease(m) == m.kind = "release" /\ Release(m)
ServeFinalize(m) == m.kind = "finalize" /\ Finalize(m)
ServeAcknowledge(m) == m.kind = "acknowledge" /\ Acknowledge(m)
Serve(m) ==
  /\ TailFree
  /\ ServeBegin(m) \/ ServeRelease(m) \/ ServeFinalize(m) \/ ServeAcknowledge(m)
  /\ UNCHANGED <<clientVarsButLane, att, closing, made, faults>>

Answer(m) ==
  CASE m.kind = "begin" -> BeginAnswer(m)
    [] m.kind = "release" -> ReleaseAnswer(m)
    [] m.kind = "finalize" -> FinalizeAnswer(m)
    [] m.kind = "acknowledge" -> AcknowledgeAnswer(m)

ServeSent == \E m \in Sent : Serve(m) /\ Reply(Answer(m))
ServeLate == \E m \in late : Serve(m) /\ late' = late \ {m} /\ UNCHANGED lane
Service == ServeSent \/ ServeLate

CommitReply(answer) ==
  /\ lane' = IF lane.reply = "serving" THEN [lane EXCEPT !.reply = answer] ELSE lane
  /\ UNCHANGED <<clientVarsButLane, linkVars>>

CommitEnds ==
  /\ Committed
  /\ CommitReply(IF tail.kind = "finalize" THEN "finalized" ELSE "released")
  /\ UNCHANGED faults
CommitFails == Fault /\ (NotCommitted \/ Uncertain) /\ CommitReply("failed")
BarrierSettles == Settle /\ UNCHANGED <<clientVars, linkVars, faults>>

(* A request meets a barrier that cannot be settled yet.                   *)
Refused ==
  /\ Fault
  /\ barrier # NoRequest
  /\ Sent # {} /\ Reply("failed")
  /\ UNCHANGED <<serviceVars, clientVarsButLane, att, closing, made>>

RefusedLate ==
  /\ barrier # NoRequest
  /\ \E m \in late : late' = late \ {m}
  /\ UNCHANGED <<serviceVars, clientVars, att, closing, made, faults>>

(* A request fails at the view: it never arrives, or is on its way, or its *)
(* answer is lost.                                                         *)
RequestFails ==
  /\ Fault
  /\ lane.req # NoRequest /\ lane.reply # "failed"
  /\ lane' = [lane EXCEPT !.reply = "failed"]
  /\ late' \in {late, late \cup Sent}
  /\ UNCHANGED <<serviceVars, clientVarsButLane, att, closing, made>>

-----------------------------------------------------------------------------
(* Connections. What was sent on the lost one may still arrive.            *)
Connect ==
  /\ att = 0 /\ made < MaxConnections
  /\ Register(made + 1)
  /\ made' = made + 1
  /\ att' = made + 1
  /\ UNCHANGED <<clientVars, late, closing, faults>>

Lose ==
  /\ att # 0 /\ made < MaxConnections
  /\ closing' = closing \cup {att}
  /\ att' = 0
  /\ UNCHANGED <<serviceVars, clientVars, late, made, faults>>

Notice(inc) ==
  /\ closing' = closing \ {inc}
  /\ Disconnect(inc)
  /\ UNCHANGED <<clientVars, late, att, made, faults>>

Crash ==
  /\ Fault
  /\ made < MaxConnections
  /\ ServiceDies
  /\ att' = 0 /\ closing' = {} /\ late' = {}
  /\ lane' = IF lane.req # NoRequest /\ lane.reply \in Waiting
             THEN [lane EXCEPT !.reply = "failed"] ELSE lane
  /\ UNCHANGED <<editor, orders, nextOrder, pending, made>>

NewGeneration == Replace /\ UNCHANGED <<clientVars, linkVars, faults>>

-----------------------------------------------------------------------------
Editors ==
  \E t \in Tokens :
    \/ StartBegin(t) \/ StartReacquire(t) \/ StartFinalize(t)
    \/ StartRelease(t) \/ StartAcknowledge(t) \/ Leave(t)
Lane == StartDrain \/ SendPending \/ SendOwn \/ SendRelease \/ DrainEnds \/ Receive
Commits == CommitEnds \/ CommitFails \/ BarrierSettles
Link == Connect \/ Lose \/ (\E inc \in closing : Notice(inc)) \/ Crash

(* The view is at rest when every editor is gone, or may start nothing new *)
(* (the bound), and nothing is pending; anywhere else it can go on.        *)
Rest ==
  /\ \A t \in Tokens : \/ editor[t].phase \in {"done", "closed", "dropped"}
                        \/ (editor[t].phase \in {"new", "open"} /\ ~MayAsk)
  /\ lane = IdleLane /\ pending = {}
  /\ UNCHANGED vars

Next == Editors \/ Lane \/ Service \/ Commits \/ Refused \/ RefusedLate \/ RequestFails
        \/ Link \/ NewGeneration \/ Rest

(* Requests are sent and served, commits end, and storage can be read in   *)
(* the end; a lost connection is made again. The lane goes round: who has a*)
(* release or an acknowledgement to send gets it, and so does the timer.   *)
Fairness ==
  /\ WF_vars(SendPending \/ SendOwn \/ SendRelease \/ DrainEnds \/ Receive)
  /\ WF_vars(Service)
  /\ WF_vars(CommitEnds)
  /\ WF_vars(BarrierSettles)
  /\ WF_vars(Connect)
  /\ SF_vars(StartDrain)
  /\ \A t \in Tokens : SF_vars(StartRelease(t)) /\ SF_vars(StartAcknowledge(t))

Spec == Init /\ [][Next]_vars
FairSpec == Spec /\ Fairness

-----------------------------------------------------------------------------
Requests == [kind : Kinds, token : Tokens, order : Nat \ {0}, inc : 1..MaxConnections,
             gen : 0..MaxGeneration]

(* Every variable has its type, orders are given once, and no more than    *)
(* MaxReceipts receipts are kept.                                          *)
TypeOK ==
  /\ record.inc \in 0..MaxConnections
  /\ \A t \in Tokens : record.holds[t].gen \in {0, doc.gen}
  /\ Cardinality(doc.receipts) <= MaxReceipts /\ doc.receipts \subseteq Tokens
  /\ tail \in Requests \cup {NoRequest} /\ barrier \in Requests \cup {NoRequest}
  /\ \A t \in Tokens : editor[t].phase \in Phases
  /\ lane.req \in Requests \cup {NoRequest} /\ late \subseteq Requests
  /\ \A t \in Tokens, k \in Kinds : orders[t][k] < nextOrder
  /\ pending \subseteq [token : Tokens, order : 1..nextOrder]
  /\ att \in 0..made /\ closing \subseteq 1..made
  /\ faults \in 0..MaxFaults

(* A closed editor holds nothing back, on this connection or an earlier    *)
(* one, unless its release is still tried: no request that was overtaken   *)
(* or came late brings back a hold that was given up. (After a completion  *)
(* that was asked for on an earlier connection a late begin does:          *)
(* acknowledge() leaves no fence behind.)                                  *)
Retrying(t) == \E p \in pending : p.token = t
HoldsAreOwned ==
  \A t \in Tokens :
    editor[t].phase = "closed" => ~Holds(t) \/ Retrying(t)

(* "Durable finalize receipts": an editor that was told that its draft is  *)
(* finished finds it finished on disk, and one that was not can still ask: *)
(* the receipt is on disk until the editor knows it, through lost answers, *)
(* lost connections, commits of unknown outcome and crashes.               *)
ReceiptsAnswer ==
  \A t \in Tokens :
    /\ editor[t].phase \in {"settled", "done"} => t \in disk.finished
    /\ (t \in disk.finished /\ editor[t].phase \notin {"settled", "done"}) =>
         t \in disk.receipts

(* A document generation is never held back for ever by an editor that was *)
(* closed, whatever happened to its requests.                              *)
HoldsEnd == \A t \in Tokens : (Holds(t) /\ editor[t].phase = "closed") ~> ~Holds(t)

(* A receipt that an editor knows is acknowledged in the end, so that the  *)
(* receipts do not fill up.                                                *)
ReceiptsEnd == \A t \in Tokens : (editor[t].phase = "settled") ~> (editor[t].phase = "done")
=============================================================================
