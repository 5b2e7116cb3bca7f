------------------------ MODULE InteractionHoldsProofs ------------------------
(***************************************************************************)
(* Proofs of TypeOK and HoldsAreOwned for any number of editors, receipts, *)
(* document generations, connections and faults: no late, overtaken or     *)
(* repeated request brings back a hold that its editor gave up.            *)
(***************************************************************************)
EXTENDS InteractionProofs, FiniteSetTheorems

(* The requests that the service may still take, and the begins of an      *)
(* editor among them.                                                      *)
Flying == late \cup Sent
Begins(t) == {m \in Flying : m.kind = "begin" /\ m.token = t}

(* An editor holds nothing, and none of its begins can change that: each is*)
(* of another connection, or behind the orders this one has fenced.        *)
Secure(t) ==
  /\ ~Holds(t)
  /\ \A m \in Begins(t) : m.inc # record.inc \/ m.order <= record.lastOrder

Records == [inc : Nat, holds : [Tokens -> [gen : Nat, order : Nat]],
            fences : [Tokens -> Nat], lastOrder : Nat]

Links ==
  /\ record \in Records
  /\ record.inc \in {0, made} /\ att \in {0, made}
  /\ record.inc = 0 => \A t \in Tokens : ~Holds(t)
  /\ made <= MaxConnections /\ faults \in 0..MaxFaults /\ closing \subseteq 1..made
  /\ \A m \in InFlight : m.inc \in 1..made /\ m.order # 0 /\ m.gen <= MaxGeneration

(* Generations, and the room for receipts that a finalize was given.       *)
Counts ==
  /\ doc.gen \in 1..MaxGeneration /\ disk.gen = doc.gen
  /\ \A t \in Tokens : editor[t].gen <= MaxGeneration
  /\ \A t \in Tokens : record.holds[t].gen \in {0, doc.gen}
  /\ IsFiniteSet(doc.receipts) /\ IsFiniteSet(disk.receipts)
  /\ Cardinality(doc.receipts) <= MaxReceipts
  /\ Cardinality(disk.receipts) <= MaxReceipts
  /\ tail.kind = "finalize" => Cardinality(doc.receipts) < MaxReceipts

(* Only an editor that asked for its completion can have a receipt.        *)
Unfinished ==
  /\ \A t \in Tokens :
       editor[t].phase \in {"new", "opening", "leaving", "closed"} => ~editor[t].asked
  /\ \A t \in Tokens : ~editor[t].asked =>
       /\ t \notin doc.finished \cup disk.finished
       /\ \A m \in InFlight : ~(m.kind = "finalize" /\ m.token = t)
  /\ lane.op = "finalize" => editor[lane.token].asked

(* Orders are given once and grow: a release has a later one than every    *)
(* begin of its editor, and what is tried again is the release it gave.    *)
Orders ==
  /\ nextOrder > 0
  /\ \A t \in Tokens, k \in Kinds : orders[t][k] < nextOrder
  /\ \A t \in Tokens :
       /\ record.holds[t].order < nextOrder
       /\ \A m \in Begins(t) : m.order < nextOrder
       /\ orders[t]["release"] # 0 =>
            /\ record.holds[t].order < orders[t]["release"]
            /\ \A m \in Begins(t) : m.order < orders[t]["release"]
  /\ \A p \in pending : p.order = orders[p.token]["release"] /\ p.order # 0
  /\ lane.step \notin {"idle", "drain"} => pending = {}

(* An editor that opens has the lane, and sent nothing before; one that is *)
(* open sends a begin only when its release is over.                       *)
Untouched(t) == Begins(t) = {} /\ ~Holds(t) /\ orders[t] = NoOrders
Openers ==
  /\ \A t \in Tokens :
       /\ editor[t].phase = "opening" => lane.op = "begin" /\ lane.token = t
       /\ editor[t].phase = "new" => Untouched(t)
       /\ editor[t].phase = "opening" /\ lane.step = "drain" => Untouched(t)
       /\ editor[t].phase = "open" =>
            \/ orders[t]["release"] = 0 \/ Retrying(t)
            \/ lane.token = t /\ lane.step \in {"abandon", "again"}
  /\ lane.step = "first" => orders[lane.token]["release"] = 0
  /\ lane.op = "begin" => lane.step # "own"

(* What the answers say: of a begin, of a pending release, and of the      *)
(* release of the editor that has the lane.                                *)
Opening ==
  lane.op = "begin" /\ lane.step = "first" =>
    /\ lane.req # NoRequest
    /\ lane.reply # "failed" =>
         \A m \in late : ~(m.kind = "begin" /\ m.token = lane.token)
    /\ lane.reply \notin {"accepted", "failed"} => ~Holds(lane.token)
Draining ==
  lane.step = "drain" /\ lane.req # NoRequest =>
    /\ [token |-> lane.req.token, order |-> lane.req.order] \in pending
    /\ lane.reply \in Ended => Secure(lane.req.token)
Releasing == lane.step \in {"abandon", "again"} \/ (lane.step = "own" /\ lane.op = "release")
Released ==
  Releasing /\ lane.req # NoRequest =>
    /\ lane.req.token = lane.token
    /\ lane.req.order = orders[lane.token]["release"]
    /\ \A m \in Begins(lane.token) : m.inc <= lane.req.inc
    /\ Holds(lane.token) => record.inc <= lane.req.inc
    /\ lane.op \in {"begin", "release"} /\ lane.reply \notin {"none", "failed"} =>
         Secure(lane.token)

Closed == \A t \in Tokens : editor[t].phase = "closed" => Secure(t) \/ Retrying(t)

HInv ==
  /\ IInv
  /\ Links /\ Counts /\ Unfinished /\ Orders /\ Openers
  /\ Opening /\ Draining /\ Released /\ Closed

LEMMA InitHInv == Init => HInv
<1> SUFFICES ASSUME Init PROVE HInv
  OBVIOUS
<1> USE DEF Init, ServiceInit, IdleLane, NoRequest, NoOrders, Attachment, NoHold
<1>1. PICK o \in Openings :
        /\ editor = [t \in Tokens |-> [phase |-> IF t \in o.editors THEN "new" ELSE "closed",
                                      gen |-> 0, asked |-> FALSE]]
        /\ made = MaxConnections - o.connections
        /\ faults = MaxFaults - o.faults
  OBVIOUS
<1>2. /\ o.connections \in 1..MaxConnections /\ o.faults \in 0..MaxFaults
      /\ MaxConnections \in Nat /\ MaxFaults \in Nat
  BY ProtocolAssumption
<1>3. InFlight = {} /\ Flying = {}
  BY DEF InFlight, Flying, Sent
<1>4. Links
  BY <1>1, <1>2, <1>3 DEF Links, Records, Holds
<1>5. Counts
  <2>1. IsFiniteSet({}) /\ Cardinality({}) = 0
    BY FS_EmptySet
  <2>. QED
    BY <1>1, <2>1, InteractionsAssumption DEF Counts
<1>6. Unfinished /\ Orders /\ Openers
  BY <1>1, <1>3 DEF Unfinished, Orders, Openers, Untouched, Begins, Holds, Kinds
<1>7. Opening /\ Draining /\ Released /\ Closed
  BY <1>1, <1>3 DEF Opening, Draining, Released, Releasing, Closed, Secure, Begins, Holds
<1>. QED
  BY <1>4, <1>5, <1>6, <1>7, InitIInv DEF HInv

-----------------------------------------------------------------------------
(* What the steps of the service and of the network do to the attachment:  *)
(* it is another one, with no holds, or the same with later orders, whose  *)
(* holds go, or come from a begin that is taken.                           *)
Gains(t, m) ==
  /\ m.inc = record.inc /\ record.inc # 0 /\ m.order > record.lastOrder
  /\ m.gen = doc.gen
  /\ record'.holds[t] = [gen |-> m.gen, order |-> m.order]
  /\ m \in late \/ lane'.reply = "accepted"
Anew ==
  /\ record'.inc = 0 \/ (record'.inc = made' /\ made' = made + 1)
  /\ \A t \in Tokens : record'.holds[t] = NoHold
Goes ==
  /\ record'.inc = record.inc /\ record'.lastOrder >= record.lastOrder
  /\ \A t \in Tokens :
       \/ record'.holds[t] \in {record.holds[t], NoHold}
       \/ \E m \in Begins(t) : Gains(t, m)

(* The answers of the service to a request, as far as they tell what the   *)
(* attachment is after it.                                                 *)
LEMMA ServedBegin ==
  ASSUME record \in Records, NEW m \in Messages, m.kind = "begin", Begin(m)
  PROVE  /\ record' \in Records
         /\ record'.inc = record.inc /\ record'.lastOrder >= record.lastOrder
         /\ \A t \in Tokens :
              \/ record'.holds[t] = record.holds[t]
              \/ /\ t = m.token /\ m.inc = record.inc /\ record.inc # 0
                 /\ m.order > record.lastOrder /\ m.gen = doc.gen
                 /\ record'.holds[t] = [gen |-> m.gen, order |-> m.order]
                 /\ BeginAnswer(m) = "accepted"
         /\ BeginAnswer(m) # "accepted" => record'.holds = record.holds
<1>1. m.token \in Tokens /\ m.order \in Nat /\ m.gen \in Nat /\ m.inc \in Nat
  BY DEF Messages
<1>2. CASE BeginAnswer(m) \in {"unauthorized", "finalized", "stale"} \/ Holds(m.token)
           \/ m.order <= record.fences[m.token]
  BY <1>2 DEF Begin, Records
<1>3. CASE /\ ~(BeginAnswer(m) \in {"unauthorized", "finalized", "stale"} \/ Holds(m.token)
                \/ m.order <= record.fences[m.token])
           /\ m.order <= record.lastOrder
  <2>1. record' = [record EXCEPT !.fences[m.token] = 0]
    BY <1>3 DEF Begin
  <2>. QED
    BY <1>1, <2>1 DEF Records
<1>4. CASE /\ ~(BeginAnswer(m) \in {"unauthorized", "finalized", "stale"} \/ Holds(m.token)
                \/ m.order <= record.fences[m.token])
           /\ ~(m.order <= record.lastOrder)
  <2>1. record' = [record EXCEPT !.fences[m.token] = 0, !.lastOrder = m.order,
                                 !.holds[m.token] = [gen |-> m.gen, order |-> m.order]]
    BY <1>4 DEF Begin
  <2>2. Authentic(m) /\ m.gen = doc.gen /\ BeginAnswer(m) = "accepted"
    BY <1>4 DEF BeginAnswer
  <2>3. /\ record' \in Records /\ record'.inc = record.inc /\ record'.lastOrder = m.order
        /\ record'.holds = [record.holds EXCEPT ![m.token] = [gen |-> m.gen, order |-> m.order]]
    BY <1>1, <2>1 DEF Records
  <2>. QED
    BY <1>1, <1>4, <2>2, <2>3 DEF Records, Authentic
<1>. QED
  BY <1>2, <1>3, <1>4

LEMMA ServedRelease ==
  ASSUME record \in Records, NEW m \in Messages, m.kind = "release", Release(m)
  PROVE  /\ record' \in Records
         /\ record'.inc = record.inc /\ record'.lastOrder >= record.lastOrder
         /\ \A t \in Tokens : record'.holds[t] \in {record.holds[t], NoHold}
         /\ ReleaseAnswer(m) \in Ended =>
              /\ record'.holds[m.token] = NoHold
              /\ m.inc = record.inc /\ record'.lastOrder >= m.order
<1>1. m.token \in Tokens /\ m.order \in Nat
  BY DEF Messages
<1>2. /\ Fenced(m.token, m.order) \in Records
      /\ Fenced(m.token, m.order).inc = record.inc
      /\ Fenced(m.token, m.order).lastOrder = Larger(record.lastOrder, m.order)
      /\ Fenced(m.token, m.order).holds = record.holds
  BY <1>1 DEF Fenced, Larger, Records
<1>3. Larger(record.lastOrder, m.order) >= record.lastOrder
      /\ Larger(record.lastOrder, m.order) >= m.order
  BY <1>1 DEF Larger, Records
<1>4. CASE ReleaseAnswer(m) = "missing"
  <2>1. record' = Fenced(m.token, m.order)
    BY <1>4 DEF Release
  <2>2. Authentic(m) /\ ~Holds(m.token)
    BY <1>4 DEF ReleaseAnswer
  <2>. QED
    BY <1>1, <1>2, <1>3, <2>1, <2>2 DEF Authentic, Holds
<1>5. CASE ReleaseAnswer(m) = "released"
  <2>1. record' = [Fenced(m.token, m.order) EXCEPT !.holds[m.token] = NoHold]
    BY <1>5 DEF Release
  <2>2. Authentic(m)
    BY <1>5 DEF ReleaseAnswer
  <2> DEFINE f == Fenced(m.token, m.order)
  <2>3. /\ f \in Records /\ record' = [f EXCEPT !.holds[m.token] = NoHold]
        /\ NoHold \in [gen : Nat, order : Nat]
    BY <1>2, <2>1 DEF NoHold
  <2>4. /\ record' \in Records /\ record'.inc = f.inc /\ record'.lastOrder = f.lastOrder
        /\ record'.holds = [f.holds EXCEPT ![m.token] = NoHold]
    <3> HIDE DEF f
    <3>. QED
      BY <1>1, <2>3 DEF Records
  <2>. QED
    BY <1>1, <1>2, <1>3, <2>2, <2>4 DEF Authentic, Records
<1>6. CASE ReleaseAnswer(m) \notin Ended
  <2>1. record' = record
    BY <1>6 DEF Release, Ended
  <2>. QED
    BY <1>6, <2>1 DEF Records
<1>. QED
  BY <1>4, <1>5, <1>6 DEF Ended

LEMMA ServeCases ==
  ASSUME NEW m \in Messages, Serve(m)
  PROVE  \/ m.kind = "begin" /\ Begin(m) /\ Answer(m) = BeginAnswer(m)
         \/ m.kind = "release" /\ Release(m) /\ Answer(m) = ReleaseAnswer(m)
         \/ m.kind \in {"finalize", "acknowledge"} /\ UNCHANGED record
<1>1. CASE ServeBegin(m)
  BY <1>1 DEF ServeBegin, Answer
<1>2. CASE ServeRelease(m)
  BY <1>2 DEF ServeRelease, Answer
<1>3. CASE ServeFinalize(m) \/ ServeAcknowledge(m)
  BY <1>3 DEF ServeFinalize, ServeAcknowledge, Finalize, Acknowledge
<1>. QED
  BY <1>1, <1>2, <1>3 DEF Serve

LEMMA ConsumedKeeps ==
  ASSUME record \in Records, NEW m \in Messages, record' = Consumed(m)
  PROVE  /\ record' \in Records
         /\ record'.inc = record.inc /\ record'.lastOrder >= record.lastOrder
         /\ \A t \in Tokens : record'.holds[t] \in {record.holds[t], NoHold}
<1> DEFINE hold == IF m.kind = "finalize" THEN NoHold ELSE record.holds[m.token]
           last == IF m.kind = "finalize" /\ Authentic(m)
                   THEN Larger(record.lastOrder, m.order) ELSE record.lastOrder
<1>1. /\ m.token \in Tokens /\ hold \in [gen : Nat, order : Nat]
      /\ hold \in {record.holds[m.token], NoHold}
      /\ last \in Nat /\ last >= record.lastOrder
  BY DEF Records, Messages, NoHold, Larger
<1>2. record' = [record EXCEPT !.holds[m.token] = hold, !.lastOrder = last]
  BY DEF Consumed
<1> HIDE DEF hold, last
<1>3. record' = [record EXCEPT !.holds = [record.holds EXCEPT ![m.token] = hold],
                               !.lastOrder = last]
  BY <1>2 DEF Records
<1>4. [record.holds EXCEPT ![m.token] = hold] \in [Tokens -> [gen : Nat, order : Nat]]
  BY <1>1 DEF Records
<1>5. record' \in Records /\ record'.inc = record.inc /\ record'.lastOrder = last
  BY <1>1, <1>3, <1>4 DEF Records
<1>6. record'.holds = [record.holds EXCEPT ![m.token] = hold]
  BY <1>3 DEF Records
<1>. QED
  BY <1>1, <1>5, <1>6 DEF Records

LEMMA SettledKeeps ==
  ASSUME record \in Records, barrier \in Messages, record' = Settled
  PROVE  /\ record' \in Records
         /\ record'.inc = record.inc /\ record'.lastOrder >= record.lastOrder
         /\ \A t \in Tokens : record'.holds[t] \in {record.holds[t], NoHold}
BY DEF Settled, Records, Messages, NoHold

LEMMA AttachmentTyped ==
  ASSUME NEW inc \in Nat
  PROVE  /\ Attachment(inc) \in Records /\ Attachment(inc).inc = inc
         /\ \A t \in Tokens : Attachment(inc).holds[t] = NoHold
BY DEF Attachment, Records, NoHold

-----------------------------------------------------------------------------
(* The service and the network leave the view's side as it is, but for the *)
(* answer to the request in the lane, and invent no requests.              *)
Framed ==
  /\ UNCHANGED clientVarsButLane
  /\ lane'.op = lane.op /\ lane'.token = lane.token
  /\ lane'.step = lane.step /\ lane'.req = lane.req
  /\ lane' = lane \/ lane'.reply # "none"
  /\ late' \subseteq late \cup Sent
  /\ {tail', barrier'} \subseteq {tail, barrier, NoRequest} \cup Flying
LEMMA OthersFramed == Typed /\ Others => Framed
<1> SUFFICES ASSUME Typed, Others PROVE Framed
  OBVIOUS
<1> USE DEF Typed, Framed, Flying, clientVars, clientVarsButLane, linkVars, serviceVars
<1>1. CASE ServeSent
  <2>1. PICK m \in Sent : Serve(m) /\ Reply(Answer(m))
    BY <1>1 DEF ServeSent
  <2>2. m \in Messages
    BY <2>1 DEF Sent
  <2>. QED
    BY <2>1, <2>2, Serves, AnswerTyped DEF Reply, Answers, Replies
<1>2. CASE ServeLate
  <2>1. PICK m \in late : Serve(m) /\ late' = late \ {m} /\ UNCHANGED lane
    BY <1>2 DEF ServeLate
  <2>. QED
    BY <2>1, Serves
<1>3. CASE CommitEnds \/ CommitFails
  BY <1>3 DEF CommitEnds, CommitFails, CommitReply, Committed, NotCommitted, Uncertain
<1>4. CASE BarrierSettles
  BY <1>4 DEF BarrierSettles, Settle
<1>5. CASE Refused \/ RefusedLate \/ RequestFails
  BY <1>5 DEF Refused, RefusedLate, RequestFails, Reply
<1>6. CASE Link
  BY <1>6 DEF Link, Connect, Lose, Notice, Crash, Register, Disconnect, ServiceDies
<1>7. CASE NewGeneration
  BY <1>7 DEF NewGeneration, Replace
<1>. QED
  BY <1>1, <1>2, <1>3, <1>4, <1>5, <1>6, <1>7 DEF Others, Service, Commits

LEMMA FramedRequests ==
  ASSUME Typed, Framed
  PROVE  /\ Flying' \subseteq Flying /\ InFlight' \subseteq InFlight
         /\ \A t \in Tokens : Begins(t)' \subseteq Begins(t)
         /\ \A t \in Tokens : Retrying(t)' = Retrying(t)
<1>1. Sent' \subseteq Sent
  BY DEF Framed, Sent
<1>2. Sent \subseteq {lane.req} \ {NoRequest}
  BY DEF Sent
<1>3. Flying' \subseteq Flying /\ Flying \subseteq late \cup {lane.req}
  BY <1>1, <1>2 DEF Flying, Framed
<1>4. NoRequest \notin Flying
  BY <1>2, NoRequestKind DEF Flying, Typed
<1>5. InFlight' \subseteq InFlight
  BY <1>2, <1>3, <1>4 DEF Framed, InFlight, Flying
<1>. QED
  BY <1>3, <1>5 DEF Begins, Retrying, Framed, clientVarsButLane

(* How the attachment changes.                                             *)
LEMMA OthersRecord ==
  ASSUME Typed, Links, MemoryAndDisk, Others
  PROVE  record' \in Records /\ (Anew \/ Goes)
<1> USE DEF Typed, Links
<1>1. ASSUME record' \in Records, record'.inc = record.inc, record'.lastOrder >= record.lastOrder,
             \A t \in Tokens : record'.holds[t] \in {record.holds[t], NoHold}
      PROVE  record' \in Records /\ (Anew \/ Goes)
  BY <1>1 DEF Goes
<1>2. UNCHANGED record => record' \in Records /\ (Anew \/ Goes)
  BY <1>1 DEF Records
<1>3. ASSUME NEW m \in Flying, m \in Messages, Serve(m),
             m \in late \/ Reply(Answer(m))
      PROVE  record' \in Records /\ (Anew \/ Goes)
  <2>1. CASE m.kind = "begin" /\ Begin(m) /\ Answer(m) = BeginAnswer(m)
    <3>1. Answer(m) = "accepted" => m \in late \/ lane'.reply = "accepted"
      BY <1>3 DEF Reply
    <3>2. ASSUME NEW t \in Tokens, record'.holds[t] # record.holds[t]
          PROVE  \E n \in Begins(t) : Gains(t, n)
      <4>1. /\ t = m.token /\ m.inc = record.inc /\ record.inc # 0
            /\ m.order > record.lastOrder /\ m.gen = doc.gen
            /\ record'.holds[t] = [gen |-> m.gen, order |-> m.order]
            /\ BeginAnswer(m) = "accepted"
        BY <1>3, <2>1, <3>2, ServedBegin
      <4>2. m \in Begins(t)
        BY <2>1, <4>1 DEF Begins
      <4>3. Gains(t, m)
        BY <2>1, <3>1, <4>1 DEF Gains
      <4>. QED
        BY <4>2, <4>3
    <3>. QED
      BY <1>3, <2>1, <3>2, ServedBegin DEF Goes
  <2>2. CASE m.kind = "release" /\ Release(m) /\ Answer(m) = ReleaseAnswer(m)
    BY <1>1, <1>3, <2>2, ServedRelease
  <2>3. CASE m.kind \in {"finalize", "acknowledge"} /\ UNCHANGED record
    BY <1>2, <2>3
  <2>. QED
    BY <1>3, <2>1, <2>2, <2>3, ServeCases
<1>4. CASE ServeSent
  <2>1. PICK m \in Sent : Serve(m) /\ Reply(Answer(m))
    BY <1>4 DEF ServeSent
  <2>2. m \in Messages
    BY <2>1 DEF Sent
  <2>. QED
    BY <1>3, <2>1, <2>2 DEF Flying
<1>5. CASE ServeLate
  <2>1. PICK m \in late : Serve(m) /\ late' = late \ {m} /\ UNCHANGED lane
    BY <1>5 DEF ServeLate
  <2>. QED
    BY <1>3, <2>1 DEF Flying
<1>6. CASE CommitEnds
  BY <1>1, <1>6, ConsumedKeeps DEF CommitEnds, Committed
<1>7. CASE BarrierSettles
  BY <1>1, <1>7, SettledKeeps DEF BarrierSettles, Settle
<1>8. CASE CommitFails \/ Refused \/ RefusedLate \/ RequestFails \/ NewGeneration
  BY <1>2, <1>8 DEF CommitFails, NotCommitted, Uncertain, Refused, RefusedLate, RequestFails,
     NewGeneration, Replace, serviceVars
<1>9. CASE Link
  <2>1. CASE Connect
    BY <2>1, AttachmentTyped DEF Connect, Register, Anew
  <2>2. CASE Lose
    BY <1>2, <2>2 DEF Lose, serviceVars
  <2>3. ASSUME NEW inc \in closing, Notice(inc) PROVE record' \in Records /\ (Anew \/ Goes)
    BY <1>2, <2>3, AttachmentTyped DEF Notice, Disconnect, Disconnected, Anew
  <2>4. CASE Crash
    BY <2>4, AttachmentTyped DEF Crash, ServiceDies, Anew
  <2>. QED
    BY <1>9, <2>1, <2>2, <2>3, <2>4 DEF Link
<1>. QED
  BY <1>4, <1>5, <1>6, <1>7, <1>8, <1>9 DEF Others, Service, Commits

LEMMA SecureStays ==
  ASSUME Typed, Links, Framed, record' \in Records, Anew \/ Goes, made' >= made,
         NEW t \in Tokens, Secure(t)
  PROVE  Secure(t)'
<1>1. \A m \in Begins(t) : m \in Messages /\ m.inc \in 1..made
  BY NoRequestKind DEF Begins, Flying, Sent, Typed, Links, InFlight
<1>2. Begins(t)' \subseteq Begins(t)
  BY FramedRequests
<1>3. CASE Anew
  BY <1>1, <1>2, <1>3 DEF Anew, Secure, Holds, Typed, Messages
<1>4. CASE Goes
  <2>1. \A m \in Begins(t) : ~Gains(t, m)
    BY <1>1 DEF Secure, Gains, Links, Records, Messages
  <2>. QED
    BY <1>1, <1>2, <1>4, <2>1 DEF Goes, Secure, Holds, Links, Records, Messages
<1>. QED
  BY <1>3, <1>4

LEMMA OthersLinks ==
  Typed /\ Links /\ MemoryAndDisk /\ Others => Links' /\ made' >= made
<1> SUFFICES ASSUME Typed, Links, MemoryAndDisk, Others PROVE Links' /\ made' >= made
  OBVIOUS
<1>1. record' \in Records /\ InFlight' \subseteq InFlight
  BY OthersRecord, OthersFramed, FramedRequests
<1>2. /\ made' = made \/ made' = made + 1
      /\ made' <= MaxConnections /\ att' \in {0, made'} /\ closing' \subseteq 1..made'
      /\ record'.inc \in {0, made'} /\ faults' \in 0..MaxFaults
  <2> USE ProtocolAssumption DEF Links, Typed, Fault, clientVars, clientVarsButLane, linkVars,
          serviceVars
  <2>1. record'.inc \in {0, record.inc, made'} /\ (record'.inc = record.inc \/ Anew)
    BY OthersRecord DEF Anew, Goes
  <2>2. CASE UNCHANGED <<made, att, closing>> /\ (UNCHANGED faults \/ Fault)
    BY <2>1, <2>2
  <2>3. CASE Connect
    <3>1. record' = Attachment(made + 1)
      BY <2>3 DEF Connect, Register
    <3>. QED
      BY <2>3, <3>1, AttachmentTyped DEF Connect
  <2>4. CASE Lose
    BY <2>1, <2>4 DEF Lose
  <2>5. CASE \E inc \in closing : Notice(inc)
    BY <2>1, <2>5 DEF Notice
  <2>6. CASE Crash
    BY <2>1, <2>6 DEF Crash
  <2>7. CASE Service
    BY <2>2, <2>7 DEF Service, ServeSent, ServeLate, Serve
  <2>8. CASE Commits \/ Refused \/ RefusedLate \/ RequestFails \/ NewGeneration
    BY <2>2, <2>8 DEF Commits, CommitEnds, CommitFails, CommitReply, BarrierSettles, Refused,
       RefusedLate, RequestFails, NewGeneration
  <2>. QED
    BY <2>3, <2>4, <2>5, <2>6, <2>7, <2>8 DEF Others, Link
<1>3. record'.inc = 0 => \A t \in Tokens : record'.holds[t] = NoHold
  BY OthersRecord DEF Links, Anew, Goes, Gains, Holds
<1>. QED
  BY <1>1, <1>2, <1>3 DEF Links, Typed, Holds

(* What is persisted, and when: a commit is the successor of what memory   *)
(* has, and only one that was given room adds a receipt.                   *)
LEMMA SuccessorCounts ==
  ASSUME Typed, Counts, NEW m \in Messages, m.kind \in {"finalize", "acknowledge"},
         m.kind = "finalize" => Cardinality(doc.receipts) < MaxReceipts
  PROVE  /\ Successor(m).gen = doc.gen
         /\ IsFiniteSet(Successor(m).receipts)
         /\ Cardinality(Successor(m).receipts) <= MaxReceipts
<1>1. /\ doc \in Docs /\ IsFiniteSet(doc.receipts) /\ m.token \in Tokens
      /\ Cardinality(doc.receipts) <= MaxReceipts /\ MaxReceipts \in Nat
  BY InteractionsAssumption DEF Typed, Counts, Messages
<1>2. Cardinality(doc.receipts) \in Nat
  BY <1>1, FS_CardinalityType
<1>3. CASE m.kind = "finalize"
  <2>1. Successor(m).gen = doc.gen /\ Successor(m).receipts = doc.receipts \cup {m.token}
    BY <1>1, <1>3 DEF Successor, Docs
  <2>2. /\ IsFiniteSet(doc.receipts \cup {m.token})
        /\ Cardinality(doc.receipts \cup {m.token}) \in
             {Cardinality(doc.receipts), Cardinality(doc.receipts) + 1}
    BY <1>1, FS_AddElement, Zenon
  <2>. QED
    BY <1>1, <1>2, <1>3, <2>1, <2>2
<1>4. CASE m.kind = "acknowledge"
  <2>1. Successor(m).gen = doc.gen /\ Successor(m).receipts = doc.receipts \ {m.token}
    BY <1>1, <1>4 DEF Successor, Docs
  <2>2. /\ IsFiniteSet(doc.receipts \ {m.token})
        /\ Cardinality(doc.receipts \ {m.token}) \in
             {Cardinality(doc.receipts), Cardinality(doc.receipts) - 1}
    BY <1>1, FS_RemoveElement, Zenon
  <2>. QED
    BY <1>1, <1>2, <2>1, <2>2
<1>. QED
  BY <1>3, <1>4

LEMMA OthersCounts ==
  ASSUME Typed, Links, Counts, MemoryAndDisk, Others
  PROVE  Counts'
<1> USE DEF Typed
<1>1. UNCHANGED editor /\ record' \in Records /\ (Anew \/ Goes)
  BY OthersLeaveEditors, OthersRecord
<1>2. ASSUME doc'.gen = doc.gen
      PROVE  \A t \in Tokens : record'.holds[t].gen \in {0, doc'.gen}
  <2> SUFFICES ASSUME NEW t \in Tokens PROVE record'.holds[t].gen \in {0, doc.gen}
    BY <1>2
  <2>1. CASE record'.holds[t] \in {record.holds[t], NoHold}
    BY <2>1 DEF Counts, NoHold
  <2>2. ASSUME NEW m, Gains(t, m) PROVE record'.holds[t].gen = doc.gen
    BY <2>2 DEF Gains
  <2>. QED
    BY <1>1, <2>1, <2>2 DEF Anew, Goes
<1>3. CASE Service
  <2>1. PICK m \in Flying : m \in Messages /\ Serve(m)
    BY <1>3 DEF Service, ServeSent, ServeLate, Flying, Sent
  <2>2. /\ tail' = (IF Answer(m) = "commit" THEN m ELSE tail) /\ UNCHANGED <<doc, disk>>
    BY <2>1, Serves
  <2>3. Answer(m) = "commit" /\ m.kind = "finalize" => ~Full
    BY DEF Answer, FinalizeAnswer
  <2>4. Cardinality(doc.receipts) \in Nat /\ MaxReceipts \in Nat
    BY FS_CardinalityType, InteractionsAssumption DEF Counts
  <2>5. tail'.kind = "finalize" => Cardinality(doc.receipts) < MaxReceipts
    BY <2>2, <2>3, <2>4 DEF Counts, Full
  <2>. QED
    BY <1>1, <1>2, <2>2, <2>5 DEF Counts
<1>4. tail # NoRequest => tail \in Messages /\ tail.kind \in {"finalize", "acknowledge"}
  BY DEF MemoryAndDisk
<1>5. tail # NoRequest =>
        /\ Successor(tail).gen = doc.gen
        /\ IsFiniteSet(Successor(tail).receipts)
        /\ Cardinality(Successor(tail).receipts) <= MaxReceipts
  BY <1>4, SuccessorCounts DEF Counts
<1>6. NoRequest.kind # "finalize"
  BY DEF NoRequest
<1>7. CASE CommitEnds
  BY <1>1, <1>2, <1>5, <1>6, <1>7 DEF CommitEnds, Committed, Counts
<1>8. CASE CommitFails
  BY <1>1, <1>2, <1>5, <1>6, <1>8 DEF CommitFails, NotCommitted, Uncertain, Counts
<1>9. CASE BarrierSettles
  <2>1. /\ doc' = disk /\ UNCHANGED <<disk, tail>> /\ barrier # NoRequest
    BY <1>9 DEF BarrierSettles, Settle
  <2>2. tail = NoRequest
    BY <2>1 DEF MemoryAndDisk
  <2>. QED
    BY <1>1, <1>2, <1>6, <2>1, <2>2 DEF Counts
<1>10. CASE Refused \/ RefusedLate \/ RequestFails \/ Connect \/ Lose
           \/ \E inc \in closing : Notice(inc)
  <2>1. UNCHANGED <<doc, disk, tail>>
    BY <1>10 DEF Refused, RefusedLate, RequestFails, Connect, Register, Lose, Notice, Disconnect,
       serviceVars
  <2>. QED
    BY <1>1, <1>2, <2>1 DEF Counts
<1>11. CASE Crash
  BY <1>1, <1>2, <1>5, <1>6, <1>11 DEF Crash, ServiceDies, Hydrated, Counts
<1>12. CASE NewGeneration
  <2>1. /\ ~Held /\ doc.gen < MaxGeneration /\ doc' = [doc EXCEPT !.gen = @ + 1] /\ disk' = doc'
        /\ UNCHANGED <<record, tail>> /\ tail = NoRequest
    BY <1>12 DEF NewGeneration, Replace, TailFree
  <2>2. \A t \in Tokens : record'.holds[t].gen = 0
    BY <2>1 DEF Held, Holds, NoHold
  <2>3. doc'.gen = doc.gen + 1 /\ doc'.receipts = doc.receipts
    BY <2>1 DEF Docs
  <2>. QED
    BY <1>1, <1>6, <2>1, <2>2, <2>3, InteractionsAssumption DEF Counts
<1>. QED
  BY <1>3, <1>7, <1>8, <1>9, <1>10, <1>11, <1>12 DEF Others, Commits, Link

LEMMA OthersUnfinished ==
  ASSUME Typed, MemoryAndDisk, Unfinished, Others, Typed'
  PROVE  Unfinished'
<1>1. Framed /\ InFlight' \subseteq InFlight /\ UNCHANGED editor
  BY OthersFramed, FramedRequests, OthersLeaveEditors
<1>2. ASSUME NEW t \in Tokens, ~editor[t].asked
      PROVE  t \notin doc'.finished \cup disk'.finished
  <2>1. /\ t \notin doc.finished /\ t \notin disk.finished
        /\ \A m \in InFlight : ~(m.kind = "finalize" /\ m.token = t)
    BY <1>2 DEF Unfinished
  <2>2. tail # NoRequest => t \notin Successor(tail).finished
    BY <2>1 DEF InFlight, MemoryAndDisk, Successor, Typed, Docs, Messages
  <2>3. CASE Service
    BY <2>1, <2>3, Serves DEF Service, ServeSent, ServeLate, Sent, Typed
  <2>4. CASE Commits
    BY <2>1, <2>2, <2>4 DEF Commits, CommitEnds, Committed, CommitFails, NotCommitted, Uncertain,
       BarrierSettles, Settle
  <2>5. CASE Refused \/ RefusedLate \/ RequestFails
    BY <2>1, <2>5 DEF Refused, RefusedLate, RequestFails, serviceVars
  <2>6. CASE Link
    BY <2>1, <2>2, <2>6 DEF Link, Connect, Lose, Notice, Crash, Register, Disconnect, ServiceDies,
       Hydrated, serviceVars
  <2>7. CASE NewGeneration
    BY <2>1, <2>7 DEF NewGeneration, Replace, Typed, Docs
  <2>. QED
    BY <2>3, <2>4, <2>5, <2>6, <2>7 DEF Others
<1>. QED
  BY <1>1, <1>2 DEF Unfinished, Framed

LEMMA OthersOrders ==
  ASSUME Typed, Links, MemoryAndDisk, Orders, Others
  PROVE  Orders'
<1>1. /\ Framed /\ record' \in Records /\ (Anew \/ Goes)
      /\ \A t \in Tokens : Begins(t)' \subseteq Begins(t)
  BY OthersFramed, FramedRequests, OthersRecord
<1>2. UNCHANGED <<orders, nextOrder, pending>> /\ lane'.step = lane.step
  BY <1>1 DEF Framed, clientVarsButLane
<1>3. ASSUME NEW t \in Tokens, NEW n \in Nat, n # 0,
             record.holds[t].order < n, \A m \in Begins(t) : m.order < n
      PROVE  record'.holds[t].order < n
  <2>1. ASSUME NEW m \in Begins(t), Gains(t, m) PROVE record'.holds[t].order < n
    BY <1>3, <2>1 DEF Gains
  <2>. QED
    BY <1>1, <1>3, <2>1 DEF Anew, Goes, NoHold
<1>4. ASSUME NEW t \in Tokens
      PROVE  /\ nextOrder \in Nat /\ orders[t]["release"] \in Nat
  BY DEF Typed, Kinds
<1>. QED
  BY <1>1, <1>2, <1>3, <1>4 DEF Orders

LEMMA OthersUntouched ==
  ASSUME Typed, Links, MemoryAndDisk, Others, NEW t \in Tokens, Untouched(t)
  PROVE  Untouched(t)'
<1>1. /\ Framed /\ (Anew \/ Goes) /\ Begins(t)' \subseteq Begins(t)
  BY OthersFramed, FramedRequests, OthersRecord
<1>. QED
  BY <1>1 DEF Untouched, Framed, clientVarsButLane, Anew, Goes, Holds

LEMMA OthersOpeners ==
  ASSUME Typed, Links, MemoryAndDisk, Openers, Others
  PROVE  Openers'
<1>1. Framed /\ \A t \in Tokens : Retrying(t)' = Retrying(t)
  BY OthersFramed, FramedRequests
<1>2. UNCHANGED <<editor, orders>> /\ lane'.op = lane.op /\ lane'.token = lane.token
      /\ lane'.step = lane.step
  BY <1>1 DEF Framed, clientVarsButLane
<1>. QED
  BY <1>1, <1>2, OthersUntouched DEF Openers

LEMMA OthersClosed ==
  ASSUME Typed, Links, MemoryAndDisk, Closed, Others
  PROVE  Closed'
<1>1. /\ Framed /\ record' \in Records /\ (Anew \/ Goes) /\ made' >= made
      /\ \A t \in Tokens : Retrying(t)' = Retrying(t)
  BY OthersFramed, FramedRequests, OthersRecord, OthersLinks
<1>2. \A t \in Tokens : Secure(t) => Secure(t)'
  BY <1>1, SecureStays
<1>. QED
  BY <1>1, <1>2 DEF Closed, Framed, clientVarsButLane

(* A release in the lane is answered by release(), and when the answer is  *)
(* that it is over then it is: what its editor sent before has no effect.  *)
LEMMA ReleaseAnswered ==
  ASSUME Typed, Links, LaneOwned, MemoryAndDisk, ToldTruly, Others,
         lane.req # NoRequest, lane.req.kind = "release", lane'.reply # lane.reply,
         lane'.reply # "failed"
  PROVE  /\ lane.reply = "none" /\ lane.req \in Messages
         /\ Release(lane.req) /\ TailFree
         /\ lane'.reply = ReleaseAnswer(lane.req)
         /\ late' = late
<1>1. lane.reply # "serving"
  BY NoRequestKind DEF ToldTruly, MemoryAndDisk
<1>2. lane' # lane
  OBVIOUS
<1>3. ASSUME CommitEnds \/ CommitFails PROVE FALSE
  BY <1>1, <1>2, <1>3 DEF CommitEnds, CommitFails, CommitReply
<1>4. ASSUME Refused \/ RequestFails \/ Crash PROVE FALSE
  BY <1>2, <1>4 DEF Refused, RequestFails, Crash, Reply, Typed
<1>5. ServeSent
  BY <1>2, <1>3, <1>4 DEF Others, Service, ServeLate, Commits, BarrierSettles, RefusedLate, Link,
     Connect, Lose, Notice, NewGeneration, clientVars
<1>6. PICK m \in Sent : Serve(m) /\ Reply(Answer(m))
  BY <1>5 DEF ServeSent
<1>7. m = lane.req /\ m \in Messages /\ lane.reply = "none"
  BY <1>6 DEF Sent, Typed
<1>8. Release(m) /\ Answer(m) = ReleaseAnswer(m)
  BY <1>6, <1>7, ServeCases
<1>9. ReleaseAnswer(m) # "commit"
  BY DEF ReleaseAnswer
<1>. QED
  BY <1>6, <1>7, <1>8, <1>9 DEF Reply, Serve, Typed

LEMMA ReleaseSecures ==
  ASSUME Typed, Links, Framed, NEW m \in Messages, Release(m), m.kind = "release",
         ReleaseAnswer(m) \in Ended,
         \A n \in Begins(m.token) : n.order < m.order
  PROVE  Secure(m.token)'
<1>1. /\ record' \in Records /\ record'.holds[m.token] = NoHold
      /\ record'.lastOrder >= m.order
  BY ServedRelease DEF Links
<1>2. m.token \in Tokens /\ Begins(m.token)' \subseteq Begins(m.token)
  BY FramedRequests DEF Messages
<1>3. \A n \in Begins(m.token) : n \in Messages
  BY NoRequestKind DEF Begins, Flying, Sent, Typed
<1>. QED
  BY <1>1, <1>2, <1>3 DEF Secure, Holds, Messages, Records

LEMMA OthersDraining ==
  ASSUME HInv, Others
  PROVE  Draining'
<1> USE DEF HInv, IInv
<1>1. /\ Framed /\ record' \in Records /\ (Anew \/ Goes) /\ made' >= made
  BY OthersFramed, OthersRecord, OthersLinks
<1>2. /\ lane'.req = lane.req /\ lane'.step = lane.step /\ UNCHANGED <<pending, orders>>
  BY <1>1 DEF Framed, clientVarsButLane
<1>3. lane.req # NoRequest => lane.req \in Messages
  BY DEF Typed
<1> SUFFICES ASSUME lane.step = "drain", NEW m \in Messages, m = lane.req, lane'.reply \in Ended
             PROVE  Secure(m.token)'
  BY <1>2, <1>3 DEF Draining
<1>4. m.token \in Tokens /\ m.kind = "release" /\ m # NoRequest
  BY NoRequestKind DEF Typed, Messages, LaneOwned
<1>5. CASE lane'.reply = lane.reply
  <2>1. Secure(m.token)
    BY <1>4, <1>5 DEF Draining
  <2>. QED
    BY <1>1, <1>4, <2>1, SecureStays
<1>6. CASE lane'.reply # lane.reply
  <2>1. Release(m) /\ ReleaseAnswer(m) \in Ended
    BY <1>4, <1>6, ReleaseAnswered DEF Ended
  <2>2. m.order = orders[m.token]["release"] /\ m.order # 0
    BY <1>4 DEF Draining, Orders
  <2>3. \A n \in Begins(m.token) : n.order < m.order
    BY <1>4, <2>2 DEF Orders
  <2>. QED
    BY <1>1, <1>4, <2>1, <2>3, ReleaseSecures
<1>. QED
  BY <1>5, <1>6

(* A request that failed stays failed, one that was answered is answered   *)
(* or fails, and only a failed one is still on its way.                    *)
LEMMA RepliesStay ==
  ASSUME Typed, Others, lane'.reply # "failed"
  PROVE  /\ late' \subseteq late
         /\ lane.reply # "failed"
         /\ lane.reply \notin Waiting => lane'.reply = lane.reply
<1> USE DEF Waiting
<1>1. CASE Service
  BY <1>1 DEF Service, ServeSent, ServeLate, Serve, Reply, Sent, Typed
<1>2. CASE Commits
  BY <1>2 DEF Commits, CommitEnds, CommitFails, CommitReply, BarrierSettles, Typed, linkVars,
     clientVars
<1>3. CASE Refused \/ RequestFails \/ RefusedLate
  BY <1>3 DEF Refused, RequestFails, RefusedLate, Reply, Typed, clientVars
<1>4. CASE Link \/ NewGeneration
  BY <1>4 DEF Link, Connect, Lose, Notice, Crash, NewGeneration, Typed, clientVars, linkVars
<1>. QED
  BY <1>1, <1>2, <1>3, <1>4 DEF Others

LEMMA OthersOpening ==
  ASSUME HInv, Others
  PROVE  Opening'
<1> USE DEF HInv, IInv
<1>1. /\ Framed /\ (Anew \/ Goes)
  BY OthersFramed, OthersRecord
<1>2. /\ lane'.req = lane.req /\ lane'.step = lane.step /\ lane'.op = lane.op
      /\ lane'.token = lane.token
  BY <1>1 DEF Framed
<1> SUFFICES ASSUME lane.op = "begin", lane.step = "first"
             PROVE  /\ lane.req # NoRequest
                    /\ lane'.reply # "failed" =>
                         \A m \in late' : ~(m.kind = "begin" /\ m.token = lane.token)
                    /\ lane'.reply \notin {"accepted", "failed"} => ~Holds(lane.token)'
  BY <1>2 DEF Opening
<1>3. ASSUME lane'.reply # "failed"
      PROVE  \A m \in late' : ~(m.kind = "begin" /\ m.token = lane.token)
  BY <1>3, RepliesStay DEF Opening
<1>4. ASSUME lane'.reply \notin {"accepted", "failed"} PROVE ~Holds(lane.token)'
  <2>1. lane.reply \notin {"accepted", "failed"}
    BY <1>4, RepliesStay DEF Waiting
  <2>2. lane.token \in Tokens /\ ~Holds(lane.token)
    BY <2>1 DEF Opening, LaneOwned
  <2>3. ASSUME NEW m \in Begins(lane.token), Gains(lane.token, m) PROVE FALSE
    BY <1>4, <2>1, <2>3 DEF Gains, Begins, Opening
  <2>. QED
    BY <1>1, <1>2, <2>2, <2>3 DEF Anew, Goes, Holds
<1>. QED
  BY <1>3, <1>4 DEF Opening

LEMMA OthersReleased ==
  ASSUME HInv, Others
  PROVE  Released'
<1> USE DEF HInv, IInv
<1>1. /\ Framed /\ record' \in Records /\ (Anew \/ Goes) /\ made' >= made
      /\ \A t \in Tokens : Begins(t)' \subseteq Begins(t)
  BY OthersFramed, OthersRecord, OthersLinks, FramedRequests
<1>2. /\ lane'.req = lane.req /\ lane'.step = lane.step /\ lane'.op = lane.op
      /\ lane'.token = lane.token /\ UNCHANGED <<pending, orders>>
  BY <1>1 DEF Framed, clientVarsButLane
<1>3. lane.req # NoRequest => lane.req \in Messages
  BY DEF Typed
<1> SUFFICES ASSUME Releasing, NEW m \in Messages, m = lane.req
             PROVE  /\ \A n \in Begins(m.token)' : n.inc <= m.inc
                    /\ Holds(m.token)' => record'.inc <= m.inc
                    /\ lane.op \in {"begin", "release"} /\ lane'.reply \notin {"none", "failed"} =>
                         Secure(m.token)'
  BY <1>2, <1>3 DEF Released, Releasing
<1>4. /\ m # NoRequest /\ m.token \in Tokens /\ m.token = lane.token /\ m.kind = "release"
      /\ m.order = orders[m.token]["release"] /\ m.order # 0 /\ m.inc \in 1..made
      /\ \A n \in Begins(m.token) : n.inc <= m.inc
      /\ Holds(m.token) => record.inc <= m.inc
  BY NoRequestKind DEF Released, Releasing, Typed, Messages, LaneOwned, KindOf, Links, InFlight
<1>5. Holds(m.token)' => record'.inc <= m.inc
  <2>1. CASE Anew
    BY <1>4, <2>1 DEF Anew, Holds
  <2>2. CASE Goes
    BY <1>4, <2>2 DEF Goes, Gains, Holds
  <2>. QED
    BY <1>1, <2>1, <2>2
<1>6. ASSUME lane.op \in {"begin", "release"}, lane'.reply \notin {"none", "failed"}
      PROVE  Secure(m.token)'
  <2>1. CASE lane'.reply = lane.reply
    <3>1. Secure(m.token)
      BY <1>4, <1>6, <2>1 DEF Released
    <3>. QED
      BY <1>1, <1>4, <3>1, SecureStays
  <2>2. CASE lane'.reply # lane.reply
    <3>1. Release(m) /\ lane'.reply = ReleaseAnswer(m)
      BY <1>4, <1>6, <2>2, ReleaseAnswered
    <3>2. \A n \in Begins(m.token) : n.order < m.order /\ n \in Messages /\ n.inc \in 1..made
      BY <1>4, NoRequestKind DEF Orders, Begins, Flying, Sent, Typed, Links, InFlight
    <3>3. m.token \notin doc.receipts
      BY <1>4, <1>6 DEF LaneOwned, PhaseOf, Unfinished, MemoryAndDisk
    <3>4. ~Holds(m.token) \/ ~(m.order <= record.holds[m.token].order)
      BY <1>4 DEF Orders, Links, Records, Messages
    <3>5. CASE ReleaseAnswer(m) \in Ended
      BY <1>1, <1>4, <3>1, <3>2, <3>5, ReleaseSecures
    <3>6. CASE ReleaseAnswer(m) \notin Ended
      <4>1. ~Authentic(m) /\ UNCHANGED record
        BY <3>1, <3>3, <3>4, <3>6 DEF ReleaseAnswer, Release, Ended
      <4>2. made \in Nat /\ m.inc \in Nat /\ \A n \in Begins(m.token) : n.inc <= m.inc
        BY <1>4 DEF Typed, Messages
      <4>3. CASE record.inc = 0
        <5>1. ~Holds(m.token)
          BY <1>4, <4>3 DEF Links
        <5>. QED
          BY <1>1, <1>4, <3>2, <4>1, <4>3, <5>1, SecureStays DEF Secure
      <4>4. CASE record.inc # 0
        <5>1. record.inc = made /\ m.inc < made
          BY <1>4, <4>1, <4>2, <4>4 DEF Links, Authentic
        <5>2. ~Holds(m.token) /\ \A n \in Begins(m.token) : n.inc # record.inc
          BY <1>4, <3>2, <4>2, <5>1
        <5>. QED
          BY <1>1, <1>4, <5>2, SecureStays DEF Secure
      <4>. QED
        BY <4>3, <4>4
    <3>. QED
      BY <3>5, <3>6
  <2>. QED
    BY <2>1, <2>2
<1>. QED
  BY <1>1, <1>4, <1>5, <1>6

LEMMA OthersHInv == HInv /\ Others /\ IInv' => HInv'
BY OthersLinks, OthersCounts, OthersUnfinished, OthersOrders, OthersOpeners, OthersOpening,
   OthersDraining, OthersReleased, OthersClosed DEF HInv, IInv

-----------------------------------------------------------------------------
(* Steps of the view: they leave the service and the connections alone.    *)
LEMMA ViewFrame ==
  ASSUME Editors \/ Lane
  PROVE  UNCHANGED <<serviceVars, linkVars, faults>>
BY DEF Editors, StartBegin, StartReacquire, StartFinalize, StartRelease, StartAcknowledge, Leave,
       Take, Lane, StartDrain, SendPending, SendOwn, SendRelease, DrainEnds, Receive, Drained,
       NotDrained, BeginAnswered, OwnAnswered, ReleaseEnds, OwnFails, Local

(* When nothing is sent, nobody loses what makes it safe.                  *)
LEMMA NothingSent ==
  ASSUME UNCHANGED <<record, late>>, Sent' \subseteq Sent
  PROVE  \A t \in Tokens : /\ Begins(t)' \subseteq Begins(t)
                           /\ Holds(t)' = Holds(t)
                           /\ Secure(t) => Secure(t)'
BY DEF Begins, Flying, Holds, Secure

LEMMA NothingSentLinks ==
  ASSUME Links, UNCHANGED <<serviceVars, linkVars, faults>>, lane'.req \in {lane.req, NoRequest}
  PROVE  Links' /\ InFlight' \subseteq InFlight
BY DEF Links, serviceVars, linkVars, InFlight, Holds

(* An editor that takes the lane, and what for; one that is left.          *)
EditsAlone(t) ==
  /\ UNCHANGED <<serviceVars, linkVars, faults, orders, nextOrder, pending>>
  /\ \A s \in Tokens \ {t} : editor'[s] = editor[s]
TakesLane(t) ==
  /\ lane = IdleLane
  /\ lane'.token = t /\ lane'.step = "drain" /\ lane'.req = NoRequest /\ lane'.reply = "none"
  /\ \/ /\ lane'.op = "begin" /\ editor[t].phase = "new"
        /\ editor' = [editor EXCEPT ![t].phase = "opening", ![t].gen = doc.gen]
     \/ /\ lane'.op \in {"reacquire", "recheck"} /\ editor[t].phase = "open"
        /\ UNCHANGED editor
     \/ /\ lane'.op = "finalize" /\ editor[t].phase = "open"
        /\ editor' = [editor EXCEPT ![t].asked = TRUE]
     \/ /\ lane'.op = "release" /\ editor[t].phase = "leaving" /\ UNCHANGED editor
     \/ /\ lane'.op = "acknowledge" /\ editor[t].phase = "settled" /\ UNCHANGED editor
Quits(t) ==
  /\ UNCHANGED lane /\ editor[t].phase = "open" /\ lane.token # t
  /\ editor' = [editor EXCEPT ![t].phase = IF editor[t].asked THEN "dropped" ELSE "leaving"]
LEMMA EditorsFrame ==
  ASSUME Typed, LaneOwned, Editors
  PROVE  \E t \in Tokens : EditsAlone(t) /\ (TakesLane(t) \/ Quits(t))
<1> USE DEF EditsAlone, TakesLane, Quits
<1> PICK t \in Tokens : StartBegin(t) \/ StartReacquire(t) \/ StartFinalize(t)
                        \/ StartRelease(t) \/ StartAcknowledge(t) \/ Leave(t)
  BY DEF Editors
<1>1. ASSUME NEW op, Take(op, t)
      PROVE  /\ UNCHANGED <<serviceVars, linkVars, faults, orders, nextOrder, pending>>
             /\ lane = IdleLane
             /\ lane'.op = op /\ lane'.token = t /\ lane'.step = "drain"
             /\ lane'.req = NoRequest /\ lane'.reply = "none"
  BY <1>1 DEF Take, IdleLane
<1>2. CASE StartBegin(t)
  BY <1>1, <1>2 DEF StartBegin, Typed
<1>3. CASE StartReacquire(t)
  BY <1>1, <1>3 DEF StartReacquire
<1>4. CASE StartFinalize(t)
  BY <1>1, <1>4 DEF StartFinalize, Typed
<1>5. CASE StartRelease(t)
  BY <1>1, <1>5 DEF StartRelease
<1>6. CASE StartAcknowledge(t)
  BY <1>1, <1>6 DEF StartAcknowledge
<1>7. CASE Leave(t)
  BY <1>7 DEF Leave, Enter, Quit, Typed
<1>. QED
  BY <1>2, <1>3, <1>4, <1>5, <1>6, <1>7

LEMMA EditorsHInv == HInv /\ Editors /\ IInv' => HInv'
<1> SUFFICES ASSUME HInv, IInv', NEW t \in Tokens, EditsAlone(t), TakesLane(t) \/ Quits(t)
             PROVE  HInv'
  BY EditorsFrame DEF HInv, IInv
<1> USE DEF HInv, IInv, Typed
<1>1. /\ UNCHANGED <<record, doc, disk, tail, barrier, late, orders, nextOrder, pending>>
      /\ \A s \in Tokens \ {t} : editor'[s] = editor[s]
  BY DEF EditsAlone, serviceVars, linkVars
<1>2. Sent' = Sent /\ lane'.req = lane.req
  <2>1. CASE TakesLane(t)
    <3>1. lane.req = NoRequest /\ lane'.req = NoRequest
      BY <2>1 DEF TakesLane, IdleLane
    <3>2. Sent = {} /\ Sent' = {}
      BY <3>1 DEF Sent
    <3>. QED
      BY <3>1, <3>2
  <2>. QED
    BY <2>1 DEF Quits, Sent
<1>3. \A s \in Tokens : /\ Begins(s)' = Begins(s) /\ Holds(s)' = Holds(s)
                         /\ Secure(s)' = Secure(s) /\ Retrying(s)' = Retrying(s)
  BY <1>1, <1>2 DEF Begins, Flying, Holds, Secure, Retrying
<1>4. Links' /\ InFlight' \subseteq InFlight
  BY <1>2, NothingSentLinks DEF EditsAlone
<1>5. \A s \in Tokens : editor'[s].gen = editor[s].gen \/ editor'[s].gen = doc.gen
  BY <1>1 DEF TakesLane, Quits
<1>6. Counts'
  <2>1. ASSUME NEW s \in Tokens PROVE editor'[s].gen <= MaxGeneration
    <3>1. editor[s].gen <= MaxGeneration /\ doc.gen <= MaxGeneration
      BY DEF Counts
    <3>. QED
      BY <1>5, <3>1
  <2>. QED
    BY <1>1, <2>1 DEF Counts
<1>7. CASE TakesLane(t)
  <2>1. lane = IdleLane /\ lane'.step = "drain" /\ lane'.token = t /\ lane'.req = NoRequest
    BY <1>7 DEF TakesLane
  <2>2. Unfinished'
    <3>1. /\ \A s \in Tokens : editor[s].asked => editor'[s].asked
          /\ \A s \in Tokens : editor'[s].phase \in {"new", "opening", "leaving", "closed"} =>
               ~editor'[s].asked
          /\ lane'.op = "finalize" => editor'[t].asked
      <4>1. CASE lane'.op = "begin"
        <5>1. /\ editor[t].phase = "new"
              /\ editor' = [editor EXCEPT ![t].phase = "opening", ![t].gen = doc.gen]
          BY <1>7, <4>1 DEF TakesLane
        <5>. QED
          BY <4>1, <5>1 DEF Unfinished
      <4>2. CASE lane'.op = "finalize"
        <5>1. editor[t].phase = "open" /\ editor' = [editor EXCEPT ![t].asked = TRUE]
          BY <1>7, <4>2 DEF TakesLane
        <5>. QED
          BY <4>2, <5>1 DEF Unfinished
      <4>3. CASE lane'.op \notin {"begin", "finalize"}
        <5>1. UNCHANGED editor
          BY <1>7, <4>3 DEF TakesLane
        <5>. QED
          BY <4>3, <5>1 DEF Unfinished
      <4>. QED
        BY <4>1, <4>2, <4>3
    <3>. QED
      BY <1>1, <1>4, <2>1, <3>1 DEF Unfinished
  <2>3. Orders'
    BY <1>1, <1>3, <2>1 DEF Orders
  <2>4. Openers'
    BY <1>1, <1>3, <1>7 DEF TakesLane, Openers, Untouched, IdleLane
  <2>5. Opening' /\ Draining' /\ Released'
    BY <2>1 DEF Opening, Draining, Released, Releasing
  <2>6. \A s \in Tokens : editor'[s].phase = "closed" => editor[s].phase = "closed"
    BY <1>1, <1>7 DEF TakesLane
  <2>. QED
    BY <1>3, <1>4, <1>6, <2>2, <2>3, <2>4, <2>5, <2>6 DEF Closed
<1>8. CASE Quits(t)
  <2>1. UNCHANGED lane
    BY <1>8 DEF Quits
  <2>2. Unfinished'
    BY <1>1, <1>4, <1>8 DEF Quits, Unfinished, LaneOwned
  <2>3. Orders'
    BY <1>1, <1>3, <2>1 DEF Orders
  <2>4. Openers'
    BY <1>1, <1>3, <1>8 DEF Quits, Openers, Untouched
  <2>5. Opening' /\ Draining' /\ Released'
    BY <1>1, <1>3, <2>1 DEF Opening, Draining, Released, Releasing, LaneOwned
  <2>6. \A s \in Tokens : editor'[s].phase = "closed" => editor[s].phase = "closed"
    BY <1>1, <1>8 DEF Quits
  <2>. QED
    BY <1>3, <1>4, <1>6, <2>2, <2>3, <2>4, <2>5, <2>6 DEF Closed
<1>. QED
  BY <1>7, <1>8

LEMMA StartDrainHInv == HInv /\ StartDrain /\ IInv' => HInv'
<1> SUFFICES ASSUME HInv, StartDrain, IInv' PROVE HInv'
  OBVIOUS
<1> USE DEF HInv, IInv, Typed
<1>1. /\ UNCHANGED <<record, doc, disk, tail, barrier, late, editor, orders, nextOrder, pending>>
      /\ lane = IdleLane /\ lane'.op = "drain" /\ lane'.token = "none" /\ lane'.step = "drain"
      /\ lane'.req = NoRequest /\ lane'.reply = "none"
  BY DEF StartDrain, Take, IdleLane, serviceVars, linkVars
<1>2. Sent = {} /\ Sent' = {} /\ lane'.req = lane.req
  BY <1>1 DEF Sent, IdleLane
<1>3. \A s \in Tokens : /\ Begins(s)' = Begins(s) /\ Holds(s)' = Holds(s)
                         /\ Secure(s)' = Secure(s) /\ Retrying(s)' = Retrying(s)
  BY <1>1, <1>2 DEF Begins, Flying, Holds, Secure, Retrying
<1>4. Links' /\ InFlight' \subseteq InFlight
  BY <1>2, NothingSentLinks, ViewFrame DEF Lane
<1>5. Counts' /\ Unfinished'
  BY <1>1, <1>4 DEF Counts, Unfinished
<1>6. Orders' /\ Closed'
  BY <1>1, <1>3 DEF Orders, Closed
<1>7. Openers'
  BY <1>1, <1>3 DEF Openers, Untouched, IdleLane
<1>8. Opening' /\ Draining' /\ Released'
  BY <1>1 DEF Opening, Draining, Released, Releasing
<1>. QED
  BY <1>4, <1>5, <1>6, <1>7, <1>8

(* A request m is sent, after which the lane is at a given step.           *)
Sends(m, step) ==
  /\ UNCHANGED <<record, doc, disk, tail, barrier, late, editor, pending>>
  /\ lane.req = NoRequest /\ att # 0
  /\ lane'.op = lane.op /\ lane'.token = lane.token /\ lane'.step = step
  /\ lane'.req = m /\ lane'.reply = "none"
  /\ m \in Messages /\ m # NoRequest /\ m.inc = att /\ m.order # 0 /\ m.gen <= MaxGeneration

LEMMA SendsRequest ==
  ASSUME HInv, NEW m, NEW step, Sends(m, step),
         UNCHANGED <<serviceVars, linkVars, faults>>,
         m.kind = "finalize" => lane.op = "finalize" /\ m.token = lane.token
  PROVE  /\ Links' /\ Counts' /\ Unfinished'
         /\ \A t \in Tokens :
              /\ Begins(t)' = Begins(t) \cup (IF m.kind = "begin" /\ m.token = t THEN {m} ELSE {})
              /\ Holds(t)' = Holds(t) /\ Retrying(t)' = Retrying(t)
<1> USE DEF HInv, IInv, Sends
<1>1. InFlight' = InFlight \cup {m}
  BY DEF InFlight
<1>2. m.inc \in 1..made
  BY DEF Links, Typed
<1>3. Links'
  BY <1>1, <1>2 DEF Links, serviceVars, linkVars, Holds
<1>4. Counts'
  BY DEF Counts
<1>5. Unfinished'
  BY <1>1 DEF Unfinished
<1>6. Sent = {} /\ Sent' = {m}
  BY DEF Sent
<1>7. \A t \in Tokens : Begins(t)' = Begins(t) \cup (IF m.kind = "begin" /\ m.token = t THEN {m} ELSE {})
  BY <1>6 DEF Begins, Flying
<1>. QED
  BY <1>3, <1>4, <1>5, <1>7 DEF Holds, Retrying

LEMMA SendPendingHInv == HInv /\ SendPending /\ IInv' => HInv'
<1> SUFFICES ASSUME HInv, SendPending, IInv' PROVE HInv'
  OBVIOUS
<1> USE DEF HInv, IInv
<1>1. PICK p \in pending : SendAs("drain", Request("release", p.token, p.order))
  BY DEF SendPending
<1> DEFINE m == Request("release", p.token, p.order)
<1>2. /\ p.token \in Tokens /\ p.order \in Nat /\ p.order # 0 /\ p.order = orders[p.token]["release"]
      /\ MaxGeneration \in Nat
  BY InteractionsAssumption DEF Typed, Orders
<1>3. /\ m \in Messages /\ m # NoRequest /\ m.kind = "release" /\ m.token = p.token
      /\ m.order = p.order /\ m.inc = att /\ m.gen = 0
  BY <1>2 DEF Request, Messages, Kinds, Typed, NoRequest
<1>4. Sends(m, "drain") /\ UNCHANGED <<orders, nextOrder, serviceVars, linkVars, faults>>
  <2>1. lane' = [lane EXCEPT !.step = "drain", !.req = m]
    BY <1>1 DEF SendAs
  <2> HIDE DEF m
  <2>2. lane.req = NoRequest /\ lane.reply = "none" /\ att # 0
    BY DEF SendPending, Unsent, LaneOwned
  <2>3. /\ lane'.op = lane.op /\ lane'.token = lane.token /\ lane'.step = "drain"
        /\ lane'.req = m /\ lane'.reply = "none"
    BY <2>1, <2>2 DEF Typed
  <2>. QED
    BY <1>2, <1>3, <2>2, <2>3 DEF Sends, SendPending, serviceVars, linkVars
<1> HIDE DEF m
<1>5. /\ Links' /\ Counts' /\ Unfinished'
      /\ \A t \in Tokens : Begins(t)' = Begins(t) /\ Holds(t)' = Holds(t) /\ Retrying(t)' = Retrying(t)
  BY <1>3, <1>4, SendsRequest
<1>6. lane.step = "drain"
  BY DEF SendPending
<1>7. Orders' /\ Openers' /\ Closed'
  BY <1>4, <1>5, <1>6 DEF Sends, Orders, Openers, Untouched, Closed, Secure
<1>8. Opening' /\ Released'
  BY <1>4 DEF Sends, Opening, Released, Releasing
<1>9. Draining'
  <2>1. p = [token |-> m.token, order |-> m.order]
    BY <1>3 DEF Typed
  <2>. QED
    BY <1>4, <2>1 DEF Sends, Draining, Ended
<1>. QED
  BY <1>5, <1>7, <1>8, <1>9

(* The order a request is given.                                           *)
LEMMA Allocated ==
  ASSUME Typed, Orders, NEW t \in Tokens, NEW kind \in Kinds, Allocate(t, kind)
  PROVE  /\ Ordered(t, kind) \in Nat /\ Ordered(t, kind) # 0
         /\ orders' = [orders EXCEPT ![t][kind] = Ordered(t, kind)]
         /\ nextOrder' \in Nat /\ nextOrder' >= nextOrder /\ Ordered(t, kind) < nextOrder'
         /\ orders[t][kind] = 0 => Ordered(t, kind) = nextOrder
         /\ orders[t][kind] # 0 => Ordered(t, kind) = orders[t][kind]
         /\ \A s \in Tokens, k \in Kinds :
              /\ orders'[s][k] \in Nat /\ orders'[s][k] < nextOrder'
              /\ <<s, k>> # <<t, kind>> => orders'[s][k] = orders[s][k]
         /\ orders'[t][kind] = Ordered(t, kind)
<1>1. orders[t][kind] \in Nat /\ nextOrder \in Nat /\ nextOrder > 0 /\ orders[t][kind] < nextOrder
  BY DEF Typed, Orders
<1>2. /\ orders' = [orders EXCEPT ![t][kind] = Ordered(t, kind)]
      /\ nextOrder' = IF orders[t][kind] = 0 THEN nextOrder + 1 ELSE nextOrder
  BY DEF Allocate
<1>3. /\ Ordered(t, kind) \in Nat /\ Ordered(t, kind) # 0
      /\ nextOrder' \in Nat /\ nextOrder' >= nextOrder /\ Ordered(t, kind) < nextOrder'
      /\ orders[t][kind] = 0 => Ordered(t, kind) = nextOrder
      /\ orders[t][kind] # 0 => Ordered(t, kind) = orders[t][kind]
  BY <1>1, <1>2 DEF Ordered
<1>4. \A s \in Tokens, k \in Kinds : orders'[s][k] = IF s = t /\ k = kind THEN Ordered(t, kind) ELSE orders[s][k]
  BY <1>2 DEF Typed
<1>5. \A s \in Tokens, k \in Kinds : orders[s][k] \in Nat /\ orders[s][k] < nextOrder
  BY DEF Typed, Orders
<1>. QED
  BY <1>1, <1>2, <1>3, <1>4, <1>5

LEMMA RequestOf ==
  ASSUME Typed, Counts, NEW kind \in Kinds, NEW t \in Tokens, NEW order \in Nat
  PROVE  LET m == Request(kind, t, order) IN
         /\ m \in Messages /\ m # NoRequest
         /\ m.kind = kind /\ m.token = t /\ m.order = order /\ m.inc = att
         /\ m.gen <= MaxGeneration
BY InteractionsAssumption DEF Request, Messages, Kinds, Typed, Counts, NoRequest

(* The order of the request of an editor that has the lane: no closed one  *)
(* is concerned, and a begin is sent only when no release is outstanding.  *)
LEMMA SendOwnHInv == HInv /\ SendOwn /\ IInv' => HInv'
<1> SUFFICES ASSUME HInv, SendOwn, IInv' PROVE HInv'
  OBVIOUS
<1> USE DEF HInv, IInv
<1> PICK t \in Tokens : t = lane.token
  BY DEF SendOwn, Unsent, LaneOwned, Typed, Operations
<1> DEFINE kind == KindOf(lane.op)
           m == Request(kind, t, Ordered(t, kind))
           step == IF kind = "begin" /\ orders[t]["begin"] = 0 THEN "first" ELSE "own"
<1>1. /\ t \in Tokens /\ t = lane.token /\ kind \in Kinds /\ editor[t].phase = PhaseOf(lane.op)
      /\ lane.op \notin {"idle", "drain"} /\ lane.step = "drain" /\ pending = {}
      /\ kind = "begin" => lane.op \in {"begin", "reacquire", "recheck"}
      /\ kind # "begin" => kind = lane.op
  BY DEF SendOwn, Unsent, LaneOwned, KindOf, Kinds, Typed, Operations
<1>2. Allocate(t, kind) /\ SendAs(step, m)
  BY DEF SendOwn
<1>3. /\ Ordered(t, kind) \in Nat /\ Ordered(t, kind) # 0
      /\ nextOrder' \in Nat /\ nextOrder' >= nextOrder /\ Ordered(t, kind) < nextOrder'
      /\ orders[t][kind] = 0 => Ordered(t, kind) = nextOrder
      /\ orders[t][kind] # 0 => Ordered(t, kind) = orders[t][kind]
      /\ \A s \in Tokens, k \in Kinds :
           /\ orders'[s][k] \in Nat /\ orders'[s][k] < nextOrder'
           /\ <<s, k>> # <<t, kind>> => orders'[s][k] = orders[s][k]
      /\ orders'[t][kind] = Ordered(t, kind)
  BY <1>1, <1>2, Allocated
<1>4. /\ m \in Messages /\ m # NoRequest
      /\ m.kind = kind /\ m.token = t /\ m.order = Ordered(t, kind) /\ m.inc = att
      /\ m.gen <= MaxGeneration
  BY <1>1, <1>3, RequestOf
<1> HIDE DEF m, step, kind
<1>5. Sends(m, step) /\ UNCHANGED <<serviceVars, linkVars, faults>>
  <2>1. lane.req = NoRequest /\ lane.reply = "none" /\ att # 0
    BY DEF SendOwn, Unsent, LaneOwned
  <2>2. /\ lane'.op = lane.op /\ lane'.token = lane.token /\ lane'.step = step
        /\ lane'.req = m /\ lane'.reply = "none"
    BY <1>2, <2>1 DEF SendAs, Typed
  <2>. QED
    BY <1>3, <1>4, <2>1, <2>2 DEF Sends, SendOwn, serviceVars, linkVars
<1>6. /\ Links' /\ Counts' /\ Unfinished'
      /\ \A s \in Tokens :
           /\ Begins(s)' = Begins(s) \cup (IF m.kind = "begin" /\ m.token = s THEN {m} ELSE {})
           /\ Holds(s)' = Holds(s) /\ Retrying(s)' = Retrying(s)
  BY <1>1, <1>4, <1>5, SendsRequest
<1>7. \A s \in Tokens : s # t => Begins(s)' = Begins(s) /\ orders'[s] = orders[s]
  <2>1. orders' = [orders EXCEPT ![t][kind] = Ordered(t, kind)]
    BY <1>2 DEF Allocate
  <2>2. \A s \in Tokens : s # t => Begins(s)' = Begins(s)
    BY <1>4, <1>6
  <2>. QED
    BY <1>1, <2>1, <2>2 DEF Typed
<1>8. kind = "begin" => orders[t]["release"] = 0
  BY <1>1 DEF PhaseOf, Openers, Untouched, NoOrders, Kinds, Retrying
<1>9. lane.op = "begin" => Untouched(t) /\ step = "first"
  <2>1. lane.op = "begin" => Untouched(t) /\ kind = "begin"
    BY <1>1 DEF PhaseOf, Openers, kind, KindOf
  <2>. QED
    BY <2>1 DEF Untouched, NoOrders, Kinds, step
<1>10. step \in {"first", "own"} /\ (step = "first" => kind = "begin")
  BY DEF step
<1>11. /\ UNCHANGED <<record, editor, pending, late>>
       /\ lane'.op = lane.op /\ lane'.token = t /\ lane'.step = step
       /\ lane'.req = m /\ lane'.reply = "none"
  BY <1>5 DEF Sends
<1>12. Orders'
  <2>1. ASSUME NEW s \in Tokens
        PROVE  /\ record.holds[s].order < nextOrder'
               /\ \A n \in Begins(s)' : n.order < nextOrder'
               /\ orders'[s]["release"] # 0 =>
                    /\ record.holds[s].order < orders'[s]["release"]
                    /\ \A n \in Begins(s)' : n.order < orders'[s]["release"]
    <3>1. /\ record.holds[s].order \in Nat /\ record.holds[s].order < nextOrder
          /\ \A n \in Begins(s) : n.order \in Nat /\ n.order < nextOrder
          /\ orders[s]["release"] # 0 =>
               /\ record.holds[s].order < orders[s]["release"]
               /\ \A n \in Begins(s) : n.order < orders[s]["release"]
          /\ nextOrder \in Nat /\ "release" \in Kinds
      BY NoRequestKind DEF Orders, Links, Records, Begins, Flying, Sent, Typed, Messages, Kinds
    <3>2. record.holds[s].order < nextOrder' /\ \A n \in Begins(s)' : n.order < nextOrder'
      BY <1>3, <1>4, <1>6, <3>1
    <3>3. CASE s # t
      BY <1>7, <3>1, <3>2, <3>3
    <3>4. CASE s = t /\ kind = "begin"
      BY <1>3, <1>8, <3>1, <3>2, <3>4
    <3>5. CASE s = t /\ kind # "begin"
      <4>1. Begins(s)' = Begins(s)
        BY <1>4, <1>6, <3>5
      <4>2. CASE kind = "release"
        BY <1>3, <3>1, <3>2, <3>5, <4>1, <4>2
      <4>3. CASE kind # "release"
        BY <1>1, <1>3, <3>1, <3>2, <3>5, <4>1, <4>3
      <4>. QED
        BY <4>2, <4>3
    <3>. QED
      BY <3>3, <3>4, <3>5
  <2>. QED
    BY <1>1, <1>3, <1>11, <2>1 DEF Orders, Typed
<1>13. Openers'
  <2>1. \A s \in Tokens : Untouched(s) /\ s # t => Untouched(s)'
    BY <1>6, <1>7 DEF Untouched
  <2>2. lane'.step = "first" => orders'[t]["release"] = 0
    BY <1>1, <1>3, <1>8, <1>10, <1>11 DEF Kinds
  <2>3. editor[t].phase = "open" => kind # "release"
    BY <1>1 DEF PhaseOf
  <2>4. editor[t].phase = "open" => orders'[t]["release"] = orders[t]["release"]
    BY <1>1, <1>3, <2>3 DEF Kinds
  <2>5. ASSUME NEW s \in Tokens
        PROVE  /\ editor[s].phase = "opening" => lane.op = "begin" /\ lane.token = s
               /\ editor[s].phase = "new" => Untouched(s)'
               /\ editor[s].phase = "open" => orders'[s]["release"] = 0 \/ Retrying(s)'
    BY <1>1, <1>6, <1>7, <2>1, <2>4 DEF Openers, PhaseOf
  <2>. QED
    BY <1>1, <1>9, <1>10, <1>11, <2>2, <2>5 DEF Openers
<1>14. Opening'
  BY <1>1, <1>4, <1>9, <1>11 DEF Opening, Untouched, Begins, Flying, Holds
<1>15. Draining'
  BY <1>10, <1>11 DEF Draining
<1>16. Released'
  <2>1. att = made /\ made \in Nat
    BY <1>5 DEF Sends, Links, Typed
  <2> SUFFICES ASSUME step = "own", lane.op = "release"
               PROVE  /\ m.token = t /\ m.order = orders'[t]["release"]
                      /\ \A n \in Begins(t)' : n.inc <= m.inc
                      /\ Holds(t)' => record.inc <= m.inc
    BY <1>10, <1>11 DEF Released, Releasing
  <2>2. kind = "release"
    BY DEF kind, KindOf
  <2>3. Begins(t)' = Begins(t)
    BY <1>1, <1>4, <1>6, <2>2
  <2>4. \A n \in Begins(t) : n.inc \in 1..made
    BY NoRequestKind DEF Begins, Flying, Sent, Typed, Links, InFlight
  <2>. QED
    BY <1>3, <1>4, <2>1, <2>2, <2>3, <2>4 DEF Links
<1>17. Closed'
  <2>1. editor[t].phase # "closed"
    BY <1>1 DEF PhaseOf
  <2>. QED
    BY <1>6, <1>7, <1>11, <2>1 DEF Closed, Secure
<1>. QED
  BY <1>6, <1>12, <1>13, <1>14, <1>15, <1>16, <1>17

LEMMA SendReleaseHInv == HInv /\ SendRelease /\ IInv' => HInv'
<1> SUFFICES ASSUME HInv, SendRelease, IInv' PROVE HInv'
  OBVIOUS
<1> USE DEF HInv, IInv
<1> PICK t \in Tokens : t = lane.token
  BY DEF SendRelease, LaneOwned, Typed, Operations
<1> DEFINE m == Request("release", t, Ordered(t, "release"))
<1>1. lane.step \in {"abandon", "again"} /\ pending = {} /\ "release" \in Kinds
  BY DEF SendRelease, Orders, Kinds
<1>2. Allocate(t, "release") /\ SendAs(lane.step, m)
  BY DEF SendRelease
<1>3. /\ Ordered(t, "release") \in Nat /\ Ordered(t, "release") # 0
      /\ nextOrder' \in Nat /\ nextOrder' >= nextOrder /\ Ordered(t, "release") < nextOrder'
      /\ orders[t]["release"] = 0 => Ordered(t, "release") = nextOrder
      /\ orders[t]["release"] # 0 => Ordered(t, "release") = orders[t]["release"]
      /\ \A s \in Tokens, k \in Kinds :
           /\ orders'[s][k] \in Nat /\ orders'[s][k] < nextOrder'
           /\ <<s, k>> # <<t, "release">> => orders'[s][k] = orders[s][k]
      /\ orders'[t]["release"] = Ordered(t, "release")
  BY <1>1, <1>2, Allocated
<1>4. /\ m \in Messages /\ m # NoRequest
      /\ m.kind = "release" /\ m.token = t /\ m.order = Ordered(t, "release") /\ m.inc = att
      /\ m.gen <= MaxGeneration
  BY <1>1, <1>3, RequestOf
<1> HIDE DEF m
<1>5. Sends(m, lane.step) /\ UNCHANGED <<serviceVars, linkVars, faults>>
  <2>1. lane.req = NoRequest /\ lane.reply = "none" /\ att # 0
    BY DEF SendRelease, Unsent, LaneOwned
  <2>2. /\ lane'.op = lane.op /\ lane'.token = lane.token /\ lane'.step = lane.step
        /\ lane'.req = m /\ lane'.reply = "none"
    BY <1>2, <2>1 DEF SendAs, Typed
  <2>. QED
    BY <1>3, <1>4, <2>1, <2>2 DEF Sends, SendRelease, serviceVars, linkVars
<1>6. /\ Links' /\ Counts' /\ Unfinished'
      /\ \A s \in Tokens : Begins(s)' = Begins(s) /\ Holds(s)' = Holds(s) /\ Retrying(s)' = Retrying(s)
  BY <1>4, <1>5, SendsRequest
<1>7. \A s \in Tokens : s # t => orders'[s] = orders[s]
  BY <1>2 DEF Allocate, Typed
<1>8. /\ UNCHANGED <<record, editor, pending, late>>
      /\ lane'.op = lane.op /\ lane'.token = t /\ lane'.step = lane.step
      /\ lane'.req = m /\ lane'.reply = "none"
  BY <1>5 DEF Sends
<1>9. Orders'
  <2>1. ASSUME NEW s \in Tokens
        PROVE  /\ record.holds[s].order < nextOrder'
               /\ \A n \in Begins(s)' : n.order < nextOrder'
               /\ orders'[s]["release"] # 0 =>
                    /\ record.holds[s].order < orders'[s]["release"]
                    /\ \A n \in Begins(s)' : n.order < orders'[s]["release"]
    <3>1. /\ record.holds[s].order \in Nat /\ record.holds[s].order < nextOrder
          /\ \A n \in Begins(s) : n.order \in Nat /\ n.order < nextOrder
          /\ orders[s]["release"] # 0 =>
               /\ record.holds[s].order < orders[s]["release"]
               /\ \A n \in Begins(s) : n.order < orders[s]["release"]
          /\ nextOrder \in Nat
      BY NoRequestKind DEF Orders, Links, Records, Begins, Flying, Sent, Typed, Messages
    <3>2. CASE s # t
      BY <1>3, <1>6, <1>7, <3>1, <3>2
    <3>3. CASE s = t
      BY <1>3, <1>6, <3>1, <3>3
    <3>. QED
      BY <3>2, <3>3
  <2>. QED
    BY <1>1, <1>3, <1>8, <2>1 DEF Orders, Typed
<1>10. Openers'
  <2>1. editor[t].phase # "new"
    BY <1>1 DEF LaneOwned, PhaseOf
  <2>. QED
    BY <1>1, <1>6, <1>7, <1>8, <2>1 DEF Openers, Untouched
<1>11. Opening' /\ Draining'
  BY <1>1, <1>8 DEF Opening, Draining
<1>12. Released'
  <2>1. att = made /\ made \in Nat
    BY <1>5 DEF Sends, Links, Typed
  <2>2. \A n \in Begins(t) : n.inc \in 1..made
    BY NoRequestKind DEF Begins, Flying, Sent, Typed, Links, InFlight
  <2>3. \A n \in Begins(t)' : n.inc <= m.inc
    BY <1>4, <1>6, <2>1, <2>2
  <2>4. record.inc <= m.inc
    BY <1>4, <2>1 DEF Links
  <2>. QED
    BY <1>3, <1>4, <1>8, <2>3, <2>4 DEF Released
<1>13. Closed'
  BY <1>6, <1>8 DEF Closed, Secure
<1>. QED
  BY <1>6, <1>9, <1>10, <1>11, <1>12, <1>13

(* An operation t has the lane for is over: what its editor must know.     *)
Over(t, phase) ==
  /\ UNCHANGED <<serviceVars, linkVars, faults, nextOrder>>
  /\ lane.token = t /\ lane.op \notin {"idle", "drain"}
  /\ lane' = IdleLane
  /\ editor' = [editor EXCEPT ![t].phase = phase]
  /\ phase \in {"closed", "leaving"} => ~editor[t].asked
  /\ phase \notin {"new", "opening"}
  /\ \/ orders' = orders /\ pending' = pending
     \/ orders' = [orders EXCEPT ![t] = NoOrders] /\ pending = {} /\ pending' = {}
     \/ /\ orders' = orders /\ pending = {} /\ orders[t]["release"] # 0
        /\ pending' = {[token |-> t, order |-> orders[t]["release"]]}
  /\ phase = "closed" =>
       (~Holds(t) /\ \A m \in late : m.kind = "begin" /\ m.token = t =>
                       m.inc # record.inc \/ m.order <= record.lastOrder)
       \/ pending' # pending
  /\ phase = "open" =>
       orders'[t]["release"] = 0 \/ pending' # pending \/ Retrying(t)

LEMMA OverHInv ==
  ASSUME HInv, IInv', NEW t \in Tokens, NEW phase, Over(t, phase)
  PROVE  HInv'
<1> USE DEF HInv, IInv
<1>1. /\ UNCHANGED <<record, doc, disk, tail, barrier, late, nextOrder>>
      /\ lane.token = t /\ lane.op \notin {"idle", "drain"} /\ lane' = IdleLane
      /\ lane'.req = NoRequest /\ lane'.step = "idle" /\ lane'.op = "idle"
  BY DEF Over, serviceVars, linkVars, IdleLane
<1>2. Sent' = {} /\ Flying' = late
  BY <1>1 DEF Sent, Flying
<1>3. \A s \in Tokens : /\ Begins(s)' \subseteq Begins(s) /\ Holds(s)' = Holds(s)
                        /\ Secure(s) => Secure(s)'
  BY <1>1, <1>2, NothingSent
<1>4. Links' /\ InFlight' \subseteq InFlight
  BY <1>1, NothingSentLinks DEF Over
<1>5. \A s \in Tokens : /\ editor'[s].gen = editor[s].gen /\ editor'[s].asked = editor[s].asked
                        /\ s # t => editor'[s] = editor[s]
                        /\ s = t => editor'[s].phase = phase
  BY DEF Over, Typed
<1>6. Counts'
  BY <1>1, <1>5 DEF Counts
<1>7. Unfinished'
  BY <1>1, <1>4, <1>5 DEF Over, Unfinished
<1>8. \A s \in Tokens : s # t => orders'[s] = orders[s] /\ Retrying(s)' = Retrying(s)
  BY DEF Over, Typed, Retrying
<1>9. orders' = orders \/ orders'[t] = NoOrders
  BY DEF Over, Typed
<1>10. Orders'
  <2>1. \A s \in Tokens, k \in Kinds : orders'[s][k] \in {orders[s][k], 0}
    BY <1>8, <1>9 DEF NoOrders
  <2>2. \A p \in pending' : p.order = orders'[p.token]["release"] /\ p.order # 0
    BY DEF Over, Orders
  <2>3. "release" \in Kinds
    BY DEF Kinds
  <2>. QED
    BY <1>1, <1>3, <2>1, <2>2, <2>3 DEF Orders
<1>11. Openers'
  <2>1. \A s \in Tokens : s # t /\ Untouched(s) => Untouched(s)'
    BY <1>3, <1>8 DEF Untouched
  <2>2. pending' # pending => Retrying(t)'
    BY DEF Over, Retrying
  <2>3. phase = "open" => orders'[t]["release"] = 0 \/ Retrying(t)'
    <3>1. Retrying(t) /\ pending' = pending => Retrying(t)'
      BY DEF Retrying
    <3>. QED
      BY <2>2, <3>1 DEF Over
  <2>4. \A s \in Tokens : s # t => editor[s].phase # "opening"
    BY <1>1 DEF Openers
  <2>5. ASSUME NEW s \in Tokens
        PROVE  /\ editor'[s].phase # "opening"
               /\ editor'[s].phase = "new" => Untouched(s)'
               /\ editor'[s].phase = "open" => orders'[s]["release"] = 0 \/ Retrying(s)'
    <3>1. CASE s = t
      BY <1>5, <2>3, <3>1 DEF Over
    <3>2. CASE s # t
      BY <1>1, <1>5, <1>8, <2>1, <2>4, <3>2 DEF Openers
    <3>. QED
      BY <3>1, <3>2
  <2>. QED
    BY <1>1, <2>5 DEF Openers
<1>12. Opening' /\ Draining' /\ Released'
  BY <1>1 DEF Opening, Draining, Released
<1>13. Closed'
  <2>1. phase = "closed" => Secure(t)' \/ Retrying(t)'
    <3>1. pending' # pending => Retrying(t)'
      BY DEF Over, Retrying
    <3>. QED
      BY <1>1, <1>2, <1>3, <3>1 DEF Over, Secure, Begins
  <2>. QED
    BY <1>3, <1>5, <1>8, <2>1 DEF Closed
<1>. QED
  BY <1>4, <1>6, <1>7, <1>10, <1>11, <1>12, <1>13

LEMMA FailedEditor ==
  ASSUME HInv, OperationFails, NEW t \in Tokens, t = lane.token, lane.op \notin {"idle", "drain"}
  PROVE  \E phase \in Phases :
           /\ editor' = [editor EXCEPT ![t].phase = phase] /\ lane' = IdleLane
           /\ phase \in {"closed", "leaving"} => ~editor[t].asked
           /\ phase \notin {"new", "opening"}
           /\ phase = "closed" => lane.op = "begin"
           /\ phase = "open" => editor[t].phase = "open"
<1> USE DEF HInv, IInv
<1>1. lane' = IdleLane /\ editor[t].phase = PhaseOf(lane.op)
  BY DEF OperationFails, Finish, LaneOwned
<1>2. CASE lane.op = "begin"
  <2>1. editor' = [editor EXCEPT ![t].phase = "closed"]
    BY <1>2 DEF OperationFails, Enter
  <2>2. ~editor[t].asked
    BY <1>1, <1>2 DEF PhaseOf, Unfinished
  <2>. QED
    BY <1>1, <1>2, <2>1, <2>2 DEF Phases
<1>3. CASE lane.op = "reacquire"
  <2>1. editor' = [editor EXCEPT ![t].phase = Quit(t)]
    BY <1>3 DEF OperationFails, Enter
  <2>. QED
    BY <1>1, <2>1 DEF Quit, Phases
<1>4. CASE lane.op = "release"
  <2>1. editor' = [editor EXCEPT ![t].phase = "dropped"]
    BY <1>4 DEF OperationFails, Enter
  <2>. QED
    BY <1>1, <2>1 DEF Phases
<1>5. CASE lane.op \notin {"begin", "reacquire", "release"}
  <2>1. editor' = editor
    BY <1>5 DEF OperationFails
  <2>2. editor' = [editor EXCEPT ![t].phase = editor[t].phase] /\ editor[t].phase \in Phases
    BY <2>1 DEF Typed
  <2>3. editor[t].phase \in {"open", "settled"}
    BY <1>1, <1>5 DEF PhaseOf
  <2>. QED
    BY <1>1, <2>2, <2>3
<1>. QED
  BY <1>2, <1>3, <1>4, <1>5

(* An editor that has the lane, beyond the drain.                          *)
LEMMA LaneEditor ==
  ASSUME HInv, lane.op \notin {"idle", "drain"}
  PROVE  /\ lane.token \in Tokens /\ editor[lane.token].phase = PhaseOf(lane.op)
         /\ lane.step \notin {"idle", "drain"} => pending = {}
         /\ lane.step \in {"first", "own"} /\ editor[lane.token].phase = "open" =>
              orders[lane.token]["release"] = 0
BY DEF HInv, IInv, LaneOwned, Orders, Openers, Retrying

LEMMA DrainedHInv == HInv /\ (DrainEnds \/ Drained) /\ IInv' => HInv'
<1> SUFFICES ASSUME HInv, DrainEnds \/ Drained, IInv' PROVE HInv'
  OBVIOUS
<1> USE DEF HInv, IInv
<1>1. /\ UNCHANGED <<serviceVars, linkVars, faults, nextOrder, editor>>
      /\ UNCHANGED <<record, doc, disk, tail, barrier, late>>
      /\ lane'.req = NoRequest /\ lane'.reply = "none" /\ lane'.step \in {"idle", "drain"}
      /\ lane.step = "drain"
      /\ \/ lane'.op = lane.op /\ lane'.token = lane.token /\ lane'.step = "drain"
         \/ lane'.op = "idle" /\ lane.op = "drain"
  <2>1. CASE DrainEnds
    BY <2>1 DEF DrainEnds, serviceVars, linkVars, IdleLane, LaneOwned
  <2>2. CASE Drained
    <3>1. lane' = [lane EXCEPT !.step = "drain", !.req = NoRequest, !.reply = "none"]
      BY <2>2 DEF Drained, Continue
    <3>2. /\ lane'.op = lane.op /\ lane'.token = lane.token /\ lane'.step = "drain"
          /\ lane'.req = NoRequest /\ lane'.reply = "none"
      BY <3>1 DEF Typed
    <3>. QED
      BY <2>2, <3>2 DEF Drained, Answered, Local, serviceVars, linkVars
  <2>. QED
    BY <2>1, <2>2
<1>2. Sent' = {}
  BY <1>1 DEF Sent
<1>3. \A s \in Tokens : /\ Begins(s)' \subseteq Begins(s) /\ Holds(s)' = Holds(s)
                        /\ Secure(s) => Secure(s)'
  BY <1>1, <1>2, NothingSent
<1>4. Links' /\ InFlight' \subseteq InFlight
  BY <1>1, NothingSentLinks
<1>5. Counts' /\ Unfinished'
  BY <1>1, <1>4 DEF Counts, Unfinished
<1>6. Opening' /\ Draining' /\ Released'
  BY <1>1 DEF Opening, Draining, Released
<1>7. CASE DrainEnds
  <2>1. UNCHANGED <<orders, pending>>
    BY <1>7 DEF DrainEnds
  <2>2. Orders' /\ Closed'
    BY <1>1, <1>3, <2>1 DEF Orders, Closed, Retrying
  <2>3. Openers'
    BY <1>1, <1>3, <1>7, <2>1 DEF DrainEnds, Openers, Untouched, Retrying
  <2>. QED
    BY <1>4, <1>5, <1>6, <2>2, <2>3
<1>8. CASE Drained
  <2>1. PICK r \in Tokens : r = lane.req.token
    BY <1>8, NoRequestKind DEF Drained, Answered, LaneOwned, Waiting, Typed, Messages
  <2>2. /\ pending' = {p \in pending : p.token # r}
        /\ orders' = [orders EXCEPT ![r] = NoOrders]
        /\ lane.reply \in Ended
    BY <1>8, <2>1 DEF Drained, Forget
  <2>3. Secure(r)
    BY <1>1, <2>1, <2>2 DEF Draining, LaneOwned, Ended
  <2>4. /\ orders'[r] = NoOrders
        /\ \A s \in Tokens : s # r => orders'[s] = orders[s] /\ Retrying(s)' = Retrying(s)
    BY <2>2 DEF Typed, Retrying
  <2>5. Orders'
    <3>1. \A s \in Tokens, k \in Kinds : orders'[s][k] \in {orders[s][k], 0}
      BY <2>4 DEF NoOrders
    <3>2. \A p \in pending' : p.order = orders'[p.token]["release"] /\ p.order # 0
      BY <2>2, <2>4 DEF Orders, Typed
    <3>3. "release" \in Kinds
      BY DEF Kinds
    <3>. QED
      BY <1>1, <1>3, <3>1, <3>2, <3>3 DEF Orders
  <2>6. Openers'
    <3>1. \A s \in Tokens : Untouched(s) => Untouched(s)'
      BY <1>3, <2>4 DEF Untouched
    <3>2. orders'[r]["release"] = 0
      BY <2>4 DEF NoOrders, Kinds
    <3>3. lane'.op = lane.op /\ lane'.token = lane.token /\ lane'.step = "drain"
      BY <1>8 DEF Drained, Continue, Typed
    <3>. QED
      BY <1>1, <2>4, <3>1, <3>2, <3>3 DEF Openers
  <2>7. Closed'
    BY <1>1, <1>3, <2>3, <2>4 DEF Closed
  <2>. QED
    BY <1>4, <1>5, <1>6, <2>5, <2>6, <2>7
<1>. QED
  BY <1>7, <1>8

(* The operations that end: for lack of a drain, by the answer to a begin, *)
(* by another answer, with a release, and by a failure.                    *)
LEMMA NotDrainedHInv == HInv /\ NotDrained /\ IInv' => HInv'
<1> SUFFICES ASSUME HInv, NotDrained, IInv' PROVE HInv'
  OBVIOUS
<1> USE DEF HInv, IInv
<1>1. /\ UNCHANGED <<serviceVars, linkVars, faults, nextOrder, orders, pending>>
      /\ lane.step = "drain" /\ OperationFails
  BY DEF NotDrained, Local
<1>2. CASE lane.op \in {"idle", "drain"}
  <2>1. UNCHANGED editor /\ lane' = IdleLane
    BY <1>1, <1>2 DEF OperationFails, Finish
  <2>2. /\ UNCHANGED <<record, doc, disk, tail, barrier, late>>
        /\ lane'.req = NoRequest /\ lane'.step = "idle" /\ lane'.op = "idle"
    BY <1>1, <2>1 DEF serviceVars, linkVars, IdleLane
  <2>3. Sent' = {}
    BY <2>2 DEF Sent
  <2>4. \A s \in Tokens : /\ Begins(s)' \subseteq Begins(s) /\ Holds(s)' = Holds(s)
                          /\ Secure(s) => Secure(s)'
    BY <2>2, <2>3, NothingSent
  <2>5. Links' /\ InFlight' \subseteq InFlight
    BY <1>1, <2>2, NothingSentLinks
  <2>6. Counts' /\ Unfinished'
    BY <2>1, <2>2, <2>5 DEF Counts, Unfinished
  <2>7. Opening' /\ Draining' /\ Released'
    BY <2>2 DEF Opening, Draining, Released
  <2>8. Orders' /\ Closed'
    BY <1>1, <2>1, <2>2, <2>4 DEF Orders, Closed, Retrying
  <2>9. Openers'
    BY <1>1, <1>2, <2>1, <2>2, <2>4 DEF Openers, Untouched, Retrying
  <2>. QED
    BY <2>5, <2>6, <2>7, <2>8, <2>9
<1>3. CASE lane.op \notin {"idle", "drain"}
  <2>1. PICK t \in Tokens : t = lane.token
    BY <1>3 DEF LaneOwned
  <2>2. PICK phase \in Phases :
          /\ editor' = [editor EXCEPT ![t].phase = phase] /\ lane' = IdleLane
          /\ phase \in {"closed", "leaving"} => ~editor[t].asked
          /\ phase \notin {"new", "opening"}
          /\ phase = "closed" => lane.op = "begin"
          /\ phase = "open" => editor[t].phase = "open"
    BY <1>1, <1>3, <2>1, FailedEditor
  <2>3. phase = "closed" =>
          ~Holds(t) /\ \A m \in late : ~(m.kind = "begin" /\ m.token = t)
    BY <1>1, <1>3, <2>1, <2>2 DEF Openers, Untouched, Begins, Flying, LaneOwned, PhaseOf
  <2>4. phase = "open" => orders[t]["release"] = 0 \/ Retrying(t)
    BY <1>1, <2>1, <2>2 DEF Openers
  <2>5. Over(t, phase)
    BY <1>1, <1>3, <2>1, <2>2, <2>3, <2>4 DEF Over
  <2>. QED
    BY <2>5, OverHInv
<1>. QED
  BY <1>2, <1>3

LEMMA BeginAnsweredHInv == HInv /\ BeginAnswered /\ IInv' => HInv'
<1> SUFFICES ASSUME HInv, BeginAnswered, IInv' PROVE HInv'
  OBVIOUS
<1> USE DEF HInv, IInv
<1>1. /\ UNCHANGED <<serviceVars, linkVars, faults, nextOrder>> /\ pending' = pending
      /\ lane.step \in {"first", "own"} /\ lane.op \in {"begin", "reacquire", "recheck"}
      /\ lane.reply \notin {"none", "serving", "failed"}
  BY DEF BeginAnswered, Answered, Local, LaneOwned, KindOf, Waiting
<1>2. PICK t \in Tokens : t = lane.token
  BY <1>1 DEF LaneOwned
<1>3. pending = {} /\ lane.op \notin {"idle", "drain"} /\ orders[t]["release"] = 0
  <2>1. lane.op = "begin" => lane.step = "first"
    BY <1>1 DEF Openers
  <2>2. lane.op # "begin" => PhaseOf(lane.op) = "open"
    BY <1>1 DEF PhaseOf
  <2>. QED
    BY <1>1, <1>2, <2>1, <2>2, LaneEditor DEF Openers
<1>4. CASE lane.reply = "accepted"
  <2>1. editor' = [editor EXCEPT ![t].phase = "open"] /\ lane' = IdleLane /\ orders' = orders
    BY <1>2, <1>4 DEF BeginAnswered, Enter, Finish
  <2>2. Over(t, "open")
    BY <1>1, <1>2, <1>3, <2>1 DEF Over
  <2>. QED
    BY <2>2, OverHInv
<1>5. CASE lane.reply = "finalized" /\ lane.op # "begin"
  <2>1. /\ editor' = [editor EXCEPT ![t].phase = "settled"] /\ lane' = IdleLane
        /\ orders' = [orders EXCEPT ![t] = NoOrders] /\ pending' = {}
    BY <1>1, <1>2, <1>3, <1>5 DEF BeginAnswered, Enter, Finish, Forget
  <2>2. Over(t, "settled")
    BY <1>1, <1>2, <1>3, <2>1 DEF Over
  <2>. QED
    BY <2>2, OverHInv
<1>6. CASE lane.reply # "accepted" /\ ~(lane.reply = "finalized" /\ lane.op # "begin")
  <2>1. OperationFails /\ orders' = [orders EXCEPT ![t] = NoOrders] /\ pending' = {}
    BY <1>1, <1>2, <1>3, <1>6 DEF BeginAnswered, Forget
  <2>2. PICK phase \in Phases :
          /\ editor' = [editor EXCEPT ![t].phase = phase] /\ lane' = IdleLane
          /\ phase \in {"closed", "leaving"} => ~editor[t].asked
          /\ phase \notin {"new", "opening"}
          /\ phase = "closed" => lane.op = "begin"
          /\ phase = "open" => editor[t].phase = "open"
    BY <1>1, <1>2, <2>1, FailedEditor
  <2>3. phase = "closed" =>
          ~Holds(t) /\ \A m \in late : ~(m.kind = "begin" /\ m.token = t)
    BY <1>1, <1>2, <1>6, <2>2 DEF Opening, Openers
  <2>4. orders'[t]["release"] = 0
    BY <2>1 DEF Typed, NoOrders, Kinds
  <2>5. Over(t, phase)
    BY <1>1, <1>2, <1>3, <2>1, <2>2, <2>3, <2>4 DEF Over
  <2>. QED
    BY <2>5, OverHInv
<1>. QED
  BY <1>4, <1>5, <1>6

LEMMA OwnAnsweredHInv == HInv /\ OwnAnswered /\ IInv' => HInv'
<1> SUFFICES ASSUME HInv, OwnAnswered, IInv' PROVE HInv'
  OBVIOUS
<1> USE DEF HInv, IInv
<1>1. /\ UNCHANGED <<serviceVars, linkVars, faults, nextOrder>> /\ pending' = pending
      /\ lane.step = "own" /\ lane.op \in {"finalize", "acknowledge", "release"}
      /\ lane.reply \notin {"none", "serving", "failed"} /\ lane' = IdleLane
  BY DEF OwnAnswered, Answered, Local, LaneOwned, KindOf, Waiting, Finish, Typed, Operations
<1>2. PICK t \in Tokens : t = lane.token
  BY <1>1 DEF LaneOwned
<1>3. /\ pending = {} /\ pending' = {} /\ lane.op \notin {"idle", "drain"}
      /\ editor[t].phase = PhaseOf(lane.op)
      /\ editor[t].phase = "open" => orders[t]["release"] = 0
  BY <1>1, <1>2, LaneEditor
<1>4. CASE lane.op = "finalize" /\ lane.reply = "finalized"
  <2>1. editor' = [editor EXCEPT ![t].phase = "settled"] /\ orders' = orders
    BY <1>2, <1>4 DEF OwnAnswered, Enter
  <2>2. Over(t, "settled")
    BY <1>1, <1>2, <2>1 DEF Over
  <2>. QED
    BY <2>2, OverHInv
<1>5. CASE lane.op = "acknowledge" /\ lane.reply \in Ended
  <2>1. editor' = [editor EXCEPT ![t].phase = "done"] /\ orders' = [orders EXCEPT ![t] = NoOrders]
    BY <1>2, <1>5 DEF OwnAnswered, Enter, Forget
  <2>2. Over(t, "done")
    BY <1>1, <1>2, <1>3, <2>1 DEF Over
  <2>. QED
    BY <2>2, OverHInv
<1>6. CASE lane.op = "release"
  <2>1. editor' = [editor EXCEPT ![t].phase = "closed"] /\ orders' = [orders EXCEPT ![t] = NoOrders]
    BY <1>2, <1>6 DEF OwnAnswered, Enter, Forget
  <2>2. ~editor[t].asked
    <3>1. editor[t].phase = "leaving"
      BY <1>3, <1>6 DEF PhaseOf
    <3>. QED
      BY <3>1 DEF Unfinished
  <2>3. Secure(t)
    BY <1>1, <1>2, <1>6 DEF Released, Releasing, LaneOwned
  <2>4. Over(t, "closed")
    BY <1>1, <1>2, <1>3, <2>1, <2>2, <2>3 DEF Over, Secure, Begins, Flying
  <2>. QED
    BY <2>4, OverHInv
<1>7. CASE /\ ~(lane.op = "finalize" /\ lane.reply = "finalized")
           /\ ~(lane.op = "acknowledge" /\ lane.reply \in Ended)
           /\ lane.op # "release"
  <2>1. editor' = editor /\ orders' = orders
    BY <1>7 DEF OwnAnswered
  <2>2. editor' = [editor EXCEPT ![t].phase = editor[t].phase]
    BY <2>1 DEF Typed
  <2>3. editor[t].phase \in {"open", "settled"}
    <3>1. lane.op \in {"finalize", "acknowledge"}
      BY <1>1, <1>7
    <3>. QED
      BY <1>3, <3>1 DEF PhaseOf
  <2>4. Over(t, editor[t].phase)
    BY <1>1, <1>2, <1>3, <2>1, <2>2, <2>3 DEF Over
  <2>. QED
    BY <2>4, OverHInv
<1>. QED
  BY <1>4, <1>5, <1>6, <1>7

LEMMA ReleaseEndsHInv == HInv /\ ReleaseEnds /\ IInv' => HInv'
<1> SUFFICES ASSUME HInv, ReleaseEnds, IInv' PROVE HInv'
  OBVIOUS
<1> USE DEF HInv, IInv
<1>1. /\ UNCHANGED <<serviceVars, linkVars, faults, nextOrder>>
      /\ lane.step \in {"abandon", "again"} /\ lane.reply \notin {"none", "serving"}
  BY DEF ReleaseEnds, Answered, Failed, Local, Waiting
<1>2. PICK t \in Tokens : t = lane.token
  BY <1>1 DEF LaneOwned
<1>3. lane.op \notin {"idle", "drain"} /\ pending = {} /\ lane.req # NoRequest
  BY <1>1, LaneEditor DEF LaneOwned
<1>4. orders[t]["release"] # 0
  BY <1>1, <1>2, <1>3 DEF Released, Releasing, Links, InFlight
<1>5. \E phase \in Phases :
        /\ editor' = [editor EXCEPT ![t].phase = phase] /\ lane' = IdleLane
        /\ phase \in {"closed", "leaving"} => ~editor[t].asked
        /\ phase \notin {"new", "opening"}
        /\ phase = "closed" => lane.op \in {"begin", "release"}
  <2>1. CASE lane.op = "release"
    <3>1. editor' = [editor EXCEPT ![t].phase = "closed"] /\ lane' = IdleLane
      BY <1>2, <2>1 DEF ReleaseEnds, Enter, Finish
    <3>2. ~editor[t].asked
      BY <1>2, <2>1 DEF LaneOwned, PhaseOf, Unfinished
    <3>. QED
      BY <2>1, <3>1, <3>2 DEF Phases
  <2>2. CASE lane.op # "release"
    <3>1. OperationFails
      BY <2>2 DEF ReleaseEnds
    <3>. QED
      BY <1>2, <1>3, <3>1, FailedEditor
  <2>. QED
    BY <2>1, <2>2
<1>6. PICK phase \in Phases :
        /\ editor' = [editor EXCEPT ![t].phase = phase] /\ lane' = IdleLane
        /\ phase \in {"closed", "leaving"} => ~editor[t].asked
        /\ phase \notin {"new", "opening"}
        /\ phase = "closed" => lane.op \in {"begin", "release"}
  BY <1>5
<1>7. CASE lane.reply \in Ended \/ (lane.op = "release" /\ lane.reply # "failed")
  <2>1. orders' = [orders EXCEPT ![t] = NoOrders] /\ pending' = pending
    BY <1>2, <1>7 DEF ReleaseEnds, Forget
  <2>2. phase = "closed" => Secure(t)
    BY <1>1, <1>2, <1>3, <1>6, <1>7 DEF Released, Releasing, Ended
  <2>3. phase = "closed" =>
          ~Holds(t) /\ \A m \in late : m.kind = "begin" /\ m.token = t =>
                          m.inc # record.inc \/ m.order <= record.lastOrder
    BY <2>2 DEF Secure, Begins, Flying
  <2>4. orders'[t]["release"] = 0
    BY <2>1 DEF Typed, NoOrders, Kinds
  <2>5. Over(t, phase)
    BY <1>1, <1>2, <1>3, <1>6, <2>1, <2>3, <2>4 DEF Over
  <2>. QED
    BY <2>5, OverHInv
<1>8. CASE ~(lane.reply \in Ended \/ (lane.op = "release" /\ lane.reply # "failed"))
  <2>1. orders' = orders /\ pending' = {[token |-> t, order |-> orders[t]["release"]]}
    BY <1>2, <1>3, <1>8 DEF ReleaseEnds, Retained
  <2>2. pending' # pending
    BY <1>3, <2>1
  <2>3. Over(t, phase)
    BY <1>1, <1>2, <1>3, <1>4, <1>6, <2>1, <2>2 DEF Over
  <2>. QED
    BY <2>3, OverHInv
<1>. QED
  BY <1>7, <1>8

(* A request that fails is followed by a release, or it is the end.        *)
LEMMA OwnFailsHInv == HInv /\ OwnFails /\ IInv' => HInv'
<1> SUFFICES ASSUME HInv, OwnFails, IInv' PROVE HInv'
  OBVIOUS
<1> USE DEF HInv, IInv
<1>1. /\ UNCHANGED <<serviceVars, linkVars, faults, nextOrder>>
      /\ orders' = orders /\ pending' = pending
      /\ lane.step \in {"first", "abandon", "own"} /\ lane.reply = "failed"
  BY DEF OwnFails, Failed, Local
<1>2. PICK t \in Tokens : t = lane.token
  BY <1>1 DEF LaneOwned
<1>3. lane.op \notin {"idle", "drain"} /\ pending = {} /\ editor[t].phase = PhaseOf(lane.op)
  BY <1>1, <1>2, LaneEditor DEF LaneOwned
<1>4. CASE lane.step \in {"first", "abandon"} \/ lane.op = "release"
  <2>1. editor' = editor
        /\ \E next \in {"abandon", "again"} :
             lane' = [lane EXCEPT !.step = next, !.req = NoRequest, !.reply = "none"]
    BY <1>1, <1>4 DEF OwnFails, Continue
  <2>2. /\ lane'.step \in {"abandon", "again"} /\ lane'.req = NoRequest
        /\ lane'.op = lane.op /\ lane'.token = lane.token
    BY <2>1 DEF Typed
  <2>3. UNCHANGED <<record, doc, disk, tail, barrier, late>>
    BY <1>1 DEF serviceVars, linkVars
  <2>4. Sent' = {}
    BY <2>2 DEF Sent
  <2>5. \A s \in Tokens : /\ Begins(s)' \subseteq Begins(s) /\ Holds(s)' = Holds(s)
                          /\ Secure(s) => Secure(s)'
    BY <2>3, <2>4, NothingSent
  <2>6. Links' /\ InFlight' \subseteq InFlight
    BY <1>1, <2>2, <2>3, NothingSentLinks
  <2>7. Counts' /\ Unfinished'
    BY <2>1, <2>2, <2>3, <2>6 DEF Counts, Unfinished
  <2>8. Opening' /\ Draining' /\ Released'
    BY <2>2 DEF Opening, Draining, Released
  <2>9. Orders' /\ Closed'
    BY <1>1, <1>3, <2>1, <2>3, <2>5 DEF Orders, Closed, Retrying
  <2>10. Openers'
    BY <1>1, <1>2, <1>3, <2>1, <2>2, <2>5 DEF Openers, Untouched, Retrying
  <2>. QED
    BY <2>6, <2>7, <2>8, <2>9, <2>10
<1>5. CASE lane.step = "own" /\ lane.op # "release"
  <2>1. OperationFails
    BY <1>5 DEF OwnFails
  <2>2. PICK phase \in Phases :
          /\ editor' = [editor EXCEPT ![t].phase = phase] /\ lane' = IdleLane
          /\ phase \in {"closed", "leaving"} => ~editor[t].asked
          /\ phase \notin {"new", "opening"}
          /\ phase = "closed" => lane.op = "begin"
          /\ phase = "open" => editor[t].phase = "open"
    BY <1>2, <1>3, <2>1, FailedEditor
  <2>3. phase # "closed"
    BY <1>5, <2>2 DEF Openers
  <2>4. phase = "open" => orders[t]["release"] = 0
    BY <1>2, <1>3, <1>5, <2>2, LaneEditor
  <2>5. Over(t, phase)
    BY <1>1, <1>2, <1>3, <2>2, <2>3, <2>4 DEF Over
  <2>. QED
    BY <2>5, OverHInv
<1>. QED
  BY <1>1, <1>4, <1>5

-----------------------------------------------------------------------------
LEMMA HStep == HInv /\ [Next]_vars => HInv'
<1> SUFFICES ASSUME HInv, [Next]_vars PROVE HInv'
  OBVIOUS
<1>1. IInv'
  BY Inductive DEF HInv
<1>2. CASE Editors
  BY <1>1, <1>2, EditorsHInv
<1>3. CASE Lane
  BY <1>1, <1>3, StartDrainHInv, SendPendingHInv, SendOwnHInv, SendReleaseHInv, DrainedHInv,
     NotDrainedHInv, BeginAnsweredHInv, OwnAnsweredHInv, ReleaseEndsHInv, OwnFailsHInv
     DEF Lane, Receive
<1>4. CASE Others
  BY <1>1, <1>4, OthersHInv
<1>5. CASE UNCHANGED vars
  <2>1. UNCHANGED <<record, doc, disk, tail, barrier, editor, lane, orders, nextOrder, pending,
                    late, att, closing, made, faults>>
    BY <1>5 DEF vars, serviceVars, clientVars, clientVarsButLane, linkVars
  <2>2. /\ InFlight' = InFlight /\ Releasing' = Releasing
        /\ \A s \in Tokens : /\ Begins(s)' = Begins(s) /\ Holds(s)' = Holds(s)
                             /\ Retrying(s)' = Retrying(s)
    BY <2>1 DEF InFlight, Releasing, Begins, Flying, Sent, Holds, Retrying
  <2>3. \A s \in Tokens : Secure(s)' = Secure(s) /\ Untouched(s)' = Untouched(s)
    BY <2>1, <2>2 DEF Secure, Untouched
  <2>4. Links' /\ Counts' /\ Unfinished' /\ Orders'
    BY <2>1, <2>2 DEF HInv, Links, Counts, Unfinished, Orders
  <2>5. Openers'
    BY <2>1, <2>2, <2>3 DEF HInv, Openers
  <2>6. Opening'
    BY <2>1, <2>2, LaneEditor DEF HInv, Opening
  <2>7. Draining'
    <3>1. CASE lane.step = "drain" /\ lane.req # NoRequest
      <4>1. lane.req.token \in Tokens
        BY <3>1 DEF HInv, IInv, Typed, Messages
      <4>. QED
        BY <2>1, <2>3, <3>1, <4>1 DEF HInv, Draining
    <3>2. CASE ~(lane.step = "drain" /\ lane.req # NoRequest)
      BY <2>1, <3>2 DEF Draining
    <3>. QED
      BY <3>1, <3>2
  <2>8. Released'
    <3>1. CASE Releasing /\ lane.req # NoRequest
      <4>1. lane.token \in Tokens
        BY <3>1 DEF HInv, IInv, LaneOwned, Releasing
      <4>. QED
        BY <2>1, <2>2, <2>3, <3>1, <4>1 DEF HInv, Released
    <3>2. CASE ~(Releasing /\ lane.req # NoRequest)
      BY <2>1, <2>2, <3>2 DEF Released
    <3>. QED
      BY <3>1, <3>2
  <2>9. Closed'
    BY <2>1, <2>2, <2>3 DEF HInv, Closed
  <2>. QED
    BY <1>1, <2>4, <2>5, <2>6, <2>7, <2>8, <2>9 DEF HInv
<1>. QED
  BY <1>2, <1>3, <1>4, <1>5 DEF Next, Others, Rest

(* Every variable keeps its type and its bounds: a hold is of the document *)
(* generation that memory has, no more receipts than MaxReceipts are kept, *)
(* and no order is given twice (review-interactions.ts beginWith and       *)
(* finalizeWith, authoring-session.ts attachmentOrderedInteractionTransport).*)
THEOREM InteractionsAreTyped == Spec => []TypeOK
<1>1. HInv => TypeOK
  <2> SUFFICES ASSUME HInv PROVE TypeOK
    OBVIOUS
  <2> USE DEF HInv, IInv
  <2>1. \A m \in InFlight : m \in Requests
    <3> SUFFICES ASSUME NEW m \in InFlight PROVE m \in Requests
      OBVIOUS
    <3>1. m \in Messages
      BY DEF InFlight, Typed
    <3>2. m.inc \in 1..MaxConnections /\ m.order # 0 /\ m.gen \in 0..MaxGeneration
      BY <3>1, ProtocolAssumption, InteractionsAssumption DEF Links, Typed, Messages
    <3>. QED
      BY <3>1, <3>2 DEF Messages, Requests
  <2>2. /\ tail \in Requests \cup {NoRequest} /\ barrier \in Requests \cup {NoRequest}
        /\ lane.req \in Requests \cup {NoRequest} /\ late \subseteq Requests
    BY <2>1, NoRequestKind DEF InFlight, Typed
  <2>3. pending \subseteq [token : Tokens, order : 1..nextOrder]
    <3> SUFFICES ASSUME NEW p \in pending PROVE p \in [token : Tokens, order : 1..nextOrder]
      OBVIOUS
    <3>1. p \in [token : Tokens, order : Nat] /\ p.order # 0 /\ p.order < nextOrder
      BY DEF Typed, Orders, Kinds
    <3>. QED
      BY <3>1 DEF Typed
  <2>4. doc.receipts \subseteq Tokens
    BY DEF Typed, Docs
  <2>5. record.inc \in 0..MaxConnections /\ att \in 0..made
    BY ProtocolAssumption DEF Links, Typed
  <2>. QED
    BY <2>2, <2>3, <2>4, <2>5 DEF TypeOK, Links, Counts, Orders, Typed
<1>. QED
  BY InitHInv, HStep, <1>1, PTL DEF Spec

(* No request that was overtaken, repeated or came late brings back a hold *)
(* that its editor gave up: a closed editor holds nothing, on this         *)
(* connection or an earlier one, unless its release is still tried         *)
(* (review-interactions.ts lastOrder and the fences; authoring-session.ts   *)
(* retainPendingInteractionRelease, drainPendingInteractionReleases).      *)
THEOREM HoldsEndWithTheirEditors == Spec => []HoldsAreOwned
<1>1. HInv => HoldsAreOwned
  BY DEF HInv, Closed, Secure, HoldsAreOwned
<1>. QED
  BY InitHInv, HStep, <1>1, PTL DEF Spec

=============================================================================
