------------------------- MODULE InteractionProofs -------------------------
(***************************************************************************)
(* Proof of ReceiptsAnswer for any number of editors, receipts, document   *)
(* generations, connections and faults: no receipt is lost, and nobody is  *)
(* told of a completion that is not on disk.                               *)
(***************************************************************************)
EXTENDS InteractionProtocol, TLAPS

Messages == [kind : Kinds, token : Tokens, order : Nat, inc : Nat, gen : Nat]
Docs == [gen : Nat, finished : SUBSET Tokens, receipts : SUBSET Tokens]
Operations == {"idle", "drain", "begin", "reacquire", "recheck", "finalize", "release",
               "acknowledge"}
Steps == {"idle", "drain", "first", "own", "abandon", "again"}
Replies == {"none", "serving", "failed", "unauthorized", "finalized", "stale", "accepted",
            "out-of-order", "released", "missing", "backpressure", "error"}

Typed ==
  /\ doc \in Docs /\ disk \in Docs
  /\ tail \in Messages \cup {NoRequest} /\ barrier \in Messages \cup {NoRequest}
  /\ late \subseteq Messages
  /\ editor \in [Tokens -> [phase : Phases, gen : Nat, asked : BOOLEAN]]
  /\ lane \in [op : Operations, token : Tokens \cup {"none"}, step : Steps,
               req : Messages \cup {NoRequest}, reply : Replies]
  /\ orders \in [Tokens -> [Kinds -> Nat]] /\ nextOrder \in Nat
  /\ pending \subseteq [token : Tokens, order : Nat]
  /\ att \in Nat /\ made \in Nat

(* Who has the lane is in the phase the operation belongs to, and its own  *)
(* request is the one of its kind.                                         *)
PhaseOf(op) ==
  CASE op = "begin" -> "opening" [] op = "release" -> "leaving"
    [] op = "acknowledge" -> "settled" [] OTHER -> "open"
LaneOwned ==
  /\ lane.op \notin {"idle", "drain"} =>
       lane.token \in Tokens /\ editor[lane.token].phase = PhaseOf(lane.op)
  /\ lane.op \in {"idle", "drain"} => lane.step = lane.op
  /\ lane.op = "idle" => lane.req = NoRequest
  /\ lane.step = "first" => KindOf(lane.op) = "begin"
  /\ lane.reply # "none" => lane.req # NoRequest
  /\ lane.req # NoRequest =>
       IF lane.step \in {"first", "own"}
       THEN lane.req.kind = KindOf(lane.op) /\ lane.req.token = lane.token
       ELSE lane.req.kind = "release"

(* Nobody acknowledges a receipt that its editor does not know.            *)
InFlight == (late \cup {lane.req, tail, barrier}) \ {NoRequest}
Known(t) == editor[t].phase \in {"settled", "done"}
AcknowledgedByItsEditor == \A m \in InFlight : m.kind = "acknowledge" => Known(m.token)

(* What memory has and what the disk has: the same, unless a commit has an *)
(* unknown outcome; then the disk may have its successor.                  *)
MemoryAndDisk ==
  /\ tail # NoRequest => barrier = NoRequest
  /\ tail # NoRequest => tail.kind \in {"finalize", "acknowledge"}
  /\ barrier # NoRequest => barrier.kind \in {"finalize", "acknowledge"}
  /\ disk = doc \/ (barrier # NoRequest /\ disk = Successor(barrier))
  /\ doc.receipts \subseteq doc.finished
  /\ disk.receipts \subseteq disk.finished

(* An answer "finalized" is about a completion that is on disk.            *)
ToldTruly ==
  /\ lane.reply = "serving" => tail = lane.req
  /\ (lane.reply = "finalized" /\ lane.step \in {"first", "own"}) =>
       lane.token \in disk.finished

IInv ==
  /\ Typed
  /\ LaneOwned
  /\ AcknowledgedByItsEditor
  /\ MemoryAndDisk
  /\ ToldTruly
  /\ ReceiptsAnswer

-----------------------------------------------------------------------------
LEMMA InitIInv == Init => IInv
<1> SUFFICES ASSUME Init PROVE IInv
  OBVIOUS
<1> USE DEF Init, ServiceInit, IdleLane, NoRequest, NoOrders
<1>1. Typed
  BY ProtocolAssumption DEF Typed, Docs, Operations, Steps, Replies, Phases, Kinds
<1>2. LaneOwned /\ AcknowledgedByItsEditor /\ MemoryAndDisk /\ ToldTruly /\ ReceiptsAnswer
  BY DEF LaneOwned, AcknowledgedByItsEditor, InFlight, MemoryAndDisk, ToldTruly, ReceiptsAnswer
<1>. QED
  BY <1>1, <1>2 DEF IInv

-----------------------------------------------------------------------------
(* Types.                                                                  *)
LEMMA EnterTyped ==
  ASSUME Typed, NEW t \in Tokens, NEW p \in Phases, Enter(t, p)
  PROVE  editor' \in [Tokens -> [phase : Phases, gen : Nat, asked : BOOLEAN]]
BY DEF Typed, Enter

LEMMA EditorsTyped == Typed /\ LaneOwned /\ Editors => Typed'
<1> SUFFICES ASSUME Typed, LaneOwned, NEW t \in Tokens,
                    StartBegin(t) \/ StartReacquire(t) \/ StartFinalize(t)
                    \/ StartRelease(t) \/ StartAcknowledge(t) \/ Leave(t)
             PROVE  Typed'
  BY DEF Editors
<1> USE DEF Typed
<1>1. ASSUME NEW op \in Operations, Take(op, t),
             editor' \in [Tokens -> [phase : Phases, gen : Nat, asked : BOOLEAN]]
      PROVE  Typed'
  BY <1>1 DEF Take, IdleLane, NoRequest, Steps, Replies, serviceVars, linkVars
<1>2. CASE StartBegin(t)
  <2>1. editor' \in [Tokens -> [phase : Phases, gen : Nat, asked : BOOLEAN]]
    <3>1. doc.gen \in Nat
      BY DEF Docs
    <3>2. [editor[t] EXCEPT !.phase = "opening", !.gen = doc.gen]
            \in [phase : Phases, gen : Nat, asked : BOOLEAN]
      <4>1. "opening" \in Phases /\ editor[t] \in [phase : Phases, gen : Nat, asked : BOOLEAN]
        BY DEF Phases
      <4>. QED
        BY <3>1, <4>1
    <3>3. editor' = [editor EXCEPT ![t] = [editor[t] EXCEPT !.phase = "opening", !.gen = doc.gen]]
      BY <1>2 DEF StartBegin
    <3>. QED
      BY <3>2, <3>3
  <2>. QED
    BY <1>1, <1>2, <2>1 DEF StartBegin, Operations
<1>3. CASE StartReacquire(t)
  BY <1>1, <1>3 DEF StartReacquire, Operations
<1>4. CASE StartFinalize(t)
  <2>1. editor' \in [Tokens -> [phase : Phases, gen : Nat, asked : BOOLEAN]]
    BY <1>4 DEF StartFinalize
  <2>. QED
    BY <1>1, <1>4, <2>1 DEF StartFinalize, Operations
<1>5. CASE StartRelease(t)
  BY <1>1, <1>5 DEF StartRelease, Operations
<1>6. CASE StartAcknowledge(t)
  BY <1>1, <1>6 DEF StartAcknowledge, Operations
<1>7. CASE Leave(t)
  BY <1>7, EnterTyped DEF Leave, Quit, Phases, serviceVars, linkVars
<1>. QED
  BY <1>2, <1>3, <1>4, <1>5, <1>6, <1>7

LEMMA SendTyped == Typed /\ LaneOwned /\ (SendPending \/ SendOwn \/ SendRelease) => Typed'
<1> SUFFICES ASSUME Typed, LaneOwned, SendPending \/ SendOwn \/ SendRelease PROVE Typed'
  OBVIOUS
<1> USE DEF Typed
<1>1. ASSUME NEW kind \in Kinds, NEW t \in Tokens, NEW order \in Nat
      PROVE  Request(kind, t, order) \in Messages
  BY <1>1 DEF Request, Messages
<1>2. ASSUME NEW kind \in Kinds, NEW t \in Tokens, Allocate(t, kind)
      PROVE  /\ Ordered(t, kind) \in Nat
             /\ orders' \in [Tokens -> [Kinds -> Nat]] /\ nextOrder' \in Nat
  BY <1>2 DEF Allocate, Ordered
<1>3. ASSUME NEW step \in Steps, NEW m \in Messages, SendAs(step, m)
      PROVE  lane' \in [op : Operations, token : Tokens \cup {"none"}, step : Steps,
                        req : Messages \cup {NoRequest}, reply : Replies]
  BY <1>3 DEF SendAs
<1>4. CASE SendPending
  <2>1. PICK p \in pending : SendAs("drain", Request("release", p.token, p.order))
    BY <1>4 DEF SendPending
  <2>. QED
    BY <1>1, <1>3, <1>4, <2>1 DEF SendPending, Kinds, Steps, serviceVars, linkVars
<1>5. CASE SendOwn
  <2>1. lane.token \in Tokens /\ KindOf(lane.op) \in Kinds
    BY <1>5 DEF SendOwn, Unsent, LaneOwned, KindOf, Kinds, Operations
  <2>. QED
    BY <1>1, <1>2, <1>3, <1>5, <2>1 DEF SendOwn, Steps, serviceVars, linkVars
<1>6. CASE SendRelease
  <2>1. lane.token \in Tokens
    BY <1>6 DEF SendRelease, LaneOwned, Operations
  <2>. QED
    BY <1>1, <1>2, <1>3, <1>6, <2>1 DEF SendRelease, Steps, Kinds, serviceVars, linkVars
<1>. QED
  BY <1>4, <1>5, <1>6

LEMMA ReceiveTyped == Typed /\ LaneOwned /\ (DrainEnds \/ Receive) => Typed'
<1> SUFFICES ASSUME Typed, LaneOwned, DrainEnds \/ Receive PROVE Typed'
  OBVIOUS
<1> DEFINE Lanes == [op : Operations, token : Tokens \cup {"none"}, step : Steps,
                     req : Messages \cup {NoRequest}, reply : Replies]
           Editing == [Tokens -> [phase : Phases, gen : Nat, asked : BOOLEAN]]
<1> USE DEF Typed
<1>1. Finish => lane' \in Lanes
  BY DEF Finish, IdleLane, Operations, Steps, Replies
<1>2. ASSUME NEW step \in Steps, Continue(step) PROVE lane' \in Lanes
  BY <1>2 DEF Continue, Replies
<1>3. OperationFails => editor' \in Editing /\ lane' \in Lanes
  <2> SUFFICES ASSUME OperationFails PROVE editor' \in Editing /\ lane' \in Lanes
    OBVIOUS
  <2>1. CASE lane.op \in {"begin", "reacquire", "release"}
    <3>1. lane.token \in Tokens
      BY <2>1 DEF LaneOwned
    <3>2. \E p \in Phases : Enter(lane.token, p)
      BY <2>1 DEF OperationFails, Quit, Phases
    <3>. QED
      BY <1>1, <3>1, <3>2, EnterTyped DEF OperationFails
  <2>2. CASE lane.op \notin {"begin", "reacquire", "release"}
    BY <1>1, <2>2 DEF OperationFails
  <2>. QED
    BY <2>1, <2>2
<1>4. ASSUME NEW t, Forget(t) PROVE orders' \in [Tokens -> [Kinds -> Nat]]
  BY <1>4 DEF Forget, NoOrders
<1> USE DEF Local, serviceVars, linkVars
<1>5. CASE DrainEnds
  BY <1>1, <1>5 DEF DrainEnds, Finish
<1>6. CASE Drained
  BY <1>2, <1>4, <1>6 DEF Drained, Steps
<1>7. CASE NotDrained
  BY <1>3, <1>7 DEF NotDrained
<1>8. CASE BeginAnswered
  <2>1. lane.token \in Tokens
    BY <1>8 DEF BeginAnswered, Answered, LaneOwned, KindOf, Operations
  <2>2. ASSUME NEW p \in Phases, Enter(lane.token, p) PROVE editor' \in Editing
    BY <2>1, <2>2, EnterTyped
  <2>. QED
    BY <1>1, <1>3, <1>4, <1>8, <2>2 DEF BeginAnswered, Phases
<1>9. CASE OwnAnswered
  <2>1. lane.token \in Tokens
    BY <1>9 DEF OwnAnswered, Answered, LaneOwned, KindOf, Operations
  <2>2. ASSUME NEW p \in Phases, Enter(lane.token, p) PROVE editor' \in Editing
    BY <2>1, <2>2, EnterTyped
  <2>. QED
    BY <1>1, <1>4, <1>9, <2>2 DEF OwnAnswered, Phases
<1>10. CASE ReleaseEnds
  <2>1. lane.token \in Tokens
    BY <1>10 DEF ReleaseEnds, Answered, Failed, LaneOwned, Operations
  <2>2. ASSUME NEW p \in Phases, Enter(lane.token, p) PROVE editor' \in Editing
    BY <2>1, <2>2, EnterTyped
  <2>3. Retained(lane.token) \subseteq [token : Tokens, order : Nat]
    BY <2>1 DEF Retained, Kinds
  <2>. QED
    BY <1>1, <1>3, <1>4, <1>10, <2>2, <2>3 DEF ReleaseEnds, Phases
<1>11. CASE OwnFails
  BY <1>2, <1>3, <1>11 DEF OwnFails, Steps
<1>. QED
  BY <1>5, <1>6, <1>7, <1>8, <1>9, <1>10, <1>11 DEF Receive

(* What the service may answer, and the commit it starts.                  *)
Answers == (Replies \ {"none", "serving", "failed"}) \cup {"commit"}
LEMMA AnswerTyped ==
  ASSUME NEW m \in Messages
  PROVE  /\ Answer(m) \in Answers
         /\ Answer(m) = "commit" => m.kind \in {"finalize", "acknowledge"}
<1>1. BeginAnswer(m) \in Answers \ {"commit"}
  BY DEF BeginAnswer, Answers, Replies
<1>2. ReleaseAnswer(m) \in Answers \ {"commit"}
  BY DEF ReleaseAnswer, Answers, Replies
<1>3. FinalizeAnswer(m) \in Answers
  BY DEF FinalizeAnswer, Answers, Replies
<1>4. AcknowledgeAnswer(m) \in Answers
  BY DEF AcknowledgeAnswer, Answers, Replies
<1>5. m.kind \in Kinds
  BY DEF Messages
<1>. QED
  BY <1>1, <1>2, <1>3, <1>4, <1>5 DEF Answer, Kinds

LEMMA Serves ==
  ASSUME NEW m \in Messages, Serve(m)
  PROVE  /\ TailFree
         /\ tail' = IF Answer(m) = "commit" THEN m ELSE tail
         /\ UNCHANGED <<doc, disk, barrier, clientVarsButLane, att, closing, made, faults>>
<1>1. m.kind \in Kinds
  BY DEF Messages
<1>2. CASE ServeBegin(m)
  BY <1>2 DEF Serve, ServeBegin, Begin, Answer, BeginAnswer
<1>3. CASE ServeRelease(m)
  BY <1>3 DEF Serve, ServeRelease, Release, Answer, ReleaseAnswer
<1>4. CASE ServeFinalize(m)
  BY <1>4 DEF Serve, ServeFinalize, Finalize, Answer
<1>5. CASE ServeAcknowledge(m)
  BY <1>5 DEF Serve, ServeAcknowledge, Acknowledge, Answer
<1>. QED
  BY <1>2, <1>3, <1>4, <1>5 DEF Serve

LEMMA SuccessorTyped ==
  ASSUME Typed, NEW m \in Messages
  PROVE  Successor(m) \in Docs
BY DEF Typed, Successor, Docs, Messages

LEMMA ServiceTyped == Typed /\ (Service \/ Commits) => Typed'
<1> SUFFICES ASSUME Typed, Service \/ Commits PROVE Typed'
  OBVIOUS
<1>1. CASE ServeSent
  <2>1. PICK m \in Sent : Serve(m) /\ Reply(Answer(m))
    BY <1>1 DEF ServeSent
  <2>2. m \in Messages
    BY <2>1 DEF Sent, Typed
  <2>. QED
    BY <2>1, <2>2, AnswerTyped, Serves DEF Reply, Typed, Answers, Replies, clientVarsButLane
<1>2. CASE ServeLate
  <2>1. PICK m \in late : Serve(m) /\ late' = late \ {m} /\ UNCHANGED lane
    BY <1>2 DEF ServeLate
  <2>2. m \in Messages
    BY <2>1 DEF Typed
  <2>. QED
    BY <2>1, <2>2, Serves DEF Typed, clientVarsButLane
<1>3. ASSUME NEW answer \in Replies, CommitReply(answer)
      PROVE  lane' \in [op : Operations, token : Tokens \cup {"none"}, step : Steps,
                        req : Messages \cup {NoRequest}, reply : Replies]
  BY <1>3 DEF CommitReply, Typed
<1> USE DEF clientVarsButLane, linkVars
<1>4. CASE CommitEnds
  BY <1>3, <1>4, SuccessorTyped DEF CommitEnds, Committed, CommitReply, Typed, Replies
<1>5. CASE CommitFails
  BY <1>3, <1>5, SuccessorTyped
     DEF CommitFails, NotCommitted, Uncertain, CommitReply, Typed, Replies
<1>6. CASE BarrierSettles
  BY <1>6 DEF BarrierSettles, Settle, Typed, clientVars
<1>. QED
  BY <1>1, <1>2, <1>4, <1>5, <1>6 DEF Service, Commits

LEMMA AdvancedTyped ==
  ASSUME NEW d \in Docs
  PROVE  [d EXCEPT !.gen = d.gen + 1] \in Docs
BY DEF Docs

LEMMA LinkTyped ==
  Typed /\ (Refused \/ RefusedLate \/ RequestFails \/ Link \/ NewGeneration) => Typed'
<1> SUFFICES ASSUME Typed, Refused \/ RefusedLate \/ RequestFails \/ Link \/ NewGeneration
             PROVE  Typed'
  OBVIOUS
<1> USE DEF Typed, serviceVars, clientVarsButLane, clientVars, linkVars
<1>1. CASE Refused
  BY <1>1 DEF Refused, Reply, Replies
<1>2. CASE RefusedLate
  BY <1>2 DEF RefusedLate
<1>3. CASE RequestFails
  BY <1>3 DEF RequestFails, Sent, Replies
<1>4. CASE Connect \/ Lose
  BY <1>4 DEF Connect, Lose, Register
<1>5. CASE \E inc \in closing : Notice(inc)
  BY <1>5 DEF Notice, Disconnect
<1>6. CASE Crash
  BY <1>6, SuccessorTyped DEF Crash, ServiceDies, Hydrated, Replies, NoRequest
<1>7. CASE NewGeneration
  <2>1. doc' = [doc EXCEPT !.gen = doc.gen + 1] /\ disk' = doc'
    BY <1>7 DEF NewGeneration, Replace
  <2>2. doc' \in Docs /\ disk' \in Docs
    BY <2>1, AdvancedTyped
  <2>. QED
    BY <1>7, <2>2 DEF NewGeneration, Replace
<1>. QED
  BY <1>1, <1>2, <1>3, <1>4, <1>5, <1>6, <1>7 DEF Link

-----------------------------------------------------------------------------
(* The lane.                                                               *)
LEMMA LaneFree == lane' = IdleLane => LaneOwned'
BY DEF LaneOwned, IdleLane

LEMMA OnlyReply ==
  ASSUME Typed, LaneOwned, UNCHANGED editor, NEW reply,
         \/ lane.req # NoRequest /\ lane' = [lane EXCEPT !.reply = reply]
         \/ UNCHANGED lane
  PROVE  LaneOwned'
BY DEF Typed, LaneOwned, PhaseOf, KindOf

LEMMA EditorsOwned == Typed /\ LaneOwned /\ Editors => LaneOwned'
<1> SUFFICES ASSUME Typed, LaneOwned, NEW t \in Tokens,
                    StartBegin(t) \/ StartReacquire(t) \/ StartFinalize(t)
                    \/ StartRelease(t) \/ StartAcknowledge(t) \/ Leave(t)
             PROVE  LaneOwned'
  BY DEF Editors
<1>1. ASSUME NEW op \in Operations \ {"idle", "drain"}, Take(op, t),
             editor'[t].phase = PhaseOf(op)
      PROVE  LaneOwned'
  BY <1>1 DEF Take, IdleLane, LaneOwned, PhaseOf
<1>2. CASE StartBegin(t)
  BY <1>1, <1>2 DEF StartBegin, Typed, Operations, PhaseOf
<1>3. CASE StartReacquire(t)
  BY <1>1, <1>3 DEF StartReacquire, Typed, Operations, PhaseOf
<1>4. CASE StartFinalize(t)
  BY <1>1, <1>4 DEF StartFinalize, Typed, Operations, PhaseOf
<1>5. CASE StartRelease(t)
  BY <1>1, <1>5 DEF StartRelease, Typed, Operations, PhaseOf
<1>6. CASE StartAcknowledge(t)
  BY <1>1, <1>6 DEF StartAcknowledge, Typed, Operations, PhaseOf
<1>7. CASE Leave(t)
  BY <1>7 DEF Leave, Enter, Typed, LaneOwned, PhaseOf, KindOf
<1>. QED
  BY <1>2, <1>3, <1>4, <1>5, <1>6, <1>7

LEMMA LaneStepsOwned == Typed /\ LaneOwned /\ Lane => LaneOwned'
<1> SUFFICES ASSUME Typed, LaneOwned, Lane PROVE LaneOwned'
  OBVIOUS
<1>1. CASE StartDrain
  BY <1>1 DEF StartDrain, Take, IdleLane, LaneOwned
<1>2. ASSUME NEW step \in {"drain", "first", "own", "abandon", "again"}, NEW m, SendAs(step, m),
             m # NoRequest, UNCHANGED editor, lane.op # "idle",
             lane.op = "drain" => step = "drain",
             step = "first" => KindOf(lane.op) = "begin",
             IF step \in {"first", "own"} THEN m.kind = KindOf(lane.op) /\ m.token = lane.token
             ELSE m.kind = "release"
      PROVE  LaneOwned'
  BY <1>2 DEF SendAs, Typed, LaneOwned, PhaseOf, KindOf
<1>3. CASE SendPending
  BY <1>2, <1>3 DEF SendPending, Request, NoRequest, LaneOwned
<1>4. CASE SendOwn
  <2>1. KindOf(lane.op) # "none" /\ lane.op # "idle"
    BY <1>4 DEF SendOwn, LaneOwned, KindOf, Typed, Operations
  <2>. QED
    BY <1>2, <1>4, <2>1 DEF SendOwn, Request, NoRequest, LaneOwned
<1>5. CASE SendRelease
  <2>1. lane.op \notin {"idle", "drain"}
    BY <1>5 DEF SendRelease, LaneOwned
  <2>. QED
    BY <1>2, <1>5, <2>1 DEF SendRelease, Request, NoRequest
<1>6. CASE DrainEnds
  BY <1>6, LaneFree DEF DrainEnds
<1>7. ASSUME NEW step \in {"drain", "abandon", "again"}, Continue(step), UNCHANGED editor,
             step = "drain" \/ lane.op \notin {"idle", "drain"}, lane.op # "idle"
      PROVE  LaneOwned'
  BY <1>7 DEF Continue, Typed, LaneOwned, PhaseOf
<1>8. CASE Drained
  BY <1>7, <1>8 DEF Drained, Answered, LaneOwned
<1>9. CASE NotDrained \/ BeginAnswered \/ OwnAnswered
  BY <1>9, LaneFree DEF NotDrained, BeginAnswered, OwnAnswered, OperationFails, Finish
<1>10. CASE ReleaseEnds
  BY <1>10, LaneFree DEF ReleaseEnds, OperationFails, Finish
<1>11. CASE OwnFails
  BY <1>7, <1>11, LaneFree DEF OwnFails, Failed, OperationFails, Finish, LaneOwned
<1>. QED
  BY <1>1, <1>3, <1>4, <1>5, <1>6, <1>8, <1>9, <1>10, <1>11 DEF Lane, Receive

LEMMA LinkOwned ==
  /\ Typed /\ LaneOwned
  /\ Service \/ Commits \/ Refused \/ RefusedLate \/ RequestFails \/ Link \/ NewGeneration
  => LaneOwned'
<1> SUFFICES ASSUME Typed, LaneOwned,
                    Service \/ Commits \/ Refused \/ RefusedLate \/ RequestFails \/ Link
                    \/ NewGeneration
             PROVE  LaneOwned'
  OBVIOUS
<1> USE DEF clientVarsButLane, clientVars, linkVars
<1>1. CASE ServeSent
  BY <1>1, OnlyReply DEF ServeSent, Sent, Serve, Reply
<1>2. CASE ServeLate
  BY <1>2, OnlyReply DEF ServeLate, Serve
<1>3. CASE CommitEnds \/ CommitFails
  BY <1>3, OnlyReply DEF CommitEnds, CommitFails, CommitReply, LaneOwned
<1>4. CASE BarrierSettles
  BY <1>4, OnlyReply DEF BarrierSettles
<1>5. CASE Refused \/ RefusedLate
  BY <1>5, OnlyReply DEF Refused, RefusedLate, Reply, Sent
<1>6. CASE RequestFails
  BY <1>6, OnlyReply DEF RequestFails
<1>7. CASE Link
  BY <1>7, OnlyReply DEF Link, Connect, Lose, Notice, Crash
<1>8. CASE NewGeneration
  BY <1>8, OnlyReply DEF NewGeneration
<1>. QED
  BY <1>1, <1>2, <1>3, <1>4, <1>5, <1>6, <1>7, <1>8 DEF Service, Commits

-----------------------------------------------------------------------------
(* An editor that knows its receipt never forgets it, and one that learns  *)
(* of it finds its completion on disk.                                     *)
LEMMA KnownStep ==
  ASSUME Typed, LaneOwned, ToldTruly, Editors \/ Lane, NEW t \in Tokens
  PROVE  /\ Known(t) => Known(t)'
         /\ Known(t)' => Known(t) \/ t \in disk.finished
<1>1. ASSUME UNCHANGED editor PROVE Known(t)' = Known(t)
  BY <1>1 DEF Known
<1>2. ASSUME NEW s \in Tokens, editor[s].phase \notin {"settled", "done"},
             NEW p \in Phases \ {"settled", "done"}, Enter(s, p)
      PROVE  Known(t)' = Known(t)
  BY <1>2 DEF Known, Enter, Typed
<1>3. OperationFails => Known(t)' = Known(t)
  <2> SUFFICES ASSUME OperationFails PROVE Known(t)' = Known(t)
    OBVIOUS
  <2>1. CASE lane.op \in {"begin", "reacquire", "release"}
    <3>1. lane.token \in Tokens /\ editor[lane.token].phase \notin {"settled", "done"}
      BY <2>1 DEF LaneOwned, PhaseOf
    <3>2. \E p \in Phases \ {"settled", "done"} : Enter(lane.token, p)
      BY <2>1 DEF OperationFails, Quit, Phases
    <3>. QED
      BY <1>2, <3>1, <3>2
  <2>2. CASE lane.op \notin {"begin", "reacquire", "release"}
    BY <1>1, <2>2 DEF OperationFails
  <2>. QED
    BY <2>1, <2>2
<1>4. CASE Editors
  <2>1. PICK s \in Tokens :
          \/ StartBegin(s) \/ StartReacquire(s) \/ StartFinalize(s)
          \/ StartRelease(s) \/ StartAcknowledge(s) \/ Leave(s)
    BY <1>4 DEF Editors
  <2>2. CASE StartBegin(s)
    BY <2>2 DEF StartBegin, Known, Typed
  <2>3. CASE StartReacquire(s)
    BY <2>3 DEF StartReacquire, Known
  <2>4. CASE StartFinalize(s)
    BY <2>4 DEF StartFinalize, Known, Typed
  <2>5. CASE StartRelease(s) \/ StartAcknowledge(s)
    BY <2>5 DEF StartRelease, StartAcknowledge, Known
  <2>6. CASE Leave(s)
    BY <2>6 DEF Leave, Enter, Quit, Known, Typed
  <2>. QED
    BY <2>1, <2>2, <2>3, <2>4, <2>5, <2>6
<1>5. CASE StartDrain \/ SendPending \/ SendOwn \/ SendRelease \/ DrainEnds \/ Drained
  BY <1>1, <1>5 DEF StartDrain, SendPending, SendOwn, SendRelease, DrainEnds, Drained
<1>6. CASE NotDrained
  BY <1>3, <1>6 DEF NotDrained
<1>7. CASE BeginAnswered
  <2>1. lane.token \in Tokens /\ editor[lane.token].phase = PhaseOf(lane.op)
        /\ lane.step \in {"first", "own"}
    BY <1>7 DEF BeginAnswered, Answered, LaneOwned, KindOf
  <2>2. CASE lane.reply = "accepted"
    <3>1. editor[lane.token].phase \notin {"settled", "done"}
      BY <1>7, <2>1 DEF BeginAnswered, Answered, LaneOwned, KindOf, PhaseOf, Typed, Operations, Messages, Kinds
    <3>. QED
      BY <1>2, <1>7, <2>1, <2>2, <3>1 DEF BeginAnswered, Phases
  <2>3. CASE lane.reply = "finalized" /\ lane.op # "begin"
    <3>1. lane.token \in disk.finished
      BY <2>1, <2>3 DEF ToldTruly
    <3>. QED
      <4>1. Enter(lane.token, "settled")
        BY <1>7, <2>3 DEF BeginAnswered
      <4>2. editor[lane.token].phase # "done"
        BY <1>7, <2>1 DEF BeginAnswered, Answered, LaneOwned, KindOf, PhaseOf, Typed, Operations
      <4>. QED
        BY <3>1, <4>1, <4>2 DEF Enter, Known, Typed
  <2>4. CASE lane.reply # "accepted" /\ ~(lane.reply = "finalized" /\ lane.op # "begin")
    BY <1>3, <1>7, <2>4 DEF BeginAnswered
  <2>. QED
    BY <2>2, <2>3, <2>4
<1>8. CASE OwnAnswered
  <2>1. lane.token \in Tokens /\ editor[lane.token].phase = PhaseOf(lane.op)
        /\ lane.step = "own"
    BY <1>8 DEF OwnAnswered, Answered, LaneOwned, KindOf
  <2>2. CASE lane.op = "finalize" /\ lane.reply = "finalized"
    <3>1. lane.token \in disk.finished
      BY <2>1, <2>2 DEF ToldTruly
    <3>. QED
      BY <1>8, <2>1, <2>2, <3>1 DEF OwnAnswered, Enter, Known, Typed
  <2>3. CASE lane.op = "acknowledge" /\ lane.reply \in Ended
    BY <1>8, <2>1, <2>3 DEF OwnAnswered, Enter, Known, Typed, PhaseOf
  <2>4. CASE lane.op = "release"
    BY <1>2, <1>8, <2>1, <2>4 DEF OwnAnswered, PhaseOf, Phases
  <2>5. CASE /\ ~(lane.op = "finalize" /\ lane.reply = "finalized")
             /\ ~(lane.op = "acknowledge" /\ lane.reply \in Ended)
             /\ lane.op # "release"
    BY <1>1, <1>8, <2>5 DEF OwnAnswered
  <2>. QED
    BY <2>2, <2>3, <2>4, <2>5
<1>9. CASE ReleaseEnds
  <2>1. CASE lane.op = "release"
    <3>1. lane.token \in Tokens /\ editor[lane.token].phase \notin {"settled", "done"}
      BY <2>1 DEF LaneOwned, PhaseOf
    <3>. QED
      BY <1>2, <1>9, <2>1, <3>1 DEF ReleaseEnds, Phases
  <2>2. CASE lane.op # "release"
    BY <1>3, <1>9, <2>2 DEF ReleaseEnds
  <2>. QED
    BY <2>1, <2>2
<1>10. CASE OwnFails
  BY <1>1, <1>3, <1>10 DEF OwnFails
<1>. QED
  BY <1>4, <1>5, <1>6, <1>7, <1>8, <1>9, <1>10 DEF Lane, Receive

(* The steps of the view leave the service as it is.                       *)
LEMMA ViewLeavesService == Editors \/ Lane => UNCHANGED <<serviceVars, late>>
BY DEF Editors, StartBegin, StartReacquire, StartFinalize, StartRelease, StartAcknowledge, Leave,
       Take, Lane, StartDrain, SendPending, SendOwn, SendRelease, DrainEnds, Receive, Drained,
       NotDrained, BeginAnswered, OwnAnswered, ReleaseEnds, OwnFails, Local, linkVars

(* All others leave the editors as they are.                               *)
Others == Service \/ Commits \/ Refused \/ RefusedLate \/ RequestFails \/ Link \/ NewGeneration
LEMMA OthersLeaveEditors == Others => UNCHANGED editor
BY DEF Others, Service, ServeSent, ServeLate, Serve, Commits, CommitEnds, CommitFails,
       CommitReply, BarrierSettles, Refused, RefusedLate, RequestFails, Link, Connect, Lose,
       Notice, Crash, NewGeneration, clientVarsButLane, clientVars

-----------------------------------------------------------------------------
LEMMA NoRequestKind == NoRequest \notin Messages
BY DEF NoRequest, Messages, Kinds

(* Steps of the view.                                                      *)
LEMMA ViewRequests ==
  ASSUME Typed, LaneOwned, Editors \/ Lane
  PROVE  /\ lane'.req # lane.req /\ lane'.req # NoRequest /\ lane'.req.kind = "acknowledge" =>
              /\ lane.op = "acknowledge"
              /\ lane'.req.token = lane.token
         /\ lane'.reply = lane.reply \/ lane'.reply = "none"
         /\ lane'.reply # "none" => UNCHANGED lane
<1> USE DEF Typed
<1>1. CASE Editors
  BY <1>1 DEF Editors, StartBegin, StartReacquire, StartFinalize, StartRelease,
     StartAcknowledge, Leave, Take, IdleLane
<1>2. CASE StartDrain
  BY <1>2 DEF StartDrain, Take, IdleLane
<1>3. ASSUME NEW step, NEW m, SendAs(step, m), lane.reply = "none",
             m.kind = "acknowledge" => lane.op = "acknowledge" /\ m.token = lane.token
      PROVE  /\ lane'.req.kind = "acknowledge" => lane.op = "acknowledge" /\ lane'.req.token = lane.token
             /\ lane'.reply = "none"
  BY <1>3 DEF SendAs
<1>4. Unsent => lane.reply = "none"
  BY DEF Unsent, LaneOwned
<1>5. CASE SendPending
  BY <1>3, <1>4, <1>5 DEF SendPending, Request
<1>6. CASE SendOwn
  BY <1>3, <1>4, <1>6 DEF SendOwn, Request, KindOf
<1>7. CASE SendRelease
  BY <1>3, <1>4, <1>7 DEF SendRelease, Request
<1>8. ASSUME Finish \/ \E step \in Steps : Continue(step)
      PROVE  lane'.req = NoRequest /\ lane'.reply = "none"
  <2>1. CASE Finish
    BY <2>1 DEF Finish, IdleLane
  <2>2. ASSUME NEW step \in Steps, Continue(step)
        PROVE  lane'.req = NoRequest /\ lane'.reply = "none"
    <3>1. lane' = [lane EXCEPT !.step = step, !.req = NoRequest, !.reply = "none"]
      BY <2>2 DEF Continue
    <3>2. "req" \in DOMAIN lane /\ "reply" \in DOMAIN lane
      OBVIOUS
    <3>. QED
      BY <3>1, <3>2
  <2>. QED
    BY <1>8, <2>1, <2>2
<1>9. OperationFails => Finish
  BY DEF OperationFails
<1>10. CASE DrainEnds \/ Receive
  <2>1. Finish \/ \E step \in Steps : Continue(step)
    BY <1>9, <1>10 DEF DrainEnds, Receive, Drained, NotDrained, BeginAnswered, OwnAnswered,
       ReleaseEnds, OwnFails, Finish, Steps
  <2>. QED
    BY <1>8, <2>1
<1>. QED
  BY <1>1, <1>2, <1>5, <1>6, <1>7, <1>10 DEF Lane

LEMMA ViewStep == IInv /\ (Editors \/ Lane) => IInv'
<1> SUFFICES ASSUME IInv, Editors \/ Lane PROVE IInv'
  OBVIOUS
<1> USE DEF IInv
<1>1. Typed'
  <2>1. CASE StartDrain
    BY <2>1 DEF StartDrain, Take, Typed, IdleLane, NoRequest, Operations, Steps, Replies,
       serviceVars, linkVars
  <2>. QED
    BY <2>1, EditorsTyped, SendTyped, ReceiveTyped DEF Lane
<1>2. LaneOwned'
  BY EditorsOwned, LaneStepsOwned
<1>3. UNCHANGED <<serviceVars, late>>
  BY ViewLeavesService
<1>4. AcknowledgedByItsEditor'
  <2> SUFFICES ASSUME NEW m \in InFlight', m.kind = "acknowledge" PROVE Known(m.token)'
    BY DEF AcknowledgedByItsEditor
  <2>1. m.token \in Tokens
    BY <1>1, NoRequestKind DEF InFlight, Typed, Messages
  <2>2. CASE m \in InFlight
    BY <2>1, <2>2, KnownStep DEF AcknowledgedByItsEditor
  <2>3. CASE m \notin InFlight
    <3>1. m = lane'.req /\ m # lane.req /\ m # NoRequest
      BY <1>3, <2>3 DEF InFlight, serviceVars
    <3>2. lane.op = "acknowledge" /\ m.token = lane.token
      BY <3>1, ViewRequests
    <3>3. Known(m.token)
      BY <3>2 DEF LaneOwned, PhaseOf, Known
    <3>. QED
      BY <2>1, <3>3, KnownStep
  <2>. QED
    BY <2>2, <2>3
<1>5. MemoryAndDisk'
  BY <1>3 DEF serviceVars, MemoryAndDisk, Successor
<1>6. ToldTruly'
  BY <1>3, ViewRequests DEF ToldTruly, serviceVars
<1>7. ReceiptsAnswer'
  BY <1>3, KnownStep DEF ReceiptsAnswer, Known, serviceVars
<1>. QED
  BY <1>1, <1>2, <1>4, <1>5, <1>6, <1>7

-----------------------------------------------------------------------------
(* Steps of the service and of the network.                                *)
LEMMA SameReceipts ==
  ASSUME ReceiptsAnswer, UNCHANGED <<disk, editor>>
  PROVE  ReceiptsAnswer'
BY DEF ReceiptsAnswer

LEMMA NoNewRequests ==
  ASSUME AcknowledgedByItsEditor, UNCHANGED editor, InFlight' \subseteq InFlight
  PROVE  AcknowledgedByItsEditor'
BY DEF AcknowledgedByItsEditor, Known

LEMMA Finalized ==
  ASSUME IInv, NEW m \in Messages, TailFree, Answer(m) = "finalized"
  PROVE  m.token \in disk.finished
<1>1. m.token \in doc.receipts
  BY DEF Answer, BeginAnswer, ReleaseAnswer, FinalizeAnswer, AcknowledgeAnswer, Messages, Kinds
<1>2. disk = doc
  BY DEF IInv, MemoryAndDisk, TailFree
<1>. QED
  BY <1>1, <1>2 DEF IInv, MemoryAndDisk

LEMMA ServiceStep ==
  ASSUME IInv, Typed', LaneOwned', NEW m \in InFlight, m \in Messages, Serve(m),
         \/ m = lane.req /\ lane.reply = "none" /\ Reply(Answer(m))
         \/ late' \subseteq late /\ UNCHANGED lane
  PROVE  IInv'
<1> USE DEF IInv
<1>1. /\ TailFree /\ UNCHANGED <<doc, disk, barrier, editor>>
      /\ tail' = IF Answer(m) = "commit" THEN m ELSE tail
  BY Serves DEF clientVarsButLane
<1>2. late' \subseteq late /\ lane'.req = lane.req
  BY DEF Reply, Typed
<1>3. AcknowledgedByItsEditor'
  BY <1>1, <1>2, NoNewRequests DEF InFlight
<1>4. MemoryAndDisk'
  BY <1>1, AnswerTyped DEF MemoryAndDisk, TailFree, Successor
<1>5. ToldTruly'
  <2>1. CASE UNCHANGED lane
    BY <1>1, <2>1, NoRequestKind DEF ToldTruly, TailFree, LaneOwned
  <2>2. CASE m = lane.req /\ lane.reply = "none" /\ Reply(Answer(m))
    <3>1. lane'.reply = IF Answer(m) = "commit" THEN "serving" ELSE Answer(m)
      BY <2>2 DEF Reply, Typed
    <3>2. lane'.step = lane.step /\ lane'.token = lane.token /\ lane'.req = m
      BY <2>2 DEF Reply, Typed
    <3>3. lane'.reply = "serving" => tail' = m
      BY <1>1, <3>1, AnswerTyped DEF Answers, Replies
    <3>4. lane'.reply = "finalized" => m.token \in disk.finished
      BY <1>1, <3>1, Finalized
    <3>5. lane.step \in {"first", "own"} => m.token = lane.token
      BY <2>2, NoRequestKind DEF LaneOwned
    <3>. QED
      BY <1>1, <3>2, <3>3, <3>4, <3>5 DEF ToldTruly
  <2>. QED
    BY <2>1, <2>2
<1>. QED
  BY <1>1, <1>3, <1>4, <1>5, SameReceipts

LEMMA Growth ==
  ASSUME Typed, NEW m \in Messages
  PROVE  /\ doc.finished \subseteq Successor(m).finished
         /\ m.kind = "finalize" => m.token \in Successor(m).finished
         /\ doc.receipts \subseteq doc.finished =>
              Successor(m).receipts \subseteq Successor(m).finished
BY DEF Typed, Successor, Docs

(* A commit reaches the disk: what was answered stays true, and a receipt  *)
(* that goes belongs to an editor that knows it.                           *)
LEMMA CommitReachesDisk ==
  ASSUME IInv, tail # NoRequest, disk' = Successor(tail), UNCHANGED editor
  PROVE  /\ disk.finished \subseteq disk'.finished
         /\ ReceiptsAnswer'
<1> USE DEF IInv
<1>1. tail \in Messages /\ disk = doc /\ tail.kind \in {"finalize", "acknowledge"}
  BY DEF MemoryAndDisk, Typed
<1>2. tail.kind = "acknowledge" => Known(tail.token)
  BY DEF AcknowledgedByItsEditor, InFlight
<1>3. CASE tail.kind = "finalize"
  BY <1>1, <1>3 DEF Successor, ReceiptsAnswer, Typed, Docs, Messages
<1>4. CASE tail.kind = "acknowledge"
  BY <1>1, <1>2, <1>4 DEF Successor, ReceiptsAnswer, Known, Typed, Docs, Messages
<1>. QED
  BY <1>1, <1>3, <1>4

LEMMA CommitStep == IInv /\ Commits => IInv'
<1> SUFFICES ASSUME IInv, Commits PROVE IInv'
  OBVIOUS
<1>1. Typed' /\ LaneOwned'
  BY ServiceTyped, LinkOwned DEF IInv
<1>2. UNCHANGED editor
  BY OthersLeaveEditors DEF Others
<1> USE DEF IInv
<1>3. CASE CommitEnds
  <2>1. /\ tail # NoRequest /\ disk' = Successor(tail) /\ doc' = disk' /\ tail' = NoRequest
        /\ UNCHANGED <<barrier, late>>
        /\ CommitReply(IF tail.kind = "finalize" THEN "finalized" ELSE "released")
    BY <1>3 DEF CommitEnds, Committed, CommitReply, linkVars
  <2>2. tail \in Messages
    BY <2>1 DEF Typed
  <2>3. AcknowledgedByItsEditor'
    <3>1. lane'.req = lane.req
      BY <2>1 DEF CommitReply, Typed
    <3>. QED
      BY <1>2, <2>1, <3>1, NoNewRequests DEF InFlight
  <2>4. MemoryAndDisk'
    BY <2>1, <2>2, Growth DEF MemoryAndDisk
  <2>5. ToldTruly'
    <3>1. CASE lane.reply = "serving"
      <4>1. tail = lane.req
        BY <3>1 DEF ToldTruly
      <4>2. /\ lane'.reply = IF tail.kind = "finalize" THEN "finalized" ELSE "released"
            /\ lane'.step = lane.step /\ lane'.token = lane.token
        BY <2>1, <3>1 DEF CommitReply, Typed
      <4>3. lane.step \in {"first", "own"} => tail.token = lane.token
        BY <2>1, <4>1 DEF LaneOwned
      <4>. QED
        BY <2>1, <2>2, <4>2, <4>3, Growth DEF ToldTruly
    <3>2. CASE lane.reply # "serving"
      <4>1. UNCHANGED lane
        BY <2>1, <3>2 DEF CommitReply
      <4>. QED
        BY <1>2, <2>1, <3>2, <4>1, CommitReachesDisk DEF ToldTruly
    <3>. QED
      BY <3>1, <3>2
  <2>. QED
    BY <1>1, <1>2, <2>1, <2>3, <2>4, <2>5, CommitReachesDisk
<1>4. CASE CommitFails
  <2>1. /\ tail # NoRequest /\ tail' = NoRequest /\ UNCHANGED <<doc, late>>
        /\ \/ UNCHANGED <<disk, barrier>>
           \/ disk' \in {disk, Successor(tail)} /\ barrier' = tail
        /\ CommitReply("failed")
    BY <1>4 DEF CommitFails, NotCommitted, Uncertain, CommitReply, linkVars
  <2>2. tail \in Messages /\ disk = doc /\ barrier = NoRequest
    BY <2>1 DEF Typed, MemoryAndDisk
  <2>3. AcknowledgedByItsEditor'
    <3>1. lane'.req = lane.req
      BY <2>1 DEF CommitReply, Typed
    <3>. QED
      BY <1>2, <2>1, <3>1, NoNewRequests DEF InFlight
  <2>4. MemoryAndDisk'
    BY <2>1, <2>2, Growth DEF MemoryAndDisk, Successor
  <2>5. disk.finished \subseteq disk'.finished /\ ReceiptsAnswer'
    BY <1>2, <2>1, SameReceipts, CommitReachesDisk
  <2>6. ToldTruly'
    BY <2>1, <2>5 DEF CommitReply, ToldTruly, Typed
  <2>. QED
    BY <1>1, <2>3, <2>4, <2>5, <2>6
<1>5. CASE BarrierSettles
  <2>1. /\ barrier # NoRequest /\ doc' = disk /\ barrier' = NoRequest
        /\ UNCHANGED <<disk, tail, late, lane>>
    BY <1>5 DEF BarrierSettles, Settle, clientVars, linkVars
  <2>2. AcknowledgedByItsEditor'
    BY <1>2, <2>1, NoNewRequests DEF InFlight
  <2>3. MemoryAndDisk'
    BY <2>1 DEF MemoryAndDisk
  <2>4. ToldTruly'
    BY <2>1 DEF ToldTruly
  <2>. QED
    BY <1>1, <1>2, <2>1, <2>2, <2>3, <2>4, SameReceipts
<1>. QED
  BY <1>3, <1>4, <1>5 DEF Commits

LEMMA NetworkStep ==
  IInv /\ (Refused \/ RefusedLate \/ RequestFails \/ Link \/ NewGeneration) => IInv'
<1> SUFFICES ASSUME IInv, Refused \/ RefusedLate \/ RequestFails \/ Link \/ NewGeneration
             PROVE  IInv'
  OBVIOUS
<1>1. Typed' /\ LaneOwned'
  BY LinkTyped, LinkOwned DEF IInv
<1>2. UNCHANGED editor
  BY OthersLeaveEditors DEF Others
<1> USE DEF IInv
<1>3. CASE Refused \/ RefusedLate \/ RequestFails
  <2>1. /\ UNCHANGED <<doc, disk, tail, barrier>> /\ late' \subseteq late \cup Sent
        /\ UNCHANGED lane \/ lane' = [lane EXCEPT !.reply = "failed"]
    BY <1>3 DEF Refused, RefusedLate, RequestFails, Reply, serviceVars, clientVars
  <2>2. lane'.req = lane.req /\ Sent \subseteq {lane.req} \ {NoRequest}
    BY <2>1 DEF Sent, Typed
  <2>3. AcknowledgedByItsEditor'
    BY <1>2, <2>1, <2>2, NoNewRequests DEF InFlight
  <2>4. MemoryAndDisk' /\ ToldTruly'
    BY <2>1 DEF MemoryAndDisk, ToldTruly, Successor, Typed
  <2>. QED
    BY <1>1, <1>2, <2>1, <2>3, <2>4, SameReceipts
<1>4. CASE Connect \/ Lose \/ \E inc \in closing : Notice(inc)
  <2>1. UNCHANGED <<doc, disk, tail, barrier, late, lane>>
    BY <1>4 DEF Connect, Register, Lose, Notice, Disconnect, serviceVars, clientVars
  <2>2. AcknowledgedByItsEditor'
    BY <1>2, <2>1, NoNewRequests DEF InFlight
  <2>3. MemoryAndDisk' /\ ToldTruly'
    BY <2>1 DEF MemoryAndDisk, ToldTruly, Successor
  <2>. QED
    BY <1>1, <1>2, <2>1, <2>2, <2>3, SameReceipts
<1>5. CASE Crash
  <2>1. /\ tail' = NoRequest /\ barrier' = NoRequest /\ late' = {} /\ doc' = disk'
        /\ disk' \in IF tail = NoRequest THEN {disk} ELSE {disk, Successor(tail)}
        /\ UNCHANGED lane \/ lane' = [lane EXCEPT !.reply = "failed"]
        /\ lane.reply = "serving" => lane' = [lane EXCEPT !.reply = "failed"]
    BY <1>5 DEF Crash, ServiceDies, Hydrated, LaneOwned, Waiting
  <2>2. disk.finished \subseteq disk'.finished /\ ReceiptsAnswer'
    BY <1>2, <2>1, SameReceipts, CommitReachesDisk
  <2>3. lane'.req = lane.req
    BY <2>1 DEF Typed
  <2>4. AcknowledgedByItsEditor'
    BY <1>2, <2>1, <2>3, NoNewRequests DEF InFlight
  <2>5. MemoryAndDisk'
    BY <2>1, Growth DEF MemoryAndDisk, Typed
  <2>6. ToldTruly'
    BY <2>1, <2>2 DEF ToldTruly, Typed
  <2>. QED
    BY <1>1, <2>2, <2>4, <2>5, <2>6
<1>6. CASE NewGeneration
  <2>1. /\ doc' = [doc EXCEPT !.gen = @ + 1] /\ disk' = doc' /\ disk = doc
        /\ UNCHANGED <<tail, barrier, late, lane>>
    BY <1>6 DEF NewGeneration, Replace, TailFree, MemoryAndDisk, clientVars, linkVars
  <2>2. disk'.finished = disk.finished /\ disk'.receipts = disk.receipts
    BY <2>1 DEF Typed, Docs
  <2>3. AcknowledgedByItsEditor'
    BY <1>2, <2>1, NoNewRequests DEF InFlight
  <2>4. MemoryAndDisk' /\ ToldTruly' /\ ReceiptsAnswer'
    BY <1>2, <2>1, <2>2 DEF MemoryAndDisk, ToldTruly, ReceiptsAnswer
  <2>. QED
    BY <1>1, <2>3, <2>4
<1>. QED
  BY <1>3, <1>4, <1>5, <1>6 DEF Link

-----------------------------------------------------------------------------
LEMMA Inductive == IInv /\ [Next]_vars => IInv'
<1> SUFFICES ASSUME IInv, [Next]_vars PROVE IInv'
  OBVIOUS
<1>1. CASE Editors \/ Lane
  BY <1>1, ViewStep
<1>2. CASE Service
  <2>1. Typed' /\ LaneOwned'
    BY <1>2, ServiceTyped, LinkOwned DEF IInv
  <2>2. CASE ServeSent
    <3>1. PICK m \in Sent : Serve(m) /\ Reply(Answer(m))
      BY <2>2 DEF ServeSent
    <3>2. m = lane.req /\ m \in Messages /\ m \in InFlight /\ lane.reply = "none"
      BY <3>1 DEF Sent, IInv, Typed, InFlight
    <3>. QED
      BY <2>1, <3>1, <3>2, ServiceStep
  <2>3. CASE ServeLate
    <3>1. PICK m \in late : Serve(m) /\ late' = late \ {m} /\ UNCHANGED lane
      BY <2>3 DEF ServeLate
    <3>2. m \in Messages /\ m \in InFlight
      BY <3>1, NoRequestKind DEF IInv, Typed, InFlight
    <3>. QED
      BY <2>1, <3>1, <3>2, ServiceStep
  <2>. QED
    BY <1>2, <2>2, <2>3 DEF Service
<1>3. CASE Commits
  BY <1>3, CommitStep
<1>4. CASE Refused \/ RefusedLate \/ RequestFails \/ Link \/ NewGeneration
  BY <1>4, NetworkStep
<1>5. CASE UNCHANGED vars
  BY <1>5 DEF vars, serviceVars, clientVars, clientVarsButLane, linkVars, IInv, Typed, LaneOwned,
     PhaseOf, KindOf, AcknowledgedByItsEditor, InFlight, Known, MemoryAndDisk, Successor,
     ToldTruly, ReceiptsAnswer
<1>. QED
  BY <1>1, <1>2, <1>3, <1>4, <1>5 DEF Next, Rest

(* For any number of editors, receipts, connections, generations and       *)
(* faults, an editor that was told that its draft is finished finds it     *)
(* finished on disk, and the receipt of one that was not is still there    *)
(* (finalize() and acknowledge() of review-interactions.ts, their commits  *)
(* in session-broker.ts, and the lane of authoring-session.ts).            *)
THEOREM ReceiptsAreKept == Spec => []ReceiptsAnswer
<1>1. IInv => ReceiptsAnswer
  BY DEF IInv
<1>. QED
  BY InitIInv, Inductive, <1>1, PTL DEF Spec

=============================================================================
