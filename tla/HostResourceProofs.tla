-------------------------- MODULE HostResourceProofs --------------------------
(***************************************************************************)
(* Proofs about reviews of a host's PDF, for any bytes other programs may  *)
(* write and any number of edits, events and faults: a write whose fate is *)
(* unknown is the pending one on disk, a review reported as saved was      *)
(* accepted by the host, a copy is left alone, and a write replaces only   *)
(* what it was rendered from. They rest on requests being executed one at  *)
(* a time, so that what a request has read of the recovery file is still   *)
(* there, and on the panel acting on an intent only while no request is    *)
(* executed.                                                               *)
(***************************************************************************)
EXTENDS HostResource, TLAPS

Outcomes == {"none", "saved", "conflict", "unknown"}
Steps ==
  {"start", "bytes", "intent", "configure", "ack", "acked", "record", "mark", "overtaken",
   "conflict", "adopt", "classified", "replied"}
Results == Outcomes \cup {"local-copy", "read-only", "intent", "error", "ready"}
Content == {Source} \cup Others \cup Nat
Bytes == Seq(Content)
Hosts == [bytes : Bytes, etag : Nat, writable : BOOLEAN]

Reviews == [gen : Nat \ {0}, src : Bytes, rev : Nat]
Syncs == [phase : Phases, des : Bytes, sav : Bytes]
Files == [writable : BOOLEAN, etag : Nat, digest : Bytes, pending : Intents,
          outcome : Outcomes, last : [id : Nat, etag : Nat]]
Requests ==
  [kind : {"none", "save", "receipt", "finish"}, step : Steps, id : Nat,
   outcome : Outcomes, etag : Nat, read : Bytes, writable : BOOLEAN, state : Files,
   intent : Intents, classified : BOOLEAN, result : Results]
Panels ==
  [at : {"idle", "calling", "read", "intent", "writing", "decided"}, shown : BOOLEAN,
   intent : Intents, read : Hosts \cup {<<>>}, outcome : Outcomes, etag : Nat,
   reread : BOOLEAN]

ServiceTyped ==
  /\ review \in Reviews
  /\ sync \in Syncs
  /\ dest \in [phase : {"host", "active"}, writable : BOOLEAN]
  /\ state \in Files
  /\ minted \in Nat
  /\ open \in SUBSET (1..minted)
  /\ call \in Requests

HostTyped ==
  /\ host \in Hosts
  /\ writes \in SUBSET Intents
  /\ panel \in Panels
  /\ panel.at = "read" => panel.read \in Hosts
  /\ events \in 0..MaxEvents
  /\ faults \in 0..MaxFaults

Typed == ServiceTyped /\ HostTyped

(* A file whose last outcome is settled has no pending intent.             *)
Settled(file) ==
  /\ file.outcome \in {"none", "saved"} => file.pending.id = 0
  /\ file.pending.id \in 0..minted

(* What a request knows of the recovery file and of the uncertain writes.  *)
SaveKnows ==
  /\ At("save", "bytes") => call.intent.id = minted + 1
  /\ At("save", "intent") => call.intent.id \in 1..minted
  /\ At("save", "configure") \/ call.result = "intent" =>
       call.intent = state.pending /\ state.pending.id \in 1..minted
  /\ call.result = "intent" => call.step = "replied"
  /\ dest.phase = "host" /\ (At("save", "bytes") \/ At("save", "intent")) => open = {}

ReceiptKnows ==
  /\ call.kind = "receipt" => call.id # 0 /\ call.outcome # "none"
  /\ At("receipt", "record") => call.state.pending = state.pending
  /\ dest.phase = "host" /\ At("receipt", "record") => open \subseteq {call.state.pending.id}

AckKnows ==
  /\ call.step \in {"ack", "acked"} => call.kind \in {"receipt", "finish"}
  /\ dest.phase = "host" /\ call.step = "ack" => open \subseteq {call.intent.id}
  /\ dest.phase = "host" /\ call.step = "acked" => open = {}

FinishKnows ==
  dest.phase = "host" /\ call.kind = "finish"
  /\ call.step \in {"overtaken", "adopt", "record"} =>
    open \subseteq {call.state.pending.id}

(* The panel acts on the pending intent, and alone.                        *)
PanelActsAlone ==
  panel.at \in {"intent", "writing", "decided"} =>
    /\ call = NoCall
    /\ panel.intent = state.pending /\ state.pending.id \in 1..minted
    /\ panel.at = "decided" => panel.outcome # "none"

(* What the host is known to have held.                                    *)
HeldIsKnown ==
  /\ host.bytes \in held
  /\ panel.at = "read" => panel.read.bytes \in held
  /\ call.kind = "finish" => call.read \in held
  /\ panel.at = "decided" /\ panel.outcome = "saved" => panel.intent.bytes \in held
  /\ call.kind = "receipt" /\ call.outcome = "saved" /\ state.pending.id = call.id =>
       state.pending.bytes \in held
  /\ call.step = "ack" => call.intent.bytes \in held

SavedIsHeld ==
  /\ sync.sav \in held \cup {<<Source, 0>>}
  /\ sync.phase = "clean" => sync.des = sync.sav

IInv ==
  /\ Typed
  /\ Settled(state) /\ Settled(call.state)
  /\ SaveKnows /\ ReceiptKnows /\ AckKnows /\ FinishKnows
  /\ PanelActsAlone
  /\ HeldIsKnown
  /\ SavedIsHeld
  /\ UncertainIsPending

-----------------------------------------------------------------------------
(* Typing of the pieces.                                                   *)
LEMMA BytesAreSequences ==
  /\ <<>> \in Bytes
  /\ \A c \in Content : <<c>> \in Bytes
  /\ \A b \in Bytes, r \in Nat : Append(b, r) \in Bytes
  /\ <<Source, 0>> \in Bytes
BY DEF Bytes, Content

LEMMA IntentsAreRecords ==
  Intents = [id : Nat, gen : Nat, src : Bytes, bytes : Bytes, ifMatch : Nat]
BY DEF Intents, Bytes, Content

LEMMA NoCallIsTyped ==
  /\ NoIntent \in Intents
  /\ NoCall \in Requests
  /\ Closed \in Panels
<1>1. NoIntent \in Intents
  BY BytesAreSequences, IntentsAreRecords DEF NoIntent
<1>2. Opened(<<>>) \in Files
  BY <1>1, BytesAreSequences DEF Opened, Files, Outcomes
<1>3. NoCall \in Requests
  BY <1>1, <1>2, BytesAreSequences DEF NoCall, Requests, Outcomes, Steps, Results
<1>4. Closed \in Panels
  BY <1>1 DEF Closed, Panels, Outcomes
<1> QED
  BY <1>1, <1>3, <1>4

LEMMA RenderingIsTyped ==
  ASSUME Typed
  PROVE  Rendering(review) \in Bytes
BY BytesAreSequences DEF Typed, ServiceTyped, HostTyped, Reviews, Rendering

-----------------------------------------------------------------------------
(* The service's steps leave the host, the writes and the panel alone.     *)
Steady == UNCHANGED <<environmentVars, panel, faults>>

SyncIsSound == sync \in Syncs /\ SavedIsHeld
SameDestination ==
  dest' \in [phase : {"host", "active"}, writable : BOOLEAN] /\ dest'.phase = dest.phase

LEMMA Pieces ==
  ASSUME IInv
  PROVE  /\ Typed /\ call \in Requests /\ call.state \in Files /\ call.intent \in Intents
         /\ state \in Files /\ state.pending \in Intents /\ review \in Reviews
         /\ minted \in Nat /\ sync \in Syncs /\ panel \in Panels
         /\ dest \in [phase : {"host", "active"}, writable : BOOLEAN]
         /\ open \in SUBSET (1..minted)
BY DEF IInv, Typed, ServiceTyped, HostTyped, Requests, Files

(* A request at work keeps the panel from acting.                          *)
LEMMA PanelWaits ==
  ASSUME IInv, call.kind # "none" \/ call.step # "start"
  PROVE  panel.at \notin {"intent", "writing", "decided"}
BY DEF IInv, PanelActsAlone, NoCall

LEMMA KeptIsSound ==
  ASSUME IInv, UNCHANGED <<sync, held>>
  PROVE  SyncIsSound'
<1>1. sync \in Syncs /\ SavedIsHeld
  BY Pieces DEF IInv
<1> QED
  BY <1>1 DEF SyncIsSound, SavedIsHeld

LEMMA MarkIsSound ==
  ASSUME IInv, NEW result, MarkNotSaved(result), UNCHANGED held
  PROVE  SyncIsSound' /\ (Reply(result) \/ Reply("error"))
<1>1. sync \in Syncs /\ SavedIsHeld
  BY Pieces DEF IInv
<1> QED
  BY <1>1 DEF MarkNotSaved, SyncIsSound, SavedIsHeld, Syncs, Phases

LEMMA ConfigureIsSound ==
  ASSUME IInv, NEW writable \in BOOLEAN, Configure(writable), UNCHANGED held
  PROVE  SyncIsSound' /\ SameDestination
<1>1. /\ sync \in Syncs /\ SavedIsHeld
      /\ dest \in [phase : {"host", "active"}, writable : BOOLEAN]
  BY Pieces DEF IInv
<1> QED
  BY <1>1 DEF Configure, SyncIsSound, SameDestination, SavedIsHeld, Syncs, Phases

(* A request that is answered.                                             *)
LEMMA AnyReplyKeeps ==
  ASSUME IInv, UNCHANGED <<review, state, minted, open, environmentVars, panel>>,
         faults' \in 0..MaxFaults,
         SameDestination, SyncIsSound', call.kind # "none",
         NEW result \in Results, Reply(result),
         result = "intent" =>
           call.intent = state.pending /\ state.pending.id \in 1..minted
  PROVE  IInv'
<1> USE DEF environmentVars
<1>1. /\ call' \in Requests
      /\ call' = [call EXCEPT !.step = "replied", !.result = result]
  BY Pieces DEF Reply, Requests, Steps, Results
<1>2. /\ call'.kind = call.kind /\ call'.step = "replied" /\ call'.result = result
      /\ call'.id = call.id /\ call'.intent = call.intent
      /\ call'.outcome = call.outcome /\ call'.read = call.read /\ call'.state = call.state
  BY <1>1, Pieces DEF Requests
<1>3. Typed'
  BY <1>1, Pieces DEF Typed, ServiceTyped, HostTyped, SameDestination, SyncIsSound
<1>4. PanelActsAlone'
  BY PanelWaits DEF PanelActsAlone
<1>5. Settled(state)' /\ Settled(call.state)' /\ UncertainIsPending'
  BY <1>2 DEF IInv, Settled, UncertainIsPending, SameDestination
<1>6. SaveKnows' /\ ReceiptKnows' /\ AckKnows' /\ FinishKnows'
  BY <1>2 DEF IInv, SaveKnows, ReceiptKnows, AckKnows, FinishKnows, At
<1>7. HeldIsKnown'
  BY <1>2 DEF IInv, HeldIsKnown
<1> QED
  BY <1>3, <1>4, <1>5, <1>6, <1>7 DEF IInv, SyncIsSound

LEMMA ReplyKeeps ==
  ASSUME IInv, Steady, UNCHANGED <<review, state, minted, open>>,
         SameDestination, SyncIsSound', call.kind # "none",
         NEW result \in Results, Reply(result),
         result = "intent" =>
           call.intent = state.pending /\ state.pending.id \in 1..minted
  PROVE  IInv'
<1>1. faults' \in 0..MaxFaults
  BY DEF Steady, IInv, Typed, HostTyped
<1> QED
  BY <1>1, AnyReplyKeeps DEF Steady

LEMMA SaveStartKeeps ==
  ASSUME IInv, SaveStart, Steady
  PROVE  IInv'
<1> DEFINE Frozen == [id |-> NextId, gen |-> review.gen, src |-> review.src,
                      bytes |-> Rendering(review), ifMatch |-> state.etag]
<1>1. /\ UNCHANGED <<review, dest, state, minted, open>> /\ SameDestination
      /\ UNCHANGED <<host, writes, panel, held, events, faults>>
      /\ call.kind = "save" /\ call.step = "start"
  BY Pieces DEF SaveStart, At, SameDestination, Steady, environmentVars
<1>3. CASE UNCHANGED sync /\ \E result \in {"local-copy", state.outcome, "saved"} : Reply(result)
  <2>1. state.outcome \in Results \ {"intent"}
    BY Pieces DEF Files, Outcomes, Results
  <2>2. SyncIsSound'
    BY <1>1, <1>3, KeptIsSound
  <2> QED
    BY <1>1, <1>3, <2>1, <2>2, ReplyKeeps DEF Results, Outcomes
<1>4. CASE MarkNotSaved("read-only")
  <2>1. SyncIsSound' /\ (Reply("read-only") \/ Reply("error"))
    BY <1>1, <1>4, MarkIsSound
  <2> QED
    BY <1>1, <2>1, ReplyKeeps DEF Results
<1>5. CASE /\ UNCHANGED sync /\ dest.phase = "host" /\ ~Unresolved
           /\ call' = [call EXCEPT !.step = "bytes", !.state = state, !.intent = Frozen]
  <2>1. Frozen \in Intents /\ Frozen.id = minted + 1
    BY Pieces, RenderingIsTyped, IntentsAreRecords DEF NextId, Reviews, Files
  <2> HIDE DEF Frozen
  <2>2. call' \in Requests
    BY Pieces, <1>5, <2>1 DEF Requests, Steps
  <2>3. /\ call'.kind = "save" /\ call'.step = "bytes" /\ call'.state = state
        /\ call'.intent = Frozen /\ call'.result = call.result
    BY Pieces, <1>1, <1>5 DEF Requests
  <2>4. Typed'
    BY <1>1, <1>5, <2>2, Pieces DEF Typed, ServiceTyped, HostTyped
  <2>5. open = {}
    BY <1>5, Pieces DEF IInv, UncertainIsPending, Settled, Unresolved, Files, Outcomes
  <2>6. SaveKnows'
    BY <1>1, <2>1, <2>3, <2>5 DEF IInv, SaveKnows, At
  <2>7. /\ Settled(state)' /\ Settled(call.state)' /\ UncertainIsPending'
        /\ ReceiptKnows' /\ AckKnows' /\ FinishKnows'
    BY <1>1, <2>3 DEF IInv, Settled, UncertainIsPending, ReceiptKnows, AckKnows, FinishKnows, At
  <2>8. PanelActsAlone' /\ HeldIsKnown' /\ SavedIsHeld'
    BY <1>1, <1>5, <2>3, PanelWaits DEF IInv, PanelActsAlone, HeldIsKnown, SavedIsHeld
  <2> QED
    BY <2>4, <2>6, <2>7, <2>8 DEF IInv
<1> QED
  BY <1>3, <1>4, <1>5 DEF SaveStart

LEMMA SaveBytesKeeps ==
  ASSUME IInv, SaveBytes, Steady
  PROVE  IInv'
<1>1. /\ UNCHANGED <<review, sync, dest, state, open>> /\ SameDestination
      /\ UNCHANGED <<host, writes, panel, held, events, faults>>
      /\ call.kind = "save" /\ call.step = "bytes"
  BY Pieces DEF SaveBytes, At, SameDestination, Steady, environmentVars, reviewVars
<1>2. CASE dest.phase # "host"
  <2>1. SyncIsSound'
    BY <1>1, KeptIsSound
  <2> QED
    BY <1>1, <1>2, <2>1, ReplyKeeps DEF SaveBytes, Results
<1>3. CASE dest.phase = "host"
  <2>1. minted' = minted + 1 /\ call' \in Requests /\ minted' \in Nat
    BY <1>3, Pieces DEF SaveBytes, Goto, Requests, Steps
  <2>2. /\ call'.kind = "save" /\ call'.step = "intent" /\ call'.state = call.state
        /\ call'.intent = call.intent /\ call'.result = call.result
    BY <1>1, <1>3, Pieces DEF SaveBytes, Goto, Requests
  <2>3. open' \in SUBSET (1..minted')
    BY <1>1, <2>1, Pieces
  <2>4. Typed'
    BY <1>1, <2>1, <2>3, Pieces DEF Typed, ServiceTyped, HostTyped
  <2>5. Settled(state)' /\ Settled(call.state)' /\ UncertainIsPending'
    BY <1>1, <2>1, <2>2, Pieces DEF IInv, Settled, UncertainIsPending
  <2>6. call.result # "intent" /\ call.intent.id = minted + 1
    BY <1>1 DEF IInv, SaveKnows, At
  <2>7. SaveKnows'
    BY <1>1, <2>1, <2>2, <2>6, Pieces DEF IInv, SaveKnows, At
  <2>8. ReceiptKnows' /\ AckKnows' /\ FinishKnows'
    BY <1>1, <2>2 DEF ReceiptKnows, AckKnows, FinishKnows, At
  <2>9. PanelActsAlone' /\ HeldIsKnown' /\ SavedIsHeld'
    BY <1>1, <2>2, PanelWaits DEF IInv, PanelActsAlone, HeldIsKnown, SavedIsHeld
  <2> QED
    BY <2>4, <2>5, <2>7, <2>8, <2>9 DEF IInv
<1> QED
  BY <1>2, <1>3

LEMMA SaveIntentKeeps ==
  ASSUME IInv, SaveIntent, Steady
  PROVE  IInv'
<1>1. /\ UNCHANGED <<review, sync, dest, minted, open>>
      /\ UNCHANGED <<host, writes, panel, held, events, faults>>
      /\ call.kind = "save" /\ call.step = "intent"
  BY DEF SaveIntent, At, Steady, environmentVars, reviewVars
<1>2. call.intent.id \in 1..minted /\ call.result # "intent" /\ (dest.phase = "host" => open = {})
  BY <1>1 DEF IInv, SaveKnows, At
<1>3. call' \in Requests /\ state' \in Files
  BY Pieces DEF SaveIntent, Goto, Requests, Steps, Files, Outcomes
<1>4. /\ call'.kind = "save" /\ call'.step = "configure" /\ call'.state = call.state
      /\ call'.intent = call.intent /\ call'.result = call.result
  BY <1>1, Pieces DEF SaveIntent, Goto, Requests
<1>5. state'.pending = call.intent /\ state'.outcome = "unknown"
  BY Pieces DEF SaveIntent, Files
<1>6. Typed'
  BY <1>1, <1>3, Pieces DEF Typed, ServiceTyped, HostTyped
<1>7. Settled(state)' /\ Settled(call.state)' /\ UncertainIsPending'
  BY <1>1, <1>2, <1>4, <1>5, Pieces DEF IInv, Settled, UncertainIsPending
<1>8. SaveKnows' /\ ReceiptKnows' /\ AckKnows' /\ FinishKnows'
  BY <1>1, <1>2, <1>4, <1>5 DEF SaveKnows, ReceiptKnows, AckKnows, FinishKnows, At
<1>9. PanelActsAlone' /\ HeldIsKnown' /\ SavedIsHeld'
  BY <1>1, <1>4, PanelWaits DEF IInv, PanelActsAlone, HeldIsKnown, SavedIsHeld
<1> QED
  BY <1>6, <1>7, <1>8, <1>9 DEF IInv

LEMMA SaveConfigureKeeps ==
  ASSUME IInv, SaveConfigure, Steady
  PROVE  IInv'
<1>1. /\ UNCHANGED <<review, state, minted, open, held>> /\ call.kind = "save"
      /\ call.intent = state.pending /\ state.pending.id \in 1..minted
  BY DEF IInv, SaveKnows, SaveConfigure, At, Steady, environmentVars
<1>2. SyncIsSound' /\ SameDestination
  BY <1>1, ConfigureIsSound DEF SaveConfigure
<1>3. \E result \in {"intent", "local-copy"} : Reply(result)
  BY DEF SaveConfigure
<1> QED
  BY <1>1, <1>2, <1>3, ReplyKeeps DEF Results

-----------------------------------------------------------------------------
LEMMA ReceiptStartKeeps ==
  ASSUME IInv, ReceiptStart, Steady
  PROVE  IInv'
<1>1. /\ UNCHANGED <<review, sync, dest, state, minted, open>> /\ SameDestination
      /\ UNCHANGED <<host, writes, panel, held, events, faults>>
      /\ call.kind = "receipt" /\ call.step = "start"
  BY Pieces DEF ReceiptStart, At, SameDestination, Steady, environmentVars, reviewVars
<1>2. CASE \E result \in {"error", "saved"} : Reply(result)
  <2>1. SyncIsSound'
    BY <1>1, KeptIsSound
  <2> QED
    BY <1>1, <1>2, <2>1, ReplyKeeps DEF Results, Outcomes
<1>3. CASE /\ state.pending.id = call.id
           /\ call' = [call EXCEPT !.state = state, !.intent = state.pending,
                          !.step = IF call.outcome = "saved" /\ call.etag # 0
                                   THEN "ack" ELSE "record"]
  <2>1. call' \in Requests
    BY <1>3, Pieces DEF Requests, Steps
  <2>2. /\ call'.kind = "receipt" /\ call'.state = state /\ call'.intent = state.pending
        /\ call'.result = call.result /\ call'.id = call.id /\ call'.outcome = call.outcome
        /\ \/ call'.step = "ack" /\ call.outcome = "saved"
           \/ call'.step = "record"
    BY <1>1, <1>3, Pieces DEF Requests
  <2>3. Typed'
    BY <1>1, <2>1, Pieces DEF Typed, ServiceTyped, HostTyped
  <2>4. Settled(state)' /\ Settled(call.state)' /\ UncertainIsPending'
    BY <1>1, <2>2 DEF IInv, Settled, UncertainIsPending
  <2>5. SaveKnows' /\ ReceiptKnows' /\ AckKnows' /\ FinishKnows'
    BY <1>1, <2>2 DEF IInv, SaveKnows, ReceiptKnows, AckKnows, FinishKnows, UncertainIsPending, At
  <2>6. PanelActsAlone' /\ HeldIsKnown' /\ SavedIsHeld'
    BY <1>1, <1>3, <2>2, PanelWaits DEF IInv, PanelActsAlone, HeldIsKnown, SavedIsHeld
  <2> QED
    BY <2>3, <2>4, <2>5, <2>6 DEF IInv
<1> QED
  BY <1>2, <1>3 DEF ReceiptStart

LEMMA ReceiptRecordKeeps ==
  ASSUME IInv, ReceiptRecord, Steady
  PROVE  IInv'
<1>1. /\ UNCHANGED <<review, sync, dest, minted>>
      /\ UNCHANGED <<host, writes, panel, held, events, faults>>
      /\ call.kind = "receipt" /\ call.step = "record" /\ call.state.pending = state.pending
  BY DEF IInv, ReceiptKnows, ReceiptRecord, At, Steady, environmentVars, reviewVars
<1>2. call' \in Requests /\ state' \in Files /\ open' \in SUBSET open
  BY Pieces DEF ReceiptRecord, Goto, Requests, Steps, Files, Outcomes
<1>3. /\ call'.kind = "receipt" /\ call'.step = "mark" /\ call'.state = call.state
      /\ call'.result = call.result /\ call'.id = call.id /\ call'.outcome = call.outcome
  BY <1>1, Pieces DEF ReceiptRecord, Goto, Requests
<1>4. state'.pending = state.pending
  BY <1>1, Pieces DEF ReceiptRecord, Files
<1>5. Typed'
  BY <1>1, <1>2, Pieces DEF Typed, ServiceTyped, HostTyped
<1>6. state'.outcome \in {"conflict", "unknown"}
  BY <1>1, Pieces DEF IInv, ReceiptKnows, ReceiptRecord, Files, Requests, Outcomes
<1>7. Settled(state)'
  BY <1>1, <1>4, <1>6 DEF IInv, Settled
<1>8. Settled(call.state)' /\ UncertainIsPending'
  BY <1>1, <1>2, <1>3, <1>4 DEF IInv, Settled, UncertainIsPending
<1>9. SaveKnows' /\ ReceiptKnows' /\ AckKnows' /\ FinishKnows'
  BY <1>1, <1>3 DEF IInv, SaveKnows, ReceiptKnows, AckKnows, FinishKnows, At
<1>10. PanelActsAlone' /\ HeldIsKnown' /\ SavedIsHeld'
  BY <1>1, <1>3, <1>4, PanelWaits DEF IInv, PanelActsAlone, HeldIsKnown, SavedIsHeld
<1> QED
  BY <1>5, <1>7, <1>8, <1>9, <1>10 DEF IInv

LEMMA ReceiptMarkKeeps ==
  ASSUME IInv, ReceiptMark, Steady
  PROVE  IInv'
<1>1. /\ UNCHANGED <<review, dest, state, minted, open, held>> /\ SameDestination
      /\ call.kind = "receipt" /\ call.outcome \in Outcomes
  BY Pieces DEF ReceiptMark, At, SameDestination, Steady, environmentVars, Requests
<1>2. SyncIsSound' /\ (Reply(call.outcome) \/ Reply("error"))
  BY <1>1, MarkIsSound DEF ReceiptMark
<1> QED
  BY <1>1, <1>2, ReplyKeeps DEF Results, Outcomes

LEMMA AckBrokerKeeps ==
  ASSUME IInv, AckBroker, Steady
  PROVE  IInv'
<1>1. /\ UNCHANGED <<review, dest, state, minted>> /\ SameDestination
      /\ UNCHANGED <<host, writes, panel, held, events, faults>>
      /\ call.step = "ack" /\ call.kind \in {"receipt", "finish"}
      /\ call.intent.bytes \in held /\ call.result # "intent"
      /\ dest.phase = "host" => open \subseteq {call.intent.id}
  BY Pieces DEF IInv, AckKnows, HeldIsKnown, SaveKnows, AckBroker, SameDestination, Steady,
                environmentVars
<1>2. CASE ~AckAdmitted
  <2>1. SyncIsSound'
    BY <1>1, <1>2, KeptIsSound DEF AckBroker
  <2> QED
    BY <1>1, <1>2, <2>1, ReplyKeeps DEF AckBroker, Results
<1>3. CASE AckAdmitted
  <2>1. call.intent.bytes \in Bytes
    BY Pieces, IntentsAreRecords
  <2>2. sync' \in Syncs /\ sync'.sav = call.intent.bytes
        /\ (sync'.phase = "clean" => sync'.des = sync'.sav)
    BY <1>3, <2>1, Pieces DEF AckBroker, AckIsCurrent, Syncs, Phases
  <2>3. SavedIsHeld'
    BY <1>1, <2>2 DEF SavedIsHeld
  <2>4. call' \in Requests /\ open' = open \ {call.intent.id}
    BY <1>3, Pieces DEF AckBroker, Goto, Requests, Steps
  <2>5. /\ call'.kind = call.kind /\ call'.step = "acked" /\ call'.state = call.state
        /\ call'.result = call.result /\ call'.id = call.id /\ call'.outcome = call.outcome
        /\ call'.read = call.read
    BY <1>3, Pieces DEF AckBroker, Goto, Requests
  <2>6. Typed'
    BY <1>1, <2>2, <2>4, Pieces DEF Typed, ServiceTyped, HostTyped
  <2>7. Settled(state)' /\ Settled(call.state)' /\ UncertainIsPending'
    BY <1>1, <2>4, <2>5 DEF IInv, Settled, UncertainIsPending
  <2>8. SaveKnows' /\ ReceiptKnows' /\ AckKnows' /\ FinishKnows'
    BY <1>1, <2>4, <2>5 DEF IInv, SaveKnows, ReceiptKnows, AckKnows, FinishKnows, At
  <2>9. PanelActsAlone' /\ HeldIsKnown'
    BY <1>1, <2>5, PanelWaits DEF IInv, PanelActsAlone, HeldIsKnown
  <2> QED
    BY <2>3, <2>6, <2>7, <2>8, <2>9 DEF IInv
<1> QED
  BY <1>2, <1>3

LEMMA AckPersistKeeps ==
  ASSUME IInv, AckPersist, Steady
  PROVE  IInv'
<1>1. /\ UNCHANGED <<review, sync, dest, minted, open>>
      /\ UNCHANGED <<host, writes, panel, held, events, faults>>
      /\ call.step = "acked" /\ call.kind \in {"receipt", "finish"} /\ call.result # "intent"
      /\ dest.phase = "host" => open = {}
      /\ call.kind = "receipt" => call.id # 0
  BY DEF IInv, AckKnows, SaveKnows, ReceiptKnows, AckPersist, Steady, environmentVars, reviewVars
<1>2. state' \in Files /\ state'.pending = NoIntent
  BY Pieces, IntentsAreRecords, NoCallIsTyped DEF AckPersist, Files, Outcomes, Requests
<1>3. NoIntent.id = 0
  BY DEF NoIntent
<1>4. /\ call' \in Requests /\ call'.state = call.state /\ call'.kind = call.kind
      /\ call'.id = call.id /\ call'.outcome = call.outcome /\ call'.read = call.read
      /\ call'.step = (IF call.kind = "receipt" THEN "replied" ELSE "configure")
      /\ call'.result # "intent"
  <2>1. CASE call.kind = "receipt"
    <3>1. call' = [call EXCEPT !.step = "replied", !.result = "saved"]
      BY <1>1, <2>1 DEF AckPersist, Reply
    <3>2. "saved" \in Results /\ "replied" \in Steps
      BY DEF Results, Outcomes, Steps
    <3> QED
      BY <2>1, <3>1, <3>2, Pieces DEF Requests
  <2>2. CASE call.kind = "finish"
    BY <1>1, <2>2, Pieces DEF AckPersist, Goto, Requests, Steps
  <2> QED
    BY <1>1, <2>1, <2>2
<1>5. Typed'
  BY <1>1, <1>2, <1>4, Pieces DEF Typed, ServiceTyped, HostTyped
<1>6. Settled(state)' /\ Settled(call.state)' /\ UncertainIsPending'
  BY <1>1, <1>2, <1>3, <1>4, Pieces DEF IInv, Settled, UncertainIsPending
<1>7. SaveKnows' /\ ReceiptKnows' /\ AckKnows' /\ FinishKnows'
  BY <1>1, <1>4 DEF IInv, SaveKnows, ReceiptKnows, AckKnows, FinishKnows, At
<1>8. PanelActsAlone' /\ HeldIsKnown' /\ SavedIsHeld'
  BY <1>1, <1>2, <1>3, <1>4, PanelWaits DEF IInv, PanelActsAlone, HeldIsKnown, SavedIsHeld
<1> QED
  BY <1>5, <1>6, <1>7, <1>8 DEF IInv

-----------------------------------------------------------------------------
(* What a reread starts from.                                              *)
LEMMA FinishCarries ==
  ASSUME IInv, Steady, UNCHANGED <<reviewVars, state, minted>>, At("finish", "start"),
         NEW prior \in Files, Settled(prior), NEW classified \in BOOLEAN,
         NEW step \in {"ack", "adopt", "record", "overtaken"},
         call' = [call EXCEPT !.state = prior, !.intent = state.pending, !.step = step,
                              !.classified = classified],
         open' \in SUBSET open,
         step = "ack" => state.pending.bytes \in held,
         step # "ack" /\ dest.phase = "host" => open' \subseteq {prior.pending.id}
  PROVE  IInv'
<1>1. /\ UNCHANGED <<review, sync, dest, state, minted>>
      /\ UNCHANGED <<host, writes, panel, held, events, faults>>
      /\ call.kind = "finish" /\ call.step = "start"
  BY DEF At, Steady, environmentVars, reviewVars
<1>2. call' \in Requests
  BY Pieces DEF Requests, Steps
<1>3. /\ call'.kind = "finish" /\ call'.step = step /\ call'.state = prior
      /\ call'.intent = state.pending /\ call'.result = call.result /\ call'.read = call.read
  BY <1>1, Pieces DEF Requests
<1>4. Typed'
  BY <1>1, <1>2, Pieces DEF Typed, ServiceTyped, HostTyped
<1>5. Settled(state)' /\ Settled(call.state)' /\ UncertainIsPending'
  BY <1>1, <1>3 DEF IInv, Settled, UncertainIsPending
<1>6. SaveKnows' /\ ReceiptKnows' /\ AckKnows' /\ FinishKnows'
  BY <1>1, <1>3, <1>5 DEF IInv, SaveKnows, ReceiptKnows, AckKnows, FinishKnows,
                          UncertainIsPending, At
<1>7. PanelActsAlone' /\ HeldIsKnown' /\ SavedIsHeld'
  BY <1>1, <1>3, PanelWaits DEF IInv, PanelActsAlone, HeldIsKnown, SavedIsHeld
<1> QED
  BY <1>4, <1>5, <1>6, <1>7 DEF IInv

LEMMA DroppedIsSettled ==
  ASSUME IInv, NEW file \in Files
  PROVE  /\ [file EXCEPT !.pending = NoIntent, !.outcome = "none"] \in Files
         /\ [file EXCEPT !.pending = NoIntent, !.outcome = "none"].pending.id = 0
         /\ Settled([file EXCEPT !.pending = NoIntent, !.outcome = "none"])
<1>1. NoIntent.id = 0 /\ NoIntent \in Intents /\ minted \in Nat
  BY NoCallIsTyped, Pieces DEF NoIntent
<1>2. PICK dropped \in Files : dropped = [file EXCEPT !.pending = NoIntent, !.outcome = "none"]
  BY <1>1 DEF Files, Outcomes
<1>3. dropped.pending = NoIntent
  BY <1>2 DEF Files
<1> QED
  BY <1>1, <1>2, <1>3 DEF Settled

LEMMA FinishStartKeeps ==
  ASSUME IInv, FinishStart, Steady
  PROVE  IInv'
<1> DEFINE Carry(prior, step) ==
             call' = [call EXCEPT !.state = prior, !.intent = state.pending, !.step = step,
                                  !.classified = NotLanded]
           adopt == IF Changed THEN "adopt" ELSE "record"
<1>1. /\ UNCHANGED <<reviewVars, state, minted>> /\ At("finish", "start")
      /\ open' = (IF NotLanded \/ Overtaken THEN open \ {state.pending.id} ELSE open)
      /\ adopt \in {"adopt", "record"} /\ NotLanded \in BOOLEAN
  BY DEF FinishStart, NotLanded
<1>2. /\ Prior \in Files /\ Settled(Prior)
      /\ dest.phase = "host" => Prior = state
      /\ dest.phase # "host" => Prior.pending.id = 0
  BY Pieces, DroppedIsSettled DEF IInv, Prior
<1>3. dest.phase = "host" => open \subseteq {state.pending.id}
  BY DEF IInv, UncertainIsPending
<1>4. call.read \in held /\ call.writable \in BOOLEAN
  BY <1>1, Pieces DEF IInv, HeldIsKnown, At, Requests
<1>5. CASE Landed /\ Carry([Prior EXCEPT !.writable = call.writable], "ack")
  <2>1. [Prior EXCEPT !.writable = call.writable] \in Files
        /\ Settled([Prior EXCEPT !.writable = call.writable])
    BY <1>2, <1>4 DEF Files, Settled
  <2>2. state.pending.bytes \in held /\ open' \in SUBSET open
    BY <1>1, <1>2, <1>4, <1>5, Pieces DEF Landed
  <2> QED
    BY <1>1, <1>5, <2>1, <2>2, FinishCarries
<1>6. CASE NotLanded /\ Carry([Prior EXCEPT !.pending = NoIntent, !.outcome = "none"], adopt)
  <2>1. [Prior EXCEPT !.pending = NoIntent, !.outcome = "none"] \in Files
        /\ Settled([Prior EXCEPT !.pending = NoIntent, !.outcome = "none"])
    BY <1>2, DroppedIsSettled
  <2>2. open' \in SUBSET open /\ (dest.phase = "host" => open' = {})
    BY <1>1, <1>3, <1>6
  <2> HIDE DEF adopt
  <2> QED
    BY <1>1, <1>6, <2>1, <2>2, FinishCarries
<1>7. CASE Overtaken /\ Carry([Prior EXCEPT !.outcome = "conflict"], "overtaken")
  <2>1. [Prior EXCEPT !.outcome = "conflict"] \in Files
        /\ Settled([Prior EXCEPT !.outcome = "conflict"])
    BY <1>2 DEF Files, Settled, Outcomes
  <2>2. open' \in SUBSET open /\ (dest.phase = "host" => open' = {})
    BY <1>1, <1>3, <1>7
  <2> QED
    BY <1>1, <1>7, <2>1, <2>2, FinishCarries
<1>8. CASE ~Landed /\ ~NotLanded /\ ~Overtaken /\ Carry(Prior, adopt)
  <2>1. open' \in SUBSET open /\ (dest.phase = "host" => open' \subseteq {Prior.pending.id})
    BY <1>1, <1>2, <1>3, <1>8
  <2> HIDE DEF adopt
  <2> QED
    BY <1>1, <1>2, <1>8, <2>1, FinishCarries
<1> QED
  BY <1>5, <1>6, <1>7, <1>8 DEF FinishStart

(* The recovery file takes what the reread prepared.                       *)
LEMMA FinishWrites ==
  ASSUME IInv, Steady, UNCHANGED <<reviewVars, minted, open>>,
         call.kind = "finish", call.step \in {"overtaken", "record"},
         NEW step \in {"conflict", "configure"}, Goto(step),
         state' \in Files, state'.pending = call.state.pending,
         state'.outcome = call.state.outcome
  PROVE  IInv'
<1>1. /\ UNCHANGED <<review, sync, dest, minted, open>>
      /\ UNCHANGED <<host, writes, panel, held, events, faults>> /\ call.result # "intent"
      /\ dest.phase = "host" => open \subseteq {call.state.pending.id}
  BY DEF IInv, FinishKnows, SaveKnows, Steady, environmentVars, reviewVars
<1>2. /\ call' \in Requests /\ call'.kind = "finish" /\ call'.step = step
      /\ call'.state = call.state /\ call'.result = call.result /\ call'.read = call.read
  BY Pieces DEF Goto, Requests, Steps
<1>3. Typed'
  BY <1>1, <1>2, Pieces DEF Typed, ServiceTyped, HostTyped
<1>4. Settled(state)' /\ Settled(call.state)' /\ UncertainIsPending'
  BY <1>1, <1>2 DEF IInv, Settled, UncertainIsPending
<1>5. SaveKnows' /\ ReceiptKnows' /\ AckKnows' /\ FinishKnows'
  BY <1>1, <1>2 DEF SaveKnows, ReceiptKnows, AckKnows, FinishKnows, At
<1>6. PanelActsAlone' /\ HeldIsKnown' /\ SavedIsHeld'
  BY <1>1, <1>2, PanelWaits DEF IInv, PanelActsAlone, HeldIsKnown, SavedIsHeld
<1> QED
  BY <1>3, <1>4, <1>5, <1>6 DEF IInv

LEMMA FinishOvertakenKeeps ==
  ASSUME IInv, FinishOvertaken, Steady
  PROVE  IInv'
BY Pieces, FinishWrites DEF FinishOvertaken, At

LEMMA FinishRecordKeeps ==
  ASSUME IInv, FinishRecord, Steady
  PROVE  IInv'
<1>1. call.writable \in BOOLEAN /\ call.etag \in Nat /\ call.read \in Bytes
  BY Pieces DEF Requests
<1>2. /\ state' \in Files /\ state'.pending = call.state.pending
      /\ state'.outcome = call.state.outcome
  BY <1>1, Pieces DEF FinishRecord, Files
<1> QED
  BY <1>2, FinishWrites DEF FinishRecord, At

LEMMA FinishAdoptKeeps ==
  ASSUME IInv, FinishAdopt, Steady
  PROVE  IInv'
<1> DEFINE adopted == [gen |-> review.gen + 1, src |-> call.read, rev |-> review.rev + 1]
<1>1. /\ UNCHANGED <<dest, state, minted, open>>
      /\ UNCHANGED <<host, writes, panel, held, events, faults>>
      /\ call.kind = "finish" /\ call.step = "adopt" /\ call.result # "intent"
      /\ dest.phase = "host" => open \subseteq {call.state.pending.id}
  BY DEF IInv, FinishKnows, SaveKnows, FinishAdopt, At, Steady, environmentVars
<1>2. /\ call' \in Requests /\ call'.kind = "finish" /\ call'.step = "record"
      /\ call'.state = call.state /\ call'.result = call.result /\ call'.read = call.read
  BY <1>1, Pieces DEF FinishAdopt, Goto, Requests, Steps
<1>3. review' \in Reviews /\ SyncIsSound'
  <2>1. CASE call.read = review.src
    BY <1>1, <2>1, Pieces, KeptIsSound DEF FinishAdopt
  <2>2. CASE call.read # review.src
    <3>1. adopted \in Reviews /\ Rendering(adopted) \in Bytes
      <4>1. /\ call.read \in Bytes /\ review.gen + 1 \in Nat \ {0}
            /\ review.rev + 1 \in Nat
        BY Pieces DEF Requests, Reviews
      <4>2. Append(call.read, review.rev + 1) \in Bytes
        BY <4>1, BytesAreSequences
      <4> QED
        BY <4>1, <4>2 DEF Reviews, Rendering
    <3>2. review' = adopted /\ sync' = [sync EXCEPT
             !.phase = IF dest.phase = "active" THEN "saving" ELSE "not-saved",
             !.des = Rendering(adopted)]
      BY <2>2 DEF FinishAdopt
    <3> HIDE DEF adopted
    <3>3. sync \in Syncs /\ SavedIsHeld
      BY Pieces DEF IInv
    <3>4. sync' \in Syncs /\ sync'.phase # "clean" /\ sync'.sav = sync.sav
      BY <3>1, <3>2, <3>3 DEF Syncs, Phases
    <3> QED
      BY <1>1, <3>1, <3>2, <3>3, <3>4 DEF SyncIsSound, SavedIsHeld
  <2> QED
    BY <2>1, <2>2
<1>4. Typed'
  BY <1>1, <1>2, <1>3, Pieces DEF Typed, ServiceTyped, HostTyped, SyncIsSound
<1>5. Settled(state)' /\ Settled(call.state)' /\ UncertainIsPending'
  BY <1>1, <1>2 DEF IInv, Settled, UncertainIsPending
<1>6. SaveKnows' /\ ReceiptKnows' /\ AckKnows' /\ FinishKnows'
  BY <1>1, <1>2 DEF SaveKnows, ReceiptKnows, AckKnows, FinishKnows, At
<1>7. PanelActsAlone' /\ HeldIsKnown'
  BY <1>1, <1>2, PanelWaits DEF IInv, PanelActsAlone, HeldIsKnown
<1> QED
  BY <1>3, <1>4, <1>5, <1>6, <1>7 DEF IInv, SyncIsSound

LEMMA FinishMarkKeeps ==
  ASSUME IInv, FinishConflict \/ FinishClassified, Steady
  PROVE  IInv'
<1>1. PICK result \in {"conflict", "ready"} : MarkNotSaved(result)
  BY DEF FinishConflict, FinishClassified
<1>2. /\ UNCHANGED <<review, dest, state, minted, open, held>> /\ SameDestination
      /\ call.kind = "finish"
  BY Pieces DEF FinishConflict, FinishClassified, At, SameDestination, Steady, environmentVars
<1>3. SyncIsSound' /\ (Reply(result) \/ Reply("error"))
  BY <1>1, <1>2, MarkIsSound
<1> QED
  BY <1>2, <1>3, ReplyKeeps DEF Results, Outcomes

LEMMA FinishConfigureKeeps ==
  ASSUME IInv, FinishConfigure, Steady
  PROVE  IInv'
<1>1. /\ UNCHANGED <<review, state, minted, open>> /\ call.kind = "finish"
      /\ UNCHANGED <<host, writes, panel, held, events, faults>>
      /\ call.step = "configure" /\ call.result # "intent"
  BY DEF IInv, SaveKnows, FinishConfigure, At, Steady, environmentVars
<1>2. SyncIsSound' /\ SameDestination
  <2>1. (call.writable /\ call.etag # 0) \in BOOLEAN
    OBVIOUS
  <2> QED
    BY <1>1, <2>1, ConfigureIsSound DEF FinishConfigure
<1>3. CASE Reply("ready")
  BY <1>1, <1>2, <1>3, ReplyKeeps DEF Results
<1>4. CASE Goto("classified")
  <2>1. /\ call' \in Requests /\ call'.kind = "finish" /\ call'.step = "classified"
        /\ call'.state = call.state /\ call'.result = call.result /\ call'.read = call.read
    BY <1>1, <1>4, Pieces DEF Goto, Requests, Steps
  <2>2. Typed'
    BY <1>1, <1>2, <2>1, Pieces DEF Typed, ServiceTyped, HostTyped, SyncIsSound, SameDestination
  <2>3. Settled(state)' /\ Settled(call.state)' /\ UncertainIsPending'
    BY <1>1, <1>2, <2>1 DEF IInv, Settled, UncertainIsPending, SameDestination
  <2>4. SaveKnows' /\ ReceiptKnows' /\ AckKnows' /\ FinishKnows'
    BY <1>1, <2>1 DEF SaveKnows, ReceiptKnows, AckKnows, FinishKnows, At
  <2>5. PanelActsAlone' /\ HeldIsKnown'
    BY <1>1, <2>1, PanelWaits DEF IInv, PanelActsAlone, HeldIsKnown
  <2> QED
    BY <1>2, <2>2, <2>3, <2>4, <2>5 DEF IInv, SyncIsSound
<1> QED
  BY <1>3, <1>4 DEF FinishConfigure

-----------------------------------------------------------------------------
LEMMA ServiceKeeps ==
  ASSUME IInv, ServiceSteps, Steady
  PROVE  IInv'
BY SaveStartKeeps, SaveBytesKeeps, SaveIntentKeeps, SaveConfigureKeeps, ReceiptStartKeeps,
   ReceiptRecordKeeps, ReceiptMarkKeeps, AckBrokerKeeps, AckPersistKeeps, FinishStartKeeps,
   FinishOvertakenKeeps, FinishMarkKeeps, FinishAdoptKeeps, FinishRecordKeeps,
   FinishConfigureKeeps
   DEF ServiceSteps

-----------------------------------------------------------------------------
(* A request begins or the last one is forgotten.                          *)
LEMMA FreshCallKeeps ==
  ASSUME IInv, UNCHANGED <<review, dest, state, minted, open, host, writes, held>>,
         SyncIsSound', faults' \in 0..MaxFaults, events' \in 0..MaxEvents,
         call' \in Requests, call'.step = "start", call'.result = "none",
         call'.state.pending.id = 0,
         call'.kind = "receipt" =>
           /\ call'.id # 0 /\ call'.outcome # "none"
           /\ call'.outcome = "saved" /\ state.pending.id = call'.id =>
                state.pending.bytes \in held,
         call'.kind = "finish" => call'.read \in held,
         panel' \in Panels, panel'.at # "decided", PanelActsAlone',
         panel'.at = "read" => panel'.read \in Hosts /\ panel'.read.bytes \in held
  PROVE  IInv'
<1>1. Typed'
  BY Pieces DEF Typed, ServiceTyped, HostTyped, SyncIsSound
<1>2. Settled(state)' /\ Settled(call.state)' /\ UncertainIsPending'
  BY Pieces DEF IInv, Settled, UncertainIsPending
<1>3. SaveKnows' /\ ReceiptKnows' /\ AckKnows' /\ FinishKnows'
  BY DEF SaveKnows, ReceiptKnows, AckKnows, FinishKnows, At
<1>4. HeldIsKnown'
  BY DEF IInv, HeldIsKnown
<1> QED
  BY <1>1, <1>2, <1>3, <1>4 DEF IInv, SyncIsSound

LEMMA NoCallFields ==
  /\ NoCall \in Requests /\ NoCall.step = "start" /\ NoCall.result = "none"
  /\ NoCall.kind = "none" /\ NoCall.state.pending.id = 0
BY NoCallIsTyped DEF NoCall, Opened, NoIntent

LEMMA CallsAreFresh ==
  /\ SaveCall \in Requests /\ SaveCall.kind = "save" /\ SaveCall.step = "start"
  /\ SaveCall.result = "none" /\ SaveCall.state.pending.id = 0
  /\ \A id, etag \in Nat, outcome \in Outcomes :
       LET c == ReceiptCall(id, outcome, etag) IN
       /\ c \in Requests /\ c.kind = "receipt" /\ c.step = "start" /\ c.result = "none"
       /\ c.state.pending.id = 0 /\ c.id = id /\ c.outcome = outcome
  /\ \A h \in Hosts :
       LET c == FinishCall(h) IN
       /\ c \in Requests /\ c.kind = "finish" /\ c.step = "start" /\ c.result = "none"
       /\ c.state.pending.id = 0 /\ c.read = h.bytes
<1>1. NoCall \in Requests /\ NoCall.step = "start" /\ NoCall.result = "none"
      /\ NoCall.state.pending.id = 0
  BY NoCallFields
<1>2. /\ SaveCall \in Requests /\ SaveCall.kind = "save" /\ SaveCall.step = "start"
      /\ SaveCall.result = "none" /\ SaveCall.state.pending.id = 0
  BY <1>1 DEF SaveCall, Requests
<1>3. ASSUME NEW id \in Nat, NEW etag \in Nat, NEW outcome \in Outcomes
      PROVE  LET c == ReceiptCall(id, outcome, etag) IN
             /\ c \in Requests /\ c.kind = "receipt" /\ c.step = "start" /\ c.result = "none"
             /\ c.state.pending.id = 0 /\ c.id = id /\ c.outcome = outcome
  BY <1>1 DEF ReceiptCall, Requests
<1>4. ASSUME NEW h \in Hosts
      PROVE  LET c == FinishCall(h) IN
             /\ c \in Requests /\ c.kind = "finish" /\ c.step = "start" /\ c.result = "none"
             /\ c.state.pending.id = 0 /\ c.read = h.bytes
  <2>1. h.bytes \in Bytes /\ h.etag \in Nat /\ h.writable \in BOOLEAN
    BY DEF Hosts
  <2> QED
    BY <1>1, <2>1 DEF FinishCall, Requests
<1> QED
  BY <1>2, <1>3, <1>4

HostIsSound ==
  /\ host \in Hosts /\ host.bytes \in held /\ writes \in SUBSET Intents
  /\ faults \in 0..MaxFaults /\ events \in 0..MaxEvents
PanelIsSound ==
  /\ panel \in Panels /\ PanelActsAlone
  /\ panel.at = "read" => panel.read \in Hosts /\ panel.read.bytes \in held
  /\ panel.at = "decided" /\ panel.outcome = "saved" => panel.intent.bytes \in held

UncertainGrows ==
  \/ open' = open
  \/ /\ call = NoCall /\ open' = open \cup {state.pending.id}
     /\ state.pending.id \in 1..minted

(* The host, the panel and other programs, while no request takes a step.  *)
LEMMA HostStepKeeps ==
  ASSUME IInv, UNCHANGED <<review, sync, dest, state, minted, call>>, UncertainGrows,
         held \subseteq held', HostIsSound', PanelIsSound'
  PROVE  IInv'
<1>1. Typed'
  BY Pieces DEF Typed, ServiceTyped, HostTyped, HostIsSound, PanelIsSound, UncertainGrows
<1>2. Settled(state)' /\ Settled(call.state)' /\ UncertainIsPending'
  BY DEF IInv, Settled, UncertainIsPending, UncertainGrows
<1>3. SaveKnows' /\ ReceiptKnows' /\ AckKnows' /\ FinishKnows'
  <2>1. CASE open' = open
    BY <2>1 DEF IInv, SaveKnows, ReceiptKnows, AckKnows, FinishKnows, At
  <2>2. CASE call = NoCall
    BY <2>2, NoCallFields DEF IInv, SaveKnows, ReceiptKnows, AckKnows, FinishKnows, At
  <2> QED
    BY <2>1, <2>2 DEF UncertainGrows
<1>4. HeldIsKnown' /\ SavedIsHeld'
  BY DEF IInv, HeldIsKnown, SavedIsHeld, HostIsSound, PanelIsSound
<1> QED
  BY <1>1, <1>2, <1>3, <1>4 DEF IInv, PanelIsSound

LEMMA EnvironmentPieces ==
  ASSUME IInv
  PROVE  /\ host \in Hosts /\ host.bytes \in held /\ writes \in SUBSET Intents
         /\ panel \in Panels /\ panel.intent \in Intents
         /\ panel.at = "read" => panel.read \in Hosts /\ panel.read.bytes \in held
         /\ panel.at = "decided" =>
              /\ panel.outcome # "none"
              /\ panel.outcome = "saved" => panel.intent.bytes \in held
         /\ PanelActsAlone
         /\ events \in 0..MaxEvents /\ faults \in 0..MaxFaults
BY DEF IInv, Typed, HostTyped, HeldIsKnown, PanelActsAlone, Panels

LEMMA PanelStaysSound ==
  ASSUME IInv, UNCHANGED <<panel, call, state, minted>>, held \subseteq held'
  PROVE  PanelIsSound'
BY EnvironmentPieces DEF PanelIsSound, PanelActsAlone

LEMMA HostStaysSound ==
  ASSUME IInv, UNCHANGED <<host, held>>, writes' \in SUBSET Intents,
         faults' \in 0..MaxFaults, events' \in 0..MaxEvents
  PROVE  HostIsSound' /\ held \subseteq held'
BY EnvironmentPieces DEF HostIsSound

LEMMA CountersStay ==
  ASSUME IInv
  PROVE  /\ Fault => faults' \in 0..MaxFaults
         /\ Event => events' \in 0..MaxEvents
BY EnvironmentPieces, OpeningsAssumption DEF Fault, Event

-----------------------------------------------------------------------------
LEMMA StartSaveKeeps ==
  ASSUME IInv, StartSave
  PROVE  IInv'
<1>1. /\ UNCHANGED <<review, sync, dest, state, minted, open, host, writes, held, events, faults>>
      /\ call' = SaveCall /\ panel' = [panel EXCEPT !.at = "calling"]
  BY DEF StartSave, Request, reviewVars, environmentVars
<1>2. panel' \in Panels /\ panel'.at = "calling"
  BY <1>1, EnvironmentPieces DEF Panels
<1>3. PanelActsAlone'
  BY <1>2 DEF PanelActsAlone
<1>4. SyncIsSound'
  BY <1>1, KeptIsSound
<1> QED
  BY <1>1, <1>2, <1>3, <1>4, EnvironmentPieces, CallsAreFresh, FreshCallKeeps

LEMMA SendFinishKeeps ==
  ASSUME IInv, SendFinish
  PROVE  IInv'
<1>1. /\ UNCHANGED <<review, sync, dest, state, minted, open, host, writes, held, events, faults>>
      /\ call' = FinishCall(panel.read) /\ panel' = [panel EXCEPT !.at = "calling"]
      /\ panel.at = "read"
  BY DEF SendFinish, Request, reviewVars, environmentVars
<1>2. panel' \in Panels /\ panel'.at = "calling"
  BY <1>1, EnvironmentPieces DEF Panels
<1>3. PanelActsAlone'
  BY <1>2 DEF PanelActsAlone
<1>4. SyncIsSound' /\ panel.read \in Hosts /\ panel.read.bytes \in held
  BY <1>1, KeptIsSound, EnvironmentPieces
<1>5. /\ call' \in Requests /\ call'.kind = "finish" /\ call'.step = "start"
      /\ call'.result = "none" /\ call'.state.pending.id = 0 /\ call'.read = panel.read.bytes
  BY <1>1, <1>4, CallsAreFresh
<1> QED
  BY <1>1, <1>2, <1>3, <1>4, <1>5, EnvironmentPieces, FreshCallKeeps

LEMMA SendReceiptKeeps ==
  ASSUME IInv, SendReceipt
  PROVE  IInv'
<1>1. /\ UNCHANGED <<review, sync, dest, state, minted, open, host, writes, held, events, faults>>
      /\ call' = ReceiptCall(panel.intent.id, panel.outcome, panel.etag)
      /\ panel' = [panel EXCEPT !.at = "calling"] /\ panel.at = "decided"
  BY DEF SendReceipt, Request, reviewVars, environmentVars
<1>2. panel' \in Panels /\ panel'.at = "calling"
  BY <1>1, EnvironmentPieces DEF Panels
<1>3. PanelActsAlone'
  BY <1>2 DEF PanelActsAlone
<1>4. SyncIsSound'
  BY <1>1, KeptIsSound
<1>5. /\ panel.intent = state.pending /\ panel.intent.id \in Nat \ {0}
      /\ panel.outcome \in Outcomes \ {"none"} /\ panel.etag \in Nat
      /\ panel.outcome = "saved" => panel.intent.bytes \in held
  BY <1>1, EnvironmentPieces, Pieces DEF PanelActsAlone, Panels
<1>6. /\ call' \in Requests /\ call'.kind = "receipt" /\ call'.step = "start"
      /\ call'.result = "none" /\ call'.state.pending.id = 0 /\ call'.id = panel.intent.id
      /\ call'.outcome = panel.outcome
  BY <1>1, <1>5, CallsAreFresh
<1> QED
  BY <1>1, <1>2, <1>3, <1>4, <1>5, <1>6, EnvironmentPieces, FreshCallKeeps

LEMMA RedeliverKeeps ==
  ASSUME IInv, Redeliver
  PROVE  IInv'
<1>1. /\ UNCHANGED <<review, sync, dest, state, minted, open, host, writes, panel, held, events>>
      /\ call' = ReceiptCall(call.id, call.outcome, call.etag)
      /\ call.kind = "receipt" /\ faults' \in 0..MaxFaults
  BY CountersStay DEF Redeliver, reviewVars, environmentVars
<1>2. /\ call.id \in Nat \ {0} /\ call.outcome \in Outcomes \ {"none"} /\ call.etag \in Nat
      /\ call.outcome = "saved" /\ state.pending.id = call.id => state.pending.bytes \in held
  BY <1>1, Pieces DEF IInv, ReceiptKnows, HeldIsKnown, Requests
<1>3. SyncIsSound' /\ panel.at \notin {"intent", "writing", "decided"}
  BY <1>1, KeptIsSound, PanelWaits
<1>4. PanelActsAlone'
  BY <1>1, <1>3 DEF PanelActsAlone
<1>5. /\ call' \in Requests /\ call'.kind = "receipt" /\ call'.step = "start"
      /\ call'.result = "none" /\ call'.state.pending.id = 0 /\ call'.id = call.id
      /\ call'.outcome = call.outcome
  BY <1>1, <1>2, CallsAreFresh
<1> QED
  BY <1>1, <1>2, <1>3, <1>4, <1>5, EnvironmentPieces, FreshCallKeeps

LEMMA ReceiveKeeps ==
  ASSUME IInv, Receive
  PROVE  IInv'
<1>1. /\ UNCHANGED <<review, sync, dest, state, minted, open, host, writes, held, events, faults>>
      /\ call' = NoCall /\ panel.at = "calling"
  BY DEF Receive, reviewVars, environmentVars
<1>2. SyncIsSound'
  BY <1>1, KeptIsSound
<1>3. CASE call.result = "intent" /\ panel' = [panel EXCEPT !.at = "intent", !.intent = call.intent]
  <2>1. call.intent = state.pending /\ state.pending.id \in 1..minted
    BY <1>3 DEF IInv, SaveKnows
  <2>2. panel' \in Panels /\ panel'.at = "intent" /\ panel'.intent = call.intent
    BY <1>3, EnvironmentPieces, Pieces DEF Panels
  <2>3. PanelActsAlone'
    BY <1>1, <2>1, <2>2 DEF PanelActsAlone
  <2> QED
    BY <1>1, <1>2, <2>2, <2>3, EnvironmentPieces, NoCallFields, FreshCallKeeps
<1>4. CASE panel' = [panel EXCEPT !.at = "read", !.read = host, !.reread = FALSE]
  <2>1. panel' \in Panels /\ panel'.at = "read" /\ panel'.read = host
    BY <1>4, EnvironmentPieces DEF Panels
  <2>2. PanelActsAlone'
    BY <2>1 DEF PanelActsAlone
  <2> QED
    BY <1>1, <1>2, <2>1, <2>2, EnvironmentPieces, NoCallFields, FreshCallKeeps
<1>5. CASE \/ panel' = [panel EXCEPT !.at = "idle", !.shown = TRUE]
           \/ panel' = [panel EXCEPT !.at = "idle", !.reread = FALSE]
  <2>1. panel' \in Panels /\ panel'.at = "idle"
    BY <1>5, EnvironmentPieces DEF Panels
  <2>2. PanelActsAlone'
    BY <2>1 DEF PanelActsAlone
  <2> QED
    BY <1>1, <1>2, <2>1, <2>2, EnvironmentPieces, NoCallFields, FreshCallKeeps
<1> QED
  BY <1>3, <1>4, <1>5 DEF Receive

LEMMA DropKeeps ==
  ASSUME IInv, Drop
  PROVE  IInv'
<1>1. /\ UNCHANGED <<review, sync, dest, state, minted, open, host, writes, panel, held, events,
                      faults>>
      /\ call' = NoCall /\ call.step = "replied"
  BY DEF Drop, reviewVars, environmentVars
<1>2. SyncIsSound' /\ panel.at \notin {"intent", "writing", "decided"}
  BY <1>1, KeptIsSound, PanelWaits
<1>3. PanelActsAlone'
  BY <1>1, <1>2 DEF PanelActsAlone
<1> QED
  BY <1>1, <1>2, <1>3, EnvironmentPieces, NoCallFields, FreshCallKeeps

LEMMA CrashKeeps ==
  ASSUME IInv, Crash
  PROVE  IInv'
<1>1. /\ UNCHANGED <<review, dest, state, minted, open, host, writes, held, events>>
      /\ call' = NoCall /\ panel' = Closed /\ faults' \in 0..MaxFaults
  BY CountersStay DEF Crash, ServiceDies, environmentVars
<1>2. SyncIsSound'
  <2>1. sync \in Syncs /\ SavedIsHeld
    BY Pieces DEF IInv
  <2> QED
    BY <1>1, <2>1 DEF Crash, ServiceDies, SyncIsSound, SavedIsHeld, Syncs, Phases
<1>3. panel' \in Panels /\ panel'.at = "idle"
  BY <1>1, NoCallIsTyped DEF Closed
<1>4. PanelActsAlone'
  BY <1>3 DEF PanelActsAlone
<1> QED
  BY <1>1, <1>2, <1>3, <1>4, EnvironmentPieces, NoCallFields, FreshCallKeeps

LEMMA FailsKeeps ==
  ASSUME IInv, Fails
  PROVE  IInv'
<1>1. /\ UNCHANGED <<review, sync, dest, state, minted, open, environmentVars, panel>>
      /\ call.kind # "none" /\ Reply("error") /\ faults' \in 0..MaxFaults
      /\ SameDestination /\ UNCHANGED held
  BY CountersStay, Pieces DEF Fails, CallFails, reviewVars, environmentVars, SameDestination
<1>2. SyncIsSound'
  BY <1>1, KeptIsSound
<1> QED
  BY <1>1, <1>2, AnyReplyKeeps DEF Results, Outcomes

-----------------------------------------------------------------------------
LEMMA ReviewerKeeps ==
  ASSUME IInv, Reviewer
  PROVE  IInv'
<1>1. UNCHANGED <<state, minted, open, call, host, writes, panel, held, events, faults>>
  BY DEF Reviewer, Edit, ChooseCopy, environmentVars
<1>2. /\ review' \in Reviews /\ dest' \in [phase : {"host", "active"}, writable : BOOLEAN]
      /\ dest'.phase = "host" => dest.phase = "host"
      /\ SyncIsSound'
  <2>1. sync \in Syncs /\ SavedIsHeld
    BY Pieces DEF IInv
  <2>2. CASE Edit
    <3>1. [review EXCEPT !.rev = @ + 1] \in Reviews
      BY Pieces DEF Reviews
    <3>2. Rendering([review EXCEPT !.rev = @ + 1]) \in Bytes
      BY <3>1, BytesAreSequences DEF Reviews, Rendering
    <3>3. sync' \in Syncs /\ sync'.phase # "clean" /\ sync'.sav = sync.sav
      BY <2>1, <2>2, <3>2 DEF Edit, Syncs, Phases
    <3> QED
      BY <1>1, <2>1, <2>2, <3>1, <3>3, Pieces DEF Edit, SyncIsSound, SavedIsHeld
  <2>3. CASE ChooseCopy
    BY <1>1, <2>1, <2>3, Pieces DEF ChooseCopy, SyncIsSound, SavedIsHeld, Syncs, Phases
  <2> QED
    BY <2>2, <2>3 DEF Reviewer
<1>3. Typed'
  BY <1>1, <1>2, Pieces DEF IInv, Typed, ServiceTyped, HostTyped, SyncIsSound
<1>4. Settled(state)' /\ Settled(call.state)' /\ UncertainIsPending'
  BY <1>1, <1>2 DEF IInv, Settled, UncertainIsPending
<1>5. SaveKnows' /\ ReceiptKnows' /\ AckKnows' /\ FinishKnows'
  BY <1>1, <1>2 DEF IInv, SaveKnows, ReceiptKnows, AckKnows, FinishKnows, At
<1>6. PanelActsAlone' /\ HeldIsKnown'
  BY <1>1 DEF IInv, PanelActsAlone, HeldIsKnown
<1> QED
  BY <1>2, <1>3, <1>4, <1>5, <1>6 DEF IInv, SyncIsSound

(* The panel goes back to waiting or to reading what the host holds.       *)
LEMMA PanelRestsKeeps ==
  ASSUME IInv, UNCHANGED <<review, sync, dest, state, minted, open, call, host, writes, held>>,
         faults' \in 0..MaxFaults, events' \in 0..MaxEvents,
         panel' \in Panels, panel'.at \in {"idle", "read"},
         panel'.at = "read" => panel'.read = host
  PROVE  IInv'
<1>1. PanelIsSound'
  BY EnvironmentPieces DEF PanelIsSound, PanelActsAlone
<1>2. HostIsSound' /\ held \subseteq held'
  BY EnvironmentPieces, HostStaysSound
<1> QED
  BY <1>1, <1>2, HostStepKeeps DEF UncertainGrows

LEMMA PanelStepKeeps ==
  ASSUME IInv, StartRead \/ GiveUp \/ PanelReplaced
  PROVE  IInv'
<1>1. /\ UNCHANGED <<review, sync, dest, state, minted, open, call, host, writes, held>>
      /\ faults' \in 0..MaxFaults /\ events' \in 0..MaxEvents
  BY EnvironmentPieces, CountersStay
     DEF StartRead, GiveUp, PanelReplaced, serviceVars, reviewVars, environmentVars
<1>2. /\ panel' \in Panels /\ panel'.at \in {"idle", "read"}
      /\ panel'.at = "read" => panel'.read = host
  <2>1. CASE StartRead
    BY <2>1, EnvironmentPieces DEF StartRead, Panels
  <2>2. CASE GiveUp
    BY <2>2, EnvironmentPieces DEF GiveUp, Panels
  <2>3. CASE PanelReplaced
    BY <2>3, NoCallIsTyped DEF PanelReplaced, Closed
  <2> QED
    BY <2>1, <2>2, <2>3
<1> QED
  BY <1>1, <1>2, PanelRestsKeeps

LEMMA WriteKeeps ==
  ASSUME IInv, Write
  PROVE  IInv'
<1>1. /\ UNCHANGED <<review, sync, dest, state, minted, call, host, held, events, faults>>
      /\ call = NoCall /\ panel.at = "intent"
  BY DEF Write, reviewVars
<1>2. panel.intent = state.pending /\ state.pending.id \in 1..minted
  BY <1>1, EnvironmentPieces DEF PanelActsAlone
<1>3. CASE /\ writes' = writes \cup {panel.intent} /\ open' = open \cup {panel.intent.id}
           /\ panel' = [panel EXCEPT !.at = "writing"]
  <2>1. /\ panel' \in Panels /\ panel'.at = "writing" /\ panel'.intent = panel.intent
        /\ writes' \in SUBSET Intents
    BY <1>3, EnvironmentPieces DEF Panels
  <2>2. PanelIsSound' /\ UncertainGrows
    BY <1>1, <1>2, <1>3, <2>1 DEF PanelIsSound, PanelActsAlone, UncertainGrows
  <2>3. HostIsSound' /\ held \subseteq held'
    BY <1>1, <2>1, EnvironmentPieces, HostStaysSound
  <2> QED
    BY <1>1, <2>2, <2>3, HostStepKeeps
<1>4. CASE panel' = [panel EXCEPT !.at = "idle"] /\ UNCHANGED <<writes, open>>
  <2>1. panel' \in Panels /\ panel'.at = "idle"
    BY <1>4, EnvironmentPieces DEF Panels
  <2> QED
    BY <1>1, <1>4, <2>1, EnvironmentPieces, PanelRestsKeeps
<1> QED
  BY <1>3, <1>4 DEF Write

LEMMA ReplacedIsTyped ==
  ASSUME NEW h \in Hosts, NEW b \in Bytes
  PROVE  /\ [h EXCEPT !.bytes = b, !.etag = @ + 1] \in Hosts
         /\ [h EXCEPT !.bytes = b, !.etag = @ + 1].bytes = b
<1>1. h.etag + 1 \in Nat
  BY DEF Hosts
<1> QED
  BY <1>1 DEF Hosts

LEMMA DecideKeepsHeld ==
  ASSUME IInv, NEW w \in writes, Decide(w)
  PROVE  /\ host' \in Hosts /\ held \subseteq held' /\ host'.bytes \in held'
         /\ writes' \in SUBSET Intents
         /\ w.ifMatch = host.etag /\ host.writable => w.bytes \in held'
<1>1. w.bytes \in Bytes /\ writes' \in SUBSET Intents
  BY EnvironmentPieces, IntentsAreRecords DEF Decide
<1>2. CASE w.ifMatch = host.etag /\ host.writable
  <2>1. host' = [host EXCEPT !.bytes = w.bytes, !.etag = @ + 1] /\ held' = held \cup {w.bytes}
    BY <1>2 DEF Decide
  <2> QED
    <3>1. host' \in Hosts /\ host'.bytes = w.bytes
      BY <1>1, <2>1, EnvironmentPieces, ReplacedIsTyped
    <3> QED
      BY <1>1, <2>1, <3>1
<1>3. CASE ~(w.ifMatch = host.etag /\ host.writable)
  BY <1>1, <1>3, EnvironmentPieces DEF Decide
<1> QED
  BY <1>2, <1>3

LEMMA DecidedIsSound ==
  ASSUME IInv, panel.at = "writing", UNCHANGED <<call, state, minted>>,
         NEW outcome \in Outcomes \ {"none"}, NEW etag \in Nat, NEW reread \in BOOLEAN,
         Decided(outcome, etag, reread),
         outcome = "saved" => panel.intent.bytes \in held'
  PROVE  PanelIsSound'
<1>1. /\ panel' \in Panels /\ panel'.at = "decided" /\ panel'.outcome = outcome
      /\ panel'.intent = panel.intent
  BY EnvironmentPieces DEF Decided, Panels
<1> QED
  BY <1>1, EnvironmentPieces DEF PanelIsSound, PanelActsAlone

LEMMA AnswerKeeps ==
  ASSUME IInv, NEW w \in writes, Answer(w)
  PROVE  IInv'
<1>1. /\ UNCHANGED <<review, sync, dest, state, minted, call, open, events>>
      /\ panel.at = "writing" /\ panel.intent = w /\ Decide(w)
  BY DEF Answer, Waiting, serviceVars, reviewVars
<1>2. /\ host' \in Hosts /\ held \subseteq held' /\ host'.bytes \in held'
      /\ writes' \in SUBSET Intents /\ host'.etag \in Nat
      /\ w.ifMatch = host.etag /\ host.writable => w.bytes \in held'
  BY <1>1, DecideKeepsHeld DEF Hosts
<1>3. faults' \in 0..MaxFaults
  BY EnvironmentPieces, CountersStay DEF Answer
<1>4. PanelIsSound'
  <2>1. CASE Decided("conflict", 0, FALSE)
    BY <1>1, <2>1, DecidedIsSound DEF Outcomes
  <2>2. CASE Decided("unknown", 0, TRUE)
    BY <1>1, <2>2, DecidedIsSound DEF Outcomes
  <2>3. CASE /\ w.ifMatch = host.etag /\ host.writable
             /\ Decided("saved", host'.etag, FALSE) \/ Decided("saved", 0, FALSE)
    BY <1>1, <1>2, <2>3, DecidedIsSound DEF Outcomes
  <2> QED
    BY <2>1, <2>2, <2>3, EnvironmentPieces DEF Answer, Hosts
<1>5. HostIsSound'
  BY <1>1, <1>2, <1>3, EnvironmentPieces DEF HostIsSound
<1> QED
  BY <1>1, <1>2, <1>4, <1>5, HostStepKeeps DEF UncertainGrows

LEMMA WriteFailsKeeps ==
  ASSUME IInv, NEW w \in writes, WriteFails(w)
  PROVE  IInv'
<1>1. /\ UNCHANGED <<review, sync, dest, state, minted, call, open, host, held, events>>
      /\ panel.at = "writing" /\ writes' \in SUBSET Intents /\ faults' \in 0..MaxFaults
  BY EnvironmentPieces, CountersStay DEF WriteFails, Waiting, serviceVars, reviewVars
<1>2. PICK reread \in BOOLEAN : Decided("unknown", 0, reread)
  BY DEF WriteFails
<1>3. PanelIsSound'
  BY <1>1, <1>2, DecidedIsSound DEF Outcomes
<1>4. HostIsSound' /\ held \subseteq held'
  BY <1>1, EnvironmentPieces, HostStaysSound
<1> QED
  BY <1>1, <1>3, <1>4, HostStepKeeps DEF UncertainGrows

LEMMA LateKeeps ==
  ASSUME IInv, NEW w \in writes, Late(w)
  PROVE  IInv'
<1>1. UNCHANGED <<review, sync, dest, state, minted, call, open, panel, events, faults>>
  BY DEF Late, serviceVars, reviewVars
<1>2. HostIsSound' /\ held \subseteq held'
  <2>1. CASE Decide(w)
    BY <1>1, <2>1, DecideKeepsHeld, EnvironmentPieces DEF HostIsSound
  <2>2. CASE writes' = writes \ {w} /\ UNCHANGED <<host, held>>
    BY <1>1, <2>2, EnvironmentPieces, HostStaysSound
  <2> QED
    BY <2>1, <2>2 DEF Late
<1>3. PanelIsSound'
  BY <1>1, <1>2, PanelStaysSound
<1> QED
  BY <1>1, <1>2, <1>3, HostStepKeeps DEF UncertainGrows

LEMMA OutsideKeeps ==
  ASSUME IInv, OutsideWrite \/ PermissionChanges
  PROVE  IInv'
<1>1. /\ UNCHANGED <<review, sync, dest, state, minted, call, open, writes, panel, faults>>
      /\ events' \in 0..MaxEvents
  BY CountersStay DEF OutsideWrite, PermissionChanges, serviceVars, reviewVars
<1>2. host' \in Hosts /\ held \subseteq held' /\ host'.bytes \in held'
  <2>1. CASE OutsideWrite
    <3>1. PICK o \in Others : host' = [host EXCEPT !.bytes = <<o>>, !.etag = @ + 1]
                              /\ held' = held \cup {<<o>>}
      BY <2>1 DEF OutsideWrite
    <3>2. <<o>> \in Bytes
      BY BytesAreSequences DEF Content
    <3>3. host' \in Hosts /\ host'.bytes = <<o>>
      BY <3>1, <3>2, EnvironmentPieces, ReplacedIsTyped
    <3> QED
      BY <3>1, <3>3
  <2>2. CASE PermissionChanges
    BY <2>2, EnvironmentPieces DEF PermissionChanges, Hosts
  <2> QED
    BY <2>1, <2>2
<1>3. HostIsSound'
  BY <1>1, <1>2, EnvironmentPieces DEF HostIsSound
<1>4. PanelIsSound'
  BY <1>1, <1>2, PanelStaysSound
<1> QED
  BY <1>1, <1>2, <1>3, <1>4, HostStepKeeps DEF UncertainGrows

-----------------------------------------------------------------------------
LEMMA InitEstablishes == Init => IInv
<1> SUFFICES ASSUME Init
             PROVE  IInv
  OBVIOUS
<1>1. /\ review = [gen |-> 1, src |-> <<Source>>, rev |-> 0]
      /\ sync = [phase |-> "clean", des |-> <<Source, 0>>, sav |-> <<Source, 0>>]
      /\ dest = [phase |-> "host", writable |-> TRUE]
      /\ state = Opened(<<Source>>) /\ minted = 0 /\ open = {} /\ call = NoCall
      /\ host = [bytes |-> <<Source>>, etag |-> 1, writable |-> TRUE] /\ writes = {}
      /\ panel = [Closed EXCEPT !.shown = TRUE] /\ held = {<<Source>>}
  BY DEF Init, ServiceInit
<1>2. <<Source>> \in Bytes /\ <<Source, 0>> \in Bytes
  BY BytesAreSequences DEF Content
<1>3. events \in 0..MaxEvents /\ faults \in 0..MaxFaults
  BY OpeningsAssumption DEF Init
<1>4. /\ state \in Files /\ state.pending.id = 0
  BY <1>1, <1>2, NoCallIsTyped DEF Opened, Files, Outcomes, NoIntent
<1>5. panel \in Panels /\ panel.at = "idle"
  BY <1>1, NoCallIsTyped DEF Closed, Panels
<1>6. ServiceTyped
  BY <1>1, <1>2, <1>4, NoCallFields DEF ServiceTyped, Reviews, Syncs, Phases
<1>7. HostTyped
  BY <1>1, <1>2, <1>3, <1>5 DEF HostTyped, Hosts
<1>8. Settled(state) /\ Settled(call.state) /\ UncertainIsPending /\ PanelActsAlone
  BY <1>1, <1>4, <1>5, NoCallFields DEF Settled, UncertainIsPending, PanelActsAlone
<1>9. SaveKnows /\ ReceiptKnows /\ AckKnows /\ FinishKnows
  BY <1>1, NoCallFields DEF SaveKnows, ReceiptKnows, AckKnows, FinishKnows, At
<1>10. HeldIsKnown /\ SavedIsHeld
  BY <1>1, <1>5, NoCallFields DEF HeldIsKnown, SavedIsHeld
<1> QED
  BY <1>6, <1>7, <1>8, <1>9, <1>10 DEF IInv, Typed

LEMMA StutterKeeps == IInv /\ UNCHANGED vars => IInv'
BY DEF vars, serviceVars, reviewVars, IInv, Typed, ServiceTyped, HostTyped, Settled, SaveKnows,
       ReceiptKnows, AckKnows, FinishKnows, PanelActsAlone, HeldIsKnown, SavedIsHeld,
       UncertainIsPending, At

LEMMA StepKeeps == IInv /\ [Next]_vars => IInv'
<1> SUFFICES ASSUME IInv, [Next]_vars
             PROVE  IInv'
  OBVIOUS
<1>1. CASE Service
  BY <1>1, ServiceKeeps DEF Service, Steady
<1>2. CASE Fails \/ Crash \/ Reviewer
  BY <1>2, FailsKeeps, CrashKeeps, ReviewerKeeps
<1>3. CASE StartSave \/ StartRead \/ SendFinish \/ SendReceipt \/ Write
  BY <1>3, StartSaveKeeps, PanelStepKeeps, SendFinishKeeps, SendReceiptKeeps, WriteKeeps
<1>4. CASE Receive \/ GiveUp \/ Drop \/ Redeliver
  BY <1>4, ReceiveKeeps, PanelStepKeeps, DropKeeps, RedeliverKeeps
<1>5. CASE \E w \in writes : Answer(w) \/ WriteFails(w) \/ Late(w)
  BY <1>5, AnswerKeeps, WriteFailsKeeps, LateKeeps
<1>6. CASE OutsideWrite \/ PermissionChanges \/ PanelReplaced
  BY <1>6, OutsideKeeps, PanelStepKeeps
<1>7. CASE UNCHANGED vars
  BY <1>7, StutterKeeps
<1> QED
  BY <1>1, <1>2, <1>3, <1>4, <1>5, <1>6, <1>7 DEF Next

LEMMA Invariance == Spec => []IInv
<1> QED
  BY InitEstablishes, StepKeeps, PTL DEF Spec

(* The review, the recovery file, the request at work and the panel keep   *)
(* their types, and no intent is pending or uncertain that was never made: *)
(* every handler of the host persistence and of the panel.                 *)
THEOREM HostIsTyped == Spec => []TypeOK
<1>1. IInv => TypeOK
  BY Pieces, EnvironmentPieces DEF IInv, Typed, TypeOK, Reviews, Syncs, Files, Outcomes, Panels
<1> QED
  BY <1>1, Invariance, PTL

(* While the service does not know what became of a write, its intent is   *)
(* the pending one in host-resource.json, so that no other save starts and *)
(* a reread classifies it: through crashes, failed steps, timeouts,        *)
(* repeated receipts and new panels (save(), receipt(), finish()).         *)
THEOREM UncertainStaysPending == Spec => []UncertainIsPending
<1>1. IInv => UncertainIsPending
  BY DEF IInv
<1> QED
  BY <1>1, Invariance, PTL

(* What is shown as saved was held by the host, or nothing was to be saved:*)
(* acknowledgeImportedSave() only ever sees an intent the host accepted,   *)
(* whatever was edited, repeated or lost in between.                       *)
THEOREM CleanStaysAccepted == Spec => []CleanWasAccepted
<1>1. IInv => CleanWasAccepted
  BY DEF IInv, SavedIsHeld, CleanWasAccepted
<1> QED
  BY <1>1, Invariance, PTL

(* Once a copy is the destination, no answer that was under way and no     *)
(* reread of the host changes the save state of an unchanged review.       *)
THEOREM CopyIsLeftAlone == Spec => CopyLeavesTheHost
<1>1. ASSUME IInv, [Next]_vars
      PROVE  [dest.phase = "active" /\ review' = review => sync' = sync]_vars
  <2> SUFFICES ASSUME dest.phase = "active", review' = review, Next
               PROVE  sync' = sync
    BY <1>1 DEF vars, serviceVars, reviewVars
  <2>1. /\ review \in Reviews /\ review.gen + 1 # review.gen /\ review.rev + 1 # review.rev
        /\ dest.phase # "host"
    BY <1>1, Pieces DEF Reviews
  <2>2. \A result : MarkNotSaved(result) => sync' = sync
    BY <2>1 DEF MarkNotSaved
  <2>3. \A writable : Configure(writable) => sync' = sync
    BY <2>1 DEF Configure
  <2>4. CASE ServiceSteps
    <3>1. ~FinishAdopt \/ sync' = sync
      BY <2>1 DEF FinishAdopt
    <3>2. ~AckBroker \/ sync' = sync
      BY <2>1 DEF AckBroker, AckAdmitted
    <3> QED
      BY <2>1, <2>2, <2>3, <2>4, <3>1, <3>2
         DEF ServiceSteps, SaveStart, SaveBytes, SaveIntent, SaveConfigure, ReceiptStart,
             ReceiptRecord, ReceiptMark, AckPersist, FinishStart, FinishOvertaken,
             FinishConflict, FinishRecord, FinishConfigure, FinishClassified, reviewVars
  <2>5. CASE Fails \/ Crash
    <3>1. sync \in Syncs
      BY <1>1, Pieces
    <3> QED
      BY <2>1, <2>5, <3>1 DEF Fails, CallFails, Crash, ServiceDies, reviewVars, Syncs
  <2>6. CASE Reviewer
    BY <2>1, <2>6 DEF Reviewer, Edit, ChooseCopy, Reviews
  <2>7. CASE \/ StartSave \/ StartRead \/ SendFinish \/ SendReceipt \/ Write
             \/ Receive \/ GiveUp \/ Drop \/ Redeliver
    BY <2>7 DEF StartSave, StartRead, SendFinish, SendReceipt, Write, Receive, GiveUp, Drop,
                Redeliver, Request, serviceVars, reviewVars
  <2>8. CASE \/ \E w \in writes : Answer(w) \/ WriteFails(w) \/ Late(w)
             \/ OutsideWrite \/ PermissionChanges \/ PanelReplaced
    BY <2>8 DEF Answer, WriteFails, Late, OutsideWrite, PermissionChanges, PanelReplaced,
                serviceVars, reviewVars
  <2> QED
    BY <2>4, <2>5, <2>6, <2>7, <2>8 DEF Next, Service
<1> QED
  BY <1>1, Invariance, PTL DEF Spec, CopyLeavesTheHost

-----------------------------------------------------------------------------
(* What the writes of a review replace. Every pair of an entity tag and    *)
(* bytes the program knows was the host's at some time; what is read of    *)
(* the host is never older than what the recovery file says; and a review  *)
(* that has left the file's bytes behind can no longer match its tag.      *)
RenderedFrom(b, src, rev) == b = src \/ \E r \in 0..rev : b = Append(src, r)

(* The host has had these bytes under this tag, not before the file's.     *)
Past(e, b) ==
  state.etag <= e /\ e <= host.etag /\ b \in held /\ (e = host.etag => b = host.bytes)

(* The host has left the bytes b of tag e behind.                          *)
Behind(e, b) == e < host.etag /\ host.bytes # b

Later(e, b, read, bytes) == e <= read /\ (b = bytes \/ (e < read /\ host.bytes # b))

Reported == call.kind = "receipt" /\ call.outcome = "saved" /\ call.etag # 0
            /\ call.id = state.pending.id

PairsArePast ==
  /\ Past(state.etag, state.digest)
  /\ call.kind = "finish" => Past(call.etag, call.read)
  /\ Reported => Past(call.etag, state.pending.bytes)
  /\ panel.at = "decided" /\ panel.outcome = "saved" /\ panel.etag # 0 =>
       Past(panel.etag, panel.intent.bytes)
  /\ panel.at = "read" => Past(panel.read.etag, panel.read.bytes)

ReadsAreLater ==
  /\ call.kind = "finish" => Later(state.etag, state.digest, call.etag, call.read)
  /\ panel.at = "read" =>
       /\ Later(state.etag, state.digest, panel.read.etag, panel.read.bytes)
       /\ call.kind = "finish" =>
            Later(call.etag, call.read, panel.read.etag, panel.read.bytes)
       /\ Reported => Later(call.etag, state.pending.bytes, panel.read.etag, panel.read.bytes)

(* An intent was made of the review's present or an earlier revision, for  *)
(* a tag the file has had; it can only replace what it was rendered from.  *)
Sound(i) ==
  /\ i.ifMatch <= state.etag
  /\ \E r \in 0..review.rev :
       /\ i.bytes = Append(i.src, r)
       /\ i.ifMatch = host.etag => RenderedFrom(host.bytes, i.src, r)

IntentsAreSound ==
  /\ \A w \in writes : Sound(w)
  /\ state.pending.id # 0 => Sound(state.pending)
  /\ At("save", "bytes") \/ At("save", "intent") => Sound(call.intent)

(* What a request carries from one of its steps to the next.               *)
CarriesFile ==
  call.step \in {"bytes", "intent", "ack", "acked", "record", "overtaken", "adopt"} =>
    /\ call.state.etag = state.etag /\ call.state.digest = state.digest
    /\ call.state.pending.id = 0 \/ call.state.pending = state.pending

CarriesIntent ==
  /\ call.step \in {"ack", "acked"} =>
       /\ call.etag # 0 /\ call.intent = state.pending /\ state.pending.id # 0
       /\ call.kind = "receipt" => call.outcome = "saved" /\ call.id = state.pending.id
       /\ call.kind = "finish" => call.read = state.pending.bytes
  /\ dest.phase = "host" /\ call.step = "acked" => review.src = state.pending.src

(* The file's bytes are the review's, or the host has left them behind.    *)
Based(e, b) == RenderedFrom(b, review.src, review.rev) \/ Behind(e, b)

FileIsBased ==
  /\ dest.phase = "host" => Based(state.etag, state.digest)
  /\ At("finish", "adopt") => call.read # state.digest
  /\ dest.phase = "host" /\ At("finish", "record") => Based(call.etag, call.read)

WInv ==
  /\ PairsArePast /\ ReadsAreLater
  /\ IntentsAreSound
  /\ CarriesFile /\ CarriesIntent
  /\ FileIsBased

-----------------------------------------------------------------------------
(* Entity tags and revisions are numbers.                                  *)
LEMMA Tags ==
  ASSUME IInv
  PROVE  /\ state.etag \in Nat /\ host.etag \in Nat /\ call.etag \in Nat /\ review.rev \in Nat
         /\ panel.at = "read" => panel.read.etag \in Nat
         /\ \A w \in Intents : w.ifMatch \in Nat
<1>1. /\ state \in Files /\ host \in Hosts /\ call \in Requests /\ review \in Reviews
      /\ panel.at = "read" => panel.read \in Hosts
  BY DEF IInv, Typed, ServiceTyped, HostTyped
<1> QED
  BY <1>1, IntentsAreRecords DEF Files, Hosts, Requests, Reviews

(* A request that only answers, or goes on to a step that carries nothing. *)
SameRequest ==
  /\ call'.kind = call.kind /\ call'.id = call.id /\ call'.outcome = call.outcome
  /\ call'.etag = call.etag /\ call'.read = call.read

LightSteps == {"start", "replied", "configure", "mark", "conflict", "classified"}

SameWorld == UNCHANGED <<host, held, writes, panel>>

(* A step of a request that keeps what it knows keeps the known pairs.     *)
LEMMA PairsStay ==
  ASSUME WInv, SameWorld, SameRequest, UNCHANGED state
  PROVE  PairsArePast' /\ ReadsAreLater'
BY DEF WInv, SameWorld, SameRequest, PairsArePast, ReadsAreLater, Past, Later, Reported

(* While the review and the file stay, so do the sound intents.            *)
LEMMA SoundStays ==
  ASSUME WInv, SameWorld, UNCHANGED <<state, review>>
  PROVE  /\ \A i : Sound(i) => Sound(i)'
         /\ (\A w \in writes : Sound(w))'
         /\ (state.pending.id # 0 => Sound(state.pending))'
<1>1. \A i : Sound(i) => Sound(i)'
  BY DEF SameWorld, Sound
<1>2. (\A w \in writes : Sound(w))'
  BY <1>1 DEF WInv, SameWorld, IntentsAreSound
<1>3. (state.pending.id # 0 => Sound(state.pending))'
  BY DEF WInv, SameWorld, IntentsAreSound, Sound
<1> QED
  BY <1>1, <1>2, <1>3

(* An answer, and a step that carries nothing on, keep the invariant.      *)
LEMMA LightKeeps ==
  ASSUME WInv, SameWorld, UNCHANGED <<state, review>>, SameRequest,
         call'.step \in LightSteps, dest'.phase \in {dest.phase, "active"}
  PROVE  WInv'
<1>1. PairsArePast' /\ ReadsAreLater'
  BY PairsStay
<1>2. IntentsAreSound'
  BY SoundStays DEF IntentsAreSound, At, LightSteps
<1>3. CarriesFile' /\ CarriesIntent'
  BY DEF CarriesFile, CarriesIntent, LightSteps
<1>4. FileIsBased'
  BY DEF WInv, FileIsBased, Based, Behind, SameWorld, At, LightSteps
<1> QED
  BY <1>1, <1>2, <1>3, <1>4 DEF WInv

(* Reply() ends the request and changes nothing else of it.                *)
LEMMA ReplyIs ==
  ASSUME IInv, NEW result, Reply(result)
  PROVE  SameRequest /\ call'.step = "replied"
BY Pieces DEF Reply, SameRequest, Requests

(* A request that goes on keeps what it carries.                           *)
LEMMA GotoIs ==
  ASSUME IInv, NEW step, Goto(step)
  PROVE  /\ SameRequest /\ call'.step = step
         /\ call'.state = call.state /\ call'.intent = call.intent
BY Pieces DEF Goto, SameRequest, Requests

(* A step of the service leaves the host and the panel alone.              *)
LEMMA SteadyWorld == ASSUME Steady PROVE SameWorld
BY DEF Steady, SameWorld, environmentVars

(* markImportedSaveState() answers the request.                            *)
LEMMA MarkIsLight ==
  ASSUME IInv, NEW result, MarkNotSaved(result)
  PROVE  SameRequest /\ call'.step = "replied"
BY ReplyIs DEF MarkNotSaved

(* configureImportedDestination() never changes whose PDF it is.           *)
LEMMA ConfigureKeepsPhase ==
  ASSUME IInv, NEW writable, Configure(writable)
  PROVE  dest'.phase = dest.phase
BY Pieces DEF Configure

(* The steps that end a request, or are about to, keep the invariant.      *)
LEMMA AnsweringKeeps ==
  ASSUME IInv, WInv, Steady,
         \/ SaveConfigure \/ ReceiptMark
         \/ FinishConflict \/ FinishConfigure \/ FinishClassified \/ CallFails
  PROVE  WInv'
<1>1. SameWorld /\ UNCHANGED <<state, review>>
  BY SteadyWorld DEF SaveConfigure, ReceiptMark, FinishConflict, FinishConfigure,
       FinishClassified, CallFails, reviewVars
<1>2. dest'.phase = dest.phase
  BY ConfigureKeepsPhase DEF SaveConfigure, ReceiptMark, FinishConflict, FinishConfigure,
       FinishClassified, CallFails, reviewVars
<1>3. SameRequest /\ call'.step \in {"replied", "classified"}
  BY ReplyIs, GotoIs, MarkIsLight DEF SaveConfigure, ReceiptMark, FinishConflict, FinishConfigure,
       FinishClassified, CallFails
<1> QED
  BY <1>1, <1>2, <1>3, LightKeeps DEF LightSteps

(* save(): the frozen intent is for the file's tag, and of the review.     *)
LEMMA FreezingKeeps ==
  ASSUME IInv, WInv, SaveStart, Steady
  PROVE  WInv'
<1> DEFINE Frozen == [id |-> NextId, gen |-> review.gen, src |-> review.src,
                      bytes |-> Rendering(review), ifMatch |-> state.etag]
<1>1. SameWorld /\ UNCHANGED <<state, review, dest>> /\ At("save", "start")
  BY SteadyWorld DEF SaveStart
<1>2. CASE call'.step = "replied" /\ SameRequest
  BY <1>1, <1>2, LightKeeps DEF LightSteps
<1>3. CASE /\ dest.phase = "host" /\ ~Unresolved
           /\ call' = [call EXCEPT !.step = "bytes", !.state = state, !.intent = Frozen]
  <2>1. /\ SameRequest /\ call'.step = "bytes" /\ call'.state = state /\ call'.intent = Frozen
        /\ call'.kind = "save"
    BY <1>1, <1>3, Pieces DEF SameRequest, Requests, At
  <2>2. PairsArePast' /\ ReadsAreLater'
    BY <1>1, <2>1, PairsStay
  <2>3. Sound(Frozen)
    <3>1. /\ Frozen.ifMatch = state.etag /\ Frozen.src = review.src
          /\ Frozen.bytes = Append(review.src, review.rev)
      BY DEF Rendering
    <3>2. state.etag <= host.etag /\ (state.etag = host.etag => state.digest = host.bytes)
      BY DEF WInv, PairsArePast, Past
    <3>3. state.etag = host.etag => RenderedFrom(host.bytes, review.src, review.rev)
      BY <1>3, <3>2, Tags DEF WInv, FileIsBased, Based, Behind
    <3>4. review.rev \in 0..review.rev /\ state.etag <= state.etag
      BY Tags
    <3> HIDE DEF Frozen
    <3> QED
      BY <3>1, <3>3, <3>4 DEF Sound
  <2> HIDE DEF Frozen
  <2>4. IntentsAreSound'
    <3>1. Sound(call.intent)'
      BY <1>1, <2>1, <2>3 DEF Sound, SameWorld
    <3> QED
      BY <1>1, <3>1, SoundStays DEF IntentsAreSound
  <2>5. CarriesFile' /\ CarriesIntent'
    BY <1>1, <2>1 DEF CarriesFile, CarriesIntent
  <2>6. FileIsBased'
    BY <1>1, <2>1 DEF WInv, FileIsBased, Based, Behind, SameWorld, At
  <2> QED
    BY <2>2, <2>4, <2>5, <2>6 DEF WInv
<1> QED
  BY <1>2, <1>3, ReplyIs, MarkIsLight DEF SaveStart

(* save(): the bytes are written, the intent is still the frozen one.      *)
LEMMA SaveBytesKeepsWrites ==
  ASSUME IInv, WInv, SaveBytes, Steady
  PROVE  WInv'
<1>1. SameWorld /\ UNCHANGED <<state, review, dest>> /\ At("save", "bytes")
  BY SteadyWorld DEF SaveBytes, reviewVars
<1>2. CASE Reply("local-copy")
  BY <1>1, <1>2, ReplyIs, LightKeeps DEF LightSteps
<1>3. CASE Goto("intent")
  <2>1. /\ SameRequest /\ call'.step = "intent" /\ call'.state = call.state
        /\ call'.intent = call.intent
    BY <1>3, GotoIs
  <2>2. PairsArePast' /\ ReadsAreLater'
    BY <1>1, <2>1, PairsStay
  <2>3. IntentsAreSound'
    <3>1. Sound(call.intent)'
      BY <1>1, <2>1 DEF WInv, IntentsAreSound, Sound, SameWorld
    <3> QED
      BY <1>1, <3>1, SoundStays DEF IntentsAreSound
  <2>4. CarriesFile' /\ CarriesIntent'
    BY <1>1, <2>1 DEF WInv, CarriesFile, CarriesIntent, At
  <2>5. FileIsBased'
    BY <1>1, <2>1 DEF WInv, FileIsBased, Based, Behind, SameWorld, At, SameRequest
  <2> QED
    BY <2>2, <2>3, <2>4, <2>5 DEF WInv
<1> QED
  BY <1>2, <1>3 DEF SaveBytes

(* save(): the frozen intent becomes the pending one.                      *)
LEMMA SaveIntentKeepsWrites ==
  ASSUME IInv, WInv, SaveIntent, Steady
  PROVE  WInv'
<1>1. SameWorld /\ UNCHANGED <<review, dest>> /\ At("save", "intent")
  BY SteadyWorld DEF SaveIntent, reviewVars
<1>2. /\ SameRequest /\ call'.step = "configure" /\ call'.state = call.state
      /\ call'.intent = call.intent
  BY GotoIs DEF SaveIntent
<1>3. state' = [call.state EXCEPT !.pending = call.intent, !.outcome = "unknown"]
  BY DEF SaveIntent
<1>4. /\ state'.etag = state.etag /\ state'.digest = state.digest
      /\ state'.pending = call.intent
  BY <1>1, <1>3, Pieces DEF WInv, CarriesFile, At, Files
<1>5. panel.at # "decided" /\ call.kind # "receipt" /\ call.kind # "finish"
  BY <1>1, PanelWaits DEF At
<1>6. PairsArePast' /\ ReadsAreLater'
  BY <1>1, <1>2, <1>4, <1>5
     DEF WInv, PairsArePast, ReadsAreLater, Past, Later, Reported, SameWorld, SameRequest
<1>7. IntentsAreSound'
  <2>1. \A i : Sound(i) => Sound(i)'
    BY <1>1, <1>4 DEF Sound, SameWorld
  <2>2. (\A w \in writes : Sound(w))'
    BY <1>1, <2>1 DEF WInv, IntentsAreSound, SameWorld
  <2>3. Sound(state.pending)'
    BY <1>1, <1>4 DEF WInv, IntentsAreSound, Sound, SameWorld
  <2> QED
    BY <1>2, <2>2, <2>3 DEF IntentsAreSound, At
<1>8. CarriesFile' /\ CarriesIntent'
  BY <1>2 DEF CarriesFile, CarriesIntent
<1>9. FileIsBased'
  BY <1>1, <1>2, <1>4 DEF WInv, FileIsBased, Based, Behind, SameWorld, At
<1> QED
  BY <1>6, <1>7, <1>8, <1>9 DEF WInv

-----------------------------------------------------------------------------
(* receipt(): it goes on with the pending intent, or not at all.           *)
LEMMA ReceiptStartKeepsWrites ==
  ASSUME IInv, WInv, ReceiptStart, Steady
  PROVE  WInv'
<1>1. SameWorld /\ UNCHANGED <<state, review, dest>> /\ At("receipt", "start")
  BY SteadyWorld DEF ReceiptStart, reviewVars
<1>2. CASE \E result : Reply(result)
  BY <1>1, <1>2, ReplyIs, LightKeeps DEF LightSteps
<1>3. CASE /\ state.pending.id = call.id
           /\ call' = [call EXCEPT !.state = state, !.intent = state.pending,
                         !.step = IF call.outcome = "saved" /\ call.etag # 0
                                  THEN "ack" ELSE "record"]
  <2>1. /\ SameRequest /\ call'.state = state /\ call'.intent = state.pending
        /\ call'.kind = "receipt"
        /\ call'.step \in {"ack", "record"}
        /\ call'.step = "ack" => call.outcome = "saved" /\ call.etag # 0
    BY <1>1, <1>3, Pieces DEF SameRequest, Requests, At
  <2>2. PairsArePast' /\ ReadsAreLater'
    BY <1>1, <2>1, PairsStay
  <2>3. IntentsAreSound'
    BY <1>1, <2>1, SoundStays DEF IntentsAreSound, At
  <2>4. call.id # 0
    BY <1>1 DEF IInv, ReceiptKnows, At
  <2>5. CarriesFile' /\ CarriesIntent'
    BY <1>1, <1>3, <2>1, <2>4 DEF CarriesFile, CarriesIntent, SameRequest
  <2>6. FileIsBased'
    BY <1>1, <2>1 DEF WInv, FileIsBased, Based, Behind, SameWorld, At, SameRequest
  <2> QED
    BY <2>2, <2>3, <2>5, <2>6 DEF WInv
<1> QED
  BY <1>2, <1>3 DEF ReceiptStart

(* The recovery file is written again, with another outcome.               *)
LEMMA FileRewritten ==
  ASSUME IInv, WInv, SameWorld, UNCHANGED <<review, dest>>, SameRequest,
         call'.step \in LightSteps,
         state'.etag = state.etag, state'.digest = state.digest,
         state'.pending.id = 0 \/ state'.pending = state.pending,
         panel.at # "decided", call.kind # "receipt" \/ state'.pending = state.pending
  PROVE  WInv'
<1>1. PairsArePast' /\ ReadsAreLater'
  BY DEF WInv, PairsArePast, ReadsAreLater, Past, Later, Reported, SameWorld, SameRequest
<1>2. IntentsAreSound'
  <2>1. \A i : Sound(i) => Sound(i)'
    BY DEF Sound, SameWorld
  <2>2. (\A w \in writes : Sound(w))'
    BY <2>1 DEF WInv, IntentsAreSound, SameWorld
  <2>3. (state.pending.id # 0 => Sound(state.pending))'
    BY DEF WInv, IntentsAreSound, Sound, SameWorld
  <2> QED
    BY <2>2, <2>3 DEF IntentsAreSound, At, LightSteps
<1>3. CarriesFile' /\ CarriesIntent'
  BY DEF CarriesFile, CarriesIntent, LightSteps
<1>4. FileIsBased'
  BY DEF WInv, FileIsBased, Based, Behind, SameWorld, At, LightSteps
<1> QED
  BY <1>1, <1>2, <1>3, <1>4 DEF WInv

(* receipt(): an outcome other than saved only changes the outcome.        *)
LEMMA ReceiptRecordKeepsWrites ==
  ASSUME IInv, WInv, ReceiptRecord, Steady
  PROVE  WInv'
<1>1. SameWorld /\ UNCHANGED <<review, dest>> /\ At("receipt", "record")
  BY SteadyWorld DEF ReceiptRecord, reviewVars
<1>2. SameRequest /\ call'.step = "mark"
  BY GotoIs DEF ReceiptRecord
<1>3. /\ state'.etag = call.state.etag /\ state'.digest = call.state.digest
      /\ state'.pending = call.state.pending
  BY Pieces DEF ReceiptRecord, Files
<1>4. call.state.pending = state.pending
  BY <1>1 DEF IInv, ReceiptKnows
<1>5. call.state.etag = state.etag /\ call.state.digest = state.digest
  BY <1>1 DEF WInv, CarriesFile, At
<1>6. panel.at # "decided"
  BY <1>1, PanelWaits DEF At
<1> QED
  BY <1>1, <1>2, <1>3, <1>4, <1>5, <1>6, FileRewritten DEF LightSteps

(* finish(): a conflict only changes the outcome.                          *)
LEMMA OvertakenKeepsWrites ==
  ASSUME IInv, WInv, FinishOvertaken, Steady
  PROVE  WInv'
<1>1. /\ SameWorld /\ UNCHANGED <<review, dest>> /\ At("finish", "overtaken")
      /\ state' = call.state
  BY SteadyWorld DEF FinishOvertaken, reviewVars
<1>2. SameRequest /\ call'.step = "conflict"
  BY GotoIs DEF FinishOvertaken
<1>3. /\ call.state.etag = state.etag /\ call.state.digest = state.digest
      /\ call.state.pending.id = 0 \/ call.state.pending = state.pending
  BY <1>1 DEF WInv, CarriesFile, At
<1>4. panel.at # "decided" /\ call.kind # "receipt"
  BY <1>1, PanelWaits DEF At
<1> QED
  BY <1>1, <1>2, <1>3, <1>4, FileRewritten DEF LightSteps

(* #ack(): only a review still on the source of the intent takes it.       *)
LEMMA AckBrokerKeepsWrites ==
  ASSUME IInv, WInv, AckBroker, Steady
  PROVE  WInv'
<1>1. SameWorld /\ UNCHANGED <<state, review, dest>> /\ call.step = "ack"
  BY SteadyWorld DEF AckBroker
<1>2. CASE Reply("error")
  BY <1>1, <1>2, ReplyIs, LightKeeps DEF LightSteps
<1>3. CASE AckAdmitted /\ Goto("acked")
  <2>1. /\ SameRequest /\ call'.step = "acked" /\ call'.state = call.state
        /\ call'.intent = call.intent
    BY <1>3, GotoIs
  <2>2. PairsArePast' /\ ReadsAreLater'
    BY <1>1, <2>1, PairsStay
  <2>3. IntentsAreSound'
    BY <1>1, <2>1, SoundStays DEF IntentsAreSound, At
  <2>4. CarriesFile' /\ CarriesIntent'
    BY <1>1, <1>3, <2>1 DEF WInv, CarriesFile, CarriesIntent, AckAdmitted, SameRequest
  <2>5. FileIsBased'
    BY <1>1, <2>1 DEF WInv, FileIsBased, Based, Behind, SameWorld, At, SameRequest
  <2> QED
    BY <2>2, <2>3, <2>4, <2>5 DEF WInv
<1> QED
  BY <1>2, <1>3 DEF AckBroker

(* #ack(): the file takes the tag and the bytes of the write that landed.  *)
LEMMA AckPersistKeepsWrites ==
  ASSUME IInv, WInv, AckPersist, Steady
  PROVE  WInv'
<1>1. /\ SameWorld /\ UNCHANGED <<review, dest>> /\ call.step = "acked"
      /\ call.kind \in {"receipt", "finish"}
  BY SteadyWorld DEF AckPersist, reviewVars, IInv, AckKnows
<1>2. SameRequest /\ call'.step \in {"replied", "configure"}
  BY ReplyIs, GotoIs DEF AckPersist
<1>3. call.intent = state.pending /\ state.pending.id # 0 /\ call.etag # 0
  BY <1>1 DEF WInv, CarriesIntent
<1>4. /\ state'.etag = call.etag /\ state'.digest = state.pending.bytes
      /\ state'.pending = NoIntent /\ state'.pending.id = 0
  <2>1. call.state \in Files
    BY Pieces
  <2> QED
    BY <1>3, <2>1 DEF AckPersist, Files, NoIntent
<1>5. /\ call.kind = "receipt" => Reported /\ call.id # 0
      /\ call.kind = "finish" => call.read = state.pending.bytes
  BY <1>1, <1>3 DEF WInv, CarriesIntent, Reported, IInv, ReceiptKnows
<1>6. /\ Past(call.etag, state.pending.bytes)
      /\ panel.at = "read" =>
           Later(call.etag, state.pending.bytes, panel.read.etag, panel.read.bytes)
  BY <1>1, <1>5 DEF WInv, PairsArePast, ReadsAreLater
<1>7. panel.at # "decided" /\ ~Reported'
  BY <1>1, <1>2, <1>4, <1>5, PanelWaits DEF SameWorld, Reported, SameRequest
<1>8. PairsArePast' /\ ReadsAreLater'
  BY <1>1, <1>2, <1>4, <1>5, <1>6, <1>7, Tags
     DEF WInv, PairsArePast, ReadsAreLater, Past, Later, SameWorld, SameRequest
<1>9. IntentsAreSound'
  <2>1. \A w \in writes : Sound(w)'
    <3>1. \A w \in writes : w.ifMatch \in Nat
      BY Tags DEF IInv, Typed, HostTyped
    <3>2. state.etag <= call.etag
      BY <1>6 DEF Past
    <3> QED
      BY <1>1, <1>4, <3>1, <3>2, Tags DEF WInv, IntentsAreSound, Sound, SameWorld
  <2>2. writes' = writes
    BY <1>1 DEF SameWorld
  <2> QED
    BY <1>2, <1>4, <2>1, <2>2 DEF IntentsAreSound, At
<1>10. CarriesFile' /\ CarriesIntent'
  BY <1>2 DEF CarriesFile, CarriesIntent
<1>11. FileIsBased'
  <2>1. PICK r \in 0..review.rev : state.pending.bytes = Append(state.pending.src, r)
    BY <1>3 DEF WInv, IntentsAreSound, Sound
  <2>2. dest.phase = "host" => RenderedFrom(state.pending.bytes, review.src, review.rev)
    BY <1>1, <2>1 DEF WInv, CarriesIntent, RenderedFrom
  <2> QED
    BY <1>1, <1>2, <1>4, <2>2 DEF FileIsBased, Based, At
<1> QED
  BY <1>8, <1>9, <1>10, <1>11 DEF WInv

-----------------------------------------------------------------------------
(* finish(): what is read is the file's bytes under a later tag, or the    *)
(* host has left those behind for good.                                    *)
LEMMA FinishStartKeepsWrites ==
  ASSUME IInv, WInv, FinishStart, Steady
  PROVE  WInv'
<1> DEFINE Next1(step) == IF step = "ack" THEN Landed
                          ELSE IF step = "adopt" THEN Changed
                          ELSE step = "record" => ~Changed
<1>1. SameWorld /\ UNCHANGED <<state, review, dest>> /\ At("finish", "start")
  BY SteadyWorld DEF FinishStart, reviewVars
<1>2. /\ Prior \in Files /\ Prior.etag = state.etag /\ Prior.digest = state.digest
      /\ Prior.pending.id = 0 \/ Prior.pending = state.pending
  BY Pieces, NoCallIsTyped DEF Prior, Files, NoIntent, Outcomes
<1>3. PICK prior \in {[Prior EXCEPT !.writable = call.writable],
                      [Prior EXCEPT !.pending = NoIntent, !.outcome = "none"],
                      [Prior EXCEPT !.outcome = "conflict"], Prior},
           step \in {"ack", "adopt", "record", "overtaken"} :
        /\ call' = [call EXCEPT !.state = prior, !.intent = state.pending, !.step = step,
                                !.classified = NotLanded]
        /\ Next1(step)
  BY DEF FinishStart
<1>4. /\ prior.etag = state.etag /\ prior.digest = state.digest
      /\ prior.pending.id = 0 \/ prior.pending = state.pending
  <2>1. NoIntent.id = 0
    BY DEF NoIntent
  <2> QED
    BY <1>2, <1>3, <2>1 DEF Files
<1>5. /\ SameRequest /\ call'.step = step /\ call'.state = prior /\ call'.intent = state.pending
      /\ call'.kind = "finish"
  BY <1>1, <1>3, Pieces DEF SameRequest, Requests, At
<1>6. PairsArePast' /\ ReadsAreLater'
  BY <1>1, <1>5, PairsStay
<1>7. IntentsAreSound'
  BY <1>1, <1>5, SoundStays DEF IntentsAreSound, At
<1>8. CarriesFile'
  BY <1>1, <1>4, <1>5 DEF CarriesFile
<1>9. step = "ack" => /\ state.pending.id # 0 /\ state.pending.bytes = call.read
                      /\ call.etag # 0
  BY <1>2, <1>3 DEF Landed
<1>10. CarriesIntent'
  BY <1>1, <1>5, <1>9 DEF CarriesIntent, SameRequest
<1>11. FileIsBased'
  <2>1. /\ step = "adopt" => call.read # state.digest
        /\ step = "record" => call.read = state.digest
    BY <1>2, <1>3 DEF Changed
  <2>2. Past(call.etag, call.read)
    BY <1>1 DEF WInv, PairsArePast, At
  <2>3. dest.phase = "host" => Based(state.etag, state.digest)
    BY DEF WInv, FileIsBased
  <2>4. dest.phase = "host" /\ step = "record" => Based(call.etag, call.read)
    BY <2>1, <2>2, <2>3, Tags DEF Based, Past, Behind
  <2> QED
    BY <1>1, <1>5, <2>1, <2>3, <2>4 DEF FileIsBased, Based, Behind, SameWorld, At, SameRequest
<1> QED
  BY <1>6, <1>7, <1>8, <1>10, <1>11 DEF WInv

(* An intent stays sound while the review only grows.                      *)
LEMMA SoundGrows ==
  ASSUME IInv, WInv, SameWorld, UNCHANGED state, review'.rev \in Nat, review.rev <= review'.rev
  PROVE  /\ (\A w \in writes : Sound(w))'
         /\ (state.pending.id # 0 => Sound(state.pending))'
         /\ call' = call => (At("save", "bytes") \/ At("save", "intent") => Sound(call.intent))'
<1>1. \A i : Sound(i) => Sound(i)'
  <2> SUFFICES ASSUME NEW i, Sound(i)
               PROVE  Sound(i)'
    OBVIOUS
  <2>1. PICK r \in 0..review.rev :
          /\ i.bytes = Append(i.src, r)
          /\ i.ifMatch = host.etag => RenderedFrom(host.bytes, i.src, r)
    BY DEF Sound
  <2>2. r \in 0..review'.rev
    BY <2>1, Tags
  <2> QED
    BY <2>1, <2>2 DEF Sound, SameWorld
<1>2. (\A w \in writes : Sound(w))'
  BY <1>1 DEF WInv, IntentsAreSound, SameWorld
<1>3. state.pending.id # 0 => Sound(state.pending)
  BY DEF WInv, IntentsAreSound
<1>4. (state.pending.id # 0 => Sound(state.pending))'
  <2>1. state.pending.id # 0 => Sound(state.pending)'
    BY <1>1, <1>3 DEF Sound
  <2> QED
    BY <2>1
<1>5. call' = call => (At("save", "bytes") \/ At("save", "intent") => Sound(call.intent))'
  <2>1. At("save", "bytes") \/ At("save", "intent") => Sound(call.intent)
    BY DEF WInv, IntentsAreSound
  <2>2. \A i : i = call.intent /\ Sound(i) => Sound(i)'
    BY <1>1
  <2> QED
    BY <2>1, <2>2 DEF At, Sound
<1> QED
  BY <1>2, <1>4, <1>5

(* finish(): a review of other bytes leaves the bytes of the file behind.  *)
LEMMA FinishAdoptKeepsWrites ==
  ASSUME IInv, WInv, FinishAdopt, Steady
  PROVE  WInv'
<1>1. SameWorld /\ UNCHANGED <<state, dest>> /\ At("finish", "adopt")
  BY SteadyWorld DEF FinishAdopt
<1>2. /\ SameRequest /\ call'.step = "record" /\ call'.state = call.state
      /\ call'.intent = call.intent
  BY GotoIs DEF FinishAdopt
<1>3. \/ call.read = review.src /\ review' = review
      \/ review' = [gen |-> review.gen + 1, src |-> call.read, rev |-> review.rev + 1]
  BY DEF FinishAdopt
<1>4. review'.rev \in Nat /\ review.rev <= review'.rev /\ review'.src = call.read
  BY <1>3, Tags
<1>5. PairsArePast' /\ ReadsAreLater'
  BY <1>1, <1>2, PairsStay
<1>6. IntentsAreSound'
  BY <1>1, <1>2, <1>4, SoundGrows DEF IntentsAreSound, At
<1>7. CarriesFile' /\ CarriesIntent'
  BY <1>1, <1>2 DEF WInv, CarriesFile, CarriesIntent, At
<1>8. Behind(state.etag, state.digest)
  <2>1. call.read # state.digest /\ Past(call.etag, call.read)
        /\ Later(state.etag, state.digest, call.etag, call.read)
    BY <1>1 DEF WInv, FileIsBased, PairsArePast, ReadsAreLater, At
  <2> QED
    BY <2>1, Tags DEF Past, Later, Behind
<1>9. FileIsBased'
  <2>1. Behind(state.etag, state.digest)'
    BY <1>1, <1>8 DEF Behind, SameWorld
  <2>2. call'.read = call.read /\ RenderedFrom(call.read, review'.src, review'.rev)
    BY <1>2, <1>4 DEF RenderedFrom, SameRequest
  <2> QED
    BY <1>2, <2>1, <2>2 DEF FileIsBased, Based, At
<1> QED
  BY <1>5, <1>6, <1>7, <1>9 DEF WInv

(* finish(): the file takes the tag and the bytes that were read.          *)
LEMMA FinishRecordKeepsWrites ==
  ASSUME IInv, WInv, FinishRecord, Steady
  PROVE  WInv'
<1>1. SameWorld /\ UNCHANGED <<review, dest>> /\ At("finish", "record")
  BY SteadyWorld DEF FinishRecord, reviewVars
<1>2. SameRequest /\ call'.step = "configure"
  BY GotoIs DEF FinishRecord
<1>3. call.state.pending.id = 0 \/ call.state.pending = state.pending
  BY <1>1 DEF WInv, CarriesFile, At
<1>4. /\ state'.etag = call.etag /\ state'.digest = call.read
      /\ state'.pending = call.state.pending
  BY Pieces DEF FinishRecord, Files
<1>5. panel.at # "decided" /\ call'.kind = "finish" /\ call.kind = "finish"
  BY <1>1, <1>2, PanelWaits DEF At, SameRequest
<1>6. /\ Past(call.etag, call.read)
      /\ panel.at = "read" =>
           Later(call.etag, call.read, panel.read.etag, panel.read.bytes)
  BY <1>5 DEF WInv, PairsArePast, ReadsAreLater
<1>7. PairsArePast' /\ ReadsAreLater'
  BY <1>1, <1>2, <1>4, <1>5, <1>6, Tags
     DEF WInv, PairsArePast, ReadsAreLater, Past, Later, SameWorld, SameRequest, Reported
<1>8. IntentsAreSound'
  <2>1. \A i \in Intents : Sound(i) => Sound(i)'
    <3>1. state.etag <= call.etag
      BY <1>6 DEF Past
    <3> QED
      BY <1>1, <1>4, <3>1, Tags DEF Sound, SameWorld
  <2>2. (\A w \in writes : Sound(w))'
    BY <1>1, <2>1 DEF WInv, IntentsAreSound, SameWorld, IInv, Typed, HostTyped
  <2>3. (state.pending.id # 0 => Sound(state.pending))'
    <3>1. state'.pending.id # 0 => state'.pending = state.pending /\ Sound(state.pending)
                                   /\ state.pending \in Intents
      BY <1>3, <1>4, Pieces DEF WInv, IntentsAreSound
    <3>2. \A i \in Intents : i = state.pending /\ Sound(i) => Sound(i)'
      BY <2>1
    <3> QED
      BY <3>1, <3>2 DEF Sound
  <2> QED
    BY <1>5, <2>2, <2>3 DEF IntentsAreSound, At
<1>9. CarriesFile' /\ CarriesIntent'
  BY <1>2 DEF CarriesFile, CarriesIntent
<1>10. FileIsBased'
  BY <1>1, <1>2, <1>4 DEF WInv, FileIsBased, Based, Behind, SameWorld, At
<1> QED
  BY <1>7, <1>8, <1>9, <1>10 DEF WInv

(* Every step of the service keeps the invariant.                          *)
LEMMA ServiceKeepsWrites ==
  ASSUME IInv, WInv, ServiceSteps, Steady
  PROVE  WInv'
BY AnsweringKeeps, FreezingKeeps, SaveBytesKeepsWrites, SaveIntentKeepsWrites,
   ReceiptStartKeepsWrites, ReceiptRecordKeepsWrites, OvertakenKeepsWrites,
   AckBrokerKeepsWrites, AckPersistKeepsWrites, FinishStartKeepsWrites,
   FinishAdoptKeepsWrites, FinishRecordKeepsWrites
   DEF ServiceSteps

-----------------------------------------------------------------------------
(* An edit and the choice of a copy keep the invariant.                    *)
LEMMA ReviewerKeepsWrites ==
  ASSUME IInv, WInv, Reviewer
  PROVE  WInv'
<1>1. SameWorld /\ UNCHANGED <<state, call>>
  BY DEF Reviewer, Edit, ChooseCopy, SameWorld, environmentVars
<1>2. SameRequest
  BY <1>1 DEF SameRequest
<1>3. /\ review'.src = review.src /\ review'.rev \in Nat /\ review.rev <= review'.rev
      /\ dest'.phase \in {dest.phase, "active"}
  <2>1. review \in Reviews /\ dest \in [phase : {"host", "active"}, writable : BOOLEAN]
    BY Pieces
  <2> QED
    BY <2>1, Tags DEF Reviewer, Edit, ChooseCopy, Reviews
<1>4. PairsArePast' /\ ReadsAreLater'
  BY <1>1, <1>2, PairsStay
<1>5. IntentsAreSound'
  BY <1>1, <1>3, SoundGrows DEF IntentsAreSound
<1>6. CarriesFile' /\ CarriesIntent'
  BY <1>1, <1>3 DEF WInv, CarriesFile, CarriesIntent
<1>7. \A e, b : Based(e, b) => Based(e, b)'
  <2>1. 0..review.rev \subseteq 0..review'.rev
    BY <1>3, Tags
  <2> QED
    BY <1>1, <1>3, <2>1 DEF Based, Behind, RenderedFrom, SameWorld
<1>8. FileIsBased'
  <2>1. /\ dest'.phase = "host" => Based(state.etag, state.digest)'
        /\ dest'.phase = "host" /\ At("finish", "record") => Based(call.etag, call.read)'
    BY <1>1, <1>3, <1>7 DEF WInv, FileIsBased, Based, Behind, SameWorld
  <2> QED
    BY <1>1, <2>1 DEF WInv, FileIsBased, At
<1> QED
  BY <1>4, <1>5, <1>6, <1>8 DEF WInv

(* The service or the panel begins anew.                                   *)
LEMMA IdleKeeps ==
  ASSUME IInv, WInv, UNCHANGED <<host, held, writes, state, review>>,
         dest'.phase = dest.phase, call' = NoCall,
         panel'.at \notin {"decided", "read"}
  PROVE  WInv'
<1>1. call'.kind = "none" /\ call'.step = "start"
  BY DEF NoCall
<1>2. PairsArePast' /\ ReadsAreLater'
  BY <1>1 DEF WInv, PairsArePast, ReadsAreLater, Past, Later, Reported
<1>3. IntentsAreSound'
  BY <1>1 DEF WInv, IntentsAreSound, Sound, At
<1>4. CarriesFile' /\ CarriesIntent' /\ FileIsBased'
  BY <1>1 DEF WInv, CarriesFile, CarriesIntent, FileIsBased, Based, Behind, At
<1> QED
  BY <1>2, <1>3, <1>4 DEF WInv

(* A crash keeps the invariant.                                            *)
LEMMA CrashKeepsWrites ==
  ASSUME IInv, WInv, Crash
  PROVE  WInv'
<1>1. panel'.at = "idle"
  BY DEF Crash, Closed
<1> QED
  BY <1>1, IdleKeeps DEF Crash, ServiceDies, environmentVars

-----------------------------------------------------------------------------
(* The panel's own steps: the request and the panel change, nothing else.  *)
LEMMA PanelKeepsWrites ==
  ASSUME IInv, WInv, UNCHANGED <<host, held, writes, state, review, dest>>,
         call'.step \in LightSteps,
         PairsArePast', ReadsAreLater'
  PROVE  WInv'
<1>1. IntentsAreSound'
  BY DEF WInv, IntentsAreSound, Sound, At, LightSteps
<1>2. CarriesFile' /\ CarriesIntent' /\ FileIsBased'
  BY DEF WInv, CarriesFile, CarriesIntent, FileIsBased, Based, Behind, At, LightSteps
<1> QED
  BY <1>1, <1>2 DEF WInv

(* What the host holds now is as late as anything known of it.             *)
LEMMA NowIsLatest ==
  ASSUME IInv, NEW e \in Nat, NEW b, Past(e, b)
  PROVE  Past(host.etag, host.bytes) /\ Later(e, b, host.etag, host.bytes)
<1>1. host.bytes \in held /\ state.etag <= host.etag
  BY Tags DEF IInv, HeldIsKnown, Past
<1> QED
  BY <1>1, Tags DEF Past, Later

(* A request of which nothing is known keeps the invariant.                *)
LEMMA Restarted ==
  ASSUME IInv, WInv, UNCHANGED <<host, held, writes, state, review, dest>>,
         call'.step \in LightSteps, call'.kind \in {"none", "save"},
         panel'.at \notin {"decided", "read"}
  PROVE  WInv'
<1>1. PairsArePast' /\ ReadsAreLater'
  BY DEF WInv, PairsArePast, ReadsAreLater, Past, Later, Reported
<1> QED
  BY <1>1, PanelKeepsWrites

(* The panel sends a request.                                              *)
LEMMA RequestIs ==
  ASSUME NEW c, NEW p, p \in Panels, Request(c, p)
  PROVE  /\ UNCHANGED <<host, held, writes, state, review, dest>>
         /\ call' = c /\ panel'.at = "calling"
BY DEF Request, environmentVars, reviewVars, Panels

(* What a new request carries.                                             *)
LEMMA CallFields ==
  /\ SaveCall.kind = "save" /\ SaveCall.step = "start"
  /\ \A id, outcome, etag :
       LET c == ReceiptCall(id, outcome, etag)
       IN  /\ c.kind = "receipt" /\ c.step = "start" /\ c.id = id /\ c.outcome = outcome
           /\ c.etag = etag
  /\ \A h :
       LET c == FinishCall(h)
       IN  /\ c.kind = "finish" /\ c.step = "start" /\ c.etag = h.etag /\ c.read = h.bytes
BY DEF SaveCall, ReceiptCall, FinishCall, NoCall

(* The panel asks for a save.                                              *)
LEMMA StartSaveKeepsWrites ==
  ASSUME IInv, WInv, StartSave
  PROVE  WInv'
<1>1. Request(SaveCall, panel)
  BY DEF StartSave
<1>2. /\ UNCHANGED <<host, held, writes, state, review, dest>>
      /\ call' = SaveCall /\ panel'.at = "calling"
  BY <1>1, Pieces, RequestIs
<1> QED
  BY <1>2, CallFields, Restarted DEF LightSteps

(* The panel reads the host.                                               *)
LEMMA StartReadKeepsWrites ==
  ASSUME IInv, WInv, panel'.at = "read", panel'.read = host,
         UNCHANGED <<host, held, writes, state, review, dest>>,
         call' = call \/ call' = NoCall
  PROVE  WInv'
<1>1. PairsArePast'
  <2>1. Past(host.etag, host.bytes)
    BY NowIsLatest, Tags DEF WInv, PairsArePast
  <2> QED
    BY <2>1 DEF WInv, PairsArePast, Past, Reported, NoCall
<1>2. ReadsAreLater'
  <2>1. Later(state.etag, state.digest, host.etag, host.bytes)
    BY NowIsLatest, Tags DEF WInv, PairsArePast
  <2>2. call.kind = "finish" => Later(call.etag, call.read, host.etag, host.bytes)
    BY NowIsLatest, Tags DEF WInv, PairsArePast
  <2>3. Reported => Later(call.etag, state.pending.bytes, host.etag, host.bytes)
    BY NowIsLatest, Tags DEF WInv, PairsArePast
  <2> QED
    BY <2>1, <2>2, <2>3 DEF WInv, ReadsAreLater, Later, Reported, NoCall
<1>3. IntentsAreSound'
  <2>1. ASSUME NEW i, Sound(i) PROVE Sound(i)'
    BY <2>1 DEF Sound
  <2>2. CASE call' = call
    BY <2>1, <2>2 DEF WInv, IntentsAreSound, At
  <2>3. CASE call' = NoCall
    <3>1. ~At("save", "bytes")' /\ ~At("save", "intent")'
      BY <2>3 DEF At, NoCall
    <3> QED
      BY <2>1, <3>1 DEF WInv, IntentsAreSound
  <2> QED
    BY <2>2, <2>3
<1>4. CarriesFile' /\ CarriesIntent' /\ FileIsBased'
  BY DEF WInv, CarriesFile, CarriesIntent, FileIsBased, Based, Behind, At, NoCall
<1> QED
  BY <1>1, <1>2, <1>3, <1>4 DEF WInv

(* The panel reports what it has read.                                     *)
LEMMA SendFinishKeepsWrites ==
  ASSUME IInv, WInv, SendFinish
  PROVE  WInv'
<1>1. /\ UNCHANGED <<host, held, writes, state, review, dest>>
      /\ call' = FinishCall(panel.read) /\ panel'.at = "calling" /\ panel.at = "read"
  BY Pieces, RequestIs DEF SendFinish
<1>2. /\ call'.kind = "finish" /\ call'.step = "start" /\ call'.etag = panel.read.etag
      /\ call'.read = panel.read.bytes
  BY <1>1, CallFields
<1>3. PairsArePast' /\ ReadsAreLater'
  BY <1>1, <1>2 DEF WInv, PairsArePast, ReadsAreLater, Past, Later, Reported
<1> QED
  BY <1>1, <1>2, <1>3, PanelKeepsWrites DEF LightSteps

(* The panel reports what became of its write.                             *)
LEMMA SendReceiptKeepsWrites ==
  ASSUME IInv, WInv, SendReceipt
  PROVE  WInv'
<1>1. /\ UNCHANGED <<host, held, writes, state, review, dest>>
      /\ call' = ReceiptCall(panel.intent.id, panel.outcome, panel.etag)
      /\ panel'.at = "calling" /\ panel.at = "decided"
  BY Pieces, RequestIs DEF SendReceipt
<1>2. /\ call'.kind = "receipt" /\ call'.step = "start" /\ call'.etag = panel.etag
      /\ call'.outcome = panel.outcome /\ call'.id = panel.intent.id
  BY <1>1, CallFields
<1>3. panel.intent = state.pending
  BY <1>1 DEF IInv, PanelActsAlone
<1>4. PairsArePast' /\ ReadsAreLater'
  BY <1>1, <1>2, <1>3 DEF WInv, PairsArePast, ReadsAreLater, Past, Later, Reported
<1> QED
  BY <1>1, <1>2, <1>4, PanelKeepsWrites DEF LightSteps

(* The panel sends the pending intent to the host.                         *)
LEMMA WriteKeepsWrites ==
  ASSUME IInv, WInv, Write
  PROVE  WInv'
<1>1. /\ UNCHANGED <<host, held, state, review, dest, call>>
      /\ call = NoCall /\ panel.at = "intent" /\ panel'.at \in {"writing", "idle"}
      /\ writes' \subseteq writes \cup {panel.intent}
  BY Pieces DEF Write, reviewVars, Panels
<1>2. panel.intent = state.pending /\ state.pending.id # 0
  BY <1>1 DEF IInv, PanelActsAlone
<1>3. call'.kind = "none" /\ call'.step = "start" /\ call.kind = "none"
  BY <1>1 DEF NoCall
<1>4. PairsArePast' /\ ReadsAreLater'
  BY <1>1, <1>3 DEF WInv, PairsArePast, ReadsAreLater, Past, Later, Reported
<1>5. IntentsAreSound'
  <2>1. Sound(panel.intent) /\ \A w \in writes : Sound(w)
    BY <1>2 DEF WInv, IntentsAreSound
  <2>2. \A w \in writes' : Sound(w)
    BY <1>1, <2>1
  <2>3. (\A w \in writes : Sound(w))'
    BY <1>1, <2>2 DEF Sound
  <2> QED
    BY <1>1, <1>3, <2>3 DEF WInv, IntentsAreSound, Sound, At
<1>6. CarriesFile' /\ CarriesIntent' /\ FileIsBased'
  BY <1>1 DEF WInv, CarriesFile, CarriesIntent, FileIsBased, Based, Behind, At
<1> QED
  BY <1>4, <1>5, <1>6 DEF WInv

(* The panel takes an answer.                                              *)
LEMMA ReceiveKeepsWrites ==
  ASSUME IInv, WInv, Receive
  PROVE  WInv'
<1>1. /\ UNCHANGED <<host, held, writes, state, review, dest>> /\ call' = NoCall
      /\ panel.at = "calling"
  BY DEF Receive, environmentVars, reviewVars
<1>2. CASE panel'.at = "read" /\ panel'.read = host
  BY <1>1, <1>2, StartReadKeepsWrites
<1>3. CASE panel'.at \in {"idle", "intent"}
  BY <1>1, <1>3, IdleKeeps
<1> QED
  <2>1. panel \in Panels
    BY Pieces
  <2> QED
    BY <1>2, <1>3, <2>1 DEF Receive, Panels

(* The panel reads, gives up, is replaced, or drops an answer.             *)
LEMMA PanelStepKeepsWrites ==
  ASSUME IInv, WInv, StartRead \/ GiveUp \/ PanelReplaced \/ Drop
  PROVE  WInv'
<1>1. UNCHANGED <<host, held, writes, state, review, dest>>
  BY DEF StartRead, GiveUp, PanelReplaced, Drop, environmentVars, serviceVars, reviewVars
<1>2. CASE StartRead
  <2>1. panel'.at = "read" /\ panel'.read = host /\ call' = call
    BY <1>2, Pieces DEF StartRead, Panels, serviceVars
  <2> QED
    BY <1>1, <2>1, StartReadKeepsWrites
<1>3. CASE GiveUp \/ PanelReplaced
  <2>1. call' = call /\ panel'.at = "idle"
    <3>1. Closed.at = "idle" /\ panel \in Panels
      BY Pieces DEF Closed
    <3> QED
      BY <1>3, <3>1 DEF GiveUp, PanelReplaced, Panels, serviceVars
  <2>2. PairsArePast' /\ ReadsAreLater'
    BY <1>1, <2>1 DEF WInv, PairsArePast, ReadsAreLater, Past, Later, Reported
  <2>3. IntentsAreSound' /\ CarriesFile' /\ CarriesIntent' /\ FileIsBased'
    BY <1>1, <2>1 DEF WInv, IntentsAreSound, Sound, CarriesFile, CarriesIntent, FileIsBased,
         Based, Behind, At
  <2> QED
    BY <2>2, <2>3 DEF WInv
<1>4. CASE Drop
  <2>1. call' = NoCall /\ panel' = panel
    BY <1>4 DEF Drop
  <2>2. call'.kind = "none" /\ call'.step \in LightSteps
    BY <2>1 DEF NoCall, LightSteps
  <2>3. PairsArePast' /\ ReadsAreLater'
    BY <1>1, <2>1, <2>2 DEF WInv, PairsArePast, ReadsAreLater, Past, Later, Reported
  <2> QED
    BY <1>1, <2>2, <2>3, PanelKeepsWrites
<1> QED
  BY <1>2, <1>3, <1>4

(* A receipt is delivered again.                                           *)
LEMMA RedeliverKeepsWrites ==
  ASSUME IInv, WInv, Redeliver
  PROVE  WInv'
<1>1. /\ UNCHANGED <<host, held, writes, state, review, dest, panel>>
      /\ call.kind = "receipt" /\ call' = ReceiptCall(call.id, call.outcome, call.etag)
  BY DEF Redeliver, environmentVars, reviewVars
<1>2. /\ call'.kind = "receipt" /\ call'.step = "start" /\ call'.id = call.id
      /\ call'.outcome = call.outcome /\ call'.etag = call.etag
  BY <1>1, CallFields
<1>3. PairsArePast' /\ ReadsAreLater'
  <2>1. call'.kind # "finish" /\ call.kind # "finish" /\ (Reported <=> Reported')
    BY <1>1, <1>2 DEF Reported
  <2> QED
    BY <1>1, <1>2, <2>1 DEF WInv, PairsArePast, ReadsAreLater, Past, Later
<1> QED
  BY <1>1, <1>2, <1>3, PanelKeepsWrites DEF LightSteps

-----------------------------------------------------------------------------
(* The host takes other bytes: such as it never held, or of a write that   *)
(* was made for the tag the file has. Nothing that matched an older tag    *)
(* matches any more.                                                       *)
Lands ==
  /\ UNCHANGED <<state, review, dest, call>>
  /\ host'.etag = host.etag + 1 /\ host'.bytes \in held' /\ held \subseteq held'
  /\ host'.bytes \notin held \/ state.etag = host.etag
  /\ writes' \subseteq writes

PanelLearns ==
  \/ panel' = panel
  \/ /\ panel.at = "writing" /\ panel'.at = "decided"
     /\ panel'.outcome = "saved" /\ panel'.etag # 0 =>
          panel'.etag = host'.etag /\ panel'.intent.bytes = host'.bytes

(* The bytes of the host change.                                           *)
LEMMA LandingKeeps ==
  ASSUME IInv, WInv, Lands, PanelLearns
  PROVE  WInv'
<1>1. \A e \in Nat : \A b : Past(e, b) => Past(e, b)'
  BY Tags DEF Past, Lands
<1>2. /\ UNCHANGED <<state, review, dest, call>> /\ UNCHANGED Reported
  BY DEF Lands, Reported
<1>3. PairsArePast'
  <2>1. Past(state.etag, state.digest)'
    BY <1>1, <1>2, Tags DEF WInv, PairsArePast, Past
  <2>2. (call.kind = "finish" => Past(call.etag, call.read))'
    BY <1>1, <1>2, Tags DEF WInv, PairsArePast, Past
  <2>3. (Reported => Past(call.etag, state.pending.bytes))'
    BY <1>1, <1>2, Tags DEF WInv, PairsArePast, Past
  <2>4. (panel.at = "read" => Past(panel.read.etag, panel.read.bytes))'
    BY <1>1, <1>2, Tags DEF WInv, PairsArePast, Past, PanelLearns
  <2>5. (panel.at = "decided" /\ panel.outcome = "saved" /\ panel.etag # 0 =>
           Past(panel.etag, panel.intent.bytes))'
    <3>1. CASE panel' = panel
      <4>1. panel \in Panels
        BY Pieces
      <4>2. panel.etag \in Nat
        BY <4>1 DEF Panels
      <4> QED
        BY <1>1, <1>2, <3>1, <4>2 DEF WInv, PairsArePast, Past
    <3>2. CASE panel' # panel
      BY <3>2, <2>1, Tags DEF PanelLearns, Lands, Past
    <3> QED
      BY <3>1, <3>2
  <2> QED
    BY <2>1, <2>2, <2>3, <2>4, <2>5 DEF PairsArePast
<1>4. \A e \in Nat, f \in Nat : \A b, c :
        Past(e, b) /\ Past(f, c) /\ Later(e, b, f, c) => Later(e, b, f, c)'
  BY Tags DEF Past, Later, Lands
<1>5. ReadsAreLater'
  <2>1. (call.kind = "finish" => Later(state.etag, state.digest, call.etag, call.read))'
    BY <1>2, <1>4, Tags DEF WInv, PairsArePast, ReadsAreLater, Later
  <2>2. (panel.at = "read" =>
           Later(state.etag, state.digest, panel.read.etag, panel.read.bytes))'
    BY <1>2, <1>4, Tags DEF WInv, PairsArePast, ReadsAreLater, Later, PanelLearns
  <2>3. (panel.at = "read" /\ call.kind = "finish" =>
           Later(call.etag, call.read, panel.read.etag, panel.read.bytes))'
    BY <1>2, <1>4, Tags DEF WInv, PairsArePast, ReadsAreLater, Later, PanelLearns
  <2>4. (panel.at = "read" /\ Reported =>
           Later(call.etag, state.pending.bytes, panel.read.etag, panel.read.bytes))'
    BY <1>2, <1>4, Tags DEF WInv, PairsArePast, ReadsAreLater, Later, PanelLearns
  <2> QED
    BY <2>1, <2>2, <2>3, <2>4 DEF ReadsAreLater
<1>6. IntentsAreSound'
  <2>1. state.etag <= host.etag
    BY Tags DEF WInv, PairsArePast, Past
  <2>2. \A i \in Intents : Sound(i) => Sound(i)'
    BY <1>2, <2>1, Tags DEF Sound, Lands
  <2>3. writes \subseteq Intents /\ state.pending \in Intents /\ call.intent \in Intents
    BY Pieces DEF IInv, Typed, HostTyped
  <2>4. \A w \in writes' : Sound(w)'
    BY <2>2, <2>3 DEF WInv, IntentsAreSound, Lands
  <2>5. (\A w \in writes : Sound(w))'
    BY <2>4
  <2>6. (state.pending.id # 0 => Sound(state.pending))'
    BY <1>2, <2>2, <2>3 DEF WInv, IntentsAreSound, Sound
  <2>7. (At("save", "bytes") \/ At("save", "intent") => Sound(call.intent))'
    BY <1>2, <2>2, <2>3 DEF WInv, IntentsAreSound, Sound, At
  <2> QED
    BY <2>5, <2>6, <2>7 DEF IntentsAreSound
<1>7. CarriesFile' /\ CarriesIntent'
  BY <1>2 DEF WInv, CarriesFile, CarriesIntent
<1>8. FileIsBased'
  <2>1. \A e \in Nat : \A b : Past(e, b) /\ Based(e, b) => Based(e, b)'
    BY <1>2, Tags DEF Past, Based, Behind, Lands
  <2>2. (dest.phase = "host" => Based(state.etag, state.digest))'
    BY <1>2, <2>1, Tags DEF WInv, PairsArePast, FileIsBased, Based, Behind
  <2>3. (dest.phase = "host" /\ At("finish", "record") => Based(call.etag, call.read))'
    BY <1>2, <2>1, Tags DEF WInv, PairsArePast, FileIsBased, Based, Behind, At
  <2> QED
    BY <1>2, <2>2, <2>3 DEF WInv, FileIsBased, At
<1> QED
  BY <1>3, <1>5, <1>6, <1>7, <1>8 DEF WInv

(* A write that lands was made for the tag of the file.                    *)
LEMMA DecidedLands ==
  ASSUME IInv, WInv, NEW w \in writes, Decide(w), w.ifMatch = host.etag /\ host.writable,
         UNCHANGED <<state, review, dest, call>>
  PROVE  Lands /\ host'.bytes = w.bytes
<1>1. host' = [host EXCEPT !.bytes = w.bytes, !.etag = @ + 1] /\ held' = held \cup {w.bytes}
      /\ writes' = writes \ {w}
  BY DEF Decide
<1>2. host'.bytes = w.bytes /\ host'.etag = host.etag + 1
  <2>1. host \in Hosts
    BY DEF IInv, Typed, HostTyped
  <2> QED
    BY <1>1, <2>1 DEF Hosts
<1>3. state.etag = host.etag
  BY Tags DEF WInv, IntentsAreSound, Sound, PairsArePast, Past
<1> QED
  BY <1>1, <1>2, <1>3 DEF Lands

(* The host refuses a write, or the write is lost: nothing is replaced.    *)
LEMMA LosingKeeps ==
  ASSUME IInv, WInv, UNCHANGED <<state, review, dest, call, held>>,
         host'.etag = host.etag, host'.bytes = host.bytes, writes' \subseteq writes,
         panel' = panel \/ (panel'.at = "decided" /\ panel'.outcome # "saved")
  PROVE  WInv'
<1>1. PairsArePast' /\ ReadsAreLater'
  BY DEF WInv, PairsArePast, ReadsAreLater, Past, Later, Reported
<1>2. IntentsAreSound'
  <2>1. \A w \in writes' : Sound(w)'
    BY DEF WInv, IntentsAreSound, Sound
  <2>2. (\A w \in writes : Sound(w))'
    BY <2>1
  <2> QED
    BY <2>2 DEF WInv, IntentsAreSound, Sound, At
<1>3. CarriesFile' /\ CarriesIntent' /\ FileIsBased'
  BY DEF WInv, CarriesFile, CarriesIntent, FileIsBased, Based, Behind, At
<1> QED
  BY <1>1, <1>2, <1>3 DEF WInv

(* A write that is refused changes nothing.                                *)
LEMMA RefusedLoses ==
  ASSUME NEW w \in writes, Decide(w), ~(w.ifMatch = host.etag /\ host.writable)
  PROVE  UNCHANGED <<host, held>> /\ writes' \subseteq writes
BY DEF Decide

(* The panel learns what the host decided.                                 *)
LEMMA DecidedFields ==
  ASSUME IInv, NEW outcome, NEW etag, NEW reread, Decided(outcome, etag, reread)
  PROVE  /\ panel'.at = "decided" /\ panel'.outcome = outcome /\ panel'.etag = etag
         /\ panel'.intent = panel.intent
<1>1. panel \in Panels
  BY Pieces
<1> QED
  BY <1>1 DEF Decided, Panels

(* The host answers a write.                                               *)
LEMMA AnswerKeepsWrites ==
  ASSUME IInv, WInv, NEW w \in writes, Answer(w)
  PROVE  WInv'
<1>1. /\ UNCHANGED <<state, review, dest, call>> /\ panel.at = "writing" /\ panel.intent = w
      /\ Decide(w)
  BY DEF Answer, Waiting, serviceVars, reviewVars
<1>2. CASE w.ifMatch = host.etag /\ host.writable
  <2>1. Lands /\ host'.bytes = w.bytes
    BY <1>1, <1>2, DecidedLands
  <2>2. PICK etag \in {0, host'.etag}, reread \in BOOLEAN : Decided("saved", etag, reread)
    BY <1>2 DEF Answer
  <2>3. PanelLearns
    BY <1>1, <2>1, <2>2, DecidedFields DEF PanelLearns
  <2> QED
    BY <2>1, <2>3, LandingKeeps
<1>3. CASE ~(w.ifMatch = host.etag /\ host.writable)
  <2>1. \E outcome \in {"conflict", "unknown"}, reread \in BOOLEAN :
          Decided(outcome, 0, reread)
    BY <1>3 DEF Answer
  <2>2. panel'.at = "decided" /\ panel'.outcome # "saved"
    BY <2>1, DecidedFields
  <2> QED
    BY <1>1, <1>3, <2>2, RefusedLoses, LosingKeeps
<1> QED
  BY <1>2, <1>3

(* A write is reported as failed.                                          *)
LEMMA WriteFailsKeepsWrites ==
  ASSUME IInv, WInv, NEW w \in writes, WriteFails(w)
  PROVE  WInv'
<1>1. UNCHANGED <<state, review, dest, call, held, host>> /\ writes' \subseteq writes
  BY DEF WriteFails, serviceVars, reviewVars
<1>2. \E reread \in BOOLEAN : Decided("unknown", 0, reread)
  BY DEF WriteFails
<1>3. panel'.at = "decided" /\ panel'.outcome # "saved"
  BY <1>2, DecidedFields
<1> QED
  BY <1>1, <1>3, LosingKeeps

(* A write nobody waits for lands or is lost.                              *)
LEMMA LateKeepsWrites ==
  ASSUME IInv, WInv, NEW w \in writes, Late(w)
  PROVE  WInv'
<1>1. UNCHANGED <<state, review, dest, call, panel>>
  BY DEF Late, serviceVars, reviewVars
<1>2. CASE Decide(w) /\ w.ifMatch = host.etag /\ host.writable
  BY <1>1, <1>2, DecidedLands, LandingKeeps DEF PanelLearns
<1>3. CASE Decide(w) /\ ~(w.ifMatch = host.etag /\ host.writable)
  BY <1>1, <1>3, RefusedLoses, LosingKeeps
<1>4. CASE writes' = writes \ {w} /\ UNCHANGED <<host, held>>
  BY <1>1, <1>4, LosingKeeps
<1> QED
  BY <1>2, <1>3, <1>4 DEF Late

(* Another program writes bytes the host never held.                       *)
LEMMA OutsideKeepsWrites ==
  ASSUME ~Restores, IInv, WInv, OutsideWrite \/ PermissionChanges
  PROVE  WInv'
<1>1. UNCHANGED <<state, review, dest, call, panel, writes>>
  BY DEF OutsideWrite, PermissionChanges, serviceVars, reviewVars
<1>2. host \in Hosts
  BY DEF IInv, Typed, HostTyped
<1>3. CASE OutsideWrite
  <2>1. PICK b : /\ b \notin held
                 /\ host' = [host EXCEPT !.bytes = b, !.etag = @ + 1]
                 /\ held' = held \cup {b}
    BY <1>3 DEF OutsideWrite
  <2>2. host'.bytes = b /\ host'.etag = host.etag + 1
    BY <1>2, <2>1 DEF Hosts
  <2> QED
    BY <1>1, <2>1, <2>2, LandingKeeps DEF Lands, PanelLearns
<1>4. CASE PermissionChanges
  <2>1. host'.bytes = host.bytes /\ host'.etag = host.etag /\ held' = held
    BY <1>2, <1>4 DEF PermissionChanges, Hosts
  <2> QED
    BY <1>1, <2>1, LosingKeeps
<1> QED
  BY <1>3, <1>4

-----------------------------------------------------------------------------
(* A review opens with the bytes of the host.                              *)
LEMMA InitEstablishesWrites == Init => WInv
<1> SUFFICES ASSUME Init
             PROVE  WInv
  OBVIOUS
<1>1. /\ review = [gen |-> 1, src |-> <<Source>>, rev |-> 0]
      /\ state = Opened(<<Source>>) /\ call = NoCall
      /\ host = [bytes |-> <<Source>>, etag |-> 1, writable |-> TRUE] /\ writes = {}
      /\ panel = [Closed EXCEPT !.shown = TRUE] /\ held = {<<Source>>}
  BY DEF Init, ServiceInit
<1>2. state.etag = 1 /\ state.digest = <<Source>> /\ state.pending.id = 0
  BY <1>1 DEF Opened, NoIntent
<1>3. call.kind = "none" /\ call.step = "start" /\ panel.at = "idle"
  BY <1>1 DEF NoCall, Closed
<1>4. host.bytes = <<Source>> /\ host.etag = 1 /\ review.src = <<Source>>
  BY <1>1
<1>5. Past(state.etag, state.digest) /\ Based(state.etag, state.digest)
  BY <1>1, <1>2, <1>4 DEF Past, Based, RenderedFrom
<1> QED
  BY <1>1, <1>2, <1>3, <1>5
     DEF WInv, PairsArePast, ReadsAreLater, IntentsAreSound, CarriesFile, CarriesIntent,
         FileIsBased, Reported, At

(* Every step keeps the invariant.                                         *)
LEMMA StepKeepsWrites ==
  ASSUME ~Restores, IInv, WInv, [Next]_vars
  PROVE  WInv'
<1>1. CASE Service
  BY <1>1, ServiceKeepsWrites DEF Service, Steady
<1>2. CASE Fails
  <2>1. SameWorld /\ CallFails
    BY <1>2 DEF Fails, SameWorld, environmentVars
  <2>2. UNCHANGED <<state, review, dest>> /\ SameRequest /\ call'.step = "replied"
    BY <2>1, ReplyIs DEF CallFails, reviewVars
  <2> QED
    BY <2>1, <2>2, LightKeeps DEF LightSteps
<1>3. CASE Crash \/ Reviewer
  BY <1>3, CrashKeepsWrites, ReviewerKeepsWrites
<1>4. CASE StartSave \/ StartRead \/ SendFinish \/ SendReceipt \/ Write
  BY <1>4, StartSaveKeepsWrites, PanelStepKeepsWrites, SendFinishKeepsWrites,
     SendReceiptKeepsWrites, WriteKeepsWrites
<1>5. CASE Receive \/ GiveUp \/ Drop \/ Redeliver
  BY <1>5, ReceiveKeepsWrites, PanelStepKeepsWrites, RedeliverKeepsWrites
<1>6. CASE \E w \in writes : Answer(w) \/ WriteFails(w) \/ Late(w)
  BY <1>6, AnswerKeepsWrites, WriteFailsKeepsWrites, LateKeepsWrites
<1>7. CASE OutsideWrite \/ PermissionChanges \/ PanelReplaced
  BY <1>7, OutsideKeepsWrites, PanelStepKeepsWrites
<1>8. CASE UNCHANGED vars
  <2>1. SameWorld /\ UNCHANGED <<state, review, dest, call>>
    BY <1>8 DEF vars, serviceVars, SameWorld
  <2> QED
    BY <2>1 DEF WInv, SameWorld, PairsArePast, ReadsAreLater, Past, Later, Reported,
         IntentsAreSound, Sound, CarriesFile, CarriesIntent, FileIsBased, Based, Behind, At
<1> QED
  BY <1>1, <1>2, <1>3, <1>4, <1>5, <1>6, <1>7, <1>8 DEF Next

(* A write that the host decides replaces what its intent was made of, or  *)
(* leaves the host alone.                                                  *)
LEMMA DecidedReplacesItsBase ==
  ASSUME IInv, WInv, NEW w \in writes, Decide(w), host'.etag # host.etag
  PROVE  \/ host.bytes = w.src
         \/ /\ Len(host.bytes) = Len(w.src) + 1
            /\ \E r \in 0..w.bytes[Len(w.bytes)] : host.bytes = Append(w.src, r)
<1>1. w.ifMatch = host.etag
  BY DEF Decide
<1>2. PICK r \in 0..review.rev :
        /\ w.bytes = Append(w.src, r) /\ RenderedFrom(host.bytes, w.src, r)
  BY <1>1 DEF WInv, IntentsAreSound, Sound
<1>3. w.src \in Bytes /\ r \in Nat /\ r \in Content
  BY <1>2, Tags, IntentsAreRecords DEF IInv, Typed, HostTyped, Content
<1>4. w.bytes[Len(w.bytes)] = r
  BY <1>2, <1>3 DEF Bytes
<1>5. \A q \in 0..r : q \in Content /\ Len(Append(w.src, q)) = Len(w.src) + 1
  BY <1>3 DEF Bytes, Content
<1> QED
  BY <1>2, <1>4, <1>5 DEF RenderedFrom

(* Unless other programs put back bytes the resource has held before, a    *)
(* write of the review, however late the host decides it, replaces nothing *)
(* but the source it was rendered from or an earlier rendering of it:      *)
(* materializeImportedSave() takes the tag of host-resource.json, and a    *)
(* review whose source has moved on no longer has a tag that matches.      *)
THEOREM WritesReplaceTheirBase == ASSUME ~Restores PROVE Spec => OverwritesOnlyItsBase
<1>1. Spec => []WInv
  <2>1. IInv /\ WInv /\ [Next]_vars => WInv'
    BY StepKeepsWrites
  <2> QED
    BY InitEstablishesWrites, Invariance, <2>1, PTL DEF Spec
<1>2. ASSUME IInv, WInv, [Next]_vars, NEW w \in writes \ writes', host'.etag # host.etag
      PROVE  \/ host.bytes = w.src
             \/ /\ Len(host.bytes) = Len(w.src) + 1
                /\ \E r \in 0..w.bytes[Len(w.bytes)] : host.bytes = Append(w.src, r)
  <2>1. Decide(w)
    <3>1. CASE \E v \in writes : Answer(v) \/ WriteFails(v) \/ Late(v)
      <4>1. PICK v \in writes : Answer(v) \/ WriteFails(v) \/ Late(v)
        BY <3>1
      <4>2. v = w
        BY <4>1, <1>2 DEF Answer, WriteFails, Late, Decide
      <4> QED
        BY <4>1, <4>2, <1>2 DEF Answer, WriteFails, Late
    <3>2. CASE Service \/ Fails \/ Crash \/ Reviewer
      BY <3>2, <1>2 DEF Service, Fails, Crash, Reviewer, environmentVars
    <3>3. CASE \/ StartSave \/ StartRead \/ SendFinish \/ SendReceipt \/ Write
               \/ Receive \/ GiveUp \/ Drop \/ Redeliver
      BY <3>3, <1>2 DEF StartSave, StartRead, SendFinish, SendReceipt, Write, Receive, GiveUp,
           Drop, Redeliver, Request, environmentVars
    <3>4. CASE OutsideWrite \/ PermissionChanges \/ PanelReplaced \/ UNCHANGED vars
      BY <3>4, <1>2 DEF OutsideWrite, PermissionChanges, PanelReplaced, vars
    <3> QED
      BY <3>1, <3>2, <3>3, <3>4, <1>2 DEF Next
  <2> QED
    BY <2>1, <1>2, DecidedReplacesItsBase
<1>3. ASSUME IInv, WInv, [Next]_vars
      PROVE  [\A w \in writes \ writes' :
                host'.etag # host.etag =>
                  \/ host.bytes = w.src
                  \/ /\ Len(host.bytes) = Len(w.src) + 1
                     /\ \E r \in 0..w.bytes[Len(w.bytes)] : host.bytes = Append(w.src, r)]_vars
  BY <1>2, <1>3
<1> QED
  BY <1>1, <1>3, Invariance, PTL DEF Spec, OverwritesOnlyItsBase

=============================================================================
