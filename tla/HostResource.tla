----------------------------- MODULE HostResource -----------------------------
(***************************************************************************)
(* A review whose PDF belongs to a host, end to end: the host's resource   *)
(* with its entity tag and conditional writes (external), the panel that   *)
(* carries every byte between the host and the service (the host resource  *)
(* adapter and the shell's save and refresh loops), and the service        *)
(* (HostPersistence). The panel may be replaced, a request may time out    *)
(* while the service goes on with it, and a write may land after the panel *)
(* was told that it failed.                                                *)
(***************************************************************************)
EXTENDS HostPersistence, FiniteSets

CONSTANTS
  Others,      \* what other programs write into the resource
  MaxEvents,   \* bound: outside writes, changes of the permission, new panels
  MaxFaults,   \* bound: failed, late and repeated requests and writes, crashes
  Openings,    \* how many of these a behaviour may have: [events, faults]
  Permissions, \* whether the host may change the permission to write
  Restores     \* whether others may put back bytes the resource held before

ASSUME OpeningsAssumption ==
  /\ MaxEvents \in Nat /\ MaxFaults \in Nat
  /\ Openings \subseteq [events : 0..MaxEvents, faults : 0..MaxFaults]

VARIABLES
  host,     \* bytes, entity tag, and whether the panel may write
  writes,   \* conditional writes the host was sent and has not decided
  panel,    \* what the adapter waits for, and whether the review is shown
  held,     \* history: the bytes the resource has held
  events, faults

environmentVars == <<host, writes, held, events>>
vars == <<serviceVars, host, writes, panel, held, events, faults>>

Fault == faults < MaxFaults /\ faults' = faults + 1
Event == events < MaxEvents /\ events' = events + 1

Closed == [at |-> "idle", shown |-> FALSE, intent |-> NoIntent, read |-> <<>>,
           outcome |-> "none", etag |-> 0, reread |-> FALSE]

Init ==
  /\ ServiceInit
  /\ host = [bytes |-> <<Source>>, etag |-> 1, writable |-> TRUE]
  /\ writes = {}
  /\ panel = [Closed EXCEPT !.shown = TRUE]
  /\ held = {<<Source>>}
  /\ \E opening \in Openings :
       /\ events = MaxEvents - opening.events
       /\ faults = MaxFaults - opening.faults

-----------------------------------------------------------------------------
(* The panel's adapter does one thing at a time. A request waits until the *)
(* service has finished the one before.                                    *)
Request(c, p) ==
  /\ call = NoCall
  /\ call' = c
  /\ panel' = [p EXCEPT !.at = "calling"]
  /\ UNCHANGED <<reviewVars, state, minted, open, environmentVars, faults>>

(* #saveHost(): after a command, after the review is shown, on Retry.      *)
StartSave == panel.at = "idle" /\ panel.shown /\ Request(SaveCall, panel)

(* refresh(): on an update from the host, before every resume, on Retry.   *)
StartRead ==
  /\ panel.at = "idle"
  /\ panel' = [panel EXCEPT !.at = "read", !.read = host]
  /\ UNCHANGED <<serviceVars, environmentVars, faults>>

(* The chunks are transferred; then finish is asked for.                   *)
SendFinish == panel.at = "read" /\ Request(FinishCall(panel.read), panel)

SendReceipt ==
  /\ panel.at = "decided"
  /\ Request(ReceiptCall(panel.intent.id, panel.outcome, panel.etag), panel)

(* #download(), saveChunk(): only a pending intent of a host review has    *)
(* bytes; then the write is sent.                                          *)
Write ==
  /\ panel.at = "intent"
  /\ call = NoCall
  /\ IF dest.phase = "host" /\ state.pending.id = panel.intent.id
     THEN /\ writes' = writes \cup {panel.intent}
          /\ open' = open \cup {panel.intent.id}
          /\ panel' = [panel EXCEPT !.at = "writing"]
     ELSE /\ panel' = [panel EXCEPT !.at = "idle"]
          /\ UNCHANGED <<writes, open>>
  /\ UNCHANGED <<reviewVars, state, minted, call, host, held, events, faults>>

(* An answer arrives. A failed write is reread after its receipt.          *)
Receive ==
  /\ panel.at = "calling"
  /\ call.step = "replied"
  /\ call' = NoCall
  /\ panel' =
       CASE call.result = "intent" -> [panel EXCEPT !.at = "intent", !.intent = call.intent]
         [] call.kind = "receipt" /\ panel.reread /\ call.result # "error" ->
              [panel EXCEPT !.at = "read", !.read = host, !.reread = FALSE]
         [] call.kind = "finish" /\ call.result # "error" ->
              [panel EXCEPT !.at = "idle", !.shown = TRUE]
         [] OTHER -> [panel EXCEPT !.at = "idle", !.reread = FALSE]
  /\ UNCHANGED <<reviewVars, state, minted, open, environmentVars, faults>>

(* The request times out at the panel; the service goes on with it.        *)
GiveUp ==
  /\ Fault
  /\ panel.at = "calling"
  /\ panel' = [panel EXCEPT !.at = "idle", !.reread = FALSE]
  /\ UNCHANGED <<serviceVars, environmentVars>>

(* An answer nobody waits for is dropped.                                  *)
Drop ==
  /\ panel.at # "calling"
  /\ call.step = "replied"
  /\ call' = NoCall
  /\ UNCHANGED <<reviewVars, state, minted, open, environmentVars, panel, faults>>

(* The transport delivers a receipt a second time.                         *)
Redeliver ==
  /\ Fault
  /\ panel.at # "calling"
  /\ call.kind = "receipt" /\ call.step = "replied"
  /\ call' = ReceiptCall(call.id, call.outcome, call.etag)
  /\ UNCHANGED <<reviewVars, state, minted, open, environmentVars, panel>>

-----------------------------------------------------------------------------
(* The host decides a write: it replaces the bytes if the tag is the one   *)
(* the write was made for.                                                 *)
Decide(w) ==
  /\ writes' = writes \ {w}
  /\ IF w.ifMatch = host.etag /\ host.writable
     THEN /\ host' = [host EXCEPT !.bytes = w.bytes, !.etag = @ + 1]
          /\ held' = held \cup {w.bytes}
     ELSE UNCHANGED <<host, held>>

Waiting(w) == panel.at = "writing" /\ panel.intent = w
Decided(outcome, etag, reread) ==
  panel' = [panel EXCEPT !.at = "decided", !.outcome = outcome, !.etag = etag,
                         !.reread = reread]

Answer(w) ==
  /\ Waiting(w)
  /\ Decide(w)
  /\ IF w.ifMatch # host.etag THEN Decided("conflict", 0, FALSE) /\ UNCHANGED faults
     ELSE IF ~host.writable THEN Decided("unknown", 0, TRUE) /\ UNCHANGED faults
     ELSE \/ Decided("saved", host'.etag, FALSE) /\ UNCHANGED faults
          \/ Decided("saved", 0, FALSE) /\ Fault     \* the answer has no tag
  /\ UNCHANGED <<serviceVars, events>>

(* The write is reported as failed: it was refused as too large, it never  *)
(* arrived, or it is still on its way.                                     *)
WriteFails(w) ==
  /\ Fault
  /\ Waiting(w)
  /\ \/ writes' = writes \ {w} /\ \E reread \in BOOLEAN : Decided("unknown", 0, reread)
     \/ UNCHANGED writes /\ Decided("unknown", 0, TRUE)
  /\ UNCHANGED <<serviceVars, host, held, events>>

(* A write nobody waits for any more lands, or is lost.                    *)
Late(w) ==
  /\ ~Waiting(w)
  /\ \/ Decide(w)
     \/ writes' = writes \ {w} /\ UNCHANGED <<host, held>>
  /\ UNCHANGED <<serviceVars, panel, events, faults>>

OutsideWrite ==
  /\ Event
  /\ \E b \in {<<o>> : o \in Others} \ (IF Restores THEN {host.bytes} ELSE held) :
       /\ host' = [host EXCEPT !.bytes = b, !.etag = @ + 1]
       /\ held' = held \cup {b}
  /\ UNCHANGED <<serviceVars, writes, panel, faults>>

PermissionChanges ==
  /\ Permissions
  /\ Event
  /\ host' = [host EXCEPT !.writable = ~@]
  /\ UNCHANGED <<serviceVars, writes, panel, held, faults>>

(* Another panel takes over: it reads the host before it shows the review. *)
PanelReplaced ==
  /\ Event
  /\ panel' = Closed
  /\ UNCHANGED <<serviceVars, host, writes, held, faults>>

-----------------------------------------------------------------------------
Service == ServiceSteps /\ UNCHANGED <<environmentVars, panel, faults>>
Fails == Fault /\ CallFails /\ UNCHANGED <<environmentVars, panel>>
Crash == Fault /\ ServiceDies /\ panel' = Closed /\ UNCHANGED environmentVars
Reviewer == (Edit \/ ChooseCopy) /\ UNCHANGED <<environmentVars, panel, faults>>

Next ==
  \/ Service \/ Fails \/ Crash \/ Reviewer
  \/ StartSave \/ StartRead \/ SendFinish \/ SendReceipt \/ Write
  \/ Receive \/ GiveUp \/ Drop \/ Redeliver
  \/ \E w \in writes : Answer(w) \/ WriteFails(w) \/ Late(w)
  \/ OutsideWrite \/ PermissionChanges \/ PanelReplaced

(* The service, the transport and the host go on. What the panel offers    *)
(* after a failure, saving again and rereading the host, the reader does   *)
(* in the end.                                                             *)
Fairness ==
  /\ WF_vars(Service)
  /\ WF_vars(SendFinish \/ SendReceipt \/ Write \/ Receive \/ Drop)
  /\ WF_vars(\E w \in writes : Answer(w))
  /\ SF_vars(StartSave)
  /\ SF_vars(StartRead)

Spec == Init /\ [][Next]_vars
FairSpec == Spec /\ Fairness

-----------------------------------------------------------------------------
Phases == {"clean", "saving", "not-saved"}
Intents == [id : Nat, gen : Nat, src : Seq({Source} \cup Others \cup Nat),
            bytes : Seq({Source} \cup Others \cup Nat), ifMatch : Nat]

(* Every variable has its type, and ids are never reused by later intents. *)
TypeOK ==
  /\ review.gen \in Nat \ {0} /\ review.rev \in Nat
  /\ sync.phase \in Phases
  /\ dest \in [phase : {"host", "active"}, writable : BOOLEAN]
  /\ state.outcome \in {"none", "saved", "conflict", "unknown"}
  /\ state.pending \in Intents
  /\ open \subseteq 1..minted
  /\ writes \subseteq Intents
  /\ panel.at \in {"idle", "calling", "read", "intent", "writing", "decided"}
  /\ events \in 0..MaxEvents /\ faults \in 0..MaxFaults

(* A review of a host's PDF is only reported as saved when the host has    *)
(* accepted a write of exactly its latest revision on its present source,  *)
(* or nothing was ever to be saved: not when the answer was for an older   *)
(* revision, another generation or a request from before a crash.          *)
CleanWasAccepted ==
  dest.phase = "host" /\ sync.phase = "clean" =>
    sync.des \in held \cup {<<Source, 0>>}

(* A write of the review only ever replaces the source it reviews or an    *)
(* earlier rendering of the same source: never what somebody else wrote,   *)
(* and never a newer revision, however late it lands.                      *)
OverwritesOnlyItsBase ==
  [][\A w \in writes \ writes' :
       host'.etag # host.etag =>
         \/ host.bytes = w.src
         \/ /\ Len(host.bytes) = Len(w.src) + 1
            /\ \E r \in 0..w.bytes[Len(w.bytes)] : host.bytes = Append(w.src, r)]_vars

(* "An uncertain write is classified by rereading before any retry can be  *)
(* created": while the fate of a write is unknown to the service, its      *)
(* intent is the pending one on disk, through timeouts, crashes and new    *)
(* panels.                                                                 *)
UncertainIsPending ==
  dest.phase = "host" => open \subseteq {state.pending.id}

(* Once a copy is the destination, nothing the host or the panel does      *)
(* changes the save state: an answer that was under way, a reread of an    *)
(* unchanged host and a repeated receipt leave it alone.                   *)
CopyLeavesTheHost ==
  [][dest.phase = "active" /\ review' = review => sync' = sync]_vars

(* A review that is to be saved to the host does not stay in saving: it is *)
(* saved or reported as not saved, the conflict is on record, or a copy    *)
(* has been chosen.                                                        *)
HostSaveSettles ==
  (dest.phase = "host" /\ sync.phase = "saving") ~>
    (dest.phase # "host" \/ sync.phase # "saving" \/ state.outcome = "conflict")

(* "Protected versus Saved status remains truthful": when a reread of the  *)
(* host has ended and the review is shown as saved, the bytes it read are  *)
(* the review's rendering, or the review has nothing to save.              *)
SavedAfterReread ==
  At("finish", "replied") /\ call.result = "ready"
  /\ dest.phase = "host" /\ sync.phase = "clean" =>
    call.read = sync.des \/ sync.des = <<Source, 0>>
=============================================================================
