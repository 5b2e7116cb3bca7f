-------------------------- MODULE UpgradeProtocol --------------------------
(***************************************************************************)
(* An upgrade from the installer's first look at the service to the end of *)
(* the service: installers, one at a time under the lifecycle lock, which  *)
(* may stop or give up at every point (coordinateUpgrade and the command   *)
(* that prepares it), the service (DaemonUpgrade), and the views of a      *)
(* review, each with the poll that freezes, protects and closes it         *)
(* (ReviewUpgradePreparation). Every answer may arrive late, or not.       *)
(***************************************************************************)
EXTENDS DaemonUpgrade

CONSTANTS
  MaxEdits,       \* bound: accepted inputs
  MaxGeneration,  \* bound: document generations
  MaxEpoch,       \* bound: changes of the task bindings
  MaxChoices,     \* bound: choices of a save destination
  MaxFaults,      \* bound: lost connections and answers, failed writes
  Openings        \* who takes part, and how many of these a behaviour may have

ASSUME ProtocolAssumption ==
  /\ MaxGeneration \in Nat \ {0}
  /\ {MaxEdits, MaxEpoch, MaxChoices, MaxFaults} \subseteq Nat
  /\ Openings \subseteq
       [connected : SUBSET Views, launched : SUBSET Views, installers : Installers,
        edits : 0..MaxEdits, rebuilds : 0..(MaxGeneration - 1), bindings : 0..MaxEpoch,
        choices : 0..MaxChoices, faults : 0..MaxFaults]

VARIABLES
  view,       \* per view: its connection, its input, and its tick
  settle,     \* per participant: the attempt its settle() protects it for
  installer,  \* per installer: how far it is, whether it asked for closure
  call,       \* per installer: its request that is still under way
  faults

actorVars == <<view, settle, installer, call>>
vars == <<serviceVars, actorVars, faults>>

Stale == -1   \* a settle() of a participant that has been detached

(* Where a view is: not opened, its launch page not exchanged, a page      *)
(* without a connection, open; it closed itself for the upgrade and the    *)
(* service has not noticed, closed; left by its reader.                    *)
Places == {"absent", "opening", "page", "open", "closing", "closed", "left"}

(* What a tick of a view is doing: it has the answer of its poll, protects *)
(* its input, asks for the settlement, waits for it, has its answer.       *)
Steps == {"idle", "polled", "protecting", "settle", "settling", "settled"}
NoReply == [phase |-> "none", by |-> NoOne, due |-> FALSE]

NewView(place) ==
  [at |-> place, typed |-> FALSE, sending |-> FALSE, frozen |-> FALSE,
   attempt |-> NoOne, protected |-> NoOne, step |-> "idle", failed |-> FALSE, reply |-> NoReply]

Init ==
  /\ daemon = [lifecycle |-> "accepting", frozen |-> FALSE, prepared |-> FALSE, drain |-> NoOne,
               routes |-> {}, barrier |-> {}, host |-> "up"]
  /\ attempt = [Over(NoOne) EXCEPT !.phase = "none"]
  /\ settle = [p \in Participants |-> NoOne]
  /\ call = [i \in Installers |-> "none"]
  /\ \E opening \in Openings :
       /\ review = [gen |-> MaxGeneration - opening.rebuilds, rev |-> MaxEdits - opening.edits,
                    sync |-> "clean", unsaved |-> FALSE,
                    authority |-> MaxEpoch - opening.bindings,
                    choices |-> MaxChoices - opening.choices]
       /\ presence = [joined |-> opening.connected, pending |-> {}, grace |-> FALSE, task |-> FALSE]
       /\ view = [v \in Views |-> NewView(CASE v \in opening.connected -> "open"
                                             [] v \in opening.launched \ opening.connected -> "absent"
                                             [] OTHER -> "left")]
       /\ installer = [i \in Installers |-> [pc |-> IF i <= opening.installers THEN "waiting" ELSE "failed",
                                             prepares |-> FALSE]]
       /\ faults = MaxFaults - opening.faults

Fault == faults < MaxFaults /\ faults' = faults + 1
Up == daemon.host = "up"

(* The attempt becomes a, after the effects in d; when that cancels it,    *)
(* admission resumes.                                                      *)
Follow(d, a) == attempt' = a /\ daemon' = Released(d, a)

Go(i, pc) == installer' = [installer EXCEPT ![i].pc = pc]

-----------------------------------------------------------------------------
(* The installer: coordinateUpgrade().                                     *)

Ended == {"failed", "replaced"}

(* inspect(): closure has to be prepared when there are reviews or tasks.  *)
Inspect(i) ==
  /\ installer[i].pc = "waiting"
  /\ \A j \in Installers : j < i => installer[j].pc \in Ended
  /\ installer' = [installer EXCEPT ![i] =
       IF daemon.host = "gone" THEN [pc |-> "replaced", prepares |-> FALSE]
       ELSE IF ~Up THEN [pc |-> "failed", prepares |-> FALSE]
       ELSE IF ReviewPresence > 0 \/ presence.task THEN [pc |-> "preview", prepares |-> TRUE]
       ELSE [pc |-> "shutdown", prepares |-> FALSE]]
  /\ UNCHANGED <<serviceVars, view, settle, call, faults>>

Preview(i) ==
  /\ installer[i].pc = "preview" /\ Up
  /\ LET a == Refreshed IN
       IF Live(a) THEN Follow(daemon, a) /\ Go(i, "failed")
       ELSE /\ daemon' = Released(daemon, a)
            /\ attempt' = Previewed(i)
            /\ Go(i, "consent")
  /\ UNCHANGED <<presence, review, view, settle, call, faults>>

(* begin(), with the answer the reader gave.                               *)
Begin(i, consent) ==
  /\ installer[i].pc = "consent" /\ Up
  /\ LET a == Refreshed IN
       IF /\ a.by = i /\ a.phase = "preview" /\ consent /\ a.seen = Activity
          /\ daemon.lifecycle # "shutdown-committed"
       THEN /\ daemon' = FreezeAdmission(daemon)
            /\ attempt' = Prepared(a)
            /\ Go(i, "polling")
            /\ settle' = [settle EXCEPT ![Authority] = i]
       ELSE /\ Follow(daemon, IF a.by = i THEN Invalidated(a) ELSE a)
            /\ Go(i, "canceling")
            /\ UNCHANGED settle
  /\ UNCHANGED <<presence, review, view, call, faults>>

(* status: it also starts the task authority's settle().                   *)
AwaitReady(i) ==
  /\ installer[i].pc = "polling" /\ Up
  /\ LET a == Refreshed
         due == Status(a, Authority).due /\ settle[Authority] # a.by IN
       /\ Follow(daemon, a)
       /\ settle' = [settle EXCEPT ![Authority] = IF due THEN a.by ELSE @]
       /\ Go(i, CASE a.by = i /\ a.phase = "preparing" -> "polling"
                  [] a.by = i /\ a.phase = "ready" -> "ready"
                  [] OTHER -> "canceling")
  /\ UNCHANGED <<presence, review, view, call, faults>>

(* Mutant of Commit: the revisions are not looked at again.                *)
CommitUnrefreshed(i) ==
  /\ installer[i].pc = "ready" /\ Up
  /\ IF attempt.by = i /\ attempt.phase = "ready" /\ Ready(attempt)
     THEN /\ attempt' = [attempt EXCEPT !.phase = "committed"]
          /\ daemon' = [daemon EXCEPT !.prepared = TRUE]
          /\ call' = [call EXCEPT ![i] = "barrier"]
          /\ Go(i, "committing")
     ELSE Go(i, "canceling") /\ UNCHANGED <<attempt, daemon, call>>
  /\ UNCHANGED <<presence, review, view, settle, faults>>

Commit(i) ==
  /\ installer[i].pc = "ready" /\ Up
  /\ LET a == Refreshed IN
       IF a.by = i /\ a.phase = "ready" /\ Ready(a)
       THEN /\ attempt' = [a EXCEPT !.phase = "committed"]
            /\ daemon' = [daemon EXCEPT !.prepared = TRUE]
            /\ call' = [call EXCEPT ![i] = "barrier"]
            /\ Go(i, "committing")
       ELSE Follow(daemon, a) /\ Go(i, "canceling") /\ UNCHANGED call
  /\ UNCHANGED <<presence, review, view, settle, faults>>

(* validatePreparation(), before every shutdown-if-idle of a prepared one. *)
Validate(i) ==
  /\ installer[i].pc = "validate" /\ Up
  /\ LET a == Refreshed IN
       /\ Follow(daemon, a)
       /\ Go(i, IF a.by = i /\ a.phase = "committed" THEN "shutdown" ELSE "canceling")
  /\ UNCHANGED <<presence, review, view, settle, call, faults>>

(* What the installer does with a shutdown that is refused: it tries again *)
(* when its closure was prepared, or only transient work is in the way.    *)
Refused(i) ==
  CASE installer[i].prepares -> "validate"
    [] ReviewPresence > 0 \/ presence.task -> "failed"
    [] OTHER -> "shutdown"

(* shutdown-if-idle; an accepted one is answered, and then the host closes.*)
Shutdown(i) ==
  /\ installer[i].pc = "shutdown" /\ Up /\ call[i] = "none"
  /\ LET answer == ShutdownAnswer(i, installer[i].prepares) IN
       CASE answer = "drain" ->
              /\ daemon' = Draining(i)
              /\ call' = [call EXCEPT ![i] = "drain"]
              /\ Go(i, "draining")
         [] answer = "accepted" ->
              daemon' = [daemon EXCEPT !.host = "closing"] /\ Go(i, "retiring") /\ UNCHANGED call
         [] OTHER -> Go(i, Refused(i)) /\ UNCHANGED <<daemon, call>>
  /\ UNCHANGED <<attempt, presence, review, view, settle, faults>>

(* cancelPreparation(). It is the installer's last word.                   *)
Cancel(i) ==
  /\ installer[i].pc = "canceling"
  /\ IF Up THEN LET a == Refreshed IN Follow(daemon, IF a.by = i THEN Invalidated(a) ELSE a)
     ELSE UNCHANGED <<daemon, attempt>>
  /\ Go(i, "failed")
  /\ UNCHANGED <<presence, review, view, settle, call, faults>>

(* An answer is lost or too late, or a deadline passes: what it prepared   *)
(* is canceled, unless shutdown was accepted. Or the installer just stops. *)
GiveUp(i) ==
  /\ installer[i].pc \notin {"waiting", "canceling"} \cup Ended
  /\ Go(i, IF installer[i].pc \in {"preview", "retiring"} \/ ~installer[i].prepares
           THEN "failed" ELSE "canceling")
  /\ UNCHANGED <<serviceVars, view, settle, call, faults>>

Stop(i) ==
  /\ installer[i].pc \notin {"waiting"} \cup Ended
  /\ Go(i, "failed")
  /\ UNCHANGED <<serviceVars, view, settle, call, faults>>

(* waitForRetirement() sees the endpoint gone, then the files are replaced.*)
Replace(i) ==
  /\ installer[i].pc = "retiring" /\ daemon.host = "gone"
  /\ Go(i, "replaced")
  /\ UNCHANGED <<serviceVars, view, settle, call, faults>>

-----------------------------------------------------------------------------
(* The service: what it still does for a call, with or without a reader of *)
(* the answer.                                                             *)

(* shutdownIfIdle() after its drain. Nobody waits for the answer when the  *)
(* installer gave up; the host is closed after an answer that was written. *)
EndDrain(i) ==
  /\ call[i] = "drain" /\ ~Saving
  /\ call' = [call EXCEPT ![i] = "none"]
  /\ LET d == Drained(i, installer[i].prepares)
         accepted == CurrentDrain(i) /\ d.lifecycle = "shutdown-committed"
         heard == installer[i].pc = "draining" IN
       /\ daemon' = IF accepted /\ heard THEN [d EXCEPT !.host = "closing"] ELSE d
       /\ installer' = IF heard
                       THEN [installer EXCEPT ![i].pc = IF accepted THEN "retiring" ELSE Refused(i)]
                       ELSE installer
  /\ UNCHANGED <<attempt, presence, review, view, settle, faults>>

(* A write of the drain fails.                                             *)
FailDrain(i) ==
  /\ call[i] = "drain" /\ Fault
  /\ call' = [call EXCEPT ![i] = "none"]
  /\ daemon' = IF CurrentDrain(i) THEN Reaccepting(daemon) ELSE daemon
  /\ IF installer[i].pc = "draining"
     THEN Go(i, IF installer[i].prepares THEN "canceling" ELSE "failed") ELSE UNCHANGED installer
  /\ UNCHANGED <<attempt, presence, review, view, settle>>

(* closeUpgradeAuthority(): once the routes of the freeze have ended, the  *)
(* authority's own changes stop counting; then the agents' panels close,   *)
(* and then every task binding ends. The phase is looked at twice.         *)
Answer(i, pc) == IF installer[i].pc = "committing" THEN Go(i, pc) ELSE UNCHANGED installer

RetireMetadata(i) ==
  /\ call[i] = "barrier" /\ daemon.barrier = {} /\ Up
  /\ IF attempt.phase = "committed"
     THEN /\ attempt' = [attempt EXCEPT !.retiring = TRUE]
          /\ call' = [call EXCEPT ![i] = "panels"]
          /\ UNCHANGED installer
     ELSE /\ call' = [call EXCEPT ![i] = "none"]
          /\ Answer(i, "canceling")
          /\ UNCHANGED attempt
  /\ UNCHANGED <<daemon, presence, review, view, settle, faults>>

ClosePanels(i) ==
  /\ call[i] = "panels" /\ Up
  /\ LET a == Changed(attempt, {Authority}) IN
       /\ Follow(daemon, a)
       /\ IF a.phase = "committed"
          THEN call' = [call EXCEPT ![i] = "revoke"] /\ UNCHANGED installer
          ELSE call' = [call EXCEPT ![i] = "none"] /\ Answer(i, "canceling")
  /\ UNCHANGED <<presence, review, view, settle, faults>>

RevokeTasks(i) ==
  /\ call[i] = "revoke" /\ Up
  /\ presence' = [presence EXCEPT !.task = FALSE]
  /\ review' = [review EXCEPT !.authority = @ + 1]
  /\ call' = [call EXCEPT ![i] = "none"]
  /\ Answer(i, "validate")
  /\ UNCHANGED <<daemon, attempt, view, settle, faults>>

(* The timer of the attempt.                                               *)
Expire ==
  /\ Live(attempt) /\ Up
  /\ Follow(daemon, Invalidated(attempt))
  /\ UNCHANGED <<presence, review, actorVars, faults>>

(* close() of the host: pending saves are drained before it is gone.       *)
CloseHost ==
  /\ daemon.host = "closing" /\ ~Saving
  /\ attempt' = Invalidated(attempt)
  /\ daemon' = [Released(daemon, attempt') EXCEPT !.host = "gone"]
  /\ UNCHANGED <<presence, review, actorVars, faults>>

(* The end of settle() for p. For a view, the saves of its review have     *)
(* ended and the last did not fail; for the task authority, the routes of  *)
(* the freeze have ended as well. A settle() whose attempt is over or      *)
(* whose participant is detached is an error; so is one whose own check of *)
(* the peers ends the attempt. One settle() of a participant at a time.    *)
Protectable(p) == ~Saving /\ (p = Authority => daemon.barrier = {})
Settling(p) == settle[p] = attempt.by /\ attempt.phase \in {"preparing", "ready"}

Finished(p, answered, a) ==
  view' = IF p \in Views /\ view[p].step = "settling"
          THEN [view EXCEPT ![p].step = IF answered THEN "settled" ELSE "idle",
                            ![p].reply = IF answered THEN Status(a, p) ELSE NoReply]
          ELSE view

SettledAs(p, saved) ==
  LET d == Completed(daemon, <<"settle", p>>)
      a == IF saved THEN Acknowledged(attempt, p) ELSE Invalidated(attempt) IN
  /\ settle' = [settle EXCEPT ![p] = NoOne]
  /\ IF Settling(p) THEN Follow(d, a) ELSE daemon' = d /\ UNCHANGED attempt
  /\ Finished(p, Settling(p) /\ (saved => Live(a)), a)
  /\ UNCHANGED <<presence, review, installer, call>>

EndSettle(p) ==
  /\ settle[p] # NoOne /\ Up /\ Protectable(p)
  /\ SettledAs(p, p = Authority \/ review.sync # "failed")
  /\ UNCHANGED faults

(* A write of the protection fails.                                        *)
FailSettle(p) ==
  /\ settle[p] # NoOne /\ Up /\ Fault
  /\ SettledAs(p, FALSE)

(* The save of the review.                                                 *)
SaveDone ==
  /\ Saving
  /\ review' = [review EXCEPT !.sync = "clean", !.unsaved = FALSE]
  /\ UNCHANGED <<daemon, attempt, presence, actorVars, faults>>

SaveFails ==
  /\ Saving /\ Fault
  /\ review' = [review EXCEPT !.sync = "failed"]
  /\ UNCHANGED <<daemon, attempt, presence, actorVars>>

(* The document was rewritten: the review has a new generation. Launches   *)
(* whose page was not exchanged are revoked, and a task that was bound to  *)
(* the old generation moves with the review or ends.                       *)
Successor ==
  /\ Up /\ review.gen < MaxGeneration
  /\ review' = [review EXCEPT !.gen = @ + 1, !.authority = IF presence.task THEN @ + 1 ELSE @]
  /\ \E migrated \in BOOLEAN :
       presence' = [presence EXCEPT !.pending = {}, !.task = @ /\ migrated]
  /\ view' = [v \in Views |-> IF view[v].at = "opening" THEN NewView("left") ELSE view[v]]
  /\ UNCHANGED <<daemon, attempt, settle, installer, call, faults>>

(* A task is bound to the review; it ends, or its lease does.              *)
BindTask ==
  /\ Up /\ AdmissionAllowed(daemon) /\ ~presence.task /\ review.authority < MaxEpoch
  /\ daemon' = Entered(daemon)
  /\ presence' = [presence EXCEPT !.task = TRUE]
  /\ review' = [review EXCEPT !.authority = @ + 1]
  /\ UNCHANGED <<attempt, actorVars, faults>>

EndTask ==
  /\ Up /\ presence.task
  /\ \/ SettlementAllowed(daemon) /\ daemon' = Entered(daemon)
     \/ UNCHANGED daemon
  /\ presence' = [presence EXCEPT !.task = FALSE]
  /\ review' = [review EXCEPT !.authority = @ + 1]
  /\ UNCHANGED <<attempt, actorVars, faults>>

(* Times pass: the grace of a page without connection, a launch.           *)
ExpireGrace ==
  /\ Up /\ presence.grace
  /\ presence' = [presence EXCEPT !.grace = FALSE]
  /\ UNCHANGED <<daemon, attempt, review, actorVars, faults>>

ExpireBootstrap(v) ==
  /\ Up /\ v \in presence.pending
  /\ presence' = [presence EXCEPT !.pending = @ \ {v}]
  /\ view' = [view EXCEPT ![v] = NewView("left")]
  /\ UNCHANGED <<daemon, attempt, review, settle, installer, call, faults>>

-----------------------------------------------------------------------------
(* The connections of a view.                                              *)

(* A launch mints a bootstrap; its page exchanges it.                      *)
Open(v) ==
  /\ view[v].at = "absent" /\ Up /\ AdmissionAllowed(daemon)
  /\ daemon' = Entered(daemon)
  /\ presence' = [presence EXCEPT !.pending = @ \cup {v}]
  /\ view' = [view EXCEPT ![v].at = "opening"]
  /\ UNCHANGED <<attempt, review, settle, installer, call, faults>>

Exchange(v) ==
  /\ view[v].at = "opening" /\ Up /\ AdmissionAllowed(daemon)
  /\ daemon' = Entered(daemon)
  /\ presence' = [presence EXCEPT !.pending = @ \ {v}, !.grace = @ \/ presence.joined = {}]
  /\ view' = [view EXCEPT ![v].at = "page"]
  /\ UNCHANGED <<attempt, review, settle, installer, call, faults>>

(* The socket of a page opens, also while admission is frozen: its         *)
(* participant joins.                                                      *)
Connect(v) ==
  /\ view[v].at = "page" /\ Up /\ SettlementAllowed(daemon)
  /\ Follow(Entered(daemon), Joined(attempt))
  /\ presence' = [presence EXCEPT !.joined = @ \cup {v}, !.grace = FALSE]
  /\ view' = [view EXCEPT ![v].at = "open"]
  /\ UNCHANGED <<review, settle, installer, call, faults>>

(* The service sees a socket close.                                        *)
Unregistered(v) ==
  /\ Follow(daemon, Detached(attempt))
  /\ presence' = [presence EXCEPT !.joined = @ \ {v}, !.grace = @ \/ presence.joined = {v}]
  /\ settle' = [settle EXCEPT ![v] = IF @ = NoOne THEN NoOne ELSE Stale]
  /\ UNCHANGED <<review, installer, call>>

(* The connection breaks under a page, or its reader leaves; what it sent  *)
(* is still under way.                                                     *)
Disconnect(v) ==
  /\ view[v].at = "open" /\ Up /\ Fault
  /\ Unregistered(v)
  /\ \/ view' = [view EXCEPT ![v].at = "page"]
     \/ view' = [view EXCEPT ![v] = NewView("left")]

NoticeClosed(v) ==
  /\ view[v].at = "closing" /\ Up
  /\ Unregistered(v)
  /\ view' = [view EXCEPT ![v] = NewView("closed")]
  /\ UNCHANGED faults

-----------------------------------------------------------------------------
(* The input of a view: a draft or an edit that is typed, sent and accepted.*)

Here(v) == view[v].at \in {"open", "page"}

Type(v) ==
  /\ Here(v) /\ ~view[v].frozen /\ ~view[v].typed
  /\ view' = [view EXCEPT ![v].typed = TRUE]
  /\ UNCHANGED <<serviceVars, settle, installer, call, faults>>

(* A request that writes: a connected view is asked what its attempt lets  *)
(* it write, a page without connection whether admission is open.          *)
Polled(v) == IF v \in presence.joined THEN Changed(attempt, {v}) ELSE attempt
Writes(v) ==
  IF v \in presence.joined THEN MayAuthor(Polled(v), v) ELSE AdmissionAllowed(daemon)

Admits(v, route) ==
  /\ Up /\ SettlementAllowed(daemon)
  /\ <<route, v>> \notin daemon.routes
  /\ Follow(IF Writes(v) THEN Leased(daemon, <<route, v>>) ELSE Entered(daemon), Polled(v))

(* A view keeps the input that was refused; a refusal ends its protection. *)
Unsent(w) ==
  [w EXCEPT !.sending = FALSE, !.failed = @ \/ w.step = "protecting",
            !.step = IF @ = "protecting" THEN "settle" ELSE @]

Submit(v) ==
  /\ Here(v) /\ view[v].typed /\ ~view[v].sending
  /\ Admits(v, "input")
  /\ view' = [view EXCEPT ![v] = IF Writes(v) THEN [@ EXCEPT !.sending = TRUE] ELSE Unsent(@)]
  /\ UNCHANGED <<presence, review, settle, installer, call, faults>>

(* The mutation is accepted, whatever has happened since its request was   *)
(* let in. An edit asks for a save.                                        *)
Land(v, edit) ==
  /\ <<"input", v>> \in daemon.routes /\ Up
  /\ review.rev < MaxEdits
  /\ daemon' = Completed(daemon, <<"input", v>>)
  /\ review' = [review EXCEPT !.rev = @ + 1,
                              !.sync = IF edit THEN "saving" ELSE @,
                              !.unsaved = @ \/ edit]
  /\ view' = [view EXCEPT ![v].typed = @ /\ ~view[v].sending, ![v].sending = FALSE]
  /\ UNCHANGED <<attempt, presence, settle, installer, call, faults>>

(* A write that is refused late.                                           *)
Refuse(v) ==
  /\ <<"input", v>> \in daemon.routes /\ Up
  /\ daemon' = Completed(daemon, <<"input", v>>)
  /\ view' = [view EXCEPT ![v] = IF view[v].sending THEN Unsent(@) ELSE @]
  /\ UNCHANGED <<attempt, presence, review, settle, installer, call, faults>>

(* A save destination is chosen in a dialog, for as long as it takes.      *)
Choose(v) ==
  /\ view[v].at = "open" /\ review.choices < MaxChoices /\ ~view[v].frozen
  /\ Admits(v, "choose")
  /\ review' = [review EXCEPT !.choices = @ + 1]
  /\ UNCHANGED <<presence, actorVars, faults>>

ChoiceLands(v) ==
  /\ <<"choose", v>> \in daemon.routes /\ Up
  /\ daemon' = Completed(daemon, <<"choose", v>>)
  /\ review' = [review EXCEPT !.sync = "saving"]
  /\ UNCHANGED <<attempt, presence, actorVars, faults>>

-----------------------------------------------------------------------------
(* The tick of a view: ReviewUpgradePreparation.                           *)

Poll(v) ==
  /\ view[v].at = "open" /\ view[v].step = "idle" /\ Up /\ SettlementAllowed(daemon)
  /\ LET a == Polled(v) IN
       /\ Follow(Entered(daemon), a)
       /\ view' = [view EXCEPT ![v].step = "polled", ![v].reply = Status(a, v)]
  /\ UNCHANGED <<presence, review, settle, installer, call, faults>>

(* An answer that tells a view to freeze and to protect its input.         *)
Protects(w) ==
  w.step = "polled" /\ w.reply.phase = "preparing" /\ (w.reply.by # w.attempt \/ w.reply.due)

(* Mutant of Followed: a canceled attempt leaves the view frozen.          *)
FollowedIntoFreeze(w) ==
  CASE Protects(w) -> [w EXCEPT !.attempt = w.reply.by, !.frozen = TRUE, !.failed = FALSE,
         !.step = IF w.protected = w.reply.by THEN "settle" ELSE "protecting"]
    [] w.reply.phase = "committed" /\ w.reply.by = w.attempt ->
         [w EXCEPT !.at = IF @ = "open" THEN "closing" ELSE "closed", !.step = "idle"]
    [] OTHER -> [w EXCEPT !.step = "idle"]

(* What a tick does with the status it has.                                *)
Followed(w) ==
  CASE Protects(w) -> [w EXCEPT !.attempt = w.reply.by, !.frozen = TRUE, !.failed = FALSE,
         !.step = IF w.protected = w.reply.by THEN "settle" ELSE "protecting"]
    [] w.reply.phase \in {"none", "preview", "canceled"} ->
         [w EXCEPT !.attempt = NoOne, !.protected = NoOne, !.frozen = FALSE, !.step = "idle"]
    [] w.reply.phase = "committed" /\ w.reply.by = w.attempt ->
         [w EXCEPT !.at = IF @ = "open" THEN "closing" ELSE "closed", !.step = "idle"]
    [] OTHER -> [w EXCEPT !.step = "idle"]

Receive(v) ==
  /\ Here(v) /\ view[v].step \in {"polled", "settled"}
  /\ view' = [view EXCEPT ![v] = [Followed(view[v]) EXCEPT !.reply = NoReply]]
  /\ UNCHANGED <<serviceVars, settle, installer, call, faults>>

(* An answer is lost: a view that takes part stays frozen.                 *)
LoseReply(v) ==
  /\ Here(v) /\ view[v].step \in {"polled", "settling", "settled"} /\ Fault
  /\ view' = [view EXCEPT ![v].step = "idle", ![v].reply = NoReply]
  /\ UNCHANGED <<serviceVars, settle, installer, call>>

(* protectInput(): what was typed has been sent and accepted, or could not *)
(* be.                                                                     *)
ProtectDone(v) ==
  /\ Here(v) /\ view[v].step = "protecting" /\ ~view[v].typed /\ ~view[v].sending
  /\ view' = [view EXCEPT ![v].protected = view[v].attempt, ![v].step = "settle"]
  /\ UNCHANGED <<serviceVars, settle, installer, call, faults>>

ProtectFails(v) ==
  /\ Here(v) /\ view[v].step = "protecting" /\ view[v].typed /\ ~view[v].sending
  /\ view' = [view EXCEPT ![v].failed = TRUE, ![v].step = "settle"]
  /\ UNCHANGED <<serviceVars, settle, installer, call, faults>>

(* Mutant of StartSettle: the error of the protection is not passed on.    *)
StartSettleAnyway(v) ==
  /\ Here(v) /\ view[v].step = "settle" /\ settle[v] = NoOne /\ Up
  /\ IF v \in presence.joined /\ view[v].attempt = attempt.by /\ attempt.phase \in {"preparing", "ready"}
     THEN /\ daemon' = Leased(daemon, <<"settle", v>>)
          /\ settle' = [settle EXCEPT ![v] = view[v].attempt]
          /\ view' = [view EXCEPT ![v].step = "settling"]
          /\ UNCHANGED attempt
     ELSE /\ view' = [view EXCEPT ![v].step = "idle"]
          /\ daemon' = IF SettlementAllowed(daemon) THEN Entered(daemon) ELSE daemon
          /\ UNCHANGED <<attempt, settle>>
  /\ UNCHANGED <<presence, review, installer, call, faults>>

(* The request settle() of a view, with the error of its protection. A     *)
(* page without connection has no such request, and an attempt that is     *)
(* over has no use for it.                                                 *)
StartSettle(v) ==
  /\ Here(v) /\ view[v].step = "settle" /\ settle[v] = NoOne /\ Up
  /\ LET current == /\ v \in presence.joined /\ view[v].attempt = attempt.by
                    /\ attempt.phase \in {"preparing", "ready"} IN
       CASE current /\ ~view[v].failed ->
              /\ daemon' = Leased(daemon, <<"settle", v>>)
              /\ settle' = [settle EXCEPT ![v] = view[v].attempt]
              /\ view' = [view EXCEPT ![v].step = "settling"]
              /\ UNCHANGED attempt
         [] current /\ view[v].failed ->
              /\ Follow(Entered(daemon), Invalidated(attempt))
              /\ view' = [view EXCEPT ![v].step = "settled", ![v].reply = Status(attempt', v)]
              /\ UNCHANGED settle
         [] OTHER ->
              /\ view' = [view EXCEPT ![v].step = "idle"]
              /\ daemon' = IF SettlementAllowed(daemon) THEN Entered(daemon) ELSE daemon
              /\ UNCHANGED <<attempt, settle>>
  /\ UNCHANGED <<presence, review, installer, call, faults>>

-----------------------------------------------------------------------------
InstallerStep(i) ==
  \/ Inspect(i) \/ Preview(i) \/ (\E consent \in BOOLEAN : Begin(i, consent))
  \/ AwaitReady(i) \/ Commit(i) \/ Validate(i) \/ Shutdown(i) \/ Cancel(i)
  \/ GiveUp(i) \/ Stop(i) \/ Replace(i)

CallStep(i) == EndDrain(i) \/ FailDrain(i) \/ RetireMetadata(i) \/ ClosePanels(i) \/ RevokeTasks(i)

ReviewStep ==
  \/ Expire \/ CloseHost \/ SaveDone \/ SaveFails \/ Successor \/ BindTask \/ EndTask \/ ExpireGrace
  \/ \E p \in Participants : EndSettle(p) \/ FailSettle(p)

ViewStep(v) ==
  \/ Open(v) \/ ExpireBootstrap(v) \/ Exchange(v) \/ Connect(v) \/ Disconnect(v) \/ NoticeClosed(v)
  \/ Type(v) \/ Submit(v) \/ (\E edit \in BOOLEAN : Land(v, edit)) \/ Refuse(v)
  \/ Choose(v) \/ ChoiceLands(v)
  \/ Poll(v) \/ Receive(v) \/ LoseReply(v) \/ ProtectDone(v) \/ ProtectFails(v) \/ StartSettle(v)

Next ==
  \/ \E i \in Installers : InstallerStep(i) \/ CallStep(i)
  \/ ReviewStep
  \/ \E v \in Views : ViewStep(v)

Spec == Init /\ [][Next]_vars

(* Timers fire, what the service has begun ends, and an open view polls on *)
(* its interval. Nothing is assumed of the installers or of the reader.    *)
Tick(v) ==
  \/ Poll(v) \/ Receive(v) \/ ProtectDone(v) \/ ProtectFails(v) \/ StartSettle(v)

Fairness ==
  /\ WF_vars(Expire) /\ WF_vars(CloseHost) /\ WF_vars(SaveDone)
  /\ \A i \in Installers : WF_vars(CallStep(i))
  /\ \A p \in Participants : WF_vars(EndSettle(p))
  /\ \A v \in Views : WF_vars(Tick(v)) /\ WF_vars(\E edit \in BOOLEAN : Land(v, edit))
                      /\ WF_vars(Refuse(v))

FairSpec == Spec /\ Fairness

-----------------------------------------------------------------------------
DaemonType ==
  [lifecycle : {"accepting", "draining", "shutdown-committed"}, frozen : BOOLEAN, prepared : BOOLEAN,
   drain : Installers \cup {NoOne}, routes : SUBSET Routes, barrier : SUBSET Routes,
   host : {"up", "closing", "gone"}]

RevisionType == [gen : Nat, rev : Nat]

AttemptType ==
  [phase : Phases, by : Installers \cup {NoOne}, acked : SUBSET Participants, retiring : BOOLEAN,
   seen : [review : Nat, task : BOOLEAN, transient : Nat], known : [Participants -> RevisionType]]

PresenceType == [joined : SUBSET Views, pending : SUBSET Views, grace : BOOLEAN, task : BOOLEAN]

ReviewType ==
  [gen : Nat, rev : Nat, sync : {"clean", "saving", "failed"}, unsaved : BOOLEAN,
   authority : Nat, choices : Nat]

ViewType ==
  [at : Places, typed : BOOLEAN, sending : BOOLEAN, frozen : BOOLEAN,
   attempt : Installers \cup {NoOne}, protected : Installers \cup {NoOne},
   step : Steps, failed : BOOLEAN,
   reply : [phase : Phases, by : Installers \cup {NoOne}, due : BOOLEAN]]

InstallerType ==
  [pc : {"waiting", "preview", "consent", "polling", "ready", "committing", "validate", "shutdown",
         "draining", "retiring", "canceling", "failed", "replaced"}, prepares : BOOLEAN]

(* A drain is somebody's, and the service's presence is the views'.        *)
Consistent ==
  /\ daemon.lifecycle = "draining" <=> daemon.drain # NoOne
  /\ presence.joined = {v \in Views : view[v].at \in {"open", "closing"}}
  /\ presence.pending = {v \in Views : view[v].at = "opening"}

(* Type correctness, and the consistency of what two parts of the state    *)
(* say of the same thing.                                                  *)
TypeOK ==
  /\ Consistent
  /\ daemon \in DaemonType
  /\ attempt \in AttemptType
  /\ presence \in PresenceType
  /\ review \in ReviewType
  /\ view \in [Views -> ViewType]
  /\ settle \in [Participants -> Installers \cup {NoOne, Stale}]
  /\ installer \in [Installers -> InstallerType]
  /\ call \in [Installers -> {"none", "drain", "barrier", "panels", "revoke"}]
  /\ faults \in Nat

(* Admission is shut exactly while an attempt prepares, is ready or        *)
(* committed, however the attempt ends (expiry, a view that joins, leaves  *)
(* or fails, a revision that moves, the installer), and a frozen service   *)
(* lets itself be shut down only for a committed attempt.                  *)
AdmissionFollowsTheAttempt ==
  /\ daemon.frozen <=> attempt.phase \in Freezing
  /\ daemon.prepared <=> attempt.phase = "committed"

(* A service that has agreed to end has no view, no launch, no task and no *)
(* request left, although work arrives while it drains.                    *)
RetiredIsIdle ==
  daemon.lifecycle = "shutdown-committed" =>
    /\ presence.joined = {} /\ presence.pending = {} /\ ~presence.grace /\ ~presence.task
    /\ daemon.routes = {} /\ ~Saving

(* An attempt commits only when every view and the task authority have     *)
(* acknowledged the revision the review has now, no view holds input the   *)
(* service does not, and what was accepted from a connected view is saved. *)
CommitIsCurrent ==
  [][attempt.phase # "committed" /\ attempt'.phase = "committed" =>
       /\ Registered \subseteq attempt'.acked
       /\ \A p \in Registered : attempt'.known[p] = Revision(p)
       /\ \A v \in presence.joined : ~view[v].typed /\ ~view[v].sending
       /\ presence.joined # {} => ~review.unsaved]_vars

(* A view closes itself only when everything that was typed into it has    *)
(* been accepted by the service, whichever answers were lost or late.      *)
ViewsCloseProtected ==
  [][\A v \in Views : Here(v) /\ view'[v].at \in {"closing", "closed"} =>
       /\ ~view[v].typed /\ ~view[v].sending
       /\ view[v].protected = view[v].reply.by]_vars

(* A view that was frozen for an upgrade is not frozen for ever: the       *)
(* upgrade closes it, or it is given back to its reader.                   *)
FrozenViewsAreFreed ==
  \A v \in Views : (view[v].at = "open" /\ view[v].frozen)
                     ~> (view[v].at # "open" \/ ~view[v].frozen)

(* A service that has agreed to end ends (what the lifecycle document says *)
(* of shutdown-committed). It does not when the installer has stopped      *)
(* waiting by then: the host is closed after an answer that was delivered. *)
RetiredServiceCloses == (daemon.lifecycle = "shutdown-committed") ~> (daemon.host = "gone")
=============================================================================
