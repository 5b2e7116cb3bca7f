--------------------------- MODULE DaemonUpgrade ---------------------------
(***************************************************************************)
(* The service's side of an upgrade: the lifecycle of the daemon with its  *)
(* admission gate and conditional shutdown (DaemonLifecycleCoordinator),   *)
(* the one preparation attempt (UpgradePreparationCoordinator) and its     *)
(* participants (UpgradeReviewParticipants): each connected view of a      *)
(* review, and the task authority. Definitions are functions of the        *)
(* daemon's and the attempt's records; UpgradeProtocol makes steps of them.*)
(*                                                                         *)
(* One review; credentials and candidates are left out, an attempt is      *)
(* known by the installer that previewed it.                               *)
(***************************************************************************)
EXTENDS Integers, FiniteSets

CONSTANTS
  Views,          \* views of the review
  MaxInstallers   \* bound: installers, one after the other

Authority == "task-authority"

ASSUME UpgradeAssumption ==
  /\ Authority \notin Views
  /\ IsFiniteSet(Views)
  /\ MaxInstallers \in Nat \ {0}

Installers == 1..MaxInstallers
NoOne == 0
Participants == Views \cup {Authority}

VARIABLES
  daemon,     \* lifecycle, admission gate, current drain, admitted routes
  attempt,    \* phase, whose it is, acknowledgements, known revisions
  presence,   \* connected views, pending bootstraps, the grace, a bound task
  review      \* generation, revision, save, and the authority's epoch

serviceVars == <<daemon, attempt, presence, review>>

Phases == {"none", "preview", "preparing", "ready", "committed", "canceled"}
Freezing == {"preparing", "ready", "committed"}

(* Routes that hold an activity lease while they run: an input, a choice   *)
(* of a save destination, a settlement.                                    *)
Routes == {"input", "choose", "settle"} \X Views

-----------------------------------------------------------------------------
(* DaemonLifecycleCoordinator.                                             *)

(* Mutant of Reaccepting: the attempt number stays.                        *)
ReacceptingInPlace(d) ==
  IF d.lifecycle = "draining" THEN [d EXCEPT !.lifecycle = "accepting"] ELSE d

(* Activity that enters, and a preparation that begins or ends, cancel a   *)
(* drain: its call will find that the attempt number has moved on.         *)
Reaccepting(d) ==
  IF d.lifecycle = "draining" THEN [d EXCEPT !.lifecycle = "accepting", !.drain = NoOne] ELSE d

Entered(d) == Reaccepting(d)

AdmissionAllowed(d) == ~d.frozen /\ d.lifecycle # "shutdown-committed"
SettlementAllowed(d) == d.lifecycle # "shutdown-committed"

Leased(d, route) == [Entered(d) EXCEPT !.routes = @ \cup {route}]
Completed(d, route) == [d EXCEPT !.routes = @ \ {route}, !.barrier = @ \ {route}]

(* barrier: the routes admitted at the freeze that still run.              *)
FreezeAdmission(d) ==
  [Reaccepting(d) EXCEPT !.frozen = TRUE, !.prepared = FALSE, !.barrier = d.routes]

(* Mutant of ResumeAdmission: the gate stays shut.                         *)
ResumeWithoutAdmission(d) == [Reaccepting(d) EXCEPT !.prepared = FALSE]
ResumeAdmission(d) == [Reaccepting(d) EXCEPT !.frozen = FALSE, !.prepared = FALSE]

ReviewPresence ==
  Cardinality(presence.joined) + Cardinality(presence.pending) + (IF presence.grace THEN 1 ELSE 0)

Saving == review.sync = "saving"

(* Mutant of Occupied: the routes that run do not count.                   *)
OccupiedApartFromRoutes(d) == ReviewPresence > 0 \/ presence.task
Occupied(d) == ReviewPresence > 0 \/ presence.task \/ d.routes # {}
Idle(d) == ~Occupied(d) /\ ~Saving

(* The attempt i was granted is still the committed one.                   *)
Committed(i) == attempt.phase = "committed" /\ attempt.by = i
Authorized(i, prepares) ==
  /\ prepares => Committed(i)
  /\ daemon.frozen => daemon.prepared /\ prepares

(* shutdownIfIdle() before and after its drain.                            *)
ShutdownAnswer(i, prepares) ==
  IF ~Authorized(i, prepares) THEN "refused"
  ELSE IF daemon.lifecycle = "shutdown-committed" THEN "accepted"
  ELSE IF daemon.lifecycle # "accepting" \/ Occupied(daemon) THEN "refused" ELSE "drain"

Draining(i) == [daemon EXCEPT !.lifecycle = "draining", !.drain = i]
CurrentDrain(i) == daemon.lifecycle = "draining" /\ daemon.drain = i

Drained(i, prepares) ==
  IF ~CurrentDrain(i) THEN daemon
  ELSE IF Authorized(i, prepares) /\ Idle(daemon)
       THEN [daemon EXCEPT !.lifecycle = "shutdown-committed", !.drain = NoOne]
       ELSE Reaccepting(daemon)

-----------------------------------------------------------------------------
(* UpgradePreparationCoordinator and UpgradeReviewParticipants.            *)

(* What a participant's revision is now: the review's for a view, the      *)
(* epoch of the task bindings for the task authority.                      *)
Revision(p) ==
  IF p = Authority THEN [gen |-> 0, rev |-> review.authority]
  ELSE [gen |-> review.gen, rev |-> review.rev]

Unknown == [gen |-> 0, rev |-> 0]

SameGeneration(a, p) == p = Authority \/ a.known[p].gen = review.gen
Registered == presence.joined \cup {Authority}
Relearned(a, ps) ==
  [a EXCEPT !.known = [p \in Participants |-> IF p \in ps THEN Revision(p) ELSE a.known[p]]]

(* The activity that is shown with the preview and compared at begin.      *)
Nothing == [review |-> 0, task |-> FALSE, transient |-> 0]
Activity ==
  [review |-> ReviewPresence, task |-> presence.task,
   transient |-> Cardinality(daemon.routes) + (IF Saving THEN 1 ELSE 0)]

(* An attempt that is over keeps only whose it was.                        *)
Live(a) == a.phase \notin {"none", "canceled"}
Over(by) == [phase |-> "canceled", by |-> by, acked |-> {}, retiring |-> FALSE, seen |-> Nothing,
             known |-> [p \in Participants |-> Unknown]]
Invalidated(a) == IF Live(a) THEN Over(a.by) ELSE a

(* #invalidate() resumes admission when it ends a live attempt.            *)
Released(d, a) ==
  IF a.phase = "canceled" /\ attempt.phase # "canceled" THEN ResumeAdmission(d) ELSE d

(* changed(): a revision that moved invalidates the attempt, except while  *)
(* it prepares (input that was admitted may still flush) and except for    *)
(* the authority while it is retired by the commit.                        *)
Excused(a, p) ==
  \/ a.phase = "preparing" /\ SameGeneration(a, p)
  \/ p = Authority /\ a.retiring /\ a.phase = "committed"

Changed(a, ps) ==
  IF \E p \in ps : a.known[p] # Revision(p) /\ ~Excused(a, p) THEN Invalidated(a) ELSE a

(* Every upgrade-preparation request begins with refresh().                *)
Refreshed == Changed(attempt, Registered)

Covered == ~presence.grace /\ presence.pending = {}
AllAcknowledged(a) == Registered \subseteq a.acked
Ready(a) == AllAcknowledged(a) /\ Covered
Prepared(a) == [a EXCEPT !.seen = Nothing, !.phase = IF Ready(a) THEN "ready" ELSE "preparing"]

(* The preview begins with the revisions of those that are registered.     *)
Previewed(i) ==
  [Relearned(Over(i), Registered) EXCEPT !.phase = "preview", !.seen = Activity]

(* The end of settle(): the peers' revisions that moved are asked for      *)
(* again while the attempt prepares, and invalidate it otherwise; then the *)
(* acknowledgement of p counts.                                            *)
Moved(a) == {p \in Registered : a.known[p] # Revision(p)}

AskedAgain(a) == [Relearned(a, Moved(a)) EXCEPT !.acked = @ \ Moved(a)]

Acknowledged(a, p) ==
  IF \E q \in Moved(a) : a.phase # "preparing" \/ ~SameGeneration(a, q)
  THEN Invalidated(a)
  ELSE LET b == AskedAgain(a) IN Prepared([b EXCEPT !.acked = @ \cup {p}])

(* The status a participant is told.                                       *)
Status(a, p) ==
  [phase |-> a.phase, by |-> a.by, due |-> a.phase = "preparing" /\ p \notin a.acked]

(* registerParticipant() and unregisterParticipant().                      *)
Joined(a) == Invalidated(a)
Detached(a) == IF a.phase = "committed" THEN a ELSE Invalidated(a)

(* assertAuthoring(): what a connected view may still write.               *)
MayAuthor(a, v) ==
  ~(a.phase \in {"ready", "committed"} \/ (a.phase = "preparing" /\ v \in a.acked))
=============================================================================
