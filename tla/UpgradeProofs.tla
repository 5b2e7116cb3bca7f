---------------------------- MODULE UpgradeProofs ----------------------------
(***************************************************************************)
(* Proofs about UpgradeProtocol, for every set of views, every number of   *)
(* installers and every bound: its types, that admission is shut exactly   *)
(* while an attempt holds it shut, that a service that has agreed to end   *)
(* is idle, that an attempt commits at the revision everybody acknowledged *)
(* and saved, and that a view closes itself only when it is protected.     *)
(***************************************************************************)
EXTENDS UpgradeProtocol, FiniteSetTheorems, TLAPS

-----------------------------------------------------------------------------
(* The operators of the daemon.                                            *)

DaemonOK(d) ==
  /\ d \in DaemonType
  /\ d.lifecycle = "draining" <=> d.drain # NoOne

(* What two daemons have in common that differ in their drain only.        *)
SameGate(d, e) == d.frozen = e.frozen /\ d.prepared = e.prepared
SameHost(d, e) ==
  /\ d.host = e.host
  /\ d.lifecycle = "shutdown-committed" <=> e.lifecycle = "shutdown-committed"

LEMMA ReacceptingKeeps ==
  ASSUME NEW d, DaemonOK(d)
  PROVE  /\ DaemonOK(Reaccepting(d))
         /\ SameGate(Reaccepting(d), d)
         /\ SameHost(Reaccepting(d), d)
         /\ Reaccepting(d).routes = d.routes
BY DEF DaemonOK, DaemonType, Reaccepting, NoOne, SameGate, SameHost

LEMMA EnteredKeeps ==
  ASSUME NEW d, DaemonOK(d)
  PROVE  /\ DaemonOK(Entered(d))
         /\ SameGate(Entered(d), d)
         /\ SameHost(Entered(d), d)
         /\ Entered(d).routes = d.routes
BY ReacceptingKeeps DEF Entered

LEMMA LeasedKeeps ==
  ASSUME NEW d, DaemonOK(d), NEW r \in Routes
  PROVE  /\ DaemonOK(Leased(d, r))
         /\ SameGate(Leased(d, r), d)
         /\ SameHost(Leased(d, r), d)
<1>1. DaemonOK(Entered(d)) /\ SameGate(Entered(d), d) /\ SameHost(Entered(d), d)
  BY EnteredKeeps
<1>2. QED
  BY <1>1 DEF DaemonOK, DaemonType, Leased, SameGate, SameHost

LEMMA CompletedKeeps ==
  ASSUME NEW d, DaemonOK(d), NEW r
  PROVE  /\ DaemonOK(Completed(d, r))
         /\ SameGate(Completed(d, r), d)
         /\ SameHost(Completed(d, r), d)
         /\ Completed(d, r).routes \subseteq d.routes
BY DEF DaemonOK, DaemonType, Completed, SameGate, SameHost

LEMMA ResumeOpens ==
  ASSUME NEW d, DaemonOK(d)
  PROVE  /\ DaemonOK(ResumeAdmission(d))
         /\ ~ResumeAdmission(d).frozen /\ ~ResumeAdmission(d).prepared
         /\ SameHost(ResumeAdmission(d), d)
         /\ ResumeAdmission(d).routes = d.routes
<1>1. DaemonOK(Reaccepting(d)) /\ SameHost(Reaccepting(d), d) /\ Reaccepting(d).routes = d.routes
  BY ReacceptingKeeps
<1>2. QED
  BY <1>1 DEF DaemonOK, DaemonType, ResumeAdmission, SameHost

LEMMA FreezeShuts ==
  ASSUME NEW d, DaemonOK(d)
  PROVE  /\ DaemonOK(FreezeAdmission(d))
         /\ FreezeAdmission(d).frozen /\ ~FreezeAdmission(d).prepared
         /\ SameHost(FreezeAdmission(d), d)
         /\ FreezeAdmission(d).routes = d.routes
<1>1. DaemonOK(Reaccepting(d)) /\ SameHost(Reaccepting(d), d) /\ Reaccepting(d).routes = d.routes
  BY ReacceptingKeeps
<1>2. d.routes \in SUBSET Routes
  BY DEF DaemonOK, DaemonType
<1>3. QED
  BY <1>1, <1>2 DEF DaemonOK, DaemonType, FreezeAdmission, SameHost

-----------------------------------------------------------------------------
(* The operators of the attempt.                                           *)

ServiceOK ==
  /\ DaemonOK(daemon)
  /\ attempt \in AttemptType
  /\ presence \in PresenceType
  /\ review \in ReviewType

Gate(d, a) ==
  /\ d.frozen <=> a.phase \in Freezing
  /\ d.prepared <=> a.phase = "committed"

LEMMA RevisionTyped ==
  ASSUME ServiceOK, NEW p
  PROVE  Revision(p) \in RevisionType
BY DEF ServiceOK, Revision, RevisionType, ReviewType

LEMMA ActivityTyped ==
  ASSUME ServiceOK
  PROVE  /\ Cardinality(presence.joined) \in Nat /\ Cardinality(presence.pending) \in Nat
         /\ Cardinality(daemon.routes) \in Nat
         /\ Activity \in [review : Nat, task : BOOLEAN, transient : Nat]
<1>1. IsFiniteSet(Views)
  BY UpgradeAssumption
<1>2. IsFiniteSet({"input", "choose", "settle"})
  <2>1. IsFiniteSet({"input"}) /\ IsFiniteSet({"choose"}) /\ IsFiniteSet({"settle"})
    BY FS_Singleton
  <2>2. IsFiniteSet({"input"} \cup {"choose"})
    BY <2>1, FS_Union
  <2>3. IsFiniteSet(({"input"} \cup {"choose"}) \cup {"settle"})
    BY <2>1, <2>2, FS_Union
  <2>4. {"input", "choose", "settle"} = ({"input"} \cup {"choose"}) \cup {"settle"}
    OBVIOUS
  <2>5. QED
    BY <2>3, <2>4
<1>3. IsFiniteSet(Routes)
  BY <1>1, <1>2, FS_Product DEF Routes
<1>4. presence.joined \in SUBSET Views /\ presence.pending \in SUBSET Views
  BY DEF ServiceOK, PresenceType
<1>5. daemon.routes \in SUBSET Routes
  BY DEF ServiceOK, DaemonOK, DaemonType
<1>6. IsFiniteSet(presence.joined) /\ IsFiniteSet(presence.pending)
  BY <1>1, <1>4, FS_Subset
<1>7. IsFiniteSet(daemon.routes)
  BY <1>3, <1>5, FS_Subset
<1>8. /\ Cardinality(presence.joined) \in Nat /\ Cardinality(presence.pending) \in Nat
      /\ Cardinality(daemon.routes) \in Nat
  BY <1>6, <1>7, FS_CardinalityType
<1>9. presence.task \in BOOLEAN
  BY DEF ServiceOK, PresenceType
<1>10. QED
  BY <1>8, <1>9 DEF Activity, ReviewPresence

LEMMA OverTyped ==
  ASSUME NEW by \in Installers \cup {NoOne}
  PROVE  Over(by) \in AttemptType /\ Over(by).phase = "canceled" /\ Over(by).by = by
BY DEF Over, AttemptType, RevisionType, Phases, Nothing, Unknown

(* What a step makes of the attempt when it does not begin or commit one.  *)
Continues(a) ==
  /\ a \in AttemptType
  /\ \/ a.phase = attempt.phase
     \/ a.phase = "canceled"
     \/ attempt.phase \in {"preparing", "ready"} /\ a.phase \in {"preparing", "ready"}

LEMMA InvalidatedContinues ==
  ASSUME ServiceOK
  PROVE  Continues(Invalidated(attempt))
<1>1. attempt \in AttemptType /\ attempt.by \in Installers \cup {NoOne}
  BY DEF ServiceOK, AttemptType
<1>2. QED
  BY <1>1, OverTyped DEF Invalidated, Continues

LEMMA ChangedContinues ==
  ASSUME ServiceOK, NEW ps
  PROVE  /\ Continues(Changed(attempt, ps))
         /\ Changed(attempt, ps).phase \in {attempt.phase, "canceled"}
         /\ Changed(attempt, ps).phase # "canceled" => Changed(attempt, ps) = attempt
<1>1. attempt \in AttemptType /\ attempt.by \in Installers \cup {NoOne}
  BY DEF ServiceOK, AttemptType
<1>2. Continues(attempt)
  BY <1>1 DEF Continues
<1>3. QED
  BY <1>1, <1>2, InvalidatedContinues, OverTyped DEF Changed, Invalidated

LEMMA RelearnedTyped ==
  ASSUME ServiceOK, NEW a \in AttemptType, NEW ps
  PROVE  /\ Relearned(a, ps) \in AttemptType
         /\ Relearned(a, ps).phase = a.phase
<1>1. \A p \in Participants : Revision(p) \in RevisionType
  BY RevisionTyped
<1>2. QED
  BY <1>1 DEF Relearned, AttemptType

LEMMA PreparedTyped ==
  ASSUME NEW a \in AttemptType
  PROVE  Prepared(a) \in AttemptType /\ Prepared(a).phase \in {"preparing", "ready"}
BY DEF Prepared, AttemptType, Phases, Nothing

LEMMA AcknowledgedContinues ==
  ASSUME ServiceOK, NEW p \in Participants, attempt.phase \in {"preparing", "ready"}
  PROVE  Continues(Acknowledged(attempt, p))
<1>1. attempt \in AttemptType
  BY DEF ServiceOK
<1> DEFINE b == AskedAgain(attempt)
<1>2. b \in AttemptType
  BY <1>1, RelearnedTyped DEF AskedAgain, AttemptType
<1>3. [b EXCEPT !.acked = @ \cup {p}] \in AttemptType
  BY <1>2 DEF AttemptType
<1>4. Continues(Prepared([b EXCEPT !.acked = @ \cup {p}]))
  BY <1>3, PreparedTyped DEF Continues
<1>5. QED
  BY <1>4, InvalidatedContinues DEF Acknowledged

(* Releasing what a step did to the daemon keeps the gate with the attempt.*)
LEMMA FollowKeeps ==
  ASSUME ServiceOK, Gate(daemon, attempt), NEW a, Continues(a),
         NEW d, DaemonOK(d), SameGate(d, daemon)
  PROVE  /\ DaemonOK(Released(d, a))
         /\ Gate(Released(d, a), a)
         /\ SameHost(Released(d, a), d)
         /\ Released(d, a).routes = d.routes
<1>1. CASE a.phase = "canceled" /\ attempt.phase # "canceled"
  BY <1>1, ResumeOpens DEF Released, Gate, Freezing
<1>2. CASE ~(a.phase = "canceled" /\ attempt.phase # "canceled")
  BY <1>2 DEF Released, Gate, Freezing, SameGate, SameHost, Continues
<1>3. QED
  BY <1>1, <1>2

-----------------------------------------------------------------------------
(* The invariant and its parts.                                            *)

ActorsOK ==
  /\ view \in [Views -> ViewType]
  /\ settle \in [Participants -> Installers \cup {NoOne, Stale}]
  /\ installer \in [Installers -> InstallerType]
  /\ call \in [Installers -> {"none", "drain", "barrier", "panels", "revoke"}]
  /\ faults \in Nat

Linked ==
  /\ presence.joined = {v \in Views : view[v].at \in {"open", "closing"}}
  /\ presence.pending = {v \in Views : view[v].at = "opening"}

Inv == ServiceOK /\ ActorsOK /\ Linked /\ Gate(daemon, attempt) /\ RetiredIsIdle

LEMMA InvImplies == Inv => TypeOK /\ AdmissionFollowsTheAttempt /\ RetiredIsIdle
BY DEF Inv, ServiceOK, DaemonOK, ActorsOK, Linked, Gate, TypeOK, Consistent,
       AdmissionFollowsTheAttempt

(* A step that leaves the presence and the review alone, and admits no     *)
(* request, does not disturb the idleness of a service that has agreed.    *)
LEMMA QuietKeepsIdle ==
  ASSUME RetiredIsIdle, UNCHANGED <<presence, review>>,
         SameHost(daemon', daemon), daemon'.routes \subseteq daemon.routes
  PROVE  RetiredIsIdle'
BY DEF RetiredIsIdle, SameHost, Saving

LEMMA GoTyped ==
  ASSUME installer \in [Installers -> InstallerType], NEW i \in Installers,
         NEW pc \in {"waiting", "preview", "consent", "polling", "ready", "committing", "validate",
                     "shutdown", "draining", "retiring", "canceling", "failed", "replaced"},
         Go(i, pc)
  PROVE  installer' \in [Installers -> InstallerType]
BY DEF Go, InstallerType

(* A step of an installer that only follows what becomes of the attempt.   *)
LEMMA FollowingStep ==
  ASSUME Inv, NEW a, Continues(a), Follow(daemon, a), UNCHANGED <<presence, review, view>>, ActorsOK'
  PROVE  Inv'
<1>1. ServiceOK /\ DaemonOK(daemon) /\ Gate(daemon, attempt) /\ RetiredIsIdle
  BY DEF Inv, ServiceOK
<1>2. SameGate(daemon, daemon)
  BY DEF SameGate
<1>3. /\ DaemonOK(Released(daemon, a)) /\ Gate(Released(daemon, a), a)
      /\ SameHost(Released(daemon, a), daemon) /\ Released(daemon, a).routes = daemon.routes
  BY <1>1, <1>2, FollowKeeps
<1>4. daemon' = Released(daemon, a) /\ attempt' = a
  BY DEF Follow
<1>5. RetiredIsIdle'
  BY <1>1, <1>3, <1>4, QuietKeepsIdle
<1>6. ServiceOK'
  BY <1>1, <1>3, <1>4 DEF ServiceOK, Continues, DaemonOK
<1>7. QED
  BY <1>3, <1>4, <1>5, <1>6 DEF Inv, Linked, Gate

(* A step of an actor that leaves the service alone.                       *)
LEMMA ActorStep ==
  ASSUME Inv, UNCHANGED <<serviceVars, view>>, ActorsOK'
  PROVE  Inv'
BY DEF Inv, serviceVars, ServiceOK, DaemonOK, Linked, Gate, RetiredIsIdle, Saving

(* A step that changes the daemon and nothing else of the service.         *)
LEMMA DaemonStep ==
  ASSUME Inv, UNCHANGED <<attempt, presence, review, view>>, ActorsOK',
         DaemonOK(daemon'), SameGate(daemon', daemon), RetiredIsIdle'
  PROVE  Inv'
BY DEF Inv, ServiceOK, DaemonOK, SameGate, Linked, Gate

-----------------------------------------------------------------------------
(* The installers.                                                         *)

LEMMA InstallerActors ==
  ASSUME Inv, NEW i \in Installers, InstallerStep(i)
  PROVE  ActorsOK'
<1> ActorsOK
  BY DEF Inv
<1> USE DEF ActorsOK
<1>1. CASE Inspect(i)
  BY <1>1 DEF Inspect, InstallerType
<1>2. CASE Preview(i)
  BY <1>2, GoTyped DEF Preview
<1>3. CASE \E consent \in BOOLEAN : Begin(i, consent)
  BY <1>3, GoTyped DEF Begin, Participants, Authority
<1>4. CASE AwaitReady(i)
  <2> DEFINE a == Refreshed
             due == Status(a, Authority).due /\ settle[Authority] # a.by
             pc == CASE a.by = i /\ a.phase = "preparing" -> "polling"
                     [] a.by = i /\ a.phase = "ready" -> "ready"
                     [] OTHER -> "canceling"
  <2>1. ServiceOK
    BY DEF Inv
  <2>2. a.by \in Installers \cup {NoOne}
    BY <2>1, ChangedContinues DEF Refreshed, Continues, AttemptType
  <2>3. /\ settle' = [settle EXCEPT ![Authority] = IF due THEN a.by ELSE @]
        /\ Go(i, pc) /\ UNCHANGED <<presence, review, view, call, faults>>
    BY <1>4 DEF AwaitReady
  <2>4. settle' \in [Participants -> Installers \cup {NoOne, Stale}]
    <3> HIDE DEF a, due
    <3>1. QED
      BY <2>2, <2>3 DEF Participants
  <2>5. pc \in {"polling", "ready", "canceling"}
    <3> HIDE DEF a
    <3>1. QED
      OBVIOUS
  <2>6. installer' \in [Installers -> InstallerType]
    <3> HIDE DEF pc
    <3>1. QED
      BY <2>3, <2>5, GoTyped
  <2>7. QED
    BY <2>3, <2>4, <2>6
<1>5. CASE Commit(i)
  BY <1>5, GoTyped DEF Commit
<1>6. CASE Validate(i)
  BY <1>6, GoTyped DEF Validate
<1>7. CASE Shutdown(i)
  BY <1>7, GoTyped DEF Shutdown, Refused
<1>8. CASE Cancel(i)
  BY <1>8, GoTyped DEF Cancel
<1>9. CASE GiveUp(i)
  BY <1>9, GoTyped DEF GiveUp
<1>10. CASE Stop(i)
  BY <1>10, GoTyped DEF Stop
<1>11. CASE Replace(i)
  BY <1>11, GoTyped DEF Replace
<1>12. QED
  BY <1>1, <1>2, <1>3, <1>4, <1>5, <1>6, <1>7, <1>8, <1>9, <1>10, <1>11 DEF InstallerStep

LEMMA InstallerKeeps ==
  ASSUME Inv, NEW i \in Installers, InstallerStep(i)
  PROVE  Inv'
<1>1. ActorsOK'
  BY InstallerActors
<1>2. ServiceOK /\ Gate(daemon, attempt) /\ RetiredIsIdle /\ DaemonOK(daemon)
  BY DEF Inv, ServiceOK
<1>3. Continues(Refreshed) /\ Refreshed.phase \in {attempt.phase, "canceled"}
      /\ (Refreshed.phase # "canceled" => Refreshed = attempt)
  BY <1>2, ChangedContinues DEF Refreshed
<1>4. attempt \in AttemptType /\ attempt.by \in Installers \cup {NoOne}
  BY <1>2 DEF ServiceOK, AttemptType
<1>5. CASE Inspect(i)
  BY <1>1, <1>5, ActorStep DEF Inspect
<1>6. CASE Preview(i)
  <2>1. UNCHANGED <<presence, review, view>>
    BY <1>6 DEF Preview
  <2>2. CASE Live(Refreshed)
    BY <1>1, <1>3, <1>6, <2>1, <2>2, FollowingStep DEF Preview
  <2>3. CASE ~Live(Refreshed)
    <3>1. daemon' = Released(daemon, Refreshed) /\ attempt' = Previewed(i)
      BY <1>6, <2>3 DEF Preview
    <3>2. SameGate(daemon, daemon)
      BY DEF SameGate
    <3>3. /\ DaemonOK(daemon') /\ Gate(daemon', Refreshed)
          /\ SameHost(daemon', daemon) /\ daemon'.routes = daemon.routes
      BY <1>2, <1>3, <3>1, <3>2, FollowKeeps
    <3>4. ~daemon'.frozen /\ ~daemon'.prepared
      BY <2>3, <3>3 DEF Live, Gate, Freezing
    <3>5. Previewed(i) \in AttemptType /\ Previewed(i).phase = "preview"
      <4>1. Relearned(Over(i), Registered) \in AttemptType
        BY <1>2, OverTyped, RelearnedTyped
      <4>2. QED
        BY <1>2, <4>1, ActivityTyped DEF Previewed, AttemptType, Phases
    <3>6. Gate(daemon', attempt')
      BY <3>1, <3>3, <3>4, <3>5 DEF Gate, Freezing, DaemonOK, DaemonType
    <3>7. RetiredIsIdle'
      BY <1>2, <2>1, <3>3, QuietKeepsIdle
    <3>8. QED
      BY <1>1, <2>1, <3>1, <3>3, <3>5, <3>6, <3>7 DEF Inv, ServiceOK, DaemonOK, Linked, Gate
  <2>4. QED
    BY <2>2, <2>3
<1>7. CASE \E consent \in BOOLEAN : Begin(i, consent)
  <2>1. PICK consent \in BOOLEAN : Begin(i, consent)
    BY <1>7
  <2> DEFINE a == Refreshed
  <2>2. UNCHANGED <<presence, review, view>>
    BY <2>1 DEF Begin
  <2>3. CASE /\ a.by = i /\ a.phase = "preview" /\ consent /\ a.seen = Activity
             /\ daemon.lifecycle # "shutdown-committed"
    <3>1. daemon' = FreezeAdmission(daemon) /\ attempt' = Prepared(a)
      BY <2>1, <2>3 DEF Begin
    <3>2. /\ DaemonOK(daemon') /\ daemon'.frozen /\ ~daemon'.prepared
          /\ SameHost(daemon', daemon) /\ daemon'.routes = daemon.routes
      BY <1>2, <3>1, FreezeShuts
    <3>3. attempt' \in AttemptType /\ attempt'.phase \in {"preparing", "ready"}
      BY <1>3, <3>1, PreparedTyped DEF Continues
    <3>4. Gate(daemon', attempt')
      BY <3>2, <3>3 DEF Gate, Freezing
    <3>5. RetiredIsIdle'
      BY <1>2, <2>2, <3>2, QuietKeepsIdle
    <3>6. QED
      BY <1>1, <2>2, <3>2, <3>3, <3>4, <3>5 DEF Inv, ServiceOK, DaemonOK, Linked, Gate
  <2>4. CASE ~(/\ a.by = i /\ a.phase = "preview" /\ consent /\ a.seen = Activity
               /\ daemon.lifecycle # "shutdown-committed")
    <3> DEFINE b == IF a.by = i THEN Invalidated(a) ELSE a
    <3>1. Follow(daemon, b)
      BY <2>1, <2>4 DEF Begin
    <3>2. Continues(b)
      BY <1>2, <1>3, InvalidatedContinues DEF Invalidated, Live
    <3> HIDE DEF b
    <3>3. QED
      BY <1>1, <2>2, <3>1, <3>2, FollowingStep
  <2>5. QED
    BY <2>3, <2>4
<1>8. CASE AwaitReady(i)
  BY <1>1, <1>3, <1>8, FollowingStep DEF AwaitReady
<1>9. CASE Commit(i)
  <2>1. UNCHANGED <<presence, review, view>>
    BY <1>9 DEF Commit
  <2>2. CASE Refreshed.by = i /\ Refreshed.phase = "ready" /\ Ready(Refreshed)
    <3>1. /\ attempt' = [attempt EXCEPT !.phase = "committed"]
          /\ daemon' = [daemon EXCEPT !.prepared = TRUE]
          /\ attempt.phase = "ready"
      BY <1>3, <1>9, <2>2 DEF Commit
    <3>2. DaemonOK(daemon') /\ SameHost(daemon', daemon) /\ daemon'.routes = daemon.routes
          /\ daemon'.frozen = daemon.frozen /\ daemon'.prepared
      BY <1>2, <3>1 DEF DaemonOK, DaemonType, SameHost
    <3>3. attempt' \in AttemptType /\ attempt'.phase = "committed"
      BY <1>4, <3>1 DEF AttemptType, Phases
    <3>4. Gate(daemon', attempt')
      BY <1>2, <3>1, <3>2, <3>3 DEF Gate, Freezing
    <3>5. RetiredIsIdle'
      BY <1>2, <2>1, <3>2, QuietKeepsIdle
    <3>6. QED
      BY <1>1, <2>1, <3>2, <3>3, <3>4, <3>5 DEF Inv, ServiceOK, DaemonOK, Linked, Gate
  <2>3. CASE ~(Refreshed.by = i /\ Refreshed.phase = "ready" /\ Ready(Refreshed))
    BY <1>1, <1>3, <1>9, <2>1, <2>3, FollowingStep DEF Commit
  <2>4. QED
    BY <2>2, <2>3
<1>10. CASE Validate(i)
  BY <1>1, <1>3, <1>10, FollowingStep DEF Validate
<1>11. CASE Shutdown(i)
  <2>1. UNCHANGED <<attempt, presence, review, view>>
    BY <1>11 DEF Shutdown
  <2>2. \/ daemon' = Draining(i) /\ daemon.lifecycle = "accepting"
        \/ daemon' = [daemon EXCEPT !.host = "closing"]
        \/ daemon' = daemon
    BY <1>11 DEF Shutdown, ShutdownAnswer
  <2>3. /\ DaemonOK(daemon') /\ SameGate(daemon', daemon) /\ daemon'.routes = daemon.routes
        /\ daemon'.lifecycle = "shutdown-committed" <=> daemon.lifecycle = "shutdown-committed"
    <3>1. daemon \in DaemonType /\ i # NoOne
      BY <1>2, UpgradeAssumption DEF DaemonOK, Installers, NoOne
    <3>2. CASE daemon' = Draining(i) /\ daemon.lifecycle = "accepting"
      BY <3>1, <3>2 DEF DaemonOK, DaemonType, Draining, SameGate
    <3>3. CASE daemon' = [daemon EXCEPT !.host = "closing"]
      BY <1>2, <3>1, <3>3 DEF DaemonOK, DaemonType, SameGate
    <3>4. CASE daemon' = daemon
      BY <1>2, <3>4 DEF DaemonOK, SameGate
    <3>5. QED
      BY <2>2, <3>2, <3>3, <3>4
  <2>4. RetiredIsIdle'
    BY <1>2, <2>1, <2>3 DEF RetiredIsIdle, Saving
  <2>5. QED
    BY <1>1, <2>1, <2>3, <2>4, DaemonStep
<1>12. CASE Cancel(i)
  <2> DEFINE b == IF Refreshed.by = i THEN Invalidated(Refreshed) ELSE Refreshed
  <2>1. UNCHANGED <<presence, review, view>>
    BY <1>12 DEF Cancel
  <2>2. CASE Up
    <3>1. Follow(daemon, b)
      BY <1>12, <2>2 DEF Cancel
    <3>2. Continues(b)
      BY <1>2, <1>3, InvalidatedContinues DEF Invalidated, Live
    <3> HIDE DEF b
    <3>3. QED
      BY <1>1, <2>1, <3>1, <3>2, FollowingStep
  <2>3. CASE ~Up
    BY <1>1, <1>12, <2>3, ActorStep DEF Cancel, serviceVars
  <2>4. QED
    BY <2>2, <2>3
<1>13. CASE GiveUp(i)
  BY <1>1, <1>13, ActorStep DEF GiveUp
<1>14. CASE Stop(i)
  BY <1>1, <1>14, ActorStep DEF Stop
<1>15. CASE Replace(i)
  BY <1>1, <1>15, ActorStep DEF Replace
<1>16. QED
  BY <1>5, <1>6, <1>7, <1>8, <1>9, <1>10, <1>11, <1>12, <1>13, <1>14, <1>15 DEF InstallerStep

-----------------------------------------------------------------------------
(* What the service still does for a call.                                 *)

(* A service that is idle has nobody on it.                                *)
LEMMA IdleIsEmpty ==
  ASSUME ServiceOK, Idle(daemon)
  PROVE  /\ presence.joined = {} /\ presence.pending = {} /\ ~presence.grace /\ ~presence.task
         /\ daemon.routes = {} /\ ~Saving
<1>1. presence \in PresenceType
  BY DEF ServiceOK
<1>2. Cardinality(presence.joined) \in Nat /\ Cardinality(presence.pending) \in Nat
  BY ActivityTyped
<1>3. /\ Cardinality(presence.joined) = 0 /\ Cardinality(presence.pending) = 0
      /\ ~presence.grace /\ ~presence.task /\ daemon.routes = {} /\ ~Saving
  BY <1>1, <1>2 DEF Idle, Occupied, ReviewPresence, PresenceType
<1>4. IsFiniteSet(presence.joined) /\ IsFiniteSet(presence.pending)
  BY <1>1, UpgradeAssumption, FS_Subset DEF PresenceType
<1>5. presence.joined = {} /\ presence.pending = {}
  BY <1>3, <1>4, FS_EmptySet
<1>6. QED
  BY <1>1, <1>3, <1>5 DEF PresenceType

LEMMA CallActors ==
  ASSUME Inv, NEW i \in Installers, CallStep(i)
  PROVE  ActorsOK'
<1> ActorsOK
  BY DEF Inv
<1> USE DEF ActorsOK
<1>1. CASE EndDrain(i)
  BY <1>1 DEF EndDrain, Refused, InstallerType
<1>2. CASE FailDrain(i)
  BY <1>2, GoTyped DEF FailDrain, Fault
<1>3. CASE RetireMetadata(i)
  BY <1>3, GoTyped DEF RetireMetadata, Answer
<1>4. CASE ClosePanels(i)
  BY <1>4, GoTyped DEF ClosePanels, Answer
<1>5. CASE RevokeTasks(i)
  BY <1>5, GoTyped DEF RevokeTasks, Answer
<1>6. QED
  BY <1>1, <1>2, <1>3, <1>4, <1>5 DEF CallStep

LEMMA CallKeeps ==
  ASSUME Inv, NEW i \in Installers, CallStep(i)
  PROVE  Inv'
<1>1. ActorsOK'
  BY CallActors
<1>2. ServiceOK /\ Gate(daemon, attempt) /\ RetiredIsIdle /\ DaemonOK(daemon)
  BY DEF Inv, ServiceOK
<1>3. /\ DaemonOK(Reaccepting(daemon)) /\ SameGate(Reaccepting(daemon), daemon)
      /\ SameHost(Reaccepting(daemon), daemon) /\ Reaccepting(daemon).routes = daemon.routes
  BY <1>2, ReacceptingKeeps
<1>4. CASE EndDrain(i)
  <2> DEFINE d == Drained(i, installer[i].prepares)
             committed == [daemon EXCEPT !.lifecycle = "shutdown-committed", !.drain = NoOne]
  <2>1. UNCHANGED <<attempt, presence, review, view>>
    BY <1>4 DEF EndDrain
  <2>2. daemon' = d \/ daemon' = [d EXCEPT !.host = "closing"]
    BY <1>4 DEF EndDrain
  <2>3. d \in {daemon, Reaccepting(daemon)} \/ (d = committed /\ Idle(daemon))
    BY DEF Drained
  <2>4. CASE d \in {daemon, Reaccepting(daemon)}
    <3>1. DaemonOK(d) /\ SameGate(d, daemon) /\ SameHost(d, daemon) /\ d.routes = daemon.routes
      BY <1>2, <1>3, <2>4 DEF SameGate, SameHost
    <3> HIDE DEF d
    <3>2. /\ DaemonOK(daemon') /\ SameGate(daemon', daemon) /\ daemon'.routes = daemon.routes
          /\ daemon'.lifecycle = d.lifecycle
      BY <2>2, <3>1 DEF DaemonOK, DaemonType, SameGate
    <3>3. RetiredIsIdle'
      BY <1>2, <2>1, <3>1, <3>2 DEF RetiredIsIdle, Saving, SameHost
    <3>4. QED
      BY <1>1, <2>1, <3>2, <3>3, DaemonStep
  <2>5. CASE d = committed /\ Idle(daemon)
    <3>1. DaemonOK(committed) /\ SameGate(committed, daemon) /\ committed.routes = daemon.routes
      BY <1>2 DEF DaemonOK, DaemonType, SameGate
    <3> HIDE DEF committed
    <3>2. DaemonOK(daemon') /\ SameGate(daemon', daemon) /\ daemon'.routes = daemon.routes
      BY <2>2, <2>5, <3>1 DEF DaemonOK, DaemonType, SameGate
    <3>3. RetiredIsIdle'
      BY <1>2, <2>1, <2>5, <3>2, IdleIsEmpty DEF RetiredIsIdle, Saving
    <3>4. QED
      BY <1>1, <2>1, <3>2, <3>3, DaemonStep
  <2>6. QED
    BY <2>3, <2>4, <2>5
<1>5. CASE FailDrain(i)
  <2>1. UNCHANGED <<attempt, presence, review, view>> /\ daemon' \in {daemon, Reaccepting(daemon)}
    BY <1>5 DEF FailDrain
  <2>2. /\ DaemonOK(daemon') /\ SameGate(daemon', daemon) /\ SameHost(daemon', daemon)
        /\ daemon'.routes = daemon.routes
    BY <1>2, <1>3, <2>1 DEF SameGate, SameHost
  <2>3. RetiredIsIdle'
    BY <1>2, <2>1, <2>2, QuietKeepsIdle
  <2>4. QED
    BY <1>1, <2>1, <2>2, <2>3, DaemonStep
<1>6. CASE RetireMetadata(i)
  <2>1. UNCHANGED <<daemon, presence, review, view>>
        /\ attempt' \in {attempt, [attempt EXCEPT !.retiring = TRUE]}
    BY <1>6 DEF RetireMetadata
  <2>2. attempt' \in AttemptType /\ attempt'.phase = attempt.phase
    BY <1>2, <2>1 DEF ServiceOK, AttemptType
  <2>3. QED
    BY <1>1, <1>2, <2>1, <2>2 DEF Inv, ServiceOK, DaemonOK, Linked, Gate, RetiredIsIdle, Saving
<1>7. CASE ClosePanels(i)
  <2>1. Continues(Changed(attempt, {Authority}))
    BY <1>2, ChangedContinues
  <2>2. QED
    BY <1>1, <1>7, <2>1, FollowingStep DEF ClosePanels
<1>8. CASE RevokeTasks(i)
  <2>1. /\ UNCHANGED <<daemon, attempt, view>>
        /\ presence' = [presence EXCEPT !.task = FALSE]
        /\ review' = [review EXCEPT !.authority = @ + 1]
    BY <1>8 DEF RevokeTasks
  <2>2. /\ presence' \in PresenceType /\ review' \in ReviewType /\ review'.sync = review.sync
        /\ presence'.joined = presence.joined /\ presence'.pending = presence.pending
    <3>1. presence \in PresenceType /\ review \in ReviewType
      BY <1>2 DEF ServiceOK
    <3>2. /\ presence' \in PresenceType
          /\ presence'.joined = presence.joined /\ presence'.pending = presence.pending
      BY <2>1, <3>1 DEF PresenceType
    <3>3. review' \in ReviewType /\ review'.sync = review.sync
      BY <2>1, <3>1 DEF ReviewType
    <3>4. QED
      BY <3>2, <3>3
  <2>3. RetiredIsIdle'
    <3>1. presence'.grace = presence.grace /\ presence'.task = FALSE
      BY <1>2, <2>1 DEF ServiceOK, PresenceType
    <3>2. QED
      BY <1>2, <2>1, <2>2, <3>1 DEF RetiredIsIdle, Saving
  <2>4. QED
    BY <1>1, <1>2, <2>1, <2>2, <2>3 DEF Inv, ServiceOK, DaemonOK, Linked, Gate
<1>9. QED
  BY <1>4, <1>5, <1>6, <1>7, <1>8 DEF CallStep

-----------------------------------------------------------------------------
(* The review, the timers and the settlements.                             *)

LEMMA StatusTyped ==
  ASSUME ServiceOK, NEW a \in AttemptType, NEW p
  PROVE  Status(a, p) \in [phase : Phases, by : Installers \cup {NoOne}, due : BOOLEAN]
BY DEF Status, AttemptType

LEMMA NoReplyTyped == NoReply \in [phase : Phases, by : Installers \cup {NoOne}, due : BOOLEAN]
BY DEF NoReply, Phases

(* What the end of a settle() makes of the service and of the views.       *)
LEMMA SettledKeeps ==
  ASSUME Inv, NEW p \in Participants, NEW saved \in BOOLEAN, SettledAs(p, saved), faults' \in Nat
  PROVE  Inv'
<1>1. ServiceOK /\ Gate(daemon, attempt) /\ RetiredIsIdle /\ DaemonOK(daemon) /\ ActorsOK
  BY DEF Inv, ServiceOK
<1> DEFINE d == Completed(daemon, <<"settle", p>>)
           a == IF saved THEN Acknowledged(attempt, p) ELSE Invalidated(attempt)
           answered == Settling(p) /\ (saved => Live(a))
<1>2. /\ settle' = [settle EXCEPT ![p] = NoOne]
      /\ IF Settling(p) THEN Follow(d, a) ELSE daemon' = d /\ UNCHANGED attempt
      /\ Finished(p, answered, a)
      /\ UNCHANGED <<presence, review, installer, call>>
  BY DEF SettledAs
<1>3. DaemonOK(d) /\ SameGate(d, daemon) /\ SameHost(d, daemon) /\ d.routes \subseteq daemon.routes
  BY <1>1, CompletedKeeps
<1>4. Settling(p) => Continues(a)
  BY <1>1, AcknowledgedContinues, InvalidatedContinues DEF Settling
<1> HIDE DEF d, a
<1>5. /\ DaemonOK(daemon') /\ SameHost(daemon', daemon) /\ daemon'.routes \subseteq daemon.routes
      /\ attempt' \in AttemptType /\ Gate(daemon', attempt')
  <2>1. CASE Settling(p)
    <3>1. /\ DaemonOK(Released(d, a)) /\ Gate(Released(d, a), a)
          /\ SameHost(Released(d, a), d) /\ Released(d, a).routes = d.routes
      BY <1>1, <1>3, <1>4, <2>1, FollowKeeps
    <3>2. QED
      BY <1>2, <1>3, <1>4, <2>1, <3>1 DEF Follow, SameHost, Continues
  <2>2. CASE ~Settling(p)
    BY <1>1, <1>2, <1>3, <2>2 DEF ServiceOK, Gate, SameGate
  <2>3. QED
    BY <2>1, <2>2
<1>6. RetiredIsIdle'
  BY <1>1, <1>2, <1>5, QuietKeepsIdle
<1>7. /\ view' \in [Views -> ViewType]
      /\ \A v \in Views : view'[v].at = view[v].at
  <2> DEFINE status == [phase : Phases, by : Installers \cup {NoOne}, due : BOOLEAN]
  <2>1. CASE p \in Views /\ view[p].step = "settling"
    <3> DEFINE step == IF answered THEN "settled" ELSE "idle"
               reply == IF answered THEN Status(a, p) ELSE NoReply
    <3>1. step \in Steps /\ reply \in status
      BY <1>1, <1>4, StatusTyped, NoReplyTyped DEF Steps, Continues
    <3>2. view' = [view EXCEPT ![p].step = step, ![p].reply = reply]
      BY <1>2, <2>1 DEF Finished
    <3> HIDE DEF step, reply
    <3>3. view[p] \in ViewType /\ view' = [view EXCEPT ![p] = [view[p] EXCEPT !.step = step, !.reply = reply]]
      BY <1>1, <2>1, <3>2 DEF ActorsOK
    <3>4. /\ [view[p] EXCEPT !.step = step, !.reply = reply] \in ViewType
          /\ [view[p] EXCEPT !.step = step, !.reply = reply].at = view[p].at
      BY <3>1, <3>3 DEF ViewType
    <3>5. QED
      BY <1>1, <2>1, <3>3, <3>4 DEF ActorsOK
  <2>2. CASE ~(p \in Views /\ view[p].step = "settling")
    BY <1>1, <1>2, <2>2 DEF Finished, ActorsOK
  <2>3. QED
    BY <2>1, <2>2
<1>8. ActorsOK'
  BY <1>1, <1>2, <1>7 DEF ActorsOK
<1>9. ServiceOK' /\ Linked'
  BY <1>1, <1>2, <1>5, <1>7 DEF Inv, ServiceOK, DaemonOK, Linked
<1>10. QED
  BY <1>5, <1>6, <1>8, <1>9 DEF Inv, Gate

LEMMA NewViewTyped ==
  ASSUME NEW place \in Places
  PROVE  NewView(place) \in ViewType /\ NewView(place).at = place
BY NoReplyTyped DEF NewView, ViewType, Steps

LEMMA SuccessorKeeps ==
  ASSUME Inv, Successor
  PROVE  Inv'
<1>1. ServiceOK /\ ActorsOK /\ Linked /\ Gate(daemon, attempt) /\ RetiredIsIdle
  BY DEF Inv
<1>2. UNCHANGED <<daemon, attempt, settle, installer, call, faults>>
  BY DEF Successor
<1>3. /\ presence' \in PresenceType /\ presence'.pending = {}
      /\ presence'.joined = presence.joined /\ presence'.grace = presence.grace
      /\ presence'.task => presence.task
  BY <1>1 DEF Successor, ServiceOK, PresenceType
<1>4. review' \in ReviewType /\ review'.sync = review.sync
  <2> DEFINE a == IF presence.task THEN review.authority + 1 ELSE review.authority
  <2>1. review \in ReviewType /\ presence \in PresenceType
    BY <1>1 DEF ServiceOK
  <2>2. a \in Nat
    BY <2>1 DEF ReviewType, PresenceType
  <2> DEFINE g == review.gen + 1
  <2>3. g \in Nat
    BY <2>1 DEF ReviewType
  <2>4. review' = [review EXCEPT !.gen = g, !.authority = a]
    BY Zenon DEF Successor
  <2> HIDE DEF a, g
  <2>5. QED
    BY <2>1, <2>2, <2>3, <2>4 DEF ReviewType
<1>5. ASSUME NEW v \in Views
      PROVE  /\ view'[v] \in ViewType
             /\ view'[v].at = (IF view[v].at = "opening" THEN "left" ELSE view[v].at)
  <2>1. view'[v] = IF view[v].at = "opening" THEN NewView("left") ELSE view[v]
    BY DEF Successor
  <2>2. NewView("left") \in ViewType /\ NewView("left").at = "left"
    BY NewViewTyped DEF Places
  <2>3. view[v] \in ViewType
    BY <1>1 DEF ActorsOK
  <2>4. QED
    BY <2>1, <2>2, <2>3
<1>6. view' \in [Views -> ViewType]
  <2>1. view' = [v \in Views |-> view'[v]]
    BY DEF Successor
  <2>2. QED
    BY <1>5, <2>1
<1>7. Linked'
  BY <1>1, <1>3, <1>5 DEF Linked
<1>8. RetiredIsIdle'
  BY <1>1, <1>2, <1>3, <1>4 DEF RetiredIsIdle, Saving
<1>9. QED
  BY <1>1, <1>2, <1>3, <1>4, <1>6, <1>7, <1>8 DEF Inv, ServiceOK, DaemonOK, ActorsOK, Gate

LEMMA ReviewKeeps ==
  ASSUME Inv, ReviewStep
  PROVE  Inv'
<1>1. ServiceOK /\ Gate(daemon, attempt) /\ RetiredIsIdle /\ DaemonOK(daemon) /\ ActorsOK /\ Linked
  BY DEF Inv, ServiceOK
<1>2. presence \in PresenceType /\ review \in ReviewType
  BY <1>1 DEF ServiceOK
<1>3. faults \in Nat
  BY <1>1 DEF ActorsOK
<1>4. CASE Expire
  BY <1>1, <1>4, InvalidatedContinues, FollowingStep DEF Expire, ActorsOK, actorVars
<1>5. CASE CloseHost
  <2>1. /\ attempt' = Invalidated(attempt) /\ UNCHANGED <<presence, review, actorVars, faults>>
        /\ daemon' = [Released(daemon, Invalidated(attempt)) EXCEPT !.host = "gone"]
    BY <1>5 DEF CloseHost
  <2>2. Continues(Invalidated(attempt)) /\ SameGate(daemon, daemon)
    BY <1>1, InvalidatedContinues DEF SameGate
  <2> DEFINE d == Released(daemon, Invalidated(attempt))
  <2>3. /\ DaemonOK(d) /\ Gate(d, Invalidated(attempt)) /\ SameHost(d, daemon) /\ d.routes = daemon.routes
    BY <1>1, <2>2, FollowKeeps
  <2> HIDE DEF d
  <2>4. /\ DaemonOK(daemon') /\ SameGate(daemon', d) /\ daemon'.routes = d.routes
        /\ daemon'.lifecycle = d.lifecycle
    BY <2>1, <2>3 DEF d, DaemonOK, DaemonType, SameGate
  <2>5. RetiredIsIdle'
    BY <1>1, <2>1, <2>3, <2>4 DEF RetiredIsIdle, SameHost, Saving
  <2>6. QED
    BY <1>1, <2>1, <2>2, <2>3, <2>4, <2>5
       DEF Inv, ServiceOK, DaemonOK, ActorsOK, actorVars, Linked, Gate, SameGate, Continues
<1>6. CASE SaveDone \/ SaveFails
  <2>1. UNCHANGED <<daemon, attempt, presence, actorVars>> /\ faults' \in Nat
    BY <1>3, <1>6 DEF SaveDone, SaveFails, Fault
  <2>2. review' \in ReviewType /\ (review'.sync = "saving" => review.sync = "saving")
    <3>1. CASE SaveDone
      BY <1>2, <3>1 DEF SaveDone, ReviewType
    <3>2. CASE SaveFails
      BY <1>2, <3>2 DEF SaveFails, ReviewType
    <3>3. QED
      BY <1>6, <3>1, <3>2
  <2>3. RetiredIsIdle'
    BY <1>1, <2>1, <2>2 DEF RetiredIsIdle, Saving
  <2>4. QED
    BY <1>1, <2>1, <2>2, <2>3 DEF Inv, ServiceOK, DaemonOK, ActorsOK, actorVars, Linked, Gate
<1>7. CASE BindTask \/ EndTask
  <2>1. /\ UNCHANGED <<attempt, actorVars, faults>>
        /\ \E t \in BOOLEAN : presence' = [presence EXCEPT !.task = t]
        /\ review' = [review EXCEPT !.authority = @ + 1]
    BY <1>7 DEF BindTask, EndTask
  <2>2. \/ daemon' = Entered(daemon) /\ daemon.lifecycle # "shutdown-committed"
        \/ UNCHANGED daemon /\ EndTask
    BY <1>7 DEF BindTask, EndTask, AdmissionAllowed, SettlementAllowed
  <2>3. /\ DaemonOK(daemon') /\ SameGate(daemon', daemon) /\ SameHost(daemon', daemon)
    BY <1>1, <2>2, EnteredKeeps DEF SameGate, SameHost
  <2>4. /\ presence' \in PresenceType
        /\ presence'.joined = presence.joined /\ presence'.pending = presence.pending
    BY <1>2, <2>1 DEF PresenceType
  <2>5. review' \in ReviewType
    BY <1>2, <2>1 DEF ReviewType
  <2>6. RetiredIsIdle'
    <3>1. CASE daemon' = Entered(daemon) /\ daemon.lifecycle # "shutdown-committed"
      BY <2>3, <3>1 DEF RetiredIsIdle, SameHost
    <3>2. CASE UNCHANGED daemon /\ EndTask
      <4>1. daemon.lifecycle # "shutdown-committed"
        BY <1>1, <3>2 DEF EndTask, RetiredIsIdle
      <4>2. QED
        BY <3>2, <4>1 DEF RetiredIsIdle
    <3>3. QED
      BY <2>2, <3>1, <3>2
  <2>7. QED
    BY <1>1, <2>1, <2>3, <2>4, <2>5, <2>6
       DEF Inv, ServiceOK, DaemonOK, ActorsOK, actorVars, Linked, Gate, SameGate
<1>8. CASE ExpireGrace
  <2>1. /\ UNCHANGED <<daemon, attempt, review, actorVars, faults>>
        /\ presence' = [presence EXCEPT !.grace = FALSE]
    BY <1>8 DEF ExpireGrace
  <2>2. /\ presence' \in PresenceType /\ presence'.grace = FALSE /\ presence'.task = presence.task
        /\ presence'.joined = presence.joined /\ presence'.pending = presence.pending
    BY <1>2, <2>1 DEF PresenceType
  <2>3. RetiredIsIdle'
    BY <1>1, <2>1, <2>2 DEF RetiredIsIdle, Saving
  <2>4. QED
    BY <1>1, <2>1, <2>2, <2>3 DEF Inv, ServiceOK, DaemonOK, ActorsOK, actorVars, Linked, Gate
<1>9. CASE \E p \in Participants : EndSettle(p) \/ FailSettle(p)
  <2>1. PICK p \in Participants : EndSettle(p) \/ FailSettle(p)
    BY <1>9
  <2>2. \E saved \in BOOLEAN : SettledAs(p, saved)
    <3> DEFINE saved == p = Authority \/ review.sync # "failed"
    <3>1. SettledAs(p, saved) \/ SettledAs(p, FALSE)
      BY <2>1 DEF EndSettle, FailSettle
    <3>2. saved \in BOOLEAN
      OBVIOUS
    <3> HIDE DEF saved
    <3>3. QED
      BY <3>1, <3>2
  <2>3. faults' \in Nat
    <3>1. faults' = faults \/ faults' = faults + 1
      BY <2>1, Zenon DEF EndSettle, FailSettle, Fault
    <3>2. QED
      BY <1>3, <3>1
  <2>4. QED
    BY <2>2, <2>3, SettledKeeps
<1>10. QED
  BY <1>4, <1>5, <1>6, <1>7, <1>8, <1>9, SuccessorKeeps DEF ReviewStep

-----------------------------------------------------------------------------
(* The views.                                                              *)

ReplyType == [phase : Phases, by : Installers \cup {NoOne}, due : BOOLEAN]

(* A view steps to w: no other view changes.                               *)
Becomes(v, w) == view' = [view EXCEPT ![v] = w]

(* A step of a view that stays where it is.                                *)
LEMMA ViewStays ==
  ASSUME ActorsOK, Linked, NEW v \in Views, NEW w \in ViewType, w.at = view[v].at, Becomes(v, w),
         presence'.joined = presence.joined, presence'.pending = presence.pending
  PROVE  view' \in [Views -> ViewType] /\ Linked'
BY DEF ActorsOK, Linked, Becomes

(* What Unregistered(v) makes of the service, for a view that is joined.   *)
LEMMA UnregisteredKeeps ==
  ASSUME Inv, NEW v \in presence.joined, Unregistered(v)
  PROVE  /\ ServiceOK' /\ Gate(daemon', attempt') /\ RetiredIsIdle'
         /\ settle' \in [Participants -> Installers \cup {NoOne, Stale}]
         /\ presence'.joined = presence.joined \ {v} /\ presence'.pending = presence.pending
<1>1. ServiceOK /\ Gate(daemon, attempt) /\ RetiredIsIdle /\ DaemonOK(daemon) /\ ActorsOK
  BY DEF Inv, ServiceOK
<1>2. presence \in PresenceType /\ attempt \in AttemptType
  BY <1>1 DEF ServiceOK
<1>3. /\ Follow(daemon, Detached(attempt)) /\ UNCHANGED review
      /\ presence' = [presence EXCEPT !.joined = @ \ {v}, !.grace = @ \/ presence.joined = {v}]
      /\ settle' = [settle EXCEPT ![v] = IF @ = NoOne THEN NoOne ELSE Stale]
  BY DEF Unregistered
<1>4. Continues(Detached(attempt)) /\ SameGate(daemon, daemon)
  BY <1>1, <1>2, InvalidatedContinues DEF Detached, Continues, SameGate
<1>5. /\ DaemonOK(daemon') /\ Gate(daemon', attempt') /\ SameHost(daemon', daemon)
      /\ attempt' \in AttemptType
  BY <1>1, <1>3, <1>4, FollowKeeps DEF Follow, Continues
<1>6. /\ presence' \in PresenceType
      /\ presence'.joined = presence.joined \ {v} /\ presence'.pending = presence.pending
  BY <1>2, <1>3 DEF PresenceType
<1>7. RetiredIsIdle'
  BY <1>1, <1>5 DEF RetiredIsIdle, SameHost
<1>8. settle' \in [Participants -> Installers \cup {NoOne, Stale}]
  BY <1>1, <1>3 DEF ActorsOK
<1>9. QED
  BY <1>1, <1>3, <1>5, <1>6, <1>7, <1>8 DEF ServiceOK, DaemonOK

LEMMA ConnectionKeeps ==
  ASSUME Inv, NEW v \in Views,
         \/ Open(v) \/ ExpireBootstrap(v) \/ Exchange(v) \/ Connect(v) \/ Disconnect(v) \/ NoticeClosed(v)
  PROVE  Inv'
<1>1. ServiceOK /\ Gate(daemon, attempt) /\ RetiredIsIdle /\ DaemonOK(daemon) /\ ActorsOK /\ Linked
  BY DEF Inv, ServiceOK
<1>2. presence \in PresenceType /\ attempt \in AttemptType
  BY <1>1 DEF ServiceOK
<1>3. view \in [Views -> ViewType] /\ view[v] \in ViewType /\ faults \in Nat
  BY <1>1 DEF ActorsOK
<1>4. \A place \in Places : [view[v] EXCEPT !.at = place] \in ViewType
                             /\ [view[v] EXCEPT !.at = place].at = place
  BY <1>3 DEF ViewType
<1>5. CASE Open(v) \/ Exchange(v)
  <2>1. /\ UNCHANGED <<attempt, review, settle, installer, call, faults>>
        /\ daemon' = Entered(daemon) /\ daemon.lifecycle # "shutdown-committed"
    BY <1>5 DEF Open, Exchange, AdmissionAllowed
  <2>2. DaemonOK(daemon') /\ SameGate(daemon', daemon) /\ SameHost(daemon', daemon)
    BY <1>1, <2>1, EnteredKeeps
  <2>3. presence' \in PresenceType /\ view' \in [Views -> ViewType] /\ Linked'
    <3>1. CASE Open(v)
      <4>1. /\ presence' = [presence EXCEPT !.pending = @ \cup {v}] /\ view[v].at = "absent"
            /\ view' = [view EXCEPT ![v].at = "opening"]
        BY <3>1 DEF Open
      <4>2. /\ presence' \in PresenceType /\ presence'.joined = presence.joined
            /\ presence'.pending = presence.pending \cup {v}
        BY <1>2, <4>1 DEF PresenceType
      <4>3. Becomes(v, [view[v] EXCEPT !.at = "opening"])
        BY <1>3, <4>1 DEF Becomes
      <4>4. QED
        BY <1>1, <1>3, <1>4, <4>1, <4>2, <4>3 DEF Becomes, Linked, Places
    <3>2. CASE Exchange(v)
      <4>1. /\ presence' = [presence EXCEPT !.pending = @ \ {v}, !.grace = @ \/ presence.joined = {}]
            /\ view' = [view EXCEPT ![v].at = "page"] /\ view[v].at = "opening"
        BY <3>2 DEF Exchange
      <4>2. /\ presence' \in PresenceType /\ presence'.joined = presence.joined
            /\ presence'.pending = presence.pending \ {v}
        BY <1>2, <4>1 DEF PresenceType
      <4>3. Becomes(v, [view[v] EXCEPT !.at = "page"])
        BY <1>3, <4>1 DEF Becomes
      <4>4. QED
        BY <1>1, <1>3, <1>4, <4>1, <4>2, <4>3 DEF Becomes, Linked, Places
    <3>3. QED
      BY <1>5, <3>1, <3>2
  <2>4. RetiredIsIdle'
    BY <2>1, <2>2 DEF RetiredIsIdle, SameHost
  <2>5. QED
    BY <1>1, <2>1, <2>2, <2>3, <2>4 DEF Inv, ServiceOK, DaemonOK, ActorsOK, Gate, SameGate
<1>6. CASE ExpireBootstrap(v)
  <2>1. /\ UNCHANGED <<daemon, attempt, review, settle, installer, call, faults>>
        /\ presence' = [presence EXCEPT !.pending = @ \ {v}] /\ v \in presence.pending
        /\ Becomes(v, NewView("left"))
    BY <1>6 DEF ExpireBootstrap, Becomes
  <2>2. /\ presence' \in PresenceType /\ presence'.joined = presence.joined
        /\ presence'.pending = presence.pending \ {v}
    BY <1>2, <2>1 DEF PresenceType
  <2>3. view[v].at = "opening"
    BY <1>1, <2>1 DEF Linked
  <2>4. view' \in [Views -> ViewType] /\ Linked'
    BY <1>1, <1>3, <2>1, <2>2, <2>3, NewViewTyped DEF Becomes, Linked, Places
  <2>5. RetiredIsIdle'
    BY <1>1, <2>1 DEF RetiredIsIdle
  <2>6. QED
    BY <1>1, <2>1, <2>2, <2>4, <2>5 DEF Inv, ServiceOK, DaemonOK, ActorsOK, Gate
<1>7. CASE Connect(v)
  <2>1. /\ UNCHANGED <<review, settle, installer, call, faults>>
        /\ Follow(Entered(daemon), Joined(attempt)) /\ daemon.lifecycle # "shutdown-committed"
        /\ presence' = [presence EXCEPT !.joined = @ \cup {v}, !.grace = FALSE]
        /\ view' = [view EXCEPT ![v].at = "open"] /\ view[v].at = "page"
    BY <1>7 DEF Connect, SettlementAllowed
  <2>2. /\ DaemonOK(Entered(daemon)) /\ SameGate(Entered(daemon), daemon)
        /\ SameHost(Entered(daemon), daemon)
    BY <1>1, EnteredKeeps
  <2>3. Continues(Joined(attempt))
    BY <1>1, InvalidatedContinues DEF Joined
  <2>4. /\ DaemonOK(daemon') /\ Gate(daemon', attempt') /\ SameHost(daemon', daemon)
        /\ attempt' \in AttemptType
    BY <1>1, <2>1, <2>2, <2>3, FollowKeeps DEF Follow, Continues, SameHost
  <2>5. /\ presence' \in PresenceType /\ presence'.joined = presence.joined \cup {v}
        /\ presence'.pending = presence.pending
    BY <1>2, <2>1 DEF PresenceType
  <2>6. Becomes(v, [view[v] EXCEPT !.at = "open"])
    BY <1>3, <2>1 DEF Becomes
  <2>7. view' \in [Views -> ViewType] /\ Linked'
    BY <1>1, <1>3, <1>4, <2>1, <2>5, <2>6 DEF Becomes, Linked, Places
  <2>8. RetiredIsIdle'
    BY <2>1, <2>4 DEF RetiredIsIdle, SameHost
  <2>9. QED
    BY <1>1, <2>1, <2>4, <2>5, <2>7, <2>8 DEF Inv, ServiceOK, DaemonOK, ActorsOK, Gate
<1>8. CASE Disconnect(v) \/ NoticeClosed(v)
  <2>1. /\ Unregistered(v) /\ view[v].at \in {"open", "closing"} /\ UNCHANGED <<installer, call>>
    BY <1>8 DEF Disconnect, NoticeClosed, Unregistered
  <2>2. faults' \in Nat
    BY <1>3, <1>8 DEF Disconnect, NoticeClosed, Fault
  <2>3. v \in presence.joined
    BY <1>1, <2>1 DEF Linked
  <2>4. \E w \in ViewType : Becomes(v, w) /\ w.at \in {"page", "left", "closed"}
    BY <1>3, <1>4, <1>8, NewViewTyped DEF Disconnect, NoticeClosed, Becomes, Places
  <2>5. /\ ServiceOK' /\ Gate(daemon', attempt') /\ RetiredIsIdle'
        /\ settle' \in [Participants -> Installers \cup {NoOne, Stale}]
        /\ presence'.joined = presence.joined \ {v} /\ presence'.pending = presence.pending
    BY <2>1, <2>3, UnregisteredKeeps
  <2>6. view' \in [Views -> ViewType] /\ Linked'
    BY <1>1, <1>3, <2>1, <2>4, <2>5 DEF Becomes, Linked
  <2>7. QED
    BY <1>1, <2>1, <2>2, <2>5, <2>6 DEF Inv, ActorsOK, Gate
<1>9. QED
  BY <1>5, <1>6, <1>7, <1>8

(* Whether a place counts as joined, as a pending launch, or as neither.   *)
SameLink(p, q) ==
  /\ p \in {"open", "closing"} <=> q \in {"open", "closing"}
  /\ p = "opening" <=> q = "opening"

LEMMA ViewConcludes ==
  ASSUME Inv, NEW v \in Views, NEW w \in ViewType, SameLink(w.at, view[v].at), Becomes(v, w),
         UNCHANGED <<presence, installer, call>>, ServiceOK', Gate(daemon', attempt'), RetiredIsIdle',
         settle' \in [Participants -> Installers \cup {NoOne, Stale}], faults' \in Nat
  PROVE  Inv'
<1>1. ActorsOK /\ Linked
  BY DEF Inv
<1>2. ActorsOK'
  BY <1>1 DEF ActorsOK, Becomes
<1>3. \A u \in Views : SameLink(view'[u].at, view[u].at)
  BY <1>1 DEF ActorsOK, Becomes, SameLink
<1>4. Linked'
  BY <1>1, <1>3 DEF Linked, SameLink
<1>5. QED
  BY <1>2, <1>4 DEF Inv, Gate

(* A step of a view that leaves the service alone.                         *)
LEMMA ViewAlone ==
  ASSUME Inv, NEW v \in Views, NEW w \in ViewType, SameLink(w.at, view[v].at), Becomes(v, w),
         UNCHANGED <<serviceVars, settle, installer, call>>, faults' \in Nat
  PROVE  Inv'
<1>1. ServiceOK' /\ Gate(daemon', attempt') /\ RetiredIsIdle'
  BY DEF Inv, serviceVars, ServiceOK, DaemonOK, Gate, RetiredIsIdle, Saving
<1>2. settle' \in [Participants -> Installers \cup {NoOne, Stale}]
  BY DEF Inv, ActorsOK
<1>3. UNCHANGED presence
  BY DEF serviceVars
<1>4. QED
  BY <1>1, <1>2, <1>3, ViewConcludes

LEMMA AdmitsKeeps ==
  ASSUME Inv, NEW v \in Views, NEW route \in {"input", "choose"}, Admits(v, route)
  PROVE  /\ DaemonOK(daemon') /\ Gate(daemon', attempt') /\ attempt' \in AttemptType
         /\ daemon'.lifecycle # "shutdown-committed"
<1>1. ServiceOK /\ Gate(daemon, attempt) /\ DaemonOK(daemon) /\ attempt \in AttemptType
  BY DEF Inv, ServiceOK
<1> DEFINE d == IF Writes(v) THEN Leased(daemon, <<route, v>>) ELSE Entered(daemon)
<1>2. Follow(d, Polled(v)) /\ daemon.lifecycle # "shutdown-committed"
  BY DEF Admits, SettlementAllowed
<1>3. <<route, v>> \in Routes
  BY DEF Routes
<1>4. DaemonOK(d) /\ SameGate(d, daemon) /\ SameHost(d, daemon)
  BY <1>1, <1>3, LeasedKeeps, EnteredKeeps
<1>5. Continues(Polled(v))
  BY <1>1, ChangedContinues DEF Polled, Continues
<1> HIDE DEF d
<1>6. QED
  BY <1>1, <1>2, <1>4, <1>5, FollowKeeps DEF Follow, Continues, SameHost

LEMMA UnsentTyped ==
  ASSUME NEW w \in ViewType
  PROVE  Unsent(w) \in ViewType /\ Unsent(w).at = w.at
<1> DEFINE failed == w.failed \/ w.step = "protecting"
           step == IF w.step = "protecting" THEN "settle" ELSE w.step
<1>1. failed \in BOOLEAN /\ step \in Steps
  BY DEF ViewType, Steps
<1>2. Unsent(w) = [w EXCEPT !.sending = FALSE, !.failed = failed, !.step = step]
  BY DEF Unsent, ViewType
<1> HIDE DEF failed, step
<1>. QED
  BY <1>1, <1>2 DEF ViewType

LEMMA InputKeeps ==
  ASSUME Inv, NEW v \in Views,
         \/ Type(v) \/ Submit(v) \/ (\E edit \in BOOLEAN : Land(v, edit)) \/ Refuse(v)
         \/ Choose(v) \/ ChoiceLands(v)
  PROVE  Inv'
<1>1. /\ ServiceOK /\ Gate(daemon, attempt) /\ RetiredIsIdle /\ DaemonOK(daemon) /\ ActorsOK /\ Linked
      /\ presence \in PresenceType /\ attempt \in AttemptType /\ review \in ReviewType
  BY DEF Inv, ServiceOK
<1>2. /\ view \in [Views -> ViewType] /\ view[v] \in ViewType /\ faults \in Nat
      /\ settle \in [Participants -> Installers \cup {NoOne, Stale}]
  BY <1>1 DEF ActorsOK
<1>3. Unsent(view[v]) \in ViewType /\ Unsent(view[v]).at = view[v].at
  BY <1>2, UnsentTyped
<1>4. CASE Type(v)
  <2> DEFINE w == [view[v] EXCEPT !.typed = TRUE]
  <2>1. w \in ViewType /\ SameLink(w.at, view[v].at) /\ Becomes(v, w)
    BY <1>2, <1>4 DEF Type, ViewType, SameLink, Becomes
  <2>2. UNCHANGED <<serviceVars, settle, installer, call, faults>>
    BY <1>4 DEF Type
  <2> HIDE DEF w
  <2>3. QED
    BY <1>2, <2>1, <2>2, ViewAlone
<1>5. CASE Submit(v)
  <2> DEFINE w == IF Writes(v) THEN [view[v] EXCEPT !.sending = TRUE] ELSE Unsent(view[v])
  <2>1. /\ Admits(v, "input") /\ Becomes(v, w)
        /\ UNCHANGED <<presence, review, settle, installer, call, faults>>
    BY <1>2, <1>5 DEF Submit, Becomes
  <2>2. w \in ViewType /\ SameLink(w.at, view[v].at)
    <3>1. [view[v] EXCEPT !.sending = TRUE] \in ViewType
          /\ [view[v] EXCEPT !.sending = TRUE].at = view[v].at
      BY <1>2 DEF ViewType
    <3>2. QED
      BY <1>3, <3>1 DEF SameLink
  <2>3. /\ DaemonOK(daemon') /\ Gate(daemon', attempt') /\ attempt' \in AttemptType
        /\ daemon'.lifecycle # "shutdown-committed"
    BY <2>1, AdmitsKeeps
  <2>4. ServiceOK' /\ RetiredIsIdle'
    BY <1>1, <2>1, <2>3 DEF ServiceOK, DaemonOK, RetiredIsIdle
  <2> HIDE DEF w
  <2>5. QED
    BY <1>2, <2>1, <2>2, <2>3, <2>4, ViewConcludes
<1>6. CASE \E edit \in BOOLEAN : Land(v, edit)
  <2>1. PICK edit \in BOOLEAN : Land(v, edit)
    BY <1>6
  <2> DEFINE w == [view[v] EXCEPT !.typed = @ /\ ~view[v].sending, !.sending = FALSE]
  <2>2. /\ daemon' = Completed(daemon, <<"input", v>>) /\ <<"input", v>> \in daemon.routes
        /\ view' = [view EXCEPT ![v].typed = @ /\ ~view[v].sending, ![v].sending = FALSE]
        /\ UNCHANGED <<attempt, presence, settle, installer, call, faults>>
        /\ review' = [review EXCEPT !.rev = @ + 1,
                                   !.sync = IF edit THEN "saving" ELSE @,
                                   !.unsaved = @ \/ edit]
    BY <2>1 DEF Land
  <2>3. Becomes(v, w)
    BY <1>2, <2>2 DEF Becomes
  <2>4. w \in ViewType /\ SameLink(w.at, view[v].at)
    BY <1>2 DEF ViewType, SameLink
  <2>5. review' \in ReviewType
    <3> DEFINE sync == IF edit THEN "saving" ELSE review.sync
               unsaved == review.unsaved \/ edit
    <3>1. sync \in {"clean", "saving", "failed"} /\ unsaved \in BOOLEAN
      BY <1>1 DEF ReviewType
    <3>2. review' = [review EXCEPT !.rev = @ + 1, !.sync = sync, !.unsaved = unsaved]
      BY <2>2
    <3>3. ASSUME NEW n \in Nat, NEW x \in {"clean", "saving", "failed"}, NEW u \in BOOLEAN
          PROVE  [review EXCEPT !.rev = n, !.sync = x, !.unsaved = u] \in ReviewType
      BY <1>1 DEF ReviewType
    <3>4. review.rev + 1 \in Nat
      BY <1>1 DEF ReviewType
    <3> HIDE DEF sync, unsaved
    <3>5. QED
      BY <3>1, <3>2, <3>3, <3>4
  <2>6. DaemonOK(daemon') /\ SameGate(daemon', daemon) /\ SameHost(daemon', daemon)
    BY <1>1, <2>2, CompletedKeeps
  <2>7. RetiredIsIdle'
    BY <1>1, <2>2, <2>6 DEF RetiredIsIdle, SameHost
  <2>8. ServiceOK' /\ Gate(daemon', attempt')
    BY <1>1, <2>2, <2>5, <2>6 DEF ServiceOK, DaemonOK, Gate, SameGate
  <2> HIDE DEF w
  <2>9. QED
    BY <1>2, <2>2, <2>3, <2>4, <2>7, <2>8, ViewConcludes
<1>7. CASE Refuse(v)
  <2> DEFINE w == IF view[v].sending THEN Unsent(view[v]) ELSE view[v]
  <2>1. /\ daemon' = Completed(daemon, <<"input", v>>) /\ Becomes(v, w)
        /\ UNCHANGED <<attempt, presence, review, settle, installer, call, faults>>
    BY <1>2, <1>7 DEF Refuse, Becomes
  <2>2. w \in ViewType /\ SameLink(w.at, view[v].at)
    BY <1>2, <1>3 DEF SameLink
  <2>3. /\ DaemonOK(daemon') /\ SameGate(daemon', daemon) /\ SameHost(daemon', daemon)
        /\ daemon'.routes \subseteq daemon.routes
    BY <1>1, <2>1, CompletedKeeps
  <2>4. RetiredIsIdle'
    BY <1>1, <2>1, <2>3, QuietKeepsIdle
  <2>5. ServiceOK' /\ Gate(daemon', attempt')
    BY <1>1, <2>1, <2>3 DEF ServiceOK, DaemonOK, Gate, SameGate
  <2> HIDE DEF w
  <2>6. QED
    BY <1>2, <2>1, <2>2, <2>4, <2>5, ViewConcludes
<1>8. CASE Choose(v)
  <2>1. /\ Admits(v, "choose") /\ UNCHANGED <<presence, actorVars, faults>>
        /\ review' = [review EXCEPT !.choices = @ + 1]
    BY <1>8 DEF Choose
  <2>2. /\ DaemonOK(daemon') /\ Gate(daemon', attempt') /\ attempt' \in AttemptType
        /\ daemon'.lifecycle # "shutdown-committed"
    BY <2>1, AdmitsKeeps
  <2>3. review' \in ReviewType
    BY <1>1, <2>1 DEF ReviewType
  <2>4. QED
    BY <1>1, <2>1, <2>2, <2>3
       DEF Inv, ServiceOK, DaemonOK, ActorsOK, actorVars, Linked, Gate, RetiredIsIdle
<1>9. CASE ChoiceLands(v)
  <2>1. /\ daemon' = Completed(daemon, <<"choose", v>>) /\ <<"choose", v>> \in daemon.routes
        /\ UNCHANGED <<attempt, presence, actorVars, faults>>
        /\ review' = [review EXCEPT !.sync = "saving"]
    BY <1>9 DEF ChoiceLands
  <2>2. DaemonOK(daemon') /\ SameGate(daemon', daemon) /\ SameHost(daemon', daemon)
    BY <1>1, <2>1, CompletedKeeps
  <2>3. review' \in ReviewType
    BY <1>1, <2>1 DEF ReviewType
  <2>4. RetiredIsIdle'
    BY <1>1, <2>1, <2>2 DEF RetiredIsIdle, SameHost
  <2>5. QED
    BY <1>1, <2>1, <2>2, <2>3, <2>4
       DEF Inv, ServiceOK, DaemonOK, ActorsOK, actorVars, Linked, Gate, SameGate
<1>10. QED
  BY <1>4, <1>5, <1>6, <1>7, <1>8, <1>9

LEMMA FollowedTyped ==
  ASSUME NEW w \in ViewType, w.at \in {"open", "page"}
  PROVE  /\ [Followed(w) EXCEPT !.reply = NoReply] \in ViewType
         /\ SameLink([Followed(w) EXCEPT !.reply = NoReply].at, w.at)
<1>1. w.reply.by \in Installers \cup {NoOne}
  BY DEF ViewType
<1>2. CASE Protects(w)
  <2>1. /\ w.reply.phase \notin {"none", "preview", "canceled"}
        /\ ~(w.reply.phase = "committed" /\ w.reply.by = w.attempt)
    BY <1>2 DEF Protects
  <2>2. Followed(w) =
          [w EXCEPT !.attempt = w.reply.by, !.frozen = TRUE, !.failed = FALSE,
                    !.step = IF w.protected = w.reply.by THEN "settle" ELSE "protecting"]
    BY <1>2, <2>1, Zenon DEF Followed
  <2>3. (IF w.protected = w.reply.by THEN "settle" ELSE "protecting") \in Steps
    BY DEF Steps
  <2>4. PICK s \in Steps :
          Followed(w) = [w EXCEPT !.attempt = w.reply.by, !.frozen = TRUE, !.failed = FALSE, !.step = s]
    BY <2>2, <2>3, Zenon
  <2> DEFINE by == w.reply.by
  <2>5. by \in Installers \cup {NoOne}
    BY <1>1
  <2>6. Followed(w) = [w EXCEPT !.attempt = by, !.frozen = TRUE, !.failed = FALSE, !.step = s]
    BY <2>4
  <2> HIDE DEF by
  <2> DEFINE u == [w EXCEPT !.attempt = by, !.frozen = TRUE]
  <2>7. Followed(w) \in ViewType /\ Followed(w).at = w.at
    <3>1. u \in ViewType /\ u.at = w.at
      BY <2>5 DEF ViewType
    <3> DEFINE t == [u EXCEPT !.failed = FALSE]
    <3>2. Followed(w) = [t EXCEPT !.step = s]
      BY <2>6 DEF ViewType
    <3> HIDE DEF u
    <3>3. t \in ViewType /\ t.at = w.at
      BY <3>1 DEF ViewType
    <3> HIDE DEF t
    <3>4. s \in Steps
      OBVIOUS
    <3> QED
      BY <3>2, <3>3, <3>4 DEF ViewType
  <2>8. QED
    BY <2>7, NoReplyTyped DEF ViewType, SameLink
<1>3. CASE ~Protects(w) /\ w.reply.phase \in {"none", "preview", "canceled"}
  <2>1. Followed(w) =
          [w EXCEPT !.attempt = NoOne, !.protected = NoOne, !.frozen = FALSE, !.step = "idle"]
    BY <1>3, Zenon DEF Followed
  <2>2. "idle" \in Steps
    BY DEF Steps
  <2> DEFINE u == [w EXCEPT !.attempt = NoOne, !.protected = NoOne]
  <2>3. Followed(w) \in ViewType /\ Followed(w).at = w.at
    <3>1. u \in ViewType /\ u.at = w.at
      BY DEF ViewType
    <3> DEFINE t == [u EXCEPT !.frozen = FALSE]
    <3>2. Followed(w) = [t EXCEPT !.step = "idle"]
      BY <2>1 DEF ViewType
    <3> HIDE DEF u
    <3>3. t \in ViewType /\ t.at = w.at
      BY <3>1 DEF ViewType
    <3> HIDE DEF t
    <3> QED
      BY <2>2, <3>2, <3>3 DEF ViewType
  <2>4. QED
    BY <2>3, NoReplyTyped DEF ViewType, SameLink
<1>4. CASE /\ ~Protects(w) /\ w.reply.phase \notin {"none", "preview", "canceled"}
           /\ w.reply.phase = "committed" /\ w.reply.by = w.attempt
  <2> DEFINE at == IF w.at = "open" THEN "closing" ELSE "closed"
  <2>1. at \in Places /\ SameLink(at, w.at)
    BY DEF Places, SameLink
  <2>2. Followed(w) = [w EXCEPT !.at = at, !.step = "idle"]
    BY <1>4, Zenon DEF Followed
  <2> HIDE DEF at
  <2>3. "idle" \in Steps
    BY DEF Steps
  <2> DEFINE u == [w EXCEPT !.at = at]
  <2>4. Followed(w) \in ViewType /\ Followed(w).at = at
    <3>1. u \in ViewType /\ u.at = at
      BY <2>1 DEF ViewType
    <3>2. Followed(w) = [u EXCEPT !.step = "idle"]
      BY <2>2 DEF ViewType
    <3> HIDE DEF u
    <3> QED
      BY <2>3, <3>1, <3>2 DEF ViewType
  <2>5. QED
    BY <2>1, <2>4, NoReplyTyped DEF ViewType
<1>5. CASE /\ ~Protects(w) /\ w.reply.phase \notin {"none", "preview", "canceled"}
           /\ ~(w.reply.phase = "committed" /\ w.reply.by = w.attempt)
  <2>1. Followed(w) = [w EXCEPT !.step = "idle"]
    BY <1>5, Zenon DEF Followed
  <2>2. QED
    BY <2>1, NoReplyTyped DEF ViewType, SameLink, Steps
<1>6. QED
  BY <1>2, <1>3, <1>4, <1>5

LEMMA TickKeeps ==
  ASSUME Inv, NEW v \in Views,
         \/ Poll(v) \/ Receive(v) \/ LoseReply(v) \/ ProtectDone(v) \/ ProtectFails(v) \/ StartSettle(v)
  PROVE  Inv'
<1>1. /\ ServiceOK /\ Gate(daemon, attempt) /\ RetiredIsIdle /\ DaemonOK(daemon) /\ ActorsOK
      /\ attempt \in AttemptType
  BY DEF Inv, ServiceOK
<1>2. /\ view \in [Views -> ViewType] /\ view[v] \in ViewType /\ faults \in Nat
      /\ settle \in [Participants -> Installers \cup {NoOne, Stale}]
      /\ view[v].attempt \in Installers \cup {NoOne}
  BY <1>1 DEF ActorsOK, ViewType
<1>3. \A step \in Steps, reply \in ReplyType :
        /\ [view[v] EXCEPT !.step = step, !.reply = reply] \in ViewType
        /\ SameLink([view[v] EXCEPT !.step = step, !.reply = reply].at, view[v].at)
        /\ [view[v] EXCEPT !.step = step] \in ViewType
        /\ SameLink([view[v] EXCEPT !.step = step].at, view[v].at)
  BY <1>2 DEF ViewType, ReplyType, SameLink
<1>4. {"idle", "polled", "settle", "settling", "settled"} \subseteq Steps /\ NoReply \in ReplyType
  BY NoReplyTyped DEF Steps, ReplyType
<1>5. CASE Poll(v)
  <2> DEFINE a == Polled(v)
             w == [view[v] EXCEPT !.step = "polled", !.reply = Status(a, v)]
  <2>1. /\ Follow(Entered(daemon), a) /\ daemon.lifecycle # "shutdown-committed"
        /\ view' = [view EXCEPT ![v].step = "polled", ![v].reply = Status(a, v)]
        /\ UNCHANGED <<presence, review, settle, installer, call, faults>>
    BY <1>5 DEF Poll, SettlementAllowed
  <2>2. Continues(a)
    BY <1>1, ChangedContinues DEF Polled, Continues
  <2>3. Status(a, v) \in ReplyType
    BY <1>1, <2>2, StatusTyped DEF Continues, ReplyType
  <2>4. /\ DaemonOK(Entered(daemon)) /\ SameGate(Entered(daemon), daemon)
        /\ SameHost(Entered(daemon), daemon)
    BY <1>1, EnteredKeeps
  <2> HIDE DEF a
  <2>5. /\ DaemonOK(daemon') /\ Gate(daemon', attempt') /\ attempt' \in AttemptType
        /\ daemon'.lifecycle # "shutdown-committed"
    BY <1>1, <2>1, <2>2, <2>4, FollowKeeps DEF Follow, Continues, SameHost
  <2>6. ServiceOK' /\ RetiredIsIdle'
    BY <1>1, <2>1, <2>5 DEF ServiceOK, DaemonOK, RetiredIsIdle
  <2>7. w \in ViewType /\ SameLink(w.at, view[v].at) /\ Becomes(v, w)
    BY <1>2, <1>3, <1>4, <2>1, <2>3 DEF Becomes
  <2> HIDE DEF w
  <2>8. QED
    BY <1>2, <2>1, <2>5, <2>6, <2>7, ViewConcludes
<1>6. CASE Receive(v)
  <2> DEFINE w == [Followed(view[v]) EXCEPT !.reply = NoReply]
  <2>1. /\ Becomes(v, w) /\ view[v].at \in {"open", "page"}
        /\ UNCHANGED <<serviceVars, settle, installer, call, faults>>
    BY <1>6 DEF Receive, Here, Becomes
  <2>2. w \in ViewType /\ SameLink(w.at, view[v].at)
    BY <1>2, <2>1, FollowedTyped
  <2> HIDE DEF w
  <2>3. QED
    BY <1>2, <2>1, <2>2, ViewAlone
<1>7. CASE LoseReply(v)
  <2> DEFINE w == [view[v] EXCEPT !.step = "idle", !.reply = NoReply]
  <2>1. /\ Becomes(v, w) /\ UNCHANGED <<serviceVars, settle, installer, call>> /\ faults' \in Nat
    <3>1. /\ view' = [view EXCEPT ![v].step = "idle", ![v].reply = NoReply]
          /\ UNCHANGED <<serviceVars, settle, installer, call>> /\ faults' = faults + 1
      BY <1>7, Zenon DEF LoseReply, Fault
    <3>2. Becomes(v, w)
      BY <1>2, <3>1 DEF Becomes
    <3> HIDE DEF w
    <3>3. QED
      BY <1>2, <3>1, <3>2
  <2>2. w \in ViewType /\ SameLink(w.at, view[v].at)
    BY <1>3, <1>4
  <2> HIDE DEF w
  <2>3. QED
    BY <2>1, <2>2, ViewAlone
<1>8. CASE ProtectDone(v) \/ ProtectFails(v)
  <2>1. \E w \in ViewType : Becomes(v, w) /\ SameLink(w.at, view[v].at)
    <3>1. CASE ProtectDone(v)
      <4> DEFINE w == [view[v] EXCEPT !.protected = view[v].attempt, !.step = "settle"]
      <4>1. w \in ViewType /\ SameLink(w.at, view[v].at)
        BY <1>2, <1>4 DEF ViewType, SameLink
      <4>2. Becomes(v, w)
        BY <1>2, <3>1 DEF ProtectDone, Becomes
      <4> HIDE DEF w
      <4>3. QED
        BY <4>1, <4>2
    <3>2. CASE ProtectFails(v)
      <4> DEFINE w == [view[v] EXCEPT !.failed = TRUE, !.step = "settle"]
      <4>1. w \in ViewType /\ SameLink(w.at, view[v].at)
        BY <1>2, <1>4 DEF ViewType, SameLink
      <4>2. Becomes(v, w)
        BY <1>2, <3>2 DEF ProtectFails, Becomes
      <4> HIDE DEF w
      <4>3. QED
        BY <4>1, <4>2
    <3>3. QED
      BY <1>8, <3>1, <3>2
  <2>2. UNCHANGED <<serviceVars, settle, installer, call, faults>>
    BY <1>8 DEF ProtectDone, ProtectFails
  <2>3. QED
    BY <1>2, <2>1, <2>2, ViewAlone
<1>9. CASE StartSettle(v)
  <2> DEFINE current == /\ v \in presence.joined /\ view[v].attempt = attempt.by
                        /\ attempt.phase \in {"preparing", "ready"}
  <2>1. UNCHANGED <<presence, review, installer, call, faults>>
    BY <1>9 DEF StartSettle
  <2>2. current => daemon.lifecycle # "shutdown-committed"
    BY <1>1 DEF RetiredIsIdle
  <2>3. CASE current /\ ~view[v].failed
    <3> DEFINE w == [view[v] EXCEPT !.step = "settling"]
    <3>1. /\ daemon' = Leased(daemon, <<"settle", v>>) /\ UNCHANGED attempt
          /\ settle' = [settle EXCEPT ![v] = view[v].attempt]
          /\ view' = [view EXCEPT ![v].step = "settling"]
      BY <1>9, <2>3, Zenon DEF StartSettle
    <3>2. <<"settle", v>> \in Routes
      BY DEF Routes
    <3>3. DaemonOK(daemon') /\ SameGate(daemon', daemon) /\ SameHost(daemon', daemon)
      BY <1>1, <3>1, <3>2, LeasedKeeps
    <3>4. RetiredIsIdle'
      BY <2>2, <2>3, <3>3 DEF RetiredIsIdle, SameHost
    <3>5. ServiceOK' /\ Gate(daemon', attempt')
      BY <1>1, <2>1, <3>1, <3>3 DEF ServiceOK, DaemonOK, Gate, SameGate
    <3>6. w \in ViewType /\ SameLink(w.at, view[v].at) /\ Becomes(v, w)
      BY <1>2, <1>3, <1>4, <3>1 DEF Becomes
    <3>7. settle' \in [Participants -> Installers \cup {NoOne, Stale}]
      BY <1>2, <3>1
    <3> HIDE DEF w
    <3>8. QED
      BY <1>2, <2>1, <3>4, <3>5, <3>6, <3>7, ViewConcludes
  <2>4. CASE current /\ view[v].failed
    <3> DEFINE w == [view[v] EXCEPT !.step = "settled", !.reply = Status(attempt', v)]
    <3>1. /\ Follow(Entered(daemon), Invalidated(attempt)) /\ UNCHANGED settle
          /\ view' = [view EXCEPT ![v].step = "settled", ![v].reply = Status(attempt', v)]
      BY <1>9, <2>4, Zenon DEF StartSettle
    <3>2. Continues(Invalidated(attempt))
      BY <1>1, InvalidatedContinues
    <3>3. /\ DaemonOK(Entered(daemon)) /\ SameGate(Entered(daemon), daemon)
          /\ SameHost(Entered(daemon), daemon)
      BY <1>1, EnteredKeeps
    <3>4. /\ DaemonOK(daemon') /\ Gate(daemon', attempt') /\ attempt' \in AttemptType
          /\ daemon'.lifecycle # "shutdown-committed"
      BY <1>1, <2>2, <2>4, <3>1, <3>2, <3>3, FollowKeeps DEF Follow, Continues, SameHost
    <3>5. ServiceOK' /\ RetiredIsIdle'
      BY <1>1, <2>1, <3>4 DEF ServiceOK, DaemonOK, RetiredIsIdle
    <3>6. Status(attempt', v) \in ReplyType
      BY <1>1, <3>4, StatusTyped DEF ReplyType
    <3>7. w \in ViewType /\ SameLink(w.at, view[v].at) /\ Becomes(v, w)
      BY <1>2, <1>3, <1>4, <3>1, <3>6 DEF Becomes
    <3> HIDE DEF w
    <3>8. QED
      BY <1>2, <2>1, <3>1, <3>4, <3>5, <3>7, ViewConcludes
  <2>5. CASE ~current
    <3> DEFINE w == [view[v] EXCEPT !.step = "idle"]
    <3>1. /\ view' = [view EXCEPT ![v].step = "idle"] /\ UNCHANGED <<attempt, settle>>
          /\ daemon' = IF SettlementAllowed(daemon) THEN Entered(daemon) ELSE daemon
      BY <1>9, <2>5, Zenon DEF StartSettle
    <3>2. /\ DaemonOK(daemon') /\ SameGate(daemon', daemon) /\ SameHost(daemon', daemon)
          /\ daemon'.routes = daemon.routes
      BY <1>1, <3>1, EnteredKeeps DEF SameGate, SameHost
    <3>3. RetiredIsIdle'
      BY <1>1, <2>1, <3>2, QuietKeepsIdle
    <3>4. ServiceOK' /\ Gate(daemon', attempt')
      BY <1>1, <2>1, <3>1, <3>2 DEF ServiceOK, DaemonOK, Gate, SameGate
    <3>5. w \in ViewType /\ SameLink(w.at, view[v].at) /\ Becomes(v, w)
      BY <1>2, <1>3, <1>4, <3>1 DEF Becomes
    <3> HIDE DEF w
    <3>6. QED
      BY <1>2, <2>1, <3>1, <3>3, <3>4, <3>5, ViewConcludes
  <2>6. QED
    BY <2>3, <2>4, <2>5
<1>10. QED
  BY <1>5, <1>6, <1>7, <1>8, <1>9

-----------------------------------------------------------------------------
(* The theorems.                                                           *)

LEMMA InitInv == Init => Inv
<1> SUFFICES ASSUME Init PROVE Inv
  OBVIOUS
<1>1. PICK opening \in Openings :
        /\ review = [gen |-> MaxGeneration - opening.rebuilds, rev |-> MaxEdits - opening.edits,
                     sync |-> "clean", unsaved |-> FALSE,
                     authority |-> MaxEpoch - opening.bindings,
                     choices |-> MaxChoices - opening.choices]
        /\ presence = [joined |-> opening.connected, pending |-> {}, grace |-> FALSE, task |-> FALSE]
        /\ view = [v \in Views |-> NewView(CASE v \in opening.connected -> "open"
                                              [] v \in opening.launched \ opening.connected -> "absent"
                                              [] OTHER -> "left")]
        /\ installer = [i \in Installers |-> [pc |-> IF i <= opening.installers THEN "waiting" ELSE "failed",
                                              prepares |-> FALSE]]
        /\ faults = MaxFaults - opening.faults
  BY DEF Init
<1>2. /\ opening.connected \subseteq Views
      /\ opening.edits \in 0..MaxEdits /\ opening.rebuilds \in 0..(MaxGeneration - 1)
      /\ opening.bindings \in 0..MaxEpoch /\ opening.choices \in 0..MaxChoices
      /\ opening.faults \in 0..MaxFaults /\ MaxGeneration \in Nat \ {0}
      /\ MaxEdits \in Nat /\ MaxEpoch \in Nat /\ MaxChoices \in Nat /\ MaxFaults \in Nat
  BY ProtocolAssumption
<1>3. /\ MaxGeneration - opening.rebuilds \in Nat /\ MaxEdits - opening.edits \in Nat
      /\ MaxEpoch - opening.bindings \in Nat /\ MaxChoices - opening.choices \in Nat
      /\ MaxFaults - opening.faults \in Nat
  BY <1>2
<1>4. DaemonOK(daemon) /\ presence \in PresenceType /\ review \in ReviewType
  BY <1>1, <1>2, <1>3 DEF Init, DaemonOK, DaemonType, PresenceType, ReviewType
<1>5. attempt \in AttemptType /\ attempt.phase = "none"
  <2>1. Over(NoOne) \in AttemptType
    BY OverTyped
  <2>2. QED
    BY <2>1 DEF Init, AttemptType, Phases
<1>6. ActorsOK /\ Linked
  <2>1. \A v \in Views : /\ view[v] \in ViewType
                         /\ view[v].at \in {"open", "absent", "left"}
                         /\ view[v].at = "open" <=> v \in opening.connected
    <3> SUFFICES ASSUME NEW v \in Views
                 PROVE  /\ view[v] \in ViewType
                        /\ view[v].at \in {"open", "absent", "left"}
                        /\ view[v].at = "open" <=> v \in opening.connected
      OBVIOUS
    <3>1. CASE v \in opening.connected
      BY <1>1, <3>1, NewViewTyped DEF Places
    <3>2. CASE v \notin opening.connected /\ v \in opening.launched
      BY <1>1, <3>2, NewViewTyped DEF Places
    <3>3. CASE v \notin opening.connected /\ v \notin opening.launched
      BY <1>1, <3>3, NewViewTyped DEF Places
    <3>4. QED
      BY <3>1, <3>2, <3>3
  <2>2. view \in [Views -> ViewType]
    BY <1>1, <2>1
  <2>3. Linked
    BY <1>1, <1>2, <2>1 DEF Init, Linked
  <2>4. installer \in [Installers -> InstallerType]
    BY <1>1 DEF InstallerType
  <2>5. QED
    BY <1>1, <1>3, <2>2, <2>3, <2>4 DEF Init, ActorsOK
<1>7. Gate(daemon, attempt) /\ RetiredIsIdle
  BY <1>5 DEF Init, Gate, Freezing, RetiredIsIdle
<1>8. QED
  BY <1>4, <1>5, <1>6, <1>7 DEF Inv, ServiceOK

LEMMA NextKeepsInv == Inv /\ [Next]_vars => Inv'
<1> SUFFICES ASSUME Inv, [Next]_vars PROVE Inv'
  OBVIOUS
<1>1. CASE UNCHANGED vars
  BY <1>1 DEF vars, serviceVars, actorVars, Inv, ServiceOK, DaemonOK, ActorsOK, Linked, Gate,
              RetiredIsIdle, Saving
<1>2. CASE \E i \in Installers : InstallerStep(i) \/ CallStep(i)
  BY <1>2, InstallerKeeps, CallKeeps
<1>3. CASE ReviewStep
  BY <1>3, ReviewKeeps
<1>4. CASE \E v \in Views : ViewStep(v)
  BY <1>4, ConnectionKeeps, InputKeeps, TickKeeps DEF ViewStep
<1>5. QED
  BY <1>1, <1>2, <1>3, <1>4 DEF Next

(* Every reachable state has its types; a drain is somebody's, and the     *)
(* service's presence is that of the views.                                *)
THEOREM UpgradeTypes == Spec => []TypeOK
<1>1. Spec => []Inv
  BY InitInv, NextKeepsInv, PTL DEF Spec
<1>2. Inv => TypeOK
  BY InvImplies
<1>3. QED
  BY <1>1, <1>2, PTL

(* Whatever ends an attempt, the installer, a view, a moved revision or    *)
(* its timer, admission is shut exactly as long as it holds it shut.       *)
THEOREM AdmissionIsTheAttempts == Spec => []AdmissionFollowsTheAttempt
<1>1. Spec => []Inv
  BY InitInv, NextKeepsInv, PTL DEF Spec
<1>2. Inv => AdmissionFollowsTheAttempt
  BY InvImplies
<1>3. QED
  BY <1>1, <1>2, PTL

(* A service that has agreed to end has nobody on it, then and afterwards. *)
THEOREM RetirementIsIdle == Spec => []RetiredIsIdle
<1>1. Spec => []Inv
  BY InitInv, NextKeepsInv, PTL DEF Spec
<1>2. Inv => RetiredIsIdle
  BY InvImplies
<1>3. QED
  BY <1>1, <1>2, PTL

-----------------------------------------------------------------------------
(* What a commit, and a view that closes itself, rest on.                  *)

(* A view that has protected its input for an attempt is frozen and has no *)
(* input left; it asks for the settlement once it is, or has failed; and   *)
(* only a protected view is told of a commit.                              *)
SoundView(w) ==
  /\ w.protected # NoOne => w.frozen /\ ~w.typed /\ ~w.sending
  /\ w.step \in {"protecting", "settle"} => w.frozen
  /\ w.step = "protecting" => ~w.failed
  /\ w.step = "settle" /\ ~w.failed => w.protected = w.attempt
  /\ w.step \in {"polled", "settled"} /\ w.reply.phase = "committed" =>
       w.reply.by # NoOne /\ w.protected = w.reply.by

ViewsAreSound == \A v \in Views : SoundView(view[v])

(* An attempt that prepares is of an installer that began it, with nothing *)
(* acknowledged or being settled for it before.                            *)
Fresh == {"waiting", "preview", "consent"}

BegunOnce ==
  /\ Live(attempt) => attempt.by \in Installers
  /\ attempt.phase \in Freezing => installer[attempt.by].pc \notin Fresh
  /\ attempt.phase = "preview" => attempt.acked = {}
  /\ \A i \in Installers, v \in Views : installer[i].pc \in Fresh => settle[v] # i

(* A view that has acknowledged the attempt, or is being settled for it,   *)
(* is protected for it, and no answer is under way that would release it.  *)
GuardedBy(w, by) ==
  /\ w.protected = by
  /\ w.step # "protecting"
  /\ w.step \in {"polled", "settled"} => w.reply.by = by /\ w.reply.phase \in Freezing

AcknowledgedIsGuarded ==
  attempt.phase \in Freezing =>
    \A v \in presence.joined :
      v \in attempt.acked \/ settle[v] = attempt.by => GuardedBy(view[v], attempt.by)

(* What was acknowledged at the present revision is saved.                 *)
AcknowledgedIsSaved ==
  /\ review.sync = "clean" => ~review.unsaved
  /\ \A v \in Views : attempt.known[v].rev <= review.rev /\ attempt.known[v].gen <= review.gen
  /\ attempt.phase \in Freezing =>
       \A v \in presence.joined :
         v \in attempt.acked /\ attempt.known[v] = Revision(v) => ~review.unsaved

CommittedIsAcknowledged == attempt.phase = "committed" => presence.joined \subseteq attempt.acked

CommitInv ==
  /\ ViewsAreSound /\ BegunOnce
  /\ AcknowledgedIsGuarded /\ AcknowledgedIsSaved /\ CommittedIsAcknowledged

-----------------------------------------------------------------------------
(* A step that begins, commits and acknowledges nothing.                   *)
Falls == attempt' = attempt \/ attempt' = Over(attempt.by)

CalmSettle == \A v \in Views : settle'[v] \in {settle[v], NoOne, Stale}

OnlyForward == \A i \in Installers : installer'[i].pc \in Fresh => installer[i].pc \in Fresh

JoinedShrinks == presence'.joined \subseteq presence.joined \/ attempt'.phase \notin Freezing

ReviewGrows ==
  /\ review.rev <= review'.rev /\ review.gen <= review'.gen
  /\ review'.sync = "clean" => ~review'.unsaved
  /\ review'.rev = review.rev /\ review'.unsaved => review.unsaved

ViewsStaySound ==
  \A v \in Views :
    /\ SoundView(view'[v])
    /\ v \in presence'.joined /\ attempt'.phase \in Freezing /\ GuardedBy(view[v], attempt.by) =>
         GuardedBy(view'[v], attempt.by)

(* What the type invariant says of the parts, and of the names.            *)
LEMMA CommitPieces ==
  ASSUME Inv
  PROVE  /\ daemon \in DaemonType /\ attempt \in AttemptType /\ presence \in PresenceType
         /\ review \in ReviewType /\ view \in [Views -> ViewType]
         /\ settle \in [Participants -> Installers \cup {NoOne, Stale}]
         /\ installer \in [Installers -> InstallerType]
         /\ review.rev \in Nat /\ review.gen \in Nat /\ presence.joined \subseteq Views
         /\ \A v \in Views : attempt.known[v].rev \in Nat /\ attempt.known[v].gen \in Nat
         /\ \A v \in Views : v \in Participants /\ v # Authority
         /\ \A i \in Installers : i # NoOne /\ i # Stale
<1>1. \A i \in Installers : i # NoOne /\ i # Stale
  BY UpgradeAssumption DEF Installers, NoOne, Stale
<1>2. \A v \in Views : v \in Participants /\ v # Authority
  BY UpgradeAssumption DEF Participants
<1> QED
  BY <1>1, <1>2 DEF Inv, ServiceOK, DaemonOK, ActorsOK, AttemptType, PresenceType, ReviewType, RevisionType

(* An attempt that is over has nothing acknowledged.                       *)
LEMMA OverFields ==
  ASSUME NEW by
  PROVE  /\ Over(by).phase = "canceled" /\ Over(by).by = by /\ Over(by).acked = {}
         /\ \A p \in Participants : Over(by).known[p] = Unknown
BY DEF Over

(* A step that begins, commits and acknowledges nothing keeps it all.      *)
LEMMA CalmKeeps ==
  ASSUME Inv, CommitInv, Falls, CalmSettle, OnlyForward, JoinedShrinks, ReviewGrows,
         ViewsStaySound, Inv'
  PROVE  CommitInv'
<1>1. ViewsAreSound'
  BY DEF ViewsStaySound, ViewsAreSound
<1>2. CASE attempt' = attempt
  <2>1. BegunOnce'
    BY <1>2, CommitPieces DEF CommitInv, BegunOnce, CalmSettle, OnlyForward, Freezing, Live
  <2>2. AcknowledgedIsGuarded'
    <3> SUFFICES ASSUME attempt.phase \in Freezing, NEW v \in presence'.joined,
                        v \in attempt.acked \/ settle'[v] = attempt.by
                 PROVE  GuardedBy(view'[v], attempt.by)
      BY <1>2 DEF AcknowledgedIsGuarded
    <3>1. v \in presence.joined /\ v \in Views
      BY <1>2, CommitPieces DEF JoinedShrinks
    <3>2. attempt.by \in Installers
      BY DEF CommitInv, BegunOnce, Live, Freezing
    <3>3. v \in attempt.acked \/ settle[v] = attempt.by
      BY <3>1, <3>2, CommitPieces DEF CalmSettle
    <3> QED
      BY <1>2, <3>1, <3>3 DEF CommitInv, AcknowledgedIsGuarded, ViewsStaySound
  <2>3. AcknowledgedIsSaved'
    <3>1. \A v \in Views : attempt.known[v].rev <= review'.rev /\ attempt.known[v].gen <= review'.gen
      <4>1. review'.rev \in Nat /\ review'.gen \in Nat
        BY DEF Inv, ServiceOK, ReviewType
      <4> QED
        BY <4>1, CommitPieces DEF CommitInv, AcknowledgedIsSaved, ReviewGrows
    <3>2. ASSUME attempt.phase \in Freezing, NEW v \in presence'.joined,
                 v \in attempt.acked, attempt.known[v] = Revision(v)'
          PROVE  ~review'.unsaved
      <4>1. v \in presence.joined /\ v \in Views /\ v # Authority
        BY <1>2, <3>2, CommitPieces DEF JoinedShrinks
      <4>2. attempt.known[v] = [gen |-> review'.gen, rev |-> review'.rev]
        BY <3>2, <4>1 DEF Revision
      <4>3. review'.rev \in Nat /\ review'.gen \in Nat
        BY DEF Inv, ServiceOK, ReviewType
      <4>4. review'.rev = review.rev /\ review'.gen = review.gen
        BY <4>1, <4>2, <4>3, CommitPieces DEF CommitInv, AcknowledgedIsSaved, ReviewGrows
      <4>5. attempt.known[v] = Revision(v)
        BY <4>1, <4>2, <4>4 DEF Revision
      <4> QED
        BY <3>2, <4>1, <4>4, <4>5 DEF CommitInv, AcknowledgedIsSaved, ReviewGrows
    <3> QED
      BY <1>2, <3>1, <3>2 DEF AcknowledgedIsSaved, ReviewGrows
  <2>4. CommittedIsAcknowledged'
    BY <1>2 DEF CommitInv, CommittedIsAcknowledged, JoinedShrinks, Freezing
  <2> QED
    BY <1>1, <2>1, <2>2, <2>3, <2>4 DEF CommitInv
<1>3. CASE attempt' = Over(attempt.by)
  <2>1. attempt'.phase = "canceled" /\ \A v \in Views : attempt'.known[v] = Unknown
    BY <1>3, OverFields, CommitPieces
  <2>2. BegunOnce'
    BY <2>1, CommitPieces DEF CommitInv, BegunOnce, CalmSettle, OnlyForward, Freezing, Live
  <2>3. review'.rev \in Nat /\ review'.gen \in Nat
    BY DEF Inv, ServiceOK, ReviewType
  <2> QED
    BY <1>1, <2>1, <2>2, <2>3
       DEF CommitInv, AcknowledgedIsGuarded, AcknowledgedIsSaved, CommittedIsAcknowledged,
           ReviewGrows, Freezing, Unknown
<1> QED
  BY <1>2, <1>3 DEF Falls

(* Every way in which an attempt is looked at again or ended.              *)
LEMMA FallsWays ==
  ASSUME Inv
  PROVE  /\ Invalidated(attempt) \in {attempt, Over(attempt.by)}
         /\ \A ps : Changed(attempt, ps) \in {attempt, Over(attempt.by)}
         /\ Refreshed \in {attempt, Over(attempt.by)}
         /\ Joined(attempt) \in {attempt, Over(attempt.by)}
         /\ Detached(attempt) \in {attempt, Over(attempt.by)}
         /\ \A v : Polled(v) \in {attempt, Over(attempt.by)}
BY DEF Invalidated, Changed, Refreshed, Joined, Detached, Polled

(* An attempt that was looked at is ended at most once.                    *)
LEMMA InvalidatedAgain ==
  ASSUME Inv, NEW a \in {attempt, Over(attempt.by)}
  PROVE  Invalidated(a) \in {attempt, Over(attempt.by)}
BY OverFields DEF Invalidated

(* A step that follows one of those ways is calm.                          *)
LEMMA FollowFalls ==
  ASSUME NEW a \in {attempt, Over(attempt.by)}, NEW d, Follow(d, a)
  PROVE  Falls
BY DEF Follow, Falls

(* A step changes one view, or none.                                       *)
LEMMA OneView ==
  ASSUME Inv, CommitInv, NEW v \in Views, NEW w, view' = [view EXCEPT ![v] = w], SoundView(w),
         v \in presence'.joined /\ attempt'.phase \in Freezing /\ GuardedBy(view[v], attempt.by) =>
           GuardedBy(w, attempt.by)
  PROVE  ViewsStaySound
<1>1. \A u \in Views : view'[u] = IF u = v THEN w ELSE view[u]
  BY CommitPieces
<1> QED
  BY <1>1 DEF ViewsStaySound, CommitInv, ViewsAreSound

(* No view changes.                                                        *)
LEMMA NoView ==
  ASSUME Inv, CommitInv, UNCHANGED view
  PROVE  ViewsStaySound
BY DEF ViewsStaySound, CommitInv, ViewsAreSound

(* Nobody joins and the review stands still.                               *)
LEMMA SameReview ==
  ASSUME Inv, CommitInv, UNCHANGED <<presence, review>>
  PROVE  JoinedShrinks /\ ReviewGrows
BY CommitPieces DEF JoinedShrinks, ReviewGrows, CommitInv, AcknowledgedIsSaved

(* An installer goes on.                                                   *)
LEMMA GoesForward ==
  ASSUME Inv, NEW i \in Installers, NEW pc, Go(i, pc), pc \notin Fresh \/ installer[i].pc \in Fresh
  PROVE  OnlyForward
<1>1. \A j \in Installers : j # i => installer'[j] = installer[j]
  BY CommitPieces DEF Go
<1>2. installer[i] \in InstallerType
  BY CommitPieces
<1>3. installer'[i].pc = pc
  BY <1>2, CommitPieces DEF Go, InstallerType
<1> QED
  BY <1>1, <1>3 DEF OnlyForward

-----------------------------------------------------------------------------
(* The steps of an installer that begin and commit nothing.                *)
LEMMA CalmInstallerKeeps ==
  ASSUME Inv, CommitInv, Inv', NEW i \in Installers,
         \/ Inspect(i) \/ AwaitReady(i) \/ Validate(i) \/ Shutdown(i) \/ Cancel(i)
         \/ GiveUp(i) \/ Stop(i) \/ Replace(i)
  PROVE  CommitInv'
<1>1. UNCHANGED <<presence, review, view>>
  BY DEF Inspect, AwaitReady, Validate, Shutdown, Cancel, GiveUp, Stop, Replace, serviceVars
<1>2. ViewsStaySound /\ JoinedShrinks /\ ReviewGrows
  BY <1>1, NoView, SameReview
<1>3. CalmSettle
  BY CommitPieces DEF Inspect, AwaitReady, Validate, Shutdown, Cancel, GiveUp, Stop, Replace,
     serviceVars, CalmSettle
<1>4. Falls
  BY FallsWays, InvalidatedAgain, FollowFalls DEF Inspect, AwaitReady, Validate, Shutdown, Cancel,
     GiveUp, Stop, Replace, serviceVars, Falls
<1>5. OnlyForward
  <2>1. CASE Inspect(i)
    <3>1. \A j \in Installers : j # i => installer'[j] = installer[j]
      BY <2>1, CommitPieces DEF Inspect
    <3> QED
      BY <2>1, <3>1 DEF Inspect, OnlyForward, Fresh
  <2>2. CASE ~Inspect(i)
    <3>1. \E pc : Go(i, pc) /\ pc \notin Fresh
      BY <2>2 DEF AwaitReady, Validate, Shutdown, Refused, Cancel, GiveUp, Stop, Replace, Fresh
    <3> QED
      BY <3>1, GoesForward
  <2> QED
    BY <2>1, <2>2
<1> QED
  BY <1>2, <1>3, <1>4, <1>5, CalmKeeps

(* The preview begins with nothing acknowledged, and the revisions of now. *)
LEMMA PreviewKeepsCommits ==
  ASSUME Inv, CommitInv, Inv', NEW i \in Installers, Preview(i)
  PROVE  CommitInv'
<1>1. UNCHANGED <<presence, review, view, settle>> /\ installer[i].pc = "preview"
  BY DEF Preview
<1>2. ViewsStaySound /\ JoinedShrinks /\ ReviewGrows /\ CalmSettle
  BY <1>1, NoView, SameReview DEF CalmSettle
<1>3. OnlyForward
  BY <1>1, GoesForward DEF Preview, Fresh
<1>4. CASE Live(Refreshed)
  <2>1. Falls
    BY <1>4, FallsWays, FollowFalls DEF Preview
  <2> QED
    BY <1>2, <1>3, <2>1, CalmKeeps
<1>5. CASE ~Live(Refreshed)
  <2>1. attempt' = Previewed(i)
    BY <1>5 DEF Preview
  <2>2. Over(i) \in AttemptType
    BY OverTyped
  <2>3. /\ attempt'.phase = "preview" /\ attempt'.by = i /\ attempt'.acked = {}
        /\ \A v \in Views : attempt'.known[v] \in {Revision(v), Unknown}
    BY <2>1, <2>2, OverFields, CommitPieces DEF Previewed, Relearned, AttemptType
  <2>4. ViewsAreSound'
    BY <1>2 DEF ViewsStaySound, ViewsAreSound
  <2>5. BegunOnce'
    BY <1>1, <1>3, <2>3 DEF CommitInv, BegunOnce, OnlyForward, Freezing, Live
  <2>6. AcknowledgedIsSaved'
    <3>1. \A v \in Views : Revision(v).rev = review.rev /\ Revision(v).gen = review.gen
      BY CommitPieces DEF Revision
    <3>2. \A v \in Views : attempt'.known[v].rev <= review.rev /\ attempt'.known[v].gen <= review.gen
      BY <2>3, <3>1, CommitPieces DEF Unknown
    <3> QED
      BY <1>1, <2>3, <3>2 DEF CommitInv, AcknowledgedIsSaved, Freezing
  <2> QED
    BY <2>3, <2>4, <2>5, <2>6
       DEF CommitInv, AcknowledgedIsGuarded, CommittedIsAcknowledged, Freezing
<1> QED
  BY <1>4, <1>5

(* begin(): nobody has acknowledged the attempt yet, or is being settled.  *)
LEMMA BeginKeepsCommits ==
  ASSUME Inv, CommitInv, Inv', NEW i \in Installers, NEW consent \in BOOLEAN, Begin(i, consent)
  PROVE  CommitInv'
<1> DEFINE a == Refreshed
           begins == /\ a.by = i /\ a.phase = "preview" /\ consent /\ a.seen = Activity
                     /\ daemon.lifecycle # "shutdown-committed"
<1>1. UNCHANGED <<presence, review, view>> /\ installer[i].pc = "consent"
  BY DEF Begin
<1>2. ViewsStaySound /\ JoinedShrinks /\ ReviewGrows
  BY <1>1, NoView, SameReview
<1>3. \A v \in Views : settle'[v] = settle[v]
  BY CommitPieces DEF Begin
<1>4. OnlyForward
  BY GoesForward DEF Begin, Fresh
<1>5. CASE ~begins
  <2>1. Follow(daemon, IF a.by = i THEN Invalidated(a) ELSE a)
    BY <1>5 DEF Begin
  <2>2. Falls
    BY <2>1, FallsWays, InvalidatedAgain, FollowFalls
  <2> QED
    BY <1>2, <1>3, <1>4, <2>2, CalmKeeps DEF CalmSettle
<1>6. CASE begins
  <2>1. attempt' = Prepared(a) /\ Go(i, "polling")
    BY <1>6 DEF Begin
  <2>2. a = attempt /\ attempt.phase = "preview" /\ attempt.by = i
    BY <1>6, FallsWays, OverFields
  <2>3. /\ attempt'.phase \in {"preparing", "ready"} /\ attempt'.by = i
        /\ attempt'.acked = attempt.acked /\ attempt'.known = attempt.known
    BY <2>1, <2>2, CommitPieces DEF Prepared, AttemptType
  <2>4. attempt.acked = {} /\ \A v \in Views : settle[v] # i
    BY <1>1, <2>2 DEF CommitInv, BegunOnce, Fresh
  <2>5. ViewsAreSound'
    BY <1>2 DEF ViewsStaySound, ViewsAreSound
  <2>6. installer'[i].pc = "polling"
    <3>1. installer[i] \in InstallerType
      BY CommitPieces
    <3> QED
      BY <2>1, <3>1, CommitPieces DEF Go, InstallerType
  <2>7. BegunOnce'
    BY <1>3, <1>4, <2>3, <2>6 DEF CommitInv, BegunOnce, OnlyForward, Live, Fresh
  <2>8. AcknowledgedIsGuarded'
    BY <1>1, <1>3, <2>3, <2>4, CommitPieces DEF AcknowledgedIsGuarded
  <2>9. AcknowledgedIsSaved'
    BY <1>1, <2>3, <2>4 DEF CommitInv, AcknowledgedIsSaved
  <2>10. CommittedIsAcknowledged'
    BY <2>3 DEF CommittedIsAcknowledged
  <2> QED
    BY <2>5, <2>7, <2>8, <2>9, <2>10 DEF CommitInv
<1> QED
  BY <1>5, <1>6

(* A step that only changes the phase of an attempt, or marks it.          *)
LEMMA SameAttemptKeeps ==
  ASSUME Inv, CommitInv, Inv', UNCHANGED <<presence, review, view, settle>>, OnlyForward,
         attempt'.acked = attempt.acked, attempt'.known = attempt.known, attempt'.by = attempt.by,
         attempt.phase \in Freezing, attempt'.phase \in Freezing,
         attempt'.phase = "committed" => presence.joined \subseteq attempt.acked
  PROVE  CommitInv'
<1>1. ViewsAreSound' /\ AcknowledgedIsGuarded' /\ CommittedIsAcknowledged'
  BY DEF CommitInv, ViewsAreSound, AcknowledgedIsGuarded, CommittedIsAcknowledged
<1>2. BegunOnce'
  BY DEF CommitInv, BegunOnce, OnlyForward, Freezing, Live
<1>3. AcknowledgedIsSaved'
  BY DEF CommitInv, AcknowledgedIsSaved, Revision
<1> QED
  BY <1>1, <1>2, <1>3 DEF CommitInv

(* A commit finds every connected view acknowledged.                       *)
LEMMA CommitKeepsCommits ==
  ASSUME Inv, CommitInv, Inv', NEW i \in Installers, Commit(i)
  PROVE  CommitInv'
<1> DEFINE a == Refreshed
<1>1. UNCHANGED <<presence, review, view, settle>>
  BY DEF Commit
<1>2. OnlyForward
  BY GoesForward DEF Commit, Fresh
<1>3. CASE a.by = i /\ a.phase = "ready" /\ Ready(a)
  <2>1. attempt' = [a EXCEPT !.phase = "committed"]
    BY <1>3 DEF Commit
  <2>2. a = attempt
    BY <1>3, FallsWays, OverFields
  <2>3. /\ attempt'.acked = attempt.acked /\ attempt'.known = attempt.known
        /\ attempt'.by = attempt.by /\ attempt'.phase = "committed"
    BY <2>1, <2>2, CommitPieces DEF AttemptType
  <2>4. presence.joined \subseteq attempt.acked
    BY <1>3, <2>2 DEF Ready, AllAcknowledged, Registered
  <2> QED
    BY <1>1, <1>2, <1>3, <2>2, <2>3, <2>4, SameAttemptKeeps DEF Freezing
<1>4. CASE ~(a.by = i /\ a.phase = "ready" /\ Ready(a))
  <2>1. Falls
    BY <1>4, FallsWays, FollowFalls DEF Commit
  <2> QED
    BY <1>1, <1>2, <2>1, NoView, SameReview, CalmKeeps DEF CalmSettle
<1> QED
  BY <1>3, <1>4

-----------------------------------------------------------------------------
(* The calls that are under way for an installer.                          *)
LEMMA CallKeepsCommits ==
  ASSUME Inv, CommitInv, Inv', NEW i \in Installers, CallStep(i)
  PROVE  CommitInv'
<1>1. UNCHANGED <<view, settle>>
  BY DEF CallStep, EndDrain, FailDrain, RetireMetadata, ClosePanels, RevokeTasks
<1>2. ViewsStaySound /\ CalmSettle
  BY <1>1, NoView DEF CalmSettle
<1>3. OnlyForward
  <2>1. CASE UNCHANGED installer
    BY <2>1 DEF OnlyForward
  <2>2. CASE \E pc : Go(i, pc) /\ pc \notin Fresh
    BY <2>2, GoesForward
  <2>3. CASE EndDrain(i)
    <3>1. UNCHANGED installer \/ \E pc : Go(i, pc) /\ pc \notin Fresh
      <4>1. Refused(i) \notin Fresh /\ "retiring" \notin Fresh
        BY DEF Refused, Fresh
      <4> QED
        BY <2>3, <4>1 DEF EndDrain, Go
    <3> QED
      BY <2>1, <2>2, <3>1
  <2> QED
    BY <2>1, <2>2, <2>3 DEF CallStep, FailDrain, RetireMetadata, ClosePanels, RevokeTasks, Answer, Fresh
<1>4. CASE EndDrain(i) \/ FailDrain(i) \/ ClosePanels(i)
  <2>1. UNCHANGED <<presence, review>>
    BY <1>4 DEF EndDrain, FailDrain, ClosePanels
  <2>2. Falls
    BY <1>4, FallsWays, FollowFalls DEF EndDrain, FailDrain, ClosePanels, Falls
  <2> QED
    BY <1>2, <1>3, <2>1, <2>2, SameReview, CalmKeeps
<1>5. CASE RetireMetadata(i)
  <2>1. UNCHANGED <<presence, review>>
    BY <1>5 DEF RetireMetadata
  <2>2. CASE attempt.phase = "committed"
    <3>1. attempt' = [attempt EXCEPT !.retiring = TRUE]
      BY <1>5, <2>2 DEF RetireMetadata
    <3>2. /\ attempt'.acked = attempt.acked /\ attempt'.known = attempt.known
          /\ attempt'.by = attempt.by /\ attempt'.phase = attempt.phase
      BY <3>1, CommitPieces DEF AttemptType
    <3> QED
      BY <1>1, <1>3, <2>1, <2>2, <3>2, SameAttemptKeeps
         DEF Freezing, CommitInv, CommittedIsAcknowledged
  <2>3. CASE attempt.phase # "committed"
    <3>1. Falls
      BY <1>5, <2>3 DEF RetireMetadata, Falls
    <3> QED
      BY <1>2, <1>3, <2>1, <3>1, SameReview, CalmKeeps
  <2> QED
    BY <2>2, <2>3
<1>6. CASE RevokeTasks(i)
  <2>1. /\ presence' = [presence EXCEPT !.task = FALSE] /\ attempt' = attempt
        /\ review' = [review EXCEPT !.authority = @ + 1]
    BY <1>6 DEF RevokeTasks
  <2>2. /\ presence'.joined = presence.joined /\ review'.rev = review.rev
        /\ review'.gen = review.gen /\ review'.sync = review.sync
        /\ review'.unsaved = review.unsaved
    BY <2>1, CommitPieces DEF PresenceType, ReviewType
  <2>3. Falls /\ JoinedShrinks /\ ReviewGrows
    BY <2>1, <2>2, CommitPieces
       DEF Falls, JoinedShrinks, ReviewGrows, CommitInv, AcknowledgedIsSaved
  <2> QED
    BY <1>2, <1>3, <2>3, CalmKeeps
<1> QED
  BY <1>4, <1>5, <1>6 DEF CallStep

-----------------------------------------------------------------------------
(* The service: its timers, the save, the bound tasks.                     *)
TimersAndTasks ==
  Expire \/ CloseHost \/ SaveDone \/ SaveFails \/ BindTask \/ EndTask \/ ExpireGrace

(* Time passes; saves, tasks and the host end.                             *)
LEMMA TimersKeepCommits ==
  ASSUME Inv, CommitInv, Inv', TimersAndTasks
  PROVE  CommitInv'
<1> USE DEF TimersAndTasks
<1>1. UNCHANGED <<view, settle, installer>>
  BY DEF Expire, CloseHost, SaveDone, SaveFails, BindTask, EndTask, ExpireGrace, actorVars
<1>2. ViewsStaySound /\ CalmSettle /\ OnlyForward
  BY <1>1, NoView DEF CalmSettle, OnlyForward
<1>3. Falls
  BY FallsWays, FollowFalls DEF Expire, CloseHost, SaveDone, SaveFails, BindTask, EndTask,
     ExpireGrace, Falls
<1>4. presence'.joined = presence.joined
  BY CommitPieces DEF Expire, CloseHost, SaveDone, SaveFails, BindTask, EndTask, ExpireGrace,
     PresenceType
<1>5. /\ review'.rev = review.rev /\ review'.gen = review.gen
      /\ review'.sync = "clean" => ~review'.unsaved
      /\ review'.unsaved => review.unsaved
  BY CommitPieces DEF Expire, CloseHost, SaveDone, SaveFails, BindTask, EndTask, ExpireGrace,
     ReviewType, CommitInv, AcknowledgedIsSaved
<1>6. JoinedShrinks /\ ReviewGrows
  BY <1>4, <1>5, CommitPieces DEF JoinedShrinks, ReviewGrows
<1> QED
  BY <1>2, <1>3, <1>6, CalmKeeps

(* A view that is opened anew has no input and no part in an attempt.      *)
LEMMA NewViewSound ==
  ASSUME NEW place
  PROVE  SoundView(NewView(place)) /\ NewView(place).at = place
BY DEF NewView, SoundView, NoOne, NoReply

(* A new generation of the document, that revokes launches.                *)
LEMMA SuccessorKeepsCommits ==
  ASSUME Inv, CommitInv, Inv', Successor
  PROVE  CommitInv'
<1>1. /\ UNCHANGED <<attempt, settle, installer>>
      /\ view' = [v \in Views |-> IF view[v].at = "opening" THEN NewView("left") ELSE view[v]]
      /\ presence'.joined = presence.joined
  BY CommitPieces DEF Successor, PresenceType
<1>2. Falls /\ CalmSettle /\ OnlyForward /\ JoinedShrinks
  BY <1>1 DEF Falls, CalmSettle, OnlyForward, JoinedShrinks
<1>3. review' = [review EXCEPT !.gen = @ + 1, !.authority = IF presence.task THEN @ + 1 ELSE @]
  BY DEF Successor
<1>4. ReviewGrows
  BY <1>3, CommitPieces DEF ReviewType, ReviewGrows, CommitInv, AcknowledgedIsSaved
<1>5. \A v \in presence'.joined : view'[v] = view[v]
  BY <1>1, CommitPieces DEF Inv, Linked
<1>6. ViewsStaySound
  BY <1>1, <1>5, NewViewSound DEF ViewsStaySound, CommitInv, ViewsAreSound
<1> QED
  BY <1>2, <1>4, <1>6, CalmKeeps

-----------------------------------------------------------------------------
(* A step of one view.                                                     *)
LEMMA ViewFalls ==
  ASSUME Inv, CommitInv, Inv', NEW v \in Views, NEW w, Becomes(v, w), SoundView(w),
         v \in presence'.joined /\ attempt'.phase \in Freezing /\ GuardedBy(view[v], attempt.by) =>
           GuardedBy(w, attempt.by),
         UNCHANGED installer, CalmSettle, Falls, JoinedShrinks, ReviewGrows
  PROVE  CommitInv'
<1>1. ViewsStaySound
  BY OneView DEF Becomes
<1>2. OnlyForward
  BY DEF OnlyForward
<1> QED
  BY <1>1, <1>2, CalmKeeps

(* Where a view is does not matter to its soundness.                       *)
LEMMA MovedIsSound ==
  ASSUME Inv, CommitInv, NEW v \in Views, NEW at, NEW by
  PROVE  /\ SoundView([view[v] EXCEPT !.at = at])
         /\ GuardedBy(view[v], by) => GuardedBy([view[v] EXCEPT !.at = at], by)
<1>1. view[v] \in ViewType /\ SoundView(view[v])
  BY CommitPieces DEF CommitInv, ViewsAreSound
<1> QED
  BY <1>1 DEF SoundView, GuardedBy, ViewType

(* Connections come and go; whoever goes is settled for nothing.           *)
LEMMA ConnectionKeepsCommits ==
  ASSUME Inv, CommitInv, Inv', NEW v \in Views,
         \/ Open(v) \/ ExpireBootstrap(v) \/ Exchange(v) \/ Connect(v) \/ Disconnect(v)
         \/ NoticeClosed(v)
  PROVE  CommitInv'
<1>1. UNCHANGED <<review, installer>>
  BY DEF Open, ExpireBootstrap, Exchange, Connect, Disconnect, NoticeClosed, Unregistered
<1>2. ReviewGrows
  BY <1>1, CommitPieces DEF ReviewGrows, CommitInv, AcknowledgedIsSaved
<1>3. view \in [Views -> ViewType] /\ presence \in PresenceType
  BY CommitPieces
<1>4. CASE Open(v) \/ Exchange(v)
  <2>1. PICK at : Becomes(v, [view[v] EXCEPT !.at = at])
    BY <1>3, <1>4 DEF Open, Exchange, Becomes
  <2>2. UNCHANGED <<attempt, settle>> /\ presence'.joined = presence.joined
    BY <1>3, <1>4 DEF Open, Exchange, PresenceType
  <2>3. Falls /\ CalmSettle /\ JoinedShrinks
    BY <2>2 DEF Falls, CalmSettle, JoinedShrinks
  <2> QED
    BY <1>1, <1>2, <2>1, <2>3, MovedIsSound, ViewFalls
<1>5. CASE Connect(v)
  <2>1. Becomes(v, [view[v] EXCEPT !.at = "open"])
    BY <1>3, <1>5 DEF Connect, Becomes
  <2>2. UNCHANGED settle /\ attempt' = Joined(attempt) /\ Falls
    BY <1>5, FallsWays, FollowFalls DEF Connect, Follow
  <2>3. JoinedShrinks
    BY <2>2, OverFields DEF JoinedShrinks, Joined, Invalidated, Live, Freezing
  <2>4. CalmSettle
    BY <2>2 DEF CalmSettle
  <2> QED
    BY <1>1, <1>2, <2>1, <2>2, <2>3, <2>4, MovedIsSound, ViewFalls
<1>6. CASE ExpireBootstrap(v)
  <2>1. Becomes(v, NewView("left")) /\ UNCHANGED <<attempt, settle>>
    BY <1>6 DEF ExpireBootstrap, Becomes
  <2>2. presence'.joined = presence.joined /\ v \notin presence.joined
    BY <1>3, <1>6 DEF ExpireBootstrap, PresenceType, Inv, Linked
  <2>3. Falls /\ CalmSettle /\ JoinedShrinks
    BY <2>1, <2>2 DEF Falls, CalmSettle, JoinedShrinks
  <2> QED
    BY <1>1, <1>2, <2>1, <2>2, <2>3, NewViewSound, ViewFalls
<1>7. CASE Disconnect(v) \/ NoticeClosed(v)
  <2>1. Unregistered(v)
    BY <1>7 DEF Disconnect, NoticeClosed
  <2>2. presence'.joined = presence.joined \ {v}
    BY <1>3, <2>1 DEF Unregistered, PresenceType
  <2>3. Falls
    BY <2>1, FallsWays, FollowFalls DEF Unregistered
  <2>4. CalmSettle
    BY <2>1, CommitPieces DEF Unregistered, CalmSettle
  <2>5. JoinedShrinks
    BY <2>2 DEF JoinedShrinks
  <2>6. \E w : Becomes(v, w) /\ SoundView(w)
    <3>1. CASE Becomes(v, [view[v] EXCEPT !.at = "page"])
      BY <3>1, MovedIsSound
    <3>2. CASE \E place : Becomes(v, NewView(place))
      BY <3>2, NewViewSound
    <3> QED
      BY <1>3, <1>7, <3>1, <3>2 DEF Disconnect, NoticeClosed, Becomes
  <2> QED
    BY <1>1, <1>2, <2>2, <2>3, <2>4, <2>5, <2>6, ViewFalls
<1> QED
  BY <1>4, <1>5, <1>6, <1>7

-----------------------------------------------------------------------------
(* Input.                                                                  *)

(* Input that is refused ends a protection, but never one that stands.     *)
LEMMA UnsentIsSound ==
  ASSUME NEW w \in ViewType, SoundView(w), NEW by
  PROVE  SoundView(Unsent(w)) /\ (GuardedBy(w, by) => GuardedBy(Unsent(w), by))
<1>1. /\ Unsent(w).protected = w.protected /\ Unsent(w).frozen = w.frozen
      /\ Unsent(w).typed = w.typed /\ Unsent(w).attempt = w.attempt /\ Unsent(w).reply = w.reply
      /\ ~Unsent(w).sending
  BY DEF Unsent, ViewType
<1>2. /\ w.step = "protecting" => Unsent(w).step = "settle" /\ Unsent(w).failed
      /\ w.step # "protecting" => Unsent(w).step = w.step /\ Unsent(w).failed = w.failed
  BY DEF Unsent, ViewType
<1> QED
  BY <1>1, <1>2 DEF SoundView, GuardedBy

(* A view that is typed into is not protected; accepted input moves on.    *)
LEMMA InputKeepsCommits ==
  ASSUME Inv, CommitInv, Inv', NEW v \in Views,
         \/ Type(v) \/ Submit(v) \/ (\E edit \in BOOLEAN : Land(v, edit)) \/ Refuse(v)
  PROVE  CommitInv'
<1>1. UNCHANGED <<presence, settle, installer>>
  BY DEF Type, Submit, Land, Refuse, serviceVars
<1>2. CalmSettle /\ JoinedShrinks
  BY <1>1 DEF CalmSettle, JoinedShrinks
<1>3. view \in [Views -> ViewType] /\ view[v] \in ViewType /\ SoundView(view[v])
  BY CommitPieces DEF CommitInv, ViewsAreSound
<1>4. Falls
  BY FallsWays, FollowFalls DEF Type, Submit, Land, Refuse, Admits, serviceVars, Falls
<1>5. ASSUME UNCHANGED review PROVE ReviewGrows
  BY <1>5, CommitPieces DEF ReviewGrows, CommitInv, AcknowledgedIsSaved
<1>6. CASE Type(v)
  <2> DEFINE w == [view[v] EXCEPT !.typed = TRUE]
  <2>1. Becomes(v, w) /\ ~view[v].frozen /\ UNCHANGED review
    BY <1>3, <1>6 DEF Type, Becomes, serviceVars
  <2>2. SoundView(w) /\ (GuardedBy(view[v], attempt.by) => GuardedBy(w, attempt.by))
    BY <1>3, <2>1 DEF SoundView, GuardedBy, ViewType
  <2> HIDE DEF w
  <2> QED
    BY <1>1, <1>2, <1>4, <1>5, <2>1, <2>2, ViewFalls
<1>7. CASE Submit(v) \/ Refuse(v)
  <2> DEFINE s == [view[v] EXCEPT !.sending = TRUE]
  <2>1. UNCHANGED review
    BY <1>7 DEF Submit, Refuse
  <2>2. CASE Becomes(v, s) /\ view[v].typed
    <3>1. SoundView(s) /\ (GuardedBy(view[v], attempt.by) => GuardedBy(s, attempt.by))
      BY <1>3, <2>2 DEF SoundView, GuardedBy, ViewType
    <3> HIDE DEF s
    <3> QED
      BY <1>1, <1>2, <1>4, <1>5, <2>1, <2>2, <3>1, ViewFalls
  <2>3. CASE Becomes(v, Unsent(view[v]))
    BY <1>1, <1>2, <1>3, <1>4, <1>5, <2>1, <2>3, UnsentIsSound, ViewFalls
  <2>4. CASE Becomes(v, view[v])
    BY <1>1, <1>2, <1>3, <1>4, <1>5, <2>1, <2>4, ViewFalls
  <2> QED
    BY <1>3, <1>7, <2>2, <2>3, <2>4 DEF Submit, Refuse, Becomes
<1>8. CASE \E edit \in BOOLEAN : Land(v, edit)
  <2>1. PICK edit \in BOOLEAN : Land(v, edit)
    BY <1>8
  <2> DEFINE w == [view[v] EXCEPT !.typed = @ /\ ~view[v].sending, !.sending = FALSE]
  <2>2. Becomes(v, w)
    BY <1>3, <2>1 DEF Land, Becomes
  <2>3. SoundView(w) /\ (GuardedBy(view[v], attempt.by) => GuardedBy(w, attempt.by))
    BY <1>3 DEF SoundView, GuardedBy, ViewType
  <2>4. /\ review'.rev = review.rev + 1 /\ review'.gen = review.gen
        /\ review'.sync = IF edit THEN "saving" ELSE review.sync
        /\ review'.unsaved = (review.unsaved \/ edit)
    BY <2>1, CommitPieces DEF Land, ReviewType
  <2>5. review'.sync = "clean" => ~review'.unsaved
    BY <2>4 DEF CommitInv, AcknowledgedIsSaved
  <2>6. ReviewGrows
    BY <2>4, <2>5, CommitPieces DEF ReviewGrows
  <2> HIDE DEF w
  <2> QED
    BY <1>1, <1>2, <1>4, <2>2, <2>3, <2>6, ViewFalls
<1> QED
  BY <1>6, <1>7, <1>8

(* A save destination is chosen, and saved to.                             *)
LEMMA ChoiceKeepsCommits ==
  ASSUME Inv, CommitInv, Inv', NEW v \in Views, Choose(v) \/ ChoiceLands(v)
  PROVE  CommitInv'
<1>1. UNCHANGED <<presence, view, settle, installer>>
  BY DEF Choose, ChoiceLands, actorVars
<1>2. CalmSettle /\ JoinedShrinks /\ OnlyForward /\ ViewsStaySound
  BY <1>1, NoView DEF CalmSettle, JoinedShrinks, OnlyForward
<1>3. Falls
  BY FallsWays, FollowFalls DEF Choose, ChoiceLands, Admits, Falls
<1>4. /\ review'.rev = review.rev /\ review'.gen = review.gen /\ review'.unsaved = review.unsaved
      /\ review'.sync \in {review.sync, "saving"}
  BY CommitPieces DEF Choose, ChoiceLands, ReviewType
<1>5. ReviewGrows
  BY <1>4, CommitPieces DEF ReviewGrows, CommitInv, AcknowledgedIsSaved
<1> QED
  BY <1>2, <1>3, <1>5, CalmKeeps

-----------------------------------------------------------------------------
(* The tick.                                                               *)

(* What a view makes of a status keeps it sound; a guarded one is not      *)
(* released.                                                               *)
LEMMA FollowedIsSound ==
  ASSUME NEW w \in ViewType, SoundView(w), w.step \in {"polled", "settled"}, NEW by
  PROVE  /\ SoundView([Followed(w) EXCEPT !.reply = NoReply])
         /\ GuardedBy(w, by) => GuardedBy([Followed(w) EXCEPT !.reply = NoReply], by)
<1>1. CASE Protects(w)
  <2>0. /\ w.reply.phase \notin {"none", "preview", "canceled"}
        /\ ~(w.reply.phase = "committed" /\ w.reply.by = w.attempt)
    BY <1>1 DEF Protects
  <2> DEFINE step == IF w.protected = w.reply.by THEN "settle" ELSE "protecting"
  <2>1. Followed(w) = [w EXCEPT !.attempt = w.reply.by, !.frozen = TRUE, !.failed = FALSE,
                                !.step = step]
    BY <1>1, <2>0, Zenon DEF Followed
  <2> DEFINE f == [Followed(w) EXCEPT !.reply = NoReply]
  <2>2. /\ f.attempt = w.reply.by /\ f.frozen /\ ~f.failed /\ f.step = step
        /\ f.protected = w.protected /\ f.typed = w.typed /\ f.sending = w.sending
    BY <2>1 DEF ViewType
  <2> HIDE DEF f
  <2>3. SoundView(f)
    BY <2>1, <2>2 DEF SoundView
  <2>4. GuardedBy(w, by) => GuardedBy(f, by)
    BY <2>1, <2>2 DEF GuardedBy
  <2> QED
    BY <2>3, <2>4 DEF f
<1>2. CASE ~Protects(w) /\ w.reply.phase \in {"none", "preview", "canceled"}
  <2>1. Followed(w) =
          [w EXCEPT !.attempt = NoOne, !.protected = NoOne, !.frozen = FALSE, !.step = "idle"]
    BY <1>2, Zenon DEF Followed
  <2> DEFINE f == [Followed(w) EXCEPT !.reply = NoReply]
  <2>2. f.protected = NoOne /\ f.step = "idle"
    BY <2>1 DEF ViewType
  <2>3. ~GuardedBy(w, by)
    BY <1>2 DEF GuardedBy, Freezing
  <2> HIDE DEF f
  <2>4. SoundView(f)
    BY <2>2 DEF SoundView
  <2> QED
    BY <2>3, <2>4 DEF f
<1>3. CASE ~Protects(w) /\ w.reply.phase \notin {"none", "preview", "canceled"}
  <2> DEFINE f == [Followed(w) EXCEPT !.reply = NoReply]
  <2>1. PICK at : Followed(w) = [w EXCEPT !.at = at, !.step = "idle"]
    <3>1. CASE w.reply.phase = "committed" /\ w.reply.by = w.attempt
      BY <1>3, <3>1, Zenon DEF Followed
    <3>2. CASE ~(w.reply.phase = "committed" /\ w.reply.by = w.attempt)
      <4>1. Followed(w) = [w EXCEPT !.step = "idle"]
        BY <1>3, <3>2, Zenon DEF Followed
      <4>2. [w EXCEPT !.step = "idle"] = [w EXCEPT !.at = w.at, !.step = "idle"]
        BY DEF ViewType
      <4> QED
        BY <4>1, <4>2
    <3> QED
      BY <3>1, <3>2
  <2>2. /\ f.step = "idle" /\ f.protected = w.protected /\ f.frozen = w.frozen
        /\ f.typed = w.typed /\ f.sending = w.sending
    BY <2>1 DEF ViewType
  <2> HIDE DEF f
  <2>3. SoundView(f) /\ (GuardedBy(w, by) => GuardedBy(f, by))
    BY <2>2 DEF SoundView, GuardedBy
  <2> QED
    BY <2>3 DEF f
<1> QED
  BY <1>1, <1>2, <1>3

(* Of a commit, a connected view is told when it is guarded.               *)
LEMMA PollKeepsCommits ==
  ASSUME Inv, CommitInv, Inv', NEW v \in Views, Poll(v)
  PROVE  CommitInv'
<1> DEFINE a == Polled(v)
           w == [view[v] EXCEPT !.step = "polled", !.reply = Status(a, v)]
<1>1. /\ Follow(Entered(daemon), a) /\ UNCHANGED <<presence, review, settle, installer>>
      /\ view[v].at = "open"
      /\ view' = [view EXCEPT ![v].step = "polled", ![v].reply = Status(a, v)]
  BY DEF Poll
<1>2. view[v] \in ViewType /\ SoundView(view[v]) /\ v \in presence.joined
  BY <1>1, CommitPieces DEF CommitInv, ViewsAreSound, Inv, Linked
<1>3. Becomes(v, w)
  BY <1>1, <1>2, CommitPieces DEF Becomes
<1>4. a \in {attempt, Over(attempt.by)}
  BY FallsWays
<1>5. a.phase \in Freezing => a = attempt
  BY <1>4, OverFields DEF Freezing
<1>6. Status(a, v).phase = a.phase /\ Status(a, v).by = a.by
  BY DEF Status
<1> HIDE DEF a
<1>7. /\ w.protected = view[v].protected /\ w.frozen = view[v].frozen /\ w.typed = view[v].typed
      /\ w.sending = view[v].sending /\ w.step = "polled"
      /\ w.reply.phase = a.phase /\ w.reply.by = a.by
  BY <1>2, <1>6 DEF ViewType
<1> HIDE DEF w
<1>8. SoundView(w)
  <2>1. ASSUME a.phase = "committed" PROVE a.by # NoOne /\ w.protected = a.by
    <3>1. a = attempt /\ attempt.phase \in Freezing
      BY <1>5, <2>1 DEF Freezing
    <3>2. v \in attempt.acked
      BY <1>2, <2>1, <3>1 DEF CommitInv, CommittedIsAcknowledged
    <3>3. GuardedBy(view[v], attempt.by)
      BY <1>2, <3>1, <3>2 DEF CommitInv, AcknowledgedIsGuarded
    <3>4. attempt.by # NoOne
      BY <3>1, CommitPieces DEF CommitInv, BegunOnce, Live, Freezing
    <3> QED
      BY <1>7, <3>1, <3>3, <3>4 DEF GuardedBy
  <2> QED
    BY <1>2, <1>7, <2>1 DEF SoundView
<1>9. attempt' = a
  BY <1>1 DEF Follow
<1>10. attempt'.phase \in Freezing /\ GuardedBy(view[v], attempt.by) => GuardedBy(w, attempt.by)
  BY <1>5, <1>7, <1>9 DEF GuardedBy
<1>11. Falls /\ CalmSettle /\ JoinedShrinks /\ ReviewGrows
  BY <1>1, <1>4, FollowFalls, SameReview DEF CalmSettle
<1> QED
  BY <1>1, <1>3, <1>8, <1>10, <1>11, ViewFalls

(* The steps of a tick that the service does not take part in.             *)
LEMMA OwnTickKeepsCommits ==
  ASSUME Inv, CommitInv, Inv', NEW v \in Views,
         Receive(v) \/ LoseReply(v) \/ ProtectDone(v) \/ ProtectFails(v)
  PROVE  CommitInv'
<1>1. UNCHANGED <<serviceVars, settle, installer>>
  BY DEF Receive, LoseReply, ProtectDone, ProtectFails
<1>2. UNCHANGED <<attempt, presence, review>>
  BY <1>1 DEF serviceVars
<1>3. Falls /\ CalmSettle /\ JoinedShrinks /\ ReviewGrows
  BY <1>1, <1>2, SameReview DEF Falls, CalmSettle
<1>4. view \in [Views -> ViewType] /\ view[v] \in ViewType /\ SoundView(view[v])
  BY CommitPieces DEF CommitInv, ViewsAreSound
<1> SUFFICES \E w : /\ Becomes(v, w) /\ SoundView(w)
                    /\ GuardedBy(view[v], attempt.by) => GuardedBy(w, attempt.by)
  BY <1>1, <1>3, ViewFalls
<1>5. CASE Receive(v)
  <2>1. Becomes(v, [Followed(view[v]) EXCEPT !.reply = NoReply])
        /\ view[v].step \in {"polled", "settled"}
    BY <1>5 DEF Receive, Becomes
  <2> QED
    BY <1>4, <2>1, FollowedIsSound
<1>6. CASE LoseReply(v)
  <2> DEFINE w == [view[v] EXCEPT !.step = "idle", !.reply = NoReply]
  <2>1. Becomes(v, w)
    BY <1>4, <1>6 DEF LoseReply, Becomes
  <2>2. SoundView(w) /\ (GuardedBy(view[v], attempt.by) => GuardedBy(w, attempt.by))
    BY <1>4 DEF SoundView, GuardedBy, ViewType
  <2> HIDE DEF w
  <2> QED
    BY <2>1, <2>2
<1>7. CASE ProtectDone(v)
  <2> DEFINE w == [view[v] EXCEPT !.protected = view[v].attempt, !.step = "settle"]
  <2>1. Becomes(v, w) /\ view[v].step = "protecting" /\ ~view[v].typed /\ ~view[v].sending
    BY <1>4, <1>7 DEF ProtectDone, Becomes
  <2>2. SoundView(w) /\ ~GuardedBy(view[v], attempt.by)
    BY <1>4, <2>1 DEF SoundView, GuardedBy, ViewType
  <2> HIDE DEF w
  <2> QED
    BY <2>1, <2>2
<1>8. CASE ProtectFails(v)
  <2> DEFINE w == [view[v] EXCEPT !.failed = TRUE, !.step = "settle"]
  <2>1. Becomes(v, w) /\ view[v].step = "protecting"
    BY <1>4, <1>8 DEF ProtectFails, Becomes
  <2>2. SoundView(w) /\ ~GuardedBy(view[v], attempt.by)
    BY <1>4, <2>1 DEF SoundView, GuardedBy, ViewType
  <2> HIDE DEF w
  <2> QED
    BY <2>1, <2>2
<1> QED
  BY <1>5, <1>6, <1>7, <1>8

(* A view whose settlement starts is protected for the attempt.            *)
LEMMA StartKeepsCommits ==
  ASSUME Inv, CommitInv, Inv', NEW v \in Views, StartSettle(v)
  PROVE  CommitInv'
<1> DEFINE current == /\ v \in presence.joined /\ view[v].attempt = attempt.by
                      /\ attempt.phase \in {"preparing", "ready"}
<1>1. UNCHANGED <<presence, review, installer>> /\ view[v].step = "settle"
  BY DEF StartSettle
<1>2. JoinedShrinks /\ ReviewGrows /\ OnlyForward
  BY <1>1, SameReview DEF OnlyForward
<1>3. view \in [Views -> ViewType] /\ view[v] \in ViewType /\ SoundView(view[v])
  BY CommitPieces DEF CommitInv, ViewsAreSound
<1>4. CASE current /\ ~view[v].failed
  <2> DEFINE w == [view[v] EXCEPT !.step = "settling"]
  <2>1. /\ UNCHANGED attempt /\ settle' = [settle EXCEPT ![v] = view[v].attempt]
        /\ view' = [view EXCEPT ![v].step = "settling"]
    BY <1>4, Zenon DEF StartSettle
  <2>2. \A u \in Views : /\ settle'[u] = IF u = v THEN attempt.by ELSE settle[u]
                         /\ view'[u] = IF u = v THEN w ELSE view[u]
    BY <1>3, <1>4, <2>1, CommitPieces
  <2>3. SoundView(w) /\ GuardedBy(w, attempt.by)
    BY <1>1, <1>3, <1>4 DEF SoundView, GuardedBy, ViewType
  <2> HIDE DEF w
  <2>4. ViewsAreSound'
    BY <2>2, <2>3 DEF CommitInv, ViewsAreSound
  <2>5. BegunOnce'
    BY <1>1, <1>4, <2>1, <2>2 DEF CommitInv, BegunOnce, Freezing
  <2>6. AcknowledgedIsGuarded'
    BY <1>1, <2>1, <2>2, <2>3, CommitPieces DEF CommitInv, AcknowledgedIsGuarded
  <2>7. AcknowledgedIsSaved' /\ CommittedIsAcknowledged'
    BY <1>1, <2>1 DEF CommitInv, AcknowledgedIsSaved, CommittedIsAcknowledged, Revision
  <2> QED
    BY <2>4, <2>5, <2>6, <2>7 DEF CommitInv
<1>5. CASE current /\ view[v].failed
  <2> DEFINE w == [view[v] EXCEPT !.step = "settled", !.reply = Status(attempt', v)]
  <2>1. /\ Follow(Entered(daemon), Invalidated(attempt)) /\ UNCHANGED settle
        /\ view' = [view EXCEPT ![v].step = "settled", ![v].reply = Status(attempt', v)]
    BY <1>5, Zenon DEF StartSettle
  <2>2. attempt' = Over(attempt.by)
    BY <1>5, <2>1 DEF Follow, Invalidated, Live
  <2>3. attempt'.phase = "canceled" /\ Status(attempt', v).phase = "canceled"
    BY <2>2, OverFields DEF Status
  <2>4. Becomes(v, w)
    BY <1>3, <2>1 DEF Becomes
  <2>5. SoundView(w)
    BY <1>3, <2>3 DEF SoundView, ViewType
  <2> HIDE DEF w
  <2>6. Falls /\ CalmSettle
    BY <2>1, <2>2 DEF Falls, CalmSettle
  <2> QED
    BY <1>1, <1>2, <2>3, <2>4, <2>5, <2>6, ViewFalls DEF Freezing
<1>6. CASE ~current
  <2> DEFINE w == [view[v] EXCEPT !.step = "idle"]
  <2>1. view' = [view EXCEPT ![v].step = "idle"] /\ UNCHANGED <<attempt, settle>>
    BY <1>6, Zenon DEF StartSettle
  <2>2. Becomes(v, w)
    BY <1>3, <2>1 DEF Becomes
  <2>3. SoundView(w) /\ (GuardedBy(view[v], attempt.by) => GuardedBy(w, attempt.by))
    BY <1>3 DEF SoundView, GuardedBy, ViewType
  <2> HIDE DEF w
  <2>4. Falls /\ CalmSettle
    BY <2>1 DEF Falls, CalmSettle
  <2> QED
    BY <1>1, <1>2, <2>2, <2>3, <2>4, ViewFalls
<1> QED
  BY <1>4, <1>5, <1>6

-----------------------------------------------------------------------------
(* The end of a settlement.                                                *)

(* The answer of a settlement tells of no commit, and of the attempt only. *)
LEMMA FinishedIsSound ==
  ASSUME Inv, CommitInv, NEW p \in Participants, NEW answered \in BOOLEAN, NEW a,
         Finished(p, answered, a),
         answered => a.phase # "committed" /\ a.by = attempt.by,
         answered /\ attempt'.phase \in Freezing => a.phase \in Freezing
  PROVE  ViewsStaySound
<1>1. CASE p \in Views /\ view[p].step = "settling"
  <2> DEFINE step == IF answered THEN "settled" ELSE "idle"
             reply == IF answered THEN Status(a, p) ELSE NoReply
             w == [view[p] EXCEPT !.step = step, !.reply = reply]
  <2>1. view[p] \in ViewType /\ SoundView(view[p]) /\ view \in [Views -> ViewType]
    BY <1>1, CommitPieces DEF CommitInv, ViewsAreSound
  <2>2. view' = [view EXCEPT ![p] = w]
    BY <1>1, <2>1 DEF Finished
  <2>3. /\ answered => step = "settled" /\ reply.phase = a.phase /\ reply.by = a.by
        /\ ~answered => step = "idle"
    BY DEF Status
  <2> HIDE DEF step, reply
  <2>4. /\ w.step = step /\ w.reply = reply /\ w.protected = view[p].protected
        /\ w.frozen = view[p].frozen /\ w.typed = view[p].typed /\ w.sending = view[p].sending
    BY <2>1 DEF ViewType
  <2> HIDE DEF w
  <2>5. SoundView(w)
    BY <2>1, <2>3, <2>4 DEF SoundView
  <2>6. attempt'.phase \in Freezing /\ GuardedBy(view[p], attempt.by) => GuardedBy(w, attempt.by)
    BY <2>3, <2>4 DEF GuardedBy
  <2> QED
    BY <1>1, <2>2, <2>5, <2>6, OneView
<1>2. CASE ~(p \in Views /\ view[p].step = "settling")
  BY <1>2, NoView DEF Finished
<1> QED
  BY <1>1, <1>2

(* What an acknowledgement makes of an attempt that it does not end.       *)
LEMMA AcknowledgedFields ==
  ASSUME Inv, NEW p \in Participants
  PROVE  LET b == [AskedAgain(attempt) EXCEPT !.acked = @ \cup {p}] IN
           /\ Acknowledged(attempt, p) \in {Invalidated(attempt), Prepared(b)}
           /\ Prepared(b).phase \in {"preparing", "ready"} /\ Prepared(b).by = attempt.by
           /\ Prepared(b).acked = (attempt.acked \ Moved(attempt)) \cup {p}
           /\ \A q \in Participants :
                Prepared(b).known[q] = IF q \in Moved(attempt) THEN Revision(q) ELSE attempt.known[q]
<1> DEFINE r == Relearned(attempt, Moved(attempt))
           b == [AskedAgain(attempt) EXCEPT !.acked = @ \cup {p}]
<1>1. ServiceOK /\ attempt \in AttemptType
  BY DEF Inv, ServiceOK
<1>2. /\ r \in AttemptType /\ r.by = attempt.by /\ r.acked = attempt.acked
      /\ \A q \in Participants :
           r.known[q] = IF q \in Moved(attempt) THEN Revision(q) ELSE attempt.known[q]
  <2>1. r \in AttemptType
    BY <1>1, RelearnedTyped
  <2> QED
    BY <1>1, <2>1 DEF Relearned, AttemptType
<1>3. AskedAgain(attempt) = [r EXCEPT !.acked = @ \ Moved(attempt)]
  BY DEF AskedAgain
<1> HIDE DEF r
<1>4. /\ b \in AttemptType /\ b.by = attempt.by /\ b.known = r.known
      /\ b.acked = (attempt.acked \ Moved(attempt)) \cup {p}
  BY <1>2, <1>3 DEF AttemptType
<1>5. Acknowledged(attempt, p) \in {Invalidated(attempt), Prepared(b)}
  BY DEF Acknowledged
<1> HIDE DEF b
<1>6. /\ Prepared(b).phase \in {"preparing", "ready"} /\ Prepared(b).by = b.by
      /\ Prepared(b).acked = b.acked /\ Prepared(b).known = b.known
  BY <1>4 DEF Prepared, AttemptType
<1>7. \A q \in Participants :
        Prepared(b).known[q] = IF q \in Moved(attempt) THEN Revision(q) ELSE attempt.known[q]
  BY <1>2, <1>4, <1>6
<1>8. Prepared(b).acked = (attempt.acked \ Moved(attempt)) \cup {p} /\ Prepared(b).by = attempt.by
  BY <1>4, <1>6
<1> QED
  BY <1>5, <1>6, <1>7, <1>8 DEF b

(* A view is acknowledged when it was guarded, and its review is saved.    *)
LEMMA AcknowledgedKeepsCommits ==
  ASSUME Inv, CommitInv, Inv', NEW p \in Participants, Settling(p),
         UNCHANGED <<presence, review, installer>>, CalmSettle, settle'[p] = NoOne, ViewsStaySound,
         p \in Views => review.sync = "clean",
         attempt'.phase \in {"preparing", "ready"}, attempt'.by = attempt.by,
         attempt'.acked = (attempt.acked \ Moved(attempt)) \cup {p},
         \A q \in Participants :
           attempt'.known[q] = IF q \in Moved(attempt) THEN Revision(q) ELSE attempt.known[q]
  PROVE  CommitInv'
<1>1. /\ attempt.phase \in Freezing /\ attempt.by \in Installers /\ settle[p] = attempt.by
      /\ attempt.by # NoOne /\ attempt.by # Stale
  BY CommitPieces DEF Settling, CommitInv, BegunOnce, Live, Freezing
<1>2. ViewsAreSound'
  BY DEF ViewsStaySound, ViewsAreSound
<1>3. BegunOnce'
  <2>1. \A i \in Installers, v \in Views : installer'[i].pc \in Fresh => settle'[v] # i
    BY CommitPieces DEF CommitInv, BegunOnce, CalmSettle
  <2> QED
    BY <1>1, <2>1 DEF CommitInv, BegunOnce
<1>4. AcknowledgedIsGuarded'
  <2> SUFFICES ASSUME NEW v \in presence.joined, v \in attempt'.acked \/ settle'[v] = attempt.by
               PROVE  GuardedBy(view'[v], attempt.by)
    BY DEF AcknowledgedIsGuarded
  <2>1. v \in Views /\ (settle'[v] = attempt.by => settle[v] = attempt.by)
    BY <1>1, CommitPieces DEF CalmSettle
  <2>2. v \in attempt.acked \/ settle[v] = attempt.by
    BY <1>1, <2>1
  <2>3. GuardedBy(view[v], attempt.by)
    BY <1>1, <2>2 DEF CommitInv, AcknowledgedIsGuarded
  <2> QED
    BY <2>1, <2>3 DEF ViewsStaySound, Freezing
<1>5. AcknowledgedIsSaved'
  <2>1. \A v \in Views : Revision(v).rev = review.rev /\ Revision(v).gen = review.gen
    BY CommitPieces DEF Revision
  <2>2. \A v \in Views : attempt'.known[v].rev <= review.rev /\ attempt'.known[v].gen <= review.gen
    <3> TAKE v \in Views
    <3>1. attempt'.known[v] \in {Revision(v), attempt.known[v]}
      BY CommitPieces
    <3> QED
      BY <2>1, <3>1, CommitPieces DEF CommitInv, AcknowledgedIsSaved
  <2>3. ASSUME NEW v \in presence.joined, v \in attempt'.acked
        PROVE  ~review.unsaved
    <3>1. CASE v = p
      BY <3>1, CommitPieces DEF CommitInv, AcknowledgedIsSaved
    <3>2. CASE v # p
      <4>1. v \in attempt.acked /\ attempt.known[v] = Revision(v)
        BY <2>3, <3>2 DEF Moved, Registered
      <4> QED
        BY <1>1, <4>1 DEF CommitInv, AcknowledgedIsSaved
    <3> QED
      BY <3>1, <3>2
  <2> QED
    BY <2>2, <2>3 DEF CommitInv, AcknowledgedIsSaved
<1>6. CommittedIsAcknowledged'
  BY DEF CommittedIsAcknowledged
<1> QED
  BY <1>2, <1>3, <1>4, <1>5, <1>6 DEF CommitInv

(* A settlement ends: its attempt counts it, or is over.                   *)
LEMMA SettleKeepsCommits ==
  ASSUME Inv, CommitInv, Inv', NEW p \in Participants, EndSettle(p) \/ FailSettle(p)
  PROVE  CommitInv'
<1>1. PICK saved \in BOOLEAN : /\ SettledAs(p, saved)
                               /\ saved /\ p \in Views => review.sync = "clean"
  <2>1. CASE EndSettle(p)
    <3>1. review.sync \in {"clean", "saving", "failed"}
      BY CommitPieces DEF ReviewType
    <3> QED
      BY <2>1, <3>1, CommitPieces DEF EndSettle, Protectable, Saving
  <2>2. CASE FailSettle(p)
    BY <2>2 DEF FailSettle
  <2> QED
    BY <2>1, <2>2
<1> DEFINE a == IF saved THEN Acknowledged(attempt, p) ELSE Invalidated(attempt)
           answered == Settling(p) /\ (saved => Live(a))
<1>2. /\ settle' = [settle EXCEPT ![p] = NoOne] /\ UNCHANGED <<presence, review, installer>>
      /\ Settling(p) => attempt' = a
      /\ ~Settling(p) => UNCHANGED attempt
      /\ Finished(p, answered, a)
  BY <1>1 DEF SettledAs, Follow
<1>3. CalmSettle /\ settle'[p] = NoOne /\ OnlyForward /\ JoinedShrinks /\ ReviewGrows
  BY <1>2, CommitPieces, SameReview DEF CalmSettle, OnlyForward
<1> DEFINE b == Prepared([AskedAgain(attempt) EXCEPT !.acked = @ \cup {p}])
<1>4. /\ a \in {Invalidated(attempt), b} /\ (saved \/ a = Invalidated(attempt))
      /\ b.phase \in {"preparing", "ready"} /\ b.by = attempt.by
      /\ b.acked = (attempt.acked \ Moved(attempt)) \cup {p}
      /\ \A q \in Participants :
           b.known[q] = IF q \in Moved(attempt) THEN Revision(q) ELSE attempt.known[q]
  BY AcknowledgedFields
<1> HIDE DEF a, b
<1>5. Settling(p) => Invalidated(attempt) = Over(attempt.by)
  BY DEF Settling, Invalidated, Live
<1>6. Settling(p) => a.phase # "committed" /\ a.by = attempt.by
  BY <1>4, <1>5, OverFields
<1>7. ViewsStaySound
  <2>1. answered /\ attempt'.phase \in Freezing => a.phase \in Freezing
    BY <1>2
  <2>2. answered \in BOOLEAN /\ (answered => Settling(p))
    OBVIOUS
  <2> HIDE DEF answered
  <2> QED
    BY <1>2, <1>6, <2>1, <2>2, FinishedIsSound
<1>8. CASE Settling(p) /\ a # Invalidated(attempt)
  <2>1. a = b /\ attempt' = b /\ (p \in Views => review.sync = "clean")
    BY <1>1, <1>2, <1>4, <1>8
  <2> QED
    BY <1>2, <1>3, <1>4, <1>7, <1>8, <2>1, AcknowledgedKeepsCommits
<1>9. CASE ~(Settling(p) /\ a # Invalidated(attempt))
  <2>1. Falls
    BY <1>2, <1>5, <1>9 DEF Falls
  <2> QED
    BY <1>3, <1>7, <2>1, CalmKeeps
<1> QED
  BY <1>8, <1>9

(* In the beginning there is no attempt.                                   *)
LEMMA InitCommit == Init => CommitInv
<1> SUFFICES ASSUME Init PROVE CommitInv
  OBVIOUS
<1>1. Inv
  BY InitInv
<1>2. PICK opening \in Openings :
        /\ review.sync = "clean" /\ review.unsaved = FALSE
        /\ view = [v \in Views |-> NewView(CASE v \in opening.connected -> "open"
                                              [] v \in opening.launched \ opening.connected -> "absent"
                                              [] OTHER -> "left")]
  BY DEF Init
<1>3. ViewsAreSound
  BY <1>2, NewViewSound DEF ViewsAreSound
<1>4. attempt.phase = "none" /\ \A v \in Views : attempt.known[v] = Unknown
  <2>1. Over(NoOne) \in AttemptType
    BY OverTyped
  <2> QED
    BY <2>1, OverFields, CommitPieces, <1>1 DEF Init, AttemptType
<1>5. \A v \in Views : settle[v] = NoOne
  BY <1>1, CommitPieces DEF Init
<1>6. BegunOnce
  BY <1>1, <1>4, <1>5, CommitPieces DEF BegunOnce, Live, Freezing
<1>7. AcknowledgedIsSaved
  BY <1>1, <1>2, <1>4, CommitPieces DEF AcknowledgedIsSaved, Unknown, Freezing
<1> QED
  BY <1>3, <1>4, <1>6, <1>7
     DEF CommitInv, AcknowledgedIsGuarded, CommittedIsAcknowledged, Freezing

(* Every step keeps it.                                                    *)
LEMMA NextKeepsCommits == Inv /\ CommitInv /\ [Next]_vars => CommitInv'
<1> SUFFICES ASSUME Inv, CommitInv, [Next]_vars PROVE CommitInv'
  OBVIOUS
<1>1. Inv'
  BY NextKeepsInv
<1>2. CASE UNCHANGED vars
  BY <1>2 DEF vars, serviceVars, actorVars, CommitInv, ViewsAreSound, BegunOnce,
              AcknowledgedIsGuarded, AcknowledgedIsSaved, CommittedIsAcknowledged, Revision
<1>3. CASE \E i \in Installers : InstallerStep(i) \/ CallStep(i)
  BY <1>1, <1>3, CalmInstallerKeeps, PreviewKeepsCommits, BeginKeepsCommits, CommitKeepsCommits,
     CallKeepsCommits DEF InstallerStep
<1>4. CASE ReviewStep
  <2>1. TimersAndTasks \/ Successor \/ \E p \in Participants : EndSettle(p) \/ FailSettle(p)
    BY <1>4 DEF ReviewStep, TimersAndTasks
  <2> QED
    BY <1>1, <2>1, TimersKeepCommits, SuccessorKeepsCommits, SettleKeepsCommits
<1>5. CASE \E v \in Views : ViewStep(v)
  BY <1>1, <1>5, ConnectionKeepsCommits, InputKeepsCommits, ChoiceKeepsCommits, PollKeepsCommits,
     OwnTickKeepsCommits, StartKeepsCommits DEF ViewStep
<1> QED
  BY <1>2, <1>3, <1>4, <1>5 DEF Next

(* Only the last look at the revisions commits an attempt.                 *)
LEMMA OnlyCommitCommits ==
  ASSUME Inv, Next, attempt.phase # "committed", attempt'.phase = "committed"
  PROVE  \E i \in Installers : /\ Commit(i) /\ Refreshed = attempt
                               /\ attempt.by = i /\ attempt.phase = "ready" /\ Ready(attempt)
<1>1. attempt \in AttemptType /\ Over(attempt.by).phase = "canceled"
  BY CommitPieces, OverFields
<1>2. ~Falls
  BY <1>1 DEF Falls
<1>3. ASSUME NEW i \in Installers, InstallerStep(i), ~Commit(i) PROVE FALSE
  <2>1. CASE Preview(i)
    <3>1. Live(Refreshed) \/ attempt' = Previewed(i)
      BY <2>1 DEF Preview
    <3>2. CASE Live(Refreshed)
      BY <1>2, <2>1, <3>2, FallsWays, FollowFalls DEF Preview
    <3>3. CASE attempt' = Previewed(i)
      <4>1. Relearned(Over(i), Registered) \in AttemptType
        BY OverTyped, RelearnedTyped DEF Inv
      <4> QED
        BY <3>3, <4>1 DEF Previewed, AttemptType
    <3> QED
      BY <3>1, <3>2, <3>3
  <2>2. CASE \E consent \in BOOLEAN : Begin(i, consent)
    <3>1. \/ \E a \in {Refreshed} : attempt' = Prepared(a)
          \/ Falls
      BY <2>2, FallsWays, InvalidatedAgain, FollowFalls DEF Begin
    <3>2. PICK a \in AttemptType : attempt' = Prepared(a)
      BY <1>1, <1>2, <3>1, FallsWays, OverTyped DEF AttemptType
    <3> QED
      BY <3>2, PreparedTyped
  <2>3. CASE \/ Inspect(i) \/ AwaitReady(i) \/ Validate(i) \/ Shutdown(i) \/ Cancel(i)
             \/ GiveUp(i) \/ Stop(i) \/ Replace(i)
    BY <1>2, <2>3, FallsWays, InvalidatedAgain, FollowFalls DEF Inspect, AwaitReady, Validate,
       Shutdown, Cancel, GiveUp, Stop, Replace, serviceVars, Falls
  <2> QED
    BY <1>3, <2>1, <2>2, <2>3 DEF InstallerStep
<1>4. ASSUME NEW i \in Installers, CallStep(i) PROVE FALSE
  <2>1. CASE RetireMetadata(i)
    BY <1>1, <1>2, <2>1 DEF RetireMetadata, Falls
  <2>2. CASE ~RetireMetadata(i)
    BY <1>2, <1>4, <2>2, FallsWays, FollowFalls
       DEF CallStep, EndDrain, FailDrain, ClosePanels, RevokeTasks, Falls
  <2> QED
    BY <2>1, <2>2
<1>5. CASE ReviewStep
  <2>1. CASE \E p \in Participants : EndSettle(p) \/ FailSettle(p)
    <3>1. PICK p \in Participants, saved \in BOOLEAN : SettledAs(p, saved)
      BY <2>1 DEF EndSettle, FailSettle
    <3>2. CASE Settling(p)
      <4>1. attempt' \in {Acknowledged(attempt, p), Invalidated(attempt)}
        BY <3>1, <3>2 DEF SettledAs, Follow
      <4>2. Invalidated(attempt) \in {attempt, Over(attempt.by)}
        BY FallsWays
      <4> QED
        BY <1>2, <4>1, <4>2, AcknowledgedFields DEF Falls
    <3>3. CASE ~Settling(p)
      BY <1>2, <3>1, <3>3 DEF SettledAs, Falls
    <3> QED
      BY <3>2, <3>3
  <2>2. CASE ~ \E p \in Participants : EndSettle(p) \/ FailSettle(p)
    BY <1>2, <1>5, <2>2, FallsWays, FollowFalls DEF ReviewStep, Expire, CloseHost, SaveDone,
       SaveFails, Successor, BindTask, EndTask, ExpireGrace, Falls
  <2> QED
    BY <2>1, <2>2
<1>6. ASSUME NEW v \in Views, ViewStep(v) PROVE FALSE
  <2>1. CASE Submit(v) \/ Choose(v)
    BY <1>2, <2>1, FallsWays, FollowFalls DEF Submit, Choose, Admits
  <2>2. CASE StartSettle(v)
    BY <1>2, <2>2, FallsWays, FollowFalls DEF StartSettle, Falls
  <2>3. CASE ~(Submit(v) \/ Choose(v) \/ StartSettle(v))
    BY <1>2, <1>6, <2>3, FallsWays, FollowFalls DEF ViewStep, Open, ExpireBootstrap, Exchange,
       Connect, Disconnect, NoticeClosed, Unregistered, Type, Land, Refuse, ChoiceLands, Poll,
       Receive, LoseReply, ProtectDone, ProtectFails, serviceVars, Falls
  <2> QED
    BY <2>1, <2>2, <2>3
<1>7. PICK i \in Installers : Commit(i)
  BY <1>3, <1>4, <1>5, <1>6 DEF Next
<1>8. Refreshed.by = i /\ Refreshed.phase = "ready" /\ Ready(Refreshed)
  BY <1>2, <1>7, FallsWays, FollowFalls DEF Commit
<1>9. Refreshed = attempt
  BY <1>8, FallsWays, OverFields
<1> QED
  BY <1>7, <1>8, <1>9

(* A view that closes itself was told of a commit.                         *)
LEMMA ReceiveCloses ==
  ASSUME NEW w \in ViewType, w.at \in {"open", "page"},
         [Followed(w) EXCEPT !.reply = NoReply].at \in {"closing", "closed"}
  PROVE  w.reply.phase = "committed"
<1> SUFFICES ASSUME w.reply.phase # "committed"
             PROVE  [Followed(w) EXCEPT !.reply = NoReply].at = w.at
  OBVIOUS
<1>1. CASE Protects(w)
  <2>1. w.reply.phase \notin {"none", "preview", "canceled"}
    BY <1>1 DEF Protects
  <2> DEFINE step == IF w.protected = w.reply.by THEN "settle" ELSE "protecting"
  <2>2. Followed(w) = [w EXCEPT !.attempt = w.reply.by, !.frozen = TRUE, !.failed = FALSE,
                                !.step = step]
    BY <1>1, <2>1, Zenon DEF Followed
  <2> HIDE DEF step
  <2> QED
    BY <2>2 DEF ViewType
<1>2. CASE ~Protects(w) /\ w.reply.phase \in {"none", "preview", "canceled"}
  <2>1. Followed(w) =
          [w EXCEPT !.attempt = NoOne, !.protected = NoOne, !.frozen = FALSE, !.step = "idle"]
    BY <1>2, Zenon DEF Followed
  <2> QED
    BY <2>1 DEF ViewType
<1>3. CASE ~Protects(w) /\ w.reply.phase \notin {"none", "preview", "canceled"}
  <2>1. Followed(w) = [w EXCEPT !.step = "idle"]
    BY <1>3, Zenon DEF Followed
  <2> QED
    BY <2>1 DEF ViewType
<1> QED
  BY <1>1, <1>2, <1>3

(* No other step takes a page to where it has closed.                      *)
LEMMA ElsewhereStaysOpen ==
  ASSUME Inv, NEW v \in Views, Here(v), view'[v] = view[v]
  PROVE  view'[v].at \notin {"closing", "closed"}
BY DEF Here

(* Only the answer that the attempt is committed closes a view.            *)
LEMMA OnlyReceiveCloses ==
  ASSUME Inv, Next, NEW v \in Views, Here(v), view'[v].at \in {"closing", "closed"}
  PROVE  Receive(v) /\ view[v].reply.phase = "committed"
<1>1. view \in [Views -> ViewType] /\ view[v] \in ViewType /\ view[v].at \in {"open", "page"}
  BY CommitPieces DEF Here
<1>2. view'[v] # view[v]
  BY ElsewhereStaysOpen
<1>3. CASE \E i \in Installers : InstallerStep(i) \/ CallStep(i)
  <2>1. UNCHANGED view
    BY <1>3 DEF InstallerStep, Inspect, Preview, Begin, AwaitReady, Commit, Validate, Shutdown,
       Cancel, GiveUp, Stop, Replace, CallStep, EndDrain, FailDrain, RetireMetadata, ClosePanels,
       RevokeTasks
  <2> QED
    BY <1>2, <2>1
<1>4. CASE ReviewStep
  <2>1. CASE \E p \in Participants : EndSettle(p) \/ FailSettle(p)
    <3>1. PICK p \in Participants, saved \in BOOLEAN : SettledAs(p, saved)
      BY <2>1 DEF EndSettle, FailSettle
    <3> DEFINE a == IF saved THEN Acknowledged(attempt, p) ELSE Invalidated(attempt)
               answered == Settling(p) /\ (saved => Live(a))
    <3>2. Finished(p, answered, a)
      BY <3>1 DEF SettledAs
    <3> HIDE DEF a, answered
    <3> DEFINE step == IF answered THEN "settled" ELSE "idle"
               reply == IF answered THEN Status(a, p) ELSE NoReply
    <3>3. \/ UNCHANGED view
          \/ p \in Views /\ view' = [view EXCEPT ![p].step = step, ![p].reply = reply]
      BY <3>2 DEF Finished
    <3> HIDE DEF step, reply
    <3>4. view'[v].at = view[v].at
      BY <1>1, <3>3 DEF ViewType
    <3> QED
      BY <1>1, <3>4
  <2>2. CASE Successor
    <3>1. view'[v] = view[v]
      BY <1>1, <2>2 DEF Successor
    <3> QED
      BY <1>2, <3>1
  <2>3. CASE TimersAndTasks
    <3>1. UNCHANGED view
      BY <2>3 DEF TimersAndTasks, Expire, CloseHost, SaveDone, SaveFails, BindTask, EndTask,
         ExpireGrace, actorVars
    <3> QED
      BY <1>2, <3>1
  <2> QED
    BY <1>4, <2>1, <2>2, <2>3 DEF ReviewStep, TimersAndTasks
<1>5. ASSUME NEW u \in Views, ViewStep(u) PROVE Receive(v) /\ view[v].reply.phase = "committed"
  <2>1. PICK w : \/ UNCHANGED view
                 \/ view' = [view EXCEPT ![u] = w]
    <3>1. CASE Submit(u) \/ Refuse(u)
      BY <1>1, <3>1 DEF Submit, Refuse
    <3>2. CASE StartSettle(u)
      BY <1>1, <3>2 DEF StartSettle
    <3>3. CASE Choose(u) \/ ChoiceLands(u)
      BY <3>3 DEF Choose, ChoiceLands, actorVars
    <3>4. CASE Disconnect(u) \/ NoticeClosed(u) \/ Open(u) \/ ExpireBootstrap(u) \/ Exchange(u) \/ Connect(u)
      BY <1>1, <3>4 DEF Disconnect, NoticeClosed, Open, ExpireBootstrap, Exchange, Connect
    <3>5. CASE Type(u) \/ (\E edit \in BOOLEAN : Land(u, edit))
      <4>1. CASE Type(u)
        BY <1>1, <4>1 DEF Type
      <4>2. ASSUME NEW edit \in BOOLEAN, Land(u, edit)
            PROVE  \E w : view' = [view EXCEPT ![u] = w]
        BY <1>1, <4>2 DEF Land
      <4> QED
        BY <3>5, <4>1, <4>2
    <3>6. CASE Poll(u) \/ Receive(u) \/ LoseReply(u) \/ ProtectDone(u) \/ ProtectFails(u)
      BY <1>1, <3>6 DEF Poll, Receive, LoseReply, ProtectDone, ProtectFails
    <3> QED
      BY <1>5, <3>1, <3>2, <3>3, <3>4, <3>5, <3>6 DEF ViewStep
  <2>2. u = v
    BY <1>1, <1>2, <2>1
  <2>3. CASE Receive(v)
    <3>1. view'[v] = [Followed(view[v]) EXCEPT !.reply = NoReply]
      BY <1>1, <2>3 DEF Receive
    <3> QED
      BY <1>1, <2>3, <3>1, ReceiveCloses
  <2>4. CASE ~Receive(v)
    <3>1. view'[v].at \in {view[v].at, "opening", "page", "open", "left"}
      <4>1. CASE Submit(v) \/ Refuse(v)
        <5>1. Unsent(view[v]).at = view[v].at /\ [view[v] EXCEPT !.sending = TRUE].at = view[v].at
          BY <1>1 DEF Unsent, ViewType
        <5>2. view'[v] \in {view[v], Unsent(view[v]), [view[v] EXCEPT !.sending = TRUE]}
          BY <1>1, <4>1 DEF Submit, Refuse
        <5> QED
          BY <5>1, <5>2
      <4>2. CASE StartSettle(v)
        BY <1>1, <4>2 DEF StartSettle, ViewType
      <4>3. CASE Choose(v) \/ ChoiceLands(v)
        BY <4>3 DEF Choose, ChoiceLands, actorVars
      <4>4. CASE Disconnect(v) \/ ExpireBootstrap(v)
        BY <1>1, <4>4, NewViewSound DEF Disconnect, ExpireBootstrap, ViewType
      <4>5. CASE Open(v) \/ Exchange(v) \/ Connect(v)
        BY <1>1, <4>5 DEF Open, Exchange, Connect, ViewType
      <4>6. CASE Type(v) \/ (\E edit \in BOOLEAN : Land(v, edit))
        <5>1. PICK typed, sending : view' = [view EXCEPT ![v].typed = typed, ![v].sending = sending]
          <6>1. CASE Type(v)
            <7>1. view' = [view EXCEPT ![v].typed = TRUE, ![v].sending = view[v].sending]
              BY <1>1, <6>1 DEF Type, ViewType
            <7> QED
              BY <7>1
          <6>2. CASE \E edit \in BOOLEAN : Land(v, edit)
            BY <6>2 DEF Land
          <6> QED
            BY <4>6, <6>1, <6>2
        <5> QED
          BY <1>1, <5>1 DEF ViewType
      <4>7. CASE Poll(v) \/ LoseReply(v)
        BY <1>1, <4>7 DEF Poll, LoseReply, ViewType
      <4>8. CASE ProtectDone(v) \/ ProtectFails(v)
        BY <1>1, <4>8 DEF ProtectDone, ProtectFails, ViewType
      <4>9. ~NoticeClosed(v)
        BY <1>1 DEF NoticeClosed
      <4> QED
        BY <1>5, <2>2, <2>4, <4>1, <4>2, <4>3, <4>4, <4>5, <4>6, <4>7, <4>8, <4>9 DEF ViewStep
    <3> QED
      BY <1>1, <3>1
  <2> QED
    BY <2>3, <2>4
<1> QED
  BY <1>3, <1>4, <1>5 DEF Next

(* An attempt commits with everybody's acknowledgement of the revision the *)
(* review has, nothing typed that was not accepted, and nothing unsaved.   *)
THEOREM CommitsAreCurrent == Spec => CommitIsCurrent
<1> DEFINE Current ==
      attempt.phase # "committed" /\ attempt'.phase = "committed" =>
        /\ Registered \subseteq attempt'.acked
        /\ \A p \in Registered : attempt'.known[p] = Revision(p)
        /\ \A v \in presence.joined : ~view[v].typed /\ ~view[v].sending
        /\ presence.joined # {} => ~review.unsaved
<1>1. ASSUME Inv, CommitInv, [Next]_vars PROVE [Current]_vars
  <2> SUFFICES ASSUME Next, attempt.phase # "committed", attempt'.phase = "committed"
               PROVE  Current
    BY <1>1
  <2>1. PICK i \in Installers : /\ Commit(i) /\ Refreshed = attempt
                                /\ attempt.by = i /\ attempt.phase = "ready" /\ Ready(attempt)
    BY <1>1, OnlyCommitCommits
  <2>2. attempt' = [attempt EXCEPT !.phase = "committed"]
    BY <2>1 DEF Commit
  <2>3. attempt'.acked = attempt.acked /\ attempt'.known = attempt.known
    BY <1>1, <2>2, CommitPieces DEF AttemptType
  <2>4. Registered \subseteq attempt.acked
    BY <2>1 DEF Ready, AllAcknowledged
  <2>5. \A p \in Registered : attempt.known[p] = Revision(p)
    <3>1. Over(attempt.by) # attempt
      BY <2>1, OverFields
    <3>2. Invalidated(attempt) = Over(attempt.by)
      BY <2>1 DEF Invalidated, Live
    <3> QED
      BY <2>1, <3>1, <3>2 DEF Refreshed, Changed, Excused
  <2>6. ASSUME NEW v \in presence.joined PROVE ~view[v].typed /\ ~view[v].sending /\ ~review.unsaved
    <3>1. v \in Views /\ v \in attempt.acked /\ attempt.known[v] = Revision(v)
      BY <1>1, <2>4, <2>5, CommitPieces DEF Registered
    <3>2. view[v].protected = attempt.by /\ attempt.by # NoOne
      BY <1>1, <2>1, <3>1, CommitPieces
         DEF CommitInv, AcknowledgedIsGuarded, GuardedBy, Freezing
    <3>3. ~review.unsaved
      BY <1>1, <2>1, <3>1 DEF CommitInv, AcknowledgedIsSaved, Freezing
    <3> QED
      BY <1>1, <3>1, <3>2, <3>3 DEF CommitInv, ViewsAreSound, SoundView
  <2> QED
    BY <2>3, <2>4, <2>5, <2>6
<1>2. Spec => [](Inv /\ CommitInv)
  BY InitInv, NextKeepsInv, InitCommit, NextKeepsCommits, PTL DEF Spec
<1> QED
  BY <1>1, <1>2, PTL DEF Spec, CommitIsCurrent

(* A view that closes itself for an upgrade has protected its input for    *)
(* that upgrade, and none has been typed since.                            *)
THEOREM ClosedViewsAreProtected == Spec => ViewsCloseProtected
<1> DEFINE Closes ==
      \A v \in Views : Here(v) /\ view'[v].at \in {"closing", "closed"} =>
        /\ ~view[v].typed /\ ~view[v].sending
        /\ view[v].protected = view[v].reply.by
<1>1. ASSUME Inv, CommitInv, [Next]_vars PROVE [Closes]_vars
  <2> SUFFICES ASSUME Next, NEW v \in Views, Here(v), view'[v].at \in {"closing", "closed"}
               PROVE  /\ ~view[v].typed /\ ~view[v].sending
                      /\ view[v].protected = view[v].reply.by
    BY <1>1
  <2>1. Receive(v) /\ view[v].reply.phase = "committed"
    BY <1>1, OnlyReceiveCloses
  <2>2. view[v] \in ViewType /\ SoundView(view[v]) /\ view \in [Views -> ViewType]
    BY <1>1, CommitPieces DEF CommitInv, ViewsAreSound
  <2>3. view[v].step \in {"polled", "settled"} /\ view[v].reply.phase = "committed"
    BY <2>1 DEF Receive
  <2> QED
    BY <2>2, <2>3 DEF SoundView
<1>2. Spec => [](Inv /\ CommitInv)
  BY InitInv, NextKeepsInv, InitCommit, NextKeepsCommits, PTL DEF Spec
<1> QED
  BY <1>1, <1>2, PTL DEF Spec, ViewsCloseProtected
=============================================================================
