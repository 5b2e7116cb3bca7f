------------------------ MODULE LifecycleLockProofs ------------------------
(* Theorems about the lifecycle lock, for any number of processes.         *)
EXTENDS LifecycleLock, TLAPS

(* Launchers and children run different parts of the code.                 *)
Roles ==
  /\ \A l \in Launchers :
       pc[l] \notin {"off", "look", "lend", "confirm", "dropped", "borrowing"}
  /\ \A c \in Children : pc[c] \notin {"try", "create", "fill", "undo", "holding"}

(* Who removes a marker saw one.                                           *)
Reclaiming == \A p \in Processes : pc[p] = "unlink" => seen[p].owner \in Launchers

TypedInv == TypeOK /\ Roles /\ Reclaiming

(* A marker on disk says where its process is, or died.                    *)
Markers == \A l \in Launchers :
  /\ marker[l] = "torn" => pc[l] = "fill"
  /\ marker[l] = "whole" => pc[l] = "holding"
  /\ At(l, "fill") => marker[l] = "torn" /\ l \in recent
  /\ At(l, "holding") => marker[l] = "whole"

Borrowers == \A c \in Children :
  At(c, "confirm") \/ At(c, "borrowing") => c \in borrowers

(* What a contender that saw an empty marker, or goes on to remove one,    *)
(* still knows of it: its process is dead, or it left, or it is too young. *)
Published(l) == pc[l] \in {"fill", "holding", "undo", "leaving", "ended"}
Contenders == \A p \in Processes :
  /\ At(p, "judge") /\ seen[p].owner # NoMarker /\ ~seen[p].whole
       => LET l == seen[p].owner
          IN Published(l) /\ (l \in dead \/ marker[l] = "none" \/ l \in recent)
  /\ At(p, "unlink") => seen[p].owner \in dead

LeaseInv == TypedInv /\ Markers /\ Borrowers /\ Contenders

(* What inspectLock() reports is typed, and an empty marker it reports is  *)
(* one that its process is still about to fill.                            *)
LEMMA ObservationOfMarkers ==
  ASSUME TypeOK
  PROVE  /\ Observation \in [owner : Launchers \cup {NoMarker}, whole : BOOLEAN]
         /\ Observation.owner # NoMarker /\ ~Observation.whole =>
              Observation.owner \in Launchers /\ marker[Observation.owner] = "torn"
<1> USE DEF TypeOK
<1>1. CASE \E l \in Launchers : Owners = {l}
  <2>1. PICK l \in Launchers : Owners = {l}
    BY <1>1
  <2> DEFINE o == CHOOSE k \in Launchers : Owners = {k}
  <2>2. o \in Launchers /\ Owners = {o}
    BY <2>1
  <2>3. Observation = [owner |-> o, whole |-> marker[o] = "whole"]
    BY <1>1 DEF Observation
  <2>4. marker[o] \in {"torn", "whole"}
    BY <2>2 DEF Owners
  <2> QED BY <2>2, <2>3, <2>4
<1>2. CASE ~\E l \in Launchers : Owners = {l}
  BY <1>2 DEF Observation, Nothing
<1> QED BY <1>1, <1>2

(* Every operation keeps to the types and to the part of the code that its *)
(* process runs, however long anybody pauses.                              *)
LEMMA TypedStep ==
  ASSUME TypedInv, [Next]_vars
  PROVE  TypedInv'
<1> USE ProcessesAssumption DEF Processes, TypedInv, At, Alive, Goto, files
<1>1. ASSUME NEW p \in Launchers, MakeDirectory(p) PROVE TypedInv'
  <2>1. TypeOK'
    BY <1>1 DEF TypeOK, Roles, Reclaiming, Steps, MakeDirectory
  <2>2. Roles' /\ Reclaiming'
    BY <1>1 DEF TypeOK, Roles, Reclaiming, MakeDirectory
  <2> QED BY <2>1, <2>2
<1>2. ASSUME NEW p \in Launchers, CreateMarker(p) PROVE TypedInv'
  <2>1. TypeOK'
    BY <1>2 DEF TypeOK, Roles, Reclaiming, Steps, CreateMarker, SetMarker
  <2>2. Roles' /\ Reclaiming'
    BY <1>2 DEF TypeOK, Roles, Reclaiming, CreateMarker, SetMarker
  <2> QED BY <2>1, <2>2
<1>3. ASSUME NEW p \in Launchers, FillMarker(p) PROVE TypedInv'
  <2>1. TypeOK'
    BY <1>3 DEF TypeOK, Roles, Reclaiming, Steps, FillMarker
  <2>2. Roles' /\ Reclaiming'
    BY <1>3 DEF TypeOK, Roles, Reclaiming, FillMarker
  <2> QED BY <2>1, <2>2
<1>4. ASSUME NEW p \in Launchers, UndoDirectory(p) PROVE TypedInv'
  <2>1. TypeOK'
    BY <1>4 DEF TypeOK, Roles, Reclaiming, Steps, UndoDirectory, RemoveDirectory, Owners
  <2>2. Roles' /\ Reclaiming'
    BY <1>4 DEF TypeOK, Roles, Reclaiming, UndoDirectory, RemoveDirectory, Owners
  <2> QED BY <2>1, <2>2
<1>5. ASSUME NEW p \in Children, Look(p) PROVE TypedInv'
  <2>1. TypeOK'
    BY <1>5 DEF TypeOK, Roles, Reclaiming, Steps, Look
  <2>2. Roles' /\ Reclaiming'
    BY <1>5 DEF TypeOK, Roles, Reclaiming, Look
  <2> QED BY <2>1, <2>2
<1>6. ASSUME NEW p \in Children, Lend(p) PROVE TypedInv'
  <2>1. TypeOK'
    BY <1>6 DEF TypeOK, Roles, Reclaiming, Steps, Lend, SetBorrowers
  <2>2. Roles' /\ Reclaiming'
    BY <1>6 DEF TypeOK, Roles, Reclaiming, Lend, SetBorrowers
  <2> QED BY <2>1, <2>2
<1>7. ASSUME NEW p \in Children, Confirm(p) PROVE TypedInv'
  <2>1. TypeOK'
    BY <1>7 DEF TypeOK, Roles, Reclaiming, Steps, Confirm, SetBorrowers
  <2>2. Roles' /\ Reclaiming'
    BY <1>7 DEF TypeOK, Roles, Reclaiming, Confirm, SetBorrowers
  <2> QED BY <2>1, <2>2
<1>8. ASSUME NEW p \in Children, DropDirectory(p) PROVE TypedInv'
  <2>1. TypeOK'
    BY <1>8 DEF TypeOK, Roles, Reclaiming, Steps, DropDirectory, RemoveDirectory, Owners
  <2>2. Roles' /\ Reclaiming'
    BY <1>8 DEF TypeOK, Roles, Reclaiming, DropDirectory, RemoveDirectory, Owners
  <2> QED BY <2>1, <2>2
<1>9. ASSUME NEW p \in Processes, Inspect(p) PROVE TypedInv'
  <2>1. TypeOK'
    BY <1>9, ObservationOfMarkers DEF TypeOK, Roles, Reclaiming, Steps, Inspect, Observation, Owners
  <2>2. Roles' /\ Reclaiming'
    BY <1>9, ObservationOfMarkers DEF TypeOK, Roles, Reclaiming, Inspect, Observation, Owners
  <2> QED BY <2>1, <2>2
<1>10. ASSUME NEW p \in Processes, Judge(p) PROVE TypedInv'
  <2>1. TypeOK'
    BY <1>10 DEF TypeOK, Roles, Reclaiming, Steps, Judge, SetBorrowers, StillBorrowed, Stale, Retry
  <2>2. Roles' /\ Reclaiming'
    BY <1>10 DEF TypeOK, Roles, Reclaiming, Judge, SetBorrowers, StillBorrowed, Stale, Retry
  <2> QED BY <2>1, <2>2
<1>11. ASSUME NEW p \in Processes, UnlinkMarker(p) PROVE TypedInv'
  <2>1. TypeOK'
    BY <1>11 DEF TypeOK, Roles, Reclaiming, Steps, UnlinkMarker, SetMarker
  <2>2. Roles' /\ Reclaiming'
    BY <1>11 DEF TypeOK, Roles, Reclaiming, UnlinkMarker, SetMarker
  <2> QED BY <2>1, <2>2
<1>12. ASSUME NEW p \in Processes, ReclaimDirectory(p) PROVE TypedInv'
  <2>1. TypeOK'
    BY <1>12 DEF TypeOK, Roles, Reclaiming, Steps, ReclaimDirectory, RemoveDirectory, Owners, Retry
  <2>2. Roles' /\ Reclaiming'
    BY <1>12 DEF TypeOK, Roles, Reclaiming, ReclaimDirectory, RemoveDirectory, Owners, Retry
  <2> QED BY <2>1, <2>2
<1>13. ASSUME NEW p \in Processes, LeaveDirectory(p) PROVE TypedInv'
  <2>1. TypeOK'
    BY <1>13 DEF TypeOK, Roles, Reclaiming, Steps, LeaveDirectory, RemoveDirectory, Owners
  <2>2. Roles' /\ Reclaiming'
    BY <1>13 DEF TypeOK, Roles, Reclaiming, LeaveDirectory, RemoveDirectory, Owners
  <2> QED BY <2>1, <2>2
<1>14. ASSUME NEW p \in Processes, Release(p) PROVE TypedInv'
  <2>1. TypeOK'
    BY <1>14 DEF TypeOK, Roles, Reclaiming, Steps, Release, SetMarker, SetBorrowers
  <2>2. Roles' /\ Reclaiming'
    BY <1>14 DEF TypeOK, Roles, Reclaiming, Release, SetMarker, SetBorrowers
  <2> QED BY <2>1, <2>2
<1>15. ASSUME NEW p \in Processes, GiveUp(p) PROVE TypedInv'
  <2>1. TypeOK'
    BY <1>15 DEF TypeOK, Roles, Reclaiming, Steps, GiveUp
  <2>2. Roles' /\ Reclaiming'
    BY <1>15 DEF TypeOK, Roles, Reclaiming, GiveUp
  <2> QED BY <2>1, <2>2
<1>16. ASSUME NEW p \in Processes, Crash(p) PROVE TypedInv'
  <2>1. TypeOK'
    BY <1>16 DEF TypeOK, Roles, Reclaiming, Steps, Crash
  <2>2. Roles' /\ Reclaiming'
    BY <1>16 DEF TypeOK, Roles, Reclaiming, Crash
  <2> QED BY <2>1, <2>2
<1>17. ASSUME NEW p \in Launchers, NEW c \in Children, Spawn(p, c) PROVE TypedInv'
  BY <1>17 DEF TypeOK, Roles, Reclaiming, Steps, Spawn
<1>18. ASSUME SecondPasses PROVE TypedInv'
  BY <1>18 DEF TypeOK, Roles, Reclaiming, SecondPasses
<1>19. ASSUME UNCHANGED vars PROVE TypedInv'
  BY <1>19 DEF TypeOK, Roles, Reclaiming, vars
<1> QED
  BY <1>1, <1>2, <1>3, <1>4, <1>5, <1>6, <1>7, <1>8, <1>9, <1>10, <1>11,
     <1>12, <1>13, <1>14, <1>15, <1>16, <1>17, <1>18, <1>19 DEF Next, Run

LEMMA TypedInit == Init => TypedInv
<1> SUFFICES ASSUME Init PROVE TypedInv
  OBVIOUS
<1>1. Roles /\ \A p \in Processes : pc[p] \in {"off", "try"}
  BY ProcessesAssumption DEF Init, Processes, Roles
<1>2. TypeOK
  BY DEF Init, TypeOK, Steps, Nothing
<1>3. Reclaiming
  BY <1>1 DEF Reclaiming
<1> QED BY <1>1, <1>2, <1>3 DEF TypedInv

(* Whatever the processes of lifecycle-lock.ts do, and however long they   *)
(* pause, the lock is one directory with the markers it may have, and no   *)
(* marker is left without the directory it was in.                         *)
THEOREM LockIsTyped == Spec => []TypeOK
<1>1. TypedInv => TypeOK
  BY DEF TypedInv
<1> QED BY TypedInit, TypedStep, <1>1, PTL DEF Spec

(* Every operation keeps the invariant, if nobody pauses for a second in   *)
(* the middle of one.                                                      *)
LEMMA LeaseInvStep ==
  ASSUME Prompt, LeaseInv, [Next]_vars
  PROVE  LeaseInv'
<1> USE ProcessesAssumption DEF Processes, LeaseInv, TypedInv, At, Alive, Goto, files
<1> TypedInv'
  BY TypedStep
<1>1. ASSUME NEW p \in Launchers, MakeDirectory(p) PROVE LeaseInv'
  <2>1. Markers'
    BY <1>1 DEF TypeOK, Roles, Markers, Contenders, MakeDirectory
  <2>2. Borrowers'
    BY <1>1 DEF TypeOK, Roles, Borrowers, MakeDirectory
  <2>3. Contenders'
    BY <1>1 DEF TypeOK, Markers, Contenders, Published, MakeDirectory
  <2> QED BY <2>1, <2>2, <2>3
<1>2. ASSUME NEW p \in Launchers, CreateMarker(p) PROVE LeaseInv'
  <2>1. Markers'
    BY <1>2 DEF TypeOK, Roles, Markers, Contenders, CreateMarker, SetMarker
  <2>2. Borrowers'
    BY <1>2 DEF TypeOK, Roles, Borrowers, CreateMarker, SetMarker
  <2>3. Contenders'
    BY <1>2 DEF TypeOK, Markers, Contenders, Published, CreateMarker, SetMarker
  <2> QED BY <2>1, <2>2, <2>3
<1>3. ASSUME NEW p \in Launchers, FillMarker(p) PROVE LeaseInv'
  <2>1. Markers'
    BY <1>3 DEF TypeOK, Roles, Markers, Contenders, FillMarker
  <2>2. Borrowers'
    BY <1>3 DEF TypeOK, Roles, Borrowers, FillMarker
  <2>3. Contenders'
    BY <1>3 DEF TypeOK, Markers, Contenders, Published, FillMarker
  <2> QED BY <2>1, <2>2, <2>3
<1>4. ASSUME NEW p \in Launchers, UndoDirectory(p) PROVE LeaseInv'
  <2>1. Markers'
    BY <1>4 DEF TypeOK, Roles, Markers, Contenders, UndoDirectory, RemoveDirectory, Owners
  <2>2. Borrowers'
    BY <1>4 DEF TypeOK, Roles, Borrowers, UndoDirectory, RemoveDirectory, Owners
  <2>3. Contenders'
    BY <1>4 DEF TypeOK, Markers, Contenders, Published, UndoDirectory, RemoveDirectory, Owners
  <2> QED BY <2>1, <2>2, <2>3
<1>5. ASSUME NEW p \in Children, Look(p) PROVE LeaseInv'
  <2>1. Markers'
    BY <1>5 DEF TypeOK, Roles, Markers, Contenders, Look
  <2>2. Borrowers'
    BY <1>5 DEF TypeOK, Roles, Borrowers, Look
  <2>3. Contenders'
    BY <1>5 DEF TypeOK, Markers, Contenders, Published, Look
  <2> QED BY <2>1, <2>2, <2>3
<1>6. ASSUME NEW p \in Children, Lend(p) PROVE LeaseInv'
  <2>1. Markers'
    BY <1>6 DEF TypeOK, Roles, Markers, Contenders, Lend, SetBorrowers
  <2>2. Borrowers'
    BY <1>6 DEF TypeOK, Roles, Borrowers, Lend, SetBorrowers
  <2>3. Contenders'
    BY <1>6 DEF TypeOK, Markers, Contenders, Published, Lend, SetBorrowers
  <2> QED BY <2>1, <2>2, <2>3
<1>7. ASSUME NEW p \in Children, Confirm(p) PROVE LeaseInv'
  <2>1. Markers'
    BY <1>7 DEF TypeOK, Roles, Markers, Contenders, Confirm, SetBorrowers
  <2>2. Borrowers'
    BY <1>7 DEF TypeOK, Roles, Borrowers, Confirm, SetBorrowers
  <2>3. Contenders'
    BY <1>7 DEF TypeOK, Markers, Contenders, Published, Confirm, SetBorrowers
  <2> QED BY <2>1, <2>2, <2>3
<1>8. ASSUME NEW p \in Children, DropDirectory(p) PROVE LeaseInv'
  <2>1. Markers'
    BY <1>8 DEF TypeOK, Roles, Markers, Contenders, DropDirectory, RemoveDirectory, Owners
  <2>2. Borrowers'
    BY <1>8 DEF TypeOK, Roles, Borrowers, DropDirectory, RemoveDirectory, Owners
  <2>3. Contenders'
    BY <1>8 DEF TypeOK, Markers, Contenders, Published, DropDirectory, RemoveDirectory, Owners
  <2> QED BY <2>1, <2>2, <2>3
<1>9. ASSUME NEW p \in Processes, Inspect(p) PROVE LeaseInv'
  <2>1. Markers'
    BY <1>9, ObservationOfMarkers DEF TypeOK, Roles, Markers, Contenders, Inspect, Observation, Owners
  <2>2. Borrowers'
    BY <1>9, ObservationOfMarkers DEF TypeOK, Roles, Borrowers, Inspect, Observation, Owners
  <2>3. Contenders'
    BY <1>9, ObservationOfMarkers, SMTT(20)
       DEF TypeOK, Markers, Contenders, Published, Inspect, Observation, Owners
  <2> QED BY <2>1, <2>2, <2>3
<1>10. ASSUME NEW p \in Processes, Judge(p) PROVE LeaseInv'
  <2>1. Markers'
    BY <1>10 DEF TypeOK, Roles, Markers, Contenders, Judge, SetBorrowers, StillBorrowed, Stale, Retry
  <2>2. Borrowers'
    BY <1>10 DEF TypeOK, Roles, Borrowers, Judge, SetBorrowers, StillBorrowed, Stale, Retry
  <2>3. Contenders'
    BY <1>10 DEF TypeOK, Markers, Contenders, Published, Judge, SetBorrowers, StillBorrowed, Stale, Retry
  <2> QED BY <2>1, <2>2, <2>3
<1>11. ASSUME NEW p \in Processes, UnlinkMarker(p) PROVE LeaseInv'
  <2>1. Markers'
    BY <1>11 DEF TypeOK, Roles, Markers, Contenders, UnlinkMarker, SetMarker
  <2>2. Borrowers'
    BY <1>11 DEF TypeOK, Roles, Borrowers, UnlinkMarker, SetMarker
  <2>3. Contenders'
    BY <1>11 DEF TypeOK, Markers, Contenders, Published, UnlinkMarker, SetMarker
  <2> QED BY <2>1, <2>2, <2>3
<1>12. ASSUME NEW p \in Processes, ReclaimDirectory(p) PROVE LeaseInv'
  <2>1. Markers'
    BY <1>12 DEF TypeOK, Roles, Markers, Contenders, ReclaimDirectory, RemoveDirectory, Owners, Retry
  <2>2. Borrowers'
    BY <1>12 DEF TypeOK, Roles, Borrowers, ReclaimDirectory, RemoveDirectory, Owners, Retry
  <2>3. Contenders'
    BY <1>12 DEF TypeOK, Markers, Contenders, Published, ReclaimDirectory, RemoveDirectory, Owners, Retry
  <2> QED BY <2>1, <2>2, <2>3
<1>13. ASSUME NEW p \in Processes, LeaveDirectory(p) PROVE LeaseInv'
  <2>1. Markers'
    BY <1>13 DEF TypeOK, Roles, Markers, Contenders, LeaveDirectory, RemoveDirectory, Owners
  <2>2. Borrowers'
    BY <1>13 DEF TypeOK, Roles, Borrowers, LeaveDirectory, RemoveDirectory, Owners
  <2>3. Contenders'
    BY <1>13 DEF TypeOK, Markers, Contenders, Published, LeaveDirectory, RemoveDirectory, Owners
  <2> QED BY <2>1, <2>2, <2>3
<1>14. ASSUME NEW p \in Processes, Release(p) PROVE LeaseInv'
  <2>1. Markers'
    BY <1>14 DEF TypeOK, Roles, Markers, Contenders, Release, SetMarker, SetBorrowers
  <2>2. Borrowers'
    BY <1>14 DEF TypeOK, Roles, Borrowers, Release, SetMarker, SetBorrowers
  <2>3. Contenders'
    BY <1>14 DEF TypeOK, Markers, Contenders, Published, Release, SetMarker, SetBorrowers
  <2> QED BY <2>1, <2>2, <2>3
<1>15. ASSUME NEW p \in Processes, GiveUp(p) PROVE LeaseInv'
  <2>1. Markers'
    BY <1>15 DEF TypeOK, Roles, Markers, Contenders, GiveUp
  <2>2. Borrowers'
    BY <1>15 DEF TypeOK, Roles, Borrowers, GiveUp
  <2>3. Contenders'
    BY <1>15 DEF TypeOK, Markers, Contenders, Published, GiveUp
  <2> QED BY <2>1, <2>2, <2>3
<1>16. ASSUME NEW p \in Processes, Crash(p) PROVE LeaseInv'
  <2>1. Markers'
    BY <1>16 DEF TypeOK, Roles, Markers, Contenders, Crash
  <2>2. Borrowers'
    BY <1>16 DEF TypeOK, Roles, Borrowers, Crash
  <2>3. Contenders'
    BY <1>16 DEF TypeOK, Markers, Contenders, Published, Crash
  <2> QED BY <2>1, <2>2, <2>3
<1>17. ASSUME NEW p \in Launchers, NEW c \in Children, Spawn(p, c) PROVE LeaseInv'
  BY <1>17 DEF TypeOK, Roles, Markers, Borrowers, Contenders, Published, Steps, Spawn
<1>18. ASSUME SecondPasses PROVE LeaseInv'
  BY <1>18 DEF TypeOK, Roles, Markers, Borrowers, Contenders, Published, Steps, SecondPasses, InSequence
<1>19. ASSUME UNCHANGED vars PROVE LeaseInv'
  BY <1>19 DEF TypeOK, Roles, Markers, Borrowers, Contenders, Published, vars
<1> QED
  BY <1>1, <1>2, <1>3, <1>4, <1>5, <1>6, <1>7, <1>8, <1>9, <1>10, <1>11,
     <1>12, <1>13, <1>14, <1>15, <1>16, <1>17, <1>18, <1>19 DEF Next, Run

(* In the beginning there is no directory.                                 *)
LEMMA LeaseInit == Init => LeaseInv
<1> SUFFICES ASSUME Init PROVE LeaseInv
  OBVIOUS
<1>1. \A p \in Processes : pc[p] \in {"off", "try"}
  BY DEF Init
<1>2. Markers /\ Borrowers /\ Contenders
  BY <1>1 DEF Init, Markers, Borrowers, Contenders, Processes, At
<1> QED BY <1>2, TypedInit DEF LeaseInv

(* A reclaimer never removes the lease of a live process: as long as the   *)
(* process of lifecycle-lock.ts that has a lease lives and has not called  *)
(* release(), its marker is on disk.                                       *)
THEOREM LeasesStayOnDisk == ASSUME Prompt PROVE Spec => []LeaseStaysOnDisk
<1>1. LeaseInv /\ [Next]_vars => LeaseInv'
  BY LeaseInvStep
<1>2. LeaseInv => LeaseStaysOnDisk
  BY ProcessesAssumption DEF LeaseInv, TypedInv, TypeOK, Roles, Markers, Borrowers, LeaseStaysOnDisk,
     Holding, Processes, At
<1> QED BY LeaseInit, <1>1, <1>2, PTL DEF Spec

-----------------------------------------------------------------------------
(* Whose leases are in use. The one way to two leases is that the rmdir()  *)
(* of a late process (lifecycle-lock.ts lines 118 and 135) takes the       *)
(* directory of a launcher before its marker is in it, and another         *)
(* launcher makes the directory again.                                     *)
OneCreates ==
  \A p, q \in Launchers : At(p, "create") /\ At(q, "create") => p = q

Entering(l) == pc[l] \in {"create", "fill", "holding"} /\ Alive(l)

OneEnters == \A p, q \in Launchers : Entering(p) /\ Entering(q) => p = q

Borrowing(c) == At(c, "borrowing")

BorrowersShare == \A c \in Children : Borrowing(c) =>
  /\ \A l \in Launchers : Entering(l) => l = inherited[c]
  /\ \A d \in Children : Borrowing(d) => inherited[d] = inherited[c]

SharedInv == LeaseInv /\ OneEnters /\ BorrowersShare

(* A lease in use keeps the directory, so nobody can make it.              *)
LEMMA LeasesKeepDirectory ==
  ASSUME LeaseInv
  PROVE  /\ \A l \in Launchers : Entering(l) /\ pc[l] # "create" => exists
         /\ \A c \in Children : Borrowing(c) => exists
BY DEF LeaseInv, TypedInv, TypeOK, Markers, Borrowers, Entering, Borrowing, At

(* A whole marker that is reported is there.                               *)
LEMMA WholeObservation ==
  ASSUME LeaseInv, Observation.whole
  PROVE  Observation.owner \in Launchers /\ marker[Observation.owner] = "whole"
<1>1. CASE \E k \in Launchers : Owners = {k}
  <2>1. PICK k \in Launchers : Owners = {k}
    BY <1>1
  <2> DEFINE o == CHOOSE j \in Launchers : Owners = {j}
  <2>2. o \in Launchers
    BY <2>1
  <2>3. Observation = [owner |-> o, whole |-> marker[o] = "whole"]
    BY <1>1 DEF Observation
  <2> HIDE DEF o
  <2> QED
    BY <2>2, <2>3
<1>2. CASE ~\E k \in Launchers : Owners = {k}
  <2>1. Observation = Nothing
    BY <1>2 DEF Observation
  <2>2. Nothing.whole = FALSE
    BY DEF Nothing
  <2> QED
    BY <2>1, <2>2
<1> QED
  BY <1>1, <1>2

(* An owner whose token is confirmed has the lease.                        *)
LEMMA ConfirmedOwnerHolds ==
  ASSUME LeaseInv, NEW c \in Children, OwnerConfirmed(c)
  PROVE  inherited[c] \in Launchers /\ Entering(inherited[c])
<1>1. Observation.owner = inherited[c] /\ Observation.whole /\ Alive(inherited[c])
  BY Zenon DEF OwnerConfirmed
<1>2. inherited[c] \in Launchers /\ marker[inherited[c]] = "whole"
  BY <1>1, WholeObservation
<1> QED
  BY <1>1, <1>2 DEF LeaseInv, Markers, Entering

(* Only a launcher that makes the directory enters.                        *)
LEMMA EntersByDirectory ==
  ASSUME LeaseInv, [Next]_vars, NEW l \in Launchers, Entering(l)', ~Entering(l)
  PROVE  MakeDirectory(l) /\ ~exists /\ At(l, "create")'
<1> USE ProcessesAssumption DEF Processes, LeaseInv, TypedInv, TypeOK, Roles, At, Alive, Goto, files,
    Entering
<1>1. ASSUME NEW p \in Processes, Run(p) PROVE MakeDirectory(l) /\ ~exists /\ At(l, "create")'
  <2>1. CASE p \in Launchers /\ MakeDirectory(p)
    BY <2>1 DEF MakeDirectory
  <2>2. CASE p \in Launchers /\ (CreateMarker(p) \/ FillMarker(p) \/ UndoDirectory(p))
    BY <2>2 DEF CreateMarker, FillMarker, UndoDirectory
  <2>3. CASE p \in Children /\ (Look(p) \/ Lend(p) \/ Confirm(p) \/ DropDirectory(p))
    BY <2>3 DEF Look, Lend, Confirm, DropDirectory
  <2>4. CASE \/ Inspect(p) \/ Judge(p) \/ UnlinkMarker(p) \/ ReclaimDirectory(p)
             \/ LeaveDirectory(p)
    BY <2>4 DEF Inspect, Judge, Retry, UnlinkMarker, ReclaimDirectory, LeaveDirectory
  <2> QED
    BY <1>1, <2>1, <2>2, <2>3, <2>4 DEF Run
<1>2. ASSUME NEW p \in Processes, Release(p) \/ GiveUp(p) \/ Crash(p) PROVE FALSE
  BY <1>2 DEF Release, GiveUp, Crash
<1>3. ASSUME NEW p \in Launchers, NEW c \in Children, Spawn(p, c) PROVE FALSE
  BY <1>3 DEF Spawn
<1>4. CASE SecondPasses \/ UNCHANGED vars
  BY <1>4 DEF SecondPasses, vars
<1> QED
  BY <1>1, <1>2, <1>3, <1>4 DEF Next

(* Only a child whose owner is confirmed borrows.                          *)
LEMMA BorrowsByConfirmation ==
  ASSUME LeaseInv, [Next]_vars, NEW c \in Children, Borrowing(c)', ~Borrowing(c)
  PROVE  OwnerConfirmed(c) /\ UNCHANGED <<inherited, dead>>
         /\ \A p \in Processes \ {c} : pc'[p] = pc[p]
<1> USE ProcessesAssumption DEF Processes, LeaseInv, TypedInv, TypeOK, Roles, At, Alive, Goto, files,
    Borrowing
<1> DEFINE Goal == OwnerConfirmed(c) /\ UNCHANGED <<inherited, dead>>
                   /\ \A p \in Processes \ {c} : pc'[p] = pc[p]
<1>1. ASSUME NEW p \in Processes, Run(p) PROVE Goal
  <2>1. CASE p \in Children /\ Confirm(p)
    BY <2>1 DEF Confirm
  <2>2. CASE p \in Launchers /\ (MakeDirectory(p) \/ CreateMarker(p) \/ FillMarker(p)
                                   \/ UndoDirectory(p))
    BY <2>2 DEF MakeDirectory, CreateMarker, FillMarker, UndoDirectory
  <2>3. CASE p \in Children /\ (Look(p) \/ Lend(p) \/ DropDirectory(p))
    BY <2>3 DEF Look, Lend, DropDirectory
  <2>4. CASE \/ Inspect(p) \/ Judge(p) \/ UnlinkMarker(p) \/ ReclaimDirectory(p)
             \/ LeaveDirectory(p)
    BY <2>4 DEF Inspect, Judge, Retry, UnlinkMarker, ReclaimDirectory, LeaveDirectory
  <2> QED
    BY <1>1, <2>1, <2>2, <2>3, <2>4 DEF Run
<1>2. ASSUME NEW p \in Processes, Release(p) \/ GiveUp(p) \/ Crash(p) PROVE FALSE
  BY <1>2 DEF Release, GiveUp, Crash
<1>3. ASSUME NEW p \in Launchers, NEW d \in Children, Spawn(p, d) PROVE FALSE
  BY <1>3 DEF Spawn
<1>4. CASE SecondPasses \/ UNCHANGED vars
  BY <1>4 DEF SecondPasses, vars
<1> QED
  BY <1>1, <1>2, <1>3, <1>4 DEF Next

(* A child keeps the token it was started with.                            *)
LEMMA TokensStay ==
  ASSUME LeaseInv, [Next]_vars, NEW c \in Children, pc[c] # "off"
  PROVE  inherited'[c] = inherited[c]
BY DEF Next, Run, vars, MakeDirectory, CreateMarker, FillMarker, UndoDirectory, Look, Lend, Confirm,
   DropDirectory, Inspect, Judge, UnlinkMarker, ReclaimDirectory, LeaveDirectory, Release, GiveUp,
   Crash, Spawn, SecondPasses, LeaseInv, TypedInv, TypeOK

(* While one launcher makes the directory, no other one moves.             *)
LEMMA OnlyMakerMoves ==
  ASSUME LeaseInv, NEW p \in Launchers, MakeDirectory(p), NEW q \in Launchers, q # p
  PROVE  pc'[q] = pc[q] /\ (Alive(q)' <=> Alive(q))
BY DEF MakeDirectory, Goto, LeaseInv, TypedInv, TypeOK, Processes, Alive

(* Every operation keeps it while no two launchers create.                 *)
LEMMA SharedStep ==
  ASSUME Prompt, SharedInv, OneCreates', [Next]_vars
  PROVE  SharedInv'
<1>1. LeaseInv /\ LeaseInv'
  BY LeaseInvStep DEF SharedInv
<1>2. OneEnters'
  <2> SUFFICES ASSUME NEW p \in Launchers, NEW q \in Launchers, Entering(p)', Entering(q)',
                      ~Entering(p)
               PROVE  p = q
    BY DEF OneEnters, SharedInv
  <2>1. ~exists /\ At(p, "create")'
    BY <1>1, EntersByDirectory
  <2>2. ASSUME Entering(q) PROVE At(q, "create")'
    <3>1. MakeDirectory(p) /\ p # q
      BY <1>1, <2>2, EntersByDirectory
    <3>2. pc[q] = "create" /\ Alive(q)
      BY <1>1, <2>1, <2>2, LeasesKeepDirectory DEF Entering
    <3> QED
      BY <1>1, <3>1, <3>2, OnlyMakerMoves DEF At
  <2>3. ~Entering(q) => At(q, "create")'
    BY <1>1, EntersByDirectory
  <2> QED
    BY <2>1, <2>2, <2>3 DEF OneCreates
<1>3. ASSUME NEW c \in Children, Borrowing(c)', NEW l \in Launchers, Entering(l)'
      PROVE  l = inherited'[c]
  <2>1. CASE Borrowing(c)
    <3>1. exists /\ inherited'[c] = inherited[c]
      BY <1>1, <2>1, LeasesKeepDirectory, TokensStay DEF Borrowing, At
    <3>2. Entering(l)
      BY <1>1, <1>3, <3>1, EntersByDirectory
    <3> QED
      BY <2>1, <3>1, <3>2 DEF SharedInv, BorrowersShare
  <2>2. CASE ~Borrowing(c)
    <3>1. OwnerConfirmed(c) /\ UNCHANGED <<inherited, dead>>
          /\ \A p \in Processes \ {c} : pc'[p] = pc[p]
      BY <1>1, <1>3, <2>2, BorrowsByConfirmation
    <3>2. inherited[c] \in Launchers /\ Entering(inherited[c])
      BY <1>1, <3>1, ConfirmedOwnerHolds
    <3>3. Entering(l)
      BY <1>3, <3>1, ProcessesAssumption DEF Entering, Alive, Processes
    <3> QED
      BY <3>1, <3>2, <3>3 DEF SharedInv, OneEnters
  <2> QED
    BY <2>1, <2>2
<1>4. ASSUME NEW c \in Children, Borrowing(c)', NEW d \in Children, Borrowing(d)'
      PROVE  inherited'[d] = inherited'[c]
  <2>1. ASSUME NEW e \in Children, Borrowing(e) PROVE inherited'[e] = inherited[e]
    BY <1>1, <2>1, TokensStay DEF Borrowing, At
  <2>2. CASE Borrowing(c) /\ Borrowing(d)
    BY <2>1, <2>2 DEF SharedInv, BorrowersShare
  <2>3. ASSUME NEW e \in Children, Borrowing(e)', ~Borrowing(e), NEW f \in Children, Borrowing(f)'
        PROVE  inherited'[f] = inherited'[e]
    <3>1. OwnerConfirmed(e) /\ UNCHANGED <<inherited, dead>>
          /\ \A p \in Processes \ {e} : pc'[p] = pc[p]
      BY <1>1, <2>3, BorrowsByConfirmation
    <3>2. inherited[e] \in Launchers /\ Entering(inherited[e])
      BY <1>1, <3>1, ConfirmedOwnerHolds
    <3>3. CASE f # e
      <4>1. Borrowing(f)
        BY <2>3, <3>1, <3>3 DEF Borrowing, At, Alive, Processes
      <4> QED
        BY <3>1, <3>2, <4>1 DEF SharedInv, BorrowersShare
    <3> QED
      BY <3>3
  <2> QED
    BY <1>4, <2>2, <2>3
<1> QED
  BY <1>1, <1>2, <1>3, <1>4 DEF SharedInv, BorrowersShare

(* In the beginning nobody has a lease.                                    *)
LEMMA SharedInit == Init => SharedInv
<1> SUFFICES ASSUME Init PROVE SharedInv
  OBVIOUS
<1>1. \A p \in Processes : pc[p] \in {"off", "try"}
  BY DEF Init
<1> QED
  BY <1>1, LeaseInit DEF SharedInv, OneEnters, BorrowersShare, Entering, Borrowing, At, Processes

(* Who shares a token has the same one.                                    *)
LEMMA SharedIsLinearized == SharedInv => Linearized
BY ProcessesAssumption DEF SharedInv, OneEnters, BorrowersShare, Linearized, Holding, Token, Entering,
   Borrowing, At, Processes, LeaseInv, TypedInv, Roles

(* Any number of installers, launchers and starting services is linearized *)
(* as long as no two of them are, at one time, between the mkdir() of the  *)
(* directory and the creation of their marker in it: whatever dies, lends, *)
(* releases or reclaims, nothing else leads to two leases.                 *)
THEOREM LinearizedUnlessTwoCreate == ASSUME Prompt PROVE Spec /\ []OneCreates => []Linearized
<1>1. SharedInv /\ OneCreates' /\ [Next]_vars => SharedInv'
  BY SharedStep
<1> QED
  BY SharedInit, SharedIsLinearized, <1>1, PTL DEF Spec

-----------------------------------------------------------------------------
(* Two processes that contend for the lock, with the children of either.   *)
AtMostTwo == \A l, m, n \in Launchers : l = m \/ m = n \/ l = n

Before == {"try", "create", "fill", "inspect", "judge", "unlink", "rmdir"}
Racing(l) == pc[l] \in Before /\ Alive(l)
Making(l) == pc[l] \in {"create", "fill"}

(* Who is borrowed from, and who was seen with a marker, has had the lease.*)
ParentsHeld ==
  /\ \A c \in Children :
       pc[c] # "off" => inherited[c] \in Launchers /\ pc[inherited[c]] \notin Before
  /\ \A p \in Processes :
       seen[p].whole => seen[p].owner \in Launchers /\ pc[seen[p].owner] \notin Before

(* While two race, the directory is there only for the one that makes it,  *)
(* and is too young to be removed.                                         *)
RaceIsFair ==
  \A l, m \in Launchers : l # m /\ Racing(l) /\ Racing(m) =>
    /\ pc[l] \notin {"unlink", "rmdir"}
    /\ exists => Making(l) \/ Making(m)
    /\ Making(l) => exists /\ dirRecent /\ ~Making(m)

RaceInv == ParentsHeld /\ RaceIsFair

(* A launcher that has had the lease, or lost it, does not contend again   *)
(* (a second acquisition has a new token, like another launcher).          *)
LEMMA NeverAgain ==
  ASSUME LeaseInv, [Next]_vars, NEW l \in Launchers, pc[l] \notin Before
  PROVE  pc'[l] \notin Before
<1> USE ProcessesAssumption DEF Processes, LeaseInv, TypedInv, TypeOK, Roles, At, Goto, files, Before
<1>1. ASSUME NEW p \in Processes, Run(p) PROVE pc'[l] \notin Before
  <2>1. CASE p \in Launchers /\ (MakeDirectory(p) \/ CreateMarker(p) \/ FillMarker(p)
                                   \/ UndoDirectory(p))
    BY <2>1 DEF MakeDirectory, CreateMarker, FillMarker, UndoDirectory
  <2>2. CASE p \in Children /\ (Look(p) \/ Lend(p) \/ Confirm(p) \/ DropDirectory(p))
    BY <2>2 DEF Look, Lend, Confirm, DropDirectory
  <2>3. CASE \/ Inspect(p) \/ Judge(p) \/ UnlinkMarker(p) \/ ReclaimDirectory(p)
             \/ LeaveDirectory(p)
    BY <2>3 DEF Inspect, Judge, Retry, UnlinkMarker, ReclaimDirectory, LeaveDirectory
  <2> QED
    BY <1>1, <2>1, <2>2, <2>3 DEF Run
<1>2. ASSUME NEW p \in Processes, Release(p) \/ GiveUp(p) \/ Crash(p)
      PROVE  pc'[l] \notin Before
  BY <1>2 DEF Release, GiveUp, Crash
<1>3. ASSUME NEW p \in Launchers, NEW c \in Children, Spawn(p, c) PROVE pc'[l] \notin Before
  BY <1>3 DEF Spawn
<1>4. CASE SecondPasses \/ UNCHANGED vars
  BY <1>4 DEF SecondPasses, vars
<1> QED
  BY <1>1, <1>2, <1>3, <1>4 DEF Next

(* A process that has not been started is started by a holder.             *)
LEMMA StartedByHolder ==
  ASSUME LeaseInv, [Next]_vars, NEW c \in Children, pc[c] = "off", pc'[c] # "off"
  PROVE  \E p \in Launchers : Spawn(p, c)
<1> USE ProcessesAssumption DEF Processes, LeaseInv, TypedInv, TypeOK, At, Goto, files
<1>1. ASSUME NEW p \in Processes, Run(p) PROVE pc'[c] = pc[c]
  <2>1. CASE p \in Launchers /\ (MakeDirectory(p) \/ CreateMarker(p) \/ FillMarker(p)
                                   \/ UndoDirectory(p))
    BY <2>1 DEF MakeDirectory, CreateMarker, FillMarker, UndoDirectory
  <2>2. CASE p \in Children /\ (Look(p) \/ Lend(p) \/ Confirm(p) \/ DropDirectory(p))
    BY <2>2 DEF Look, Lend, Confirm, DropDirectory
  <2>3. CASE \/ Inspect(p) \/ Judge(p) \/ UnlinkMarker(p) \/ ReclaimDirectory(p)
             \/ LeaveDirectory(p)
    BY <2>3 DEF Inspect, Judge, Retry, UnlinkMarker, ReclaimDirectory, LeaveDirectory
  <2> QED
    BY <1>1, <2>1, <2>2, <2>3 DEF Run
<1>2. ASSUME NEW p \in Processes, Release(p) \/ GiveUp(p) \/ Crash(p) PROVE pc'[c] = pc[c]
  BY <1>2 DEF Release, GiveUp, Crash
<1>3. ASSUME NEW p \in Launchers, NEW d \in Children, Spawn(p, d), d # c PROVE pc'[c] = pc[c]
  BY <1>3 DEF Spawn
<1>4. CASE SecondPasses \/ UNCHANGED vars
  BY <1>4 DEF SecondPasses, vars
<1> QED
  BY <1>1, <1>2, <1>3, <1>4 DEF Next

(* Who had the lease still has, or has left.                               *)
LEMMA ParentsStep ==
  ASSUME LeaseInv, ParentsHeld, [Next]_vars
  PROVE  ParentsHeld'
<1> USE ProcessesAssumption DEF Processes, LeaseInv, TypedInv, TypeOK, Roles, At, Alive, Goto, files
<1>1. \A l \in Launchers : pc[l] \notin Before => pc'[l] \notin Before
  BY NeverAgain
<1>2. ASSUME NEW c \in Children, pc'[c] # "off"
      PROVE  inherited'[c] \in Launchers /\ pc'[inherited'[c]] \notin Before
  <2>1. CASE pc[c] # "off"
    BY <1>1, <2>1, TokensStay DEF ParentsHeld
  <2>2. CASE pc[c] = "off"
    <3>1. PICK p \in Launchers : Spawn(p, c)
      BY <1>2, <2>2, StartedByHolder
    <3> QED
      BY <1>1, <3>1 DEF Spawn, Before
  <2> QED
    BY <2>1, <2>2
<1>3. ASSUME NEW p \in Processes, seen'[p].whole
      PROVE  seen'[p].owner \in Launchers /\ pc'[seen'[p].owner] \notin Before
  <2>1. CASE seen'[p] = seen[p]
    BY <1>1, <1>3, <2>1 DEF ParentsHeld
  <2>2. CASE seen'[p] # seen[p]
    <3>1. Inspect(p)
      <4>1. PICK q \in Processes : Run(q) /\ seen' # seen
        BY <2>2 DEF Next, vars, Release, GiveUp, Crash, Spawn, SecondPasses
      <4>2. ~(MakeDirectory(q) \/ CreateMarker(q) \/ FillMarker(q) \/ UndoDirectory(q))
        BY <4>1 DEF MakeDirectory, CreateMarker, FillMarker, UndoDirectory
      <4>3. ~(Look(q) \/ Lend(q) \/ Confirm(q) \/ DropDirectory(q))
        BY <4>1 DEF Look, Lend, Confirm, DropDirectory
      <4>4. ~(Judge(q) \/ UnlinkMarker(q) \/ ReclaimDirectory(q) \/ LeaveDirectory(q))
        BY <4>1 DEF Judge, UnlinkMarker, ReclaimDirectory, LeaveDirectory
      <4>5. Inspect(q)
        BY <4>1, <4>2, <4>3, <4>4 DEF Run
      <4> QED
        BY <2>2, <4>5 DEF Inspect
    <3>2. seen'[p] = Observation
      BY <3>1 DEF Inspect
    <3>3. Observation.owner \in Launchers /\ marker[Observation.owner] = "whole"
      BY <1>3, <3>2, WholeObservation
    <3>4. pc[Observation.owner] = "holding"
      BY <3>3 DEF Markers
    <3> QED
      BY <1>1, <3>2, <3>3, <3>4 DEF Before
  <2> QED
    BY <2>1, <2>2
<1> QED
  BY <1>2, <1>3 DEF ParentsHeld

(* Nothing is removed while two launchers race.                            *)
LEMMA RaceStep ==
  ASSUME Prompt, AtMostTwo, LeaseInv, RaceInv, [Next]_vars
  PROVE  RaceInv'
<1> USE ProcessesAssumption DEF Processes, LeaseInv, TypedInv, TypeOK, Roles, At, Alive, Goto, files
<1>1. ParentsHeld'
  BY ParentsStep DEF RaceInv
<1> DEFINE Fair(l, m) ==
      /\ pc[l] \notin {"unlink", "rmdir"}
      /\ exists => Making(l) \/ Making(m)
      /\ Making(l) => exists /\ dirRecent /\ ~Making(m)
<1>2. ASSUME NEW l \in Launchers, NEW m \in Launchers, l # m, Racing(l)', Racing(m)'
      PROVE  Fair(l, m)'
  <2>1. Racing(l) /\ Racing(m)
    <3>1. dead \subseteq dead'
      BY DEF Next, Run, vars, MakeDirectory, CreateMarker, FillMarker, UndoDirectory,
         Look, Lend, Confirm, DropDirectory, Inspect, Judge, UnlinkMarker, ReclaimDirectory,
         LeaveDirectory, Release, GiveUp, Crash, Spawn, SecondPasses
    <3> QED
      BY <1>2, <3>1, NeverAgain DEF Racing
  <2>2. Fair(l, m) /\ Fair(m, l)
    BY <1>2, <2>1 DEF RaceInv, RaceIsFair
  <2>3. Launchers \subseteq {l, m}
    BY <1>2 DEF AtMostTwo
  <2>4. /\ \A c \in Children : pc[c] = "off"
        /\ \A p \in Processes : ~seen[p].whole
    BY <2>1, <2>3 DEF RaceInv, ParentsHeld, Racing
  <2>5. ASSUME NEW p \in {l, m}, MakeDirectory(p) PROVE Fair(l, m)'
    BY <1>2, <2>2, <2>5 DEF MakeDirectory, Making
  <2>6. ASSUME NEW p \in {l, m}, CreateMarker(p) PROVE Fair(l, m)'
    BY <1>2, <2>2, <2>6 DEF CreateMarker, SetMarker, Making
  <2>7. ASSUME NEW p \in {l, m}, FillMarker(p) \/ UndoDirectory(p) PROVE FALSE
    BY <1>2, <2>1, <2>7 DEF FillMarker, UndoDirectory, Racing, Before
  <2>8. ASSUME NEW p \in Children, Look(p) \/ Lend(p) \/ Confirm(p) \/ DropDirectory(p) PROVE FALSE
    BY <2>4, <2>8 DEF Look, Lend, Confirm, DropDirectory
  <2>9. ASSUME NEW p \in Processes, Inspect(p) PROVE Fair(l, m)'
    BY <1>2, <2>2, <2>9 DEF Inspect, Making
  <2>10. ASSUME NEW p \in Processes, Judge(p) PROVE Fair(l, m)'
    <3>1. p \in {l, m} /\ pc[p] = "judge" /\ Alive(p)
      BY <2>3, <2>4, <2>10 DEF Judge
    <3>2. ~Stale(seen[p], ~dirRecent')
      <4>1. CASE seen[p].owner = NoMarker
        <5>1. exists => dirRecent'
          BY <2>2, <2>10 DEF Judge, SetBorrowers
        <5> QED
          BY <2>4, <4>1, <5>1 DEF Stale
      <4>2. CASE seen[p].owner # NoMarker
        <5> DEFINE o == seen[p].owner
        <5>1. o \in {l, m}
          BY <2>3, <4>2
        <5>2. marker[o] # "none" => o \in recent
          BY <2>1, <5>1 DEF Markers, Racing, Before
        <5> QED
          BY <2>4, <4>2, <5>2 DEF Stale
      <4> QED
        BY <4>1, <4>2
    <3>3. pc' = [pc EXCEPT ![p] = "try"] /\ UNCHANGED exists /\ (dirRecent => dirRecent')
      BY <2>3, <2>10, <3>1, <3>2 DEF Judge, Retry, SetBorrowers
    <3> QED
      BY <1>2, <2>2, <3>1, <3>3 DEF Making
  <2>11. ASSUME NEW p \in Processes, UnlinkMarker(p) \/ ReclaimDirectory(p) \/ LeaveDirectory(p)
         PROVE  FALSE
    BY <2>1, <2>2, <2>3, <2>4, <2>11 DEF UnlinkMarker, ReclaimDirectory, LeaveDirectory, Racing, Before
  <2>12. ASSUME NEW p \in Processes, Release(p) PROVE FALSE
    BY <2>1, <2>3, <2>4, <2>12 DEF Release, Racing, Before
  <2>13. ASSUME NEW p \in Processes, GiveUp(p) \/ Crash(p) PROVE Fair(l, m)'
    <3>1. CASE GiveUp(p)
      <4>1. p \in {l, m}
        BY <2>3, <2>4, <3>1 DEF GiveUp
      <4> QED
        BY <1>2, <3>1, <4>1 DEF GiveUp, Racing, Before
    <3>2. CASE Crash(p)
      BY <2>2, <3>2 DEF Crash, Making
    <3> QED
      BY <2>13, <3>1, <3>2
  <2>14. ASSUME NEW p \in Launchers, NEW c \in Children, Spawn(p, c) PROVE FALSE
    BY <2>1, <2>3, <2>14 DEF Spawn, Racing, Before
  <2>15. CASE SecondPasses
    <3>1. UNCHANGED <<exists, pc>>
      BY <2>15 DEF SecondPasses
    <3>2. Making(l) \/ Making(m) => UNCHANGED dirRecent
      <4>1. l \in Processes \ dead /\ m \in Processes \ dead
        BY <2>1 DEF Racing
      <4> QED
        BY <2>15, <4>1 DEF SecondPasses, InSequence, Making
    <3> QED
      BY <2>2, <3>1, <3>2 DEF Making
  <2>16. CASE UNCHANGED vars
    BY <2>2, <2>16 DEF vars, Making
  <2> HIDE DEF Fair
  <2> QED
    BY <2>3, <2>5, <2>6, <2>7, <2>8, <2>9, <2>10, <2>11, <2>12, <2>13, <2>14, <2>15, <2>16
       DEF Next, Run
<1> QED
  BY <1>1, <1>2 DEF RaceInv, RaceIsFair

(* Two processes that contend, of which either may die, with any number of *)
(* children, are linearized: the reclaim of a dead owner's lock needs a    *)
(* third one to go wrong.                                                  *)
THEOREM TwoAreLinearized == ASSUME Prompt, AtMostTwo PROVE Spec => []Linearized
<1>1. Init => RaceInv
  <2> SUFFICES ASSUME Init PROVE RaceInv
    OBVIOUS
  <2>1. \A p \in Processes : pc[p] \in {"off", "try"} /\ ~seen[p].whole
    BY DEF Init, Nothing
  <2>2. \A c \in Children : pc[c] = "off"
    BY ProcessesAssumption DEF Init, Processes
  <2> QED
    BY <2>1, <2>2 DEF Init, RaceInv, ParentsHeld, RaceIsFair, Making, Processes
<1>2. LeaseInv /\ RaceInv /\ [Next]_vars => RaceInv'
  BY RaceStep
<1>3. LeaseInv /\ [Next]_vars => LeaseInv'
  BY LeaseInvStep
<1>4. RaceInv => OneCreates
  BY DEF RaceInv, RaceIsFair, OneCreates, Racing, Making, At, Before
<1>5. Spec => []OneCreates
  BY LeaseInit, <1>1, <1>2, <1>3, <1>4, PTL DEF Spec
<1> QED
  BY <1>5, LinearizedUnlessTwoCreate, PTL
=============================================================================
