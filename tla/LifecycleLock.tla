--------------------------- MODULE LifecycleLock ---------------------------
(***************************************************************************)
(* The lifecycle lock of installers, launchers and starting daemons: a     *)
(* directory with one owner marker, which a child process may borrow and   *)
(* which a contender may reclaim from the dead. POSIX: mkdir() and rmdir() *)
(* are atomic, a marker is created empty and then written.                 *)
(***************************************************************************)
EXTENDS Naturals, FiniteSets

CONSTANTS
  Launchers,    \* processes that contend with a token of their own
  Children,     \* processes that inherit the token of a holder
  NoMarker,
  MaxCrashes,   \* bound on processes that die
  Prompt        \* nobody pauses a second between two operations on the files

ASSUME ProcessesAssumption ==
  /\ Launchers \cap Children = {}
  /\ NoMarker \notin Launchers
ASSUME BoundsAssumption == MaxCrashes \in Nat /\ Prompt \in BOOLEAN

Processes == Launchers \cup Children

VARIABLES
  exists,       \* the lock directory is there
  marker,       \* the owner markers in it, by token
  borrowers,    \* the borrower markers in it
  dirRecent,    \* the directory was changed less than a second ago
  recent,       \* ... these owner markers were
  pc, seen,     \* progress of each process, and its lock observation
  inherited,    \* the token a child was started with
  dead          \* processes that died

files == <<exists, marker, borrowers, dirRecent, recent>>
vars == <<exists, marker, borrowers, dirRecent, recent, pc, seen, inherited, dead>>

Steps == {"off", "try", "create", "fill", "undo", "look", "lend", "confirm",
          "dropped", "inspect", "judge", "unlink", "rmdir", "holding", "borrowing",
          "leaving", "ended"}

TypeOK ==
  /\ exists \in BOOLEAN
  /\ marker \in [Launchers -> {"none", "torn", "whole"}]
  /\ borrowers \in SUBSET Children
  /\ dirRecent \in BOOLEAN
  /\ recent \in SUBSET Launchers
  /\ pc \in [Processes -> Steps]
  /\ seen \in [Processes -> [owner : Launchers \cup {NoMarker}, whole : BOOLEAN]]
  /\ inherited \in [Children -> Launchers \cup {NoMarker}]
  /\ dead \in SUBSET Processes
  /\ exists \/ (borrowers = {} /\ \A l \in Launchers : marker[l] = "none")

Nothing == [owner |-> NoMarker, whole |-> FALSE]

Init ==
  /\ exists = FALSE
  /\ marker = [l \in Launchers |-> "none"]
  /\ borrowers = {}
  /\ dirRecent = FALSE
  /\ recent = {}
  /\ pc = [p \in Processes |-> IF p \in Launchers THEN "try" ELSE "off"]
  /\ seen = [p \in Processes |-> Nothing]
  /\ inherited = [c \in Children |-> NoMarker]
  /\ dead = {}

Alive(p) == p \notin dead
Owners == {l \in Launchers : marker[l] # "none"}
Goto(p, step) == pc' = [pc EXCEPT ![p] = step]
At(p, step) == pc[p] = step /\ Alive(p)

(* A change of its entries renews the directory's modification time.       *)
SetMarker(l, content) ==
  /\ marker' = [marker EXCEPT ![l] = content]
  /\ dirRecent' = (dirRecent \/ marker[l] # content)
  /\ recent' = IF content = "none" THEN recent \ {l} ELSE recent \cup {l}
SetBorrowers(set) ==
  /\ borrowers' = set
  /\ dirRecent' = (dirRecent \/ set # borrowers)

(* Mutant of RemoveDirectory: what is in the directory goes with it.       *)
RemoveRecursively == exists' = FALSE /\ dirRecent' = FALSE

(* rmdir(): only an empty directory goes.                                  *)
RemoveDirectory ==
  IF Owners = {} /\ borrowers = {}
  THEN exists' = FALSE /\ dirRecent' = FALSE
  ELSE UNCHANGED <<exists, dirRecent>>

(* inspectLock(): the one owner marker there is, if it can be parsed.      *)
Observation ==
  IF \E l \in Launchers : Owners = {l}
  THEN LET l == CHOOSE l \in Launchers : Owners = {l}
       IN [owner |-> l, whole |-> marker[l] = "whole"]
  ELSE Nothing

(* Both ends of the acquisition loop; its deadline may pass at its end.    *)
Retry(p) == Goto(p, IF p \in Launchers THEN "try" ELSE "look")
GiveUp(p) ==
  /\ At(p, "try") \/ At(p, "look")
  /\ Goto(p, "ended")
  /\ UNCHANGED <<files, seen, inherited, dead>>

-----------------------------------------------------------------------------
(* acquireLifecycleLock() with a token of one's own.                       *)
MakeDirectory(p) ==
  /\ At(p, "try")
  /\ IF exists
     THEN Goto(p, "inspect") /\ UNCHANGED <<exists, dirRecent>>
     ELSE Goto(p, "create") /\ exists' = TRUE /\ dirRecent' = TRUE
  /\ UNCHANGED <<marker, borrowers, recent, seen, inherited, dead>>

CreateMarker(p) ==
  /\ At(p, "create")
  /\ IF exists
     THEN Goto(p, "fill") /\ SetMarker(p, "torn")
     ELSE Goto(p, "undo") /\ UNCHANGED <<marker, dirRecent, recent>>
  /\ UNCHANGED <<exists, borrowers, seen, inherited, dead>>

(* ... whose marker may have been taken for a dead one while it was empty. *)
FillMarker(p) ==
  /\ At(p, "fill")
  /\ IF marker[p] = "torn"
     THEN /\ Goto(p, "holding")
          /\ marker' = [marker EXCEPT ![p] = "whole"]
          /\ recent' = recent \cup {p}
     ELSE Goto(p, "undo") /\ UNCHANGED <<marker, recent>>
  /\ UNCHANGED <<exists, borrowers, dirRecent, seen, inherited, dead>>

UndoDirectory(p) ==
  /\ At(p, "undo")
  /\ RemoveDirectory
  /\ Goto(p, "ended")
  /\ UNCHANGED <<marker, borrowers, recent, seen, inherited, dead>>

-----------------------------------------------------------------------------
(* A holder starts a child with its token, and the child borrows the lock  *)
(* if that token is still on disk before and after it left its own marker. *)
Spawn(p, c) ==
  /\ At(p, "holding")
  /\ pc[c] = "off"
  /\ inherited' = [inherited EXCEPT ![c] = p]
  /\ Goto(c, "look")
  /\ UNCHANGED <<files, seen, dead>>

OwnerConfirmed(c) ==
  Observation = [owner |-> inherited[c], whole |-> TRUE] /\ Alive(inherited[c])

Look(c) ==
  /\ At(c, "look")
  /\ Goto(c, IF OwnerConfirmed(c) THEN "lend" ELSE "inspect")
  /\ UNCHANGED <<files, seen, inherited, dead>>

Lend(c) ==
  /\ At(c, "lend")
  /\ IF exists
     THEN Goto(c, "confirm") /\ SetBorrowers(borrowers \cup {c})
     ELSE Goto(c, "inspect") /\ UNCHANGED <<borrowers, dirRecent>>
  /\ UNCHANGED <<exists, marker, recent, seen, inherited, dead>>

ConfirmUnseen(c) ==     \* mutant of Confirm: the second inspection is left out
  /\ At(c, "confirm")
  /\ Goto(c, "borrowing")
  /\ UNCHANGED <<files, seen, inherited, dead>>

Confirm(c) ==
  /\ At(c, "confirm")
  /\ IF OwnerConfirmed(c)
     THEN Goto(c, "borrowing") /\ UNCHANGED <<borrowers, dirRecent>>
     ELSE Goto(c, "dropped") /\ SetBorrowers(borrowers \ {c})
  /\ UNCHANGED <<exists, marker, recent, seen, inherited, dead>>

DropDirectory(c) ==
  /\ At(c, "dropped")
  /\ RemoveDirectory
  /\ Goto(c, "inspect")
  /\ UNCHANGED <<marker, borrowers, recent, seen, inherited, dead>>

-----------------------------------------------------------------------------
(* The end of the loop: inspectLock() and removeStaleRecord().             *)
Inspect(p) ==
  /\ At(p, "inspect")
  /\ seen' = [seen EXCEPT ![p] = Observation]
  /\ Goto(p, "judge")
  /\ UNCHANGED <<files, inherited, dead>>

(* Mutant of Stale: age does not matter.                                   *)
StaleAtAnyAge(o, dirOld) ==
  CASE o.whole -> o.owner \in dead
    [] o.owner = NoMarker -> exists
    [] OTHER -> marker[o.owner] # "none"

(* What may be reclaimed: the marker of a dead process; a marker nobody    *)
(* can parse, or a directory without a single marker, after a second.      *)
Stale(o, dirOld) ==
  CASE o.whole -> o.owner \in dead
    [] o.owner = NoMarker -> exists /\ dirOld
    [] OTHER -> marker[o.owner] # "none" /\ o.owner \notin recent

(* Mutant of StillBorrowed: dead borrowers count.                          *)
BorrowedForEver == borrowers

(* borrowersAreBusy() removes the markers of dead borrowers as it goes.    *)
StillBorrowed == borrowers \ dead

Judge(p) ==
  LET o == seen[p] IN
  /\ At(p, "judge")
  /\ IF o.whole /\ Alive(o.owner)
     THEN Retry(p) /\ UNCHANGED <<borrowers, dirRecent>>
     ELSE /\ SetBorrowers(StillBorrowed)
          /\ IF StillBorrowed = {} /\ Stale(o, ~dirRecent')
             THEN Goto(p, IF o.owner = NoMarker THEN "rmdir" ELSE "unlink")
             ELSE Retry(p)
  /\ UNCHANGED <<exists, marker, recent, seen, inherited, dead>>

UnlinkMarker(p) ==
  /\ At(p, "unlink")
  /\ SetMarker(seen[p].owner, "none")
  /\ Goto(p, "rmdir")
  /\ UNCHANGED <<exists, borrowers, seen, inherited, dead>>

ReclaimDirectory(p) ==
  /\ At(p, "rmdir")
  /\ RemoveDirectory
  /\ Retry(p)
  /\ UNCHANGED <<marker, borrowers, recent, seen, inherited, dead>>

-----------------------------------------------------------------------------
(* release() of a lease: the marker, then the directory.                   *)
Release(p) ==
  /\ \/ /\ At(p, "holding")
        /\ SetMarker(p, "none")
        /\ UNCHANGED borrowers
     \/ /\ At(p, "borrowing")
        /\ SetBorrowers(borrowers \ {p})
        /\ UNCHANGED <<marker, recent>>
  /\ Goto(p, "leaving")
  /\ UNCHANGED <<exists, seen, inherited, dead>>

LeaveDirectory(p) ==
  /\ At(p, "leaving")
  /\ RemoveDirectory
  /\ Goto(p, "ended")
  /\ UNCHANGED <<marker, borrowers, recent, seen, inherited, dead>>

Crash(p) ==
  /\ pc[p] \notin {"off", "ended"}
  /\ Alive(p)
  /\ Cardinality(dead) < MaxCrashes
  /\ dead' = dead \cup {p}
  /\ UNCHANGED <<files, pc, seen, inherited>>

(* A second passes since the last change of a marker or of the directory,  *)
(* if Prompt never in the middle of a sequence of operations on the files. *)
InSequence(p) == pc[p] \in {"create", "fill", "undo", "dropped", "judge", "unlink",
                            "rmdir", "leaving"}
SecondPasses ==
  /\ Prompt => \A p \in Processes \ dead : ~InSequence(p)
  /\ \/ dirRecent /\ dirRecent' = FALSE /\ UNCHANGED recent
     \/ \E l \in recent : recent' = recent \ {l} /\ UNCHANGED dirRecent
  /\ UNCHANGED <<exists, marker, borrowers, pc, seen, inherited, dead>>

Run(p) ==
  \/ p \in Launchers /\ (MakeDirectory(p) \/ CreateMarker(p) \/ FillMarker(p)
                           \/ UndoDirectory(p))
  \/ p \in Children /\ (Look(p) \/ Lend(p) \/ Confirm(p) \/ DropDirectory(p))
  \/ Inspect(p) \/ Judge(p) \/ UnlinkMarker(p) \/ ReclaimDirectory(p)
  \/ LeaveDirectory(p)

Next ==
  \/ \E p \in Processes : Run(p) \/ Release(p) \/ GiveUp(p) \/ Crash(p)
  \/ \E p \in Launchers, c \in Children : Spawn(p, c)
  \/ SecondPasses

Spec == Init /\ [][Next]_vars

-----------------------------------------------------------------------------
Holding(p) == pc[p] \in {"holding", "borrowing"} /\ Alive(p)
Token(p) == IF p \in Launchers THEN p ELSE inherited[p]

(* All leases in use are of one token: installs, launches and startups are *)
(* linearized, a child shares the lease of the process that started it.    *)
Linearized ==
  \A p, q \in Processes : Holding(p) /\ Holding(q) => Token(p) = Token(q)

(* A reclaimer, however late it is, never removes the lease of a live      *)
(* process: what was published stays until its owner releases it.          *)
LeaseStaysOnDisk ==
  \A p \in Processes : Holding(p) =>
     exists /\ (IF p \in Launchers THEN marker[p] = "whole" ELSE p \in borrowers)

(* Processes that run take their steps, and seconds pass while nobody is   *)
(* at work on the files; nobody need release, give up or die.              *)
FairSpec ==
  /\ Spec
  /\ \A p \in Processes : WF_vars(Run(p))
  /\ SF_vars(SecondPasses)

(* What dead processes left behind does not block the lock: a launcher that*)
(* keeps trying while nobody has a lease cannot do so for ever, unless the *)
(* contenders' polls (25 ms apart) interlock so that one is always at work.*)
Contending(p) == pc[p] \in {"try", "create", "fill", "inspect", "judge", "unlink", "rmdir"}
NeverWedged ==
  ([]<>(\A p \in Processes \ dead : ~InSequence(p))) =>
  ~<>[](/\ \A p \in Processes : ~Holding(p)
        /\ \E p \in Launchers : Alive(p) /\ Contending(p))
=============================================================================
