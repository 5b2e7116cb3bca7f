--------------------------- MODULE OperationsOnce ---------------------------
(***************************************************************************)
(* What the browser, desktop and chat runtimes may expect of the journal   *)
(* of their operations: whoever asks, however often and whatever fails,    *)
(* an operation is started for one caller, takes effect at most once, with *)
(* what that caller asked for and before it is answered, and everybody who *)
(* is told anything of the operation is told the truth, for good as long   *)
(* as the service lives.                                                   *)
(***************************************************************************)
CONSTANTS Callers, Ops, Payloads, NoRecord

VARIABLES
  asks,     \* the operation and the payload each caller asks for, or <<>>
  told,     \* what it was told: "none", "done" or "conflict"
  running,  \* callers whose operation is running
  started,  \* operations that were ever started
  effect    \* the payload each operation took effect with

onceVars == <<asks, told, running, started, effect>>

OpOf(c) == asks[c][1]
PayloadOf(c) == asks[c][2]
Waiting(c) == asks[c] # <<>> /\ told[c] = "none" /\ c \notin running

OnceInit ==
  /\ asks = [c \in Callers |-> <<>>]
  /\ told = [c \in Callers |-> "none"]
  /\ running = {}
  /\ started \subseteq Ops
  /\ effect \in [Ops -> Payloads \cup {NoRecord}]
  /\ \A o \in Ops : effect[o] # NoRecord => o \in started

Ask(c, o, p) ==
  /\ c \notin running
  /\ asks' = [asks EXCEPT ![c] = <<o, p>>]
  /\ told' = [told EXCEPT ![c] = "none"]
  /\ UNCHANGED <<running, started, effect>>

(* Nobody was told anything of an operation that is started.               *)
Start(c) ==
  /\ Waiting(c)
  /\ OpOf(c) \notin started
  /\ \A d \in Callers : told[d] # "none" => OpOf(d) # OpOf(c)
  /\ started' = started \cup {OpOf(c)}
  /\ running' = running \cup {c}
  /\ UNCHANGED <<asks, told, effect>>

(* The operation has its effect, and its caller learns of it or not.       *)
TakeEffect(c) ==
  /\ c \in running
  /\ effect[OpOf(c)] = NoRecord
  /\ effect' = [effect EXCEPT ![OpOf(c)] = PayloadOf(c)]
  /\ running' = running \ {c}
  /\ asks' \in {asks, [asks EXCEPT ![c] = <<>>]}
  /\ UNCHANGED <<told, started>>

(* Nobody runs the operation any more: the answer stays true.              *)
Tell(c) ==
  /\ Waiting(c)
  /\ \A d \in running : OpOf(d) # OpOf(c)
  /\ told' = [told EXCEPT ![c] =
                 IF effect[OpOf(c)] = PayloadOf(c) THEN "done" ELSE "conflict"]
  /\ UNCHANGED <<asks, running, started, effect>>

(* A caller is told that nothing is known: its operation may have run.     *)
Dismiss(c) ==
  /\ asks' = [asks EXCEPT ![c] = <<>>]
  /\ told' = [told EXCEPT ![c] = "none"]
  /\ running' = running \ {c}
  /\ UNCHANGED <<started, effect>>

Restart ==
  /\ asks' = [c \in Callers |-> <<>>]
  /\ told' = [c \in Callers |-> "none"]
  /\ running' = {}
  /\ UNCHANGED <<started, effect>>

OnceNext ==
  \/ \E c \in Callers :
       \/ \E o \in Ops, p \in Payloads : Ask(c, o, p)
       \/ Start(c) \/ TakeEffect(c) \/ Tell(c) \/ Dismiss(c)
  \/ Restart

OnceSpec == OnceInit /\ [][OnceNext]_onceVars
=============================================================================
