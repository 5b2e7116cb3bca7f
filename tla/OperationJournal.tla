-------------------------- MODULE OperationJournal --------------------------
(***************************************************************************)
(* The operation journal of the browser, desktop and chat runtimes:        *)
(* commit() runs an operation that must not be repeated, keeps its outcome *)
(* on disk in the recovery directory of the review, and answers whoever    *)
(* asks for it again. The operations of one review, the calls for them,    *)
(* the cache, the records on disk (those of an earlier version of the      *)
(* service too), failures, the end of the review, a crash of the service   *)
(* and a loss of power, which takes back what was not synced.              *)
(***************************************************************************)
EXTENDS Naturals, Sequences, FiniteSets

CONSTANTS
  Callers,     \* connections that ask for operations, one at a time each
  Ops,         \* operation keys of the review
  LegacyOps,   \* operations an earlier version of the service may have run
  Payloads,    \* what a key may come with: fingerprints
  NoRecord,
  MaxCached,   \* maxCachedOperations
  MaxFaults    \* bound: I/O failures, crashes and losses of power

ASSUME RecordAssumption ==
  NoRecord \notin Payloads \cup [of : Payloads, status : {"pending", "completed"}]
ASSUME SetsAssumption == Ops # {} /\ Payloads # {} /\ LegacyOps \subseteq Ops
ASSUME BoundsAssumption == MaxCached \in Nat \ {0} /\ MaxFaults \in Nat

(* StoredOperation, and OperationRecord: a result in memory that is still  *)
(* awaited is "running".                                                   *)
Records == [of : Payloads, status : {"pending", "completed"}]
Evidence == Records \cup {NoRecord}
CachedRecords ==
  [of : Payloads, status : {"running", "pending", "completed"}, durable : BOOLEAN]

(* Where commit() is: waiting for its predecessor, reading, publishing and *)
(* then syncing a record of some kind, removing a migrated one, running.   *)
Pcs == {"away", "queued", "read", "publish", "sync", "retire", "run", "answered"}
Kinds == {"none", "migrated", "pending", "completed"}
Answers == {"none", "done", "conflict"}
Calls == [pc : Pcs, op : Ops, payload : Payloads, kind : Kinds, answer : Answers]

(* A caller that asks for nothing.                                         *)
Idle == CHOOSE c \in Calls : c.pc = "away" /\ c.kind = "none" /\ c.answer = "none"

VARIABLES
  call,      \* what each caller asks for, and what it was told
  queue,     \* #admissions: the calls for each operation, in their order
  cache,     \* #records
  disk,      \* each operation's record: as seen, and as a loss of power leaves it
  legacy,    \* the same of the record an earlier version left
  scope,     \* the review: "open", "ended", or "gone" with its directory
  runs,      \* history: how often each operation was started
  done,      \* history: the payload it took effect with
  confirmed, \* history: operations a caller was told of after its own run
  faults

vars == <<call, queue, cache, disk, legacy, scope, runs, done, confirmed, faults>>

TypeOK ==
  /\ call \in [Callers -> Calls]
  /\ queue \in [Ops -> Seq(Callers)]
  /\ cache \in [Ops -> CachedRecords \cup {NoRecord}]
  /\ disk \in [Ops -> [seen : Evidence, synced : Evidence]]
  /\ legacy \in [Ops -> [seen : Evidence, synced : Evidence]]
  /\ scope \in {"open", "ended", "gone"}
  /\ runs \in [Ops -> Nat]
  /\ done \in [Ops -> Payloads \cup {NoRecord}]
  /\ confirmed \in SUBSET Ops
  /\ faults \in 0..MaxFaults

(* No call yet. An earlier version may have run some of the operations.    *)
Init ==
  /\ legacy \in [Ops -> {[seen |-> e, synced |-> e] : e \in Evidence}]
  /\ \A o \in Ops \ LegacyOps : legacy[o].seen = NoRecord
  /\ runs = [o \in Ops |-> IF legacy[o].seen = NoRecord THEN 0 ELSE 1]
  /\ done = [o \in Ops |-> IF legacy[o].seen # NoRecord /\ legacy[o].seen.status = "completed"
                           THEN legacy[o].seen.of ELSE NoRecord]
  /\ call = [c \in Callers |-> Idle]
  /\ queue = [o \in Ops |-> <<>>]
  /\ cache = [o \in Ops |-> NoRecord]
  /\ disk = [o \in Ops |-> [seen |-> NoRecord, synced |-> NoRecord]]
  /\ scope = "open"
  /\ confirmed = {}
  /\ faults = 0

Fault == faults < MaxFaults /\ faults' = faults + 1

-----------------------------------------------------------------------------
(* What a call does next. Its answer releases the next call for the key;   *)
(* only one that tells of the operation still matters to the properties.   *)
Goes(c, pc, kind) == call' = [call EXCEPT ![c].pc = pc, ![c].kind = kind]

Told(c, answer) ==
  IF answer \in {"done", "conflict"}
  THEN [call[c] EXCEPT !.pc = "answered", !.kind = "none", !.answer = answer]
  ELSE Idle

AnsweredHoldingTheKey(c, answer) ==      \* mutant of Answered: no finally clause
  /\ call' = [call EXCEPT ![c] = Told(c, answer)]
  /\ queue' = IF answer = "failed" THEN queue ELSE [queue EXCEPT ![call[c].op] = Tail(@)]

Answered(c, answer) ==
  /\ call' = [call EXCEPT ![c] = Told(c, answer)]
  /\ queue' = [queue EXCEPT ![call[c].op] = Tail(@)]

(* The answer that evidence of an operation gives to a call with a payload.*)
VerdictOfAnyPayload(record, payload) ==      \* mutant of Verdict
  IF record.status = "completed" THEN "done" ELSE "unknown"
VerdictOfAnyStatus(record, payload) ==      \* mutant of Verdict: pending will do
  IF record.of # payload THEN "conflict" ELSE "done"
Verdict(record, payload) ==
  IF record.of # payload THEN "conflict"
  ELSE IF record.status = "completed" THEN "done" ELSE "unknown"

(* #trim(): durable records leave, the oldest first (their order is left   *)
(* open here), until few enough or none of them are left.                  *)
Durable(records) == {o \in Ops : records[o] # NoRecord /\ records[o].durable}
Cached(records) == {o \in Ops : records[o] # NoRecord}
TrimmedNever(records) == {records}      \* mutant of Trimmed
Trimmed(records) ==
  {[o \in Ops |-> IF o \in out THEN NoRecord ELSE records[o]] :
     out \in {S \in SUBSET Durable(records) :
                /\ Cardinality(Cached(records) \ S) <= MaxCached \/ S = Durable(records)
                /\ S # {} => Cardinality(Cached(records) \ S) >= MaxCached}}

(* #remember(): what was read from the disk.                               *)
Remembered(o, record) ==
  Trimmed([cache EXCEPT ![o] = [of |-> record.of, status |-> record.status, durable |-> TRUE]])

-----------------------------------------------------------------------------
(* commit(): a call takes its place among the calls for its key, if there  *)
(* is a review to ask about.                                               *)
Commit(c, o, p) ==
  /\ call[c].pc \in {"away", "answered"}
  /\ IF scope = "open"
     THEN /\ call' = [call EXCEPT ![c] = [pc |-> "queued", op |-> o, payload |-> p,
                                          kind |-> "none", answer |-> "none"]]
          /\ queue' = [queue EXCEPT ![o] = Append(@, c)]
     ELSE call' = [call EXCEPT ![c] = Idle] /\ UNCHANGED queue
  /\ UNCHANGED <<cache, disk, legacy, scope, runs, done, confirmed, faults>>

(* The predecessor is through: the cache, then the disk.                   *)
Admit(c) ==
  LET o == call[c].op IN
  /\ call[c].pc = "queued"
  /\ queue[o] # <<>> /\ Head(queue[o]) = c
  /\ \/ scope # "open" /\ Answered(c, "unavailable")
     \/ scope = "open" /\ cache[o] # NoRecord /\ Answered(c, Verdict(cache[o], call[c].payload))
     \/ scope = "open" /\ cache[o] = NoRecord /\ Goes(c, "read", "none") /\ UNCHANGED queue
  /\ UNCHANGED <<cache, disk, legacy, scope, runs, done, confirmed, faults>>

(* The record of the review, or else the one of the earlier version, which *)
(* is published under the review before it goes. Without either, the       *)
(* operation is put on record as pending.                                  *)
LegacyIgnored(o) == NoRecord      \* mutant of LegacyOf
LegacyOf(o) == legacy[o].seen

Read(c) ==
  LET o == call[c].op IN
  /\ call[c].pc = "read"
  /\ \/ scope # "open" /\ Answered(c, "unavailable") /\ UNCHANGED <<cache, faults>>
     \/ Fault /\ Answered(c, "failed") /\ UNCHANGED cache
     \/ /\ scope = "open"
        /\ disk[o].seen # NoRecord
        /\ cache' \in Remembered(o, disk[o].seen)
        /\ Answered(c, Verdict(disk[o].seen, call[c].payload))
        /\ UNCHANGED faults
     \/ /\ scope = "open"
        /\ disk[o].seen = NoRecord
        /\ Goes(c, "publish", IF LegacyOf(o) = NoRecord THEN "pending" ELSE "migrated")
        /\ UNCHANGED <<queue, cache, faults>>
  /\ UNCHANGED <<disk, legacy, scope, runs, done, confirmed>>

-----------------------------------------------------------------------------
(* #persist(): the record is renamed into place, then the directory synced.*)
WrittenAsRunning(c) ==      \* mutant of Written
  [of |-> call[c].payload, status |-> IF call[c].kind = "completed" THEN "completed" ELSE "running"]
Written(c) ==
  IF call[c].kind = "migrated" THEN LegacyOf(call[c].op)
  ELSE [of |-> call[c].payload, status |-> call[c].kind]

Unsynced(o) == disk      \* mutant of Synced
Synced(o) == [disk EXCEPT ![o].synced = disk[o].seen]

(* A persist that throws ends the call; the record of a run is forgotten.  *)
Throws(c, answer) ==
  /\ Answered(c, answer)
  /\ cache' = IF call[c].kind = "completed" THEN [cache EXCEPT ![call[c].op] = NoRecord] ELSE cache

Publish(c) ==
  LET o == call[c].op IN
  /\ call[c].pc = "publish"
  /\ \/ /\ scope # "gone"
        /\ disk' = [disk EXCEPT ![o].seen = Written(c)]
        /\ Goes(c, "sync", call[c].kind)
        /\ UNCHANGED <<queue, cache, faults>>
     \/ scope # "open" /\ Throws(c, "unavailable") /\ UNCHANGED <<disk, faults>>
     \/ Fault /\ Throws(c, "failed") /\ UNCHANGED disk
  /\ UNCHANGED <<legacy, scope, runs, done, confirmed>>

SyncFails(c) ==
  /\ call[c].pc = "sync"
  /\ (scope = "gone" /\ UNCHANGED faults) \/ Fault
  /\ Throws(c, "failed")
  /\ UNCHANGED <<disk, legacy, scope, runs, done, confirmed>>

(* The migrated record is safe: the old one may go.                        *)
SyncMigrated(c) ==
  /\ call[c].pc = "sync" /\ call[c].kind = "migrated"
  /\ scope # "gone"
  /\ disk' = Synced(call[c].op)
  /\ Goes(c, "retire", "none")
  /\ UNCHANGED <<queue, cache, legacy, scope, runs, done, confirmed, faults>>

RetireMigrated(c) ==
  LET o == call[c].op IN
  /\ call[c].pc = "retire"
  /\ \/ /\ legacy' = [legacy EXCEPT ![o].seen = NoRecord]
        /\ cache' \in Remembered(o, legacy[o].seen)
        /\ Answered(c, Verdict(legacy[o].seen, call[c].payload))
        /\ UNCHANGED faults
     \/ Fault /\ Answered(c, "failed") /\ UNCHANGED <<legacy, cache>>
  /\ UNCHANGED <<disk, scope, runs, done, confirmed>>

(* The operation is on record as pending: it starts, unless the review has *)
(* ended.                                                                  *)
SyncPending(c) ==
  LET o == call[c].op IN
  /\ call[c].pc = "sync" /\ call[c].kind = "pending"
  /\ scope # "gone"
  /\ disk' = Synced(o)
  /\ IF scope = "open"
     THEN /\ Goes(c, "run", "none")
          /\ runs' = [runs EXCEPT ![o] = @ + 1]
          /\ cache' = [cache EXCEPT ![o] =
                         [of |-> call[c].payload, status |-> "running", durable |-> FALSE]]
          /\ UNCHANGED queue
     ELSE Answered(c, "unavailable") /\ UNCHANGED <<runs, cache>>
  /\ UNCHANGED <<legacy, scope, done, confirmed, faults>>

(* It ends well and its result is put on record, or it throws, after it    *)
(* had its effect or before.                                               *)
RunEnds(c) ==
  LET o == call[c].op IN
  /\ call[c].pc = "run"
  /\ \/ /\ done' = [done EXCEPT ![o] = call[c].payload]
        /\ Goes(c, "publish", "completed")
        /\ UNCHANGED <<queue, cache, faults>>
     \/ /\ Fault
        /\ done' \in {done, [done EXCEPT ![o] = call[c].payload]}
        /\ Answered(c, "failed")
        /\ cache' = [cache EXCEPT ![o] = NoRecord]
  /\ UNCHANGED <<disk, legacy, scope, runs, confirmed>>

SyncCompleted(c) ==
  LET o == call[c].op IN
  /\ call[c].pc = "sync" /\ call[c].kind = "completed"
  /\ scope # "gone"
  /\ disk' = Synced(o)
  /\ cache' \in Trimmed(IF cache[o] = NoRecord THEN cache
                        ELSE [cache EXCEPT ![o].status = "completed", ![o].durable = TRUE])
  /\ Answered(c, "done")
  /\ confirmed' = confirmed \cup {o}
  /\ UNCHANGED <<legacy, scope, runs, done, faults>>

-----------------------------------------------------------------------------
(* The review ends; then its directory is removed, or that fails, and      *)
(* releaseCanonical() forgets its operations.                              *)
EndReview ==
  /\ scope = "open"
  /\ scope' = "ended"
  /\ UNCHANGED <<call, queue, cache, disk, legacy, runs, done, confirmed, faults>>

ReleaseReview ==
  /\ scope = "ended"
  /\ cache' = [o \in Ops |-> NoRecord]
  /\ \/ /\ scope' = "gone"
        /\ disk' = [o \in Ops |-> [seen |-> NoRecord, synced |-> NoRecord]]
        /\ UNCHANGED faults
     \/ Fault /\ UNCHANGED <<scope, disk>>
  /\ UNCHANGED <<call, queue, legacy, runs, done, confirmed>>

(* The last panel of the review is closed and no request of it is open.    *)
ReleaseInactive ==
  /\ \A c \in Callers : call[c].pc \in {"away", "answered"}
  /\ cache # [o \in Ops |-> NoRecord]
  /\ cache' = [o \in Ops |-> NoRecord]
  /\ UNCHANGED <<call, queue, disk, legacy, scope, runs, done, confirmed, faults>>

(* The service dies and starts again. A review whose directory is there is *)
(* recovered.                                                              *)
Restart ==
  /\ Fault
  /\ call' = [c \in Callers |-> Idle]
  /\ queue' = [o \in Ops |-> <<>>]
  /\ cache' = [o \in Ops |-> NoRecord]
  /\ scope' = IF scope = "gone" THEN "gone" ELSE "open"
  /\ UNCHANGED <<runs, done, confirmed>>

Crash == Restart /\ UNCHANGED <<disk, legacy>>

Survives(records, o) == {[seen |-> e, synced |-> e] : e \in {records[o].seen, records[o].synced}}
LosePower ==
  /\ Restart
  /\ disk' \in [Ops -> UNION {Survives(disk, o) : o \in Ops}]
  /\ legacy' \in [Ops -> UNION {Survives(legacy, o) : o \in Ops}]
  /\ \A o \in Ops : disk'[o] \in Survives(disk, o) /\ legacy'[o] \in Survives(legacy, o)

Step(c) ==
  \/ Admit(c) \/ Read(c) \/ Publish(c) \/ SyncFails(c) \/ SyncMigrated(c)
  \/ RetireMigrated(c) \/ SyncPending(c) \/ RunEnds(c) \/ SyncCompleted(c)

Next ==
  \/ \E c \in Callers : Step(c) \/ \E o \in Ops, p \in Payloads : Commit(c, o, p)
  \/ EndReview
  \/ ReleaseReview
  \/ ReleaseInactive
  \/ Crash
  \/ LosePower

Spec == Init /\ [][Next]_vars

(* Every await of a call ends: I/O answers and so does the operation.      *)
FairSpec == Spec /\ \A c \in Callers : WF_vars(Step(c))

-----------------------------------------------------------------------------
(* No operation is started twice, whatever calls for it race or come again *)
(* after failures, evictions, crashes and losses of power, an earlier      *)
(* version of the service included.                                        *)
AtMostOnce == \A o \in Ops : runs[o] <= 1

(* Who is told that an operation is done asked for what was done; who is   *)
(* told of a conflict asked for something else.                            *)
AnswersAreTrue ==
  \A c \in Callers :
    /\ call[c].answer = "done" => done[call[c].op] = call[c].payload
    /\ call[c].answer = "conflict" => done[call[c].op] # call[c].payload

(* What the caller of an operation was told to be done stays on record as  *)
(* done, while its review lasts.                                           *)
ConfirmedStays ==
  scope = "open" =>
    \A o \in confirmed : disk[o].seen # NoRecord /\ disk[o].seen.status = "completed"

(* The cache never keeps more records than its limit that it could read    *)
(* again from the disk.                                                    *)
CacheIsBounded == Cardinality(Durable(cache)) <= MaxCached

(* What the callers of commit() see is the abstract journal, in which an   *)
(* operation is started once, takes effect at most once, for the caller it *)
(* runs for and with its payload, and every answer is true.                *)
Asked(c) == IF call[c].pc = "away" THEN <<>> ELSE <<call[c].op, call[c].payload>>

Once == INSTANCE OperationsOnce WITH
  asks <- [c \in Callers |-> Asked(c)],
  told <- [c \in Callers |-> call[c].answer],
  running <- {c \in Callers : call[c].pc = "run"},
  started <- {o \in Ops : runs[o] # 0},
  effect <- done

ImplementsOperationsOnce == Once!OnceSpec

(* Every call is answered: no failure leaves the later calls for an        *)
(* operation waiting.                                                      *)
EveryCallIsAnswered ==
  \A c \in Callers : call[c].pc = "queued" ~> call[c].pc \in {"away", "answered"}
=============================================================================
