----------------------- MODULE OperationJournalProofs -----------------------
(***************************************************************************)
(* Proofs about the operation journal, for any number of callers,          *)
(* operations, payloads and faults and any size of the cache: an operation *)
(* starts at most once, what was confirmed stays on record, and answers    *)
(* are true. They rest on one call at a time working on an operation (the  *)
(* admission queue), on the evidence of a started operation never leaving  *)
(* the disk, and on what the call at work knows of that evidence.          *)
(***************************************************************************)
EXTENDS OperationJournal, FiniteSetTheorems, TLAPS

(* A call that holds the admission of its operation.                       *)
Working == {"read", "publish", "sync", "retire", "run"}
Committed == {"publish", "sync", "retire", "run"}

OneAtWork ==
  \A c \in Callers :
    call[c].pc \in Working => queue[call[c].op] # <<>> /\ Head(queue[call[c].op]) = c

SyncedIsSeen == \A o \in Ops : disk[o].synced # NoRecord => disk[o].seen # NoRecord

StartedIsOnRecord ==
  scope # "gone" =>
    \A o \in Ops : runs[o] # 0 =>
      \/ disk[o].synced # NoRecord
      \/ legacy[o].seen # NoRecord /\ legacy[o].synced # NoRecord

ConfirmedIsKept ==
  scope # "gone" =>
    \A o \in confirmed :
      /\ disk[o].seen # NoRecord /\ disk[o].seen.status = "completed"
      /\ disk[o].synced # NoRecord /\ disk[o].synced.status = "completed"

(* What the call at work relies on.                                        *)
Backed(call_c) ==
  LET o == call_c.op IN
  /\ call_c.pc \in {"publish", "sync"} =>
       /\ call_c.kind # "none"
       /\ call_c.kind = "pending" => runs[o] = 0
       /\ call_c.kind = "migrated" => legacy[o].seen # NoRecord
  /\ call_c.pc = "sync" /\ scope # "gone" =>
       /\ disk[o].seen # NoRecord
       /\ call_c.kind = "completed" => disk[o].seen.status = "completed"
  /\ call_c.pc = "retire" =>
       /\ legacy[o].seen # NoRecord
       /\ scope # "gone" => disk[o].synced # NoRecord
  /\ call_c.pc \in Committed => o \notin confirmed

WorkIsBacked == \A c \in Callers : Backed(call[c])

IInv ==
  /\ TypeOK
  /\ AtMostOnce
  /\ OneAtWork
  /\ SyncedIsSeen
  /\ StartedIsOnRecord
  /\ ConfirmedIsKept
  /\ WorkIsBacked

-----------------------------------------------------------------------------
(* Typing of the pieces.                                                   *)
LEMMA IdleIsAway == Idle \in Calls /\ Idle.pc = "away" /\ Idle.answer = "none"
<1>1. PICK o \in Ops, p \in Payloads : TRUE
  BY SetsAssumption
<1>2. [pc |-> "away", op |-> o, payload |-> p, kind |-> "none", answer |-> "none"] \in Calls
  BY DEF Calls, Pcs, Kinds, Answers
<1>3. \E c \in Calls : c.pc = "away" /\ c.kind = "none" /\ c.answer = "none"
  BY <1>2
<1> QED
  BY <1>3 DEF Idle

LEMMA ToldRests ==
  ASSUME TypeOK, NEW c \in Callers, NEW answer
  PROVE  Told(c, answer) \in Calls /\ Told(c, answer).pc \in {"away", "answered"}
<1>1. call[c] \in Calls
  BY DEF TypeOK
<1>2. CASE answer \in {"done", "conflict"}
  BY <1>1, <1>2 DEF Told, Calls, Pcs, Kinds, Answers
<1>3. CASE answer \notin {"done", "conflict"}
  BY <1>3, IdleIsAway DEF Told
<1> QED
  BY <1>2, <1>3

LEMMA TrimmedIsTyped ==
  ASSUME NEW records \in [Ops -> CachedRecords \cup {NoRecord}],
         NEW after \in Trimmed(records)
  PROVE  after \in [Ops -> CachedRecords \cup {NoRecord}]
<1>1. PICK out \in SUBSET Ops : after = [o \in Ops |-> IF o \in out THEN NoRecord ELSE records[o]]
  BY DEF Trimmed, Durable
<1> QED
  BY <1>1

LEMMA RememberedIsTyped ==
  ASSUME TypeOK, NEW o \in Ops, NEW record \in Records, NEW after \in Remembered(o, record)
  PROVE  after \in [Ops -> CachedRecords \cup {NoRecord}]
<1>1. [of |-> record.of, status |-> record.status, durable |-> TRUE] \in CachedRecords
  BY DEF Records, CachedRecords
<1>2. [cache EXCEPT ![o] = [of |-> record.of, status |-> record.status, durable |-> TRUE]]
        \in [Ops -> CachedRecords \cup {NoRecord}]
  BY <1>1 DEF TypeOK
<1> QED
  BY <1>2, TrimmedIsTyped DEF Remembered

(* The call at work is alone with its operation.                           *)
LEMMA WorksAlone ==
  ASSUME OneAtWork, NEW c \in Callers, NEW d \in Callers, c # d,
         call[d].pc \in Working,
         queue[call[c].op] # <<>>, Head(queue[call[c].op]) = c
  PROVE  call[d].op # call[c].op
BY DEF OneAtWork

(* An answer ends the work and lets the next call in.                      *)
LEMMA AnswerFrees ==
  ASSUME TypeOK, OneAtWork, NEW c \in Callers, NEW answer, Answered(c, answer),
         queue[call[c].op] # <<>>, Head(queue[call[c].op]) = c
  PROVE  /\ call' \in [Callers -> Calls]
         /\ queue' \in [Ops -> Seq(Callers)]
         /\ OneAtWork'
         /\ call'[c].pc \in {"away", "answered"}
         /\ \A d \in Callers \ {c} : call'[d] = call[d]
<1>1. call[c] \in Calls /\ call[c].op \in Ops
  BY DEF TypeOK, Calls
<1>2. Told(c, answer) \in Calls /\ Told(c, answer).pc \in {"away", "answered"}
  BY ToldRests
<1>3. call' \in [Callers -> Calls]
  BY <1>2 DEF Answered, TypeOK
<1>4. call'[c].pc \in {"away", "answered"} /\ \A d \in Callers \ {c} : call'[d] = call[d]
  BY <1>2 DEF Answered, TypeOK
<1>5. queue[call[c].op] \in Seq(Callers) /\ Tail(queue[call[c].op]) \in Seq(Callers)
  BY <1>1 DEF TypeOK
<1>6. queue' \in [Ops -> Seq(Callers)]
  BY <1>5 DEF Answered, TypeOK
<1>7. OneAtWork'
  <2> SUFFICES ASSUME NEW d \in Callers, call'[d].pc \in Working
               PROVE  queue'[call'[d].op] # <<>> /\ Head(queue'[call'[d].op]) = d
    BY DEF OneAtWork
  <2>1. d # c /\ call'[d] = call[d]
    BY <1>4 DEF Working
  <2>2. call[d].op # call[c].op /\ call[d].op \in Ops
    BY <2>1, WorksAlone DEF TypeOK, Calls
  <2>3. queue'[call[d].op] = queue[call[d].op]
    BY <2>2 DEF Answered, TypeOK
  <2> QED
    BY <2>1, <2>3 DEF OneAtWork
<1> QED
  BY <1>3, <1>4, <1>6, <1>7

(* A call that goes on keeps its place.                                    *)
LEMMA GoingKeepsThePlace ==
  ASSUME TypeOK, OneAtWork, NEW c \in Callers, NEW pc \in Pcs, NEW kind \in Kinds,
         Goes(c, pc, kind), UNCHANGED queue,
         queue[call[c].op] # <<>>, Head(queue[call[c].op]) = c
  PROVE  /\ call' \in [Callers -> Calls]
         /\ OneAtWork'
         /\ call'[c].pc = pc /\ call'[c].kind = kind /\ call'[c].op = call[c].op
         /\ call'[c].payload = call[c].payload /\ call'[c].answer = call[c].answer
         /\ \A d \in Callers \ {c} : call'[d] = call[d]
<1>1. call[c] \in Calls
  BY DEF TypeOK
<1>2. call' = [call EXCEPT ![c] = [call[c] EXCEPT !.pc = pc, !.kind = kind]]
  BY DEF Goes, TypeOK, Calls
<1>3. [call[c] EXCEPT !.pc = pc, !.kind = kind] \in Calls
  BY <1>1 DEF Calls
<1>4. call'[c] = [call[c] EXCEPT !.pc = pc, !.kind = kind]
  BY <1>2 DEF TypeOK
<1>5. /\ call'[c].pc = pc /\ call'[c].kind = kind /\ call'[c].op = call[c].op
      /\ call'[c].payload = call[c].payload /\ call'[c].answer = call[c].answer
  BY <1>1, <1>4 DEF Calls
<1>6. \A d \in Callers \ {c} : call'[d] = call[d]
  BY <1>2 DEF TypeOK
<1>7. call' \in [Callers -> Calls]
  BY <1>2, <1>3 DEF TypeOK
<1>8. OneAtWork'
  BY <1>5, <1>6 DEF OneAtWork
<1> QED
  BY <1>5, <1>6, <1>7, <1>8

-----------------------------------------------------------------------------
(* What the calls at work on other operations rely on is not disturbed.    *)
LEMMA OthersStayBacked ==
  ASSUME TypeOK, OneAtWork, WorkIsBacked, NEW c \in Callers, NEW d \in Callers \ {c},
         queue[call[c].op] # <<>>, Head(queue[call[c].op]) = c,
         call'[d] = call[d], scope' = scope,
         \A o \in Ops \ {call[c].op} :
           disk'[o] = disk[o] /\ legacy'[o] = legacy[o] /\ runs'[o] = runs[o],
         confirmed' \subseteq confirmed \cup {call[c].op}
  PROVE  Backed(call[d])'
<1>1. Backed(call[d]) /\ call[d] \in Calls
  BY DEF WorkIsBacked, TypeOK
<1>2. CASE call[d].pc \notin Committed
  BY <1>2 DEF Backed, Committed
<1>3. CASE call[d].pc \in Committed
  <2>1. call[d].op # call[c].op /\ call[d].op \in Ops
    BY <1>1, <1>3, WorksAlone DEF Committed, Working, Calls
  <2> QED
    BY <1>1, <2>1 DEF Backed
<1> QED
  BY <1>2, <1>3

LEMMA RestingIsBacked ==
  ASSUME NEW c \in Callers, call'[c].pc \in {"away", "answered", "queued", "read"}
  PROVE  Backed(call[c])'
BY DEF Backed, Committed

LEMMA FaultIsBounded ==
  ASSUME TypeOK, Fault \/ UNCHANGED faults
  PROVE  faults' \in 0..MaxFaults
BY BoundsAssumption DEF TypeOK, Fault

(* A step that leaves every record and count alone.                        *)
LEMMA QuietStep ==
  ASSUME IInv, NEW c \in Callers,
         queue[call[c].op] # <<>>, Head(queue[call[c].op]) = c,
         call' \in [Callers -> Calls], queue' \in [Ops -> Seq(Callers)], OneAtWork',
         \A d \in Callers \ {c} : call'[d] = call[d],
         UNCHANGED <<disk, legacy, scope, runs, confirmed>>,
         cache' \in [Ops -> CachedRecords \cup {NoRecord}],
         done' \in [Ops -> Payloads \cup {NoRecord}],
         Fault \/ UNCHANGED faults,
         Backed(call[c])'
  PROVE  IInv'
<1>1. TypeOK'
  BY FaultIsBounded DEF IInv, TypeOK
<1>2. AtMostOnce' /\ SyncedIsSeen' /\ StartedIsOnRecord' /\ ConfirmedIsKept'
  BY DEF IInv, AtMostOnce, SyncedIsSeen, StartedIsOnRecord, ConfirmedIsKept
<1>3. WorkIsBacked'
  <2> SUFFICES ASSUME NEW d \in Callers, d # c PROVE Backed(call[d])'
    BY DEF WorkIsBacked
  <2> QED
    BY OthersStayBacked DEF IInv
<1> QED
  BY <1>1, <1>2, <1>3 DEF IInv

LEMMA QuietAnswer ==
  ASSUME IInv, NEW c \in Callers, NEW answer, Answered(c, answer),
         queue[call[c].op] # <<>>, Head(queue[call[c].op]) = c,
         UNCHANGED <<disk, legacy, scope, runs, confirmed>>,
         cache' \in [Ops -> CachedRecords \cup {NoRecord}],
         done' \in [Ops -> Payloads \cup {NoRecord}],
         Fault \/ UNCHANGED faults
  PROVE  IInv'
<1>1. /\ call' \in [Callers -> Calls] /\ queue' \in [Ops -> Seq(Callers)] /\ OneAtWork'
      /\ call'[c].pc \in {"away", "answered"}
      /\ \A d \in Callers \ {c} : call'[d] = call[d]
  BY AnswerFrees DEF IInv
<1>2. Backed(call[c])'
  BY <1>1, RestingIsBacked
<1> QED
  BY <1>1, <1>2, QuietStep

-----------------------------------------------------------------------------
(* The steps of a call.                                                    *)
LEMMA AtWork ==
  ASSUME IInv, NEW c \in Callers
  PROVE  /\ call[c] \in Calls /\ call[c].op \in Ops /\ call[c].payload \in Payloads
         /\ call[c].kind \in Kinds
         /\ call[c].pc \in Working => queue[call[c].op] # <<>> /\ Head(queue[call[c].op]) = c
BY DEF IInv, TypeOK, Calls, OneAtWork

LEMMA CommitPreserves ==
  ASSUME IInv, NEW c \in Callers, NEW o \in Ops, NEW p \in Payloads, Commit(c, o, p)
  PROVE  IInv'
<1> USE DEF Commit
<1>1. call' \in [Callers -> Calls]
  <2>1. [pc |-> "queued", op |-> o, payload |-> p, kind |-> "none", answer |-> "none"] \in Calls
    BY DEF Calls, Pcs, Kinds, Answers
  <2> QED
    BY <2>1, IdleIsAway DEF IInv, TypeOK
<1>2. queue' \in [Ops -> Seq(Callers)]
  <2>1. queue[o] \in Seq(Callers) /\ Append(queue[o], c) \in Seq(Callers)
    BY DEF IInv, TypeOK
  <2> QED
    BY <2>1 DEF IInv, TypeOK
<1>3. call'[c].pc \in {"away", "queued"} /\ \A d \in Callers \ {c} : call'[d] = call[d]
  BY IdleIsAway DEF IInv, TypeOK
<1>4. OneAtWork'
  <2> SUFFICES ASSUME NEW d \in Callers, call'[d].pc \in Working
               PROVE  queue'[call'[d].op] # <<>> /\ Head(queue'[call'[d].op]) = d
    BY DEF OneAtWork
  <2>1. d # c /\ call'[d] = call[d] /\ call[d].op \in Ops
    BY <1>3 DEF Working, IInv, TypeOK, Calls
  <2>2. queue[call[d].op] # <<>> /\ Head(queue[call[d].op]) = d /\ queue[call[d].op] \in Seq(Callers)
    BY <2>1 DEF IInv, OneAtWork, TypeOK
  <2>3. queue'[call[d].op] \in {queue[call[d].op], Append(queue[call[d].op], c)}
    BY <2>1 DEF IInv, TypeOK
  <2> QED
    BY <2>1, <2>2, <2>3
<1>5. WorkIsBacked'
  <2> SUFFICES ASSUME NEW d \in Callers PROVE Backed(call[d])'
    BY DEF WorkIsBacked
  <2>1. CASE d = c
    BY <1>3, <2>1, RestingIsBacked
  <2>2. CASE d # c
    BY <1>3, <2>2 DEF IInv, WorkIsBacked, Backed
  <2> QED
    BY <2>1, <2>2
<1>6. TypeOK'
  BY <1>1, <1>2 DEF IInv, TypeOK
<1>7. AtMostOnce' /\ SyncedIsSeen' /\ StartedIsOnRecord' /\ ConfirmedIsKept'
  BY DEF IInv, AtMostOnce, SyncedIsSeen, StartedIsOnRecord, ConfirmedIsKept
<1> QED
  BY <1>4, <1>5, <1>6, <1>7 DEF IInv

LEMMA AdmitPreserves ==
  ASSUME IInv, NEW c \in Callers, Admit(c)
  PROVE  IInv'
<1>1. queue[call[c].op] # <<>> /\ Head(queue[call[c].op]) = c
  BY DEF Admit
<1>2. cache' \in [Ops -> CachedRecords \cup {NoRecord}] /\ done' \in [Ops -> Payloads \cup {NoRecord}]
  BY DEF Admit, IInv, TypeOK
<1>3. CASE \E answer : Answered(c, answer)
  BY <1>1, <1>2, <1>3, QuietAnswer DEF Admit
<1>4. CASE Goes(c, "read", "none") /\ UNCHANGED queue
  <2>1. /\ call' \in [Callers -> Calls] /\ OneAtWork' /\ call'[c].pc = "read"
        /\ \A d \in Callers \ {c} : call'[d] = call[d]
    BY <1>1, <1>4, GoingKeepsThePlace DEF IInv, Pcs, Kinds
  <2>2. Backed(call[c])'
    BY <2>1, RestingIsBacked
  <2>3. queue' \in [Ops -> Seq(Callers)]
    BY <1>4 DEF IInv, TypeOK
  <2> QED
    BY <1>1, <1>2, <2>1, <2>2, <2>3, QuietStep DEF Admit
<1> QED
  BY <1>3, <1>4 DEF Admit

LEMMA ReadPreserves ==
  ASSUME IInv, NEW c \in Callers, Read(c)
  PROVE  IInv'
<1> DEFINE o == call[c].op
<1>1. queue[o] # <<>> /\ Head(queue[o]) = c /\ o \in Ops
  BY AtWork DEF Read, Working
<1>2. done' \in [Ops -> Payloads \cup {NoRecord}]
  BY DEF Read, IInv, TypeOK
<1>3. CASE \E answer : Answered(c, answer)
  <2>1. CASE UNCHANGED cache
    BY <2>1, <1>1, <1>2, <1>3, QuietAnswer DEF Read, IInv, TypeOK
  <2>2. CASE disk[o].seen # NoRecord /\ cache' \in Remembered(o, disk[o].seen)
    <3>1. disk[o].seen \in Records
      BY <1>1, <2>2 DEF IInv, TypeOK, Evidence
    <3>2. cache' \in [Ops -> CachedRecords \cup {NoRecord}]
      BY <1>1, <2>2, <3>1, RememberedIsTyped DEF IInv
    <3> QED
      BY <3>2, <1>1, <1>2, <1>3, QuietAnswer DEF Read
  <2> QED
    BY <2>1, <2>2 DEF Read
<1>4. CASE /\ scope = "open" /\ disk[o].seen = NoRecord
           /\ Goes(c, "publish", IF LegacyOf(o) = NoRecord THEN "pending" ELSE "migrated")
           /\ UNCHANGED <<queue, cache, faults>>
  <2> DEFINE kind == IF LegacyOf(o) = NoRecord THEN "pending" ELSE "migrated"
  <2>1. /\ call' \in [Callers -> Calls] /\ OneAtWork'
        /\ call'[c].pc = "publish" /\ call'[c].kind = kind /\ call'[c].op = o
        /\ \A d \in Callers \ {c} : call'[d] = call[d]
    BY <1>1, <1>4, GoingKeepsThePlace DEF IInv, Pcs, Kinds
  <2>2. legacy[o].seen = NoRecord => runs[o] = 0
    BY <1>1, <1>4 DEF IInv, StartedIsOnRecord, SyncedIsSeen
  <2>3. o \notin confirmed
    BY <1>1, <1>4 DEF IInv, ConfirmedIsKept
  <2>4. Backed(call[c])'
    BY <1>1, <2>1, <2>2, <2>3 DEF Backed, Read, LegacyOf, Committed
  <2>5. queue' \in [Ops -> Seq(Callers)] /\ cache' \in [Ops -> CachedRecords \cup {NoRecord}]
    BY <1>4 DEF IInv, TypeOK
  <2> QED
    BY <1>1, <1>2, <1>4, <2>1, <2>4, <2>5, QuietStep DEF Read
<1> QED
  BY <1>3, <1>4 DEF Read

LEMMA ThrowIsTyped ==
  ASSUME IInv, NEW c \in Callers, NEW answer, Throws(c, answer)
  PROVE  Answered(c, answer) /\ cache' \in [Ops -> CachedRecords \cup {NoRecord}]
BY DEF Throws, IInv, TypeOK

LEMMA PublishPreserves ==
  ASSUME IInv, NEW c \in Callers, Publish(c)
  PROVE  IInv'
<1> DEFINE o == call[c].op
<1>1. queue[o] # <<>> /\ Head(queue[o]) = c /\ o \in Ops /\ call[c] \in Calls
  BY AtWork DEF Publish, Working
<1>2. done' \in [Ops -> Payloads \cup {NoRecord}]
  BY DEF Publish, IInv, TypeOK
<1>3. CASE UNCHANGED disk /\ \E answer : Throws(c, answer)
  BY <1>1, <1>2, <1>3, ThrowIsTyped, QuietAnswer DEF Publish
<1>4. CASE /\ scope # "gone" /\ disk' = [disk EXCEPT ![o].seen = Written(c)]
           /\ Goes(c, "sync", call[c].kind) /\ UNCHANGED <<queue, cache, faults>>
  <2>1. Backed(call[c]) /\ call[c].kind \in Kinds \ {"none"}
    BY <1>1 DEF IInv, WorkIsBacked, Backed, Publish, Calls
  <2>2. Written(c) \in Records /\ (call[c].kind = "completed" => Written(c).status = "completed")
    <3>1. CASE call[c].kind = "migrated"
      BY <1>1, <2>1, <3>1 DEF Backed, Publish, Written, LegacyOf, IInv, TypeOK, Evidence
    <3>2. CASE call[c].kind # "migrated"
      BY <1>1, <2>1, <3>2 DEF Kinds, Written, Records, Calls
    <3> QED
      BY <3>1, <3>2
  <2>3. Written(c) # NoRecord
    BY <2>2, RecordAssumption DEF Records
  <2>4. /\ call' \in [Callers -> Calls] /\ OneAtWork'
        /\ call'[c].pc = "sync" /\ call'[c].kind = call[c].kind /\ call'[c].op = o
        /\ \A d \in Callers \ {c} : call'[d] = call[d]
    BY <1>1, <1>4, <2>1, GoingKeepsThePlace DEF IInv, Pcs
  <2>5. /\ disk' \in [Ops -> [seen : Evidence, synced : Evidence]]
        /\ disk'[o] = [seen |-> Written(c), synced |-> disk[o].synced]
        /\ \A other \in Ops \ {o} : disk'[other] = disk[other]
    BY <1>1, <1>4, <2>2 DEF IInv, TypeOK, Evidence
  <2>6. TypeOK'
    BY <1>4, <2>4, <2>5 DEF Publish, IInv, TypeOK
  <2>7. AtMostOnce' /\ StartedIsOnRecord'
    BY <1>1, <2>5 DEF Publish, IInv, AtMostOnce, StartedIsOnRecord
  <2>8. SyncedIsSeen'
    BY <2>3, <2>5 DEF IInv, SyncedIsSeen
  <2>9. o \notin confirmed /\ confirmed \subseteq Ops
    BY <2>1 DEF Backed, Publish, Committed, IInv, TypeOK
  <2>10. ConfirmedIsKept'
    BY <2>5, <2>9 DEF Publish, IInv, ConfirmedIsKept
  <2>11. WorkIsBacked'
    <3> SUFFICES ASSUME NEW d \in Callers PROVE Backed(call[d])'
      BY DEF WorkIsBacked
    <3>1. CASE d = c
      BY <1>1, <2>1, <2>2, <2>3, <2>4, <2>5, <3>1 DEF Backed, Publish, Committed
    <3>2. CASE d # c
      BY <1>1, <2>4, <2>5, <3>2, OthersStayBacked DEF Publish, IInv
    <3> QED
      BY <3>1, <3>2
  <2> QED
    BY <2>4, <2>6, <2>7, <2>8, <2>10, <2>11 DEF IInv
<1> QED
  BY <1>3, <1>4 DEF Publish

LEMMA SyncFailsPreserves ==
  ASSUME IInv, NEW c \in Callers, SyncFails(c)
  PROVE  IInv'
<1>1. queue[call[c].op] # <<>> /\ Head(queue[call[c].op]) = c
  BY AtWork DEF SyncFails, Working
<1>2. done' \in [Ops -> Payloads \cup {NoRecord}]
  BY DEF SyncFails, IInv, TypeOK
<1> QED
  BY <1>1, <1>2, ThrowIsTyped, QuietAnswer DEF SyncFails

(* What a sync leaves, whatever it is a sync of.                           *)
LEMMA SyncKeepsTheDisk ==
  ASSUME IInv, NEW c \in Callers, call[c].pc = "sync", scope # "gone", disk' = Synced(call[c].op),
         UNCHANGED <<legacy, scope>>
  PROVE  /\ disk' \in [Ops -> [seen : Evidence, synced : Evidence]]
         /\ disk'[call[c].op] = [seen |-> disk[call[c].op].seen, synced |-> disk[call[c].op].seen]
         /\ disk[call[c].op].seen # NoRecord
         /\ \A o \in Ops \ {call[c].op} : disk'[o] = disk[o]
         /\ SyncedIsSeen'
<1>1. call[c].op \in Ops /\ disk[call[c].op].seen # NoRecord
  BY AtWork DEF IInv, WorkIsBacked, Backed
<1>2. /\ disk' \in [Ops -> [seen : Evidence, synced : Evidence]]
      /\ disk'[call[c].op] = [seen |-> disk[call[c].op].seen, synced |-> disk[call[c].op].seen]
      /\ \A o \in Ops \ {call[c].op} : disk'[o] = disk[o]
  BY <1>1 DEF IInv, TypeOK, Synced
<1>3. SyncedIsSeen'
  BY <1>1, <1>2 DEF IInv, SyncedIsSeen
<1> QED
  BY <1>1, <1>2, <1>3

LEMMA SyncMigratedPreserves ==
  ASSUME IInv, NEW c \in Callers, SyncMigrated(c)
  PROVE  IInv'
<1> DEFINE o == call[c].op
<1>1. queue[o] # <<>> /\ Head(queue[o]) = c /\ o \in Ops
  BY AtWork DEF SyncMigrated, Working
<1>2. /\ disk' \in [Ops -> [seen : Evidence, synced : Evidence]]
      /\ disk'[o] = [seen |-> disk[o].seen, synced |-> disk[o].seen]
      /\ disk[o].seen # NoRecord
      /\ \A other \in Ops \ {o} : disk'[other] = disk[other]
      /\ SyncedIsSeen'
  BY SyncKeepsTheDisk DEF SyncMigrated
<1>3. /\ call' \in [Callers -> Calls] /\ OneAtWork'
      /\ call'[c].pc = "retire" /\ call'[c].op = o
      /\ \A d \in Callers \ {c} : call'[d] = call[d]
  BY <1>1, GoingKeepsThePlace DEF SyncMigrated, IInv, Pcs, Kinds
<1>4. Backed(call[c]) /\ o \notin confirmed /\ confirmed \subseteq Ops
  BY DEF IInv, WorkIsBacked, Backed, SyncMigrated, Committed, TypeOK
<1>5. TypeOK'
  BY <1>2, <1>3 DEF SyncMigrated, IInv, TypeOK
<1>6. AtMostOnce' /\ StartedIsOnRecord' /\ ConfirmedIsKept'
  <2>1. UNCHANGED <<legacy, scope, runs, confirmed>>
    BY DEF SyncMigrated
  <2>2. disk'[o].synced = disk[o].seen
    BY <1>2
  <2> HIDE DEF o
  <2>3. AtMostOnce' /\ StartedIsOnRecord'
    BY <1>2, <2>1, <2>2 DEF IInv, AtMostOnce, StartedIsOnRecord
  <2>4. ConfirmedIsKept'
    BY <1>2, <1>4, <2>1 DEF IInv, ConfirmedIsKept
  <2> QED
    BY <2>3, <2>4
<1>7. WorkIsBacked'
  <2> SUFFICES ASSUME NEW d \in Callers PROVE Backed(call[d])'
    BY DEF WorkIsBacked
  <2>1. CASE d = c
    BY <1>1, <1>2, <1>3, <1>4, <2>1 DEF Backed, SyncMigrated, Committed
  <2>2. CASE d # c
    BY <1>1, <1>2, <1>3, <2>2, OthersStayBacked DEF SyncMigrated, IInv
  <2> QED
    BY <2>1, <2>2
<1> QED
  BY <1>2, <1>3, <1>5, <1>6, <1>7 DEF IInv

LEMMA RetirePreserves ==
  ASSUME IInv, NEW c \in Callers, RetireMigrated(c)
  PROVE  IInv'
<1> DEFINE o == call[c].op
<1>1. queue[o] # <<>> /\ Head(queue[o]) = c /\ o \in Ops
  BY AtWork DEF RetireMigrated, Working
<1>2. done' \in [Ops -> Payloads \cup {NoRecord}]
  BY DEF RetireMigrated, IInv, TypeOK
<1>3. Backed(call[c])
  BY DEF IInv, WorkIsBacked
<1>4. CASE UNCHANGED <<legacy, cache>>
  BY <1>1, <1>2, <1>4, QuietAnswer DEF RetireMigrated, IInv, TypeOK
<1>5. CASE /\ legacy' = [legacy EXCEPT ![o].seen = NoRecord]
           /\ cache' \in Remembered(o, legacy[o].seen)
           /\ Answered(c, Verdict(legacy[o].seen, call[c].payload))
           /\ UNCHANGED faults
  <2>1. legacy[o].seen \in Records /\ (scope # "gone" => disk[o].synced # NoRecord)
    BY <1>1, <1>3 DEF Backed, RetireMigrated, IInv, TypeOK, Evidence
  <2>2. cache' \in [Ops -> CachedRecords \cup {NoRecord}]
    BY <1>1, <1>5, <2>1, RememberedIsTyped DEF IInv
  <2>3. /\ call' \in [Callers -> Calls] /\ queue' \in [Ops -> Seq(Callers)] /\ OneAtWork'
        /\ call'[c].pc \in {"away", "answered"}
        /\ \A d \in Callers \ {c} : call'[d] = call[d]
    BY <1>1, <1>5, AnswerFrees DEF IInv
  <2>4. /\ legacy' \in [Ops -> [seen : Evidence, synced : Evidence]]
        /\ \A other \in Ops \ {o} : legacy'[other] = legacy[other]
    BY <1>1, <1>5 DEF IInv, TypeOK, Evidence
  <2>5. TypeOK'
    BY <1>5, <2>2, <2>3, <2>4 DEF RetireMigrated, IInv, TypeOK
  <2>6. AtMostOnce' /\ SyncedIsSeen' /\ StartedIsOnRecord' /\ ConfirmedIsKept'
    BY <2>1, <2>4 DEF RetireMigrated, IInv, AtMostOnce, SyncedIsSeen, StartedIsOnRecord, ConfirmedIsKept
  <2>7. WorkIsBacked'
    <3> SUFFICES ASSUME NEW d \in Callers PROVE Backed(call[d])'
      BY DEF WorkIsBacked
    <3>1. CASE d = c
      BY <2>3, <3>1, RestingIsBacked
    <3>2. CASE d # c
      BY <1>1, <2>3, <2>4, <3>2, OthersStayBacked DEF RetireMigrated, IInv
    <3> QED
      BY <3>1, <3>2
  <2> QED
    BY <2>3, <2>5, <2>6, <2>7 DEF IInv
<1> QED
  BY <1>4, <1>5 DEF RetireMigrated

LEMMA SyncPendingPreserves ==
  ASSUME IInv, NEW c \in Callers, SyncPending(c)
  PROVE  IInv'
<1> DEFINE o == call[c].op
<1>1. queue[o] # <<>> /\ Head(queue[o]) = c /\ o \in Ops /\ call[c].payload \in Payloads
  BY AtWork DEF SyncPending, Working
<1>2. /\ disk' \in [Ops -> [seen : Evidence, synced : Evidence]]
      /\ disk'[o] = [seen |-> disk[o].seen, synced |-> disk[o].seen]
      /\ disk[o].seen # NoRecord
      /\ \A other \in Ops \ {o} : disk'[other] = disk[other]
      /\ SyncedIsSeen'
  BY SyncKeepsTheDisk DEF SyncPending
<1>3. Backed(call[c]) /\ runs[o] = 0 /\ o \notin confirmed /\ confirmed \subseteq Ops
  BY DEF IInv, WorkIsBacked, Backed, SyncPending, Committed, TypeOK
<1>4. /\ call' \in [Callers -> Calls] /\ queue' \in [Ops -> Seq(Callers)] /\ OneAtWork'
      /\ \A d \in Callers \ {c} : call'[d] = call[d]
      /\ Backed(call[c])'
  <2>1. CASE scope = "open"
    <3>1. /\ call' \in [Callers -> Calls] /\ OneAtWork'
          /\ call'[c].pc = "run" /\ call'[c].op = o
          /\ \A d \in Callers \ {c} : call'[d] = call[d]
      BY <1>1, <2>1, GoingKeepsThePlace DEF SyncPending, IInv, Pcs, Kinds
    <3>2. Backed(call[c])'
      BY <1>3, <3>1 DEF Backed, SyncPending, Committed
    <3> QED
      BY <2>1, <3>1, <3>2 DEF SyncPending, IInv, TypeOK
  <2>2. CASE scope # "open"
    BY <1>1, <2>2, AnswerFrees, RestingIsBacked DEF SyncPending, IInv
  <2> QED
    BY <2>1, <2>2
<1>5. /\ runs' \in [Ops -> Nat] /\ runs'[o] \in {0, 1}
      /\ \A other \in Ops \ {o} : runs'[other] = runs[other]
  <2>1. runs' = runs \/ runs' = [runs EXCEPT ![o] = runs[o] + 1]
    BY DEF SyncPending
  <2>2. runs \in [Ops -> Nat]
    BY DEF IInv, TypeOK
  <2> QED
    BY <1>1, <1>3, <2>1, <2>2
<1>6. cache' \in [Ops -> CachedRecords \cup {NoRecord}]
  <2>1. [of |-> call[c].payload, status |-> "running", durable |-> FALSE] \in CachedRecords
    BY <1>1 DEF CachedRecords
  <2> QED
    BY <2>1 DEF SyncPending, IInv, TypeOK
<1>7. TypeOK'
  BY <1>2, <1>4, <1>5, <1>6 DEF SyncPending, IInv, TypeOK
<1>8. AtMostOnce' /\ StartedIsOnRecord' /\ ConfirmedIsKept'
  <2>1. AtMostOnce'
    BY <1>5 DEF IInv, AtMostOnce
  <2>2. StartedIsOnRecord'
    BY <1>2, <1>5 DEF SyncPending, IInv, StartedIsOnRecord
  <2>3. ConfirmedIsKept'
    BY <1>2, <1>3 DEF SyncPending, IInv, ConfirmedIsKept
  <2> QED
    BY <2>1, <2>2, <2>3
<1>9. WorkIsBacked'
  <2> SUFFICES ASSUME NEW d \in Callers, d # c PROVE Backed(call[d])'
    BY <1>4 DEF WorkIsBacked
  <2> QED
    BY <1>1, <1>2, <1>4, <1>5, OthersStayBacked DEF SyncPending, IInv
<1> QED
  BY <1>2, <1>4, <1>7, <1>8, <1>9 DEF IInv

LEMMA RunEndsPreserves ==
  ASSUME IInv, NEW c \in Callers, RunEnds(c)
  PROVE  IInv'
<1>1. /\ queue[call[c].op] # <<>> /\ Head(queue[call[c].op]) = c
      /\ call[c].op \in Ops /\ call[c].payload \in Payloads
  BY AtWork DEF RunEnds, Working
<1>2. done' \in [Ops -> Payloads \cup {NoRecord}] /\ cache' \in [Ops -> CachedRecords \cup {NoRecord}]
  BY <1>1 DEF RunEnds, IInv, TypeOK
<1>3. CASE Goes(c, "publish", "completed") /\ UNCHANGED <<queue, cache, faults>>
  <2>1. /\ call' \in [Callers -> Calls] /\ OneAtWork'
        /\ call'[c].pc = "publish" /\ call'[c].kind = "completed" /\ call'[c].op = call[c].op
        /\ \A d \in Callers \ {c} : call'[d] = call[d]
    BY <1>1, <1>3, GoingKeepsThePlace DEF IInv, Pcs, Kinds
  <2>2. call[c].op \notin confirmed
    BY DEF IInv, WorkIsBacked, Backed, RunEnds, Committed
  <2>3. Backed(call[c])'
    BY <2>1, <2>2 DEF Backed, RunEnds, Committed
  <2>4. queue' \in [Ops -> Seq(Callers)]
    BY <1>3 DEF IInv, TypeOK
  <2> QED
    BY <1>1, <1>2, <1>3, <2>1, <2>3, <2>4, QuietStep DEF RunEnds
<1>4. CASE Fault /\ Answered(c, "failed")
  BY <1>1, <1>2, <1>4, QuietAnswer DEF RunEnds
<1> QED
  BY <1>3, <1>4 DEF RunEnds

LEMMA SyncCompletedPreserves ==
  ASSUME IInv, NEW c \in Callers, SyncCompleted(c)
  PROVE  IInv'
<1> DEFINE o == call[c].op
<1>1. queue[o] # <<>> /\ Head(queue[o]) = c /\ o \in Ops
  BY AtWork DEF SyncCompleted, Working
<1>2. /\ disk' \in [Ops -> [seen : Evidence, synced : Evidence]]
      /\ disk'[o] = [seen |-> disk[o].seen, synced |-> disk[o].seen]
      /\ disk[o].seen # NoRecord
      /\ \A other \in Ops \ {o} : disk'[other] = disk[other]
      /\ SyncedIsSeen'
  BY SyncKeepsTheDisk DEF SyncCompleted
<1>3. disk[o].seen.status = "completed" /\ confirmed \subseteq Ops
  BY DEF IInv, WorkIsBacked, Backed, SyncCompleted, TypeOK
<1>4. /\ call' \in [Callers -> Calls] /\ queue' \in [Ops -> Seq(Callers)] /\ OneAtWork'
      /\ call'[c].pc \in {"away", "answered"}
      /\ \A d \in Callers \ {c} : call'[d] = call[d]
  BY <1>1, AnswerFrees DEF SyncCompleted, IInv
<1>5. cache' \in [Ops -> CachedRecords \cup {NoRecord}]
  <2> DEFINE settled == IF cache[o] = NoRecord THEN cache
                        ELSE [cache EXCEPT ![o].status = "completed", ![o].durable = TRUE]
  <2>1. settled \in [Ops -> CachedRecords \cup {NoRecord}]
    <3>1. cache \in [Ops -> CachedRecords \cup {NoRecord}]
      BY DEF IInv, TypeOK
    <3>2. ASSUME NEW r \in CachedRecords
          PROVE  [r EXCEPT !.status = "completed", !.durable = TRUE] \in CachedRecords
      BY DEF CachedRecords
    <3>3. CASE cache[o] # NoRecord
      BY <1>1, <3>1, <3>2, <3>3
    <3> QED
      BY <3>1, <3>3
  <2> HIDE DEF settled
  <2> QED
    BY <2>1, TrimmedIsTyped DEF SyncCompleted, settled
<1>6. TypeOK'
  BY <1>1, <1>2, <1>4, <1>5 DEF SyncCompleted, IInv, TypeOK
<1>7. AtMostOnce' /\ StartedIsOnRecord' /\ ConfirmedIsKept'
  <2>1. UNCHANGED <<legacy, scope, runs>> /\ confirmed' = confirmed \cup {o}
    BY DEF SyncCompleted
  <2>2. AtMostOnce'
    BY <2>1 DEF IInv, AtMostOnce
  <2>3. disk'[o].synced = disk[o].seen
    BY <1>2
  <2> HIDE DEF o
  <2>4. StartedIsOnRecord'
    BY <1>2, <2>1, <2>3 DEF IInv, StartedIsOnRecord
  <2>5. ConfirmedIsKept'
    BY <1>2, <1>3, <2>1, <2>3 DEF IInv, ConfirmedIsKept
  <2> QED
    BY <2>2, <2>4, <2>5
<1>8. WorkIsBacked'
  <2> SUFFICES ASSUME NEW d \in Callers PROVE Backed(call[d])'
    BY DEF WorkIsBacked
  <2>1. CASE d = c
    BY <1>4, <2>1, RestingIsBacked
  <2>2. CASE d # c
    BY <1>1, <1>2, <1>4, <2>2, OthersStayBacked DEF SyncCompleted, IInv
  <2> QED
    BY <2>1, <2>2
<1> QED
  BY <1>2, <1>4, <1>6, <1>7, <1>8 DEF IInv

-----------------------------------------------------------------------------
(* The steps around the calls.                                             *)
LEMMA EndPreserves ==
  ASSUME IInv, EndReview \/ ReleaseReview \/ ReleaseInactive
  PROVE  IInv'
<1>1. cache' \in [Ops -> CachedRecords \cup {NoRecord}] /\ disk' \in [Ops -> [seen : Evidence, synced : Evidence]]
  BY DEF EndReview, ReleaseReview, ReleaseInactive, IInv, TypeOK, Evidence
<1>2. TypeOK'
  BY <1>1, FaultIsBounded DEF EndReview, ReleaseReview, ReleaseInactive, IInv, TypeOK
<1>3. AtMostOnce' /\ OneAtWork'
  BY DEF EndReview, ReleaseReview, ReleaseInactive, IInv, AtMostOnce, OneAtWork
<1>4. SyncedIsSeen' /\ StartedIsOnRecord' /\ ConfirmedIsKept'
  BY DEF EndReview, ReleaseReview, ReleaseInactive, IInv, SyncedIsSeen, StartedIsOnRecord, ConfirmedIsKept
<1>5. WorkIsBacked'
  BY DEF EndReview, ReleaseReview, ReleaseInactive, IInv, WorkIsBacked, Backed
<1> QED
  BY <1>2, <1>3, <1>4, <1>5 DEF IInv

LEMMA RestartPreserves ==
  ASSUME IInv, Crash \/ LosePower
  PROVE  IInv'
<1>1. Restart
  BY DEF Crash, LosePower
<1>2. \A c \in Callers : call'[c] = Idle
  BY <1>1 DEF Restart
<1>3. /\ disk' \in [Ops -> [seen : Evidence, synced : Evidence]]
      /\ legacy' \in [Ops -> [seen : Evidence, synced : Evidence]]
      /\ \A o \in Ops : /\ disk'[o] = disk[o] \/ disk'[o] \in Survives(disk, o)
                        /\ legacy'[o] = legacy[o] \/ legacy'[o] \in Survives(legacy, o)
  <2>1. CASE Crash
    BY <2>1 DEF Crash, IInv, TypeOK
  <2>2. CASE LosePower
    <3>1. \A o \in Ops : Survives(disk, o) \subseteq [seen : Evidence, synced : Evidence]
      BY DEF Survives, IInv, TypeOK
    <3>2. \A o \in Ops : Survives(legacy, o) \subseteq [seen : Evidence, synced : Evidence]
      BY DEF Survives, IInv, TypeOK
    <3>3. disk' \in [Ops -> [seen : Evidence, synced : Evidence]]
      BY <2>2, <3>1 DEF LosePower
    <3>4. legacy' \in [Ops -> [seen : Evidence, synced : Evidence]]
      BY <2>2, <3>2 DEF LosePower
    <3> QED
      BY <2>2, <3>3, <3>4 DEF LosePower
  <2> QED
    BY <2>1, <2>2
<1>4. TypeOK'
  <2>1. call' \in [Callers -> Calls] /\ queue' \in [Ops -> Seq(Callers)]
    BY <1>1, IdleIsAway DEF Restart
  <2> QED
    BY <1>1, <1>3, <2>1, FaultIsBounded DEF Restart, IInv, TypeOK
<1>5. OneAtWork' /\ WorkIsBacked'
  BY <1>2, IdleIsAway, RestingIsBacked DEF OneAtWork, WorkIsBacked, Working
<1>6. \A o \in Ops :
        /\ disk[o].synced # NoRecord => disk'[o].seen # NoRecord /\ disk'[o].synced # NoRecord
        /\ disk'[o].synced # NoRecord => disk'[o].seen # NoRecord
        /\ legacy[o].seen # NoRecord /\ legacy[o].synced # NoRecord =>
             legacy'[o].seen # NoRecord /\ legacy'[o].synced # NoRecord
  BY <1>3 DEF Survives, IInv, SyncedIsSeen
<1>7. AtMostOnce' /\ SyncedIsSeen' /\ StartedIsOnRecord'
  BY <1>1, <1>6 DEF Restart, IInv, AtMostOnce, SyncedIsSeen, StartedIsOnRecord
<1>8. ConfirmedIsKept'
  BY <1>1, <1>3 DEF Restart, Survives, IInv, TypeOK, ConfirmedIsKept
<1> QED
  BY <1>4, <1>5, <1>7, <1>8 DEF IInv

-----------------------------------------------------------------------------
LEMMA InitEstablishes == Init => IInv
<1> SUFFICES ASSUME Init PROVE IInv
  OBVIOUS
<1>1. \A c \in Callers : call[c] = Idle
  BY DEF Init
<1>2. legacy \in [Ops -> [seen : Evidence, synced : Evidence]]
      /\ \A o \in Ops : legacy[o].seen = legacy[o].synced
  BY DEF Init
<1>3. done \in [Ops -> Payloads \cup {NoRecord}]
  BY <1>2 DEF Init, Evidence, Records
<1>4. call \in [Callers -> Calls] /\ queue \in [Ops -> Seq(Callers)]
  BY IdleIsAway DEF Init
<1>5. TypeOK
  BY <1>2, <1>3, <1>4, BoundsAssumption DEF Init, TypeOK, Evidence
<1>6. AtMostOnce /\ SyncedIsSeen /\ ConfirmedIsKept
  BY DEF Init, AtMostOnce, SyncedIsSeen, ConfirmedIsKept
<1>7. StartedIsOnRecord
  BY <1>2 DEF Init, StartedIsOnRecord
<1>8. OneAtWork /\ WorkIsBacked
  BY <1>1, IdleIsAway DEF OneAtWork, WorkIsBacked, Backed, Working, Committed
<1> QED
  BY <1>5, <1>6, <1>7, <1>8 DEF IInv

LEMMA StepPreserves == IInv /\ [Next]_vars => IInv'
<1> SUFFICES ASSUME IInv, [Next]_vars PROVE IInv'
  OBVIOUS
<1>1. ASSUME NEW c \in Callers, Step(c) PROVE IInv'
  BY <1>1, AdmitPreserves, ReadPreserves, PublishPreserves, SyncFailsPreserves, SyncMigratedPreserves,
     RetirePreserves, SyncPendingPreserves, RunEndsPreserves, SyncCompletedPreserves DEF Step
<1>2. ASSUME NEW c \in Callers, NEW o \in Ops, NEW p \in Payloads, Commit(c, o, p) PROVE IInv'
  BY <1>2, CommitPreserves
<1>3. CASE EndReview \/ ReleaseReview \/ ReleaseInactive
  BY <1>3, EndPreserves
<1>4. CASE Crash \/ LosePower
  BY <1>4, RestartPreserves
<1>5. CASE UNCHANGED vars
  BY <1>5 DEF vars, IInv, TypeOK, AtMostOnce, OneAtWork, SyncedIsSeen, StartedIsOnRecord,
              ConfirmedIsKept, WorkIsBacked, Backed
<1> QED
  BY <1>1, <1>2, <1>3, <1>4, <1>5 DEF Next

LEMMA Invariance == Spec => []IInv
<1>1. Init => IInv
  BY InitEstablishes
<1>2. IInv /\ [Next]_vars => IInv'
  BY StepPreserves
<1> QED
  BY <1>1, <1>2, PTL DEF Spec

(* commit() starts no operation twice, whatever races, fails, is evicted,  *)
(* crashes or is lost with the power, for any number of callers,           *)
(* operations and faults.                                                  *)
THEOREM OperationsRunAtMostOnce == Spec => []AtMostOnce
<1>1. IInv => AtMostOnce
  BY DEF IInv
<1> QED
  BY <1>1, Invariance, PTL

(* What a caller was told to be done after its own run is on record as     *)
(* done as long as the review is open, a loss of power included.           *)
THEOREM ConfirmedOperationsStay == Spec => []ConfirmedStays
<1>1. IInv => ConfirmedStays
  BY DEF IInv, ConfirmedIsKept, ConfirmedStays
<1> QED
  BY <1>1, Invariance, PTL

(* The calls, the queues, the cache and the records keep their types.      *)
THEOREM JournalIsTyped == Spec => []TypeOK
<1>1. IInv => TypeOK
  BY DEF IInv
<1> QED
  BY <1>1, Invariance, PTL

-----------------------------------------------------------------------------
(***************************************************************************)
(* The answers are true: a record agrees with what was done, the call that *)
(* runs an operation is the only one on record, and once a call was told   *)
(* of an operation, nothing starts it any more.                            *)
(***************************************************************************)
Agrees(record, o) ==
  record # NoRecord =>
    IF record.status = "completed" THEN done[o] = record.of ELSE done[o] \in {NoRecord, record.of}

OnRecord(o) == disk[o].seen # NoRecord \/ legacy[o].seen # NoRecord

(* What is known of an operation.                                          *)
Known(o) ==
  /\ Agrees(disk[o].seen, o) /\ Agrees(disk[o].synced, o)
  /\ Agrees(legacy[o].seen, o) /\ Agrees(legacy[o].synced, o)
  /\ Agrees(cache[o], o)
  /\ runs[o] = 0 =>
       done[o] = NoRecord /\ legacy[o].seen = NoRecord /\ legacy[o].synced = NoRecord
  /\ scope # "gone" /\ cache[o] # NoRecord => disk[o].seen # NoRecord

(* A call that may still start its operation, one that has, and what they  *)
(* find on record.                                                         *)
Starts(call_c) == call_c.pc = "run" \/ (call_c.pc \in {"publish", "sync"} /\ call_c.kind = "pending")
Started(call_c) ==
  call_c.pc = "run" \/ (call_c.pc \in {"publish", "sync"} /\ call_c.kind = "completed")

Mine(record, call_c) == record # NoRecord => record.of = call_c.payload

RunIsMine(call_c) ==
  LET o == call_c.op IN
  /\ Started(call_c) =>
       /\ runs[o] # 0 /\ legacy[o].seen = NoRecord /\ legacy[o].synced = NoRecord
       /\ Mine(disk[o].seen, call_c) /\ Mine(disk[o].synced, call_c) /\ Mine(cache[o], call_c)
  /\ Started(call_c) /\ call_c.pc # "run" => done[o] = call_c.payload
  /\ call_c.pc = "sync" /\ call_c.kind = "pending" => Mine(disk[o].seen, call_c)

AnswerHolds(call_c) ==
  call_c.answer # "none" =>
    /\ call_c.pc = "answered"
    /\ call_c.answer = "done" => done[call_c.op] = call_c.payload
    /\ call_c.answer = "conflict" => done[call_c.op] # call_c.payload
    /\ scope # "gone" => OnRecord(call_c.op)
    /\ \A d \in Callers : Starts(call[d]) => call[d].op # call_c.op

TInv ==
  /\ \A o \in Ops : Known(o)
  /\ \A c \in Callers : RunIsMine(call[c]) /\ AnswerHolds(call[c])

(* A step of a call that only touches its own operation keeps what is true *)
(* of the others.                                                          *)
LEMMA OthersStayTrue ==
  ASSUME IInv, TInv, NEW c \in Callers, NEW o \in Ops, call[c].op = o,
         queue[o] # <<>>, Head(queue[o]) = c,
         \A d \in Callers \ {c} : call'[d] = call[d],
         scope' = scope,
         \A x \in Ops \ {o} :
           /\ disk'[x] = disk[x] /\ legacy'[x] = legacy[x] /\ runs'[x] = runs[x] /\ done'[x] = done[x]
           /\ cache'[x] = NoRecord \/ cache'[x] = cache[x],
         OnRecord(o) /\ scope # "gone" => OnRecord(o)',
         done'[o] # done[o] => Starts(call[c]),
         Starts(call[c])' =>
           /\ call'[c].op = o
           /\ Starts(call[c]) \/ (scope # "gone" /\ ~OnRecord(o)),
         Known(o)', RunIsMine(call[c])', AnswerHolds(call[c])'
  PROVE  TInv'
<1>1. \A x \in Ops : Known(x)'
  <2> SUFFICES ASSUME NEW x \in Ops, x # o PROVE Known(x)'
    OBVIOUS
  <2> QED
    BY DEF TInv, Known, Agrees
<1>2. ASSUME NEW d \in Callers, d # c PROVE RunIsMine(call[d])'
  <2>1. RunIsMine(call[d]) /\ call'[d] = call[d] /\ call[d].op \in Ops
    BY <1>2, AtWork DEF TInv
  <2>2. CASE call[d].pc \in Working
    <3>1. call[d].op # o
      BY <1>2, <2>2, WorksAlone DEF IInv
    <3> QED
      BY <2>1, <3>1 DEF RunIsMine, Mine, Started
  <2>3. CASE call[d].pc \notin Working
    BY <2>1, <2>3 DEF RunIsMine, Started, Working
  <2> QED
    BY <2>2, <2>3
<1>3. ASSUME NEW d \in Callers, d # c PROVE AnswerHolds(call[d])'
  <2>1. AnswerHolds(call[d]) /\ call'[d] = call[d] /\ call[d].op \in Ops
    BY <1>3, AtWork DEF TInv
  <2> SUFFICES ASSUME call[d].answer # "none" PROVE AnswerHolds(call[d])'
    BY <2>1 DEF AnswerHolds
  <2>2. done'[call[d].op] = done[call[d].op]
    BY <2>1 DEF AnswerHolds
  <2>3. scope' # "gone" => OnRecord(call[d].op)'
    BY <2>1 DEF AnswerHolds, OnRecord
  <2>4. ASSUME NEW e \in Callers, Starts(call[e])' PROVE call'[e].op # call[d].op
    BY <2>1, <2>4 DEF AnswerHolds, Starts
  <2> QED
    BY <2>1, <2>2, <2>3, <2>4 DEF AnswerHolds
<1> QED
  BY <1>1, <1>2, <1>3 DEF TInv

(* A call that is answered, truly, on evidence.                            *)
LEMMA AnsweringHolds ==
  ASSUME IInv, NEW c \in Callers, NEW o \in Ops, call[c].op = o,
         queue[o] # <<>>, Head(queue[o]) = c,
         NEW answer, Answered(c, answer),
         answer = "done" => done'[o] = call[c].payload,
         answer = "conflict" => done'[o] # call[c].payload,
         answer \in {"done", "conflict"} /\ scope' # "gone" => OnRecord(o)'
  PROVE  /\ AnswerHolds(call[c])' /\ RunIsMine(call[c])' /\ ~Starts(call[c])'
         /\ \A d \in Callers \ {c} : call'[d] = call[d]
<1>1. /\ call'[c].pc \in {"away", "answered"}
      /\ \A d \in Callers \ {c} : call'[d] = call[d]
  BY AnswerFrees DEF IInv
<1>2. RunIsMine(call[c])' /\ ~Starts(call[c])'
  BY <1>1 DEF RunIsMine, Started, Starts
<1>3. AnswerHolds(call[c])'
  <2>1. call'[c] = Told(c, answer)
    BY DEF Answered, IInv, TypeOK
  <2>2. CASE answer \notin {"done", "conflict"}
    BY <2>1, <2>2, IdleIsAway DEF Told, AnswerHolds
  <2>3. CASE answer \in {"done", "conflict"}
    <3>1. /\ call'[c].op = call[c].op /\ call'[c].payload = call[c].payload
          /\ call'[c].pc = "answered" /\ call'[c].answer = answer
      BY <2>1, <2>3, AtWork DEF Told, Calls
    <3>2. ASSUME NEW d \in Callers, Starts(call[d])' PROVE call'[d].op # call[c].op
      <4>1. d # c /\ call'[d] = call[d]
        BY <1>1, <1>2, <3>2
      <4> QED
        BY <3>2, <4>1, WorksAlone DEF IInv, Starts, Working
    <3> QED
      BY <2>3, <3>1, <3>2 DEF AnswerHolds
  <2> QED
    BY <2>2, <2>3
<1> QED
  BY <1>1, <1>2, <1>3

(* A call that goes on was told nothing.                                   *)
LEMMA GoingHolds ==
  ASSUME IInv, TInv, NEW c \in Callers, NEW pc \in Pcs, NEW kind \in Kinds,
         Goes(c, pc, kind), UNCHANGED queue, call[c].pc \in Working \cup {"queued"},
         queue[call[c].op] # <<>>, Head(queue[call[c].op]) = c
  PROVE  /\ AnswerHolds(call[c])'
         /\ call'[c].pc = pc /\ call'[c].kind = kind /\ call'[c].op = call[c].op
         /\ call'[c].payload = call[c].payload
         /\ \A d \in Callers \ {c} : call'[d] = call[d]
<1>1. /\ call'[c].pc = pc /\ call'[c].kind = kind /\ call'[c].op = call[c].op
      /\ call'[c].payload = call[c].payload /\ call'[c].answer = call[c].answer
      /\ \A d \in Callers \ {c} : call'[d] = call[d]
  BY GoingKeepsThePlace DEF IInv
<1>2. call[c].answer = "none"
  BY DEF TInv, AnswerHolds, Working
<1> QED
  BY <1>1, <1>2 DEF AnswerHolds

LEMMA VerdictIsTrue ==
  ASSUME NEW o \in Ops, NEW record, record # NoRecord, Agrees(record, o), NEW payload \in Payloads
  PROVE  /\ Verdict(record, payload) = "done" => done[o] = payload
         /\ Verdict(record, payload) = "conflict" => done[o] # payload
BY RecordAssumption DEF Verdict, Agrees

LEMMA TrimmedKeeps ==
  ASSUME NEW records, NEW after \in Trimmed(records), NEW x \in Ops
  PROVE  after[x] = NoRecord \/ after[x] = records[x]
BY DEF Trimmed

LEMMA RememberedAgrees ==
  ASSUME IInv, NEW o \in Ops, NEW record, Agrees(record, o), record # NoRecord,
         cache' \in Remembered(o, record), done' = done
  PROVE  /\ \A x \in Ops \ {o} : cache'[x] = NoRecord \/ cache'[x] = cache[x]
         /\ Agrees(cache[o], o)'
<1> DEFINE kept == [cache EXCEPT ![o] = [of |-> record.of, status |-> record.status, durable |-> TRUE]]
<1>1. /\ kept[o] = [of |-> record.of, status |-> record.status, durable |-> TRUE]
      /\ \A x \in Ops \ {o} : kept[x] = cache[x]
  BY DEF IInv, TypeOK
<1>2. \A x \in Ops : cache'[x] = NoRecord \/ cache'[x] = kept[x]
  BY TrimmedKeeps DEF Remembered
<1> HIDE DEF kept
<1> QED
  BY <1>1, <1>2 DEF Agrees

(* An answer that leaves the records and what was done alone.              *)
LEMMA QuietAnswerIsTrue ==
  ASSUME IInv, TInv, NEW c \in Callers, NEW o \in Ops, call[c].op = o,
         queue[o] # <<>>, Head(queue[o]) = c,
         NEW answer, Answered(c, answer),
         answer = "done" => done[o] = call[c].payload,
         answer = "conflict" => done[o] # call[c].payload,
         answer \in {"done", "conflict"} => OnRecord(o),
         UNCHANGED <<disk, legacy, scope, runs, done>>,
         \A x \in Ops \ {o} : cache'[x] = NoRecord \/ cache'[x] = cache[x],
         Agrees(cache[o], o)',
         cache'[o] # NoRecord => cache[o] # NoRecord \/ disk[o].seen # NoRecord
  PROVE  TInv'
<1>1. OnRecord(o)' <=> OnRecord(o)
  BY DEF OnRecord
<1>2. /\ AnswerHolds(call[c])' /\ RunIsMine(call[c])' /\ ~Starts(call[c])'
      /\ \A d \in Callers \ {c} : call'[d] = call[d]
  BY <1>1, AnsweringHolds
<1>3. Known(o)'
  BY DEF TInv, Known, Agrees
<1> QED
  BY <1>1, <1>2, <1>3, OthersStayTrue

LEMMA CommitStaysTrue ==
  ASSUME IInv, TInv, NEW c \in Callers, NEW o \in Ops, NEW p \in Payloads, Commit(c, o, p)
  PROVE  TInv'
<1>1. /\ call'[c].pc \in {"away", "queued"} /\ call'[c].answer = "none"
      /\ \A d \in Callers \ {c} : call'[d] = call[d]
  BY IdleIsAway DEF Commit, IInv, TypeOK
<1>2. \A x \in Ops : Known(x)'
  BY DEF Commit, TInv, Known, Agrees
<1>3. \A d \in Callers : RunIsMine(call[d])'
  BY <1>1 DEF Commit, TInv, RunIsMine, Started, Mine
<1>4. \A d \in Callers : AnswerHolds(call[d])'
  BY <1>1 DEF Commit, TInv, AnswerHolds, Starts, OnRecord
<1> QED
  BY <1>2, <1>3, <1>4 DEF TInv

LEMMA AdmitStaysTrue ==
  ASSUME IInv, TInv, NEW c \in Callers, Admit(c)
  PROVE  TInv'
<1>1. PICK o \in Ops : o = call[c].op
  BY AtWork
<1>2. queue[o] # <<>> /\ Head(queue[o]) = c /\ call[c].payload \in Payloads /\ Known(o)
  BY <1>1, AtWork DEF Admit, TInv
<1>3. CASE scope # "open" /\ Answered(c, "unavailable")
  <2>1. Agrees(cache[o], o)'
    BY <1>2 DEF Admit, Known, Agrees
  <2> QED
    BY <1>1, <1>2, <1>3, <2>1, QuietAnswerIsTrue DEF Admit
<1>4. CASE scope = "open" /\ cache[o] # NoRecord /\ Answered(c, Verdict(cache[o], call[c].payload))
  <2>1. Agrees(cache[o], o) /\ Agrees(cache[o], o)' /\ OnRecord(o)
    BY <1>2, <1>4 DEF Admit, Known, Agrees, OnRecord
  <2>2. /\ Verdict(cache[o], call[c].payload) = "done" => done[o] = call[c].payload
        /\ Verdict(cache[o], call[c].payload) = "conflict" => done[o] # call[c].payload
    BY <1>2, <1>4, <2>1, VerdictIsTrue
  <2> QED
    BY <1>1, <1>2, <1>4, <2>1, <2>2, QuietAnswerIsTrue DEF Admit
<1>5. CASE Goes(c, "read", "none") /\ UNCHANGED queue
  <2>1. /\ AnswerHolds(call[c])' /\ call'[c].pc = "read"
        /\ \A d \in Callers \ {c} : call'[d] = call[d]
    BY <1>1, <1>2, <1>5, GoingHolds DEF Admit, Pcs, Kinds
  <2>2. RunIsMine(call[c])' /\ ~Starts(call[c])'
    BY <2>1 DEF RunIsMine, Started, Starts
  <2>3. Known(o)' /\ (OnRecord(o) => OnRecord(o)')
    BY <1>2 DEF Admit, Known, Agrees, OnRecord
  <2> QED
    BY <1>1, <1>2, <2>1, <2>2, <2>3, OthersStayTrue DEF Admit
<1> QED
  BY <1>1, <1>3, <1>4, <1>5 DEF Admit

LEMMA ReadStaysTrue ==
  ASSUME IInv, TInv, NEW c \in Callers, Read(c)
  PROVE  TInv'
<1>1. PICK o \in Ops : o = call[c].op
  BY AtWork
<1>2. queue[o] # <<>> /\ Head(queue[o]) = c /\ call[c].payload \in Payloads /\ Known(o)
  BY <1>1, AtWork DEF Read, Working, TInv
<1>3. ASSUME NEW answer \in {"unavailable", "failed"}, Answered(c, answer), UNCHANGED cache PROVE TInv'
  <2>1. Agrees(cache[o], o)'
    BY <1>2, <1>3 DEF Read, Known, Agrees
  <2> QED
    BY <1>1, <1>2, <1>3, <2>1, QuietAnswerIsTrue DEF Read
<1>4. CASE /\ disk[o].seen # NoRecord
           /\ cache' \in Remembered(o, disk[o].seen)
           /\ Answered(c, Verdict(disk[o].seen, call[c].payload))
  <2>1. Agrees(disk[o].seen, o) /\ OnRecord(o)
    BY <1>2, <1>4 DEF Known, OnRecord
  <2>2. /\ Verdict(disk[o].seen, call[c].payload) = "done" => done[o] = call[c].payload
        /\ Verdict(disk[o].seen, call[c].payload) = "conflict" => done[o] # call[c].payload
    BY <1>2, <1>4, <2>1, VerdictIsTrue
  <2>3. /\ \A x \in Ops \ {o} : cache'[x] = NoRecord \/ cache'[x] = cache[x]
        /\ Agrees(cache[o], o)'
    BY <1>4, <2>1, RememberedAgrees DEF Read
  <2> QED
    BY <1>1, <1>2, <1>4, <2>1, <2>2, <2>3, QuietAnswerIsTrue DEF Read
<1>5. CASE /\ scope = "open" /\ disk[o].seen = NoRecord
           /\ Goes(c, "publish", IF LegacyOf(o) = NoRecord THEN "pending" ELSE "migrated")
           /\ UNCHANGED <<queue, cache, faults>>
  <2>1. /\ AnswerHolds(call[c])' /\ call'[c].pc = "publish" /\ call'[c].op = o
        /\ call'[c].kind = IF LegacyOf(o) = NoRecord THEN "pending" ELSE "migrated"
        /\ \A d \in Callers \ {c} : call'[d] = call[d]
    BY <1>1, <1>2, <1>5, GoingHolds DEF Read, Pcs, Kinds, Working
  <2>2. RunIsMine(call[c])'
    BY <2>1 DEF RunIsMine, Started
  <2>3. Starts(call[c])' => scope # "gone" /\ ~OnRecord(o)
    BY <1>5, <2>1 DEF Starts, OnRecord, LegacyOf
  <2>4. Known(o)' /\ (OnRecord(o) => OnRecord(o)')
    BY <1>2, <1>5 DEF Read, Known, Agrees, OnRecord
  <2> QED
    BY <1>1, <1>2, <1>5, <2>1, <2>2, <2>3, <2>4, OthersStayTrue DEF Read
<1> QED
  BY <1>1, <1>3, <1>4, <1>5 DEF Read

(* A call whose persist throws.                                            *)
LEMMA ThrowStaysTrue ==
  ASSUME IInv, TInv, NEW c \in Callers, call[c].pc \in Working,
         NEW answer \in {"unavailable", "failed"}, Throws(c, answer),
         UNCHANGED <<disk, legacy, scope, runs, done>>
  PROVE  TInv'
<1>1. PICK o \in Ops : o = call[c].op
  BY AtWork
<1>2. queue[o] # <<>> /\ Head(queue[o]) = c /\ Known(o)
  BY <1>1, AtWork DEF TInv
<1>3. /\ \A x \in Ops \ {o} : cache'[x] = NoRecord \/ cache'[x] = cache[x]
      /\ cache'[o] = NoRecord \/ cache'[o] = cache[o]
  BY <1>1 DEF Throws, IInv, TypeOK
<1>4. Agrees(cache[o], o)'
  BY <1>2, <1>3 DEF Known, Agrees
<1> QED
  BY <1>1, <1>2, <1>3, <1>4, QuietAnswerIsTrue DEF Throws

LEMMA PublishStaysTrue ==
  ASSUME IInv, TInv, NEW c \in Callers, Publish(c)
  PROVE  TInv'
<1>1. PICK o \in Ops : o = call[c].op
  BY AtWork
<1>2. /\ queue[o] # <<>> /\ Head(queue[o]) = c /\ call[c] \in Calls
      /\ Known(o) /\ RunIsMine(call[c]) /\ Backed(call[c])
  BY <1>1, AtWork DEF Publish, Working, TInv, IInv, WorkIsBacked
<1>3. CASE UNCHANGED disk /\ \E answer \in {"unavailable", "failed"} : Throws(c, answer)
  BY <1>3, ThrowStaysTrue DEF Publish, Working
<1>4. CASE /\ disk' = [disk EXCEPT ![o].seen = Written(c)]
           /\ Goes(c, "sync", call[c].kind) /\ UNCHANGED <<queue, cache, faults>>
  <2>1. /\ AnswerHolds(call[c])' /\ call'[c].pc = "sync" /\ call'[c].kind = call[c].kind
        /\ call'[c].op = o /\ call'[c].payload = call[c].payload
        /\ \A d \in Callers \ {c} : call'[d] = call[d]
    <3>1. call[c].kind \in Kinds /\ "sync" \in Pcs /\ call[c].pc \in Working
      BY AtWork DEF Publish, Pcs, Working
    <3>2. Goes(c, "sync", call[c].kind) /\ UNCHANGED queue
      BY <1>4
    <3> QED
      BY <1>1, <1>2, <3>1, <3>2, GoingHolds
  <2>2. /\ disk'[o].seen = Written(c) /\ disk'[o].synced = disk[o].synced
        /\ \A x \in Ops \ {o} : disk'[x] = disk[x]
    BY <1>1, <1>4 DEF IInv, TypeOK
  <2>3. Written(c) # NoRecord /\ Agrees(Written(c), o)
    <3>1. CASE call[c].kind = "migrated"
      BY <1>1, <1>2, <3>1 DEF Publish, Backed, Written, LegacyOf, Known
    <3>2. CASE call[c].kind = "pending"
      <4>1. Written(c) = [of |-> call[c].payload, status |-> "pending"] /\ done[o] = NoRecord
        BY <1>1, <1>2, <3>2 DEF Publish, Backed, Written, Known
      <4>2. Written(c) # NoRecord
        BY <1>2, <4>1, RecordAssumption DEF Calls
      <4> QED
        BY <4>1, <4>2 DEF Agrees
    <3>3. CASE call[c].kind = "completed"
      <4>1. Written(c) = [of |-> call[c].payload, status |-> "completed"] /\ done[o] = call[c].payload
        BY <1>1, <1>2, <3>3 DEF Publish, RunIsMine, Started, Written
      <4>2. Written(c) # NoRecord
        BY <1>2, <4>1, RecordAssumption DEF Calls
      <4> QED
        BY <4>1, <4>2 DEF Agrees
    <3> QED
      BY <1>2, <3>1, <3>2, <3>3 DEF Publish, Backed, Calls, Kinds
  <2>4. Known(o)'
    BY <1>2, <1>4, <2>2, <2>3 DEF Publish, Known, Agrees
  <2>5. RunIsMine(call[c])'
    BY <1>1, <1>2, <1>4, <2>1, <2>2 DEF Publish, RunIsMine, Started, Mine, Written
  <2>6. Starts(call[c])' => Starts(call[c])
    BY <2>1 DEF Publish, Starts
  <2>7. OnRecord(o)'
    BY <2>2, <2>3 DEF OnRecord
  <2> QED
    BY <1>1, <1>2, <1>4, <2>1, <2>2, <2>4, <2>5, <2>6, <2>7, OthersStayTrue DEF Publish
<1> QED
  BY <1>1, <1>3, <1>4 DEF Publish

LEMMA SyncFailsStaysTrue ==
  ASSUME IInv, TInv, NEW c \in Callers, SyncFails(c)
  PROVE  TInv'
BY ThrowStaysTrue DEF SyncFails, Working

LEMMA SyncMigratedStaysTrue ==
  ASSUME IInv, TInv, NEW c \in Callers, SyncMigrated(c)
  PROVE  TInv'
<1>1. PICK o \in Ops : o = call[c].op
  BY AtWork
<1>2. queue[o] # <<>> /\ Head(queue[o]) = c /\ Known(o)
  BY <1>1, AtWork DEF SyncMigrated, Working, TInv
<1>3. /\ disk'[o].seen = disk[o].seen /\ disk'[o].synced = disk[o].seen
      /\ \A x \in Ops \ {o} : disk'[x] = disk[x]
  <2>1. call[c].pc = "sync" /\ scope # "gone" /\ disk' = Synced(call[c].op) /\ UNCHANGED <<legacy, scope>>
    BY DEF SyncMigrated
  <2>2. /\ disk'[call[c].op] = [seen |-> disk[call[c].op].seen, synced |-> disk[call[c].op].seen]
        /\ disk[call[c].op].seen # NoRecord
        /\ \A x \in Ops \ {call[c].op} : disk'[x] = disk[x]
    BY <2>1, SyncKeepsTheDisk
  <2> QED
    BY <1>1, <2>2
<1>4. /\ AnswerHolds(call[c])' /\ call'[c].pc = "retire"
      /\ \A d \in Callers \ {c} : call'[d] = call[d]
  BY <1>1, <1>2, GoingHolds DEF SyncMigrated, Pcs, Kinds, Working
<1>5. RunIsMine(call[c])' /\ ~Starts(call[c])'
  BY <1>4 DEF RunIsMine, Started, Starts
<1>6. Known(o)' /\ (OnRecord(o) => OnRecord(o)')
  BY <1>2, <1>3 DEF SyncMigrated, Known, Agrees, OnRecord
<1> QED
  BY <1>1, <1>2, <1>3, <1>4, <1>5, <1>6, OthersStayTrue DEF SyncMigrated

LEMMA RetireStaysTrue ==
  ASSUME IInv, TInv, NEW c \in Callers, RetireMigrated(c)
  PROVE  TInv'
<1>1. PICK o \in Ops : o = call[c].op
  BY AtWork
<1>2. /\ queue[o] # <<>> /\ Head(queue[o]) = c /\ call[c].payload \in Payloads
      /\ Known(o) /\ Backed(call[c])
  BY <1>1, AtWork DEF RetireMigrated, Working, TInv, IInv, WorkIsBacked
<1>3. CASE UNCHANGED <<legacy, cache>> /\ Answered(c, "failed")
  <2>1. Agrees(cache[o], o)'
    BY <1>2, <1>3 DEF RetireMigrated, Known, Agrees
  <2> QED
    BY <1>1, <1>2, <1>3, <2>1, QuietAnswerIsTrue DEF RetireMigrated
<1>4. CASE /\ legacy' = [legacy EXCEPT ![o].seen = NoRecord]
           /\ cache' \in Remembered(o, legacy[o].seen)
           /\ Answered(c, Verdict(legacy[o].seen, call[c].payload))
           /\ UNCHANGED faults
  <2>1. /\ legacy[o].seen # NoRecord /\ Agrees(legacy[o].seen, o)
        /\ scope # "gone" => disk[o].seen # NoRecord
    BY <1>1, <1>2 DEF RetireMigrated, Backed, Known, IInv, SyncedIsSeen
  <2>2. /\ Verdict(legacy[o].seen, call[c].payload) = "done" => done[o] = call[c].payload
        /\ Verdict(legacy[o].seen, call[c].payload) = "conflict" => done[o] # call[c].payload
    BY <1>2, <2>1, VerdictIsTrue
  <2>3. /\ \A x \in Ops \ {o} : cache'[x] = NoRecord \/ cache'[x] = cache[x]
        /\ Agrees(cache[o], o)'
    BY <1>4, <2>1, RememberedAgrees DEF RetireMigrated
  <2>4. /\ legacy'[o].seen = NoRecord /\ legacy'[o].synced = legacy[o].synced
        /\ \A x \in Ops \ {o} : legacy'[x] = legacy[x]
    BY <1>4 DEF IInv, TypeOK
  <2>5. scope' # "gone" => OnRecord(o)'
    BY <2>1 DEF RetireMigrated, OnRecord
  <2>6. /\ AnswerHolds(call[c])' /\ RunIsMine(call[c])' /\ ~Starts(call[c])'
        /\ \A d \in Callers \ {c} : call'[d] = call[d]
    BY <1>1, <1>2, <1>4, <2>2, <2>5, AnsweringHolds DEF RetireMigrated
  <2>7. Known(o)'
    BY <1>2, <2>1, <2>3, <2>4 DEF RetireMigrated, Known, Agrees
  <2> QED
    BY <1>1, <1>2, <2>3, <2>4, <2>5, <2>6, <2>7, OthersStayTrue DEF RetireMigrated
<1> QED
  BY <1>1, <1>3, <1>4 DEF RetireMigrated

LEMMA SyncPendingStaysTrue ==
  ASSUME IInv, TInv, NEW c \in Callers, SyncPending(c)
  PROVE  TInv'
<1>1. PICK o \in Ops : o = call[c].op
  BY AtWork
<1>2. /\ queue[o] # <<>> /\ Head(queue[o]) = c /\ call[c].payload \in Payloads
      /\ Known(o) /\ RunIsMine(call[c]) /\ Backed(call[c])
  BY <1>1, AtWork DEF SyncPending, Working, TInv, IInv, WorkIsBacked
<1>3. /\ disk'[o].seen = disk[o].seen /\ disk'[o].synced = disk[o].seen /\ disk[o].seen # NoRecord
      /\ \A x \in Ops \ {o} : disk'[x] = disk[x]
  <2>1. call[c].pc = "sync" /\ scope # "gone" /\ disk' = Synced(call[c].op) /\ UNCHANGED <<legacy, scope>>
    BY DEF SyncPending
  <2>2. /\ disk'[call[c].op] = [seen |-> disk[call[c].op].seen, synced |-> disk[call[c].op].seen]
        /\ disk[call[c].op].seen # NoRecord
        /\ \A x \in Ops \ {call[c].op} : disk'[x] = disk[x]
    BY <2>1, SyncKeepsTheDisk
  <2> QED
    BY <1>1, <2>2
<1>4. /\ runs[o] = 0 /\ Mine(disk[o].seen, call[c]) /\ Starts(call[c])
      /\ done[o] = NoRecord /\ legacy[o].seen = NoRecord /\ legacy[o].synced = NoRecord
  BY <1>1, <1>2 DEF SyncPending, Backed, Known, RunIsMine, Starts
<1>5. OnRecord(o)'
  BY <1>3 DEF OnRecord
<1>6. CASE scope = "open"
  <2>1. /\ AnswerHolds(call[c])' /\ call'[c].pc = "run" /\ call'[c].op = o
        /\ call'[c].payload = call[c].payload
        /\ \A d \in Callers \ {c} : call'[d] = call[d]
    BY <1>1, <1>2, <1>6, GoingHolds DEF SyncPending, Pcs, Kinds, Working
  <2>2. /\ runs' = [runs EXCEPT ![o] = runs[o] + 1]
        /\ cache' = [cache EXCEPT ![o] = [of |-> call[c].payload, status |-> "running", durable |-> FALSE]]
    BY <1>1, <1>6 DEF SyncPending
  <2>3. runs'[o] # 0 /\ \A x \in Ops \ {o} : runs'[x] = runs[x]
    <3>1. runs \in [Ops -> Nat]
      BY DEF IInv, TypeOK
    <3> QED
      BY <1>4, <2>2, <3>1
  <2>4. /\ cache'[o] = [of |-> call[c].payload, status |-> "running", durable |-> FALSE]
        /\ \A x \in Ops \ {o} : cache'[x] = cache[x]
    BY <2>2 DEF IInv, TypeOK
  <2>5. Known(o)'
    BY <1>2, <1>3, <1>4, <2>3, <2>4 DEF SyncPending, Known, Agrees
  <2>6. RunIsMine(call[c])'
    BY <1>3, <1>4, <2>1, <2>3, <2>4 DEF SyncPending, RunIsMine, Mine
  <2> QED
    BY <1>1, <1>2, <1>3, <1>4, <1>5, <2>1, <2>3, <2>4, <2>5, <2>6, OthersStayTrue DEF SyncPending
<1>7. CASE scope # "open"
  <2>1. Answered(c, "unavailable") /\ UNCHANGED <<runs, cache>>
    BY <1>7 DEF SyncPending
  <2>2. /\ AnswerHolds(call[c])' /\ RunIsMine(call[c])' /\ ~Starts(call[c])'
        /\ \A d \in Callers \ {c} : call'[d] = call[d]
    BY <1>1, <1>2, <2>1, AnsweringHolds
  <2>3. Known(o)'
    BY <1>2, <1>3, <2>1 DEF SyncPending, Known, Agrees
  <2> QED
    BY <1>1, <1>2, <1>3, <1>5, <2>1, <2>2, <2>3, OthersStayTrue DEF SyncPending
<1> QED
  BY <1>6, <1>7

LEMMA RunEndsStaysTrue ==
  ASSUME IInv, TInv, NEW c \in Callers, RunEnds(c)
  PROVE  TInv'
<1>1. PICK o \in Ops : o = call[c].op
  BY AtWork
<1>2. /\ queue[o] # <<>> /\ Head(queue[o]) = c
      /\ Known(o) /\ RunIsMine(call[c]) /\ Starts(call[c]) /\ Started(call[c])
  BY <1>1, AtWork DEF RunEnds, Working, TInv, Starts, Started
<1>3. /\ done'[o] = done[o] \/ done'[o] = call[c].payload
      /\ \A x \in Ops \ {o} : done'[x] = done[x]
  BY <1>1 DEF RunEnds, IInv, TypeOK
<1>4. /\ runs[o] # 0 /\ legacy[o].seen = NoRecord /\ legacy[o].synced = NoRecord
      /\ Mine(disk[o].seen, call[c]) /\ Mine(disk[o].synced, call[c]) /\ Mine(cache[o], call[c])
  BY <1>1, <1>2 DEF RunIsMine
<1>5. OnRecord(o) => OnRecord(o)'
  BY DEF RunEnds, OnRecord
<1>6. /\ \A x \in Ops \ {o} : cache'[x] = cache[x]
      /\ cache'[o] = cache[o] \/ cache'[o] = NoRecord
  BY <1>1 DEF RunEnds, IInv, TypeOK
<1>7. Known(o)'
  BY <1>2, <1>3, <1>4, <1>6 DEF RunEnds, Known, Agrees, Mine
<1>8. CASE /\ done' = [done EXCEPT ![o] = call[c].payload]
           /\ Goes(c, "publish", "completed") /\ UNCHANGED <<queue, cache, faults>>
  <2>1. /\ AnswerHolds(call[c])' /\ call'[c].pc = "publish" /\ call'[c].kind = "completed"
        /\ call'[c].op = o /\ call'[c].payload = call[c].payload
        /\ \A d \in Callers \ {c} : call'[d] = call[d]
    BY <1>1, <1>2, <1>8, GoingHolds DEF RunEnds, Pcs, Kinds, Working
  <2>2. done'[o] = call[c].payload
    BY <1>8 DEF IInv, TypeOK
  <2>3. RunIsMine(call[c])' /\ ~Starts(call[c])'
    BY <1>4, <1>6, <1>8, <2>1, <2>2 DEF RunEnds, RunIsMine, Mine, Starts
  <2> QED
    BY <1>1, <1>2, <1>3, <1>5, <1>6, <1>7, <2>1, <2>3, OthersStayTrue DEF RunEnds
<1>9. CASE Answered(c, "failed")
  <2>1. /\ AnswerHolds(call[c])' /\ RunIsMine(call[c])' /\ ~Starts(call[c])'
        /\ \A d \in Callers \ {c} : call'[d] = call[d]
    BY <1>1, <1>2, <1>9, AnsweringHolds
  <2> QED
    BY <1>1, <1>2, <1>3, <1>5, <1>6, <1>7, <2>1, OthersStayTrue DEF RunEnds
<1> QED
  BY <1>1, <1>8, <1>9 DEF RunEnds

LEMMA SyncCompletedStaysTrue ==
  ASSUME IInv, TInv, NEW c \in Callers, SyncCompleted(c)
  PROVE  TInv'
<1>1. PICK o \in Ops : o = call[c].op
  BY AtWork
<1>2. /\ queue[o] # <<>> /\ Head(queue[o]) = c
      /\ Known(o) /\ RunIsMine(call[c]) /\ Started(call[c])
  BY <1>1, AtWork DEF SyncCompleted, Working, TInv, Started
<1>3. /\ disk'[o].seen = disk[o].seen /\ disk'[o].synced = disk[o].seen /\ disk[o].seen # NoRecord
      /\ \A x \in Ops \ {o} : disk'[x] = disk[x]
  <2>1. call[c].pc = "sync" /\ scope # "gone" /\ disk' = Synced(call[c].op) /\ UNCHANGED <<legacy, scope>>
    BY DEF SyncCompleted
  <2>2. /\ disk'[call[c].op] = [seen |-> disk[call[c].op].seen, synced |-> disk[call[c].op].seen]
        /\ disk[call[c].op].seen # NoRecord
        /\ \A x \in Ops \ {call[c].op} : disk'[x] = disk[x]
    BY <2>1, SyncKeepsTheDisk
  <2> QED
    BY <1>1, <2>2
<1>4. done[o] = call[c].payload /\ Mine(cache[o], call[c])
  BY <1>1, <1>2 DEF SyncCompleted, RunIsMine
<1>5. /\ \A x \in Ops \ {o} : cache'[x] = NoRecord \/ cache'[x] = cache[x]
      /\ Agrees(cache[o], o)'
  <2> DEFINE settled == IF cache[o] = NoRecord THEN cache
                        ELSE [cache EXCEPT ![o].status = "completed", ![o].durable = TRUE]
  <2>1. /\ \A x \in Ops \ {o} : settled[x] = cache[x]
        /\ settled[o] = NoRecord \/ settled[o].of = call[c].payload
    BY <1>4 DEF Mine, IInv, TypeOK, CachedRecords
  <2>2. cache' \in Trimmed(settled)
    BY <1>1 DEF SyncCompleted
  <2> HIDE DEF settled
  <2>3. \A x \in Ops : cache'[x] = NoRecord \/ cache'[x] = settled[x]
    BY <2>2, TrimmedKeeps
  <2> QED
    BY <1>4, <2>1, <2>3 DEF SyncCompleted, Agrees
<1>6. OnRecord(o)'
  BY <1>3 DEF OnRecord
<1>7. /\ AnswerHolds(call[c])' /\ RunIsMine(call[c])' /\ ~Starts(call[c])'
      /\ \A d \in Callers \ {c} : call'[d] = call[d]
  BY <1>1, <1>2, <1>4, <1>6, AnsweringHolds DEF SyncCompleted
<1>8. Known(o)'
  BY <1>2, <1>3, <1>5 DEF SyncCompleted, Known, Agrees
<1> QED
  BY <1>1, <1>2, <1>3, <1>5, <1>6, <1>7, <1>8, OthersStayTrue DEF SyncCompleted

LEMMA EndStaysTrue ==
  ASSUME IInv, TInv, EndReview \/ ReleaseReview \/ ReleaseInactive
  PROVE  TInv'
<1> USE DEF EndReview, ReleaseReview, ReleaseInactive
<1>1. \A o \in Ops : /\ cache'[o] = NoRecord \/ cache'[o] = cache[o]
                     /\ disk'[o] = disk[o] \/ (scope' = "gone" /\ disk'[o].seen = NoRecord
                                                 /\ disk'[o].synced = NoRecord)
  OBVIOUS
<1>2. UNCHANGED <<call, legacy, runs, done>> /\ (scope = "gone" => scope' = "gone")
  OBVIOUS
<1>3. \A o \in Ops : Known(o)'
  BY <1>1, <1>2 DEF TInv, Known, Agrees
<1>4. \A c \in Callers : RunIsMine(call[c])'
  BY <1>1, <1>2, AtWork DEF TInv, RunIsMine, Mine
<1>5. \A c \in Callers : AnswerHolds(call[c])'
  BY <1>1, <1>2, AtWork DEF TInv, AnswerHolds, OnRecord
<1> QED
  BY <1>3, <1>4, <1>5 DEF TInv

LEMMA RestartStaysTrue ==
  ASSUME IInv, TInv, Crash \/ LosePower
  PROVE  TInv'
<1>1. Restart /\ UNCHANGED done /\ UNCHANGED runs /\ \A o \in Ops : cache'[o] = NoRecord
  BY DEF Crash, LosePower, Restart
<1>2. \A c \in Callers : call'[c] = Idle
  BY <1>1 DEF Restart
<1>3. \A o \in Ops : /\ disk'[o] = disk[o] \/ disk'[o] \in Survives(disk, o)
                     /\ legacy'[o] = legacy[o] \/ legacy'[o] \in Survives(legacy, o)
  BY DEF Crash, LosePower
<1>4. \A o \in Ops : /\ disk'[o].seen \in {disk[o].seen, disk[o].synced}
                     /\ disk'[o].synced \in {disk[o].seen, disk[o].synced}
                     /\ legacy'[o].seen \in {legacy[o].seen, legacy[o].synced}
                     /\ legacy'[o].synced \in {legacy[o].seen, legacy[o].synced}
  BY <1>3 DEF Survives
<1>5. \A o \in Ops : Known(o)'
  BY <1>1, <1>4 DEF TInv, Known, Agrees
<1>6. \A c \in Callers : RunIsMine(call[c])' /\ AnswerHolds(call[c])'
  BY <1>2, IdleIsAway DEF RunIsMine, Started, AnswerHolds
<1> QED
  BY <1>5, <1>6 DEF TInv

LEMMA InitIsTrue == Init => TInv
<1> SUFFICES ASSUME Init PROVE TInv
  OBVIOUS
<1>1. \A o \in Ops : Known(o)
  <2> SUFFICES ASSUME NEW o \in Ops PROVE Known(o)
    OBVIOUS
  <2>1. legacy[o].seen = legacy[o].synced /\ legacy[o].seen \in Evidence
    BY DEF Init
  <2>2. /\ runs[o] = 0 <=> legacy[o].seen = NoRecord
        /\ done[o] = IF legacy[o].seen # NoRecord /\ legacy[o].seen.status = "completed"
                     THEN legacy[o].seen.of ELSE NoRecord
    BY DEF Init
  <2>3. disk[o].seen = NoRecord /\ disk[o].synced = NoRecord /\ cache[o] = NoRecord
    BY DEF Init
  <2> QED
    BY <2>1, <2>2, <2>3 DEF Known, Agrees
<1>2. \A c \in Callers : RunIsMine(call[c]) /\ AnswerHolds(call[c])
  BY IdleIsAway DEF Init, RunIsMine, Started, AnswerHolds
<1> QED
  BY <1>1, <1>2 DEF TInv

LEMMA StepStaysTrue == IInv /\ TInv /\ [Next]_vars => TInv'
<1> SUFFICES ASSUME IInv, TInv, [Next]_vars PROVE TInv'
  OBVIOUS
<1>1. ASSUME NEW c \in Callers, Step(c) PROVE TInv'
  BY <1>1, AdmitStaysTrue, ReadStaysTrue, PublishStaysTrue, SyncFailsStaysTrue, SyncMigratedStaysTrue,
     RetireStaysTrue, SyncPendingStaysTrue, RunEndsStaysTrue, SyncCompletedStaysTrue DEF Step
<1>2. ASSUME NEW c \in Callers, NEW o \in Ops, NEW p \in Payloads, Commit(c, o, p) PROVE TInv'
  BY <1>2, CommitStaysTrue
<1>3. CASE EndReview \/ ReleaseReview \/ ReleaseInactive
  BY <1>3, EndStaysTrue
<1>4. CASE Crash \/ LosePower
  BY <1>4, RestartStaysTrue
<1>5. CASE UNCHANGED vars
  BY <1>5 DEF vars, TInv, Known, Agrees, RunIsMine, Started, Mine, AnswerHolds, OnRecord, Starts
<1> QED
  BY <1>1, <1>2, <1>3, <1>4, <1>5 DEF Next

(* Who is told by commit() that an operation is done asked for what was    *)
(* done, and who is told of a conflict asked for something else, from      *)
(* memory or from disk, and whatever happens afterwards.                   *)
THEOREM AnswersStayTrue == Spec => []AnswersAreTrue
<1>1. Init => TInv
  BY InitIsTrue
<1>2. IInv /\ TInv /\ [Next]_vars => TInv'
  BY StepStaysTrue
<1>3. TInv => AnswersAreTrue
  BY DEF TInv, AnswerHolds, AnswersAreTrue
<1> QED
  BY <1>1, <1>2, <1>3, Invariance, PTL DEF Spec

-----------------------------------------------------------------------------
(* The bound of the cache. Its records are finitely many, and a record that*)
(* becomes durable is counted by the #trim() of the same step.             *)
CInv == IsFiniteSet(Cached(cache)) /\ CacheIsBounded

LEMMA TrimmedIsBounded ==
  ASSUME NEW records, IsFiniteSet(Cached(records)), NEW after \in Trimmed(records)
  PROVE  IsFiniteSet(Cached(after)) /\ Cardinality(Durable(after)) <= MaxCached
<1>1. PICK out \in SUBSET Durable(records) :
        /\ after = [o \in Ops |-> IF o \in out THEN NoRecord ELSE records[o]]
        /\ Cardinality(Cached(records) \ out) <= MaxCached \/ out = Durable(records)
  BY DEF Trimmed
<1>2. Cached(after) = Cached(records) \ out /\ Durable(after) = Durable(records) \ out
  BY <1>1 DEF Cached, Durable
<1>3. IsFiniteSet(Cached(records) \ out)
  BY FS_Difference
<1>4. Durable(records) \ out \subseteq Cached(records) \ out
  BY DEF Cached, Durable
<1>5. Cardinality(Durable(records) \ out) <= MaxCached
  <2>1. CASE Cardinality(Cached(records) \ out) <= MaxCached
    <3>1. /\ IsFiniteSet(Durable(records) \ out)
          /\ Cardinality(Durable(records) \ out) <= Cardinality(Cached(records) \ out)
      BY <1>3, <1>4, FS_Subset
    <3>2. Cardinality(Cached(records) \ out) \in Nat /\ Cardinality(Durable(records) \ out) \in Nat
      BY <1>3, <3>1, FS_CardinalityType
    <3>. QED
      BY <2>1, <3>1, <3>2, BoundsAssumption
  <2>2. CASE out = Durable(records)
    <3>1. Durable(records) \ out = {} /\ Cardinality({}) = 0
      BY <2>2, FS_EmptySet
    <3>. QED
      BY <3>1, BoundsAssumption
  <2>. QED
    BY <1>1, <2>1, <2>2
<1>. QED
  BY <1>2, <1>3, <1>5

(* A step that makes no record durable, and adds at most one.              *)
LEMMA NothingDurable ==
  ASSUME CInv, NEW o \in Ops, Cached(cache)' \subseteq Cached(cache) \cup {o},
         Durable(cache)' \subseteq Durable(cache)
  PROVE  CInv'
<1>1. IsFiniteSet(Cached(cache)) /\ IsFiniteSet(Durable(cache))
  BY FS_Subset DEF CInv, Cached, Durable
<1>2. IsFiniteSet(Cached(cache)')
  BY <1>1, FS_AddElement, FS_Subset
<1>3. /\ IsFiniteSet(Durable(cache)') /\ Cardinality(Durable(cache)') <= Cardinality(Durable(cache))
      /\ Cardinality(Durable(cache)') \in Nat /\ Cardinality(Durable(cache)) \in Nat
  BY <1>1, FS_Subset, FS_CardinalityType
<1>4. Cardinality(Durable(cache)') <= MaxCached
  BY <1>3, BoundsAssumption DEF CInv, CacheIsBounded
<1>. QED
  BY <1>2, <1>4 DEF CInv, CacheIsBounded

LEMMA RememberedIsBounded ==
  ASSUME IInv, CInv, NEW o \in Ops, NEW record, cache' \in Remembered(o, record)
  PROVE  CInv'
<1> DEFINE kept == [cache EXCEPT ![o] = [of |-> record.of, status |-> record.status, durable |-> TRUE]]
<1>1. Cached(kept) \subseteq Cached(cache) \cup {o}
  BY DEF IInv, TypeOK, Cached
<1>2. IsFiniteSet(Cached(kept))
  BY <1>1, FS_AddElement, FS_Subset DEF CInv
<1>3. cache' \in Trimmed(kept)
  BY DEF Remembered
<1> HIDE DEF kept
<1>4. IsFiniteSet(Cached(cache')) /\ Cardinality(Durable(cache')) <= MaxCached
  BY <1>2, <1>3, TrimmedIsBounded
<1>. QED
  BY <1>4 DEF CInv, CacheIsBounded, Cached, Durable

LEMMA ForgottenIsBounded ==
  ASSUME IInv, CInv, NEW o \in Ops, cache' \in {cache, [cache EXCEPT ![o] = NoRecord],
                                                [x \in Ops |-> NoRecord]}
  PROVE  CInv'
<1>1. \A x \in Ops : cache'[x] = cache[x] \/ cache'[x] = NoRecord
  BY DEF IInv, TypeOK
<1>2. Cached(cache)' \subseteq Cached(cache) \cup {o} /\ Durable(cache)' \subseteq Durable(cache)
  BY <1>1 DEF Cached, Durable
<1>. QED
  BY <1>2, NothingDurable

LEMMA SyncStaysBounded ==
  ASSUME IInv, CInv, NEW c \in Callers, SyncPending(c) \/ SyncCompleted(c)
  PROVE  CInv'
<1>1. PICK o \in Ops : o = call[c].op
  BY AtWork
<1>2. CASE SyncPending(c)
  <2>1. CASE scope = "open"
    <3>1. cache' = [cache EXCEPT ![o] =
                      [of |-> call[c].payload, status |-> "running", durable |-> FALSE]]
      BY <1>1, <1>2, <2>1 DEF SyncPending
    <3>2. /\ cache'[o] = [of |-> call[c].payload, status |-> "running", durable |-> FALSE]
          /\ \A x \in Ops \ {o} : cache'[x] = cache[x]
      BY <3>1 DEF IInv, TypeOK
    <3>3. Cached(cache)' \subseteq Cached(cache) \cup {o} /\ Durable(cache)' \subseteq Durable(cache)
      BY <3>2 DEF Cached, Durable
    <3>. QED
      BY <3>3, NothingDurable
  <2>2. CASE scope # "open"
    <3>1. cache' = cache
      BY <1>2, <2>2 DEF SyncPending
    <3>. QED
      BY <1>1, <3>1, ForgottenIsBounded
  <2>. QED
    BY <2>1, <2>2
<1>3. CASE SyncCompleted(c)
  <2> DEFINE kept == IF cache[o] = NoRecord THEN cache
                     ELSE [cache EXCEPT ![o].status = "completed", ![o].durable = TRUE]
  <2>1. cache' \in Trimmed(kept)
    BY <1>1, <1>3 DEF SyncCompleted
  <2>2. Cached(kept) \subseteq Cached(cache)
    BY DEF IInv, TypeOK, Cached
  <2>3. IsFiniteSet(Cached(kept))
    BY <2>2, FS_Subset DEF CInv
  <2> HIDE DEF kept
  <2>4. IsFiniteSet(Cached(cache')) /\ Cardinality(Durable(cache')) <= MaxCached
    BY <2>1, <2>3, TrimmedIsBounded
  <2>. QED
    BY <2>4 DEF CInv, CacheIsBounded, Cached, Durable
<1>. QED
  BY <1>2, <1>3

LEMMA StepStaysBounded == IInv /\ CInv /\ [Next]_vars => CInv'
<1> SUFFICES ASSUME IInv, CInv, [Next]_vars PROVE CInv'
  OBVIOUS
<1>1. ASSUME NEW c \in Callers, Read(c) \/ RetireMigrated(c) PROVE CInv'
  <2>1. PICK o \in Ops : o = call[c].op
    BY AtWork
  <2>2. cache' = cache \/ \E record : cache' \in Remembered(o, record)
    BY <1>1, <2>1 DEF Read, RetireMigrated
  <2>. QED
    BY <2>2, RememberedIsBounded, ForgottenIsBounded
<1>2. ASSUME NEW c \in Callers, Publish(c) \/ SyncFails(c) \/ RunEnds(c) PROVE CInv'
  <2>1. PICK o \in Ops : o = call[c].op
    BY AtWork
  <2>2. cache' \in {cache, [cache EXCEPT ![o] = NoRecord]}
    BY <1>2, <2>1 DEF Publish, SyncFails, RunEnds, Throws
  <2>. QED
    BY <2>2, ForgottenIsBounded
<1>3. ASSUME NEW c \in Callers, SyncPending(c) \/ SyncCompleted(c) PROVE CInv'
  BY <1>3, SyncStaysBounded
<1>4. ASSUME cache' = cache PROVE CInv'
  BY <1>4, SetsAssumption, ForgottenIsBounded
<1>5. ASSUME NEW c \in Callers, Admit(c) \/ SyncMigrated(c) PROVE CInv'
  BY <1>4, <1>5 DEF Admit, SyncMigrated
<1>6. ASSUME NEW c \in Callers, NEW o \in Ops, NEW p \in Payloads, Commit(c, o, p) PROVE CInv'
  BY <1>4, <1>6 DEF Commit
<1>7. CASE EndReview \/ UNCHANGED vars
  BY <1>4, <1>7 DEF EndReview, vars
<1>8. CASE ReleaseReview \/ ReleaseInactive \/ Crash \/ LosePower
  <2>1. cache' = [o \in Ops |-> NoRecord]
    BY <1>8 DEF ReleaseReview, ReleaseInactive, Crash, LosePower, Restart
  <2>. QED
    BY <2>1, SetsAssumption, ForgottenIsBounded
<1>. QED
  BY <1>1, <1>2, <1>3, <1>5, <1>6, <1>7, <1>8 DEF Next, Step

(* #remember() and #trim() keep no more records than the limit that could  *)
(* be read again, for any limit and any number of operations.              *)
THEOREM CacheStaysBounded == Spec => []CacheIsBounded
<1>1. Init => CInv
  <2>1. ASSUME Init PROVE Cached(cache) = {} /\ Durable(cache) = {}
    BY <2>1 DEF Init, Cached, Durable
  <2>. QED
    BY <2>1, FS_EmptySet, BoundsAssumption DEF CInv, CacheIsBounded
<1>2. CInv => CacheIsBounded
  BY DEF CInv
<1>. QED
  BY <1>1, <1>2, StepStaysBounded, Invariance, PTL DEF Spec

-----------------------------------------------------------------------------
(***************************************************************************)
(* Refinement: every step of the journal is a step of OperationsOnce on    *)
(* what the callers see, or leaves it alone. An operation that runs had no *)
(* effect yet.                                                             *)
(***************************************************************************)
Unperformed == \A c \in Callers : call[c].pc = "run" => done[call[c].op] = NoRecord

LEMMA NothingPerformedYet == Init => Unperformed
BY IdleIsAway DEF Init, Unperformed

(* A step that starts nothing and takes effect only for its own call.      *)
LEMMA StaysUnperformed ==
  ASSUME Unperformed, \A d \in Callers : call'[d].pc = "run" => call'[d] = call[d],
         \A d \in Callers : call'[d].pc = "run" => done'[call[d].op] = done[call[d].op]
  PROVE  Unperformed'
BY DEF Unperformed

(* An answer ends the call, another step moves it on.                      *)
LEMMA GoesOn ==
  ASSUME TypeOK, NEW c \in Callers, NEW pc, NEW kind, Goes(c, pc, kind)
  PROVE  /\ call'[c].pc = pc /\ call'[c].op = call[c].op /\ call'[c].payload = call[c].payload
         /\ call'[c].answer = call[c].answer
         /\ \A d \in Callers \ {c} : call'[d] = call[d]
<1>1. call' = [call EXCEPT ![c] = [call[c] EXCEPT !.pc = pc, !.kind = kind]]
  BY DEF Goes, TypeOK, Calls
<1>2. /\ call'[c] = [call[c] EXCEPT !.pc = pc, !.kind = kind]
      /\ \A d \in Callers \ {c} : call'[d] = call[d]
  BY <1>1 DEF TypeOK
<1>3. call[c] \in Calls
  BY DEF TypeOK
<1> QED
  BY <1>2, <1>3 DEF Calls

LEMMA IsAnswered ==
  ASSUME TypeOK, NEW c \in Callers, NEW answer, Answered(c, answer)
  PROVE  /\ call'[c] = Told(c, answer) /\ call'[c].pc \in {"away", "answered"}
         /\ \A d \in Callers \ {c} : call'[d] = call[d]
<1>1. call'[c] = Told(c, answer) /\ \A d \in Callers \ {c} : call'[d] = call[d]
  BY DEF Answered, TypeOK
<1> QED
  BY <1>1, ToldRests

LEMMA PendingStaysUnperformed ==
  ASSUME IInv, TInv, Unperformed, NEW c \in Callers, SyncPending(c)
  PROVE  Unperformed'
<1>1. PICK o \in Ops : o = call[c].op
  BY AtWork
<1>2. runs[o] = 0 /\ done[o] = NoRecord
  <2>1. Known(o) /\ Backed(call[c])
    BY DEF TInv, IInv, WorkIsBacked
  <2> QED
    BY <1>1, <2>1 DEF SyncPending, Backed, Known
<1>3. CASE scope = "open"
  <2>1. queue[o] # <<>> /\ Head(queue[o]) = c
    BY <1>1, AtWork DEF SyncPending, Working
  <2>2. call'[c].op = o /\ \A d \in Callers \ {c} : call'[d] = call[d]
    BY <1>1, <1>3, <2>1, GoingKeepsThePlace DEF SyncPending, IInv, Pcs, Kinds
  <2> QED
    BY <1>2, <2>2 DEF SyncPending, Unperformed
<1>4. CASE scope # "open"
  <2>1. call'[c].pc # "run" /\ \A d \in Callers \ {c} : call'[d] = call[d]
    BY <1>4, IsAnswered DEF SyncPending, IInv
  <2> QED
    BY <2>1, StaysUnperformed DEF SyncPending
<1> QED
  BY <1>3, <1>4

LEMMA RunEndsStaysUnperformed ==
  ASSUME IInv, TInv, Unperformed, NEW c \in Callers, RunEnds(c)
  PROVE  Unperformed'
<1>1. PICK o \in Ops : o = call[c].op
  BY AtWork
<1>2. call'[c].pc # "run" /\ \A d \in Callers \ {c} : call'[d] = call[d]
  BY GoesOn, IsAnswered DEF RunEnds, IInv
<1>3. \A x \in Ops \ {o} : done'[x] = done[x]
  BY <1>1 DEF RunEnds, IInv, TypeOK
<1>4. ASSUME NEW d \in Callers, call'[d].pc = "run" PROVE done'[call[d].op] = done[call[d].op]
  <2>1. d # c /\ call[d].pc = "run"
    BY <1>2, <1>4
  <2>2. queue[o] # <<>> /\ Head(queue[o]) = c /\ call[d].op \in Ops
    BY <1>1, AtWork DEF RunEnds, Working
  <2>3. call[d].op # o
    BY <1>1, <2>1, <2>2, WorksAlone DEF IInv, Working
  <2> QED
    BY <1>3, <2>2, <2>3
<1> QED
  BY <1>2, <1>4, StaysUnperformed

LEMMA CallStaysUnperformed ==
  ASSUME IInv, TInv, Unperformed, NEW c \in Callers, Step(c)
  PROVE  Unperformed'
<1>1. ASSUME UNCHANGED done, call'[c].pc # "run", \A d \in Callers \ {c} : call'[d] = call[d]
      PROVE  Unperformed'
  BY <1>1, StaysUnperformed
<1>2. CASE Admit(c) \/ Read(c)
  <2>1. call'[c].pc # "run" /\ \A d \in Callers \ {c} : call'[d] = call[d]
    BY <1>2, GoesOn, IsAnswered DEF Admit, Read, IInv
  <2> QED
    BY <1>1, <1>2, <2>1 DEF Admit, Read
<1>3. CASE Publish(c) \/ SyncFails(c)
  <2>1. call'[c].pc # "run" /\ \A d \in Callers \ {c} : call'[d] = call[d]
    BY <1>3, GoesOn, IsAnswered DEF Publish, SyncFails, Throws, IInv
  <2> QED
    BY <1>1, <1>3, <2>1 DEF Publish, SyncFails
<1>4. CASE SyncMigrated(c) \/ RetireMigrated(c) \/ SyncCompleted(c)
  <2>1. call'[c].pc # "run" /\ \A d \in Callers \ {c} : call'[d] = call[d]
    BY <1>4, GoesOn, IsAnswered DEF SyncMigrated, RetireMigrated, SyncCompleted, IInv
  <2> QED
    BY <1>1, <1>4, <2>1 DEF SyncMigrated, RetireMigrated, SyncCompleted
<1> QED
  BY <1>2, <1>3, <1>4, PendingStaysUnperformed, RunEndsStaysUnperformed DEF Step

LEMMA StepStaysUnperformed == IInv /\ TInv /\ Unperformed /\ [Next]_vars => Unperformed'
<1> SUFFICES ASSUME IInv, TInv, Unperformed, [Next]_vars PROVE Unperformed'
  OBVIOUS
<1>1. ASSUME NEW c \in Callers, NEW o \in Ops, NEW p \in Payloads, Commit(c, o, p) PROVE Unperformed'
  <2>1. call'[c].pc \in {"away", "queued"} /\ \A d \in Callers \ {c} : call'[d] = call[d]
    BY <1>1, IdleIsAway DEF Commit, IInv, TypeOK
  <2> QED
    BY <1>1, <2>1, StaysUnperformed DEF Commit
<1>2. CASE EndReview \/ ReleaseReview \/ ReleaseInactive \/ UNCHANGED vars
  BY <1>2 DEF EndReview, ReleaseReview, ReleaseInactive, vars, Unperformed
<1>3. CASE Crash \/ LosePower
  BY <1>3, IdleIsAway DEF Crash, LosePower, Restart, Unperformed
<1> QED
  BY <1>1, <1>2, <1>3, CallStaysUnperformed DEF Next

(* What each abstract step asks of the calls.                              *)
LEMMA OnceStutters ==
  ASSUME UNCHANGED <<runs, done>>,
         \A d \in Callers : /\ Asked(d)' = Asked(d) /\ call'[d].answer = call[d].answer
                            /\ call'[d].pc = "run" <=> call[d].pc = "run"
  PROVE  UNCHANGED Once!onceVars
BY DEF Once!onceVars

LEMMA OnceDismisses ==
  ASSUME NEW c \in Callers, UNCHANGED <<runs, done>>,
         call'[c].pc = "away", call'[c].answer = "none",
         \A d \in Callers \ {c} : call'[d] = call[d]
  PROVE  Once!Dismiss(c)
<1>1. Asked(c)' = <<>> /\ \A d \in Callers \ {c} : Asked(d)' = Asked(d)
  BY DEF Asked
<1>2. [d \in Callers |-> Asked(d)]' = [[d \in Callers |-> Asked(d)] EXCEPT ![c] = <<>>]
  BY <1>1
<1>3. [d \in Callers |-> call[d].answer]' = [[d \in Callers |-> call[d].answer] EXCEPT ![c] = "none"]
  OBVIOUS
<1>4. {d \in Callers : call[d].pc = "run"}' = {d \in Callers : call[d].pc = "run"} \ {c}
  OBVIOUS
<1> QED
  BY <1>2, <1>3, <1>4 DEF Once!Dismiss

LEMMA OnceTells ==
  ASSUME NEW c \in Callers, UNCHANGED <<runs, done>>,
         call[c].pc \notin {"away", "run"}, call[c].answer = "none",
         call'[c].pc = "answered", call'[c].op = call[c].op, call'[c].payload = call[c].payload,
         call'[c].answer = IF done[call[c].op] = call[c].payload THEN "done" ELSE "conflict",
         \A d \in Callers : call[d].pc = "run" => call[d].op # call[c].op,
         \A d \in Callers \ {c} : call'[d] = call[d]
  PROVE  Once!Tell(c)
<1>1. Asked(c) = <<call[c].op, call[c].payload>> /\ \A d \in Callers : Asked(d)' = Asked(d)
  BY DEF Asked
<1>2. Once!OpOf(c) = call[c].op /\ Once!PayloadOf(c) = call[c].payload
  BY <1>1 DEF Once!OpOf, Once!PayloadOf
<1>3. Once!Waiting(c)
  <2>1. Asked(c) # <<>>
    BY <1>1
  <2>2. [x \in Callers |-> Asked(x)][c] = Asked(c) /\ [x \in Callers |-> call[x].answer][c] = "none"
    OBVIOUS
  <2>3. c \notin {x \in Callers : call[x].pc = "run"}
    OBVIOUS
  <2> QED
    BY <2>1, <2>2, <2>3 DEF Once!Waiting
<1>4. [d \in Callers |-> call[d].answer]'
        = [[d \in Callers |-> call[d].answer] EXCEPT ![c] =
             IF done[call[c].op] = call[c].payload THEN "done" ELSE "conflict"]
  OBVIOUS
<1>5. UNCHANGED [d \in Callers |-> Asked(d)] /\ UNCHANGED {d \in Callers : call[d].pc = "run"}
      /\ UNCHANGED {o \in Ops : runs[o] # 0}
  BY <1>1
<1>6. ASSUME NEW d \in {x \in Callers : call[x].pc = "run"} PROVE Once!OpOf(d) # call[c].op
  <2>1. Asked(d) = <<call[d].op, call[d].payload>>
    BY DEF Asked
  <2>2. Once!OpOf(d) = call[d].op
    BY <2>1 DEF Once!OpOf
  <2> QED
    BY <2>2
<1> QED
  BY <1>2, <1>3, <1>4, <1>5, <1>6 DEF Once!Tell

LEMMA OnceAsks ==
  ASSUME NEW c \in Callers, NEW o \in Ops, NEW p \in Payloads, UNCHANGED <<runs, done>>,
         call[c].pc # "run", call'[c].pc = "queued", call'[c].op = o, call'[c].payload = p,
         call'[c].answer = "none", \A d \in Callers \ {c} : call'[d] = call[d]
  PROVE  Once!Ask(c, o, p)
<1>1. Asked(c)' = <<o, p>> /\ \A d \in Callers \ {c} : Asked(d)' = Asked(d)
  BY DEF Asked
<1>2. [d \in Callers |-> Asked(d)]' = [[d \in Callers |-> Asked(d)] EXCEPT ![c] = <<o, p>>]
  BY <1>1
<1>3. [d \in Callers |-> call[d].answer]' = [[d \in Callers |-> call[d].answer] EXCEPT ![c] = "none"]
  OBVIOUS
<1>4. UNCHANGED {d \in Callers : call[d].pc = "run"} /\ UNCHANGED {x \in Ops : runs[x] # 0}
  OBVIOUS
<1> QED
  BY <1>2, <1>3, <1>4 DEF Once!Ask

LEMMA OnceStarts ==
  ASSUME NEW c \in Callers, NEW o \in Ops, o = call[c].op, UNCHANGED done,
         runs[o] = 0, runs'[o] # 0, \A x \in Ops \ {o} : runs'[x] = runs[x],
         call[c].pc \notin {"away", "run"}, call[c].answer = "none",
         \A d \in Callers : call[d].answer # "none" => call[d].pc = "answered" /\ call[d].op # o,
         call'[c].pc = "run", call'[c].op = o, call'[c].payload = call[c].payload,
         call'[c].answer = "none", \A d \in Callers \ {c} : call'[d] = call[d]
  PROVE  Once!Start(c)
<1>1. Asked(c) = <<o, call[c].payload>> /\ \A d \in Callers : Asked(d)' = Asked(d)
  BY DEF Asked
<1>2. Once!OpOf(c) = o
  BY <1>1 DEF Once!OpOf
<1>3. Once!Waiting(c)
  <2>1. Asked(c) # <<>>
    BY <1>1
  <2>2. [x \in Callers |-> Asked(x)][c] = Asked(c) /\ [x \in Callers |-> call[x].answer][c] = "none"
    OBVIOUS
  <2>3. c \notin {x \in Callers : call[x].pc = "run"}
    OBVIOUS
  <2> QED
    BY <2>1, <2>2, <2>3 DEF Once!Waiting
<1>4. \A d \in Callers : call[d].answer # "none" => Once!OpOf(d) # o
  BY DEF Once!OpOf, Asked
<1>5. {d \in Callers : call[d].pc = "run"}' = {d \in Callers : call[d].pc = "run"} \cup {c}
  OBVIOUS
<1>6. {x \in Ops : runs[x] # 0}' = {x \in Ops : runs[x] # 0} \cup {o}
  OBVIOUS
<1>7. UNCHANGED [d \in Callers |-> Asked(d)] /\ UNCHANGED [d \in Callers |-> call[d].answer]
  BY <1>1
<1> QED
  BY <1>2, <1>3, <1>4, <1>5, <1>6, <1>7 DEF Once!Start

LEMMA OnceTakesEffect ==
  ASSUME NEW c \in Callers, NEW o \in Ops, o = call[c].op, UNCHANGED runs,
         done \in [Ops -> Payloads \cup {NoRecord}],
         call[c].pc = "run", call[c].answer = "none", done[o] = NoRecord,
         done' = [done EXCEPT ![o] = call[c].payload],
         call'[c].pc # "run", call'[c].answer = "none",
         call'[c].pc = "away" \/ (call'[c].op = o /\ call'[c].payload = call[c].payload),
         \A d \in Callers \ {c} : call'[d] = call[d]
  PROVE  Once!TakeEffect(c)
<1>1. Asked(c) = <<o, call[c].payload>>
  BY DEF Asked
<1>2. Once!OpOf(c) = o /\ Once!PayloadOf(c) = call[c].payload
  BY <1>1 DEF Once!OpOf, Once!PayloadOf
<1>3. Asked(c)' \in {<<>>, Asked(c)} /\ \A d \in Callers \ {c} : Asked(d)' = Asked(d)
  BY <1>1 DEF Asked
<1>4. [d \in Callers |-> Asked(d)]' \in
        {[d \in Callers |-> Asked(d)], [[d \in Callers |-> Asked(d)] EXCEPT ![c] = <<>>]}
  BY <1>3
<1>5. {d \in Callers : call[d].pc = "run"}' = {d \in Callers : call[d].pc = "run"} \ {c}
  OBVIOUS
<1>6. UNCHANGED [d \in Callers |-> call[d].answer] /\ UNCHANGED {x \in Ops : runs[x] # 0}
  OBVIOUS
<1> QED
  BY <1>2, <1>4, <1>5, <1>6 DEF Once!TakeEffect

(* The steps of a call: one that goes on is not seen, one that is answered *)
(* is told the truth, or that nothing is known.                            *)
OnceStep == [Once!OnceNext]_(Once!onceVars)

LEMMA GoingIsNotSeen ==
  ASSUME TypeOK, NEW c \in Callers, NEW pc, NEW kind, Goes(c, pc, kind),
         pc \notin {"away", "run"}, call[c].pc \notin {"away", "run"}, UNCHANGED <<runs, done>>
  PROVE  OnceStep
<1>1. /\ call'[c].pc = pc /\ call'[c].op = call[c].op /\ call'[c].payload = call[c].payload
      /\ call'[c].answer = call[c].answer
      /\ \A d \in Callers \ {c} : call'[d] = call[d]
  BY GoesOn
<1>2. \A d \in Callers : /\ Asked(d)' = Asked(d) /\ call'[d].answer = call[d].answer
                         /\ call'[d].pc = "run" <=> call[d].pc = "run"
  BY <1>1 DEF Asked
<1> QED
  BY <1>2, OnceStutters DEF OnceStep

LEMMA NotAnsweredYet ==
  ASSUME TInv, NEW c \in Callers, call[c].pc # "answered"
  PROVE  call[c].answer = "none"
BY DEF TInv, AnswerHolds

LEMMA AnswerIsSeen ==
  ASSUME IInv, TInv, NEW c \in Callers, NEW answer, Answered(c, answer),
         call[c].pc \notin {"away", "answered"}, UNCHANGED <<runs, done>>,
         answer \in {"done", "conflict"} =>
           /\ call[c].pc # "run" /\ queue[call[c].op] # <<>> /\ Head(queue[call[c].op]) = c
           /\ answer = IF done[call[c].op] = call[c].payload THEN "done" ELSE "conflict"
  PROVE  OnceStep
<1>1. call'[c] = Told(c, answer) /\ \A d \in Callers \ {c} : call'[d] = call[d]
  BY IsAnswered DEF IInv
<1>2. CASE answer \in {"done", "conflict"}
  <2>1. /\ call'[c].pc = "answered" /\ call'[c].answer = answer
        /\ call'[c].op = call[c].op /\ call'[c].payload = call[c].payload
    BY <1>1, <1>2, AtWork DEF Told, Calls
  <2>2. ASSUME NEW d \in Callers, call[d].pc = "run" PROVE call[d].op # call[c].op
    BY <1>2, <2>2, WorksAlone DEF IInv, Working
  <2>3. Once!Tell(c)
    BY <1>1, <1>2, <2>1, <2>2, NotAnsweredYet, OnceTells
  <2> QED
    BY <2>3 DEF OnceStep, Once!OnceNext
<1>3. CASE answer \notin {"done", "conflict"}
  <2>1. call'[c].pc = "away" /\ call'[c].answer = "none"
    BY <1>1, <1>3, IdleIsAway DEF Told
  <2>2. Once!Dismiss(c)
    BY <1>1, <2>1, OnceDismisses
  <2> QED
    BY <2>2 DEF OnceStep, Once!OnceNext
<1> QED
  BY <1>2, <1>3

LEMMA VerdictIsSeen ==
  ASSUME IInv, TInv, NEW c \in Callers, NEW record, record # NoRecord, Agrees(record, call[c].op),
         Answered(c, Verdict(record, call[c].payload)),
         call[c].pc \notin {"away", "answered", "run"}, UNCHANGED <<runs, done>>,
         queue[call[c].op] # <<>>, Head(queue[call[c].op]) = c
  PROVE  OnceStep
<1>1. call[c].op \in Ops /\ call[c].payload \in Payloads
  BY AtWork
<1>2. /\ Verdict(record, call[c].payload) = "done" => done[call[c].op] = call[c].payload
      /\ Verdict(record, call[c].payload) = "conflict" => done[call[c].op] # call[c].payload
  BY <1>1, VerdictIsTrue
<1> QED
  BY <1>2, AnswerIsSeen

LEMMA CommitIsSeen ==
  ASSUME IInv, TInv, NEW c \in Callers, NEW o \in Ops, NEW p \in Payloads, Commit(c, o, p)
  PROVE  OnceStep
<1>1. call \in [Callers -> Calls] /\ call[c].pc # "run"
  BY DEF Commit, IInv, TypeOK
<1>2. CASE scope = "open"
  <2>1. /\ call'[c] = [pc |-> "queued", op |-> o, payload |-> p, kind |-> "none", answer |-> "none"]
        /\ \A d \in Callers \ {c} : call'[d] = call[d]
    BY <1>1, <1>2 DEF Commit
  <2>2. Once!Ask(c, o, p)
    BY <1>1, <2>1, OnceAsks DEF Commit
  <2> QED
    BY <2>2 DEF OnceStep, Once!OnceNext
<1>3. CASE scope # "open"
  <2>1. call'[c] = Idle /\ \A d \in Callers \ {c} : call'[d] = call[d]
    BY <1>1, <1>3 DEF Commit
  <2>2. Once!Dismiss(c)
    BY <2>1, IdleIsAway, OnceDismisses DEF Commit
  <2> QED
    BY <2>2 DEF OnceStep, Once!OnceNext
<1> QED
  BY <1>2, <1>3

LEMMA ReadIsSeen ==
  ASSUME IInv, TInv, NEW c \in Callers, Admit(c) \/ Read(c)
  PROVE  OnceStep
<1>1. /\ call[c].pc \in {"queued", "read"} /\ UNCHANGED <<runs, done>>
      /\ Known(call[c].op) /\ TypeOK
      /\ queue[call[c].op] # <<>> /\ Head(queue[call[c].op]) = c
  BY AtWork DEF Admit, Read, TInv, IInv, Working
<1>2. ASSUME NEW answer \in {"unavailable", "failed"}, Answered(c, answer) PROVE OnceStep
  BY <1>1, <1>2, AnswerIsSeen
<1>3. ASSUME NEW record \in {cache[call[c].op], disk[call[c].op].seen}, record # NoRecord,
             Answered(c, Verdict(record, call[c].payload))
      PROVE  OnceStep
  BY <1>1, <1>3, VerdictIsSeen DEF Known
<1>4. ASSUME NEW pc \in {"read", "publish"}, NEW kind, Goes(c, pc, kind) PROVE OnceStep
  BY <1>1, <1>4, GoingIsNotSeen
<1> QED
  BY <1>2, <1>3, <1>4 DEF Admit, Read

LEMMA PersistIsSeen ==
  ASSUME IInv, TInv, NEW c \in Callers,
         Publish(c) \/ SyncFails(c) \/ SyncMigrated(c)
  PROVE  OnceStep
<1>1. call[c].pc \in {"publish", "sync"} /\ UNCHANGED <<runs, done>> /\ TypeOK
  BY DEF Publish, SyncFails, SyncMigrated, IInv
<1>2. ASSUME NEW answer \in {"unavailable", "failed"}, Answered(c, answer) PROVE OnceStep
  BY <1>1, <1>2, AnswerIsSeen
<1>3. ASSUME NEW pc \in {"sync", "retire"}, NEW kind, Goes(c, pc, kind) PROVE OnceStep
  BY <1>1, <1>3, GoingIsNotSeen
<1> QED
  BY <1>2, <1>3 DEF Publish, SyncFails, SyncMigrated, Throws

LEMMA RetireIsSeen ==
  ASSUME IInv, TInv, NEW c \in Callers, RetireMigrated(c)
  PROVE  OnceStep
<1>1. /\ call[c].pc = "retire" /\ UNCHANGED <<runs, done>>
      /\ queue[call[c].op] # <<>> /\ Head(queue[call[c].op]) = c
  BY AtWork DEF RetireMigrated, Working
<1>2. Agrees(legacy[call[c].op].seen, call[c].op) /\ legacy[call[c].op].seen # NoRecord
  BY <1>1, AtWork DEF TInv, Known, IInv, WorkIsBacked, Backed
<1>3. CASE Answered(c, Verdict(legacy[call[c].op].seen, call[c].payload))
  BY <1>1, <1>2, <1>3, VerdictIsSeen
<1>4. CASE Answered(c, "failed")
  BY <1>1, <1>4, AnswerIsSeen
<1> QED
  BY <1>3, <1>4 DEF RetireMigrated

LEMMA SyncPendingIsSeen ==
  ASSUME IInv, TInv, NEW c \in Callers, SyncPending(c)
  PROVE  OnceStep
<1>1. PICK o \in Ops : o = call[c].op
  BY AtWork
<1>2. runs[o] = 0 /\ queue[o] # <<>> /\ Head(queue[o]) = c /\ call[c].answer = "none"
  BY <1>1, AtWork, NotAnsweredYet DEF SyncPending, IInv, WorkIsBacked, Backed, Working
<1>3. CASE scope = "open"
  <2>1. /\ call'[c].pc = "run" /\ call'[c].op = o /\ call'[c].payload = call[c].payload
        /\ call'[c].answer = call[c].answer
        /\ \A d \in Callers \ {c} : call'[d] = call[d]
    BY <1>1, <1>3, GoesOn DEF SyncPending, IInv
  <2>2. runs'[o] # 0 /\ \A x \in Ops \ {o} : runs'[x] = runs[x]
    <3>1. runs \in [Ops -> Nat] /\ runs' = [runs EXCEPT ![o] = runs[o] + 1]
      BY <1>1, <1>3 DEF SyncPending, IInv, TypeOK
    <3> QED
      BY <1>2, <3>1
  <2>3. \A d \in Callers : call[d].answer # "none" => call[d].pc = "answered" /\ call[d].op # o
    <3>1. Starts(call[c])
      BY DEF SyncPending, Starts
    <3> QED
      BY <1>1, <3>1 DEF TInv, AnswerHolds
  <2>4. Once!Start(c)
    BY <1>1, <1>2, <2>1, <2>2, <2>3, OnceStarts DEF SyncPending
  <2> QED
    BY <2>4 DEF OnceStep, Once!OnceNext
<1>4. CASE scope # "open"
  BY <1>4, AnswerIsSeen DEF SyncPending
<1> QED
  BY <1>3, <1>4

LEMMA RunEndsIsSeen ==
  ASSUME IInv, TInv, Unperformed, NEW c \in Callers, RunEnds(c)
  PROVE  OnceStep
<1>1. PICK o \in Ops : o = call[c].op
  BY AtWork
<1>2. /\ call[c].pc = "run" /\ call[c].answer = "none" /\ done[o] = NoRecord
      /\ done \in [Ops -> Payloads \cup {NoRecord}] /\ UNCHANGED runs
  BY <1>1, NotAnsweredYet DEF RunEnds, Unperformed, IInv, TypeOK
<1>3. CASE Goes(c, "publish", "completed") /\ done' = [done EXCEPT ![o] = call[c].payload]
  <2>1. /\ call'[c].pc = "publish" /\ call'[c].op = o /\ call'[c].payload = call[c].payload
        /\ call'[c].answer = "none"
        /\ \A d \in Callers \ {c} : call'[d] = call[d]
    BY <1>1, <1>2, <1>3, GoesOn DEF IInv
  <2>2. Once!TakeEffect(c)
    BY <1>1, <1>2, <1>3, <2>1, OnceTakesEffect
  <2> QED
    BY <2>2 DEF OnceStep, Once!OnceNext
<1>4. CASE Answered(c, "failed") /\ done' = [done EXCEPT ![o] = call[c].payload]
  <2>1. call'[c] = Told(c, "failed") /\ \A d \in Callers \ {c} : call'[d] = call[d]
    BY <1>4, IsAnswered DEF IInv
  <2>2. call'[c].pc = "away" /\ call'[c].answer = "none"
    BY <2>1, IdleIsAway DEF Told
  <2>3. Once!TakeEffect(c)
    BY <1>1, <1>2, <1>4, <2>1, <2>2, OnceTakesEffect
  <2> QED
    BY <2>3 DEF OnceStep, Once!OnceNext
<1>5. CASE Answered(c, "failed") /\ UNCHANGED done
  BY <1>2, <1>5, AnswerIsSeen
<1> QED
  BY <1>1, <1>3, <1>4, <1>5 DEF RunEnds

LEMMA SyncCompletedIsSeen ==
  ASSUME IInv, TInv, NEW c \in Callers, SyncCompleted(c)
  PROVE  OnceStep
<1>1. /\ done[call[c].op] = call[c].payload
      /\ queue[call[c].op] # <<>> /\ Head(queue[call[c].op]) = c
  BY AtWork DEF TInv, RunIsMine, Started, SyncCompleted, Working
<1> QED
  BY <1>1, AnswerIsSeen DEF SyncCompleted

LEMMA CallIsSeen ==
  ASSUME IInv, TInv, Unperformed, NEW c \in Callers, Step(c)
  PROVE  OnceStep
BY ReadIsSeen, PersistIsSeen, RetireIsSeen, SyncPendingIsSeen, RunEndsIsSeen, SyncCompletedIsSeen DEF Step

(* The review ends out of the callers' sight; a restart forgets the calls. *)
LEMMA EndIsNotSeen ==
  ASSUME EndReview \/ ReleaseReview \/ ReleaseInactive \/ UNCHANGED vars
  PROVE  OnceStep
<1>1. UNCHANGED <<call, runs, done>>
  BY DEF EndReview, ReleaseReview, ReleaseInactive, vars
<1>2. \A d \in Callers : /\ Asked(d)' = Asked(d) /\ call'[d].answer = call[d].answer
                         /\ call'[d].pc = "run" <=> call[d].pc = "run"
  BY <1>1 DEF Asked
<1> QED
  BY <1>1, <1>2, OnceStutters DEF OnceStep

LEMMA RestartIsSeen ==
  ASSUME Crash \/ LosePower
  PROVE  OnceStep
<1>1. UNCHANGED <<runs, done>> /\ \A c \in Callers : call'[c] = Idle
  BY DEF Crash, LosePower, Restart
<1>2. \A c \in Callers : Asked(c)' = <<>> /\ call'[c].answer = "none" /\ call'[c].pc = "away"
  BY <1>1, IdleIsAway DEF Asked
<1>3. Once!Restart
  BY <1>1, <1>2 DEF Once!Restart
<1> QED
  BY <1>3 DEF OnceStep, Once!OnceNext

LEMMA InitIsSeen == Init => Once!OnceInit
<1> SUFFICES ASSUME Init PROVE Once!OnceInit
  OBVIOUS
<1>1. \A c \in Callers : call[c] = Idle
  BY DEF Init
<1>2. \A c \in Callers : Asked(c) = <<>> /\ call[c].answer = "none" /\ call[c].pc = "away"
  BY <1>1, IdleIsAway DEF Asked
<1>3. done \in [Ops -> Payloads \cup {NoRecord}]
  BY InitEstablishes DEF IInv, TypeOK
<1>4. ASSUME NEW o \in Ops, done[o] # NoRecord PROVE runs[o] # 0
  BY <1>4 DEF Init
<1> QED
  BY <1>2, <1>3, <1>4 DEF Once!OnceInit

(* For the callers of commit(), whatever fails and whoever asks again, an  *)
(* operation starts once, takes effect at most once and with the payload   *)
(* of the caller it runs for, and whoever is told of it is told the truth, *)
(* after that: the journal implements OperationsOnce.                      *)
THEOREM JournalImplementsOperationsOnce == Spec => ImplementsOperationsOnce
<1>1. Init => Once!OnceInit /\ TInv /\ Unperformed
  BY InitIsSeen, InitIsTrue, NothingPerformedYet
<1>2. IInv /\ TInv /\ Unperformed /\ [Next]_vars => TInv' /\ Unperformed'
  BY StepStaysTrue, StepStaysUnperformed
<1>3. IInv /\ TInv /\ Unperformed /\ [Next]_vars => OnceStep
  <2> SUFFICES ASSUME IInv, TInv, Unperformed, [Next]_vars PROVE OnceStep
    OBVIOUS
  <2>1. ASSUME NEW c \in Callers, Step(c) PROVE OnceStep
    BY <2>1, CallIsSeen
  <2>2. ASSUME NEW c \in Callers, NEW o \in Ops, NEW p \in Payloads, Commit(c, o, p) PROVE OnceStep
    BY <2>2, CommitIsSeen
  <2>3. CASE EndReview \/ ReleaseReview \/ ReleaseInactive \/ UNCHANGED vars
    BY <2>3, EndIsNotSeen
  <2>4. CASE Crash \/ LosePower
    BY <2>4, RestartIsSeen
  <2> QED
    BY <2>1, <2>2, <2>3, <2>4 DEF Next
<1>4. OnceStep <=> [Once!OnceNext]_(Once!onceVars)
  BY DEF OnceStep
<1> QED
  BY <1>1, <1>2, <1>3, <1>4, Invariance, PTL DEF Spec, ImplementsOperationsOnce, Once!OnceSpec
=============================================================================
