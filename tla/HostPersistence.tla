--------------------------- MODULE HostPersistence ---------------------------
(***************************************************************************)
(* The service's side of a review whose PDF belongs to a host: the broker's*)
(* review, save state and destination, the recovery file of the host save  *)
(* (host-resource.json), and the requests save, receipt and finish, one    *)
(* await at a time. The extension runtime serializes these requests; edits *)
(* and the choice of a copy come through another queue and interleave with *)
(* them. The bytes of a pending save lie in a file written before and      *)
(* removed after the intent that names it, and are left out.               *)
(*                                                                         *)
(* The bytes of a PDF are the sequence of a source somebody else wrote and *)
(* the revisions rendered on top of it: a rendering of revision r of a     *)
(* review of bytes b is Append(b, r).                                      *)
(***************************************************************************)
EXTENDS Naturals, Sequences

CONSTANTS
  Source,       \* what the host holds when the review is opened
  MaxRevision   \* bound: edits of a review

VARIABLES
  review,   \* generation, bytes of the source, revision
  sync,     \* phase, and the digests of the desired and of the saved review
  dest,     \* "host" and whether it is writable, or "active" (a copy)
  state,    \* host-resource.json
  minted,   \* number of intents made so far
  open,     \* history: intents written to the host whose fate the service
            \* has not learned
  call      \* the request being executed, its local variables, its answer

reviewVars == <<review, sync, dest>>
serviceVars == <<review, sync, dest, state, minted, open, call>>

Rendering(r) == Append(r.src, r.rev)

NoIntent == [id |-> 0, gen |-> 0, src |-> <<>>, bytes |-> <<>>, ifMatch |-> 0]

(* etag 0 is an absent etag. `last` is the receipt acknowledged last.      *)
Opened(src) ==
  [writable |-> TRUE, etag |-> 1, digest |-> src, pending |-> NoIntent,
   outcome |-> "none", last |-> [id |-> 0, etag |-> 0]]

NoCall ==
  [kind |-> "none", step |-> "start", id |-> 0, outcome |-> "none", etag |-> 0,
   read |-> <<>>, writable |-> FALSE, state |-> Opened(<<>>), intent |-> NoIntent,
   classified |-> FALSE, result |-> "none"]

SaveCall == [NoCall EXCEPT !.kind = "save"]
ReceiptCall(id, outcome, etag) ==
  [NoCall EXCEPT !.kind = "receipt", !.id = id, !.outcome = outcome, !.etag = etag]
FinishCall(host) ==
  [NoCall EXCEPT !.kind = "finish", !.read = host.bytes, !.etag = host.etag,
                 !.writable = host.writable]

At(kind, step) == call.kind = kind /\ call.step = step
Reply(result) == call' = [call EXCEPT !.step = "replied", !.result = result]
Goto(step) == call' = [call EXCEPT !.step = step]

ServiceInit ==
  /\ review = [gen |-> 1, src |-> <<Source>>, rev |-> 0]
  /\ sync = [phase |-> "clean", des |-> <<Source, 0>>, sav |-> <<Source, 0>>]
  /\ dest = [phase |-> "host", writable |-> TRUE]
  /\ state = Opened(<<Source>>)
  /\ minted = 0
  /\ open = {}
  /\ call = NoCall

-----------------------------------------------------------------------------
(* acceptMutation() with #deriveMutationSync().                            *)
Edit ==
  LET r == [review EXCEPT !.rev = @ + 1]
  IN
  /\ review.rev - (review.gen - 1) < MaxRevision
  /\ review' = r
  /\ sync' = [sync EXCEPT !.phase = IF dest.phase = "active" \/ dest.writable
                                    THEN "saving" ELSE "not-saved",
                          !.des = Rendering(r)]
  /\ UNCHANGED <<dest, state, minted, open, call>>

(* chooseCopy(): establishSaveDestination() of an imported review.         *)
ChooseCopy ==
  /\ dest.phase = "host"
  /\ dest' = [dest EXCEPT !.phase = "active"]
  /\ sync' = [sync EXCEPT !.phase = "saving"]
  /\ UNCHANGED <<review, state, minted, open, call>>

(* configureImportedDestination(): in one section of the session tail.     *)
Configure(writable) ==
  IF dest.phase = "active" THEN UNCHANGED <<dest, sync>>
  ELSE /\ dest' = [dest EXCEPT !.writable = writable]
       /\ sync' = [sync EXCEPT !.phase = IF sync.sav = sync.des THEN "clean"
                                         ELSE IF writable THEN "saving" ELSE "not-saved"]

(* markImportedSaveState(), then the answer; it throws away from the host. *)
MarkNotSaved(result) ==
  IF dest.phase = "host"
  THEN sync' = [sync EXCEPT !.phase = "not-saved"] /\ Reply(result)
  ELSE UNCHANGED sync /\ Reply("error")

-----------------------------------------------------------------------------
(* save(): the early answers, else materializeImportedSave() freezes the   *)
(* review as it is now.                                                    *)
Writable == state.writable /\ state.etag # 0

(* Mutant of Unresolved: an unknown outcome does not stop the next save.    *)
ConflictOnly == state.outcome = "conflict"
Unresolved == state.outcome \in {"conflict", "unknown"}

(* Mutant of NextId: ids are not told apart from none.                      *)
LastId == minted
NextId == minted + 1

SaveStart ==
  /\ At("save", "start")
  /\ \/ dest.phase # "host" /\ Reply("local-copy") /\ UNCHANGED sync
     \/ dest.phase = "host" /\ ~Writable /\ MarkNotSaved("read-only")
     \/ dest.phase = "host" /\ Writable /\ Unresolved /\ Reply(state.outcome)
        /\ UNCHANGED sync
     \/ /\ dest.phase = "host" /\ Writable /\ ~Unresolved /\ sync.phase = "clean"
        /\ Reply("saved")
        /\ UNCHANGED sync
     \/ /\ dest.phase = "host" /\ Writable /\ ~Unresolved /\ sync.phase # "clean"
        /\ call' = [call EXCEPT !.step = "bytes", !.state = state,
                      !.intent = [id |-> NextId, gen |-> review.gen,
                                  src |-> review.src, bytes |-> Rendering(review),
                                  ifMatch |-> state.etag]]
        /\ UNCHANGED sync
  /\ UNCHANGED <<review, dest, state, minted, open>>

(* The bytes are written; a copy chosen meanwhile ends the save.            *)
SaveBytes ==
  /\ At("save", "bytes")
  /\ IF dest.phase # "host" THEN Reply("local-copy") /\ UNCHANGED minted
     ELSE minted' = minted + 1 /\ Goto("intent")
  /\ UNCHANGED <<reviewVars, state, open>>

SaveIntent ==
  /\ At("save", "intent")
  /\ state' = [call.state EXCEPT !.pending = call.intent, !.outcome = "unknown"]
  /\ Goto("configure")
  /\ UNCHANGED <<reviewVars, minted, open>>

SaveConfigure ==
  /\ At("save", "configure")
  /\ Configure(TRUE)
  /\ Reply(IF dest.phase = "host" THEN "intent" ELSE "local-copy")
  /\ UNCHANGED <<review, state, minted, open>>

-----------------------------------------------------------------------------
(* receipt(): a receipt that was acknowledged before is answered again; one*)
(* of another intent is refused.                                           *)
Repeated == call.outcome = "saved" /\ state.last = [id |-> call.id, etag |-> call.etag]

ReceiptStart ==
  /\ At("receipt", "start")
  /\ \/ dest.phase # "host" /\ Reply("error")
     \/ dest.phase = "host" /\ Repeated /\ Reply("saved")
     \/ dest.phase = "host" /\ ~Repeated /\ state.pending.id # call.id /\ Reply("error")
     \/ /\ dest.phase = "host" /\ ~Repeated /\ state.pending.id = call.id
        /\ call' = [call EXCEPT !.state = state, !.intent = state.pending,
                      !.step = IF call.outcome = "saved" /\ call.etag # 0
                               THEN "ack" ELSE "record"]
  /\ UNCHANGED <<reviewVars, state, minted, open>>

ReceiptRecord ==
  /\ At("receipt", "record")
  /\ state' = [call.state EXCEPT !.outcome = IF call.outcome = "saved" THEN "unknown"
                                             ELSE call.outcome]
  /\ open' = IF call.outcome = "conflict" THEN open \ {call.id} ELSE open
  /\ Goto("mark")
  /\ UNCHANGED <<reviewVars, minted>>

ReceiptMark ==
  /\ At("receipt", "mark")
  /\ MarkNotSaved(call.outcome)
  /\ UNCHANGED <<review, dest, state, minted, open>>

(* Mutants: an acknowledgement for a review that has left the host, and one*)
(* that takes the review for saved whatever was edited since.              *)
AckAnywhere == TRUE
AckAsLatest == TRUE

(* #ack(): acknowledgeImportedSave() in the session tail, then the file.   *)
AckAdmitted ==
  dest.phase = "host" /\ review.gen = call.intent.gen /\ review.src = call.intent.src
AckIsCurrent == sync.des = call.intent.bytes

AckBroker ==
  /\ call.step = "ack"
  /\ IF AckAdmitted
     THEN /\ sync' = [sync EXCEPT !.phase = IF AckIsCurrent THEN "clean" ELSE "saving",
                                  !.sav = call.intent.bytes]
          /\ open' = open \ {call.intent.id}
          /\ Goto("acked")
     ELSE Reply("error") /\ UNCHANGED <<sync, open>>
  /\ UNCHANGED <<review, dest, state, minted>>

AckPersist ==
  /\ call.step = "acked"
  /\ state' = [call.state EXCEPT !.etag = call.etag, !.digest = call.intent.bytes,
                                 !.pending = NoIntent, !.outcome = "saved",
                                 !.last = [id |-> call.intent.id, etag |-> call.etag]]
  /\ IF call.kind = "receipt" THEN Reply("saved") ELSE Goto("configure")
  /\ UNCHANGED <<reviewVars, minted, open>>

-----------------------------------------------------------------------------
(* finish() of a reread: a pending intent is compared with what the host   *)
(* holds. Away from the host a pending intent is dropped.                  *)
Prior ==
  IF dest.phase = "host" THEN state
  ELSE [state EXCEPT !.pending = NoIntent, !.outcome = "none"]

(* Mutants: a write that did not land is not recognized, and what somebody *)
(* else wrote is not adopted.                                              *)
NeverClassified == FALSE
KeepsSource == FALSE

Landed == Prior.pending.id # 0 /\ Prior.pending.bytes = call.read /\ call.etag # 0
NotLanded == Prior.pending.id # 0 /\ ~Landed /\ Prior.outcome = "unknown"
             /\ Prior.digest = call.read
Overtaken == Prior.pending.id # 0 /\ ~Landed /\ Prior.digest # call.read
Changed == Prior.digest # call.read

FinishStart ==
  LET Carry(prior, step) ==
        call' = [call EXCEPT !.state = prior, !.intent = state.pending, !.step = step,
                             !.classified = NotLanded]
      adopt == IF Changed THEN "adopt" ELSE "record"
  IN
  /\ At("finish", "start")
  /\ \/ Landed /\ Carry([Prior EXCEPT !.writable = call.writable], "ack")
     \/ NotLanded /\ Carry([Prior EXCEPT !.pending = NoIntent, !.outcome = "none"], adopt)
     \/ Overtaken /\ Carry([Prior EXCEPT !.outcome = "conflict"], "overtaken")
     \/ ~Landed /\ ~NotLanded /\ ~Overtaken /\ Carry(Prior, adopt)
  /\ open' = IF NotLanded \/ Overtaken THEN open \ {state.pending.id} ELSE open
  /\ UNCHANGED <<reviewVars, state, minted>>

FinishOvertaken ==
  /\ At("finish", "overtaken")
  /\ state' = call.state
  /\ Goto("conflict")
  /\ UNCHANGED <<reviewVars, minted, open>>

FinishConflict ==
  /\ At("finish", "conflict")
  /\ MarkNotSaved("conflict")
  /\ UNCHANGED <<review, dest, state, minted, open>>

(* refreshImportedSource(): the bytes become the source of a new document  *)
(* generation, unless they are those of the present one.                   *)
FinishAdopt ==
  LET r == [gen |-> review.gen + 1, src |-> call.read, rev |-> review.rev + 1]
  IN
  /\ At("finish", "adopt")
  /\ IF call.read = review.src THEN UNCHANGED <<review, sync>>
     ELSE /\ review' = r
          /\ sync' = [sync EXCEPT !.phase = IF dest.phase = "active" THEN "saving"
                                            ELSE "not-saved",
                                  !.des = Rendering(r)]
  /\ Goto("record")
  /\ UNCHANGED <<dest, state, minted, open>>

FinishRecord ==
  /\ At("finish", "record")
  /\ state' = [call.state EXCEPT !.writable = call.writable, !.etag = call.etag,
                                 !.digest = call.read]
  /\ Goto("configure")
  /\ UNCHANGED <<reviewVars, minted, open>>

FinishConfigure ==
  /\ At("finish", "configure")
  /\ Configure(call.writable /\ call.etag # 0)
  /\ IF call.classified THEN Goto("classified") ELSE Reply("ready")
  /\ UNCHANGED <<review, state, minted, open>>

FinishClassified ==
  /\ At("finish", "classified")
  /\ MarkNotSaved("ready")
  /\ UNCHANGED <<review, dest, state, minted, open>>

-----------------------------------------------------------------------------
(* Any await of a request may reject: a write fails, the grant expires, an *)
(* interaction holds the document generation back.                         *)
CallFails ==
  /\ call.kind # "none" /\ call.step # "replied"
  /\ Reply("error")
  /\ UNCHANGED <<reviewVars, state, minted, open>>

(* The service dies. The recovered review reports an interrupted save.     *)
ServiceDies ==
  /\ call' = NoCall
  /\ sync' = [sync EXCEPT !.phase = IF @ = "saving" /\ dest.phase = "host"
                                    THEN "not-saved" ELSE @]
  /\ UNCHANGED <<review, dest, state, minted, open>>

ServiceSteps ==
  \/ SaveStart \/ SaveBytes \/ SaveIntent \/ SaveConfigure
  \/ ReceiptStart \/ ReceiptRecord \/ ReceiptMark
  \/ AckBroker \/ AckPersist
  \/ FinishStart \/ FinishOvertaken \/ FinishConflict \/ FinishAdopt
  \/ FinishRecord \/ FinishConfigure \/ FinishClassified
=============================================================================
