------------------------- MODULE AcknowledgedDraft -------------------------
(***************************************************************************)
(* What a review session may expect of its recovery store. One draft is    *)
(* acknowledged at a time; a write is acknowledged or refused; and after a *)
(* crash the session resumes from the acknowledged draft, the one being    *)
(* written, or one that was refused although it had reached the disk: since*)
(* the last acknowledgement ("fresh"), or before it when it outranks the   *)
(* acknowledged draft by its revision ("aged").                            *)
(***************************************************************************)
EXTENDS Naturals

CONSTANTS Drafts, NoDraft

VARIABLES acked, inflight, fresh, aged

absVars == <<acked, inflight, fresh, aged>>

Recoverable ==
  {acked} \cup fresh \cup aged \cup (IF inflight = NoDraft THEN {} ELSE {inflight})

AbsInit ==
  /\ acked \in Drafts
  /\ inflight = NoDraft
  /\ fresh = {}
  /\ aged = {}

Submit ==
  /\ inflight = NoDraft
  /\ inflight' \in {d \in Drafts : d.rev >= acked.rev}
  /\ UNCHANGED <<acked, fresh, aged>>

Acknowledge ==
  /\ inflight # NoDraft
  /\ acked' = inflight
  /\ aged' = {d \in fresh : d.rev > inflight.rev}
  /\ fresh' = {}
  /\ inflight' = NoDraft

Refuse ==
  /\ inflight # NoDraft
  /\ fresh' \in {fresh, fresh \cup {inflight}}
  /\ inflight' = NoDraft
  /\ UNCHANGED <<acked, aged>>

Restart ==
  /\ acked' \in Recoverable
  /\ fresh' = Recoverable \ {acked'}
  /\ aged' = {}
  /\ inflight' = NoDraft

AbsNext == Submit \/ Acknowledge \/ Refuse \/ Restart

AbsSpec == AbsInit /\ [][AbsNext]_absVars
=============================================================================
