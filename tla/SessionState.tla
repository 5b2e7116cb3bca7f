---------------------------- MODULE SessionState ----------------------------
(***************************************************************************)
(* The state of one local review session of the placekeeper service and of *)
(* the parties that share it: the session broker (ActiveSession), the PDF  *)
(* save coordinator, the local document observer, the recovery files and   *)
(* the PDF files on disk. SessionBroker, SaveCoordinator and               *)
(* DocumentObserver hold the actions; SaveSync composes them.              *)
(***************************************************************************)
EXTENDS DraftFiles, FiniteSets

CONSTANTS
  Views,            \* attached review windows
  ItemSets,         \* inventories of Review Items
  NoItems,          \* the empty inventory
  Versions,         \* contents an outside program may give the original PDF
  FirstVersion,
  MaxRevision,      \* bound on user mutations
  MaxGeneration,    \* maxGenerationCount of the retention policy
  MaxDestinations,  \* bound on destination choices
  MaxEvents,        \* bound on outside writes and host hints
  MaxFaults         \* bound on I/O failures

ASSUME ItemsAssumption == NoItems \in ItemSets
ASSUME VersionsAssumption == FirstVersion \in Versions
ASSUME BoundsAssumption ==
  /\ MaxRevision \in Nat
  /\ MaxGeneration \in Nat \ {0}
  /\ MaxDestinations \in Nat
  /\ MaxEvents \in Nat
  /\ MaxFaults \in Nat

Kinds == {"original", "copy"}

(* What a PDF path holds. A service publication is rendered from the base  *)
(* of a private source snapshot and one inventory of items.                *)
External(v) == [by |-> "external", base |-> v, items |-> NoItems]
Rendered(source, items) == [by |-> "service", base |-> source.base, items |-> items]
Torn   == [by |-> "torn",   base |-> FirstVersion, items |-> NoItems]
Absent == [by |-> "absent", base |-> FirstVersion, items |-> NoItems]
Pdfs == [by : {"external", "service"}, base : Versions, items : ItemSets]
Contents == Pdfs \cup {Torn, Absent}

MaxRev == MaxRevision + MaxGeneration
MaxDestGen == MaxDestinations + MaxGeneration

(* reviewStateDigest(): the part of the review state a PDF depends on,     *)
(* with the workflow generation and freshness the digest also covers.      *)
Digests == [gen : 1..MaxGeneration, current : BOOLEAN, items : ItemSets]
Digest(r) == [gen |-> r.gen, current |-> r.current, items |-> r.items]

Reviews == [rev : 0..MaxRev, gen : 1..MaxGeneration, items : ItemSets,
            current : BOOLEAN, src : Pdfs]
Destinations == [active : BOOLEAN, gen : 0..MaxDestGen, kind : Kinds]
Syncs == [phase : {"clean", "saving", "not-saved"},
          desRev : 0..MaxRev, des : Digests,
          savRev : 0..MaxRev, sav : Digests]
Drafts == [rev : 0..MaxRev, review : Reviews, dest : Destinations, sync : Syncs,
           at : BOOLEAN]      \* acknowledgedAt, where it tells two drafts apart

ASSUME NoDraftAssumption == NoDraft \notin Drafts

VARIABLES
  review,      \* session.state: revision, generation, items, freshness, source
  dest,        \* session.destination
  sync,        \* session.sync
  originalDigest,   \* session.currentOriginalDigest
  eligible,    \* session.rewriteEligibility
  store,       \* the recovery files of the session
  commit,      \* session.replacementCommitBarrier
  tail,        \* who holds session.writeTail across several steps
  holds,       \* Interaction Holds: the generation each view holds, or 0
  pristine,    \* chooseOriginal() between its two tail sections
  save,        \* the save queue of the session and its drain
  obs,         \* the observed document: barrier, requests, timers, identities
  insp,        \* the inspection in progress
  files,       \* the PDFs on disk and whether their capability matches
  copyFingerprint,  \* expectedDigest of the copy's destination capability
  delivered,   \* history: what the service last put at each target
  unannounced, \* history: the original changed since the last admission
  refused,     \* history: refused drafts that reached the recovery files, and
               \* those of saves that turned out to be superseded
  faults,      \* how many I/O failures there were
  events       \* how many outside writes and hints, and how many edits

reviewVars == <<review, dest, sync, originalDigest, eligible>>
diskVars   == <<files, copyFingerprint, delivered, unannounced, events>>
vars == <<review, dest, sync, originalDigest, eligible, store, commit, tail,
          holds, pristine, save, obs, insp, files, copyFingerprint, delivered,
          unannounced, refused, faults, events>>

SavePcs == {"off", "top", "settle", "freeze", "write", "settleAgain",
            "validate", "publish", "confirm", "resolve", "failed"}
InspPcs == {"idle", "hash", "sameDigest", "stage", "stagedSame", "invalid",
            "retained", "replace", "persist"}

(* The record #drain carries: the destination snapshot of its pass and the *)
(* frozen delivery.                                                        *)
SaveStates ==
  [pc : SavePcs, requested : BOOLEAN, destGen : 0..MaxDestGen, kind : Kinds,
   rev : 0..MaxRev, digest : Digests, items : ItemSets, src : Pdfs,
   orig : Pdfs, docGen : 1..MaxGeneration]

(* ObservedDocument. "physical" is physicalSaveBarrierEpoch, which without *)
(* explicit hints is unset or the newest sequence number given out.        *)
ObserverStates ==
  [physical : BOOLEAN,     \* an admitted observation is not settled
   wanted : {"none", "identity", "full", "audit"},  \* pending or queued
   unseen : BOOLEAN,       \* unvalidatedWatcherSequence is set
   unchanged : BOOLEAN,    \* lastIdentity is the file's identity now
   lineage : BOOLEAN,      \* the lineage's outputIdentity is the file's now
   retry : BOOLEAN,        \* the retry timer is armed
   notify : BOOLEAN]       \* a change the watcher has not reported

InspectionStates ==
  [pc : InspPcs,
   newest : BOOLEAN,       \* its sequence is still the newest
   same : BOOLEAN,         \* the file's identity is the one it started with
   staged : BOOLEAN,       \* ... and the one it staged
   bytes : Contents,       \* the digest it hashed or staged
   gen : 1..MaxGeneration] \* expected.documentGeneration

(* Nothing frozen, no inspection, no commit barrier.                       *)
NoDelivery == [pc |-> "off", requested |-> FALSE, destGen |-> 0, kind |-> "original",
               rev |-> 0, digest |-> [gen |-> 1, current |-> TRUE, items |-> NoItems],
               items |-> NoItems, src |-> External(FirstVersion),
               orig |-> External(FirstVersion), docGen |-> 1]
NoInspection == [pc |-> "idle", newest |-> FALSE, same |-> FALSE, staged |-> FALSE,
                 bytes |-> Absent, gen |-> 1]
NoCommit == [kind |-> "none", successor |-> NoDraft, predecessor |-> NoDraft,
             bytes |-> Absent, newest |-> FALSE, staged |-> FALSE, eligible |-> FALSE]

(* No second section of chooseOriginal() is due.                           *)
NotDue == [gen |-> 0, current |-> TRUE]

CommitBarriers ==
  [kind : {"none", "save", "replace"},
   successor : Drafts \cup {NoDraft}, predecessor : Drafts \cup {NoDraft},
   bytes : Contents,       \* what was published, or what was ingested
   newest : BOOLEAN,       \* (replace) no observation was admitted since
   staged : BOOLEAN,       \* (replace) the file's identity is the staged one
   eligible : BOOLEAN]     \* (replace) rewrite eligibility of the successor

TypeOK ==
  /\ review \in Reviews
  /\ dest \in Destinations
  /\ sync \in Syncs
  /\ originalDigest \in Pdfs
  /\ eligible \in BOOLEAN
  /\ store \in [current : Drafts \cup {NoDraft}, previous : Drafts \cup {NoDraft}]
  /\ commit \in CommitBarriers
  /\ tail \in {"free", "save", "replace"}
  /\ holds \in [Views -> 0..MaxGeneration]
  /\ pristine \in [gen : 0..MaxDestGen, current : BOOLEAN]
  /\ save \in SaveStates
  /\ obs \in ObserverStates
  /\ insp \in InspectionStates
  /\ files \in [Kinds -> [bytes : Contents, approved : BOOLEAN]]
  /\ copyFingerprint \in Contents
  /\ delivered \in [Kinds -> Contents]
  /\ unannounced \in BOOLEAN
  /\ refused \in SUBSET Drafts
  /\ faults \in 0..MaxFaults
  /\ events \in [outside : 0..MaxEvents, edits : 0..MaxRevision]

-----------------------------------------------------------------------------
(* #draft(session): the recoverable record of a session state.             *)
DraftOf(r, d, s) == [rev |-> r.rev, review |-> r, dest |-> d, sync |-> s, at |-> FALSE]
Draft == DraftOf(review, dest, sync)

(* Mutant of TailFree: the commit barrier is not asked for.                *)
TailFreeDespiteBarrier == tail = "free"

(* #withSessionTail: one section at a time, and none while the outcome of  *)
(* an earlier commit is unknown.                                           *)
TailFree == tail = "free" /\ commit.kind = "none"

(* Two drafts of one state differ in acknowledgedAt at most.               *)
AtLess(draft) == [draft EXCEPT !.at = FALSE]

(* One of the bounded I/O failures, outside writes or edits happens.       *)
Fault == faults < MaxFaults /\ faults' = faults + 1
Outside == events.outside < MaxEvents /\ events' = [events EXCEPT !.outside = @ + 1]
MayEdit == events.edits < MaxRevision
AnEdit == events' = [events EXCEPT !.edits = @ + 1]

(* Recovery files after a persist() that throws: before, between or after  *)
(* its renames.                                                            *)
FailedWrites(d) == {store, Rotated(store), Published(store, d)}

(* A caller of persist() that keeps its memory when persist() throws.      *)
PersistPlain(d, success, failure) ==
  \/ /\ store' = Published(store, d)
     /\ UNCHANGED <<faults, refused>>
     /\ success
  \/ /\ Fault
     /\ store' \in FailedWrites(d)
     /\ refused' = IF store' = Published(store, d) THEN refused \cup {d} ELSE refused
     /\ failure

(* requestSave(): one requested bit and one drain for the session.         *)
Requested(s) ==
  [s EXCEPT !.requested = TRUE, !.pc = IF s.pc = "off" THEN "top" ELSE s.pc]

(* Mutant of Resumed: nobody listens.                                      *)
ResumedNever(s, phase) == s

(* The physical-save-resume listener: a pass for work that is not clean    *)
(* when no drain is running.                                               *)
Resumed(s, phase) ==
  IF s.pc = "off" /\ phase # "clean" THEN Requested(s) ELSE s

(* Admitting an observation: the newest sequence goes to it, which raises  *)
(* the physical-save barrier and outdates the inspection in progress.      *)
Raise(o) ==
  /\ obs' = [o EXCEPT !.physical = TRUE]
  /\ insp' = [insp EXCEPT !.newest = FALSE]
  /\ commit' = [commit EXCEPT !.newest = FALSE]
  /\ unannounced' = FALSE
Admit(reason) == Raise([obs EXCEPT !.wanted = reason])

Held == \E v \in Views : holds[v] # 0
=============================================================================
