------------------------- MODULE LifecycleEvidence ------------------------
(***************************************************************************)
(* The offline validator of lifecycle evidence (lifecycle_events.py), as   *)
(* operators over what it reads in an audit directory, a "view":           *)
(*   declared    the manifest declares the capability                      *)
(*   enabled     ... and enables it                                        *)
(*   records     complete lines of lifecycle-events.jsonl                  *)
(*   torn        a partial line follows them                               *)
(*   notes       lifecycle kinds in events.jsonl                           *)
(*   block       the manifest's lifecycle_probes block                     *)
(*   receipt     the close receipt, or {}                                  *)
(* A digest is modelled by the contents it is the digest of.               *)
(***************************************************************************)
EXTENDS LifecycleEvents, SequencesExt

CONSTANTS DepthLimit   \* deepest nesting of initializers the hook supports

MaybeMode(v) ==
    IF ~v.declared THEN "unavailable" ELSE IF ~v.enabled THEN "disabled" ELSE "enabled"

\* A reader may see a prefix, and a partial last line, of a stream that is
\* still being written.
LivePrefix(v, requireClose) == ~requireClose /\ v.receipt = {}

----------------------------------------------------------------------------
(* One record *)

VersionFits(e) ==
    IF e.when = "controlled_boundary" THEN e.ver > 0
    ELSE e.when \in {"initialization", "uncontrolled_update"} /\ e.ver = 0

InvocationFits(e) ==
    /\ e.inv > 0
    /\ e.depth >= 0
    /\ IF e.depth = 0 THEN e.parent = 0 ELSE e.parent > 0 /\ e.parent < e.inv

\* The frozen sites: what each kind of store writes.
SiteFits(e) ==
    \/ e.kind = "phase" /\ e.after \in {1, 2, 3}
    \/ e.kind = "removal" /\ e.after = 1
    \/ e.kind = "candidate"
    \/ e.kind = "commit" /\ e.ref > 0

ProbeEventFits(e) ==
    /\ e.when \in {"controlled_boundary", "uncontrolled_update"}
    /\ e.z[2] > 0                 \* generation 0 is a free slot
    /\ SiteFits(e)

EventFits(e) ==
    /\ e.seq > 0
    /\ VersionFits(e)
    /\ IF e.kind = "init" THEN InvocationFits(e) ELSE ProbeEventFits(e)

\* Mutant: the record's own number is not compared with its place.
UnnumberedEnvelopes(records, session) ==
    \A i \in 1..Len(records) : records[i].session = session /\ EventFits(records[i].event)

EnvelopesFit(records, session) ==
    \A i \in 1..Len(records) :
        /\ records[i].fileSeq = i - 1
        /\ records[i].session = session
        /\ EventFits(records[i].event)

----------------------------------------------------------------------------
(* The stream *)

SequencesRise(events) ==
    \A i \in 1..(Len(events) - 1) : events[i].seq < events[i + 1].seq

\* Exits in file order pop a stack of entries numbered 1, 2, ...; a closed
\* stream holds every entry, a live one may still owe some ancestors.
Exited(was, x) ==
    LET entered == [k \in 1..(IF x.inv >= was.next THEN x.inv - was.next + 1 ELSE 0) |-> was.next + k - 1]
        open == was.open \o entered
    IN  IF /\ was.ok
           /\ open # <<>> /\ Len(open) <= DepthLimit
           /\ Last(open) = x.inv
           /\ x.depth = Len(open) - 1
           /\ x.parent = (IF Len(open) > 1 THEN open[Len(open) - 1] ELSE 0)
        THEN [open |-> Front(open), next |-> was.next + Len(entered), ok |-> TRUE]
        ELSE [was EXCEPT !.ok = FALSE]

\* The initializers still open after each event.
Nested(events) ==
    LET after[i \in 0..Len(events)] ==
            IF i = 0 THEN [open |-> <<>>, next |-> 1, ok |-> TRUE]
            ELSE IF events[i].kind = "init" THEN Exited(after[i - 1], events[i])
            ELSE after[i - 1]
    IN  after

NestingFits(events, strict) ==
    LET exits == {i \in 1..Len(events) : events[i].kind = "init"}
        end == Nested(events)[Len(events)]
    IN  /\ \A i, j \in exits : events[i].inv = events[j].inv => i = j
        /\ strict => {events[i].inv : i \in exits} = 1..Cardinality(exits)
        /\ end.ok
        /\ strict => end.open = <<>>

\* A recycled slot's commit refers to one earlier candidate of the same
\* zombie; a candidate of a closed stream has its commit.
PairsFit(events, live) ==
    LET n == Len(events)
        Candidates(i) == {j \in 1..(i - 1) : events[j].kind = "candidate" /\ events[j].seq = events[i].ref}
        commits == {i \in 1..n : events[i].kind = "commit"}
    IN  /\ \A i \in commits : \E j \in Candidates(i) : events[j].z = events[i].z
        /\ \A i, j \in commits : events[i].ref = events[j].ref => i = j
        /\ live \/ \A j \in 1..n : events[j].kind = "candidate" => \E i \in commits : events[i].ref = events[j].seq

\* The lifecycle_probes block must have its final members even when the
\* stream is read live; their values count only when it is closed.
ProbeContract(v, live) ==
    LET events == Events(v.records)
        stores == {i \in 1..Len(events) : events[i].kind # "init"}
    IN IF ~v.block.enabled THEN stores = {}
       ELSE /\ v.block.final
            /\ live \/ v.block.healthy
            /\ PairsFit(events, live)

ScanFits(v) ==
    v.notes \cap {"spawn_hook_fault", "lifecycle_probe_fault", "spawn_closed_unhealthy"} = {}

\* The receipt counts and hashes the bytes and the manifest that are read,
\* and was written by a healthy capture of this session.
ReceiptBinds(v, r) ==
    /\ r.session = v.session
    /\ r.records = v.records
    /\ r.block = v.block
    /\ r.healthy

\* With the probes it carries their last health, which the manifest repeats.
ProbeReceiptBinds(v, r) == ReceiptBinds(v, r) /\ r.healthy = v.block.healthy

\* ... and which the audit told when the probes were closed.
HealthTold(v, r) ==
    /\ v.notes \cap {"probes_closed", "probes_closed_unhealthy"} # {}
    /\ r.healthy = ("probes_closed" \in v.notes)

ReceiptFits(v) ==
    \A r \in v.receipt :
        IF v.block.enabled THEN ProbeReceiptBinds(v, r) /\ HealthTold(v, r) ELSE ReceiptBinds(v, r)

\* Every record, the capability and the receipt belong to one session.
IdentitiesFit(v) ==
    \A i \in 1..Len(v.records) :
        /\ v.records[i].session = v.records[1].session
        /\ \A r \in v.receipt : v.records[1].session = r.session

ReadValidation(v, requireClose) ==
    LET live == LivePrefix(v, requireClose)
        fits == /\ v.torn => live
                /\ EnvelopesFit(v.records, v.session)
                /\ IdentitiesFit(v)
                /\ SequencesRise(Events(v.records))
                /\ NestingFits(Events(v.records), ~live)
                /\ ProbeContract(v, live)
                /\ ScanFits(v)
                /\ ReceiptFits(v)
    IN  IF ~fits \/ (v.receipt = {} /\ requireClose) THEN "failed"
        ELSE IF v.receipt = {} THEN "open" ELSE "valid"

\* Without the capability there must be no lifecycle file at all.
Validate(v, requireClose) ==
    IF MaybeMode(v) # "enabled"
    THEN IF v.records # <<>> \/ v.torn \/ v.receipt # {} THEN "failed" ELSE MaybeMode(v)
    ELSE ReadValidation(v, requireClose)
=============================================================================
