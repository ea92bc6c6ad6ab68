-------------------------- MODULE LifecycleReport -------------------------
(***************************************************************************)
(* What lifecycle_report.py derives from a run: the boundary report over   *)
(* the audited frames (analyze_snapshots) and the first kill over the      *)
(* captured records (analyze_capture_facts), both scoped to the window the *)
(* experiment froze (report_for_run).                                      *)
(***************************************************************************)
EXTENDS LifecycleEvents, SequencesExt

DeathStages == {1, 2, 3}
KnownNonDead == {0, 11, 15, 20, 69, 70, 71, 73, 76}   \* phases a kill is believed from

----------------------------------------------------------------------------
(* Boundary report *)

\* The allocated zombies of a frame, by identity.
Snapshot(frame) ==
    LET held == {s \in DOMAIN frame.pool : frame.pool[s].used}
    IN  [z \in {<<s, frame.pool[s].gen>> : s \in held} |-> frame.pool[z[1]]]

\* Mutant: a death stage already seen at the last boundary counts again.
DeadAgain(found, before, now, first) ==
    LET known == DOMAIN now \cap DOMAIN before
        released == DOMAIN before \ DOMAIN now
    IN [found EXCEPT !.confirmed = @ \cup {z \in known : now[z].stage \in DeathStages /\ before[z].play},
                     !.removed = @ \cup released,
                     !.unknown = @ \cup released \cup {z \in known : now[z].gone},
                     !.retired = @ \cup released]

\* A boundary's effect on what the report has found so far.
Boundary(found, before, now, first) ==
    LET here == DOMAIN now
        known == DOMAIN before
        Dead(state) == state.stage \in DeathStages
        residue == IF first THEN {z \in here : now[z].gone \/ Dead(now[z]) \/ ~now[z].play} ELSE found.residue
        deaths == {z \in here : Dead(now[z]) /\ (z \in known => ~Dead(before[z]))}
        confirmed == {z \in deaths \cap known :
                         /\ before[z].stage \in KnownNonDead /\ ~before[z].gone
                         /\ before[z].play /\ now[z].play}
        allConfirmed == found.confirmed \cup confirmed
        flagged == {z \in here \cap known : ~before[z].gone /\ now[z].gone}
        released == (known \ here) \ residue
    IN [residue |-> residue,
        deaths |-> found.deaths \cup deaths,
        confirmed |-> allConfirmed,
        removed |-> found.removed \cup released,
        flagged |-> found.flagged \cup flagged,
        unknown |-> found.unknown \cup ((flagged \cup released) \ allConfirmed),
        retired |-> found.retired \cup (known \ here),
        reused |-> found.reused \cup {z \in here : \E y \in known : y[1] = z[1] /\ y # z},
        problem |-> found.problem \/ here \cap found.retired # {}]

NothingFound ==
    [residue |-> {}, deaths |-> {}, confirmed |-> {}, removed |-> {}, flagged |-> {},
     unknown |-> {}, retired |-> {}, reused |-> {}, problem |-> FALSE]

\* What is found after each boundary of the window.
Findings(window) ==
    LET after[i \in 0..Len(window)] ==
            IF i = 0 THEN NothingFound
            ELSE Boundary(after[i - 1], IF i = 1 THEN <<>> ELSE Snapshot(window[i - 1]),
                          Snapshot(window[i]), i = 1)
    IN  after

AnalyzeSnapshots(window) == Findings(window)[Len(window)]

----------------------------------------------------------------------------
(* Captured facts *)

TimeScope(ver, w) ==
    IF w = {} THEN "undeclared"
    ELSE IF ver = 0 THEN "uncontrolled"
    ELSE IF \E b \in w : ver < b[1] THEN "before"
    ELSE IF \E b \in w : ver > b[2] THEN "after" ELSE "inside"

\* What is known of a zombie before its fact: an earlier initialization, or
\* its state at the window's first boundary.
Predecessor(z, born, residue) ==
    IF z \in born THEN "initialization"
    ELSE IF z \notin DOMAIN residue THEN "unknown_predecessor"
    ELSE IF residue[z].gone \/ residue[z].stage \in DeathStages THEN "initial_residue_doomed"
    ELSE "initial_residue"

ClassOf(e, dying) ==
    CASE e.kind = "phase" ->
           IF ~e.play THEN "phase_unclassified"
           ELSE IF e.before \in DeathStages THEN "already_dying"
           ELSE IF e.z \in dying THEN "death_after_dying" ELSE "confirmed_death_stage"
      [] e.kind = "removal" ->
           IF e.z \in dying THEN "removal_after_death"
           ELSE IF e.chain /\ e.before = 0 /\ e.play THEN "confirmed_death_path" ELSE "removal_unclassified"
      [] OTHER -> e.kind

Deaths == {"confirmed_death_stage", "confirmed_death_path"}

\* A fact, with what the facts before it tell of its zombie.
Classified(e, was, residue, w) ==
    LET class == ClassOf(e, was.dying)
    IN  [z |-> e.z, seq |-> e.seq, kind |-> e.kind, class |-> class, play |-> e.play,
         time |-> TimeScope(e.ver, w), pred |-> Predecessor(e.z, was.born, residue),
         missed |-> /\ class = "already_dying" /\ e.z \notin was.dying
                    /\ IF e.z \in DOMAIN residue
                       THEN ~residue[e.z].gone /\ residue[e.z].stage \notin DeathStages
                       ELSE TRUE]

Learnt(was, e, residue, w) ==
    LET fact == Classified(e, was, residue, w)
    IN  IF e.kind = "init" THEN [was EXCEPT !.born = @ \cup {e.z}]
        ELSE [dying |-> was.dying \cup (IF fact.class \in Deaths \cup {"already_dying"} THEN {e.z} ELSE {}),
              born |-> was.born,
              facts |-> Append(was.facts, fact)]

\* What is known after each captured record.
Knowledge(es, residue, w) ==
    LET past[i \in 0..Len(es)] ==
            IF i = 0 THEN [dying |-> {}, born |-> {}, facts |-> <<>>]
            ELSE Learnt(past[i - 1], es[i], residue, w)
    IN  past

\* The classified facts, in capture order.
Facts(records, residue, w) ==
    LET es == InOrder(Events(records))
    IN  Knowledge(es, residue, w)[Len(es)].facts

\* What capture coverage must show before a first kill may be claimed.
Prerequisites(c) ==
    /\ c.receiptValid /\ c.probes /\ c.fullWindow /\ c.healthy

\* Mutant: doubts that come before the first confirmed death do not block it.
BoldKill(records, c) ==
    LET facts == Facts(records, c.residue, c.window)
        confirmed == {i \in 1..Len(facts) : facts[i].play /\ facts[i].time = "inside" /\ facts[i].class \in Deaths}
    IN  {facts[i] : i \in {k \in confirmed : Prerequisites(c) /\ \A j \in confirmed : k <= j}}

\* The first kill proven by the facts, or {}.
FirstKill(records, c) ==
    LET facts == Facts(records, c.residue, c.window)
        gameplay == {i \in 1..Len(facts) : facts[i].play}
        proof == {i \in gameplay : facts[i].time = "inside"}
        uncontrolled == {i \in gameplay :
                            /\ facts[i].time = "uncontrolled"
                            /\ \/ facts[i].kind = "removal"
                               \/ facts[i].class \in Deaths \cup {"death_after_dying", "already_dying", "phase_unclassified"}}
        confirmed == {i \in proof : facts[i].class \in Deaths}
        doubtful == {i \in confirmed : facts[i].pred \in {"unknown_predecessor", "initial_residue_doomed"}}
        unknown == doubtful
                   \cup {i \in proof : facts[i].class \in {"removal_unclassified", "phase_unclassified"}}
                   \cup {i \in proof : facts[i].missed}
                   \cup uncontrolled
        candidates == confirmed \ doubtful
        first == {i \in candidates : \A j \in candidates : i <= j}
    IN {facts[i] : i \in {k \in first : /\ Prerequisites(c)
                                        /\ uncontrolled = {}
                                        /\ \A j \in unknown : facts[j].seq >= facts[k].seq}}

----------------------------------------------------------------------------
(* The window *)

\* The first audited boundary with the version and the exact state of the
\* captured initial boundary: at most one index.
InitialAnchor(frames, initial) ==
    LET fits == {i \in 1..Len(frames) : initial = {frames[i]}}
    IN  {i \in fits : \A j \in fits : i <= j}

\* The last boundary at the executed endpoint's version, not before the anchor.
WindowEnd(frames, anchor, ending) ==
    LET fits == {i \in 1..Len(frames) : frames[i].ver = ending /\ \E a \in anchor : i >= a}
    IN  {i \in fits : \A j \in fits : i >= j}

\* The audited stream holds the captured initial boundary and ends, in order,
\* at the executed endpoint.
FullWindow(frames, anchor, ending) ==
    /\ anchor # {}
    /\ ending # 0
    /\ Last(frames).ver = ending
    /\ \A a \in anchor : frames[a].ver <= ending

\* The frames the report is about; everything when there is no anchor.
WindowFrames(frames, anchor, end) ==
    IF anchor = {} THEN frames
    ELSE LET a == CHOOSE a \in anchor : TRUE
             b == IF end = {} THEN Len(frames) ELSE CHOOSE e \in end : TRUE
         IN  SubSeq(frames, a, b)

\* report_for_run with a bound plan: the first kill it claims, given the
\* validator's verdict.
ReportedKill(status, records, block, frames, initial, ending) ==
    LET anchor == InitialAnchor(frames, initial)
        end == WindowEnd(frames, anchor, ending)
        window == WindowFrames(frames, anchor, end)
    IN FirstKill(records,
         [receiptValid |-> status = "valid",
          probes |-> block.enabled,
          healthy |-> block.healthy,
          fullWindow |-> FullWindow(frames, anchor, ending),
          residue |-> IF window = <<>> THEN <<>> ELSE Snapshot(window[1]),
          window |-> IF anchor = {} \/ end = {} THEN {}
                     ELSE {<<frames[a].ver, frames[b].ver>> : a \in anchor, b \in end}])
=============================================================================
