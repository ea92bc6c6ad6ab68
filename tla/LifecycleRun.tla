---------------------------- MODULE LifecycleRun --------------------------
(***************************************************************************)
(* A recorded run, the validator that reads its evidence while it is being *)
(* written, after a crash or when it is closed, and the first-kill report. *)
(***************************************************************************)
EXTENDS LifecycleCapture, LifecycleEvidence, LifecycleReport

\* The validator follows initializers as deep as the hook does (32 in both).
ASSUME DepthAssumption == DepthLimit \in Nat /\ NestLimit <= DepthLimit

Spec == Init /\ [][CaptureStep]_vars

----------------------------------------------------------------------------
(* What a reader may find *)

\* One line of the stream damaged: lost, doubled, swapped with the next, or
\* taken from another session.
Harmed(lines, harm, i) ==
    CASE harm = "none" -> lines
      [] harm = "lost" -> SubSeq(lines, 1, i - 1) \o SubSeq(lines, i + 1, Len(lines))
      [] harm = "doubled" -> SubSeq(lines, 1, i) \o SubSeq(lines, i, Len(lines))
      [] harm = "swapped" -> IF i = Len(lines) THEN lines
                             ELSE SubSeq(lines, 1, i - 1) \o <<lines[i + 1], lines[i]>>
                                  \o SubSeq(lines, i + 2, Len(lines))
      [] harm = "alien" -> [lines EXCEPT ![i].session = Session + 1]

View(lines, torn) ==
    [declared |-> TRUE, enabled |-> TRUE, session |-> Session, records |-> lines, torn |-> torn,
     notes |-> notes, block |-> block, receipt |-> receipt]

\* Before the receipt a reader may see any flushed prefix, and part of the
\* line that follows it; a crash leaves the same.
Seen == IF receipt # {} THEN {written} ELSE {SubSeq(written, 1, n) : n \in 0..Len(written)}
Torn == IF receipt # {} THEN {FALSE} ELSE BOOLEAN

----------------------------------------------------------------------------
(* Properties *)

\* Evidence is whole: whatever one line of the stream suffers, the validator
\* calls it "open" only when what is read is a prefix of what was recorded, and
\* "valid" only when it is every record of every hooked store and birth, none
\* lost to a full queue or an unreadable zombie.
EvidenceWhole ==
    \A lines \in Seen, harm \in {"none", "lost", "doubled", "swapped", "alien"} :
        \A i \in IF harm = "none" THEN {1} ELSE 1..Len(lines) :
            \E read \in {Harmed(lines, harm, i)} :
                \E status \in {Validate(View(read, FALSE), FALSE)} :
                    /\ status = "open" => IsPrefix(read, written)
                    /\ status = "valid" => read = written /\ Len(written) = due

\* No false alarm: a run whose capture met no fault is never refused.  A reader
\* of its unfinished stream finds it open as long as no probes are installed
\* (with probes the unfinished manifest itself is a refusal), and the closed
\* stream is valid.
NoFalseRefusal ==
    faults = {} =>
        /\ receipt = {} /\ ~probes =>
             \A lines \in Seen, torn \in Torn : Validate(View(lines, torn), FALSE) = "open"
        /\ phase = "closed" => Validate(View(written, FALSE), TRUE) = "valid"

Anchor == InitialAnchor(frames, initial)
End == WindowEnd(frames, Anchor, ending)
\* Deaths and removals of zombies on the board, between the window's frames.
InWindow(i) ==
    /\ truth[i].play
    /\ \E a \in Anchor, b \in End : truth[i].at \in a..(b - 1)
First == {i \in 1..Len(truth) : InWindow(i) /\ \A j \in 1..(i - 1) : ~InWindow(j)}

\* A proven first kill is real: the named zombie was killed in the window, and
\* no zombie on the board was killed, or removed without a known cause, before.
FirstKillReal ==
    receipt # {} =>
        \A k \in ReportedKill(Validate(View(written, FALSE), FALSE), written, block, frames, initial, ending) :
            /\ First # {}
            /\ \A i \in First : truth[i].kill /\ truth[i].z = k.z

\* Report r has the i-th loss: as an unknown removal, or as a death, confirmed
\* if the frame before it shows a phase a death is believed from.
Noted(r, i) ==
    LET phaseBefore == frames[truth[i].at].pool[truth[i].z[1]].stage
    IN  truth[i].z \in r.unknown \cup (IF phaseBefore \in KnownNonDead THEN r.confirmed ELSE r.deaths)

\* The boundary report tells every zombie alive on the board at the window's
\* start that died or was removed in it, whatever phases it went through, as an
\* unknown removal or an observed death, confirmed when the frame before shows
\* it in a known phase; it confirms only real kills of the window; and it
\* accounts for all who left the pool.
BoundaryTold ==
    End # {} =>
        \E window \in {WindowFrames(frames, Anchor, End)} :
            \E r \in {AnalyzeSnapshots(window)} :
                /\ ~r.problem
                /\ r.confirmed \subseteq r.deaths
                /\ \A z \in r.confirmed : \E i \in 1..Len(truth) : InWindow(i) /\ truth[i].z = z /\ truth[i].kill
                /\ \A i \in 1..Len(truth) :
                     InWindow(i) /\ truth[i].z \in DOMAIN Snapshot(window[1]) \ r.residue
                         => Noted(r, i)
                /\ (UNION {DOMAIN Snapshot(window[k]) : k \in 1..Len(window)}) \ DOMAIN Snapshot(Last(window))
                     \subseteq r.removed \cup r.residue
=============================================================================
