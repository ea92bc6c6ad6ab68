-------------------------- MODULE JournalAdoption ---------------------------
(***************************************************************************)
(* A sibling process adopts the unsealed journal of its parent (runtime    *)
(* README, "branch scope"; JournalOptions.adopt).  The copying of the      *)
(* parent's files, without its lock, happens outside the repository's      *)
(* runtime; the parent may be at any point.  A sealed, locked or torn copy *)
(* is refused by Open and is not modelled.                                 *)
(***************************************************************************)
EXTENDS RequestDedup

(* The sibling's controller starts with nothing but the files.  Its        *)
(* journal is opened, and indexed, by the first Reserve.                   *)
Adopt(scope, epoch) ==
    /\ j.opened /\ ~j.sealed /\ j.adopt = 0
    /\ scope # j.scope
    /\ epoch <= j.epoch
    /\ j' = [EmptyJournal(scope) EXCEPT !.log = j.log, !.used = j.used, !.adopt = epoch]
    /\ hot' = NoHot /\ pending' = None /\ closing' = None
    /\ storageFault' = FALSE /\ recordingClosed' = FALSE

AdoptNext == Next \/ \E scope \in Scopes, epoch \in 1 .. MaxEpoch : Adopt(scope, epoch)

AdoptSpec == Init /\ [][AdoptNext]_vars

-----------------------------------------------------------------------------
(* "One ID must not mean two things inside one tree" (docs/                *)
(* runtime-protocol.md:166): two admissions of an ID in one epoch, in      *)
(* whatever branches, have the same content.                               *)
OneMeaning ==
    \A t, u \in Tokens(j) :
        IsReservation(j, t) /\ IsReservation(j, u)
        /\ j.log[t].id = j.log[u].id /\ j.log[t].epoch = j.log[u].epoch
        => j.log[t].body = j.log[u].body
=============================================================================
