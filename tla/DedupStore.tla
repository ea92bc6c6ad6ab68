----------------------------- MODULE DedupStore -----------------------------
(***************************************************************************)
(* What the runtime promises about request IDs (docs/runtime-protocol.md,  *)
(* "Long-session mutation deduplication" and "Branch scope"): inside one   *)
(* epoch an ID of a branch is bound once to one content, is answered once, *)
(* and every later retry is told that content and that answer.  An ID used *)
(* in two branches has the same content in both.  A new epoch forgets      *)
(* everything, but never while more than the advancement that it ends is   *)
(* still unanswered.                                                       *)
(***************************************************************************)
EXTENDS FiniteSets, Integers

CONSTANTS Ids, Payloads, Answers, NoAnswer, Scopes, None

VARIABLE table      \* [Scopes \X Ids -> what a retry is told]

Free == [payload |-> None, answer |-> NoAnswer]
Keys == Scopes \X Ids
Open(e) == e # Free /\ e.answer = NoAnswer
EmptyTable == [k \in Keys |-> Free]

Init == table = EmptyTable

(* One key may be bound, and open keys may be answered, in one step; an    *)
(* answer is final.                                                        *)
Forward(e, f) ==
    \/ f = e
    \/ e = Free /\ f.payload \in Payloads
    \/ Open(e) /\ f.payload = e.payload /\ f.answer \in Answers

OneMeaning(t) == \A s1, s2 \in Scopes, i \in Ids :
    t[s1, i] # Free /\ t[s2, i] # Free => t[s1, i].payload = t[s2, i].payload

Serve ==
    /\ \A k \in Keys : Forward(table[k], table'[k])
    /\ Cardinality({k \in Keys : table[k] = Free /\ table'[k] # Free}) <= 1
    /\ OneMeaning(table')

NewEpoch ==
    /\ Cardinality({k \in Keys : Open(table[k])}) <= 1
    /\ table' = EmptyTable

Next == Serve \/ NewEpoch

Spec == Init /\ [][Next]_table
=============================================================================
