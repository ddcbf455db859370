----------------------------- MODULE Published -----------------------------
(***************************************************************************)
(* What the share files promise, without how they come about.  The         *)
(* database is a counter of changes; each file shows it as it was after    *)
(* some change.  A file may lag behind, but it never goes back to an older  *)
(* list, and never shows a change that has not been made.                   *)
(***************************************************************************)
EXTENDS Naturals

CONSTANT Files

VARIABLES made,  \* changes made to the table so far
          shown  \* per file, the number of changes its content shows

Init == /\ made \in Nat
        /\ shown \in [Files -> {made}]

Change == /\ made' = made + 1
          /\ UNCHANGED shown

Write(f) == /\ \E v \in shown[f] .. made : shown' = [shown EXCEPT ![f] = v]
            /\ UNCHANGED made

Next == Change \/ \E f \in Files : Write(f)

Spec == Init /\ [][Next]_<<made, shown>>
============================================================================
