--------------------------- MODULE MCPlanMailbox ----------------------------
(***************************************************************************)
(* Small instances of PlanMailbox for TLC.                                 *)
(***************************************************************************)
EXTENDS PlanMailbox, TLC

CONSTANTS s1, s2, t1, t2, t3

\* s2 continues s1; the turns of each.
Rotation == s1 :> NoSession @@ s2 :> s1
ThreeTurns == t1 :> s1 @@ t2 :> s2 @@ t3 :> s2

\* One session with one turn.
Alone == s1 :> NoSession
OneTurn == t1 :> s1

Symmetry == Permutations(Provider) \cup Permutations(Worker)
=============================================================================
