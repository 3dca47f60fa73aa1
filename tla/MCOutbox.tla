------------------------------ MODULE MCOutbox ------------------------------
(***************************************************************************)
(* Small instances of Outbox for TLC.                                      *)
(***************************************************************************)
EXTENDS Outbox, TLC

CONSTANTS p1, p2, g1, g2, pol, d1, d2, d3, t1, t2

\* Text configurations for two destinations.
TwoTargets == {[target |-> g, policy |-> NoPolicy] : g \in {g1, g2}}
OneTarget == {[target |-> g1, policy |-> NoPolicy]}
\* One destination, with the multimodal policy on or off.
PolicySwitch == {[target |-> g1, policy |-> q] : q \in {pol, NoPolicy}}

TwoTurns == t1 :> {d1, d2} @@ t2 :> {d3}
BothText == t1 :> "v2" @@ t2 :> "v2"
LegacyAndBinary == t1 :> "v1" @@ t2 :> "mm"
OneTurn == t1 :> {d1, d2}
OneText == t1 :> "v2"
RankOf == d1 :> 2 @@ d2 :> 3 @@ d3 :> 1
SizeOf == d1 :> 2 @@ d2 :> 1 @@ d3 :> 1

ProcSymmetry == Permutations(Proc)

\* min(2^(n - 1), 2): _retry_delay_seconds with initial 1 and maximum 2.
Delay(n) == IF n <= 1 THEN 1 ELSE 2
=============================================================================
