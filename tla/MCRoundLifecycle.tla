-------------------------- MODULE MCRoundLifecycle --------------------------
(* Instances of RoundLifecycle for TLC. *)
EXTENDS RoundLifecycle
CONSTANTS r1, r2, p1, p2

OneRound  == {r1}
TwoRounds == {r1, r2}
NoneOfThem == {}
FirstRound == {r1}
OnePolicy == {p1}
TwoPolicies == {p1, p2}
=============================================================================
