------------------------------ MODULE MCBoosts ------------------------------
(***************************************************************************)
(* Finite instances of Boosts.                                             *)
(***************************************************************************)
EXTENDS Boosts

CONSTANTS t1, t2

TwoCalls == {t1, t2}
=============================================================================
