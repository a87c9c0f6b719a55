---------------------------- MODULE MCFulfilment ----------------------------
(***************************************************************************)
(* Finite instances of Fulfilment.                                         *)
(***************************************************************************)
EXTENDS Fulfilment

CONSTANTS t1, t2

TwoCalls == {t1, t2}
=============================================================================
