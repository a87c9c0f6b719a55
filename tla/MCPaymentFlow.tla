--------------------------- MODULE MCPaymentFlow ----------------------------
(***************************************************************************)
(* Finite instances of PaymentFlow.                                        *)
(***************************************************************************)
EXTENDS PaymentFlow

CONSTANTS t1, t2

TwoCalls == {t1, t2}
=============================================================================
