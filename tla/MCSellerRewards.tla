-------------------------- MODULE MCSellerRewards ---------------------------
(***************************************************************************)
(* Two users who have sold to each other, and three bands a sale or an     *)
(* adjustment moves a seller between.                                      *)
(***************************************************************************)
EXTENDS SellerRewards, TLC

CONSTANTS t1, t2

ThreeSales == {1, 2, 3}
Buyers == <<1, 2, 1>>
Sellers == <<2, 1, 2>>
Points == <<1, 1, 2>>
ThreeBands == <<0, 1, 3>>
TwoTransactions == {t1, t2}
TransactionSymmetry == Permutations({t1, t2})
=============================================================================
