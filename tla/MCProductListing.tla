-------------------------- MODULE MCProductListing --------------------------
(***************************************************************************)
(* Finite instances of ProductListing and of BidLadder, which share        *)
(* nothing.  The listing is checked with every request but those of a      *)
(* relist, and with every request but changes of price, whose values       *)
(* relisting does not look at.                                             *)
(***************************************************************************)
EXTENDS ProductListing, BidLadder, TLC

CONSTANTS t1, t2

VARIABLE scope

TwoRequests == {t1, t2}
RequestSymmetry == Permutations({t1, t2})

(* Below Rs. 120 the flat increment and the percentage meet (at Rs. 50)    *)
(* and the rounding to Rs. 5 bites hardest.                                *)
SmallBases == 1..120

Relisting(t) == thread[t].at \in {"saveCopy", "claim", "finishCopy", "deleteCopy"}
Repricing(t) == At(t, "idle") /\ thread'[t].row.basePrice # product.basePrice

MCInit ==
  /\ Init /\ current = 0
  /\ \/ scope \in {"prices", "relist"} /\ basePrice = 1
     \/ scope = "ladder" /\ LadderInit /\ product = NewProduct(0)

MCNext ==
  /\ \/ /\ scope # "ladder" /\ Next /\ UNCHANGED ladderVars
        /\ scope = "prices" => \A t \in Threads : ~Relisting(t)'
        /\ scope = "relist" => \A t \in Threads : thread'[t] # Idle => ~Repricing(t)
     \/ scope = "ladder" /\ LadderNext /\ UNCHANGED vars
  /\ UNCHANGED scope

MCSpec == MCInit /\ [][MCNext]_<<vars, ladderVars, scope>>
=============================================================================
