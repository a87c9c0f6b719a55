------------------------- MODULE MCAuctionLifecycle -------------------------
(***************************************************************************)
(* Finite instances of AuctionLifecycle.  The clock matters to what the    *)
(* countdown and the deadlines may do, for which three bidders and four    *)
(* bids are enough; the cascade needs one bidder more than it has turns,   *)
(* one of whom bids twice, but no cron that comes late and no second hold. *)
(***************************************************************************)
EXTENDS AuctionRefinement, TLC

CONSTANTS o, u1, u2, u3, u4

VARIABLE scope

FourBidders == {o, u1, u2, u3, u4}

(* Bidders are interchangeable; the owner is not one of them.              *)
BidderSymmetry == Permutations({u1, u2, u3, u4})

FewBids == Cardinality(rows) <= 4 /\ Cardinality({bid[b].bidder : b \in rows}) <= 3

NothingIsLate == endsIn >= 0 /\ dueIn >= 0

OneHoldOnRecord == Cardinality({b \in rows : bid[b].isInstantBuy}) <= 1

MCInit == Init /\ scope \in {"clock", "cascade"}

MCNext ==
  /\ Next
  /\ IF scope = "clock" THEN FewBids' ELSE (NothingIsLate /\ OneHoldOnRecord)'
  /\ UNCHANGED scope

MCSpec == MCInit /\ [][MCNext]_<<vars, scope>>
=============================================================================
