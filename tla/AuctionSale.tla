---------------------------- MODULE AuctionSale -----------------------------
(***************************************************************************)
(* What the auction service promises, without bids, prices, deadlines or   *)
(* database rows: a lot is open to everybody, may be paused for one buyer  *)
(* at a time, is then offered to bidders one after another, at most        *)
(* MaxOffers of them and nobody twice, and ends sold or unsold.            *)
(***************************************************************************)
EXTENDS Naturals, FiniteSets

CONSTANTS Buyers, NoBuyer, MaxOffers

VARIABLES phase,    \* "open", "paused", "offered", "sold" or "unsold"
          bidders,  \* who has bid
          barred,   \* who let a pause lapse and gets no other one
          offered,  \* who was offered the lot after bidding closed
          holder    \* whose turn it is to pay, or who has bought

vars == <<phase, bidders, barred, offered, holder>>

Init ==
  /\ phase = "open"
  /\ bidders = {} /\ barred = {} /\ offered = {}
  /\ holder = NoBuyer

EnterBid(u) ==
  /\ phase = "open"
  /\ bidders' = bidders \cup {u}
  /\ UNCHANGED <<phase, barred, offered, holder>>

Pause(u) ==
  /\ phase = "open"
  /\ u \notin barred
  /\ phase' = "paused"
  /\ holder' = u
  /\ UNCHANGED <<bidders, barred, offered>>

(* The pause ends: lapsed, which bars its buyer, or aborted, which doesn't. *)
Resume ==
  /\ phase = "paused"
  /\ phase' = "open"
  /\ barred' \in {barred, barred \cup {holder}}
  /\ holder' = NoBuyer
  /\ UNCHANGED <<bidders, offered>>

(* Bidding closes and a bidder is offered the lot, or the bidder whose     *)
(* turn it was has not paid and another one is.                            *)
Offer(u) ==
  /\ phase \in {"open", "offered"}
  /\ u \in bidders \ offered
  /\ Cardinality(offered) < MaxOffers
  /\ phase' = "offered"
  /\ offered' = offered \cup {u}
  /\ holder' = u
  /\ UNCHANGED <<bidders, barred>>

GiveUp ==
  /\ phase = "offered"
  /\ Cardinality(offered) = MaxOffers \/ bidders = offered
  /\ phase' = "unsold"
  /\ barred' = {}
  /\ holder' = NoBuyer
  /\ UNCHANGED <<bidders, offered>>

Sell ==
  /\ phase \in {"paused", "offered"}
  /\ phase' = "sold"
  /\ barred' = {}
  /\ UNCHANGED <<bidders, offered, holder>>

(* Only a sale that came out of an offer can be refused at the door.       *)
Refuse ==
  /\ phase = "sold"
  /\ holder \in offered
  /\ phase' = "unsold"
  /\ holder' = NoBuyer
  /\ UNCHANGED <<bidders, barred, offered>>

Next ==
  \/ \E u \in Buyers : EnterBid(u) \/ Pause(u) \/ Offer(u)
  \/ Resume
  \/ GiveUp
  \/ Sell
  \/ Refuse

Spec == Init /\ [][Next]_vars
=============================================================================
