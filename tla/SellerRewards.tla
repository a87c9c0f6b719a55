--------------------------- MODULE SellerRewards ----------------------------
(***************************************************************************)
(* Points, tiers and the seller's share: RewardsService.  An admin who has *)
(* paid a seller marks the sale paid, which credits buyer and seller; an   *)
(* admin may also adjust a balance by hand.                                *)
(*                                                                         *)
(* Each is a transaction that locks the user_rewards rows it changes until *)
(* it commits.  A row that does not exist yet is inserted; the insert of   *)
(* another transaction makes it wait too, and fail when that one commits.  *)
(***************************************************************************)
EXTENDS Integers, Sequences, FiniteSetsExt

CONSTANTS User,             \* ids, ordered as the strings are
          Sale,             \* payments that are SUCCESS
          buyer, seller,    \* the two parties of each sale
          PointsOf,         \* round(0.01 * amount) of each sale
          BandMins,         \* the `min` of each of COMMISSION_BANDS
          Threads,          \* connections of the pool, one transaction each
          MaxAdjustments    \* bound of the instance

ASSUME RewardsAssumption ==
  /\ User \subseteq Int
  /\ buyer \in [Sale -> User] /\ seller \in [Sale -> User]
  /\ PointsOf \in [Sale -> Nat]
  /\ BandMins \in Seq(Nat) /\ BandMins # <<>> /\ BandMins[1] = 0
  /\ \A i, j \in DOMAIN BandMins : i < j => BandMins[i] < BandMins[j]
  /\ IsFiniteSet(Threads)
  /\ MaxAdjustments \in Nat

VARIABLES
  rewards,       \* user_rewards, committed; NoRow before the first event
  ledger,        \* points_transactions
  sellerPaid,    \* the sales with sellerPaidAt set
  priced,        \* the band each paid sale's payout was computed with
  thread,        \* transactions in progress
  adjustments    \* bounds the manual ones

vars == <<rewards, ledger, sellerPaid, priced, thread, adjustments>>

NoRow == [exists |-> FALSE, buyerPoints |-> 0, sellerPoints |-> 0, tier |-> 1]
Idle == [at |-> "idle", sale |-> 0, entries |-> <<>>, locks |-> <<>>,
         held |-> {}, row |-> [u \in User |-> NoRow]]

(* resolveTierAndCommission: the last band whose min is reached; a balance *)
(* an admin has made negative stays in the first.                          *)
Band(points) == Max({1} \cup {i \in DOMAIN BandMins : BandMins[i] <= points})

TypeOK ==
  /\ \A u \in User : /\ rewards[u].exists \in BOOLEAN
                     /\ rewards[u].buyerPoints \in Int
                     /\ rewards[u].sellerPoints \in Int
                     /\ rewards[u].tier \in DOMAIN BandMins
  /\ \A i \in DOMAIN ledger : ledger[i].user \in User
  /\ sellerPaid \subseteq Sale
  /\ priced \in [Sale -> 0..Len(BandMins)]
  /\ \A t \in Threads : thread[t].at \in {"idle", "lock", "insert", "commit"}
  /\ adjustments \in 0..MaxAdjustments

Init ==
  /\ rewards = [u \in User |-> NoRow]
  /\ ledger = <<>>
  /\ sellerPaid = {}
  /\ priced = [s \in Sale |-> 0]
  /\ thread = [t \in Threads |-> Idle]
  /\ adjustments = 0

-----------------------------------------------------------------------------
Entry(u, type, delta, sale) ==
  [user |-> u, type |-> type, delta |-> delta, sale |-> sale]
LockedByOther(t, u) == \E o \in Threads \ {t} : u \in thread[o].held

(* Mutant of LockOrder: the buyer first.                                   *)
BuyerFirst(s) == <<buyer[s], seller[s]>>

LockOrder(s) ==
  IF buyer[s] < seller[s] THEN <<buyer[s], seller[s]>>
                          ELSE <<seller[s], buyer[s]>>

(* The payment row is read without a lock.                                 *)
MarkSellerPaid(t, s) ==
  /\ thread[t].at = "idle"
  /\ s \notin sellerPaid
  /\ thread' = [thread EXCEPT ![t] =
       [Idle EXCEPT !.at = "lock", !.sale = s, !.locks = LockOrder(s),
          !.entries = <<Entry(buyer[s], "BUYER", PointsOf[s], s),
                        Entry(seller[s], "SELLER", PointsOf[s], s)>>]]
  /\ UNCHANGED <<rewards, ledger, sellerPaid, priced, adjustments>>

AdjustPoints(t, u, type, delta) ==
  /\ thread[t].at = "idle"
  /\ adjustments < MaxAdjustments
  /\ adjustments' = adjustments + 1
  /\ thread' = [thread EXCEPT ![t] =
       [Idle EXCEPT !.at = "lock", !.locks = <<u>>,
          !.entries = <<Entry(u, type, delta, 0)>>]]
  /\ UNCHANGED <<rewards, ledger, sellerPaid, priced>>

Wanted(t) == Head(thread[t].locks)
Take(t) ==
  LET u == Wanted(t) IN
    thread' = [thread EXCEPT
      ![t].held = @ \cup {u},
      ![t].row[u] = [rewards[u] EXCEPT !.exists = TRUE],
      ![t].locks = Tail(@),
      ![t].at = IF Len(thread[t].locks) = 1 THEN "commit" ELSE "lock"]

(* Mutant of LockOrCreateRewards: the row is read without a lock.          *)
ReadOrCreateRewards(t) ==
  /\ thread[t].at = "lock"
  /\ Take(t)
  /\ UNCHANGED <<rewards, ledger, sellerPaid, priced, adjustments>>

LockOrCreateRewards(t) ==
  /\ thread[t].at = "lock"
  /\ IF rewards[Wanted(t)].exists
     THEN ~LockedByOther(t, Wanted(t)) /\ Take(t)
     ELSE thread' = [thread EXCEPT ![t].at = "insert"]
  /\ UNCHANGED <<rewards, ledger, sellerPaid, priced, adjustments>>

(* The insert waits for another one of the same key to commit, and fails   *)
(* on the unique index then: the transaction is rolled back.               *)
InsertRewards(t) ==
  /\ thread[t].at = "insert"
  /\ ~LockedByOther(t, Wanted(t))
  /\ IF rewards[Wanted(t)].exists
     THEN thread' = [thread EXCEPT ![t] = Idle]
     ELSE Take(t)
  /\ UNCHANGED <<rewards, ledger, sellerPaid, priced, adjustments>>

Credited(row, e) ==
  IF e.type = "BUYER" THEN [row EXCEPT !.buyerPoints = @ + e.delta]
  ELSE [row EXCEPT !.sellerPoints = @ + e.delta,
                   !.tier = Band(row.sellerPoints + e.delta)]

(* The rows as read when they were locked, with the one or two entries of  *)
(* the transaction applied.                                                *)
Applied(row, u, e) == IF e.user = u THEN Credited(row, e) ELSE row

NewRow(t, u) ==
  LET entries == thread[t].entries
      first == Applied(thread[t].row[u], u, entries[1])
  IN IF Len(entries) = 1 THEN first ELSE Applied(first, u, entries[2])

CommissionBand(t, s) == Band(thread[t].row[seller[s]].sellerPoints)

Commit(t) ==
  LET s == thread[t].sale IN
  /\ thread[t].at = "commit"
  /\ rewards' = [u \in User |-> IF u \in thread[t].held THEN NewRow(t, u)
                                ELSE rewards[u]]
  /\ ledger' = ledger \o thread[t].entries
  /\ IF s \in Sale
     THEN /\ sellerPaid' = sellerPaid \cup {s}
          /\ priced' = [priced EXCEPT ![s] = CommissionBand(t, s)]
     ELSE UNCHANGED <<sellerPaid, priced>>
  /\ thread' = [thread EXCEPT ![t] = Idle]
  /\ UNCHANGED adjustments

Next == \E t \in Threads :
  \/ \E s \in Sale : MarkSellerPaid(t, s)
  \/ \E u \in User, type \in {"BUYER", "SELLER"}, delta \in {-1, 1} :
       AdjustPoints(t, u, type, delta)
  \/ LockOrCreateRewards(t) \/ InsertRewards(t) \/ Commit(t)

Spec == Init /\ [][Next]_vars

-----------------------------------------------------------------------------
Movement(e, u, type) == IF e.user = u /\ e.type = type THEN e.delta ELSE 0

(* The entries of a user's account, added up.                              *)
Total(log, u, type) ==
  LET sum[n \in 0..Len(log)] ==
        IF n = 0 THEN 0 ELSE sum[n - 1] + Movement(log[n], u, type)
  IN sum[Len(log)]

(* "Every point movement is logged": whatever transactions overlap, no     *)
(* credit is lost and the ledger explains every balance.                   *)
LedgerExplainsBalances ==
  \A u \in User : /\ rewards[u].buyerPoints = Total(ledger, u, "BUYER")
                  /\ rewards[u].sellerPoints = Total(ledger, u, "SELLER")

(* Locking "in a consistent order (by userId)" is there "to avoid a        *)
(* deadlock against a concurrent markSellerPaid where this sale's          *)
(* buyer/seller pair is reversed": of the transactions in progress one can *)
(* always go on.                                                           *)
SomeTransactionCanGoOn ==
  (\E t \in Threads : thread[t].at # "idle") =>
    \E t \in Threads : \/ thread[t].at = "commit"
                       \/ /\ thread[t].at \in {"lock", "insert"}
                          /\ ~LockedByOther(t, Wanted(t))

=============================================================================
