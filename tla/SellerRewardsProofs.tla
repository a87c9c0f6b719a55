------------------------- MODULE SellerRewardsProofs -------------------------
(***************************************************************************)
(* The ledger explains every balance, the tier follows the points and the  *)
(* row locks never deadlock, for every number of users, sales, bands and   *)
(* transactions at a time.                                                 *)
(***************************************************************************)
EXTENDS SellerRewards, FiniteSetTheorems, WellFoundedInduction, TLAPS

EntryType == {"BUYER", "SELLER"}
LedgerEntry == [user: User, type: EntryType, delta: Int, sale: Sale \cup {0}]
RewardsRow == [exists: BOOLEAN, buyerPoints: Int, sellerPoints: Int,
               tier: DOMAIN BandMins]
Transaction == [at: {"idle", "lock", "insert", "commit"}, sale: Sale \cup {0},
                entries: Seq(LedgerEntry), locks: Seq(User),
                held: SUBSET User, row: [User -> RewardsRow]]

Typed ==
  /\ rewards \in [User -> RewardsRow]
  /\ ledger \in Seq(LedgerEntry)
  /\ thread \in [Threads -> Transaction]

Waiting(t) == thread[t].at \in {"lock", "insert"}

(* The rows a transaction has still to lock come in the order of the ids,  *)
(* after those it holds: the first row is all it may wait for with none    *)
(* held.                                                                   *)
LocksInOrder(t) ==
  LET w == thread[t] IN
  /\ Waiting(t) <=> w.locks # <<>>
  /\ w.at = "idle" => w.held = {}
  /\ \A i, j \in DOMAIN w.locks : i <= j => w.locks[i] <= w.locks[j]
  /\ \A u \in w.held, i \in DOMAIN w.locks : u <= w.locks[i]

(* A row is held by one transaction at a time.                             *)
Exclusive ==
  \A t, o \in Threads : t # o => thread[t].held \cap thread[o].held = {}

(* What a transaction has read of a row it holds is still what the row is; *)
(* and it holds, or will lock, every row its entries are about.            *)
ReadIsCurrent(t) ==
  LET w == thread[t] IN
  /\ \A u \in w.held : w.row[u] = [rewards[u] EXCEPT !.exists = TRUE]
  /\ w.at # "idle" =>
       /\ Len(w.entries) \in {1, 2}
       /\ \A i \in DOMAIN w.entries :
            \/ w.entries[i].user \in w.held
            \/ \E j \in DOMAIN w.locks : w.locks[j] = w.entries[i].user

(* The tier of every row is that of its points.                            *)
TierFollowsPoints ==
  \A u \in User : rewards[u].tier = Band(rewards[u].sellerPoints)

LockInv == /\ Typed /\ Exclusive
           /\ \A t \in Threads : LocksInOrder(t) /\ ReadIsCurrent(t)
-----------------------------------------------------------------------------
(* Numbers have a least element, and bounded ones a greatest.              *)
LEMMA LeastElement ==
  ASSUME NEW T, T \subseteq Nat, T # {}
  PROVE  \E n \in T : \A m \in T : n <= m
<1>1. PICK n \in T : \A m \in T : ~(<<m, n>> \in OpToRel(<, Nat))
  BY NatLessThanWellFounded, WFMin
<1>2. \A m \in T : ~(m < n)
  BY <1>1 DEF OpToRel
<1> QED BY <1>2

LEMMA GreatestElement ==
  ASSUME NEW N \in Nat, NEW T, T \subseteq 1..N, T # {}
  PROVE  Max(T) \in T /\ \A m \in T : m <= Max(T)
<1> DEFINE D == {d \in Nat : N - d \in T}
<1>1. D # {}
  <2>1. PICK m \in T : TRUE
    OBVIOUS
  <2>2. N - m \in Nat /\ N - (N - m) = m
    BY <2>1
  <2>3. N - m \in D
    BY <2>1, <2>2
  <2> QED BY <2>3
<1>2. PICK d \in D : \A e \in D : d <= e
  BY <1>1, LeastElement
<1>3. N - d \in T /\ \A m \in T : N - d >= m
  <2>1. ASSUME NEW m \in T PROVE N - d >= m
    <3>1. N - m \in Nat /\ N - (N - m) = m
      OBVIOUS
    <3>2. N - m \in D
      BY <2>1, <3>1
    <3>3. d <= N - m
      BY <3>2, <1>2
    <3> QED BY <3>1, <3>3
  <2> QED BY <1>2, <2>1
<1>4. \E x \in T : \A y \in T : x >= y
  BY <1>3
<1>5. Max(T) \in T /\ \A y \in T : Max(T) >= y
  BY <1>4 DEF Max
<1> QED BY <1>5

(* The tier is one of those there are, and a new row has that of 0 points. *)
LEMMA BandIsATier ==
  /\ \A points \in Int : Band(points) \in DOMAIN BandMins
  /\ Band(0) = 1
<1>1. Len(BandMins) \in Nat /\ DOMAIN BandMins = 1..Len(BandMins)
      /\ Len(BandMins) # 0
  BY RewardsAssumption
<1>2. ASSUME NEW points \in Int
      PROVE  Band(points) \in
                {1} \cup {i \in DOMAIN BandMins : BandMins[i] <= points}
  BY <1>1, GreatestElement DEF Band
<1>3. {i \in DOMAIN BandMins : BandMins[i] <= 0} \subseteq {1}
  <2> SUFFICES ASSUME NEW i \in DOMAIN BandMins, i # 1 PROVE ~(BandMins[i] <= 0)
    OBVIOUS
  <2>1. BandMins[1] < BandMins[i] /\ BandMins[1] = 0
    <3>1. 1 \in DOMAIN BandMins /\ 1 < i
      BY <1>1
    <3> QED BY <3>1, RewardsAssumption
  <2>2. BandMins[i] \in Nat
    BY <1>1, RewardsAssumption
  <2> QED BY <2>1, <2>2
<1> QED BY <1>1, <1>2, <1>3
-----------------------------------------------------------------------------
(* A sum over a sequence is defined, entry by entry: of the numbers up to  *)
(* its length there is no least one at which it is not.                    *)
LEMMA SumExists ==
  ASSUME NEW N \in Nat, NEW step
  PROVE  \E f : f = [n \in 0..N |-> IF n = 0 THEN 0 ELSE f[n - 1] + step[n]]
<1> DEFINE D(n, f) == f = [m \in 0..n |-> IF m = 0 THEN 0 ELSE f[m - 1] + step[m]]
           Bad == {n \in 0..N : ~ \E f : D(n, f)}
<1>1. SUFFICES ASSUME Bad # {} PROVE FALSE
  <2>1. N \in 0..N
    OBVIOUS
  <2> QED BY <2>1
<1>2. PICK n \in Bad : \A m \in Bad : n <= m
  <2>1. Bad \subseteq Nat
    OBVIOUS
  <2> HIDE DEF Bad
  <2> QED BY <1>1, <2>1, LeastElement
<1>3. n # 0
  <2>1. D(0, [m \in 0..0 |-> 0])
    OBVIOUS
  <2> QED BY <1>2, <2>1
<1>4. n \in Nat /\ n - 1 \in 0..N /\ n - 1 \notin Bad
  BY <1>2, <1>3
<1>5. PICK f : D(n - 1, f)
  BY <1>4
<1> DEFINE g == [m \in 0..n |-> IF m = n THEN f[n - 1] + step[n] ELSE f[m]]
<1>6. D(n, g)
  <2> SUFFICES ASSUME NEW m \in 0..n
               PROVE  g[m] = IF m = 0 THEN 0 ELSE g[m - 1] + step[m]
    OBVIOUS
  <2>1. CASE m = n
    BY <2>1, <1>3, <1>4
  <2>2. CASE m # n
    <3>1. m \in 0..(n - 1) /\ g[m] = f[m]
      BY <2>2, <1>4
    <3>2. f[m] = IF m = 0 THEN 0 ELSE f[m - 1] + step[m]
      BY <3>1, <1>5
    <3>3. m # 0 => g[m - 1] = f[m - 1]
      BY <3>1, <1>4
    <3> QED BY <3>1, <3>2, <3>3
  <2> QED BY <2>1, <2>2
<1> QED BY <1>2, <1>6

(* The total of a ledger and one entry more.                               *)
Moves(log, u, type) == [n \in 1..Len(log) |-> Movement(log[n], u, type)]

LEMMA TotalIsASum ==
  ASSUME NEW log \in Seq(LedgerEntry), NEW u, NEW type
  PROVE  \E f : /\ f = [n \in 0..Len(log) |->
                          IF n = 0 THEN 0 ELSE f[n - 1] + Moves(log, u, type)[n]]
                /\ Total(log, u, type) = f[Len(log)]
<1> DEFINE D(f) == f = [n \in 0..Len(log) |->
                          IF n = 0 THEN 0 ELSE f[n - 1] + Movement(log[n], u, type)]
           sum == CHOOSE f : D(f)
<1>1. Len(log) \in Nat
  OBVIOUS
<1>2. PICK f : f = [n \in 0..Len(log) |->
                      IF n = 0 THEN 0 ELSE f[n - 1] + Moves(log, u, type)[n]]
  BY <1>1, SumExists
<1>3. \A n \in 0..Len(log) : n # 0 =>
        Moves(log, u, type)[n] = Movement(log[n], u, type)
  BY <1>1 DEF Moves
<1>4. D(f)
  BY <1>2, <1>3
<1>5. D(sum)
  BY <1>4
<1>6. Total(log, u, type) = sum[Len(log)]
  BY DEF Total
<1> QED BY <1>3, <1>5, <1>6

LEMMA TotalAppend ==
  ASSUME NEW log \in Seq(LedgerEntry), NEW e \in LedgerEntry, NEW u, NEW type
  PROVE  /\ Total(log, u, type) \in Int
         /\ Total(Append(log, e), u, type)
              = Total(log, u, type) + Movement(e, u, type)
<1> DEFINE longer == Append(log, e)
           N == Len(log)
<1>1. /\ N \in Nat /\ longer \in Seq(LedgerEntry) /\ Len(longer) = N + 1
      /\ longer[N + 1] = e /\ \A n \in 1..N : longer[n] = log[n]
  OBVIOUS
<1> HIDE DEF N, longer
<1>2. PICK f : /\ f = [n \in 0..N |->
                         IF n = 0 THEN 0 ELSE f[n - 1] + Moves(log, u, type)[n]]
               /\ Total(log, u, type) = f[N]
  BY TotalIsASum DEF N
<1>3. PICK g : /\ g = [n \in 0..(N + 1) |->
                         IF n = 0 THEN 0 ELSE g[n - 1] + Moves(longer, u, type)[n]]
               /\ Total(longer, u, type) = g[N + 1]
  BY TotalIsASum, <1>1
<1>4. /\ \A n \in 1..N : Moves(longer, u, type)[n] = Moves(log, u, type)[n]
      /\ \A n \in 1..N : Moves(log, u, type)[n] \in Int
      /\ Moves(longer, u, type)[N + 1] = Movement(e, u, type)
  <2>1. \A n \in 1..N : log[n] \in LedgerEntry
    BY DEF N
  <2>2. \A x \in LedgerEntry : x.delta \in Int
    BY DEF LedgerEntry
  <2> QED BY <1>1, <2>1, <2>2 DEF Moves, Movement, N
<1> DEFINE Bad == {n \in 0..N : ~(g[n] = f[n] /\ f[n] \in Int)}
<1>5. Bad = {}
  <2>1. SUFFICES ASSUME Bad # {} PROVE FALSE
    OBVIOUS
  <2>2. Bad \subseteq Nat
    BY <1>1
  <2>3. PICK n \in Bad : \A m \in Bad : n <= m
    <3> HIDE DEF Bad
    <3> QED BY <2>1, <2>2, LeastElement
  <2>4. n # 0
    BY <1>1, <1>2, <1>3
  <2>5. n \in 1..N /\ n - 1 \in 0..N /\ n - 1 \notin Bad
    BY <2>2, <2>3, <2>4, <1>1
  <2>6. g[n - 1] = f[n - 1] /\ f[n - 1] \in Int
    BY <2>5
  <2>7. /\ f[n] = f[n - 1] + Moves(log, u, type)[n]
        /\ g[n] = g[n - 1] + Moves(longer, u, type)[n]
    BY <2>5, <1>1, <1>2, <1>3
  <2>8. Moves(log, u, type)[n] \in Int
    BY <2>5, <1>4
  <2> QED BY <2>3, <2>5, <2>6, <2>7, <2>8, <1>4
<1>6. g[N] = f[N] /\ f[N] \in Int
  BY <1>1, <1>5
<1>7. g[N + 1] = g[N] + Moves(longer, u, type)[N + 1]
  BY <1>1, <1>3
<1> QED BY <1>2, <1>3, <1>4, <1>6, <1>7 DEF longer

LEMMA TotalEmpty ==
  ASSUME NEW log \in Seq(LedgerEntry), NEW u, NEW type
  PROVE  Len(log) = 0 => Total(log, u, type) = 0
<1>1. PICK f :
        /\ f = [n \in 0..Len(log) |->
                  IF n = 0 THEN 0 ELSE f[n - 1] + Moves(log, u, type)[n]]
        /\ Total(log, u, type) = f[Len(log)]
  BY TotalIsASum
<1> QED BY <1>1

-----------------------------------------------------------------------------
(* A transaction that locks the next row: it reads the row as it is.       *)
LEMMA TakeKeepsLockInv ==
  ASSUME LockInv, NEW t \in Threads, Waiting(t),
         ~LockedByOther(t, Wanted(t)), Take(t), UNCHANGED <<rewards, ledger>>
  PROVE  LockInv'
<1> DEFINE w == thread[t]
           u == Wanted(t)
           read == [rewards[u] EXCEPT !.exists = TRUE]
           next == [w EXCEPT !.held = @ \cup {u}, !.row = [@ EXCEPT ![u] = read],
                             !.locks = Tail(@),
                             !.at = IF Len(w.locks) = 1 THEN "commit" ELSE "lock"]
<1>1. w \in Transaction /\ rewards \in [User -> RewardsRow]
  BY DEF LockInv, Typed
<1>2. /\ w.locks \in Seq(User) /\ w.locks # <<>> /\ u = w.locks[1]
      /\ w.held \subseteq User /\ w.row \in [User -> RewardsRow]
      /\ w.entries \in Seq(LedgerEntry)
  BY <1>1 DEF LockInv, LocksInOrder, Transaction, Wanted
<1>3. u \in User
  BY <1>2
<1>4. thread' = [thread EXCEPT ![t] = next]
  BY <1>1, <1>2, <1>3 DEF Take, LockInv, Typed, Transaction
<1>5. /\ Tail(w.locks) \in Seq(User) /\ Len(Tail(w.locks)) = Len(w.locks) - 1
      /\ Len(w.locks) \in Nat \ {0}
      /\ \A i \in DOMAIN Tail(w.locks) :
           i + 1 \in DOMAIN w.locks /\ Tail(w.locks)[i] = w.locks[i + 1]
  BY <1>2
<1>6. read \in RewardsRow
  BY <1>1, <1>3 DEF RewardsRow
<1>7. /\ next \in Transaction
      /\ next.held = w.held \cup {u} /\ next.row = [w.row EXCEPT ![u] = read]
      /\ next.locks = Tail(w.locks) /\ next.entries = w.entries
      /\ next.at = IF Len(w.locks) = 1 THEN "commit" ELSE "lock"
  BY <1>1, <1>2, <1>3, <1>5, <1>6 DEF Transaction
<1> HIDE DEF next, read
<1>8. Typed'
  BY <1>4, <1>7 DEF LockInv, Typed
<1>9. thread'[t] = next /\ \A o \in Threads \ {t} : thread'[o] = thread[o]
  BY <1>4 DEF LockInv, Typed
<1>10. Exclusive'
  <2> SUFFICES ASSUME NEW o \in Threads, NEW p \in Threads, o # p
               PROVE  thread'[o].held \cap thread'[p].held = {}
    BY DEF Exclusive
  <2>1. \A q \in Threads : q # t => u \notin thread[q].held
    BY DEF LockedByOther
  <2>2. thread[o].held \cap thread[p].held = {}
    BY DEF LockInv, Exclusive
  <2> QED BY <1>7, <1>9, <2>1, <2>2
<1>11. LocksInOrder(t)'
  <2>1. \A i, j \in DOMAIN w.locks : i <= j => w.locks[i] <= w.locks[j]
    BY DEF LockInv, LocksInOrder
  <2>2. \A x \in w.held, i \in DOMAIN w.locks : x <= w.locks[i]
    BY DEF LockInv, LocksInOrder
  <2>3. Waiting(t)' <=> next.locks # <<>>
    <3>1. Tail(w.locks) = <<>> <=> Len(w.locks) = 1
      <4>1. \A s \in Seq(User) : s = <<>> <=> Len(s) = 0
        OBVIOUS
      <4>2. Tail(w.locks) = <<>> <=> Len(Tail(w.locks)) = 0
        BY <1>5, <4>1, Zenon
      <4> QED BY <1>5, <4>2
    <3> QED BY <1>7, <1>9, <3>1 DEF Waiting
  <2>4. next.at # "idle"
    BY <1>7
  <2>5. \A i, j \in DOMAIN next.locks : i <= j => next.locks[i] <= next.locks[j]
    BY <1>2, <1>5, <1>7, <2>1
  <2>6. \A x \in next.held, i \in DOMAIN next.locks : x <= next.locks[i]
    <3>1. \A i \in DOMAIN next.locks : /\ next.locks[i] = w.locks[i + 1]
                                       /\ 1 \in DOMAIN w.locks
                                       /\ i + 1 \in DOMAIN w.locks /\ 1 <= i + 1
      BY <1>2, <1>5, <1>7
    <3> QED BY <1>2, <1>7, <3>1, <2>1, <2>2
  <2> QED BY <1>9, <2>3, <2>4, <2>5, <2>6 DEF LocksInOrder
<1>12. ReadIsCurrent(t)'
  <2>1. \A x \in next.held : next.row[x] = [rewards[x] EXCEPT !.exists = TRUE]
    <3> SUFFICES ASSUME NEW x \in next.held
                 PROVE  next.row[x] = [rewards[x] EXCEPT !.exists = TRUE]
      OBVIOUS
    <3>1. CASE x = u
      BY <3>1, <1>2, <1>3, <1>7 DEF read
    <3>2. CASE x # u
      <4>1. x \in w.held /\ next.row[x] = w.row[x]
        BY <3>2, <1>2, <1>3, <1>7
      <4> QED BY <4>1 DEF LockInv, ReadIsCurrent
    <3> QED BY <3>1, <3>2
  <2>2. w.at # "idle"
    BY DEF Waiting
  <2>3. \A i \in DOMAIN next.entries :
           \/ next.entries[i].user \in next.held
           \/ \E j \in DOMAIN next.locks : next.locks[j] = next.entries[i].user
    <3> SUFFICES ASSUME NEW i \in DOMAIN w.entries,
                        NEW j \in DOMAIN w.locks, w.locks[j] = w.entries[i].user,
                        w.entries[i].user # u
                 PROVE  \E k \in DOMAIN next.locks :
                           next.locks[k] = w.entries[i].user
      BY <1>7, <2>2 DEF LockInv, ReadIsCurrent
    <3>1. j # 1 /\ j \in 1..Len(w.locks)
      BY <1>2
    <3>2. j - 1 \in DOMAIN Tail(w.locks)
      BY <1>5, <3>1
    <3>3. Tail(w.locks)[j - 1] = w.locks[(j - 1) + 1] /\ (j - 1) + 1 = j
      BY <1>5, <3>1, <3>2
    <3> QED BY <1>7, <3>2, <3>3
  <2>4. Len(next.entries) \in {1, 2}
    BY <1>7, <2>2 DEF LockInv, ReadIsCurrent
  <2> QED BY <1>9, <2>1, <2>3, <2>4 DEF ReadIsCurrent
<1>13. \A o \in Threads \ {t} : LocksInOrder(o)' /\ ReadIsCurrent(o)'
  BY <1>9 DEF LockInv, LocksInOrder, ReadIsCurrent, Waiting
<1> QED BY <1>8, <1>10, <1>11, <1>12, <1>13 DEF LockInv
(* A transaction that begins, or is rolled back, holds no row.             *)
LEMMA IdleIsTyped ==
  /\ Idle \in Transaction
  /\ Idle.held = {} /\ Idle.locks = <<>> /\ Idle.at = "idle"
<1>1. NoRow \in RewardsRow
  BY RewardsAssumption DEF NoRow, RewardsRow
<1>2. <<>> \in Seq(LedgerEntry) /\ <<>> \in Seq(User)
  OBVIOUS
<1> QED BY <1>1, <1>2 DEF Idle, Transaction

LEMMA FreshKeepsLockInv ==
  ASSUME LockInv, NEW t \in Threads, NEW next \in Transaction,
         thread' = [thread EXCEPT ![t] = next], UNCHANGED <<rewards, ledger>>,
         next.held = {},
         \/ next.at = "idle" /\ next.locks = <<>>
         \/ /\ next.at = "lock" /\ next.locks # <<>>
            /\ \A i, j \in DOMAIN next.locks :
                  i <= j => next.locks[i] <= next.locks[j]
            /\ Len(next.entries) \in {1, 2}
            /\ \A i \in DOMAIN next.entries : \E j \in DOMAIN next.locks :
                 next.locks[j] = next.entries[i].user
  PROVE  LockInv'
<1>1. thread'[t] = next /\ \A o \in Threads \ {t} : thread'[o] = thread[o]
  BY DEF LockInv, Typed
<1>2. Typed'
  BY DEF LockInv, Typed
<1>3. Exclusive'
  BY <1>1 DEF LockInv, Exclusive
<1>4. \A o \in Threads \ {t} : LocksInOrder(o)' /\ ReadIsCurrent(o)'
  BY <1>1 DEF LockInv, LocksInOrder, ReadIsCurrent, Waiting
<1>5. LocksInOrder(t)'
  BY <1>1 DEF LocksInOrder, Waiting
<1>6. ReadIsCurrent(t)'
  BY <1>1 DEF ReadIsCurrent
<1> QED BY <1>2, <1>3, <1>4, <1>5, <1>6 DEF LockInv

LEMMA MarkSellerPaidKeepsLockInv ==
  ASSUME LockInv, NEW t \in Threads, NEW s \in Sale, MarkSellerPaid(t, s)
  PROVE  LockInv'
<1> DEFINE b == buyer[s]
           v == seller[s]
           es == <<Entry(b, "BUYER", PointsOf[s], s),
                   Entry(v, "SELLER", PointsOf[s], s)>>
           next == [Idle EXCEPT !.at = "lock", !.sale = s, !.locks = LockOrder(s),
                                !.entries = es]
<1>1. /\ b \in User /\ v \in User /\ b \in Int /\ v \in Int /\ PointsOf[s] \in Int
  <2>1. b \in User /\ v \in User /\ PointsOf[s] \in Nat /\ User \subseteq Int
    BY RewardsAssumption
  <2>2. PointsOf[s] \in Int
    BY <2>1
  <2> QED BY <2>1, <2>2, Zenon
<1>2. \A type \in EntryType, u \in User :
        Entry(u, type, PointsOf[s], s) \in LedgerEntry
  BY <1>1 DEF Entry, LedgerEntry
<1>3. es \in Seq(LedgerEntry) /\ Len(es) = 2 /\ es[1].user = b /\ es[2].user = v
      /\ DOMAIN es = {1, 2}
  BY <1>1, <1>2 DEF Entry, EntryType
<1>4. /\ LockOrder(s) \in Seq(User) /\ DOMAIN LockOrder(s) = {1, 2}
      /\ LockOrder(s) # <<>> /\ LockOrder(s)[1] <= LockOrder(s)[2]
      /\ {LockOrder(s)[1], LockOrder(s)[2]} = {b, v}
  BY <1>1 DEF LockOrder
<1> HIDE DEF es
<1>5. /\ next \in Transaction /\ next.held = {} /\ next.at = "lock"
      /\ next.locks = LockOrder(s) /\ next.entries = es
  BY <1>3, <1>4, IdleIsTyped DEF Transaction
<1>6. thread' = [thread EXCEPT ![t] = next] /\ UNCHANGED <<rewards, ledger>>
  BY DEF MarkSellerPaid, es
<1> HIDE DEF next, b, v
<1>7. \A i, j \in DOMAIN next.locks : i <= j => next.locks[i] <= next.locks[j]
  BY <1>1, <1>4, <1>5
<1>8. \A i \in DOMAIN next.entries : \E j \in DOMAIN next.locks :
                 next.locks[j] = next.entries[i].user
  <2>1. \A x \in {b, v} : \E j \in {1, 2} : LockOrder(s)[j] = x
    BY <1>4
  <2>2. \A i \in DOMAIN es : es[i].user \in {b, v}
    BY <1>3
  <2> QED BY <1>4, <1>5, <2>1, <2>2
<1> QED BY <1>3, <1>4, <1>5, <1>6, <1>7, <1>8, FreshKeepsLockInv

LEMMA AdjustPointsKeepsLockInv ==
  ASSUME LockInv, NEW t \in Threads, NEW u \in User, NEW type \in EntryType,
         NEW delta \in {-1, 1}, AdjustPoints(t, u, type, delta)
  PROVE  LockInv'
<1> DEFINE es == <<Entry(u, type, delta, 0)>>
           next == [Idle EXCEPT !.at = "lock", !.locks = <<u>>, !.entries = es]
<1>1. Entry(u, type, delta, 0) \in LedgerEntry
  BY DEF Entry, LedgerEntry
<1>2. /\ es \in Seq(LedgerEntry) /\ Len(es) = 1 /\ es[1].user = u
      /\ DOMAIN es = {1}
  BY <1>1 DEF Entry
<1>3. /\ <<u>> \in Seq(User) /\ DOMAIN <<u>> = {1} /\ <<u>> # <<>>
      /\ <<u>>[1] = u /\ u \in Int
  BY RewardsAssumption
<1> HIDE DEF es
<1>4. /\ next \in Transaction /\ next.held = {} /\ next.at = "lock"
      /\ next.locks = <<u>> /\ next.entries = es
  BY <1>2, <1>3, IdleIsTyped DEF Transaction
<1>5. thread' = [thread EXCEPT ![t] = next] /\ UNCHANGED <<rewards, ledger>>
  BY DEF AdjustPoints, es
<1> HIDE DEF next
<1>6. /\ next.locks # <<>> /\ Len(next.entries) \in {1, 2}
      /\ \A i, j \in DOMAIN next.locks : i <= j => next.locks[i] <= next.locks[j]
      /\ \A i \in DOMAIN next.entries : \E j \in DOMAIN next.locks :
           next.locks[j] = next.entries[i].user
  BY <1>2, <1>3, <1>4
<1> QED BY <1>4, <1>5, <1>6, FreshKeepsLockInv

LEMMA LockOrCreateRewardsKeepsLockInv ==
  ASSUME LockInv, NEW t \in Threads, LockOrCreateRewards(t)
  PROVE  LockInv'
<1>1. CASE ~LockedByOther(t, Wanted(t)) /\ Take(t)
  BY <1>1, TakeKeepsLockInv DEF LockOrCreateRewards, Waiting
<1>2. CASE thread' = [thread EXCEPT ![t].at = "insert"]
  <2>1. /\ thread'[t] = [thread[t] EXCEPT !.at = "insert"]
        /\ \A o \in Threads \ {t} : thread'[o] = thread[o]
        /\ thread[t] \in Transaction
    BY <1>2 DEF LockInv, Typed
  <2>2. /\ thread'[t].held = thread[t].held /\ thread'[t].locks = thread[t].locks
        /\ thread'[t].row = thread[t].row /\ thread'[t].at = "insert"
        /\ thread'[t].entries = thread[t].entries
        /\ thread'[t] \in Transaction
    <3> DEFINE w == thread[t]
               next == [w EXCEPT !.at = "insert"]
    <3>1. w \in Transaction
      BY <2>1
    <3>2. /\ next \in Transaction
          /\ next.held = w.held /\ next.locks = w.locks
          /\ next.row = w.row /\ next.at = "insert" /\ next.entries = w.entries
      <4> HIDE DEF w
      <4> QED BY <3>1 DEF Transaction
    <3> QED BY <2>1, <3>2, Zenon
  <2>8. thread[t].at = "lock"
    BY DEF LockOrCreateRewards
  <2>3. UNCHANGED <<rewards, ledger>>
    BY DEF LockOrCreateRewards
  <2>4. Typed'
    BY <1>2, <2>2, <2>3 DEF LockInv, Typed
  <2>5. Exclusive'
    <3>1. \A o \in Threads : thread'[o].held = thread[o].held
      BY <2>1, <2>2
    <3> QED BY <3>1 DEF LockInv, Exclusive
  <2>6. LocksInOrder(t)' /\ ReadIsCurrent(t)'
    BY <2>2, <2>3, <2>8 DEF LockInv, LocksInOrder, ReadIsCurrent, Waiting
  <2>7. \A o \in Threads \ {t} : LocksInOrder(o)' /\ ReadIsCurrent(o)'
    BY <2>1, <2>3 DEF LockInv, LocksInOrder, ReadIsCurrent, Waiting
  <2> QED BY <2>4, <2>5, <2>6, <2>7 DEF LockInv
<1> QED BY <1>1, <1>2 DEF LockOrCreateRewards

LEMMA InsertRewardsKeepsLockInv ==
  ASSUME LockInv, NEW t \in Threads, InsertRewards(t)
  PROVE  LockInv'
<1>1. CASE thread' = [thread EXCEPT ![t] = Idle]
  BY <1>1, IdleIsTyped, FreshKeepsLockInv DEF InsertRewards
<1>2. CASE Take(t)
  BY <1>2, TakeKeepsLockInv DEF InsertRewards, Waiting
<1> QED BY <1>1, <1>2 DEF InsertRewards
-----------------------------------------------------------------------------
(* An entry moves one balance by its delta, and the tier with it.          *)
LEMMA AppliedMoves ==
  ASSUME NEW row \in RewardsRow, NEW u \in User, NEW e \in LedgerEntry
  PROVE  LET new == Applied(row, u, e) IN
         /\ new \in RewardsRow /\ new.exists = row.exists
         /\ new.buyerPoints = row.buyerPoints + Movement(e, u, "BUYER")
         /\ new.sellerPoints = row.sellerPoints + Movement(e, u, "SELLER")
         /\ row.tier = Band(row.sellerPoints) => new.tier = Band(new.sellerPoints)
<1>1. /\ row.buyerPoints \in Int /\ row.sellerPoints \in Int
      /\ e.delta \in Int /\ e.type \in EntryType
  BY DEF RewardsRow, LedgerEntry
<1>2. Band(row.sellerPoints + e.delta) \in DOMAIN BandMins
  BY <1>1, BandIsATier
<1>3. CASE e.user # u
  BY <1>1, <1>3 DEF Applied, Movement
<1>4. CASE e.user = u /\ e.type = "BUYER"
  BY <1>1, <1>4 DEF Applied, Credited, Movement, RewardsRow
<1>5. CASE e.user = u /\ e.type = "SELLER"
  <2> DEFINE new == [row EXCEPT !.sellerPoints = @ + e.delta,
                                !.tier = Band(row.sellerPoints + e.delta)]
  <2>1. Applied(row, u, e) = new
    BY <1>5 DEF Applied, Credited
  <2>2. /\ new \in RewardsRow /\ new.exists = row.exists
        /\ new.buyerPoints = row.buyerPoints
        /\ new.sellerPoints = row.sellerPoints + e.delta
        /\ new.tier = Band(row.sellerPoints + e.delta)
    <3>1. ASSUME NEW p \in Int, NEW b \in DOMAIN BandMins
          PROVE  LET n == [row EXCEPT !.sellerPoints = p, !.tier = b]
                 IN /\ n \in RewardsRow /\ n.exists = row.exists
                    /\ n.buyerPoints = row.buyerPoints
                    /\ n.sellerPoints = p /\ n.tier = b
      BY DEF RewardsRow
    <3>2. row.sellerPoints + e.delta \in Int
      BY <1>1
    <3>3. new = [row EXCEPT !.sellerPoints = row.sellerPoints + e.delta,
                            !.tier = Band(row.sellerPoints + e.delta)]
      OBVIOUS
    <3> HIDE DEF new
    <3> QED BY <1>2, <3>1, <3>2, <3>3
  <2>3. Movement(e, u, "BUYER") = 0 /\ Movement(e, u, "SELLER") = e.delta
    BY <1>5 DEF Movement
  <2> HIDE DEF new
  <2> QED BY <1>1, <2>1, <2>2, <2>3
<1> QED BY <1>1, <1>3, <1>4, <1>5 DEF EntryType

(* What a transaction that commits writes to a row it holds: all that its  *)
(* entries say, on top of the row as it is.                                *)
Entries(t, u, type) ==
  LET es == thread[t].entries IN
  Movement(es[1], u, type) + IF Len(es) = 1 THEN 0 ELSE Movement(es[2], u, type)

LEMMA CommitRows ==
  ASSUME LockInv, TierFollowsPoints, NEW t \in Threads, Commit(t)
  PROVE  /\ \A u \in User :
              /\ rewards'[u] \in RewardsRow
              /\ rewards'[u].buyerPoints
                    = rewards[u].buyerPoints + Entries(t, u, "BUYER")
              /\ rewards'[u].sellerPoints
                    = rewards[u].sellerPoints + Entries(t, u, "SELLER")
              /\ rewards'[u].tier = Band(rewards'[u].sellerPoints)
              /\ u \notin thread[t].held => rewards'[u] = rewards[u]
         /\ rewards' \in [User -> RewardsRow]
<1> DEFINE w == thread[t]
           es == w.entries
<1>1. w \in Transaction /\ rewards \in [User -> RewardsRow] /\ w.at = "commit"
  BY DEF LockInv, Typed, Commit
<1>2. /\ es \in Seq(LedgerEntry) /\ Len(es) \in {1, 2} /\ w.locks = <<>>
      /\ \A i \in DOMAIN es : es[i].user \in w.held
  <2>1. w.locks = <<>> /\ w.locks \in Seq(User)
    BY <1>1 DEF LockInv, LocksInOrder, Waiting, Transaction
  <2>2. DOMAIN w.locks = {}
    BY <2>1
  <2> QED BY <1>1, <2>1, <2>2 DEF LockInv, ReadIsCurrent, Transaction
<1>3. /\ es[1] \in LedgerEntry /\ 1 \in DOMAIN es
      /\ Len(es) = 2 => es[2] \in LedgerEntry /\ 2 \in DOMAIN es
  BY <1>2
<1>4. \A u \in User : rewards'[u] =
        IF u \in w.held THEN NewRow(t, u) ELSE rewards[u]
  BY DEF Commit
<1>5. ASSUME NEW u \in User
      PROVE  /\ rewards'[u] \in RewardsRow
             /\ rewards'[u].buyerPoints
                    = rewards[u].buyerPoints + Entries(t, u, "BUYER")
             /\ rewards'[u].sellerPoints
                    = rewards[u].sellerPoints + Entries(t, u, "SELLER")
             /\ rewards'[u].tier = Band(rewards'[u].sellerPoints)
  <2> DEFINE old == rewards[u]
             read == w.row[u]
             first == Applied(read, u, es[1])
             second == Applied(first, u, es[2])
  <2>1. old \in RewardsRow /\ old.tier = Band(old.sellerPoints)
    BY <1>1 DEF TierFollowsPoints
  <2>2. /\ old.buyerPoints \in Int /\ old.sellerPoints \in Int
        /\ \A type : Movement(es[1], u, type) \in Int
        /\ \A type : Len(es) = 2 => Movement(es[2], u, type) \in Int
    BY <2>1, <1>3 DEF RewardsRow, LedgerEntry, Movement
  <2>3. CASE u \notin w.held
    <3>1. \A type : /\ Movement(es[1], u, type) = 0
                    /\ Len(es) = 2 => Movement(es[2], u, type) = 0
      BY <2>3, <1>2, <1>3 DEF Movement
    <3>2. Entries(t, u, "BUYER") = 0 /\ Entries(t, u, "SELLER") = 0
      BY <3>1, <1>2 DEF Entries
    <3> QED BY <2>1, <2>2, <2>3, <3>2, <1>4
  <2>4. CASE u \in w.held
    <3>1. read = [old EXCEPT !.exists = TRUE]
      BY <2>4 DEF LockInv, ReadIsCurrent
    <3>2. /\ read \in RewardsRow /\ read.tier = Band(read.sellerPoints)
          /\ read.buyerPoints = old.buyerPoints
          /\ read.sellerPoints = old.sellerPoints
      BY <2>1, <3>1 DEF RewardsRow
    <3>3. rewards'[u] = IF Len(es) = 1 THEN first ELSE second
      BY <1>4, <2>4 DEF NewRow
    <3> HIDE DEF read, old
    <3>4. /\ first \in RewardsRow /\ first.tier = Band(first.sellerPoints)
          /\ first.buyerPoints = read.buyerPoints + Movement(es[1], u, "BUYER")
          /\ first.sellerPoints = read.sellerPoints + Movement(es[1], u, "SELLER")
      BY <3>2, <1>3, AppliedMoves
    <3> HIDE DEF first
    <3>5. CASE Len(es) = 1
      <4>1. rewards'[u] = first
        BY <3>3, <3>5
      <4>2. /\ Entries(t, u, "BUYER") = Movement(es[1], u, "BUYER")
            /\ Entries(t, u, "SELLER") = Movement(es[1], u, "SELLER")
        BY <3>5, <2>2 DEF Entries
      <4> QED BY <3>2, <3>4, <4>1, <4>2 DEF old
    <3>6. CASE Len(es) = 2
      <4>1. rewards'[u] = second
        BY <3>3, <3>6
      <4>2. /\ second \in RewardsRow /\ second.tier = Band(second.sellerPoints)
            /\ second.buyerPoints
                 = first.buyerPoints + Movement(es[2], u, "BUYER")
            /\ second.sellerPoints
                 = first.sellerPoints + Movement(es[2], u, "SELLER")
        BY <3>4, <3>6, <1>3, AppliedMoves
      <4>3. /\ Entries(t, u, "BUYER")
                 = Movement(es[1], u, "BUYER") + Movement(es[2], u, "BUYER")
            /\ Entries(t, u, "SELLER")
                 = Movement(es[1], u, "SELLER") + Movement(es[2], u, "SELLER")
        BY <3>6 DEF Entries
      <4> HIDE DEF second
      <4> QED BY <2>2, <3>2, <3>4, <3>6, <4>1, <4>2, <4>3 DEF old
    <3> QED BY <3>5, <3>6, <1>2
  <2> QED BY <2>3, <2>4
<1>6. DOMAIN rewards' = User
  BY DEF Commit
<1>7. \A u \in User : u \notin w.held => rewards'[u] = rewards[u]
  BY <1>4
<1>8. rewards' = [u \in User |-> rewards'[u]]
  BY DEF Commit
<1>9. rewards' \in [User -> RewardsRow]
  BY <1>5, <1>8
<1> QED BY <1>5, <1>7, <1>9
(* The others keep what they have read: none holds a row that changes.     *)
LEMMA CommitKeepsLockInv ==
  ASSUME LockInv, TierFollowsPoints, NEW t \in Threads, Commit(t)
  PROVE  LockInv'
<1>1. /\ rewards' \in [User -> RewardsRow]
      /\ \A u \in User : u \notin thread[t].held => rewards'[u] = rewards[u]
  BY CommitRows
<1>2. /\ thread \in [Threads -> Transaction] /\ ledger \in Seq(LedgerEntry)
      /\ thread[t] \in Transaction
  BY DEF LockInv, Typed
<1>3. /\ thread' = [thread EXCEPT ![t] = Idle]
      /\ ledger' = ledger \o thread[t].entries
  BY DEF Commit
<1>4. Typed'
  <2>1. thread[t].entries \in Seq(LedgerEntry)
    BY <1>2 DEF Transaction
  <2>2. ledger' \in Seq(LedgerEntry)
    BY <1>2, <1>3, <2>1
  <2>3. thread' \in [Threads -> Transaction]
    BY <1>2, <1>3, IdleIsTyped
  <2> QED BY <1>1, <2>2, <2>3 DEF Typed
<1>5. thread'[t] = Idle /\ \A o \in Threads \ {t} : thread'[o] = thread[o]
  BY <1>2, <1>3
<1>6. Exclusive'
  BY <1>5, IdleIsTyped DEF LockInv, Exclusive
<1>7. LocksInOrder(t)' /\ ReadIsCurrent(t)'
  BY <1>5, IdleIsTyped DEF LocksInOrder, ReadIsCurrent, Waiting
<1>8. ASSUME NEW o \in Threads \ {t} PROVE LocksInOrder(o)' /\ ReadIsCurrent(o)'
  <2>1. thread'[o] = thread[o] /\ thread[o].held \subseteq User
    BY <1>2, <1>5 DEF Transaction
  <2>2. \A u \in thread[o].held : rewards'[u] = rewards[u]
    BY <1>1, <2>1 DEF LockInv, Exclusive
  <2>3. LocksInOrder(o)'
    BY <2>1 DEF LockInv, LocksInOrder, Waiting
  <2>4. ReadIsCurrent(o)'
    BY <2>1, <2>2 DEF LockInv, ReadIsCurrent
  <2> QED BY <2>3, <2>4
<1> QED BY <1>4, <1>6, <1>7, <1>8 DEF LockInv

LEMMA OneMore ==
  ASSUME NEW S, NEW s \in Seq(S), NEW one \in Seq(S), Len(one) = 1
  PROVE  s \o one = Append(s, one[1])
<1>1. one[1] \in S
  OBVIOUS
<1>2. one = <<one[1]>>
  OBVIOUS
<1>3. \A a \in S : s \o <<a>> = Append(s, a)
  OBVIOUS
<1> QED BY <1>1, <1>2, <1>3

LEMMA TwoMore ==
  ASSUME NEW S, NEW s \in Seq(S), NEW two \in Seq(S), Len(two) = 2
  PROVE  s \o two = Append(Append(s, two[1]), two[2])
<1>1. two[1] \in S /\ two[2] \in S
  OBVIOUS
<1>2. two = <<two[1], two[2]>>
  OBVIOUS
<1>3. \A a, b \in S : s \o <<a, b>> = Append(Append(s, a), b)
  OBVIOUS
<1> QED BY <1>1, <1>2, <1>3

(* The ledger grows by the entries, one or two.                            *)
LEMMA CommitKeepsLedger ==
  ASSUME LockInv, TierFollowsPoints, LedgerExplainsBalances,
         NEW t \in Threads, Commit(t)
  PROVE  LedgerExplainsBalances'
<1> DEFINE es == thread[t].entries
<1>1. /\ es \in Seq(LedgerEntry) /\ Len(es) \in {1, 2}
      /\ ledger \in Seq(LedgerEntry) /\ ledger' = ledger \o es
  BY DEF LockInv, Typed, Transaction, ReadIsCurrent, Commit
<1>2. es[1] \in LedgerEntry /\ (Len(es) = 2 => es[2] \in LedgerEntry)
  BY <1>1
<1>3. ASSUME NEW u \in User, NEW type \in EntryType
      PROVE  Total(ledger', u, type) = Total(ledger, u, type) + Entries(t, u, type)
  <2> DEFINE once == Append(ledger, es[1])
  <2>1. /\ once \in Seq(LedgerEntry)
        /\ Total(ledger, u, type) \in Int
        /\ Total(once, u, type) = Total(ledger, u, type) + Movement(es[1], u, type)
    BY <1>1, <1>2, TotalAppend
  <2>2. Movement(es[1], u, type) \in Int
    BY <1>2 DEF Movement, LedgerEntry
  <2>3. CASE Len(es) = 1
    <3>1. ledger' = once
      <4> HIDE DEF es
      <4>1. ledger \o es = Append(ledger, es[1])
        BY <1>1, <2>3, OneMore
      <4> QED BY <1>1, <4>1 DEF once
    <3> QED BY <2>1, <2>2, <2>3, <3>1 DEF Entries
  <2>4. CASE Len(es) = 2
    <3>1. ledger' = Append(once, es[2])
      <4> HIDE DEF es
      <4>1. ledger \o es = Append(Append(ledger, es[1]), es[2])
        BY <1>1, <2>4, TwoMore
      <4> QED BY <1>1, <4>1 DEF once
    <3>2. Total(ledger', u, type) = Total(once, u, type) + Movement(es[2], u, type)
      BY <1>2, <2>1, <2>4, <3>1, TotalAppend
    <3>3. Movement(es[2], u, type) \in Int
      BY <1>2, <2>4 DEF Movement, LedgerEntry
    <3> QED BY <2>1, <2>2, <2>4, <3>2, <3>3 DEF Entries
  <2> QED BY <1>1, <2>3, <2>4
<1> QED BY <1>3, CommitRows DEF LedgerExplainsBalances, EntryType
-----------------------------------------------------------------------------
(* The rest of the type: what a commit writes beside the rows.             *)
Settled == /\ sellerPaid \subseteq Sale
           /\ priced \in [Sale -> 0..Len(BandMins)]
           /\ adjustments \in 0..MaxAdjustments

Inv == LockInv /\ TierFollowsPoints /\ LedgerExplainsBalances /\ Settled

LEMMA InvInitially == Init => Inv
<1> SUFFICES ASSUME Init PROVE Inv
  OBVIOUS
<1>1. NoRow \in RewardsRow /\ NoRow.tier = Band(0) /\ NoRow.sellerPoints = 0
      /\ NoRow.buyerPoints = 0
  BY BandIsATier, RewardsAssumption DEF NoRow, RewardsRow
<1>2. ledger \in Seq(LedgerEntry) /\ Len(ledger) = 0
  BY DEF Init
<1>3. LockInv
  <2>1. Typed
    BY <1>1, <1>2, IdleIsTyped DEF Init, Typed
  <2>2. \A t \in Threads : thread[t] = Idle
    BY DEF Init
  <2>3. Exclusive
    BY <2>2, IdleIsTyped DEF Exclusive
  <2>4. \A t \in Threads : LocksInOrder(t) /\ ReadIsCurrent(t)
    BY <2>2, IdleIsTyped DEF LocksInOrder, ReadIsCurrent, Waiting
  <2> QED BY <2>1, <2>3, <2>4 DEF LockInv
<1>4. TierFollowsPoints
  BY <1>1 DEF Init, TierFollowsPoints
<1>5. LedgerExplainsBalances
  BY <1>1, <1>2, TotalEmpty DEF Init, LedgerExplainsBalances
<1>6. Settled
  BY RewardsAssumption DEF Init, Settled
<1> QED BY <1>3, <1>4, <1>5, <1>6 DEF Inv

LEMMA InvIsInductive == Inv /\ [Next]_vars => Inv'
<1> SUFFICES ASSUME Inv, [Next]_vars PROVE Inv'
  OBVIOUS
<1> USE DEF Inv
<1>1. ASSUME UNCHANGED <<rewards, ledger>>, LockInv', Settled'
      PROVE  Inv'
  BY <1>1 DEF TierFollowsPoints, LedgerExplainsBalances
<1>2. ASSUME NEW t \in Threads, NEW s \in Sale, MarkSellerPaid(t, s)
      PROVE  Inv'
  BY <1>1, <1>2, MarkSellerPaidKeepsLockInv DEF MarkSellerPaid, Settled
<1>3. ASSUME NEW t \in Threads, NEW u \in User, NEW type \in {"BUYER", "SELLER"},
             NEW delta \in {-1, 1}, AdjustPoints(t, u, type, delta)
      PROVE  Inv'
  <2>1. Settled'
    BY <1>3, RewardsAssumption DEF AdjustPoints, Settled
  <2> QED BY <1>1, <1>3, <2>1, AdjustPointsKeepsLockInv DEF AdjustPoints, EntryType
<1>4. ASSUME NEW t \in Threads, LockOrCreateRewards(t) PROVE Inv'
  BY <1>1, <1>4, LockOrCreateRewardsKeepsLockInv DEF LockOrCreateRewards, Settled
<1>5. ASSUME NEW t \in Threads, InsertRewards(t) PROVE Inv'
  BY <1>1, <1>5, InsertRewardsKeepsLockInv DEF InsertRewards, Settled
<1>6. ASSUME NEW t \in Threads, Commit(t) PROVE Inv'
  <2>1. LockInv' /\ LedgerExplainsBalances'
    BY <1>6, CommitKeepsLockInv, CommitKeepsLedger
  <2>2. TierFollowsPoints'
    BY <1>6, CommitRows DEF TierFollowsPoints
  <2>3. Settled'
    <3> DEFINE s == thread[t].sale
    <3>1. CASE s \notin Sale
      BY <1>6, <3>1 DEF Commit, Settled
    <3>2. CASE s \in Sale
      <4>1. seller[s] \in User /\ thread[t].row \in [User -> RewardsRow]
        BY <3>2, RewardsAssumption DEF LockInv, Typed, Transaction
      <4>2. thread[t].row[seller[s]].sellerPoints \in Int
        BY <4>1 DEF RewardsRow
      <4>3. CommissionBand(t, s) \in 0..Len(BandMins)
        <5>1. CommissionBand(t, s) \in DOMAIN BandMins
          BY <4>2, BandIsATier DEF CommissionBand
        <5>2. DOMAIN BandMins = 1..Len(BandMins) /\ Len(BandMins) \in Nat
          BY RewardsAssumption
        <5> QED BY <5>1, <5>2
      <4>4. /\ sellerPaid' = sellerPaid \cup {s}
            /\ priced' = [priced EXCEPT ![s] = CommissionBand(t, s)]
            /\ adjustments' = adjustments
        BY <1>6, <3>2 DEF Commit
      <4> HIDE DEF s
      <4> QED BY <3>2, <4>3, <4>4 DEF Settled
    <3> QED BY <3>1, <3>2
  <2> QED BY <2>1, <2>2, <2>3
<1>7. CASE UNCHANGED vars
  <2>1. LockInv' /\ Settled'
    BY <1>7 DEF vars, LockInv, Settled, Typed, Exclusive, LocksInOrder,
                ReadIsCurrent, Waiting
  <2> QED BY <1>1, <1>7, <2>1 DEF vars
<1> QED BY <1>2, <1>3, <1>4, <1>5, <1>6, <1>7 DEF Next

LEMMA Invariant == Spec => []Inv
  BY InvInitially, InvIsInductive, PTL DEF Spec

-----------------------------------------------------------------------------
(* Every reachable state is made of values the fields can hold; a tier is  *)
(* always one of those there are.                                          *)
THEOREM TypeCorrect == Spec => []TypeOK
<1>1. Inv => TypeOK
  <2> SUFFICES ASSUME Inv PROVE TypeOK
    OBVIOUS
  <2>1. \A u \in User : rewards[u] \in RewardsRow
    BY DEF Inv, LockInv, Typed
  <2>2. \A i \in DOMAIN ledger : ledger[i] \in LedgerEntry
    BY DEF Inv, LockInv, Typed
  <2>3. \A t \in Threads : thread[t] \in Transaction
    BY DEF Inv, LockInv, Typed
  <2>4. \A u \in User : /\ rewards[u].exists \in BOOLEAN
                        /\ rewards[u].buyerPoints \in Int
                        /\ rewards[u].sellerPoints \in Int
                        /\ rewards[u].tier \in DOMAIN BandMins
    BY <2>1 DEF RewardsRow
  <2>5. \A i \in DOMAIN ledger : ledger[i].user \in User
    BY <2>2 DEF LedgerEntry
  <2>6. \A t \in Threads : thread[t].at \in {"idle", "lock", "insert", "commit"}
    BY <2>3 DEF Transaction
  <2> QED BY <2>4, <2>5, <2>6 DEF TypeOK, Inv, Settled
<1> QED BY <1>1, Invariant, PTL

(* "Every point movement is logged": no credit is lost to another          *)
(* transaction, whatever they are and however many overlap.                *)
THEOREM LedgerExplainsBalancesAlways == Spec => []LedgerExplainsBalances
<1>1. Inv => LedgerExplainsBalances
  BY DEF Inv
<1> QED BY <1>1, Invariant, PTL

(* The tier on record is that of the points, so the commission is never    *)
(* that of a standing the seller does not have.                            *)
THEOREM TierFollowsPointsAlways == Spec => []TierFollowsPoints
<1>1. Inv => TierFollowsPoints
  BY DEF Inv
<1> QED BY <1>1, Invariant, PTL

(* If every transaction in progress waited, each would wait for one that   *)
(* wants a greater row than it does itself.  Of those the one that fewest  *)
(* others exceed has a contradiction: the one it waits for is exceeded by  *)
(* fewer still.                                                            *)
Exceeding(t) == {o \in Threads : Waiting(o) /\ Wanted(o) > Wanted(t)}

LEMMA LocksDoNotDeadlock == LockInv => SomeTransactionCanGoOn
<1> SUFFICES ASSUME LockInv, ~SomeTransactionCanGoOn PROVE FALSE
  OBVIOUS
<1> DEFINE Stuck == {t \in Threads : Waiting(t)}
<1>1. Stuck # {} /\ \A t \in Threads : thread[t].at # "commit"
  <2>1. \A t \in Threads : thread[t].at \in {"idle", "lock", "insert", "commit"}
    BY DEF LockInv, Typed, Transaction
  <2>2. PICK t \in Threads : thread[t].at # "idle"
    BY DEF SomeTransactionCanGoOn
  <2> QED BY <2>1, <2>2 DEF SomeTransactionCanGoOn, Waiting
<1>2. \A t \in Stuck : Wanted(t) \in Int
  <2> SUFFICES ASSUME NEW t \in Stuck PROVE Wanted(t) \in Int
    OBVIOUS
  <2>1. thread[t].locks \in Seq(User) /\ thread[t].locks # <<>>
    BY DEF LockInv, Typed, Transaction, LocksInOrder
  <2>2. Wanted(t) \in User
    BY <2>1 DEF Wanted
  <2> QED BY <2>2, RewardsAssumption
<1>3. ASSUME NEW t \in Stuck
      PROVE  \E o \in Stuck : Wanted(o) > Wanted(t)
  <2>1. \A q \in Stuck : LockedByOther(q, Wanted(q))
    BY DEF SomeTransactionCanGoOn, Waiting
  <2>2. PICK o \in Threads \ {t} : Wanted(t) \in thread[o].held
    BY <2>1 DEF LockedByOther
  <2>3. o \in Stuck
    BY <1>1, <2>2 DEF LockInv, LocksInOrder, Waiting, Typed, Transaction
  <2>4. PICK p \in Threads \ {o} : Wanted(o) \in thread[p].held
    BY <2>1, <2>3 DEF LockedByOther
  <2>5. Wanted(o) # Wanted(t)
    BY <2>2, <2>4 DEF LockInv, Exclusive
  <2>6. Wanted(t) <= Wanted(o)
    <3>1. thread[o].locks \in Seq(User) /\ thread[o].locks # <<>>
      BY <2>3 DEF LockInv, Typed, Transaction, LocksInOrder
    <3>2. 1 \in DOMAIN thread[o].locks /\ Wanted(o) = thread[o].locks[1]
      BY <3>1 DEF Wanted
    <3> QED BY <2>2, <3>2 DEF LockInv, LocksInOrder
  <2> QED BY <1>2, <2>3, <2>5, <2>6
<1>4. \A t \in Stuck : IsFiniteSet(Exceeding(t)) /\ Cardinality(Exceeding(t)) \in Nat
  <2>1. IsFiniteSet(Threads) /\ \A t : Exceeding(t) \in SUBSET Threads
    BY RewardsAssumption DEF Exceeding
  <2> QED BY <2>1, FS_Subset, FS_CardinalityType
<1>5. PICK t \in Stuck :
        \A o \in Stuck : Cardinality(Exceeding(t)) <= Cardinality(Exceeding(o))
  <2> DEFINE Sizes == {Cardinality(Exceeding(o)) : o \in Stuck}
  <2>1. Sizes \subseteq Nat /\ Sizes # {}
    BY <1>1, <1>4
  <2>2. PICK n \in Sizes : \A m \in Sizes : n <= m
    <3> HIDE DEF Sizes
    <3> QED BY <2>1, LeastElement
  <2> QED BY <2>2
<1>6. PICK o \in Stuck : Wanted(o) > Wanted(t)
  BY <1>3
<1>7. Exceeding(o) \in SUBSET Exceeding(t) /\ o \in Exceeding(t)
      /\ o \notin Exceeding(o)
  BY <1>2, <1>6 DEF Exceeding
<1>8. Cardinality(Exceeding(o)) < Cardinality(Exceeding(t))
  <2>1. /\ Cardinality(Exceeding(o)) <= Cardinality(Exceeding(t))
        /\ Cardinality(Exceeding(t)) = Cardinality(Exceeding(o)) =>
             Exceeding(t) = Exceeding(o)
    BY <1>4, <1>7, FS_Subset
  <2> QED BY <1>4, <1>7, <2>1
<1> QED BY <1>4, <1>5, <1>8

(* Locking "in a consistent order (by userId)" is enough "to avoid a       *)
(* deadlock" between any number of transactions over any number of users,  *)
(* rows still to be inserted included.                                     *)
THEOREM SomeTransactionCanGoOnAlways == Spec => []SomeTransactionCanGoOn
<1>1. Inv => SomeTransactionCanGoOn
  BY LocksDoNotDeadlock DEF Inv
<1> QED BY <1>1, Invariant, PTL

=============================================================================
