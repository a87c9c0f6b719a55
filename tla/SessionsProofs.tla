--------------------------- MODULE SessionsProofs ---------------------------
(***************************************************************************)
(* A verified address was proved, sessions end with what opened them and   *)
(* links are used once, for every number of accounts, addresses, tokens,   *)
(* links and requests at a time.                                           *)
(***************************************************************************)
EXTENDS Sessions, TLAPS

Stage == {"idle", "create", "save", "withdraw", "mail", "drop", "reset",
          "swap", "change", "issue", "clear", "remove"}
Request == [at: Stage, u: Users \cup {None}, row: User,
            ref: Token \cup Link \cup {None},
            then: {None, "verify", "reset", "change", "issue", "drop"},
            outdated: BOOLEAN]

Typed == TypeOK /\ call \in [Calls -> Request]

(* Two functions the program does not keep, but whose existence the         *)
(* invariant states: the address each account was registered with, and the *)
(* account each token was issued to.                                        *)
Firsts == [Users -> Email \cup {None}]
Owners == [Token -> Users \cup {None}]

(* The address an account was registered with counts as proved as soon as  *)
(* any other address has been the account's.                               *)
Address(u, e, first) == e = first[u] \/ first[u] \in proved[u]

(* A row of u, on record or about to be saved.                             *)
RowOK(u, row, first, owner) ==
  /\ row.email \in Email
  /\ row.isEmailVerified => row.email \in proved[u]
  /\ ~row.isEmailVerified => row.email = first[u]
  /\ Address(u, row.email, first)
  /\ row.hashedRefreshToken # None =>
       /\ u \in admitted
       /\ opened[row.hashedRefreshToken] # None
       /\ owner[row.hashedRefreshToken] = u

UserOK(u, first, owner) ==
  /\ user[u].state = "none" => user[u] = NoUser /\ u \notin admitted
  /\ user[u].state # "none" => RowOK(u, user[u], first, owner)
  /\ u \in admitted => first[u] \in proved[u]

(* A change of address is asked for by someone logged in; an accepted link *)
(* is gone.                                                                *)
LinkOK(l, first) ==
  /\ link[l] # None =>
       /\ user[link[l].u].state # "none" /\ mailed[l] \in Email
       /\ link[l].kind \in {"verify", "reset"} =>
            Address(link[l].u, mailed[l], first)
       /\ link[l].kind = "change" =>
            /\ link[l].u \in admitted
            /\ link[l].newEmail \in Email /\ mailed[l] = link[l].newEmail
  /\ l \in spent => link[l] # None /\ link[l].state = "gone"

(* What is true of a request at each of its steps; and that a copy nobody  *)
(* has overtaken agrees with the row.                                      *)
CallOK(w, first, owner) ==
  LET u == w.u row == w.row IN
  /\ w.at # "idle" => u \in Users
  /\ w.at \notin {"idle", "create"} => user[u].state # "none"
  /\ w.at = "create" =>
       /\ row.state = "live" /\ row.email \in Email
       /\ row.hashedRefreshToken = None
       /\ row.isEmailVerified => row.email \in proved[u]
       /\ w.ref = None /\ w.then \in {None, "verify", "issue"}
       /\ w.then = "issue" => row.isEmailVerified
  /\ w.at = "save" =>
       /\ row.state # "none" /\ RowOK(u, row, first, owner)
       /\ w.then \in {None, "issue", "drop"}
       /\ w.then = "issue" => first[u] \in proved[u] /\ w.ref = None
       /\ w.then = "drop" => w.ref \in Link /\ link[w.ref] # None
       /\ ~w.outdated =>
            /\ row.email = user[u].email /\ row.password = user[u].password
            /\ row.state = user[u].state
            /\ row.isActive => user[u].isActive
            /\ row.hashedRefreshToken \in {None, user[u].hashedRefreshToken}
  /\ w.at \in {"withdraw", "mail"} =>
       /\ row.email \in Email /\ w.then \in {"verify", "reset", "change"}
       /\ IF w.then = "change" THEN u \in admitted
          ELSE Address(u, row.email, first)
  /\ w.at = "drop" => w.ref \in Link /\ link[w.ref] # None
  /\ w.at \in {"reset", "swap"} =>
       /\ w.ref \in Link /\ link[w.ref] # None /\ link[w.ref].u = u
       /\ w.ref \in spent => w.outdated
  /\ w.at = "reset" => first[u] \in proved[u]
  /\ w.at = "swap" =>
       /\ u \in admitted /\ row.email \in Email /\ row.email \in proved[u]
  /\ w.at = "issue" =>
       /\ first[u] \in proved[u] /\ row.email \in Email
       /\ w.ref # None => /\ w.ref \in Token /\ opened[w.ref] # None
                          /\ owner[w.ref] = u
       /\ ~w.outdated => /\ row.email = user[u].email
                         /\ row.password = user[u].password

Told(first, owner) ==
  /\ \A u \in Users : UserOK(u, first, owner)
  /\ \A l \in Link : LinkOK(l, first)
  /\ \A t \in Token : t \in spent => opened[t] # None
  /\ \A c \in Calls : CallOK(call[c], first, owner)

Inv == Typed /\ \E first \in Firsts, owner \in Owners : Told(first, owner)

-----------------------------------------------------------------------------
(* The records are of their types, whichever fields a step changes.        *)
LEMMA IdleTyped == NoUser \in User /\ Idle \in Request
BY DEF NoUser, User, Idle, Request, Stage

LEMMA UserFields ==
  ASSUME NEW r \in User
  PROVE  /\ r.state \in {"none", "live", "deleted"}
         /\ r.email \in Email \cup {None}
         /\ r.isEmailVerified \in BOOLEAN /\ r.isActive \in BOOLEAN
         /\ r.password \in Password \cup {None} /\ r.social \in BOOLEAN
         /\ r.hashedRefreshToken \in Token \cup {None}
BY DEF User

LEMMA RequestFields ==
  ASSUME NEW w \in Request
  PROVE  /\ w.at \in Stage /\ w.u \in Users \cup {None} /\ w.row \in User
         /\ w.ref \in Token \cup Link \cup {None}
         /\ w.then \in {None, "verify", "reset", "change", "issue", "drop"}
         /\ w.outdated \in BOOLEAN
BY DEF Request

LEMMA AddressedTyped ==
  ASSUME NEW e \in Email \cup {None}, NEW p \in Password \cup {None}
  PROVE  /\ Addressed(e) \in User
         /\ [NoUser EXCEPT !.password = p] \in User
         /\ [Addressed(e) EXCEPT !.password = p] \in User
         /\ Addressed(e).email = e /\ [Addressed(e) EXCEPT !.password = p].email = e
         /\ [Addressed(e) EXCEPT !.password = p].password = p
         /\ [NoUser EXCEPT !.password = p].password = p
BY DEF Addressed, NoUser, User

LEMMA UnusedIsNone ==
  ASSUME NEW f, NEW x \in Unused(f)
  PROVE  x \in DOMAIN f /\ f[x] = None
<1>. DEFINE left == {y \in DOMAIN f : f[y] = None}
<1>1. left # {} /\ x \in {CHOOSE y \in left : TRUE}
  BY DEF Unused
<1>2. x \in left
  BY <1>1
<1>. QED
  BY <1>2

(* Beginning a call replaces one request, and leaves every other.          *)
LEMMA BeginSets ==
  ASSUME call \in [Calls -> Request], NEW c \in Calls,
         NEW u \in Users, NEW at \in Stage, NEW row \in User,
         NEW ref \in Token \cup Link \cup {None},
         NEW then \in {None, "verify", "reset", "change", "issue", "drop"},
         Begin(c, u, at, row, ref, then)
  PROVE  /\ call' \in [Calls -> Request]
         /\ call[c].at = "idle"
         /\ \A d \in Calls \ {c} : call'[d] = call[d]
         /\ call'[c] = [at |-> at, u |-> u, row |-> row, ref |-> ref,
                        then |-> then, outdated |-> FALSE]
BY DEF Begin, Request

(* Writing a row marks the other requests that read it.                    *)
OthersAreTold(c, u) ==
  \A d \in Calls \ {c} :
    /\ call'[d] = [call[d] EXCEPT !.outdated = call'[d].outdated]
    /\ call[d].outdated \/ call[d].u = u => call'[d].outdated

LEMMA WriteSets ==
  ASSUME Typed, NEW c \in Calls, call[c].u \in Users,
         NEW row \in User, NEW next \in Request, WriteUser(c, row, next)
  PROVE  /\ user' \in [Users -> User] /\ call' \in [Calls -> Request]
         /\ user'[call[c].u] = row
         /\ \A v \in Users \ {call[c].u} : user'[v] = user[v]
         /\ call'[c] = next
         /\ OthersAreTold(c, call[c].u)
<1>1. user' = [user EXCEPT ![call[c].u] = row]
  BY DEF WriteUser
<1>2. user' \in [Users -> User] /\ user'[call[c].u] = row
      /\ \A v \in Users \ {call[c].u} : user'[v] = user[v]
  BY <1>1 DEF Typed, TypeOK
<1>3. call' = [d \in Calls |-> IF d = c THEN next
               ELSE [call[d] EXCEPT !.outdated = @ \/ call[d].u = call[c].u]]
  BY DEF WriteUser
<1>4. call'[c] = next
  BY <1>3
<1>5. ASSUME NEW d \in Calls \ {c}
      PROVE  /\ call'[d] \in Request
             /\ call'[d] = [call[d] EXCEPT !.outdated = call'[d].outdated]
             /\ call[d].outdated \/ call[d].u = call[c].u => call'[d].outdated
  <2>. DEFINE o == call[d].outdated \/ call[d].u = call[c].u
  <2>1. call'[d] = [call[d] EXCEPT !.outdated = o]
    BY <1>3
  <2>2. o \in BOOLEAN
    BY Zenon
  <2>. HIDE DEF o
  <2>3. call[d] \in Request
    BY DEF Typed
  <2>4. call'[d] \in Request /\ call'[d].outdated = o
    BY <2>1, <2>2, <2>3 DEF Request
  <2>5. call'[d] = [call[d] EXCEPT !.outdated = call'[d].outdated]
    BY <2>1, <2>4
  <2>. QED
    BY <2>4, <2>5 DEF o
<1>6. call' \in [Calls -> Request]
  BY <1>3, <1>4, <1>5
<1>. QED
  BY <1>2, <1>4, <1>5, <1>6 DEF OthersAreTold

(* A request that ends.                                                    *)
LEMMA DoneSets ==
  ASSUME call \in [Calls -> Request], NEW c \in Calls, Done(c)
  PROVE  /\ call' \in [Calls -> Request] /\ call'[c] = Idle
         /\ \A d \in Calls \ {c} : call'[d] = call[d]
BY IdleTyped DEF Done

LEMMA GotoTyped ==
  ASSUME Typed, NEW c \in Calls, NEW at \in {None, "issue", "drop"}
  PROVE  /\ Goto(c, at) \in Request /\ ~Goto(c, at).outdated
         /\ at = None => Goto(c, at) = Idle
         /\ at # None => /\ Goto(c, at).at = at /\ Goto(c, at).u = call[c].u
                         /\ Goto(c, at).ref = call[c].ref
                         /\ Goto(c, at).row.email = call[c].row.email
                         /\ Goto(c, at).row.password = call[c].row.password
<1>1. call[c] \in Request /\ call[c].row \in User
  BY RequestFields DEF Typed
<1>2. CASE at = None
  BY <1>2, IdleTyped DEF Goto, Idle
<1>3. CASE at # None
  <2>. DEFINE row == [NoUser EXCEPT !.email = call[c].row.email,
                                    !.password = call[c].row.password]
  <2>1. row \in User /\ row.email = call[c].row.email
        /\ row.password = call[c].row.password
    BY <1>1, UserFields, IdleTyped DEF User, NoUser
  <2>2. Goto(c, at) = [at |-> at, u |-> call[c].u, row |-> row,
                       ref |-> call[c].ref, then |-> None, outdated |-> FALSE]
    BY <1>3 DEF Goto, Idle
  <2>. HIDE DEF row
  <2>. QED
    BY <1>1, <1>3, <2>1, <2>2, RequestFields DEF Request, Stage
<1>. QED
  BY <1>2, <1>3

-----------------------------------------------------------------------------
(* What no step takes back: accounts do not return to "none", addresses    *)
(* stay proved, links and tokens stay those of their account.              *)
Grows(first, owner, first2, owner2) ==
  /\ \A u \in Users : user[u].state # "none" =>
       user'[u].state # "none" /\ first2[u] = first[u]
  /\ \A u \in Users : proved[u] \subseteq proved'[u]
  /\ admitted \subseteq admitted'
  /\ \A t \in Token : opened[t] # None =>
       opened'[t] = opened[t] /\ owner2[t] = owner[t]
  /\ \A l \in Link : link[l] # None =>
       /\ link'[l] # None /\ mailed'[l] = mailed[l]
       /\ link'[l].u = link[l].u /\ link'[l].kind = link[l].kind
       /\ link'[l].newEmail = link[l].newEmail

(* An account the step did not write.                                      *)
LEMMA UserKept ==
  ASSUME Typed, NEW first \in Firsts, NEW owner \in Owners,
         NEW first2 \in Firsts, NEW owner2 \in Owners,
         Grows(first, owner, first2, owner2),
         NEW u \in Users, user'[u] = user[u], UserOK(u, first, owner),
         u \in admitted' => u \in admitted
  PROVE  UserOK(u, first2, owner2)'
<1>1. user[u] \in User
  BY DEF Typed, TypeOK
<1>2. CASE user[u].state = "none"
  BY <1>2 DEF UserOK
<1>3. CASE user[u].state # "none"
  <2>1. RowOK(u, user[u], first, owner)
    BY <1>3 DEF UserOK
  <2>2. RowOK(u, user[u], first2, owner2)'
    BY <1>1, <1>3, <2>1 DEF Grows, RowOK, Address, User
  <2>3. u \in admitted' => first2[u] \in proved'[u]
    BY <1>3 DEF UserOK, Grows
  <2>. QED
    BY <1>3, <2>2, <2>3 DEF UserOK
<1>. QED
  BY <1>2, <1>3

(* A link the step did not touch, or only aged or closed.                  *)
LEMMA LinkKept ==
  ASSUME Typed, NEW first \in Firsts, NEW owner \in Owners,
         NEW first2 \in Firsts, NEW owner2 \in Owners,
         Grows(first, owner, first2, owner2),
         NEW l \in Link, link[l] # None, LinkOK(l, first),
         l \in spent' => link'[l].state = "gone"
  PROVE  LinkOK(l, first2)'
<1>1. link[l] \in LinkRow /\ link[l].u \in Users
  BY DEF Typed, TypeOK, LinkRow
<1>. QED
  BY <1>1 DEF Grows, LinkOK, Address

(* A request the step did not carry on.                                    *)
CallKept(d) ==
  LET u == call[d].u IN
  /\ call'[d].at = call[d].at /\ call'[d].u = u /\ call'[d].row = call[d].row
  /\ call'[d].ref = call[d].ref /\ call'[d].then = call[d].then
  /\ call[d].outdated => call'[d].outdated
  /\ u \in Users /\ user'[u] # user[u] => call'[d].outdated
  /\ call[d].ref \in spent' => call[d].ref \in spent \/ call'[d].outdated
                               \/ call[d].at \notin {"reset", "swap"}

LEMMA OtherCallKept ==
  ASSUME Typed, NEW first \in Firsts, NEW owner \in Owners,
         NEW first2 \in Firsts, NEW owner2 \in Owners,
         Grows(first, owner, first2, owner2),
         NEW d \in Calls, CallOK(call[d], first, owner), CallKept(d)
  PROVE  CallOK(call[d], first2, owner2)'
<1>1. call[d] \in Request
  BY DEF Typed
<1>2. CASE call[d].at = "idle"
  BY <1>2 DEF CallKept, CallOK
<1>3. CASE call[d].at = "create"
  BY <1>1, <1>3 DEF CallKept, CallOK, Grows
<1>4. CASE call[d].at \notin {"idle", "create"}
  <2>. DEFINE u == call[d].u
  <2>1. u \in Users /\ user[u].state # "none" /\ call[d].row \in User
        /\ call[d].ref \in Token \cup Link \cup {None}
    BY <1>1, <1>4 DEF CallOK, Request
  <2>2. user'[u].state # "none" /\ first2[u] = first[u]
        /\ proved[u] \subseteq proved'[u] /\ admitted \subseteq admitted'
    BY <2>1 DEF Grows
  <2>3. CASE call[d].at = "save"
    <3>1. RowOK(u, call[d].row, first2, owner2)'
      BY <2>1, <2>3 DEF CallOK, CallKept, Grows, RowOK, Address, User
    <3>2. call[d].then = "drop" => call[d].ref \in Link /\ link'[call[d].ref] # None
      BY <2>3 DEF CallOK, Grows
    <3>3. ~call'[d].outdated => ~call[d].outdated /\ user'[u] = user[u]
      BY <2>1 DEF CallKept
    <3>4. call'[d].at = "save" /\ call'[d].u = u /\ call'[d].row = call[d].row
          /\ call'[d].ref = call[d].ref /\ call'[d].then = call[d].then
      BY <2>3 DEF CallKept
    <3>. QED
      BY <2>1, <2>2, <2>3, <3>1, <3>2, <3>3, <3>4 DEF CallOK
  <2>4. CASE call[d].at \in {"withdraw", "mail"}
    BY <2>1, <2>2, <2>4 DEF CallOK, CallKept, Address
  <2>5. CASE call[d].at = "drop"
    BY <2>1, <2>2, <2>5 DEF CallOK, CallKept, Grows
  <2>6. CASE call[d].at \in {"reset", "swap"}
    BY <2>1, <2>2, <2>6 DEF CallOK, CallKept, Grows
  <2>7. CASE call[d].at = "issue"
    <3>1. call[d].ref # None =>
            /\ call[d].ref \in Token /\ opened'[call[d].ref] # None
            /\ owner2[call[d].ref] = u
      BY <2>7 DEF CallOK, Grows
    <3>3. ~call'[d].outdated => ~call[d].outdated /\ user'[u] = user[u]
      BY <2>1 DEF CallKept
    <3>. QED
      BY <2>1, <2>2, <2>7, <3>1, <3>3 DEF CallOK, CallKept
  <2>8. CASE call[d].at \in {"change", "clear", "remove"}
    BY <2>1, <2>2, <2>8 DEF CallOK, CallKept
  <2>. QED
    BY <1>1, <1>4, <2>3, <2>4, <2>5, <2>6, <2>7, <2>8 DEF Request, Stage
<1>. QED
  BY <1>2, <1>3, <1>4

-----------------------------------------------------------------------------
(* A step that begins a call, or whose call only touches links.            *)
LEMMA BeginKeeps ==
  ASSUME Typed, NEW first \in Firsts, NEW owner \in Owners,
         Told(first, owner), NEW c \in Calls,
         UNCHANGED <<user, link, admitted, opened, mailed, spent>>,
         proved' \in [Users -> SUBSET Email],
         \A u \in Users : proved[u] \subseteq proved'[u],
         call' \in [Calls -> Request],
         \A d \in Calls \ {c} : call'[d] = call[d],
         CallOK(call[c], first, owner)'
  PROVE  Typed' /\ Told(first, owner)'
<1>1. Typed'
  <2>1. \A d \in Calls : /\ call'[d].u \in Users \cup {None}
                         /\ call'[d].row \in User
                         /\ call'[d].ref \in Token \cup Link \cup {None}
                         /\ call'[d].outdated \in BOOLEAN
    BY RequestFields
  <2>. QED
    BY <2>1 DEF Typed, TypeOK
<1>2. Grows(first, owner, first, owner)
  BY DEF Grows
<1>3. ASSUME NEW u \in Users PROVE UserOK(u, first, owner)'
  BY <1>2, UserKept DEF Told
<1>4. ASSUME NEW l \in Link PROVE LinkOK(l, first)'
  <2>1. CASE link[l] = None
    BY <2>1 DEF Told, LinkOK
  <2>2. CASE link[l] # None
    <3>1. LinkOK(l, first) /\ (l \in spent' => link'[l].state = "gone")
      BY DEF Told, LinkOK
    <3>. QED
      BY <1>2, <2>2, <3>1, LinkKept
  <2>. QED
    BY <2>1, <2>2
<1>5. ASSUME NEW d \in Calls PROVE CallOK(call[d], first, owner)'
  <2>1. CASE d = c
    BY <2>1
  <2>2. CASE d # c
    <3>1. CallKept(d)
      BY <2>2 DEF CallKept
    <3>. QED
      BY <1>2, <3>1, OtherCallKept DEF Told
  <2>. QED
    BY <2>1, <2>2
<1>6. \A t \in Token : t \in spent' => opened'[t] # None
  BY DEF Told
<1>. QED
  BY <1>1, <1>3, <1>4, <1>5, <1>6 DEF Told

(* A step that only touches links: they stay those of their account.       *)
LEMMA LinkStepKeeps ==
  ASSUME Typed, NEW first \in Firsts, NEW owner \in Owners,
         Told(first, owner),
         UNCHANGED <<user, admitted, opened, proved, spent>>,
         link' \in [Link -> LinkRow \cup {None}],
         mailed' \in [Link -> Email \cup {None}],
         Grows(first, owner, first, owner),
         \A l \in Link : LinkOK(l, first)',
         call' \in [Calls -> Request],
         \A d \in Calls : call'[d] = call[d] \/ CallOK(call[d], first, owner)'
  PROVE  Typed' /\ Told(first, owner)'
<1>1. Typed'
  <2>1. \A d \in Calls : /\ call'[d].u \in Users \cup {None}
                         /\ call'[d].row \in User
                         /\ call'[d].ref \in Token \cup Link \cup {None}
                         /\ call'[d].outdated \in BOOLEAN
    BY RequestFields
  <2>. QED
    BY <2>1 DEF Typed, TypeOK
<1>3. ASSUME NEW u \in Users PROVE UserOK(u, first, owner)'
  BY UserKept DEF Told
<1>5. ASSUME NEW d \in Calls PROVE CallOK(call[d], first, owner)'
  <2>1. CASE CallOK(call[d], first, owner)'
    BY <2>1
  <2>2. CASE call'[d] = call[d]
    <3>1. CallKept(d)
      BY <2>2 DEF CallKept
    <3>. QED
      BY <3>1, OtherCallKept DEF Told
  <2>. QED
    BY <2>1, <2>2
<1>6. \A t \in Token : t \in spent' => opened'[t] # None
  BY DEF Told
<1>. QED
  BY <1>1, <1>3, <1>5, <1>6 DEF Told

(* A step in which a call writes the row of its account.                   *)
LEMMA WriteKeeps ==
  ASSUME Typed, NEW first \in Firsts, NEW owner \in Owners,
         NEW first2 \in Firsts, NEW owner2 \in Owners,
         Told(first, owner), Grows(first, owner, first2, owner2),
         NEW c \in Calls, NEW u \in Users,
         \A v \in Users \ {u} : user'[v] = user[v],
         \A v \in Users \ {u} : v \in admitted' => v \in admitted,
         OthersAreTold(c, u),
         spent' \subseteq spent \cup {call[c].ref},
         call[c].ref \in spent' /\ call[c].ref \in Link =>
           call[c].ref \in spent \/ link[call[c].ref].u = u,
         UserOK(u, first2, owner2)',
         \A l \in Link : LinkOK(l, first2)',
         \A t \in Token : t \in spent' => opened'[t] # None,
         CallOK(call[c], first2, owner2)'
  PROVE  Told(first2, owner2)'
<1>1. ASSUME NEW v \in Users PROVE UserOK(v, first2, owner2)'
  <2>1. CASE v = u
    BY <2>1
  <2>2. CASE v # u
    BY <2>2, UserKept DEF Told
  <2>. QED
    BY <2>1, <2>2
<1>2. ASSUME NEW d \in Calls PROVE CallOK(call[d], first2, owner2)'
  <2>1. CASE d = c
    BY <2>1
  <2>2. CASE d # c
    <3>1. call[d] \in Request /\ CallOK(call[d], first, owner)
      BY DEF Typed, Told
    <3>2. /\ call'[d] = [call[d] EXCEPT !.outdated = call'[d].outdated]
          /\ call[d].outdated \/ call[d].u = u => call'[d].outdated
      BY <2>2 DEF OthersAreTold
    <3>3. /\ call'[d].at = call[d].at /\ call'[d].u = call[d].u
          /\ call'[d].row = call[d].row /\ call'[d].ref = call[d].ref
          /\ call'[d].then = call[d].then
      BY <3>1, <3>2 DEF Request
    <3>4. call[d].at \in {"reset", "swap"} =>
            call[d].ref \in Link /\ link[call[d].ref].u = call[d].u
      BY <3>1 DEF CallOK
    <3>5. call[d].ref \in spent' => call[d].ref \in spent \/ call'[d].outdated
                                     \/ call[d].at \notin {"reset", "swap"}
      BY <3>2, <3>4
    <3>6. CallKept(d)
      BY <3>2, <3>3, <3>5 DEF CallKept
    <3>. QED
      BY <3>1, <3>6, OtherCallKept
  <2>. QED
    BY <2>1, <2>2
<1>. QED
  BY <1>1, <1>2 DEF Told

-----------------------------------------------------------------------------
(* The calls that begin, one by one.                                       *)
LEMMA ResendVerificationKeeps ==
  ASSUME Typed, NEW first \in Firsts, NEW owner \in Owners,
         Told(first, owner), NEW c \in Calls, NEW u \in Users,
         ResendVerification(c, u)
  PROVE  Typed' /\ Told(first, owner)'
<1>1. user[u] \in User /\ UserOK(u, first, owner) /\ user[u].state # "none"
  BY DEF Typed, TypeOK, Told, ResendVerification, Live, Entered, UserOK
<1>2. Begin(c, u, "withdraw", Addressed(user[u].email), None, "verify")
  BY DEF ResendVerification
<1>3. Addressed(user[u].email) \in User
  BY <1>1, UserFields, AddressedTyped
<1>4. UNCHANGED <<user, link, admitted, opened, mailed, proved, spent>>
  BY DEF ResendVerification
<1>5. /\ call' \in [Calls -> Request]
      /\ \A d \in Calls \ {c} : call'[d] = call[d]
      /\ call'[c] = [at |-> "withdraw", u |-> u, row |-> Addressed(user[u].email),
                     ref |-> None, then |-> "verify", outdated |-> FALSE]
  BY <1>2, <1>3 DEF Begin, Typed, Request, Stage
<1>6. CallOK(call[c], first, owner)'
  <2>1. /\ call'[c].at = "withdraw" /\ call'[c].u = u
        /\ call'[c].then = "verify" /\ call'[c].row.email = user[u].email
    <3>1. Addressed(user[u].email).email = user[u].email
      BY <1>1, AddressedTyped, UserFields
    <3>. QED
      BY <1>5, <3>1
  <2>2. user[u].email \in Email /\ Address(u, user[u].email, first)'
    BY <1>1, <1>4 DEF UserOK, RowOK, Address
  <2>3. user'[u].state # "none"
    BY <1>1, <1>4
  <2>. QED
    BY <1>4, <2>1, <2>2, <2>3 DEF CallOK, Address
<1>7. proved' \in [Users -> SUBSET Email]
  BY <1>4 DEF Typed, TypeOK
<1>. QED
  BY <1>4, <1>5, <1>6, <1>7, BeginKeeps

LEMMA RequestPasswordResetKeeps ==
  ASSUME Typed, NEW first \in Firsts, NEW owner \in Owners,
         Told(first, owner), NEW c \in Calls, NEW u \in Users,
         RequestPasswordReset(c, u)
  PROVE  Typed' /\ Told(first, owner)'
<1>1. user[u] \in User /\ UserOK(u, first, owner) /\ user[u].state # "none"
  BY DEF Typed, TypeOK, Told, RequestPasswordReset, Live, Entered, UserOK
<1>2. Begin(c, u, "withdraw", Addressed(user[u].email), None, "reset")
  BY DEF RequestPasswordReset
<1>3. Addressed(user[u].email) \in User
  BY <1>1, UserFields, AddressedTyped
<1>4. UNCHANGED <<user, link, admitted, opened, mailed, proved, spent>>
  BY DEF RequestPasswordReset
<1>5. /\ call' \in [Calls -> Request]
      /\ \A d \in Calls \ {c} : call'[d] = call[d]
      /\ call'[c] = [at |-> "withdraw", u |-> u, row |-> Addressed(user[u].email),
                     ref |-> None, then |-> "reset", outdated |-> FALSE]
  BY <1>2, <1>3 DEF Begin, Typed, Request, Stage
<1>6. CallOK(call[c], first, owner)'
  <2>1. /\ call'[c].at = "withdraw" /\ call'[c].u = u
        /\ call'[c].then = "reset" /\ call'[c].row.email = user[u].email
    <3>1. Addressed(user[u].email).email = user[u].email
      BY <1>1, AddressedTyped, UserFields
    <3>. QED
      BY <1>5, <3>1
  <2>2. user[u].email \in Email /\ Address(u, user[u].email, first)'
    BY <1>1, <1>4 DEF UserOK, RowOK, Address
  <2>3. user'[u].state # "none"
    BY <1>1, <1>4
  <2>. QED
    BY <1>4, <2>1, <2>2, <2>3 DEF CallOK, Address
<1>7. proved' \in [Users -> SUBSET Email]
  BY <1>4 DEF Typed, TypeOK
<1>. QED
  BY <1>4, <1>5, <1>6, <1>7, BeginKeeps

LEMMA RequestEmailChangeKeeps ==
  ASSUME Typed, NEW first \in Firsts, NEW owner \in Owners,
         Told(first, owner), NEW c \in Calls, NEW u \in Users, NEW e \in Email,
         RequestEmailChange(c, u, e)
  PROVE  Typed' /\ Told(first, owner)'
<1>1. user[u] \in User /\ UserOK(u, first, owner) /\ user[u].state # "none"
  BY DEF Typed, TypeOK, Told, RequestEmailChange, Live, Entered, UserOK
<1>2. Begin(c, u, "withdraw", Addressed(e), None, "change")
  BY DEF RequestEmailChange
<1>3. Addressed(e) \in User
  BY AddressedTyped
<1>4. UNCHANGED <<user, link, admitted, opened, mailed, proved, spent>>
  BY DEF RequestEmailChange
<1>5. /\ call' \in [Calls -> Request]
      /\ \A d \in Calls \ {c} : call'[d] = call[d]
      /\ call'[c] = [at |-> "withdraw", u |-> u, row |-> Addressed(e),
                     ref |-> None, then |-> "change", outdated |-> FALSE]
  BY <1>2, <1>3 DEF Begin, Typed, Request, Stage
<1>6. CallOK(call[c], first, owner)'
  <2>1. /\ call'[c].at = "withdraw" /\ call'[c].u = u
        /\ call'[c].then = "change" /\ call'[c].row.email = e
    <3>1. Addressed(e).email = e
      BY AddressedTyped
    <3>. QED
      BY <1>5, <3>1
  <2>2. user'[u].state # "none" /\ u \in admitted'
    BY <1>1, <1>4 DEF RequestEmailChange, Entered
  <2>. QED
    BY <2>1, <2>2 DEF CallOK
<1>7. proved' \in [Users -> SUBSET Email]
  BY <1>4 DEF Typed, TypeOK
<1>. QED
  BY <1>4, <1>5, <1>6, <1>7, BeginKeeps

LEMMA ChangePasswordKeeps ==
  ASSUME Typed, NEW first \in Firsts, NEW owner \in Owners,
         Told(first, owner), NEW c \in Calls, NEW u \in Users, NEW p \in Password,
         ChangePassword(c, u, p)
  PROVE  Typed' /\ Told(first, owner)'
<1>1. user[u] \in User /\ UserOK(u, first, owner) /\ user[u].state # "none"
  BY DEF Typed, TypeOK, Told, ChangePassword, Live, Entered, UserOK
<1>2. Begin(c, u, "change", [NoUser EXCEPT !.password = p], None, None)
  BY DEF ChangePassword
<1>3. [NoUser EXCEPT !.password = p] \in User
  BY AddressedTyped
<1>4. UNCHANGED <<user, link, admitted, opened, mailed, proved, spent>>
  BY DEF ChangePassword
<1>5. /\ call' \in [Calls -> Request]
      /\ \A d \in Calls \ {c} : call'[d] = call[d]
      /\ call'[c] = [at |-> "change", u |-> u,
                      row |-> [NoUser EXCEPT !.password = p],
                     ref |-> None, then |-> None, outdated |-> FALSE]
  BY <1>2, <1>3 DEF Begin, Typed, Request, Stage
<1>6. CallOK(call[c], first, owner)'
  BY <1>1, <1>4, <1>5 DEF CallOK
<1>7. proved' \in [Users -> SUBSET Email]
  BY <1>4 DEF Typed, TypeOK
<1>. QED
  BY <1>4, <1>5, <1>6, <1>7, BeginKeeps

LEMMA OtherSaveKeeps ==
  ASSUME Typed, NEW first \in Firsts, NEW owner \in Owners,
         Told(first, owner), NEW c \in Calls, NEW u \in Users,
         OtherSave(c, u)
  PROVE  Typed' /\ Told(first, owner)'
<1>1. user[u] \in User /\ UserOK(u, first, owner) /\ user[u].state # "none"
  BY DEF Typed, TypeOK, Told, OtherSave, Live, Entered, UserOK
<1>2. Begin(c, u, "save", user[u], None, None)
  BY DEF OtherSave
<1>3. user[u] \in User
  BY <1>1
<1>4. UNCHANGED <<user, link, admitted, opened, mailed, proved, spent>>
  BY DEF OtherSave
<1>5. /\ call' \in [Calls -> Request]
      /\ \A d \in Calls \ {c} : call'[d] = call[d]
      /\ call'[c] = [at |-> "save", u |-> u, row |-> user[u],
                     ref |-> None, then |-> None, outdated |-> FALSE]
  BY <1>2, <1>3 DEF Begin, Typed, Request, Stage
<1>6. CallOK(call[c], first, owner)'
  <2>. DEFINE row == user[u]
  <2>1. /\ call'[c].at = "save" /\ call'[c].u = u /\ call'[c].row = row
        /\ call'[c].ref = None /\ call'[c].then = None
    BY <1>5
  <2>2. /\ row.email = user[u].email /\ row.password = user[u].password
        /\ row.state = user[u].state
        /\ row.isEmailVerified = user[u].isEmailVerified
        /\ row.isActive => user[u].isActive
        /\ row.hashedRefreshToken \in {None, user[u].hashedRefreshToken}
    BY <1>1 DEF User
  <2>. HIDE DEF row
  <2>3. RowOK(u, user[u], first, owner) /\ user'[u].state # "none"
    BY <1>1, <1>4 DEF UserOK
  <2>4. RowOK(u, call[c].row, first, owner)'
    BY <1>4, <2>1, <2>2, <2>3 DEF RowOK, Address
  <2>5. user' = user
    BY <1>4
  <2>. QED
    <3>1. \/ call'[c].outdated
          \/ /\ row.email = user'[u].email /\ row.password = user'[u].password
             /\ row.state = user'[u].state
             /\ row.isActive => user'[u].isActive
             /\ row.hashedRefreshToken \in {None, user'[u].hashedRefreshToken}
      BY <2>2, <2>5
    <3>. QED
      BY <1>1, <2>1, <2>2, <2>3, <2>4, <3>1, SessionsAssumption DEF CallOK
<1>7. proved' \in [Users -> SUBSET Email]
  BY <1>4 DEF Typed, TypeOK
<1>. QED
  BY <1>4, <1>5, <1>6, <1>7, BeginKeeps

LEMMA DeleteUserKeeps ==
  ASSUME Typed, NEW first \in Firsts, NEW owner \in Owners,
         Told(first, owner), NEW c \in Calls, NEW u \in Users,
         DeleteUser(c, u)
  PROVE  Typed' /\ Told(first, owner)'
<1>1. user[u] \in User /\ UserOK(u, first, owner) /\ user[u].state # "none"
  BY DEF Typed, TypeOK, Told, DeleteUser, Live, Entered, UserOK
<1>2. Begin(c, u, "remove", NoUser, None, None)
  BY DEF DeleteUser
<1>3. NoUser \in User
  BY IdleTyped
<1>4. UNCHANGED <<user, link, admitted, opened, mailed, proved, spent>>
  BY DEF DeleteUser
<1>5. /\ call' \in [Calls -> Request]
      /\ \A d \in Calls \ {c} : call'[d] = call[d]
      /\ call'[c] = [at |-> "remove", u |-> u, row |-> NoUser,
                     ref |-> None, then |-> None, outdated |-> FALSE]
  BY <1>2, <1>3 DEF Begin, Typed, Request, Stage
<1>6. CallOK(call[c], first, owner)'
  BY <1>1, <1>4, <1>5 DEF CallOK
<1>7. proved' \in [Users -> SUBSET Email]
  BY <1>4 DEF Typed, TypeOK
<1>. QED
  BY <1>4, <1>5, <1>6, <1>7, BeginKeeps

LEMMA SuspendUserKeeps ==
  ASSUME Typed, NEW first \in Firsts, NEW owner \in Owners,
         Told(first, owner), NEW c \in Calls, NEW u \in Users,
         SuspendUser(c, u)
  PROVE  Typed' /\ Told(first, owner)'
<1>1. user[u] \in User /\ UserOK(u, first, owner) /\ user[u].state # "none"
  BY DEF Typed, TypeOK, Told, SuspendUser, Live, Entered, UserOK
<1>2. Begin(c, u, "save",
            [user[u] EXCEPT !.isActive = FALSE, !.hashedRefreshToken = None],
             None, None)
  BY DEF SuspendUser
<1>3. [user[u] EXCEPT !.isActive = FALSE, !.hashedRefreshToken = None] \in User
  BY <1>1 DEF User
<1>4. UNCHANGED <<user, link, admitted, opened, mailed, proved, spent>>
  BY DEF SuspendUser
<1>5. /\ call' \in [Calls -> Request]
      /\ \A d \in Calls \ {c} : call'[d] = call[d]
      /\ call'[c] = [at |-> "save", u |-> u,
                     row |-> [user[u] EXCEPT !.isActive = FALSE,
                                             !.hashedRefreshToken = None],
                     ref |-> None, then |-> None, outdated |-> FALSE]
  BY <1>2, <1>3 DEF Begin, Typed, Request, Stage
<1>6. CallOK(call[c], first, owner)'
  <2>. DEFINE row == [user[u] EXCEPT !.isActive = FALSE,
                                !.hashedRefreshToken = None]
  <2>1. /\ call'[c].at = "save" /\ call'[c].u = u /\ call'[c].row = row
        /\ call'[c].ref = None /\ call'[c].then = None
    BY <1>5
  <2>2. /\ row.email = user[u].email /\ row.password = user[u].password
        /\ row.state = user[u].state
        /\ row.isEmailVerified = user[u].isEmailVerified
        /\ row.isActive => user[u].isActive
        /\ row.hashedRefreshToken \in {None, user[u].hashedRefreshToken}
    BY <1>1 DEF User
  <2>. HIDE DEF row
  <2>3. RowOK(u, user[u], first, owner) /\ user'[u].state # "none"
    BY <1>1, <1>4 DEF UserOK
  <2>4. RowOK(u, call[c].row, first, owner)'
    BY <1>4, <2>1, <2>2, <2>3 DEF RowOK, Address
  <2>5. user' = user
    BY <1>4
  <2>. QED
    <3>1. \/ call'[c].outdated
          \/ /\ row.email = user'[u].email /\ row.password = user'[u].password
             /\ row.state = user'[u].state
             /\ row.isActive => user'[u].isActive
             /\ row.hashedRefreshToken \in {None, user'[u].hashedRefreshToken}
      BY <2>2, <2>5
    <3>. QED
      BY <1>1, <2>1, <2>2, <2>3, <2>4, <3>1, SessionsAssumption DEF CallOK
<1>7. proved' \in [Users -> SUBSET Email]
  BY <1>4 DEF Typed, TypeOK
<1>. QED
  BY <1>4, <1>5, <1>6, <1>7, BeginKeeps

LEMMA LoginKeeps ==
  ASSUME Typed, NEW first \in Firsts, NEW owner \in Owners,
         Told(first, owner), NEW c \in Calls, NEW u \in Users,
         Login(c, u)
  PROVE  Typed' /\ Told(first, owner)'
<1>1. user[u] \in User /\ UserOK(u, first, owner) /\ user[u].state # "none"
  BY DEF Typed, TypeOK, Told, Login, Live, Entered, UserOK
<1>2. Begin(c, u, "issue", Credentials(u), None, None)
  BY DEF Login
<1>3. Credentials(u) \in User
  BY <1>1, UserFields, AddressedTyped DEF Credentials
<1>4. UNCHANGED <<user, link, admitted, opened, mailed, proved, spent>>
  BY DEF Login
<1>5. /\ call' \in [Calls -> Request]
      /\ \A d \in Calls \ {c} : call'[d] = call[d]
      /\ call'[c] = [at |-> "issue", u |-> u, row |-> Credentials(u),
                     ref |-> None, then |-> None, outdated |-> FALSE]
  BY <1>2, <1>3 DEF Begin, Typed, Request, Stage
<1>6. CallOK(call[c], first, owner)'
  <2>1. /\ call'[c].at = "issue" /\ call'[c].u = u /\ call'[c].ref = None
        /\ call'[c].row.email = user[u].email
        /\ call'[c].row.password = user[u].password
    <3>1. Credentials(u).email = user[u].email
          /\ Credentials(u).password = user[u].password
      BY <1>1 DEF Credentials, Addressed, NoUser, User
    <3>. QED
      BY <1>5, <3>1
  <2>2. first[u] \in proved[u] /\ user[u].email \in Email
    BY <1>1 DEF UserOK, RowOK, Address, Login
  <2>. QED
    BY <1>1, <1>4, <2>1, <2>2 DEF CallOK
<1>7. proved' \in [Users -> SUBSET Email]
  BY <1>4 DEF Typed, TypeOK
<1>. QED
  BY <1>4, <1>5, <1>6, <1>7, BeginKeeps

LEMMA LogoutKeeps ==
  ASSUME Typed, NEW first \in Firsts, NEW owner \in Owners,
         Told(first, owner), NEW c \in Calls, NEW u \in Users,
         Logout(c, u)
  PROVE  Typed' /\ Told(first, owner)'
<1>1. user[u] \in User /\ UserOK(u, first, owner) /\ user[u].state # "none"
  BY DEF Typed, TypeOK, Told, Logout, Live, Entered, UserOK
<1>2. Begin(c, u, "clear", NoUser, None, None)
  BY DEF Logout
<1>3. NoUser \in User
  BY IdleTyped
<1>4. UNCHANGED <<user, link, admitted, opened, mailed, proved, spent>>
  BY DEF Logout
<1>5. /\ call' \in [Calls -> Request]
      /\ \A d \in Calls \ {c} : call'[d] = call[d]
      /\ call'[c] = [at |-> "clear", u |-> u, row |-> NoUser,
                     ref |-> None, then |-> None, outdated |-> FALSE]
  BY <1>2, <1>3 DEF Begin, Typed, Request, Stage
<1>6. CallOK(call[c], first, owner)'
  BY <1>1, <1>4, <1>5 DEF CallOK
<1>7. proved' \in [Users -> SUBSET Email]
  BY <1>4 DEF Typed, TypeOK
<1>. QED
  BY <1>4, <1>5, <1>6, <1>7, BeginKeeps

LEMMA RegisterKeeps ==
  ASSUME Typed, NEW first \in Firsts, NEW owner \in Owners,
         Told(first, owner), NEW c \in Calls, NEW u \in Users, NEW e \in Email,
         NEW p \in Password, NEW staff \in BOOLEAN,
         Register(c, u, e, p, staff)
  PROVE  Typed' /\ Told(first, owner)'
<1>. DEFINE row == [NoUser EXCEPT !.state = "live", !.email = e, !.password = p]
            then == IF staff THEN None ELSE "verify"
<1>1. row \in User /\ row.state = "live" /\ row.email = e
      /\ row.hashedRefreshToken = None /\ ~row.isEmailVerified
  BY DEF NoUser, User
<1>2. then \in {None, "verify"}
  OBVIOUS
<1>3. Begin(c, u, "create", row, None, then)
  BY DEF Register
<1>. HIDE DEF row, then
<1>4. UNCHANGED <<user, link, admitted, opened, mailed, proved, spent>>
  BY DEF Register
<1>5. /\ call' \in [Calls -> Request]
      /\ \A d \in Calls \ {c} : call'[d] = call[d]
      /\ call'[c] = [at |-> "create", u |-> u, row |-> row,
                     ref |-> None, then |-> then, outdated |-> FALSE]
  BY <1>1, <1>2, <1>3 DEF Begin, Typed, Request, Stage
<1>6. CallOK(call[c], first, owner)'
  BY <1>1, <1>2, <1>5, SessionsAssumption DEF CallOK
<1>7. proved' \in [Users -> SUBSET Email]
  BY <1>4 DEF Typed, TypeOK
<1>. QED
  BY <1>4, <1>5, <1>6, <1>7, BeginKeeps

LEMMA SocialLoginKeeps ==
  ASSUME Typed, NEW first \in Firsts, NEW owner \in Owners,
         Told(first, owner), NEW c \in Calls, NEW u \in Users, NEW e \in Email,
         SocialLogin(c, u, e)
  PROVE  Typed' /\ Told(first, owner)'
<1>1. user[u] \in User /\ UserOK(u, first, owner)
  BY DEF Typed, TypeOK, Told
<1>2. /\ UNCHANGED <<user, link, admitted, opened, mailed, spent>>
      /\ proved' = IF user[u].social THEN proved
                   ELSE [proved EXCEPT ![u] = @ \cup {e}]
  BY DEF SocialLogin
<1>3. /\ proved' \in [Users -> SUBSET Email]
      /\ \A v \in Users : proved[v] \subseteq proved'[v]
      /\ ~user[u].social => e \in proved'[u]
  <2>1. CASE user[u].social
    BY <1>2, <2>1 DEF Typed, TypeOK
  <2>2. CASE ~user[u].social
    BY <1>2, <2>2 DEF Typed, TypeOK
  <2>. QED
    BY <2>1, <2>2
<1>4. ASSUME Live(u), user[u].social, user[u].isEmailVerified,
             Begin(c, u, "issue", Credentials(u), None, None)
      PROVE  Typed' /\ Told(first, owner)'
  <2>1. /\ Credentials(u) \in User
        /\ Credentials(u).email = user[u].email
        /\ Credentials(u).password = user[u].password
    BY <1>1 DEF Credentials, Addressed, NoUser, User
  <2>2. /\ call' \in [Calls -> Request]
        /\ \A d \in Calls \ {c} : call'[d] = call[d]
        /\ call'[c] = [at |-> "issue", u |-> u, row |-> Credentials(u),
                       ref |-> None, then |-> None, outdated |-> FALSE]
    BY <1>4, <2>1 DEF Begin, Typed, Request, Stage
  <2>3. /\ first[u] \in proved'[u] /\ user[u].email \in Email
        /\ user[u].state # "none"
    BY <1>1, <1>3, <1>4 DEF UserOK, RowOK, Address, Live
  <2>4. CallOK(call[c], first, owner)'
    BY <1>2, <2>1, <2>2, <2>3 DEF CallOK
  <2>. QED
    BY <1>2, <1>3, <2>2, <2>4, BeginKeeps
<1>5. ASSUME Live(u), ~user[u].social, user[u].email = e,
             Begin(c, u, "save", [user[u] EXCEPT !.social = TRUE,
                                    !.isEmailVerified = TRUE], None, "issue")
      PROVE  Typed' /\ Told(first, owner)'
  <2>. DEFINE row == [user[u] EXCEPT !.social = TRUE, !.isEmailVerified = TRUE]
  <2>1. row \in User /\ row = [user[u] EXCEPT !.social = TRUE,
                                              !.isEmailVerified = TRUE]
    BY <1>1 DEF User
  <2>2. /\ row.email = e /\ row.password = user[u].password
        /\ row.state = user[u].state /\ row.isActive = user[u].isActive
        /\ row.hashedRefreshToken = user[u].hashedRefreshToken
    BY <1>1, <1>5 DEF User
  <2>. HIDE DEF row
  <2>3. /\ call' \in [Calls -> Request]
        /\ \A d \in Calls \ {c} : call'[d] = call[d]
        /\ call'[c] = [at |-> "save", u |-> u, row |-> row,
                       ref |-> None, then |-> "issue", outdated |-> FALSE]
    BY <1>5, <2>1 DEF Begin, Typed, Request, Stage
  <2>4. RowOK(u, user[u], first, owner) /\ user[u].state # "none"
    BY <1>1, <1>5 DEF UserOK, Live
  <2>5. first[u] \in proved'[u] /\ e \in proved'[u]
    BY <1>3, <1>5, <2>4 DEF RowOK, Address
  <2>6. RowOK(u, call[c].row, first, owner)'
    <3>1. /\ call'[c].row = row /\ admitted' = admitted /\ opened' = opened
          /\ row.email \in proved'[u]
      BY <1>2, <2>2, <2>3, <2>5
    <3>2. row.isEmailVerified
      BY <1>1, <2>1 DEF User
    <3>. QED
      BY <2>2, <2>4, <2>5, <3>1, <3>2 DEF RowOK, Address
  <2>7. CallOK(call[c], first, owner)'
    BY <1>2, <1>5, <2>2, <2>3, <2>4, <2>5, <2>6, SessionsAssumption DEF CallOK
  <2>. QED
    BY <1>2, <1>3, <2>3, <2>7, BeginKeeps
<1>6. ASSUME user[u].state = "none",
             Begin(c, u, "create", [NoUser EXCEPT !.state = "live",
               !.email = e, !.social = TRUE, !.isEmailVerified = TRUE],
               None, "issue")
      PROVE  Typed' /\ Told(first, owner)'
  <2>. DEFINE row == [NoUser EXCEPT !.state = "live", !.email = e,
                                    !.social = TRUE, !.isEmailVerified = TRUE]
  <2>1. row \in User /\ row = [NoUser EXCEPT !.state = "live", !.email = e,
                                    !.social = TRUE, !.isEmailVerified = TRUE]
        /\ row.state = "live" /\ row.email = e
        /\ row.hashedRefreshToken = None /\ row.isEmailVerified
    BY DEF NoUser, User
  <2>. HIDE DEF row
  <2>2. ~user[u].social
    BY <1>1, <1>6 DEF UserOK, NoUser
  <2>3. e \in proved'[u]
    BY <1>3, <2>2
  <2>4. /\ call' \in [Calls -> Request]
        /\ \A d \in Calls \ {c} : call'[d] = call[d]
        /\ call'[c] = [at |-> "create", u |-> u, row |-> row,
                       ref |-> None, then |-> "issue", outdated |-> FALSE]
    BY <1>6, <2>1 DEF Begin, Typed, Request, Stage
  <2>5. CallOK(call[c], first, owner)'
    <3>1. /\ call'[c].at = "create" /\ call'[c].u = u /\ call'[c].row = row
          /\ call'[c].ref = None /\ call'[c].then = "issue"
      BY <2>4
    <3>. QED
      BY <2>1, <2>3, <3>1 DEF CallOK
  <2>. QED
    BY <1>2, <1>3, <2>4, <2>5, BeginKeeps
<1>. QED
  BY <1>4, <1>5, <1>6 DEF SocialLogin

LEMMA RefreshKeeps ==
  ASSUME Typed, NEW first \in Firsts, NEW owner \in Owners,
         Told(first, owner), NEW c \in Calls, NEW u \in Users, NEW t \in Token,
         Refresh(c, u, t)
  PROVE  Typed' /\ Told(first, owner)'
<1>1. /\ user[u] \in User /\ user[u].state # "none"
      /\ RowOK(u, user[u], first, owner) /\ UserOK(u, first, owner)
  BY DEF Typed, TypeOK, Told, Refresh, Live, UserOK
<1>2. UNCHANGED <<user, link, admitted, opened, mailed, proved, spent>>
  BY DEF Refresh
<1>3. proved' \in [Users -> SUBSET Email]
  BY <1>2 DEF Typed, TypeOK
<1>4. CASE t = user[u].hashedRefreshToken
  <2>1. /\ Credentials(u) \in User
        /\ Credentials(u).email = user[u].email
        /\ Credentials(u).password = user[u].password
    BY <1>1 DEF Credentials, Addressed, NoUser, User
  <2>2. Begin(c, u, "issue", Credentials(u), t, None)
    BY <1>4 DEF Refresh
  <2>3. /\ call' \in [Calls -> Request]
        /\ \A d \in Calls \ {c} : call'[d] = call[d]
        /\ call'[c] = [at |-> "issue", u |-> u, row |-> Credentials(u),
                       ref |-> t, then |-> None, outdated |-> FALSE]
    BY <2>1, <2>2 DEF Begin, Typed, Request, Stage
  <2>4. t # None
    BY SessionsAssumption
  <2>5. /\ u \in admitted /\ opened[t] # None /\ owner[t] = u
        /\ user[u].email \in Email
    BY <1>1, <1>4, <2>4 DEF RowOK
  <2>6. first[u] \in proved[u]
    BY <1>1, <2>5 DEF UserOK
  <2>7. CallOK(call[c], first, owner)'
    BY <1>1, <1>2, <2>1, <2>3, <2>5, <2>6 DEF CallOK
  <2>. QED
    BY <1>2, <1>3, <2>3, <2>7, BeginKeeps
<1>5. CASE t # user[u].hashedRefreshToken
  <2>1. Begin(c, u, "clear", NoUser, None, None)
    BY <1>5 DEF Refresh
  <2>2. /\ call' \in [Calls -> Request]
        /\ \A d \in Calls \ {c} : call'[d] = call[d]
        /\ call'[c] = [at |-> "clear", u |-> u, row |-> NoUser,
                       ref |-> None, then |-> None, outdated |-> FALSE]
    BY <2>1, IdleTyped DEF Begin, Typed, Request, Stage
  <2>3. CallOK(call[c], first, owner)'
    BY <1>1, <1>2, <2>2 DEF CallOK
  <2>. QED
    BY <1>2, <1>3, <2>2, <2>3, BeginKeeps
<1>. QED
  BY <1>4, <1>5

(* Opening a link proves the address it was sent to.                       *)
LEMMA OpensProves ==
  ASSUME Typed, NEW first \in Firsts, NEW owner \in Owners,
         Told(first, owner), NEW l \in Link,
         NEW kind \in {"verify", "reset", "change"}, Opens(l, kind)
  PROVE  /\ link[l] # None /\ link[l] \in LinkRow /\ link[l].u \in Users
         /\ user[link[l].u] \in User /\ user[link[l].u].state # "none"
         /\ RowOK(link[l].u, user[link[l].u], first, owner)
         /\ LinkOK(l, first) /\ l \notin spent
         /\ proved' \in [Users -> SUBSET Email]
         /\ \A u \in Users : proved[u] \subseteq proved'[u]
         /\ mailed[l] \in proved'[link[l].u]
         /\ kind # "change" => first[link[l].u] \in proved'[link[l].u]
<1>1. /\ link[l] # None /\ link[l].kind = kind /\ link[l].state = "live"
      /\ Live(link[l].u)
  BY DEF Opens
<1>2. link[l] \in LinkRow /\ link[l].u \in Users /\ LinkOK(l, first)
  BY <1>1 DEF Typed, TypeOK, LinkRow, Told
<1>. DEFINE u == link[l].u
<1>3. /\ user[u] \in User /\ UserOK(u, first, owner)
      /\ user[u].state # "none" /\ RowOK(u, user[u], first, owner)
  BY <1>1, <1>2 DEF Typed, TypeOK, Live, Told, UserOK
<1>4. mailed[l] \in Email
  BY <1>1, <1>2 DEF LinkOK
<1>5. proved' = [proved EXCEPT ![u] = @ \cup {mailed[l]}]
  BY DEF Opens
<1>6. /\ proved' \in [Users -> SUBSET Email] /\ mailed[l] \in proved'[u]
      /\ \A v \in Users : proved[v] \subseteq proved'[v]
  BY <1>2, <1>4, <1>5 DEF Typed, TypeOK
<1>7. kind # "change" => first[u] \in proved'[u]
  BY <1>1, <1>2, <1>6 DEF LinkOK, Address
<1>8. l \notin spent
  BY <1>1, <1>2 DEF LinkOK
<1>. QED
  BY <1>1, <1>2, <1>3, <1>6, <1>7, <1>8

LEMMA VerifyEmailKeeps ==
  ASSUME Typed, NEW first \in Firsts, NEW owner \in Owners,
         Told(first, owner), NEW c \in Calls, NEW l \in Link,
         VerifyEmail(c, l)
  PROVE  Typed' /\ Told(first, owner)'
<1>. DEFINE u == link[l].u
            row == [user[u] EXCEPT !.isEmailVerified = TRUE]
<1>1. Opens(l, "verify") /\ Begin(c, u, "save", row, l, "drop")
      /\ UNCHANGED <<user, link, admitted, opened, mailed, spent>>
  BY DEF VerifyEmail
<1>2. /\ link[l] # None /\ u \in Users /\ user[u] \in User
      /\ user[u].state # "none" /\ RowOK(u, user[u], first, owner)
      /\ proved' \in [Users -> SUBSET Email]
      /\ \A v \in Users : proved[v] \subseteq proved'[v]
      /\ first[u] \in proved'[u]
  BY <1>1, OpensProves
<1>3. /\ row \in User /\ row.isEmailVerified
      /\ row.email = user[u].email /\ row.password = user[u].password
      /\ row.state = user[u].state /\ row.isActive = user[u].isActive
      /\ row.hashedRefreshToken = user[u].hashedRefreshToken
  BY <1>2 DEF User
<1>4. row.email \in Email /\ row.email \in proved'[u]
  BY <1>2, <1>3 DEF RowOK
<1>. HIDE DEF row
<1>5. /\ call' \in [Calls -> Request]
      /\ \A d \in Calls \ {c} : call'[d] = call[d]
      /\ call'[c] = [at |-> "save", u |-> u, row |-> row,
                     ref |-> l, then |-> "drop", outdated |-> FALSE]
  BY <1>1, <1>2, <1>3 DEF Begin, Typed, Request, Stage
<1>6. /\ row.isEmailVerified => row.email \in proved'[u]
      /\ row.email = first[u] \/ first[u] \in proved'[u]
      /\ row.hashedRefreshToken # None =>
           /\ u \in admitted' /\ opened'[row.hashedRefreshToken] # None
           /\ owner[row.hashedRefreshToken] = u
  BY <1>1, <1>2, <1>3, <1>4 DEF RowOK
<1>7. CallOK(call[c], first, owner)'
  <2>1. /\ call'[c].at = "save" /\ call'[c].u = u /\ call'[c].row = row
        /\ call'[c].ref = l /\ call'[c].then = "drop"
    BY <1>5
  <2>. QED
    BY <1>1, <1>2, <1>3, <1>4, <1>6, <2>1 DEF CallOK, RowOK, Address
<1>. QED
  BY <1>1, <1>2, <1>5, <1>7, BeginKeeps

LEMMA ResetPasswordKeeps ==
  ASSUME Typed, NEW first \in Firsts, NEW owner \in Owners,
         Told(first, owner), NEW c \in Calls, NEW l \in Link,
         NEW p \in Password, ResetPassword(c, l, p)
  PROVE  Typed' /\ Told(first, owner)'
<1>. DEFINE u == link[l].u
            row == [NoUser EXCEPT !.password = p,
                      !.isEmailVerified = user[u].isEmailVerified]
<1>1. Opens(l, "reset") /\ Begin(c, u, "reset", row, l, None)
      /\ UNCHANGED <<user, link, admitted, opened, mailed, spent>>
  BY DEF ResetPassword
<1>2. /\ link[l] # None /\ u \in Users /\ user[u] \in User
      /\ user[u].state # "none" /\ l \notin spent
      /\ proved' \in [Users -> SUBSET Email]
      /\ \A v \in Users : proved[v] \subseteq proved'[v]
      /\ first[u] \in proved'[u]
  BY <1>1, OpensProves
<1>3. row \in User
  BY <1>2 DEF User, NoUser
<1>. HIDE DEF row
<1>4. /\ call' \in [Calls -> Request]
      /\ \A d \in Calls \ {c} : call'[d] = call[d]
      /\ call'[c] = [at |-> "reset", u |-> u, row |-> row,
                     ref |-> l, then |-> None, outdated |-> FALSE]
  BY <1>1, <1>2, <1>3 DEF Begin, Typed, Request, Stage
<1>5. CallOK(call[c], first, owner)'
  <2>1. call'[c].at = "reset" /\ call'[c].u = u /\ call'[c].ref = l
    BY <1>4
  <2>. QED
    BY <1>1, <1>2, <2>1 DEF CallOK
<1>. QED
  BY <1>1, <1>2, <1>4, <1>5, BeginKeeps

LEMMA VerifyEmailChangeKeeps ==
  ASSUME Typed, NEW first \in Firsts, NEW owner \in Owners,
         Told(first, owner), NEW c \in Calls, NEW l \in Link,
         VerifyEmailChange(c, l)
  PROVE  Typed' /\ Told(first, owner)'
<1>. DEFINE u == link[l].u
            e == link[l].newEmail
<1>1. Opens(l, "change") /\ Begin(c, u, "swap", Addressed(e), l, None)
      /\ UNCHANGED <<user, link, admitted, opened, mailed, spent>>
  BY DEF VerifyEmailChange
<1>2. /\ link[l] # None /\ u \in Users /\ LinkOK(l, first)
      /\ user[u].state # "none" /\ l \notin spent
      /\ proved' \in [Users -> SUBSET Email]
      /\ \A v \in Users : proved[v] \subseteq proved'[v]
      /\ mailed[l] \in proved'[u]
  BY <1>1, OpensProves
<1>3. link[l].kind = "change"
  BY <1>1 DEF Opens
<1>4. u \in admitted /\ e \in Email /\ e \in proved'[u]
  BY <1>2, <1>3 DEF LinkOK
<1>5. Addressed(e) \in User /\ Addressed(e).email = e
  BY <1>4 DEF Addressed, NoUser, User
<1>6. /\ call' \in [Calls -> Request]
      /\ \A d \in Calls \ {c} : call'[d] = call[d]
      /\ call'[c] = [at |-> "swap", u |-> u, row |-> Addressed(e),
                     ref |-> l, then |-> None, outdated |-> FALSE]
  BY <1>1, <1>2, <1>5 DEF Begin, Typed, Request, Stage
<1>7. CallOK(call[c], first, owner)'
  <2>1. /\ call'[c].at = "swap" /\ call'[c].u = u /\ call'[c].ref = l
        /\ call'[c].row.email = e
    BY <1>5, <1>6
  <2>. QED
    BY <1>1, <1>2, <1>4, <2>1 DEF CallOK
<1>. QED
  BY <1>1, <1>2, <1>6, <1>7, BeginKeeps

-----------------------------------------------------------------------------
(* Links age and close, whoever closes them.                               *)
LEMMA AgingKeeps ==
  ASSUME Typed, NEW first \in Firsts, NEW owner \in Owners,
         Told(first, owner),
         UNCHANGED <<user, admitted, opened, mailed, proved, spent>>,
         link' \in [Link -> LinkRow \cup {None}],
         \A l \in Link :
           /\ link[l] = None => link'[l] = None
           /\ link[l] # None =>
                /\ link'[l] # None
                /\ link'[l].u = link[l].u /\ link'[l].kind = link[l].kind
                /\ link'[l].newEmail = link[l].newEmail
                /\ link[l].state = "gone" => link'[l].state = "gone",
         call' \in [Calls -> Request],
         \A d \in Calls : call'[d] = call[d] \/ CallOK(call[d], first, owner)'
  PROVE  /\ Typed' /\ Told(first, owner)' /\ Grows(first, owner, first, owner)
<1>1. Grows(first, owner, first, owner)
  BY DEF Grows
<1>2. ASSUME NEW l \in Link PROVE LinkOK(l, first)'
  <2>1. CASE link[l] = None
    BY <2>1 DEF Told, LinkOK
  <2>2. CASE link[l] # None
    <3>1. LinkOK(l, first) /\ (l \in spent' => link'[l].state = "gone")
      BY <2>2 DEF Told, LinkOK
    <3>. QED
      BY <1>1, <2>2, <3>1, LinkKept
  <2>. QED
    BY <2>1, <2>2
<1>3. mailed' \in [Link -> Email \cup {None}]
  BY DEF Typed, TypeOK
<1>. QED
  BY <1>1, <1>2, <1>3, LinkStepKeeps

LEMMA DeadAges ==
  ASSUME Typed, NEW l \in Link, link[l] # None, link' = Dead(l)
  PROVE  /\ link' \in [Link -> LinkRow \cup {None}]
         /\ link'[l] # None /\ link'[l].state = "gone"
         /\ \A k \in Link :
             /\ link[k] = None => link'[k] = None
             /\ link[k] # None =>
                  /\ link'[k] # None
                  /\ link'[k].u = link[k].u /\ link'[k].kind = link[k].kind
                  /\ link'[k].newEmail = link[k].newEmail
                  /\ link[k].state = "gone" => link'[k].state = "gone"
<1>1. /\ link \in [Link -> LinkRow \cup {None}] /\ link[l] \in LinkRow
      /\ link' = [link EXCEPT ![l] = [link[l] EXCEPT !.state = "gone"]]
  BY DEF Typed, TypeOK, Dead
<1>2. /\ link'[l] = [link[l] EXCEPT !.state = "gone"]
      /\ link' \in [Link -> LinkRow \cup {None}]
      /\ \A k \in Link \ {l} : link'[k] = link[k]
  BY <1>1 DEF LinkRow
<1>3. /\ link'[l] \in LinkRow /\ link'[l].state = "gone"
      /\ link'[l].u = link[l].u /\ link'[l].kind = link[l].kind
      /\ link'[l].newEmail = link[l].newEmail
  BY <1>1, <1>2 DEF LinkRow
<1>. QED
  BY <1>1, <1>2, <1>3, NoneIsNoLink

LEMMA ExpireKeeps ==
  ASSUME Typed, NEW first \in Firsts, NEW owner \in Owners,
         Told(first, owner), NEW l \in Link, Expire(l)
  PROVE  Typed' /\ Told(first, owner)'
<1>1. /\ link \in [Link -> LinkRow \cup {None}] /\ link[l] \in LinkRow
      /\ link' = [link EXCEPT ![l] = [link[l] EXCEPT !.fresh = FALSE]]
      /\ UNCHANGED <<user, call, admitted, opened, mailed, proved, spent>>
  BY DEF Typed, TypeOK, Expire
<1>2. /\ link'[l] = [link[l] EXCEPT !.fresh = FALSE]
      /\ link' \in [Link -> LinkRow \cup {None}]
      /\ \A k \in Link \ {l} : link'[k] = link[k]
  BY <1>1 DEF LinkRow
<1>3. /\ link'[l] \in LinkRow /\ link'[l].state = link[l].state
      /\ link'[l].u = link[l].u /\ link'[l].kind = link[l].kind
      /\ link'[l].newEmail = link[l].newEmail /\ link[l] # None
  BY <1>1, <1>2, NoneIsNoLink DEF LinkRow
<1>4. call' \in [Calls -> Request]
  BY <1>1 DEF Typed
<1>. QED
  BY <1>1, <1>2, <1>3, <1>4, AgingKeeps, NoneIsNoLink

LEMMA CleanUpKeeps ==
  ASSUME Typed, NEW first \in Firsts, NEW owner \in Owners,
         Told(first, owner), NEW l \in Link, CleanUp(l)
  PROVE  Typed' /\ Told(first, owner)'
<1>1. /\ link[l] # None /\ link' = Dead(l)
      /\ UNCHANGED <<user, call, admitted, opened, mailed, proved, spent>>
  BY DEF CleanUp
<1>2. call' \in [Calls -> Request]
  BY <1>1 DEF Typed
<1>. QED
  BY <1>1, <1>2, DeadAges, AgingKeeps

LEMMA DropLinkKeeps ==
  ASSUME Typed, NEW first \in Firsts, NEW owner \in Owners,
         Told(first, owner), NEW c \in Calls, DropLink(c)
  PROVE  Typed' /\ Told(first, owner)'
<1>1. /\ call[c].ref \in Link /\ link[call[c].ref] # None
  BY DEF Told, CallOK, DropLink
<1>2. /\ link' = Dead(call[c].ref) /\ Done(c)
      /\ UNCHANGED <<user, admitted, opened, mailed, proved, spent>>
  BY DEF DropLink
<1>3. /\ call' \in [Calls -> Request] /\ call'[c] = Idle
      /\ \A d \in Calls \ {c} : call'[d] = call[d]
  BY <1>2, DoneSets DEF Typed
<1>4. CallOK(call[c], first, owner)'
  BY <1>3 DEF CallOK, Idle
<1>. QED
  BY <1>1, <1>2, <1>3, <1>4, DeadAges, AgingKeeps

LEMMA WithdrawLinksKeeps ==
  ASSUME Typed, NEW first \in Firsts, NEW owner \in Owners,
         Told(first, owner), NEW c \in Calls, WithdrawLinks(c)
  PROVE  Typed' /\ Told(first, owner)'
<1>. DEFINE kind == call[c].then
            gone == Rows(kind, call[c].u, {"live"})
<1>1. /\ call[c] \in Request /\ call[c].at = "withdraw"
      /\ CallOK(call[c], first, owner)
      /\ link \in [Link -> LinkRow \cup {None}]
  BY DEF Typed, TypeOK, Told, WithdrawLinks
<1>2. /\ link' = [l \in Link |-> IF l \in gone
                   THEN [link[l] EXCEPT !.state = Withdrawn(kind)] ELSE link[l]]
      /\ call' = [call EXCEPT ![c].at = "mail"]
      /\ UNCHANGED <<user, admitted, opened, mailed, proved, spent>>
  BY DEF WithdrawLinks
<1>3. Withdrawn(kind) \in {"live", "withdrawn", "gone"}
  BY DEF Withdrawn
<1>4. \A l \in gone : link[l] # None /\ link[l].state = "live"
  BY DEF Rows
<1>5. ASSUME NEW l \in Link
      PROVE  /\ link'[l] \in LinkRow \cup {None}
             /\ link[l] = None => link'[l] = None
             /\ link[l] # None =>
                  /\ link'[l] # None
                  /\ link'[l].u = link[l].u /\ link'[l].kind = link[l].kind
                  /\ link'[l].newEmail = link[l].newEmail
                  /\ link[l].state = "gone" => link'[l].state = "gone"
  <2>1. CASE l \in gone
    <3>1. link[l] \in LinkRow /\ link[l] # None /\ link[l].state = "live"
      BY <1>1, <1>4, <2>1
    <3>2. link'[l] = [link[l] EXCEPT !.state = Withdrawn(kind)]
      BY <1>2, <2>1
    <3>3. /\ link'[l] \in LinkRow
          /\ link'[l].u = link[l].u /\ link'[l].kind = link[l].kind
          /\ link'[l].newEmail = link[l].newEmail
      BY <1>3, <3>1, <3>2 DEF LinkRow
    <3>. QED
      BY <3>1, <3>3, NoneIsNoLink
  <2>2. CASE l \notin gone
    BY <1>1, <1>2, <2>2
  <2>. QED
    BY <2>1, <2>2
<1>. HIDE DEF gone
<1>6. link' \in [Link -> LinkRow \cup {None}]
  BY <1>2, <1>5
<1>7. /\ call' \in [Calls -> Request]
      /\ \A d \in Calls \ {c} : call'[d] = call[d]
      /\ call'[c].at = "mail" /\ call'[c].u = call[c].u
      /\ call'[c].row = call[c].row /\ call'[c].then = call[c].then
  BY <1>1, <1>2 DEF Typed, Request, Stage
<1>8. CallOK(call[c], first, owner)'
  BY <1>1, <1>2, <1>7 DEF CallOK, Address
<1>. QED
  BY <1>2, <1>5, <1>6, <1>7, <1>8, AgingKeeps

LEMMA MailLinkKeeps ==
  ASSUME Typed, NEW first \in Firsts, NEW owner \in Owners,
         Told(first, owner), NEW c \in Calls, MailLink(c)
  PROVE  Typed' /\ Told(first, owner)'
<1>. DEFINE kind == call[c].then
            u == call[c].u
            row == call[c].row
<1>1. /\ call[c] \in Request /\ call[c].at = "mail"
      /\ CallOK(call[c], first, owner)
      /\ link \in [Link -> LinkRow \cup {None}]
      /\ mailed \in [Link -> Email \cup {None}]
  BY DEF Typed, TypeOK, Told, MailLink
<1>2. /\ u \in Users /\ user[u].state # "none" /\ row.email \in Email
      /\ kind \in {"verify", "reset", "change"}
      /\ kind = "change" => u \in admitted
      /\ kind # "change" => Address(u, row.email, first)
  BY <1>1 DEF CallOK
<1>3. /\ Done(c) /\ UNCHANGED <<user, admitted, opened, proved, spent>>
  BY DEF MailLink
<1>4. /\ call' \in [Calls -> Request] /\ call'[c] = Idle
      /\ \A d \in Calls \ {c} : call'[d] = call[d]
  BY <1>3, DoneSets DEF Typed
<1>5. CallOK(call[c], first, owner)'
  BY <1>4 DEF CallOK, Idle
<1>6. CASE UNCHANGED <<link, mailed>>
  BY <1>1, <1>3, <1>4, <1>5, <1>6, AgingKeeps
<1>7. CASE \E l \in Unused(link) :
              /\ link' = [link EXCEPT ![l] =
                   [kind |-> kind, u |-> u, state |-> "live", fresh |-> TRUE,
                    newEmail |-> IF kind = "change" THEN row.email ELSE None]]
              /\ mailed' = [mailed EXCEPT ![l] = Recipient(kind, u, row)]
  <2>. DEFINE e == IF kind = "change" THEN row.email ELSE None
  <2>1. PICK l \in Unused(link) :
              /\ link' = [link EXCEPT ![l] = [kind |-> kind, u |-> u,
                   state |-> "live", fresh |-> TRUE, newEmail |-> e]]
              /\ mailed' = [mailed EXCEPT ![l] = row.email]
    BY <1>7 DEF Recipient
  <2>2. l \in Link /\ link[l] = None
    BY <1>1, <2>1, UnusedIsNone
  <2>3. e \in Email \cup {None} /\ (kind = "change" => e = row.email)
    BY <1>2
  <2>. HIDE DEF e
  <2>4. /\ link'[l] \in LinkRow /\ link'[l].u = u /\ link'[l].kind = kind
        /\ link'[l].newEmail = e /\ mailed'[l] = row.email
    BY <1>1, <1>2, <2>1, <2>2, <2>3 DEF LinkRow
  <2>5. \A k \in Link \ {l} : link'[k] = link[k] /\ mailed'[k] = mailed[k]
    BY <1>1, <2>1
  <2>6. /\ link' \in [Link -> LinkRow \cup {None}]
        /\ mailed' \in [Link -> Email \cup {None}]
    BY <1>1, <1>2, <2>1, <2>2, <2>3 DEF LinkRow
  <2>7. Grows(first, owner, first, owner)
    BY <1>3, <2>2, <2>5 DEF Grows
  <2>8. ASSUME NEW k \in Link PROVE LinkOK(k, first)'
    <3>1. CASE k = l
      <4>1. l \notin spent'
        BY <1>3, <2>2 DEF Told, LinkOK
      <4>2. user'[u].state # "none" /\ (kind = "change" => u \in admitted')
            /\ (kind # "change" =>
                  row.email = first[u] \/ first[u] \in proved'[u])
        BY <1>2, <1>3 DEF Address
      <4>. QED
        BY <1>2, <2>3, <2>4, <3>1, <4>1, <4>2 DEF LinkOK, Address
    <3>2. CASE k # l
      <4>1. link'[k] = link[k] /\ mailed'[k] = mailed[k]
        BY <2>5, <3>2
      <4>2. CASE link[k] = None
        BY <1>3, <4>1, <4>2 DEF Told, LinkOK
      <4>3. CASE link[k] # None
        <5>1. LinkOK(k, first) /\ (k \in spent' => link'[k].state = "gone")
          BY <1>3, <4>1, <4>3 DEF Told, LinkOK
        <5>. QED
          BY <2>7, <4>3, <5>1, LinkKept
      <4>. QED
        BY <4>2, <4>3
    <3>. QED
      BY <3>1, <3>2
  <2>. QED
    BY <1>3, <1>4, <1>5, <2>6, <2>7, <2>8, LinkStepKeeps
<1>. QED
  BY <1>6, <1>7 DEF MailLink

-----------------------------------------------------------------------------
(* A row is written over the one on record, and a link may be used up.     *)
LEMMA RowWriteKeeps ==
  ASSUME Typed, NEW first \in Firsts, NEW owner \in Owners,
         Told(first, owner), NEW c \in Calls,
         NEW u \in Users, call[c].u = u, user[u].state # "none",
         NEW row \in User, NEW next \in Request, WriteUser(c, row, next),
         row.state # "none", RowOK(u, row, first, owner),
         UNCHANGED <<admitted, opened, mailed, proved>>,
         \/ UNCHANGED <<link, spent>>
         \/ /\ call[c].ref \in Link /\ link[call[c].ref] # None
            /\ link[call[c].ref].u = u
            /\ link' = Dead(call[c].ref) /\ spent' = spent \cup {call[c].ref},
         CallOK(call[c], first, owner)'
  PROVE  Typed' /\ Told(first, owner)'
<1>. DEFINE l == call[c].ref
<1>1. /\ user' \in [Users -> User] /\ call' \in [Calls -> Request]
      /\ user'[u] = row /\ \A v \in Users \ {u} : user'[v] = user[v]
      /\ OthersAreTold(c, u)
  BY WriteSets
<1>2. /\ link' \in [Link -> LinkRow \cup {None}]
      /\ \A k \in Link :
           /\ link[k] = None => link'[k] = None
           /\ link[k] # None =>
                /\ link'[k] # None
                /\ link'[k].u = link[k].u /\ link'[k].kind = link[k].kind
                /\ link'[k].newEmail = link[k].newEmail
                /\ link[k].state = "gone" => link'[k].state = "gone"
      /\ \A k \in spent' \ spent : k \in Link /\ k = l /\ link'[k] # None
                                /\ link'[k].state = "gone" /\ link[k].u = u
      /\ spent' \subseteq spent \cup {l} /\ spent' \subseteq Token \cup Link
  <2>1. CASE UNCHANGED <<link, spent>>
    BY <2>1 DEF Typed, TypeOK
  <2>2. CASE /\ l \in Link /\ link[l] # None /\ link[l].u = u
             /\ link' = Dead(l) /\ spent' = spent \cup {l}
    BY <2>2, DeadAges DEF Typed, TypeOK
  <2>. QED
    BY <2>1, <2>2
<1>3. Typed'
  <2>1. \A d \in Calls : /\ call'[d].u \in Users \cup {None}
                         /\ call'[d].row \in User
                         /\ call'[d].ref \in Token \cup Link \cup {None}
                         /\ call'[d].outdated \in BOOLEAN
    BY <1>1, RequestFields
  <2>. QED
    BY <1>1, <1>2, <2>1 DEF Typed, TypeOK
<1>4. Grows(first, owner, first, owner)
  BY <1>1, <1>2 DEF Grows
<1>5. ASSUME NEW k \in Link PROVE LinkOK(k, first)'
  <2>1. CASE link[k] = None
    <3>1. k \notin spent
      BY <2>1 DEF Told, LinkOK
    <3>2. link'[k] = None /\ k \notin spent'
      BY <1>2, <2>1, <3>1
    <3>. QED
      BY <3>2 DEF LinkOK
  <2>2. CASE link[k] # None
    <3>1. LinkOK(k, first) /\ (k \in spent => link[k].state = "gone")
      BY DEF Told, LinkOK
    <3>2. k \in spent' => link'[k].state = "gone"
      BY <1>2, <2>2, <3>1
    <3>. QED
      BY <1>4, <2>2, <3>1, <3>2, LinkKept
  <2>. QED
    BY <2>1, <2>2
<1>6. UserOK(u, first, owner)'
  <2>1. UserOK(u, first, owner)
    BY DEF Told
  <2>2. user'[u] = row /\ user'[u].state # "none"
    BY <1>1
  <2>3. RowOK(u, user[u], first, owner)'
    BY <2>2 DEF RowOK, Address
  <2>. QED
    BY <2>1, <2>2, <2>3 DEF UserOK
<1>7. \A t \in Token : t \in spent' => opened'[t] # None
  BY <1>2, SessionsAssumption DEF Told
<1>8. l \in spent' /\ l \in Link => l \in spent \/ link[l].u = u
  BY <1>2
<1>. QED
  BY <1>1, <1>2, <1>3, <1>4, <1>5, <1>6, <1>7, <1>8, WriteKeeps

LEMMA DoneKeeps ==
  ASSUME Typed, NEW first \in Firsts, NEW owner \in Owners,
         Told(first, owner), NEW c \in Calls, Done(c),
         UNCHANGED <<user, link, admitted, opened, mailed, proved, spent>>
  PROVE  Typed' /\ Told(first, owner)'
<1>1. /\ call' \in [Calls -> Request] /\ call'[c] = Idle
      /\ \A d \in Calls \ {c} : call'[d] = call[d]
  BY DoneSets DEF Typed
<1>2. CallOK(call[c], first, owner)'
  BY <1>1 DEF CallOK, Idle
<1>3. proved' \in [Users -> SUBSET Email]
  BY DEF Typed, TypeOK
<1>. QED
  BY <1>1, <1>2, <1>3, BeginKeeps

LEMMA CommitPasswordKeeps ==
  ASSUME Typed, NEW first \in Firsts, NEW owner \in Owners,
         Told(first, owner), NEW c \in Calls, CommitPassword(c)
  PROVE  Typed' /\ Told(first, owner)'
<1>1. PICK u \in Users : call[c].u = u
  BY DEF Told, CallOK, CommitPassword
<1>2. /\ call[c] \in Request /\ call[c].at = "change"
      /\ CallOK(call[c], first, owner)
      /\ user[u] \in User /\ user[u].state # "none"
      /\ UserOK(u, first, owner) /\ RowOK(u, user[u], first, owner)
  BY <1>1 DEF Typed, TypeOK, Told, CommitPassword, CallOK, UserOK
<1>. DEFINE row == [user[u] EXCEPT !.password = call[c].row.password,
                            !.hashedRefreshToken = None]
<1>3. WriteUser(c, row, Idle)
      /\ UNCHANGED <<link, admitted, opened, mailed, proved, spent>>
  BY <1>1 DEF CommitPassword, WithPassword
<1>4. /\ row \in User /\ row.state # "none" /\ row.email = user[u].email
      /\ row.isEmailVerified = user[u].isEmailVerified
      /\ row.hashedRefreshToken \in {None, user[u].hashedRefreshToken}
  BY <1>2, RequestFields, UserFields DEF User
<1>. HIDE DEF row
<1>5. RowOK(u, row, first, owner)
  BY <1>2, <1>4 DEF RowOK
<1>6. CallOK(call[c], first, owner)'
  <2>1. call'[c] = Idle
    BY <1>1, <1>3, <1>4, IdleTyped, WriteSets
  <2>. QED
    BY <2>1 DEF CallOK, Idle
<1>. QED
  BY <1>1, <1>2, <1>3, <1>4, <1>5, <1>6, IdleTyped, RowWriteKeeps

LEMMA ClearTokenKeeps ==
  ASSUME Typed, NEW first \in Firsts, NEW owner \in Owners,
         Told(first, owner), NEW c \in Calls, ClearToken(c)
  PROVE  Typed' /\ Told(first, owner)'
<1>1. PICK u \in Users : call[c].u = u
  BY DEF Told, CallOK, ClearToken
<1>2. /\ call[c] \in Request /\ call[c].at = "clear"
      /\ CallOK(call[c], first, owner)
      /\ user[u] \in User /\ user[u].state # "none"
      /\ UserOK(u, first, owner) /\ RowOK(u, user[u], first, owner)
  BY <1>1 DEF Typed, TypeOK, Told, ClearToken, CallOK, UserOK
<1>. DEFINE row == [user[u] EXCEPT !.hashedRefreshToken = None]
<1>3. WriteUser(c, row, Idle)
      /\ UNCHANGED <<link, admitted, opened, mailed, proved, spent>>
  BY <1>1 DEF ClearToken
<1>4. /\ row \in User /\ row.state # "none" /\ row.email = user[u].email
      /\ row.isEmailVerified = user[u].isEmailVerified
      /\ row.hashedRefreshToken \in {None, user[u].hashedRefreshToken}
  BY <1>2, RequestFields, UserFields DEF User
<1>. HIDE DEF row
<1>5. RowOK(u, row, first, owner)
  BY <1>2, <1>4 DEF RowOK
<1>6. CallOK(call[c], first, owner)'
  <2>1. call'[c] = Idle
    BY <1>1, <1>3, <1>4, IdleTyped, WriteSets
  <2>. QED
    BY <2>1 DEF CallOK, Idle
<1>. QED
  BY <1>1, <1>2, <1>3, <1>4, <1>5, <1>6, IdleTyped, RowWriteKeeps

LEMMA SoftRemoveKeeps ==
  ASSUME Typed, NEW first \in Firsts, NEW owner \in Owners,
         Told(first, owner), NEW c \in Calls, SoftRemove(c)
  PROVE  Typed' /\ Told(first, owner)'
<1>1. PICK u \in Users : call[c].u = u
  BY DEF Told, CallOK, SoftRemove
<1>2. /\ call[c] \in Request /\ call[c].at = "remove"
      /\ CallOK(call[c], first, owner)
      /\ user[u] \in User /\ user[u].state # "none"
      /\ UserOK(u, first, owner) /\ RowOK(u, user[u], first, owner)
  BY <1>1 DEF Typed, TypeOK, Told, SoftRemove, CallOK, UserOK
<1>. DEFINE row == [user[u] EXCEPT !.state = "deleted"]
<1>3. WriteUser(c, row, Idle)
      /\ UNCHANGED <<link, admitted, opened, mailed, proved, spent>>
  BY <1>1 DEF SoftRemove
<1>4. /\ row \in User /\ row.state # "none" /\ row.email = user[u].email
      /\ row.isEmailVerified = user[u].isEmailVerified
      /\ row.hashedRefreshToken \in {None, user[u].hashedRefreshToken}
  BY <1>2, RequestFields, UserFields DEF User
<1>. HIDE DEF row
<1>5. RowOK(u, row, first, owner)
  BY <1>2, <1>4 DEF RowOK
<1>6. CallOK(call[c], first, owner)'
  <2>1. call'[c] = Idle
    BY <1>1, <1>3, <1>4, IdleTyped, WriteSets
  <2>. QED
    BY <2>1 DEF CallOK, Idle
<1>. QED
  BY <1>1, <1>2, <1>3, <1>4, <1>5, <1>6, IdleTyped, RowWriteKeeps

LEMMA CommitResetKeeps ==
  ASSUME Typed, NEW first \in Firsts, NEW owner \in Owners,
         Told(first, owner), NEW c \in Calls, CommitReset(c)
  PROVE  Typed' /\ Told(first, owner)'
<1>1. PICK u \in Users : call[c].u = u
  BY DEF Told, CallOK, CommitReset
<1>2. /\ call[c] \in Request /\ call[c].at = "reset"
      /\ CallOK(call[c], first, owner)
      /\ user[u] \in User /\ user[u].state # "none"
      /\ UserOK(u, first, owner) /\ RowOK(u, user[u], first, owner)
  BY <1>1 DEF Typed, TypeOK, Told, CommitReset, CallOK, UserOK
<1>. DEFINE read == call[c].row
            l == call[c].ref
            seen == user[u].isEmailVerified \/ ~read.isEmailVerified
            row == [user[u] EXCEPT !.password = read.password,
                                   !.hashedRefreshToken = None,
                                   !.isEmailVerified = seen]
<1>3. /\ WriteUser(c, row, Idle) /\ link' = Dead(l)
      /\ spent' = spent \cup {l}
      /\ UNCHANGED <<admitted, opened, mailed, proved>>
  BY <1>1 DEF CommitReset, Consumed
<1>7. l \in Link /\ link[l] # None /\ link[l].u = u /\ first[u] \in proved[u]
  BY <1>1, <1>2 DEF CallOK
<1>8. seen \in BOOLEAN /\ (~seen => ~user[u].isEmailVerified)
  BY Zenon
<1>9. read \in User /\ read.password \in Password \cup {None}
  BY <1>2, RequestFields, UserFields
<1>. HIDE DEF seen
<1>4. /\ row \in User /\ row.state # "none" /\ row.email = user[u].email
      /\ row.isEmailVerified = seen /\ row.hashedRefreshToken = None
  BY <1>2, <1>8, <1>9 DEF User
<1>. HIDE DEF row
<1>5. RowOK(u, row, first, owner)
  BY <1>2, <1>4, <1>7, <1>8 DEF RowOK, Address
<1>6. CallOK(call[c], first, owner)'
  <2>1. call'[c] = Idle
    BY <1>1, <1>3, <1>4, IdleTyped, WriteSets
  <2>. QED
    BY <2>1 DEF CallOK, Idle
<1>. QED
  BY <1>1, <1>2, <1>3, <1>4, <1>5, <1>6, <1>7, IdleTyped, RowWriteKeeps

LEMMA CommitEmailChangeKeeps ==
  ASSUME Typed, NEW first \in Firsts, NEW owner \in Owners,
         Told(first, owner), NEW c \in Calls, CommitEmailChange(c)
  PROVE  Typed' /\ Told(first, owner)'
<1>1. PICK u \in Users : call[c].u = u
  BY DEF Told, CallOK, CommitEmailChange
<1>2. /\ call[c] \in Request /\ call[c].at = "swap"
      /\ CallOK(call[c], first, owner)
      /\ user[u] \in User /\ user[u].state # "none"
      /\ UserOK(u, first, owner) /\ RowOK(u, user[u], first, owner)
  BY <1>1 DEF Typed, TypeOK, Told, CommitEmailChange, CallOK, UserOK
<1>. DEFINE e == call[c].row.email
            l == call[c].ref
            row == [user[u] EXCEPT !.email = e, !.isEmailVerified = TRUE,
                                   !.hashedRefreshToken = None]
<1>3. CASE /\ WriteUser(c, row, Idle) /\ link' = Dead(l)
           /\ spent' = spent \cup {l}
           /\ UNCHANGED <<admitted, opened, mailed, proved>>
  <2>1. /\ l \in Link /\ link[l] # None /\ link[l].u = u
        /\ u \in admitted /\ e \in Email /\ e \in proved[u]
    BY <1>1, <1>2 DEF CallOK
  <2>2. /\ row \in User /\ row.state # "none" /\ row.email = e
        /\ row.isEmailVerified /\ row.hashedRefreshToken = None
    BY <1>2, <2>1 DEF User
  <2>. HIDE DEF row
  <2>3. RowOK(u, row, first, owner)
    BY <1>2, <2>1, <2>2 DEF RowOK, Address, UserOK
  <2>4. CallOK(call[c], first, owner)'
    <3>1. call'[c] = Idle
      BY <1>1, <1>3, <2>2, IdleTyped, WriteSets
    <3>. QED
      BY <3>1 DEF CallOK, Idle
  <2>. QED
    BY <1>1, <1>2, <1>3, <2>1, <2>2, <2>3, <2>4, IdleTyped, RowWriteKeeps
<1>4. CASE Done(c) /\ UNCHANGED <<user, link, admitted, opened, mailed, proved,
                                  spent>>
  BY <1>4, DoneKeeps
<1>. QED
  BY <1>1, <1>3, <1>4 DEF CommitEmailChange, Consumed

LEMMA SaveUserKeeps ==
  ASSUME Typed, NEW first \in Firsts, NEW owner \in Owners,
         Told(first, owner), NEW c \in Calls, SaveUser(c)
  PROVE  Typed' /\ Told(first, owner)'
<1>1. PICK u \in Users : call[c].u = u
  BY DEF Told, CallOK, SaveUser
<1>. DEFINE row == call[c].row
            then == call[c].then
<1>2. /\ call[c] \in Request /\ row \in User /\ call[c].at = "save"
      /\ CallOK(call[c], first, owner) /\ user[u].state # "none"
  BY <1>1, RequestFields DEF Typed, TypeOK, Told, SaveUser, CallOK
<1>3. /\ row.state # "none" /\ RowOK(u, row, first, owner)
      /\ then \in {None, "issue", "drop"}
      /\ then = "issue" => first[u] \in proved[u] /\ call[c].ref = None
      /\ then = "drop" => call[c].ref \in Link /\ link[call[c].ref] # None
  BY <1>1, <1>2 DEF CallOK
<1>4. CASE /\ WriteUser(c, row, Goto(c, then))
           /\ UNCHANGED <<link, admitted, opened, mailed, proved, spent>>
  <2>1. Goto(c, then) \in Request
    BY <1>3, GotoTyped
  <2>2. call'[c] = Goto(c, then) /\ user'[u] = row
    BY <1>1, <1>2, <1>4, <2>1, WriteSets
  <2>3. row.email \in Email
    BY <1>3 DEF RowOK
  <2>4. CASE then = None
    <3>1. call'[c] = Idle
      BY <1>3, <2>2, <2>4, GotoTyped
    <3>2. CallOK(call[c], first, owner)'
      BY <3>1 DEF CallOK, Idle
    <3>. QED
      BY <1>1, <1>2, <1>3, <1>4, <2>1, <3>2, RowWriteKeeps
  <2>5. CASE then # None
    <3>1. /\ call'[c].at = then /\ call'[c].u = u
          /\ call'[c].ref = call[c].ref /\ call'[c].row.email = row.email
          /\ call'[c].row.password = row.password
      BY <1>1, <1>3, <2>2, <2>5, GotoTyped
    <3>2. user'[u].state # "none"
      BY <1>3, <2>2
    <3>3. CallOK(call[c], first, owner)'
      <4>1. CASE then = "issue"
        BY <1>3, <1>4, <2>2, <2>3, <3>1, <3>2, <4>1 DEF CallOK
      <4>2. CASE then = "drop"
        BY <1>3, <1>4, <2>2, <2>3, <3>1, <3>2, <4>2 DEF CallOK
      <4>. QED
        BY <1>3, <2>5, <4>1, <4>2
    <3>. QED
      BY <1>1, <1>2, <1>3, <1>4, <2>1, <3>3, RowWriteKeeps
  <2>. QED
    BY <2>4, <2>5
<1>5. CASE Done(c) /\ UNCHANGED <<user, link, admitted, opened, mailed, proved,
                                  spent>>
  BY <1>5, DoneKeeps
<1>. QED
  BY <1>4, <1>5 DEF SaveUser

LEMMA CrashKeeps ==
  ASSUME Typed, NEW first \in Firsts, NEW owner \in Owners,
         Told(first, owner), Crash
  PROVE  Typed' /\ Told(first, owner)'
<1>1. /\ call' = [c \in Calls |-> Idle]
      /\ UNCHANGED <<user, link, admitted, opened, mailed, proved, spent>>
  BY DEF Crash
<1>2. call' \in [Calls -> Request] /\ \A c \in Calls : call'[c] = Idle
  BY <1>1, IdleTyped
<1>3. \A c \in Calls : CallOK(call[c], first, owner)'
  BY <1>2 DEF CallOK, Idle
<1>4. link' \in [Link -> LinkRow \cup {None}]
  BY <1>1 DEF Typed, TypeOK
<1>. QED
  BY <1>1, <1>2, <1>3, <1>4, AgingKeeps

(* A new account, with the address it was registered with.                 *)
LEMMA CreateKeeps ==
  ASSUME Typed, NEW first \in Firsts, NEW owner \in Owners,
         Told(first, owner), NEW c \in Calls, Create(c)
  PROVE  Typed' /\ \E first2 \in Firsts : Told(first2, owner)'
<1>1. PICK u \in Users : call[c].u = u
  BY DEF Told, CallOK, Create
<1>. DEFINE row == call[c].row
            then == call[c].then
            next == IF then = "verify"
                    THEN [call[c] EXCEPT !.at = "withdraw",
                                         !.row = Addressed(row.email)]
                    ELSE Goto(c, then)
<1>2. /\ call[c] \in Request /\ row \in User /\ call[c].at = "create"
      /\ CallOK(call[c], first, owner) /\ UserOK(u, first, owner)
  BY RequestFields DEF Typed, TypeOK, Told, Create
<1>3. /\ row.state = "live" /\ row.email \in Email
      /\ row.hashedRefreshToken = None
      /\ row.isEmailVerified => row.email \in proved[u]
      /\ call[c].ref = None /\ then \in {None, "verify", "issue"}
      /\ then = "issue" => row.isEmailVerified
  BY <1>1, <1>2 DEF CallOK
<1>4. CASE /\ user[u].state = "none" /\ WriteUser(c, row, next)
           /\ UNCHANGED <<link, admitted, opened, mailed, proved, spent>>
  <2>1. PICK first2 \in Firsts : first2 = [first EXCEPT ![u] = row.email]
    BY <1>3 DEF Firsts
  <2>2. first2[u] = row.email /\ \A v \in Users \ {u} : first2[v] = first[v]
    BY <2>1 DEF Firsts
  <2>3. /\ next \in Request
        /\ then = "verify" => /\ next.at = "withdraw" /\ next.u = u
                              /\ next.then = then
                              /\ next.row.email = row.email
        /\ then = None => next = Idle
        /\ then = "issue" => /\ next.at = "issue" /\ next.u = u
                             /\ next.ref = None /\ next.row.email = row.email
                             /\ next.row.password = row.password
    <3>1. CASE then = "verify"
      <4>1. Addressed(row.email) \in User /\ Addressed(row.email).email = row.email
        BY <1>2, <1>3 DEF Addressed, NoUser, User
      <4>. QED
        BY <1>1, <1>2, <3>1, <4>1, SessionsAssumption DEF Request, Stage
    <3>2. CASE then # "verify"
      BY <1>1, <1>3, <3>2, GotoTyped, SessionsAssumption
    <3>. QED
      BY <3>1, <3>2
  <2>. HIDE DEF next
  <2>4. /\ user' \in [Users -> User] /\ call' \in [Calls -> Request]
        /\ user'[u] = row /\ \A v \in Users \ {u} : user'[v] = user[v]
        /\ call'[c] = next /\ OthersAreTold(c, u)
    BY <1>1, <1>2, <1>4, <2>3, WriteSets
  <2>5. Typed'
    <3>1. \A d \in Calls : /\ call'[d].u \in Users \cup {None}
                           /\ call'[d].row \in User
                           /\ call'[d].ref \in Token \cup Link \cup {None}
                           /\ call'[d].outdated \in BOOLEAN
      BY <2>4, RequestFields
    <3>. QED
      BY <1>4, <2>4, <3>1 DEF Typed, TypeOK
  <2>6. Grows(first, owner, first2, owner)
    BY <1>3, <1>4, <2>2, <2>4 DEF Grows
  <2>7. UserOK(u, first2, owner)'
    <3>1. u \notin admitted'
      BY <1>2, <1>4 DEF UserOK
    <3>2. user'[u].state # "none"
      BY <1>3, <2>4
    <3>3. RowOK(u, user[u], first2, owner)'
      BY <1>3, <1>4, <2>2, <2>4 DEF RowOK, Address
    <3>. QED
      BY <3>1, <3>2, <3>3 DEF UserOK
  <2>8. ASSUME NEW l \in Link PROVE LinkOK(l, first2)'
    <3>1. CASE link[l] = None
      BY <1>4, <3>1 DEF Told, LinkOK
    <3>2. CASE link[l] # None
      <4>1. LinkOK(l, first) /\ (l \in spent' => link'[l].state = "gone")
        BY <1>4 DEF Told, LinkOK
      <4>. QED
        BY <2>6, <3>2, <4>1, LinkKept
    <3>. QED
      BY <3>1, <3>2
  <2>9. CallOK(call[c], first2, owner)'
    <3>1. user'[u].state # "none"
      BY <1>3, <2>4
    <3>2. CASE then = "verify"
      BY <1>3, <2>2, <2>3, <2>4, <3>1, <3>2 DEF CallOK, Address
    <3>3. CASE then = None
      BY <2>3, <2>4, <3>3 DEF CallOK, Idle
    <3>4. CASE then = "issue"
      BY <1>3, <1>4, <2>2, <2>3, <2>4, <3>1, <3>4 DEF CallOK
    <3>. QED
      BY <1>3, <3>2, <3>3, <3>4
  <2>10. \A t \in Token : t \in spent' => opened'[t] # None
    BY <1>4 DEF Told
  <2>11. Told(first2, owner)'
    BY <1>4, <2>4, <2>6, <2>7, <2>8, <2>9, <2>10, WriteKeeps
  <2>. QED
    BY <2>5, <2>11
<1>5. CASE Done(c) /\ UNCHANGED <<user, link, admitted, opened, mailed, proved,
                                  spent>>
  BY <1>5, DoneKeeps
<1>. QED
  BY <1>1, <1>4, <1>5 DEF Create

(* A new token, issued to the account.                                     *)
LEMMA IssueTokensKeeps ==
  ASSUME Typed, NEW first \in Firsts, NEW owner \in Owners,
         Told(first, owner), NEW c \in Calls, IssueTokens(c)
  PROVE  Typed' /\ \E owner2 \in Owners : Told(first, owner2)'
<1>1. PICK u \in Users : call[c].u = u
  BY DEF Told, CallOK, IssueTokens
<1>2. /\ call[c] \in Request /\ call[c].row \in User /\ call[c].at = "issue"
      /\ CallOK(call[c], first, owner) /\ UserOK(u, first, owner)
      /\ user[u] \in User /\ user[u].state # "none"
      /\ RowOK(u, user[u], first, owner)
  BY <1>1, RequestFields DEF Typed, TypeOK, Told, IssueTokens, CallOK, UserOK
<1>3. /\ first[u] \in proved[u] /\ call[c].row.email \in Email
      /\ call[c].ref # None => /\ call[c].ref \in Token
                              /\ opened[call[c].ref] # None
  BY <1>1, <1>2 DEF CallOK
<1>4. PICK t \in Unused(opened) :
         /\ opened' = [opened EXCEPT ![t] = <<call[c].row.password,
                                              call[c].row.email>>]
         /\ WriteUser(c, [user[u] EXCEPT !.hashedRefreshToken = t], Idle)
  BY <1>1 DEF IssueTokens
<1>5. /\ admitted' = admitted \cup {u}
      /\ spent' = spent \cup ({call[c].ref} \ {None})
      /\ UNCHANGED <<link, mailed, proved>>
  BY <1>1 DEF IssueTokens
<1>6. t \in Token /\ opened[t] = None
  BY <1>4, UnusedIsNone DEF Typed, TypeOK
<1>7. PICK row \in User : row = [user[u] EXCEPT !.hashedRefreshToken = t]
  BY <1>2, <1>6 DEF User
<1>8. /\ row.email = user[u].email /\ row.state = user[u].state
      /\ row.isEmailVerified = user[u].isEmailVerified
      /\ row.hashedRefreshToken = t
  BY <1>2, <1>7 DEF User
<1>9. PICK p \in (Password \cup {None}) \X Email :
        p = <<call[c].row.password, call[c].row.email>>
  BY <1>2, <1>3, UserFields
<1>10. /\ opened' \in [Token -> ((Password \cup {None}) \X Email) \cup {None}]
       /\ opened'[t] # None /\ \A s \in Token \ {t} : opened'[s] = opened[s]
  BY <1>4, <1>6, <1>9, SessionsAssumption DEF Typed, TypeOK
<1>11. /\ user' \in [Users -> User] /\ call' \in [Calls -> Request]
       /\ user'[u] = row /\ \A v \in Users \ {u} : user'[v] = user[v]
       /\ call'[c] = Idle /\ OthersAreTold(c, u)
  BY <1>1, <1>4, <1>7, IdleTyped, WriteSets
<1>12. /\ spent' \subseteq spent \cup {call[c].ref}
       /\ \A s \in spent' \ spent : s \in Token /\ opened[s] # None
  BY <1>3, <1>5
<1>13. Typed'
  <2>1. \A d \in Calls : /\ call'[d].u \in Users \cup {None}
                         /\ call'[d].row \in User
                         /\ call'[d].ref \in Token \cup Link \cup {None}
                         /\ call'[d].outdated \in BOOLEAN
    BY <1>11, RequestFields
  <2>2. spent' \subseteq Token \cup Link /\ admitted' \subseteq Users
    BY <1>5, <1>12 DEF Typed, TypeOK
  <2>. QED
    BY <1>5, <1>10, <1>11, <2>1, <2>2 DEF Typed, TypeOK
<1>14. PICK owner2 \in Owners : owner2 = [owner EXCEPT ![t] = u]
  BY <1>6 DEF Owners
<1>15. owner2[t] = u /\ \A s \in Token \ {t} : owner2[s] = owner[s]
  BY <1>6, <1>14 DEF Owners
<1>16. Grows(first, owner, first, owner2)
  BY <1>2, <1>5, <1>6, <1>8, <1>10, <1>11, <1>15 DEF Grows
<1>17. UserOK(u, first, owner2)'
  <2>1. RowOK(u, user[u], first, owner2)'
    BY <1>2, <1>5, <1>8, <1>10, <1>11, <1>15 DEF RowOK, Address
  <2>. QED
    BY <1>2, <1>3, <1>5, <1>8, <1>11, <2>1 DEF UserOK
<1>18. ASSUME NEW l \in Link PROVE LinkOK(l, first)'
  <2>0. l \in spent' => l \in spent
    BY <1>12, SessionsAssumption
  <2>1. CASE link[l] = None
    BY <1>5, <2>0, <2>1 DEF Told, LinkOK
  <2>2. CASE link[l] # None
    <3>1. LinkOK(l, first) /\ (l \in spent' => link'[l].state = "gone")
      BY <1>5, <2>0 DEF Told, LinkOK
    <3>. QED
      BY <1>16, <2>2, <3>1, LinkKept
  <2>. QED
    BY <2>1, <2>2
<1>19. ASSUME NEW s \in Token, s \in spent' PROVE opened'[s] # None
  <2>1. opened[s] # None
    BY <1>12, <1>19 DEF Told
  <2>. QED
    BY <1>6, <1>10, <2>1
<1>20. CallOK(call[c], first, owner2)'
  BY <1>11 DEF CallOK, Idle
<1>21. call[c].ref \in spent' /\ call[c].ref \in Link =>
         call[c].ref \in spent \/ link[call[c].ref].u = u
  BY <1>12, SessionsAssumption
<1>22. \A v \in Users \ {u} : v \in admitted' => v \in admitted
  BY <1>5
<1>23. Told(first, owner2)'
  BY <1>11, <1>12, <1>16, <1>17, <1>18, <1>19, <1>20, <1>21, <1>22, WriteKeeps
<1>. QED
  BY <1>13, <1>23

-----------------------------------------------------------------------------
LEMMA InvInitially == Init => Inv
<1>. SUFFICES ASSUME Init PROVE Inv
  OBVIOUS
<1>1. Typed
  BY IdleTyped, RequestFields DEF Init, Typed, TypeOK
<1>2. PICK first \in Firsts : first = [u \in Users |-> None]
  BY DEF Firsts
<1>3. PICK owner \in Owners : owner = [t \in Token |-> None]
  BY DEF Owners
<1>4. Told(first, owner)
  <2>1. \A u \in Users : UserOK(u, first, owner)
    BY DEF Init, UserOK, NoUser
  <2>2. \A l \in Link : LinkOK(l, first)
    BY DEF Init, LinkOK
  <2>3. \A c \in Calls : CallOK(call[c], first, owner)
    BY DEF Init, CallOK, Idle
  <2>. QED
    BY <2>1, <2>2, <2>3 DEF Told, Init
<1>. QED
  BY <1>1, <1>4 DEF Inv

LEMMA InvKept == Inv /\ [Next]_vars => Inv'
<1>. SUFFICES ASSUME Inv, [Next]_vars PROVE Inv'
  OBVIOUS
<1>1. PICK first \in Firsts, owner \in Owners : Typed /\ Told(first, owner)
  BY DEF Inv
<1>2. SUFFICES Typed' /\ \E first2 \in Firsts, owner2 \in Owners :
                           Told(first2, owner2)'
  BY DEF Inv
<1>3. CASE UNCHANGED vars
  <2>1. /\ Typed' <=> Typed
        /\ Told(first, owner)' <=> Told(first, owner)
    BY <1>3 DEF vars, Typed, TypeOK, Told, UserOK, LinkOK, CallOK, RowOK,
                Address
  <2>. QED
    BY <1>1, <2>1
<1>4. CASE EntryNext
  BY <1>1, <1>4, RegisterKeeps, SocialLoginKeeps, OtherSaveKeeps, CreateKeeps,
     SaveUserKeeps, IssueTokensKeeps DEF EntryNext
<1>5. CASE ChangeNext
  BY <1>1, <1>5, RequestEmailChangeKeeps, VerifyEmailChangeKeeps,
     WithdrawLinksKeeps, MailLinkKeeps, CommitEmailChangeKeeps DEF ChangeNext
<1>6. CASE LinkNext
  BY <1>1, <1>6, ResendVerificationKeeps, RequestPasswordResetKeeps,
     VerifyEmailKeeps, ResetPasswordKeeps, DropLinkKeeps, CommitResetKeeps,
     ExpireKeeps, CleanUpKeeps DEF LinkNext
<1>7. CASE SessionNext
  BY <1>1, <1>7, LoginKeeps, LogoutKeeps, SuspendUserKeeps, DeleteUserKeeps,
     ChangePasswordKeeps, RefreshKeeps, CommitPasswordKeeps, ClearTokenKeeps,
     SoftRemoveKeeps DEF SessionNext
<1>8. CASE Crash
  BY <1>1, <1>8, CrashKeeps
<1>. QED
  BY <1>3, <1>4, <1>5, <1>6, <1>7, <1>8 DEF Next

LEMMA Invariance == Spec => []Inv
BY InvInitially, InvKept, PTL DEF Spec

(* Every variable keeps to its type.                                       *)
THEOREM TypeCorrect == Spec => []TypeOK
<1>1. Inv => TypeOK
  BY DEF Inv, Typed
<1>. QED
  BY <1>1, Invariance, PTL

(* No account has a verified address that nobody acting for it has proved, *)
(* whatever registrations, changes of address, resets and saves of old     *)
(* copies overlap (register, verifyEmail, verifyEmailChange, resetPassword,*)
(* findOrCreateSocialUser).                                                *)
THEOREM EmailWasProvedAlways == Spec => []EmailWasProved
<1>1. Inv => EmailWasProved
  <2>. SUFFICES ASSUME Typed, NEW first \in Firsts, NEW owner \in Owners,
                       Told(first, owner), NEW u \in Users,
                       user[u].isEmailVerified
                PROVE  user[u].email \in proved[u]
    BY DEF Inv, EmailWasProved
  <2>1. CASE user[u].state = "none"
    BY <2>1 DEF Told, UserOK, NoUser
  <2>2. CASE user[u].state # "none"
    BY <2>2 DEF Told, UserOK, RowOK
  <2>. QED
    BY <2>1, <2>2
<1>. QED
  BY <1>1, Invariance, PTL

(* A link for a reset or a change of address that has been accepted once   *)
(* is accepted again only by a call whose copy of the row was read before  *)
(* (the transactions of resetPassword and verifyEmailChange).              *)
THEOREM SingleUseAlways == Spec => SingleUse
<1>1. Inv /\ [Next]_vars =>
        [\A c \in Calls :
           /\ call[c].at \in {"reset", "swap"}
           /\ call[c].ref \in spent
           /\ user'[call[c].u] # user[call[c].u]
           /\ call'[c] # call[c]
           => call[c].outdated]_vars
  BY DEF Inv, Told, CallOK
<1>. QED
  BY <1>1, Invariance, PTL DEF Spec, SingleUse

-----------------------------------------------------------------------------
(* What the sessions of u rest on, and what no step takes from them unless *)
(* a call goes on with an outdated copy.                                   *)
Kept(u) ==
  /\ SessionIsCurrent(user[u]) => SessionIsCurrent(user[u])'
  /\ user[u].isActive \/ ~user'[u].isActive
  /\ user[u].state = "deleted" => user'[u].state = "deleted"

(* An account whose row the step leaves alone: its token was issued to it, *)
(* and is not what another call exchanges.                                 *)
LEMMA KeptElsewhere ==
  ASSUME Typed, NEW first \in Firsts, NEW owner \in Owners,
         Told(first, owner), NEW u \in Users, user'[u] = user[u],
         \A t \in Token : opened[t] # None => opened'[t] = opened[t],
         \A t \in Token : t \in spent' =>
           t \in spent \/ (opened[t] # None /\ owner[t] # u)
  PROVE  Kept(u)
<1>1. user[u] \in User /\ UserOK(u, first, owner)
  BY DEF Typed, TypeOK, Told
<1>2. CASE user[u].state = "none"
  BY <1>1, <1>2 DEF UserOK, NoUser, Kept, SessionIsCurrent
<1>3. CASE user[u].state # "none"
  <2>1. RowOK(u, user[u], first, owner)
    BY <1>1, <1>3 DEF UserOK
  <2>. DEFINE t == user[u].hashedRefreshToken
  <2>2. t # None => t \in Token /\ opened[t] # None /\ owner[t] = u
    BY <1>1, <2>1, UserFields DEF RowOK
  <2>3. t # None => opened'[t] = opened[t] /\ (t \in spent' => t \in spent)
    BY <2>2
  <2>. QED
    BY <1>1, <2>3, UserFields DEF Kept, SessionIsCurrent
<1>. QED
  BY <1>2, <1>3

(* A row that is written with no token, and neither revives nor reactivates*)
(* the account.                                                            *)
LEMMA KeptWithoutToken ==
  ASSUME NEW u \in Users, user'[u].hashedRefreshToken = None,
         user[u].isActive \/ ~user'[u].isActive,
         user[u].state = "deleted" => user'[u].state = "deleted"
  PROVE  Kept(u)
BY DEF Kept, SessionIsCurrent

(* The rows a call writes.                                                 *)
LEMMA WritesOneRow ==
  ASSUME Typed, NEW c \in Calls, NEW row, NEW next, call[c].u \in Users,
         WriteUser(c, row, next)
  PROVE  /\ user'[call[c].u] = row /\ call'[c] = next
         /\ \A u \in Users \ {call[c].u} : user'[u] = user[u]
BY DEF Typed, TypeOK, WriteUser

LEMMA QuietStepKept ==
  ASSUME Typed, NEW first \in Firsts, NEW owner \in Owners,
         Told(first, owner), NEW u \in Users, UNCHANGED <<user, opened, spent>>
  PROVE  Kept(u)
BY KeptElsewhere

LEMMA ColumnKept ==
  ASSUME Typed, NEW first \in Firsts, NEW owner \in Owners,
         Told(first, owner), NEW u \in Users, NEW c \in Calls,
         \/ CommitReset(c) \/ CommitEmailChange(c) \/ CommitPassword(c)
         \/ ClearToken(c) \/ SoftRemove(c)
  PROVE  Kept(u)
<1>1. /\ call[c] \in Request /\ CallOK(call[c], first, owner)
      /\ call[c].u \in Users /\ user[call[c].u] \in User
  BY DEF Typed, TypeOK, Told, CallOK, CommitReset, CommitEmailChange,
         CommitPassword, ClearToken, SoftRemove
<1>. DEFINE v == call[c].u
<1>2. /\ opened' = opened
      /\ \A t \in Token : t \in spent' => t \in spent
  BY <1>1, SessionsAssumption
     DEF CallOK, CommitReset, CommitEmailChange, CommitPassword, ClearToken,
         SoftRemove
<1>3. CASE user' = user
  BY <1>2, <1>3, KeptElsewhere
<1>4. ASSUME NEW row \in User, WriteUser(c, row, Idle),
             row.isActive = user[v].isActive,
             row.state \in {user[v].state, "deleted"},
             \/ row.hashedRefreshToken = None
             \/ /\ row.hashedRefreshToken = user[v].hashedRefreshToken
                /\ row.password = user[v].password
                /\ row.email = user[v].email
      PROVE  Kept(u)
  <2>1. user'[v] = row /\ \A w \in Users \ {v} : user'[w] = user[w]
    BY <1>1, <1>4, WritesOneRow
  <2>2. CASE u # v
    BY <1>2, <2>1, <2>2, KeptElsewhere
  <2>3. CASE u = v
    <3>1. /\ user[u].isActive \/ ~user'[u].isActive
          /\ user[u].state = "deleted" => user'[u].state = "deleted"
      BY <1>1, <1>4, <2>1, <2>3 DEF User
    <3>2. CASE row.hashedRefreshToken = None
      BY <2>1, <2>3, <3>1, <3>2, KeptWithoutToken
    <3>3. CASE /\ row.hashedRefreshToken = user[v].hashedRefreshToken
               /\ row.password = user[v].password
               /\ row.email = user[v].email
      BY <1>1, <1>2, <2>1, <2>3, <3>1, <3>3, UserFields
         DEF Kept, SessionIsCurrent
    <3>. QED
      BY <1>4, <3>2, <3>3
  <2>. QED
    BY <2>2, <2>3
<1>5. CASE CommitReset(c)
  <2>. DEFINE seen == user[v].isEmailVerified \/ ~call[c].row.isEmailVerified
              row == [user[v] EXCEPT !.password = call[c].row.password,
                        !.hashedRefreshToken = None, !.isEmailVerified = seen]
  <2>1. WriteUser(c, row, Idle)
    BY <1>5 DEF CommitReset
  <2>2. seen \in BOOLEAN
    BY Zenon
  <2>3. call[c].row.password \in Password \cup {None}
    BY <1>1, RequestFields, UserFields
  <2>. HIDE DEF seen
  <2>4. /\ row \in User /\ row.isActive = user[v].isActive
        /\ row.state = user[v].state /\ row.hashedRefreshToken = None
    BY <1>1, <2>2, <2>3 DEF User
  <2>. QED
    BY <1>4, <2>1, <2>4
<1>6. CASE CommitEmailChange(c)
  <2>. DEFINE row == [user[v] EXCEPT !.email = call[c].row.email,
                        !.isEmailVerified = TRUE, !.hashedRefreshToken = None]
  <2>1. WriteUser(c, row, Idle) \/ user' = user
    BY <1>6 DEF CommitEmailChange
  <2>3. call[c].row.email \in Email \cup {None}
    BY <1>1, RequestFields, UserFields
  <2>4. /\ row \in User /\ row.isActive = user[v].isActive
        /\ row.state = user[v].state /\ row.hashedRefreshToken = None
    BY <1>1, <2>3 DEF User
  <2>. QED
    BY <1>3, <1>4, <2>1, <2>4
<1>7. CASE CommitPassword(c)
  <2>. DEFINE row == [user[v] EXCEPT !.password = call[c].row.password,
                                     !.hashedRefreshToken = None]
  <2>1. WriteUser(c, row, Idle)
    BY <1>7 DEF CommitPassword, WithPassword
  <2>3. call[c].row.password \in Password \cup {None}
    BY <1>1, RequestFields, UserFields
  <2>4. /\ row \in User /\ row.isActive = user[v].isActive
        /\ row.state = user[v].state /\ row.hashedRefreshToken = None
    BY <1>1, <2>3 DEF User
  <2>. QED
    BY <1>4, <2>1, <2>4
<1>8. CASE ClearToken(c)
  <2>. DEFINE row == [user[v] EXCEPT !.hashedRefreshToken = None]
  <2>1. WriteUser(c, row, Idle)
    BY <1>8 DEF ClearToken
  <2>4. /\ row \in User /\ row.isActive = user[v].isActive
        /\ row.state = user[v].state /\ row.hashedRefreshToken = None
    BY <1>1 DEF User
  <2>. QED
    BY <1>4, <2>1, <2>4
<1>9. CASE SoftRemove(c)
  <2>. DEFINE row == [user[v] EXCEPT !.state = "deleted"]
  <2>1. WriteUser(c, row, Idle)
    BY <1>9 DEF SoftRemove
  <2>4. /\ row \in User /\ row.isActive = user[v].isActive
        /\ row.state = "deleted" /\ row.password = user[v].password
        /\ row.hashedRefreshToken = user[v].hashedRefreshToken
        /\ row.email = user[v].email
    BY <1>1 DEF User
  <2>. QED
    BY <1>4, <2>1, <2>4
<1>. QED
  BY <1>5, <1>6, <1>7, <1>8, <1>9

LEMMA CreateKept ==
  ASSUME Typed, NEW first \in Firsts, NEW owner \in Owners,
         Told(first, owner), NEW u \in Users, NEW c \in Calls, Create(c)
  PROVE  Kept(u)
<1>1. call[c].u \in Users /\ call[c].row.hashedRefreshToken = None
  BY DEF Told, CallOK, Create
<1>2. UNCHANGED <<opened, spent>>
  BY DEF Create
<1>3. CASE user' = user
  BY <1>2, <1>3, QuietStepKept
<1>4. CASE /\ user[call[c].u].state = "none"
           /\ \E next : WriteUser(c, call[c].row, next)
  <2>1. /\ user'[call[c].u] = call[c].row
        /\ \A v \in Users \ {call[c].u} : user'[v] = user[v]
    BY <1>1, <1>4, WritesOneRow
  <2>2. CASE u # call[c].u
    BY <1>2, <2>1, <2>2, KeptElsewhere
  <2>3. CASE u = call[c].u
    <3>1. user[u].state # "deleted" /\ user[u].isActive
      BY <1>4, <2>3 DEF Told, UserOK, NoUser
    <3>. QED
      BY <1>1, <2>1, <2>3, <3>1, KeptWithoutToken
  <2>. QED
    BY <2>2, <2>3
<1>. QED
  BY <1>3, <1>4 DEF Create

LEMMA SaveUserKept ==
  ASSUME Typed, NEW first \in Firsts, NEW owner \in Owners,
         Told(first, owner), NEW u \in Users, NEW c \in Calls, SaveUser(c),
         ~StaleStep(u)
  PROVE  Kept(u)
<1>1. /\ call[c] \in Request /\ CallOK(call[c], first, owner)
      /\ call[c].u \in Users /\ call[c].row \in User
      /\ call[c].then \in {None, "issue", "drop"}
  BY RequestFields DEF Typed, Told, CallOK, SaveUser
<1>2. UNCHANGED <<opened, spent>>
  BY DEF SaveUser
<1>3. CASE user' = user
  BY <1>2, <1>3, QuietStepKept
<1>4. CASE WriteUser(c, call[c].row, Goto(c, call[c].then))
  <2>1. /\ user'[call[c].u] = call[c].row /\ call'[c] = Goto(c, call[c].then)
        /\ \A v \in Users \ {call[c].u} : user'[v] = user[v]
    BY <1>1, <1>4, WritesOneRow
  <2>2. CASE u # call[c].u
    BY <1>2, <2>1, <2>2, KeptElsewhere
  <2>3. CASE u = call[c].u
    <3>1. call'[c].at # "save"
      BY <1>1, <2>1, GotoTyped DEF Idle
    <3>2. ~call[c].outdated
      BY <2>3, <3>1 DEF StaleStep, SaveUser
    <3>3. /\ call[c].row.email = user[u].email
          /\ call[c].row.password = user[u].password
          /\ call[c].row.state = user[u].state
          /\ call[c].row.isActive => user[u].isActive
          /\ call[c].row.hashedRefreshToken \in {None, user[u].hashedRefreshToken}
      BY <1>1, <2>3, <3>2 DEF CallOK, SaveUser
    <3>4. CASE call[c].row.hashedRefreshToken = None
      BY <2>1, <2>3, <3>3, <3>4, KeptWithoutToken
    <3>5. CASE call[c].row.hashedRefreshToken = user[u].hashedRefreshToken
      BY <1>2, <2>1, <2>3, <3>3, <3>5 DEF Kept, SessionIsCurrent
    <3>. QED
      BY <3>3, <3>4, <3>5
  <2>. QED
    BY <2>2, <2>3
<1>. QED
  BY <1>3, <1>4 DEF SaveUser

LEMMA IssueTokensKept ==
  ASSUME Typed, NEW first \in Firsts, NEW owner \in Owners,
         Told(first, owner), NEW u \in Users, NEW c \in Calls, IssueTokens(c),
         ~StaleStep(u)
  PROVE  Kept(u)
<1>1. /\ call[c] \in Request /\ CallOK(call[c], first, owner)
      /\ call[c].u \in Users /\ user[call[c].u] \in User
      /\ call[c].at = "issue"
  BY RequestFields DEF Typed, TypeOK, Told, CallOK, IssueTokens
<1>. DEFINE v == call[c].u
<1>2. PICK t \in Unused(opened) :
         /\ opened' = [opened EXCEPT ![t] = <<call[c].row.password,
                                              call[c].row.email>>]
         /\ WriteUser(c, [user[v] EXCEPT !.hashedRefreshToken = t], Idle)
  BY DEF IssueTokens
<1>3. t \in Token /\ opened[t] = None /\ t \notin spent
  BY <1>2, UnusedIsNone DEF Typed, TypeOK, Told
<1>4. /\ opened'[t] = <<call[c].row.password, call[c].row.email>>
      /\ \A s \in Token \ {t} : opened'[s] = opened[s]
  BY <1>2, <1>3 DEF Typed, TypeOK
<1>5. spent' = spent \cup ({call[c].ref} \ {None})
  BY DEF IssueTokens
<1>6. call[c].ref # None => /\ call[c].ref \in Token
                           /\ opened[call[c].ref] # None
                           /\ owner[call[c].ref] = v
  BY <1>1 DEF CallOK
<1>7. /\ user'[v] = [user[v] EXCEPT !.hashedRefreshToken = t]
      /\ call'[c] = Idle /\ \A w \in Users \ {v} : user'[w] = user[w]
  BY <1>1, <1>2, WritesOneRow
<1>8. CASE u # v
  <2>1. \A s \in Token : s \in spent' =>
          s \in spent \/ (opened[s] # None /\ owner[s] # u)
    BY <1>5, <1>6, <1>8
  <2>2. \A s \in Token : opened[s] # None => opened'[s] = opened[s]
    BY <1>3, <1>4
  <2>. QED
    BY <1>7, <1>8, <2>1, <2>2, KeptElsewhere
<1>9. CASE u = v
  <2>1. ~call[c].outdated
    BY <1>1, <1>7, <1>9 DEF StaleStep, Idle
  <2>2. call[c].row.email = user[u].email /\ call[c].row.password = user[u].password
    BY <1>1, <1>9, <2>1 DEF CallOK
  <2>3. /\ user'[u].email = user[u].email /\ user'[u].password = user[u].password
        /\ user'[u].hashedRefreshToken = t /\ user'[u].state = user[u].state
        /\ user'[u].isActive = user[u].isActive
    BY <1>1, <1>7, <1>9 DEF User
  <2>4. t \notin spent'
    BY <1>3, <1>5, <1>6
  <2>5. SessionIsCurrent(user[u])'
    BY <1>4, <2>2, <2>3, <2>4 DEF SessionIsCurrent
  <2>6. user[u].isActive \/ ~user[u].isActive
    BY Zenon
  <2>. QED
    BY <2>3, <2>5, <2>6 DEF Kept
<1>. QED
  BY <1>8, <1>9

LEMMA StepKept ==
  ASSUME Inv, [Next]_vars, NEW u \in Users, ~StaleStep(u)
  PROVE  Kept(u)
<1>1. PICK first \in Firsts, owner \in Owners : Typed /\ Told(first, owner)
  BY DEF Inv
<1>2. CASE UNCHANGED <<user, opened, spent>>
  BY <1>1, <1>2, QuietStepKept
<1>3. CASE UNCHANGED vars
  BY <1>2, <1>3 DEF vars
<1>4. CASE EntryNext
  <2>1. CASE \E c \in Calls, v \in Users :
               \/ \E e \in Email, p \in Password, staff \in BOOLEAN :
                    Register(c, v, e, p, staff)
               \/ \E e \in Email : SocialLogin(c, v, e)
               \/ OtherSave(c, v)
    BY <1>2, <2>1 DEF Register, SocialLogin, OtherSave
  <2>2. CASE \E c \in Calls : Create(c) \/ SaveUser(c) \/ IssueTokens(c)
    BY <1>1, <2>2, CreateKept, SaveUserKept, IssueTokensKept
  <2>. QED
    BY <1>4, <2>1, <2>2 DEF EntryNext
<1>5. CASE ChangeNext
  <2>1. PICK c \in Calls :
          \/ \E v \in Users, e \in Email : RequestEmailChange(c, v, e)
          \/ \E l \in Link : VerifyEmailChange(c, l)
          \/ WithdrawLinks(c) \/ MailLink(c) \/ CommitEmailChange(c)
    BY <1>5 DEF ChangeNext
  <2>2. CASE CommitEmailChange(c)
    BY <1>1, <2>2, ColumnKept
  <2>3. CASE ~CommitEmailChange(c)
    BY <1>2, <2>1, <2>3 DEF RequestEmailChange, VerifyEmailChange,
       WithdrawLinks, MailLink
  <2>. QED
    BY <2>2, <2>3
<1>6. CASE LinkNext
  <2>1. CASE \E c \in Calls : CommitReset(c)
    BY <1>1, <2>1, ColumnKept
  <2>2. CASE ~\E c \in Calls : CommitReset(c)
    BY <1>2, <1>6, <2>2 DEF LinkNext, ResendVerification,
       RequestPasswordReset, VerifyEmail, ResetPassword, DropLink, Expire,
       CleanUp
  <2>. QED
    BY <2>1, <2>2
<1>7. CASE SessionNext
  <2>1. CASE \E c \in Calls : CommitPassword(c) \/ ClearToken(c) \/ SoftRemove(c)
    BY <1>1, <2>1, ColumnKept
  <2>2. CASE ~\E c \in Calls : CommitPassword(c) \/ ClearToken(c) \/ SoftRemove(c)
    BY <1>2, <1>7, <2>2 DEF SessionNext, Login, Logout, SuspendUser,
       DeleteUser, ChangePassword, Refresh
  <2>. QED
    BY <2>1, <2>2
<1>8. CASE Crash
  BY <1>2, <1>8 DEF Crash
<1>. QED
  BY <1>3, <1>4, <1>5, <1>6, <1>7, <1>8 DEF Next

(* "Invalidates all sessions": a new password, a new address, a suspension *)
(* and a rotation end the session they should, and nothing restores it, an *)
(* account or its activity, short of a call that goes on with an outdated  *)
(* copy of the row.                                                        *)
THEOREM SessionsEndAlways == Spec => SessionsEnd
<1>1. Inv /\ [Next]_vars =>
        [\A u \in Users :
           \/ StaleStep(u)
           \/ /\ SessionIsCurrent(user[u]) => SessionIsCurrent(user[u])'
              /\ user[u].isActive \/ ~user'[u].isActive
              /\ user[u].state = "deleted" => user'[u].state = "deleted"]_vars
  BY StepKept DEF Kept
<1>. QED
  BY <1>1, Invariance, PTL DEF Spec, SessionsEnd

=============================================================================
