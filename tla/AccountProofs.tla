--------------------------- MODULE AccountProofs ----------------------------
(***************************************************************************)
(* What holds of accounts for every number of users, numbers, documents,   *)
(* sales and requests in progress.                                         *)
(***************************************************************************)
EXTENDS Account, AddressBook, FiniteSetTheorems, WellFoundedInduction, TLAPS

(* A row of users, on record or in the hands of a request: the code that   *)
(* is outstanding was texted to the number that waits.                     *)
NumberOK(row) ==
  /\ Verified(row) => row.phone = row.phoneVerifiedAt
  /\ row.otp # None => row.otp = row.pendingPhone

FormOK(at, form) ==
  at \in {"verdict", "updateVerdict"} => form.status \in {"APPROVED", "REJECTED"}

(* What a request may rely on as long as nobody wrote what it has read.    *)
Current(r) ==
  /\ r.at \in {"sms", "saveUser", "updateUser"} =>
       /\ Verified(user[r.u]) => Verified(r.row)
       /\ r.row.fullName # user[r.u].fullName => CanEditName(r.u)
       /\ r.row.ratingCount = user[r.u].ratingCount
  /\ r.at \in {"store", "saveKyc", "updateKyc"} => CanEditName(r.u)
  /\ r.at = "aggregate" =>
       r.row.ratingCount = Cardinality(ratings[r.u] \cup {r.ref})

CallOK(r) ==
  r.at # "idle" => /\ r.u \in Users
                   /\ r.u \notin torn => NumberOK(r.row)
                   /\ FormOK(r.at, r.form)
                   /\ r.at = "aggregate" => r.ref \in Sales
                   /\ r.outdated = {} => Current(r)

Inv == /\ TypeOK
       /\ \A u \in Users \ torn : NumberOK(user[u])
       /\ \A c \in Calls : CallOK(call[c])

-----------------------------------------------------------------------------
LEMMA NewRowsAreTyped ==
  /\ NewUser \in User /\ NoKyc \in Kyc /\ Idle \in CallState
  /\ NumberOK(NewUser) /\ Idle.at = "idle" /\ Idle.row = NewUser
  /\ Registered \subseteq User /\ \A row \in Registered : NumberOK(row)
  /\ 0 \in 0..PHONE_OTP_MAX_ATTEMPTS
<1>1. 0 \in 0..PHONE_OTP_MAX_ATTEMPTS
  BY AccountAssumption
<1>2. 0 \in 0..Cardinality(Sales)
  BY AccountAssumption, FS_CardinalityType
<1>3. NewUser \in User
  BY <1>1, <1>2 DEF NewUser, User
<1>4. NoKyc \in Kyc
  BY DEF NoKyc, Kyc
<1>5. Idle \in CallState
  BY <1>3, <1>4 DEF Idle, CallState, Stage
<1>6. ASSUME NEW row \in Registered PROVE row \in User /\ NumberOK(row)
  BY <1>1, <1>2 DEF Registered, User, NumberOK, Verified
<1> QED BY <1>1, <1>3, <1>4, <1>5, <1>6 DEF NumberOK, NewUser, Idle, Verified

LEMMA CountIsTyped ==
  ASSUME NEW S \in SUBSET Sales, NEW p \in Sales
  PROVE  Cardinality(S \cup {p}) \in 0..Cardinality(Sales)
<1>1. /\ IsFiniteSet(S \cup {p})
      /\ Cardinality(S \cup {p}) <= Cardinality(Sales)
  BY AccountAssumption, FS_Subset
<1> QED BY <1>1, AccountAssumption, FS_CardinalityType

(* A step of one call that writes no row others have read.                 *)
LEMMA OneCallKeeps ==
  ASSUME Inv, NEW c \in Calls, NEW r \in CallState, CallOK(r),
         call' = [call EXCEPT ![c] = r],
         UNCHANGED <<user, kyc, ratings, torn>>,
         hasBank' \in SUBSET Users,
         file' \in [FileId -> {"free", "stored", "deleted"}]
  PROVE  Inv'
<1>1. TypeOK'
  BY DEF Inv, TypeOK
<1>2. \A u \in Users \ torn' : NumberOK(user[u])'
  BY DEF Inv, NumberOK, Verified
<1>3. ASSUME NEW d \in Calls PROVE CallOK(call[d])'
  <2>1. call'[d] = r \/ call'[d] = call[d]
    BY DEF Inv, TypeOK
  <2>2. CallOK(call'[d])
    BY <2>1 DEF Inv
  <2> QED BY <2>2 DEF CallOK, Current, CanEditName
<1> QED BY <1>1, <1>2, <1>3 DEF Inv

LEMMA WriteIsTyped ==
  ASSUME TypeOK, NEW c \in Calls, NEW tables \in SUBSET Tables,
         NEW next \in CallState, Write(c, tables, next)
  PROVE  call' \in [Calls -> CallState]
<1>1. \A d \in Calls :
        [call[d] EXCEPT !.outdated = @ \cup (tables \cap RestsOn(call[d].at))]
          \in CallState
  BY DEF TypeOK, CallState
<1> QED BY <1>1 DEF Write, TypeOK

(* A step that writes: the calls that have read what it writes are marked. *)
LEMMA WriteKeeps ==
  ASSUME Inv, TypeOK', NEW c \in Calls, NEW tables \in SUBSET Tables,
         NEW next, Write(c, tables, next), CallOK(next)',
         NEW u \in Users, call[c].u = u,
         \A v \in Users \ {u} :
           /\ user'[v] = user[v] /\ kyc'[v] = kyc[v]
           /\ ratings'[v] = ratings[v],
         torn \subseteq torn',
         u \notin torn' => NumberOK(user'[u]),
         "users" \notin tables => user' = user,
         "kyc" \notin tables => kyc' = kyc,
         "ratings" \notin tables => ratings' = ratings
  PROVE  Inv'
<1>1. ASSUME NEW v \in Users \ torn' PROVE NumberOK(user'[v])
  <2>1. v # u => user'[v] = user[v] /\ v \notin torn
    OBVIOUS
  <2> QED BY <2>1 DEF Inv
<1>2. ASSUME NEW d \in Calls PROVE CallOK(call[d])'
  <2>1. CASE d = c
    BY <2>1 DEF Write
  <2>2. CASE d # c /\ call[d].u # call[c].u
    <3>1. call'[d] = call[d] /\ CallOK(call[d])
      BY <2>2 DEF Write, Inv
    <3>2. call[d].at # "idle" =>
            /\ user'[call[d].u] = user[call[d].u]
            /\ kyc'[call[d].u] = kyc[call[d].u]
            /\ ratings'[call[d].u] = ratings[call[d].u]
      BY <2>2, <3>1 DEF CallOK
    <3> QED BY <3>1, <3>2 DEF CallOK, Current, CanEditName
  <2>3. CASE d # c /\ call[d].u = call[c].u
    <3> DEFINE marked == call[d].outdated \cup (tables \cap RestsOn(call[d].at))
    <3>1. call'[d] = [call[d] EXCEPT !.outdated = marked] /\ CallOK(call[d])
      BY <2>3 DEF Write, Inv
    <3>2. call[d] \in CallState
      BY DEF Inv, TypeOK
    <3>3. /\ call'[d].at = call[d].at /\ call'[d].u = call[d].u
          /\ call'[d].row = call[d].row /\ call'[d].form = call[d].form
          /\ call'[d].ref = call[d].ref /\ call'[d].outdated = marked
      BY <3>1, <3>2 DEF CallState
    <3>4. CASE marked # {}
      BY <3>1, <3>3, <3>4 DEF CallOK
    <3>5. CASE marked = {}
      <4>1. call[d].outdated = {} /\ tables \cap RestsOn(call[d].at) = {}
        BY <3>5
      <4>2. /\ call[d].at \in {"sms", "saveUser", "updateUser"}
                 => user' = user /\ kyc' = kyc
            /\ call[d].at \in {"store", "saveKyc", "updateKyc"} => kyc' = kyc
            /\ call[d].at = "aggregate" => ratings' = ratings
        BY <4>1 DEF RestsOn
      <4> QED BY <3>1, <3>3, <4>1, <4>2 DEF CallOK, Current, CanEditName
    <3> QED BY <3>4, <3>5
  <2> QED BY <2>1, <2>2, <2>3
<1> QED BY <1>1, <1>2 DEF Inv

-----------------------------------------------------------------------------
LEMMA InvInitially == Init => Inv
<1> SUFFICES ASSUME Init PROVE Inv
  OBVIOUS
<1>1. TypeOK
  BY NewRowsAreTyped DEF Init, InitWith, TypeOK
<1>2. \A u \in Users \ torn : NumberOK(user[u])
  BY NewRowsAreTyped DEF Init, InitWith
<1>3. \A c \in Calls : CallOK(call[c])
  BY NewRowsAreTyped DEF Init, InitWith, CallOK
<1> QED BY <1>1, <1>2, <1>3 DEF Inv

(* A request that begins has just read what it relies on.                  *)
LEMMA BeginKeeps ==
  ASSUME Inv, NEW c \in Calls, NEW r \in CallState, CallOK(r), Begin(c, r)
  PROVE  Inv'
<1>1. UNCHANGED <<user, kyc, ratings, torn>> /\ hasBank' \in SUBSET Users
      /\ file' \in [FileId -> {"free", "stored", "deleted"}]
  BY DEF Begin, rows, Inv, TypeOK
<1> QED BY <1>1, OneCallKeeps DEF Begin

(* A request about users: the copy it will save is a row, and no less than *)
(* the row on record.                                                      *)
LEMMA BeginUserKeeps ==
  ASSUME Inv, NEW c \in Calls, NEW u \in Users, NEW r \in CallState,
         Begin(c, r), r.at \in {"sms", "saveUser"}, r.u = u, r.outdated = {},
         u \notin torn => NumberOK(r.row),
         Verified(user[u]) => Verified(r.row),
         r.row.fullName # user[u].fullName => CanEditName(u),
         r.row.ratingCount = user[u].ratingCount
  PROVE  Inv'
<1>1. CallOK(r)
  BY DEF CallOK, Current, FormOK
<1> QED BY <1>1, BeginKeeps

(* A request that ends, or is lost, leaves the rows as they are.           *)
LEMMA DoneKeeps ==
  ASSUME Inv, NEW c \in Calls, Done(c),
         UNCHANGED <<user, kyc, ratings, torn>>,
         hasBank' \in SUBSET Users,
         file' \in [FileId -> {"free", "stored", "deleted"}]
  PROVE  Inv'
<1>1. call' = [call EXCEPT ![c] = Idle]
  BY DEF Done
<1>2. CallOK(Idle)
  BY NewRowsAreTyped DEF CallOK
<1> QED BY <1>1, <1>2, NewRowsAreTyped, OneCallKeeps

-----------------------------------------------------------------------------
(* The phone and the profile.                                              *)
(* The number columns of an UPDATE's row are as they were read together,   *)
(* or the account is torn.                                                 *)
LEMMA NumberDecides ==
  ASSUME NEW x, NEW y, Number(x) = Number(y), NumberOK(y)
  PROVE  NumberOK(x)
BY DEF Number, NumberOK, Verified

LEMMA MixedUserIsTyped ==
  ASSUME TypeOK, NEW c \in Calls, call[c].u \in Users
  PROVE  /\ MixedUser(c) \in User
         /\ \A k \in {"phoneVerifiedAt", "fullName", "ratingCount"} :
              MixedUser(c)[k] \in {call[c].row[k], user[call[c].u][k]}
<1> DEFINE row == user[call[c].u]
           Value(k) == IF k \in call[c].columns THEN call[c].row[k] ELSE row[k]
<1>1. row \in User /\ call[c].row \in User
  BY DEF TypeOK, CallState
<1>2. /\ Value("phone") \in Phones \cup {None}
      /\ Value("phoneVerifiedAt") \in Phones \cup {None}
      /\ Value("pendingPhone") \in Phones \cup {None}
      /\ Value("otp") \in Phones \cup {None}
      /\ Value("attempts") \in 0..PHONE_OTP_MAX_ATTEMPTS
      /\ Value("fullName") \in Names \cup {None}
      /\ Value("ratingCount") \in 0..Cardinality(Sales)
  BY <1>1 DEF User
<1>3. MixedUser(c) =
        [row EXCEPT !.phone = Value("phone"),
                    !.phoneVerifiedAt = Value("phoneVerifiedAt"),
                    !.pendingPhone = Value("pendingPhone"), !.otp = Value("otp"),
                    !.attempts = Value("attempts"),
                    !.fullName = Value("fullName"),
                    !.ratingCount = Value("ratingCount")]
  BY DEF MixedUser
<1>4. /\ Value("phoneVerifiedAt") \in
           {call[c].row["phoneVerifiedAt"], row["phoneVerifiedAt"]}
      /\ Value("fullName") \in {call[c].row["fullName"], row["fullName"]}
      /\ Value("ratingCount") \in {call[c].row["ratingCount"], row["ratingCount"]}
  OBVIOUS
<1> HIDE DEF Value, row
<1>5. /\ MixedUser(c) \in User
      /\ MixedUser(c).phoneVerifiedAt = Value("phoneVerifiedAt")
      /\ MixedUser(c).fullName = Value("fullName")
      /\ MixedUser(c).ratingCount = Value("ratingCount")
  BY <1>1, <1>2, <1>3 DEF User
<1> QED BY <1>4, <1>5 DEF row

LEMMA MixedKycIsTyped ==
  ASSUME TypeOK, NEW c \in Calls, call[c].u \in Users
  PROVE  /\ MixedKyc(c) \in Kyc
         /\ MixedKyc(c).status \in {call[c].form.status, kyc[call[c].u].status}
<1> DEFINE row == kyc[call[c].u]
           Value(k) == IF k \in call[c].columns THEN call[c].form[k] ELSE row[k]
<1>1. row \in Kyc /\ call[c].form \in Kyc
  BY DEF TypeOK, CallState
<1>2. /\ Value("status") \in {"NONE", "PENDING", "APPROVED", "REJECTED"}
      /\ Value("fullName") \in Names \cup {None}
      /\ Value("type") \in DocumentType \cup {None}
      /\ Value("papers") \in FileId \cup {None}
  BY <1>1 DEF Kyc
<1>3. MixedKyc(c) = [row EXCEPT !.status = Value("status"),
                                !.fullName = Value("fullName"),
                                !.type = Value("type"),
                                !.papers = Value("papers")]
  BY DEF MixedKyc
<1>4. Value("status") \in {call[c].form.status, row.status}
  OBVIOUS
<1> HIDE DEF Value, row
<1>5. MixedKyc(c) \in Kyc /\ MixedKyc(c).status = Value("status")
  BY <1>1, <1>2, <1>3 DEF Kyc
<1> QED BY <1>4, <1>5 DEF row

LEMMA FailureKeeps ==
  ASSUME Inv, NEW c \in Calls, RequestFails(c)
  PROVE  Inv'
BY DoneKeeps DEF RequestFails, rows, Inv, TypeOK

-----------------------------------------------------------------------------
(* The phone and the profile.                                              *)
LEMMA UpdateUserKeeps ==
  ASSUME Inv, NEW c \in Calls, UpdateUser(c)
  PROVE  Inv'
<1> DEFINE row == MixedUser(c)
<1>1. UNCHANGED <<kyc, hasBank, file, ratings>> /\ call[c].at = "updateUser"
      /\ Write(c, {"users"}, Idle)
  BY DEF UpdateUser
<1>2. PICK u \in Users : u = call[c].u
  BY <1>1 DEF Inv, CallOK
<1>3. /\ user' = [user EXCEPT ![u] = row]
      /\ torn' = IF Number(row) \in {Number(call[c].row), Number(user[u])}
                 THEN torn ELSE torn \cup {u}
  BY <1>2 DEF UpdateUser
<1>4. row \in User
  BY <1>2, MixedUserIsTyped DEF Inv
<1>5. u \notin torn => NumberOK(call[c].row) /\ NumberOK(user[u])
  BY <1>1, <1>2 DEF Inv, CallOK
<1> HIDE DEF row
<1>6. {"users"} \in SUBSET Tables
  BY DEF Tables
<1>7. TypeOK'
  BY <1>1, <1>3, <1>4, <1>6, NewRowsAreTyped, WriteIsTyped DEF Inv, TypeOK
<1>8. torn \subseteq torn' /\ user'[u] = row
  BY <1>3 DEF Inv, TypeOK
<1>9. u \notin torn' => NumberOK(row)
  BY <1>3, <1>5, NumberDecides
<1>10. \A v \in Users \ {u} : user'[v] = user[v]
  BY <1>3 DEF Inv, TypeOK
<1>11. CallOK(Idle)'
  BY NewRowsAreTyped DEF CallOK
<1> QED BY <1>1, <1>2, <1>6, <1>7, <1>8, <1>9, <1>10, <1>11, WriteKeeps

LEMMA PhoneKeeps ==
  ASSUME Inv, PhoneNext(Phones, Names)
  PROVE  Inv'
<1>0. \A u \in Users : user[u] \in User /\ (u \notin torn => NumberOK(user[u]))
  BY DEF Inv, TypeOK
<1>1. ASSUME NEW c \in Calls, NEW u \in Users, NEW given \in Phones \cup {None},
             SendOtp(c, u, given)
      PROVE  Inv'
  <2> DEFINE phone == IF given # None THEN given ELSE user[u].pendingPhone
             row == [user[u] EXCEPT !.pendingPhone = phone, !.otp = phone,
                                    !.attempts = 0]
             r == [Idle EXCEPT !.at = "sms", !.u = u, !.columns = {"otp"},
                               !.row = row]
  <2>1. phone \in Phones
        /\ Begin(c, r)
    BY <1>0, <1>1 DEF SendOtp, User
  <2> HIDE DEF phone
  <2>2. row \in User
    BY <1>0, <2>1, NewRowsAreTyped DEF User
  <2>3. /\ u \notin torn => NumberOK(row)
        /\ Verified(user[u]) => Verified(row)
        /\ row.fullName = user[u].fullName
        /\ row.ratingCount = user[u].ratingCount
    BY <1>0, <2>1, AccountAssumption DEF User, NumberOK, Verified
  <2> HIDE DEF row
  <2>4. /\ r \in CallState /\ r.at = "sms" /\ r.u = u /\ r.row = row
        /\ r.outdated = {}
    BY <2>2, NewRowsAreTyped DEF CallState, Idle, Stage, UserColumn
  <2> HIDE DEF r
  <2> QED BY <2>1, <2>3, <2>4, BeginUserKeeps
<1>2. ASSUME NEW c \in Calls, NEW u \in Users, NEW right \in BOOLEAN,
             VerifyOtp(c, u, right)
      PROVE  Inv'
  <2> DEFINE old == user[u]
             row == IF ~right THEN [old EXCEPT !.attempts = @ + 1]
                    ELSE IF Taken(u, old.pendingPhone) THEN Discarded(old)
                    ELSE Promoted(old)
             columns == IF right THEN {"phoneVerifiedAt"} ELSE {}
             r == [Idle EXCEPT !.at = "saveUser", !.u = u,
                               !.columns = columns, !.row = row]
  <2>1. /\ old.pendingPhone # None /\ old.otp # None
        /\ old.attempts < PHONE_OTP_MAX_ATTEMPTS
        /\ Begin(c, r)
    BY <1>2 DEF VerifyOtp
  <2>2. /\ row \in User /\ (u \notin torn => NumberOK(row))
        /\ Verified(old) => Verified(row)
        /\ row.fullName = old.fullName
        /\ row.ratingCount = old.ratingCount
    <3>0. old \in User /\ (u \notin torn => NumberOK(old))
          /\ 0 \in 0..PHONE_OTP_MAX_ATTEMPTS
      BY <1>0, NewRowsAreTyped
    <3> HIDE DEF old
    <3>1. CASE ~right
      BY <2>1, <3>0, <3>1, AccountAssumption DEF User, NumberOK, Verified
    <3>2. CASE right /\ Taken(u, old.pendingPhone)
      BY <3>0, <3>2 DEF User, NumberOK, Verified, Discarded
    <3>3. CASE right /\ ~Taken(u, old.pendingPhone)
      <4>1. row = Promoted(old)
        BY <3>3
      <4>2. Promoted(old) \in User
        BY <3>0 DEF User, Promoted
      <4>3. /\ u \notin torn => NumberOK(Promoted(old))
            /\ Verified(Promoted(old))
            /\ Promoted(old).fullName = old.fullName
            /\ Promoted(old).ratingCount = old.ratingCount
        BY <2>1, <3>0 DEF User, NumberOK, Verified, Promoted
      <4> QED BY <4>1, <4>2, <4>3
    <3> QED BY <3>1, <3>2, <3>3
  <2>3. columns \in SUBSET UserColumn
    BY DEF UserColumn
  <2> HIDE DEF row, columns
  <2>4. /\ r \in CallState /\ r.at = "saveUser" /\ r.u = u /\ r.row = row
        /\ r.outdated = {}
    BY <2>2, <2>3, NewRowsAreTyped DEF CallState, Idle, Stage
  <2> HIDE DEF r
  <2> QED BY <2>1, <2>2, <2>4, BeginUserKeeps
<1>3. ASSUME NEW c \in Calls, NEW u \in Users,
             NEW name \in Names \cup {user[u].fullName},
             NEW phone \in Phones \cup {None},
             UpdateOwnProfile(c, u, name, phone)
      PROVE  Inv'
  <2> DEFINE named == [user[u] EXCEPT !.fullName = name]
  <2>1. PICK row \in {named} \cup {WithPending(named, q) : q \in {None, phone}} :
          Begin(c, [Idle EXCEPT !.at = "saveUser", !.u = u, !.row = row])
    BY <1>3 DEF UpdateOwnProfile
  <2>2. name # user[u].fullName => CanEditName(u)
    BY <1>3 DEF UpdateOwnProfile, NameIsFree, CanEditName
  <2>3. /\ named \in User /\ (u \notin torn => NumberOK(named))
        /\ Verified(user[u]) => Verified(named)
        /\ named.fullName = name
        /\ named.ratingCount = user[u].ratingCount
    BY <1>0 DEF User, NumberOK, Verified
  <2> HIDE DEF named
  <2>4. \A q \in {None, phone} :
          /\ WithPending(named, q) \in User
          /\ u \notin torn => NumberOK(WithPending(named, q))
          /\ Verified(named) => Verified(WithPending(named, q))
          /\ WithPending(named, q).fullName = named.fullName
          /\ WithPending(named, q).ratingCount = named.ratingCount
    <3> SUFFICES ASSUME NEW q \in {None, phone}
                 PROVE  /\ WithPending(named, q) \in User
                        /\ u \notin torn => NumberOK(WithPending(named, q))
                        /\ Verified(named) => Verified(WithPending(named, q))
                        /\ WithPending(named, q).fullName = named.fullName
                        /\ WithPending(named, q).ratingCount = named.ratingCount
      OBVIOUS
    <3>1. WithPending(named, q) \in User
      BY <2>3, NewRowsAreTyped DEF WithPending, User
    <3> QED BY <2>3, <3>1 DEF WithPending, User, NumberOK, Verified
  <2>5. /\ row \in User /\ (u \notin torn => NumberOK(row))
        /\ Verified(user[u]) => Verified(row)
        /\ row.fullName = name
        /\ row.ratingCount = user[u].ratingCount
    BY <2>1, <2>3, <2>4
  <2> DEFINE r == [Idle EXCEPT !.at = "saveUser", !.u = u, !.row = row]
  <2>6. /\ r \in CallState /\ r.at = "saveUser" /\ r.u = u /\ r.row = row
        /\ r.outdated = {}
    BY <2>5, NewRowsAreTyped DEF CallState, Idle, Stage
  <2>7. Begin(c, r)
    BY <2>1
  <2> HIDE DEF r
  <2> QED BY <2>2, <2>5, <2>6, <2>7, BeginUserKeeps
<1>4. ASSUME NEW c \in Calls, SelectUser(c) PROVE Inv'
  <2>0. Replaced(c) \subseteq UserColumn
    BY DEF Replaced, UserColumn
  <2>1. PICK added \in SUBSET UserColumn :
          call' = [call EXCEPT ![c].at = "updateUser",
                               ![c].columns = @ \cup added]
    <3> DEFINE differ == {k \in UserColumn : call[c].row[k] # user[call[c].u][k]}
    <3>1. PICK replaced \in SUBSET Replaced(c) :
            call' = [call EXCEPT ![c].at = "updateUser",
                                 ![c].columns = @ \cup differ \cup replaced]
      BY <1>4 DEF SelectUser
    <3>2. differ \cup replaced \in SUBSET UserColumn
      BY <2>0
    <3> HIDE DEF differ
    <3>3. call[c].columns \cup differ \cup replaced
            = call[c].columns \cup (differ \cup replaced)
      OBVIOUS
    <3> QED BY <3>1, <3>2, <3>3
  <2> DEFINE r == [call[c] EXCEPT !.at = "updateUser",
                                  !.columns = @ \cup added]
  <2>2. call' = [call EXCEPT ![c] = r] /\ call[c].at \in {"sms", "saveUser"}
        /\ UNCHANGED <<user, kyc, ratings, torn, hasBank, file>>
    BY <1>4, <2>1 DEF SelectUser, rows
  <2>3. call[c] \in CallState /\ CallOK(call[c])
    BY DEF Inv, TypeOK
  <2>4. /\ r \in CallState /\ r.at = "updateUser" /\ r.u = call[c].u
        /\ r.row = call[c].row /\ r.outdated = call[c].outdated
    BY <2>3 DEF CallState, Stage
  <2> HIDE DEF r
  <2>5. CallOK(r)
    BY <2>2, <2>3, <2>4 DEF CallOK, Current, FormOK
  <2> QED BY <2>2, <2>4, <2>5, OneCallKeeps DEF Inv, TypeOK
<1> QED BY <1>1, <1>2, <1>3, <1>4, UpdateUserKeeps DEF PhoneNext

-----------------------------------------------------------------------------
(* The documents, the bank details and the review.                         *)
LEMMA WriteKycKeeps ==
  ASSUME Inv, NEW c \in Calls, NEW row \in Kyc, NEW next \in CallState,
         call[c].u \in Users, kyc' = [kyc EXCEPT ![call[c].u] = row],
         Write(c, {"kyc"}, next), CallOK(next)',
         UNCHANGED <<user, hasBank, file, ratings, torn>>
  PROVE  Inv'
<1>1. PICK u \in Users : u = call[c].u
  OBVIOUS
<1>2. {"kyc"} \in SUBSET Tables
  BY DEF Tables
<1>3. TypeOK'
  BY <1>1, <1>2, WriteIsTyped DEF Inv, TypeOK
<1>4. \A v \in Users \ {u} : kyc'[v] = kyc[v]
  BY <1>1 DEF Inv, TypeOK
<1>5. u \notin torn' => NumberOK(user'[u])
  BY DEF Inv
<1> QED BY <1>1, <1>2, <1>3, <1>4, <1>5, WriteKeeps

LEMMA SaveKycKeeps ==
  ASSUME Inv, NEW c \in Calls, InsertKyc(c) \/ UpdateKyc(c)
  PROVE  Inv'
<1>1. /\ UNCHANGED <<user, hasBank, file, ratings, torn>>
      /\ call[c].at \in {"saveKyc", "updateKyc", "updateVerdict"}
  BY DEF InsertKyc, UpdateKyc
<1>2. call[c] \in CallState /\ CallOK(call[c])
  BY DEF Inv, TypeOK
<1>3. call[c].u \in Users /\ call[c].form \in Kyc
  BY <1>1, <1>2 DEF CallOK, CallState
<1>4. MixedKyc(c) \in Kyc
  BY <1>3, MixedKycIsTyped DEF Inv
<1>5. PICK row \in Kyc, next \in {Idle, [call[c] EXCEPT !.at = "cleanup"]} :
        kyc' = [kyc EXCEPT ![call[c].u] = row] /\ Write(c, {"kyc"}, next)
  BY <1>3, <1>4 DEF InsertKyc, UpdateKyc
<1>6. next \in CallState
  BY <1>2, <1>5, NewRowsAreTyped DEF CallState, Stage
<1>7. CallOK(next)'
  <2>1. CASE next = Idle
    BY <2>1, NewRowsAreTyped DEF CallOK
  <2>2. CASE next = [call[c] EXCEPT !.at = "cleanup"]
    <3>1. /\ next.at = "cleanup" /\ next.u = call[c].u
          /\ next.row = call[c].row
      BY <1>2, <2>2 DEF CallState
    <3> QED BY <1>1, <1>2, <3>1 DEF CallOK, FormOK, Current
  <2> QED BY <1>5, <2>1, <2>2
<1> QED BY <1>1, <1>3, <1>5, <1>6, <1>7, WriteKycKeeps

(* A step of one call that only moves it on, along the documents.          *)
LEMMA MoveKeeps ==
  ASSUME Inv, NEW c \in Calls, NEW r \in CallState,
         call' = [call EXCEPT ![c] = r],
         UNCHANGED <<user, kyc, ratings, torn, hasBank>>,
         file' \in [FileId -> {"free", "stored", "deleted"}],
         r.u = call[c].u, r.row = call[c].row,
         r.outdated = call[c].outdated,
         \/ call[c].at = "store" /\ r.at = "saveKyc"
         \/ call[c].at = "saveKyc" /\ r.at = "updateKyc"
         \/ call[c].at = "verdict" /\ r.at = "updateVerdict"
              /\ r.form = call[c].form
         \/ call[c].at = "cleanup" /\ r.at = "bank"
  PROVE  Inv'
<1>1. call[c] \in CallState /\ CallOK(call[c])
  BY DEF Inv, TypeOK
<1>2. CallOK(r)
  BY <1>1 DEF CallOK, FormOK, Current
<1>3. hasBank' \in SUBSET Users
  BY DEF Inv, TypeOK
<1> QED BY <1>2, <1>3, OneCallKeeps

LEMMA KycKeeps ==
  ASSUME Inv, KycNext
  PROVE  Inv'
<1>0. /\ \A u \in Users : kyc[u] \in Kyc /\ user[u] \in User
      /\ \A c \in Calls : call[c] \in CallState /\ CallOK(call[c])
  BY DEF Inv, TypeOK
<1>1. ASSUME NEW c \in Calls, NEW u \in Users, NEW type \in DocumentType,
             NEW uploads \in BOOLEAN, SubmitKyc(c, u, type, uploads)
      PROVE  Inv'
  <2> DEFINE retained == IF kyc[u].type = type THEN kyc[u].papers ELSE None
             form == [status |-> "PENDING", fullName |-> user[u].fullName,
                      type |-> type,
                      papers |-> IF uploads THEN None ELSE retained]
             at == IF uploads THEN "store" ELSE "saveKyc"
             r == [Idle EXCEPT !.at = at, !.u = u, !.ref = kyc[u].papers,
                               !.form = form]
  <2>1. CanEditName(u) /\ Begin(c, r)
    BY <1>1 DEF SubmitKyc, CanEditName
  <2>2. /\ user[u].fullName \in Names \cup {None}
        /\ kyc[u].papers \in FileId \cup {None}
        /\ retained \in FileId \cup {None}
    BY <1>0 DEF User, Kyc
  <2> HIDE DEF retained
  <2>3. form \in Kyc /\ at \in {"store", "saveKyc"}
    BY <2>2 DEF Kyc
  <2> HIDE DEF form, at
  <2>4. /\ r \in CallState /\ r.at = at /\ r.u = u
        /\ r.row = NewUser
    BY <2>2, <2>3, NewRowsAreTyped DEF CallState, Idle, Stage
  <2> HIDE DEF r
  <2>5. CallOK(r)
    BY <2>1, <2>3, <2>4, NewRowsAreTyped DEF CallOK, FormOK, Current
  <2> QED BY <2>1, <2>4, <2>5, BeginKeeps
<1>2. ASSUME NEW c \in Calls, NEW u \in Users, AddOrUpdateBankDetails(c, u)
      PROVE  Inv'
  <2> DEFINE r == [Idle EXCEPT !.at = "bank", !.u = u]
  <2>1. /\ r \in CallState /\ r.at = "bank" /\ r.u = u /\ r.row = NewUser
    BY NewRowsAreTyped DEF CallState, Idle, Stage
  <2> HIDE DEF r
  <2>2. CallOK(r)
    BY <2>1, NewRowsAreTyped DEF CallOK, FormOK, Current
  <2>3. Begin(c, r)
    BY <1>2 DEF AddOrUpdateBankDetails, r
  <2> QED BY <2>1, <2>2, <2>3, BeginKeeps
<1>3. ASSUME NEW c \in Calls, NEW u \in Users,
             NEW verdict \in {"APPROVED", "REJECTED"}, ReviewKyc(c, u, verdict)
      PROVE  Inv'
  <2> DEFINE form == [kyc[u] EXCEPT !.status = verdict]
             r == [Idle EXCEPT !.at = "verdict", !.u = u, !.form = form]
  <2>1. Begin(c, r)
    BY <1>3 DEF ReviewKyc
  <2>2. form \in Kyc /\ form.status = verdict
    BY <1>0 DEF Kyc
  <2> HIDE DEF form
  <2>3. /\ r \in CallState /\ r.at = "verdict" /\ r.u = u /\ r.row = NewUser
        /\ r.form = form
    BY <2>2, NewRowsAreTyped DEF CallState, Idle, Stage
  <2> HIDE DEF r
  <2>4. CallOK(r)
    BY <2>2, <2>3, NewRowsAreTyped DEF CallOK, FormOK, Current
  <2> QED BY <2>1, <2>3, <2>4, BeginKeeps
<1>4. ASSUME NEW c \in Calls, StorePapers(c) PROVE Inv'
  <2>1. UNCHANGED <<user, kyc, hasBank, ratings, torn>>
        /\ call[c].at = "store"
    BY <1>4 DEF StorePapers
  <2>2. PICK f \in FileId :
          /\ Store(c, f)
          /\ call' = [call EXCEPT ![c].at = "saveKyc", ![c].form.papers = f]
    BY <1>4 DEF StorePapers
  <2> DEFINE form == [call[c].form EXCEPT !.papers = f]
             r == [call[c] EXCEPT !.at = "saveKyc", !.form = form]
  <2>3. call' = [call EXCEPT ![c] = r]
    BY <2>2
  <2>4. form \in Kyc
    BY <1>0 DEF CallState, Kyc
  <2> HIDE DEF form
  <2>5. /\ r \in CallState /\ r.at = "saveKyc"
        /\ r.u = call[c].u /\ r.row = call[c].row
        /\ r.outdated = call[c].outdated
    BY <1>0, <2>4 DEF CallState, Stage
  <2> HIDE DEF r
  <2>6. file' \in [FileId -> {"free", "stored", "deleted"}]
    BY <2>2 DEF Store, Inv, TypeOK
  <2> QED BY <2>1, <2>3, <2>5, <2>6, MoveKeeps
<1>5. ASSUME NEW c \in Calls, SelectKyc(c) PROVE Inv'
  <2>1. PICK columns \in SUBSET KycColumn :
          call' = [call EXCEPT ![c].columns = columns,
            ![c].at = IF @ = "saveKyc" THEN "updateKyc" ELSE "updateVerdict"]
    BY <1>5 DEF SelectKyc
  <2> DEFINE at == IF call[c].at = "saveKyc" THEN "updateKyc"
                   ELSE "updateVerdict"
             r == [call[c] EXCEPT !.columns = columns, !.at = at]
  <2>2. /\ call' = [call EXCEPT ![c] = r]
        /\ call[c].at \in {"saveKyc", "verdict"}
        /\ UNCHANGED <<user, kyc, hasBank, file, ratings, torn>>
    BY <1>5, <2>1 DEF SelectKyc, rows
  <2>3. at \in Stage
    BY DEF Stage
  <2>4. /\ r \in CallState /\ r.at = at /\ r.form = call[c].form
        /\ r.u = call[c].u /\ r.row = call[c].row
        /\ r.outdated = call[c].outdated
    BY <1>0, <2>3 DEF CallState
  <2> HIDE DEF r
  <2>5. file' \in [FileId -> {"free", "stored", "deleted"}]
    BY <2>2 DEF Inv, TypeOK
  <2> QED BY <2>2, <2>4, <2>5, MoveKeeps
<1>6. ASSUME NEW c \in Calls, DeleteSuperseded(c) PROVE Inv'
  <2> DEFINE r == [call[c] EXCEPT !.at = "bank"]
  <2>1. /\ UNCHANGED <<user, kyc, hasBank, ratings, torn>>
        /\ call[c].at = "cleanup"
        /\ call' = [call EXCEPT ![c] = r]
    BY <1>6 DEF DeleteSuperseded, Goto
  <2>2. /\ r \in CallState /\ r.at = "bank"
        /\ r.u = call[c].u /\ r.row = call[c].row
        /\ r.outdated = call[c].outdated
    BY <1>0 DEF CallState, Stage
  <2> HIDE DEF r
  <2>3. file' \in [FileId -> {"free", "stored", "deleted"}]
    BY <1>6 DEF DeleteSuperseded, Inv, TypeOK
  <2> QED BY <2>1, <2>2, <2>3, MoveKeeps
<1>7. ASSUME NEW c \in Calls, UpsertBankDetails(c) PROVE Inv'
  <2>1. /\ hasBank' = hasBank \cup {call[c].u} /\ call[c].u \in Users
        /\ UNCHANGED <<user, kyc, file, ratings, torn>>
    BY <1>0, <1>7 DEF UpsertBankDetails, CallOK
  <2>2. hasBank' \in SUBSET Users
    BY <2>1 DEF Inv, TypeOK
  <2> QED BY <1>7, <2>1, <2>2, DoneKeeps DEF UpsertBankDetails, Inv, TypeOK
<1> QED BY <1>1, <1>2, <1>3, <1>4, <1>5, <1>6, <1>7, SaveKycKeeps DEF KycNext

-----------------------------------------------------------------------------
(* The ratings, and failures.                                              *)
LEMMA RatingKeeps ==
  ASSUME Inv, RatingNext
  PROVE  Inv'
<1>1. ASSUME NEW c \in Calls, NEW p \in Sales, RateSeller(c, p) PROVE Inv'
  <2>1. PICK u \in Users : u = SellerOf[p]
    BY AccountAssumption
  <2> DEFINE count == Recomputed(u, p)
             row == [NewUser EXCEPT !.ratingCount = count]
             r == [Idle EXCEPT !.at = "aggregate", !.u = u, !.ref = p,
                               !.row = row]
  <2>2. Begin(c, r)
    BY <1>1, <2>1, NewRowsAreTyped DEF RateSeller, Idle
  <2>3. count \in 0..Cardinality(Sales)
    BY CountIsTyped DEF Recomputed, Inv, TypeOK
  <2>4. count = Cardinality(ratings[u] \cup {p})
    BY DEF Recomputed
  <2> HIDE DEF count
  <2>5. /\ row \in User /\ NumberOK(row) /\ row.ratingCount = count
    BY <2>3, NewRowsAreTyped DEF NewUser, User, NumberOK, Verified
  <2> HIDE DEF row
  <2>6. /\ r \in CallState /\ r.at = "aggregate" /\ r.u = u /\ r.ref = p
        /\ r.row = row
    BY <2>5, NewRowsAreTyped DEF CallState, Idle, Stage
  <2> HIDE DEF r
  <2>7. CallOK(r)
    BY <2>4, <2>5, <2>6 DEF CallOK, FormOK, Current
  <2> QED BY <2>2, <2>6, <2>7, BeginKeeps
<1>2. ASSUME NEW c \in Calls, CommitRating(c) PROVE Inv'
  <2>1. call[c].at = "aggregate" /\ call[c] \in CallState /\ CallOK(call[c])
    BY <1>2 DEF CommitRating, Inv, TypeOK
  <2>2. PICK u \in Users : u = call[c].u
    BY <2>1 DEF CallOK
  <2>3. /\ ratings' = [ratings EXCEPT ![u] = @ \cup {call[c].ref}]
        /\ user' = [user EXCEPT ![u] =
                      [@ EXCEPT !.ratingCount = call[c].row.ratingCount]]
        /\ Write(c, {"users", "ratings"}, Idle)
        /\ UNCHANGED <<kyc, hasBank, file, torn>>
    BY <1>2, <2>2 DEF CommitRating
  <2>4. call[c].row.ratingCount \in 0..Cardinality(Sales)
        /\ call[c].ref \in Sales
    BY <2>1 DEF CallState, User, CallOK
  <2>5. user[u] \in User /\ (u \notin torn => NumberOK(user[u]))
    BY DEF Inv, TypeOK
  <2> DEFINE row == [user[u] EXCEPT !.ratingCount = call[c].row.ratingCount]
  <2>6. row \in User /\ (u \notin torn => NumberOK(row))
    BY <2>4, <2>5 DEF User, NumberOK, Verified
  <2>7. user' = [user EXCEPT ![u] = row]
    BY <2>3
  <2> HIDE DEF row
  <2>8. {"users", "ratings"} \in SUBSET Tables
    BY DEF Tables
  <2>9. call' \in [Calls -> CallState]
    BY <2>3, <2>8, NewRowsAreTyped, WriteIsTyped DEF Inv
  <2>10. TypeOK'
    BY <2>3, <2>4, <2>6, <2>7, <2>9 DEF Inv, TypeOK
  <2>11. u \notin torn' => NumberOK(user'[u])
    BY <2>3, <2>6, <2>7 DEF Inv, TypeOK
  <2>12. \A v \in Users \ {u} : user'[v] = user[v] /\ ratings'[v] = ratings[v]
    BY <2>3, <2>7 DEF Inv, TypeOK
  <2>13. CallOK(Idle)'
    BY NewRowsAreTyped DEF CallOK
  <2> QED BY <2>2, <2>3, <2>8, <2>10, <2>11, <2>12, <2>13, WriteKeeps
<1> QED BY <1>1, <1>2 DEF RatingNext

LEMMA StutterKeeps ==
  ASSUME Inv, UNCHANGED vars
  PROVE  Inv'
<1>1. ASSUME NEW c \in Calls PROVE CallOK(call[c])'
  BY DEF vars, Inv, CallOK, Current, CanEditName
<1> QED BY <1>1 DEF vars, Inv, TypeOK, NumberOK, Verified

LEMMA Invariant == Spec => []Inv
<1>1. Inv /\ [Next]_vars => Inv'
  BY PhoneKeeps, KycKeeps, RatingKeeps, FailureKeeps, StutterKeeps
     DEF Next, FailureNext
<1> QED BY <1>1, InvInitially, PTL DEF Spec

-----------------------------------------------------------------------------
(* Every reachable state is made of values the columns can hold.           *)
THEOREM TypeCorrect == Spec => []TypeOK
<1>1. Inv => TypeOK
  BY DEF Inv
<1> QED BY <1>1, Invariant, PTL

(* A verified number is one whose code was entered, whatever requests of   *)
(* the account overlap: each row read or written keeps number and code     *)
(* apart from those of another number, until an UPDATE mixes two of them.  *)
THEOREM NumberWasProvedAlways == Spec => []NumberWasProved
<1>1. Inv => NumberWasProved
  BY DEF Inv, NumberOK, NumberWasProved
<1> QED BY <1>1, Invariant, PTL

(* A step that writes users, kyc or ratings of an account is the save of   *)
(* one call, and what it saves rests on what it read; if nobody wrote that *)
(* since, Current says what the step may change.                           *)
Writes(c) ==
  UpdateUser(c) \/ InsertKyc(c) \/ UpdateKyc(c) \/ CommitRating(c)

LEMMA SaveIsCurrent ==
  ASSUME Inv, [Next]_vars, NEW u \in Users, ~StaleStep(u)
  PROVE  \/ /\ user'[u] = user[u] /\ kyc'[u] = kyc[u]
            /\ ratings'[u] = ratings[u]
         \/ \E c \in Calls :
              /\ call[c].at # "idle" /\ call[c].u = u /\ Current(call[c])
              /\ Writes(c)
<1>1. CASE \E c \in Calls : Writes(c)
  <2>1. PICK c \in Calls : Writes(c)
    BY <1>1
  <2>2. /\ call[c].at \in {"updateUser", "saveKyc", "updateKyc", "updateVerdict",
                           "aggregate"}
        /\ call[c] \in CallState /\ CallOK(call[c])
    BY <2>1 DEF Writes, UpdateUser, InsertKyc, UpdateKyc, CommitRating, Inv,
                TypeOK
  <2>3. CASE call[c].u # u
    BY <2>1, <2>3 DEF Writes, UpdateUser, InsertKyc, UpdateKyc, CommitRating,
                      Inv, TypeOK
  <2>4. CASE call[c].u = u
    <3>1. PICK next \in {Idle, [call[c] EXCEPT !.at = "cleanup"]},
               tables \in SUBSET Tables : Write(c, tables, next)
      BY <2>1 DEF Writes, UpdateUser, InsertKyc, UpdateKyc, CommitRating, Tables
    <3>2. next.at \in {"idle", "cleanup"}
      BY <2>2, NewRowsAreTyped DEF CallState
    <3>3. call'[c].at \in {"idle", "cleanup"}
      BY <3>1, <3>2 DEF Write
    <3>4. call[c].outdated = {}
      BY <2>2, <2>4, <3>3 DEF StaleStep
    <3> QED BY <2>1, <2>2, <2>4, <3>4 DEF CallOK
  <2> QED BY <2>3, <2>4
<1>2. CASE ~\E c \in Calls : Writes(c)
  <2>1. UNCHANGED <<user, kyc, ratings>>
    <3>1. CASE PhoneNext(Phones, Names)
      <4>1. ASSUME NEW c \in Calls, NEW v \in Users, NEW phone, NEW name,
                   NEW right,
                   \/ SendOtp(c, v, phone) \/ VerifyOtp(c, v, right)
                   \/ UpdateOwnProfile(c, v, name, phone)
            PROVE  UNCHANGED rows
        <5>1. \E r : Begin(c, r)
          BY <4>1, Zenon DEF SendOtp, VerifyOtp, UpdateOwnProfile
        <5> QED BY <5>1 DEF Begin
      <4>2. ASSUME NEW c \in Calls, SelectUser(c) PROVE UNCHANGED rows
        BY <4>2 DEF SelectUser
      <4> QED BY <1>2, <3>1, <4>1, <4>2 DEF PhoneNext, Writes, rows
    <3>2. CASE KycNext
      BY <1>2, <3>2 DEF KycNext, SubmitKyc, AddOrUpdateBankDetails, ReviewKyc,
                        StorePapers, SelectKyc, DeleteSuperseded,
                        UpsertBankDetails, Writes, Begin, rows
    <3>3. CASE RatingNext
      BY <1>2, <3>3 DEF RatingNext, RateSeller, Writes, Begin, rows
    <3>4. CASE FailureNext \/ UNCHANGED vars
      BY <3>4 DEF FailureNext, RequestFails, vars, rows
    <3> QED BY <3>1, <3>2, <3>3, <3>4 DEF Next
  <2> QED BY <2>1
<1> QED BY <1>1, <1>2

(* What an UPDATE leaves on a row nobody else has written since it was     *)
(* read.                                                                   *)
LEMMA UpdateUserGives ==
  ASSUME Inv, NEW c \in Calls, NEW u \in Users, call[c].u = u, UpdateUser(c),
         Current(call[c])
  PROVE  /\ kyc' = kyc /\ ratings' = ratings
         /\ Verified(user[u]) => Verified(user'[u])
         /\ user'[u].fullName # user[u].fullName => CanEditName(u)
         /\ user'[u].ratingCount = user[u].ratingCount
<1>1. /\ kyc' = kyc /\ ratings' = ratings /\ call[c].at = "updateUser"
      /\ user'[u] = MixedUser(c)
  BY DEF UpdateUser, Inv, TypeOK
<1>2. /\ MixedUser(c).phoneVerifiedAt \in
           {call[c].row.phoneVerifiedAt, user[u].phoneVerifiedAt}
      /\ MixedUser(c).fullName \in {call[c].row.fullName, user[u].fullName}
      /\ MixedUser(c).ratingCount \in
           {call[c].row.ratingCount, user[u].ratingCount}
  <2>1. /\ MixedUser(c)["phoneVerifiedAt"] \in
             {call[c].row["phoneVerifiedAt"], user[u]["phoneVerifiedAt"]}
        /\ MixedUser(c)["fullName"] \in
             {call[c].row["fullName"], user[u]["fullName"]}
        /\ MixedUser(c)["ratingCount"] \in
             {call[c].row["ratingCount"], user[u]["ratingCount"]}
    BY MixedUserIsTyped DEF Inv
  <2> QED BY <2>1
<1> QED BY <1>1, <1>2 DEF Current, Verified

(* Without an overlap, no request takes a verification back, changes a     *)
(* name under review or replaces an approved submission: in any order, of  *)
(* any number of requests.                                                 *)
THEOREM OnlyOverlapUndoesAlways == Spec => OnlyOverlapUndoes
<1>1. ASSUME Inv, [Next]_vars, NEW u \in Users, ~StaleStep(u)
      PROVE  /\ Verified(user[u]) => Verified(user'[u])
             /\ user'[u].fullName # user[u].fullName => CanEditName(u)
             /\ IsVerified(u) => kyc'[u].status # "PENDING"
  <2>1. CASE user'[u] = user[u] /\ kyc'[u] = kyc[u]
    BY <2>1 DEF IsVerified
  <2>2. ASSUME NEW c \in Calls, call[c].at # "idle", call[c].u = u,
               Current(call[c]), Writes(c)
        PROVE  /\ Verified(user[u]) => Verified(user'[u])
               /\ user'[u].fullName # user[u].fullName => CanEditName(u)
               /\ IsVerified(u) => kyc'[u].status # "PENDING"
    <3>0. user[u] \in User /\ call[c] \in CallState /\ CallOK(call[c])
      BY <1>1 DEF Inv, TypeOK
    <3>1. CASE UpdateUser(c)
      BY <1>1, <2>2, <3>1, UpdateUserGives DEF IsVerified
    <3>2. CASE InsertKyc(c)
      <4>1. user' = user /\ kyc[u].status = "NONE"
        BY <2>2, <3>2 DEF InsertKyc
      <4> QED BY <4>1 DEF IsVerified
    <3>3. CASE UpdateKyc(c)
      <4>1. user' = user /\ kyc'[u] = MixedKyc(c)
            /\ call[c].at \in {"updateKyc", "updateVerdict"}
        BY <1>1, <2>2, <3>3 DEF UpdateKyc, Inv, TypeOK
      <4>2. MixedKyc(c).status \in {call[c].form.status, kyc[u].status}
        BY <1>1, <2>2, MixedKycIsTyped DEF Inv
      <4>3. CASE call[c].at = "updateKyc"
        BY <2>2, <4>1, <4>3 DEF Current, CanEditName, IsVerified
      <4>4. CASE call[c].at = "updateVerdict"
        BY <3>0, <4>1, <4>2, <4>4 DEF CallOK, FormOK, IsVerified
      <4> QED BY <4>1, <4>3, <4>4
    <3>4. CASE CommitRating(c)
      <4>1. kyc' = kyc
            /\ user'[u] = [user[u] EXCEPT !.ratingCount = call[c].row.ratingCount]
        BY <1>1, <2>2, <3>4 DEF CommitRating, Inv, TypeOK
      <4> QED BY <3>0, <4>1 DEF User, Verified, IsVerified
    <3> QED BY <2>2, <3>1, <3>2, <3>3, <3>4 DEF Writes
  <2> QED BY <2>1, <2>2, <1>1, SaveIsCurrent
<1>2. Inv /\ [Next]_vars =>
        [\A u \in Users :
           \/ StaleStep(u)
           \/ /\ Verified(user[u]) => Verified(user'[u])
              /\ user'[u].fullName # user[u].fullName => CanEditName(u)
              /\ IsVerified(u) => kyc'[u].status # "PENDING"]_vars
  BY <1>1
<1> QED BY <1>2, Invariant, PTL DEF Spec, OnlyOverlapUndoes

(* The aggregate on the profile is that of the ratings below it, but for   *)
(* overlaps, for every number of sales and ratings.                        *)
THEOREM RatingsAddUpAlways == Spec => RatingsAddUp
<1>1. ASSUME Inv, [Next]_vars, NEW u \in Users, ~StaleStep(u)
      PROVE  \/ user'[u].ratingCount = Cardinality(ratings'[u])
             \/ /\ user[u].ratingCount # RatingBreakdown(u)
                /\ ratings'[u] = ratings[u]
  <2>0. CASE /\ user'[u].ratingCount = user[u].ratingCount
             /\ ratings'[u] = ratings[u]
    BY <2>0 DEF RatingBreakdown
  <2>1. ASSUME NEW c \in Calls, call[c].at # "idle", call[c].u = u,
               Current(call[c]), Writes(c)
        PROVE  \/ user'[u].ratingCount = Cardinality(ratings'[u])
               \/ /\ user'[u].ratingCount = user[u].ratingCount
                  /\ ratings'[u] = ratings[u]
    <3>1. CASE UpdateUser(c)
      BY <1>1, <2>1, <3>1, UpdateUserGives
    <3>2. CASE InsertKyc(c) \/ UpdateKyc(c)
      BY <3>2 DEF InsertKyc, UpdateKyc
    <3>3. CASE CommitRating(c)
      <4>1. /\ user'[u] = [user[u] EXCEPT !.ratingCount = call[c].row.ratingCount]
            /\ ratings'[u] = ratings[u] \cup {call[c].ref}
            /\ call[c].at = "aggregate" /\ user[u] \in User
        BY <1>1, <2>1, <3>3 DEF CommitRating, Inv, TypeOK
      <4>2. user'[u].ratingCount = call[c].row.ratingCount
        BY <4>1 DEF User
      <4> QED BY <2>1, <4>1, <4>2 DEF Current
    <3> QED BY <2>1, <3>1, <3>2, <3>3 DEF Writes
  <2> QED BY <2>0, <2>1, <1>1, SaveIsCurrent
<1>2. Inv /\ [Next]_vars =>
        [\A u \in Users :
           \/ StaleStep(u)
           \/ user'[u].ratingCount = Cardinality(ratings'[u])
           \/ /\ user[u].ratingCount # RatingBreakdown(u)
              /\ ratings'[u] = ratings[u]]_vars
  BY <1>1
<1> QED BY <1>2, Invariant, PTL DEF Spec, RatingsAddUp

-----------------------------------------------------------------------------
(* The papers.  Every file that a record or a request knows of was stored  *)
(* for the same user; one that was just stored is known to its request     *)
(* only.                                                                   *)
Handles(at) == at \in {"store", "saveKyc", "updateKyc", "cleanup", "verdict",
                       "updateVerdict"}

Known(owner, f, u) == f \in FileId => file[f] # "free" /\ owner[f] = u

Fresh(r) == r.at \in {"saveKyc", "updateKyc"} /\ r.form.papers # r.ref

PapersCurrent(r) ==
  /\ r.at \in {"store", "saveKyc", "updateKyc"} => r.ref = kyc[r.u].papers
  /\ r.at \in {"cleanup", "verdict", "updateVerdict"} =>
       r.form.papers = kyc[r.u].papers
  /\ r.at = "updateKyc" /\ "papers" \notin r.columns =>
       r.form.papers = kyc[r.u].papers

(* The same of a request as it is now, when a step has been taken.         *)
KnownThen(owner, f, u) == f \in FileId => file'[f] # "free" /\ owner[f] = u

PapersCurrentThen(r) ==
  /\ r.at \in {"store", "saveKyc", "updateKyc"} => r.ref = kyc'[r.u].papers
  /\ r.at \in {"cleanup", "verdict", "updateVerdict"} =>
       r.form.papers = kyc'[r.u].papers
  /\ r.at = "updateKyc" /\ "papers" \notin r.columns =>
       r.form.papers = kyc'[r.u].papers

PapersOK(owner, c) ==
  Handles(call[c].at) =>
    /\ Known(owner, call[c].ref, call[c].u)
    /\ Known(owner, call[c].form.papers, call[c].u)
    /\ Fresh(call[c]) =>
         /\ call[c].form.papers \in FileId
         /\ file[call[c].form.papers] = "stored"
         /\ \A u \in Users : kyc[u].papers # call[c].form.papers
         /\ \A d \in Calls \ {c} : Handles(call[d].at) =>
              call[c].form.papers \notin {call[d].ref, call[d].form.papers}
    /\ call[c].outdated = {} => PapersCurrent(call[c])

PapersOf(owner) == /\ \A u \in Users : Known(owner, kyc[u].papers, u)
                   /\ \A c \in Calls : PapersOK(owner, c)

PapersInv == \E owner \in [FileId -> Users \cup {None}] : PapersOf(owner)

(* A step that touches neither records nor files, and no request about     *)
(* papers but to mark or end it.                                           *)
LEMMA PapersFrame ==
  ASSUME Inv, PapersInv, UNCHANGED <<kyc, file>>,
         \A d \in Calls : Handles(call'[d].at) =>
           /\ call'[d].at = call[d].at /\ call'[d].u = call[d].u
           /\ call'[d].form = call[d].form /\ call'[d].ref = call[d].ref
           /\ call'[d].columns = call[d].columns
           /\ call[d].outdated \subseteq call'[d].outdated
  PROVE  PapersInv'
<1>1. PICK owner \in [FileId -> Users \cup {None}] : PapersOf(owner)
  BY DEF PapersInv
<1>2. \A u \in Users : Known(owner, kyc[u].papers, u)'
  BY <1>1 DEF PapersOf, Known, KnownThen
<1>3. ASSUME NEW c \in Calls, Handles(call[c].at)'
      PROVE  PapersOK(owner, c)'
  <2>1. Handles(call[c].at) /\ PapersOK(owner, c)
    BY <1>1, <1>3 DEF PapersOf, Handles
  <2>2. call'[c].outdated = {} => call[c].outdated = {}
    BY <1>3
  <2>3. Fresh(call'[c]) => Fresh(call[c])
    BY <1>3 DEF Fresh
  <2>4. \A d \in Calls : Handles(call'[d].at) => Handles(call[d].at)
    BY DEF Handles
  <2>5. call'[c].outdated = {} => PapersCurrent(call[c])'
    BY <1>3, <2>1, <2>2 DEF PapersOK, PapersCurrent, PapersCurrentThen
  <2> QED BY <1>3, <2>1, <2>3, <2>4, <2>5 DEF PapersOK, Known, KnownThen
<1>4. \A c \in Calls : PapersOK(owner, c)'
  BY <1>3 DEF PapersOK, Known, KnownThen, PapersCurrent, PapersCurrentThen
<1> QED BY <1>2, <1>4 DEF PapersInv, PapersOf

(* A request about papers begins with those on record, or with none.       *)
LEMMA PapersBegin ==
  ASSUME Inv, PapersInv, NEW c \in Calls, NEW r \in CallState, Begin(c, r),
         r.u \in Users, {r.ref, r.form.papers} \subseteq {None, kyc[r.u].papers},
         r.at \in {"store", "saveKyc"} => r.ref = kyc[r.u].papers,
         r.at = "saveKyc" => r.form.papers = r.ref,
         r.at = "verdict" => r.form.papers = kyc[r.u].papers,
         r.at \notin {"updateKyc", "cleanup", "updateVerdict"}
  PROVE  PapersInv'
<1>1. PICK owner \in [FileId -> Users \cup {None}] : PapersOf(owner)
  BY DEF PapersInv
<1>2. /\ call' = [call EXCEPT ![c] = r] /\ UNCHANGED <<kyc, file>>
      /\ ~Handles(call[c].at) /\ None \notin FileId
  BY AccountAssumption DEF Begin, rows, Handles
<1>3. call'[c] = r /\ \A d \in Calls \ {c} : call'[d] = call[d]
  BY <1>2 DEF Inv, TypeOK
<1>4. \A u \in Users : Known(owner, kyc[u].papers, u)'
  BY <1>1, <1>2 DEF PapersOf, Known, KnownThen
<1>5. PapersOK(owner, c)'
  <2>1. ~Fresh(r)
    BY DEF Fresh
  <2>2. PapersCurrentThen(r)
    BY <1>2 DEF PapersCurrent, PapersCurrentThen
  <2>3. KnownThen(owner, r.ref, r.u) /\ KnownThen(owner, r.form.papers, r.u)
    BY <1>2, <1>4 DEF Known, KnownThen
  <2> QED BY <1>3, <2>1, <2>2, <2>3 DEF PapersOK, Known, KnownThen, PapersCurrent, PapersCurrentThen
<1>6. ASSUME NEW d \in Calls \ {c}, Handles(call[d].at) PROVE PapersOK(owner, d)'
  <2>1. PapersOK(owner, d) /\ call'[d] = call[d]
    BY <1>1, <1>3 DEF PapersOf
  <2>2. KnownThen(owner, call'[d].ref, call'[d].u)
        /\ KnownThen(owner, call'[d].form.papers, call'[d].u)
    BY <1>2, <1>6, <2>1 DEF PapersOK, Known, KnownThen
  <2>3. PapersCurrent(call[d]) => PapersCurrent(call[d])'
    BY <1>2, <2>1 DEF PapersCurrent, PapersCurrentThen
  <2>4. Fresh(call[d]) =>
          /\ call[d].form.papers \notin {r.ref, r.form.papers}
          /\ \A e \in Calls \ {d, c} : Handles(call[e].at) =>
               call[d].form.papers \notin {call[e].ref, call[e].form.papers}
    BY <1>2, <1>6, <2>1 DEF PapersOK, Known, KnownThen, PapersCurrent, PapersCurrentThen
  <2>5. Fresh(call[d]) => \A e \in Calls \ {d} : Handles(call'[e].at) =>
          call'[d].form.papers \notin {call'[e].ref, call'[e].form.papers}
    BY <1>3, <2>1, <2>4
  <2> QED BY <1>2, <1>6, <2>1, <2>2, <2>3, <2>5 DEF PapersOK, Known, KnownThen, PapersCurrent, PapersCurrentThen
<1>7. \A d \in Calls : PapersOK(owner, d)'
  <2>1. ASSUME NEW d \in Calls \ {c}, ~Handles(call[d].at)
        PROVE  PapersOK(owner, d)'
    BY <1>3, <2>1 DEF PapersOK, Known, KnownThen, PapersCurrent, PapersCurrentThen
  <2> QED BY <1>5, <1>6, <2>1
<1> QED BY <1>4, <1>7 DEF PapersInv, PapersOf

LEMMA PapersStore ==
  ASSUME Inv, PapersInv, NEW c \in Calls, StorePapers(c)
  PROVE  PapersInv'
<1>1. PICK owner \in [FileId -> Users \cup {None}] : PapersOf(owner)
  BY DEF PapersInv
<1>2. PICK f \in FileId :
        /\ file[f] = "free" /\ file' = [file EXCEPT ![f] = "stored"]
        /\ call' = [call EXCEPT ![c].at = "saveKyc", ![c].form.papers = f]
  BY DEF StorePapers, Store
<1>3. kyc' = kyc /\ call[c].at = "store"
  BY DEF StorePapers
<1>0. call[c] \in CallState /\ call[c].u \in Users
  BY <1>3 DEF Inv, TypeOK, CallOK
<1>00. PICK u \in Users : u = call[c].u
  BY <1>0
<1> DEFINE form == [call[c].form EXCEPT !.papers = f]
           r == [call[c] EXCEPT !.at = "saveKyc", !.form = form]
           owner2 == [owner EXCEPT ![f] = u]
<1>4. call[c] \in CallState /\ u = call[c].u
  BY <1>0, <1>00
<1>5. form.papers = f
  BY <1>4 DEF CallState, Kyc
<1>6. call' = [call EXCEPT ![c] = r]
  BY <1>2
<1> HIDE DEF form
<1>7. /\ r.at = "saveKyc" /\ r.u = u /\ r.ref = call[c].ref
      /\ r.form = form /\ r.outdated = call[c].outdated
  BY <1>4 DEF CallState
<1> HIDE DEF r
<1>8. call'[c] = r /\ \A d \in Calls \ {c} : call'[d] = call[d]
  BY <1>6 DEF Inv, TypeOK
<1>9. /\ owner2 \in [FileId -> Users \cup {None}] /\ owner2[f] = u
      /\ \A g \in FileId \ {f} : owner2[g] = owner[g] /\ file'[g] = file[g]
      /\ file'[f] = "stored"
  BY <1>1, <1>2, <1>4 DEF Inv, TypeOK
<1> HIDE DEF owner2
<1>10. \A g, v : Known(owner, g, v) => g # f /\ Known(owner2, g, v)'
  BY <1>2, <1>9 DEF Known, KnownThen
<1>11. /\ \A v \in Users : Known(owner, kyc[v].papers, v)
       /\ \A d \in Calls : PapersOK(owner, d)
  BY <1>1 DEF PapersOf
<1>12. \A v \in Users : Known(owner2, kyc[v].papers, v)' /\ kyc'[v].papers # f
  BY <1>3, <1>10, <1>11 DEF Known, KnownThen
<1>13. PapersOK(owner2, c)'
  <2>1. Known(owner, call[c].ref, u) /\ (call[c].outdated = {} =>
          call[c].ref = kyc[u].papers)
    BY <1>3, <1>4, <1>11 DEF PapersOK, Handles, PapersCurrent
  <2>2. KnownThen(owner2, r.ref, r.u) /\ KnownThen(owner2, r.form.papers, r.u)
    BY <1>5, <1>7, <1>9, <1>10, <2>1 DEF Known, KnownThen
  <2>3. r.outdated = {} => PapersCurrentThen(r)
    BY <1>3, <1>7, <2>1 DEF PapersCurrent, PapersCurrentThen
  <2>4. \A d \in Calls \ {c} : Handles(call'[d].at) =>
          r.form.papers \notin {call'[d].ref, call'[d].form.papers}
    BY <1>5, <1>7, <1>8, <1>10, <1>11 DEF PapersOK, Known, KnownThen, PapersCurrent, PapersCurrentThen
  <2>5. /\ r.form.papers \in FileId /\ file'[r.form.papers] = "stored"
        /\ \A v \in Users : kyc'[v].papers # r.form.papers
    BY <1>5, <1>7, <1>9, <1>12
  <2> QED BY <1>8, <2>2, <2>3, <2>4, <2>5 DEF PapersOK, Known, KnownThen, PapersCurrent, PapersCurrentThen
<1>14. ASSUME NEW d \in Calls \ {c}, Handles(call[d].at)
       PROVE  PapersOK(owner2, d)'
  <2>1. PapersOK(owner, d) /\ call'[d] = call[d]
    BY <1>8, <1>11
  <2>2. /\ KnownThen(owner2, call[d].ref, call[d].u)
        /\ KnownThen(owner2, call[d].form.papers, call[d].u)
        /\ call[d].ref # f /\ call[d].form.papers # f
    BY <1>10, <1>14, <2>1 DEF PapersOK, Known, KnownThen, PapersCurrent, PapersCurrentThen
  <2>3. call[d].outdated = {} => PapersCurrent(call[d])'
    BY <1>3, <1>14, <2>1 DEF PapersOK, PapersCurrent, PapersCurrentThen
  <2>4. Fresh(call[d]) =>
          /\ call[d].form.papers \in FileId
          /\ file'[call[d].form.papers] = "stored"
          /\ \A v \in Users : kyc'[v].papers # call[d].form.papers
    BY <1>3, <1>9, <1>14, <2>1, <2>2 DEF PapersOK, Known, KnownThen, PapersCurrent, PapersCurrentThen
  <2>5. Fresh(call[d]) => \A e \in Calls \ {d} : Handles(call'[e].at) =>
          call[d].form.papers \notin {call'[e].ref, call'[e].form.papers}
    <3> SUFFICES ASSUME Fresh(call[d]), NEW e \in Calls \ {d},
                        Handles(call'[e].at)
                 PROVE  call[d].form.papers \notin
                          {call'[e].ref, call'[e].form.papers}
      OBVIOUS
    <3>1. CASE e = c
      <4>1. Handles(call[c].at)
        BY <1>3 DEF Handles
      <4> QED BY <1>5, <1>7, <1>8, <1>14, <2>1, <2>2, <3>1, <4>1 DEF PapersOK, Known, KnownThen, PapersCurrent, PapersCurrentThen
    <3>2. CASE e # c
      BY <1>8, <1>14, <2>1, <3>2 DEF PapersOK, Known, KnownThen, PapersCurrent, PapersCurrentThen
    <3> QED BY <3>1, <3>2
  <2> QED BY <2>1, <2>2, <2>3, <2>4, <2>5 DEF PapersOK, Known, KnownThen, PapersCurrent, PapersCurrentThen
<1>15. \A d \in Calls : PapersOK(owner2, d)'
  <2>1. ASSUME NEW d \in Calls \ {c}, ~Handles(call[d].at)
        PROVE  PapersOK(owner2, d)'
    BY <1>8, <2>1 DEF PapersOK, Known, KnownThen, PapersCurrent, PapersCurrentThen
  <2> QED BY <1>13, <1>14, <2>1
<1> QED BY <1>9, <1>12, <1>15 DEF PapersInv, PapersOf

(* A step of request c that gives it no other papers: what it has to leave *)
(* to the records and the other requests.                                  *)
LEMMA PapersStep ==
  ASSUME Inv, NEW owner \in [FileId -> Users \cup {None}], PapersOf(owner),
         NEW c \in Calls, PapersOK(owner, c)',
         Handles(call'[c].at) => /\ Handles(call[c].at)
                                 /\ call'[c].ref = call[c].ref
                                 /\ call'[c].form = call[c].form,
         \A d \in Calls \ {c} :
           /\ call'[d].at = call[d].at /\ call'[d].u = call[d].u
           /\ call'[d].form = call[d].form /\ call'[d].ref = call[d].ref
           /\ Handles(call[d].at) /\ call'[d].outdated = {} =>
                PapersCurrent(call[d])'
           /\ Handles(call[d].at) /\ Fresh(call[d]) =>
                /\ file'[call[d].form.papers] = "stored"
                /\ \A u \in Users : kyc'[u].papers # call[d].form.papers,
         \A u \in Users : Known(owner, kyc[u].papers, u)',
         \A f \in FileId : file[f] # "free" => file'[f] # "free"
  PROVE  PapersInv'
<1>1. ASSUME NEW d \in Calls \ {c}, Handles(call[d].at) PROVE PapersOK(owner, d)'
  <2>1. PapersOK(owner, d)
    BY DEF PapersOf
  <2>2. KnownThen(owner, call'[d].ref, call'[d].u)
        /\ KnownThen(owner, call'[d].form.papers, call'[d].u)
    BY <1>1, <2>1 DEF PapersOK, Known, KnownThen
  <2>3. Fresh(call'[d]) => Fresh(call[d])
    BY DEF Fresh
  <2>4. Fresh(call[d]) => \A e \in Calls \ {d} : Handles(call'[e].at) =>
          call'[d].form.papers \notin {call'[e].ref, call'[e].form.papers}
    <3> SUFFICES ASSUME Fresh(call[d]), NEW e \in Calls \ {d},
                        Handles(call'[e].at)
                 PROVE  call'[d].form.papers \notin
                          {call'[e].ref, call'[e].form.papers}
      OBVIOUS
    <3>1. /\ Handles(call[e].at)
          /\ call'[e].ref = call[e].ref /\ call'[e].form = call[e].form
      OBVIOUS
    <3> QED BY <1>1, <2>1, <3>1 DEF PapersOK, Known, KnownThen, PapersCurrent, PapersCurrentThen
  <2>5. Fresh(call[d]) => call[d].form.papers \in FileId
    BY <1>1, <2>1 DEF PapersOK, Known, KnownThen, PapersCurrent, PapersCurrentThen
  <2> QED BY <1>1, <2>2, <2>3, <2>4, <2>5 DEF PapersOK, Known, KnownThen, PapersCurrent, PapersCurrentThen
<1>2. ASSUME NEW d \in Calls \ {c}, ~Handles(call[d].at) PROVE PapersOK(owner, d)'
  BY <1>2 DEF PapersOK, Known, KnownThen, PapersCurrent, PapersCurrentThen
<1>3. \A d \in Calls : PapersOK(owner, d)'
  BY <1>1, <1>2
<1> QED BY <1>3 DEF PapersInv, PapersOf

LEMMA PapersSelect ==
  ASSUME Inv, PapersInv, NEW c \in Calls, SelectKyc(c)
  PROVE  PapersInv'
<1>1. PICK owner \in [FileId -> Users \cup {None}] : PapersOf(owner)
  BY DEF PapersInv
<1> DEFINE differ == {k \in KycColumn : call[c].form[k] # kyc[call[c].u][k]}
           at == IF call[c].at = "saveKyc" THEN "updateKyc" ELSE "updateVerdict"
           r == [call[c] EXCEPT !.columns = differ, !.at = at]
<1>2. /\ call' = [call EXCEPT ![c] = r] /\ UNCHANGED <<kyc, file>>
      /\ call[c].at \in {"saveKyc", "verdict"}
  BY DEF SelectKyc, rows
<1>3. "papers" \notin differ => call[c].form.papers = kyc[call[c].u].papers
  <2>1. "papers" \notin differ =>
          call[c].form["papers"] = kyc[call[c].u]["papers"]
    BY DEF KycColumn
  <2> QED BY <2>1
<1> HIDE DEF differ
<1>4. call[c] \in CallState
  BY DEF Inv, TypeOK
<1>5. /\ r.at = at /\ r.u = call[c].u /\ r.form = call[c].form
      /\ r.ref = call[c].ref /\ r.outdated = call[c].outdated
      /\ r.columns = differ
  BY <1>4 DEF CallState
<1> HIDE DEF r
<1>6. call'[c] = r /\ \A d \in Calls \ {c} : call'[d] = call[d]
  BY <1>2 DEF Inv, TypeOK
<1>7. \A d \in Calls : PapersOK(owner, d)
  BY <1>1 DEF PapersOf
<1>8. PapersOK(owner, c)'
  <2>1. Handles(call[c].at) /\ PapersOK(owner, c)
    BY <1>2, <1>7 DEF Handles
  <2>2. /\ KnownThen(owner, r.ref, r.u)
        /\ KnownThen(owner, r.form.papers, r.u)
        /\ r.outdated = {} => PapersCurrent(call[c])
    BY <1>2, <1>5, <2>1 DEF PapersOK, Known, KnownThen
  <2>3. r.outdated = {} => PapersCurrentThen(r)
    BY <1>2, <1>3, <1>5, <2>2 DEF PapersCurrent, PapersCurrentThen
  <2>4. Fresh(r) => Fresh(call[c])
    BY <1>2, <1>5 DEF Fresh
  <2>5. \A d \in Calls \ {c} : Handles(call'[d].at) => Handles(call[d].at)
    BY <1>6
  <2>6. Fresh(r) =>
          /\ r.form.papers \in FileId
          /\ file'[r.form.papers] = "stored"
          /\ \A u \in Users : kyc'[u].papers # r.form.papers
          /\ \A d \in Calls \ {c} : Handles(call'[d].at) =>
               r.form.papers \notin {call'[d].ref, call'[d].form.papers}
    BY <1>2, <1>5, <1>6, <2>1, <2>4 DEF PapersOK, Known, KnownThen, PapersCurrent, PapersCurrentThen
  <2> QED BY <1>6, <2>2, <2>3, <2>6 DEF PapersOK, Known, KnownThen, PapersCurrent, PapersCurrentThen
<1>9. \A d \in Calls \ {c} :
        /\ Handles(call[d].at) /\ call'[d].outdated = {} =>
             PapersCurrent(call[d])'
        /\ Handles(call[d].at) /\ Fresh(call[d]) =>
             /\ file'[call[d].form.papers] = "stored"
             /\ \A u \in Users : kyc'[u].papers # call[d].form.papers
  <2> SUFFICES ASSUME NEW d \in Calls \ {c}, Handles(call[d].at)
               PROVE  /\ call'[d].outdated = {} => PapersCurrent(call[d])'
                      /\ Fresh(call[d]) =>
                           /\ file'[call[d].form.papers] = "stored"
                           /\ \A u \in Users :
                                kyc'[u].papers # call[d].form.papers
    OBVIOUS
  <2>1. PapersOK(owner, d) /\ call'[d] = call[d]
    BY <1>6, <1>7
  <2> QED BY <1>2, <2>1 DEF PapersOK, PapersCurrent, PapersCurrentThen
<1>10. \A u \in Users : Known(owner, kyc[u].papers, u)'
  BY <1>1, <1>2 DEF PapersOf, Known, KnownThen
<1>11. Handles(call[c].at)
  BY <1>2 DEF Handles
<1> QED BY <1>1, <1>2, <1>5, <1>6, <1>8, <1>9, <1>10, <1>11, PapersStep

(* What the save of a submission or of a verdict leaves on record.         *)
LEMMA PapersWritten ==
  ASSUME Inv, NEW c \in Calls, InsertKyc(c) \/ UpdateKyc(c)
  PROVE  /\ call[c] \in CallState /\ call[c].u \in Users
         /\ kyc'[call[c].u].papers \in
              {call[c].form.papers, kyc[call[c].u].papers}
         /\ \A v \in Users \ {call[c].u} : kyc'[v] = kyc[v]
         /\ Handles(call[c].at) /\ file' = file
         /\ call[c].outdated = {} /\ PapersCurrent(call[c]) =>
              kyc'[call[c].u].papers = call[c].form.papers
         /\ \E next \in {Idle, [call[c] EXCEPT !.at = "cleanup"]} :
              /\ Write(c, {"kyc"}, next)
              /\ next = Idle \/ call[c].at \in {"saveKyc", "updateKyc"}
<1>1. /\ call[c].at \in {"saveKyc", "updateKyc", "updateVerdict"}
      /\ call[c] \in CallState /\ CallOK(call[c]) /\ file' = file
  BY DEF InsertKyc, UpdateKyc, Inv, TypeOK
<1>2. call[c].u \in Users /\ Handles(call[c].at)
  BY <1>1 DEF CallOK, Handles
<1>3. CASE InsertKyc(c)
  BY <1>1, <1>2, <1>3 DEF InsertKyc, Inv, TypeOK
<1>4. CASE UpdateKyc(c)
  <2> DEFINE row == kyc[call[c].u]
             Value(k) == IF k \in call[c].columns THEN call[c].form[k]
                         ELSE row[k]
  <2>1. MixedKyc(c) = [row EXCEPT !.status = Value("status"),
                                  !.fullName = Value("fullName"),
                                  !.type = Value("type"),
                                  !.papers = Value("papers")]
    BY DEF MixedKyc
  <2>2. row \in Kyc
    BY <1>2 DEF Inv, TypeOK
  <2>3. MixedKyc(c).papers = Value("papers")
    BY <2>1, <2>2 DEF Kyc
  <2>4. Value("papers") = IF "papers" \in call[c].columns
                          THEN call[c].form.papers ELSE row.papers
    OBVIOUS
  <2>5. kyc' = [kyc EXCEPT ![call[c].u] = MixedKyc(c)]
        /\ call[c].at \in {"updateKyc", "updateVerdict"}
        /\ Write(c, {"kyc"}, IF call[c].at = "updateKyc"
                             THEN [call[c] EXCEPT !.at = "cleanup"] ELSE Idle)
    BY <1>4 DEF UpdateKyc
  <2> HIDE DEF Value
  <2>6. /\ kyc'[call[c].u].papers = IF "papers" \in call[c].columns
                                    THEN call[c].form.papers
                                    ELSE kyc[call[c].u].papers
        /\ \A v \in Users \ {call[c].u} : kyc'[v] = kyc[v]
    BY <1>2, <2>3, <2>4, <2>5 DEF Inv, TypeOK
  <2> QED BY <1>1, <1>2, <2>5, <2>6 DEF PapersCurrent, PapersCurrentThen
<1> QED BY <1>3, <1>4

LEMMA PapersWrite ==
  ASSUME Inv, PapersInv, NEW c \in Calls, InsertKyc(c) \/ UpdateKyc(c)
  PROVE  PapersInv'
<1>1. PICK owner \in [FileId -> Users \cup {None}] : PapersOf(owner)
  BY DEF PapersInv
<1> DEFINE u == call[c].u
<1>2. /\ call[c] \in CallState /\ u \in Users /\ Handles(call[c].at)
      /\ kyc'[u].papers \in {call[c].form.papers, kyc[u].papers}
      /\ \A v \in Users \ {u} : kyc'[v] = kyc[v]
      /\ file' = file
      /\ call[c].outdated = {} /\ PapersCurrent(call[c]) =>
           kyc'[u].papers = call[c].form.papers
  BY PapersWritten
<1>3. PICK next \in {Idle, [call[c] EXCEPT !.at = "cleanup"]} :
        /\ Write(c, {"kyc"}, next)
        /\ next = Idle \/ call[c].at \in {"saveKyc", "updateKyc"}
  BY PapersWritten
<1>4. \A d \in Calls : PapersOK(owner, d)
  BY <1>1 DEF PapersOf
<1>5. call'[c] = next
  BY <1>3 DEF Write
<1>6. \/ ~Handles(next.at)
      \/ /\ next.at = "cleanup" /\ next.u = u /\ next.ref = call[c].ref
         /\ next.form = call[c].form /\ next.outdated = call[c].outdated
  BY <1>2, <1>3, NewRowsAreTyped DEF CallState, Handles
<1>7. /\ Known(owner, call[c].ref, u)
      /\ Known(owner, call[c].form.papers, u)
      /\ call[c].outdated = {} => PapersCurrent(call[c])
  BY <1>2, <1>4 DEF PapersOK, Known, KnownThen, PapersCurrent, PapersCurrentThen
<1>8. \A v \in Users : Known(owner, kyc[v].papers, v)'
  <2>1. \A v \in Users : Known(owner, kyc[v].papers, v)
    BY <1>1 DEF PapersOf
  <2> QED BY <1>2, <1>7, <2>1 DEF Known, KnownThen
<1>9. PapersOK(owner, c)'
  <2>1. CASE Handles(next.at)
    <3>1. /\ ~Fresh(next)
          /\ KnownThen(owner, next.ref, u) /\ KnownThen(owner, next.form.papers, u)
      BY <1>2, <1>6, <1>7, <2>1 DEF Fresh, Known, KnownThen
    <3>2. next.outdated = {} => PapersCurrentThen(next)
      BY <1>2, <1>6, <1>7, <2>1 DEF PapersCurrent, PapersCurrentThen
    <3> QED BY <1>5, <1>6, <2>1, <3>1, <3>2 DEF PapersOK, Known, KnownThen, PapersCurrent, PapersCurrentThen
  <2>2. CASE ~Handles(next.at)
    BY <1>5, <2>2 DEF PapersOK, Known, KnownThen, PapersCurrent, PapersCurrentThen
  <2> QED BY <2>1, <2>2
<1>10. ASSUME NEW d \in Calls \ {c}
       PROVE  /\ call'[d].at = call[d].at /\ call'[d].u = call[d].u
              /\ call'[d].form = call[d].form /\ call'[d].ref = call[d].ref
              /\ call'[d].columns = call[d].columns
              /\ IF call[d].u = u
                 THEN call'[d].outdated
                        = call[d].outdated \cup ({"kyc"} \cap RestsOn(call[d].at))
                 ELSE call'[d].outdated = call[d].outdated
  <2>1. call[d] \in CallState
    BY DEF Inv, TypeOK
  <2> QED BY <1>3, <2>1 DEF Write, CallState
<1>11. ASSUME NEW d \in Calls \ {c}, Handles(call[d].at)
       PROVE  /\ call'[d].outdated = {} => PapersCurrent(call[d])'
              /\ Fresh(call[d]) =>
                   /\ file'[call[d].form.papers] = "stored"
                   /\ \A v \in Users : kyc'[v].papers # call[d].form.papers
  <2>1. PapersOK(owner, d)
    BY <1>4
  <2>2. CASE call[d].u = u
    <3>1. "kyc" \in RestsOn(call[d].at)
      BY <1>11 DEF Handles, RestsOn
    <3>2. call'[d].outdated # {}
      BY <1>10, <2>2, <3>1
    <3> QED BY <1>2, <1>11, <2>1, <3>2 DEF PapersOK, Known, KnownThen, PapersCurrent, PapersCurrentThen
  <2>3. CASE call[d].u # u
    <3>1. call[d].u \in Users
      <4>1. CallOK(call[d])
        BY DEF Inv
      <4> QED BY <1>11, <4>1 DEF CallOK, Handles
    <3>2. kyc'[call[d].u] = kyc[call[d].u]
      BY <1>2, <2>3, <3>1
    <3>3. call'[d].outdated = {} => PapersCurrent(call[d])'
      BY <1>10, <1>11, <2>1, <2>3, <3>2 DEF PapersOK, PapersCurrent, PapersCurrentThen
    <3> QED BY <1>2, <1>11, <2>1, <3>3 DEF PapersOK, Known, KnownThen, PapersCurrent, PapersCurrentThen
  <2> QED BY <2>2, <2>3
<1> QED BY <1>1, <1>2, <1>5, <1>6, <1>8, <1>9, <1>10, <1>11, PapersStep

(* The clean-up deletes papers of its own account only, and none that were *)
(* just stored.                                                            *)
LEMMA PapersDelete ==
  ASSUME Inv, PapersInv, NEW c \in Calls, DeleteSuperseded(c)
  PROVE  PapersInv'
<1>1. PICK owner \in [FileId -> Users \cup {None}] : PapersOf(owner)
  BY DEF PapersInv
<1>2. /\ call[c].at = "cleanup" /\ kyc' = kyc
      /\ call' = [call EXCEPT ![c].at = "bank"]
      /\ \/ file' = file
         \/ call[c].ref \in FileId /\ file' = [file EXCEPT ![call[c].ref] = "deleted"]
  BY DEF DeleteSuperseded, Goto
<1>3. /\ call'[c].at = "bank" /\ \A d \in Calls \ {c} : call'[d] = call[d]
  <2>1. call[c] \in CallState
    BY DEF Inv, TypeOK
  <2> QED BY <1>2, <2>1 DEF Inv, TypeOK, CallState
<1>4. \A d \in Calls : PapersOK(owner, d)
  BY <1>1 DEF PapersOf
<1>5. ~Handles(call'[c].at) /\ Handles(call[c].at)
  BY <1>2, <1>3 DEF Handles
<1>6. \A f \in FileId : file[f] # "free" => file'[f] # "free"
  BY <1>2 DEF Inv, TypeOK
<1>7. \A v \in Users : Known(owner, kyc[v].papers, v)'
  BY <1>1, <1>2, <1>6 DEF PapersOf, Known, KnownThen
<1>8. ASSUME NEW d \in Calls \ {c}, Handles(call[d].at)
      PROVE  /\ call'[d].outdated = {} => PapersCurrent(call[d])'
             /\ Fresh(call[d]) =>
                  /\ file'[call[d].form.papers] = "stored"
                  /\ \A v \in Users : kyc'[v].papers # call[d].form.papers
  <2>1. PapersOK(owner, d)
    BY <1>4
  <2>2. call'[d].outdated = {} => PapersCurrent(call[d])'
    BY <1>2, <1>3, <1>8, <2>1 DEF PapersOK, PapersCurrent, PapersCurrentThen
  <2>3. Fresh(call[d]) => /\ call[d].form.papers \in FileId
                          /\ file[call[d].form.papers] = "stored"
                          /\ call[d].form.papers # call[c].ref
                          /\ \A v \in Users : kyc[v].papers # call[d].form.papers
    BY <1>5, <1>8, <2>1 DEF PapersOK, Known, KnownThen, PapersCurrent, PapersCurrentThen
  <2>4. \A f \in FileId \ {call[c].ref} : file'[f] = file[f]
    BY <1>2 DEF Inv, TypeOK
  <2> QED BY <1>2, <2>2, <2>3, <2>4
<1>9. PapersOK(owner, c)'
  BY <1>5 DEF PapersOK, Known, KnownThen, PapersCurrent, PapersCurrentThen
<1> QED BY <1>1, <1>3, <1>5, <1>6, <1>7, <1>8, <1>9, PapersStep

LEMMA PapersInitially == Init => PapersInv
<1> SUFFICES ASSUME Init PROVE PapersInv
  OBVIOUS
<1> DEFINE owner == [f \in FileId |-> None]
<1>1. owner \in [FileId -> Users \cup {None}]
  OBVIOUS
<1>2. \A u \in Users : Known(owner, kyc[u].papers, u)
  BY AccountAssumption DEF Init, InitWith, NoKyc, Known, KnownThen
<1>3. \A c \in Calls : PapersOK(owner, c)
  BY NewRowsAreTyped DEF Init, InitWith, PapersOK, Handles
<1> HIDE DEF owner
<1> QED BY <1>1, <1>2, <1>3 DEF PapersInv, PapersOf

(* A request about something else begins.                                  *)
LEMMA BeginsElsewhere ==
  ASSUME Inv, PapersInv, NEW c \in Calls, NEW u, NEW row, NEW columns, NEW ref,
         NEW count,
         \/ Begin(c, [Idle EXCEPT !.at = "sms", !.u = u, !.columns = columns,
                                  !.row = row])
         \/ Begin(c, [Idle EXCEPT !.at = "saveUser", !.u = u,
                                  !.columns = columns, !.row = row])
         \/ Begin(c, [Idle EXCEPT !.at = "saveUser", !.u = u, !.row = row])
         \/ Begin(c, [Idle EXCEPT !.at = "aggregate", !.u = u, !.ref = ref,
                                  !.row.ratingCount = count])
  PROVE  PapersInv'
<1>0. /\ [Idle EXCEPT !.at = "sms", !.u = u, !.columns = columns,
                       !.row = row].at = "sms"
      /\ [Idle EXCEPT !.at = "saveUser", !.u = u, !.columns = columns,
                       !.row = row].at = "saveUser"
      /\ [Idle EXCEPT !.at = "saveUser", !.u = u, !.row = row].at = "saveUser"
      /\ [Idle EXCEPT !.at = "aggregate", !.u = u, !.ref = ref,
                       !.row.ratingCount = count].at = "aggregate"
  BY NewRowsAreTyped DEF CallState
<1>1. PICK r : Begin(c, r) /\ r.at \in {"sms", "saveUser", "aggregate"}
  BY <1>0, Zenon
<1>2. \A d \in Calls : call'[d] = call[d] \/ ~Handles(call'[d].at)
  BY <1>1 DEF Begin, Handles, Inv, TypeOK
<1> QED BY <1>1, <1>2, PapersFrame DEF Begin, rows

LEMMA PapersKept ==
  ASSUME Inv, PapersInv, [Next]_vars
  PROVE  PapersInv'
<1>1. CASE UNCHANGED vars
  BY <1>1, PapersFrame DEF vars
<1>2. ASSUME NEW c \in Calls,
             Done(c) /\ UNCHANGED <<kyc, file>>
      PROVE  PapersInv'
  <2>1. \A d \in Calls : call'[d] = call[d] \/ ~Handles(call'[d].at)
    BY <1>2, NewRowsAreTyped DEF Done, Handles, Inv, TypeOK
  <2> QED BY <1>2, <2>1, PapersFrame
<1>3. ASSUME NEW c \in Calls, NEW r \in CallState, Begin(c, r), ~Handles(r.at)
      PROVE  PapersInv'
  <2>1. \A d \in Calls : call'[d] = call[d] \/ ~Handles(call'[d].at)
    BY <1>3 DEF Begin, Inv, TypeOK
  <2>2. UNCHANGED <<kyc, file>>
    BY <1>3 DEF Begin, rows
  <2> QED BY <2>1, <2>2, PapersFrame
<1>4. ASSUME NEW c \in Calls, NEW tables \in SUBSET Tables,
             Write(c, tables, Idle), UNCHANGED <<kyc, file>>
      PROVE  PapersInv'
  <2>1. ASSUME NEW d \in Calls, Handles(call'[d].at)
        PROVE  /\ call'[d].at = call[d].at /\ call'[d].u = call[d].u
               /\ call'[d].form = call[d].form /\ call'[d].ref = call[d].ref
               /\ call'[d].columns = call[d].columns
               /\ call[d].outdated \subseteq call'[d].outdated
    <3>1. d # c /\ call[d] \in CallState
      BY <1>4, <2>1, NewRowsAreTyped DEF Write, Handles, Inv, TypeOK
    <3> QED BY <1>4, <3>1 DEF Write, CallState
  <2> QED BY <1>4, <2>1, PapersFrame
<1>5. ASSUME NEW c \in Calls, NEW u \in Users, NEW type \in DocumentType,
             NEW uploads \in BOOLEAN, SubmitKyc(c, u, type, uploads)
      PROVE  PapersInv'
  <2> DEFINE retained == IF kyc[u].type = type THEN kyc[u].papers ELSE None
             form == [status |-> "PENDING", fullName |-> user[u].fullName,
                      type |-> type,
                      papers |-> IF uploads THEN None ELSE retained]
             at == IF uploads THEN "store" ELSE "saveKyc"
             r == [Idle EXCEPT !.at = at, !.u = u, !.ref = kyc[u].papers,
                               !.form = form]
  <2>1. Begin(c, r) /\ (uploads \/ retained # None)
    BY <1>5 DEF SubmitKyc
  <2>2. /\ user[u].fullName \in Names \cup {None}
        /\ kyc[u].papers \in FileId \cup {None}
    BY DEF User, Kyc, Inv, TypeOK
  <2>3. retained \in {None, kyc[u].papers} /\ retained \in FileId \cup {None}
        /\ (retained # None => retained = kyc[u].papers)
    BY <2>2
  <2> HIDE DEF retained
  <2>4. form \in Kyc /\ at \in {"store", "saveKyc"}
        /\ form.papers \in {None, kyc[u].papers}
        /\ (at = "saveKyc" => form.papers = kyc[u].papers)
    BY <2>1, <2>2, <2>3 DEF Kyc
  <2> HIDE DEF form, at
  <2>5. /\ r \in CallState /\ r.at = at /\ r.u = u /\ r.form = form
        /\ r.ref = kyc[u].papers
    BY <2>2, <2>4, NewRowsAreTyped DEF CallState, Idle, Stage
  <2> HIDE DEF r
  <2> QED BY <2>1, <2>4, <2>5, PapersBegin
<1>6. ASSUME NEW c \in Calls, NEW u \in Users,
             NEW verdict \in {"APPROVED", "REJECTED"}, ReviewKyc(c, u, verdict)
      PROVE  PapersInv'
  <2> DEFINE form == [kyc[u] EXCEPT !.status = verdict]
             r == [Idle EXCEPT !.at = "verdict", !.u = u, !.form = form]
  <2>1. Begin(c, r)
    BY <1>6 DEF ReviewKyc
  <2>2. form \in Kyc /\ form.papers = kyc[u].papers
    BY DEF Kyc, Inv, TypeOK
  <2> HIDE DEF form
  <2>3. /\ r \in CallState /\ r.at = "verdict" /\ r.u = u /\ r.form = form
        /\ r.ref = None
    BY <2>2, NewRowsAreTyped DEF CallState, Idle, Stage
  <2> HIDE DEF r
  <2> QED BY <2>1, <2>2, <2>3, PapersBegin
<1>7. CASE PhoneNext(Phones, Names)
  <2>1. ASSUME NEW c \in Calls, NEW u \in Users, NEW phone, NEW name, NEW right,
               \/ SendOtp(c, u, phone) \/ VerifyOtp(c, u, right)
               \/ UpdateOwnProfile(c, u, name, phone)
        PROVE  PapersInv'
    <3>1. CASE SendOtp(c, u, phone)
      <4>1. PICK row : Begin(c, [Idle EXCEPT !.at = "sms", !.u = u,
                                             !.columns = {"otp"}, !.row = row])
        BY <3>1, Zenon DEF SendOtp
      <4> QED BY <4>1, BeginsElsewhere
    <3>2. CASE VerifyOtp(c, u, right)
      <4>1. PICK row, columns :
              Begin(c, [Idle EXCEPT !.at = "saveUser", !.u = u,
                                    !.columns = columns, !.row = row])
        BY <3>2, Zenon DEF VerifyOtp
      <4> QED BY <4>1, BeginsElsewhere
    <3>3. CASE UpdateOwnProfile(c, u, name, phone)
      <4>1. PICK row : Begin(c, [Idle EXCEPT !.at = "saveUser", !.u = u,
                                             !.row = row])
        BY <3>3, Zenon DEF UpdateOwnProfile
      <4> QED BY <4>1, BeginsElsewhere
    <3> QED BY <2>1, <3>1, <3>2, <3>3
  <2>2. ASSUME NEW c \in Calls, SelectUser(c) PROVE PapersInv'
    <3>1. PICK columns :
            call' = [call EXCEPT ![c].at = "updateUser", ![c].columns = columns]
      BY <2>2 DEF SelectUser
    <3>2. call'[c].at = "updateUser" /\ \A d \in Calls \ {c} : call'[d] = call[d]
      BY <3>1 DEF Inv, TypeOK, CallState
    <3>3. \A d \in Calls : call'[d] = call[d] \/ ~Handles(call'[d].at)
      BY <3>2 DEF Handles
    <3> QED BY <2>2, <3>3, PapersFrame DEF SelectUser, rows
  <2>3. ASSUME NEW c \in Calls, UpdateUser(c) PROVE PapersInv'
    <3>1. {"users"} \in SUBSET Tables
      BY DEF Tables
    <3> QED BY <1>4, <2>3, <3>1 DEF UpdateUser
  <2> QED BY <1>7, <2>1, <2>2, <2>3 DEF PhoneNext
<1>8. CASE KycNext
  <2>1. ASSUME NEW c \in Calls, NEW u \in Users, AddOrUpdateBankDetails(c, u)
        PROVE  PapersInv'
    <3> DEFINE r == [Idle EXCEPT !.at = "bank", !.u = u]
    <3>1. r \in CallState /\ ~Handles(r.at)
      BY NewRowsAreTyped DEF CallState, Idle, Stage, Handles
    <3>2. Begin(c, r)
      BY <2>1 DEF AddOrUpdateBankDetails
    <3> HIDE DEF r
    <3> QED BY <1>3, <3>1, <3>2
  <2>2. ASSUME NEW c \in Calls, UpsertBankDetails(c) PROVE PapersInv'
    BY <1>2, <2>2 DEF UpsertBankDetails
  <2> QED BY <1>5, <1>6, <1>8, <2>1, <2>2, PapersStore, PapersSelect,
             PapersWrite, PapersDelete DEF KycNext
<1>9. CASE RatingNext
  <2>1. ASSUME NEW c \in Calls, NEW p \in Sales, RateSeller(c, p)
        PROVE  PapersInv'
    <3>1. PICK u, count : Begin(c, [Idle EXCEPT !.at = "aggregate", !.u = u,
                                      !.ref = p, !.row.ratingCount = count])
      BY <2>1, Zenon DEF RateSeller
    <3> QED BY <3>1, BeginsElsewhere
  <2>2. ASSUME NEW c \in Calls, CommitRating(c) PROVE PapersInv'
    <3>1. {"users", "ratings"} \in SUBSET Tables
      BY DEF Tables
    <3> QED BY <1>4, <2>2, <3>1 DEF CommitRating
  <2> QED BY <1>9, <2>1, <2>2 DEF RatingNext
<1>10. CASE FailureNext
  BY <1>2, <1>10 DEF FailureNext, RequestFails, rows
<1> QED BY <1>1, <1>7, <1>8, <1>9, <1>10 DEF Next

(* Wherever a submission is cut off, the papers on record stay, for every  *)
(* number of accounts, requests and files: only a request another has      *)
(* overtaken takes them away.                                              *)
THEOREM PapersStayOnFileAlways == Spec => PapersStayOnFile
<1>1. ASSUME Inv, PapersInv, [Next]_vars, NEW u \in Users, ~StaleStep(u),
             OnFile(kyc[u])
      PROVE  OnFile(kyc[u])'
  <2>1. PICK owner \in [FileId -> Users \cup {None}] : PapersOf(owner)
    BY <1>1 DEF PapersInv
  <2>2. \A c \in Calls : PapersOK(owner, c)
    BY <2>1 DEF PapersOf
  <2>3. ASSUME NEW c \in Calls, DeleteSuperseded(c) PROVE OnFile(kyc[u])'
    <3>1. /\ call[c].at = "cleanup" /\ kyc' = kyc
          /\ call' = [call EXCEPT ![c].at = "bank"]
          /\ \A f \in FileId \ {call[c].ref} : file'[f] = file[f]
          /\ \A f \in FileId : file'[f] = file[f] \/ f # call[c].form.papers
      BY <1>1, <2>3 DEF DeleteSuperseded, Goto, Inv, TypeOK
    <3>2. Handles(call[c].at) /\ PapersOK(owner, c)
      BY <2>2, <3>1 DEF Handles
    <3>3. CASE call[c].u = u
      <4>1. call'[c].at = "bank"
        <5>1. call[c] \in CallState
          BY <1>1 DEF Inv, TypeOK
        <5> QED BY <1>1, <3>1, <5>1 DEF Inv, TypeOK, CallState
      <4>2. call[c].outdated = {}
        BY <1>1, <3>1, <3>3, <4>1 DEF StaleStep
      <4>3. kyc[u].papers = call[c].form.papers
        BY <3>1, <3>2, <3>3, <4>2 DEF PapersOK, PapersCurrent
      <4> QED BY <1>1, <3>1, <4>3 DEF OnFile
    <3>4. CASE call[c].u # u
      <4>1. Known(owner, kyc[u].papers, u) /\ Known(owner, call[c].ref, call[c].u)
        BY <2>1, <3>2 DEF PapersOf, PapersOK
      <4> QED BY <1>1, <3>1, <3>4, <4>1 DEF OnFile, Known
    <3> QED BY <3>3, <3>4
  <2>4. ASSUME NEW c \in Calls, InsertKyc(c) \/ UpdateKyc(c)
        PROVE  OnFile(kyc[u])'
    <3>1. /\ call[c] \in CallState /\ call[c].u \in Users
          /\ Handles(call[c].at) /\ file' = file
          /\ \A v \in Users \ {call[c].u} : kyc'[v] = kyc[v]
          /\ call[c].outdated = {} /\ PapersCurrent(call[c]) =>
               kyc'[call[c].u].papers = call[c].form.papers
      BY <1>1, <2>4, PapersWritten
    <3>2. PICK next \in {Idle, [call[c] EXCEPT !.at = "cleanup"]} :
            Write(c, {"kyc"}, next)
      BY <1>1, <2>4, PapersWritten
    <3>3. CASE call[c].u = u
      <4>1. call'[c].at \in {"idle", "cleanup"}
        <5>1. next.at \in {"idle", "cleanup"}
          BY <3>1, NewRowsAreTyped DEF CallState
        <5> QED BY <3>2, <5>1 DEF Write
      <4>2. call[c].at \in {"saveKyc", "updateKyc", "updateVerdict"}
        BY <2>4 DEF InsertKyc, UpdateKyc
      <4>3. call[c].outdated = {}
        BY <1>1, <3>3, <4>1, <4>2 DEF StaleStep
      <4>4. kyc'[u].papers = call[c].form.papers /\ PapersCurrent(call[c])
        BY <2>2, <3>1, <3>3, <4>3 DEF PapersOK
      <4>5. CASE Fresh(call[c])
        BY <2>2, <3>1, <4>4, <4>5 DEF PapersOK, OnFile
      <4>6. CASE ~Fresh(call[c])
        <5>1. call[c].form.papers = kyc[u].papers
          BY <3>3, <4>2, <4>4, <4>6 DEF Fresh, PapersCurrent
        <5> QED BY <1>1, <3>1, <4>4, <5>1 DEF OnFile
      <4> QED BY <4>5, <4>6
    <3>4. CASE call[c].u # u
      BY <1>1, <3>1, <3>4 DEF OnFile
    <3> QED BY <3>3, <3>4
  <2>5. ASSUME NEW c \in Calls, StorePapers(c) PROVE OnFile(kyc[u])'
    BY <1>1, <2>5 DEF StorePapers, Store, OnFile, Inv, TypeOK
  <2>6. CASE UNCHANGED <<kyc, file>>
    BY <1>1, <2>6 DEF OnFile
  <2>7. \/ UNCHANGED <<kyc, file>>
        \/ \E c \in Calls : \/ DeleteSuperseded(c) \/ InsertKyc(c)
                             \/ UpdateKyc(c) \/ StorePapers(c)
    <3>1. CASE PhoneNext(Phones, Names)
      <4>1. ASSUME NEW c \in Calls, NEW v \in Users, NEW phone, NEW name,
                   NEW right,
                   \/ SendOtp(c, v, phone) \/ VerifyOtp(c, v, right)
                   \/ UpdateOwnProfile(c, v, name, phone)
            PROVE  UNCHANGED <<kyc, file>>
        <5>1. \E r : Begin(c, r)
          BY <4>1, Zenon DEF SendOtp, VerifyOtp, UpdateOwnProfile
        <5> QED BY <5>1 DEF Begin, rows
      <4> QED BY <3>1, <4>1 DEF PhoneNext, SelectUser, UpdateUser, rows
    <3>2. CASE KycNext
      <4>1. ASSUME NEW c \in Calls, NEW v \in Users, NEW type, NEW uploads,
                   NEW verdict,
                   \/ SubmitKyc(c, v, type, uploads)
                   \/ AddOrUpdateBankDetails(c, v) \/ ReviewKyc(c, v, verdict)
            PROVE  UNCHANGED <<kyc, file>>
        <5>1. \E r : Begin(c, r)
          BY <4>1, Zenon DEF SubmitKyc, AddOrUpdateBankDetails, ReviewKyc
        <5> QED BY <5>1 DEF Begin, rows
      <4>2. ASSUME NEW c \in Calls, SelectKyc(c) \/ UpsertBankDetails(c)
            PROVE  UNCHANGED <<kyc, file>>
        BY <4>2 DEF SelectKyc, UpsertBankDetails, rows
      <4> QED BY <3>2, <4>1, <4>2, Zenon DEF KycNext
    <3>3. CASE RatingNext \/ FailureNext \/ UNCHANGED vars
      BY <3>3 DEF RatingNext, RateSeller, CommitRating, FailureNext,
                  RequestFails, Begin, rows, vars
    <3> QED BY <1>1, <3>1, <3>2, <3>3 DEF Next
  <2> QED BY <2>3, <2>4, <2>5, <2>6, <2>7
<1>2. Inv /\ PapersInv /\ [Next]_vars =>
        [\A u \in Users :
           \/ StaleStep(u)
           \/ OnFile(kyc[u]) => OnFile(kyc[u])']_vars
  BY <1>1
<1> QED BY <1>2, Invariant, PapersInitially, PapersKept, PTL
        DEF Spec, PapersStayOnFile

-----------------------------------------------------------------------------
(* The address book, which shares nothing with the rest.                   *)
AddressRequest ==
  [at: {"idle", "clear", "save", "promote", "remove"},
   id: AddressId \cup {0}, isDefault: BOOLEAN,
   clears: SUBSET AddressId, promotes: SUBSET AddressId, outdated: BOOLEAN]

(* What a request nobody has overtaken may rely on: the row it is about is *)
(* there, there is room for a new one, and once it is done it leaves one   *)
(* default, its own or another.                                            *)
RequestOK(r) ==
  /\ r.at \in {"clear", "save"} =>
       IF r.id = 0 THEN Cardinality(Saved) < MAX_SHIPPING_ADDRESSES
       ELSE r.id \in Saved
  /\ r.at = "clear" => r.isDefault
  /\ r.at = "save" =>
       \/ r.isDefault /\ r.clears = Saved \ {r.id}
       \/ /\ r.clears = {}
          /\ IF r.id = 0 THEN ~r.isDefault /\ Saved # {}
             ELSE r.isDefault = address[r.id].isDefault
  /\ r.at \in {"promote", "remove"} =>
       r.id \in Saved /\ r.isDefault = address[r.id].isDefault
  /\ r.at = "promote" => r.isDefault
  /\ r.at \in {"clear", "promote"} => r.clears = {} /\ r.promotes = {}
  /\ r.at = "remove" =>
       IF r.isDefault /\ Saved # {r.id}
       THEN \E i \in Saved \ {r.id} : r.promotes = {i}
       ELSE r.promotes = {}

AddressInv ==
  /\ address \in [AddressId -> Address]
  /\ request \in [Requests -> AddressRequest]
  /\ \A c \in Requests : request[c].outdated \/ RequestOK(request[c])

LEMMA SomeAddress ==
  ASSUME NEW T, T \subseteq AddressId, T # {}
  PROVE  Min(T) \in T
<1>1. T \subseteq Nat
  BY DEF AddressId
<1>2. PICK n \in T : \A m \in T : ~(<<m, n>> \in OpToRel(<, Nat))
  BY <1>1, NatLessThanWellFounded, WFMin
<1>3. \A m \in T : ~(m < n)
  BY <1>1, <1>2 DEF OpToRel
<1>4. \A m \in T : n <= m
  BY <1>1, <1>3
<1>. QED
  BY <1>4 DEF Min

LEMMA SavedFinite ==
  ASSUME NEW S \in SUBSET AddressId
  PROVE  IsFiniteSet(S) /\ Cardinality(S) \in Nat
<1>1. IsFiniteSet(AddressId)
  BY FS_Interval, AddressBookAssumption DEF AddressId
<1>. QED
  BY <1>1, FS_Subset, FS_CardinalityType

LEMMA AddressInitially == AddressInit => AddressInv
<1>1. NoAddress \in Address /\ NoRequest \in AddressRequest
  BY DEF NoAddress, NoRequest, Address, AddressRequest
<1>2. RequestOK(NoRequest)
  BY DEF RequestOK, NoRequest
<1>. QED
  BY <1>1, <1>2 DEF AddressInit, AddressInv

(* A request that begins or goes on, and writes nothing.                   *)
LEMMA RequestStepKeeps ==
  ASSUME AddressInv, NEW c \in Requests, NEW r \in AddressRequest,
         UNCHANGED address, request' = [request EXCEPT ![c] = r],
         r.outdated \/ RequestOK(r)
  PROVE  AddressInv'
<1>1. /\ request' \in [Requests -> AddressRequest] /\ request'[c] = r
      /\ \A d \in Requests \ {c} : request'[d] = request[d]
  BY DEF AddressInv
<1>2. Saved' = Saved
  BY DEF Saved
<1>3. ASSUME NEW d \in Requests
      PROVE  request'[d].outdated \/ RequestOK(request[d])'
  <2>1. CASE d = c
    BY <1>1, <1>2, <2>1 DEF RequestOK
  <2>2. CASE d # c
    BY <1>1, <1>2, <2>2 DEF RequestOK, AddressInv
  <2>. QED
    BY <2>1, <2>2
<1>. QED
  BY <1>1, <1>3 DEF AddressInv

(* A commit outdates what every other request has read.                    *)
LEMMA CommitKeeps ==
  ASSUME AddressInv, NEW c \in Requests,
         NEW written \in [AddressId -> Address], Commit(c, written)
  PROVE  AddressInv' /\ request'[c] = NoRequest /\ address' = written
<1>1. request' = [d \in Requests |-> IF d = c THEN NoRequest
        ELSE [request[d] EXCEPT !.outdated = request[d].at # "idle"]]
  BY DEF Commit
<1>2. request'[c] = NoRequest
  BY <1>1
<1>3. NoRequest \in AddressRequest /\ NoRequest.at = "idle"
  BY DEF NoRequest, AddressRequest
<1>4. ASSUME NEW d \in Requests
      PROVE  /\ request'[d] \in AddressRequest
             /\ request'[d].outdated \/ RequestOK(request[d])'
  <2>1. CASE d = c
    BY <1>2, <1>3, <2>1 DEF RequestOK
  <2>2. CASE d # c
    <3>. DEFINE busy == request[d].at # "idle"
    <3>1. request[d] \in AddressRequest
      BY DEF AddressInv
    <3>2. request'[d] = [request[d] EXCEPT !.outdated = busy]
      BY <1>1, <2>2
    <3>3. busy \in BOOLEAN /\ (~busy => request[d].at = "idle")
      BY Zenon
    <3>. HIDE DEF busy
    <3>4. /\ request'[d] \in AddressRequest /\ request'[d].outdated = busy
          /\ request'[d].at = request[d].at
      BY <3>1, <3>2, <3>3 DEF AddressRequest
    <3>5. ~busy => RequestOK(request[d])'
      BY <3>3, <3>4 DEF RequestOK
    <3>. QED
      BY <3>4, <3>5
  <2>. QED
    BY <2>1, <2>2
<1>5. request' \in [Requests -> AddressRequest]
  BY <1>1, <1>3, <1>4
<1>6. address' = written
  BY DEF Commit
<1>. QED
  BY <1>2, <1>4, <1>5, <1>6 DEF AddressInv

LEMMA CreateAddressKeeps ==
  ASSUME AddressInv, NEW c \in Requests, NEW asked \in BOOLEAN,
         Create(c, asked)
  PROVE  AddressInv'
<1>. DEFINE first == MadeDefault(Cardinality(Saved), asked)
            at == IF first THEN "clear" ELSE "save"
<1>1. Read(c, at, 0, first) /\ Cardinality(Saved) < MAX_SHIPPING_ADDRESSES
  BY DEF Create
<1>2. first \in BOOLEAN /\ (~first => Saved # {})
  BY FS_EmptySet, Zenon DEF MadeDefault
<1>. HIDE DEF first
<1>3. PICK r \in AddressRequest :
        r = [NoRequest EXCEPT !.at = at, !.id = 0, !.isDefault = first]
  BY <1>2 DEF NoRequest, AddressRequest
<1>4. request' = [request EXCEPT ![c] = r] /\ UNCHANGED address
  BY <1>1, <1>3 DEF Read
<1>5. RequestOK(r)
  BY <1>1, <1>2, <1>3 DEF RequestOK, NoRequest
<1>. QED
  BY <1>4, <1>5, RequestStepKeeps

LEMMA UpdateAddressKeeps ==
  ASSUME AddressInv, NEW c \in Requests, NEW i \in AddressId,
         NEW asked \in BOOLEAN, Update(c, i, asked)
  PROVE  AddressInv'
<1>. DEFINE default == asked \/ address[i].isDefault
            at == IF asked THEN "clear" ELSE "save"
<1>1. Read(c, at, i, default) /\ i \in Saved
  BY DEF Update
<1>2. address[i].isDefault \in BOOLEAN
  BY DEF AddressInv, Address
<1>3. default \in BOOLEAN /\ (asked => default)
      /\ (~asked => default = address[i].isDefault)
  BY <1>2, Zenon
<1>. HIDE DEF default
<1>4. PICK r \in AddressRequest :
        r = [NoRequest EXCEPT !.at = at, !.id = i, !.isDefault = default]
  BY <1>3 DEF NoRequest, AddressRequest
<1>5. request' = [request EXCEPT ![c] = r] /\ UNCHANGED address
  BY <1>1, <1>4 DEF Read
<1>6. RequestOK(r)
  BY <1>1, <1>3, <1>4 DEF RequestOK, NoRequest, AddressId
<1>. QED
  BY <1>5, <1>6, RequestStepKeeps

LEMMA RemoveReadKeeps ==
  ASSUME AddressInv, NEW c \in Requests, NEW i \in AddressId, Remove(c, i)
  PROVE  AddressInv'
<1>. DEFINE default == address[i].isDefault
            at == IF default THEN "promote" ELSE "remove"
<1>1. Read(c, at, i, default) /\ i \in Saved
  BY DEF Remove
<1>2. default \in BOOLEAN
  BY DEF AddressInv, Address
<1>3. PICK r \in AddressRequest :
        r = [NoRequest EXCEPT !.at = at, !.id = i, !.isDefault = default]
  BY <1>2 DEF NoRequest, AddressRequest
<1>4. request' = [request EXCEPT ![c] = r] /\ UNCHANGED address
  BY <1>1, <1>3 DEF Read
<1>5. RequestOK(r)
  BY <1>1, <1>2, <1>3 DEF RequestOK, NoRequest
<1>. QED
  BY <1>4, <1>5, RequestStepKeeps

LEMMA ClearDefaultsKeeps ==
  ASSUME AddressInv, NEW c \in Requests, ClearDefaults(c)
  PROVE  AddressInv'
<1>1. /\ request[c] \in AddressRequest /\ request[c].at = "clear"
      /\ request[c].outdated \/ RequestOK(request[c])
  BY DEF AddressInv, ClearDefaults
<1>2. Saved \subseteq AddressId
  BY DEF Saved
<1>3. PICK r \in AddressRequest :
        r = [request[c] EXCEPT !.at = "save", !.clears = Saved \ {request[c].id}]
  BY <1>1, <1>2 DEF AddressRequest
<1>4. request' = [request EXCEPT ![c] = r] /\ UNCHANGED address
  BY <1>3 DEF ClearDefaults, AddressInv
<1>5. /\ r.outdated = request[c].outdated /\ r.id = request[c].id
      /\ r.isDefault = request[c].isDefault /\ r.at = "save"
      /\ r.clears = Saved \ {r.id}
  BY <1>1, <1>3 DEF AddressRequest
<1>6. r.outdated \/ RequestOK(r)
  BY <1>1, <1>5 DEF RequestOK
<1>. QED
  BY <1>4, <1>6, RequestStepKeeps

LEMMA PromoteOldestKeeps ==
  ASSUME AddressInv, NEW c \in Requests, PromoteOldest(c)
  PROVE  AddressInv'
<1>. DEFINE survivors == Saved \ {request[c].id}
            promoted == IF survivors = {} THEN {} ELSE {Min(survivors)}
<1>1. /\ request[c] \in AddressRequest /\ request[c].at = "promote"
      /\ request[c].outdated \/ RequestOK(request[c])
  BY DEF AddressInv, PromoteOldest
<1>2. survivors \subseteq AddressId
  BY DEF Saved
<1>3. IF survivors = {} THEN promoted = {}
      ELSE \E i \in survivors : promoted = {i}
  BY <1>2, SomeAddress
<1>4. promoted \subseteq AddressId
  BY <1>2, <1>3
<1>. HIDE DEF promoted
<1>5. PICK r \in AddressRequest :
        r = [request[c] EXCEPT !.at = "remove", !.promotes = promoted]
  BY <1>1, <1>4 DEF AddressRequest
<1>6. request' = [request EXCEPT ![c] = r] /\ UNCHANGED address
  BY <1>5 DEF PromoteOldest, AddressInv, promoted
<1>7. /\ r.outdated = request[c].outdated /\ r.id = request[c].id
      /\ r.isDefault = request[c].isDefault /\ r.at = "remove"
      /\ r.promotes = promoted
  BY <1>1, <1>5 DEF AddressRequest
<1>8. r.outdated \/ RequestOK(r)
  BY <1>1, <1>3, <1>7 DEF RequestOK
<1>. QED
  BY <1>6, <1>8, RequestStepKeeps

LEMMA AbortKeeps ==
  ASSUME AddressInv, NEW c \in Requests, Abort(c)
  PROVE  AddressInv'
<1>1. NoRequest \in AddressRequest /\ RequestOK(NoRequest)
  BY DEF NoRequest, AddressRequest, RequestOK
<1>. QED
  BY <1>1, RequestStepKeeps DEF Abort

(* What a step owes the limit and the default.                             *)
AddressRules ==
  /\ \/ Cardinality(Saved') <= MAX_SHIPPING_ADDRESSES
     \/ Cardinality(Saved') <= Cardinality(Saved)
  /\ Saved = {} \/ Cardinality(Defaults) = 1
       => Saved' = {} \/ Cardinality(Defaults') = 1

LEMMA RulesOfSets ==
  ASSUME Saved' = Saved, Defaults' = Defaults
  PROVE  AddressRules
<1>1. Cardinality(Saved) \in Nat
  BY SavedFinite DEF Saved
<1>. QED
  BY <1>1 DEF AddressRules

LEMMA SaveAddressKeeps ==
  ASSUME AddressInv, NEW c \in Requests, SaveAddress(c)
  PROVE  AddressInv' /\ (request[c].outdated \/ AddressRules)
<1>. DEFINE r == request[c]
            unused == {j \in AddressId : address[j].state = "unused"}
            row(i, j) ==
              IF j = i THEN [state |-> "saved", isDefault |-> r.isDefault]
              ELSE IF j \in r.clears THEN [address[j] EXCEPT !.isDefault = FALSE]
              ELSE address[j]
<1>1. /\ r \in AddressRequest /\ r.at = "save"
      /\ r.outdated \/ RequestOK(r)
      /\ address \in [AddressId -> Address]
  BY DEF AddressInv, SaveAddress
<1>2. PICK i \in AddressId :
        /\ IF r.id # 0 THEN i = r.id ELSE i \in unused
        /\ Commit(c, [j \in AddressId |-> row(i, j)])
  <2>1. PICK i \in IF r.id # 0 THEN {r.id}
                   ELSE IF unused = {} THEN {} ELSE {Min(unused)} :
          Commit(c, [j \in AddressId |-> row(i, j)])
    BY DEF SaveAddress
  <2>2. CASE r.id # 0
    BY <1>1, <2>1, <2>2 DEF AddressRequest
  <2>3. CASE r.id = 0
    <3>1. unused # {} /\ i = Min(unused)
      BY <2>1, <2>3
    <3>2. i \in unused
      BY <3>1, SomeAddress
    <3>. QED
      BY <2>1, <2>3, <3>2
  <2>. QED
    BY <2>2, <2>3
<1>. DEFINE written == [j \in AddressId |-> row(i, j)]
<1>3. \A j \in AddressId : row(i, j) \in Address
  BY <1>1 DEF Address, AddressRequest
<1>4. written \in [AddressId -> Address]
  BY <1>3
<1>5. AddressInv' /\ address' = written
  BY <1>2, <1>4, CommitKeeps
<1>6. ASSUME ~r.outdated PROVE AddressRules
  <2>1. RequestOK(r)
    BY <1>1, <1>6
  <2>2. \A j \in AddressId :
          /\ address'[j].state = IF j = i THEN "saved" ELSE address[j].state
          /\ address'[j].isDefault =
               IF j = i THEN r.isDefault
               ELSE IF j \in r.clears THEN FALSE ELSE address[j].isDefault
    BY <1>1, <1>5 DEF Address
  <2>3. Saved' = Saved \cup {i}
    BY <2>2 DEF Saved
  <2>4. IsFiniteSet(Saved) /\ Cardinality(Saved) \in Nat
    BY SavedFinite DEF Saved
  <2>5. \/ Cardinality(Saved') <= MAX_SHIPPING_ADDRESSES
        \/ Cardinality(Saved') <= Cardinality(Saved)
    <3>1. CASE r.id = 0
      <4>1. Cardinality(Saved) < MAX_SHIPPING_ADDRESSES
        BY <1>1, <2>1, <3>1 DEF RequestOK
      <4>2. Cardinality(Saved') \in {Cardinality(Saved), Cardinality(Saved) + 1}
        BY <2>3, <2>4, FS_AddElement
      <4>. QED
        BY <2>4, <4>1, <4>2, AddressBookAssumption
    <3>2. CASE r.id # 0
      <4>1. Saved' = Saved
        BY <1>1, <1>2, <2>1, <2>3, <3>2 DEF RequestOK
      <4>. QED
        BY <2>4, <4>1
    <3>. QED
      BY <3>1, <3>2
  <2>6. ASSUME Saved = {} \/ Cardinality(Defaults) = 1
        PROVE  Cardinality(Defaults') = 1
    <3>1. CASE r.isDefault /\ r.clears = Saved \ {r.id}
      <4>1. Defaults' = {i}
        <5>1. \A j \in Saved : j \in AddressId /\ (j # i => j \in r.clears)
          BY <1>2, <3>1 DEF Saved, AddressId
        <5>2. \A j \in Saved \cup {i} : address'[j].isDefault <=> j = i
          BY <2>2, <3>1, <5>1
        <5>. QED
          BY <2>3, <5>2 DEF Defaults
      <4>. QED
        BY <4>1, FS_Singleton
    <3>2. CASE /\ r.clears = {}
               /\ IF r.id = 0 THEN ~r.isDefault /\ Saved # {}
                  ELSE r.isDefault = address[r.id].isDefault
      <4>1. Saved # {}
        BY <1>1, <2>1, <3>2 DEF RequestOK
      <4>2. Defaults' = Defaults
        <5>1. CASE r.id = 0
          BY <1>2, <2>2, <2>3, <3>2, <5>1 DEF Defaults, Saved
        <5>2. CASE r.id # 0
          <6>1. i = r.id /\ i \in Saved
            BY <1>1, <1>2, <2>1, <5>2 DEF RequestOK
          <6>2. Saved' = Saved
            BY <2>3, <6>1
          <6>3. \A j \in Saved : address'[j].isDefault = address[j].isDefault
            BY <2>2, <3>2, <5>2, <6>1 DEF Saved
          <6>. QED
            BY <6>2, <6>3 DEF Defaults
        <5>. QED
          BY <5>1, <5>2
      <4>. QED
        BY <2>6, <4>1, <4>2
    <3>. QED
      BY <1>1, <2>1, <3>1, <3>2 DEF RequestOK
  <2>. QED
    BY <2>5, <2>6 DEF AddressRules
<1>. QED
  BY <1>5, <1>6

LEMMA RemoveAddressKeeps ==
  ASSUME AddressInv, NEW c \in Requests, RemoveAddress(c)
  PROVE  AddressInv' /\ (request[c].outdated \/ AddressRules)
<1>. DEFINE r == request[c]
            row(j) ==
              IF j = r.id THEN [state |-> "removed", isDefault |-> FALSE]
              ELSE IF j \in r.promotes THEN [state |-> "saved", isDefault |-> TRUE]
              ELSE address[j]
            written == [j \in AddressId |-> row(j)]
<1>1. /\ r \in AddressRequest /\ r.at = "remove"
      /\ r.outdated \/ RequestOK(r)
      /\ address \in [AddressId -> Address]
  BY DEF AddressInv, RemoveAddress
<1>2. Commit(c, written)
  BY DEF RemoveAddress
<1>3. \A j \in AddressId : row(j) \in Address
  BY <1>1 DEF Address
<1>4. written \in [AddressId -> Address]
  BY <1>3
<1>5. AddressInv' /\ address' = written
  BY <1>2, <1>4, CommitKeeps
<1>6. ASSUME ~r.outdated PROVE AddressRules
  <2>1. /\ r.id \in Saved /\ r.isDefault = address[r.id].isDefault
        /\ IF r.isDefault /\ Saved # {r.id}
           THEN \E i \in Saved \ {r.id} : r.promotes = {i}
           ELSE r.promotes = {}
    BY <1>1, <1>6 DEF RequestOK
  <2>2. \A j \in AddressId :
          /\ address'[j].state = IF j = r.id THEN "removed"
                                 ELSE IF j \in r.promotes THEN "saved"
                                 ELSE address[j].state
          /\ address'[j].isDefault =
               IF j = r.id THEN FALSE
               ELSE IF j \in r.promotes THEN TRUE ELSE address[j].isDefault
    BY <1>1, <1>5 DEF Address
  <2>3. Saved' = Saved \ {r.id}
    <3>1. r.promotes \subseteq Saved \ {r.id}
      BY <2>1
    <3>2. ASSUME NEW j \in AddressId
          PROVE  address'[j].state = "saved"
                 <=> j # r.id /\ address[j].state = "saved"
      <4>1. CASE j = r.id
        BY <2>2, <4>1
      <4>2. CASE j # r.id /\ j \in r.promotes
        BY <2>2, <3>1, <4>2 DEF Saved
      <4>3. CASE j # r.id /\ j \notin r.promotes
        BY <2>2, <4>3
      <4> QED BY <4>1, <4>2, <4>3
    <3>. HIDE DEF r
    <3> QED BY <3>2 DEF Saved
  <2>4. IsFiniteSet(Saved) /\ Cardinality(Saved) \in Nat
    BY SavedFinite DEF Saved
  <2>5. Cardinality(Saved') <= Cardinality(Saved)
    <3>1. Cardinality(Saved \ {r.id}) <= Cardinality(Saved)
      <4>. DEFINE S == Saved
      <4>. HIDE DEF S
      <4>1. IsFiniteSet(S) /\ Cardinality(S) \in Nat
        BY <2>4 DEF S
      <4>2. Cardinality(S \ {r.id}) <= Cardinality(S)
        BY <4>1, FS_RemoveElement
      <4>. QED
        BY <4>2 DEF S
    <3>. QED
      BY <2>3, <3>1
  <2>6. ASSUME Saved = {} \/ Cardinality(Defaults) = 1, Saved' # {}
        PROVE  Cardinality(Defaults') = 1
    <3>1. IsFiniteSet(Defaults) /\ Cardinality(Defaults) = 1
      BY <2>1, <2>6, SavedFinite DEF Defaults, Saved
    <3>2. PICK k : Defaults = {k}
      BY <3>1, FS_Singleton
    <3>3. CASE r.isDefault
      <4>1. k = r.id
        BY <2>1, <3>2, <3>3 DEF Defaults
      <4>2. PICK i \in Saved \ {r.id} : r.promotes = {i}
        BY <2>1, <2>3, <2>6, <3>3
      <4>3. Defaults' = {i}
        <5>1. \A j \in Saved \ {r.id, i} : j \notin Defaults
          BY <3>2, <4>1
        <5>2. \A j \in Saved \ {r.id} : address'[j].isDefault <=> j = i
          BY <2>2, <4>2, <5>1 DEF Saved, Defaults
        <5>. QED
          BY <2>3, <4>2, <5>2 DEF Defaults
      <4>. QED
        BY <4>3, FS_Singleton
    <3>4. CASE ~r.isDefault
      <4>1. r.promotes = {} /\ r.id \notin Defaults
        BY <2>1, <3>4 DEF Defaults
      <4>2. Defaults' = Defaults
        BY <2>2, <2>3, <4>1 DEF Defaults, Saved
      <4>. QED
        BY <3>1, <4>2
    <3>. QED
      BY <3>3, <3>4
  <2>. QED
    BY <2>5, <2>6 DEF AddressRules
<1>. QED
  BY <1>5, <1>6

LEMMA AddressKept == AddressInv /\ [AddressNext]_addressVars => AddressInv'
<1>. SUFFICES ASSUME AddressInv, [AddressNext]_addressVars PROVE AddressInv'
  OBVIOUS
<1>1. CASE UNCHANGED addressVars
  BY <1>1 DEF addressVars, AddressInv, RequestOK, Saved
<1>2. CASE AddressNext
  BY <1>2, CreateAddressKeeps, UpdateAddressKeeps, RemoveReadKeeps,
     ClearDefaultsKeeps, PromoteOldestKeeps, SaveAddressKeeps,
     RemoveAddressKeeps, AbortKeeps DEF AddressNext
<1>. QED
  BY <1>1, <1>2

LEMMA AddressInvariant == AddressSpec => []AddressInv
  BY AddressInitially, AddressKept, PTL DEF AddressSpec

(* Addresses and the requests about them are made of what the columns and  *)
(* the calls of ShippingService can hold.                                  *)
THEOREM AddressTypeCorrect == AddressSpec => []AddressTypeOK
<1>1. AddressInv => AddressTypeOK
  <2>. SUFFICES ASSUME AddressInv, NEW c \in Requests
                PROVE  /\ request[c].id \in AddressId \cup {0}
                       /\ request[c].clears \subseteq AddressId
                       /\ request[c].promotes \subseteq AddressId
    BY DEF AddressInv, AddressTypeOK
  <2>1. request[c] \in AddressRequest
    BY DEF AddressInv
  <2>. QED
    BY <2>1 DEF AddressRequest
<1>. QED
  BY <1>1, AddressInvariant, PTL

(* One request alone keeps the address book in order: never more than the  *)
(* limit allows, and one default while there is an address; only a request *)
(* overtaken by another does otherwise (ShippingService).                  *)
THEOREM RulesHoldUnlessOverlappedAlways ==
  AddressSpec => RulesHoldUnlessOverlapped
<1>1. AddressSpec => []AddressInv
  BY AddressInvariant
<1>2. AddressInv /\ [AddressNext]_addressVars =>
        [\/ \E c \in Requests : request[c].outdated /\ request'[c] # request[c]
         \/ /\ \/ Cardinality(Saved') <= MAX_SHIPPING_ADDRESSES
               \/ Cardinality(Saved') <= Cardinality(Saved)
            /\ Saved = {} \/ Cardinality(Defaults) = 1
                 => Saved' = {} \/ Cardinality(Defaults') = 1]_addressVars
  <2>. SUFFICES ASSUME AddressInv, AddressNext,
                       ~\E c \in Requests : request[c].outdated
                                              /\ request'[c] # request[c]
                PROVE  AddressRules
    BY DEF AddressRules
  <2>1. CASE UNCHANGED address
    <3>1. Saved' = Saved /\ Defaults' = Defaults
      BY <2>1 DEF Saved, Defaults
    <3>. QED
      BY <3>1, RulesOfSets
  <2>2. CASE \E c \in Requests : SaveAddress(c) \/ RemoveAddress(c)
    <3>1. PICK c \in Requests : SaveAddress(c) \/ RemoveAddress(c)
      BY <2>2
    <3>2. request[c].at # "idle" /\ request'[c] = NoRequest
      BY <3>1 DEF SaveAddress, RemoveAddress, Commit
    <3>3. request'[c] # request[c]
      BY <3>2 DEF NoRequest
    <3>4. ~request[c].outdated
      BY <3>3
    <3>. QED
      BY <3>1, <3>4, SaveAddressKeeps, RemoveAddressKeeps
  <2>. QED
    BY <2>1, <2>2 DEF AddressNext, Create, Update, Remove, Read, ClearDefaults,
       PromoteOldest, Abort
<1>. QED
  BY <1>1, <1>2, PTL DEF AddressSpec, RulesHoldUnlessOverlapped

=============================================================================
