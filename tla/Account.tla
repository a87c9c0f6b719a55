------------------------------- MODULE Account -------------------------------
(***************************************************************************)
(* What one account proves about its owner, and what others say of them:   *)
(* the phone verified by a texted code (PhoneVerificationService), the     *)
(* name and profile (UsersService), the identity documents (KycService)    *)
(* and the rating aggregate (RatingsService).                              *)
(*                                                                         *)
(* Four services write the same row of users, and two kinds of call the    *)
(* same row of kyc_verifications, each with save(entity).  TypeORM SELECTs *)
(* the row again and then UPDATEs the columns in which the copy the call   *)
(* holds differs from it: two statements, with nothing held in between.  A *)
(* call is therefore split where it awaits something slow (the text        *)
(* message, the storage of a file), between its reads and its save, and    *)
(* inside the save; reads that follow each other are one step.  What a     *)
(* code or a document says is left out, and so are checks that can only    *)
(* refuse (an expired code, a document another account holds).             *)
(***************************************************************************)
EXTENDS Naturals, FiniteSets

CONSTANTS Users, Phones, Names, DocumentType,
          FileId,                  \* uploads ever made: bounds the storage
          Sales,                   \* paid sales, each rated at most once
          SellerOf,                \* the seller of each
          Calls,                   \* requests in progress at a time
          PHONE_OTP_MAX_ATTEMPTS,
          None                     \* null

ASSUME AccountAssumption ==
  /\ IsFiniteSet(Sales) /\ SellerOf \in [Sales -> Users]
  /\ None \notin Phones \cup Names \cup DocumentType \cup FileId \cup Sales
  /\ PHONE_OTP_MAX_ATTEMPTS \in Nat \ {0}

VARIABLES
  user,      \* users
  kyc,       \* kyc_verifications, status "NONE" without a row
  hasBank,   \* users with a row of bank_details
  file,      \* the stored documents
  ratings,   \* seller_ratings of each seller, by the sale rated
  call,
  torn       \* history: users whose number columns an UPDATE has mixed

vars == <<user, kyc, hasBank, file, ratings, call, torn>>

(* `otp` is the number the outstanding code was texted to; phoneVerifiedAt *)
(* is null or shows which number's code was entered then.                  *)
User == [phone: Phones \cup {None}, phoneVerifiedAt: Phones \cup {None},
         pendingPhone: Phones \cup {None}, otp: Phones \cup {None},
         attempts: 0..PHONE_OTP_MAX_ATTEMPTS, fullName: Names \cup {None},
         ratingCount: 0..Cardinality(Sales)]

(* The papers of a submission are uploaded, kept and replaced together.    *)
Kyc == [status: {"NONE", "PENDING", "APPROVED", "REJECTED"},
        fullName: Names \cup {None}, type: DocumentType \cup {None},
        papers: FileId \cup {None}]

NewUser == [phone |-> None, phoneVerifiedAt |-> None,
            pendingPhone |-> None, otp |-> None, attempts |-> 0,
            fullName |-> None, ratingCount |-> 0]

Verified(row) == row.phoneVerifiedAt # None

NoKyc == [status |-> "NONE", fullName |-> None, type |-> None,
          papers |-> None]

UserColumn == {"phone", "phoneVerifiedAt", "pendingPhone", "otp", "attempts",
               "fullName", "ratingCount"}
KycColumn == {"status", "fullName", "type", "papers"}

(* A request: the rows it read, with its own changes (`row`, `form`), the  *)
(* columns it will UPDATE (before its SELECT those it gave a new time or   *)
(* hash), what it will delete or rate at the end (`ref`), and which of the *)
(* tables it read for this account others have written since (`outdated`). *)
Idle == [at |-> "idle", u |-> None, row |-> NewUser, form |-> NoKyc,
         columns |-> {}, ref |-> None, outdated |-> {}]

Tables == {"users", "kyc", "ratings"}
Stage == {"idle", "sms", "saveUser", "updateUser", "store", "saveKyc",
          "updateKyc", "cleanup", "bank", "verdict", "updateVerdict",
          "aggregate"}

CallState == [at: Stage, u: Users \cup {None}, row: User, form: Kyc,
              columns: SUBSET (UserColumn \cup KycColumn),
              ref: FileId \cup Sales \cup {None}, outdated: SUBSET Tables]

TypeOK ==
  /\ user \in [Users -> User]
  /\ kyc \in [Users -> Kyc]
  /\ hasBank \subseteq Users
  /\ file \in [FileId -> {"free", "stored", "deleted"}]
  /\ ratings \in [Users -> SUBSET Sales]
  /\ call \in [Calls -> CallState]
  /\ torn \subseteq Users

(* Registration asks for a name and a number, which waits for its code; a  *)
(* social log-in brings a name at most.                                    *)
Registered == [phone: {None}, phoneVerifiedAt: {None},
               pendingPhone: Phones \cup {None}, otp: {None}, attempts: {0},
               fullName: Names \cup {None}, ratingCount: {0}]

InitWith(accounts) ==
  /\ user \in [Users -> accounts]
  /\ kyc = [u \in Users |-> NoKyc]
  /\ hasBank = {}
  /\ file = [f \in FileId |-> "free"]
  /\ ratings = [u \in Users |-> {}]
  /\ call = [c \in Calls |-> Idle]
  /\ torn = {}

Init == InitWith(Registered)

-----------------------------------------------------------------------------
rows == <<user, kyc, hasBank, file, ratings>>

Begin(c, request) ==
  /\ call[c].at = "idle"
  /\ call' = [call EXCEPT ![c] = request]
  /\ UNCHANGED <<rows, torn>>

(* The tables a call has read and will decide or write on.                 *)
RestsOn(at) ==
  CASE at \in {"sms", "saveUser", "updateUser"} -> {"users", "kyc"}
    [] at \in {"store", "saveKyc", "updateKyc", "cleanup", "verdict",
               "updateVerdict"} -> {"kyc"}
    [] at = "aggregate" -> {"ratings"}
    [] OTHER -> {}

(* Call c goes on as `next`, having written some tables: what other calls  *)
(* read of them for this account is no longer what is there.               *)
Write(c, tables, next) ==
  call' = [d \in Calls |->
    IF d = c THEN next
    ELSE IF call[d].u = call[c].u
    THEN [call[d] EXCEPT !.outdated = @ \cup (tables \cap RestsOn(call[d].at))]
    ELSE call[d]]

Goto(c, at) == call' = [call EXCEPT ![c].at = at]
Done(c) == call' = [call EXCEPT ![c] = Idle]

(* The text message, the storage or a statement fails, or a restart cuts   *)
(* the request off: what it has written stays.                             *)
RequestFails(c) ==
  /\ call[c].at # "idle"
  /\ Done(c)
  /\ UNCHANGED <<rows, torn>>

(* The verified number of another account (deleted ones included).         *)
Taken(u, phone) == \E v \in Users \ {u} : user[v].phone = phone

-----------------------------------------------------------------------------
(* PhoneVerificationService.sendOtp: the code is texted before its hash is *)
(* stored, so that a failure leaves an earlier code valid.                 *)
SendOtp(c, u, given) ==
  LET phone == IF given # None THEN given ELSE user[u].pendingPhone IN
  /\ phone # None
  /\ ~(Verified(user[u]) /\ user[u].phone = phone)
  /\ ~Taken(u, phone)
  /\ Begin(c, [Idle EXCEPT !.at = "sms", !.u = u, !.columns = {"otp"},
       !.row = [user[u] EXCEPT !.pendingPhone = phone, !.otp = phone,
                               !.attempts = 0]])

(* verifyOtp: what a wrong code, a code for a number taken meanwhile and   *)
(* the right code make of the row.                                         *)
Discarded(row) == [row EXCEPT !.pendingPhone = None, !.otp = None]

Promoted(row) ==
  [row EXCEPT !.phone = row.pendingPhone, !.phoneVerifiedAt = row.otp,
              !.pendingPhone = None, !.otp = None, !.attempts = 0]

VerifyOtp(c, u, right) ==
  LET row == user[u] IN
  /\ row.pendingPhone # None
  /\ row.otp # None
  /\ row.attempts < PHONE_OTP_MAX_ATTEMPTS
  /\ Begin(c, [Idle EXCEPT !.at = "saveUser", !.u = u,
       !.columns = IF right THEN {"phoneVerifiedAt"} ELSE {},
       !.row = IF ~right THEN [row EXCEPT !.attempts = @ + 1]
               ELSE IF Taken(u, row.pendingPhone) THEN Discarded(row)
               ELSE Promoted(row)])

(* getOwnProfile: whether the client is told the name may be edited.       *)
CanEditName(u) == kyc[u].status \notin {"PENDING", "APPROVED"}

(* updateOwnProfile: a new number waits in pendingPhone, and an            *)
(* outstanding code, which went to another number, is discarded.           *)
(* Mutant of WithPending: the outstanding code is kept.                    *)
WithPendingOnly(row, phone) == [row EXCEPT !.pendingPhone = phone]

WithPending(row, phone) ==
  [row EXCEPT !.pendingPhone = phone, !.otp = None, !.attempts = 0]

(* Mutant of NameIsFree: the name is free again once it was approved.      *)
NameIsFreeUnlessPending(u) == kyc[u].status # "PENDING"

NameIsFree(u) == kyc[u].status \notin {"PENDING", "APPROVED"}

UpdateOwnProfile(c, u, name, phone) ==
  LET row == [user[u] EXCEPT !.fullName = name]
      asks == phone \notin {None, user[u].pendingPhone}
      own == Verified(user[u]) /\ user[u].phone = phone
  IN
  /\ name # user[u].fullName => NameIsFree(u)
  /\ asks /\ ~own => ~Taken(u, phone)
  /\ Begin(c, [Idle EXCEPT !.at = "saveUser", !.u = u,
       !.row = IF asks THEN WithPending(row, IF own THEN None ELSE phone)
               ELSE row])

(* The SELECT of save(user).  A code or a time that was replaced since     *)
(* differs even where it stands for the same number.                       *)
Replaced(c) ==
  {k \in {"phoneVerifiedAt", "otp"} :
     "users" \in call[c].outdated /\ call[c].row[k] # None}

SelectUser(c) ==
  LET differ == {k \in UserColumn : call[c].row[k] # user[call[c].u][k]} IN
  /\ call[c].at \in {"sms", "saveUser"}
  /\ \E replaced \in SUBSET Replaced(c) :
       call' = [call EXCEPT ![c].at = "updateUser",
                            ![c].columns = @ \cup differ \cup replaced]
  /\ UNCHANGED <<rows, torn>>

(* What its UPDATE makes of the row, which may have changed meanwhile.     *)
MixedUser(c) ==
  LET row == user[call[c].u]
      Value(k) == IF k \in call[c].columns THEN call[c].row[k] ELSE row[k]
  IN [row EXCEPT !.phone = Value("phone"),
                 !.phoneVerifiedAt = Value("phoneVerifiedAt"),
                 !.pendingPhone = Value("pendingPhone"), !.otp = Value("otp"),
                 !.attempts = Value("attempts"),
                 !.fullName = Value("fullName"),
                 !.ratingCount = Value("ratingCount")]

Number(row) ==
  <<row.phone, row.phoneVerifiedAt, row.pendingPhone, row.otp>>

(* The index on verified numbers rejects one that another account holds.   *)
UpdateUser(c) ==
  LET u == call[c].u
      row == MixedUser(c)
  IN
  /\ call[c].at = "updateUser"
  /\ row.phone # None => ~Taken(u, row.phone)
  /\ user' = [user EXCEPT ![u] = row]
  /\ torn' = IF Number(row) \in {Number(call[c].row), Number(user[u])}
             THEN torn ELSE torn \cup {u}
  /\ Write(c, {"users"}, Idle)
  /\ UNCHANGED <<kyc, hasBank, file, ratings>>

-----------------------------------------------------------------------------
(* submitKyc: gates on the earlier verdict, the verified phone and the     *)
(* name, then decides where the papers come from: uploaded now, or kept    *)
(* from an earlier submission of the same type of document.                *)
SubmitKyc(c, u, type, uploads) ==
  LET existing == kyc[u]
      retained == IF existing.type = type THEN existing.papers ELSE None
  IN
  /\ existing.status \notin {"PENDING", "APPROVED"}
  /\ Verified(user[u])
  /\ user[u].fullName # None
  /\ uploads \/ retained # None
  /\ Begin(c, [Idle EXCEPT !.at = IF uploads THEN "store" ELSE "saveKyc",
       !.u = u, !.ref = existing.papers,
       !.form = [status |-> "PENDING", fullName |-> user[u].fullName,
                 type |-> type,
                 papers |-> IF uploads THEN None ELSE retained]])

(* The new papers are stored before anything is deleted; when the storage  *)
(* fails, what was written is removed again and the record stays.          *)
(* Mutant of Store: the papers they replace are deleted first.             *)
StoreAndReplace(c, f) ==
  file' = [g \in FileId |-> IF g = f THEN "stored"
                            ELSE IF g = call[c].ref THEN "deleted" ELSE file[g]]

Store(c, f) == file' = [file EXCEPT ![f] = "stored"]

StorePapers(c) ==
  /\ call[c].at = "store"
  /\ \E f \in FileId :
       /\ file[f] = "free"
       /\ Store(c, f)
       /\ call' = [call EXCEPT ![c].at = "saveKyc", ![c].form.papers = f]
  /\ UNCHANGED <<user, kyc, hasBank, ratings, torn>>

(* A first submission inserts: one row per account.                        *)
InsertKyc(c) ==
  LET u == call[c].u IN
  /\ call[c].at = "saveKyc" /\ call[c].ref = None
  /\ kyc[u].status = "NONE"
  /\ kyc' = [kyc EXCEPT ![u] = call[c].form]
  /\ Write(c, {"kyc"}, [call[c] EXCEPT !.at = "cleanup"])
  /\ UNCHANGED <<user, hasBank, file, ratings, torn>>

(* A later one, and a verdict, save the row they have read ...             *)
SelectKyc(c) ==
  LET differ == {k \in KycColumn : call[c].form[k] # kyc[call[c].u][k]} IN
  /\ \/ call[c].at = "saveKyc" /\ call[c].ref # None
     \/ call[c].at = "verdict"
  /\ call' = [call EXCEPT ![c].columns = differ,
       ![c].at = IF @ = "saveKyc" THEN "updateKyc" ELSE "updateVerdict"]
  /\ UNCHANGED <<rows, torn>>

MixedKyc(c) ==
  LET row == kyc[call[c].u]
      Value(k) == IF k \in call[c].columns THEN call[c].form[k] ELSE row[k]
  IN [row EXCEPT !.status = Value("status"), !.fullName = Value("fullName"),
                 !.type = Value("type"), !.papers = Value("papers")]

(* ... in the columns that differed.                                       *)
UpdateKyc(c) ==
  /\ call[c].at \in {"updateKyc", "updateVerdict"}
  /\ kyc' = [kyc EXCEPT ![call[c].u] = MixedKyc(c)]
  /\ Write(c, {"kyc"}, IF call[c].at = "updateKyc"
                       THEN [call[c] EXCEPT !.at = "cleanup"] ELSE Idle)
  /\ UNCHANGED <<user, hasBank, file, ratings, torn>>

(* Papers the record no longer points at are deleted, if that works.       *)
DeleteSuperseded(c) ==
  LET old == call[c].ref IN
  /\ call[c].at = "cleanup"
  /\ file' \in {file, IF old \in FileId \ {call[c].form.papers}
                      THEN [file EXCEPT ![old] = "deleted"]
                      ELSE file}
  /\ Goto(c, "bank")
  /\ UNCHANGED <<user, kyc, hasBank, ratings, torn>>

AddOrUpdateBankDetails(c, u) ==
  /\ kyc[u].status # "NONE"
  /\ Begin(c, [Idle EXCEPT !.at = "bank", !.u = u])

(* Two first upserts at once meet the unique userId: one row remains.      *)
UpsertBankDetails(c) ==
  /\ call[c].at = "bank"
  /\ hasBank' = hasBank \cup {call[c].u}
  /\ Done(c)
  /\ UNCHANGED <<user, kyc, file, ratings, torn>>

(* reviewKyc: asks for a verified phone before it approves, but never what *)
(* the status is.  It reads the submission when the verdict arrives, which *)
(* need not be the one the reviewer has looked at.                         *)
ReviewKyc(c, u, verdict) ==
  /\ kyc[u].status # "NONE"
  /\ verdict = "APPROVED" => Verified(user[u])
  /\ Begin(c, [Idle EXCEPT !.at = "verdict", !.u = u,
                           !.form = [kyc[u] EXCEPT !.status = verdict]])

(* isVerified and getSellEligibility.                                      *)
IsVerified(u) == kyc[u].status = "APPROVED"
CanSell(u) == IsVerified(u) /\ u \in hasBank

-----------------------------------------------------------------------------
(* rateSeller: the rating is inserted (the unique paymentId lets one       *)
(* transaction per sale go on) and the aggregate computed from the rows    *)
(* this transaction sees; the two columns are written when it commits.     *)
(* Mutant of Recomputed: counts on from the aggregate on record.           *)
CountedOn(u, p) == user[u].ratingCount + 1

Recomputed(u, p) == Cardinality(ratings[u] \cup {p})

RateSeller(c, p) ==
  LET u == SellerOf[p] IN
  /\ p \notin ratings[u]
  /\ \A d \in Calls : call[d].ref # p
  /\ Begin(c, [Idle EXCEPT !.at = "aggregate", !.u = u, !.ref = p,
                           !.row.ratingCount = Recomputed(u, p)])

CommitRating(c) ==
  LET u == call[c].u IN
  /\ call[c].at = "aggregate"
  /\ ratings' = [ratings EXCEPT ![u] = @ \cup {call[c].ref}]
  /\ user' = [user EXCEPT ![u].ratingCount = call[c].row.ratingCount]
  /\ Write(c, {"users", "ratings"}, Idle)
  /\ UNCHANGED <<kyc, hasBank, file, torn>>

(* What the public profile shows: one bar per rating, whatever its stars.  *)
RatingBreakdown(u) == Cardinality(ratings[u])

-----------------------------------------------------------------------------
(* The calls that save the users row, with the given numbers and names.    *)
PhoneNext(numbers, names) ==
  \E c \in Calls :
    \/ \E u \in Users :
         \/ \E phone \in numbers \cup {None} : SendOtp(c, u, phone)
         \/ \E right \in BOOLEAN : VerifyOtp(c, u, right)
         \/ \E name \in names \cup {user[u].fullName},
              phone \in numbers \cup {None} :
              UpdateOwnProfile(c, u, name, phone)
    \/ SelectUser(c)
    \/ UpdateUser(c)

KycNext ==
  \E c \in Calls :
    \/ \E u \in Users :
         \/ \E type \in DocumentType, uploads \in BOOLEAN :
              SubmitKyc(c, u, type, uploads)
         \/ AddOrUpdateBankDetails(c, u)
         \/ \E verdict \in {"APPROVED", "REJECTED"} : ReviewKyc(c, u, verdict)
    \/ StorePapers(c)
    \/ InsertKyc(c)
    \/ SelectKyc(c)
    \/ UpdateKyc(c)
    \/ DeleteSuperseded(c)
    \/ UpsertBankDetails(c)

RatingNext ==
  \E c \in Calls : \/ \E p \in Sales : RateSeller(c, p)
                   \/ CommitRating(c)

FailureNext == \E c \in Calls : RequestFails(c)

Next == PhoneNext(Phones, Names) \/ KycNext \/ RatingNext \/ FailureNext

Spec == Init /\ [][Next]_vars

-----------------------------------------------------------------------------
(* updateOwnProfile: "any outstanding code is discarded: that code went to *)
(* a different number, and letting it confirm this one would verify a      *)
(* number nobody proved".  A verified number is one whose texted code the  *)
(* account has entered, ...                                                *)
NumberIsProved ==
  \A u \in Users :
    Verified(user[u]) => user[u].phone = user[u].phoneVerifiedAt

(* ... however codes for several numbers, profile edits and stale saves of *)
(* the row overlap, unless an UPDATE has once mixed the number columns of  *)
(* its copy with those another save had just written.                      *)
NumberWasProved ==
  \A u \in Users \ torn :
    Verified(user[u]) => user[u].phone = user[u].phoneVerifiedAt

(* The step is the save of a call about u that read a row which another    *)
(* call has written since.                                                 *)
StaleStep(u) ==
  \E c \in Calls : /\ call[c].u = u
                   /\ call[c].outdated # {}
                   /\ call'[c] # call[c]

(* "A verified number is never overwritten", "approval locks the name":    *)
(* both hold of calls that do not overlap, in any order, and an approved   *)
(* submission is not replaced by its owner.  Only the save of a stale copy *)
(* takes a verification back or changes a name that was submitted.         *)
OnlyOverlapUndoes ==
  [][\A u \in Users :
       \/ StaleStep(u)
       \/ /\ Verified(user[u]) => Verified(user'[u])
          /\ user'[u].fullName # user[u].fullName => CanEditName(u)
          /\ IsVerified(u) => kyc'[u].status # "PENDING"]_vars

OnFile(form) == form.papers \in FileId /\ file[form.papers] = "stored"

(* submitKyc writes the new papers before it deletes the ones replaced, so *)
(* that no failure leaves "a record pointing at files that no longer       *)
(* existed": wherever a submission stops, the papers on record are there.  *)
(* Only the save, or the clean-up, of a call that another has overtaken    *)
(* takes them away.                                                        *)
PapersStayOnFile ==
  [][\A u \in Users :
       \/ StaleStep(u)
       \/ OnFile(kyc[u]) => OnFile(kyc[u])']_vars

(* The count on the profile is that of the ratings below it; only an       *)
(* overlap can part them, and the next rating on its own repairs that.     *)
RatingsAddUp ==
  [][\A u \in Users :
       \/ StaleStep(u)
       \/ user'[u].ratingCount = Cardinality(ratings'[u])
       \/ /\ user[u].ratingCount # RatingBreakdown(u)
          /\ ratings'[u] = ratings[u]]_vars
=============================================================================
