------------------------------- MODULE Sessions -------------------------------
(***************************************************************************)
(* How an account is entered and left: registration, the links sent by     *)
(* mail (verify the address, reset the password, change the address),      *)
(* password and social login, the rotating refresh token, suspension and   *)
(* deletion (AuthService, UsersService and their repositories).            *)
(*                                                                         *)
(* Some of these write the users row column by column, others save the     *)
(* whole copy they read, and so do the calls of other services.  A call is *)
(* a step that reads and decides, and steps that write; the awaits between *)
(* them (bcrypt, a text message) let others in.  Wrong passwords and       *)
(* unknown tokens only refuse, and the limits per address of the caller    *)
(* are the framework's: both are left out.                                 *)
(***************************************************************************)
EXTENDS Naturals, FiniteSets

CONSTANTS Users, Email, Password,
          Token,      \* refresh tokens ever issued
          Link,       \* links ever mailed
          Calls,      \* requests in progress at a time
          ResetsPerHour,
          None        \* null

ASSUME SessionsAssumption ==
  /\ None \notin Users \cup Email \cup Password \cup Token \cup Link
  /\ None \notin {"verify", "reset", "change", "issue", "drop"}
  /\ None \notin (Password \cup {None}) \X Email
  /\ Token \cap Link = {}
  /\ ResetsPerHour \in Nat \ {0}

VARIABLES
  user,      \* users
  link,      \* the rows of the three tables of links, deleted ones included
  call,
  admitted,  \* accounts given an access token
  opened,    \* history: the credentials each refresh token was issued for
  mailed,    \* history: where each link was sent
  proved,    \* history: addresses whose links, or provider, spoke for u
  spent      \* history: refresh tokens and links accepted

vars == <<user, link, call, admitted, opened, mailed, proved, spent>>

User == [state: {"none", "live", "deleted"}, email: Email \cup {None},
         isEmailVerified: BOOLEAN, isActive: BOOLEAN,
         password: Password \cup {None}, social: BOOLEAN,
         hashedRefreshToken: Token \cup {None}]

NoUser == [state |-> "none", email |-> None, isEmailVerified |-> FALSE,
           isActive |-> TRUE, password |-> None, social |-> FALSE,
           hashedRefreshToken |-> None]

(* "withdrawn" is soft-deleted, as reset links are, to be counted still;   *)
(* fresh is FALSE once the hour (a verification: the day) has passed.      *)
LinkRow == [kind: {"verify", "reset", "change"}, u: Users,
            newEmail: Email \cup {None}, fresh: BOOLEAN,
            state: {"live", "withdrawn", "gone"}]

ASSUME NoneIsNoLink == None \notin LinkRow

(* A request: the row it read, with its own changes, the token or link it  *)
(* presented (`ref`), what it goes on to (`then`), and whether others have *)
(* written the row since.                                                  *)
Idle == [at |-> "idle", u |-> None, row |-> NoUser, ref |-> None,
         then |-> None, outdated |-> FALSE]

TypeOK ==
  /\ user \in [Users -> User]
  /\ link \in [Link -> LinkRow \cup {None}]
  /\ \A c \in Calls : /\ call[c].u \in Users \cup {None}
                      /\ call[c].row \in User
                      /\ call[c].ref \in Token \cup Link \cup {None}
                      /\ call[c].outdated \in BOOLEAN
  /\ admitted \subseteq Users
  /\ opened \in [Token -> ((Password \cup {None}) \X Email) \cup {None}]
  /\ mailed \in [Link -> Email \cup {None}]
  /\ proved \in [Users -> SUBSET Email]
  /\ spent \subseteq Token \cup Link

Init ==
  /\ user = [u \in Users |-> NoUser]
  /\ link = [l \in Link |-> None]
  /\ call = [c \in Calls |-> Idle]
  /\ admitted = {}
  /\ opened = [t \in Token |-> None]
  /\ mailed = [l \in Link |-> None]
  /\ proved = [u \in Users |-> {}]
  /\ spent = {}

-----------------------------------------------------------------------------
Begin(c, u, at, row, ref, then) ==
  /\ call[c].at = "idle"
  /\ call' = [call EXCEPT ![c] = [at |-> at, u |-> u, row |-> row,
                ref |-> ref, then |-> then, outdated |-> FALSE]]

(* The row of u is written: what other calls read of it is outdated.       *)
WriteUser(c, row, next) ==
  LET u == call[c].u IN
  /\ user' = [user EXCEPT ![u] = row]
  /\ call' = [d \in Calls |->
       IF d = c THEN next
       ELSE [call[d] EXCEPT !.outdated = @ \/ call[d].u = u]]

Goto(c, at) ==
  IF at = None THEN Idle
  ELSE [Idle EXCEPT !.at = at, !.u = call[c].u, !.ref = call[c].ref,
                    !.row.email = call[c].row.email,
                    !.row.password = call[c].row.password]
Done(c) == call' = [call EXCEPT ![c] = Idle]

(* What a call keeps of the row if it does not save it.                    *)
Addressed(e) == [NoUser EXCEPT !.email = e]
Credentials(u) == [Addressed(user[u].email) EXCEPT !.password = user[u].password]

Live(u) == user[u].state = "live"
Entered(u) == Live(u) /\ u \in admitted

(* findByEmail, findByEmailIncludingDeleted, and the unique index, which   *)
(* counts deleted accounts too.                                            *)
HasEmail(e) == {u \in Users : Live(u) /\ user[u].email = e}
HadEmail(e) == {u \in Users : user[u].email = e}
Unique(u, e) == HadEmail(e) \subseteq {u}

Rows(kind, u, states) ==
  {l \in Link : /\ link[l] # None
                /\ link[l].kind = kind /\ link[l].u = u
                /\ link[l].state \in states}

Recent(rows) == {l \in rows : link[l].fresh}

Dead(l) == [link EXCEPT ![l].state = "gone"]

(* The next of the random tokens or links, all being alike.                *)
Unused(f) ==
  LET left == {x \in DOMAIN f : f[x] = None} IN
  IF left = {} THEN {} ELSE {CHOOSE x \in left : TRUE}

-----------------------------------------------------------------------------
(* register and createAdmin hash the password between the check of the     *)
(* address and the insert; only the first mails a link.                    *)
Register(c, u, e, p, staff) ==
  /\ user[u].state = "none"
  /\ (IF staff THEN HasEmail(e) ELSE HadEmail(e)) = {}
  /\ Begin(c, u, "create",
           [NoUser EXCEPT !.state = "live", !.email = e, !.password = p],
           None, IF staff THEN None ELSE "verify")
  /\ UNCHANGED <<user, link, admitted, opened, mailed, proved, spent>>

(* findOrCreateSocialUser: by the provider's id, by its email (the account *)
(* is linked and its address taken as verified), or a new account.  login  *)
(* goes on with that row; nothing here asks whether it is active.          *)
SocialLogin(c, u, e) ==
  LET row == user[u] IN
  /\ \/ /\ Live(u) /\ row.social /\ row.isEmailVerified
        /\ Begin(c, u, "issue", Credentials(u), None, None)
     \/ /\ Live(u) /\ ~row.social /\ row.email = e
        /\ Begin(c, u, "save",
                 [row EXCEPT !.social = TRUE, !.isEmailVerified = TRUE],
                 None, "issue")
     \/ /\ row.state = "none" /\ HasEmail(e) = {}
        /\ Begin(c, u, "create",
                 [NoUser EXCEPT !.state = "live", !.email = e,
                                !.social = TRUE, !.isEmailVerified = TRUE],
                 None, "issue")
  /\ proved' = IF row.social THEN proved ELSE [proved EXCEPT ![u] = @ \cup {e}]
  /\ UNCHANGED <<user, link, admitted, opened, mailed, spent>>

Create(c) ==
  LET u == call[c].u IN
  /\ call[c].at = "create"
  /\ IF user[u].state = "none" /\ HadEmail(call[c].row.email) = {}
     THEN WriteUser(c, call[c].row,
                    IF call[c].then = "verify"
                    THEN [call[c] EXCEPT !.at = "withdraw",
                                         !.row = Addressed(@.email)]
                    ELSE Goto(c, call[c].then))
     ELSE Done(c) /\ UNCHANGED user
  /\ UNCHANGED <<link, admitted, opened, mailed, proved, spent>>

(* updateUser and the other saves of a whole copy.                         *)
SaveUser(c) ==
  /\ call[c].at = "save"
  /\ IF Unique(call[c].u, call[c].row.email)
     THEN WriteUser(c, call[c].row, Goto(c, call[c].then))
     ELSE Done(c) /\ UNCHANGED user
  /\ UNCHANGED <<link, admitted, opened, mailed, proved, spent>>

-----------------------------------------------------------------------------
(* A link is asked for: resendVerification, requestPasswordReset (refused  *)
(* silently over the limit, which counts withdrawn links too) and          *)
(* requestEmailChange.                                                     *)
ResendVerification(c, u) ==
  /\ Live(u) /\ ~user[u].isEmailVerified
  /\ Begin(c, u, "withdraw", Addressed(user[u].email), None, "verify")
  /\ UNCHANGED <<user, link, admitted, opened, mailed, proved, spent>>

RequestPasswordReset(c, u) ==
  /\ Live(u) /\ user[u].isActive
  /\ Cardinality(Recent(Rows("reset", u, {"live", "withdrawn"})))
       < ResetsPerHour
  /\ Begin(c, u, "withdraw", Addressed(user[u].email), None, "reset")
  /\ UNCHANGED <<user, link, admitted, opened, mailed, proved, spent>>

RequestEmailChange(c, u, e) ==
  /\ Entered(u) /\ user[u].password # None
  /\ e # user[u].email /\ HasEmail(e) = {}
  /\ Begin(c, u, "withdraw", Addressed(e), None, "change")
  /\ UNCHANGED <<user, link, admitted, opened, mailed, proved, spent>>

(* Earlier links: those for a reset are soft-deleted, others deleted.      *)
Withdrawn(kind) == IF kind = "reset" THEN "withdrawn" ELSE "gone"

WithdrawLinks(c) ==
  LET kind == call[c].then IN
  /\ call[c].at = "withdraw"
  /\ link' = [l \in Link |->
       IF l \in Rows(kind, call[c].u, {"live"})
       THEN [link[l] EXCEPT !.state = Withdrawn(kind)] ELSE link[l]]
  /\ call' = [call EXCEPT ![c].at = "mail"]
  /\ UNCHANGED <<user, admitted, opened, mailed, proved, spent>>

(* Where the link is sent.  Mutant of Recipient: to the address on record. *)
RecipientOnRecord(kind, u, row) == user[u].email

Recipient(kind, u, row) == row.email

(* The row is stored before the mail is sent; one pending change per       *)
(* account, the index refuses a second row.                                *)
MailLink(c) ==
  LET kind == call[c].then u == call[c].u row == call[c].row IN
  /\ call[c].at = "mail"
  /\ IF kind = "change" /\ Rows(kind, u, {"live"}) # {}
     THEN UNCHANGED <<link, mailed>>
     ELSE \E l \in Unused(link) :
            /\ link' = [link EXCEPT ![l] =
                 [kind |-> kind, u |-> u, state |-> "live", fresh |-> TRUE,
                  newEmail |-> IF kind = "change" THEN row.email ELSE None]]
            /\ mailed' = [mailed EXCEPT ![l] = Recipient(kind, u, row)]
  /\ Done(c)
  /\ UNCHANGED <<user, admitted, opened, proved, spent>>

(* Links age; an old reset or change is deleted when it is opened and by   *)
(* the nightly jobs.                                                       *)
Expire(l) ==
  /\ link[l] # None
  /\ link[l].fresh /\ l \notin spent
  /\ link[l].state # "gone" \/ link[l].kind = "reset"
  /\ link' = [link EXCEPT ![l].fresh = FALSE]
  /\ UNCHANGED <<user, call, admitted, opened, mailed, proved, spent>>

CleanUp(l) ==
  /\ link[l] # None
  /\ ~link[l].fresh /\ link[l].state # "gone" /\ link[l].kind # "verify"
  /\ link' = Dead(l)
  /\ UNCHANGED <<user, call, admitted, opened, mailed, proved, spent>>

-----------------------------------------------------------------------------
(* A link is opened.  Whoever opens it reads the mail sent there.          *)
Opens(l, kind) ==
  /\ link[l] # None
  /\ link[l].kind = kind /\ link[l].state = "live" /\ link[l].fresh
  /\ Live(link[l].u)
  /\ proved' = [proved EXCEPT ![link[l].u] = @ \cup {mailed[l]}]

(* verifyEmail saves the row it reads, then deletes the link.              *)
VerifyEmail(c, l) ==
  LET u == link[l].u IN
  /\ Opens(l, "verify")
  /\ Begin(c, u, "save", [user[u] EXCEPT !.isEmailVerified = TRUE], l, "drop")
  /\ UNCHANGED <<user, link, admitted, opened, mailed, spent>>

DropLink(c) ==
  /\ call[c].at = "drop"
  /\ link' = Dead(call[c].ref)
  /\ Done(c)
  /\ UNCHANGED <<user, admitted, opened, mailed, proved, spent>>

(* resetPassword: one transaction updates the columns and deletes the link *)
(* read before the new password was hashed.                                *)
ResetPassword(c, l, p) ==
  LET u == link[l].u IN
  /\ Opens(l, "reset")
  /\ user[u].isActive
  /\ Begin(c, u, "reset",
           [NoUser EXCEPT !.password = p,
                          !.isEmailVerified = user[u].isEmailVerified],
           l, None)
  /\ UNCHANGED <<user, link, admitted, opened, mailed, spent>>

(* What the transaction leaves of the link.                                *)
Consumed(l) == Dead(l)

CommitReset(c) ==
  LET now == user[call[c].u] read == call[c].row l == call[c].ref IN
  /\ call[c].at = "reset"
  /\ WriteUser(c, [now EXCEPT !.password = read.password,
                              !.hashedRefreshToken = None,
                              !.isEmailVerified = @ \/ ~read.isEmailVerified],
               Idle)
  /\ link' = Consumed(l)
  /\ spent' = spent \cup {l}
  /\ UNCHANGED <<admitted, opened, mailed, proved>>

(* verifyEmailChange: the same for the address; a unique violation rolls   *)
(* all of it back.                                                         *)
VerifyEmailChange(c, l) ==
  LET u == link[l].u IN
  /\ Opens(l, "change")
  /\ user[u].isActive
  /\ Begin(c, u, "swap", Addressed(link[l].newEmail), l, None)
  /\ UNCHANGED <<user, link, admitted, opened, mailed, spent>>

CommitEmailChange(c) ==
  LET u == call[c].u e == call[c].row.email l == call[c].ref IN
  /\ call[c].at = "swap"
  /\ IF Unique(u, e)
     THEN /\ WriteUser(c, [user[u] EXCEPT !.email = e, !.isEmailVerified = TRUE,
                                          !.hashedRefreshToken = None], Idle)
          /\ link' = Consumed(l)
          /\ spent' = spent \cup {l}
     ELSE Done(c) /\ UNCHANGED <<user, link, spent>>
  /\ UNCHANGED <<admitted, opened, mailed, proved>>

(* changePassword, by someone logged in who knows the current one.         *)
ChangePassword(c, u, p) ==
  /\ Entered(u)
  /\ user[u].password \notin {None, p}
  /\ Begin(c, u, "change", [NoUser EXCEPT !.password = p], None, None)
  /\ UNCHANGED <<user, link, admitted, opened, mailed, proved, spent>>

(* Mutant of WithPassword: the sessions go on.                             *)
WithPasswordOnly(row, p) == [row EXCEPT !.password = p]

WithPassword(row, p) ==
  [row EXCEPT !.password = p, !.hashedRefreshToken = None]

CommitPassword(c) ==
  /\ call[c].at = "change"
  /\ WriteUser(c, WithPassword(user[call[c].u], call[c].row.password), Idle)
  /\ UNCHANGED <<link, admitted, opened, mailed, proved, spent>>

-----------------------------------------------------------------------------
(* validateUser and login.                                                 *)
Login(c, u) ==
  /\ Live(u) /\ user[u].isActive
  /\ user[u].password # None /\ user[u].isEmailVerified
  /\ Begin(c, u, "issue", Credentials(u), None, None)
  /\ UNCHANGED <<user, link, admitted, opened, mailed, proved, spent>>

(* refresh: a token that does not match the stored one ends the session.   *)
Refresh(c, u, t) ==
  LET stored == user[u].hashedRefreshToken IN
  /\ Live(u) /\ user[u].isActive
  /\ opened[t] # None /\ stored # None
  /\ IF t = stored THEN Begin(c, u, "issue", Credentials(u), t, None)
     ELSE Begin(c, u, "clear", NoUser, None, None)
  /\ UNCHANGED <<user, link, admitted, opened, mailed, proved, spent>>

(* updateRefreshToken hashes the new token, then updates one column.       *)
IssueTokens(c) ==
  LET u == call[c].u IN
  /\ call[c].at = "issue"
  /\ \E t \in Unused(opened) :
       /\ opened' = [opened EXCEPT ![t] = <<call[c].row.password,
                                            call[c].row.email>>]
       /\ WriteUser(c, [user[u] EXCEPT !.hashedRefreshToken = t], Idle)
  /\ admitted' = admitted \cup {u}
  /\ spent' = spent \cup ({call[c].ref} \ {None})
  /\ UNCHANGED <<link, mailed, proved>>

ClearToken(c) ==
  /\ call[c].at = "clear"
  /\ WriteUser(c, [user[call[c].u] EXCEPT !.hashedRefreshToken = None], Idle)
  /\ UNCHANGED <<link, admitted, opened, mailed, proved, spent>>

Logout(c, u) ==
  /\ u \in admitted
  /\ Begin(c, u, "clear", NoUser, None, None)
  /\ UNCHANGED <<user, link, admitted, opened, mailed, proved, spent>>

(* suspendUser saves the row it read; nothing makes the account active     *)
(* again.  deleteUser sets one column.                                     *)
SuspendUser(c, u) ==
  /\ Live(u)
  /\ Begin(c, u, "save", [user[u] EXCEPT !.isActive = FALSE,
                                         !.hashedRefreshToken = None],
           None, None)
  /\ UNCHANGED <<user, link, admitted, opened, mailed, proved, spent>>

DeleteUser(c, u) ==
  /\ Live(u)
  /\ Begin(c, u, "remove", NoUser, None, None)
  /\ UNCHANGED <<user, link, admitted, opened, mailed, proved, spent>>

SoftRemove(c) ==
  /\ call[c].at = "remove"
  /\ WriteUser(c, [user[call[c].u] EXCEPT !.state = "deleted"], Idle)
  /\ UNCHANGED <<link, admitted, opened, mailed, proved, spent>>

(* Any other call that saves the row: sendOtp and the rest of module       *)
(* Account, assignRole.                                                    *)
OtherSave(c, u) ==
  /\ Live(u)
  /\ Begin(c, u, "save", user[u], None, None)
  /\ UNCHANGED <<user, link, admitted, opened, mailed, proved, spent>>

Crash ==
  /\ \E c \in Calls : call[c] # Idle
  /\ call' = [c \in Calls |-> Idle]
  /\ UNCHANGED <<user, link, admitted, opened, mailed, proved, spent>>

-----------------------------------------------------------------------------
EntryNext ==
  \E c \in Calls :
    \/ \E u \in Users, e \in Email :
         \/ \E p \in Password, staff \in BOOLEAN : Register(c, u, e, p, staff)
         \/ SocialLogin(c, u, e)
    \/ \E u \in Users : OtherSave(c, u)
    \/ Create(c) \/ SaveUser(c) \/ IssueTokens(c)

ChangeNext ==
  \E c \in Calls :
    \/ \E u \in Users, e \in Email : RequestEmailChange(c, u, e)
    \/ \E l \in Link : VerifyEmailChange(c, l)
    \/ WithdrawLinks(c) \/ MailLink(c) \/ CommitEmailChange(c)

LinkNext ==
  \/ \E c \in Calls, u \in Users :
       ResendVerification(c, u) \/ RequestPasswordReset(c, u)
  \/ \E c \in Calls, l \in Link :
       \/ VerifyEmail(c, l)
       \/ \E p \in Password : ResetPassword(c, l, p)
  \/ \E c \in Calls : DropLink(c) \/ CommitReset(c)
  \/ \E l \in Link : Expire(l) \/ CleanUp(l)

SessionNext ==
  \E c \in Calls :
    \/ \E u \in Users :
         \/ Login(c, u) \/ Logout(c, u) \/ SuspendUser(c, u) \/ DeleteUser(c, u)
         \/ \E p \in Password : ChangePassword(c, u, p)
         \/ \E t \in Token : Refresh(c, u, t)
    \/ CommitPassword(c) \/ ClearToken(c) \/ SoftRemove(c)

Next == EntryNext \/ ChangeNext \/ LinkNext \/ SessionNext \/ Crash

Spec == Init /\ [][Next]_vars

-----------------------------------------------------------------------------
(* An address counts as verified only if someone acting for the account    *)
(* opened a link mailed to it, or came from a provider that vouches for    *)
(* it: however changes of address, resets and saves of old copies overlap. *)
EmailWasProved ==
  \A u \in Users : user[u].isEmailVerified => user[u].email \in proved[u]

(* A call whose copy of the row another call has written since goes on.    *)
StaleStep(u) ==
  \E c \in Calls : call[c].u = u /\ call[c].outdated /\ call'[c] # call[c]

(* The session on record was opened with the password and the address the  *)
(* account has now, and its token has not been exchanged for a newer one.  *)
SessionIsCurrent(row) ==
  LET t == row.hashedRefreshToken IN
  t # None => opened[t] = <<row.password, row.email>> /\ t \notin spent

(* "Invalidates all sessions": no session outlives the credentials it was  *)
(* opened with or the rotation of its token, a suspension is not lifted    *)
(* and a removal not undone, short of a call that overlaps the change and  *)
(* saves or answers what it read.                                          *)
SessionsEnd ==
  [][\A u \in Users :
       \/ StaleStep(u)
       \/ /\ SessionIsCurrent(user[u]) => SessionIsCurrent(user[u])'
          /\ user[u].isActive \/ ~user'[u].isActive
          /\ user[u].state = "deleted" => user'[u].state = "deleted"]_vars

(* A link that resets a password or changes an address does so once: only  *)
(* a call that read it before its first use was committed can use it again.*)
SingleUse ==
  [][\A c \in Calls :
       /\ call[c].at \in {"reset", "swap"}
       /\ call[c].ref \in spent
       /\ user'[call[c].u] # user[call[c].u]
       /\ call'[c] # call[c]
       => call[c].outdated]_vars

=============================================================================
