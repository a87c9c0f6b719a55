----------------------------- MODULE GatewayClient -----------------------------
(***************************************************************************)
(* The HTTP clients of Pathao (parcels) and Fonepay (QR payments): many    *)
(* calls in progress share one access token, renewed by one login at a     *)
(* time, and a call answered 401 renews it and is sent once more           *)
(* (PathaoAuthService, PathaoClientService, FonepayAuthService,            *)
(* FonepayClientService).                                                  *)
(*                                                                         *)
(* Fonepay has no refresh token: its login is the password grant alone.    *)
(* The provider is outside the program: it may revoke a token at any time, *)
(* answer slowly, fail, or do the work and lose the answer.  It gives each *)
(* login a new token.                                                      *)
(***************************************************************************)
EXTENDS Naturals, FiniteSets

CONSTANTS Calls,      \* requests in progress at a time
          MaxToken,   \* bounds the logins the provider grants
          None

ASSUME GatewayAssumption == MaxToken \in Nat \ {0} /\ None \notin Calls

VARIABLES
  cached,     \* cachedAccessToken (cachedToken): 0 is null
  fresh,      \* its expiry lies ahead
  renewable,  \* cachedRefreshToken is set
  login,      \* the login each call has begun, if any
  request,
  listed,     \* citiesCache, zonesCache, areasCache: filled and in date
  issued,     \* of the provider: the last token granted
  revoked,    \* tokens it refuses
  done        \* history: how often it did the work of each call

clientVars == <<cached, fresh, renewable, login, request, listed, issued,
                revoked, done>>

Tokens == 0..MaxToken

(* grant: what the login sends; token: granted but not yet received.       *)
NoLogin == [grant |-> "none", token |-> 0]

(* A "list" is cached when answered, nothing else is.                      *)
(* `waits` names the call whose login this one awaits; `refused` is the    *)
(* token answered 401, 0 before a retry.                                   *)
NoRequest == [at |-> "idle", kind |-> "plain", token |-> 0, refused |-> 0,
              waits |-> None]

Grants == [grant: {"none", "refresh_token", "password"}, token: Tokens]

Request == [at: {"idle", "start", "login", "refresh", "sent", "worked"},
            kind: {"plain", "list"}, token: Tokens, refused: Tokens,
            waits: Calls \cup {None}]

ClientTypeOK ==
  /\ cached \in Tokens /\ issued \in Tokens /\ revoked \subseteq Tokens
  /\ fresh \in BOOLEAN /\ renewable \in BOOLEAN /\ listed \in BOOLEAN
  /\ login \in [Calls -> Grants]
  /\ request \in [Calls -> Request]
  /\ done \in [Calls -> 0..2]

ClientInit ==
  /\ cached = 0 /\ fresh = FALSE /\ renewable = FALSE
  /\ login = [c \in Calls |-> NoLogin]
  /\ request = [c \in Calls |-> NoRequest]
  /\ listed = FALSE
  /\ issued = 0 /\ revoked = {}
  /\ done = [c \in Calls |-> 0]

-----------------------------------------------------------------------------
BeginCall(c, kind) ==
  /\ request[c].at = "idle"
  /\ request' = [request EXCEPT ![c] =
                   [NoRequest EXCEPT !.at = "start", !.kind = kind]]
  /\ done' = [done EXCEPT ![c] = 0]
  /\ UNCHANGED <<cached, fresh, renewable, login, listed, issued, revoked>>

(* What parcels and payments ask of the providers.                         *)
CreateParcel(c) == BeginCall(c, "plain")
GenerateIntentQr(c) == BeginCall(c, "plain")
GetOrderInfo(c) == BeginCall(c, "plain")
GetPaymentStatus(c) == BeginCall(c, "plain")
GetBankList(c) == BeginCall(c, "plain")

(* getCities, getZones and getAreas, when isFresh says no.                 *)
GetLocations(c) == ~listed /\ BeginCall(c, "list")

(* login(): joins the one in progress, or begins one.                      *)
Flight(c) ==
  IF \E d \in Calls : login[d] # NoLogin
  THEN CHOOSE d \in Calls : login[d] # NoLogin
  ELSE c

Login(c, next) ==
  LET d == Flight(c) IN
  /\ request' = [request EXCEPT ![c] = [next EXCEPT !.waits = d]]
  /\ login' = IF d # c \/ login[c] # NoLogin THEN login
              ELSE [login EXCEPT ![c].grant =
                      IF renewable THEN "refresh_token" ELSE "password"]

(* request() asks getAuthHeader for the token.                             *)
GetAuthHeader(c) ==
  /\ request[c].at = "start"
  /\ IF cached # 0 /\ fresh
     THEN /\ request' = [request EXCEPT ![c].at = "sent", ![c].token = cached]
          /\ UNCHANGED login
     ELSE Login(c, [request[c] EXCEPT !.at = "login"])
  /\ UNCHANGED <<cached, fresh, renewable, listed, issued, revoked, done>>

(* The provider grants a token, and the answer to the login arrives: the   *)
(* calls that awaited it go on, after forceRefresh by asking for the token *)
(* again.                                                                  *)
Grant(c) ==
  /\ login[c] # NoLogin /\ login[c].token = 0 /\ issued < MaxToken
  /\ issued' = issued + 1
  /\ login' = [login EXCEPT ![c].token = issued']
  /\ UNCHANGED <<cached, fresh, renewable, request, listed, revoked, done>>

IssueToken(c) ==
  /\ login[c].token # 0
  /\ cached' = login[c].token
  /\ fresh' = TRUE
  /\ renewable' \in BOOLEAN
  /\ login' = [login EXCEPT ![c] = NoLogin]
  /\ request' = [d \in Calls |->
       IF request[d].waits # c THEN request[d]
       ELSE IF request[d].at = "refresh"
       THEN [request[d] EXCEPT !.at = "start", !.waits = None]
       ELSE [request[d] EXCEPT !.at = "sent", !.waits = None,
                               !.token = login[c].token]]
  /\ UNCHANGED <<listed, issued, revoked, done>>

(* Mutant of Awaits: only the call that began the login hears of it.       *)
BeganIt(d, c) == d = c /\ request[d].waits = c

Awaits(d, c) == request[d].waits = c

(* A refresh_token grant that fails falls back to the password; a password *)
(* grant that fails fails every call that awaits it.                       *)
LoginFails(c) ==
  /\ login[c] # NoLogin
  /\ IF login[c].grant = "refresh_token"
     THEN /\ login' = [login EXCEPT ![c] = [grant |-> "password", token |-> 0]]
          /\ renewable' = FALSE
          /\ UNCHANGED request
     ELSE /\ login' = [login EXCEPT ![c] = NoLogin]
          /\ request' = [d \in Calls |->
               IF Awaits(d, c) THEN NoRequest ELSE request[d]]
          /\ UNCHANGED renewable
  /\ UNCHANGED <<cached, fresh, listed, issued, revoked, done>>

-----------------------------------------------------------------------------
(* The provider works for a token it accepts.                              *)
Work(c) ==
  /\ request[c].at = "sent"
  /\ request[c].token \notin revoked
  /\ request' = [request EXCEPT ![c].at = "worked"]
  /\ done' = [done EXCEPT ![c] = @ + 1]
  /\ UNCHANGED <<cached, fresh, renewable, login, listed, issued, revoked>>

Answer(c) ==
  /\ request[c].at = "worked"
  /\ listed' = (listed \/ request[c].kind = "list")
  /\ request' = [request EXCEPT ![c] = NoRequest]
  /\ UNCHANGED <<cached, fresh, renewable, login, issued, revoked, done>>

(* forceRefresh, on a first 401: drops the token, whichever it is by now,  *)
(* and logs in.                                                            *)
ForceRefresh(c) ==
  /\ cached' = 0 /\ fresh' = FALSE
  /\ Login(c, [request[c] EXCEPT !.at = "refresh",
                                 !.refused = request[c].token])

(* What an error leads to: 401 once to another try, any other to the       *)
(* caller.  Mutant of Retried: a lost answer is tried again as well.       *)
RetriedWhateverFailed(c, unauthorized) == request[c].refused = 0

Retried(c, unauthorized) == unauthorized /\ request[c].refused = 0

Fails(c, unauthorized) ==
  /\ IF Retried(c, unauthorized) THEN ForceRefresh(c)
     ELSE /\ request' = [request EXCEPT ![c] = NoRequest]
          /\ UNCHANGED <<cached, fresh, login>>
  /\ UNCHANGED <<renewable, listed, issued, revoked, done>>

Unauthorized(c) ==
  /\ request[c].at = "sent"
  /\ request[c].token \in revoked
  /\ Fails(c, TRUE)

(* Timeouts, connections lost before or after the work, 4xx and 5xx.       *)
Lost(c) ==
  /\ request[c].at \in {"sent", "worked"}
  /\ Fails(c, FALSE)

-----------------------------------------------------------------------------
Expire ==
  /\ \/ fresh /\ fresh' = FALSE /\ UNCHANGED listed
     \/ listed /\ listed' = FALSE /\ UNCHANGED fresh
  /\ UNCHANGED <<cached, renewable, login, request, issued, revoked, done>>

Revoke ==
  /\ \E t \in 1..issued \ revoked : revoked' = revoked \cup {t}
  /\ UNCHANGED <<cached, fresh, renewable, login, request, listed, issued, done>>

ClientNext ==
  \/ \E c \in Calls :
       \/ CreateParcel(c) \/ GetOrderInfo(c) \/ GetLocations(c)
       \/ GenerateIntentQr(c) \/ GetPaymentStatus(c) \/ GetBankList(c)
       \/ GetAuthHeader(c)
       \/ Grant(c) \/ IssueToken(c) \/ LoginFails(c)
       \/ Work(c) \/ Answer(c) \/ Unauthorized(c) \/ Lost(c)
  \/ Expire \/ Revoke

(* Every request and login carries a timeout of ten seconds.               *)
ClientFairness ==
  \A c \in Calls : /\ WF_clientVars(GetAuthHeader(c))
                   /\ WF_clientVars(IssueToken(c) \/ LoginFails(c))
                   /\ WF_clientVars(Answer(c) \/ Unauthorized(c) \/ Lost(c))

ClientSpec == ClientInit /\ [][ClientNext]_clientVars /\ ClientFairness

-----------------------------------------------------------------------------
(* An order is placed at most once by a call, retries included: only an    *)
(* answer that means nothing was done is followed by another try.          *)
OrderedOnce == \A c \in Calls : done[c] <= 1

(* A call is over at some time, though it waits for a login another call   *)
(* has begun.                                                              *)
CallsEnd ==
  \A c \in Calls : request[c].at # "idle" ~> request[c].at = "idle"
=============================================================================
