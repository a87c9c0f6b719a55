# A verification of the Bids Bazar auction API

TLA+ specifications of the NestJS backend in this repository: what it does with a
lot from draft to payout, checked with TLC on small instances and, for the core,
proved with TLAPS for every instance. Paths below are relative to
`src/src/modules/` unless they say otherwise.

`tlc -config X.cfg M` checks a run listed below, `tlapm M.tla` a module of proofs.
`PROJECT.json` relates every definition to the lines it models, every property to a
fault of the code that would break it, and every hazard to the properties that
watch it.

## 1. The system

One Node process serves requests, runs crons, handles in-memory events and holds
WebSockets to Fonepay; PostgreSQL (READ COMMITTED, through TypeORM) holds all
state that matters. Four ways of writing decide what can go wrong:

* a **transaction that locks** the product row (or the reward rows) first and
  re-reads under the lock: the auction lifecycle, `placeBid`, `markSellerPaid`;
* a **conditional UPDATE** of named columns (`claimRelist`, `markCodCollected`);
* an **unconditional UPDATE** of named columns after an earlier read (most of the
  payment and boost services);
* `save(entity)`, which is two statements of its own: it SELECTs the row again and then
  UPDATEs the columns in which the copy in memory differs from what it SELECTed. It
  undoes what others wrote since the copy was read; and what they write between the
  two statements stays in the other columns, so that the row can become a mix of two
  copies that nobody has read or written (products, deliveries, users, KYC, the
  payment warnings).

### Components

| component | state it keeps | operations | modelled by |
|---|---|---|---|
| pricing and bid range (`products/products.service.ts`, `bidding/services/bidding.service.ts`, `common/utils/rounding.util.ts`) | four prices of a product, its highest bid | derive the prices, compute, publish and enforce the range | `BidPricing`, `BidLadder` |
| auction lifecycle (`bidding/services/auction-lifecycle.service.ts`, `placeBid`, the cron) | product status and clock, `bids`, `product_settlements` | bid, close, hold, release, expire and fall back, confirm (gateway, manual, COD), refuse a parcel | `AuctionLifecycle`, `AuctionSale`, `AuctionRefinement` |
| payments (`payments/`) | `product_payments` | initiate, poll, socket, confirm, fail, expire, COD, refund flag | `PaymentFlow` |
| delivery (`pathao/`) | `product_deliveries`; orders at Pathao | create, receive, dispatch, redispatch, sync, list by stage, collect or refuse cash | `Fulfilment` |
| rewards (`rewards/`) | `user_rewards`, `points_transactions`, `sellerPaidAt` | mark a seller paid, adjust points | `SellerRewards` |
| boosts (`boosts/`) | `boost_items`, `boost_payments` | buy, poll, expire | `Boosts` |
| product listing (`products/`) | `products`, `product_code_seq` | create, edit, submit, review, withdraw, delete, relist | `ProductListing` |
| users, phone codes, KYC, ratings (`users/`, `kyc/`, `ratings/`) | `users`, `kyc_verifications`, `bank_details`, stored papers, `seller_ratings` | text and enter a code, edit the profile, submit and review papers, rate a seller | `Account` |
| log-in (`auth/`, `users/`) | `users`, three tables of mailed links | register, enter, refresh, log out; verify, reset, change the address or password; suspend, delete | `Sessions` |
| shipping addresses (`shipping/`) | `shipping_addresses` | create, update, remove | `AddressBook` |
| notifications and live page (`notifications/`, `bidding/handlers/`, `auction-broadcast.service.ts`, the hourly warnings) | `notifications`, `bids.paymentWarningSentAt`; handlers in memory | announce each transition, insert notices, push frames, warn | `Announcements` |
| Fonepay and Pathao clients (`fonepay/`, `pathao/`) | token and dictionary caches, the login under way | call, log in, retry after a 401 | `GatewayClient`; the providers are external |
| favorites, categories, specifications, reports, contact, SMS | plain tables | CRUD | not modelled: no protocol |

### How they interact

`placeBid` and the lifecycle share the product row. A payment call settles the lot
through the lifecycle's transaction (`confirmPaymentGateway`) and updates its own
row before or after; the lifecycle releases or expires rounds under payments that
are still pending. Success is announced by in-memory events
(`PAYMENT_SUCCEEDED`, `COD_CONFIRMED`, `AUCTION_RESUMED`, `DELIVERY_COMPLETED`) that
create the delivery, expire attempts and collect cash; they are lost when the
process stops. Rewards start from payments that are `SUCCESS`. Boosts read the
product status only. A relist starts a new lot from an abandoned one. Every
transition of a lot is announced after its commit, by mail first and then by an
event whose handlers insert notifications and push frames. Profile, phone code,
KYC and log-in share one row of `users`; ratings write two of its columns. All
calls of a provider share one token.

### What is hard

1. *Several rounds on one lot.* Holds lapse or are released, winners fall back, and
   each leaves rows behind which every later query must see or overlook.
2. *Read, await, write.* Fonepay, Pathao, mail and file storage are awaited between
   the check and the write nearly everywhere.
3. *Failures* between the statements of one operation: a restart, a statement that
   fails, an answer that is lost. Events are in memory, and most handlers catch what
   goes wrong, log it, and are never called again.
4. *Lateness.* Crons run every ten seconds to ten minutes; deadlines pass and
   answers arrive in between.
5. *Arithmetic at boundaries*: rounding to Rs. 5, flat or percentage increment,
   the ceiling, the frozen countdown.

## 2. The modules

**`BidPricing`** has the pure functions: the derived prices and the bid ranges. Base
prices and bids are whole rupees; the two increments are decimals, as
`src/src/config/env.validation.ts:44` admits them, in units of `1/IncrementScale`, and
ranges are kept in these units until the code rounds them. **`BidLadder`** lets one lot be
bid upon, legal amount by legal amount.

**`AuctionLifecycle`** is the core: one lot, its bids, rounds and clocks. Every
method of the service runs in a transaction that locks the product row and
re-reads what it decides on, so each is *one* atomic action with all of its writes.
Timestamps are distances from now; `Tick` lets a unit pass, and the crons may be
late by `MaxLag`. `biddingTime` is a history variable.
`status`, `bid`, `round`, `cod` stand for `products.status`, the rows of `bids`,
`product_settlements.status` of each bid's row and the COD payment's status.

**`AuctionSale`** states what the service promises without any of these rows: a lot
is open, paused for one buyer at a time (who gets no second pause if it lapses),
then offered to bidders, nobody twice and at most three, and ends sold or unsold; a
sold lot may still be refused at the door. **`AuctionRefinement`** maps the rows to
it; `ImplementsSale` is checked as a property and proved.

**`PaymentFlow`** splits the payment methods at their awaits. A thread is one call:
`at` is its next statement, `pay` and `round` what it has read. The lot is reduced to
its status and numbered rounds. `listening` holds the attempts retired by a COD or
manual confirmation whose socket is still open and may still report. `Crash` forgets
all threads, events and sockets; `onModuleInit` resumes what the code resumes.

**`Fulfilment`** is the life of one parcel. A thread carries the copy of the delivery
row it read; `Select` finds the columns in which it differs, and `SaveStatus` and its
siblings `Update` those, whatever the row has become (`Mixed`). A milestone the call has
stamped itself carries a new time and so always differs. `CallFails` and `AnswerLost`
can end any call; `Pathao*` are steps of the courier. `WhereStage` and `DeliveryStageOf`
are the two definitions of a stage the code has (SQL and TypeScript). `torn` and `lost`
are history: an UPDATE has mixed two copies; what was to follow a delivery was lost.

**`SellerRewards`** has transactions as threads that take row locks one by one, a
blocking insert, and commit.

**`Boosts`** has one statement per step, for requests and for both sweeps, on one
product. **`ProductListing`** has one lot with requests that read, check and save the
row, again by `Select` and `Update`, against bids that lock it; the base price stands for
every field that must be filled in. History: `shown`, the prices that awaited approval
or that an admin has set; `bidOn`, those that bids were validated against; `outbid`, a
request has written what it read before a bid; `torn`, as above.

**`Account`** has the calls of four services that end in a save of a row of `users` or
of `kyc_verifications`. A call is split where it waits (the text message, the storage),
between its reads and its save, and inside the save (`SelectUser`, `UpdateUser`,
`SelectKyc`, `UpdateKyc`; a first submission inserts). `outdated` is the set of tables it
read which another call has written since; `torn` has the accounts whose number columns
an UPDATE has mixed. What `phoneVerifiedAt` proves is recorded in it: the number whose
code was entered. `ReviewKyc` reads the submission when the verdict arrives, whatever
its status, as the code does; what the reviewer had looked at is not part of the
program, and no property speaks of it.

**`AddressBook`** has requests that read before their transaction and whose statements
see what was committed before each of them (READ COMMITTED); the rows a statement
found are written when the transaction commits.

**`Sessions`** has accounts, refresh tokens and mailed links. Column updates and saves
of whole rows are told apart, as is a reset link that is soft-deleted and still
counts towards the hourly limit. `opened`, `mailed`, `proved`, `spent` are history: the
credentials a token was issued for, where a link went, which addresses were shown to
belong to the account, what was accepted once. Saves of whole rows are single steps
here, as are those of `AddressBook`: a row that two saves have mixed only ever comes of a
call that had been overtaken, which their properties except. `EmailWasProved` excepts
nothing; but the one call that changes the address proves the new one and sets both
columns at once, so no mix of two saves pairs an unproved address with a proof.

**`GatewayClient`** stands for both clients, which have the same structure: a cached
token with an expiry, a login shared by all who wait, one retry after a 401. The
provider revokes, answers, fails or loses the answer as it likes.

**`Announcements`** EXTENDS `AuctionLifecycle`: every action of the lot is conjoined with
the event its post-commit section emits, and the handlers, which run any time
later, are actions of their own. `InsertFails` is a handler whose insert throws, before
or after its row is committed: it logs and rethrows, nothing repeats the event, and
what it still had to insert is `untold`. A broadcast reads the product and then the
bids. The hourly warning reads a bid, mails, and saves the bid, with its payment
status as it was read or without it, as the SELECT of the save may still have found
the same.

`MC*` modules give the finite sets and, where one module is checked under several
questions, the *scopes* of a run, chosen in its initial states. Operators called a *mutant* are faulty variants
of a definition, used nowhere: substituted for it, they break the property
PROJECT.json names.

## 3. The runs

Ten runs check what holds; two show what the code says of itself and does not do.
Each of them takes less than five minutes with two workers.

| run | instance | question |
|---|---|---|
| `auction_safety` | two scopes: *clock*, 3 interchangeable bidders, 4 bids, lag 1; *cascade*, 4 bidders, 5 bids, one hold, no lag. Duration 2, windows 1 | Do product row, bids, rounds and clock tell one story, is the cascade fair, does it give up only when exhausted, and does all of it implement `AuctionSale`? |
| `auction_liveness` (`MCAnnouncements`) | the lot with its announcements: 2 bidders, 2 bids, durations 1, no lag, one user-made job beside those of the cron, `MaxUntold` = 1, no symmetry | Is every payment resolved, every due auction closed, the winner told unless that insert failed, no notice swallowed; do frames hang together, and does a late warning make nobody else owe? |
| `payment_flow` | 2 calls at a time, 2 rounds, 2 attempts, 1 restart | Does only a paid attempt of the live round settle; is a second charge refunded; is every attempt resolved? |
| `fulfilment` | 2 calls, 2 courier orders, failures and restarts anywhere | Is cash collected or the parcel refused, and collected only of a delivered one and always unless its event was lost; is a redispatched order void unless a row was torn; do the lists agree? |
| `redispatch` | the same with 3 orders | *Violation*: `SupersededIsCancelled`, what the comment on `redispatch` says. |
| `seller_rewards` | 2 transactions, 3 sales, 2 users, 1 adjustment | Are credits kept and free of deadlock? |
| `boosts` | 2 calls, 2 purchases, 1 restart | Is what is on record of a payment true, and does none block the product for ever? |
| `product_listing` | two scopes: *prices* and *relist*, 2 requests, 1 bid, 2 relists; and *ladder*, every base price to Rs. 120 with the deployed increments (5, 10 %) | Was what is live up for approval, or an admin's price, unless a save was torn; are bids honoured unless a request wrote what it read before one? Is what the panel publishes what `placeBid` enforces, and can bidding always go on below the ceiling? |
| `account` | 2 calls, 2 names, 2 uploads, 2 sales, 1 attempt at a code, a cap of 2 addresses of 4 ever made; five scopes | Was a verified number proved unless its columns were mixed; does only an overlap undo it, change a locked name, lose papers, miscount ratings or break the rules of the address book? |
| `phone_number` | the same | *Violation*: `NumberIsProved`, what the comment on `updateOwnProfile` says. |
| `sessions` | 2 calls, 2 addresses, 2 passwords, 3 tokens, 3 links, 1 reset an hour, 2 accounts; three scopes | Was a verified address proved; do only overlapping calls let a session outlive its end? |
| `gateway_client` | 2 calls, 4 logins | Is a call never carried out twice by its retry, and is none left waiting? |

### Why the bounds are enough

*Auction.* Four rows and three bidders let a bidder bid twice, lapse a hold, bid
again and win; a ceiling two increments above the start is reached by bids, and
Instant Buy lies between. Four bidders are one more than the cascade has turns
(`MAX_FALLBACK_RANK` = 2), so its limit is reached as well as its exhaustion. A
duration of 2 can be interrupted by a hold before, in the middle and after. In
the runs the increments are 5 flat and 50 %, so that few amounts are legal; the
deployed ones are those of the ladder in `product_listing`. `NothingIsLate` and
`OneHoldOnRecord` take the lag and the repeated holds out of the *cascade* scope, where only
the order of turns matters; the *clock* scope has both.
*Calls.* Every race described in section 1 is between two calls; a third would only
repeat one of the two. Two rounds (attempts, orders, purchases) are needed for
one to be stale; one restart can fall between any two statements. `Fulfilment` has
no bound on restarts and failures, as they leave nothing to count. With two orders one
can be put aside; that a live one is put aside takes a third, which `redispatch` has and
which the theorem `SupersededUnlessTornAlways` covers for any number.
*Rewards.* Three sales over two users put them in opposite roles and cross a
tier boundary between two sales.
*Announcements.* Two bids can be two rounds: an Instant Buy hold that lapses and a
bid that wins, or two winners one after the other. `MaxJobs` lets a handler of the
cron overtake one of a user. `MaxUntold` lets one notice be lost, by an insert that fails or
by the one before it; each loss is of one event, so a second would repeat the first.
*Account and sessions.* The instances are split into scopes chosen in the initial
state, because KYC, ratings and addresses write different tables: each scope lets
one of them race with the calls that save the `users` row (`rivals` and `taken` let
two accounts race for one number or address; `numbers` lets one account race for two). Four addresses fill the cap, pass it
and leave one to remove. Two uploads are one submission and its replacement. Three
tokens (links) are one in use, one superseded and one to come; the constraint
`Bounded` drops tokens from the states with three links, which are all resets then.
*Clients.* Two calls share a login; four logins are the first one, one for each
retry, and one more.

Deadlock checking is on for the auction. Elsewhere a lot that is over has nothing
left to do, and each cfg says so.

### Fairness

* `Announcements`: the cron (every minute, holds every ten seconds) runs for ever, and
  so does the event loop. The close is strongly fair: a hold would have to be live at
  every single cron run to keep it from firing. So is time, which only the bound on
  handlers can stop. Users, admins, Fonepay, the courier and the hourly warning owe
  nothing.
* `PaymentFlow`: calls in progress go on; deadlines pass; `PaymentsCron` comes round to every
  overdue attempt (strongly, as other calls may occupy the bounded threads each time
  it is due); the handler that creates deliveries and the auction cron run.
* `Fulfilment`: calls in progress go on or fail, and the event loop calls the handler of
  `DELIVERY_COMPLETED` (strongly, as other calls may occupy the bounded threads). Nothing
  is assumed of the sync: the property begins when a delivery is on record.
* `Boosts`: requests go on, deadlines pass, and both sweeps run for ever;
  `InsistentSpec` adds that the seller asks for a boost again and again, because it
  is `initiateBoost` that clears what a restart left behind.
* `GatewayClient`: every request to a provider is answered, refused or cut off by its
  ten-second timeout, and a call goes on when it is.

`Account`, `AddressBook`, `Sessions`, `SellerRewards` and `ProductListing` promise
nothing about progress.

## 4. What is proved

`ProductListingProofs` ends with `BidPricing` and `BidLadder`, for all base prices and all
increments `src/src/config/env.validation.ts` admits, decimals included (`IncrementAssumption`).
`PricesAreOrdered`: from Rs. 47 on, start < instant buy < ceiling, all multiples of Rs. 5;
at Rs. 46 the first two are both Rs. 60 and at Rs. 13 they are Rs. 20 and Rs. 15, which the
theorem states too. `PublishedRange`: along every auction, `placeBid` accepts an integer
amount exactly if the panel publishes a range that contains it as a multiple of Rs. 5.
`LadderClimbs`: bids climb in multiples of Rs. 5 up to the ceiling. The argument is
arithmetic about rounding to multiples of 5 (lemmas on `RoundUpToMultipleOf5` and
`RoundDownToMultipleOf5`), and an invariant of the ladder: the highest bid is a multiple of 5
between start and ceiling. `NoGapWithDeployedFlat` shows that bidding can go on from every
highest bid below the ceiling when the flat increment is the deployed Rs. 5, whatever the
percentage; with Rs. 10 it would not, as prices are only multiples of 5.

`AuctionLifecycleProofs`, for any sets of users and bid ids, any positive prices,
durations and windows (`ListingAssumption`, `WindowAssumption`):

| theorem | the inductive invariant it needs |
|---|---|
| `TypeCorrect` | `TypeOK` is inductive by itself; the point is the rank, which the guard of the cascade must keep at or below `MAX_FALLBACK_RANK` |
| `OneBuyerOwesAlways`, `SaleIsConsistentAlways` | `SaleInv`: both together, and `WinnerOnRecord` (a winner is on record exactly once bidding has closed; a COD sale was not an Instant Buy). Neither part is inductive alone: settling needs to know that the responsible bid owns the only live round, and the next round needs to know that no settled one is left |
| `BiddersGetFullTime` | `FrozenClock`: while bidding is open or paused, what is left, what the hold has taken and what has been spent add up to `BIDDING_DURATION_HOURS` |
| `RoundsAreResolvedOnce`, `AttemptsKeepTheirRound` | `RoundInv`: a bid without a row has no round, and an auction bid whose payment status is untouched has none, so the cascade cannot pick it again |
| `OutcomesAreFinal` | `SaleInv` |
| `HighestBidIsRecordedAlways` | `SaleInv` and `FrozenClock` (no bids before the first one), and that a legal bid exceeds the one on record (`NextBidIsHigher`) |
| `CascadeIsFairAlways`, `AbandonedOnlyWhenExhaustedAlways` | `TurnInv`: while payment is awaited, the bids that had a turn are those whose payment status shows it, only the present winner's is not `EXPIRED`, and there are as many of them, and of their bidders, as the winner's rank says. Without it neither the query of the cascade (by payment status) nor its limit (by rank) says anything of the rounds |
| `AuctionImplementsSale` | all of the above (`AuctionInv`): `View` says what the sale looks like in each status, and one lemma per transaction names the step of `AuctionSale` it is |

The same module goes on with the lot and its announcements, which is where the lot is
written to outside its own transactions: the hourly warning saves a bid as it read it.
The refinement is therefore proved of `AuctionLifecycle` by itself; here a late warning
may put the bid of an abandoned sale back to `PENDING`, and what holds nevertheless is:

| theorem | the inductive invariant it needs |
|---|---|
| `WarningsLeaveTheAuctionAlone`, `RoundsStayResolved`, `OutcomesStayFinal` | `ListingInv`: until the outcome, everything proved of the lot alone, and that a live hold is above every bid (`HoldInv`); from then on, what no late save can take away (`FinalInv`) |
| `LateWarningAddsNoPayerAlways` | `WarningInv`: while payment is awaited a warning still to be saved writes nothing new, because the winner is as it was read or because its turn has expired and the unique index on live rounds refuses the save (`StillWarns`) |
| `FramesHangTogetherAlways` | `FrameInv`: the price read for a frame never exceeds the price on record, as that only rises; with `PublicTop` and `HoldInv` the bids read after it cannot be below it |
| `NothingIsSwallowedAlways` | `NoticeInv`: every notice says something the lot shows from then on and did not show before (`Explained`), so its key cannot have been used; and no key is forgotten (`NothingForgotten`); an insert that fails adds no key the next one could meet (`InsertFailsKeepsNotices`) |

The other components, for any number of calls at a time, rows and restarts:

| module | theorems about the runs' properties | the inductive invariant |
|---|---|---|
| `PaymentFlowProofs` | `SoldMeansPaidAlways`, `SecondChargeIsRefundedAlways`, `HoldEndsForItsOwnReasonAlways` | rows are numbered, and a row's status agrees with Fonepay (`RowsOK`); a sale settled outside Fonepay has the one committed row (`SaleOK`); a call acts on a verdict Fonepay has given, and none about to record a success survives such a sale (`ThreadOK`); a hold whose QR is being made has no attempt and no other call (`HoldOK`) |
| `FulfilmentProofs` | `CollectedOrRefusedAlways`, `CashMeansDeliveredAlways`, `SupersededUnlessTornAlways`, `ListedInItsStageAlways` | the refusal that holds the payment's lock finds it as it read it (`LockOK`); whatever is on its way to collect the cash began with a delivery at Pathao (`Paid`). Until an UPDATE mixes two copies (`Whole`): milestones come in order in the row *and in every copy of it* (`RowOK`), what either says of a void order is so at Pathao (`Truthful`), and an order is placed only where there is none, or for one whose cancellation the copy knows (`CopyOK`) |
| `FulfilmentProofs`, of `GatewayClient` | `OrderedOnceAlways` | nothing was done yet for a call that may still be sent (`NotYetDone`) |
| `SellerRewardsProofs` | `LedgerExplainsBalancesAlways`, `SomeTransactionCanGoOnAlways`, `TierFollowsPointsAlways` | two-phase locking is what makes the sums right: no row is locked twice (`Exclusive`), rows are locked in the order of user ids (`LocksInOrder`), and whoever holds a lock has read the row as it still is (`ReadIsCurrent`). There is no deadlock because the holder a transaction waits for would wait for a higher row, and there are finitely many |
| `BoostsProofs` | `OnlyPaidBoostsRunAlways` | items are numbered as they are created and none is paid for before (`Numbered`); a call about to record a verdict was given it by Fonepay (`ThreadOK`) |
| `ProductListingProofs` | `LiveWasSubmittedAlways`, `BidsAreHonouredAlways` | until a save is torn, a row that would be live has its code and a price that was shown, on record and in every copy about to be saved (`Submitted`); until a request writes what it read before a bid, the row carries the bids there are, and so does every copy read with bids on it (`BidsStand`, `KeepsBids`), torn or not |
| `AccountProofs` | `NumberWasProvedAlways`, `PapersStayOnFileAlways`, `OnlyOverlapUndoesAlways`, `RatingsAddUpAlways` | an outstanding code went to the pending number, in rows and copies of accounts whose number columns no UPDATE has mixed (`NumberOK`); a copy nobody has overtaken keeps what the row has (`Current`); every stored file belongs to one account, new papers are on no record but the one they are for, and a submission nobody has overtaken replaces the papers on record (`PapersOf`) |
| `AccountProofs`, of `AddressBook` | `RulesHoldUnlessOverlappedAlways` | a request nobody has overtaken may rely on what it read: there is room for a new address, and it clears every other default or leaves the one there is (`RequestOK`) |
| `SessionsProofs` | `EmailWasProvedAlways`, `SingleUseAlways`, `SessionsEndAlways` | some first address per account and some owner per token explain everything (`Told`): an address is the first one or was proved, in rows, copies and links; a live token is its owner's and somebody admitted holds it; an accepted link is gone; a copy nobody has overtaken agrees with its row (`RowOK`, `LinkOK`, `CallOK`) |

Every one of these components has its type theorem (`TypeCorrect`; `ClientTypeCorrect` and
`AddressTypeCorrect` for the second component of a module). Each proof has one step per
action of `Next`. The invariants were checked by TLC before they were proved.

Every safety property of a passing run is a theorem (`NoGapBelowCeiling` for the deployed
flat increment), and `SingleUseAlways`, which no run repeats, is one besides. Only model-checked, because the prover has
neither fairness nor `ENABLED`: `WinnerIsTold`, `AwaitedPaymentIsResolved`, `DueAuctionCloses`,
`AttemptIsResolved`, `CodIsCollectedUnlessLost`, `PaymentIsResolved`, `ProductIsFreed` and
`CallsEnd`.

## 5. Where the code departs from what it says

The models contain what the code does, so these are possible in them, and the
properties are stated around them.

Auction and payments:

* `placeBid` never looks at `biddingEndsAt` (`bidding/services/bidding.service.ts:150`), so
  a bid in the last moments before a cron run is accepted after the end; rule 3 of the
  bidding rules rejects it.
* The Instant Buy price is documented to be "Always above biddingStartPrice"
  (`products.service.ts:1417`), which rounding undoes below Rs. 47: it equals it at Rs. 46 and falls below it at Rs. 13.
* The expiry sweep writes over an attempt that was confirmed while it waited for Fonepay
  (`payments.service.ts:899`). Two attempts of different rounds, both paid, can both
  become `SUCCESS` (`:459`); a QR being generated while a sale is confirmed another way is
  stored as live (`:386`).
* Events are in memory: a restart loses the delivery of a paid sale (`:505`), every
  announcement not yet made, and a delivered COD sale can stay `COD_PENDING`
  (`product-deliveries.service.ts:379`). The same comes of a handler that fails, because
  `onDeliveryCompleted` logs the error (`payments/handlers/payment-events.handler.ts:86`), and of a
  save that is committed but whose answer is lost, because the next sync finds nothing
  new. A notification handler whose first insert fails tells nobody of the rest
  (`notifications/handlers/auction-closed-notification.handler.ts:65`).
* A sync and a redispatch that save the delivery at the same time can leave it marked as
  cancelled with the new, live order; the next redispatch then skips the sync that should
  keep it from replacing a live order (`product-deliveries.service.ts:249`, run
  `redispatch`). Such a row can also be in two of the admin's lists (`:521`).
* A payment warning saved late puts a bid confirmed or expired meanwhile back to
  `PENDING` (`auction-lifecycle.service.ts:2098`); its one-hour window is as long as the
  cron's period, so the retry its comment promises seldom finds the bid again
  (`:2029`).
* A frame read before another one but pushed after it can be the last the live page
  shows (`auction-broadcast.service.ts:117`), and an abandonment is broadcast by nobody.
* Overlapping `markSellerPaid` calls both pass the check before the lock and credit the
  sale twice (`rewards.service.ts:120`).

Listing and boosts:

* `save` mixes: an approval that has SELECTed the row when the owner's edit commits
  UPDATEs the status alone, and a price nobody has submitted goes live
  (`products.service.ts:417`, `:1235`). Without such an overlap the approval still takes
  the price on record when the click arrives, which need not be the one the admin saw.
* A boost paid for but not polled is expired without asking Fonepay
  (`boosts.service.ts:264`), and a confirmed one can be cancelled by a sweep or a new
  purchase that read it earlier (`:102`). The featured section lists ended boosts until
  the next sweep (`:300`), `boostedUntil` does not.
* An admin's edit of a live lot saves the row it read, and loses a bid placed meanwhile
  (`products.service.ts:417`). It can also clear a required field of a lot awaiting
  approval, which approval does not check again (`:304`, `:1239`); a withdrawal
  overlapping the first bid withdraws a lot with a bid (`:481`); a stale save restores
  a deleted lot.
* A restart between a relist's copy and its claim leaves an unclaimed live copy (`:573`).

Accounts:

* Saves of whole `users` rows undo each other: a verification completed while a text
  message was sent is lost (`phone-verification.service.ts:105`), a name is changed after
  its papers were submitted (`users.service.ts:443`), a suspension lifted, a deletion or
  a log-out taken back (`users.service.ts:131`).
* `sendOtp` for one number and a profile edit for another that overlap inside their saves
  leave the pending number of the edit with the code of the other, and `verifyOtp` then
  verifies a number nobody proved (`phone-verification.service.ts:105`, run
  `phone_number`).
* `reviewKyc` does not ask whether the submission is `PENDING` (`kyc.service.ts:549`) and
  reads it when the verdict arrives: a verdict can be changed, and papers resubmitted
  after the reviewer looked are approved unseen. Two resubmissions at once can leave the record pointing at
  papers the other deleted (`:265`), and one the unique index refuses leaves its
  uploads behind.
* The rating aggregate, which "can never drift" (`ratings.repository.ts:39`), is short of a
  rating when two are given at once, until the next one.
* Social log-in does not ask `isActive` (`auth.service.ts:137`), the password log-in does.
* The limit on resent verification links counts rows that each resend has deleted
  (`auth.service.ts:382`), so it never refuses; a used reset link is deleted too and makes
  room under the hourly limit. Two requests with one reset link can both succeed (`:504`).
* Two requests for the address book at once can exceed the cap, leave two defaults or
  none, or bring back a removed address (`shipping.service.ts:61`).

## 6. What is not modelled, and the plan

Not modelled: favorites, categories and specifications, reports, contact and SMS
(CRUD or I/O without a protocol); images and files other than KYC papers, discovery
pages and search, texts of mails and notifications, the push stream to browsers; guards,
throttling, encryption, configuration and migrations (no state machine of their own); the
wire formats of Fonepay, Pathao and Sparrow; commission arithmetic in rupees. Read-only
views appear only where a property is about them (the bid panel, the admin stage
lists, the live page).

The limit of ten active bids per user spans lots and is left out; `placeBid` counts
under an advisory lock of the user (`bidding/services/bidding.service.ts:192`), so it has no overlap to get
wrong.

Done: all components with a protocol. Left, in order of worth:

1. Abstract specifications beside `AuctionSale`, with their refinements proved: of a
   payment, and of the two credits of a sale as one atomic step.
2. The admin refund marks and the payment listings beside `PaymentFlow`.
