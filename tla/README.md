# Skills 4 Hire backend: a TLA+ model

Skills 4 Hire is a Django REST backend (with Channels websockets, Celery workers
and the Paystack payment service) where customers book providers, money is held in
escrow and wallets are paid out. These modules model the parts of it where requests,
background tasks and an outside service touch the same rows, and say what remains
true when they overlap, fail or are repeated. Paths below are relative to
`src/backend/apps`.

## 1. The system

| Component | State it keeps | Operations | Hard behaviour | What makes it correct |
|---|---|---|---|---|
| Booking escrow (`bookings/`, `wallet/services.py`) | `Bookings`, `LockedWallet`, `BookingTransaction`, `Wallet.balance` | create, accept, reject, patch, delete | stale copies of wallet and booking, one atomic block of several failing, saves of whole rows | money moves only with a lock, each lock pays out once, the ledger says so, a cancelled booking is refunded; prices have no lower limit, so a negative one that is rejected may overdraw the wallet |
| Withdrawals (`wallet/`) | `WalletTransaction`, `Wallet.balance`, the Celery queue, `WebhookEvent` | POST withdraw, `process_withdrawal_task`, webhook, `process_withdrawal_verifications` | retries, timeouts after which Paystack may have paid, webhooks twice or early, worker death, give-up | one withdrawal per idempotency key, COMPLETED means paid, FAILED means given back, each task gives back at most once (a give-up and a verdict may both, and a transfer may be paid and given back) |
| Bank accounts (`wallet/payments/`) | `BankAccount` | resolve, transfer recipient | look-up, call and insert in separate steps | a recipient code belongs to one row |
| Deposits (`wallet/tasks.py`) | `WalletTransaction` | deposit, `verify_deposit_status` | status checked outside the crediting transaction | one credit per deposit |
| Payout requests (`bookings/serializers.py`, `release_funds`) | `PaymentRequestBooking`, `LockedWallet.mutable_amount` | request, review | lock read before the atomic block, 24 h cooldown | provider and customer never both paid |
| Conversations and messages (`chats/`) | `Conversation`, `Message` | open; post, edit, delete, list | check before insert, uniqueness that knows one order, edits and deletions of copies | one room per pair, edits are marked, a deletion stays, what is marked as read was shown |
| Negotiations (`chats/`) | `Negotiations`, `NegotiationHistory` | open, accept, reject, counter | answers work on copies and save whole rows; three commits per answer | an acceptance has its terms, the history backs the status, accepted is final |
| Endorsements (`chats/endorsements/`) | `Endorsement` | create, move, delete | check in the serializer, insert in the view | nobody endorses a provider twice |
| Support tickets (`admin/support_disputes/`) | ticket, room, replies | open, assign, review, reply | whole-row saves of copies, rights checked on copies | staff replies come from assigned admins, an assignment is not lost |
| Notifications (`notification/`) | `Notification`, channel groups | broadcast, consume, mark read | saved by the consumer of each socket while sockets come and go | what a client is shown is saved |
| Referral programme (`referral/`) | `Referral`, `ReferralTransactions`, `Wallet.balance` | attach, convert, withdraw the reward, transfer, verify | select then update, look-up before insert, a transfer task for both kinds of withdrawal, lost tasks, early webhooks | rewarded means paid, a withdrawal is paid in one of the two ways, the wallet pays a referral once (a referral may be in two withdrawals, so the bank may have paid it before) |
| Authentication (`authentication/`, `admin/user_management/`) | `User`, `OneTimePassword`, refresh tokens, counters in the cache | register, verify, reset, login, logout, suspend, delete, daily limit | codes used by two requests, whole-row saves, cache read-modify-write | a code works once, a reset stays and ends the sessions whose tokens are on record (those straight from a login are not), the limit holds |
| Posts, feed, engagement (`posts/`) | `Post`, likes, comments, reposts, `engagement_count`, the cached feed | like, comment, repost, view, edit, delete, GET feed | counts stored later by several signals, stale copies, a cache filled by overlapping requests | the counter counts what happened, a repost is one copy, a deleted post leaves the feed |
| Ranking and trust (`posts/services/`) | scores, `trust_score` | score a feed, recompute on events | computed from copies, stored later | a score stays within 1.0, trust outweighs popularity, numbers are earned |
| Ratings (`ratings/`) | reviews | create, change | read by the trust score | as above |
| Users, skills, services (`users/`) | profiles, role flags, `ProviderSkill`, `ProviderService` | onboard, edit, add, patch, delete | check before create, PATCH of a stale copy | one role, what is deleted stays deleted |
| Core, configuration | none | formatting, settings | none | |

How they interact: REST views run in server threads, one database connection each and
autocommit outside `transaction.atomic` (there is no `ATOMIC_REQUESTS`). Views queue
Celery tasks through Redis (`.delay`), call Paystack over HTTP from tasks and views,
and push to websockets with `broadcast_notification`. Paystack calls back through
`wallet/views.py:208`. The wallet row is what the money components share: bookings,
payouts, withdrawals, deposits and referral rewards all write it with
`wallet/services.py:56-83`, a read and a write without a lock.

Which database: development and the tests run on SQLite (`config/settings/dev.py`,
`tests/settings.py`), production on PostgreSQL (`config/settings/prod.py`). Writing
transactions are serial on SQLite. On PostgreSQL the query at
`bookings/booking_transaction.py:20` (`FOR UPDATE` over nullable outer joins) is refused,
so every create and reject of a booking fails there and rolls back.

## 2. The modules

| Module | What it models |
|---|---|
| `EscrowPromise` | what the booking escrow promises: a price leaves the wallet once, in the step that locks it, and returns whole at most once |
| `BookingEscrow` | the requests that create, accept, reject, patch and delete bookings |
| `Withdrawal` | withdrawals of one wallet: the POST, two Celery tasks, the webhook, Paystack |
| `Referral` | the referrals of one referrer and the withdrawal of the rewards |
| `BankAccounts` | one account number that several users resolve and make a recipient |
| `Negotiation` | one negotiation and the answers to it |
| `Rooms`, `Messages` | opening conversations; the messages of one |
| `Endorsement` | endorsements of providers |
| `SupportTicket` | one ticket, its room and its replies |
| `Notifications` | the websockets of one user and the rows their consumers save |
| `Feed` | the cached feed of one user |
| `Ranking` | the scores of one feed request |
| `Engagement` | one post: likes, comments, reposts, edits, `engagement_count` |
| `Reputation` | the trust score of one provider and the reviews and endorsements it reads |
| `Account`, `OtpLimit` | one user's account; the daily limit of one address |
| `Onboarding`, `Catalog` | one user's role; one provider's skills and services |
| `*Proofs` | theorems about the module in the name, and their proofs |
| `Chats` | `Negotiation`, `Rooms`, `Messages`, `SupportTicket`, `Notifications` and `Endorsement` side by side |
| `Society` | `Feed`, `Ranking`, `Engagement` and `Reputation` side by side |
| `Accounts` | `Account`, `OtpLimit`, `Onboarding`, `Catalog` and `BankAccounts` side by side |
| `MCBookingEscrow`, `MCWithdrawal`, `MCReferral`, `MCChats`, `MCSociety`, `MCAccounts` | model values and symmetry for TLC |

`Chats`, `Society` and `Accounts` hold modules that share no row in the code. A variable
`part` picks one of them for a whole behaviour: every other part is frozen in its initial
state, so the state spaces add up and each is explored completely, and a theorem about
one part is a theorem about the whole specification. The module named first in the
EXTENDS of an area is extended, the others are instances (`R!Next`, `M!Next`, ...).

Much of what the code promises it keeps only until two requests overlap, since it checks
first and writes later. Those properties are stated with history variables, which record
that the bad circumstance has occurred and which no guard reads:

| Variable | Becomes true (or grows) when | Properties it excuses |
|---|---|---|
| `overlapped` (`Chats`, `Society`, `Accounts`, `Referral`) | two requests of one part are under way at once; in `Referral` also when two runs of the conversion have selected one referral; in `Society` also when a review or an endorsement changes while a score is computed | `OneRoom`, `OneEndorsement`, `AcceptedIsFinal`, `OneLike`, `TrustTellsTheTruth`, `CodeUsedOnce`, `OneRole`, `ResetIsKept`, `WalletPaysEachOnce` |
| `raced` (`Withdrawal`) | two POSTs have both found one key unused | `OnePerKey` |
| `repriced` (`BookingEscrow`) | a PATCH has changed the price of this booking | `UnchangedPriceRefunded` |
| `failed` (`Negotiation`) | an answer has died between its commits | `ClosedOnTerms`, `HistoryBacksStatus` |
| `resets`, `ended` (`Account`) | a password was reset; the highest number of resets that had happened when a reset read the tokens it then blacklisted | none: `ResetEndsRecorded` compares a token with `ended` |

So one run explores the overlaps and the deaths of threads as well, and a theorem needs
no assumption that they do not happen.

Inside a module an operator whose comment says "faulty" is a plausible bug, standing just
before the definition it would replace. The mutants in `PROJECT.json` put it there to
show that a property notices; no specification refers to it.

The modules have one shape. A row is a record or `NoRow`; `request[r]` says where the
request in slot `r` stands and holds the copy it has read; a step is one committed statement
or one `transaction.atomic` block; `RequestFails(r)` is a thread that dies, or raises,
between two commits. Reads that later writes depend on are steps of their own.

### 2.1 BookingEscrow

State: `balance` (`Wallet.balance`), `booking` (the row: status, price, `is_active`), `lock`
(`LockedWallet`: none, held, released, and its amount), `ledger` (the set of
`BookingTransaction` rows), `request` (where each request in flight stands and the copies
it holds), and the history variable `repriced`.

A step is one committed transaction; reads that precede it are steps of their own, and what
they saw is kept in `request[r]`:

| Action | Code |
|---|---|
| `CreateValidate` | `validate_price` reads the wallet, which stays cached on `request.user` |
| `CreateCommit` | `create_booking`'s atomic block: row, deduction from the cached wallet, lock, ESCROW_HOLD entry |
| `CreateSave` | `booking_instance.save()` of the whole object, which is where FUNDED reaches the row |
| `AcceptRead`, `AcceptWrite` | `get_object` and the guards on the copy; `Bookings.accept_booking` |
| `RejectRead`, `RejectCommit` | the guards; `cancel_booking`'s atomic block, where a refund that raises is swallowed and recorded as FAILED |
| `PatchBooking`, `DeleteBooking` | views that are atomic as a whole |
| `RequestFails` | a thread dies or something raises: committed writes stay |

Prices are integers: `validate_price` (`bookings/serializers.py:73`) refuses only a price above the
balance, and no field or constraint has a minimum. A booking at a negative price adds to the wallet
when it is created and takes the same back when it is rejected, whether the money was spent meanwhile or not.
`NoOverdraft` therefore says that a wallet below zero has had a lock of a negative amount released
(`TakesBack`), and that nothing else, stale reads included, overdraws it.

The ledger is a set: a second identical FAILED entry of one booking is the same element.
Status Completed is never reached: only a payout sets it.

### 2.2 Withdrawal

State: `balance`, `withdrawal` (rows with status, key and amount), `request`, `job`
(`process_withdrawal_task` of each withdrawal: queued, claimed, answered, giving up ...,
with its retries), `paystack` (what has happened to the transfer there), `event`
(the `WebhookEvent` row), `verify` (the verification task), and two history
variables: `credits` (how often each task gave the amount back) and `raced`.

| Action | Code |
|---|---|
| `WithdrawValidate`, `WithdrawCheckKey`, `WithdrawCommit`, `WithdrawEnqueue` | the POST: validation reads the wallet, the key is looked up, deduct and insert in one atomic block, `.delay` |
| `Claim`, `InitiateTransfer`, `Record` | `process_withdrawal`: first atomic block, call, second atomic block |
| `Raised` (in `InitiateTransfer` and `JobRaises`), `RestoreRead`, `RestoreCredit`, `RestoreSave` | the task's `except`: retry, or at `MAX_RETRIES` `process_failed_withdrawal` statement by statement |
| `JobLost` (job "lost") | worker death (`acks_late` is not set) or an exception that `process_failed_withdrawal` swallows |
| `Settle`, `WebhookReceive` | Paystack decides, and delivers a verdict, possibly late or again |
| `WebhookDispatch`, `WebhookFails` | the webhook view after `get_or_create` |
| `VerifyCommit`, `VerifyLost` | `process_withdrawal_verifications` |

`VerifyCommit` has no outcome in which FAILED is saved and the credit is not. `process_failed_withdrawal`
swallows exceptions, and the task saves FAILED after it (`wallet/tasks.py:248`); but what raises there is a
query, which on PostgreSQL aborts the block, so that the save raises too and the task is retried.

Paystack is external: it takes on a reference once, may answer with an error although it did,
decides success, failure or reversal, and may reverse a success.

### 2.3 People who talk (`chats/`, `notification/`, `admin/support_disputes/`)

| Actions | Code |
|---|---|
| `Negotiation`: `CreateCommit`, `CreateLog` | `create_negotiation` commits the row, `log_history` another |
| `AnswerRead`, `AnswerRefuse`, `AnswerStamp`, `AnswerSave` | `get_object`; the refusals of `update`; its atomic block (stamp, `set_final_price`, history); `bulk_update`, which saves the whole copy |
| `Rooms`: `CreateValidate`, `CreateInsert` | the serializer looks for the pair in both orders; the insert under a constraint that knows one order |
| `Messages`: `Post`, `EditRead`, `EditFlag`, `EditContent`, `DeleteRead`, `SoftDelete`, `ListMark`, `ListServe` | the message views: `update` saves the flag and then the content; listing marks with one UPDATE and then queries a page |
| `Endorsement`: `CreateValidate`, `UpdateValidate`, `Save`, `Destroy` | the serializer's check, the view's insert or move |
| `SupportTicket`: `OpenTicket`, `OpenRoom`, `OpenMessage`, `Assign*`, `Review*`, `Reply*` | three commits of the opening; reads and whole-row saves of admins; the reply's check on its copy |
| `Notifications`: `Broadcast`, `SaveNotification`, `SaveRaises`, `Forward`, `Connect`, `Disconnect`, `MarkRead` | `group_send`; the consumer saves, then forwards, one event at a time |

### 2.4 Users and posts (`authentication/`, `users/`, `posts/`, `ratings/`)

| Actions | Code |
|---|---|
| `Account`: `Register`, `SendCode`, `Expire`, `VerifyRead`, `VerifyCommit`, `ConfirmRead`, `ConfirmCommit`, `BlacklistRead`, `BlacklistInsert`, `LoginRead`, `LoginToken`, `SaveCopy`, `EditRead`, `Logout`, `Refresh`, `SuspendUserAccount`, `DeleteUserAccount` | registration, codes, verification and reset, which reads the tokens on record and blacklists them in a second step; a login issues a token whose jti is not on record (`set_jti` after the row was made, `authentication/serializers.py:237`) and then saves the row it has read; rotation and logout are views of the JWT library. Passwords are numbered in the order in which they are set |
| `OtpLimit`: `HasKey`, `Set`, `Get`, `Incr`, `Expire` | the middleware's calls to the cache, one by one |
| `Onboarding`: `Check`, `Create`, `EditRead`, `EditSave` | the serializer's look-up, the service's transaction, saves of the user row |
| `Catalog`: `AddValidate`, `AddSave`, `SkillRead`, `SkillSave`, `Service*` | skills and services of a provider |
| `Engagement`: `Like*`, `Relike`, `Unlike`, `Comment*`, `Repost*`, `Unrepost`, `Interact*`, `Update*`, `SoftDelete` | `services_T.py`, the serializers and the signals: insert with its recount in one transaction, which sees its own row and what is committed |
| `Ranking`: `GetCandidates`, `GetMaxEngagement`, `RankAndBoost` | `RecommendationService.get_feed`, weights as percentages |
| `Reputation`: `Complete`, `Review`, `Endorse`, `Score`, `SaveTrustScore`, `Profile*`, `PatchReview`, `DestroyEndorsement` | the signals that recompute the trust score, and the profile saves that write an old one back |
| `Feed`: `CacheHit`, `GetCandidates`, `ApplyFilters`, `Answer`, `Tick` | `FeedListView.list`; a tick is a minute of the cache's five, and `gone[p]` measures how long a post has been hidden |

### 2.5 Money beside the escrow (`referral/`, `wallet/payments/`)

| Actions | Code |
|---|---|
| `Referral`: `Attach`; `ConvertRead`, `ConvertSave`, `ConvertLost` | the two Celery tasks about a referral; a run of the conversion reads the ids of pending referrals and then updates those ids, whatever has become of them (`referral/tasks.py:79-89`) |
| `Check`, `Create`, `Reward`, `Send` | POST referrals-withdraw: checks, insert with its referrals, the credit of the wallet in one atomic block, `.delay` |
| `TransferRead`, `InitiateTransfer`, `Settle`, `Webhook`, `VerifyCommit`, `TaskLost` | `process_transfer_task`, Paystack, `process_transfer_verification` |
| `BankAccounts`: `Resolve` and the steps after it | look-up, call of Paystack, insert; the same for the recipient code |

## 3. The runs

| Run | Configuration | Checks | Shows |
|---|---|---|---|
| `escrow_overlap` | 1 customer, 2 bookings, prices 1 and 2, balance 2, 2 requests | `NoOverdraft`, `LedgerTellsEscrow`, `UnchangedPriceRefunded`, `EachLockPaysOnce` | what holds under overlap and failure |
| `escrow_serial` | 2 customers, 2 bookings, prices -1, 1 and 2, balance 1, 1 request | `KeepsPromise`, `NoOverdraft` | `BookingEscrow` refines `EscrowPromise` when requests do not overlap; a negative price raises the balance, is spent and overdraws the wallet when it is refunded, and nothing else does |
| `withdraw_overlap` | 2 withdrawals of 2 from 3, 2 keys, 2 POSTs | `NoOverdraft`, `OnePerKey` | POSTs and tasks write one wallet and do not overdraw it; a key names one withdrawal unless two POSTs raced for it |
| `withdraw_live` | 1 withdrawal, 2 POSTs, 3 retries, every failure, fairness | `CompletedMeansPaid`, `FailedMeansCredited`, `CreditsJustified`, `SentOrReturned` | status and credits agree with Paystack; the task ends in a transfer or a restored balance unless its worker dies |
| `referral` | 2 referrals, 2 withdrawals, 2 keys, 2 POSTs, 2 runs of the conversion | `RewardsArePaid`, `WalletPaysEachOnce` | a rewarded referral belongs to a completed withdrawal, which was paid into the wallet or by Paystack and not both; until POSTs overlap or two runs select one referral the wallet pays each rewarded referral once. A referral may be in two withdrawals, and be paid by Paystack first and into the wallet later: the properties do not say otherwise |
| `chats` | `Negotiation` (2 prices, 2 history rows, 2 answers), `Rooms` (3 users), `Messages` (2 people, 2 messages, page of 2), `SupportTicket` (2 admins, 1 reply), `Notifications` (2 sockets, 2 alerts), `Endorsement` (2 users, 2 providers, 3 rows) | `ClosedOnTerms`, `HistoryBacksStatus`, `AcceptedIsFinal`, `OneRoom`, `EditsAreFlagged`, `NothingUndone`, `ReadWasServed`, `StaffRepliesAssigned`, `AssignmentKept`, `SeenIsSaved`, `OneEndorsement` | what conversations keep although answers, edits and admins work on copies |
| `society` | `Feed` (2 posts, cache 2, request 1), `Ranking` (counts 0, 1, 3), `Engagement` (1 user, 2 likes, 1 comment), `Reputation` (2 customers, 9 to 10 jobs), each with 2 requests | `OneLike`, `DeletedLeavesTheFeed`, `NumbersAreEarned`, `OneCopyPerRepost`, `TrustOutweighsPopularity`, `DeletedStaysDeleted`, `TrustTellsTheTruth` | what posts and scores keep |
| `accounts` | `Account` (2 codes, 2 tokens, 2 resets), `OtpLimit` (limit 3), `Onboarding`, `Catalog` (2 skills, 1 service), `BankAccounts` (2 users), each with 2 requests | `CodeUsedOnce`, `ResetEndsRecorded`, `ResetIsKept`, `LimitHolds`, `OneRole`, `OneRecipient`, `DeletedStaysDeleted`, `ShapesKept` | what accounts keep |
| `escrow_lost_update` | 2 requests | `KeepsPromise`, violated | overlapping creates lose a deduction |
| `escrow_accepts_any` | 1 request | `AcceptsOnlyFunded`, violated | the funded guard never fires |
| `escrow_patched_price` | 2 prices, 1 request | `CancelledMeansRefunded`, violated | after a PATCH a rejection keeps the money locked |
| `withdraw_reopened` | 1 withdrawal | `CompletedIsFinal`, violated | `Record` reopens a completed withdrawal |

The type invariants of `BookingEscrow`, `Withdrawal`, `Referral` and the modules in `Chats` and `Society`
are in no run: section 4 proves them for every instance.

Bounds. Two requests are enough for every race of this code: each is a read by one request
and a write by another. Two bookings or withdrawals are enough for two writers of one
wallet with different rows; prices 1 and 2 against a balance of 2 make both fit one by one
and not together, and distinguish a patched price. In `escrow_serial` 2 is more than the opening
balance, so only what a booking at -1 has added can pay for it. Likewise in `withdraw_overlap`
one withdrawal of 2 fits into a balance of 3 and two do not, so a check that lets
everything through overdraws. Keys are used once, so the reachable states are finite.
`MaxRetries` is 5 in the code; the task differs only between "retries left" and
"none left", and the runs use 0 and 3. `MaxHistory` stops new answers after two history
rows: an opening and one answer, with a second answer already in flight. In `Feed` the
cache of 2 and the request of 1 tick let an answer be cached at the last moment of its
request and served at the last moment of its entry; a third request would only repeat
what the second does, and the theorem covers all numbers. `OtpLimit` has a limit of 3, so one
count can start anew in the middle. `Reputation` starts from 9 jobs, where the tenth reaches the
cap; ids of likes, reviews, replies and endorsements are two or three, enough for one to be
withdrawn and used again beside another. Requests, users and ids that nothing
tells apart are declared symmetric in the MC modules; `withdraw_live`, the only run with a
liveness property, declares no symmetry. Where a cfg says that deadlock is not
checked, the parts come to an end: keys, ids or history are used up and nothing has to happen.

Fairness. Only `withdraw_live` assumes any: weak fairness of `JobStep(w)`, that is, a live Celery worker
takes queued tasks (a retry's countdown of three minutes expires) and works on. Clients and Paystack owe
nothing. Faults are on: calls fail, blocks of the task raise, requests and webhooks die. A worker that dies
takes its task with it (`acks_late` is not set) and nothing recovers the withdrawal, so the property excepts
just that.

## 4. What is proved

Every property of the passing runs but the liveness property `SentOrReturned` is stated by a theorem, for
every value of the constants that satisfies the assumptions named in the modules (those of an instance in
the module that holds it): `EscrowAssumption`, `WithdrawalAssumption`, `MessagesAssumption` and so on say
that amounts and bounds are numbers (prices any integers, because the code accepts them; withdrawals
naturals, because `validate_amount` at `wallet/serializers.py:280` refuses negative ones) and that some sets
are finite, and `PartsAssumption` that the parts explored are among those there are. Beyond them only two
theorems assume anything: `SerialKeepsPromise` that there is at most one request (`\A r, s \in Requests : r = s`,
as in the run `escrow_serial`; the run `escrow_lost_update` shows that two break it), and
`ReadAlwaysServed` that `FitsOnAPage` (`MaxMessages <= PageSize`: a listing marks every message of the
conversation and serves one page, so with more rows than a page holds the others are marked as read unseen).

None of the invariants is inductive as it stands. What each needs besides says what the code
relies on without checking it.

`BookingEscrowProofs`. `NeverOverdrawn` and `LedgerAlwaysTellsEscrow` come from `IInv`: `CreateCommit`
writes what the request read minus its price, so `RequestsKnow` says that a validated request's copy of the
balance covers its price; a refund subtracts when the lock's amount is negative, and `NeverOverdrawn` needs
that the ledger tells the lock (only the lock's own amount is refunded) and that a released lock stays
released (`ReleasedStays`); `CreateSave`, `AcceptWrite` and `RejectCommit` write a row without looking, so
it says that the row is there. `EachLockAlwaysPaysOnce` is the action property, step by step.
`UnchangedAlwaysRefunded` needs `PricesAsked` (prices in rows, locks and requests were asked by somebody)
and `PricesKept` (unless a PATCH changed it, the price of a row, and of a request that read it, is what the
lock holds). `SerialKeepsPromise` is the refinement of `EscrowPromise` with `escrow <- lock`; it adds
`ReadIsCurrent` (the copy that a validated request holds is the balance).

`WithdrawalProofs`, whether `Faults` are on or off. `TypeOK` needs `RowsExist` (requests and tasks work on
rows that exist) and `EventTold` (an event being handled carries a verdict). `NeverOverdrawn`,
`CompletedAlwaysPaid`, `FailedAlwaysCredited` and `CreditsAlwaysJustified` share one `IInv`: `CopiesCover`
(what a POST or a give-up read covers what it will write), `VerdictsTold` (event and verification carry what
Paystack said), `VerdictsOnce` (the verification runs at most once per withdrawal, which is why a row
reopened by `Record` is not credited twice), `GiveUpsOnce` (a give-up starts with no retry left and its
credit is the task's last step but one), `QueuedOnce` (one POST queues the task). `StatusMove`, `JobMove`
and `CreditMove` say once how a step moves the state of one withdrawal. `OnePerKeyUnlessRaced` needs
`KeyStaysUnused`: the key that a POST found unused stays so, unless another did too.

`ReferralProofs`. `RewardsAlwaysPaid` needs `HeldAlone`: the task of a row is sent last, so until then
nothing else touches the row, which is why the wallet and Paystack never both pay one withdrawal although
the task is sent for both kinds. `TypeCorrect` bounds the balance by a product of cardinalities
(`BalanceBacked`). `EachPaidOnce` counts: `PaidOnce` (the balance is the number of rewarded referrals) is
kept by `Reward` because the row it pays names as many referrals as it pays for, all of them still converted
(`PostSees`), by the verification because what is in a row has been converted (`RowsConverted`) and the
verification refuses a referral that still is, and by the conversion because what a run has selected is
still pending (`SelectedPending`), until two runs select one referral.

`NegotiationProofs`. `StatusIsInHistory` and `AcceptancesHaveTerms` say where what is not on the row yet is to
be found: `StatusBacked` (in the history, or with the request that opens the negotiation), `StampsTold` and
`StampsCarryTerms` (in the copies that stamped answers are about to save), `TermsComing` (terms of an
acceptance may be overwritten by the stamp of a second one, whose save is then still to come;
a negotiation opened as ACCEPTED is refused by all, `ClosedAtOnce`). They hold until an answer dies
between its commits.

`ChatsProofs`, beside `TypeOK` of the six modules (`ShapesAlwaysKept`):

- `AcceptedForGood`: until two answers overlap the copies they hold are fresh (`CopiesAreFresh`).
- `OneRoomEach` and `EndorsedOnce`: what a request has checked is still so when it writes (`PairIsFree`,
  `StillMissing`).
- `EditsAlwaysFlagged` and `NothingEverUndone`, with any overlap: the flag is saved before the content
  (`FlagFirst`), and each save names its columns.
- `ReadAlwaysServed`: a message that is marked as read is on the page that a listing under way will
  serve (`Delivered`, `OnFirstPage`).
- `StaffAlwaysAssigned`: every admin on the ticket, on a copy of it or on a copy a reply is checked with was
  assigned at some time (`AdminsAssigned`); `AssignmentsKept` is the action property.
- `SeenAlwaysSaved`: what a consumer is about to forward has its row (`SavedHasRow`).

`FeedProofs` and `SocietyProofs`:

- `DeletedPostsLeave`: `CarriedIsFresh` and `CachedIsFresh` bound how long a post in a request's or the
  cache's hands has been hidden by how long that request or entry has lived.
- `TrustAlwaysOutweighs`: integer arithmetic on the weights, with the shares cut at 100.
- `NumbersStayEarned`: `Backed` compares every count stored, or about to be stored, with the rows ever made
  (`Ever`), and `Earned` every score with what jobs, reviews and endorsements so far can give (`Cap`). Both
  bounds only grow, so no delay or reordering of the recounts matters.
- `CopiesFollowReposts`, and the action property `DeletedForGood`.
- `LikedOnce` (`OneRowPerLike`) and `TrustStaysTrue` (`NothingStale`): what holds until two requests
  overlap.

`AccountsProofs`:

- `CodesUsedOnce` and `ResetsAreKept`: until two requests overlap, the code that a request found is unused
  and its copy carries the password of the row (`Undisturbed`).
- `ResetsEndRecorded`, with any overlap: a token on record that a reset has not read was issued after the
  resets it followed.
- `LimitAlwaysHolds`, for any limit and any number of overlapping requests: requests that set the counter
  restart the count, and each may do so once. `WithinLimit` bounds the requests let through so far by those
  a restart can still allow, `Twice(n)` being twice the sum over n restarts (doubled, so that there is no
  division).
- `OneRecipientEach`: whoever has the recipient code, or is about to save it, has a row that the others'
  look-ups see (`OneChosen`). `OneRoleEach`: no flags of profiles that are gone or not yet there are in
  anybody's hands (`CopiesHaveProfiles`, `NoneMeanwhile`). `DeletedForGood` is the action property of the
  catalogue.

Only model-checked: `SentOrReturned`, because liveness under fairness and ENABLED are beyond the provers used;
the four violations, which are counterexamples; and that the proofs' models are not empty, which the
runs show by firing every action.

## 5. What is not modelled

- Deposits. No deposit row can come into being: `DepositSerializer.create` calls
  `create_wallet_transaction`, which reads `validated_data['reference']`; the `KeyError` is
  swallowed and the view answers 400. `verify_deposit_status` and the `charge.success` branch of the
  webhook act on such rows only (the task would also raise, because it locks rows outside a
  transaction).
- Payout requests. The route of the request is shadowed by `bookings/views.py:55` (405).
  A review calls `transaction_ready_exists`, which filters on `idempotency_key`, a column that
  migration 0003 removed (`bookings/booking_transaction.py:85-92`), and raises. `release_funds` is
  therefore unreachable, and a booking becomes COMPLETED only by the administration site, which is
  what `Reputation` has as `Complete`.
- Of the modelled components: addresses, attachments and e-mail of a booking (an exception
  there is `RequestFails`), staff users, the platform fee, webhook signatures, and the
  `WalletTransaction` rows that `deduct_user_balance` and `credit_user_wallet` try to write (their
  `create` raises and is swallowed); negotiations on job posts, which cannot be opened; support
  rooms, which no code creates; texts, tags, images, addresses, favourites, job applications and
  read-only lists; logins with a social account and the lifetime of tokens;
  reviews without stars, which only recompute the trust score.
- Core and configuration: formatting and settings, no state.

Composition. The wallet is written by bookings, withdrawals and rewards. Each writes it in the same
way (`wallet/services.py:56-83`: read, then write, no lock), and the run `escrow_lost_update` shows
what that does within one component; across components no property of the wallet as a whole
holds that a single component does not break already, so they are not composed.

## 6. What the code does that one would not expect

The runs that expect a violation document four of these, with the line that says otherwise.
The others were met while modelling; the models do what the code does.

- Bookings. A price may be negative (`bookings/serializers.py:73`, `bookings/models.py:41`): such a booking
  adds to the balance, and its rejection overdraws a wallet that has spent it. `booking_instance.save()` at
  `bookings/serializers.py:112` comes after the atomic block: when it fails a locked booking stays Pending,
  and when it is late it undoes a cancellation or a deletion, without moving any money a second time.
- Withdrawals. `idempotency_key` is not unique and is looked up before the insert (`wallet/views.py:135`),
  so two POSTs with one key that race both withdraw, though `wallet/views.py:142` promises "Duplicated
  transaction, returning existing transaction" (`OnePerKey` without its `~ raced`). A webhook event is
  stored by reference, so `reversed` after `success` is dropped (`wallet/views.py:253`). A withdrawal may be
  given back by the give-up and by a verdict, or paid and given back.
- Rewards. The verification of a reward withdrawal refuses while its referrals are CONVERTED, which they are
  until it has run, so those paid to a bank never complete and can be asked for again, then into the wallet;
  two overlapping POSTs are paid for the same referrals; and when two runs of the conversion select one
  referral, the later update makes it payable again after it was rewarded (`referral/tasks.py:86`). The
  conversion task is not scheduled (`config/settings/base.py:266`).
- Others. `local_bank` and `exclude_seen` are true for any text, "false" too. Two users with one bank
  account block each other's recipient code. A payout of a part would complete the booking.
- Conversations. Two requests in opposite order open two rooms (`chats/models.py:31`). Overlapping answers
  reopen an accepted negotiation, and an answer that dies after its stamps leaves one that is open and
  cannot be accepted. Overlapping endorsements duplicate; a staff user may move anybody's endorsement,
  checked as if it were their own.
- Accounts. A code works twice for two overlapping requests; a login that overlaps with a reset brings the
  old password back; a reset blacklists the tokens on record, and `get_token` draws a new jti after the
  record was made (`authentication/serializers.py:237`), so a session straight from a login outlives it; the
  daily limit starts anew when two first requests overlap, and its refusal is raised though it is a
  response, so the client sees a 500. `delete_user_account` sets `is_active` and saves only `is_deleted`,
  which a login does not check.
- Posts. A score is at most 0.979, though the docs leave room for more ("1.0+" at
  `posts/services/recommendation_service.py:237`, "~1.5" at `posts/serializers/feed_serializer.py:51`). The
  feed's default ordering by `-created_at` replaces the order of the recommendation. `engagement_count` is
  stale after an unlike, a second like or a deletion. `auto_update_trust_score` never saves. Updates with
  attachments raise. A deleted skill cannot be added again, and a PATCH may exceed the five primary skills.

## 7. What could come next

1. An abstract life cycle of a withdrawal (queued, sent, paid or given back), and the circumstances in
   which `Withdrawal` implements it; likewise for a reward withdrawal.
2. Theorems that relate the overlap flags to who overlaps: `AcceptedIsFinal`, `OneRoom` and the others hold
   while no two requests of the kinds that really conflict overlap, which is less than `overlapped` says.
3. `Payout` and deposits, should the code make them reachable.
