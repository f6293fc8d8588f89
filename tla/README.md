# A verification project for PataSpace

PataSpace is a rental marketplace. A tenant who moves out (the *poster*) lists
the house; a house hunter (the *buyer*) pays credits to unlock the poster's
contact; when both confirm that the house changed hands the poster earns a
commission, paid out over M-Pesa, and the buyer (the *mover*) owes a success
fee. The API (`src/apps/api/src`, NestJS over Postgres, Redis, M-Pesa and
Stellar) holds the logic; the mobile and web applications are clients of it, of
which the mobile one keeps a session of its own.

This directory holds TLA+ models of the API and of the mobile session, TLC
configurations that check them and TLAPS proofs about them.

| Module | Models | Runs | Proofs |
|---|---|---|---|
| `CommissionPayout` | a commission's way through the payout sweep, Safaricom and its callbacks | `payout_safety`, `payout_liveness`, `payout_revived` | `CommissionPayoutProofs` |
| `UnlockLifecycle` | unlocks, confirmations, settlement, handover, refunds, disputes | `unlock_safety`, `unlock_crash` | `UnlockLifecycleProofs` |
| `CreditPurchase` | purchases over M-Pesa and Stellar with their reconciliation | `purchase` | `CreditPurchaseProofs` |
| `CommissionRow` | what a commission promises the rest of the system (abstract) | through `payout_safety`, `unlock_safety` | - |
| `Ledger` | what a wallet promises (abstract) | through `wallet` | - |
| `Wallet` | the account row, its log and its cache; implements `Ledger` | `wallet` | `WalletProofs` |
| `SuccessFee` | fee, settlement and the poster's share | `fee` | `SuccessFeeProofs` |
| `MobileSession` | the app's session and the API's refresh tokens | `session` | `MobileSessionProofs` |
| `Referral` | referrals, the reward job and its advisory lock | `referral` | `ReferralProofs` |
| `Listing` | review, edits and deletion of a listing, its cached pages, its purge | `listing`, `first_invalidation` | `ListingProofs` |

`MC<module>` gives the constants of a module the values of its runs; the `.cfg`
of a run is named in `PROJECT.json`. Definitions whose names end in `Bug` are
faulty variants of a definition that follows, used to see each property fail.

## 1. Inventory

Every handler runs as a sequence of SQL statements at READ COMMITTED. Two forms
matter throughout: the *claim*, `updateMany({ where: { id, status: ... } })`,
one atomic compare-and-set whose count decides what follows, and the *plain
update*, `update({ where: { id } })`, which overwrites whatever is there.
Several replicas of the API run at once, so any two handlers may interleave
between statements. Row-level security (`prisma/migrations`) is taken to let
each service see the rows it works on.

| Component | State | Operations | Talks to | Hard because | Correct when |
|---|---|---|---|---|---|
| **Commission payout**: `jobs/commission-payout.*`, `jobs/commission-settlement.confirmer.ts` | the `commissions` rows: status, conversation id, submission mark, attempts, note, time of the last attempt | daily sweep (recover, promote, flag, list, process), claim, dispute check, send, confirm, record | Daraja B2C, callbacks, disputes, refunds | money moves outside; answers get lost; callbacks race with the sweep; a crash may hit between any two steps | a commission is paid at most once; PAID means settled; a due row is decided in the end |
| **B2C callbacks**: `modules/commission-callback` | the same rows | success, failure, queue timeout | Daraja | early, late, repeated, out of order | a result is recorded and never overwritten |
| **Payout retry**: `modules/admin/application/admin-payout-retry.service.ts` | the same rows | read, guarded flip, process | payout processor | several operators; beside the sweep | a retry never pays twice |
| **Daraja client**: `infrastructure/payment` | none | B2C, B2C query, STK push, STK query | Safaricom | an error says nothing about what Safaricom did | duplicates are told from other errors |
| **Unlock refund**: `modules/unlock/unlock-refund.service.ts`, `report-dead.service.ts` | unlock, wallet, fee, commission, proxy session | one transaction, three triggers | wallet, commission, fee | triggers race; the commission's status is read before it is cancelled | one refund per unlock; never after the payout |
| **Disputes**: `modules/dispute` | one dispute per unlock | create, investigate, resolve, close | refund, confirmation, payout | admins race; resolution spans two transactions | an open dispute holds money back |
| **Credit wallet**: `modules/credit` | account balance, lifetime sums, transactions, cached balance | increment, guarded decrement, refund, bonus, cached read | all that charge or credit | concurrent spends; cached reads | account and log are a ledger; balance never negative |
| **Credit purchases**: `modules/payment`, `jobs/payment-reconciliation.job.ts` | PENDING / COMPLETED / FAILED transaction | create, STK push, callback, reconcile, expire, Stellar deposit | Daraja, Stellar, wallet | replays, redelivery, reconciliation beside the callback, timed-out pushes | a payment is credited exactly once; at most one purchase open to payment |
| **Unlocks**: `modules/unlock/unlock.service.ts` | unlock, listing count, spend | create under a row lock | wallet, listing, proxy session, success fee | checks outside the transaction; unique violation as a race signal | one unlock per buyer and listing; charged once |
| **Proxy numbers**: `modules/unlock/contact` | session: number, two phones, expiry | create, extend, expire, route a call | voice provider | least-loaded pick from stale counts | a call reaches the poster it was meant for |
| **Confirmations, settlement, handover**: `modules/confirmation` | confirmations per side, listing state, commission, fee | confirm, settle, refund the rivals, auto-confirm, reset | commission, fee, refund, listing | both sides at once; a chain of transactions without a retry | one settlement per listing; everything a settlement owes gets done |
| **Success fee**: `modules/confirmation/success-fee*` | fee row, credits applied, cash collected | raise, apply credits, collect, re-split | wallet, commission amount | the amount changes while the payout may be in flight | poster's share and platform's share add up |
| **Listings and moderation**: `modules/listing`, `jobs/listing-cleanup.job.ts`, `jobs/notification.job.ts` | listing status, flags | create, update, soft delete, moderate, expire | refund, cache | moderation beside unlocks | a rejected or removed listing does not come back; its columns agree; a listing with open deals is not deleted by its poster (a deletion refunds nobody: only the handover does) |
| **Listing cache**: `modules/listing/listing-cache.service.ts` | version counters, cached pages | read through, invalidate | Redis | a read that straddles an invalidation; a counter that does not exist yet | a stale page has a cause the code accepts |
| **Idempotency interceptor**: `common/idempotency` | key: locked or stored response | lock, run, store, release | Redis | registered for all requests, but no endpoint asks for it | left out: nothing runs under it |
| **Referrals**: `modules/referral`, `jobs/referral-reward.job.ts` | referral status, rewards | record, qualify, reward | wallet | batch limits; crash between reward and mark | each reward is granted once |
| **Advisory locks**: `common/database/advisory-lock.util.ts` | session lock | try, release | connection pool | release on another connection | one holder; never stuck |
| **Accounts, one-time codes**: `modules/auth` | users, refresh tokens, codes | register, verify, sign in, refresh, recover | e-mail, SMS | two clients redeem one refresh token; verification links invitations | a refresh token is redeemed once |
| Configuration, support, reviews, saved listings, waitlist, uploads, notifications, metrics, administration | single rows | insert, read, update | - | - | left out: no protocol between actors |
| **Mobile session**: `apps/mobile/src/features/auth`, `lib/auth` | stored token, reference, reducer status, the flows in flight | cold start, sign-in, silent refresh, logout | auth API, SecureStore | asynchronous flows between awaits, lost answers, a killed app | one live token per sign-in; no redeemed token kept; a logout lasts |
| Mobile screens, web, contracts, design tokens, infrastructure | - | - | API | - | left out: no shared state of their own |

`PROJECT.json` lists each of these with its files and status, and under
"hazards" what is hard to test in them, line by line.

## 2. Plan

In the order in which they matter to the business; all of it is done.

1. `CommissionPayout`: money leaves the platform.
2. `UnlockLifecycle`: the deal itself, from unlock to handover.
3. `CreditPurchase`: money enters the platform.
4. `Wallet` over `Ledger`: the abstract ledger, and the balance row with its
   guarded decrement as an implementation of it, with the cached balance beside
   it.
5. `SuccessFee`: the money of a confirmed move-in, where settlement, payout and
   refund share rows.
6. `MobileSession`, `Referral` with the advisory locks, `Listing` with its
   cache.

How they compose. `UnlockLifecycle` owns the events that create, cancel and
dispute a commission; `CommissionPayout` has the refund and the dispute as
actions of its own, and seen from `UnlockLifecycle` a payout is the steps
`PayCommission` and `ReopenCommission`. That the two see the same commission is
what `CommissionRow` is for: it specifies the row as either may rely on it, and
both are shown to implement it. `SuccessFee` adds the amounts to both: there a
payout is the listing of an amount, its send and its outcome, a refund one step.
`Wallet` is the state that purchases, unlocks, settlements, refunds and
referrals write by one movement each; they have the credits as a counter, a
boolean or a number that such a movement changes. `Referral` has the advisory
lock under which the sweeps of `CommissionPayout` and of the reward job run one
at a time.

What a next step would take up, with what stands in the way: the attempts and
the expiry of one-time codes and the registration (small, each a single row);
`ProxySession`, for which the code states nothing that a step could violate;
overlapping payout sweeps, which the lost
session of module `Referral` allows and `CommissionPayout` excludes by
assumption.

## 3. CommissionPayout

### State and code

| Variable | Code |
|---|---|
| `row[c].status`, `.orig`, `.submitted`, `.attempts`, `.note` | `commissions.status`, `originatorConversationId`, `mpesaTransactionId` set or NULL, `paymentAttempts`, `lastAttemptError` (NULL, the overdue note, anything else) |
| `aged[c]` | `lastAttemptAt` lies further back than `staleUnsentMs` and `settlementOverdueMs` |
| `dispute[c]` | the unlock's dispute; "open" is OPEN or INVESTIGATING, "over" RESOLVED or CLOSED |
| `stopped` | history: commissions whose dispute was opened while no payout was under way, until it ends |
| `reachable` | commissions whose poster has a phone number; any set, which stays as it is |
| `refund[c]` | where the refund transaction of the unlock stands |
| `issued`, `b2c`, `msgs`, `seen` | Safaricom: ids made by `randomUUID`, what Safaricom knows of each, callbacks sent and callbacks delivered |
| `todo`, `batch` | what the sweep's `Promise.all` has still to do; rows it has listed |
| `pc[w]`, `cand[w]` | the statement a worker (the sweep or an operator's request) runs next and the snapshot it works from |

Each action is one statement or one call to Daraja, with the code's guard:
`RecoverStaleUnsent`, `PromoteEligible`, `FlagOverdue`, `ListDue` for the sweep;
`RetryRead`, `RetryFlip` for the operator; `ClaimDue` to `RecordSendFailure` for
`processor.process`, whose order the labels give; `Deliver` for the callbacks.
`RecordFails` is a database error inside the `try` that surrounds send and
record. `Crash` is the end of a run anywhere: the replica dies or a statement
outside a `try` throws. `RefundRead` and `RefundCommit` are the two statements
of the refund that concern the row. `ReopenDispute` is an investigation that
read the dispute before its end and writes after it (`dispute.service.ts:211`,
a plain update), so "over" is not final.

`DisputeHoldsPayout` says what the check in `processor.process` buys: from the
moment a dispute is opened with no worker past that check and nothing accepted
by Safaricom (`UnderWay`), until it ends, the money stays. A dispute that comes
between the check and the B2C call is not seen (section 12).

### What is abstracted

* One sweep at a time, by the advisory lock. Module `Referral` shows when that
  assumption fails: after the session that holds the lock is lost.
* The batch limit of 50 is left out; nothing waits behind more than one batch
  that stays the same, because processed rows leave DUE.
* `flagSettlementOverdue` reads and writes in one step: it writes the note only.
* A callback handler's read and claim are one step: the claim repeats the read's
  condition, and a handler that stops after the read changes nothing.
* Attempts saturate at `MaxAttempts`, exactly: the code compares them with 0 and
  with the maximum only.
* Amounts, SMS and audit rows are left out.
* Safaricom is outside the repository: it pays a conversation id at most once
  and rejects a reused one (`isDuplicateSubmissionResponse` and the comments of
  `processor.ts` rest on that); its queue may give up on a request, once per
  conversation, and forget it or still carry it out; a call may fail before or
  after it took effect; a query may have no answer; callbacks may be repeated.
  The query may report a failure, as the confirmer's code expects, although the
  live client never does.
* Time: `Age` needs that no worker holds the row. A worker is through with a row
  after at most three HTTP calls of 15 s, the staleness limit is 30 minutes.

### Runs

All use `MCCommissionPayout`: one commission, as rows do not interact except in
the sweep's batch, which the proofs cover for any number; two conversation ids,
one more than the code ever makes; three attempts as in the code.

| Run | Shows |
|---|---|
| `payout_safety` (`MCCommissionPayout.cfg`) | sweep, one retry, callbacks, refund, dispute, one crash: `AtMostOnePayout`, `PaidIsSettled`, `DisputeHoldsPayout` and `DeadLetterJustified` hold, and the rows implement `CommissionRow` (`ImplementsCommissionRow`) |
| `payout_liveness` | the sweep alone, one crash, under fairness: a due row is decided (`DueIsDecided`), and one whose poster has no phone number does not stay claimed (`SkippedIsRequeued`) |
| `payout_revived` | violation: the release for a dispute, a plain update, revives a cancelled commission, which `CommissionStatus` says is "Unlock was refunded" |

The other statements of comments and docs that the code does not keep here have
the same causes: plain updates behind a check of their own, a result that meets
a row in a status its handler does not expect, a crash behind a claim. They are
listed in section 12.

One crash suffices for each crash-dependent behaviour seen: a crash only ends a
run early, and the sweep that follows is a whole run again. Without the operator
the liveness run is smaller and asks a different question: what happens with no
human in the loop.

### Fairness

`FairSpec` assumes that the cron fires and a run once started goes on (weak
fairness of the sweep as a whole), that a request once started goes on, that
Safaricom decides what it accepted and delivers each callback at least once,
that admins end disputes and that time passes. It does not assume that a retry,
a refund, a promotion by a given sweep, a query's answer or a successful send
happens. `FiniteRepeats` in `DueIsDecided` excludes a queue-timeout callback
that is repeated for ever, which would requeue the row for ever, and a dispute
that is reopened for ever, which would keep it from being sent.

### What a commission promises

`CommissionRow` is the commission as the other modules use it: a status (none,
waiting for its payout, PAID, CANCELLED) and the unlocks that have had a
dispute. It is raised once (`Arise`), paid while it waits (`Pay`), cancelled by
a refund whatever became of it since (`Cancel`), and a paid or cancelled one
waits again only if its unlock was disputed (`Reopen`). The last two are wider
than one would wish, because the code's writes are plain updates; that nothing
else is possible is the point. `View` maps the six statuses of the table to
these: PENDING, DUE, PROCESSING and FAILED all wait.

## 4. UnlockLifecycle

### State and code

| Variable | Code |
|---|---|
| `market[l]`, `deleted[l]` | `listings.status` (ACTIVE stands for UNLOCKED too, which no code sets) and `isDeleted` |
| `state[u]`, `sides[u]` | the unlock row (none, held, refunded by `isRefunded`) and its `confirmations` |
| `fee[u]`, `commission[u]`, `dispute[u]` | the status of the unlock's row in `success_fees`, `commissions`, `disputes`; commission PENDING stands for all that is neither PAID nor CANCELLED |
| `pc[w]`, `job[w]`, `targets[w]`, `seen[w]` | the next statement of a request or of the nightly job, what it was asked, the unlocks it is to refund and what its refund transaction has read |
| `failed` | the failures `refundUnlocksForListingInvalidation` collects for the log |
| `credited`, `winners`, `withdrawn`, `cut` | history for the properties: refunds credited, unlocks whose settlement claimed the listing, listings the poster deleted himself, listings whose sweep a crash cut |

A request starts with the read that its checks rest on (`OpenUnlock`,
`ReportDead`, `Confirm`, `AutoConfirm`, `Investigate`, `ResolveWithRefund`,
`ResolveWithoutRefund`, `Close`) and then runs statement by statement, or
transaction by transaction where row locks or a claim make the transaction
atomic:

* unlock: `charge`
* report: `refund`, `unwind`
* confirm and auto: `insert`, `settle`, `fee`, `claim`, `list`, and for each
  rival `refund`, `unwind`
* resolve: for a refund `refund`, `unwind`, then `resolve`; then, for a deal
  both confirmed, `settle` and on as above

`insert` is `createConfirmation`, `settle` the read of
`ensureSettlementIfEligible`, `fee` the transaction of
`ensureForConfirmedUnlock`, `claim` and `list` are `handOverListing`.
`SettleFee`, `PayCommission`, `SoftDelete`, `AdminDelete` and `FileDispute` are
requests whose effect is one guarded step. `ReopenCommission` is the payout's
release for a dispute as far as it shows: it finds the commission paid or
cancelled since the claim.

### What is abstracted

* The proxy session, `unlockCount`, SMS, audit rows, caches and amounts are left
  out. The balance is `Wallet`'s, the amounts are `SuccessFee`'s; a spend that
  fails is `Refuse`.
* The answer for an unlock that is there already changes nothing and is left
  out.
* Filing a dispute reads and inserts in one step; the unique `unlockId` rejects
  the second insert as the read would have.
* `AdminDelete` reads and writes in one step. With its read apart, a listing
  that is already deleted may be deleted once more, after a handover too.
* Transactions run at READ COMMITTED. `RefundRead` and `Unwind` are apart
  because the refund decides on the commission it read; the claim on
  `isRefunded`, the credit and the writes behind it are one step, as nobody else
  gets past the claim and the rows become visible together.
* The nightly job handles its candidates one after another; here each candidate
  is a job of its own that begins with the read. A stale read that is older
  still is caught by the same two checks, the unique index and the settlement's
  read.
* All confirmations may be old: `AutoConfirm` needs no time.
* `Crash` ends a request anywhere: a replica dies or a statement throws.
  `RefundAborted` is a refund that throws and is caught by the sweep's `try`.

### Runs

All use `MCUnlockLifecycle` with two workers: every property violated and every
mutant found needs two requests side by side, and requests meet only in the rows
they share. Bounds: `Disputable`, the unlocks somebody may dispute, and
`MaxCrashes`. Requests come for ever; when all is sold and refunded the system
rests, so deadlock is not checked.

| Run | Instance | Shows |
|---|---|---|
| `unlock_safety` (`MCUnlockLifecycle.cfg`) | one listing, two buyers, one disputable unlock | `CreditsConserved`, `SingleHandover`, `CommissionBacked`, `ConfirmedSettles`, `WithdrawalSparesBuyers` hold; the commission implements `CommissionRow` (`ImplementsCommissionRow`) |
| `unlock_crash` | two buyers, one crash, no dispute, fair | `RivalsAccounted` and `HandoverHasWinner` hold; so does `RivalsRefunded`, which excepts refunds that fail and sweeps that a crash cuts |

`SingleHandover` excepts deleted listings, which may be handed over twice
(section 12). `ConfirmedSettles` is about unlocks without a dispute and without
a crash: a resolution may miss a confirmation, and a request that crashes
between storing the second confirmation and settling leaves a deal that nothing
settles later. `RivalsRefunded` excepts refunds that fail and sweeps that a
crash cuts, after which nobody refunds the rest. `WithdrawalSparesBuyers` is
about the poster's own deletion, which an unlock that is not confirmed by both
blocks: a charge that checked the listing before the deletion must not slip in
behind it. An admin's deletion asks for nothing and is left out of it.

`FairSpec` assumes of each worker only that a request once started goes on
unless it crashes. No request has to come.

## 5. CreditPurchase

### State and code

One user's purchases; `Key` are the idempotency keys, of which each names one
row.

| Variable | Code |
|---|---|
| `status[k]`, `rail[k]`, `tracked[k]` | `credit_transactions.status`, `paymentMethod`, whether `mpesaTransactionId` (the CheckoutRequestID) is recorded |
| `age[k]` | 1: older than the limit of the reconciler; 2: past the time a Stellar payment is waited for |
| `money[k]` | the provider: prompt on the phone or address quoted, paid, paid short, declined; "curt" is a payment of M-Pesa whose callback lacks the receipt or the amount |
| `credited[k]` | history: balance increments made for the row |
| `pc`, `job`, `targets`, `found` | the next statement of a request or of a reconciler, the purchase it creates, those it has listed, what it learnt of one |

A request runs the reconciler first (`list`, `query`, `settle`), then `guard`,
`insert`, `recheck`, and `void` or `send`, `record` or `fail`. A cron run of any
replica runs the reconciler alone, without a lock. `HandleCallback` is
Safaricom's callback, which may come repeatedly, late or never. Its result is
`CallbackOutcome`: a success without receipt or amount is handled as a failure.
A query's answer carries neither (`Outcome`), so the reconciler completes such a
payment if it comes first. `PaidIsNeverRefused` and `PaidIsCredited` are about
payments that are reported in full; `CompletedIsPaid` is about both.

### What is abstracted

* The check that the paid amount is the quoted one is left out for M-Pesa, where
  the prompt fixes the amount; a Stellar payment may be short.
* A replay, a request with a key that has a row, answers and changes nothing.
* `Age` needs that nobody creates the purchase any more: the calls of a request
  end within their timeouts, the limits of the reconciler are minutes.
* A callback that comes before its CheckoutRequestID is recorded is dropped by
  the code and so has no step.
* What the reconciler skips because Safaricom has no answer yet, or none at all,
  is `QueryInVain`.

### Run and fairness

`purchase`: two keys, two requests, one reconciler, one crash. Two requests are
what two purchases need to race in the guard and the check after the insert; a
reconciler beside them and beside the callback gives three that race to settle.

`FairSpec`: the cron fires and a run goes on, a request goes on, a prompt is
answered or lapses (which Safaricom ensures; a Stellar payment may never come),
time passes, and a query repeated for ever is answered at last (strong
fairness). No callback has to come: `PaidIsCredited` and `PendingIsDecided` hold
by reconciliation alone.

## 6. Wallet and Ledger

`Ledger` is the promise: a balance that is never negative and a log in which
each movement starts where the last one ended. `Wallet` is the code: the
transactions of `credit.service.ts` and of whoever calls it. `account` and `log`
are the rows as committed, `draft[w]` the account as the open transaction of `w`
sees it, `holder` who holds the row lock that its UPDATE took. `Start`, `Move`,
`Record` and `Abort` are the request, the guarded UPDATE, the insert with the
commit, and the rollback that a later statement of the surrounding transaction
causes; `Invalidate` and `InvalidateFails` follow the commit. `GetBalance`,
`Fetch` and `Store` are the cached read, `Expire` the TTL.

The refinement maps `balance` to `account.balance` and `log` to the rows without
their kinds. It is not trivial: the row's balances are written from what the
UPDATE returned, and hold only because the lock keeps others away until the
commit.

Abstracted: statements before the UPDATE and after the insert do not touch the
account, so the transaction has two steps; the first account row is there from
the start (an upsert that does nothing); ids and descriptions are left out.

Run `wallet`: three workers, amounts 1 and 2, three movements: a spend, a refund
and a bonus or two of one kind overlap while a reader straddles them. `late`
marks a cache entry that an overtaken read or a failed invalidation left behind;
`StaleIsExplained` says that there are no others.

## 7. SuccessFee

### State and code

`fee[u]` and `commission[u]` are the unlock's rows in `success_fees` and
`commissions` (with the amount; PENDING stands for ELIGIBLE and DUE too, which
the split treats alike), `quote[u]` the amount the payout sweep has listed,
`sent[u]` the one it asked Safaricom to pay, `snap[w]` the fee row a request has
read, `rows` the ids of fee rows, as a row that a refund deleted may be made
again.

`ReadUnlock`, then `CreateFee` or `FindFee` and `ShareCommission`, are
`ensureForConfirmedUnlock`: a Prisma upsert whose update is empty takes no lock,
so a repeated settlement shares by a figure that may be stale. `ReadFee`,
`CheckBalance`, `SettleFromCredits` or `LoseClaim` are the settlement from the
wallet. `SpendElsewhere`, `ListForPayout`, `SendPayout`, `SettlePayout` and
`RefundUnlock` are the others that touch the rows. The refund is one step here;
its stale read is in `UnlockLifecycle` and `CommissionPayout`.

### Arithmetic

`PosterShareKes` is `Math.round(c * splitPoster)` in doubles. The product falls
below the half for some amounts whose exact product ends in .5 (at 0.7, 73 of
0..5000 do); these are the constant `RoundsDown`, any set in the proofs and the
amounts of the instance in the run, whose fee of 45 is one of them. How a fee
follows from a rent is a constant.

`splitPoster` is configuration that an admin may edit. Each request reads it
once before its transaction, from a cache of its process that another replica's
edit does not clear, so `CreateFee`, `ShareCommission` and `SettleFromCredits`
each pick any value of `Split`, the values it is set to over time, in percent.
The bounds are therefore existential: an amount is at most the share of what was
collected, and at least that of the unlock's credits, at a split that was set;
the proofs have the same split for both (`Fair`).

### Run

`fee`: two unlocks of one mover, so that settlements compete for one wallet, two
requests, one refund, splits of 60 and 70 %; one fee is partly covered by the
unlock's credits, the other fully. `PosterWithinShare` and `PosterKeepsBase`
bound what is paid from both sides. Between the bounds the late share may be
missed (section 12).

## 8. MobileSession

### State and code

`live`, `login`, `issued`, `revoked` are the API's `refresh_tokens`: those that
can be redeemed, the sign-in each descends from, how many there were, those that
expired or were revoked. `late` are the refreshes the API is still at work on
although no flow waits for them, `logouts` the logouts on their way to it.
`store`, `ref` and `ui` are SecureStore, `refreshTokenRef.current` and the
reducer's status; `pc[f]` and `held[f]` the next step of each flow between
awaits and the token it works with. `loggedOut` is history: how the user, who
has not signed in again, logged out. The flows are the cold start, the
single-flight refresh, sign-in and logout of `auth-provider.tsx`.

At the API a refresh is two steps: `FindToken` reads the row, `Redeem` deletes
it by its id and issues the next one, which throws when the row is gone
(`Rotate`). Two requests may have read one token before either redeems it.
`Fail` is an error or an answer that does not come; in the second case the
request goes on without its flow (`LeaveLate`, `RedeemLate`). `EndSession` is
the API's part of a logout.

`persistRefreshToken` is two steps as well: `SetRef` assigns the reference at
once, then `StoreToken` or `EraseToken` waits for SecureStore, which may fail
without the flow noticing, or be cut off by `Restart`. `Logout` clears the
reference, then waits for SecureStore (`EraseToken`), then tells the reducer
(`DispatchOut`), then the API (`LogoutOnServer`), whose answer nobody waits for.

Abstracted: access tokens (they matter by the 401 that starts a refresh); a
password reset, a ban, expiry and pruning are `Revoke`, and the device's own
part of a password reset, which is that of a logout without the API, is left
out.

### Run and fairness

`session`: three tokens, one restart. Three are a sign-in, its refresh and
either a second refresh or one more sign-in, which is what a race for one token
and what a session after a logout take. When the tokens are used up nothing need
happen any more, so deadlock is not checked.

`FairSpec` assumes that the event loop runs what the cold start has ready and
that SecureStore answers or fails (weak fairness of `Boot`); no call to the API
is assumed to end, as `fetch` is used without a timeout. So `ColdStartEnds` is
conditional: *if* the calls the cold start waits for end, with an answer, an
error or a failing network, the splash screen ends too.

`LogoutIsFinal` is about a logout beside no other flow that SecureStore or the
API carried out. When the delete fails or is cut off *and* the API is not told,
or beside another flow, the session comes back (section 12).

## 9. Referral and the advisory lock

### State and code

`status[i]` and `joinedAt[i]` are the rows of `referrals`, `members` and
`buyers` who verified a phone and who completed a purchase, `bonus[i]` counts
bonuses. `lock` is Postgres' session lock, which the session that has it may
take again; `took[r]` is the session on which the job of replica `r` took it, or
Null once that session has ended; `todo` and `paying` are the sweep's batch and
the referral it is at; `leaks` are sessions that keep a lock no job knows of.

`TryAdvisoryLock` and `ReleaseAdvisoryLock` each run on *any* connection of the
replica's pool, as Prisma does outside a transaction; a release on another one
returns false, which the job ignores. `ReleaseFails` is a release that throws,
of which the job only warns. Either way the session keeps the lock (`Leak`).
`Disconnect` ends a session.
`ListEligible` takes the oldest batch, `CheckPurchase` goes through it,
`RewardReferral` claims and credits in one transaction, `RewardFails` is one
that fails and is counted. `SweepAborts` is a failure outside of that `try`, in
the list or in the look at an invitee's purchases: the sweep ends there, and the
`finally` releases the lock.

Abstracted: the order inside a batch is any; rows that joined at the same moment
(all invitations of one number do) are ordered by the database as it likes. A
person stands for his phone number. `VerifyOtp` links what is INVITED; it does
so for members too, because the code also links when a member verifies a
recovery code.

### Run and fairness

`referral`: three invitations (two of one invitee, one of an invitee who refers
himself), batches of one so that a batch is full, replicas with two connections
and with one, a lock held at most twice, one lost session, one failed call of
the job to the database (a reward, a read or a release). The replica with one
connection leaks by a failed release only, the other by a misdirected one too.
When a leaked lock is held as often as the bound allows no sweep can start, so
deadlock is not checked. `FairSpec`: each replica's cron fires for ever, in a
way that finds the lock free if it is so again and again (strong fairness), and
a sweep that has started ends. `DueIsRewarded` excepts the two ways in which the
code really withholds a bonus: a batch that stays full of older referrals whose
invitees never buy, and a lock leaked for good.

## 10. Listing and its cache

### State and code

`row` is the listing (status, approval, reason, deletion and its age, a counter
for edits, unlocks), `photos` the objects in storage. A writing request reads
the row (`ReadRow` with the check of its handler, `Admissible`), writes its
columns later (`WriteRow`, or `WriteNothing` where the write repeats a
condition), and invalidates (`Invalidate`; `InvalidateFails` after one increment
or none). `Written` says which columns each of the eight requests writes.
`ReadPage`, `Fetch` and `Store` are a reader that fills the cache; `version` and
`shelf` are the counters and pages in Redis, where 0 is a counter that does not
exist. `SelectForPurge`, `PurgePhotos`, `PurgeRow` and `PurgeFails` are the
weekly job.

### What is abstracted

* The read of the version and the set of a fill are one step.
* What blocks a deletion (an unlock that is open) is `UnlockLifecycle`'s; here a
  deletion may always come, which is more than the code allows.
* An unlock and a handover are the column each writes.
* Pages under older versions can never be read again, so only the last is kept.
* Media uploads, the lock of the price after an unlock and filters are left out.

### Runs

`listing`: two overlapping requests and four writes in all, which is what it
takes for a rejection, a new hand-in and a second decision to cross
(`RejectedStaysOff`); the page is the browse page, whose answer without the
listing is cached too. `first_invalidation`: one write, the owner's page. A row
that is purged and a behaviour out of writes stand still, so deadlock is not
checked in either.

| Run | Shows |
|---|---|
| `listing` | `StatusAgrees`, `RejectedStaysOff`, `DeletionIsFinal`, `PhotosLast` and `StaleIsExplained` hold |
| `first_invalidation` | violation: "Invalidate relevant caches on create, update, delete, approve, reject"; the first increment of a missing counter yields the version readers have assumed for it, and drops nothing |

## 11. Proofs

Every theorem holds for all values of the constants that satisfy the module's
one or two named assumptions, which TLC evaluates in the runs. Type correctness
is proved in every module rather than run. Every safety property and every
refinement that a passing run checks is a theorem; what the runs alone show is
liveness.

| Theorem | Property | The invariant behind it |
|---|---|---|
| `WalletProofs!Refinement` | `ImplementsLedger` | `Exclusive` |
| `WalletProofs!CacheWasTrue` | `CachedWasTrue` | `Exclusive`, `CacheInv` |
| `WalletProofs!StaleExplained` | `StaleIsExplained` | itself, under `Exclusive` |
| `CreditPurchaseProofs!OnceCredited`, `CompletedWasPaid`, `NeverRefused` | `CreditedOnce`, `CompletedIsPaid`, `PaidIsNeverRefused` | `Blank`, `Creating`, `Reconciling`, `Refused` |
| `CreditPurchaseProofs!OneOpen` | `OneOpenPurchase` | the above and lemma `Opens` |
| `SuccessFeeProofs!NotOvercharged`, `WithinShare`, `KeepsBase` | `NeverOvercharged`, `PosterWithinShare`, `PosterKeepsBase` | `Rows`, `Snaps`, `Shares` |
| `MobileSessionProofs!OneToken`, `HeldWorks`, `LogoutLasts` | `OneTokenPerLogin`, `HeldTokenWorks`, `LogoutIsFinal` | `Steps`, `Numbered`, `Unstored`, `RefWorks`, `Gone`, `Failed` |
| `WalletProofs!FiguresAddUp` | `LifetimeAddsUp` | `SumsInv` |
| `ListingProofs!ColumnsAlwaysAgree`, `RejectedIsOff` | `StatusAgrees`, `RejectedStaysOff` | `ReviewInv` |
| `ListingProofs!DeletedForGood` | `DeletionIsFinal` | the typing, by `RowChanges` |
| `ListingProofs!PhotosGoLast` | `PhotosLast` | `PurgeInv` |
| `ListingProofs!StalenessExplained` | `StaleIsExplained` | `CacheInv` |
| `CommissionPayoutProofs!PayoutRefines` | `ImplementsCommissionRow` | `ReleaseInv` |
| `UnlockLifecycleProofs!CommissionRefines` | `ImplementsCommissionRow` | `LifecycleInv` |
| `ReferralProofs!OnceRewarded`, `LockAccounted` | `RewardedOnce`, `LockIsAccounted` | `Bought`, `LockInv` |
| the others of `CommissionPayoutProofs`, `UnlockLifecycleProofs` | below | below |

### Wallet

A step of `Wallet` maps to a step of `Ledger` or to a stutter: only `Record`
moves `account` and `log`, and there the draft must still be what the movement
makes of the committed row. `Exclusive` says so: who is at `record` holds the
lock, had the balance to cover the movement, and has `Moved` of the account as
draft; nobody else can commit while he holds the lock. `CacheInv` adds that what
is cached or about to be was a balance after some commit.

`FiguresAddUp` is about sums over a log of any length, which a prover without
induction over data cannot compute. The behaviour carries the induction: a log's
`Total` is the last value of a function over its prefixes, there is only one
such function (`OneSum`, the invariant `SumsInv`), and the commit that appends a
row extends it by that row (`SumOfAppended`). So each commit moves the sums by
its own amount, and the figures by the same.

### CreditPurchase

None of the properties is inductive by itself. The plain updates `Void` and
`MarkStkPushFailed` would overwrite a paid row, so `Creating` says that a
request past its insert is alone with its row, which is pending, untracked and
too young for the reconciler. What a reconciler learnt may be old when it acts,
so `Reconciling` says that what it holds stays true: "paid" and "declined" are
final. `OneOpen` needs no more than that a purchase becomes open by its
request's second check only, which finds no other pending (`Opens`).

### SuccessFee

Snapshots age while others settle and refunds delete rows, so `Snaps` says what
remains true of one: it was a row of its unlock with no more cash than has been
taken by now. `Fair` bounds an amount by the share of the unlock's credits and
that of all that was taken; `Shares` puts every commission, every listed and
every sent amount between the two. That the share grows with the sum is lemma
material (`PosterShareKes` is a division with a rounding that may go down at any
set of amounts).

### MobileSession

`HeldTokenWorks` is about rest; `RefWorks` says what holds meanwhile: whoever
redeemed the token the app sits on is on his way to replace or to clear it.
`Unstored` says that a token not yet stored is its flow's alone, so that nobody
else redeems or ends it. `Gone` says that after a logout beside nothing else
there is nothing left to sign in with (`Left({})`); `Failed` that after one that
left its token in SecureStore there is nothing but that token, so that the API's
end of it makes the logout last after all.

### Referral

`LockInv` relates a sweep's belief to Postgres: a sweep that knows its session
holds the lock on it, and a session that holds it more often than that has
leaked it. `RewardedOnce` does not rest on the lock: the claim on JOINED commits
with the bonus.

### CommissionPayout

`CommissionPayoutProofs` proves `TypeCorrect`: the variables keep their types,
with the strengthening that a worker at work on a row has a snapshot of one.

From there it proves, for any sets of commissions and operators and
any number of crashes:

* `PayoutOnce` (`AtMostOnePayout`). The inductive invariant `ConvInv` says that
  Safaricom knows no conversation id but the row's. Its parts say why: a
  worker's snapshot and every row of the sweep's batch still have the row's id;
  a worker past `ensureOriginatorConversationId` has one; a FAILED row has one,
  so that only the sweep ever makes an id, for a row nobody else makes one for.
  The last point is what makes the plain update in
  `ensureOriginatorConversationId` safe.
* `PaidMeansSettled` and `DeadLettersJustified`, from `SettlementInv`: results
  in flight or in a worker's hands are what Safaricom decided.
* `DisputesHold`, from `StoppedInv`: while a dispute stops a commission it is
  open and no payout is under way, because a worker that comes to the check
  finds it open. That a row is PAID only after a settlement (`SettlementInv`)
  does the rest.
* `UnsettledByPlainUpdates` (`OnlyPlainUpdatesUnsettle`), an action property,
  from `StatusWritten`, which lists who writes which status.
* `PayoutRefines` (`ImplementsCommissionRow`). Most steps do not show in the
  abstract row (`QuietRows`); `OutcomeSteps` has those that do. The release for
  a dispute is a step `Reopen` only because `ReleaseInv` says that its worker
  has read a dispute of the row's unlock, which may be over by now but stays
  on record (`DisputeMonotone`). The theorem says more than
  `UnsettledByPlainUpdates` about a cancelled row and less about who writes, so
  both are kept.

The assumptions are those of `PayoutAssumption`: `MaxAttempts` and `MaxConv` are
positive, the sweep is not an operator.

### UnlockLifecycle

`UnlockLifecycleProofs` proves, for any listings, buyers, workers, disputes and
any number of crashes, `TypeCorrect` and:

* `CreditsOnce` (`CreditsConserved`), `CommissionsBacked`,
  `HandoversHaveWinner`, `HandoverOnce`, `SweepComplete` and
  `WithdrawalsSpareBuyers` (`WithdrawalSparesBuyers`).

The inductive invariant is `LifecycleInv`. Beside the properties themselves it
says what each step of a request relies on: a worker at `fee` works for an
unlock with both confirmations (none is ever taken back), one at `claim` for one
whose commission is stored, one that sweeps for a listing that is not ACTIVE any
more (`SettlementInv`); a refund that is to cancel a commission has seen one
(`RefundInv`); a listing that is not deleted is handed over to nobody, or is
CONFIRMED with one winner (`HandoverInv`); a withdrawn listing stays deleted,
and confirmations stay (`WithdrawnInv`). `RivalsAccounted` is inductive given
`SettlementInv`: rows only become held while the listing is unlockable, which it
no longer is when a winner has claimed it; the worker at `list` works for a
winner (`SettlementInv`, `TaskInv`), so it lists every other holder; and a sweep
goes on until a rival is refunded, has failed or is cut off (`SweepGoesOn`,
`RecordGrows`). The lemmas `RowSteps`, `ListingSteps`, `SettlementMoves`,
`TaskMoves` and `SweepMoves` say once, for all actions, how the rows of one
unlock, one listing and the steps of one worker may change, and every invariant
is proved from them.

* `ConfirmedDealsSettle` (`ConfirmedSettles`), where two requests store the two
  confirmations at once and each may miss the other's. `DealInv` says it before
  the requests come to rest: a deal confirmed by both has a request at the
  settlement or is settled. A confirmation is always stored by a request that
  reads both next (`SideSteps`), and whoever reads second reads both; a request
  that gives up at the settlement has found the deal refunded or disputed
  (`SettlingGoesOn`). `PaidFirst` keeps a confirmation from preceding its
  payment.
* `CommissionRefines` (`ImplementsCommissionRow`), from the same `RefundInv`: a
  refund cancels what exists.

The one assumption is `LifecycleAssumption`.

### Listing

A request decides on a row it read before others wrote, so nothing can be said
of its snapshot; what helps is what `Written` makes of whatever row it meets
(`WrittenRow`): each of the eight requests writes its status together with the
flags that belong to it, none writes the deletion back, only an approval
approves. `ReviewInv` adds to `StatusAgrees` that after a rejection the row is
not approved until an approval; `PurgeInv` that whoever is about to purge the
row or has purged its photos found it deleted, which it stays. `CacheInv` says
that the page last stored is never under a version still to come
(`ShelfBehind`), so that an increment always leaves it behind: a stale page
needs a request that has still to invalidate, an overtaken fill, a failed
increment or the missing counter of section 12. `RowChanges` says once how a
step may change the row.

The assumptions are `ListingAssumption` and `NullAssumption`: no row is the
value for "no row".

### Only model-checked

* The liveness properties: `DueIsDecided`, `SkippedIsRequeued`,
  `RivalsRefunded`, `PendingIsDecided`, `PaidIsCredited`, `ColdStartEnds`,
  `DueIsRewarded`. Liveness under fairness is out of the prover's reach.
* The statements that turned out to be violated.

## 12. Known divergences

What the code does against what a document or a comment says. The first two are
runs; the others were met while modelling and are stated here without a run of
their own. Where a property would fail because of one, it excepts exactly that
case, as said with the property.

* `commission-payout.processor.ts:77`: the release for a dispute revives a
  cancelled commission (`payout_revived`).
* `listing-cache.service.ts:56`: the first invalidation of a listing drops
  nothing (`first_invalidation`).
* `unlock-refund.service.ts:133` and `:212`: the refund reads the commission's
  status and cancels by a plain update, so that it may commit over a payout that
  was made in between, although it "Cannot refund an unlock after the commission
  has already been paid" (`:136`).
* `commission-payout.job.ts:197`: `NOT note = ...` leaves out the rows whose
  note is NULL, so overdue rows without an earlier error are not flagged.
* `commission-timeout.service.ts:61` requeues a row and keeps
  `mpesaTransactionId`; if the next claim crashes,
  `commission-payout.job.ts:168` takes the row for one that was sent and nobody
  recovers it.
* `success-fee.service.ts:62`, `settlement.service.ts:42`: a refund between the
  settlement's read and its writes settles a refunded unlock, which
  `confirmation-eligibility.policy.ts:40` excludes.
* `listing-handover.service.ts:66`: the claim matches a deleted listing; with a
  deletion between two settlements both claim it, and each sweep refunds the
  other's winner.
* `dispute.service.ts:309`: the resolution settles by confirmations read before
  it; one that arrives between the read and the resolution triggers nothing.
* `listing-handover.service.ts:44`: the comment at `:107` lets a failed refund
  wait for a reconciliation, but nothing reconciles rivals after a crash.
* `mpesa-purchase.service.ts:43`: a push whose answer is lost is marked FAILED
  although its prompt may be live; who pays it is not credited, and he may be
  asked to pay a second prompt, which `payment.service.ts:111` calls impossible.
  Of purchases created at once all may cancel each other, which is safe. A
  Stellar payment that arrives after its purchase expired is not credited
  either.
* `mpesa-purchase.service.ts:76`: a callback with result code 0 but without a
  receipt string or an amount fails the purchase. The schema of the contracts
  makes `CallbackMetadata` optional, so such a callback is accepted, and a buyer
  who paid is not credited unless the reconciler came first.
* `auth-provider.tsx:114` calls it the "worst case" of a failed SecureStore that
  "the user is asked to log in again next cold start". A failed or interrupted
  *delete* leaves the token of a session that was logged out; if the API is not
  told either (`:283`, best effort), the next cold start signs in with it.
* `api-client.ts:121` and `:135` call `fetch` without a timeout: a request that
  hangs keeps the splash screen of a cold start, and one that hangs in a refresh
  every call that joins it.
* `apps/mobile/src/lib/auth/session-state.ts:40` ignores a late refresh in the
  reducer, but its token is stored before that, so that the next cold start
  signs in with it although the user has logged out.
* `success-fee-settlement.service.ts:116`: a settlement while the payout is in
  flight raises the commission's amount but not the one sent, where
  `Docs/11_Critical_Product_Patches_v1.2.md:32` has the commission be 70 % of
  what was collected.
* `success-fee.service.ts:83`, `success-fee-settlement.service.ts:124`: a
  repeated settlement or a payment of the fee shares *all* that was collected
  anew, at the split of now, where `system-config.service.ts:7` says that "edits
  only affect NEW pricing snapshots, never existing holds or fees". The repeated
  settlement asks for no status, so it may change the amount of a commission
  that has been paid.
* `commission-payout.processor.ts:71`: a dispute that is filed after this check
  and before the B2C call is not seen, and the payout goes out over it.
* `referral-reward.job.ts:67`: a failed release is logged and leaves the lock to
  its session; sweeps on any other connection are skipped until it ends. The two
  reads outside the `try` (`:88`, `:110`) abort the sweep at the first failure,
  where the loop means to count failures and go on.
* `admin-listing.service.ts` deletes without `deletedAt`, so such listings are
  never purged, where `Docs/02_Database_Schema.md:794` says "90 days".
* `referral.service.ts:77`: "0 or 1 in practice", but the invitations of several
  referrers to one number all join and all earn a bonus.
* Two checks stand outside of the statement that acts on them, which no document
  speaks of: the unpaid fee (`unlock.service.ts:180`), so that unlocks begun at
  once may pass it together, and the dispute's status
  (`dispute.service.ts:183`), so that an investigation may reopen a dispute that
  is resolved meanwhile.

## 13. Not modelled, and why

* The share of the implementation's lines that the models cover stays small, and
  a larger one is not to be had without modelling what has no states: of some 49
  000 lines most are screens and components of the mobile and web applications,
  mock data, modules of wiring, DTOs, seeds and reports.
* Proxy numbers: which number a call is bridged over is a heuristic from counts,
  and a caller is routed by the session of his own number; the code relies on no
  relation between steps.
* The idempotency interceptor is registered for every request, but no controller
  applies `@Idempotent`; the purchases keep their own keys.
* One-time codes (attempts and expiry), registration, magic links: one row each,
  with single-statement steps.
* Configuration, support, reviews, saved listings, waitlist, reports, uploads,
  notifications and metrics: single-row operations without a protocol, or best
  effort that nothing reads back.
* Row-level security: taken to let each service see the rows it works on.
