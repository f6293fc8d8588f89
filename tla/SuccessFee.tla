----------------------------- MODULE SuccessFee -----------------------------
(***************************************************************************)
(* The money of a confirmed move-in: the fee the mover owes, the unlock    *)
(* credits counted towards it, what he settles from his wallet, and the    *)
(* poster's commission, which follows what was collected while its payout  *)
(* and refunds go on.  A step is one transaction, or one statement whose   *)
(* result a later statement relies on.                                     *)
(***************************************************************************)
EXTENDS Integers, FiniteSets

CONSTANTS
    Unlock,     \* confirmed unlocks of one mover
    Worker,     \* requests at work at the same time
    Null,       \* "no row", "no snapshot"
    Due,        \* the fee of each unlock: listings.successFeeKes
    Spent,      \* the credits each unlock had cost
    Wallet,     \* credits the mover has left
    Split,      \* what pricing.splitPoster is set to over time, in percent
    RoundsDown, \* <<amount, split>> whose product a double stores too low
    MaxRefunds  \* bound on the refunds of a behaviour

ASSUME FeeAssumption ==
    /\ Due \in [Unlock -> Nat]
    /\ Spent \in [Unlock -> Nat]
    /\ Wallet \in Nat
    /\ Split \subseteq 0..100
    /\ MaxRefunds \in Nat
    /\ Null \notin Nat

-----------------------------------------------------------------------------
(* The arithmetic: success-fee.math.ts, pricing.policy.ts *)

Least(a, b) == IF a <= b THEN a ELSE b

Collected(f) == f.applied + f.cash

RemainingFeeKes(f) == IF Collected(f) > f.due THEN 0 ELSE f.due - Collected(f)

\* Math.round of collected * splitPoster
PosterShareKes(c, s) ==
    IF <<c, s>> \in RoundsDown /\ (s * c) % 100 = 50 THEN (s * c) \div 100
                                                     ELSE (s * c + 50) \div 100

PosterShareOfDueBug(f, s) == PosterShareKes(f.due, s)

PosterShareOfCollected(f, s) == PosterShareKes(Least(Collected(f), f.due), s)

-----------------------------------------------------------------------------
VARIABLES
    fee,         \* the unlock's row in success_fees
    commission,  \* its row in commissions: status and amountKES
    refunded,    \* refunded unlocks
    quote,       \* the amount of a candidate the payout sweep has listed
    sent,        \* the amount Safaricom was asked to pay
    balance,     \* the mover's credits
    pc, job,     \* what each worker does next, and for which unlock
    snap,        \* the fee row it has read
    rows,        \* fee rows made so far: their ids
    taken,       \* auxiliary: credits taken for a fee
    refunds

feeVars == <<fee, rows, taken>>
payVars == <<quote, sent>>
wrkVars == <<pc, job, snap>>
vars == <<fee, commission, refunded, quote, sent, balance, pc, job, snap, rows,
          taken, refunds>>

Fee == [id : Nat, due : Nat, applied : Nat, cash : Nat,
        status : {"PARTIAL", "SETTLED"}]
Commission == [status : {"PENDING", "PROCESSING", "PAID", "CANCELLED"},
               amount : Nat]

ASSUME RowAssumption == Null \notin Fee \cup Commission

TypeOK ==
    /\ fee \in [Unlock -> Fee \cup {Null}]
    /\ commission \in [Unlock -> Commission \cup {Null}]
    /\ refunded \subseteq Unlock
    /\ quote \in [Unlock -> Nat \cup {Null}]
    /\ sent \in [Unlock -> Nat \cup {Null}]
    /\ balance \in Nat
    /\ pc \in [Worker -> {"idle", "ensure", "share", "balance", "claim"}]
    /\ job \in [Worker -> Unlock \cup {Null}]
    /\ snap \in [Worker -> Fee \cup {Null}]
    /\ rows \in Nat
    /\ taken \in [Unlock -> Nat]
    /\ refunds \in 0..MaxRefunds

Init ==
    /\ fee = [u \in Unlock |-> Null]
    /\ commission = [u \in Unlock |-> Null]
    /\ refunded = {}
    /\ quote = [u \in Unlock |-> Null]
    /\ sent = [u \in Unlock |-> Null]
    /\ balance = Wallet
    /\ pc = [w \in Worker |-> "idle"]
    /\ job = [w \in Worker |-> Null]
    /\ snap = [w \in Worker |-> Null]
    /\ rows = 0
    /\ taken = [u \in Unlock |-> 0]
    /\ refunds = 0

Start(w, u, l, s) ==
    /\ pc[w] = "idle"
    /\ pc' = [pc EXCEPT ![w] = l]
    /\ job' = [job EXCEPT ![w] = u]
    /\ snap' = [snap EXCEPT ![w] = s]

Goto(w, l, s) ==
    /\ pc' = [pc EXCEPT ![w] = l]
    /\ snap' = [snap EXCEPT ![w] = s]
    /\ UNCHANGED job

Return(w) ==
    /\ pc' = [pc EXCEPT ![w] = "idle"]
    /\ job' = [job EXCEPT ![w] = Null]
    /\ snap' = [snap EXCEPT ![w] = Null]

-----------------------------------------------------------------------------
(* Booking: settlement.service.ts, success-fee.service.ts *)

\* The settlement finds the unlock eligible; it does so once more when both
\* tenants confirm at once or a dispute is resolved.
ReadUnlock(w, u) ==
    /\ u \notin refunded
    /\ Start(w, u, "ensure", Null)
    /\ UNCHANGED <<feeVars, commission, refunded, payVars, balance, refunds>>

NewFeeUncreditedBug(u) == [id |-> rows + 1, due |-> Due[u], applied |-> 0,
                           cash |-> 0, status |-> "PARTIAL"]

NewFee(u) ==
    LET applied == Least(Spent[u], Due[u])
    IN  [id |-> rows + 1, due |-> Due[u], applied |-> applied, cash |-> 0,
         status |-> IF applied = Due[u] THEN "SETTLED" ELSE "PARTIAL"]

\* The commission's upsert: its update branch asks for no status. The split
\* is the one the request has read, from a cache of its process.
Shared(u, f, s) ==
    [commission EXCEPT ![u] =
       IF @ = Null THEN [status |-> "PENDING",
                         amount |-> PosterShareOfCollected(f, s)]
                   ELSE [@ EXCEPT !.amount = PosterShareOfCollected(f, s)]]

\* ensureForConfirmedUnlock with a fee to create: nobody sees the row before
\* the commit.
CreateFee(w) ==
    LET u == job[w]
    IN  /\ pc[w] = "ensure"
        /\ fee[u] = Null
        /\ fee' = [fee EXCEPT ![u] = NewFee(u)]
        /\ rows' = rows + 1
        /\ \E s \in Split : commission' = Shared(u, NewFee(u), s)
        /\ Return(w)
        /\ UNCHANGED <<taken, refunded, payVars, balance, refunds>>

\* With a fee that is there: the empty update reads it and locks nothing.
FindFee(w) ==
    /\ pc[w] = "ensure"
    /\ fee[job[w]] # Null
    /\ Goto(w, "share", fee[job[w]])
    /\ UNCHANGED <<feeVars, commission, refunded, payVars, balance, refunds>>

ShareCommission(w) ==
    /\ pc[w] = "share"
    /\ \E s \in Split : commission' = Shared(job[w], snap[w], s)
    /\ Return(w)
    /\ UNCHANGED <<feeVars, refunded, payVars, balance, refunds>>

-----------------------------------------------------------------------------
(* Settling: success-fee-settlement.service.ts *)

ReadFee(w, u) ==
    /\ fee[u] # Null
    /\ RemainingFeeKes(fee[u]) > 0
    /\ Start(w, u, "balance", fee[u])
    /\ UNCHANGED <<feeVars, commission, refunded, payVars, balance, refunds>>

CheckBalance(w) ==
    /\ pc[w] = "balance"
    /\ IF balance >= RemainingFeeKes(snap[w]) THEN Goto(w, "claim", snap[w])
                                              ELSE Return(w)
    /\ UNCHANGED <<feeVars, commission, refunded, payVars, balance, refunds>>

ClaimMatchesIdBug(u, f) == fee[u] # Null /\ fee[u].id = f.id

\* The claim repeats the figures the remaining amount was computed from.
ClaimMatches(u, f) ==
    /\ fee[u] # Null
    /\ fee[u].id = f.id
    /\ fee[u].status # "SETTLED"
    /\ fee[u].applied = f.applied
    /\ fee[u].cash = f.cash

\* The transaction: claim, spend, share.
SettleFromCredits(w) ==
    LET u == job[w]
        due == RemainingFeeKes(snap[w])
        paid == [fee[u] EXCEPT !.cash = @ + due, !.status = "SETTLED"]
    IN  /\ pc[w] = "claim"
        /\ ClaimMatches(u, snap[w])
        /\ balance >= due
        /\ fee' = [fee EXCEPT ![u] = paid]
        /\ balance' = balance - due
        /\ taken' = [taken EXCEPT ![u] = @ + due]
        /\ \E s \in Split : commission' =
             [commission EXCEPT ![u] =
                IF @ = Null THEN @
                ELSE IF @.status \in {"PAID", "CANCELLED"} THEN @
                ELSE [@ EXCEPT !.amount = PosterShareOfCollected(paid, s)]]
        /\ Return(w)
        /\ UNCHANGED <<rows, refunded, payVars, refunds>>

\* The claim is lost, or the credits were spent meanwhile.
LoseClaim(w) ==
    /\ pc[w] = "claim"
    /\ ~(ClaimMatches(job[w], snap[w]) /\ balance >= RemainingFeeKes(snap[w]))
    /\ Return(w)
    /\ UNCHANGED <<feeVars, commission, refunded, payVars, balance, refunds>>

-----------------------------------------------------------------------------
(* Others that touch the same rows *)

\* The mover spends a credit on something else.
SpendElsewhere ==
    /\ balance > 0
    /\ balance' = balance - 1
    /\ UNCHANGED <<feeVars, commission, refunded, payVars, wrkVars, refunds>>

HasStatus(u, s) == commission[u] # Null /\ commission[u].status = s

SetStatus(u, s) ==
    /\ commission' = [commission EXCEPT ![u].status = s]
    /\ UNCHANGED <<feeVars, refunded, balance, wrkVars, refunds>>

\* The payout sweep of module CommissionPayout, seen from here: it sends the
\* amount it has listed.
ListForPayout(u) ==
    /\ HasStatus(u, "PENDING")
    /\ quote' = [quote EXCEPT ![u] = commission[u].amount]
    /\ UNCHANGED <<feeVars, commission, refunded, sent, balance, wrkVars,
                   refunds>>

SendPayout(u) ==
    /\ quote[u] # Null
    /\ HasStatus(u, "PENDING")
    /\ SetStatus(u, "PROCESSING")
    /\ sent' = [sent EXCEPT ![u] = quote[u]]
    /\ UNCHANGED quote

SettlePayout(u) ==
    /\ HasStatus(u, "PROCESSING")
    /\ \/ SetStatus(u, "PAID") /\ UNCHANGED payVars
       \/ /\ SetStatus(u, "PENDING")
          /\ sent' = [sent EXCEPT ![u] = Null]
          /\ quote' = [quote EXCEPT ![u] = Null]

\* refundUnlock: a fee that is not settled goes, the commission is cancelled.
RefundUnlock(u) ==
    /\ refunds < MaxRefunds
    /\ u \notin refunded
    /\ ~HasStatus(u, "PAID")
    /\ refunds' = refunds + 1
    /\ refunded' = refunded \cup {u}
    /\ fee' = [fee EXCEPT ![u] =
                 IF @ # Null /\ @.status # "SETTLED" THEN Null ELSE @]
    /\ commission' = [commission EXCEPT ![u] =
                        IF @ = Null THEN Null
                        ELSE [@ EXCEPT !.status = "CANCELLED"]]
    /\ balance' = balance + Spent[u]
    /\ UNCHANGED <<rows, taken, payVars, wrkVars>>

Next ==
    \/ \E w \in Worker :
         \/ CreateFee(w) \/ FindFee(w) \/ ShareCommission(w)
         \/ CheckBalance(w) \/ SettleFromCredits(w) \/ LoseClaim(w)
         \/ \E u \in Unlock : ReadUnlock(w, u) \/ ReadFee(w, u)
    \/ \E u \in Unlock : \/ ListForPayout(u) \/ SendPayout(u)
                         \/ SettlePayout(u) \/ RefundUnlock(u)
    \/ SpendElsewhere

Spec == Init /\ [][Next]_vars

-----------------------------------------------------------------------------
(* What holds *)

\* Double taps, retries, settlements beside a refund and fee rows that are
\* deleted and made again never take more from the mover than his fee: what
\* his fee row says he paid is what was taken, and SETTLED says it is enough.
NeverOvercharged ==
    \A u \in Unlock :
        IF fee[u] = Null THEN taken[u] = 0
        ELSE /\ fee[u].cash = taken[u]
             /\ Collected(fee[u]) <= Due[u]
             /\ fee[u].status = "SETTLED" <=> Collected(fee[u]) = Due[u]

\* What was counted towards a fee before its row went, if it did.
Funds(u) == Least(Spent[u], Due[u]) + taken[u]

\* Whatever stale figures settlements write, whichever amount the payout has
\* listed and however the split is edited meanwhile, the poster is never
\* promised or sent more than his share of what was collected.
PosterWithinShare ==
    \A u \in Unlock :
        /\ commission[u] # Null =>
             \E s \in Split : commission[u].amount <= PosterShareKes(Funds(u), s)
        /\ sent[u] # Null =>
             \E s \in Split : sent[u] <= PosterShareKes(Funds(u), s)

\* Nor is it ever less than the share of the unlock credits, however a
\* repeated settlement overtakes another; and a fee goes only with its deal.
\* (Between the two bounds the late share may be missed: a payout that has
\* listed its amount sends it although a settlement raises it.)
PosterKeepsBase ==
    \A u \in Unlock :
        LET base == Least(Spent[u], Due[u])
        IN  /\ commission[u] # Null =>
                 /\ \E s \in Split :
                        commission[u].amount >= PosterShareKes(base, s)
                 /\ fee[u] = Null => u \in refunded
            /\ sent[u] # Null =>
                 \E s \in Split : sent[u] >= PosterShareKes(base, s)
=============================================================================
