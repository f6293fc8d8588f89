--------------------------- MODULE UnlockLifecycle ---------------------------
(***************************************************************************)
(* From a paid unlock to the handover of the house: unlocking, refunds and *)
(* their three triggers, the confirmations of the two tenants, settlement, *)
(* the sweep that refunds the rivals, auto-confirmation and disputes.      *)
(* Every request runs in a worker; a step is one transaction, or one read  *)
(* whose result a later statement relies on, at READ COMMITTED.            *)
(***************************************************************************)
EXTENDS Integers, FiniteSets

CONSTANTS
    Listing,    \* approved listings, each of some poster
    Buyer,      \* house hunters
    Worker,     \* requests and jobs running at the same time
    Null,       \* "no job", "no snapshot"
    Disputable, \* bound: the unlocks somebody may dispute
    MaxCrashes  \* bound on the crashes of a behaviour

ASSUME LifecycleAssumption == MaxCrashes \in Nat

\* At most one unlock per listing and buyer: @@unique([listingId, buyerId]).
Unlock == Listing \X Buyer
ListingOf(u) == u[1]
BuyerOf(u) == u[2]

VARIABLES
    market,      \* listings.status
    deleted,     \* listings.isDeleted
    state,       \* the unlock row: missing, paid for, refunded
    sides,       \* its confirmations
    fee,         \* its success fee
    commission,  \* its commission
    dispute,     \* its dispute
    pc,          \* the next step of each worker
    job,         \* what the worker is asked to do
    targets,     \* unlocks the worker has still to refund
    seen,        \* what its refund transaction has read
    credited,    \* auxiliary: refunds credited for an unlock
    winners,     \* auxiliary: the unlocks whose settlement claimed the listing
    withdrawn,   \* auxiliary: the listings that their poster deleted
    failed,      \* the failures that sweeps collected and logged
    cut,         \* auxiliary: listings a crash cut the sweep of
    crashes

listVars == <<market, deleted, winners, withdrawn>>
rowVars == <<state, credited>>
dealVars == <<fee, commission>>
wrkVars == <<pc, job, targets, seen>>
auxVars == <<failed, cut, crashes>>
vars == <<market, deleted, state, sides, fee, commission, dispute, pc, job,
          targets, seen, credited, winners, withdrawn, failed, cut, crashes>>

Side == {"OUTGOING", "INCOMING"}
Blocking == {"OPEN", "INVESTIGATING"}

\* "refund" and "keep" resolve a dispute; "settle" is "keep" for an unlock
\* that was confirmed by both sides when the dispute was read.
Task == {"unlock", "report", "confirm", "auto", "refund", "keep", "settle",
         "investigate", "close"}
Job == [task : Task, unlock : Unlock, side : Side \cup {"none"}]

\* cancel: the refund's snapshot has a commission that it must cancel.
Snapshot == [unlock : Unlock, cancel : BOOLEAN]

Label == {"idle", "charge", "insert", "settle", "fee", "claim", "list",
          "refund", "unwind", "resolve", "investigate", "close"}

TypeOK ==
    /\ market \in [Listing -> {"ACTIVE", "CONFIRMED", "DELETED"}]
    /\ deleted \in [Listing -> BOOLEAN]
    /\ state \in [Unlock -> {"none", "held", "refunded"}]
    /\ sides \in [Unlock -> SUBSET Side]
    /\ fee \in [Unlock -> {"none", "PARTIAL", "SETTLED"}]
    /\ commission \in [Unlock -> {"none", "PENDING", "PAID", "CANCELLED"}]
    /\ dispute \in [Unlock -> {"none", "RESOLVED", "CLOSED"} \cup Blocking]
    /\ pc \in [Worker -> Label]
    /\ job \in [Worker -> Job \cup {Null}]
    /\ targets \in [Worker -> SUBSET Unlock]
    /\ seen \in [Worker -> Snapshot \cup {Null}]
    /\ credited \in [Unlock -> Nat]
    /\ winners \in [Listing -> SUBSET Unlock]
    /\ withdrawn \subseteq Listing
    /\ failed \subseteq Unlock
    /\ cut \subseteq Listing
    /\ crashes \in 0..MaxCrashes

Init ==
    /\ market = [l \in Listing |-> "ACTIVE"]
    /\ deleted = [l \in Listing |-> FALSE]
    /\ state = [u \in Unlock |-> "none"]
    /\ sides = [u \in Unlock |-> {}]
    /\ fee = [u \in Unlock |-> "none"]
    /\ commission = [u \in Unlock |-> "none"]
    /\ dispute = [u \in Unlock |-> "none"]
    /\ pc = [w \in Worker |-> "idle"]
    /\ job = [w \in Worker |-> Null]
    /\ targets = [w \in Worker |-> {}]
    /\ seen = [w \in Worker |-> Null]
    /\ credited = [u \in Unlock |-> 0]
    /\ winners = [l \in Listing |-> {}]
    /\ withdrawn = {}
    /\ failed = {}
    /\ cut = {}
    /\ crashes = 0

-----------------------------------------------------------------------------
(* Workers *)

\* A request or a job's item that passed its first checks: task t on unlock
\* u goes to step at; ts are the unlocks it is to refund.
Start(w, t, u, s, at, ts) ==
    /\ pc[w] = "idle"
    /\ pc' = [pc EXCEPT ![w] = at]
    /\ job' = [job EXCEPT ![w] = [task |-> t, unlock |-> u, side |-> s]]
    /\ targets' = [targets EXCEPT ![w] = ts]
    /\ UNCHANGED <<listVars, rowVars, sides, dealVars, dispute, seen, auxVars>>

Goto(w, l) == /\ pc' = [pc EXCEPT ![w] = l]
              /\ UNCHANGED <<job, targets, seen>>

Return(w) == /\ pc' = [pc EXCEPT ![w] = "idle"]
             /\ job' = [job EXCEPT ![w] = Null]
             /\ targets' = [targets EXCEPT ![w] = {}]
             /\ seen' = [seen EXCEPT ![w] = Null]

\* The refund of u is over.  A report returns and a resolution goes on; the
\* handover's sweep turns to its next rival.
NextTarget(w, u) ==
    IF job[w].task # "refund" /\ targets[w] = {u}
    THEN Return(w)
    ELSE /\ pc' = [pc EXCEPT ![w] = IF job[w].task = "refund" THEN "resolve"
                                    ELSE "refund"]
         /\ targets' = [targets EXCEPT ![w] = @ \ {u}]
         /\ seen' = [seen EXCEPT ![w] = Null]
         /\ UNCHANGED job

\* The handover of a listing is refunding the rivals.
Sweeping(w) == /\ pc[w] \in {"refund", "unwind"}
               /\ job[w].task \in {"confirm", "auto", "settle"}

\* A replica stops, or a statement of the request fails: an open transaction
\* is rolled back and nobody takes up what the request had still to do.
Crash(w) ==
    /\ pc[w] # "idle"
    /\ crashes < MaxCrashes
    /\ crashes' = crashes + 1
    /\ cut' = IF pc[w] = "list" \/ Sweeping(w)
              THEN cut \cup {ListingOf(job[w].unlock)} ELSE cut
    /\ Return(w)
    /\ UNCHANGED <<listVars, rowVars, sides, dealVars, dispute, failed>>

-----------------------------------------------------------------------------
(* Unlocking: unlock.service.ts *)

Unlockable(l) == ~deleted[l] /\ market[l] = "ACTIVE"

\* assertNoUnsettledSuccessFee
Gated(b) == \E u \in Unlock : BuyerOf(u) = b /\ fee[u] = "PARTIAL"

\* The checks before the transaction.
OpenUnlock(w, u) ==
    /\ state[u] = "none"
    /\ ~Gated(BuyerOf(u))
    /\ Unlockable(ListingOf(u))
    /\ Start(w, "unlock", u, "none", "charge", {})

ChargeUncheckedBug(w) ==
    LET u == job[w].unlock
    IN  /\ pc[w] = "charge"
        /\ state[u] = "none"
        /\ state' = [state EXCEPT ![u] = "held"]
        /\ Return(w)
        /\ UNCHANGED <<listVars, credited, sides, dealVars, dispute, auxVars>>

\* The transaction, under the lock of the listing's row: it repeats the
\* checks on the listing and the unlock, stores the unlock and spends.
Charge(w) ==
    LET u == job[w].unlock
    IN  /\ pc[w] = "charge"
        /\ Unlockable(ListingOf(u))
        /\ state[u] = "none"
        /\ state' = [state EXCEPT ![u] = "held"]
        /\ Return(w)
        /\ UNCHANGED <<listVars, credited, sides, dealVars, dispute, auxVars>>

\* The transaction finds the listing gone or the unlock there, or the buyer
\* has too few credits.
Refuse(w) ==
    /\ pc[w] = "charge"
    /\ Return(w)
    /\ UNCHANGED <<listVars, rowVars, sides, dealVars, dispute, auxVars>>

-----------------------------------------------------------------------------
(* Refunds: unlock-refund.service.ts, report-dead.service.ts *)

\* The buyer reports the house dead; he may not have confirmed himself.
ReportDead(w, u) ==
    /\ state[u] = "held"
    /\ "INCOMING" \notin sides[u]
    /\ Start(w, "report", u, "none", "refund", {u})

\* The transaction's first statement.
RefundRead(w, u) ==
    /\ pc[w] = "refund"
    /\ u \in targets[w]
    /\ \/ /\ state[u] = "held" /\ commission[u] # "PAID"
          /\ pc' = [pc EXCEPT ![w] = "unwind"]
          /\ seen' = [seen EXCEPT ![w] =
                        [unlock |-> u, cancel |-> commission[u] = "PENDING"]]
          /\ UNCHANGED <<job, targets>>
       \/ /\ state[u] # "held"
          /\ NextTarget(w, u)
    /\ UNCHANGED <<listVars, rowVars, sides, dealVars, dispute, auxVars>>

\* The handover's sweep collects a failed refund and goes on; the other
\* callers end.
RefundFails(w, u) ==
    /\ IF Sweeping(w) THEN NextTarget(w, u) /\ failed' = failed \cup {u}
                      ELSE Return(w) /\ UNCHANGED failed
    /\ UNCHANGED <<listVars, rowVars, sides, dealVars, dispute, cut>>

\* COMMISSION_ALREADY_PAID
RefundRefused(w, u) ==
    /\ pc[w] = "refund"
    /\ u \in targets[w]
    /\ state[u] = "held" /\ commission[u] = "PAID"
    /\ RefundFails(w, u)
    /\ UNCHANGED crashes

\* A statement of the refund's transaction fails, which is rolled back.
RefundAborted(w) ==
    /\ pc[w] = "unwind"
    /\ crashes < MaxCrashes
    /\ crashes' = crashes + 1
    /\ RefundFails(w, seen[w].unlock)

UnwindUnclaimedBug(w) ==
    LET u == seen[w].unlock
    IN  /\ pc[w] = "unwind"
        /\ state' = [state EXCEPT ![u] = "refunded"]
        /\ credited' = [credited EXCEPT ![u] = @ + 1]
        /\ fee' = [fee EXCEPT ![u] = IF @ = "SETTLED" THEN @ ELSE "none"]
        /\ commission' =
             [commission EXCEPT ![u] = IF seen[w].cancel THEN "CANCELLED" ELSE @]
        /\ NextTarget(w, u)
        /\ UNCHANGED <<listVars, sides, dispute, auxVars>>

\* The claim on isRefunded and what follows it, as far as it was won; the
\* commission is cancelled by a plain update, if the snapshot had one.
Unwind(w) ==
    LET u == seen[w].unlock
        won == state[u] = "held"
    IN  /\ pc[w] = "unwind"
        /\ state' = [state EXCEPT ![u] = "refunded"]
        /\ credited' = [credited EXCEPT ![u] = IF won THEN @ + 1 ELSE @]
        /\ fee' = [fee EXCEPT ![u] = IF won /\ @ # "SETTLED" THEN "none" ELSE @]
        /\ commission' = [commission EXCEPT ![u] =
                            IF won /\ seen[w].cancel THEN "CANCELLED" ELSE @]
        /\ NextTarget(w, u)
        /\ UNCHANGED <<listVars, sides, dispute, auxVars>>

-----------------------------------------------------------------------------
(* Confirmations: confirmation.service.ts, stale-confirmation.service.ts *)

Confirm(w, u, s) ==
    /\ state[u] = "held"
    /\ dispute[u] \notin Blocking
    /\ s \notin sides[u]
    /\ Start(w, "confirm", u, s, "insert", {})

\* The nightly job has read an unlock with one old confirmation.
AutoConfirm(w, u, s) ==
    /\ state[u] = "held"
    /\ dispute[u] \notin Blocking
    /\ sides[u] = Side \ {s}
    /\ Start(w, "auto", u, s, "insert", {})

InsertConfirmationAutoBug(w) ==
    LET u == job[w].unlock
    IN  /\ pc[w] = "insert"
        /\ job[w].side \notin sides[u]
        /\ sides' = [sides EXCEPT ![u] = @ \cup {job[w].side}]
        /\ IF job[w].task = "auto" THEN Return(w) ELSE Goto(w, "settle")
        /\ UNCHANGED <<listVars, rowVars, dealVars, dispute, auxVars>>

InsertConfirmation(w) ==
    LET u == job[w].unlock
    IN  /\ pc[w] = "insert"
        /\ job[w].side \notin sides[u]
        /\ sides' = [sides EXCEPT ![u] = @ \cup {job[w].side}]
        /\ Goto(w, "settle")
        /\ UNCHANGED <<listVars, rowVars, dealVars, dispute, auxVars>>

\* @@unique([unlockId, side]) rejects the row; the nightly job takes the
\* unlock for settled.
RejectConfirmation(w) ==
    /\ pc[w] = "insert"
    /\ job[w].side \in sides[job[w].unlock]
    /\ Return(w)
    /\ UNCHANGED <<listVars, rowVars, sides, dealVars, dispute, auxVars>>

-----------------------------------------------------------------------------
(* Settlement: settlement.service.ts, success-fee.service.ts,              *)
(* listing-handover.service.ts                                             *)

IsSettleableOneSidedBug(u) ==
    state[u] = "held" /\ sides[u] # {} /\ dispute[u] \notin Blocking

IsSettleable(u) ==
    state[u] = "held" /\ sides[u] = Side /\ dispute[u] \notin Blocking

ReadSettlementEarlyClaimBug(w) ==
    /\ pc[w] = "settle"
    /\ IF IsSettleable(job[w].unlock) THEN Goto(w, "claim") ELSE Return(w)
    /\ UNCHANGED <<listVars, rowVars, sides, dealVars, dispute, auxVars>>

ReadSettlement(w) ==
    /\ pc[w] = "settle"
    /\ IF IsSettleable(job[w].unlock) THEN Goto(w, "fee") ELSE Return(w)
    /\ UNCHANGED <<listVars, rowVars, sides, dealVars, dispute, auxVars>>

\* A second settlement raises the commission again.
EnsureForConfirmedUnlockOverwritesBug(w) ==
    LET u == job[w].unlock
    IN  /\ pc[w] = "fee"
        /\ \E s \in {"PARTIAL", "SETTLED"} :
             fee' = [fee EXCEPT ![u] = IF @ = "none" THEN s ELSE @]
        /\ commission' = [commission EXCEPT ![u] = "PENDING"]
        /\ Goto(w, "claim")
        /\ UNCHANGED <<listVars, rowVars, sides, dispute, auxVars>>

\* One transaction upserts the fee and the commission: rows that exist keep
\* their status.  Credits that cover the fee settle it at once.
EnsureForConfirmedUnlock(w) ==
    LET u == job[w].unlock
    IN  /\ pc[w] = "fee"
        /\ \E s \in {"PARTIAL", "SETTLED"} :
             fee' = [fee EXCEPT ![u] = IF @ = "none" THEN s ELSE @]
        /\ commission' =
             [commission EXCEPT ![u] = IF @ = "none" THEN "PENDING" ELSE @]
        /\ Goto(w, "claim")
        /\ UNCHANGED <<listVars, rowVars, sides, dispute, auxVars>>

ClaimListingUnguardedBug(w) ==
    LET l == ListingOf(job[w].unlock)
    IN  /\ pc[w] = "claim"
        /\ market' = [market EXCEPT ![l] = "CONFIRMED"]
        /\ winners' = [winners EXCEPT ![l] = @ \cup {job[w].unlock}]
        /\ Goto(w, "list")
        /\ UNCHANGED <<deleted, withdrawn, rowVars, sides, dealVars, dispute,
                       auxVars>>

\* The claim matches every status but CONFIRMED.
ClaimListing(w) ==
    LET l == ListingOf(job[w].unlock)
    IN  /\ pc[w] = "claim"
        /\ IF market[l] # "CONFIRMED"
           THEN /\ market' = [market EXCEPT ![l] = "CONFIRMED"]
                /\ winners' = [winners EXCEPT ![l] = @ \cup {job[w].unlock}]
                /\ Goto(w, "list")
           ELSE Return(w) /\ UNCHANGED <<market, winners>>
        /\ UNCHANGED <<deleted, withdrawn, rowVars, sides, dealVars, dispute,
                       auxVars>>

RivalsUnconfirmedBug(u) ==
    {v \in Unlock : /\ v # u
                    /\ ListingOf(v) = ListingOf(u)
                    /\ state[v] = "held"
                    /\ sides[v] = {}}

Rivals(u) == {v \in Unlock : /\ v # u
                             /\ ListingOf(v) = ListingOf(u)
                             /\ state[v] = "held"}

ListRivals(w) ==
    LET rivals == Rivals(job[w].unlock)
    IN  /\ pc[w] = "list"
        /\ IF rivals = {} THEN Return(w)
           ELSE /\ pc' = [pc EXCEPT ![w] = "refund"]
                /\ targets' = [targets EXCEPT ![w] = rivals]
                /\ UNCHANGED <<job, seen>>
        /\ UNCHANGED <<listVars, rowVars, sides, dealVars, dispute, auxVars>>

-----------------------------------------------------------------------------
(* Disputes: dispute.service.ts.  An admin's request reads the status in   *)
(* one statement and overwrites it in another.                             *)

FileDispute(u) ==
    /\ u \in Disputable
    /\ state[u] # "none"
    /\ dispute[u] = "none"
    /\ dispute' = [dispute EXCEPT ![u] = "OPEN"]
    /\ UNCHANGED <<listVars, rowVars, sides, dealVars, wrkVars, auxVars>>

Investigate(w, u) ==
    /\ dispute[u] \in Blocking
    /\ Start(w, "investigate", u, "none", "investigate", {})

ResolveWithRefund(w, u) ==
    /\ dispute[u] \in Blocking
    /\ Start(w, "refund", u, "none", "refund", {u})

ResolveWithoutRefund(w, u) ==
    /\ dispute[u] \in Blocking
    /\ Start(w, IF sides[u] = Side /\ state[u] = "held" THEN "settle"
                ELSE "keep", u, "none", "resolve", {})

Close(w, u) ==
    /\ dispute[u] \in {"RESOLVED", "CLOSED"}
    /\ Start(w, "close", u, "none", "close", {})

WriteDispute(w, s) ==
    /\ dispute' = [dispute EXCEPT ![job[w].unlock] = s]
    /\ UNCHANGED <<listVars, rowVars, sides, dealVars, auxVars>>

WriteResolved(w) ==
    /\ pc[w] = "resolve"
    /\ WriteDispute(w, "RESOLVED")
    /\ IF job[w].task = "settle" THEN Goto(w, "settle") ELSE Return(w)

WriteInvestigating(w) ==
    /\ pc[w] = "investigate"
    /\ WriteDispute(w, "INVESTIGATING")
    /\ Return(w)

WriteClosed(w) ==
    /\ pc[w] = "close"
    /\ WriteDispute(w, "CLOSED")
    /\ Return(w)

-----------------------------------------------------------------------------
(* Others that write the same rows *)

\* settleFromCredits: the claim on the fee's figures.
SettleFee(u) ==
    /\ fee[u] = "PARTIAL"
    /\ fee' = [fee EXCEPT ![u] = "SETTLED"]
    /\ UNCHANGED <<listVars, rowVars, sides, commission, dispute, wrkVars,
                   auxVars>>

\* The payout of module CommissionPayout, seen from here.
PayCommission(u) ==
    /\ commission[u] = "PENDING"
    /\ commission' = [commission EXCEPT ![u] = "PAID"]
    /\ UNCHANGED <<listVars, rowVars, sides, fee, dispute, wrkVars, auxVars>>

\* The payout's release for a dispute it read after its claim, a plain update
\* that overwrites whatever became of the commission since.
ReopenCommission(u) ==
    /\ commission[u] \in {"PAID", "CANCELLED"}
    /\ dispute[u] # "none"
    /\ commission' = [commission EXCEPT ![u] = "PENDING"]
    /\ UNCHANGED <<listVars, rowVars, sides, fee, dispute, wrkVars, auxVars>>

Delete(l) ==
    /\ ~deleted[l]
    /\ deleted' = [deleted EXCEPT ![l] = TRUE]
    /\ market' = [market EXCEPT ![l] = "DELETED"]
    /\ UNCHANGED <<winners, rowVars, sides, dealVars, dispute, wrkVars,
                   auxVars>>

\* softDeleteListing: the poster, under the lock of the listing's row.
SoftDelete(l) ==
    /\ \A u \in Unlock :
         ListingOf(u) = l /\ state[u] = "held"
           => sides[u] = Side /\ dispute[u] \notin Blocking
    /\ Delete(l)
    /\ withdrawn' = withdrawn \cup {l}

\* deleteListing: an admin, whatever the unlocks.
AdminDelete(l) == Delete(l) /\ UNCHANGED withdrawn

Step(w) ==
    \/ Charge(w) \/ Refuse(w)
    \/ \E u \in Unlock : RefundRead(w, u) \/ RefundRefused(w, u)
    \/ Unwind(w)
    \/ InsertConfirmation(w) \/ RejectConfirmation(w)
    \/ ReadSettlement(w) \/ EnsureForConfirmedUnlock(w)
    \/ ClaimListing(w) \/ ListRivals(w)
    \/ WriteResolved(w) \/ WriteInvestigating(w) \/ WriteClosed(w)

Request(w, u) ==
    \/ OpenUnlock(w, u) \/ ReportDead(w, u)
    \/ \E s \in Side : Confirm(w, u, s) \/ AutoConfirm(w, u, s)
    \/ Investigate(w, u) \/ ResolveWithRefund(w, u)
    \/ ResolveWithoutRefund(w, u) \/ Close(w, u)

Next ==
    \/ \E w \in Worker : Step(w) \/ Crash(w) \/ RefundAborted(w)
                         \/ \E u \in Unlock : Request(w, u)
    \/ \E u \in Unlock : \/ FileDispute(u) \/ SettleFee(u)
                         \/ PayCommission(u) \/ ReopenCommission(u)
    \/ \E l \in Listing : SoftDelete(l) \/ AdminDelete(l)

Spec == Init /\ [][Next]_vars

\* A request once started goes on, unless it crashes.
FairSpec == Spec /\ \A w \in Worker : WF_vars(Step(w))

-----------------------------------------------------------------------------
(* What holds *)

\* Three triggers race to refund an unlock (the comment at
\* unlock-refund.service.ts:140): its credits come back exactly once, when
\* it is refunded.
CreditsConserved ==
    \A u \in Unlock : credited[u] = IF state[u] = "refunded" THEN 1 ELSE 0

\* Whoever holds an unlock on a handed-over listing that was not handed over
\* to him is before a sweep, about to be listed or in its targets, or among
\* the failures it logs, unless a crash cut it: claiming the listing before
\* listing the rivals leaves no window for a late unlock.
RivalsAccounted ==
    \A u \in Unlock :
        LET l == ListingOf(u)
        IN  market[l] = "CONFIRMED" /\ state[u] = "held" /\ u \notin winners[l]
              => \/ u \in failed
                 \/ l \in cut
                 \/ \E w \in Worker :
                      /\ pc[w] = "list" \/ (Sweeping(w) /\ u \in targets[w])
                      /\ ListingOf(job[w].unlock) = l

\* Concurrent settlements, whatever they read, hand a listing over once, as
\* long as nobody deletes it.
SingleHandover ==
    \A l \in Listing : deleted[l] \/ Cardinality(winners[l]) <= 1

\* A listing is handed over only after a commission of one of its unlocks
\* that both tenants confirmed is stored: a settlement that fails half-way
\* does not take the house off the market for nobody.
HandoverHasWinner ==
    \A l \in Listing : winners[l] # {} =>
        \E u \in Unlock : /\ ListingOf(u) = l
                          /\ sides[u] = Side
                          /\ commission[u] # "none"

\* A commission stands for a deal both tenants confirmed, and for a fee the
\* buyer owes or paid unless the unlock was refunded.
CommissionBacked ==
    \A u \in Unlock : commission[u] # "none" =>
        /\ sides[u] = Side
        /\ state[u] = "held" => fee[u] # "none"

Busy(u) == \E w \in Worker : pc[w] # "idle" /\ job[w].unlock = u

\* Both tenants may confirm at the same time, or one of them beside the
\* nightly job: one of the requests sees both rows and settles.
ConfirmedSettles ==
    \A u \in Unlock :
        /\ crashes = 0
        /\ state[u] = "held"
        /\ sides[u] = Side
        /\ dispute[u] = "none"
        /\ ~Busy(u)
        => commission[u] # "none" /\ market[ListingOf(u)] # "ACTIVE"

\* An unlock's commission is a commission row as CommissionRow has it: raised
\* by the first settlement only, kept by every later one, cancelled by a
\* refund and revived by nothing but the payout's release for a dispute.
R == INSTANCE CommissionRow WITH
        Commission <- Unlock,
        status <- commission,
        disputed <- {u \in Unlock : dispute[u] # "none"}

ImplementsCommissionRow == R!Spec

\* A poster who withdraws a house leaves no buyer behind with an unlock he paid
\* for and nothing to confirm: every unlock still held on it has both
\* confirmations. The poster's check and a charge that is under way since before
\* the deletion decide this under the same lock.
WithdrawalSparesBuyers ==
    \A u \in Unlock : ListingOf(u) \in withdrawn /\ state[u] = "held"
                         => sides[u] = Side

\* Who holds an unlock on a handed-over listing gets the credits back or has a
\* commission of his own in the end, unless his refund fails or a crash cuts
\* the sweep short.
RivalsRefunded ==
    \A u \in Unlock :
        market[ListingOf(u)] = "CONFIRMED" /\ state[u] = "held"
          ~> \/ state[u] = "refunded"
             \/ commission[u] # "none"
             \/ u \in failed
             \/ ListingOf(u) \in cut
=============================================================================
