--------------------------- MODULE CreditPurchase ---------------------------
(***************************************************************************)
(* How one user buys credits: the requests that create purchases, the STK  *)
(* push or the Stellar quote, Safaricom's callbacks and the reconciler,    *)
(* which runs by cron on every replica and inside each request.  A step is *)
(* one statement, one claim with its transaction or one call to a provider.*)
(***************************************************************************)
EXTENDS Integers, FiniteSets

CONSTANTS
    Key,        \* idempotency keys; a key names the purchase it creates
    Request,    \* handlers of requests and callbacks
    Sweeper,    \* runs of the reconciliation job
    Null,       \* "no purchase"
    MaxCrashes  \* bound on the crashes of a behaviour

ASSUME PurchaseAssumption ==
    /\ MaxCrashes \in Nat
    /\ Null \notin Key
    /\ Request \cap Sweeper = {}

Worker == Request \cup Sweeper

VARIABLES
    status,   \* credit_transactions.status; "none": no row
    rail,     \* paymentMethod
    tracked,  \* mpesaTransactionId is set
    age,      \* 1: old enough to reconcile; 2: too old for Stellar
    money,    \* external: what the provider knows of the payment
    credited, \* auxiliary: balance increments made for the purchase
    pc,       \* the next step of each worker
    job,      \* the purchase a request is to create
    targets,  \* listed purchases it has still to reconcile
    found,    \* what it learnt of one of them from the provider
    crashes

rowVars == <<status, rail, tracked, age>>
vars == <<status, rail, tracked, age, money, credited, pc, job, targets,
          found, crashes>>

Rail == {"MPESA", "STELLAR"}

\* "live": the prompt is on the phone, or the address was quoted; "short": a
\* Stellar payment of less than the quote; "curt": an M-Pesa payment whose
\* callback says so without a receipt or with no amount or another one.
Money == {"none", "live", "paid", "curt", "short", "declined"}
Final == {"COMPLETED", "FAILED", "CANCELLED"}
Finding == [key : Key, status : Final]

\* "list" to "settle" reconcile, the others create or take a callback.
Label == {"idle", "list", "query", "settle", "guard", "insert", "recheck",
          "void", "send", "record", "fail"}
Sending == {"recheck", "void", "send", "record", "fail"}

TypeOK ==
    /\ status \in [Key -> {"none", "PENDING"} \cup Final]
    /\ rail \in [Key -> Rail \cup {"none"}]
    /\ tracked \in [Key -> BOOLEAN]
    /\ age \in [Key -> 0..2]
    /\ money \in [Key -> Money]
    /\ credited \in [Key -> Nat]
    /\ pc \in [Worker -> Label]
    /\ job \in [Worker -> Key \cup {Null}]
    /\ targets \in [Worker -> SUBSET Key]
    /\ found \in [Worker -> Finding \cup {Null}]
    /\ crashes \in 0..MaxCrashes

Init ==
    /\ status = [k \in Key |-> "none"]
    /\ rail = [k \in Key |-> "none"]
    /\ tracked = [k \in Key |-> FALSE]
    /\ age = [k \in Key |-> 0]
    /\ money = [k \in Key |-> "none"]
    /\ credited = [k \in Key |-> 0]
    /\ pc = [w \in Worker |-> "idle"]
    /\ job = [w \in Worker |-> Null]
    /\ targets = [w \in Worker |-> {}]
    /\ found = [w \in Worker |-> Null]
    /\ crashes = 0

Pending == {k \in Key : status[k] = "PENDING"}

Goto(w, l) == /\ pc' = [pc EXCEPT ![w] = l]
              /\ UNCHANGED <<job, targets, found>>

Return(w) == /\ pc' = [pc EXCEPT ![w] = "idle"]
             /\ job' = [job EXCEPT ![w] = Null]
             /\ targets' = [targets EXCEPT ![w] = {}]
             /\ found' = [found EXCEPT ![w] = Null]

\* A replica stops or a statement fails.  Where the handler catches and logs
\* the error (record, fail, one row of the reconciler) the effect on the rows
\* is the same: the statement is not done.
Crash(w) ==
    /\ pc[w] # "idle"
    /\ crashes < MaxCrashes
    /\ crashes' = crashes + 1
    /\ Return(w)
    /\ UNCHANGED <<rowVars, money, credited>>

-----------------------------------------------------------------------------
(* Creating a purchase: payment.service.ts, mpesa-purchase.service.ts *)

\* No purchase has the key yet; otherwise its row is replayed.
Purchase(w, k) ==
    /\ pc[w] = "idle"
    /\ status[k] = "none"
    /\ pc' = [pc EXCEPT ![w] = "list"]
    /\ job' = [job EXCEPT ![w] = k]
    /\ UNCHANGED <<rowVars, money, credited, targets, found, crashes>>

\* assertNoOtherPendingPurchase before the insert
Guard(w) ==
    /\ pc[w] = "guard"
    /\ IF Pending = {} THEN Goto(w, "insert") ELSE Return(w)
    /\ UNCHANGED <<rowVars, money, credited, crashes>>

\* @@unique([userId, idempotencyKey]) turns a second insert into a replay.
Insert(w) ==
    LET k == job[w]
    IN  /\ pc[w] = "insert"
        /\ IF status[k] = "none"
           THEN /\ status' = [status EXCEPT ![k] = "PENDING"]
                /\ \E r \in Rail : rail' = [rail EXCEPT ![k] = r]
                /\ Goto(w, "recheck")
           ELSE Return(w) /\ UNCHANGED <<status, rail>>
        /\ UNCHANGED <<tracked, age, money, credited, crashes>>

RecheckSkippedBug(w) ==
    /\ pc[w] = "recheck"
    /\ Goto(w, "send")
    /\ UNCHANGED <<rowVars, money, credited, crashes>>

\* assertNoOtherPendingPurchase after the insert
Recheck(w) ==
    /\ pc[w] = "recheck"
    /\ Goto(w, IF Pending \ {job[w]} = {} THEN "send" ELSE "void")
    /\ UNCHANGED <<rowVars, money, credited, crashes>>

\* Plain updates.
Overwrite(w, s) ==
    /\ status' = [status EXCEPT ![job[w]] = s]
    /\ Return(w)
    /\ UNCHANGED <<rail, tracked, age, money, credited, crashes>>

Void(w) == pc[w] = "void" /\ Overwrite(w, "CANCELLED")
MarkStkPushFailed(w) == pc[w] = "fail" /\ Overwrite(w, "FAILED")

\* The push goes through, or fails with or without an effect: an HTTP error
\* or a timeout does not tell.
StkPush(w) ==
    /\ pc[w] = "send"
    /\ rail[job[w]] = "MPESA"
    /\ \/ /\ money' = [money EXCEPT ![job[w]] = "live"]
          /\ Goto(w, "record") \/ Goto(w, "fail")
       \/ Goto(w, "fail") /\ UNCHANGED money
    /\ UNCHANGED <<rowVars, credited, crashes>>

\* recordStkSubmission
RecordStkSubmission(w) ==
    /\ pc[w] = "record"
    /\ tracked' = [tracked EXCEPT ![job[w]] = TRUE]
    /\ Return(w)
    /\ UNCHANGED <<status, rail, age, money, credited, crashes>>

\* createPaymentRequest: no call leaves the API; the buyer learns the memo.
CreatePaymentRequest(w) ==
    /\ pc[w] = "send"
    /\ rail[job[w]] = "STELLAR"
    /\ money' = [money EXCEPT ![job[w]] = "live"]
    /\ Return(w)
    /\ UNCHANGED <<rowVars, credited, crashes>>

-----------------------------------------------------------------------------
(* Fulfilment: payment-fulfillment.service.ts *)

FulfilUnclaimedBug(k, s) ==
    /\ status' = [status EXCEPT ![k] = s]
    /\ credited' = [credited EXCEPT ![k] = IF s = "COMPLETED" THEN @ + 1 ELSE @]

\* processSuccessfulPayment, processFailedPayment: the claim on PENDING and
\* what follows it in the same transaction.
Fulfil(k, s) ==
    IF status[k] = "PENDING"
    THEN /\ status' = [status EXCEPT ![k] = s]
         /\ credited' =
              [credited EXCEPT ![k] = IF s = "COMPLETED" THEN @ + 1 ELSE @]
    ELSE UNCHANGED <<status, credited>>

Paid(k) == money[k] \in {"paid", "curt"}

\* What Safaricom's result code makes of the purchase; 1032 and 2032 cancel
\* it.  A query's answer is taken to be about the amount of the row.
Outcome(k) == CASE Paid(k) -> {"COMPLETED"}
                [] money[k] = "declined" -> {"FAILED", "CANCELLED"}
                [] OTHER -> {}

\* A callback must carry the receipt and the amount as well: without them a
\* success is handled as a failure.
CallbackOutcome(k) == IF money[k] = "curt" THEN {"FAILED"} ELSE Outcome(k)

\* handleCallback: a result that finds no row, or none that is PENDING, is
\* acknowledged and dropped; the claim repeats the read's condition.
HandleCallback(k) ==
    /\ tracked[k]
    /\ status[k] = "PENDING"
    /\ \E s \in CallbackOutcome(k) : Fulfil(k, s)
    /\ UNCHANGED <<rail, tracked, age, money, pc, job, targets, found, crashes>>

-----------------------------------------------------------------------------
(* Reconciliation: mpesa-reconcile.service.ts, stellar-purchase.service.ts *)

StartSweep(w) ==
    /\ pc[w] = "idle"
    /\ Goto(w, "list")
    /\ UNCHANGED <<rowVars, money, credited, crashes>>

\* Among the listed purchases the next one, then a request's guard.
Proceed(w, left) ==
    IF left = {} /\ w \in Sweeper THEN Return(w)
    ELSE /\ pc' = [pc EXCEPT ![w] = IF left = {} THEN "guard" ELSE "query"]
         /\ targets' = [targets EXCEPT ![w] = left]
         /\ found' = [found EXCEPT ![w] = Null]
         /\ UNCHANGED job

ListPendingFreshBug(w) ==
    /\ pc[w] = "list"
    /\ Proceed(w, {k \in Pending : age[k] = 0})
    /\ UNCHANGED <<rowVars, money, credited, crashes>>

\* The stale purchases of both rails, which are worked off side by side.
ListPending(w) ==
    /\ pc[w] = "list"
    /\ Proceed(w, {k \in Pending : age[k] > 0})
    /\ UNCHANGED <<rowVars, money, credited, crashes>>

ResolvedGuessedBug(k) ==
    CASE Outcome(k) # {} -> Outcome(k)
      [] Outcome(k) = {} /\ rail[k] = "MPESA" -> {"COMPLETED"}
      [] OTHER -> {"FAILED"}

ResolvedImpatientBug(k) == IF Outcome(k) = {} THEN {"FAILED"} ELSE Outcome(k)

ResolvedPatientBug(k) ==
    IF rail[k] = "STELLAR" \/ tracked[k] THEN Outcome(k) ELSE {}

\* What one run makes of a stale purchase: a push without an id expires, the
\* query tells what Safaricom decided; a Stellar payment found by its memo is
\* taken if it covers the quote, and the row expires if there is none in time.
Resolved(k) ==
    CASE rail[k] = "MPESA" /\ ~tracked[k] -> {"FAILED"}
      [] rail[k] = "MPESA" /\ tracked[k] -> Outcome(k)
      [] rail[k] = "STELLAR" /\ money[k] = "short" -> {"FAILED"}
      [] rail[k] = "STELLAR" /\ money[k] # "short" ->
           IF ~Paid(k) /\ age[k] = 2 THEN {"FAILED"} ELSE Outcome(k)

Query(w, k) ==
    /\ pc[w] = "query"
    /\ k \in targets[w]
    /\ \E s \in Resolved(k) :
         found' = [found EXCEPT ![w] = [key |-> k, status |-> s]]
    /\ pc' = [pc EXCEPT ![w] = "settle"]
    /\ targets' = [targets EXCEPT ![w] = @ \ {k}]
    /\ UNCHANGED <<rowVars, money, credited, job, crashes>>

\* No decision yet, or no answer: the row waits for the next run.
QueryInVain(w, k) ==
    /\ pc[w] = "query"
    /\ k \in targets[w]
    /\ Proceed(w, targets[w] \ {k})
    /\ UNCHANGED <<rowVars, money, credited, crashes>>

Settle(w) ==
    /\ pc[w] = "settle"
    /\ Fulfil(found[w].key, found[w].status)
    /\ Proceed(w, targets[w])
    /\ UNCHANGED <<rail, tracked, age, money, crashes>>

-----------------------------------------------------------------------------
(* The world outside *)

\* A buyer answers the prompt, lets it lapse, or sends Stellar.
Pay(k) ==
    /\ money[k] = "live"
    /\ \E m \in IF rail[k] = "MPESA" THEN {"paid", "curt", "declined"}
                ELSE {"paid", "short"} : money' = [money EXCEPT ![k] = m]
    /\ UNCHANGED <<rowVars, credited, pc, job, targets, found, crashes>>

\* Nobody is still creating the purchase: that takes two calls of 15 s at
\* most, where the limits are minutes.
Age(k) ==
    /\ status[k] = "PENDING"
    /\ age[k] < IF rail[k] = "MPESA" THEN 1 ELSE 2
    /\ \A w \in Request : ~(pc[w] \in Sending /\ job[w] = k)
    /\ age' = [age EXCEPT ![k] = @ + 1]
    /\ UNCHANGED <<status, rail, tracked, money, credited, pc, job, targets,
                   found, crashes>>

Create(w) ==
    \/ Guard(w) \/ Insert(w) \/ Recheck(w) \/ Void(w) \/ StkPush(w)
    \/ MarkStkPushFailed(w) \/ RecordStkSubmission(w)
    \/ CreatePaymentRequest(w)

Reconcile(w) ==
    \/ ListPending(w) \/ Settle(w)
    \/ \E k \in Key : Query(w, k) \/ QueryInVain(w, k)

Next ==
    \/ \E w \in Worker : Reconcile(w) \/ Crash(w)
    \/ \E w \in Sweeper : StartSweep(w)
    \/ \E w \in Request : Create(w) \/ \E k \in Key : Purchase(w, k)
    \/ \E k \in Key : HandleCallback(k) \/ Pay(k) \/ Age(k)

Spec == Init /\ [][Next]_vars

\* The cron fires and a run goes on; a request goes on; a prompt is answered
\* or lapses (a Stellar payment may never come); a query asked again and again
\* is answered; time passes.  No callback has to arrive.
FairSpec ==
    /\ Spec
    /\ \A w \in Sweeper : /\ WF_vars(StartSweep(w) \/ Reconcile(w))
                          /\ \A k \in Key : SF_vars(Query(w, k))
    /\ \A w \in Request : WF_vars(Create(w) \/ Reconcile(w))
    /\ \A k \in Key : /\ WF_vars(rail[k] = "MPESA" /\ Pay(k))
                      /\ WF_vars(Age(k))

-----------------------------------------------------------------------------
(* What holds *)

\* The callback, its redelivery and reconcilers of several replicas race to
\* complete a purchase: its credits are granted once, when it is completed.
CreditedOnce ==
    \A k \in Key : credited[k] = IF status[k] = "COMPLETED" THEN 1 ELSE 0

\* No purchase is completed on a guess (the comment at
\* mpesa-reconcile.service.ts:86): the provider has the money.
CompletedIsPaid ==
    \A k \in Key : status[k] = "COMPLETED" => Paid(k)

\* A purchase Safaricom was paid for is never failed or cancelled, whatever
\* stale answers reconcilers hold and whatever plain updates run, once its
\* CheckoutRequestID is recorded.  The code makes an exception of a payment
\* whose callback lacks the receipt or the amount: "curt" is not "paid".
PaidIsNeverRefused ==
    \A k \in Key : rail[k] = "MPESA" /\ tracked[k] /\ money[k] = "paid"
                     => status[k] \in {"PENDING", "COMPLETED"}

\* The purchase k is pending and its buyer can pay, or is about to be asked.
Open(k) ==
    /\ status[k] = "PENDING"
    /\ \/ money[k] # "none"
       \/ \E w \in Request : job[w] = k /\ pc[w] \in {"send", "record", "fail"}

\* However the requests of a user interleave, one purchase at most is open to
\* payment: the guard alone would not do, the check after the insert does.
OneOpenPurchase == \A j, k \in Key : Open(j) /\ Open(k) => j = k

\* A pending purchase, which keeps its user from buying, is decided in the
\* end: a lost callback, an unrecorded push and a crash are all reconciled.
PendingIsDecided ==
    \A k \in Key : status[k] = "PENDING" ~> status[k] # "PENDING"

\* Who paid a recorded prompt gets the credits, callback or not, unless the
\* callback comes without its receipt or amount: then the payment may be lost.
PaidIsCredited ==
    \A k \in Key : (rail[k] = "MPESA" /\ tracked[k] /\ money[k] = "paid")
                     ~> status[k] = "COMPLETED"
=============================================================================
