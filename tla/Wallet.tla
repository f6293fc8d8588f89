------------------------------- MODULE Wallet -------------------------------
(***************************************************************************)
(* One user's credit account: the movements that unlocks, refunds, bonuses *)
(* and purchases make inside their transactions, the rows that record them *)
(* and the cached balance beside it.  An UPDATE of the account keeps its   *)
(* row lock to the end of the transaction; others see what is committed.   *)
(***************************************************************************)
EXTENDS Integers, Sequences

CONSTANTS
    Worker,    \* requests and jobs that move or read the balance
    Amount,    \* what a movement may be worth
    Null,      \* "nobody", "nothing"
    MaxMoves   \* bound on the movements of a behaviour

ASSUME WalletAssumption ==
    /\ Amount \subseteq Nat
    /\ MaxMoves \in Nat
    /\ Null \notin Worker \cup Int

VARIABLES
    account,   \* the credits row as committed
    log,       \* the completed credit_transactions in the order of commit
    holder,    \* who holds the lock of the account's row
    draft,     \* the row as the transaction of a worker sees it
    pc, job,   \* what each worker does next and is asked to do
    cache,     \* the balance in Redis
    fetched,   \* a balance read from the database and not cached yet
    late       \* auxiliary: the cache was written or left behind the times

dbVars == <<account, log>>
vars == <<account, log, holder, draft, pc, job, cache, fetched, late>>

Kind == {"SPEND", "REFUND", "BONUS", "PURCHASE"}
Job == [kind : Kind, amount : Amount]
Account == [balance : Nat, earned : Nat, spent : Nat]

TypeOK ==
    /\ account \in Account
    /\ log \in Seq([kind : Kind, amount : Int, before : Nat, after : Nat])
    /\ holder \in Worker \cup {Null}
    /\ draft \in [Worker -> Account \cup {Null}]
    /\ pc \in [Worker -> {"idle", "move", "record", "invalidate", "fetch",
                          "store"}]
    /\ job \in [Worker -> Job \cup {Null}]
    /\ cache \in Nat \cup {Null}
    /\ fetched \in [Worker -> Nat \cup {Null}]
    /\ late \in BOOLEAN

Init ==
    /\ account = [balance |-> 0, earned |-> 0, spent |-> 0]
    /\ log = <<>>
    /\ holder = Null
    /\ draft = [w \in Worker |-> Null]
    /\ pc = [w \in Worker |-> "idle"]
    /\ job = [w \in Worker |-> Null]
    /\ cache = Null
    /\ fetched = [w \in Worker |-> Null]
    /\ late = FALSE

Goto(w, l) == pc' = [pc EXCEPT ![w] = l]

Return(w) == /\ Goto(w, "idle")
             /\ job' = [job EXCEPT ![w] = Null]
             /\ draft' = [draft EXCEPT ![w] = Null]
             /\ fetched' = [fetched EXCEPT ![w] = Null]

-----------------------------------------------------------------------------
(* Movements: credit.service.ts *)

\* spendCredits, refundCredits, grantBonusCredits, processSuccessfulPayment
Start(w, j) ==
    /\ pc[w] = "idle"
    /\ Goto(w, "move")
    /\ job' = [job EXCEPT ![w] = j]
    /\ UNCHANGED <<dbVars, holder, draft, cache, fetched, late>>

MovedRefundBug(j) ==
    IF j.kind = "SPEND"
    THEN [account EXCEPT !.balance = @ - j.amount, !.spent = @ + j.amount]
    ELSE [account EXCEPT !.balance = @ + j.amount, !.earned = @ + j.amount]

\* Refunds count as neither earned nor spent.
Moved(j) ==
    CASE j.kind = "SPEND" ->
           [account EXCEPT !.balance = @ - j.amount, !.spent = @ + j.amount]
      [] j.kind = "REFUND" -> [account EXCEPT !.balance = @ + j.amount]
      [] OTHER ->
           [account EXCEPT !.balance = @ + j.amount, !.earned = @ + j.amount]

\* INSUFFICIENT_CREDITS otherwise
Covered(j) == j.kind = "SPEND" => account.balance >= j.amount

MoveUnlockedBug(w) ==
    /\ pc[w] = "move"
    /\ IF Covered(job[w])
       THEN /\ holder' = w
            /\ draft' = [draft EXCEPT ![w] = Moved(job[w])]
            /\ Goto(w, "record")
            /\ UNCHANGED <<job, fetched>>
       ELSE Return(w) /\ UNCHANGED holder
    /\ UNCHANGED <<dbVars, cache, late>>

\* applyBalanceIncrement, applyBalanceDecrement: one UPDATE on the row once
\* its lock is free; the decrement's guard is part of it.
Move(w) ==
    /\ pc[w] = "move"
    /\ holder = Null
    /\ IF Covered(job[w])
       THEN /\ holder' = w
            /\ draft' = [draft EXCEPT ![w] = Moved(job[w])]
            /\ Goto(w, "record")
            /\ UNCHANGED <<job, fetched>>
       ELSE Return(w) /\ UNCHANGED holder
    /\ UNCHANGED <<dbVars, cache, late>>

\* A spend is recorded as a negative amount.
Signed(j) == IF j.kind = "SPEND" THEN -j.amount ELSE j.amount

Entry(j, after) == [kind |-> j.kind, amount |-> Signed(j),
                    before |-> after - Signed(j), after |-> after]

RecordForgetfulBug(w) ==
    /\ pc[w] = "record"
    /\ Len(log) < MaxMoves
    /\ account' = draft[w]
    /\ log' = Append(log, Entry(job[w], draft[w].balance))
    /\ holder' = Null
    /\ Return(w)
    /\ UNCHANGED <<cache, late>>

\* createTransaction with the balances the transaction sees; the commit.
Record(w) ==
    /\ pc[w] = "record"
    /\ Len(log) < MaxMoves
    /\ account' = draft[w]
    /\ log' = Append(log, Entry(job[w], draft[w].balance))
    /\ holder' = Null
    /\ draft' = [draft EXCEPT ![w] = Null]
    /\ Goto(w, "invalidate")
    /\ UNCHANGED <<job, cache, fetched, late>>

\* A later statement of the surrounding transaction fails; it is rolled back.
Abort(w) ==
    /\ pc[w] = "record"
    /\ holder' = Null
    /\ Return(w)
    /\ UNCHANGED <<dbVars, cache, late>>

-----------------------------------------------------------------------------
(* The cached balance: credit-query.service.ts, cache.service.ts *)

\* invalidateBalanceCache, after the commit.
Invalidate(w) ==
    /\ pc[w] = "invalidate"
    /\ cache' = Null
    /\ late' = FALSE
    /\ Return(w)
    /\ UNCHANGED <<dbVars, holder>>

\* Redis does not answer, or the replica stops.
InvalidateFails(w) ==
    /\ pc[w] = "invalidate"
    /\ late' = (cache # Null)
    /\ Return(w)
    /\ UNCHANGED <<dbVars, holder, cache>>

\* getBalance misses the cache; a hit changes nothing.
GetBalance(w) ==
    /\ pc[w] = "idle"
    /\ cache = Null
    /\ Goto(w, "fetch")
    /\ UNCHANGED <<dbVars, holder, draft, job, cache, fetched, late>>

Fetch(w) ==
    /\ pc[w] = "fetch"
    /\ fetched' = [fetched EXCEPT ![w] = account.balance]
    /\ Goto(w, "store")
    /\ UNCHANGED <<dbVars, holder, draft, job, cache, late>>

Store(w) ==
    /\ pc[w] = "store"
    /\ cache' = fetched[w]
    /\ late' = (fetched[w] # account.balance)
    /\ Return(w)
    /\ UNCHANGED <<dbVars, holder>>

\* The key outlives its BALANCE_CACHE_TTL_SECONDS.
Expire ==
    /\ cache # Null
    /\ cache' = Null
    /\ late' = FALSE
    /\ UNCHANGED <<dbVars, holder, draft, pc, job, fetched>>

Next ==
    \/ \E w \in Worker :
         \/ \E j \in Job : Start(w, j)
         \/ Move(w) \/ Record(w) \/ Abort(w)
         \/ Invalidate(w) \/ InvalidateFails(w)
         \/ GetBalance(w) \/ Fetch(w) \/ Store(w)
    \/ Expire

Spec == Init /\ [][Next]_vars

-----------------------------------------------------------------------------
(* What holds *)

\* The account and its log implement a ledger: however spends, refunds and
\* purchases overlap, no movement is lost, the balance stays non-negative and
\* the recorded balances chain without a gap.
Untyped == [i \in DOMAIN log |-> [amount |-> log[i].amount,
                                  before |-> log[i].before,
                                  after |-> log[i].after]]

L == INSTANCE Ledger WITH balance <- account.balance, log <- Untyped

ImplementsLedger == L!Spec

\* What the rows of a log add up to, counting those of the kinds K.
Counted(e, K) == IF e.kind \in K THEN e.amount ELSE 0

Total(rows, K) ==
    LET sum[n \in 0..Len(rows)] ==
          IF n = 0 THEN 0 ELSE sum[n - 1] + Counted(rows[n], K)
    IN  sum[Len(rows)]

SumOf(K) == Total(log, K)

\* The lifetime figures explain the balance up to refunds, which count in
\* neither: what the user sees as earned and spent is what the log says.
LifetimeAddsUp ==
    /\ account.earned = SumOf({"BONUS", "PURCHASE"})
    /\ account.spent = -SumOf({"SPEND"})
    /\ account.balance = account.earned - account.spent + SumOf({"REFUND"})

\* What is cached is a balance the account had, never one of a transaction
\* that was still open or was rolled back.
CachedWasTrue ==
    cache \in {Null, 0} \cup {log[i].after : i \in DOMAIN log}

\* The cache differs from the account only while a movement has still to
\* invalidate it, or if a read overtaken by one, or a failure of Redis, left
\* it behind; then it does so until the key expires.
StaleIsExplained ==
    cache \in {Null, account.balance} \/ late
      \/ \E w \in Worker : pc[w] = "invalidate"
=============================================================================
