---------------------------- MODULE WalletProofs ----------------------------
(***************************************************************************)
(* Wallet is type correct, implements Ledger, and its cache holds nothing  *)
(* but balances the account had, stale ones for a known cause only.        *)
(***************************************************************************)
EXTENDS Wallet, TLAPS

\* While a transaction is open nobody else moves the account: its draft is
\* still what its movement makes of the committed row.
Exclusive ==
    /\ \A w \in Worker : pc[w] \in {"move", "record"} => job[w] \in Job
    /\ \A w \in Worker : pc[w] = "record" =>
         /\ holder = w
         /\ Covered(job[w])
         /\ draft[w] = Moved(job[w])
    /\ \A w \in Worker : pc[w] = "store" => fetched[w] \in Nat

IInv == TypeOK /\ Exclusive

\* What is cached or about to be was a balance of the account.
Balances == {0} \cup {log[i].after : i \in DOMAIN log}

CacheInv ==
    /\ account.balance \in Balances
    /\ cache \in Balances \cup {Null}
    /\ \A w \in Worker : pc[w] = "store" => fetched[w] \in Balances

-----------------------------------------------------------------------------
(* Type correctness *)

\* What a covered movement leaves is an account again.
LEMMA MovedIsAccount ==
    ASSUME TypeOK, NEW j \in Job, Covered(j)
    PROVE  /\ Moved(j) \in Account
           /\ Signed(j) \in Int
           /\ Moved(j).balance = account.balance + Signed(j)
  <1>1. /\ account = [balance |-> account.balance, earned |-> account.earned,
                      spent |-> account.spent]
        /\ account.balance \in Nat /\ account.earned \in Nat
        /\ account.spent \in Nat
    BY DEF TypeOK, Account
  <1>2. j.amount \in Nat /\ j.kind \in Kind
    BY WalletAssumption DEF Job
  <1>3. CASE j.kind = "SPEND"
    <2>1. Moved(j) = [balance |-> account.balance - j.amount,
                      earned |-> account.earned,
                      spent |-> account.spent + j.amount]
      BY <1>1, <1>3 DEF Moved
    <2>2. /\ account.balance - j.amount \in Nat
          /\ account.spent + j.amount \in Nat
      BY <1>1, <1>2, <1>3 DEF Covered
    <2>3. Signed(j) = -j.amount
      BY <1>3 DEF Signed
    <2>4. QED
      BY <1>1, <1>2, <2>1, <2>2, <2>3 DEF Account
  <1>4. CASE j.kind = "REFUND"
    BY <1>1, <1>2, <1>4 DEF Moved, Signed, Account
  <1>5. CASE j.kind \notin {"SPEND", "REFUND"}
    <2>1. Moved(j) = [balance |-> account.balance + j.amount,
                      earned |-> account.earned + j.amount,
                      spent |-> account.spent]
      BY <1>1, <1>5 DEF Moved
    <2>2. Signed(j) = j.amount
      BY <1>5 DEF Signed
    <2>3. QED
      BY <1>1, <1>2, <2>1, <2>2 DEF Account
  <1>6. QED
    BY <1>3, <1>4, <1>5

LEMMA InitInv == Init => IInv /\ CacheInv
  <1> SUFFICES ASSUME Init
               PROVE  IInv /\ CacheInv
    OBVIOUS
  <1>1. account \in Account /\ log = <<>>
    BY DEF Init, Account
  <1>2. TypeOK
    <2>1. \A S : <<>> \in Seq(S)
      OBVIOUS
    <2>2. log \in Seq([kind : Kind, amount : Int, before : Nat, after : Nat])
      BY <1>1, <2>1
    <2>3. /\ draft \in [Worker -> Account \cup {Null}]
          /\ job \in [Worker -> Job \cup {Null}]
          /\ fetched \in [Worker -> Nat \cup {Null}]
          /\ pc \in [Worker -> {"idle", "move", "record", "invalidate",
                               "fetch", "store"}]
      BY DEF Init
    <2>4. QED
      BY <1>1, <2>2, <2>3 DEF Init, TypeOK
  <1>3. Exclusive
    BY DEF Init, Exclusive
  <1>4. CacheInv
    <2>1. account.balance = 0 /\ 0 \in Balances
      BY DEF Init, Balances
    <2>2. \A w \in Worker : pc[w] # "store"
      BY DEF Init
    <2>3. cache = Null
      BY DEF Init
    <2>4. QED
      BY <2>1, <2>2, <2>3 DEF CacheInv
  <1>5. QED
    BY <1>2, <1>3, <1>4 DEF IInv

\* A step that leaves the account alone keeps what its drafts rest on.
LEMMA MoveInv ==
    ASSUME IInv, NEW w \in Worker, Move(w)
    PROVE  IInv'
  <1> USE DEF IInv
  <1>1. job[w] \in Job
    BY DEF Move, Exclusive
  <1>2. CASE Covered(job[w])
    <2>1. Moved(job[w]) \in Account
      BY <1>1, <1>2, MovedIsAccount
    <2>2. TypeOK'
      BY <1>2, <2>1 DEF Move, TypeOK, Goto, dbVars
    <2>3. /\ UNCHANGED <<job, fetched, account>>
          /\ holder' = w
          /\ pc' = [pc EXCEPT ![w] = "record"]
          /\ draft' = [draft EXCEPT ![w] = Moved(job[w])]
          /\ holder = Null /\ pc[w] = "move"
      BY <1>2 DEF Move, Goto, dbVars
    <2>4. \A v \in Worker : v # w => pc'[v] = pc[v]
      BY <2>3 DEF TypeOK
    <2>5. \A v \in Worker : v # w => pc[v] # "record"
      BY <2>3, WalletAssumption DEF Exclusive
    <2>6. /\ \A v \in Worker : pc'[v] \in {"move", "record"} => job'[v] \in Job
          /\ \A v \in Worker : pc'[v] = "store" => fetched'[v] \in Nat
      BY <1>1, <2>3, <2>4 DEF Exclusive, TypeOK
    <2>7. Moved(job[w])' = Moved(job[w]) /\ Covered(job[w])'
      BY <1>2, <2>3 DEF Moved, Covered
    <2>8. draft'[w] = Moved(job[w])
      BY <2>3 DEF TypeOK
    <2>9. Exclusive'
      BY <2>3, <2>4, <2>5, <2>6, <2>7, <2>8 DEF Exclusive
    <2>10. QED
      BY <2>2, <2>9
  <1>3. CASE ~Covered(job[w])
    <2>1. TypeOK'
      BY <1>3 DEF Move, TypeOK, Goto, Return, dbVars
    <2>2. Exclusive'
      BY <1>3 DEF Move, TypeOK, Exclusive, Goto, Return, dbVars, Covered, Moved
    <2>3. QED
      BY <2>1, <2>2
  <1>4. QED
    BY <1>2, <1>3

\* The commit appends one row that starts where the account stood.
LEMMA RecordStep ==
    ASSUME IInv, NEW w \in Worker, Record(w)
    PROVE  /\ job[w] \in Job
           /\ Covered(job[w])
           /\ holder = w
           /\ account' = Moved(job[w])
           /\ account' \in Account
           /\ Signed(job[w]) \in Int
           /\ account'.balance = account.balance + Signed(job[w])
           /\ log' = Append(log, [kind |-> job[w].kind,
                                  amount |-> Signed(job[w]),
                                  before |-> account.balance,
                                  after |-> account'.balance])
  <1>1. /\ job[w] \in Job /\ Covered(job[w]) /\ holder = w
        /\ account' = Moved(job[w])
        /\ log' = Append(log, Entry(job[w], account'.balance))
    BY DEF IInv, Exclusive, Record
  <1>2. /\ account' \in Account
        /\ Signed(job[w]) \in Int
        /\ account'.balance = account.balance + Signed(job[w])
    BY <1>1, MovedIsAccount DEF IInv
  <1>3. account.balance \in Int
    BY DEF IInv, TypeOK, Account
  <1>4. account'.balance - Signed(job[w]) = account.balance
    BY <1>2, <1>3
  <1>5. QED
    BY <1>1, <1>2, <1>4 DEF Entry

LEMMA RecordInv ==
    ASSUME IInv, NEW w \in Worker, Record(w)
    PROVE  IInv'
  <1> USE DEF IInv
  <1>1. /\ job[w] \in Job
        /\ holder = w
        /\ account' \in Account
        /\ Signed(job[w]) \in Int
        /\ log' = Append(log, [kind |-> job[w].kind,
                               amount |-> Signed(job[w]),
                               before |-> account.balance,
                               after |-> account'.balance])
    BY RecordStep
  <1>2. [kind |-> job[w].kind, amount |-> Signed(job[w]),
         before |-> account.balance, after |-> account'.balance]
          \in [kind : Kind, amount : Int, before : Nat, after : Nat]
    BY <1>1 DEF TypeOK, Job, Account
  <1>3. log' \in Seq([kind : Kind, amount : Int, before : Nat, after : Nat])
    BY <1>1, <1>2 DEF TypeOK
  <1>4. TypeOK'
    BY <1>1, <1>3 DEF Record, TypeOK, Goto
  <1>5. \A v \in Worker : pc'[v] = "record" => FALSE
    BY <1>1 DEF Record, Exclusive, TypeOK, Goto
  <1>6. Exclusive'
    BY <1>1, <1>5 DEF Record, Exclusive, TypeOK, Goto
  <1>7. QED
    BY <1>4, <1>6

\* The other steps leave account and log as they are.
Quiet(w) ==
    \/ \E j \in Job : Start(w, j)
    \/ Abort(w) \/ Invalidate(w) \/ InvalidateFails(w)
    \/ GetBalance(w) \/ Fetch(w) \/ Store(w)

LEMMA QuietInv ==
    ASSUME IInv, NEW w \in Worker, Quiet(w)
    PROVE  IInv' /\ UNCHANGED dbVars
  <1> USE DEF IInv
  <1>1. ASSUME NEW j \in Job, Start(w, j)
        PROVE  IInv' /\ UNCHANGED dbVars
    BY <1>1 DEF Start, TypeOK, Exclusive, Goto, dbVars, Covered, Moved
  <1>2. CASE Abort(w)
    BY <1>2 DEF Abort, TypeOK, Exclusive, Goto, Return, dbVars, Covered, Moved
  <1>3. CASE Invalidate(w)
    BY <1>3 DEF Invalidate, TypeOK, Exclusive, Goto, Return, dbVars, Covered,
                Moved
  <1>4. CASE InvalidateFails(w)
    BY <1>4 DEF InvalidateFails, TypeOK, Exclusive, Goto, Return, dbVars,
                Covered, Moved
  <1>5. CASE GetBalance(w)
    BY <1>5 DEF GetBalance, TypeOK, Exclusive, Goto, dbVars, Covered, Moved
  <1>6. CASE Fetch(w)
    BY <1>6 DEF Fetch, TypeOK, Account, Exclusive, Goto, dbVars, Covered, Moved
  <1>7. CASE Store(w)
    BY <1>7 DEF Store, TypeOK, Account, Exclusive, Goto, Return, dbVars,
                Covered, Moved
  <1>8. QED
    BY <1>1, <1>2, <1>3, <1>4, <1>5, <1>6, <1>7 DEF Quiet

LEMMA ExpireInv ==
    ASSUME IInv, Expire
    PROVE  IInv' /\ UNCHANGED dbVars
  BY DEF IInv, Expire, TypeOK, Exclusive, dbVars, Covered, Moved

LEMMA StutterInv ==
    ASSUME IInv, UNCHANGED vars
    PROVE  IInv'
  BY DEF IInv, vars, dbVars, TypeOK, Exclusive, Covered, Moved

\* A step moves the account by a commit or leaves it and its log alone.
LEMMA StepCases ==
    ASSUME [Next]_vars
    PROVE  \/ \E w \in Worker : Move(w) \/ Record(w) \/ Quiet(w)
           \/ Expire
           \/ UNCHANGED vars
  BY DEF Next, Quiet

LEMMA NextInv == IInv /\ [Next]_vars => IInv'
  <1> SUFFICES ASSUME IInv, [Next]_vars
               PROVE  IInv'
    OBVIOUS
  <1>1. QED
    BY StepCases, MoveInv, RecordInv, QuietInv, ExpireInv, StutterInv

LEMMA Inductive == Spec => []IInv
  BY InitInv, NextInv, PTL DEF Spec

\* Type correctness of an account, its log and its cache.
THEOREM TypeCorrect == Spec => []TypeOK
  <1>1. IInv => TypeOK
    BY DEF IInv
  <1>2. QED
    BY <1>1, Inductive, PTL

-----------------------------------------------------------------------------
(* The account implements the ledger *)

\* Dropping the kind of the rows commutes with appending one.
LEMMA UntypedAppend ==
    ASSUME TypeOK, NEW a \in Int, NEW b \in Nat, NEW c \in Nat,
           NEW k \in Kind,
           log' = Append(log, [kind |-> k, amount |-> a, before |-> b,
                               after |-> c])
    PROVE  Untyped' = Append(Untyped, [amount |-> a, before |-> b,
                                       after |-> c])
  <1> DEFINE e == [kind |-> k, amount |-> a, before |-> b, after |-> c]
             u == [amount |-> a, before |-> b, after |-> c]
             R == [kind : Kind, amount : Int, before : Nat, after : Nat]
             S == [amount : Int, before : Nat, after : Nat]
  <1>1. log \in Seq(R) /\ e \in R /\ u \in S
    BY DEF TypeOK
  <1>2. /\ Len(log) \in Nat /\ DOMAIN log = 1..Len(log)
        /\ Len(log') = Len(log) + 1
        /\ DOMAIN log' = 1..(Len(log) + 1)
        /\ \A i \in 1..Len(log) : log'[i] = log[i]
        /\ log'[Len(log) + 1] = e
    BY <1>1
  <1>3. /\ Untyped \in Seq(S) /\ Len(Untyped) = Len(log)
    <2>1. \A i \in 1..Len(log) : log[i] \in R
      <3> HIDE DEF R
      <3>1. QED
        BY <1>1
    <2>2. \A i \in 1..Len(log) :
            /\ log[i].amount \in Int
            /\ log[i].before \in Nat /\ log[i].after \in Nat
      BY <2>1
    <2>3. \A i \in 1..Len(log) :
            [amount |-> log[i].amount, before |-> log[i].before,
             after |-> log[i].after] \in S
      BY <2>2
    <2>4. Untyped = [i \in 1..Len(log) |->
                       [amount |-> log[i].amount, before |-> log[i].before,
                        after |-> log[i].after]]
      BY <1>2 DEF Untyped
    <2>5. Untyped \in [1..Len(log) -> S]
      BY <2>3, <2>4
    <2>6. \A n \in Nat : \A T : \A s \in [1..n -> T] :
            s \in Seq(T) /\ Len(s) = n
      OBVIOUS
    <2>7. QED
      BY <1>2, <2>5, <2>6
  <1>4. /\ DOMAIN Append(Untyped, u) = 1..(Len(log) + 1)
        /\ \A i \in 1..Len(log) : Append(Untyped, u)[i] = Untyped[i]
        /\ Append(Untyped, u)[Len(log) + 1] = u
    BY <1>1, <1>2, <1>3
  <1>5. Untyped' = [i \in 1..(Len(log) + 1) |->
                      [amount |-> log'[i].amount, before |-> log'[i].before,
                       after |-> log'[i].after]]
    BY <1>2 DEF Untyped
  <1>6. \A i \in 1..(Len(log) + 1) :
          [amount |-> log'[i].amount, before |-> log'[i].before,
           after |-> log'[i].after] = Append(Untyped, u)[i]
    BY <1>2, <1>4 DEF Untyped
  <1>7. Append(Untyped, u) \in Seq(S)
    BY <1>1, <1>3
  <1>8. QED
    BY <1>4, <1>5, <1>6, <1>7

LEMMA RecordPosts ==
    ASSUME IInv, NEW w \in Worker, Record(w)
    PROVE  L!Next
  <1>1. /\ job[w] \in Job
        /\ account' \in Account
        /\ Signed(job[w]) \in Int
        /\ account'.balance = account.balance + Signed(job[w])
        /\ log' = Append(log, [kind |-> job[w].kind,
                               amount |-> Signed(job[w]),
                               before |-> account.balance,
                               after |-> account'.balance])
    BY RecordStep
  <1>2. /\ account.balance \in Nat /\ account'.balance \in Nat
        /\ job[w].kind \in Kind /\ job[w].amount \in Amount
    BY <1>1 DEF IInv, TypeOK, Account, Job
  <1>3. Untyped' = Append(Untyped, [amount |-> Signed(job[w]),
                                    before |-> account.balance,
                                    after |-> account'.balance])
    BY <1>1, <1>2, UntypedAppend DEF IInv
  <1>4. L!Post(Signed(job[w]))
    BY <1>1, <1>2, <1>3 DEF L!Post
  <1>5. Signed(job[w]) \in {job[w].amount, -job[w].amount}
    BY DEF Signed
  <1>6. QED
    BY <1>2, <1>4, <1>5 DEF L!Next

\* The account and its log are a ledger: a commit posts one movement, every
\* other step of requests, jobs and cache is a stutter.
THEOREM Refinement == Spec => ImplementsLedger
  <1>1. Init => L!Init
    BY DEF Init, L!Init, Untyped
  <1>2. IInv /\ [Next]_vars => [L!Next]_<<account.balance, Untyped>>
    <2> SUFFICES ASSUME IInv, [Next]_vars
                 PROVE  L!Next \/ UNCHANGED <<account.balance, Untyped>>
      OBVIOUS
    <2>1. ASSUME UNCHANGED dbVars
          PROVE  UNCHANGED <<account.balance, Untyped>>
      BY <2>1 DEF dbVars, Untyped
    <2>2. ASSUME NEW w \in Worker, Move(w)
          PROVE  UNCHANGED dbVars
      BY <2>2 DEF Move, dbVars
    <2>3. UNCHANGED vars => UNCHANGED dbVars
      BY DEF vars, dbVars
    <2>4. QED
      BY <2>1, <2>2, <2>3, StepCases, RecordPosts, QuietInv, ExpireInv
  <1>3. QED
    BY <1>1, <1>2, Inductive, PTL DEF Spec, ImplementsLedger, L!Spec

-----------------------------------------------------------------------------
(* The cache *)

\* A step either adds balances or keeps them.
LEMMA BalancesGrow ==
    ASSUME IInv, [Next]_vars
    PROVE  Balances \subseteq Balances'
  <1>1. ASSUME NEW w \in Worker, Record(w)
        PROVE  Balances \subseteq Balances'
    <2>1. PICK e : log' = Append(log, e)
      BY <1>1, RecordStep
    <2>2. /\ DOMAIN log \subseteq DOMAIN log'
          /\ \A i \in DOMAIN log : log'[i] = log[i]
      BY <2>1 DEF IInv, TypeOK
    <2>3. QED
      BY <2>2 DEF Balances
  <1>2. UNCHANGED log => Balances \subseteq Balances'
    BY DEF Balances
  <1>3. ASSUME NEW w \in Worker, Move(w) PROVE UNCHANGED log
    BY <1>3 DEF Move, dbVars
  <1>4. QED
    BY <1>1, <1>2, <1>3, StepCases, QuietInv, ExpireInv DEF dbVars, vars

LEMMA CacheNext == IInv /\ CacheInv /\ [Next]_vars => CacheInv'
  <1> SUFFICES ASSUME IInv, CacheInv, [Next]_vars
               PROVE  CacheInv'
    OBVIOUS
  <1>1. Balances \subseteq Balances'
    BY BalancesGrow
  <1> USE <1>1 DEF CacheInv, IInv, TypeOK
  <1>2. ASSUME NEW w \in Worker, Record(w)
        PROVE  CacheInv'
    <2>1. account'.balance \in Balances'
      <3>1. PICK e : log' = Append(log, e) /\ e.after = account'.balance
        <4> DEFINE row == [kind |-> job[w].kind, amount |-> Signed(job[w]),
                           before |-> account.balance,
                           after |-> account'.balance]
        <4>1. log' = Append(log, row) /\ row.after = account'.balance
          BY <1>2, RecordStep
        <4>2. QED
          BY <4>1
      <3>2. Len(log) + 1 \in DOMAIN log' /\ log'[Len(log) + 1] = e
        BY <3>1
      <3>3. QED
        BY <3>1, <3>2 DEF Balances
    <2>2. UNCHANGED <<cache, fetched>>
      BY <1>2 DEF Record
    <2>3. \A v \in Worker : pc'[v] = "store" => pc[v] = "store"
      BY <1>2 DEF Record, Goto
    <2>4. QED
      BY <2>1, <2>2, <2>3
  <1>3. ASSUME NEW w \in Worker, Move(w)
        PROVE  CacheInv'
    BY <1>3 DEF Move, Goto, Return, dbVars
  <1>4. ASSUME NEW w \in Worker, NEW j \in Job, Start(w, j)
        PROVE  CacheInv'
    BY <1>4 DEF Start, Goto, dbVars
  <1>5. ASSUME NEW w \in Worker, Abort(w)
        PROVE  CacheInv'
    BY <1>5 DEF Abort, Goto, Return, dbVars
  <1>6. ASSUME NEW w \in Worker, Invalidate(w) \/ InvalidateFails(w)
        PROVE  CacheInv'
    BY <1>6 DEF Invalidate, InvalidateFails, Goto, Return, dbVars
  <1>7. ASSUME NEW w \in Worker, GetBalance(w)
        PROVE  CacheInv'
    BY <1>7 DEF GetBalance, Goto, dbVars
  <1>8. ASSUME NEW w \in Worker, Fetch(w)
        PROVE  CacheInv'
    BY <1>8 DEF Fetch, Goto, dbVars
  <1>9. ASSUME NEW w \in Worker, Store(w)
        PROVE  CacheInv'
    BY <1>9 DEF Store, Goto, Return, dbVars
  <1>10. Expire => CacheInv'
    BY DEF Expire, dbVars
  <1>11. UNCHANGED vars => CacheInv'
    BY DEF vars, dbVars
  <1>12. QED
    BY <1>2, <1>3, <1>4, <1>5, <1>6, <1>7, <1>8, <1>9, <1>10, <1>11,
       StepCases DEF Quiet

\* The cache never holds a balance that no commit left: a transaction that is
\* open or was rolled back cannot be seen through it.
THEOREM CacheWasTrue == Spec => []CachedWasTrue
  <1>1. CacheInv => CachedWasTrue
    BY DEF CacheInv, CachedWasTrue, Balances
  <1>2. QED
    BY <1>1, InitInv, CacheNext, Inductive, PTL DEF Spec

LEMMA StaleNext == IInv /\ StaleIsExplained /\ [Next]_vars => StaleIsExplained'
  <1> SUFFICES ASSUME IInv, StaleIsExplained, [Next]_vars
               PROVE  StaleIsExplained'
    OBVIOUS
  <1> USE DEF StaleIsExplained, IInv, TypeOK
  <1>1. ASSUME NEW w \in Worker, Record(w)
        PROVE  StaleIsExplained'
    BY <1>1 DEF Record, Goto
  <1>2. ASSUME NEW w \in Worker, Move(w)
        PROVE  StaleIsExplained'
    BY <1>2 DEF Move, Goto, Return, dbVars
  <1>3. ASSUME NEW w \in Worker, NEW j \in Job, Start(w, j)
        PROVE  StaleIsExplained'
    BY <1>3 DEF Start, Goto, dbVars
  <1>4. ASSUME NEW w \in Worker, Abort(w) \/ GetBalance(w) \/ Fetch(w)
        PROVE  StaleIsExplained'
    BY <1>4 DEF Abort, GetBalance, Fetch, Goto, Return, dbVars
  <1>5. ASSUME NEW w \in Worker, Invalidate(w) \/ InvalidateFails(w)
        PROVE  StaleIsExplained'
    BY <1>5 DEF Invalidate, InvalidateFails
  <1>6. ASSUME NEW w \in Worker, Store(w)
        PROVE  StaleIsExplained'
    BY <1>6 DEF Store, dbVars
  <1>7. Expire => StaleIsExplained'
    BY DEF Expire
  <1>8. UNCHANGED vars => StaleIsExplained'
    BY DEF vars, dbVars
  <1>9. QED
    BY <1>1, <1>2, <1>3, <1>4, <1>5, <1>6, <1>7, <1>8, StepCases DEF Quiet

\* A cached balance that is not the account's is always the doing of a movement
\* about to invalidate it, an overtaken read or a failed invalidation.
THEOREM StaleExplained == Spec => []StaleIsExplained
  <1>1. Init => StaleIsExplained
    BY DEF Init, StaleIsExplained
  <1>2. QED
    BY <1>1, StaleNext, Inductive, PTL DEF Spec

-----------------------------------------------------------------------------
(* The lifetime figures *)

\* f is the function that Total sums with; there is one for every log that a
\* behaviour writes, which each commit extends.
Sums(f, rows, K) ==
    f = [n \in 0..Len(rows) |->
           IF n = 0 THEN 0 ELSE f[n - 1] + Counted(rows[n], K)]

OneSum(rows, K) ==
    \E f \in [0..Len(rows) -> Int] :
        Sums(f, rows, K) /\ \A g : Sums(g, rows, K) => g = f

\* Total is the last value of the one function that sums.
LEMMA TotalIsLast ==
    ASSUME NEW rows, NEW K, NEW f, Sums(f, rows, K),
           \A g : Sums(g, rows, K) => g = f
    PROVE  Total(rows, K) = f[Len(rows)]
  <1>1. Total(rows, K) = (CHOOSE g : Sums(g, rows, K))[Len(rows)]
    BY DEF Total, Sums
  <1>2. Sums(CHOOSE g : Sums(g, rows, K), rows, K)
    OBVIOUS
  <1>3. (CHOOSE g : Sums(g, rows, K)) = f
    BY <1>2
  <1>4. QED
    BY <1>1, <1>3

LEMMA SumOfNothing ==
    ASSUME NEW K
    PROVE  OneSum(<<>>, K) /\ Total(<<>>, K) = 0
  <1> DEFINE f == [n \in 0..0 |-> 0]
  <1>1. Len(<<>>) = 0 /\ 0..0 = {0}
    OBVIOUS
  <1>2. Sums(f, <<>>, K)
    BY <1>1 DEF Sums
  <1>3. ASSUME NEW g, Sums(g, <<>>, K)
        PROVE  g = f
    BY <1>1, <1>3 DEF Sums
  <1>4. f \in [0..Len(<<>>) -> Int] /\ f[0] = 0
    BY <1>1
  <1> HIDE DEF f
  <1>5. QED
    BY <1>1, <1>2, <1>3, <1>4, TotalIsLast DEF OneSum

\* A row more adds what it counts for.
LEMMA SumOfAppended ==
    ASSUME NEW R, NEW rows \in Seq(R), NEW e \in R, NEW K,
           e.amount \in Int, OneSum(rows, K)
    PROVE  /\ OneSum(Append(rows, e), K)
           /\ Total(rows, K) \in Int
           /\ Total(Append(rows, e), K) = Total(rows, K) + Counted(e, K)
  <1> DEFINE m == Len(rows)
             more == Append(rows, e)
  <1>1. PICK f \in [0..m -> Int] :
          Sums(f, rows, K) /\ \A g : Sums(g, rows, K) => g = f
    BY DEF OneSum
  <1>2. /\ m \in Nat /\ Len(more) = m + 1 /\ more[m + 1] = e
        /\ \A n \in 1..m : more[n] = rows[n]
    OBVIOUS
  <1>3. Counted(e, K) \in Int
    BY DEF Counted
  <1>4. /\ f[0] = 0
        /\ \A n \in 1..m : f[n] = f[n - 1] + Counted(rows[n], K)
    <2>1. f = [n \in 0..m |->
                 IF n = 0 THEN 0 ELSE f[n - 1] + Counted(rows[n], K)]
      BY <1>1 DEF Sums
    <2>2. \A n \in 0..m :
            f[n] = IF n = 0 THEN 0 ELSE f[n - 1] + Counted(rows[n], K)
      BY <2>1
    <2>3. QED
      BY <1>2, <2>2
  <1> DEFINE h == [n \in 0..(m + 1) |->
                     IF n = m + 1 THEN f[m] + Counted(e, K) ELSE f[n]]
  <1>5. h \in [0..(m + 1) -> Int]
    BY <1>1, <1>2, <1>3
  <1>6. /\ h[0] = 0 /\ h[m + 1] = f[m] + Counted(e, K)
        /\ \A n \in 0..m : h[n] = f[n]
    BY <1>2, <1>4
  <1> HIDE DEF h, more, m
  <1>7. Sums(h, more, K)
    <2>1. \A n \in 0..(m + 1) :
            h[n] = IF n = 0 THEN 0 ELSE h[n - 1] + Counted(more[n], K)
      <3> TAKE n \in 0..(m + 1)
      <3>1. CASE n = 0
        BY <1>6, <3>1
      <3>2. CASE n \in 1..m
        BY <1>2, <1>4, <1>6, <3>2
      <3>3. CASE n = m + 1
        BY <1>2, <1>6, <3>3
      <3>4. QED
        BY <1>2, <3>1, <3>2, <3>3
    <2>2. h = [n \in 0..(m + 1) |-> h[n]]
      BY <1>5
    <2>3. QED
      BY <1>2, <2>1, <2>2 DEF Sums
  <1>8. ASSUME NEW g, Sums(g, more, K)
        PROVE  g = h
    <2>1. g = [n \in 0..(m + 1) |->
                 IF n = 0 THEN 0 ELSE g[n - 1] + Counted(more[n], K)]
      BY <1>2, <1>8 DEF Sums
    <2>2. \A n \in 0..(m + 1) :
            g[n] = IF n = 0 THEN 0 ELSE g[n - 1] + Counted(more[n], K)
      BY <2>1
    <2> DEFINE k == [n \in 0..m |-> g[n]]
    <2>3. \A n \in 0..m :
            k[n] = IF n = 0 THEN 0 ELSE k[n - 1] + Counted(rows[n], K)
      <3> TAKE n \in 0..m
      <3>1. CASE n = 0
        BY <1>2, <2>2, <3>1
      <3>2. CASE n \in 1..m
        BY <1>2, <2>2, <3>2
      <3>3. QED
        BY <1>2, <3>1, <3>2
    <2>4. k = [n \in 0..m |-> k[n]]
      OBVIOUS
    <2>5. \A n \in 0..m : k[n] = g[n]
      OBVIOUS
    <2> HIDE DEF k
    <2>6. Sums(k, rows, K)
      BY <2>3, <2>4 DEF Sums, m
    <2>7. k = f
      BY <1>1, <2>6
    <2>8. \A n \in 0..(m + 1) : g[n] = h[n]
      <3>1. \A n \in 0..m : g[n] = f[n]
        BY <2>5, <2>7
      <3>2. g[m + 1] = g[m] + Counted(e, K)
        BY <1>2, <2>2
      <3>3. QED
        BY <1>2, <1>6, <3>1, <3>2
    <2>9. g = [n \in 0..(m + 1) |-> g[n]]
      BY <2>1
    <2>10. QED
      BY <1>5, <2>8, <2>9
  <1>9. Total(rows, K) = f[m] /\ Total(more, K) = h[m + 1]
    BY <1>1, <1>2, <1>7, <1>8, TotalIsLast DEF m
  <1>10. OneSum(more, K)
    BY <1>2, <1>5, <1>7, <1>8 DEF OneSum
  <1>11. f[m] \in Int
    BY <1>1, <1>2
  <1>12. QED
    BY <1>6, <1>9, <1>10, <1>11 DEF more

\* Every commit extends the sums by its row and moves the figures by the same.
SumsInv == \A K \in SUBSET Kind : OneSum(log, K)

FiguresInv == SumsInv /\ LifetimeAddsUp

LEMMA FiguresNext == IInv /\ FiguresInv /\ [Next]_vars => FiguresInv'
  <1> SUFFICES ASSUME IInv, FiguresInv, [Next]_vars
               PROVE  FiguresInv'
    OBVIOUS
  <1>1. ASSUME NEW w \in Worker, Record(w)
        PROVE  FiguresInv'
    <2> DEFINE e == [kind |-> job[w].kind, amount |-> Signed(job[w]),
                     before |-> account.balance, after |-> account'.balance]
               R == [kind : Kind, amount : Int, before : Nat, after : Nat]
    <2>1. /\ job[w] \in Job /\ account' = Moved(job[w])
          /\ account' \in Account /\ Signed(job[w]) \in Int
          /\ account'.balance = account.balance + Signed(job[w])
          /\ log' = Append(log, e)
      BY <1>1, RecordStep
    <2>2. /\ log \in Seq(R) /\ account \in Account
          /\ job[w].kind \in Kind /\ job[w].amount \in Nat
      BY <2>1, WalletAssumption DEF IInv, TypeOK, Job
    <2>3. e \in R /\ e.amount = Signed(job[w]) /\ e.kind = job[w].kind
      BY <2>1, <2>2 DEF Account
    <2> HIDE DEF e, R
    <2>4. ASSUME NEW K \in SUBSET Kind
          PROVE  /\ OneSum(log', K)
                 /\ Total(log, K) \in Int
                 /\ Total(log', K) = Total(log, K) + Counted(e, K)
      BY <2>1, <2>2, <2>3, SumOfAppended DEF FiguresInv, SumsInv
    <2>5. SumsInv'
      BY <2>4 DEF SumsInv
    <2> DEFINE In == Total(log, {"BONUS", "PURCHASE"})
               Out == Total(log, {"SPEND"})
               Back == Total(log, {"REFUND"})
    <2>6. /\ In \in Int /\ Out \in Int /\ Back \in Int
          /\ Total(log', {"BONUS", "PURCHASE"})
               = In + Counted(e, {"BONUS", "PURCHASE"})
          /\ Total(log', {"SPEND"}) = Out + Counted(e, {"SPEND"})
          /\ Total(log', {"REFUND"}) = Back + Counted(e, {"REFUND"})
      BY <2>4 DEF Kind
    <2>7. /\ account.earned = In /\ account.spent = -Out
          /\ account.balance = account.earned - account.spent + Back
          /\ account.balance \in Nat /\ account.earned \in Nat
          /\ account.spent \in Nat
      BY <2>2 DEF FiguresInv, LifetimeAddsUp, SumOf, Account
    <2> HIDE DEF In, Out, Back
    <2>8. /\ account'.earned = Total(log', {"BONUS", "PURCHASE"})
          /\ account'.spent = -Total(log', {"SPEND"})
          /\ account'.balance = account'.earned - account'.spent
                                  + Total(log', {"REFUND"})
      <3>0. account = [balance |-> account.balance, earned |-> account.earned,
                       spent |-> account.spent]
        BY <2>2 DEF Account
      <3>1. CASE job[w].kind = "SPEND"
        <4>1. /\ account'.earned = account.earned
              /\ account'.spent = account.spent + job[w].amount
              /\ account'.balance = account.balance - job[w].amount
          BY <2>1, <3>0, <3>1 DEF Moved
        <4>2. /\ Counted(e, {"BONUS", "PURCHASE"}) = 0
              /\ Counted(e, {"SPEND"}) = -job[w].amount
              /\ Counted(e, {"REFUND"}) = 0
          BY <2>3, <3>1 DEF Counted, Signed
        <4>3. QED
          BY <2>2, <2>6, <2>7, <4>1, <4>2
      <3>2. CASE job[w].kind = "REFUND"
        <4>1. /\ account'.earned = account.earned
              /\ account'.spent = account.spent
              /\ account'.balance = account.balance + job[w].amount
          BY <2>1, <3>0, <3>2 DEF Moved
        <4>2. /\ Counted(e, {"BONUS", "PURCHASE"}) = 0
              /\ Counted(e, {"SPEND"}) = 0
              /\ Counted(e, {"REFUND"}) = job[w].amount
          BY <2>3, <3>2 DEF Counted, Signed
        <4>3. QED
          BY <2>2, <2>6, <2>7, <4>1, <4>2
      <3>3. CASE job[w].kind \in {"BONUS", "PURCHASE"}
        <4>1. /\ account'.earned = account.earned + job[w].amount
              /\ account'.spent = account.spent
              /\ account'.balance = account.balance + job[w].amount
          BY <2>1, <3>0, <3>3 DEF Moved
        <4>2. /\ Counted(e, {"BONUS", "PURCHASE"}) = job[w].amount
              /\ Counted(e, {"SPEND"}) = 0
              /\ Counted(e, {"REFUND"}) = 0
          BY <2>3, <3>3 DEF Counted, Signed
        <4>3. QED
          BY <2>2, <2>6, <2>7, <4>1, <4>2
      <3>4. QED
        BY <2>2, <3>1, <3>2, <3>3 DEF Kind
    <2>9. LifetimeAddsUp'
      BY <2>8 DEF LifetimeAddsUp, SumOf
    <2>10. QED
      BY <2>5, <2>9 DEF FiguresInv
  <1>2. UNCHANGED dbVars => FiguresInv'
    BY DEF dbVars, FiguresInv, SumsInv, LifetimeAddsUp, SumOf
  <1>3. ASSUME NEW w \in Worker, Move(w)
        PROVE  UNCHANGED dbVars
    BY <1>3 DEF Move, dbVars
  <1>4. UNCHANGED vars => UNCHANGED dbVars
    BY DEF vars, dbVars
  <1>5. QED
    BY <1>1, <1>2, <1>3, <1>4, StepCases, QuietInv, ExpireInv

\* What the user sees as earned and spent is what the log of his movements
\* adds up to, and explains his balance up to the refunds.
THEOREM FiguresAddUp == Spec => []LifetimeAddsUp
  <1>1. Init => FiguresInv
    BY SumOfNothing
    DEF Init, FiguresInv, SumsInv, LifetimeAddsUp, SumOf
  <1>2. FiguresInv => LifetimeAddsUp
    BY DEF FiguresInv
  <1>3. QED
    BY <1>1, <1>2, FiguresNext, Inductive, PTL DEF Spec
=============================================================================
