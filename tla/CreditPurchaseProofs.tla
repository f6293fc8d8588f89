------------------------ MODULE CreditPurchaseProofs ------------------------
(***************************************************************************)
(* CreditPurchase is type correct, credits each purchase once and for      *)
(* money the provider has, refuses none that a recorded prompt paid, and   *)
(* keeps one at most open to payment.                                      *)
(***************************************************************************)
EXTENDS CreditPurchase, TLAPS

\* A row that was never inserted is blank; any other is paid by some rail.
Blank ==
    \A k \in Key :
        IF status[k] = "none"
        THEN rail[k] = "none" /\ ~tracked[k] /\ age[k] = 0 /\ money[k] = "none"
        ELSE rail[k] \in Rail

\* A request that creates a purchase is alone with its row: it is pending,
\* without an id for a callback and too young for the reconciler.
Creating ==
    /\ \A w \in Request : pc[w] # "idle" => job[w] \in Key
    /\ \A w \in Request : pc[w] \in Sending =>
         /\ status[job[w]] = "PENDING"
         /\ ~tracked[job[w]]
         /\ age[job[w]] = 0
    /\ \A v, w \in Request :
         pc[v] \in Sending /\ pc[w] \in Sending /\ job[v] = job[w] => v = w
    /\ \A w \in Sweeper : pc[w] \in {"idle", "list", "query", "settle"}

\* What a reconciler holds is about rows nobody creates any more, and what it
\* learnt of the money stays true.
Reconciling ==
    /\ \A w \in Worker : \A k \in targets[w] : age[k] > 0
    /\ \A w \in Worker : pc[w] = "settle" =>
         /\ found[w] \in Finding
         /\ age[found[w].key] > 0
         /\ found[w].status = "COMPLETED" => Paid(found[w].key)
         /\ found[w].status # "COMPLETED" /\ rail[found[w].key] = "MPESA"
              /\ tracked[found[w].key] => money[found[w].key] = "declined"

\* A recorded prompt is refused on Safaricom's word, or for a success that
\* came without its receipt or amount.
Refused ==
    \A k \in Key : rail[k] = "MPESA" /\ tracked[k]
                     /\ status[k] \notin {"PENDING", "COMPLETED"}
                     => money[k] \in {"declined", "curt"}

IInv == /\ TypeOK /\ Blank /\ Creating /\ Reconciling
        /\ CreditedOnce /\ CompletedIsPaid /\ Refused

-----------------------------------------------------------------------------
(* One lemma per action *)

\* What a run learns of a purchase is what the provider decided.
LEMMA ResolvedIsTrue ==
    ASSUME TypeOK, NEW k \in Key, NEW s \in Resolved(k), rail[k] \in Rail
    PROVE  /\ s \in Final
           /\ s = "COMPLETED" => Paid(k)
           /\ s # "COMPLETED" /\ rail[k] = "MPESA" /\ tracked[k]
                => money[k] = "declined"
  <1>1. rail[k] \in {"MPESA", "STELLAR"} /\ tracked[k] \in BOOLEAN
    BY DEF TypeOK, Rail
  <1>2. Outcome(k) \subseteq Final
        /\ ("COMPLETED" \in Outcome(k) => Paid(k))
        /\ (\A x \in Outcome(k) : x # "COMPLETED" => money[k] = "declined")
    BY DEF Outcome, Final
  <1>3. CASE rail[k] = "MPESA"
    BY <1>1, <1>2, <1>3 DEF Resolved, Final
  <1>4. CASE rail[k] = "STELLAR"
    BY <1>1, <1>2, <1>4 DEF Resolved, Final
  <1>5. QED
    BY <1>1, <1>3, <1>4

LEMMA CrashInv ==
    ASSUME IInv, NEW w \in Worker, Crash(w)
    PROVE  IInv'
  <1> USE PurchaseAssumption
      DEF IInv, Worker, Sending, Final, Finding, rowVars, Crash, Return
  <1>1. TypeOK'
    BY DEF TypeOK, Rail, Money, Label
  <1>2. Blank'
    BY DEF Blank, TypeOK, Rail
  <1>3. Creating'
    BY DEF Creating, Blank, Reconciling, TypeOK
  <1>4. Reconciling'
    BY DEF Reconciling, Paid, Creating, Blank, TypeOK
  <1>5. CreditedOnce' /\ CompletedIsPaid'
    BY DEF CreditedOnce, CompletedIsPaid, Paid, Creating, Reconciling, TypeOK
  <1>6. Refused'
    BY DEF Refused, Creating, Reconciling, Blank, TypeOK
  <1>7. QED
    BY <1>1, <1>2, <1>3, <1>4, <1>5, <1>6

LEMMA PurchaseInv ==
    ASSUME IInv, NEW w \in Request, NEW k \in Key, Purchase(w, k)
    PROVE  IInv'
  <1> USE PurchaseAssumption
      DEF IInv, Worker, Sending, Final, Finding, rowVars, Purchase
  <1>1. TypeOK'
    BY DEF TypeOK, Rail, Money, Label
  <1>2. Blank'
    BY DEF Blank, TypeOK, Rail
  <1>3. Creating'
    BY DEF Creating, Blank, Reconciling, TypeOK
  <1>4. Reconciling'
    BY DEF Reconciling, Paid, Creating, Blank, TypeOK
  <1>5. CreditedOnce' /\ CompletedIsPaid'
    BY DEF CreditedOnce, CompletedIsPaid, Paid, Creating, Reconciling, TypeOK
  <1>6. Refused'
    BY DEF Refused, Creating, Reconciling, Blank, TypeOK
  <1>7. QED
    BY <1>1, <1>2, <1>3, <1>4, <1>5, <1>6

LEMMA GuardInv ==
    ASSUME IInv, NEW w \in Request, Guard(w)
    PROVE  IInv'
  <1> USE PurchaseAssumption
      DEF IInv, Worker, Sending, Final, Finding, rowVars, Guard, Goto, Return
  <1>1. TypeOK'
    BY DEF TypeOK, Rail, Money, Label
  <1>2. Blank'
    BY DEF Blank, TypeOK, Rail
  <1>3. Creating'
    BY DEF Creating, Blank, Reconciling, TypeOK
  <1>4. Reconciling'
    BY DEF Reconciling, Paid, Creating, Blank, TypeOK
  <1>5. CreditedOnce' /\ CompletedIsPaid'
    BY DEF CreditedOnce, CompletedIsPaid, Paid, Creating, Reconciling, TypeOK
  <1>6. Refused'
    BY DEF Refused, Creating, Reconciling, Blank, TypeOK
  <1>7. QED
    BY <1>1, <1>2, <1>3, <1>4, <1>5, <1>6

LEMMA InsertInv ==
    ASSUME IInv, NEW w \in Request, Insert(w)
    PROVE  IInv'
  <1> USE PurchaseAssumption
      DEF IInv, Worker, Sending, Final, Finding, rowVars, Insert, Goto, Return
  <1>1. TypeOK'
    BY DEF TypeOK, Rail, Money, Label
  <1>2. Blank'
    BY DEF Blank, TypeOK, Rail
  <1>3. Creating'
    BY DEF Creating, Blank, Reconciling, TypeOK
  <1>4. Reconciling'
    BY DEF Reconciling, Paid, Creating, Blank, TypeOK
  <1>5. CreditedOnce' /\ CompletedIsPaid'
    BY DEF CreditedOnce, CompletedIsPaid, Paid, Creating, Reconciling, TypeOK
  <1>6. Refused'
    BY DEF Refused, Creating, Reconciling, Blank, TypeOK
  <1>7. QED
    BY <1>1, <1>2, <1>3, <1>4, <1>5, <1>6

LEMMA RecheckInv ==
    ASSUME IInv, NEW w \in Request, Recheck(w)
    PROVE  IInv'
  <1> USE PurchaseAssumption
      DEF IInv, Worker, Sending, Final, Finding, rowVars, Recheck, Goto
  <1>1. TypeOK'
    BY DEF TypeOK, Rail, Money, Label
  <1>2. Blank'
    BY DEF Blank, TypeOK, Rail
  <1>3. Creating'
    BY DEF Creating, Blank, Reconciling, TypeOK
  <1>4. Reconciling'
    BY DEF Reconciling, Paid, Creating, Blank, TypeOK
  <1>5. CreditedOnce' /\ CompletedIsPaid'
    BY DEF CreditedOnce, CompletedIsPaid, Paid, Creating, Reconciling, TypeOK
  <1>6. Refused'
    BY DEF Refused, Creating, Reconciling, Blank, TypeOK
  <1>7. QED
    BY <1>1, <1>2, <1>3, <1>4, <1>5, <1>6

LEMMA VoidInv ==
    ASSUME IInv, NEW w \in Request, Void(w)
    PROVE  IInv'
  <1> USE PurchaseAssumption
      DEF IInv, Worker, Sending, Final, Finding, rowVars, Void, Overwrite,
          Return
  <1>1. TypeOK'
    BY DEF TypeOK, Rail, Money, Label
  <1>2. Blank'
    BY DEF Blank, Creating, TypeOK, Rail
  <1>3. Creating'
    BY DEF Creating, Blank, Reconciling, TypeOK
  <1>4. Reconciling'
    BY DEF Reconciling, Paid, Creating, Blank, TypeOK
  <1>5. CreditedOnce' /\ CompletedIsPaid'
    BY DEF CreditedOnce, CompletedIsPaid, Paid, Creating, Reconciling, TypeOK
  <1>6. Refused'
    BY DEF Refused, Creating, Reconciling, Blank, TypeOK
  <1>7. QED
    BY <1>1, <1>2, <1>3, <1>4, <1>5, <1>6

LEMMA MarkStkPushFailedInv ==
    ASSUME IInv, NEW w \in Request, MarkStkPushFailed(w)
    PROVE  IInv'
  <1> USE PurchaseAssumption
      DEF IInv, Worker, Sending, Final, Finding, rowVars, MarkStkPushFailed,
          Overwrite, Return
  <1>1. TypeOK'
    BY DEF TypeOK, Rail, Money, Label
  <1>2. Blank'
    BY DEF Blank, Creating, TypeOK, Rail
  <1>3. Creating'
    BY DEF Creating, Blank, Reconciling, TypeOK
  <1>4. Reconciling'
    BY DEF Reconciling, Paid, Creating, Blank, TypeOK
  <1>5. CreditedOnce' /\ CompletedIsPaid'
    BY DEF CreditedOnce, CompletedIsPaid, Paid, Creating, Reconciling, TypeOK
  <1>6. Refused'
    BY DEF Refused, Creating, Reconciling, Blank, TypeOK
  <1>7. QED
    BY <1>1, <1>2, <1>3, <1>4, <1>5, <1>6

LEMMA StkPushInv ==
    ASSUME IInv, NEW w \in Request, StkPush(w)
    PROVE  IInv'
  <1> USE PurchaseAssumption
      DEF IInv, Worker, Sending, Final, Finding, rowVars, StkPush, Goto
  <1>1. TypeOK'
    BY DEF TypeOK, Rail, Money, Label
  <1>2. Blank'
    BY DEF Blank, TypeOK, Rail
  <1>3. Creating'
    BY DEF Creating, Blank, Reconciling, TypeOK
  <1>4. Reconciling'
    BY DEF Reconciling, Paid, Creating, Blank, TypeOK
  <1>5. CreditedOnce' /\ CompletedIsPaid'
    BY DEF CreditedOnce, CompletedIsPaid, Paid, Creating, Reconciling, TypeOK
  <1>6. Refused'
    BY DEF Refused, Creating, Reconciling, Blank, TypeOK
  <1>7. QED
    BY <1>1, <1>2, <1>3, <1>4, <1>5, <1>6

LEMMA RecordStkSubmissionInv ==
    ASSUME IInv, NEW w \in Request, RecordStkSubmission(w)
    PROVE  IInv'
  <1> USE PurchaseAssumption
      DEF IInv, Worker, Sending, Final, Finding, rowVars, RecordStkSubmission,
          Return
  <1>1. TypeOK'
    BY DEF TypeOK, Rail, Money, Label
  <1>2. Blank'
    BY DEF Blank, Creating, TypeOK
  <1>3. Creating'
    BY DEF Creating, Blank, Reconciling, TypeOK
  <1>4. Reconciling'
    BY DEF Reconciling, Paid, Creating, Blank, TypeOK
  <1>5. CreditedOnce' /\ CompletedIsPaid'
    BY DEF CreditedOnce, CompletedIsPaid, Paid, Creating, Reconciling, TypeOK
  <1>6. Refused'
    BY DEF Refused, Creating, Reconciling, Blank, TypeOK
  <1>7. QED
    BY <1>1, <1>2, <1>3, <1>4, <1>5, <1>6

LEMMA CreatePaymentRequestInv ==
    ASSUME IInv, NEW w \in Request, CreatePaymentRequest(w)
    PROVE  IInv'
  <1> USE PurchaseAssumption
      DEF IInv, Worker, Sending, Final, Finding, rowVars, CreatePaymentRequest,
          Return
  <1>1. TypeOK'
    BY DEF TypeOK, Rail, Money, Label
  <1>2. Blank'
    BY DEF Blank, TypeOK, Rail
  <1>3. Creating'
    BY DEF Creating, Blank, Reconciling, TypeOK
  <1>4. Reconciling'
    BY DEF Reconciling, Paid, Creating, Blank, TypeOK
  <1>5. CreditedOnce' /\ CompletedIsPaid'
    BY DEF CreditedOnce, CompletedIsPaid, Paid, Creating, Reconciling, TypeOK
  <1>6. Refused'
    BY DEF Refused, Creating, Reconciling, Blank, TypeOK
  <1>7. QED
    BY <1>1, <1>2, <1>3, <1>4, <1>5, <1>6

LEMMA HandleCallbackInv ==
    ASSUME IInv, NEW k \in Key, HandleCallback(k)
    PROVE  IInv'
  <1> USE PurchaseAssumption
      DEF IInv, Worker, Sending, Final, Finding, rowVars, HandleCallback,
          CallbackOutcome, Outcome, Fulfil
  <1>1. TypeOK'
    BY DEF TypeOK, Rail, Money, Label
  <1>2. Blank'
    BY DEF Blank, TypeOK, Rail
  <1>3. Creating'
    BY DEF Creating, Blank, Reconciling, TypeOK
  <1>4. Reconciling'
    BY DEF Reconciling, Paid, Creating, Blank, TypeOK
  <1>5. CreditedOnce' /\ CompletedIsPaid'
    BY DEF CreditedOnce, CompletedIsPaid, Paid, Creating, Reconciling, TypeOK
  <1>6. Refused'
    BY DEF Refused, Creating, Reconciling, Blank, TypeOK
  <1>7. QED
    BY <1>1, <1>2, <1>3, <1>4, <1>5, <1>6

LEMMA StartSweepInv ==
    ASSUME IInv, NEW w \in Sweeper, StartSweep(w)
    PROVE  IInv'
  <1> USE PurchaseAssumption
      DEF IInv, Worker, Sending, Final, Finding, rowVars, StartSweep, Goto
  <1>1. TypeOK'
    BY DEF TypeOK, Rail, Money, Label
  <1>2. Blank'
    BY DEF Blank, TypeOK, Rail
  <1>3. Creating'
    BY DEF Creating, Blank, Reconciling, TypeOK
  <1>4. Reconciling'
    BY DEF Reconciling, Paid, Creating, Blank, TypeOK
  <1>5. CreditedOnce' /\ CompletedIsPaid'
    BY DEF CreditedOnce, CompletedIsPaid, Paid, Creating, Reconciling, TypeOK
  <1>6. Refused'
    BY DEF Refused, Creating, Reconciling, Blank, TypeOK
  <1>7. QED
    BY <1>1, <1>2, <1>3, <1>4, <1>5, <1>6

LEMMA ListPendingInv ==
    ASSUME IInv, NEW w \in Worker, ListPending(w)
    PROVE  IInv'
  <1> USE PurchaseAssumption
      DEF IInv, Worker, Sending, Final, Finding, rowVars, ListPending, Proceed,
          Return, Pending
  <1>1. TypeOK'
    BY DEF TypeOK, Rail, Money, Label
  <1>2. Blank'
    BY DEF Blank, TypeOK, Rail
  <1>3. Creating'
    BY DEF Creating, Blank, Reconciling, TypeOK
  <1>4. Reconciling'
    BY DEF Reconciling, Paid, Creating, Blank, TypeOK
  <1>5. CreditedOnce' /\ CompletedIsPaid'
    BY DEF CreditedOnce, CompletedIsPaid, Paid, Creating, Reconciling, TypeOK
  <1>6. Refused'
    BY DEF Refused, Creating, Reconciling, Blank, TypeOK
  <1>7. QED
    BY <1>1, <1>2, <1>3, <1>4, <1>5, <1>6

LEMMA QueryInv ==
    ASSUME IInv, NEW w \in Worker, NEW k \in Key, Query(w, k)
    PROVE  IInv'
  <1> USE PurchaseAssumption
      DEF IInv, Worker, Sending, Final, Finding, rowVars, Query
  <1>1. TypeOK'
    <2>1. PICK s \in Resolved(k) :
            found' = [found EXCEPT ![w] = [key |-> k, status |-> s]]
      OBVIOUS
    <2>2. s \in Final
      <3>1. rail[k] \in Rail
        BY DEF Reconciling, Blank, TypeOK
      <3>2. QED
        BY <3>1, ResolvedIsTrue
    <2>3. [key |-> k, status |-> s] \in Finding
      BY <2>2
    <2>4. found' \in [Worker -> Finding \cup {Null}]
      BY <2>1, <2>3 DEF TypeOK
    <2>5. QED
      BY <2>4 DEF TypeOK, Label
  <1>2. Blank'
    BY DEF Blank, TypeOK, Rail
  <1>3. Creating'
    BY DEF Creating, Blank, Reconciling, TypeOK
  <1>4. Reconciling'
    <2>1. PICK s \in Resolved(k) :
            found' = [found EXCEPT ![w] = [key |-> k, status |-> s]]
      OBVIOUS
    <2>2. /\ s \in Final
          /\ s = "COMPLETED" => Paid(k)
          /\ s # "COMPLETED" /\ rail[k] = "MPESA" /\ tracked[k]
               => money[k] = "declined"
      <3>1. rail[k] \in Rail
        BY DEF Reconciling, Blank, TypeOK
      <3>2. QED
        BY <3>1, ResolvedIsTrue
    <2>3. found'[w] = [key |-> k, status |-> s]
      BY <2>1 DEF TypeOK
    <2>4. found'[w] \in Finding /\ found'[w].key = k /\ found'[w].status = s
      BY <2>2, <2>3
    <2>5. age[k] > 0
      BY DEF Reconciling
    <2>6. \A v \in Worker : targets'[v] \subseteq targets[v]
      BY DEF TypeOK
    <2>7. \A v \in Worker : v # w => found'[v] = found[v] /\ pc'[v] = pc[v]
      BY DEF TypeOK
    <2>8. QED
      BY <2>2, <2>4, <2>5, <2>6, <2>7 DEF Reconciling, Paid
  <1>5. CreditedOnce' /\ CompletedIsPaid'
    BY DEF CreditedOnce, CompletedIsPaid, Paid, Creating, Reconciling, TypeOK
  <1>6. Refused'
    BY DEF Refused, Creating, Reconciling, Blank, TypeOK
  <1>7. QED
    BY <1>1, <1>2, <1>3, <1>4, <1>5, <1>6

LEMMA QueryInVainInv ==
    ASSUME IInv, NEW w \in Worker, NEW k \in Key, QueryInVain(w, k)
    PROVE  IInv'
  <1> USE PurchaseAssumption
      DEF IInv, Worker, Sending, Final, Finding, rowVars, QueryInVain, Proceed,
          Return
  <1>1. TypeOK'
    BY DEF TypeOK, Rail, Money, Label
  <1>2. Blank'
    BY DEF Blank, TypeOK, Rail
  <1>3. Creating'
    BY DEF Creating, Blank, Reconciling, TypeOK
  <1>4. Reconciling'
    BY DEF Reconciling, Paid, Creating, Blank, TypeOK
  <1>5. CreditedOnce' /\ CompletedIsPaid'
    BY DEF CreditedOnce, CompletedIsPaid, Paid, Creating, Reconciling, TypeOK
  <1>6. Refused'
    BY DEF Refused, Creating, Reconciling, Blank, TypeOK
  <1>7. QED
    BY <1>1, <1>2, <1>3, <1>4, <1>5, <1>6

LEMMA SettleInv ==
    ASSUME IInv, NEW w \in Worker, Settle(w)
    PROVE  IInv'
  <1> USE PurchaseAssumption
      DEF IInv, Worker, Sending, Final, Finding, rowVars, Settle, Fulfil,
          Proceed, Return
  <1>1. TypeOK'
    <2>1. pc[w] = "settle" /\ found[w] \in Finding
      BY DEF Reconciling
    <2>2. found[w].key \in Key /\ found[w].status \in Final
      BY <2>1
    <2>3. status' \in [Key -> {"none", "PENDING"} \cup Final]
      BY <2>2 DEF TypeOK
    <2>4. credited' \in [Key -> Nat]
      BY <2>2 DEF TypeOK
    <2>5. pc' \in [Worker -> Label]
      BY DEF TypeOK, Label
    <2>6. /\ job' \in [Worker -> Key \cup {Null}]
          /\ targets' \in [Worker -> SUBSET Key]
          /\ found' \in [Worker -> Finding \cup {Null}]
      BY DEF TypeOK
    <2>7. QED
      BY <2>3, <2>4, <2>5, <2>6 DEF TypeOK
  <1>2. Blank'
    BY DEF Blank, Reconciling, TypeOK
  <1>3. Creating'
    BY DEF Creating, Blank, Reconciling, TypeOK
  <1>4. Reconciling'
    BY DEF Reconciling, Paid, Creating, Blank, TypeOK
  <1>5. CreditedOnce' /\ CompletedIsPaid'
    BY DEF CreditedOnce, CompletedIsPaid, Paid, Creating, Reconciling, TypeOK
  <1>6. Refused'
    BY DEF Refused, Creating, Reconciling, Blank, TypeOK
  <1>7. QED
    BY <1>1, <1>2, <1>3, <1>4, <1>5, <1>6

LEMMA PayInv ==
    ASSUME IInv, NEW k \in Key, Pay(k)
    PROVE  IInv'
  <1> USE PurchaseAssumption
      DEF IInv, Worker, Sending, Final, Finding, rowVars, Pay
  <1>1. TypeOK'
    BY DEF TypeOK, Rail, Money, Label
  <1>2. Blank'
    BY DEF Blank, TypeOK, Rail
  <1>3. Creating'
    BY DEF Creating, Blank, Reconciling, TypeOK
  <1>4. Reconciling'
    BY DEF Reconciling, Paid, Creating, Blank, TypeOK
  <1>5. CreditedOnce' /\ CompletedIsPaid'
    BY DEF CreditedOnce, CompletedIsPaid, Paid, Creating, Reconciling, TypeOK
  <1>6. Refused'
    BY DEF Refused, Creating, Reconciling, Blank, TypeOK
  <1>7. QED
    BY <1>1, <1>2, <1>3, <1>4, <1>5, <1>6

LEMMA AgeInv ==
    ASSUME IInv, NEW k \in Key, Age(k)
    PROVE  IInv'
  <1> USE PurchaseAssumption
      DEF IInv, Worker, Sending, Final, Finding, rowVars, Age
  <1>1. TypeOK'
    BY DEF TypeOK, Rail, Money, Label
  <1>2. Blank'
    BY DEF Blank, TypeOK, Rail
  <1>3. Creating'
    BY DEF Creating, Blank, Reconciling, TypeOK
  <1>4. Reconciling'
    BY DEF Reconciling, Paid, Creating, Blank, TypeOK
  <1>5. CreditedOnce' /\ CompletedIsPaid'
    BY DEF CreditedOnce, CompletedIsPaid, Paid, Creating, Reconciling, TypeOK
  <1>6. Refused'
    BY DEF Refused, Creating, Reconciling, Blank, TypeOK
  <1>7. QED
    BY <1>1, <1>2, <1>3, <1>4, <1>5, <1>6

-----------------------------------------------------------------------------
(* The invariant holds *)

LEMMA InitInv == Init => IInv
  BY PurchaseAssumption
  DEF Init, IInv, TypeOK, Blank, Creating, Reconciling, CreditedOnce,
      CompletedIsPaid, Paid, Refused, Worker, Sending, Final, Rail, Money, Label

LEMMA StutterInv ==
    ASSUME IInv, UNCHANGED vars
    PROVE  IInv'
  BY DEF vars, rowVars, Paid, IInv, TypeOK, Blank, Creating, Reconciling,
         CreditedOnce, CompletedIsPaid, Refused

LEMMA NextInv == IInv /\ [Next]_vars => IInv'
  <1> SUFFICES ASSUME IInv, [Next]_vars
               PROVE  IInv'
    OBVIOUS
  <1>1. ASSUME NEW w \in Worker, Reconcile(w) \/ Crash(w)
        PROVE  IInv'
    BY <1>1, ListPendingInv, QueryInv, QueryInVainInv, SettleInv, CrashInv
       DEF Reconcile
  <1>2. ASSUME NEW w \in Request, Create(w)
        PROVE  IInv'
    BY <1>2, GuardInv, InsertInv, RecheckInv, VoidInv, StkPushInv,
       MarkStkPushFailedInv, RecordStkSubmissionInv, CreatePaymentRequestInv
       DEF Create
  <1>3. ASSUME NEW k \in Key, HandleCallback(k) \/ Pay(k) \/ Age(k)
        PROVE  IInv'
    BY <1>3, HandleCallbackInv, PayInv, AgeInv
  <1>4. QED
    BY <1>1, <1>2, <1>3, StutterInv, StartSweepInv, PurchaseInv DEF Next

LEMMA Inductive == Spec => []IInv
  BY InitInv, NextInv, PTL DEF Spec

\* Type correctness of the purchases, their payments and the runs about them.
THEOREM TypeCorrect == Spec => []TypeOK
  <1>1. IInv => TypeOK
    BY DEF IInv
  <1>2. QED
    BY <1>1, Inductive, PTL

\* Callbacks, redeliveries and any number of reconcilers credit a purchase
\* once, when it is completed.
THEOREM OnceCredited == Spec => []CreditedOnce
  <1>1. IInv => CreditedOnce
    BY DEF IInv
  <1>2. QED
    BY <1>1, Inductive, PTL

\* A completed purchase was paid: what a reconciler learnt stays true until
\* it acts on it.
THEOREM CompletedWasPaid == Spec => []CompletedIsPaid
  <1>1. IInv => CompletedIsPaid
    BY DEF IInv
  <1>2. QED
    BY <1>1, Inductive, PTL

\* Nothing fails or cancels a purchase whose recorded prompt was paid.
THEOREM NeverRefused == Spec => []PaidIsNeverRefused
  <1>1. IInv => PaidIsNeverRefused
    BY DEF IInv, Refused, PaidIsNeverRefused
  <1>2. QED
    BY <1>1, Inductive, PTL

-----------------------------------------------------------------------------
(* One purchase is open to payment *)

\* A purchase becomes open by the second check of its request, which finds no
\* other pending, and by nothing else.
LEMMA Opens ==
    ASSUME IInv, [Next]_vars, NEW k \in Key, Open(k)', ~Open(k)
    PROVE  \A q \in Key \ {k} : status'[q] # "PENDING"
  <1> USE PurchaseAssumption
      DEF IInv, TypeOK, Open, Worker, Sending, Final, Finding, rowVars
  <1>1. ASSUME NEW w \in Worker, Crash(w)
        PROVE  \A q \in Key \ {k} : status'[q] # "PENDING"
    BY <1>1 DEF Crash, Return
  <1>2. ASSUME NEW w \in Request, NEW j \in Key, Purchase(w, j)
        PROVE  \A q \in Key \ {k} : status'[q] # "PENDING"
    BY <1>2 DEF Purchase
  <1>3. ASSUME NEW w \in Request, Guard(w)
        PROVE  \A q \in Key \ {k} : status'[q] # "PENDING"
    BY <1>3 DEF Guard, Goto, Return
  <1>4. ASSUME NEW w \in Request, Insert(w)
        PROVE  \A q \in Key \ {k} : status'[q] # "PENDING"
    BY <1>4 DEF Insert, Goto, Return, Blank, Creating
  <1>5. ASSUME NEW w \in Request, Recheck(w)
        PROVE  \A q \in Key \ {k} : status'[q] # "PENDING"
    BY <1>5 DEF Recheck, Goto, Pending, Creating
  <1>6. ASSUME NEW w \in Request, Void(w) \/ MarkStkPushFailed(w)
        PROVE  \A q \in Key \ {k} : status'[q] # "PENDING"
    BY <1>6 DEF Void, MarkStkPushFailed, Overwrite, Return, Creating
  <1>7. ASSUME NEW w \in Request, StkPush(w)
        PROVE  \A q \in Key \ {k} : status'[q] # "PENDING"
    BY <1>7 DEF StkPush, Goto, Creating
  <1>8. ASSUME NEW w \in Request, RecordStkSubmission(w)
        PROVE  \A q \in Key \ {k} : status'[q] # "PENDING"
    BY <1>8 DEF RecordStkSubmission, Return
  <1>9. ASSUME NEW w \in Request, CreatePaymentRequest(w)
        PROVE  \A q \in Key \ {k} : status'[q] # "PENDING"
    BY <1>9 DEF CreatePaymentRequest, Return, Creating
  <1>10. ASSUME NEW j \in Key, HandleCallback(j)
        PROVE  \A q \in Key \ {k} : status'[q] # "PENDING"
    BY <1>10 DEF HandleCallback, CallbackOutcome, Outcome, Fulfil
  <1>11. ASSUME NEW w \in Sweeper, StartSweep(w)
        PROVE  \A q \in Key \ {k} : status'[q] # "PENDING"
    BY <1>11 DEF StartSweep, Goto
  <1>12. ASSUME NEW w \in Worker, ListPending(w)
        PROVE  \A q \in Key \ {k} : status'[q] # "PENDING"
    BY <1>12 DEF ListPending, Proceed, Return
  <1>13. ASSUME NEW w \in Worker, NEW j \in Key, Query(w, j)
        PROVE  \A q \in Key \ {k} : status'[q] # "PENDING"
    BY <1>13 DEF Query
  <1>14. ASSUME NEW w \in Worker, NEW j \in Key, QueryInVain(w, j)
        PROVE  \A q \in Key \ {k} : status'[q] # "PENDING"
    BY <1>14 DEF QueryInVain, Proceed, Return
  <1>15. ASSUME NEW w \in Worker, Settle(w)
        PROVE  \A q \in Key \ {k} : status'[q] # "PENDING"
    BY <1>15 DEF Settle, Fulfil, Proceed, Return, Reconciling
  <1>16. ASSUME NEW j \in Key, Pay(j)
        PROVE  \A q \in Key \ {k} : status'[q] # "PENDING"
    BY <1>16 DEF Pay
  <1>17. ASSUME NEW j \in Key, Age(j)
        PROVE  \A q \in Key \ {k} : status'[q] # "PENDING"
    BY <1>17 DEF Age
  <1>18. ~UNCHANGED vars
    BY DEF vars
  <1>19. QED
    BY <1>1, <1>2, <1>3, <1>4, <1>5, <1>6, <1>7, <1>8, <1>9, <1>10, <1>11,
       <1>12, <1>13, <1>14, <1>15, <1>16, <1>17, <1>18
       DEF Next, Create, Reconcile

\* The user can pay for one purchase at a time, whatever requests race.
THEOREM OneOpen == Spec => []OneOpenPurchase
  <1>1. Init => OneOpenPurchase
    BY DEF Init, OneOpenPurchase, Open
  <1>2. IInv /\ OneOpenPurchase /\ [Next]_vars => OneOpenPurchase'
    <2> SUFFICES ASSUME IInv, OneOpenPurchase, [Next]_vars,
                        NEW j \in Key, NEW k \in Key, Open(j)', Open(k)'
                 PROVE  j = k
      BY DEF OneOpenPurchase
    <2>1. status'[j] = "PENDING" /\ status'[k] = "PENDING"
      BY DEF Open
    <2>2. CASE Open(j) /\ Open(k)
      BY <2>2 DEF OneOpenPurchase
    <2>3. CASE ~Open(j)
      BY <2>1, <2>3, Opens
    <2>4. CASE ~Open(k)
      BY <2>1, <2>4, Opens
    <2>5. QED
      BY <2>2, <2>3, <2>4
  <1>3. QED
    BY <1>1, <1>2, Inductive, PTL DEF Spec
=============================================================================
