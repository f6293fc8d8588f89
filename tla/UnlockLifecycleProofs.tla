----------------------- MODULE UnlockLifecycleProofs -----------------------
(* Theorems about UnlockLifecycle for any listings, buyers, workers and    *)
(* numbers of crashes.                                                     *)
EXTENDS UnlockLifecycle, FiniteSetTheorems, TLAPS

-----------------------------------------------------------------------------
(* Workers *)

\* What a worker knows at a step is what the step uses.
WorkerInv ==
    /\ pc \in [Worker -> Label]
    /\ job \in [Worker -> Job \cup {Null}]
    /\ targets \in [Worker -> SUBSET Unlock]
    /\ seen \in [Worker -> Snapshot \cup {Null}]
    /\ \A w \in Worker :
         /\ pc[w] # "idle" => job[w] \in Job
         /\ pc[w] = "insert" => job[w].side \in Side
         /\ pc[w] = "unwind" => /\ seen[w] \in Snapshot
                                /\ seen[w].unlock \in targets[w]

\* The steps that are not about a row of a worker's own leave workers be.
LEMMA SameWorkers ==
    ASSUME WorkerInv, UNCHANGED wrkVars
    PROVE  WorkerInv'
  BY DEF WorkerInv, wrkVars

LEMMA ReturnWorker ==
    ASSUME WorkerInv, NEW w \in Worker, Return(w)
    PROVE  WorkerInv'
  BY DEF WorkerInv, Return, Label

LEMMA GotoWorker ==
    ASSUME WorkerInv, NEW w \in Worker, NEW l \in Label \ {"insert", "unwind"},
           pc[w] # "idle", Goto(w, l)
    PROVE  WorkerInv'
  BY DEF WorkerInv, Goto

LEMMA StartWorker ==
    ASSUME WorkerInv, NEW w \in Worker, NEW t \in Task, NEW u \in Unlock,
           NEW s \in Side \cup {"none"}, NEW at \in Label \ {"unwind"},
           NEW ts \in SUBSET Unlock, at = "insert" => s \in Side,
           Start(w, t, u, s, at, ts)
    PROVE  WorkerInv'
  <1> DEFINE j == [task |-> t, unlock |-> u, side |-> s]
  <1>1. j \in Job /\ j.side = s
    BY DEF Job
  <1>2. job' = [job EXCEPT ![w] = j]
    BY DEF Start
  <1> HIDE DEF j
  <1>3. QED
    BY <1>1, <1>2 DEF WorkerInv, Start

LEMMA NextTargetWorker ==
    ASSUME WorkerInv, NEW w \in Worker, NEW u, pc[w] # "idle",
           NextTarget(w, u)
    PROVE  WorkerInv'
  <1>1. CASE Return(w)
    BY <1>1, ReturnWorker
  <1>2. CASE ~Return(w)
    <2>1. PICK l \in {"resolve", "refund"} : pc' = [pc EXCEPT ![w] = l]
      BY <1>2 DEF NextTarget
    <2>2. /\ targets' = [targets EXCEPT ![w] = @ \ {u}]
          /\ seen' = [seen EXCEPT ![w] = Null]
          /\ UNCHANGED job
      BY <1>2 DEF NextTarget
    <2>3. QED
      BY <2>1, <2>2 DEF WorkerInv, Label
  <1>3. QED
    BY <1>1, <1>2

LEMMA RequestWorker ==
    ASSUME WorkerInv, NEW w \in Worker, NEW u \in Unlock, Request(w, u)
    PROVE  WorkerInv'
  <1>1. PICK t \in Task, s \in Side \cup {"none"}, at \in Label \ {"unwind"},
             ts \in SUBSET Unlock :
          /\ at = "insert" => s \in Side
          /\ Start(w, t, u, s, at, ts)
    BY DEF Request, OpenUnlock, ReportDead, Confirm, AutoConfirm, Investigate,
           ResolveWithRefund, ResolveWithoutRefund, Close, Task, Label, Side
  <1>2. QED
    BY <1>1, StartWorker

\* The unlock a worker works on, and the unlock its refund unwinds.
LEMMA JobUnlock ==
    ASSUME WorkerInv, NEW w \in Worker
    PROVE  /\ pc[w] # "idle" => job[w].unlock \in Unlock
           /\ pc[w] = "unwind" => seen[w].unlock \in Unlock
  BY DEF WorkerInv, Job, Snapshot

\* Every step a worker takes within its request.
LEMMA StepWorker ==
    ASSUME WorkerInv, NEW w \in Worker, Step(w)
    PROVE  WorkerInv'
  <1> DEFINE J == job[w].unlock
  <1>1. CASE Charge(w) \/ Refuse(w) \/ RejectConfirmation(w)
             \/ WriteInvestigating(w) \/ WriteClosed(w)
    BY <1>1, ReturnWorker
    DEF Charge, Refuse, RejectConfirmation, WriteInvestigating, WriteClosed
  <1>2. ASSUME NEW u \in Unlock, RefundRead(w, u)
        PROVE  WorkerInv'
    <2>1. CASE NextTarget(w, u)
      BY <1>2, <2>1, NextTargetWorker DEF RefundRead
    <2>2. CASE ~NextTarget(w, u)
      <3> DEFINE r == [unlock |-> u, cancel |-> commission[u] = "PENDING"]
      <3>1. r \in Snapshot /\ r.unlock = u
        BY DEF Snapshot
      <3>2. /\ pc' = [pc EXCEPT ![w] = "unwind"]
            /\ seen' = [seen EXCEPT ![w] = r]
            /\ UNCHANGED <<job, targets>>
            /\ u \in targets[w]
            /\ pc[w] = "refund"
        BY <1>2, <2>2 DEF RefundRead
      <3> HIDE DEF r
      <3>3. QED
        BY <3>1, <3>2 DEF WorkerInv, Label
    <2>3. QED
      BY <2>1, <2>2
  <1>3. ASSUME NEW u \in Unlock, RefundRefused(w, u)
        PROVE  WorkerInv'
    BY <1>3, ReturnWorker, NextTargetWorker DEF RefundRefused, RefundFails
  <1>4. CASE Unwind(w)
    BY <1>4, NextTargetWorker DEF Unwind
  <1>5. CASE InsertConfirmation(w) \/ EnsureForConfirmedUnlock(w)
    BY <1>5, GotoWorker DEF InsertConfirmation, EnsureForConfirmedUnlock, Label
  <1>6. CASE ReadSettlement(w) \/ ClaimListing(w) \/ WriteResolved(w)
    BY <1>6, GotoWorker, ReturnWorker
    DEF ReadSettlement, ClaimListing, WriteResolved, Label
  <1>7. CASE ListRivals(w)
    <2>1. Rivals(J) \in SUBSET Unlock
      BY DEF Rivals
    <2>2. CASE Return(w)
      BY <2>2, ReturnWorker
    <2>3. CASE /\ pc' = [pc EXCEPT ![w] = "refund"]
               /\ targets' = [targets EXCEPT ![w] = Rivals(J)]
               /\ UNCHANGED <<job, seen>>
      BY <1>7, <2>1, <2>3 DEF WorkerInv, Label, ListRivals
    <2>4. QED
      BY <1>7, <2>2, <2>3 DEF ListRivals
  <1>8. QED
    BY <1>1, <1>2, <1>3, <1>4, <1>5, <1>6, <1>7 DEF Step

LEMMA NextWorker ==
    ASSUME WorkerInv, [Next]_vars
    PROVE  WorkerInv'
  <1>1. ASSUME NEW w \in Worker, Crash(w)
        PROVE  WorkerInv'
    BY <1>1, ReturnWorker DEF Crash
  <1>2. ASSUME NEW w \in Worker, RefundAborted(w)
        PROVE  WorkerInv'
    BY <1>2, ReturnWorker, NextTargetWorker DEF RefundAborted, RefundFails
  <1>3. ASSUME NEW u \in Unlock,
               FileDispute(u) \/ SettleFee(u) \/ PayCommission(u)
               \/ ReopenCommission(u)
        PROVE  WorkerInv'
    BY <1>3, SameWorkers
    DEF FileDispute, SettleFee, PayCommission, ReopenCommission
  <1>4. ASSUME NEW l \in Listing, SoftDelete(l) \/ AdminDelete(l)
        PROVE  WorkerInv'
    BY <1>4, SameWorkers DEF SoftDelete, AdminDelete, Delete
  <1>5. CASE UNCHANGED vars
    BY <1>5, SameWorkers DEF vars, wrkVars
  <1>6. QED
    BY <1>1, <1>2, <1>3, <1>4, <1>5, StepWorker, RequestWorker DEF Next

-----------------------------------------------------------------------------
(* Typing *)

LEMMA InitType == Init => TypeOK /\ WorkerInv
  BY LifecycleAssumption
  DEF Init, TypeOK, WorkerInv, Label, Job, Snapshot, Blocking

\* The tables keep their types under each step of a worker.
LEMMA StepType ==
    ASSUME TypeOK, WorkerInv, NEW w \in Worker,
           Step(w) \/ Crash(w) \/ RefundAborted(w)
    PROVE  TypeOK'
  <1>w. /\ pc' \in [Worker -> Label]
        /\ job' \in [Worker -> Job \cup {Null}]
        /\ targets' \in [Worker -> SUBSET Unlock]
        /\ seen' \in [Worker -> Snapshot \cup {Null}]
    BY NextWorker DEF WorkerInv, Next
  <1>j. /\ pc[w] # "idle" => job[w].unlock \in Unlock
        /\ pc[w] = "unwind" => seen[w].unlock \in Unlock
        /\ pc[w] = "insert" => job[w].side \in Side
    BY JobUnlock DEF WorkerInv
  <1>c. crashes < MaxCrashes => crashes + 1 \in 0..MaxCrashes
    BY LifecycleAssumption DEF TypeOK
  <1>1. CASE Charge(w)
    BY <1>1, <1>w, <1>j
    DEF Charge, TypeOK, listVars, dealVars, auxVars
  <1>2. CASE Refuse(w) \/ ReadSettlement(w) \/ ListRivals(w)
    BY <1>2, <1>w
    DEF Refuse, ReadSettlement, ListRivals, TypeOK, listVars, rowVars,
        dealVars, auxVars
  <1>3. ASSUME NEW u \in Unlock, RefundRead(w, u) \/ RefundRefused(w, u)
        PROVE  TypeOK'
    BY <1>3, <1>w
    DEF RefundRead, RefundRefused, RefundFails, TypeOK, listVars, rowVars,
        dealVars, auxVars
  <1>4. CASE Unwind(w)
    BY <1>4, <1>w, <1>j
    DEF Unwind, TypeOK, listVars, dealVars, auxVars
  <1>5. CASE InsertConfirmation(w)
    BY <1>5, <1>w, <1>j
    DEF InsertConfirmation, TypeOK, listVars, rowVars, dealVars, auxVars
  <1>6. CASE RejectConfirmation(w)
    BY <1>6, <1>w, <1>j
    DEF RejectConfirmation, TypeOK, listVars, rowVars, dealVars, auxVars
  <1>7. CASE EnsureForConfirmedUnlock(w)
    <2> DEFINE u == job[w].unlock
    <2>1. PICK s \in {"PARTIAL", "SETTLED"} :
            fee' = [fee EXCEPT ![u] = IF @ = "none" THEN s ELSE @]
      BY <1>7 DEF EnsureForConfirmedUnlock
    <2>2. fee' \in [Unlock -> {"none", "PARTIAL", "SETTLED"}]
      BY <2>1 DEF TypeOK
    <2>3. commission' \in [Unlock -> {"none", "PENDING", "PAID", "CANCELLED"}]
      BY <1>7 DEF EnsureForConfirmedUnlock, TypeOK
    <2>4. UNCHANGED <<listVars, rowVars, sides, dispute, auxVars>>
      BY <1>7 DEF EnsureForConfirmedUnlock
    <2>5. QED
      BY <1>w, <2>2, <2>3, <2>4 DEF TypeOK, listVars, rowVars, auxVars
  <1>8. CASE ClaimListing(w)
    BY <1>8, <1>w, <1>j
    DEF ClaimListing, TypeOK, rowVars, dealVars, auxVars
  <1>9. CASE WriteResolved(w) \/ WriteInvestigating(w) \/ WriteClosed(w)
    BY <1>9, <1>w
    DEF WriteResolved, WriteInvestigating, WriteClosed, WriteDispute, Blocking,
        TypeOK, listVars, rowVars, dealVars, auxVars
  <1>10. CASE Crash(w)
    <2>1. cut' \subseteq Listing
      <3>1. pc[w] # "idle" /\ (cut' = cut \/ cut' = cut \cup {ListingOf(job[w].unlock)})
        BY <1>10 DEF Crash
      <3>2. ListingOf(job[w].unlock) \in Listing
        BY <3>1, <1>j DEF Unlock, ListingOf
      <3>3. QED
        BY <3>1, <3>2 DEF TypeOK
    <2>2. crashes' \in 0..MaxCrashes
      BY <1>10, <1>c DEF Crash
    <2>3. UNCHANGED <<listVars, rowVars, sides, dealVars, dispute, failed>>
      BY <1>10 DEF Crash
    <2>4. QED
      BY <1>w, <2>1, <2>2, <2>3 DEF TypeOK, listVars, rowVars, dealVars
  <1>11. CASE RefundAborted(w)
    BY <1>11, <1>w, <1>c, <1>j
    DEF RefundAborted, RefundFails, TypeOK, listVars, rowVars, dealVars
  <1>12. QED
    BY <1>1, <1>2, <1>3, <1>4, <1>5, <1>6, <1>7, <1>8, <1>9, <1>10, <1>11
    DEF Step

LEMMA NextType ==
    ASSUME TypeOK, WorkerInv, [Next]_vars
    PROVE  TypeOK'
  <1>w. /\ pc' \in [Worker -> Label]
        /\ job' \in [Worker -> Job \cup {Null}]
        /\ targets' \in [Worker -> SUBSET Unlock]
        /\ seen' \in [Worker -> Snapshot \cup {Null}]
    BY NextWorker DEF WorkerInv
  <1>1. ASSUME NEW w \in Worker, NEW u \in Unlock, Request(w, u)
        PROVE  TypeOK'
    <2>1. UNCHANGED <<listVars, rowVars, sides, dealVars, dispute, auxVars>>
      BY <1>1
      DEF Request, OpenUnlock, ReportDead, Confirm, AutoConfirm, Investigate,
          ResolveWithRefund, ResolveWithoutRefund, Close, Start
    <2>2. QED
      BY <1>w, <2>1 DEF TypeOK, listVars, rowVars, dealVars, auxVars
  <1>2. ASSUME NEW u \in Unlock, FileDispute(u)
        PROVE  TypeOK'
    BY <1>2, <1>w
    DEF FileDispute, TypeOK, Blocking, listVars, rowVars, dealVars, auxVars
  <1>3. ASSUME NEW u \in Unlock, SettleFee(u) \/ PayCommission(u)
                                 \/ ReopenCommission(u)
        PROVE  TypeOK'
    BY <1>3, <1>w
    DEF SettleFee, PayCommission, ReopenCommission, TypeOK, listVars, rowVars,
        auxVars
  <1>4. ASSUME NEW l \in Listing, SoftDelete(l) \/ AdminDelete(l)
        PROVE  TypeOK'
    BY <1>4, <1>w
    DEF SoftDelete, AdminDelete, Delete, TypeOK, rowVars, dealVars, auxVars
  <1>5. CASE UNCHANGED vars
    BY <1>5 DEF vars, TypeOK
  <1>6. QED
    BY <1>1, <1>2, <1>3, <1>4, <1>5, StepType DEF Next

\* Every variable keeps its type, and a worker at a step knows what the step
\* uses.
THEOREM TypeCorrect == Spec => []TypeOK
  <1>1. Init => TypeOK /\ WorkerInv
    BY InitType
  <1>2. TypeOK /\ WorkerInv /\ [Next]_vars => (TypeOK /\ WorkerInv)'
    BY NextType, NextWorker
  <1>3. QED
    BY <1>1, <1>2, PTL DEF Spec

-----------------------------------------------------------------------------
(* What a step does to a row *)

\* A refund that has read its unlock: the row exists, and a commission it is
\* to cancel exists.
RefundInv ==
    \A w \in Worker : pc[w] = "unwind" =>
        /\ state[seen[w].unlock] # "none"
        /\ seen[w].cancel => commission[seen[w].unlock] # "none"

\* The life of a row: nobody unconfirms, an unlock is charged and refunded
\* once, a commission stays and is raised by a settlement only, a fee goes
\* with a refund only.
RowStep(u) ==
    /\ sides[u] \subseteq sides'[u]
    /\ \/ state'[u] = state[u] /\ credited'[u] = credited[u]
       \/ /\ state[u] = "none" /\ state'[u] = "held"
          /\ credited'[u] = credited[u]
          /\ Unlockable(ListingOf(u))
       \/ /\ state[u] = "held" /\ state'[u] = "refunded"
          /\ credited'[u] = credited[u] + 1
    /\ commission'[u] = "none" => commission[u] = "none"
    /\ commission[u] = "none" /\ commission'[u] # "none" =>
         /\ fee'[u] # "none"
         /\ \E w \in Worker : pc[w] = "fee" /\ job[w].unlock = u
    /\ fee'[u] = "none" => fee[u] = "none" \/ state'[u] = "refunded"

LEMMA RowSteps ==
    ASSUME TypeOK, WorkerInv, RefundInv, [Next]_vars, NEW x \in Unlock
    PROVE  RowStep(x)
  <1>1. CASE UNCHANGED <<rowVars, sides, dealVars>>
    BY <1>1 DEF RowStep, rowVars, dealVars
  <1>2. ASSUME NEW w \in Worker, Charge(w)
        PROVE  RowStep(x)
    BY <1>2, JobUnlock DEF Charge, RowStep, TypeOK, dealVars
  <1>3. ASSUME NEW w \in Worker, Unwind(w)
        PROVE  RowStep(x)
    <2> DEFINE u == seen[w].unlock
    <2>1. /\ u \in Unlock /\ state[u] \in {"held", "refunded"}
          /\ seen[w].cancel => commission[u] # "none"
      BY <1>3, JobUnlock DEF Unwind, RefundInv, TypeOK
    <2>2. /\ state' = [state EXCEPT ![u] = "refunded"]
          /\ credited' = [credited EXCEPT ![u] =
                            IF state[u] = "held" THEN @ + 1 ELSE @]
          /\ fee' = [fee EXCEPT ![u] = IF state[u] = "held" /\ @ # "SETTLED"
                                       THEN "none" ELSE @]
          /\ commission' = [commission EXCEPT ![u] =
                              IF state[u] = "held" /\ seen[w].cancel
                              THEN "CANCELLED" ELSE @]
          /\ UNCHANGED sides
      BY <1>3 DEF Unwind
    <2> HIDE DEF u
    <2>3. QED
      BY <2>1, <2>2 DEF RowStep, TypeOK
  <1>4. ASSUME NEW w \in Worker, InsertConfirmation(w)
        PROVE  RowStep(x)
    BY <1>4 DEF InsertConfirmation, RowStep, TypeOK, rowVars, dealVars
  <1>5. ASSUME NEW w \in Worker, EnsureForConfirmedUnlock(w)
        PROVE  RowStep(x)
    <2> DEFINE u == job[w].unlock
    <2>1. PICK s \in {"PARTIAL", "SETTLED"} :
            fee' = [fee EXCEPT ![u] = IF @ = "none" THEN s ELSE @]
      BY <1>5 DEF EnsureForConfirmedUnlock
    <2>2. /\ commission' = [commission EXCEPT ![u] =
                              IF @ = "none" THEN "PENDING" ELSE @]
          /\ pc[w] = "fee"
          /\ UNCHANGED <<rowVars, sides>>
      BY <1>5 DEF EnsureForConfirmedUnlock
    <2>3. QED
      BY <2>1, <2>2 DEF RowStep, TypeOK, rowVars
  <1>6. ASSUME NEW u \in Unlock, SettleFee(u) \/ PayCommission(u)
                                 \/ ReopenCommission(u)
        PROVE  RowStep(x)
    BY <1>6
    DEF SettleFee, PayCommission, ReopenCommission, RowStep, TypeOK, rowVars
  <1>7. ASSUME NEW w \in Worker, NEW u \in Unlock,
               \/ Request(w, u)
               \/ RefundRead(w, u) \/ RefundRefused(w, u)
        PROVE  UNCHANGED <<rowVars, sides, dealVars>>
    BY <1>7
    DEF Request, OpenUnlock, ReportDead, Confirm, AutoConfirm, Investigate,
        ResolveWithRefund, ResolveWithoutRefund, Close, Start, RefundRead,
        RefundRefused, RefundFails
  <1>8. ASSUME NEW w \in Worker,
               \/ Refuse(w) \/ RejectConfirmation(w) \/ ReadSettlement(w)
               \/ ClaimListing(w) \/ ListRivals(w) \/ WriteResolved(w)
               \/ WriteInvestigating(w) \/ WriteClosed(w) \/ Crash(w)
               \/ RefundAborted(w)
        PROVE  UNCHANGED <<rowVars, sides, dealVars>>
    BY <1>8
    DEF Refuse, RejectConfirmation, ReadSettlement, ClaimListing, ListRivals,
        WriteResolved, WriteInvestigating, WriteClosed, WriteDispute, Crash,
        RefundAborted, RefundFails
  <1>9. ASSUME \/ \E u \in Unlock : FileDispute(u)
               \/ \E l \in Listing : SoftDelete(l) \/ AdminDelete(l)
               \/ UNCHANGED vars
        PROVE  UNCHANGED <<rowVars, sides, dealVars>>
    BY <1>9 DEF FileDispute, SoftDelete, AdminDelete, Delete, vars, rowVars,
                dealVars
  <1>10. QED
    BY <1>1, <1>2, <1>3, <1>4, <1>5, <1>6, <1>7, <1>8, <1>9 DEF Next, Step

-----------------------------------------------------------------------------
(* What a step does to a listing *)

\* Nobody's confirmation is missing on listing l.
Confirmed(l) == \A u \in Unlock : ListingOf(u) = l /\ state[u] = "held"
                                 => sides[u] = Side

ListingStep(l) ==
    /\ market'[l] = "ACTIVE" => market[l] = "ACTIVE"
    /\ deleted[l] => deleted'[l]
    /\ l \in withdrawn' => l \in withdrawn \/ (deleted'[l] /\ Confirmed(l)')
    /\ \/ /\ winners'[l] = winners[l]
          /\ market'[l] = market[l] \/ (deleted'[l] /\ market'[l] = "DELETED")
       \/ \E w \in Worker :
            LET u == job[w].unlock
            IN  /\ pc[w] = "claim" /\ u \in Unlock /\ ListingOf(u) = l
                /\ pc'[w] = "list" /\ job'[w] = job[w]
                /\ market[l] # "CONFIRMED" /\ market'[l] = "CONFIRMED"
                /\ winners'[l] = winners[l] \cup {u}

LEMMA ListingSteps ==
    ASSUME TypeOK, WorkerInv, [Next]_vars, NEW x \in Listing
    PROVE  ListingStep(x)
  <1>1. CASE UNCHANGED listVars
    BY <1>1 DEF ListingStep, listVars
  <1>2. ASSUME NEW w \in Worker, ClaimListing(w)
        PROVE  ListingStep(x)
    <2> DEFINE u == job[w].unlock
               l == ListingOf(u)
    <2>1. u \in Unlock /\ pc[w] = "claim"
      BY <1>2, JobUnlock DEF ClaimListing
    <2>2. CASE UNCHANGED listVars
      BY <2>2, <1>1
    <2>3. CASE ~UNCHANGED listVars
      <3>1. /\ market[l] # "CONFIRMED"
            /\ market' = [market EXCEPT ![l] = "CONFIRMED"]
            /\ winners' = [winners EXCEPT ![l] = @ \cup {u}]
            /\ UNCHANGED <<deleted, withdrawn>>
            /\ pc'[w] = "list" /\ job'[w] = job[w]
        BY <1>2, <2>3 DEF ClaimListing, listVars, Goto, WorkerInv
      <3>2. l = ListingOf(u)
        OBVIOUS
      <3> HIDE DEF l
      <3>3. QED
        BY <2>1, <3>1, <3>2 DEF ListingStep, TypeOK
    <2>4. QED
      BY <2>2, <2>3
  <1>3. ASSUME NEW l \in Listing, SoftDelete(l) \/ AdminDelete(l)
        PROVE  ListingStep(x)
    <2>1. /\ deleted' = [deleted EXCEPT ![l] = TRUE]
          /\ market' = [market EXCEPT ![l] = "DELETED"]
          /\ UNCHANGED <<winners, state, sides>>
      BY <1>3 DEF SoftDelete, AdminDelete, Delete, rowVars
    <2>2. \/ withdrawn' = withdrawn
          \/ withdrawn' = withdrawn \cup {l} /\ Confirmed(l)
      BY <1>3 DEF SoftDelete, AdminDelete, Confirmed
    <2>3. x \in withdrawn' => x \in withdrawn \/ (deleted'[x] /\ Confirmed(x)')
      BY <2>1, <2>2 DEF Confirmed, TypeOK
    <2>4. QED
      BY <2>1, <2>3 DEF ListingStep, TypeOK
  <1>4. ASSUME NEW w \in Worker, NEW u \in Unlock,
               \/ Request(w, u)
               \/ RefundRead(w, u) \/ RefundRefused(w, u)
        PROVE  UNCHANGED listVars
    BY <1>4
    DEF Request, OpenUnlock, ReportDead, Confirm, AutoConfirm, Investigate,
        ResolveWithRefund, ResolveWithoutRefund, Close, Start, RefundRead,
        RefundRefused, RefundFails
  <1>5. ASSUME NEW w \in Worker,
               \/ Charge(w) \/ Refuse(w) \/ Unwind(w) \/ InsertConfirmation(w)
               \/ RejectConfirmation(w) \/ ReadSettlement(w)
               \/ EnsureForConfirmedUnlock(w) \/ ListRivals(w)
               \/ WriteResolved(w) \/ WriteInvestigating(w) \/ WriteClosed(w)
               \/ Crash(w) \/ RefundAborted(w)
        PROVE  UNCHANGED listVars
    BY <1>5
    DEF Charge, Refuse, Unwind, InsertConfirmation, RejectConfirmation,
        ReadSettlement, EnsureForConfirmedUnlock, ListRivals, WriteResolved,
        WriteInvestigating, WriteClosed, WriteDispute, Crash, RefundAborted,
        RefundFails
  <1>6. ASSUME \/ \E u \in Unlock :
                    FileDispute(u) \/ SettleFee(u) \/ PayCommission(u)
                    \/ ReopenCommission(u)
               \/ UNCHANGED vars
        PROVE  UNCHANGED listVars
    BY <1>6
    DEF FileDispute, SettleFee, PayCommission, ReopenCommission, vars,
        listVars
  <1>7. QED
    BY <1>1, <1>2, <1>3, <1>4, <1>5, <1>6 DEF Next, Step

-----------------------------------------------------------------------------
(* What a step does to a worker *)

Moves(v) == \/ Step(v) \/ Crash(v) \/ RefundAborted(v)
            \/ \E u \in Unlock : Request(v, u)

Stays(v) == UNCHANGED <<pc[v], job[v], targets[v], seen[v]>>

LEMMA NextTargetLocal ==
    ASSUME WorkerInv, NEW w \in Worker, NEW u, NextTarget(w, u)
    PROVE  /\ \A v \in Worker \ {w} : Stays(v)
           /\ pc'[w] \in {"idle", "resolve", "refund"}
           /\ pc'[w] = "refund" => job'[w] = job[w]
                                   /\ targets'[w] = targets[w] \ {u}
  BY DEF NextTarget, Return, Stays, WorkerInv

\* A step moves one worker, if any.
LEMMA OneMoves ==
    ASSUME WorkerInv, [Next]_vars, NEW v \in Worker
    PROVE  Moves(v) \/ Stays(v)
  <1>1. ASSUME NEW w \in Worker \ {v}, NEW u \in Unlock, Request(w, u)
        PROVE  Stays(v)
    BY <1>1
    DEF Request, OpenUnlock, ReportDead, Confirm, AutoConfirm, Investigate,
        ResolveWithRefund, ResolveWithoutRefund, Close, Start, Stays, WorkerInv
  <1>2. ASSUME NEW w \in Worker \ {v}, NEW u \in Unlock,
               RefundRead(w, u) \/ RefundRefused(w, u)
        PROVE  Stays(v)
    <2>1. CASE NextTarget(w, u)
      BY <2>1, NextTargetLocal
    <2>2. CASE ~NextTarget(w, u)
      BY <1>2, <2>2
      DEF RefundRead, RefundRefused, RefundFails, Return, Stays, WorkerInv
    <2>3. QED
      BY <2>1, <2>2
  <1>3. ASSUME NEW w \in Worker \ {v}, Unwind(w) \/ RefundAborted(w)
        PROVE  Stays(v)
    <2>1. NextTarget(w, seen[w].unlock) \/ Return(w)
      BY <1>3 DEF Unwind, RefundAborted, RefundFails
    <2>2. QED
      BY <2>1, NextTargetLocal DEF Return, Stays, WorkerInv
  <1>4. ASSUME NEW w \in Worker \ {v},
               \/ Charge(w) \/ Refuse(w) \/ InsertConfirmation(w)
               \/ RejectConfirmation(w) \/ ReadSettlement(w)
               \/ EnsureForConfirmedUnlock(w) \/ ClaimListing(w)
               \/ WriteResolved(w) \/ WriteInvestigating(w) \/ WriteClosed(w)
               \/ Crash(w)
        PROVE  Stays(v)
    BY <1>4
    DEF Charge, Refuse, InsertConfirmation, RejectConfirmation, ReadSettlement,
        EnsureForConfirmedUnlock, ClaimListing, WriteResolved,
        WriteInvestigating, WriteClosed, Crash, Return, Goto, Stays, WorkerInv
  <1>5. ASSUME NEW w \in Worker \ {v}, ListRivals(w)
        PROVE  Stays(v)
    BY <1>5 DEF ListRivals, Return, Stays, WorkerInv
  <1>6. ASSUME \/ \E u \in Unlock :
                    FileDispute(u) \/ SettleFee(u) \/ PayCommission(u)
                    \/ ReopenCommission(u)
               \/ \E l \in Listing : SoftDelete(l) \/ AdminDelete(l)
               \/ UNCHANGED vars
        PROVE  Stays(v)
    BY <1>6
    DEF FileDispute, SettleFee, PayCommission, ReopenCommission, SoftDelete,
        AdminDelete, Delete, vars, wrkVars, Stays
  <1>7. QED
    BY <1>1, <1>2, <1>3, <1>4, <1>5, <1>6 DEF Next, Step, Moves

\* Only a confirmation and a resolution that keeps the deal settle.
TaskInv ==
    \A w \in Worker :
        pc[w] \in {"insert", "settle", "fee", "claim", "list"} =>
            job[w].task \in {"confirm", "auto", "settle"}

LEMMA TaskMoves ==
    ASSUME WorkerInv, TaskInv, NEW v \in Worker, Moves(v),
           pc'[v] \in {"insert", "settle", "fee", "claim", "list"}
    PROVE  job'[v].task \in {"confirm", "auto", "settle"}
  <1>1. ASSUME NEW u \in Unlock, Request(v, u)
        PROVE  job'[v].task \in {"confirm", "auto", "settle"}
    <2>1. PICK t \in {"confirm", "auto"}, s \in Side :
            Start(v, t, u, s, "insert", {})
      BY <1>1
      DEF Request, OpenUnlock, ReportDead, Confirm, AutoConfirm, Investigate,
          ResolveWithRefund, ResolveWithoutRefund, Close, Start, WorkerInv
    <2>2. job'[v] = [task |-> t, unlock |-> u, side |-> s]
      BY <2>1 DEF Start, WorkerInv
    <2>3. QED
      BY <2>2
  <1>2. CASE \E u \in Unlock : RefundRead(v, u) \/ RefundRefused(v, u)
    BY <1>2, NextTargetLocal
    DEF RefundRead, RefundRefused, RefundFails, Return, WorkerInv
  <1>3. CASE Unwind(v) \/ RefundAborted(v)
    BY <1>3, NextTargetLocal
    DEF Unwind, RefundAborted, RefundFails, Return, WorkerInv
  <1>4. CASE \/ InsertConfirmation(v) \/ ReadSettlement(v)
             \/ EnsureForConfirmedUnlock(v) \/ ClaimListing(v)
    BY <1>4
    DEF InsertConfirmation, ReadSettlement, EnsureForConfirmedUnlock,
        ClaimListing, Goto, Return, WorkerInv, TaskInv
  <1>5. CASE WriteResolved(v)
    BY <1>5 DEF WriteResolved, Goto, Return, WorkerInv
  <1>6. CASE \/ Charge(v) \/ Refuse(v) \/ RejectConfirmation(v)
             \/ ListRivals(v) \/ WriteInvestigating(v) \/ WriteClosed(v)
             \/ Crash(v)
    BY <1>6
    DEF Charge, Refuse, RejectConfirmation, ListRivals, WriteInvestigating,
        WriteClosed, Crash, Return, WorkerInv
  <1>7. QED
    BY <1>1, <1>2, <1>3, <1>4, <1>5, <1>6 DEF Moves, Step

\* How a worker comes to the steps of a settlement and of a refund.
SettlementMove(v) ==
    /\ pc'[v] = "fee" => /\ IsSettleable(job[v].unlock)
                         /\ job'[v] = job[v]
                         /\ job[v].unlock \in Unlock
                         /\ UNCHANGED sides
    /\ pc'[v] = "claim" => /\ pc[v] = "fee"
                           /\ job'[v] = job[v]
                           /\ commission'[job[v].unlock] # "none"
                           /\ UNCHANGED sides
    /\ pc'[v] = "list" => /\ pc[v] = "claim"
                          /\ job'[v] = job[v]
                          /\ market'[ListingOf(job[v].unlock)] # "ACTIVE"
                          /\ job[v].unlock \in winners'[ListingOf(job[v].unlock)]
    /\ pc'[v] = "unwind" => /\ state[seen'[v].unlock] = "held"
                            /\ seen'[v].cancel =>
                                 commission[seen'[v].unlock] # "none"
                            /\ UNCHANGED <<state, commission>>

LEMMA SettlementMoves ==
    ASSUME TypeOK, WorkerInv, NEW v \in Worker, Moves(v)
    PROVE  SettlementMove(v)
  <1>0. /\ pc[v] \in Label
        /\ pc[v] # "idle" => job[v].unlock \in Unlock
                             /\ ListingOf(job[v].unlock) \in Listing
    BY JobUnlock DEF WorkerInv, Unlock, ListingOf
  <1>1. CASE \E u \in Unlock : Request(v, u)
    BY <1>1
    DEF Request, OpenUnlock, ReportDead, Confirm, AutoConfirm, Investigate,
        ResolveWithRefund, ResolveWithoutRefund, Close, Start, WorkerInv,
        SettlementMove
  <1>q. ASSUME pc'[v] \in {"idle", "resolve", "refund"}
        PROVE  SettlementMove(v)
    BY <1>q DEF SettlementMove
  <1>2. ASSUME NEW u \in Unlock, RefundRead(v, u)
        PROVE  SettlementMove(v)
    <2>1. CASE NextTarget(v, u)
      BY <2>1, <1>q, NextTargetLocal
    <2>2. CASE ~NextTarget(v, u)
      <3> DEFINE r == [unlock |-> u, cancel |-> commission[u] = "PENDING"]
      <3>1. /\ seen' = [seen EXCEPT ![v] = r]
            /\ pc' = [pc EXCEPT ![v] = "unwind"]
            /\ state[u] = "held"
            /\ UNCHANGED <<state, commission>>
        BY <1>2, <2>2 DEF RefundRead, rowVars, dealVars
      <3>2. pc'[v] = "unwind" /\ seen'[v] = r
        BY <3>1 DEF WorkerInv
      <3>3. r.unlock = u /\ (r.cancel => commission[u] # "none")
        OBVIOUS
      <3> HIDE DEF r
      <3>4. QED
        BY <3>1, <3>2, <3>3 DEF SettlementMove
    <2>3. QED
      BY <2>1, <2>2
  <1>3. ASSUME NEW u \in Unlock, RefundRefused(v, u)
        PROVE  SettlementMove(v)
    <2>1. NextTarget(v, u) \/ Return(v)
      BY <1>3 DEF RefundRefused, RefundFails
    <2>2. QED
      BY <2>1, <1>q, NextTargetLocal DEF Return, WorkerInv
  <1>4. CASE Unwind(v) \/ RefundAborted(v)
    <2>1. NextTarget(v, seen[v].unlock) \/ Return(v)
      BY <1>4 DEF Unwind, RefundAborted, RefundFails
    <2>2. QED
      BY <2>1, <1>q, NextTargetLocal DEF Return, WorkerInv
  <1>5. CASE \/ Charge(v) \/ Refuse(v) \/ InsertConfirmation(v)
             \/ RejectConfirmation(v) \/ WriteResolved(v)
             \/ WriteInvestigating(v) \/ WriteClosed(v) \/ Crash(v)
             \/ ListRivals(v)
    BY <1>5
    DEF Charge, Refuse, InsertConfirmation, RejectConfirmation, WriteResolved,
        WriteInvestigating, WriteClosed, Crash, ListRivals, Return, Goto,
        WorkerInv, SettlementMove
  <1>6. CASE ReadSettlement(v)
    BY <1>0, <1>6 DEF ReadSettlement, Goto, Return, WorkerInv,
              SettlementMove
  <1>7. CASE EnsureForConfirmedUnlock(v)
    BY <1>0, <1>7 DEF EnsureForConfirmedUnlock, Goto, WorkerInv, TypeOK,
              SettlementMove
  <1>8. CASE ClaimListing(v)
    BY <1>0, <1>8 DEF ClaimListing, Goto, Return, WorkerInv, TypeOK,
              SettlementMove
  <1>9. QED
    BY <1>1, <1>2, <1>3, <1>4, <1>5, <1>6, <1>7, <1>8 DEF Moves, Step

\* How a worker comes to be sweeping.
LEMMA SweepMoves ==
    ASSUME TypeOK, WorkerInv, NEW v \in Worker, Moves(v), (Sweeping(v))'
    PROVE  job'[v] = job[v] /\ (pc[v] = "list" \/ Sweeping(v))
  <1>1. CASE \E u \in Unlock : Request(v, u)
    BY <1>1
    DEF Request, OpenUnlock, ReportDead, Confirm, AutoConfirm, Investigate,
        ResolveWithRefund, ResolveWithoutRefund, Close, Start, WorkerInv,
        Sweeping
  <1>2. ASSUME NEW u \in Unlock, RefundRead(v, u), ~NextTarget(v, u)
        PROVE  job'[v] = job[v] /\ pc[v] = "refund"
    BY <1>2 DEF RefundRead
  <1>3. ASSUME NEW u \in Unlock, RefundRead(v, u), NextTarget(v, u)
        PROVE  job'[v] = job[v] /\ pc[v] = "refund"
    BY <1>3, NextTargetLocal DEF RefundRead, Sweeping
  <1>4. ASSUME NEW u \in Unlock, RefundFails(v, u)
        PROVE  job'[v] = job[v] /\ Sweeping(v)
    BY <1>4, NextTargetLocal
    DEF RefundFails, Sweeping, Return, WorkerInv
  <1>5. CASE Unwind(v)
    <2>1. /\ seen[v].unlock \in Unlock
          /\ state'[seen[v].unlock] = "refunded"
          /\ NextTarget(v, seen[v].unlock)
          /\ pc[v] = "unwind"
      BY <1>5, JobUnlock DEF Unwind, TypeOK
    <2>2. QED
      BY <2>1, NextTargetLocal DEF Sweeping, Return, WorkerInv, NextTarget
  <1>6. CASE RefundAborted(v)
    <2>1. seen[v].unlock \in Unlock /\ RefundFails(v, seen[v].unlock)
      BY <1>6, JobUnlock DEF RefundAborted
    <2>2. QED
      BY <2>1, <1>4
  <1>7. CASE \/ Charge(v) \/ Refuse(v) \/ InsertConfirmation(v)
             \/ RejectConfirmation(v) \/ ReadSettlement(v)
             \/ EnsureForConfirmedUnlock(v) \/ ClaimListing(v)
             \/ WriteResolved(v) \/ WriteInvestigating(v) \/ WriteClosed(v)
             \/ Crash(v)
    BY <1>7
    DEF Charge, Refuse, InsertConfirmation, RejectConfirmation, WriteResolved,
        WriteInvestigating, WriteClosed, Crash, ReadSettlement,
        EnsureForConfirmedUnlock, ClaimListing, Return, Goto, WorkerInv,
        Sweeping
  <1>8. CASE ListRivals(v)
    BY <1>8 DEF ListRivals, Return, WorkerInv, Sweeping
  <1>9. QED
    BY <1>1, <1>2, <1>3, <1>4, <1>5, <1>6, <1>7, <1>8
    DEF Moves, Step, RefundRefused, Sweeping

\* What becomes of a sweep: it is cut, it lists its rivals, it reads one, or
\* it is through with one.
LEMMA SweepGoesOn ==
    ASSUME TypeOK, WorkerInv, TaskInv, NEW v \in Worker, Moves(v),
           pc[v] = "list" \/ Sweeping(v)
    PROVE  LET still(ts) == (Sweeping(v))' /\ job'[v] = job[v] /\ targets'[v] = ts
           IN  \/ ListingOf(job[v].unlock) \in cut'
               \/ /\ pc[v] = "list"
                  /\ \/ Rivals(job[v].unlock) = {}
                     \/ still(Rivals(job[v].unlock))
               \/ Sweeping(v) /\ still(targets[v])
               \/ /\ Sweeping(v)
                  /\ \E u \in Unlock : /\ state'[u] # "held" \/ u \in failed'
                                       /\ \/ targets[v] = {u}
                                          \/ still(targets[v] \ {u})
  <1> DEFINE still(ts) == /\ (Sweeping(v))'
                          /\ job'[v] = job[v]
                          /\ targets'[v] = ts
  <1>0. pc[v] \in {"list", "refund", "unwind"}
    BY DEF Sweeping
  <1>n. ASSUME NEW u, Sweeping(v), NextTarget(v, u)
        PROVE  targets[v] = {u} \/ still(targets[v] \ {u})
    <2>1. job[v].task # "refund"
      BY <1>n DEF Sweeping
    <2>2. CASE targets[v] = {u}
      BY <2>2
    <2>3. CASE targets[v] # {u}
      BY <1>n, <2>1, <2>3 DEF NextTarget, Sweeping, WorkerInv
    <2>4. QED
      BY <2>2, <2>3
  <1>1. CASE ListRivals(v)
    <2>1. job[v].task \in {"confirm", "auto", "settle"}
      BY <1>1 DEF ListRivals, TaskInv
    <2>2. QED
      BY <1>1, <2>1 DEF ListRivals, Sweeping, WorkerInv
  <1>2. ASSUME NEW u \in Unlock, RefundRead(v, u)
        PROVE  /\ Sweeping(v)
               /\ \/ still(targets[v])
                  \/ /\ state'[u] # "held"
                     /\ targets[v] = {u} \/ still(targets[v] \ {u})
    <2>1. Sweeping(v) /\ UNCHANGED state
      BY <1>2 DEF RefundRead, Sweeping, rowVars
    <2>2. CASE state[u] = "held"
      BY <1>2, <2>1, <2>2 DEF RefundRead, Sweeping, WorkerInv
    <2>3. CASE state[u] # "held"
      BY <1>2, <2>1, <2>3, <1>n DEF RefundRead
    <2>4. QED
      BY <2>1, <2>2, <2>3
  <1>3. ASSUME NEW u \in Unlock, RefundFails(v, u), Sweeping(v)
        PROVE  /\ u \in failed'
               /\ targets[v] = {u} \/ still(targets[v] \ {u})
    BY <1>3, <1>n DEF RefundFails
  <1>4. ASSUME NEW u \in Unlock, RefundRefused(v, u)
        PROVE  RefundFails(v, u) /\ Sweeping(v)
    BY <1>4 DEF RefundRefused, Sweeping
  <1>5. CASE Unwind(v)
    <2>1. /\ Sweeping(v)
          /\ seen[v].unlock \in Unlock
          /\ state'[seen[v].unlock] # "held"
          /\ NextTarget(v, seen[v].unlock)
      BY <1>5, JobUnlock DEF Unwind, TypeOK, Sweeping
    <2>2. QED
      BY <2>1, <1>n
  <1>6. CASE RefundAborted(v)
    <2>1. /\ Sweeping(v)
          /\ seen[v].unlock \in Unlock
          /\ RefundFails(v, seen[v].unlock)
      BY <1>6, JobUnlock DEF RefundAborted, Sweeping
    <2>2. QED
      BY <2>1, <1>3
  <1>7. CASE Crash(v)
    BY <1>7 DEF Crash
  <1>8. ASSUME \/ \E u \in Unlock : Request(v, u)
               \/ Charge(v) \/ Refuse(v) \/ InsertConfirmation(v)
               \/ RejectConfirmation(v) \/ ReadSettlement(v)
               \/ EnsureForConfirmedUnlock(v) \/ ClaimListing(v)
               \/ WriteResolved(v) \/ WriteInvestigating(v) \/ WriteClosed(v)
        PROVE  FALSE
    BY <1>0, <1>8
    DEF Request, OpenUnlock, ReportDead, Confirm, AutoConfirm, Investigate,
        ResolveWithRefund, ResolveWithoutRefund, Close, Start, Charge, Refuse,
        InsertConfirmation, RejectConfirmation, ReadSettlement,
        EnsureForConfirmedUnlock, ClaimListing, WriteResolved,
        WriteInvestigating, WriteClosed
  <1>9. QED
    BY <1>1, <1>2, <1>3, <1>4, <1>5, <1>6, <1>7, <1>8 DEF Moves, Step

-----------------------------------------------------------------------------
(* The inductive invariant *)

\* A settlement under way: both tenants have confirmed since it began, the
\* commission is there before the listing is claimed, and from then on the
\* listing cannot be unlocked again.
SettlementInv ==
    \A w \in Worker :
        LET u == job[w].unlock
        IN  /\ pc[w] = "fee" => sides[u] = Side
            /\ pc[w] = "claim" => sides[u] = Side /\ commission[u] # "none"
            /\ pc[w] = "list" \/ Sweeping(w) => market[ListingOf(u)] # "ACTIVE"
            /\ pc[w] = "list" => u \in winners[ListingOf(u)]

\* A listing that was handed over and not deleted is CONFIRMED, for one
\* unlock: what the claim of another settlement runs into.
HandoverInv ==
    \A l \in Listing :
        \/ deleted[l]
        \/ winners[l] = {}
        \/ market[l] = "CONFIRMED" /\ \E u \in Unlock : winners[l] = {u}

\* A withdrawn listing is deleted, so nobody unlocks it any more.
WithdrawnInv == \A l \in withdrawn : deleted[l] /\ Confirmed(l)

Base == TypeOK /\ WorkerInv /\ RefundInv

LifecycleInv == /\ Base
                /\ TaskInv
                /\ SettlementInv
                /\ HandoverInv
                /\ CreditsConserved
                /\ CommissionBacked
                /\ RivalsAccounted
                /\ HandoverHasWinner
                /\ WithdrawnInv

\* The job of a worker at work is about an unlock of a listing.
LEMMA JobListing ==
    ASSUME WorkerInv, NEW w \in Worker, pc[w] # "idle"
    PROVE  job[w].unlock \in Unlock /\ ListingOf(job[w].unlock) \in Listing
  BY JobUnlock DEF Unlock, ListingOf

LEMMA RefundStep ==
    ASSUME Base, [Next]_vars
    PROVE  RefundInv'
  <1> SUFFICES ASSUME NEW v \in Worker, pc'[v] = "unwind"
               PROVE  /\ state'[seen'[v].unlock] # "none"
                      /\ seen'[v].cancel => commission'[seen'[v].unlock] # "none"
    BY DEF RefundInv
  <1>1. CASE Moves(v)
    BY <1>1, SettlementMoves DEF SettlementMove, Base
  <1>2. CASE Stays(v)
    <2>1. RowStep(seen[v].unlock)
      BY <1>2, JobUnlock, RowSteps DEF Base, Stays
    <2>2. QED
      BY <1>2, <2>1 DEF RowStep, Stays, Base, RefundInv
  <1>3. QED
    BY <1>1, <1>2, OneMoves DEF Base

LEMMA SettlementStep ==
    ASSUME Base, SettlementInv, [Next]_vars
    PROVE  SettlementInv'
  <1> SUFFICES ASSUME NEW v \in Worker
               PROVE  LET u == job'[v].unlock
                      IN  /\ pc'[v] = "fee" => sides'[u] = Side
                          /\ pc'[v] = "claim" =>
                               sides'[u] = Side /\ commission'[u] # "none"
                          /\ pc'[v] = "list" \/ (Sweeping(v))' =>
                               market'[ListingOf(u)] # "ACTIVE"
                          /\ pc'[v] = "list" => u \in winners'[ListingOf(u)]
    BY DEF SettlementInv, ListingOf
  <1> DEFINE u == job[v].unlock
  <1>0. /\ pc[v] # "idle" => u \in Unlock /\ ListingOf(u) \in Listing
        /\ sides \in [Unlock -> SUBSET Side]
        /\ sides' \in [Unlock -> SUBSET Side]
    BY JobListing, NextType DEF Base, TypeOK
  <1>1. CASE Stays(v)
    <2>1. pc[v] # "idle" => RowStep(u) /\ ListingStep(ListingOf(u))
      BY <1>0, RowSteps, ListingSteps DEF Base
    <2>2. /\ job'[v] = job[v] /\ pc'[v] = pc[v]
          /\ (Sweeping(v))' => Sweeping(v)
      BY <1>1 DEF Stays, Sweeping
    <2>3. /\ pc[v] = "fee" => sides[u] = Side
          /\ pc[v] = "claim" => sides[u] = Side /\ commission[u] # "none"
          /\ pc[v] = "list" \/ Sweeping(v) => market[ListingOf(u)] # "ACTIVE"
      BY DEF SettlementInv
    <2>4. Sweeping(v) => pc[v] # "idle"
      BY DEF Sweeping
    <2>5. ASSUME pc[v] \in {"fee", "claim"}
          PROVE  /\ sides'[u] = Side
                 /\ commission[u] # "none" => commission'[u] # "none"
      <3>1. u \in Unlock /\ sides[u] = Side /\ RowStep(u)
        BY <1>0, <2>1, <2>3, <2>5
      <3>2. sides'[u] \subseteq Side
        BY <1>0, <3>1
      <3>3. QED
        BY <3>1, <3>2 DEF RowStep
    <2>6. pc[v] = "list" \/ Sweeping(v) => market'[ListingOf(u)] # "ACTIVE"
      BY <2>1, <2>3, <2>4 DEF ListingStep
    <2>7. pc[v] = "list" => u \in winners'[ListingOf(u)]
      BY <2>1 DEF ListingStep, SettlementInv
    <2>8. QED
      BY <2>2, <2>3, <2>5, <2>6, <2>7
  <1>2. CASE Moves(v)
    <2>1. SettlementMove(v)
      BY <1>2, SettlementMoves DEF Base
    <2>2. (Sweeping(v))' => market'[ListingOf(job'[v].unlock)] # "ACTIVE"
      <3>1. ASSUME (Sweeping(v))'
            PROVE  job'[v] = job[v] /\ (pc[v] = "list" \/ Sweeping(v))
        BY <1>2, <3>1, SweepMoves DEF Base
      <3>2. pc[v] = "list" \/ Sweeping(v) => ListingStep(ListingOf(u))
        BY <1>0, ListingSteps DEF Base, Sweeping
      <3>3. QED
        BY <3>1, <3>2 DEF SettlementInv, ListingStep
    <2>3. QED
      BY <2>1, <2>2 DEF SettlementMove, SettlementInv, IsSettleable
  <1>3. QED
    BY <1>1, <1>2, OneMoves DEF Base

LEMMA TaskStep ==
    ASSUME WorkerInv, TaskInv, [Next]_vars
    PROVE  TaskInv'
  <1> SUFFICES ASSUME NEW v \in Worker,
                      pc'[v] \in {"insert", "settle", "fee", "claim", "list"}
               PROVE  job'[v].task \in {"confirm", "auto", "settle"}
    BY DEF TaskInv
  <1>1. CASE Stays(v)
    BY <1>1 DEF Stays, TaskInv
  <1>2. CASE Moves(v)
    BY <1>2, TaskMoves
  <1>3. QED
    BY <1>1, <1>2, OneMoves

LEMMA HandoverStep ==
    ASSUME Base, HandoverInv, [Next]_vars
    PROVE  HandoverInv'
  <1> SUFFICES ASSUME NEW l \in Listing
               PROVE  \/ deleted'[l]
                      \/ winners'[l] = {}
                      \/ /\ market'[l] = "CONFIRMED"
                         /\ \E u \in Unlock : winners'[l] = {u}
    BY DEF HandoverInv, Unlock
  <1>1. ListingStep(l)
    BY ListingSteps DEF Base
  <1>2. QED
    BY <1>1 DEF ListingStep, HandoverInv

LEMMA CreditsStep ==
    ASSUME Base, CreditsConserved, [Next]_vars
    PROVE  CreditsConserved'
  <1> SUFFICES ASSUME NEW u \in Unlock
               PROVE  credited'[u] = IF state'[u] = "refunded" THEN 1 ELSE 0
    BY DEF CreditsConserved, Unlock
  <1>1. RowStep(u)
    BY RowSteps DEF Base
  <1>2. QED
    BY <1>1 DEF RowStep, CreditsConserved

LEMMA CommissionStep ==
    ASSUME Base, SettlementInv, CommissionBacked, [Next]_vars
    PROVE  CommissionBacked'
  <1> SUFFICES ASSUME NEW u \in Unlock, commission'[u] # "none"
               PROVE  /\ sides'[u] = Side
                      /\ state'[u] = "held" => fee'[u] # "none"
    BY DEF CommissionBacked, Unlock
  <1>1. RowStep(u) /\ sides'[u] \subseteq Side
    BY RowSteps, NextType DEF Base, TypeOK
  <1>2. sides[u] = Side
    BY <1>1 DEF RowStep, CommissionBacked, SettlementInv
  <1>3. QED
    BY <1>1, <1>2 DEF RowStep, CommissionBacked

Grows == failed \subseteq failed' /\ cut \subseteq cut'

\* What a sweep leaves behind stays on record.
LEMMA RecordGrows ==
    ASSUME [Next]_vars
    PROVE  Grows
  <1>1. CASE UNCHANGED vars
    BY <1>1 DEF Grows, vars
  <1>2. ASSUME NEW w \in Worker,
               \/ RefundAborted(w)
               \/ \E x \in Unlock : RefundRead(w, x) \/ RefundRefused(w, x)
        PROVE  Grows
    BY <1>2
    DEF Grows, RefundAborted, RefundRead, RefundRefused, RefundFails, auxVars
  <1>3. ASSUME NEW w \in Worker,
               \/ Charge(w) \/ Refuse(w) \/ Unwind(w)
               \/ InsertConfirmation(w) \/ RejectConfirmation(w)
        PROVE  Grows
    BY <1>3 DEF Grows, Charge, Refuse, Unwind, InsertConfirmation,
       RejectConfirmation, auxVars
  <1>4. ASSUME NEW w \in Worker,
               \/ ReadSettlement(w) \/ EnsureForConfirmedUnlock(w)
               \/ ClaimListing(w) \/ ListRivals(w) \/ Crash(w)
        PROVE  Grows
    BY <1>4 DEF Grows, ReadSettlement, EnsureForConfirmedUnlock, ClaimListing,
       ListRivals, Crash, auxVars
  <1>5. ASSUME NEW w \in Worker,
               WriteResolved(w) \/ WriteInvestigating(w) \/ WriteClosed(w)
        PROVE  Grows
    BY <1>5
    DEF Grows, WriteResolved, WriteInvestigating, WriteClosed, WriteDispute,
        auxVars
  <1>6. ASSUME NEW w \in Worker, NEW x \in Unlock, Request(w, x)
        PROVE  Grows
    BY <1>6 DEF Grows, Request, OpenUnlock, ReportDead, Confirm, AutoConfirm,
       Investigate, ResolveWithRefund, ResolveWithoutRefund, Close, Start,
       auxVars
  <1>7. ASSUME NEW x \in Unlock,
               FileDispute(x) \/ SettleFee(x) \/ PayCommission(x)
               \/ ReopenCommission(x)
        PROVE  Grows
    BY <1>7
    DEF Grows, FileDispute, SettleFee, PayCommission, ReopenCommission,
        auxVars
  <1>8. ASSUME NEW l \in Listing, SoftDelete(l) \/ AdminDelete(l)
        PROVE  Grows
    BY <1>8 DEF Grows, SoftDelete, AdminDelete, Delete, auxVars
  <1>9. QED
    BY <1>1, <1>2, <1>3, <1>4, <1>5, <1>6, <1>7, <1>8 DEF Next, Step

LEMMA AccountedStep ==
    ASSUME Base, TaskInv, SettlementInv, RivalsAccounted, [Next]_vars
    PROVE  RivalsAccounted'
  <1> SUFFICES ASSUME NEW x \in Unlock,
                      market'[ListingOf(x)] = "CONFIRMED",
                      state'[x] = "held",
                      x \notin winners'[ListingOf(x)],
                      x \notin failed',
                      ListingOf(x) \notin cut'
               PROVE  \E w \in Worker :
                        /\ pc'[w] = "list" \/ ((Sweeping(w))' /\ x \in targets'[w])
                        /\ ListingOf(job'[w].unlock) = ListingOf(x)
    BY DEF RivalsAccounted, Unlock, ListingOf
  <1> DEFINE l == ListingOf(x)
  <1>1. x \notin failed /\ l \notin cut
    BY RecordGrows DEF Grows
  <1>2. l \in Listing
    BY DEF Unlock, ListingOf
  <1>3. RowStep(x) /\ ListingStep(l)
    BY <1>2, RowSteps, ListingSteps DEF Base
  <1>4. CASE market[l] # "CONFIRMED"
    BY <1>3, <1>4 DEF ListingStep
  <1>5. CASE market[l] = "CONFIRMED"
    <2>1. state[x] = "held" /\ x \notin winners[l]
      BY <1>3, <1>5 DEF RowStep, ListingStep, Unlockable
    <2>2. PICK w \in Worker :
            /\ pc[w] = "list" \/ (Sweeping(w) /\ x \in targets[w])
            /\ ListingOf(job[w].unlock) = l
      BY <1>1, <1>5, <2>1 DEF RivalsAccounted
    <2>3. pc[w] = "list" => x \in Rivals(job[w].unlock)
      BY <2>1, <2>2 DEF SettlementInv, Rivals
    <2>4. CASE Stays(w)
      BY <2>2, <2>4 DEF Stays, Sweeping
    <2>5. CASE Moves(w)
      BY <1>1, <2>2, <2>3, <2>5, SweepGoesOn DEF Base, Sweeping
    <2>6. QED
      BY <2>4, <2>5, OneMoves DEF Base
  <1>6. QED
    BY <1>4, <1>5

LEMMA WinnerStep ==
    ASSUME Base, SettlementInv, HandoverHasWinner, [Next]_vars
    PROVE  HandoverHasWinner'
  <1> SUFFICES ASSUME NEW l \in Listing, winners'[l] # {}
               PROVE  \E u \in Unlock : /\ ListingOf(u) = l
                                        /\ sides'[u] = Side
                                        /\ commission'[u] # "none"
    BY DEF HandoverHasWinner, Unlock, ListingOf
  <1>1. \E u \in Unlock : /\ ListingOf(u) = l
                          /\ sides[u] = Side
                          /\ commission[u] # "none"
    <2>1. ListingStep(l)
      BY ListingSteps DEF Base
    <2>2. QED
      BY <2>1 DEF ListingStep, HandoverHasWinner, SettlementInv
  <1>2. PICK u \in Unlock : /\ ListingOf(u) = l
                            /\ sides[u] = Side
                            /\ commission[u] # "none"
    BY <1>1
  <1>3. RowStep(u) /\ sides'[u] \subseteq Side
    BY RowSteps, NextType DEF Base, TypeOK
  <1>4. sides'[u] = Side /\ commission'[u] # "none"
    BY <1>2, <1>3 DEF RowStep
  <1>5. QED
    BY <1>2, <1>4

LEMMA WithdrawnStep ==
    ASSUME Base, WithdrawnInv, [Next]_vars
    PROVE  WithdrawnInv'
  <1> SUFFICES ASSUME NEW l \in withdrawn'
               PROVE  deleted'[l] /\ Confirmed(l)'
    BY DEF WithdrawnInv
  <1>1. l \in Listing
    BY NextType DEF Base, TypeOK
  <1>2. ListingStep(l)
    BY <1>1, ListingSteps DEF Base
  <1>3. CASE l \notin withdrawn
    BY <1>2, <1>3 DEF ListingStep
  <1>4. CASE l \in withdrawn
    <2>1. deleted'[l]
      BY <1>2, <1>4 DEF ListingStep, WithdrawnInv
    <2>2. ASSUME NEW u \in Unlock, ListingOf(u) = l, state'[u] = "held"
          PROVE  sides'[u] = Side
      <3>1. RowStep(u) /\ sides'[u] \subseteq Side
        BY RowSteps, NextType DEF Base, TypeOK
      <3>2. state[u] = "held"
        BY <1>4, <2>2, <3>1 DEF RowStep, Unlockable, WithdrawnInv
      <3>3. sides[u] = Side
        BY <1>4, <2>2, <3>2 DEF WithdrawnInv, Confirmed
      <3>4. QED
        BY <3>1, <3>3 DEF RowStep
    <2>3. QED
      BY <2>1, <2>2 DEF Confirmed
  <1>5. QED
    BY <1>3, <1>4

LEMMA LifecycleInvariant == Spec => []LifecycleInv
  <1>1. Init => LifecycleInv
    <2>1. Init => Base
      BY InitType DEF Base, RefundInv, Init
    <2>2. QED
      BY <2>1
      DEF Init, LifecycleInv, SettlementInv, HandoverInv, CreditsConserved,
          CommissionBacked, RivalsAccounted, HandoverHasWinner, TaskInv,
          Sweeping, WithdrawnInv
  <1>2. LifecycleInv /\ [Next]_vars => LifecycleInv'
    BY NextType, NextWorker, RefundStep, SettlementStep, HandoverStep,
       CreditsStep, CommissionStep, TaskStep, AccountedStep, WinnerStep,
       WithdrawnStep
    DEF LifecycleInv, Base
  <1>3. QED
    BY <1>1, <1>2, PTL DEF Spec

-----------------------------------------------------------------------------
(* Theorems *)

\* Dispute, report and handover race to refund; an unlock is credited once.
THEOREM CreditsOnce == Spec => []CreditsConserved
  BY LifecycleInvariant, PTL DEF LifecycleInv

\* Every commission stands for a deal both tenants confirmed.
THEOREM CommissionsBacked == Spec => []CommissionBacked
  BY LifecycleInvariant, PTL DEF LifecycleInv

\* No holder of an unlock slips through the sweep of a handover: claiming the
\* listing before listing the rivals, and charging under the listing's lock,
\* suffice for any number of buyers and requests.
THEOREM SweepComplete == Spec => []RivalsAccounted
  BY LifecycleInvariant, PTL DEF LifecycleInv

\* A listing is handed over only for a settled unlock.
THEOREM HandoversHaveWinner == Spec => []HandoverHasWinner
  BY LifecycleInvariant, PTL DEF LifecycleInv

\* A listing nobody deletes is handed over once.
THEOREM HandoverOnce == Spec => []SingleHandover
  <1>1. HandoverInv => SingleHandover
    <2> SUFFICES ASSUME HandoverInv, NEW l \in Listing, ~deleted[l]
                 PROVE  Cardinality(winners[l]) <= 1
      BY DEF SingleHandover
    <2>1. CASE winners[l] = {}
      <3>1. Cardinality(winners[l]) = 0
        BY <2>1, FS_EmptySet
      <3>2. QED
        BY <3>1
    <2>2. ASSUME NEW u \in Unlock, winners[l] = {u}
          PROVE  Cardinality(winners[l]) <= 1
      <3>1. Cardinality(winners[l]) = 1
        BY <2>2, FS_Singleton
      <3>2. QED
        BY <3>1
    <2>3. QED
      BY <2>1, <2>2 DEF HandoverInv
  <1>2. QED
    BY <1>1, LifecycleInvariant, PTL DEF LifecycleInv

\* A poster withdraws a house only from buyers whose deals both tenants
\* confirmed, and no charge under way comes after it.
THEOREM WithdrawalsSpareBuyers == Spec => []WithdrawalSparesBuyers
  <1>1. TypeOK /\ WithdrawnInv => WithdrawalSparesBuyers
    BY DEF WithdrawnInv, Confirmed, WithdrawalSparesBuyers
  <1>2. QED
    BY <1>1, LifecycleInvariant, PTL DEF LifecycleInv, Base

-----------------------------------------------------------------------------
(* Two confirmations at the same time *)

\* Confirmations belong to unlocks that were paid for.
PaidFirst ==
    /\ \A u \in Unlock : state[u] = "none" => sides[u] = {}
    /\ \A w \in Worker : pc[w] = "insert" => state[job[w].unlock] # "none"

Settling(u) == \E w \in Worker : /\ pc[w] \in {"settle", "fee", "claim"}
                                 /\ job[w].unlock = u

Settled(u) == commission[u] # "none" /\ market[ListingOf(u)] # "ACTIVE"

\* ConfirmedSettles before the requests come to rest: the later of the two
\* confirmations brings its request to the settlement.
DealInv ==
    \A u \in Unlock :
        crashes = 0 /\ state[u] = "held" /\ sides[u] = Side
          /\ dispute[u] = "none"
        => Settling(u) \/ Settled(u)

\* An unlock gets a confirmation from a request that goes on to settle it.
SideStep(u) ==
    \/ sides'[u] = sides[u]
    \/ \E w \in Worker : /\ pc[w] = "insert" /\ pc'[w] = "settle"
                         /\ job[w].unlock = u /\ job'[w] = job[w]
                         /\ UNCHANGED state

LEMMA SideSteps ==
    ASSUME TypeOK, WorkerInv, [Next]_vars, NEW x \in Unlock
    PROVE  SideStep(x)
  <1>1. CASE UNCHANGED sides
    BY <1>1 DEF SideStep
  <1>2. ASSUME NEW w \in Worker, InsertConfirmation(w)
        PROVE  SideStep(x)
    <2>1. /\ pc[w] = "insert" /\ pc'[w] = "settle" /\ job'[w] = job[w]
          /\ UNCHANGED state
      BY <1>2 DEF InsertConfirmation, Goto, WorkerInv, rowVars
    <2>2. CASE job[w].unlock = x
      BY <2>1, <2>2 DEF SideStep
    <2>3. CASE job[w].unlock # x
      BY <1>2, <2>3 DEF InsertConfirmation, SideStep, TypeOK
    <2>4. QED
      BY <2>2, <2>3
  <1>3. ASSUME NEW w \in Worker, NEW u \in Unlock,
               Request(w, u) \/ RefundRead(w, u) \/ RefundRefused(w, u)
        PROVE  UNCHANGED sides
    BY <1>3
    DEF Request, OpenUnlock, ReportDead, Confirm, AutoConfirm, Investigate,
        ResolveWithRefund, ResolveWithoutRefund, Close, Start, RefundRead,
        RefundRefused, RefundFails
  <1>4. ASSUME NEW w \in Worker,
               \/ Step(w) \/ Crash(w) \/ RefundAborted(w),
               ~InsertConfirmation(w),
               ~\E u \in Unlock : RefundRead(w, u) \/ RefundRefused(w, u)
        PROVE  UNCHANGED sides
    BY <1>4
    DEF Step, Charge, Refuse, Unwind, RejectConfirmation, ReadSettlement,
        EnsureForConfirmedUnlock, ClaimListing, ListRivals, WriteResolved,
        WriteInvestigating, WriteClosed, WriteDispute, Crash, RefundAborted,
        RefundFails
  <1>5. ASSUME \/ \E u \in Unlock :
                    FileDispute(u) \/ SettleFee(u) \/ PayCommission(u)
                    \/ ReopenCommission(u)
               \/ \E l \in Listing : SoftDelete(l) \/ AdminDelete(l)
               \/ UNCHANGED vars
        PROVE  UNCHANGED sides
    BY <1>5
    DEF FileDispute, SettleFee, PayCommission, ReopenCommission, SoftDelete,
        AdminDelete, Delete, vars
  <1>6. QED
    BY <1>1, <1>2, <1>3, <1>4, <1>5 DEF Next

\* A dispute once filed leaves its traces, and so does a crash.
TracesStay ==
    /\ crashes' \in Nat /\ crashes =< crashes'
    /\ \A u \in Unlock : dispute'[u] = "none" => dispute[u] = "none"

LEMMA TracesStayed ==
    ASSUME TypeOK, WorkerInv, [Next]_vars
    PROVE  TracesStay
  <1>0. crashes \in Nat
    BY LifecycleAssumption DEF TypeOK
  <1>1. CASE UNCHANGED <<dispute, crashes>>
    BY <1>0, <1>1 DEF TracesStay
  <1>2. ASSUME NEW w \in Worker, Crash(w) \/ RefundAborted(w)
        PROVE  TracesStay
    BY <1>0, <1>2 DEF Crash, RefundAborted, RefundFails, TracesStay
  <1>3. ASSUME NEW w \in Worker,
               WriteResolved(w) \/ WriteInvestigating(w) \/ WriteClosed(w)
        PROVE  TracesStay
    BY <1>0, <1>3
    DEF WriteResolved, WriteInvestigating, WriteClosed, WriteDispute, auxVars,
        TracesStay, TypeOK
  <1>4. ASSUME NEW u \in Unlock, FileDispute(u)
        PROVE  TracesStay
    BY <1>0, <1>4 DEF FileDispute, auxVars, TracesStay, TypeOK
  <1>5. ASSUME NEW w \in Worker, NEW u \in Unlock,
               Request(w, u) \/ RefundRead(w, u) \/ RefundRefused(w, u)
        PROVE  UNCHANGED <<dispute, crashes>>
    BY <1>5
    DEF Request, OpenUnlock, ReportDead, Confirm, AutoConfirm, Investigate,
        ResolveWithRefund, ResolveWithoutRefund, Close, Start, RefundRead,
        RefundRefused, RefundFails, auxVars
  <1>6. ASSUME NEW w \in Worker,
               \/ Charge(w) \/ Refuse(w) \/ Unwind(w) \/ InsertConfirmation(w)
               \/ RejectConfirmation(w) \/ ReadSettlement(w)
               \/ EnsureForConfirmedUnlock(w) \/ ClaimListing(w)
               \/ ListRivals(w)
        PROVE  UNCHANGED <<dispute, crashes>>
    BY <1>6
    DEF Charge, Refuse, Unwind, InsertConfirmation, RejectConfirmation,
        ReadSettlement, EnsureForConfirmedUnlock, ClaimListing, ListRivals,
        auxVars
  <1>7. ASSUME \/ \E u \in Unlock : SettleFee(u) \/ PayCommission(u)
                                    \/ ReopenCommission(u)
               \/ \E l \in Listing : SoftDelete(l) \/ AdminDelete(l)
               \/ UNCHANGED vars
        PROVE  UNCHANGED <<dispute, crashes>>
    BY <1>7
    DEF SettleFee, PayCommission, ReopenCommission, SoftDelete, AdminDelete,
        Delete, vars, auxVars
  <1>8. QED
    BY <1>1, <1>2, <1>3, <1>4, <1>5, <1>6, <1>7 DEF Next, Step

\* Who is about to confirm has seen the unlock paid for.
LEMMA InsertMoves ==
    ASSUME WorkerInv, NEW v \in Worker, Moves(v), pc'[v] = "insert"
    PROVE  state'[job'[v].unlock] # "none"
  <1>1. ASSUME NEW u \in Unlock, Request(v, u)
        PROVE  state'[job'[v].unlock] # "none"
    <2>1. PICK t \in {"confirm", "auto"}, s \in Side :
            /\ Start(v, t, u, s, "insert", {})
            /\ state[u] = "held"
      BY <1>1
      DEF Request, OpenUnlock, ReportDead, Confirm, AutoConfirm, Investigate,
          ResolveWithRefund, ResolveWithoutRefund, Close, Start, WorkerInv
    <2>2. job'[v] = [task |-> t, unlock |-> u, side |-> s] /\ state' = state
      BY <2>1 DEF Start, WorkerInv, rowVars
    <2>3. QED
      BY <2>1, <2>2
  <1>2. CASE \E u \in Unlock : RefundRead(v, u) \/ RefundRefused(v, u)
    BY <1>2, NextTargetLocal
    DEF RefundRead, RefundRefused, RefundFails, Return, WorkerInv
  <1>3. CASE Unwind(v) \/ RefundAborted(v)
    BY <1>3, NextTargetLocal
    DEF Unwind, RefundAborted, RefundFails, Return, WorkerInv
  <1>4. CASE \/ InsertConfirmation(v) \/ ReadSettlement(v)
             \/ EnsureForConfirmedUnlock(v) \/ ClaimListing(v)
             \/ WriteResolved(v) \/ Charge(v) \/ Refuse(v)
             \/ RejectConfirmation(v) \/ ListRivals(v)
             \/ WriteInvestigating(v) \/ WriteClosed(v) \/ Crash(v)
    BY <1>4
    DEF InsertConfirmation, ReadSettlement, EnsureForConfirmedUnlock,
        ClaimListing, WriteResolved, Charge, Refuse, RejectConfirmation,
        ListRivals, WriteInvestigating, WriteClosed, Crash, Goto, Return,
        WorkerInv
  <1>5. QED
    BY <1>1, <1>2, <1>3, <1>4 DEF Moves, Step

LEMMA PaidFirstStep ==
    ASSUME Base, PaidFirst, [Next]_vars
    PROVE  PaidFirst'
  <1>1. ASSUME NEW x \in Unlock, state'[x] = "none"
        PROVE  sides'[x] = {}
    <2>1. state[x] = "none" /\ sides[x] = {}
      BY <1>1, RowSteps DEF Base, RowStep, PaidFirst
    <2>2. SideStep(x)
      BY SideSteps DEF Base
    <2>3. QED
      BY <2>1, <2>2 DEF SideStep, PaidFirst
  <1>2. ASSUME NEW v \in Worker, pc'[v] = "insert"
        PROVE  state'[job'[v].unlock] # "none"
    <2>1. CASE Moves(v)
      BY <1>2, <2>1, InsertMoves DEF Base
    <2>2. CASE Stays(v)
      <3>1. pc[v] = "insert" /\ job'[v] = job[v]
        BY <1>2, <2>2 DEF Stays
      <3>2. RowStep(job[v].unlock)
        BY <3>1, JobUnlock, RowSteps DEF Base
      <3>3. QED
        BY <3>1, <3>2 DEF RowStep, PaidFirst
    <2>3. QED
      BY <2>1, <2>2, OneMoves DEF Base
  <1>3. QED
    BY <1>1, <1>2 DEF PaidFirst

\* A settlement that finds the deal goes on to the claim of its listing.
LEMMA SettlingGoesOn ==
    ASSUME TypeOK, WorkerInv, NEW v \in Worker, Moves(v),
           pc[v] \in {"settle", "fee", "claim"}, crashes' = crashes,
           IsSettleable(job[v].unlock)
    PROVE  \/ pc'[v] \in {"fee", "claim"} /\ job'[v] = job[v]
           \/ /\ pc[v] = "claim"
              /\ market'[ListingOf(job[v].unlock)] # "ACTIVE"
  <1>1. ReadSettlement(v) \/ EnsureForConfirmedUnlock(v) \/ ClaimListing(v)
    <2>1. ~Crash(v) /\ ~RefundAborted(v)
      BY LifecycleAssumption DEF Crash, RefundAborted, TypeOK
    <2>2. ASSUME NEW u \in Unlock
          PROVE  ~Request(v, u) /\ ~RefundRead(v, u) /\ ~RefundRefused(v, u)
      BY DEF Request, OpenUnlock, ReportDead, Confirm, AutoConfirm,
             Investigate, ResolveWithRefund, ResolveWithoutRefund, Close,
             Start, RefundRead, RefundRefused
    <2>3. QED
      BY <2>1, <2>2
      DEF Moves, Step, Charge, Refuse, Unwind, InsertConfirmation,
          RejectConfirmation, ListRivals, WriteResolved, WriteInvestigating,
          WriteClosed
  <1>2. CASE ReadSettlement(v)
    BY <1>2 DEF ReadSettlement, Goto, WorkerInv
  <1>3. CASE EnsureForConfirmedUnlock(v)
    BY <1>3 DEF EnsureForConfirmedUnlock, Goto, WorkerInv
  <1>4. CASE ClaimListing(v)
    <2>1. ListingOf(job[v].unlock) \in Listing
      BY JobListing
    <2>2. QED
      BY <1>4, <2>1 DEF ClaimListing, TypeOK
  <1>5. QED
    BY <1>1, <1>2, <1>3, <1>4

LEMMA DealStep ==
    ASSUME Base, SettlementInv, PaidFirst, DealInv, [Next]_vars
    PROVE  DealInv'
  <1> SUFFICES ASSUME NEW x \in Unlock,
                      crashes' = 0, state'[x] = "held", sides'[x] = Side,
                      dispute'[x] = "none"
               PROVE  \/ \E w \in Worker :
                           /\ pc'[w] \in {"settle", "fee", "claim"}
                           /\ job'[w].unlock = x
                      \/ /\ commission'[x] # "none"
                         /\ market'[ListingOf(x)] # "ACTIVE"
    BY DEF DealInv, Settling, Settled, Unlock, ListingOf
  <1>1. /\ RowStep(x) /\ SideStep(x)
        /\ ListingStep(ListingOf(x)) /\ ListingOf(x) \in Listing
    BY RowSteps, SideSteps, ListingSteps DEF Base, Unlock, ListingOf
  <1>2. crashes = 0 /\ dispute[x] = "none"
    BY TracesStayed, LifecycleAssumption DEF Base, TracesStay, TypeOK
  <1>3. CASE sides[x] # Side
    BY <1>1, <1>3 DEF SideStep
  <1>4. CASE sides[x] = Side
    <2>1. state[x] = "held"
      BY <1>1, <1>4 DEF RowStep, PaidFirst, Side
    <2>2. CASE Settled(x)
      BY <1>1, <2>2 DEF Settled, RowStep, ListingStep
    <2>3. CASE Settling(x)
      <3>1. PICK v \in Worker : /\ pc[v] \in {"settle", "fee", "claim"}
                                /\ job[v].unlock = x
        BY <2>3 DEF Settling
      <3>2. CASE Stays(v)
        BY <3>1, <3>2 DEF Stays
      <3>3. CASE Moves(v)
        <4>1. IsSettleable(x)
          BY <1>2, <1>4, <2>1 DEF IsSettleable, Blocking
        <4>2. \/ pc'[v] \in {"fee", "claim"} /\ job'[v] = job[v]
              \/ pc[v] = "claim" /\ market'[ListingOf(x)] # "ACTIVE"
          BY <1>2, <3>1, <3>3, <4>1, SettlingGoesOn DEF Base
        <4>3. pc[v] = "claim" => commission'[x] # "none"
          BY <1>1, <3>1 DEF SettlementInv, RowStep
        <4>4. QED
          BY <3>1, <4>2, <4>3
      <3>4. QED
        BY <3>2, <3>3, OneMoves DEF Base
    <2>4. QED
      BY <1>2, <1>4, <2>1, <2>2, <2>3 DEF DealInv
  <1>5. QED
    BY <1>3, <1>4

\* Two tenants who confirm at the same time, or one beside the nightly job,
\* leave no confirmed deal behind that nobody settles.
THEOREM ConfirmedDealsSettle == Spec => []ConfirmedSettles
  <1>1. Init => PaidFirst /\ DealInv
    BY DEF Init, PaidFirst, DealInv
  <1>2. LifecycleInv /\ PaidFirst /\ DealInv /\ [Next]_vars
          => PaidFirst' /\ DealInv'
    BY PaidFirstStep, DealStep DEF LifecycleInv
  <1>3. DealInv => ConfirmedSettles
    BY DEF DealInv, ConfirmedSettles, Busy, Settling, Settled
  <1>4. QED
    BY <1>1, <1>2, <1>3, LifecycleInvariant, PTL DEF Spec

-----------------------------------------------------------------------------
(* The unlock's commission implements CommissionRow *)

Disputed == {u \in Unlock : dispute[u] # "none"}

\* Filing a dispute and every later write of its status are one step of the
\* abstract row, or none.
LEMMA DisputeSteps ==
    ASSUME NEW u \in Unlock, NEW s, s # "none", TypeOK,
           dispute' = [dispute EXCEPT ![u] = s], UNCHANGED commission
    PROVE  R!Next
  <1>1. Disputed' = Disputed \cup {u}
    BY DEF Disputed, TypeOK
  <1>2. QED
    BY <1>1 DEF Disputed, R!Next, R!Dispute

\* Each step that writes a commission or a dispute is a step of the abstract
\* row, the others stutter.
LEMMA CommissionSteps ==
    ASSUME TypeOK, WorkerInv, RefundInv, [Next]_vars
    PROVE  R!Next \/ UNCHANGED <<commission, Disputed>>
  <1> DEFINE Still == UNCHANGED <<commission, dispute>>
  <1>0. CASE Still
    BY <1>0 DEF Disputed
  <1>1. ASSUME NEW w \in Worker, Unwind(w)
        PROVE  R!Next \/ Still
    <2>1. PICK u \in Unlock : u = seen[w].unlock
      BY <1>1, JobUnlock DEF Unwind
    <2>2. CASE state[u] = "held" /\ seen[w].cancel
      <3>1. commission' = [commission EXCEPT ![u] = "CANCELLED"]
            /\ commission[u] # "none" /\ UNCHANGED dispute
        BY <1>1, <2>1, <2>2 DEF Unwind, RefundInv
      <3>2. QED
        BY <3>1 DEF R!Next, R!Cancel, R!Become
    <2>3. CASE ~(state[u] = "held" /\ seen[w].cancel)
      BY <1>1, <2>1, <2>3 DEF Unwind, TypeOK
    <2>4. QED
      BY <2>2, <2>3
  <1>2. ASSUME NEW w \in Worker, EnsureForConfirmedUnlock(w)
        PROVE  R!Next \/ Still
    <2>1. PICK u \in Unlock : u = job[w].unlock
      BY <1>2, JobUnlock DEF EnsureForConfirmedUnlock
    <2>2. /\ commission' = [commission EXCEPT ![u] =
                              IF @ = "none" THEN "PENDING" ELSE @]
          /\ UNCHANGED dispute
      BY <1>2, <2>1 DEF EnsureForConfirmedUnlock
    <2>3. CASE commission[u] = "none"
      BY <2>2, <2>3 DEF R!Next, R!Arise, R!Become
    <2>4. CASE commission[u] # "none"
      BY <2>2, <2>4 DEF TypeOK
    <2>5. QED
      BY <2>3, <2>4
  <1>3. ASSUME NEW u \in Unlock, PayCommission(u)
        PROVE  R!Next
    BY <1>3 DEF PayCommission, R!Next, R!Pay, R!Become
  <1>4. ASSUME NEW u \in Unlock, ReopenCommission(u)
        PROVE  R!Next
    BY <1>4 DEF ReopenCommission, R!Next, R!Reopen, R!Become
  <1>5. ASSUME NEW u \in Unlock, FileDispute(u)
        PROVE  R!Next
    BY <1>5, DisputeSteps DEF FileDispute, dealVars
  <1>6. ASSUME NEW w \in Worker,
               WriteResolved(w) \/ WriteInvestigating(w) \/ WriteClosed(w)
        PROVE  R!Next
    BY <1>6, DisputeSteps, JobUnlock
    DEF WriteResolved, WriteInvestigating, WriteClosed, WriteDispute, dealVars
  <1>7. ASSUME NEW w \in Worker, NEW u \in Unlock,
               Request(w, u) \/ RefundRead(w, u) \/ RefundRefused(w, u)
        PROVE  Still
    BY <1>7
    DEF Request, OpenUnlock, ReportDead, Confirm, AutoConfirm, Investigate,
        ResolveWithRefund, ResolveWithoutRefund, Close, Start, RefundRead,
        RefundRefused, RefundFails, dealVars
  <1>8. ASSUME NEW w \in Worker,
               \/ Charge(w) \/ Refuse(w) \/ InsertConfirmation(w)
               \/ RejectConfirmation(w) \/ ReadSettlement(w)
               \/ ClaimListing(w) \/ ListRivals(w) \/ Crash(w)
               \/ RefundAborted(w)
        PROVE  Still
    BY <1>8
    DEF Charge, Refuse, InsertConfirmation, RejectConfirmation, ReadSettlement,
        ClaimListing, ListRivals, Crash, RefundAborted, RefundFails, dealVars
  <1>9. ASSUME \/ \E u \in Unlock : SettleFee(u)
               \/ \E l \in Listing : SoftDelete(l) \/ AdminDelete(l)
               \/ UNCHANGED vars
        PROVE  Still
    BY <1>9 DEF SettleFee, SoftDelete, AdminDelete, Delete, vars, dealVars
  <1>10. QED
    BY <1>0, <1>1, <1>2, <1>3, <1>4, <1>5, <1>6, <1>7, <1>8, <1>9
    DEF Next, Step

\* What settlement, refunds and the payout do to an unlock's commission is
\* what CommissionRow allows, for any number of requests and crashes.
THEOREM CommissionRefines == Spec => ImplementsCommissionRow
  <1>1. Init => R!Init
    BY DEF Init, R!Init
  <1>2. LifecycleInv /\ [Next]_vars => [R!Next]_<<commission, Disputed>>
    BY CommissionSteps DEF LifecycleInv, Base
  <1>3. QED
    BY <1>1, <1>2, LifecycleInvariant, PTL
    DEF Spec, ImplementsCommissionRow, R!Spec, Disputed
=============================================================================
