--------------------------- MODULE SuccessFeeProofs ---------------------------
(***************************************************************************)
(* SuccessFee is type correct, takes no more than the fee from a mover and *)
(* promises and sends the poster between the share of the unlock credits   *)
(* and that of all that was collected.                                     *)
(***************************************************************************)
EXTENDS SuccessFee, TLAPS

\* The credits counted towards the fee of u.
Base(u) == Least(Spent[u], Due[u])

\* A fee is open with the unlock's credits, or settled with the rest in cash.
Row(u, f) ==
    /\ f.due = Due[u] /\ f.applied = Base(u)
    /\ \/ f.status = "PARTIAL" /\ f.cash = 0 /\ Base(u) < Due[u]
       \/ f.status = "SETTLED" /\ f.cash = Due[u] - Base(u)

Rows ==
    \A u \in Unlock :
        IF fee[u] = Null THEN taken[u] = 0
                         ELSE Row(u, fee[u]) /\ fee[u].cash = taken[u]

\* What a worker has read was a row of its unlock, with no more cash than has
\* been taken by now; a repeated settlement shares a row that only a refund
\* has deleted.
Snaps ==
    \A w \in Worker :
        /\ pc[w] # "idle" => job[w] \in Unlock
        /\ pc[w] \in {"share", "balance", "claim"} =>
             /\ snap[w] \in Fee
             /\ Row(job[w], snap[w])
             /\ snap[w].cash <= taken[job[w]]
        /\ pc[w] = "share" /\ fee[job[w]] = Null => job[w] \in refunded

\* An amount is one the poster may be paid, at a split that was once set.
Fair(u, a) ==
    \E s \in Split : /\ PosterShareKes(Base(u), s) <= a
                     /\ a <= PosterShareKes(Base(u) + taken[u], s)

Shares ==
    \A u \in Unlock :
        /\ commission[u] # Null =>
             Fair(u, commission[u].amount) /\ (fee[u] = Null => u \in refunded)
        /\ quote[u] # Null => Fair(u, quote[u])
        /\ sent[u] # Null => Fair(u, sent[u])

IInv == TypeOK /\ Rows /\ Snaps /\ Shares

-----------------------------------------------------------------------------
(* The arithmetic *)

\* More collected is never less for the poster, whatever the doubles round.
LEMMA ShareMonotone ==
    ASSUME NEW s \in Split, NEW a \in Nat, NEW b \in Nat, a <= b
    PROVE  /\ PosterShareKes(a, s) \in Nat
           /\ PosterShareKes(a, s) <= PosterShareKes(b, s)
  <1>1. s \in Nat
    BY FeeAssumption
  <1>2. s * a \in Nat /\ s * b \in Nat
    BY <1>1
  <1>3. PICK d \in Nat : b = a + d
    <2>1. b - a \in Nat /\ b = a + (b - a)
      OBVIOUS
    <2>2. QED
      BY <2>1
  <1>4. s * b = s * a + s * d /\ s * d \in Nat
    BY <1>1, <1>3
  <1>5. s * a <= s * b
    BY <1>2, <1>4
  <1>6. a # b => s * a < s * b \/ s * a = 0
    <2>1. CASE s = 0
      BY <2>1
    <2>2. CASE s > 0 /\ d > 0
      <3>1. s * d > 0
        BY <1>1, <2>2
      <3>2. QED
        BY <1>2, <1>4, <3>1
    <2>3. QED
      BY <1>1, <1>3, <2>1, <2>2
  <1>7. ASSUME NEW x \in Nat, NEW y \in Nat, x < y
        PROVE  /\ x \div 100 <= y \div 100
               /\ (x + 50) \div 100 <= (y + 50) \div 100
               /\ x \div 100 <= (x + 50) \div 100
               /\ y % 100 = 50 => (x + 50) \div 100 <= y \div 100
    BY <1>7
  <1>8. CASE s * a < s * b
    <2>1. \A x \in Nat : \A y \in Nat : x < y =>
            /\ x \div 100 <= y \div 100
            /\ (x + 50) \div 100 <= (y + 50) \div 100
            /\ x \div 100 <= (x + 50) \div 100
            /\ y % 100 = 50 => (x + 50) \div 100 <= y \div 100
      BY <1>7
    <2> DEFINE p == s * a
               q == s * b
    <2>2. p \in Nat /\ q \in Nat /\ p < q
      BY <1>2, <1>8
    <2>3. /\ PosterShareKes(a, s) \in {p \div 100, (p + 50) \div 100}
          /\ \/ PosterShareKes(b, s) = (q + 50) \div 100
             \/ q % 100 = 50 /\ PosterShareKes(b, s) = q \div 100
      BY DEF PosterShareKes
    <2> HIDE DEF p, q
    <2>4. /\ p \div 100 <= q \div 100
          /\ (p + 50) \div 100 <= (q + 50) \div 100
          /\ p \div 100 <= (p + 50) \div 100
          /\ q % 100 = 50 => (p + 50) \div 100 <= q \div 100
      BY <2>1, <2>2
    <2>5. /\ p \div 100 \in Nat /\ (p + 50) \div 100 \in Nat
          /\ q \div 100 \in Nat /\ (q + 50) \div 100 \in Nat
      BY <2>2
    <2>6. QED
      BY <2>3, <2>4, <2>5
  <1>9. CASE s * a = s * b
    <2>1. CASE a = b
      <3>1. PosterShareKes(a, s) \in {(s * a) \div 100, (s * a + 50) \div 100}
        BY DEF PosterShareKes
      <3>2. (s * a) \div 100 \in Nat /\ (s * a + 50) \div 100 \in Nat
        BY <1>2
      <3>3. QED
        BY <2>1, <3>1, <3>2
    <2>2. CASE a # b
      <3>1. s * a = 0 /\ s * b = 0
        BY <1>2, <1>6, <1>9, <2>2
      <3>2. PosterShareKes(a, s) = 0 /\ PosterShareKes(b, s) = 0
        BY <3>1 DEF PosterShareKes
      <3>3. QED
        BY <3>2
    <2>3. QED
      BY <2>1, <2>2
  <1>10. QED
    BY <1>2, <1>5, <1>8, <1>9

LEMMA BaseBounds ==
    ASSUME NEW u \in Unlock
    PROVE  Due[u] \in Nat /\ Base(u) \in Nat /\ Base(u) <= Due[u]
  BY FeeAssumption DEF Base, Least

\* The share of a row with no more cash than was taken is one the poster may
\* be paid.
LEMMA RowIsFair ==
    ASSUME NEW u \in Unlock, NEW f \in Fee, Row(u, f),
           NEW t \in Nat, f.cash <= t, NEW s \in Split
    PROVE  /\ PosterShareOfCollected(f, s) \in Nat
           /\ PosterShareKes(Base(u), s) <= PosterShareOfCollected(f, s)
           /\ PosterShareOfCollected(f, s) <= PosterShareKes(Base(u) + t, s)
  <1>1. /\ f.cash \in Nat /\ Base(u) \in Nat
        /\ Due[u] \in Nat /\ Base(u) <= Due[u]
    BY BaseBounds DEF Fee
  <1>2. /\ Collected(f) = Base(u) + f.cash /\ Collected(f) <= f.due
    BY <1>1 DEF Collected, Row
  <1>3. Least(Collected(f), f.due) = Base(u) + f.cash
    BY <1>2 DEF Least
  <1>4. /\ Base(u) + f.cash \in Nat /\ Base(u) + t \in Nat
        /\ Base(u) <= Base(u) + f.cash
        /\ Base(u) + f.cash <= Base(u) + t
    BY <1>1
  <1>5. QED
    BY <1>1, <1>3, <1>4, ShareMonotone DEF PosterShareOfCollected

\* More taken allows the poster more.
LEMMA FairGrows ==
    ASSUME NEW u \in Unlock, NEW a \in Nat, Fair(u, a),
           taken[u] \in Nat, taken'[u] \in Nat, taken[u] <= taken'[u]
    PROVE  Fair(u, a)'
  <1>1. /\ Base(u) + taken[u] \in Nat /\ Base(u) + taken'[u] \in Nat
        /\ Base(u) + taken[u] <= Base(u) + taken'[u]
    BY BaseBounds
  <1>2. PICK s \in Split : /\ PosterShareKes(Base(u), s) <= a
                            /\ a <= PosterShareKes(Base(u) + taken[u], s)
    BY DEF Fair
  <1>3. /\ PosterShareKes(Base(u) + taken[u], s) \in Nat
        /\ PosterShareKes(Base(u) + taken'[u], s) \in Nat
        /\ PosterShareKes(Base(u) + taken[u], s)
             <= PosterShareKes(Base(u) + taken'[u], s)
    BY <1>1, ShareMonotone
  <1>4. a <= PosterShareKes(Base(u) + taken'[u], s)
    BY <1>2, <1>3
  <1>5. QED
    BY <1>2, <1>4 DEF Fair

\* A commission keeps its shape when one of its figures changes.
LEMMA CommissionParts ==
    ASSUME NEW c \in Commission, NEW a \in Nat,
           NEW s \in {"PENDING", "PROCESSING", "PAID", "CANCELLED"}
    PROVE  /\ [c EXCEPT !.status = s] \in Commission
           /\ [c EXCEPT !.status = s].amount = c.amount
           /\ [c EXCEPT !.amount = a] \in Commission
           /\ [c EXCEPT !.amount = a].amount = a
  BY DEF Commission

\* The commission's upsert leaves a fair amount.
LEMMA SharedIsFair ==
    ASSUME TypeOK, NEW u \in Unlock, NEW f \in Fee, Row(u, f),
           f.cash <= taken[u], NEW s \in Split
    PROVE  /\ Shared(u, f, s) \in [Unlock -> Commission \cup {Null}]
           /\ \A v \in Unlock \ {u} : Shared(u, f, s)[v] = commission[v]
           /\ Shared(u, f, s)[u] \in Commission
           /\ Fair(u, Shared(u, f, s)[u].amount)
  <1> DEFINE a == PosterShareOfCollected(f, s)
  <1>1. a \in Nat /\ Fair(u, a)
    BY RowIsFair DEF TypeOK, Fair
  <1> HIDE DEF a
  <1>2. CASE commission[u] = Null
    <2>1. Shared(u, f, s) = [commission EXCEPT ![u] = [status |-> "PENDING",
                                                    amount |-> a]]
      BY <1>2 DEF Shared, a
    <2>2. /\ [status |-> "PENDING", amount |-> a] \in Commission
          /\ [status |-> "PENDING", amount |-> a].amount = a
      BY <1>1 DEF Commission
    <2>3. QED
      BY <1>1, <2>1, <2>2 DEF TypeOK
  <1>3. CASE commission[u] # Null
    <2>1. Shared(u, f, s) = [commission EXCEPT ![u] =
                            [commission[u] EXCEPT !.amount = a]]
      BY <1>3 DEF Shared, a
    <2>2. commission[u] \in Commission
      BY <1>3 DEF TypeOK
    <2>3. /\ [commission[u] EXCEPT !.amount = a] \in Commission
          /\ [commission[u] EXCEPT !.amount = a].amount = a
      BY <1>1, <2>2, CommissionParts
    <2>4. QED
      BY <1>1, <2>1, <2>3 DEF TypeOK
  <1>4. QED
    BY <1>2, <1>3

\* A fee starts with the unlock's credits and no cash.
LEMMA NewFeeIsRow ==
    ASSUME TypeOK, NEW u \in Unlock
    PROVE  NewFee(u) \in Fee /\ Row(u, NewFee(u)) /\ NewFee(u).cash = 0
  <1>1. NewFee(u) = [id |-> rows + 1, due |-> Due[u], applied |-> Base(u),
                     cash |-> 0,
                     status |-> IF Base(u) = Due[u] THEN "SETTLED"
                                                    ELSE "PARTIAL"]
    BY DEF NewFee, Base
  <1>2. rows + 1 \in Nat
    BY DEF TypeOK
  <1>3. QED
    BY <1>1, <1>2, BaseBounds DEF Fee, Row

LEMMA InitInv == Init => IInv
  BY FeeAssumption DEF Init, IInv, TypeOK, Rows, Snaps, Shares

-----------------------------------------------------------------------------
(* One lemma per action *)

LEMMA ReadUnlockInv ==
    ASSUME IInv, NEW w \in Worker, NEW u \in Unlock, ReadUnlock(w, u)
    PROVE  IInv'
  <1> USE FeeAssumption, RowAssumption
      DEF IInv, feeVars, payVars, wrkVars, ReadUnlock, Start
  <1>1. TypeOK'
    BY DEF TypeOK, Snaps
  <1>2. Rows'
    BY DEF Rows, Row, TypeOK, Snaps
  <1>3. Snaps'
    BY DEF Snaps, Rows, Row, TypeOK
  <1>4. Shares'
    BY DEF Shares, Fair, Snaps, Rows, TypeOK
  <1>5. QED
    BY <1>1, <1>2, <1>3, <1>4

LEMMA CreateFeeInv ==
    ASSUME IInv, NEW w \in Worker, CreateFee(w)
    PROVE  IInv'
  <1> USE FeeAssumption, RowAssumption
      DEF IInv, feeVars, payVars, wrkVars, CreateFee, Shared, Return
  <1>1. PICK s \in Split :
          /\ job[w] \in Unlock /\ pc[w] = "ensure" /\ fee[job[w]] = Null
          /\ fee' = [fee EXCEPT ![job[w]] = NewFee(job[w])]
          /\ commission' = Shared(job[w], NewFee(job[w]), s)
          /\ rows' = rows + 1
          /\ UNCHANGED <<taken, refunded, quote, sent, balance, refunds>>
    BY DEF Snaps
  <1>2. /\ pc' = [pc EXCEPT ![w] = "idle"]
        /\ job' = [job EXCEPT ![w] = Null]
        /\ snap' = [snap EXCEPT ![w] = Null]
    OBVIOUS
  <1> HIDE DEF CreateFee, Shared, Return
  <1>3. /\ NewFee(job[w]) \in Fee /\ Row(job[w], NewFee(job[w]))
        /\ NewFee(job[w]).cash = 0 /\ taken[job[w]] = 0
    BY <1>1, NewFeeIsRow DEF Rows
  <1>4. /\ commission' \in [Unlock -> Commission \cup {Null}]
        /\ \A v \in Unlock \ {job[w]} : commission'[v] = commission[v]
        /\ Fair(job[w], Shared(job[w], NewFee(job[w]), s)[job[w]].amount)
    BY <1>1, <1>3, SharedIsFair
  <1>5. /\ fee' \in [Unlock -> Fee \cup {Null}]
        /\ \A v \in Unlock \ {job[w]} : fee'[v] = fee[v]
        /\ fee'[job[w]] = NewFee(job[w]) /\ fee'[job[w]] # Null
    BY <1>1, <1>3 DEF TypeOK
  <1>6. TypeOK'
    BY <1>1, <1>2, <1>4, <1>5 DEF TypeOK
  <1>7. Rows'
    BY <1>1, <1>3, <1>5 DEF Rows
  <1>8. Snaps'
    BY <1>1, <1>2, <1>5 DEF Snaps, TypeOK
  <1>9. Shares'
    BY <1>1, <1>4, <1>5 DEF Shares, Fair
  <1>10. QED
    BY <1>6, <1>7, <1>8, <1>9

LEMMA FindFeeInv ==
    ASSUME IInv, NEW w \in Worker, FindFee(w)
    PROVE  IInv'
  <1> USE FeeAssumption, RowAssumption
      DEF IInv, feeVars, payVars, wrkVars, FindFee, Goto
  <1>1. TypeOK'
    BY DEF TypeOK, Snaps
  <1>2. Rows'
    BY DEF Rows, Row, TypeOK, Snaps
  <1>3. Snaps'
    BY DEF Snaps, Rows, Row, TypeOK
  <1>4. Shares'
    BY DEF Shares, Fair, Snaps, Rows, TypeOK
  <1>5. QED
    BY <1>1, <1>2, <1>3, <1>4

LEMMA ShareCommissionInv ==
    ASSUME IInv, NEW w \in Worker, ShareCommission(w)
    PROVE  IInv'
  <1> USE FeeAssumption, RowAssumption
      DEF IInv, feeVars, payVars, wrkVars, ShareCommission, Shared, Return
  <1>1. TypeOK'
    <2>1. commission' \in [Unlock -> Commission \cup {Null}]
      <3>1. PICK s \in Split :
              /\ job[w] \in Unlock /\ snap[w] \in Fee
              /\ Row(job[w], snap[w]) /\ snap[w].cash <= taken[job[w]]
              /\ commission' = Shared(job[w], snap[w], s)
        BY DEF Snaps, Shared
      <3> HIDE DEF Shared
      <3>2. QED
        BY <3>1, SharedIsFair
    <2>2. /\ pc' \in [Worker -> {"idle", "ensure", "share", "balance", "claim"}]
          /\ job' \in [Worker -> Unlock \cup {Null}]
          /\ snap' \in [Worker -> Fee \cup {Null}]
      BY DEF TypeOK
    <2>3. QED
      BY <2>1, <2>2 DEF TypeOK
  <1>2. Rows'
    BY DEF Rows, Row, TypeOK, Snaps
  <1>3. Snaps'
    BY DEF Snaps, Rows, Row, TypeOK
  <1>4. Shares'
    <2>1. PICK s \in Split :
            /\ job[w] \in Unlock /\ snap[w] \in Fee
            /\ Row(job[w], snap[w]) /\ snap[w].cash <= taken[job[w]]
            /\ commission' = Shared(job[w], snap[w], s)
            /\ fee[job[w]] = Null => job[w] \in refunded
            /\ UNCHANGED <<taken, fee, refunded, quote, sent>>
      BY DEF Snaps, Shared
    <2> HIDE DEF Shared, ShareCommission, Return
    <2>2. /\ \A v \in Unlock \ {job[w]} : commission'[v] = commission[v]
          /\ Fair(job[w], Shared(job[w], snap[w], s)[job[w]].amount)
      BY <2>1, SharedIsFair
    <2>3. QED
      BY <2>1, <2>2 DEF Shares, Fair
  <1>5. QED
    BY <1>1, <1>2, <1>3, <1>4

LEMMA ReadFeeInv ==
    ASSUME IInv, NEW w \in Worker, NEW u \in Unlock, ReadFee(w, u)
    PROVE  IInv'
  <1> USE FeeAssumption, RowAssumption
      DEF IInv, feeVars, payVars, wrkVars, ReadFee, Start
  <1>1. TypeOK'
    BY DEF TypeOK, Snaps
  <1>2. Rows'
    BY DEF Rows, Row, TypeOK, Snaps
  <1>3. Snaps'
    BY DEF Snaps, Rows, Row, TypeOK
  <1>4. Shares'
    BY DEF Shares, Fair, Snaps, Rows, TypeOK
  <1>5. QED
    BY <1>1, <1>2, <1>3, <1>4

LEMMA CheckBalanceInv ==
    ASSUME IInv, NEW w \in Worker, CheckBalance(w)
    PROVE  IInv'
  <1> USE FeeAssumption, RowAssumption
      DEF IInv, feeVars, payVars, wrkVars, CheckBalance, Goto, Return
  <1>1. TypeOK'
    BY DEF TypeOK, Snaps
  <1>2. Rows'
    BY DEF Rows, Row, TypeOK, Snaps
  <1>3. Snaps'
    BY DEF Snaps, Rows, Row, TypeOK
  <1>4. Shares'
    BY DEF Shares, Fair, Snaps, Rows, TypeOK
  <1>5. QED
    BY <1>1, <1>2, <1>3, <1>4

LEMMA SettleFromCreditsInv ==
    ASSUME IInv, NEW w \in Worker, SettleFromCredits(w)
    PROVE  IInv'
  <1> USE FeeAssumption, RowAssumption
      DEF IInv, feeVars, payVars, wrkVars, SettleFromCredits, Return
  <1> DEFINE u == job[w]
             rest == Due[u] - Base(u)
             paid == [fee[u] EXCEPT !.cash = rest, !.status = "SETTLED"]
  <1>1. /\ u \in Unlock /\ fee[u] # Null /\ fee[u] \in Fee
        /\ Row(u, fee[u]) /\ Row(u, snap[w]) /\ snap[w] \in Fee
        /\ fee[u].cash = taken[u] /\ fee[u].status # "SETTLED"
        /\ fee[u].cash = snap[w].cash
    BY DEF Snaps, Rows, TypeOK, ClaimMatches
  <1>2. /\ Due[u] \in Nat /\ Base(u) \in Nat /\ Base(u) < Due[u]
        /\ rest \in Nat /\ rest > 0
        /\ fee[u].cash = 0 /\ taken[u] = 0
    BY <1>1, BaseBounds DEF Row
  <1>3. RemainingFeeKes(snap[w]) = rest
    BY <1>1, <1>2 DEF RemainingFeeKes, Collected, Row
  <1>4. [fee[u] EXCEPT !.cash = fee[u].cash + RemainingFeeKes(snap[w]),
                       !.status = "SETTLED"] = paid
    <2>1. fee[u].cash + RemainingFeeKes(snap[w]) = rest
      BY <1>2, <1>3
    <2>2. QED
      BY <2>1
  <1>5. /\ paid \in Fee /\ paid # Null /\ Row(u, paid) /\ paid.cash = rest
    <2>1. /\ paid \in Fee /\ paid.due = fee[u].due /\ paid.cash = rest
          /\ paid.applied = fee[u].applied /\ paid.status = "SETTLED"
      BY <1>1, <1>2 DEF Fee
    <2>2. QED
      BY <1>1, <2>1 DEF Row
  <1>6. PICK s \in Split :
          /\ fee' = [fee EXCEPT ![u] = paid]
          /\ taken' = [taken EXCEPT ![u] = taken[u] + rest]
          /\ balance >= rest /\ balance' = balance - rest
          /\ commission' =
               [commission EXCEPT ![u] =
                  IF @ = Null THEN @
                  ELSE IF @.status \in {"PAID", "CANCELLED"} THEN @
                  ELSE [@ EXCEPT !.amount = PosterShareOfCollected(paid, s)]]
          /\ pc' = [pc EXCEPT ![w] = "idle"]
          /\ job' = [job EXCEPT ![w] = Null]
          /\ snap' = [snap EXCEPT ![w] = Null]
          /\ UNCHANGED <<rows, refunded, quote, sent, refunds>>
    BY <1>3, <1>4
  <1> HIDE DEF SettleFromCredits, Return, u, rest, paid
  <1>7. /\ taken' \in [Unlock -> Nat] /\ taken'[u] = rest
        /\ \A v \in Unlock \ {u} : taken'[v] = taken[v]
        /\ \A v \in Unlock : taken[v] <= taken'[v]
    BY <1>1, <1>2, <1>6 DEF TypeOK
  <1>8. /\ fee' \in [Unlock -> Fee \cup {Null}] /\ fee'[u] = paid
        /\ \A v \in Unlock \ {u} : fee'[v] = fee[v]
    BY <1>1, <1>5, <1>6 DEF TypeOK
  <1>9. /\ PosterShareOfCollected(paid, s) \in Nat
        /\ PosterShareKes(Base(u), s) <= PosterShareOfCollected(paid, s)
        /\ PosterShareOfCollected(paid, s) <= PosterShareKes(Base(u) + rest, s)
    BY <1>1, <1>2, <1>5, RowIsFair
  <1>10. /\ commission' \in [Unlock -> Commission \cup {Null}]
         /\ \A v \in Unlock \ {u} : commission'[v] = commission[v]
         /\ \/ commission'[u] = commission[u]
            \/ /\ commission[u] # Null
               /\ commission'[u].amount = PosterShareOfCollected(paid, s)
    <2>1. commission[u] # Null =>
            /\ [commission[u] EXCEPT !.amount = PosterShareOfCollected(paid, s)]
                 \in Commission
            /\ [commission[u] EXCEPT !.amount = PosterShareOfCollected(paid, s)]
                 .amount = PosterShareOfCollected(paid, s)
      <3>1. ASSUME NEW c \in Commission, NEW a \in Nat
            PROVE  /\ [c EXCEPT !.amount = a] \in Commission
                   /\ [c EXCEPT !.amount = a].amount = a
        BY CommissionParts
      <3>2. commission[u] \in Commission \cup {Null}
        BY <1>1 DEF TypeOK
      <3>3. QED
        BY <1>9, <3>1, <3>2
    <2>2. QED
      BY <1>1, <1>6, <2>1 DEF TypeOK
  <1>11. TypeOK'
    <2>1. balance' \in Nat
      BY <1>2, <1>6 DEF TypeOK
    <2>2. /\ pc' \in [Worker -> {"idle", "ensure", "share", "balance", "claim"}]
          /\ job' \in [Worker -> Unlock \cup {Null}]
          /\ snap' \in [Worker -> Fee \cup {Null}]
      BY <1>6 DEF TypeOK
    <2>3. QED
      BY <1>6, <1>7, <1>8, <1>10, <2>1, <2>2 DEF TypeOK
  <1>12. Rows'
    BY <1>5, <1>7, <1>8 DEF Rows
  <1>13. Snaps'
    <2>1. ASSUME NEW v \in Worker, v # w
          PROVE  /\ pc'[v] = pc[v] /\ job'[v] = job[v] /\ snap'[v] = snap[v]
      BY <1>6, <2>1 DEF TypeOK
    <2>2. pc'[w] = "idle"
      BY <1>6 DEF TypeOK
    <2>3. ASSUME NEW v \in Worker, v # w,
                 pc[v] \in {"share", "balance", "claim"}
          PROVE  snap[v].cash <= taken'[job[v]]
      <3>1. /\ job[v] \in Unlock /\ snap[v] \in Fee
            /\ snap[v].cash <= taken[job[v]]
        BY <2>3 DEF Snaps
      <3>2. /\ taken[job[v]] <= taken'[job[v]] /\ snap[v].cash \in Nat
            /\ taken[job[v]] \in Nat /\ taken'[job[v]] \in Nat
        BY <1>7, <3>1 DEF TypeOK, Fee
      <3>3. QED
        BY <3>1, <3>2
    <2>4. \A x \in Unlock : fee'[x] = Null => fee[x] = Null
      BY <1>5, <1>8
    <2>5. QED
      BY <1>6, <2>1, <2>2, <2>3, <2>4 DEF Snaps
  <1>14. Shares'
    <2>1. ASSUME NEW v \in Unlock, NEW a \in Nat, Fair(v, a)
          PROVE  Fair(v, a)'
      BY <1>7, <2>1, FairGrows DEF TypeOK
    <2>2. ASSUME NEW v \in Unlock, commission'[v] # Null
          PROVE  Fair(v, commission[v].amount)'
      <3>1. CASE commission'[v] = commission[v]
        <4>1. commission[v].amount \in Nat /\ Fair(v, commission[v].amount)
          BY <2>2, <3>1 DEF TypeOK, Commission, Shares
        <4>2. \A a \in Nat : Fair(v, a) => Fair(v, a)'
          BY <2>1
        <4>3. QED
          BY <3>1, <4>1, <4>2 DEF Fair
      <3>2. CASE commission'[v] # commission[v]
        BY <1>7, <1>9, <1>10, <3>2 DEF Fair
      <3>3. QED
        BY <3>1, <3>2
    <2>3. ASSUME NEW v \in Unlock
          PROVE  /\ quote'[v] # Null => Fair(v, quote[v])'
                 /\ sent'[v] # Null => Fair(v, sent[v])'
      <3>1. /\ quote[v] # Null => quote[v] \in Nat /\ Fair(v, quote[v])
            /\ sent[v] # Null => sent[v] \in Nat /\ Fair(v, sent[v])
        BY DEF TypeOK, Shares
      <3>2. \A a \in Nat : Fair(v, a) => Fair(v, a)'
        BY <2>1
      <3>3. QED
        BY <1>6, <3>1, <3>2 DEF Fair
    <2>4. ASSUME NEW v \in Unlock, commission'[v] # Null, fee'[v] = Null
          PROVE  v \in refunded'
      BY <1>5, <1>6, <1>8, <1>10, <2>4 DEF Shares
    <2>5. QED
      BY <2>2, <2>3, <2>4 DEF Shares
  <1>15. QED
    BY <1>11, <1>12, <1>13, <1>14

LEMMA LoseClaimInv ==
    ASSUME IInv, NEW w \in Worker, LoseClaim(w)
    PROVE  IInv'
  <1> USE FeeAssumption, RowAssumption
      DEF IInv, feeVars, payVars, wrkVars, LoseClaim, Return
  <1>1. TypeOK'
    BY DEF TypeOK, Snaps
  <1>2. Rows'
    BY DEF Rows, Row, TypeOK, Snaps
  <1>3. Snaps'
    BY DEF Snaps, Rows, Row, TypeOK
  <1>4. Shares'
    BY DEF Shares, Fair, Snaps, Rows, TypeOK
  <1>5. QED
    BY <1>1, <1>2, <1>3, <1>4

LEMMA SpendElsewhereInv ==
    ASSUME IInv, SpendElsewhere
    PROVE  IInv'
  <1> USE FeeAssumption, RowAssumption
      DEF IInv, feeVars, payVars, wrkVars, SpendElsewhere
  <1>1. TypeOK'
    BY DEF TypeOK, Snaps
  <1>2. Rows'
    BY DEF Rows, Row, TypeOK, Snaps
  <1>3. Snaps'
    BY DEF Snaps, Rows, Row, TypeOK
  <1>4. Shares'
    BY DEF Shares, Fair, Snaps, Rows, TypeOK
  <1>5. QED
    BY <1>1, <1>2, <1>3, <1>4

LEMMA ListForPayoutInv ==
    ASSUME IInv, NEW u \in Unlock, ListForPayout(u)
    PROVE  IInv'
  <1> USE FeeAssumption, RowAssumption
      DEF IInv, feeVars, payVars, wrkVars, ListForPayout, HasStatus
  <1>1. TypeOK'
    <2>1. commission[u] \in Commission
      BY DEF TypeOK
    <2>2. commission[u].amount \in Nat
      BY <2>1 DEF Commission
    <2>3. QED
      BY <2>2 DEF TypeOK
  <1>2. Rows'
    BY DEF Rows, Row, TypeOK, Snaps
  <1>3. Snaps'
    BY DEF Snaps, Rows, Row, TypeOK
  <1>4. Shares'
    BY DEF Shares, Fair, Snaps, Rows, TypeOK
  <1>5. QED
    BY <1>1, <1>2, <1>3, <1>4

LEMMA SendPayoutInv ==
    ASSUME IInv, NEW u \in Unlock, SendPayout(u)
    PROVE  IInv'
  <1> USE FeeAssumption, RowAssumption
      DEF IInv, feeVars, payVars, wrkVars, SendPayout, HasStatus, SetStatus
  <1>1. TypeOK'
    <2>1. commission[u] \in Commission /\ quote[u] \in Nat
      BY DEF TypeOK
    <2>2. [commission[u] EXCEPT !.status = "PROCESSING"] \in Commission
      BY <2>1 DEF Commission
    <2>3. commission' = [commission EXCEPT ![u] =
                           [commission[u] EXCEPT !.status = "PROCESSING"]]
      OBVIOUS
    <2>4. QED
      BY <2>1, <2>2, <2>3 DEF TypeOK
  <1>2. Rows'
    BY DEF Rows, Row, TypeOK, Snaps
  <1>3. Snaps'
    BY DEF Snaps, Rows, Row, TypeOK
  <1>4. Shares'
    BY DEF Shares, Fair, Snaps, Rows, TypeOK
  <1>5. QED
    BY <1>1, <1>2, <1>3, <1>4

LEMMA SettlePayoutInv ==
    ASSUME IInv, NEW u \in Unlock, SettlePayout(u)
    PROVE  IInv'
  <1> USE FeeAssumption, RowAssumption
      DEF IInv, feeVars, payVars, wrkVars, SettlePayout, HasStatus, SetStatus
  <1>1. TypeOK'
    <2>1. commission[u] \in Commission
      BY DEF TypeOK
    <2>2. \A s \in {"PAID", "PENDING"} :
            [commission[u] EXCEPT !.status = s] \in Commission
      BY <2>1 DEF Commission
    <2>3. \E s \in {"PAID", "PENDING"} :
            commission' = [commission EXCEPT ![u] =
                             [commission[u] EXCEPT !.status = s]]
      OBVIOUS
    <2>4. commission' \in [Unlock -> Commission \cup {Null}]
      BY <2>2, <2>3 DEF TypeOK
    <2>5. /\ quote' \in [Unlock -> Nat \cup {Null}]
          /\ sent' \in [Unlock -> Nat \cup {Null}]
      BY DEF TypeOK
    <2>6. QED
      BY <2>4, <2>5 DEF TypeOK
  <1>2. Rows'
    BY DEF Rows, Row, TypeOK, Snaps
  <1>3. Snaps'
    BY DEF Snaps, Rows, Row, TypeOK
  <1>4. Shares'
    <2>1. commission[u] \in Commission
      BY DEF TypeOK
    <2>2. \A s \in {"PAID", "PENDING"} :
            [commission[u] EXCEPT !.status = s].amount = commission[u].amount
      BY <2>1 DEF Commission
    <2>3. \E s \in {"PAID", "PENDING"} :
            commission' = [commission EXCEPT ![u] =
                             [commission[u] EXCEPT !.status = s]]
      OBVIOUS
    <2>4. \A v \in Unlock : commission'[v] # Null =>
            commission[v] # Null /\ commission'[v].amount = commission[v].amount
      BY <2>1, <2>2, <2>3 DEF TypeOK
    <2>5. \A v \in Unlock : quote'[v] \in {quote[v], Null}
                             /\ sent'[v] \in {sent[v], Null}
      BY DEF TypeOK
    <2>6. UNCHANGED <<fee, taken, refunded>>
      OBVIOUS
    <2>7. QED
      BY <2>4, <2>5, <2>6 DEF Shares, Fair
  <1>5. QED
    BY <1>1, <1>2, <1>3, <1>4

LEMMA RefundUnlockInv ==
    ASSUME IInv, NEW u \in Unlock, RefundUnlock(u)
    PROVE  IInv'
  <1> USE FeeAssumption, RowAssumption
      DEF IInv, feeVars, payVars, wrkVars, RefundUnlock, HasStatus
  <1>1. TypeOK'
    <2>1. fee' \in [Unlock -> Fee \cup {Null}]
      BY DEF TypeOK
    <2>2. commission' \in [Unlock -> Commission \cup {Null}]
      <3>1. CASE commission[u] = Null
        BY <3>1 DEF TypeOK
      <3>2. CASE commission[u] # Null
        <4>1. commission[u] \in Commission
          BY <3>2 DEF TypeOK
        <4>2. [commission[u] EXCEPT !.status = "CANCELLED"] \in Commission
          BY <4>1 DEF Commission
        <4>3. QED
          BY <3>2, <4>2 DEF TypeOK
      <3>3. QED
        BY <3>1, <3>2
    <2>3. balance' \in Nat /\ refunds' \in 0..MaxRefunds
      <3>1. balance' = balance + Spent[u] /\ refunds' = refunds + 1
        OBVIOUS
      <3>2. refunds < MaxRefunds
        OBVIOUS
      <3> HIDE DEF RefundUnlock
      <3>3. QED
        BY <3>1, <3>2 DEF TypeOK
    <2>4. QED
      BY <2>1, <2>2, <2>3 DEF TypeOK
  <1>2. Rows'
    BY DEF Rows, Row, TypeOK, Snaps
  <1>3. Snaps'
    BY DEF Snaps, Rows, Row, TypeOK
  <1>4. Shares'
    BY DEF Shares, Fair, Snaps, Rows, TypeOK
  <1>5. QED
    BY <1>1, <1>2, <1>3, <1>4

LEMMA StutterInv ==
    ASSUME IInv, UNCHANGED vars
    PROVE  IInv'
  BY DEF vars, IInv, TypeOK, Rows, Row, Snaps, Shares, Fair

LEMMA NextInv == IInv /\ [Next]_vars => IInv'
  BY ReadUnlockInv, CreateFeeInv, FindFeeInv, ShareCommissionInv, ReadFeeInv,
     CheckBalanceInv, SettleFromCreditsInv, LoseClaimInv, SpendElsewhereInv,
     ListForPayoutInv, SendPayoutInv, SettlePayoutInv, RefundUnlockInv,
     StutterInv
  DEF Next

LEMMA Inductive == Spec => []IInv
  BY InitInv, NextInv, PTL DEF Spec

-----------------------------------------------------------------------------
(* What follows *)

\* Type correctness of fees, commissions and the workers on them.
THEOREM TypeCorrect == Spec => []TypeOK
  <1>1. IInv => TypeOK
    BY DEF IInv
  <1>2. QED
    BY <1>1, Inductive, PTL

\* A mover is never charged more than his fee, whatever settlements, refunds
\* and rows made again interleave.
THEOREM NotOvercharged == Spec => []NeverOvercharged
  <1>1. IInv => NeverOvercharged
    BY FeeAssumption, BaseBounds
    DEF IInv, Rows, Row, NeverOvercharged, Collected
  <1>2. QED
    BY <1>1, Inductive, PTL

\* The poster is promised and sent no more than his share of the collected.
THEOREM WithinShare == Spec => []PosterWithinShare
  <1>1. IInv => PosterWithinShare
    BY DEF IInv, Shares, Fair, PosterWithinShare, Funds, Base
  <1>2. QED
    BY <1>1, Inductive, PTL

\* Nor less than the share of the credits that the unlock had cost.
THEOREM KeepsBase == Spec => []PosterKeepsBase
  <1>1. ASSUME IInv, NEW u \in Unlock
        PROVE  /\ commission[u] # Null =>
                    /\ \E s \in Split :
                         commission[u].amount >= PosterShareKes(Base(u), s)
                    /\ fee[u] = Null => u \in refunded
               /\ sent[u] # Null =>
                    \E s \in Split : sent[u] >= PosterShareKes(Base(u), s)
    <2>1. \A s \in Split : PosterShareKes(Base(u), s) \in Nat
      BY BaseBounds, ShareMonotone
    <2>2. QED
      BY <1>1, <2>1 DEF IInv, TypeOK, Commission, Shares, Fair
  <1>2. IInv => PosterKeepsBase
    BY <1>1 DEF PosterKeepsBase, Base
  <1>3. QED
    BY <1>2, Inductive, PTL
=============================================================================
