----------------------- MODULE CommissionPayoutProofs -----------------------
(* Theorems about CommissionPayout for any numbers of commissions, of      *)
(* operators' requests and of crashes: the typing, then the safety of a    *)
(* payout from inductive invariants about the conversation id, the results *)
(* and the disputes.                                                       *)
EXTENDS CommissionPayout, TLAPS

-----------------------------------------------------------------------------
(* Typing *)

\* A worker at a label that works on a commission has a snapshot of one.
HoldsCandidate ==
    \A w \in Worker : pc[w] \in Holding => cand[w] \in Candidate

TypeInv == TypeOK /\ HoldsCandidate

\* The next attempt is a recorded number of attempts.
LEMMA NextAttemptType ==
    ASSUME NEW n \in 0..MaxAttempts
    PROVE  NextAttempt(n) \in 0..MaxAttempts
  BY PayoutAssumption DEF NextAttempt

\* A snapshot of a row is a candidate.
LEMMA SnapshotType ==
    ASSUME TypeOK, NEW c \in Commission
    PROVE  Snapshot(c) \in Candidate
  BY DEF TypeOK, Snapshot, Candidate, Row

\* What a step makes of the rows it sweeps over or writes is a table again.
LEMMA RowSweep ==
    ASSUME row \in [Commission -> Row], NEW D \in SUBSET Commission
    PROVE  /\ [c \in Commission |->
                 IF c \in D THEN [row[c] EXCEPT !.status = "DUE"] ELSE row[c]]
                \in [Commission -> Row]
           /\ [c \in Commission |->
                 IF c \in D THEN [row[c] EXCEPT !.status = "DUE",
                                                !.note = "other"]
                            ELSE row[c]]
                \in [Commission -> Row]
           /\ [c \in Commission |->
                 IF c \in D THEN [row[c] EXCEPT !.note = "overdue"]
                            ELSE row[c]]
                \in [Commission -> Row]
  BY DEF Row, Status, Note

LEMMA InitType == Init => TypeInv
  BY PayoutAssumption
  DEF Init, TypeInv, TypeOK, HoldsCandidate, Row, Note, Status, Conv, NoConv,
      Worker, Label, Holding, Message, Prelude

LEMMA JobRowType ==
    ASSUME TypeInv, JobStep
    PROVE  row' \in [Commission -> Row]
  <1>t. row \in [Commission -> Row]
    BY DEF TypeInv, TypeOK
  <1>1. CASE RecoverStaleUnsent
    <2> DEFINE D == {c \in Commission : /\ row[c].status = "PROCESSING"
                                        /\ ~row[c].submitted
                                        /\ aged[c]}
    <2>1. row' = [c \in Commission |->
                    IF c \in D THEN [row[c] EXCEPT !.status = "DUE",
                                                   !.note = "other"]
                               ELSE row[c]]
      BY <1>1 DEF RecoverStaleUnsent
    <2>2. D \in SUBSET Commission
      OBVIOUS
    <2> HIDE DEF D
    <2>3. QED
      BY <1>t, <2>1, <2>2, RowSweep
  <1>2. CASE PromoteEligible
    <2>1. PICK ripe \in SUBSET Commission :
            row' = [c \in Commission |->
                      IF c \in ripe THEN [row[c] EXCEPT !.status = "DUE"]
                                    ELSE row[c]]
      BY <1>2 DEF PromoteEligible
    <2>2. QED
      BY <1>t, <2>1, RowSweep
  <1>3. CASE FlagOverdue
    <2> DEFINE D == {c \in Commission :
                       Overdue(c) /\ SqlDiffers(row[c].note, "overdue")}
    <2>1. row' = [c \in Commission |->
                    IF c \in D THEN [row[c] EXCEPT !.note = "overdue"]
                               ELSE row[c]]
      BY <1>3 DEF FlagOverdue
    <2>2. D \in SUBSET Commission
      OBVIOUS
    <2> HIDE DEF D
    <2>3. QED
      BY <1>t, <2>1, <2>2, RowSweep
  <1>4. CASE row' = row
    BY <1>t, <1>4
  <1>5. QED
    BY <1>1, <1>2, <1>3, <1>4
    DEF JobStep, StartRun, ListDue, TakeNext, EndRun, rowVars

LEMMA JobType ==
    ASSUME TypeInv, JobStep
    PROVE  TypeInv'
  <1> USE JobRowType DEF TypeInv, TypeOK, HoldsCandidate, Worker, rowVars,
          envVars, dspVars, safVars, jobVars, wrkVars, Goto
  <1>1. CASE StartRun
    BY <1>1 DEF StartRun, Label, Holding
  <1>2. CASE RecoverStaleUnsent
    BY <1>2 DEF RecoverStaleUnsent
  <1>3. CASE PromoteEligible
    BY <1>3 DEF PromoteEligible
  <1>4. CASE FlagOverdue
    BY <1>4 DEF FlagOverdue
  <1>5. CASE ListDue
    BY <1>5, SnapshotType DEF ListDue, Label, Holding
  <1>6. CASE TakeNext
    BY <1>6 DEF TakeNext, Label, Holding
  <1>7. CASE EndRun
    BY <1>7 DEF EndRun, Label, Holding
  <1>8. QED
    BY <1>1, <1>2, <1>3, <1>4, <1>5, <1>6, <1>7 DEF JobStep

\* The worker of a step on a payout holds a candidate.
LEMMA StepCandidate ==
    ASSUME TypeInv, NEW w \in Worker, RetryFlip(w) \/ ProcessStep(w)
    PROVE  /\ cand[w] \in Candidate
           /\ cand[w].c \in Commission
           /\ cand[w].orig \in {NoConv} \cup Conv
           /\ cand[w].attempts \in 0..MaxAttempts
           /\ NextAttempt(cand[w].attempts) \in 0..MaxAttempts
  <1>1. pc[w] \in Holding
    BY DEF RetryFlip, ProcessStep, ClaimDue, ReadDispute, ReleaseForDispute,
           EnsureConversation, ConfirmBeforeSend, Send, RecordSubmission,
           ConfirmAfterSend, MarkPaid, RecordFails, MarkDeadLettered,
           RecordDuplicate, RecordSendFailure, Holding
  <1>2. cand[w] \in Candidate
    BY <1>1 DEF TypeInv, HoldsCandidate
  <1>3. QED
    BY <1>2, NextAttemptType DEF Candidate

\* What recordSubmission writes is a row.
LEMMA SubmissionType ==
    ASSUME row \in [Commission -> Row], NEW c \in Commission,
           NEW n \in 0..MaxAttempts, NEW s \in BOOLEAN,
           row' = [row EXCEPT ![c].submitted = s, ![c].note = "null",
                              ![c].attempts = n]
    PROVE  row' \in [Commission -> Row]
  <1> DEFINE r == [row[c] EXCEPT !.submitted = s, !.note = "null",
                                 !.attempts = n]
  <1>1. r \in Row
    BY DEF Row, Note
  <1>2. row' = [row EXCEPT ![c] = r]
    OBVIOUS
  <1> HIDE DEF r
  <1>3. QED
    BY <1>1, <1>2

\* What a dead letter or a retry writes is a row.
LEMMA FailureType ==
    ASSUME row \in [Commission -> Row], NEW c \in Commission,
           NEW n \in 0..MaxAttempts, NEW s \in Status,
           row' = [row EXCEPT ![c].status = s, ![c].attempts = n,
                              ![c].note = "other"]
    PROVE  row' \in [Commission -> Row]
  <1> DEFINE r == [row[c] EXCEPT !.status = s, !.attempts = n,
                                 !.note = "other"]
  <1>1. r \in Row
    BY DEF Row, Note
  <1>2. row' = [row EXCEPT ![c] = r]
    OBVIOUS
  <1> HIDE DEF r
  <1>3. QED
    BY <1>1, <1>2

\* recordSubmission's write.
LEMMA SubmissionWrite ==
    ASSUME TypeInv, NEW w \in Worker, RecordSubmission(w)
    PROVE  \/ row' = row
           \/ /\ row[cand[w].c].status = "PROCESSING"
              /\ cand[w].c \in Commission
              /\ \E n \in 0..MaxAttempts, s \in BOOLEAN :
                   row' = [row EXCEPT ![cand[w].c].submitted = s,
                                      ![cand[w].c].note = "null",
                                      ![cand[w].c].attempts = n]
  <1>1. /\ cand[w].c \in Commission
        /\ NextAttempt(cand[w].attempts) \in 0..MaxAttempts
    BY StepCandidate DEF ProcessStep
  <1>2. ASSUME NEW named \in BOOLEAN
        PROVE  (row[cand[w].c].submitted \/ named) \in BOOLEAN
    OBVIOUS
  <1>3. QED
    BY <1>1, <1>2 DEF RecordSubmission, Claims, rowVars

LEMMA StepRow ==
    ASSUME TypeInv, NEW w \in Worker, RetryFlip(w) \/ ProcessStep(w)
    PROVE  row' \in [Commission -> Row]
  <1>c. /\ row \in [Commission -> Row]
        /\ cand[w].c \in Commission
        /\ cand[w].attempts \in 0..MaxAttempts
        /\ NextAttempt(cand[w].attempts) \in 0..MaxAttempts
        /\ issued \in [Commission -> 0..MaxConv]
    BY StepCandidate DEF TypeInv, TypeOK
  <1> DEFINE c == cand[w].c
  <1>0. CASE UNCHANGED row
    BY <1>0, <1>c
  <1>1. CASE RetryFlip(w)
    <2>1. \/ row' = row
          \/ row' = [row EXCEPT ![c].status = "DUE", ![c].note = "null"]
      BY <1>1 DEF RetryFlip
    <2>2. QED
      BY <2>1, <1>c DEF Row, Status, Note
  <1>2. CASE ClaimDue(w)
    <2>1. \/ row' = row
          \/ row' = [row EXCEPT ![c].status = "PROCESSING",
                                 ![c].note = "null"]
      BY <1>2 DEF ClaimDue, rowVars
    <2>2. QED
      BY <2>1, <1>c DEF Row, Status, Note
  <1>3. CASE ReleaseForDispute(w)
    <2>1. \/ row' = row
          \/ row' = [row EXCEPT ![c].status = "DUE", ![c].note = "other"]
      BY <1>3 DEF ReleaseForDispute
    <2>2. QED
      BY <2>1, <1>c DEF Row, Status, Note
  <1>4. CASE EnsureConversation(w)
    <2>1. row' = row \/ \E k \in Conv : row' = [row EXCEPT ![c].orig = k]
      BY <1>4 DEF EnsureConversation
    <2>2. QED
      BY <2>1, <1>c DEF Row
  <1>5. CASE RecordSubmission(w)
    <2>1. row \in [Commission -> Row]
      BY <1>c
    <2>2. QED
      BY <1>5, <2>1, SubmissionWrite, SubmissionType
  <1>6. CASE MarkPaid(w)
    <2>1. \/ row' = row
          \/ row' = [row EXCEPT ![c].status = "PAID", ![c].submitted = TRUE,
                  ![c].note = "null"]
      BY <1>6 DEF MarkPaid, rowVars
    <2>2. QED
      BY <2>1, <1>c DEF Row, Status, Note
  <1>7. CASE MarkDeadLettered(w)
    <2>1. \/ row' = row
          \/ row' = [row EXCEPT ![c].status = "FAILED",
                  ![c].attempts = cand[w].attempts, ![c].note = "other"]
          \/ row' = [row EXCEPT ![c].status = "FAILED",
                  ![c].attempts = NextAttempt(cand[w].attempts),
                                ![c].note = "other"]
      BY <1>7 DEF MarkDeadLettered, DeadLetter, rowVars
    <2>2. QED
      BY <2>1, <1>c, FailureType DEF Status
  <1>8. CASE RecordDuplicate(w)
    <2>1. \/ row' = row
          \/ row' = [row EXCEPT ![c].attempts = NextAttempt(cand[w].attempts),
                  ![c].note = "other"]
      BY <1>8 DEF RecordDuplicate, rowVars
    <2>2. QED
      BY <2>1, <1>c DEF Row, Status, Note
  <1>9. CASE RecordSendFailure(w)
    <2>1. \/ row' = row
          \/ row' = [row EXCEPT ![c].status = "FAILED",
                  ![c].attempts = NextAttempt(cand[w].attempts),
                                ![c].note = "other"]
          \/ row' = [row EXCEPT ![c].status = "DUE",
                  ![c].attempts = NextAttempt(cand[w].attempts),
                                ![c].note = "other"]
      BY <1>9 DEF RecordSendFailure, DeadLetter, rowVars
    <2>2. QED
      BY <2>1, <1>c, FailureType DEF Status
  <1>10. CASE ReadDispute(w) \/ ConfirmBeforeSend(w) \/ Send(w)
              \/ ConfirmAfterSend(w) \/ RecordFails(w)
    BY <1>10, <1>0 DEF ReadDispute, ConfirmBeforeSend, Send,
                       ConfirmAfterSend, RecordFails, rowVars
  <1>11. QED
    BY <1>1, <1>2, <1>3, <1>4, <1>5, <1>6, <1>7, <1>8, <1>9, <1>10
    DEF ProcessStep

\* A worker that goes on or is through with its candidate keeps the typing
\* of the workers.
WorkersOK ==
    /\ pc \in [Worker -> Label]
    /\ cand \in [Worker -> Candidate \cup {NoCandidate}]
    /\ HoldsCandidate

LEMMA GotoType ==
    ASSUME WorkersOK, NEW w \in Worker, NEW l \in Label, Goto(w, l),
           l \in Holding => cand[w] \in Candidate
    PROVE  WorkersOK'
  BY DEF WorkersOK, HoldsCandidate, Goto

LEMMA DoneType ==
    ASSUME WorkersOK, NEW w \in Worker, Done(w)
    PROVE  WorkersOK'
  BY DEF WorkersOK, HoldsCandidate, Done, Label, Holding

LEMMA ProcessWorkers ==
    ASSUME TypeInv, NEW w \in Worker, ProcessStep(w) \/ RetryFlip(w)
    PROVE  WorkersOK'
  <1>c. /\ WorkersOK
        /\ cand[w] \in Candidate
        /\ issued \in [Commission -> 0..MaxConv]
        /\ cand[w].c \in Commission
    BY StepCandidate DEF TypeInv, TypeOK, WorkersOK
  <1>1. CASE Done(w)
    BY <1>1, <1>c, DoneType
  <1>2. CASE \E l \in Label : Goto(w, l)
    BY <1>2, <1>c, GotoType
  <1>3. CASE ClaimDue(w) /\ ~Done(w)
    BY <1>2, <1>3 DEF ClaimDue, Label, Holding
  <1>4. CASE /\ EnsureConversation(w)
             /\ ~\E l \in Label : Goto(w, l)
    <2>1. /\ issued[cand[w].c] + 1 \in Conv
          /\ cand' = [cand EXCEPT ![w].orig = issued[cand[w].c] + 1]
          /\ pc' = [pc EXCEPT ![w] = IF cand[w].attempts > 0 THEN "query"
                                                            ELSE "send"]
      BY <1>4 DEF EnsureConversation, Label, Holding
    <2>2. QED
      BY <2>1, <1>c DEF WorkersOK, HoldsCandidate, Candidate, Label, Holding
  <1>5. CASE ~Done(w) /\ ~\E l \in Label : Goto(w, l)
    <2>1. CASE RetryFlip(w)
      BY <2>1, <1>5 DEF RetryFlip, Label, Holding
    <2>2. CASE ReadDispute(w)
      BY <2>2, <1>5 DEF ReadDispute, Label, Holding
    <2>3. CASE ReleaseForDispute(w)
      BY <2>3, <1>5 DEF ReleaseForDispute, Label, Holding
    <2>4. CASE ConfirmBeforeSend(w)
      BY <2>4, <1>5 DEF ConfirmBeforeSend, QueryAnswer, Label, Holding
    <2>5. CASE Send(w)
      BY <2>5, <1>5 DEF Send, Label, Holding
    <2>6. CASE RecordSubmission(w)
      BY <2>6, <1>5 DEF RecordSubmission, Label, Holding
    <2>7. CASE ConfirmAfterSend(w)
      BY <2>7, <1>5 DEF ConfirmAfterSend, QueryAnswer, Label, Holding
    <2>8. CASE MarkPaid(w)
      BY <2>8, <1>5 DEF MarkPaid, Label, Holding
    <2>9. CASE RecordFails(w)
      BY <2>9, <1>5 DEF RecordFails, Label, Holding
    <2>10. CASE MarkDeadLettered(w)
      BY <2>10, <1>5 DEF MarkDeadLettered, Label, Holding
    <2>11. CASE RecordDuplicate(w)
      BY <2>11, <1>5 DEF RecordDuplicate, Label, Holding
    <2>12. CASE RecordSendFailure(w)
      BY <2>12, <1>5 DEF RecordSendFailure, Label, Holding
    <2>13. QED
      BY <2>1, <2>2, <2>3, <2>4, <2>5, <2>6, <2>7, <2>8, <2>9, <2>10, <2>11,
         <2>12, <1>3, <1>4, <1>5 DEF ProcessStep
  <1>6. QED
    BY <1>1, <1>2, <1>5

\* What a payout step leaves alone, and the typing of what else it writes.
LEMMA ProcessFrame ==
    ASSUME TypeInv, NEW w \in Worker, ProcessStep(w) \/ RetryFlip(w)
    PROVE  /\ aged' \in [Commission -> BOOLEAN]
           /\ UNCHANGED <<envVars, msgs, seen, jobVars, crashes>>
           /\ issued' \in [Commission -> 0..MaxConv]
           /\ b2c' \in [Commission -> [Conv -> {"unknown", "accepted",
                                                "settled", "failed"}]]
  <1>c. /\ aged \in [Commission -> BOOLEAN]
        /\ cand[w].c \in Commission
        /\ issued \in [Commission -> 0..MaxConv]
        /\ b2c \in [Commission -> [Conv -> {"unknown", "accepted",
                                            "settled", "failed"}]]
    BY StepCandidate DEF TypeInv, TypeOK
  <1>1. UNCHANGED <<envVars, msgs, seen, jobVars, crashes>>
    BY DEF RetryFlip, ProcessStep, ClaimDue, ReadDispute, ReleaseForDispute,
           EnsureConversation, ConfirmBeforeSend, Send, RecordSubmission,
           ConfirmAfterSend, MarkPaid, RecordFails, MarkDeadLettered,
           RecordDuplicate, RecordSendFailure, safVars
  <1>2. aged' = aged \/ aged' = [aged EXCEPT ![cand[w].c] = FALSE]
    BY DEF RetryFlip, ProcessStep, ClaimDue, ReadDispute, ReleaseForDispute,
           EnsureConversation, ConfirmBeforeSend, Send, RecordSubmission,
           ConfirmAfterSend, MarkPaid, RecordFails, MarkDeadLettered,
           DeadLetter, RecordDuplicate, RecordSendFailure, rowVars
  <1>3. \/ issued' = issued
        \/ /\ issued[cand[w].c] + 1 \in Conv
           /\ issued' = [issued EXCEPT ![cand[w].c] = issued[cand[w].c] + 1]
    BY DEF RetryFlip, ProcessStep, ClaimDue, ReadDispute, ReleaseForDispute,
           EnsureConversation, ConfirmBeforeSend, Send, RecordSubmission,
           ConfirmAfterSend, MarkPaid, RecordFails, MarkDeadLettered,
           RecordDuplicate, RecordSendFailure, safVars
  <1>4. \/ b2c' = b2c
        \/ b2c' = [b2c EXCEPT ![cand[w].c][cand[w].orig] = "accepted"]
    BY DEF RetryFlip, ProcessStep, ClaimDue, ReadDispute, ReleaseForDispute,
           EnsureConversation, ConfirmBeforeSend, Send, RecordSubmission,
           ConfirmAfterSend, MarkPaid, RecordFails, MarkDeadLettered,
           RecordDuplicate, RecordSendFailure, safVars
  <1>5. aged' \in [Commission -> BOOLEAN]
    BY <1>2, <1>c
  <1>6. issued' \in [Commission -> 0..MaxConv]
    BY <1>3, <1>c, PayoutAssumption DEF Conv
  <1>7. b2c' \in [Commission -> [Conv -> {"unknown", "accepted",
                                          "settled", "failed"}]]
    <2>1. ASSUME NEW d \in Commission, NEW k
          PROVE  [b2c EXCEPT ![d][k] = "accepted"]
                   \in [Commission -> [Conv -> {"unknown", "accepted",
                                                "settled", "failed"}]]
      BY <1>c
    <2>2. CASE b2c' = b2c
      BY <2>2, <1>c
    <2>3. CASE b2c' = [b2c EXCEPT ![cand[w].c][cand[w].orig] = "accepted"]
      <3>1. cand[w].c \in Commission
        BY <1>c
      <3>2. QED
        BY <2>1, <2>3, <3>1
    <2>4. QED
      BY <1>4, <2>2, <2>3
  <1>8. QED
    BY <1>1, <1>5, <1>6, <1>7

LEMMA WorkerType ==
    ASSUME TypeInv, NEW w \in Worker, WorkerStep(w)
    PROVE  TypeInv'
  <1>1. CASE RetryRead(w)
    <2>1. PICK c \in Commission : cand' = [cand EXCEPT ![w] = Snapshot(c)]
      BY <1>1 DEF RetryRead
    <2>2. Snapshot(c) \in Candidate
      BY SnapshotType DEF TypeInv
    <2>3. WorkersOK'
      BY <1>1, <2>1, <2>2
      DEF RetryRead, TypeInv, TypeOK, HoldsCandidate, WorkersOK, Label,
          Holding
    <2>4. QED
      BY <1>1, <2>3
      DEF RetryRead, TypeInv, TypeOK, WorkersOK, rowVars, envVars, dspVars,
          safVars, jobVars
  <1>2. CASE ProcessStep(w) \/ RetryFlip(w)
    <2>1. row' \in [Commission -> Row]
      BY <1>2, StepRow
    <2>2. WorkersOK'
      BY <1>2, ProcessWorkers
    <2>3. QED
      BY <1>2, <2>1, <2>2, ProcessFrame
      DEF TypeInv, TypeOK, WorkersOK, envVars, dspVars, jobVars
  <1>3. CASE Crash(w)
    <2>1. WorkersOK'
      BY <1>3
      DEF Crash, TypeInv, TypeOK, HoldsCandidate, WorkersOK, Label, Holding
    <2>2. QED
      BY <1>3, <2>1, PayoutAssumption
      DEF Crash, TypeInv, TypeOK, WorkersOK, rowVars, envVars, dspVars,
          safVars, jobVars
  <1>4. QED
    BY <1>1, <1>2, <1>3 DEF WorkerStep

LEMMA SafaricomType ==
    ASSUME TypeInv, NEW c \in Commission, NEW k \in Conv, SafaricomStep(c, k)
    PROVE  TypeInv'
  <1>1. PICK s \in {"unknown", "accepted", "settled", "failed"} :
          b2c' = [b2c EXCEPT ![c][k] = s]
    BY DEF SafaricomStep, SettlePayout, ExpirePayout
  <1>2. PICK kind \in Kind : Report(kind, c, k)
    BY DEF SafaricomStep, SettlePayout, ExpirePayout, Kind
  <1>3. UNCHANGED <<rowVars, envVars, issued, seen, jobVars, wrkVars, crashes>>
    BY DEF SafaricomStep, SettlePayout, ExpirePayout
  <1>4. b2c' \in [Commission -> [Conv -> {"unknown", "accepted",
                                          "settled", "failed"}]]
    BY <1>1 DEF TypeInv, TypeOK
  <1>5. msgs' \subseteq Message /\ seen' \subseteq msgs'
    BY <1>2, <1>3 DEF Report, Message, TypeInv, TypeOK
  <1>6. QED
    BY <1>3, <1>4, <1>5
    DEF TypeInv, TypeOK, HoldsCandidate, rowVars, envVars, dspVars, jobVars,
        wrkVars

LEMMA DeliverType ==
    ASSUME TypeInv, NEW m \in Message, Deliver(m)
    PROVE  TypeInv'
  <1>c. m.c \in Commission /\ row \in [Commission -> Row]
    BY DEF Message, TypeInv, TypeOK
  <1>1. \/ row' = row
        \/ row' = [row EXCEPT ![m.c].status = "PAID",
                              ![m.c].submitted = TRUE, ![m.c].note = "null"]
        \/ row' = [row EXCEPT ![m.c].status = "FAILED", ![m.c].note = "other"]
        \/ row' = [row EXCEPT ![m.c].status = "DUE", ![m.c].note = "other"]
    BY DEF Deliver, OnSuccess, OnFailure, OnTimeout, rowVars
  <1>2. row' \in [Commission -> Row]
    BY <1>1, <1>c DEF Row, Status, Note
  <1>3. aged' = aged \/ aged' = [aged EXCEPT ![m.c] = FALSE]
    BY DEF Deliver, OnSuccess, OnFailure, OnTimeout, rowVars
  <1>4. aged' \in [Commission -> BOOLEAN]
    BY <1>3 DEF TypeInv, TypeOK
  <1>5. QED
    BY <1>2, <1>4
    DEF Deliver, TypeInv, TypeOK, HoldsCandidate, envVars, dspVars, jobVars,
        wrkVars

LEMMA RowStepType ==
    ASSUME TypeInv, NEW c \in Commission, RowStep(c)
    PROVE  TypeInv'
  <1>1. row' = row \/ row' = [row EXCEPT ![c].status = "CANCELLED",
                                         ![c].note = "other"]
    BY DEF RowStep, OpenDispute, EndDispute, ReopenDispute, Open, RefundRead,
           RefundCommit, Age, rowVars
  <1>2. row' \in [Commission -> Row]
    <2>1. row \in [Commission -> Row]
      BY DEF TypeInv, TypeOK
    <2>2. QED
      BY <1>1, <2>1 DEF Row, Status, Note
  <1>3. QED
    BY <1>2
    DEF RowStep, OpenDispute, EndDispute, ReopenDispute, Open, RefundRead,
        RefundCommit, Age, TypeInv, TypeOK, HoldsCandidate, rowVars, safVars,
        jobVars, wrkVars, envVars, dspVars

\* Every step keeps the typing.
LEMMA StepType == TypeInv /\ [Next]_vars => TypeInv'
  <1>1. ASSUME TypeInv, Next
        PROVE  TypeInv'
    BY <1>1, JobType, WorkerType, SafaricomType, DeliverType, RowStepType
    DEF Next
  <1>2. ASSUME TypeInv, UNCHANGED vars
        PROVE  TypeInv'
    BY <1>2 DEF vars, TypeInv, TypeOK, HoldsCandidate
  <1>3. QED
    BY <1>1, <1>2

\* The variables keep their types, and every worker at work on a commission
\* has a snapshot of one.
THEOREM TypeCorrect == Spec => []TypeOK
  <1>1. Init => TypeInv
    BY InitType
  <1>2. TypeInv /\ [Next]_vars => TypeInv'
    BY StepType
  <1>3. TypeInv => TypeOK
    BY DEF TypeInv
  <1>4. QED
    BY <1>1, <1>2, <1>3, PTL DEF Spec

-----------------------------------------------------------------------------
(* The inductive invariants *)

\* Safaricom knows no conversation id but the row's.
KnownIsRow ==
    \A c \in Commission, k \in Conv : b2c[c][k] # "unknown" => row[c].orig = k

\* The conversation id of a worker's snapshot is still the row's ...
HolderCurrent ==
    \A w \in Worker :
        pc[w] \in Holding => cand[w].orig = row[cand[w].c].orig

\* ... and so is that of every candidate the sweep has yet to take, none of
\* which another candidate or the sweep itself shares.
BatchCurrent ==
    /\ \A x \in batch : x.orig = row[x.c].orig
    /\ \A x, y \in batch : x.c = y.c => x = y
    /\ pc[Job] \in Holding => \A x \in batch : x.c # cand[Job].c

\* A worker past ensureOriginatorConversationId has an id, and so has a
\* retry from its start.
PastEnsure == Holding \ {"flip", "claim", "dispute", "release", "ensure"}

SenderHasConv ==
    \A w \in Worker :
        \/ pc[w] \in PastEnsure
        \/ w \in Admin /\ pc[w] \in Holding
        => cand[w].orig # NoConv

\* A row is dead-lettered after its first send at the earliest.
FailedHasConv ==
    \A c \in Commission : row[c].status = "FAILED" => row[c].orig # NoConv

ConvInv == /\ KnownIsRow /\ HolderCurrent /\ BatchCurrent
           /\ SenderHasConv /\ FailedHasConv

\* A result on its way, or in a worker's hands, is what Safaricom decided.
ResultsTrue ==
    /\ \A m \in msgs : /\ m.kind = "success" => b2c[m.c][m.k] = "settled"
                       /\ m.kind = "failure" => b2c[m.c][m.k] = "failed"
    /\ \A w \in Worker :
         /\ pc[w] \in {"settle", "settleSent"}
              => b2c[cand[w].c][cand[w].orig] = "settled"
         /\ pc[w] \in {"dead", "deadSent"}
              => b2c[cand[w].c][cand[w].orig] = "failed"

\* The dispute that stopped a commission is open and no payout of it is under
\* way.
StoppedInv == \A c \in stopped : dispute[c] = "open" /\ ~UnderWay(c)

-----------------------------------------------------------------------------
(* Every send carries the row's one conversation id *)

\* The sweep's own updates make unsettled rows DUE and touch nothing else of
\* what the invariants are about.
LEMMA JobRow ==
    ASSUME TypeInv, JobStep, NEW c \in Commission
    PROVE  /\ row'[c].orig = row[c].orig
           /\ row'[c].attempts = row[c].attempts
           /\ \/ row'[c].status = row[c].status
              \/ /\ row[c].status \in {"PENDING", "PROCESSING"}
                 /\ row'[c].status = "DUE"
  <1>t. row \in [Commission -> Row]
    BY DEF TypeInv, TypeOK
  <1>1. CASE RecoverStaleUnsent
    BY <1>1, <1>t DEF RecoverStaleUnsent, Row
  <1>2. CASE PromoteEligible
    <2>1. PICK ripe \in SUBSET {d \in Commission : row[d].status = "PENDING"} :
            row' = [d \in Commission |->
                      IF d \in ripe THEN [row[d] EXCEPT !.status = "DUE"]
                                    ELSE row[d]]
      BY <1>2 DEF PromoteEligible
    <2>2. QED
      BY <2>1, <1>t DEF Row
  <1>3. CASE FlagOverdue
    BY <1>3, <1>t DEF FlagOverdue, Row
  <1>4. CASE row' = row
    BY <1>4
  <1>5. QED
    BY <1>1, <1>2, <1>3, <1>4
    DEF JobStep, StartRun, ListDue, TakeNext, EndRun, rowVars

\* recordSubmission changes neither the status nor the conversation id.
LEMMA SubmissionRow ==
    ASSUME TypeInv, NEW w \in Worker, RecordSubmission(w),
           NEW c \in Commission
    PROVE  /\ row'[c].orig = row[c].orig
           /\ row'[c].status = row[c].status
           /\ row[c].status = "FAILED" => row'[c].attempts = row[c].attempts
  <1>t. row \in [Commission -> Row]
    BY DEF TypeInv, TypeOK
  <1>1. CASE row' = row
    BY <1>1
  <1>2. ASSUME NEW d \in Commission, NEW n \in 0..MaxAttempts,
               NEW s \in BOOLEAN, row[d].status = "PROCESSING",
               row' = [row EXCEPT ![d].submitted = s, ![d].note = "null",
                                  ![d].attempts = n]
        PROVE  /\ row'[c].orig = row[c].orig
               /\ row'[c].status = row[c].status
               /\ row[c].status = "FAILED"
                    => row'[c].attempts = row[c].attempts
    BY <1>2, <1>t DEF Row
  <1>3. QED
    BY <1>1, <1>2, SubmissionWrite

\* recordSendFailure dead-letters at the last attempt, requeues before it,
\* and only rows that are not settled.
LEMMA SendFailureRow ==
    ASSUME TypeInv, NEW w \in Worker, RecordSendFailure(w),
           NEW c \in Commission
    PROVE  /\ row'[c].orig = row[c].orig
           /\ \/ row'[c] = row[c]
              \/ /\ pc[w] = "error"
                 /\ cand[w].c = c
                 /\ row[c].status \in Unsettled
                 /\ \/ /\ row'[c].status = "FAILED"
                       /\ row'[c].attempts = MaxAttempts
                    \/ row'[c].status = "DUE"
  <1> DEFINE n == NextAttempt(cand[w].attempts)
  <1>t. /\ row \in [Commission -> Row]
        /\ cand[w].c \in Commission
        /\ n \in 0..MaxAttempts
        /\ MaxAttempts \in Nat
    BY StepCandidate, PayoutAssumption DEF ProcessStep, TypeInv, TypeOK
  <1>1. /\ pc[w] = "error"
        /\ \/ row' = row
           \/ /\ row[cand[w].c].status \in Unsettled
              /\ n >= MaxAttempts
              /\ row' = [row EXCEPT ![cand[w].c].status = "FAILED",
                                    ![cand[w].c].attempts = n,
                                    ![cand[w].c].note = "other"]
           \/ /\ row[cand[w].c].status \in Unsettled
              /\ row' = [row EXCEPT ![cand[w].c].status = "DUE",
                                    ![cand[w].c].attempts = n,
                                    ![cand[w].c].note = "other"]
    BY DEF RecordSendFailure, DeadLetter, Claims, Unsettled, rowVars
  <1> HIDE DEF n
  <1>2. n >= MaxAttempts => n = MaxAttempts
    BY <1>t
  <1>3. ASSUME NEW d \in Commission, NEW s \in Status,
               row' = [row EXCEPT ![d].status = s, ![d].attempts = n,
                                  ![d].note = "other"]
        PROVE  /\ row'[c].orig = row[c].orig
               /\ d # c => row'[c] = row[c]
               /\ d = c => row'[c].status = s /\ row'[c].attempts = n
    BY <1>3, <1>t DEF Row
  <1>4. CASE row' = row
    BY <1>4
  <1>5. CASE row' # row
    BY <1>1, <1>2, <1>3, <1>5, <1>t DEF Status
  <1>6. QED
    BY <1>4, <1>5

\* Only ensureOriginatorConversationId writes the column, and only for a
\* snapshot that has none.
LEMMA OrigKept ==
    ASSUME TypeInv, Next, NEW c \in Commission
    PROVE  \/ row'[c].orig = row[c].orig
           \/ \E w \in Worker : /\ EnsureConversation(w)
                                /\ cand[w].c = c
                                /\ cand[w].orig = NoConv
  <1>t. row \in [Commission -> Row]
    BY DEF TypeInv, TypeOK
  <1>1. CASE JobStep
    BY <1>1, JobRow
  <1>2. ASSUME NEW w \in Worker, WorkerStep(w)
        PROVE  \/ row'[c].orig = row[c].orig
               \/ /\ EnsureConversation(w)
                  /\ cand[w].c = c
                  /\ cand[w].orig = NoConv
    <2>1. CASE EnsureConversation(w)
      BY <2>1, <1>t DEF EnsureConversation, Row
    <2>2. CASE RetryFlip(w)
      BY <2>2, <1>t DEF RetryFlip, Row
    <2>3. CASE ClaimDue(w)
      BY <2>3, <1>t DEF ClaimDue, Row, rowVars
    <2>4. CASE ReleaseForDispute(w)
      BY <2>4, <1>t DEF ReleaseForDispute, Row
    <2>5. CASE RecordSubmission(w)
      BY <2>5, SubmissionRow
    <2>6. CASE MarkPaid(w)
      BY <2>6, <1>t DEF MarkPaid, Row, rowVars
    <2>7. CASE MarkDeadLettered(w)
      BY <2>7, <1>t DEF MarkDeadLettered, DeadLetter, Row, rowVars
    <2>8. CASE RecordDuplicate(w)
      BY <2>8, <1>t DEF RecordDuplicate, Row, rowVars
    <2>9. CASE RecordSendFailure(w)
      BY <2>9, SendFailureRow
    <2>10. QED
      BY <1>2, <2>1, <2>2, <2>3, <2>4, <2>5, <2>6, <2>7, <2>8, <2>9
      DEF WorkerStep, ProcessStep, RetryRead, Crash, ReadDispute,
          ConfirmBeforeSend, Send, ConfirmAfterSend, RecordFails, rowVars
  <1>3. ASSUME NEW m \in Message, Deliver(m)
        PROVE  row'[c].orig = row[c].orig
    BY <1>3, <1>t DEF Deliver, OnSuccess, OnFailure, OnTimeout, Row, rowVars
  <1>4. ASSUME NEW d \in Commission, RowStep(d)
        PROVE  row'[c].orig = row[c].orig
    BY <1>4, <1>t
    DEF RowStep, OpenDispute, EndDispute, ReopenDispute, Open, RefundRead,
        RefundCommit, Age, Row, rowVars
  <1>5. ASSUME NEW d \in Commission, NEW k \in Conv, SafaricomStep(d, k)
        PROVE  row'[c].orig = row[c].orig
    BY <1>5 DEF SafaricomStep, SettlePayout, ExpirePayout, rowVars
  <1>6. QED
    BY <1>1, <1>2, <1>3, <1>4, <1>5 DEF Next

-----------------------------------------------------------------------------
(* Who writes which status *)

\* Why a row is FAILED after a step: it was, a worker or a callback learnt
\* of a failure, or the attempts ran out.
FailedBy(c) ==
    \/ row[c].status = "FAILED" /\ row'[c].attempts = row[c].attempts
    \/ \E w \in Worker : /\ pc[w] \in {"dead", "deadSent"}
                         /\ cand[w].c = c
    \/ \E w \in Worker : /\ pc[w] = "error"
                         /\ cand[w].c = c
                         /\ row'[c].attempts = MaxAttempts
    \/ \E m \in msgs : m.c = c /\ m.kind = "failure" /\ m.k = row[c].orig

\* Why a row is PAID after a step.
PaidBy(c) ==
    \/ row[c].status = "PAID"
    \/ \E w \in Worker : pc[w] \in {"settle", "settleSent"} /\ cand[w].c = c
    \/ \E m \in msgs : m.c = c /\ m.kind = "success" /\ m.k = row[c].orig

\* Why a PAID row is not PAID any more.
UnpaidBy(c) ==
    \/ \E w \in Worker : ReleaseForDispute(w) /\ cand[w].c = c
    \/ RefundCommit(c)

LEMMA StatusWritten ==
    ASSUME TypeInv, Next, NEW c \in Commission
    PROVE  /\ row'[c].status = "FAILED" => FailedBy(c)
           /\ row'[c].status = "PAID" => PaidBy(c)
           /\ row[c].status = "PAID" /\ row'[c].status # "PAID" => UnpaidBy(c)
  <1>t. row \in [Commission -> Row]
    BY DEF TypeInv, TypeOK
  <1>0. CASE row' = row
    BY <1>0 DEF FailedBy, PaidBy
  <1>1. CASE JobStep
    BY <1>1, JobRow DEF FailedBy, PaidBy
  <1>2. ASSUME NEW w \in Worker, RetryFlip(w) \/ ProcessStep(w)
        PROVE  /\ row'[c].status = "FAILED" => FailedBy(c)
               /\ row'[c].status = "PAID" => PaidBy(c)
               /\ row[c].status = "PAID" /\ row'[c].status # "PAID"
                    => UnpaidBy(c)
    <2>n. /\ NextAttempt(cand[w].attempts) \in 0..MaxAttempts
          /\ MaxAttempts \in Nat
      BY <1>2, StepCandidate, PayoutAssumption
    <2>1. CASE RetryFlip(w)
      BY <2>1, <1>t, <2>n
      DEF FailedBy, PaidBy, UnpaidBy, Claims, Row, RetryFlip
    <2>2. CASE ClaimDue(w)
      BY <2>2, <1>t, <2>n
      DEF FailedBy, PaidBy, UnpaidBy, Claims, Row, ClaimDue, rowVars
    <2>3. CASE ReleaseForDispute(w)
      BY <2>3, <1>t, <2>n
      DEF FailedBy, PaidBy, UnpaidBy, Claims, Row, ReleaseForDispute
    <2>4. CASE EnsureConversation(w)
      BY <2>4, <1>t, <2>n
      DEF FailedBy, PaidBy, UnpaidBy, Claims, Row, EnsureConversation
    <2>5. CASE RecordSubmission(w)
      BY <2>5, SubmissionRow DEF FailedBy, PaidBy
    <2>6. CASE MarkPaid(w)
      BY <2>6, <1>t, <2>n
      DEF FailedBy, PaidBy, UnpaidBy, Claims, Row, MarkPaid, Unsettled,
          rowVars
    <2>7. CASE MarkDeadLettered(w)
      BY <2>7, <1>t, <2>n
      DEF FailedBy, PaidBy, UnpaidBy, Claims, Row, MarkDeadLettered,
        DeadLetter, Unsettled, rowVars
    <2>8. CASE RecordDuplicate(w)
      BY <2>8, <1>t, <2>n
      DEF FailedBy, PaidBy, UnpaidBy, Claims, Row, RecordDuplicate, rowVars
    <2>9. CASE RecordSendFailure(w)
      BY <2>9, SendFailureRow DEF FailedBy, PaidBy, Unsettled
    <2>10. QED
      BY <1>2, <1>0, <2>1, <2>2, <2>3, <2>4, <2>5, <2>6, <2>7, <2>8, <2>9
      DEF ProcessStep, ReadDispute, ConfirmBeforeSend, Send,
          ConfirmAfterSend, RecordFails, rowVars
  <1>3. ASSUME NEW m \in Message, Deliver(m)
        PROVE  /\ row'[c].status = "FAILED" => FailedBy(c)
               /\ row'[c].status = "PAID" => PaidBy(c)
               /\ row[c].status = "PAID" => row'[c].status = "PAID"
    BY <1>3, <1>t DEF Deliver, OnSuccess, OnFailure, OnTimeout, Matches,
                      Claims, Unsettled, FailedBy, PaidBy, Row, rowVars
  <1>4. ASSUME NEW d \in Commission, RefundCommit(d)
        PROVE  /\ row'[c].status = "FAILED" => FailedBy(c)
               /\ row'[c].status = "PAID" => PaidBy(c)
               /\ row[c].status = "PAID" /\ row'[c].status # "PAID"
                    => UnpaidBy(c)
    BY <1>4, <1>t DEF RefundCommit, FailedBy, PaidBy, UnpaidBy, Row
  <1>5. QED
    BY <1>0, <1>1, <1>2, <1>3, <1>4
    DEF Next, WorkerStep, RetryRead, Crash, SafaricomStep, SettlePayout,
        ExpirePayout, RowStep, OpenDispute, EndDispute, ReopenDispute, Open,
        RefundRead, Age, rowVars

-----------------------------------------------------------------------------
(* How a worker comes to hold a candidate *)

Keeps(v) == /\ pc[v] \in Holding
            /\ cand'[v].c = cand[v].c
            /\ cand'[v].orig = cand[v].orig
            /\ pc'[v] \in PastEnsure
                 => pc[v] \in PastEnsure \/ cand[v].orig # NoConv

Takes(v) == /\ v = Job
            /\ pc'[v] = "claim"
            /\ TakeNext
            /\ cand'[v] \in batch

Reads(v) == /\ v \in Admin
            /\ RetryRead(v)
            /\ \E c \in Commission : /\ row[c].status = "FAILED"
                                     /\ cand'[v] = Snapshot(c)

Issues(v) == /\ EnsureConversation(v)
             /\ cand[v].orig = NoConv
             /\ cand'[v].c = cand[v].c
             /\ cand'[v].orig \in Conv
             /\ cand'[v].orig = row'[cand[v].c].orig

LEMMA WorkerMoves ==
    ASSUME TypeInv, Next, NEW v \in Worker, pc'[v] \in Holding
    PROVE  Keeps(v) \/ Takes(v) \/ Reads(v) \/ Issues(v)
  <1>t. /\ pc \in [Worker -> Label]
        /\ cand \in [Worker -> Candidate \cup {NoCandidate}]
        /\ row \in [Commission -> Row]
        /\ Job \in Worker
    BY DEF TypeInv, TypeOK, Worker
  <1>0. CASE pc'[v] = pc[v] /\ cand'[v] = cand[v]
    BY <1>0 DEF Keeps
  <1>1. CASE JobStep
    BY <1>1, <1>0, <1>t
    DEF JobStep, StartRun, RecoverStaleUnsent, PromoteEligible, FlagOverdue,
        ListDue, TakeNext, EndRun, Goto, wrkVars, Holding, Takes
  <1>2. ASSUME NEW w \in Worker, ProcessStep(w) \/ RetryFlip(w)
        PROVE  Keeps(v) \/ Takes(v) \/ Reads(v) \/ Issues(v)
    <2>b. /\ cand[w] \in Candidate
          /\ cand[w].c \in Commission
      BY <1>2, StepCandidate
    <2>1. CASE ReadDispute(w)
      BY <2>1, <1>t, <2>b DEF ReadDispute, Goto, Done,
        Keeps, Holding, PastEnsure
    <2>2. CASE ReleaseForDispute(w)
      BY <2>2, <1>t, <2>b DEF ReleaseForDispute, Goto, Done,
        Keeps, Holding, PastEnsure
    <2>3. CASE ConfirmBeforeSend(w)
      BY <2>3, <1>t, <2>b DEF ConfirmBeforeSend, QueryAnswer, Goto, Done,
        Keeps, Holding, PastEnsure
    <2>4. CASE Send(w)
      BY <2>4, <1>t, <2>b DEF Send, Goto, Done,
        Keeps, Holding, PastEnsure
    <2>5. CASE RecordSubmission(w)
      BY <2>5, <1>t, <2>b DEF RecordSubmission, Goto, Done,
        Keeps, Holding, PastEnsure
    <2>6. CASE ConfirmAfterSend(w)
      BY <2>6, <1>t, <2>b DEF ConfirmAfterSend, QueryAnswer, Goto, Done,
        Keeps, Holding, PastEnsure
    <2>7. CASE MarkPaid(w)
      BY <2>7, <1>t, <2>b DEF MarkPaid, Goto, Done,
        Keeps, Holding, PastEnsure
    <2>8. CASE RecordFails(w)
      BY <2>8, <1>t, <2>b DEF RecordFails, Goto, Done,
        Keeps, Holding, PastEnsure
    <2>9. CASE MarkDeadLettered(w)
      BY <2>9, <1>t, <2>b DEF MarkDeadLettered, Goto, Done,
        Keeps, Holding, PastEnsure
    <2>10. CASE RecordDuplicate(w)
      BY <2>10, <1>t, <2>b DEF RecordDuplicate, Goto, Done,
        Keeps, Holding, PastEnsure
    <2>11. CASE RecordSendFailure(w)
      BY <2>11, <1>t, <2>b DEF RecordSendFailure, Goto, Done,
        Keeps, Holding, PastEnsure
    <2>12. CASE RetryFlip(w)
      BY <2>12, <1>t, <2>b DEF RetryFlip, Goto, Done,
        Keeps, Holding, PastEnsure
    <2>13. CASE ClaimDue(w)
      <3>1. CASE Done(w)
        BY <3>1, <1>t DEF Done, Keeps, Holding
      <3>2. CASE ~Done(w)
        BY <2>13, <3>2, <1>t, <2>b
        DEF ClaimDue, Goto, Keeps, Holding, PastEnsure, Candidate
      <3>3. QED
        BY <3>1, <3>2
    <2>14. CASE EnsureConversation(w)
      <3>1. CASE cand[w].orig = NoConv
        <4>1. /\ issued[cand[w].c] + 1 \in Conv
              /\ row' = [row EXCEPT ![cand[w].c].orig = issued[cand[w].c] + 1]
              /\ cand' = [cand EXCEPT ![w].orig = issued[cand[w].c] + 1]
              /\ \A u \in Worker : u # w => pc'[u] = pc[u]
          BY <2>14, <3>1, <1>t DEF EnsureConversation
        <4>2. row'[cand[w].c].orig = issued[cand[w].c] + 1
          BY <4>1, <2>b, <1>t DEF Row
        <4>3. QED
          BY <2>14, <3>1, <4>1, <4>2, <1>t, <2>b, <1>0 DEF Issues, Candidate
      <3>2. CASE cand[w].orig # NoConv
        BY <2>14, <3>2, <1>t DEF EnsureConversation, Goto, Keeps, Holding
      <3>3. QED
        BY <3>1, <3>2
    <2>15. QED
      BY <1>2, <2>1, <2>2, <2>3, <2>4, <2>5, <2>6, <2>7, <2>8, <2>9, <2>10,
         <2>11, <2>12, <2>13, <2>14
      DEF ProcessStep
  <1>3. ASSUME NEW w \in Worker, RetryRead(w)
        PROVE  Keeps(v) \/ Takes(v) \/ Reads(v) \/ Issues(v)
    BY <1>3, <1>t, <1>0 DEF RetryRead, Reads
  <1>4. ASSUME NEW w \in Worker, Crash(w)
        PROVE  Keeps(v) \/ Takes(v) \/ Reads(v) \/ Issues(v)
    BY <1>4, <1>t, <1>0 DEF Crash, Holding
  <1>5. QED
    BY <1>0, <1>1, <1>2, <1>3, <1>4
    DEF Next, WorkerStep, SafaricomStep, SettlePayout, ExpirePayout, Deliver,
        RowStep, OpenDispute, EndDispute, ReopenDispute, Open, RefundRead,
        RefundCommit, Age, wrkVars

-----------------------------------------------------------------------------
(* The conversation id of a row never changes *)

\* Safaricom's record of a conversation changes with a send, or after one.
LEMMA B2CWritten ==
    ASSUME TypeInv, Next, NEW c \in Commission, NEW k \in Conv,
           b2c'[c][k] # b2c[c][k]
    PROVE  \/ /\ b2c[c][k] = "unknown"
              /\ b2c'[c][k] = "accepted"
              /\ \E w \in Worker : /\ pc[w] = "send"
                                   /\ cand[w].c = c
                                   /\ cand[w].orig = k
           \/ b2c[c][k] = "accepted"
  <1>t. b2c \in [Commission -> [Conv -> {"unknown", "accepted", "settled",
                                         "failed"}]]
    BY DEF TypeInv, TypeOK
  <1>1. CASE \E w \in Worker : Send(w)
    BY <1>1, <1>t DEF Send
  <1>2. ASSUME NEW d \in Commission, NEW j \in Conv, SafaricomStep(d, j)
        PROVE  b2c[c][k] = "accepted"
    BY <1>2, <1>t DEF SafaricomStep, SettlePayout, ExpirePayout
  <1>3. QED
    BY <1>1, <1>2
    DEF Next, JobStep, WorkerStep, ProcessStep, RowStep, StartRun,
        RecoverStaleUnsent, PromoteEligible, FlagOverdue, ListDue, TakeNext,
        EndRun, RetryRead, RetryFlip, ClaimDue, ReadDispute,
        ReleaseForDispute, EnsureConversation, ConfirmBeforeSend,
        RecordSubmission, ConfirmAfterSend, MarkPaid, RecordFails,
        MarkDeadLettered, RecordDuplicate, RecordSendFailure, Crash, Deliver,
        OpenDispute, EndDispute, ReopenDispute, Open, RefundRead,
        RefundCommit, Age, safVars

\* The id of a row is written once.
LEMMA OrigFixed ==
    ASSUME TypeInv, HolderCurrent, Next, NEW c \in Commission,
           row[c].orig # NoConv
    PROVE  row'[c].orig = row[c].orig
  <1>1. SUFFICES ASSUME NEW w \in Worker, EnsureConversation(w),
                        cand[w].c = c, cand[w].orig = NoConv
                 PROVE  FALSE
    BY OrigKept
  <1>2. pc[w] \in Holding
    BY <1>1 DEF EnsureConversation, Holding
  <1>3. QED
    BY <1>1, <1>2 DEF HolderCurrent

\* Only the sweep issues an id: a retry's row has one.
LEMMA JobIssues ==
    ASSUME SenderHasConv, NEW w \in Worker, EnsureConversation(w),
           cand[w].orig = NoConv
    PROVE  w = Job
  BY DEF SenderHasConv, EnsureConversation, Holding, Worker

LEMMA KnownStep ==
    ASSUME TypeInv, ConvInv, Next
    PROVE  KnownIsRow'
  <1> SUFFICES ASSUME NEW c \in Commission, NEW k \in Conv,
                      b2c'[c][k] # "unknown"
               PROVE  row'[c].orig = k
    BY DEF KnownIsRow
  <1>1. row[c].orig = k
    <2>1. CASE b2c[c][k] # "unknown"
      BY <2>1 DEF ConvInv, KnownIsRow
    <2>2. CASE b2c[c][k] = "unknown"
      <3>1. PICK w \in Worker : /\ pc[w] = "send"
                                /\ cand[w].c = c
                                /\ cand[w].orig = k
        BY <2>2, B2CWritten
      <3>2. QED
        BY <3>1 DEF ConvInv, HolderCurrent, Holding
    <2>3. QED
      BY <2>1, <2>2
  <1>2. k # NoConv
    BY PayoutAssumption DEF Conv, NoConv
  <1>3. QED
    BY <1>1, <1>2, OrigFixed DEF ConvInv

LEMMA SenderStep ==
    ASSUME TypeInv, ConvInv, Next
    PROVE  SenderHasConv'
  <1> SUFFICES ASSUME NEW v \in Worker, pc'[v] \in Holding,
                      pc'[v] \in PastEnsure \/ v \in Admin
               PROVE  cand'[v].orig # NoConv
    BY DEF SenderHasConv, PastEnsure
  <1>1. CASE Keeps(v)
    BY <1>1 DEF Keeps, ConvInv, SenderHasConv
  <1>2. CASE Takes(v)
    BY <1>2, PayoutAssumption DEF Takes, PastEnsure
  <1>3. CASE Reads(v)
    BY <1>3 DEF Reads, Snapshot, ConvInv, FailedHasConv
  <1>4. CASE Issues(v)
    BY <1>4, PayoutAssumption DEF Issues, Conv, NoConv
  <1>5. QED
    BY <1>1, <1>2, <1>3, <1>4, WorkerMoves

LEMMA FailedStep ==
    ASSUME TypeInv, ConvInv, Next
    PROVE  FailedHasConv'
  <1> SUFFICES ASSUME NEW c \in Commission, row'[c].status = "FAILED"
               PROVE  row'[c].orig # NoConv
    BY DEF FailedHasConv
  <1>1. FailedBy(c)
    BY StatusWritten
  <1>2. row[c].orig # NoConv
    <2>1. CASE row[c].status = "FAILED"
      BY <2>1 DEF ConvInv, FailedHasConv
    <2>2. ASSUME NEW w \in Worker, pc[w] \in {"dead", "deadSent", "error"},
                 cand[w].c = c
          PROVE  row[c].orig # NoConv
      BY <2>2
      DEF ConvInv, HolderCurrent, SenderHasConv, PastEnsure, Holding
    <2>3. ASSUME NEW m \in msgs, m.k = row[c].orig
          PROVE  row[c].orig # NoConv
      BY <2>3, PayoutAssumption
      DEF TypeInv, TypeOK, Message, Conv, NoConv
    <2>4. QED
      BY <1>1, <2>1, <2>2, <2>3 DEF FailedBy
  <1>3. QED
    BY <1>2, OrigFixed DEF ConvInv

LEMMA HolderStep ==
    ASSUME TypeInv, ConvInv, Next
    PROVE  HolderCurrent'
  <1> SUFFICES ASSUME NEW v \in Worker, pc'[v] \in Holding
               PROVE  cand'[v].orig = row'[cand'[v].c].orig
    BY DEF HolderCurrent
  <1>1. CASE Keeps(v)
    <2>1. /\ cand[v].c \in Commission
          /\ cand[v].orig = row[cand[v].c].orig
      BY <1>1
      DEF Keeps, TypeInv, HoldsCandidate, Candidate, ConvInv, HolderCurrent
    <2>2. CASE row'[cand[v].c].orig = row[cand[v].c].orig
      BY <1>1, <2>1, <2>2 DEF Keeps
    <2>3. ASSUME NEW w \in Worker, EnsureConversation(w),
                 cand[w].c = cand[v].c, cand[w].orig = NoConv
          PROVE  FALSE
      <3>1. w = Job /\ cand[v].orig = NoConv
        BY <2>1, <2>3, JobIssues
        DEF ConvInv, HolderCurrent, EnsureConversation, Holding
      <3>2. v = w
        BY <1>1, <3>1 DEF Keeps, ConvInv, SenderHasConv, Worker
      <3>3. pc[v] = "ensure" /\ pc'[v] \in {"query", "send"}
        BY <2>3, <3>2 DEF EnsureConversation, TypeInv, TypeOK
      <3>4. QED
        BY <1>1, <3>1, <3>3 DEF Keeps, PastEnsure, Holding
    <2>4. QED
      BY <2>1, <2>2, <2>3, OrigKept
  <1>2. CASE Takes(v)
    BY <1>2 DEF Takes, TakeNext, rowVars, ConvInv, BatchCurrent
  <1>3. CASE Reads(v)
    BY <1>3 DEF Reads, RetryRead, rowVars, Snapshot
  <1>4. CASE Issues(v)
    BY <1>4 DEF Issues
  <1>5. QED
    BY <1>1, <1>2, <1>3, <1>4, WorkerMoves

LEMMA BatchStep ==
    ASSUME TypeInv, ConvInv, Next
    PROVE  BatchCurrent'
  <1>j. Job \in Worker
    BY DEF Worker
  <1>1. CASE ListDue
    <2>1. pc'[Job] \notin Holding
      BY <1>1, <1>j DEF ListDue, Goto, Holding, TypeInv, TypeOK
    <2>2. row' = row
      BY <1>1 DEF ListDue, rowVars
    <2>3. \A x \in batch' : \E d \in Commission :
            x = [c |-> d, orig |-> row[d].orig, attempts |-> row[d].attempts]
      BY <1>1 DEF ListDue, Snapshot
    <2>4. /\ \A x \in batch' : x.orig = row[x.c].orig
          /\ \A x, y \in batch' : x.c = y.c => x = y
      <3>1. ASSUME NEW x \in batch'
            PROVE  /\ x.orig = row[x.c].orig
                   /\ x = [c |-> x.c, orig |-> row[x.c].orig,
                           attempts |-> row[x.c].attempts]
        BY <2>3
      <3>2. QED
        BY <3>1
    <2>5. QED
      BY <2>1, <2>2, <2>4 DEF BatchCurrent
  <1>2. CASE batch' = {}
    BY <1>2 DEF BatchCurrent
  <1>3. CASE TakeNext
    <2>1. PICK x \in batch : /\ cand' = [cand EXCEPT ![Job] = x]
                             /\ batch' = batch \ {x}
      BY <1>3 DEF TakeNext
    <2>2. cand'[Job] = x /\ row' = row
      BY <1>3, <1>j, <2>1 DEF TakeNext, rowVars, TypeInv, TypeOK
    <2>3. QED
      BY <2>1, <2>2 DEF ConvInv, BatchCurrent
  <1>4. CASE batch' = batch /\ ~TakeNext
    <2>1. ASSUME NEW x \in batch
          PROVE  row'[x.c].orig = row[x.c].orig
      <3>1. x.c \in Commission
        BY DEF TypeInv, TypeOK, Candidate
      <3>2. ASSUME NEW w \in Worker, EnsureConversation(w), cand[w].c = x.c,
                   cand[w].orig = NoConv
            PROVE  FALSE
        BY <3>2, JobIssues
        DEF ConvInv, BatchCurrent, EnsureConversation, Holding
      <3>3. QED
        BY <3>1, <3>2, OrigKept
    <2>2. pc'[Job] \in Holding => /\ pc[Job] \in Holding
                                  /\ cand'[Job].c = cand[Job].c
      <3>1. Job \notin Admin
        BY PayoutAssumption
      <3>2. QED
        BY <1>4, <1>j, <3>1, WorkerMoves
        DEF Keeps, Takes, Reads, Issues, EnsureConversation, Holding
    <2>3. QED
      BY <1>4, <2>1, <2>2 DEF ConvInv, BatchCurrent
  <1>5. ASSUME NEW w \in Worker, WorkerStep(w)
        PROVE  batch' = batch \/ batch' = {}
    <2>1. CASE ProcessStep(w) \/ RetryFlip(w)
      BY <2>1, ProcessFrame DEF jobVars
    <2>2. CASE RetryRead(w) \/ Crash(w)
      BY <2>2 DEF RetryRead, Crash, jobVars
    <2>3. QED
      BY <1>5, <2>1, <2>2 DEF WorkerStep
  <1>6. QED
    BY <1>1, <1>2, <1>3, <1>4, <1>5
    DEF Next, JobStep, StartRun, RecoverStaleUnsent, PromoteEligible,
        FlagOverdue, EndRun, SafaricomStep, SettlePayout, ExpirePayout,
        Deliver, RowStep, OpenDispute, EndDispute, ReopenDispute, Open,
        RefundRead, RefundCommit, Age, jobVars

LEMMA ConvStep == TypeInv /\ ConvInv /\ [Next]_vars => ConvInv'
  <1>1. ASSUME TypeInv, ConvInv, Next
        PROVE  ConvInv'
    BY <1>1, KnownStep, HolderStep, BatchStep, SenderStep, FailedStep
    DEF ConvInv
  <1>2. ASSUME ConvInv, UNCHANGED vars
        PROVE  ConvInv'
    BY <1>2
    DEF vars, ConvInv, KnownIsRow, HolderCurrent, BatchCurrent, SenderHasConv,
        FailedHasConv
  <1>3. QED
    BY <1>1, <1>2

LEMMA ConvInit == Init => ConvInv
  BY PayoutAssumption
  DEF Init, ConvInv, KnownIsRow, HolderCurrent, BatchCurrent, SenderHasConv,
      FailedHasConv, PastEnsure, Holding, Worker

\* No conversation id but the row's is ever known to Safaricom.
LEMMA ConvCorrect == Spec => [](TypeInv /\ ConvInv)
  <1>1. Init => TypeInv /\ ConvInv
    BY InitType, ConvInit
  <1>2. TypeInv /\ ConvInv /\ [Next]_vars => (TypeInv /\ ConvInv)'
    BY StepType, ConvStep
  <1>3. QED
    BY <1>1, <1>2, PTL DEF Spec

\* Safaricom pays a commission at most once: all sends of a commission carry
\* the id ensureOriginatorConversationId persisted before the first.
THEOREM PayoutOnce == Spec => []AtMostOnePayout
  <1>1. ConvInv => AtMostOnePayout
    BY DEF ConvInv, KnownIsRow, AtMostOnePayout, Settled
  <1>2. QED
    BY <1>1, ConvCorrect, PTL

\* A settlement is undone only by the processor's release for a dispute and
\* by the refund, the two writes that do not look at the status.
THEOREM UnsettledByPlainUpdates == Spec => OnlyPlainUpdatesUnsettle
  <1>1. TypeInv /\ [Next]_vars
          => [\A c \in Commission :
                row[c].status = "PAID" /\ row'[c].status # "PAID"
                  => \/ \E w \in Worker : ReleaseForDispute(w) /\ cand[w].c = c
                     \/ RefundCommit(c)]_vars
    BY StatusWritten DEF UnpaidBy
  <1>2. Spec => []TypeInv
    BY ConvCorrect, PTL
  <1>3. QED
    BY <1>1, <1>2, PTL DEF Spec, OnlyPlainUpdatesUnsettle

-----------------------------------------------------------------------------
(* Results are true, and statuses follow results *)

\* A worker moves by its own steps only.
LEMMA OwnSteps ==
    ASSUME TypeInv, Next, NEW v \in Worker,
           pc'[v] # pc[v] \/ cand'[v] # cand[v]
    PROVE  WorkerStep(v) \/ (v = Job /\ JobStep)
  <1>t. /\ pc \in [Worker -> Label]
        /\ cand \in [Worker -> Candidate \cup {NoCandidate}]
    BY DEF TypeInv, TypeOK
  <1>1. CASE JobStep
    BY <1>1, <1>t
    DEF JobStep, StartRun, RecoverStaleUnsent, PromoteEligible, FlagOverdue,
        ListDue, TakeNext, EndRun, Goto, wrkVars
  <1>2. ASSUME NEW w \in Worker, WorkerStep(w), w # v
        PROVE  FALSE
    <2>1. CASE \/ ReleaseForDispute(w) \/ ConfirmBeforeSend(w) \/ Send(w)
               \/ RecordSubmission(w) \/ ConfirmAfterSend(w) \/ MarkPaid(w)
               \/ RecordFails(w) \/ MarkDeadLettered(w)
               \/ RecordDuplicate(w) \/ RecordSendFailure(w)
      BY <1>2, <1>t, <2>1
      DEF ReleaseForDispute, ConfirmBeforeSend, QueryAnswer, Send,
          RecordSubmission, ConfirmAfterSend, MarkPaid, RecordFails,
          MarkDeadLettered, RecordDuplicate, RecordSendFailure, Goto, Done
    <2>2. CASE \/ RetryRead(w) \/ RetryFlip(w) \/ ClaimDue(w)
               \/ ReadDispute(w) \/ EnsureConversation(w) \/ Crash(w)
      BY <1>2, <1>t, <2>2
      DEF RetryRead, RetryFlip, ClaimDue, ReadDispute, EnsureConversation,
          Crash, Goto, Done
    <2>3. QED
      BY <1>2, <2>1, <2>2 DEF WorkerStep, ProcessStep
  <1>3. ~UNCHANGED wrkVars
    BY DEF wrkVars
  <1>4. \/ JobStep
        \/ \E w \in Worker : WorkerStep(w)
    BY <1>3
    DEF Next, SafaricomStep, SettlePayout, ExpirePayout, Deliver, RowStep,
        OpenDispute, EndDispute, ReopenDispute, Open, RefundRead,
        RefundCommit, Age
  <1>5. PICK w \in Worker : JobStep \/ WorkerStep(w)
    BY <1>4
  <1>6. QED
    BY <1>1, <1>2, <1>5

\* Where a worker's result comes from.
ResultLabel == {"settle", "settleSent", "dead", "deadSent"}

LEMMA ResultMoves ==
    ASSUME TypeInv, Next, NEW v \in Worker, pc'[v] \in ResultLabel
    PROVE  /\ pc[v] \in PastEnsure
           /\ cand'[v] = cand[v]
           /\ \/ pc'[v] = pc[v]
              \/ /\ pc'[v] \in {"settle", "settleSent"}
                 /\ b2c[cand[v].c][cand[v].orig] = "settled"
              \/ /\ pc'[v] \in {"dead", "deadSent"}
                 /\ b2c[cand[v].c][cand[v].orig] = "failed"
  <1>t. /\ pc \in [Worker -> Label]
        /\ Job \in Worker
    BY DEF TypeInv, TypeOK, Worker
  <1>1. CASE pc'[v] = pc[v] /\ cand'[v] = cand[v]
    BY <1>1 DEF ResultLabel, PastEnsure, Holding
  <1>2. CASE ConfirmBeforeSend(v) \/ ConfirmAfterSend(v)
    BY <1>2, <1>t
    DEF ConfirmBeforeSend, ConfirmAfterSend, QueryAnswer, Goto, Done,
        ResultLabel, PastEnsure, Holding
  <1>3. CASE v = Job /\ JobStep
    BY <1>3, <1>t, <1>1
    DEF JobStep, StartRun, RecoverStaleUnsent, PromoteEligible, FlagOverdue,
        ListDue, TakeNext, EndRun, Goto, wrkVars, ResultLabel
  <1>4. CASE \/ ReleaseForDispute(v) \/ RecordSubmission(v) \/ MarkPaid(v)
             \/ RecordFails(v) \/ MarkDeadLettered(v) \/ RecordDuplicate(v)
             \/ RecordSendFailure(v) \/ Send(v)
    BY <1>4, <1>t
    DEF ReleaseForDispute, RecordSubmission, MarkPaid, RecordFails,
        MarkDeadLettered, RecordDuplicate, RecordSendFailure, Send, Goto,
        Done, ResultLabel
  <1>5. CASE \/ RetryRead(v) \/ RetryFlip(v) \/ ClaimDue(v) \/ ReadDispute(v)
             \/ EnsureConversation(v) \/ Crash(v)
    BY <1>5, <1>t
    DEF RetryRead, RetryFlip, ClaimDue, ReadDispute, EnsureConversation,
        Crash, Goto, Done, ResultLabel
  <1>6. QED
    BY <1>1, <1>2, <1>3, <1>4, <1>5, OwnSteps DEF WorkerStep, ProcessStep

\* What Safaricom decided stays decided.
LEMMA DecisionKept ==
    ASSUME TypeInv, Next, NEW c \in Commission, NEW k \in Conv,
           b2c[c][k] \in {"settled", "failed"}
    PROVE  b2c'[c][k] = b2c[c][k]
  BY B2CWritten

LEMMA ResultsStep ==
    ASSUME TypeInv, ConvInv, ResultsTrue, Next
    PROVE  ResultsTrue'
  <1>1. ASSUME NEW m \in msgs'
        PROVE  /\ m.kind = "success" => b2c'[m.c][m.k] = "settled"
               /\ m.kind = "failure" => b2c'[m.c][m.k] = "failed"
    <2>1. CASE m \in msgs
      <3>1. m.c \in Commission /\ m.k \in Conv
        BY <2>1 DEF TypeInv, TypeOK, Message
      <3>2. QED
        BY <2>1, <3>1, DecisionKept DEF ResultsTrue
    <2>2. CASE m \notin msgs
      <3>1. PICK c \in Commission, k \in Conv : SafaricomStep(c, k)
        <4>1. msgs' # msgs
          BY <2>2
        <4>2. ~\E w \in Worker : ProcessStep(w) \/ RetryFlip(w)
          BY <4>1, ProcessFrame
        <4>3. QED
          BY <4>1, <4>2
          DEF Next, JobStep, StartRun, RecoverStaleUnsent, PromoteEligible,
              FlagOverdue, ListDue, TakeNext, EndRun, WorkerStep, RetryRead,
              Crash, Deliver, RowStep, OpenDispute, EndDispute, ReopenDispute,
              Open, RefundRead, RefundCommit, Age, safVars
      <3>2. QED
        BY <2>2, <3>1
        DEF SafaricomStep, SettlePayout, ExpirePayout, Report, TypeInv, TypeOK
    <2>3. QED
      BY <2>1, <2>2
  <1>2. ASSUME NEW v \in Worker, pc'[v] \in ResultLabel
        PROVE  b2c'[cand'[v].c][cand'[v].orig]
                 = IF pc'[v] \in {"settle", "settleSent"} THEN "settled"
                                                          ELSE "failed"
    <2>1. /\ pc[v] \in PastEnsure
          /\ cand'[v] = cand[v]
          /\ b2c[cand[v].c][cand[v].orig]
               = IF pc'[v] \in {"settle", "settleSent"} THEN "settled"
                                                        ELSE "failed"
      BY <1>2, ResultMoves DEF ResultsTrue, ResultLabel
    <2>2. cand[v].c \in Commission /\ cand[v].orig \in Conv
      BY <2>1
      DEF TypeInv, HoldsCandidate, Candidate, PastEnsure, ConvInv,
          SenderHasConv
    <2>3. QED
      BY <2>1, <2>2, DecisionKept
  <1>3. QED
    BY <1>1, <1>2 DEF ResultsTrue, ResultLabel

LEMMA PaidStep ==
    ASSUME TypeInv, ConvInv, ResultsTrue, PaidIsSettled, Next
    PROVE  PaidIsSettled'
  <1> SUFFICES ASSUME NEW c \in Commission, row'[c].status = "PAID"
               PROVE  /\ row'[c].orig \in Conv
                      /\ b2c'[c][row'[c].orig] = "settled"
    BY DEF PaidIsSettled, Settled
  <1>1. PaidBy(c)
    BY StatusWritten
  <1>2. row[c].orig \in Conv /\ b2c[c][row[c].orig] = "settled"
    <2>1. CASE row[c].status = "PAID"
      BY <2>1 DEF PaidIsSettled, Settled
    <2>2. ASSUME NEW w \in Worker, pc[w] \in {"settle", "settleSent"},
                 cand[w].c = c
          PROVE  row[c].orig \in Conv /\ b2c[c][row[c].orig] = "settled"
      <3>1. /\ pc[w] \in Holding \cap PastEnsure
            /\ cand[w] \in Candidate
        BY <2>2 DEF PastEnsure, Holding, TypeInv, HoldsCandidate
      <3>2. QED
        BY <2>2, <3>1
        DEF ResultsTrue, ConvInv, HolderCurrent, SenderHasConv, Candidate
    <2>3. ASSUME NEW m \in msgs, m.c = c, m.kind = "success",
                 m.k = row[c].orig
          PROVE  row[c].orig \in Conv /\ b2c[c][row[c].orig] = "settled"
      BY <2>3 DEF ResultsTrue, TypeInv, TypeOK, Message
    <2>4. QED
      BY <1>1, <2>1, <2>2, <2>3 DEF PaidBy
  <1>3. row[c].orig # NoConv
    BY <1>2, PayoutAssumption DEF Conv, NoConv
  <1>4. QED
    BY <1>2, <1>3, OrigFixed, DecisionKept DEF ConvInv

LEMMA DeadLetterStep ==
    ASSUME TypeInv, ConvInv, ResultsTrue, DeadLetterJustified, Next
    PROVE  DeadLetterJustified'
  <1> SUFFICES ASSUME NEW c \in Commission, row'[c].status = "FAILED",
                      row'[c].attempts # MaxAttempts
               PROVE  b2c'[c][row'[c].orig] = "failed"
    BY DEF DeadLetterJustified
  <1>1. FailedBy(c)
    BY StatusWritten
  <1>2. row[c].orig \in Conv /\ b2c[c][row[c].orig] = "failed"
    <2>1. CASE row[c].status = "FAILED" /\ row'[c].attempts = row[c].attempts
      <3>1. row[c].orig # NoConv
        BY <2>1 DEF ConvInv, FailedHasConv
      <3>2. QED
        BY <2>1, <3>1 DEF DeadLetterJustified, TypeInv, TypeOK, Row
    <2>2. ASSUME NEW w \in Worker, pc[w] \in {"dead", "deadSent"},
                 cand[w].c = c
          PROVE  row[c].orig \in Conv /\ b2c[c][row[c].orig] = "failed"
      <3>1. /\ pc[w] \in Holding \cap PastEnsure
            /\ cand[w] \in Candidate
        BY <2>2 DEF PastEnsure, Holding, TypeInv, HoldsCandidate
      <3>2. QED
        BY <2>2, <3>1
        DEF ResultsTrue, ConvInv, HolderCurrent, SenderHasConv, Candidate
    <2>3. ASSUME NEW m \in msgs, m.c = c, m.kind = "failure",
                 m.k = row[c].orig
          PROVE  row[c].orig \in Conv /\ b2c[c][row[c].orig] = "failed"
      BY <2>3 DEF ResultsTrue, TypeInv, TypeOK, Message
    <2>4. QED
      BY <1>1, <2>1, <2>2, <2>3 DEF FailedBy
  <1>3. row[c].orig # NoConv
    BY <1>2, PayoutAssumption DEF Conv, NoConv
  <1>4. QED
    BY <1>2, <1>3, OrigFixed, DecisionKept DEF ConvInv

SettlementInv == /\ TypeInv /\ ConvInv /\ ResultsTrue
                 /\ PaidIsSettled /\ DeadLetterJustified

\* PAID means settled and FAILED means failed or out of attempts.
LEMMA SettlementCorrect == Spec => []SettlementInv
  <1>1. Init => SettlementInv
    BY InitType, ConvInit
    DEF Init, SettlementInv, ResultsTrue, PaidIsSettled, DeadLetterJustified
  <1>2. SettlementInv /\ [Next]_vars => SettlementInv'
    <2>1. ASSUME SettlementInv, Next
          PROVE  SettlementInv'
      BY <2>1, StepType, ConvStep, ResultsStep, PaidStep, DeadLetterStep
      DEF SettlementInv
    <2>2. ASSUME SettlementInv, UNCHANGED vars
          PROVE  SettlementInv'
      BY <2>2, StepType, ConvStep
      DEF SettlementInv, vars, ResultsTrue, PaidIsSettled, Settled,
          DeadLetterJustified
    <2>3. QED
      BY <2>1, <2>2
  <1>3. QED
    BY <1>1, <1>2, PTL DEF Spec

\* A row that says PAID has been paid by Safaricom: an accepted B2C call is
\* never taken for a settled one.
THEOREM PaidMeansSettled == Spec => []PaidIsSettled
  <1>1. SettlementInv => PaidIsSettled
    BY DEF SettlementInv
  <1>2. QED
    BY <1>1, SettlementCorrect, PTL

\* No payout is dead-lettered that Safaricom did not report as failed or that
\* had an attempt left.
THEOREM DeadLettersJustified == Spec => []DeadLetterJustified
  <1>1. SettlementInv => DeadLetterJustified
    BY DEF SettlementInv
  <1>2. QED
    BY <1>1, SettlementCorrect, PTL

-----------------------------------------------------------------------------
(* A dispute holds the payout back *)

\* What each step does to the disputes.
LEMMA DisputeWritten ==
    ASSUME TypeInv, Next
    PROVE  \/ UNCHANGED dspVars
           \/ \E c \in Commission : (OpenDispute(c) \/ ReopenDispute(c))
           \/ \E c \in Commission : EndDispute(c)
  <1>1. ASSUME NEW w \in Worker, WorkerStep(w)
        PROVE  UNCHANGED dspVars
    <2>1. CASE ProcessStep(w) \/ RetryFlip(w)
      BY <2>1, ProcessFrame DEF envVars
    <2>2. CASE RetryRead(w) \/ Crash(w)
      BY <2>2 DEF RetryRead, Crash, envVars
    <2>3. QED
      BY <1>1, <2>1, <2>2 DEF WorkerStep
  <1>2. QED
    BY <1>1
    DEF Next, JobStep, StartRun, RecoverStaleUnsent, PromoteEligible,
        FlagOverdue, ListDue, TakeNext, EndRun, SafaricomStep, SettlePayout,
        ExpirePayout, Deliver, RowStep, RefundRead, RefundCommit, Age,
        envVars

\* An unlock that was disputed stays one.
LEMMA DisputeMonotone ==
    ASSUME TypeInv, Next, NEW c \in Commission, dispute[c] # "none"
    PROVE  dispute'[c] # "none"
  <1>t. dispute \in [Commission -> {"none", "open", "over"}]
    BY DEF TypeInv, TypeOK
  <1>1. QED
    BY <1>t, DisputeWritten
    DEF OpenDispute, ReopenDispute, Open, EndDispute, dspVars

\* A worker gets to the send from its look at the dispute only.
LEMMA BeforeSendMoves ==
    ASSUME TypeInv, Next, NEW v \in Worker, pc'[v] \in BeforeSend
    PROVE  /\ cand'[v].c = cand[v].c
           /\ pc[v] \in BeforeSend \/ dispute[cand[v].c] # "open"
  <1>t. /\ pc \in [Worker -> Label]
        /\ cand \in [Worker -> Candidate \cup {NoCandidate}]
        /\ Job \in Worker
    BY DEF TypeInv, TypeOK, Worker
  <1>1. CASE pc'[v] = pc[v] /\ cand'[v] = cand[v]
    BY <1>1
  <1>2. CASE v = Job /\ JobStep
    BY <1>1, <1>2, <1>t
    DEF JobStep, StartRun, RecoverStaleUnsent, PromoteEligible, FlagOverdue,
        ListDue, TakeNext, EndRun, Goto, wrkVars, BeforeSend
  <1>3. CASE ReadDispute(v)
    BY <1>3, <1>t DEF ReadDispute, Goto, Done, BeforeSend
  <1>4. CASE EnsureConversation(v)
    <2>1. cand[v] \in Candidate
      BY <1>4, StepCandidate DEF ProcessStep
    <2>2. /\ pc[v] = "ensure"
          /\ \/ cand' = cand
             \/ cand' = [cand EXCEPT ![v].orig = issued[cand[v].c] + 1]
      BY <1>4, <1>t DEF EnsureConversation, Goto
    <2>3. QED
      BY <1>t, <2>1, <2>2 DEF Candidate, BeforeSend
  <1>5. CASE ConfirmBeforeSend(v)
    BY <1>5, <1>t DEF ConfirmBeforeSend, QueryAnswer, Goto, BeforeSend
  <1>6. CASE \/ ReleaseForDispute(v) \/ Send(v) \/ RecordSubmission(v)
             \/ ConfirmAfterSend(v) \/ MarkPaid(v) \/ RecordFails(v)
             \/ MarkDeadLettered(v) \/ RecordDuplicate(v)
             \/ RecordSendFailure(v)
    BY <1>6, <1>t
    DEF ReleaseForDispute, Send, RecordSubmission, ConfirmAfterSend,
        QueryAnswer, MarkPaid, RecordFails, MarkDeadLettered,
        RecordDuplicate, RecordSendFailure, Goto, Done, BeforeSend
  <1>7. CASE RetryRead(v) \/ RetryFlip(v) \/ ClaimDue(v) \/ Crash(v)
    BY <1>7, <1>t
    DEF RetryRead, RetryFlip, ClaimDue, Crash, Goto, Done, BeforeSend
  <1>8. QED
    BY <1>1, <1>2, <1>3, <1>4, <1>5, <1>6, <1>7, OwnSteps
    DEF WorkerStep, ProcessStep

\* While its dispute is open, no payout of a commission gets under way.
LEMMA UnderWayStep ==
    ASSUME TypeInv, Next, NEW c \in Commission, dispute[c] = "open",
           ~UnderWay(c)
    PROVE  ~UnderWay(c)'
  <1>1. ASSUME NEW w \in Worker, pc'[w] \in BeforeSend, cand'[w].c = c
        PROVE  FALSE
    BY <1>1, BeforeSendMoves DEF UnderWay
  <1>2. ASSUME NEW k \in Conv, b2c'[c][k] \in {"accepted", "settled"}
        PROVE  FALSE
    BY <1>2, B2CWritten DEF UnderWay, BeforeSend
  <1>3. QED
    BY <1>1, <1>2 DEF UnderWay

LEMMA StoppedStep ==
    ASSUME TypeInv, StoppedInv, Next
    PROVE  StoppedInv'
  <1>t. /\ dispute \in [Commission -> {"none", "open", "over"}]
        /\ stopped \subseteq Commission
    BY DEF TypeInv, TypeOK
  <1>1. \A c \in stopped : ~UnderWay(c)'
    BY <1>t, UnderWayStep DEF StoppedInv
  <1>2. CASE UNCHANGED dspVars
    BY <1>1, <1>2 DEF dspVars, StoppedInv
  <1>3. ASSUME NEW d \in Commission, OpenDispute(d) \/ ReopenDispute(d)
        PROVE  StoppedInv'
    <2>1. /\ dispute' = [dispute EXCEPT ![d] = "open"]
          /\ stopped' = IF UnderWay(d) THEN stopped ELSE stopped \cup {d}
          /\ UNCHANGED <<pc, cand, b2c>>
      BY <1>3 DEF OpenDispute, ReopenDispute, Open, safVars, wrkVars
    <2>2. UnderWay(d)' <=> UnderWay(d)
      BY <2>1 DEF UnderWay
    <2>3. QED
      BY <1>t, <1>1, <2>1, <2>2 DEF StoppedInv
  <1>4. ASSUME NEW d \in Commission, EndDispute(d)
        PROVE  StoppedInv'
    BY <1>t, <1>1, <1>4 DEF EndDispute, StoppedInv
  <1>5. QED
    BY <1>2, <1>3, <1>4, DisputeWritten

\* Once a dispute stopped a commission, it is not paid out before the dispute
\* ends, however the sweep, retries, recoveries and callbacks overlap.
THEOREM DisputesHold == Spec => []DisputeHoldsPayout
  <1>1. Init => StoppedInv
    BY DEF Init, StoppedInv
  <1>2. TypeInv /\ StoppedInv /\ [Next]_vars => StoppedInv'
    <2>1. ASSUME StoppedInv, UNCHANGED vars
          PROVE  StoppedInv'
      BY <2>1 DEF StoppedInv, vars, UnderWay
    <2>2. QED
      BY <2>1, StoppedStep
  <1>3. SettlementInv /\ StoppedInv => DisputeHoldsPayout
    <2>1. ASSUME SettlementInv, StoppedInv, NEW c \in stopped
          PROVE  /\ row[c].status # "PAID"
                 /\ \A k \in Conv : b2c[c][k] \notin {"accepted", "settled"}
      <3>1. \A k \in Conv : b2c[c][k] \notin {"accepted", "settled"}
        BY <2>1 DEF StoppedInv, UnderWay
      <3>2. c \in Commission
        BY <2>1 DEF SettlementInv, TypeInv, TypeOK
      <3>3. QED
        BY <2>1, <3>1, <3>2 DEF SettlementInv, PaidIsSettled, Settled
    <2>2. QED
      BY <2>1 DEF DisputeHoldsPayout
  <1>4. SettlementInv => TypeInv
    BY DEF SettlementInv
  <1>5. QED
    BY <1>1, <1>2, <1>3, <1>4, SettlementCorrect, PTL DEF Spec

-----------------------------------------------------------------------------
(* The payout implements CommissionRow *)

Views == [c \in Commission |-> View(c)]
Disputed == {c \in Commission : dispute[c] # "none"}

\* A worker about to release a row has read an open dispute of its unlock,
\* which may be over by now.
ReleaseInv ==
    \A w \in Worker : pc[w] = "release" => dispute[cand[w].c] # "none"

\* Only the read after the claim leads to the release.
LEMMA ReleaseMoves ==
    ASSUME TypeInv, Next, NEW v \in Worker, pc'[v] = "release"
    PROVE  /\ cand'[v] = cand[v] /\ cand[v].c \in Commission
           /\ pc[v] # "release" => dispute[cand[v].c] = "open"
  <1>t. /\ pc \in [Worker -> Label]
        /\ cand \in [Worker -> Candidate \cup {NoCandidate}]
        /\ Job \in Worker
    BY DEF TypeInv, TypeOK, Worker
  <1>c. cand'[v] \in Candidate /\ cand'[v].c \in Commission
    BY StepType DEF TypeInv, HoldsCandidate, Holding, Candidate
  <1>1. CASE pc'[v] = pc[v] /\ cand'[v] = cand[v]
    BY <1>c, <1>1
  <1>2. CASE ReadDispute(v)
    BY <1>c, <1>2, <1>t DEF ReadDispute, Goto, Done
  <1>3. ASSUME v = Job, JobStep
        PROVE  FALSE
    BY <1>3, <1>t
    DEF JobStep, StartRun, RecoverStaleUnsent, PromoteEligible, FlagOverdue,
        ListDue, TakeNext, EndRun, Goto, wrkVars, Prelude
  <1>4. ASSUME \/ ReleaseForDispute(v) \/ Send(v) \/ RecordSubmission(v)
               \/ ConfirmAfterSend(v) \/ MarkPaid(v) \/ RecordFails(v)
               \/ MarkDeadLettered(v) \/ RecordDuplicate(v)
               \/ RecordSendFailure(v)
        PROVE  FALSE
    BY <1>4, <1>t
    DEF ReleaseForDispute, Send, RecordSubmission, ConfirmAfterSend,
        QueryAnswer, MarkPaid, RecordFails, MarkDeadLettered,
        RecordDuplicate, RecordSendFailure, Goto, Done
  <1>5. ASSUME \/ RetryRead(v) \/ RetryFlip(v) \/ Crash(v) \/ ClaimDue(v)
               \/ EnsureConversation(v) \/ ConfirmBeforeSend(v)
        PROVE  FALSE
    BY <1>5, <1>t
    DEF RetryRead, RetryFlip, Crash, ClaimDue, EnsureConversation,
        ConfirmBeforeSend, QueryAnswer, Goto, Done
  <1>6. QED
    BY <1>1, <1>2, <1>3, <1>4, <1>5, OwnSteps DEF WorkerStep, ProcessStep

LEMMA ReleaseStep ==
    ASSUME TypeInv, ReleaseInv, [Next]_vars
    PROVE  ReleaseInv'
  <1>1. ASSUME Next, NEW v \in Worker, pc'[v] = "release"
        PROVE  dispute'[cand'[v].c] # "none"
    <2>1. /\ cand'[v] = cand[v] /\ cand[v].c \in Commission
          /\ dispute[cand[v].c] # "none"
      BY <1>1, ReleaseMoves DEF ReleaseInv
    <2>2. QED
      BY <1>1, <2>1, DisputeMonotone
  <1>2. CASE UNCHANGED vars
    BY <1>2 DEF vars, ReleaseInv
  <1>3. QED
    BY <1>1, <1>2 DEF ReleaseInv

\* A step that gives one row a new outcome is that step of the abstract row.
LEMMA ViewWritten ==
    ASSUME NEW d \in Commission, NEW v,
           \A c \in Commission \ {d} : View(c)' = View(c),
           View(d)' = v
    PROVE  Views' = [Views EXCEPT ![d] = v]
  BY DEF Views

\* The updates that move a row between the claim and its outcome do not show.
LEMMA QuietRows ==
    ASSUME TypeInv, Next, NEW c \in Commission,
           \A w \in Worker : ~MarkPaid(w) /\ ~ReleaseForDispute(w),
           \A m \in Message : ~Deliver(m),
           \A d \in Commission : ~RefundCommit(d)
    PROVE  View(c)' = View(c)
  <1>t. row \in [Commission -> Row]
    BY DEF TypeInv, TypeOK
  <1>v. ASSUME \/ row'[c].status = row[c].status
               \/ {row[c].status, row'[c].status} \cap {"PAID", "CANCELLED"}
                    = {}
        PROVE  View(c)' = View(c)
    BY <1>v DEF View
  <1>0. CASE row' = row
    BY <1>0, <1>v
  <1>1. CASE JobStep
    BY <1>1, <1>v, JobRow
  <1>2. ASSUME NEW w \in Worker, RetryFlip(w) \/ ProcessStep(w)
        PROVE  View(c)' = View(c)
    <2>n. cand[w].c \in Commission
      BY <1>2, StepCandidate
    <2>1. CASE RetryFlip(w)
      BY <2>1, <1>t, <1>v, <2>n DEF Claims, Row, RetryFlip
    <2>2. CASE ClaimDue(w)
      BY <2>2, <1>t, <1>v, <2>n DEF Claims, Row, ClaimDue, rowVars
    <2>3. CASE EnsureConversation(w)
      BY <2>3, <1>t, <1>v, <2>n DEF Row, EnsureConversation
    <2>4. CASE RecordSubmission(w)
      BY <2>4, <1>v, SubmissionRow
    <2>5. CASE MarkDeadLettered(w)
      BY <2>5, <1>t, <1>v, <2>n
      DEF Claims, Row, MarkDeadLettered, DeadLetter, Unsettled, rowVars
    <2>6. CASE RecordDuplicate(w)
      BY <2>6, <1>t, <1>v, <2>n DEF Claims, Row, RecordDuplicate, rowVars
    <2>7. CASE RecordSendFailure(w)
      BY <2>7, <1>v, SendFailureRow DEF Unsettled
    <2>8. QED
      BY <1>2, <1>0, <2>1, <2>2, <2>3, <2>4, <2>5, <2>6, <2>7
      DEF ProcessStep, ReadDispute, ConfirmBeforeSend, Send,
          ConfirmAfterSend, RecordFails, rowVars
  <1>3. QED
    BY <1>0, <1>1, <1>2
    DEF Next, WorkerStep, RetryRead, Crash, SafaricomStep, SettlePayout,
        ExpirePayout, RowStep, OpenDispute, EndDispute, ReopenDispute, Open,
        RefundRead, Age, rowVars

\* The writes that do show: each is a step of the abstract row, or none when
\* its guard finds the row settled.
LEMMA OutcomeSteps ==
    ASSUME TypeInv, ReleaseInv,
           \/ \E w \in Worker : MarkPaid(w) \/ ReleaseForDispute(w)
           \/ \E m \in Message : Deliver(m)
           \/ \E d \in Commission : RefundCommit(d)
    PROVE  R!Next \/ UNCHANGED <<Views, Disputed>>
  <1>t. row \in [Commission -> Row]
    BY DEF TypeInv, TypeOK
  <1>d. UNCHANGED dispute
    BY DEF MarkPaid, ReleaseForDispute, Deliver, RefundCommit, envVars,
           dspVars
  <1>e. Disputed' = Disputed
    BY <1>d DEF Disputed
  <1>0. CASE row' = row
    BY <1>0, <1>e DEF Views, View
  <1>w. ASSUME NEW d \in Commission, NEW s,
               \A c \in Commission \ {d} : row'[c] = row[c],
               row'[d].status = s
        PROVE  /\ s \in {"PAID", "CANCELLED"} => Views' = [Views EXCEPT ![d] = s]
               /\ s \notin {"PAID", "CANCELLED"}
                    => Views' = [Views EXCEPT ![d] = "PENDING"]
    <2>1. \A c \in Commission \ {d} : View(c)' = View(c)
      BY <1>w DEF View
    <2>2. View(d)' = IF s \in {"PAID", "CANCELLED"} THEN s ELSE "PENDING"
      BY <1>w DEF View
    <2>3. QED
      BY <2>1, <2>2, ViewWritten
  <1>1. ASSUME NEW d \in Commission, row[d].status \in Unsettled,
               \A c \in Commission \ {d} : row'[c] = row[c],
               row'[d].status = "PAID"
        PROVE  R!Next
    <2>1. Views[d] = "PENDING" /\ Views' = [Views EXCEPT ![d] = "PAID"]
      BY <1>1, <1>w DEF Views, View, Unsettled
    <2>2. QED
      BY <1>e, <2>1 DEF R!Next, R!Pay, R!Become, Views, Disputed
  <1>2. ASSUME NEW d \in Commission, row[d].status \in Unsettled,
               \A c \in Commission \ {d} : row'[c] = row[c],
               row'[d].status \in {"DUE", "FAILED"}
        PROVE  UNCHANGED <<Views, Disputed>>
    BY <1>2, <1>e DEF Views, View, Unsettled
  <1>3. ASSUME NEW w \in Worker, MarkPaid(w)
        PROVE  R!Next \/ row' = row
    <2>1. PICK d \in Commission : d = cand[w].c
      BY <1>3, StepCandidate DEF ProcessStep
    <2>2. CASE ~Claims(d, Unsettled)
      BY <1>3, <2>1, <2>2 DEF MarkPaid, rowVars
    <2>3. CASE Claims(d, Unsettled)
      <3>1. row' = [row EXCEPT ![d].status = "PAID", ![d].submitted = TRUE,
                               ![d].note = "null"]
        BY <1>3, <2>1, <2>3 DEF MarkPaid
      <3>2. /\ \A c \in Commission \ {d} : row'[c] = row[c]
            /\ row'[d].status = "PAID"
        BY <1>t, <3>1 DEF Row
      <3>3. QED
        BY <1>1, <2>3, <3>2 DEF Claims
    <2>4. QED
      BY <2>2, <2>3
  <1>4. ASSUME NEW w \in Worker, ReleaseForDispute(w)
        PROVE  R!Next \/ UNCHANGED <<Views, Disputed>>
    <2>1. PICK d \in Commission : d = cand[w].c
      BY <1>4, StepCandidate DEF ProcessStep
    <2>2. /\ d \in Disputed
          /\ \A c \in Commission \ {d} : row'[c] = row[c]
          /\ row'[d].status = "DUE"
      BY <1>4, <1>t, <2>1 DEF ReleaseForDispute, ReleaseInv, Disputed, Row
    <2>3. Views' = [Views EXCEPT ![d] = "PENDING"]
      BY <1>w, <2>2
    <2>4. CASE Views[d] = "PENDING"
      BY <1>e, <2>3, <2>4 DEF Views
    <2>5. CASE Views[d] # "PENDING"
      <3>1. Views[d] \in {"PAID", "CANCELLED"}
        BY <2>5 DEF Views, View
      <3>2. QED
        BY <1>e, <2>2, <2>3, <3>1
        DEF R!Next, R!Reopen, R!Become, Views, Disputed
    <2>6. QED
      BY <2>4, <2>5
  <1>5. ASSUME NEW m \in Message, Deliver(m)
        PROVE  R!Next \/ UNCHANGED <<Views, Disputed>>
    <2>1. m.c \in Commission
      BY DEF Message
    <2>2. CASE ~Matches(m)
      BY <1>0, <1>5, <2>2 DEF Deliver, rowVars
    <2>3. CASE Matches(m) /\ m.kind = "success" /\ OnSuccess(m.c)
      BY <1>1, <1>t, <2>1, <2>3 DEF Matches, Claims, OnSuccess, Row
    <2>4. CASE \/ Matches(m) /\ m.kind = "failure" /\ OnFailure(m.c)
               \/ Matches(m) /\ m.kind = "timeout" /\ OnTimeout(m.c)
      BY <1>2, <1>t, <2>1, <2>4
      DEF Matches, Claims, Unsettled, OnFailure, OnTimeout, Row
    <2>5. QED
      BY <1>5, <2>2, <2>3, <2>4 DEF Deliver
  <1>6. ASSUME NEW d \in Commission, RefundCommit(d)
        PROVE  R!Next
    <2>1. Views' = [Views EXCEPT ![d] = "CANCELLED"]
      <3>1. /\ \A c \in Commission \ {d} : row'[c] = row[c]
            /\ row'[d].status = "CANCELLED"
        BY <1>6, <1>t DEF RefundCommit, Row
      <3>2. QED
        BY <1>w, <3>1
    <2>2. Views[d] # "none"
      BY DEF Views, View
    <2>3. QED
      BY <1>e, <2>1, <2>2 DEF R!Next, R!Cancel, R!Become, Views, Disputed
  <1>7. QED
    BY <1>0, <1>3, <1>4, <1>5, <1>6

LEMMA RowRefines ==
    ASSUME TypeInv, ReleaseInv, [Next]_vars
    PROVE  R!Next \/ UNCHANGED <<Views, Disputed>>
  <1>1. CASE UNCHANGED vars
    BY <1>1 DEF vars, Views, View, Disputed
  <1>2. ASSUME NEW d \in Commission,
               OpenDispute(d) \/ EndDispute(d) \/ ReopenDispute(d)
        PROVE  R!Next
    <2>1. Disputed' = Disputed \cup {d}
      BY <1>2
      DEF OpenDispute, EndDispute, ReopenDispute, Open, Disputed, TypeInv,
          TypeOK
    <2>2. Views' = Views
      BY <1>2
      DEF OpenDispute, EndDispute, ReopenDispute, Open, rowVars, Views, View
    <2>3. QED
      BY <2>1, <2>2 DEF R!Next, R!Dispute, Views, Disputed
  <1>3. CASE \/ \E w \in Worker : MarkPaid(w) \/ ReleaseForDispute(w)
             \/ \E m \in Message : Deliver(m)
             \/ \E d \in Commission : RefundCommit(d)
    BY <1>3, OutcomeSteps
  <1>4. ASSUME Next,
               \A w \in Worker : ~MarkPaid(w) /\ ~ReleaseForDispute(w),
               \A m \in Message : ~Deliver(m),
               \A d \in Commission : /\ ~RefundCommit(d)
                                     /\ ~OpenDispute(d) /\ ~EndDispute(d)
                                     /\ ~ReopenDispute(d)
        PROVE  UNCHANGED <<Views, Disputed>>
    <2>1. Views' = Views
      BY <1>4, QuietRows DEF Views
    <2>2. UNCHANGED dispute
      BY <1>4, ProcessFrame
      DEF Next, JobStep, StartRun, RecoverStaleUnsent, PromoteEligible,
          FlagOverdue, ListDue, TakeNext, EndRun, WorkerStep, RetryRead,
          Crash, SafaricomStep, SettlePayout, ExpirePayout, RowStep,
          RefundRead, Age, envVars, dspVars
    <2>3. QED
      BY <2>1, <2>2 DEF Disputed
  <1>5. QED
    BY <1>1, <1>2, <1>3, <1>4

\* However the sweep, retries, callbacks, refunds and crashes overlap, a
\* commission moves as CommissionRow says, the specification that the
\* commission of an unlock implements as well.
THEOREM PayoutRefines == Spec => ImplementsCommissionRow
  <1>1. Init => R!Init /\ ReleaseInv
    BY DEF Init, R!Init, ReleaseInv, View
  <1>2. TypeInv /\ ReleaseInv /\ [Next]_vars
          => ReleaseInv' /\ [R!Next]_<<Views, Disputed>>
    BY ReleaseStep, RowRefines
  <1>3. Spec => []TypeInv
    BY ConvCorrect, PTL
  <1>4. QED
    BY <1>1, <1>2, <1>3, PTL
    DEF Spec, ImplementsCommissionRow, R!Spec, Views, Disputed
=============================================================================
