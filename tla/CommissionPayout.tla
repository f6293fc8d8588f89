-------------------------- MODULE CommissionPayout --------------------------
(***************************************************************************)
(* The payout of the posters' commissions: the daily sweep, the operator's *)
(* retry, the handlers of Safaricom's B2C callbacks and the refund that    *)
(* cancels a commission, all writing the same rows.  Postgres runs them at *)
(* READ COMMITTED, so a step here is one statement or one call to Daraja   *)
(* and everything between two steps of a handler may interleave.           *)
(***************************************************************************)
EXTENDS Integers, FiniteSets

CONSTANTS
    Commission,   \* commission rows, one per settled unlock
    Admin,        \* operators' retry requests running at the same time
    Job,          \* the sweep: one at a time, it holds the advisory lock
    NoCandidate,  \* "this worker holds no commission"
    MaxAttempts,  \* CommissionPayoutProcessor.maxAttempts
    MaxConv,      \* bound on the conversation ids of one commission
    MaxCrashes    \* bound on the crashes of a behaviour

ASSUME PayoutAssumption ==
    /\ MaxAttempts \in Nat \ {0}
    /\ MaxConv \in Nat \ {0}
    /\ MaxCrashes \in Nat
    /\ Job \notin Admin

VARIABLES
    row,      \* the commissions table
    aged,     \* lastAttemptAt lies beyond the sweep's staleness limits
    dispute,  \* the unlock's dispute: blocking while "open"
    stopped,  \* auxiliary: disputed before a payout was under way
    refund,   \* progress of the refund transaction of the unlock
    reachable, \* commissions whose poster has a phone number on file
    issued,   \* how many conversation ids randomUUID made for the row
    b2c,      \* Safaricom's record of each conversation id
    msgs,     \* callbacks Safaricom has sent; they may arrive more than once
    seen,     \* callbacks delivered at least once
    todo,     \* statements the sweep's opening Promise.all has still to run
    batch,    \* candidates the sweep has read and not yet processed
    pc,       \* where each worker is
    cand,     \* the worker's snapshot of the row it processes
    crashes

rowVars == <<row, aged>>
safVars == <<issued, b2c, msgs, seen>>
jobVars == <<todo, batch>>
wrkVars == <<pc, cand>>
dspVars == <<dispute, stopped>>
envVars == <<dspVars, refund, reachable>>
vars == <<row, aged, dispute, stopped, refund, reachable, issued, b2c, msgs,
          seen, todo, batch, pc, cand, crashes>>

Worker == Admin \cup {Job}
Conv == 1..MaxConv
NoConv == 0

Status == {"PENDING", "DUE", "PROCESSING", "PAID", "FAILED", "CANCELLED"}
Unsettled == {"PROCESSING", "DUE"}

\* lastAttemptError, as far as a query depends on it.
Note == {"null", "overdue", "other"}

\* Attempts saturate at MaxAttempts: the code only compares them with 0 and
\* with MaxAttempts.
Row == [status : Status, orig : {NoConv} \cup Conv, submitted : BOOLEAN,
        attempts : 0..MaxAttempts, note : Note]

Candidate == [c : Commission, orig : {NoConv} \cup Conv,
              attempts : 0..MaxAttempts]

Prelude == {"recover", "promote", "flag"}

\* The labels at which a worker holds a candidate.
Holding == {"flip", "claim", "dispute", "release", "ensure", "query", "send",
            "accepted", "confirm", "settle", "settleSent", "dead", "deadSent",
            "duplicate", "error"}

Label == {"idle", "prelude", "batch"} \cup Holding

Kind == {"success", "failure", "timeout"}
Message == [kind : Kind, c : Commission, k : Conv]

TypeOK ==
    /\ row \in [Commission -> Row]
    /\ aged \in [Commission -> BOOLEAN]
    /\ dispute \in [Commission -> {"none", "open", "over"}]
    /\ stopped \subseteq Commission
    /\ refund \in [Commission -> {"no", "read", "done"}]
    /\ reachable \subseteq Commission
    /\ issued \in [Commission -> 0..MaxConv]
    /\ b2c \in [Commission -> [Conv -> {"unknown", "accepted", "settled",
                                        "failed"}]]
    /\ msgs \subseteq Message
    /\ seen \subseteq msgs
    /\ todo \subseteq Prelude
    /\ batch \subseteq Candidate
    /\ pc \in [Worker -> Label]
    /\ cand \in [Worker -> Candidate \cup {NoCandidate}]
    /\ crashes \in 0..MaxCrashes

Init ==
    /\ row = [c \in Commission |->
                [status |-> "PENDING", orig |-> NoConv, submitted |-> FALSE,
                 attempts |-> 0, note |-> "null"]]
    /\ aged = [c \in Commission |-> FALSE]
    /\ dispute = [c \in Commission |-> "none"]
    /\ stopped = {}
    /\ refund = [c \in Commission |-> "no"]
    /\ reachable \in SUBSET Commission
    /\ issued = [c \in Commission |-> 0]
    /\ b2c = [c \in Commission |-> [k \in Conv |-> "unknown"]]
    /\ msgs = {}
    /\ seen = {}
    /\ todo = {}
    /\ batch = {}
    /\ pc = [w \in Worker |-> "idle"]
    /\ cand = [w \in Worker |-> NoCandidate]
    /\ crashes = 0

-----------------------------------------------------------------------------
(* Helpers *)

\* Faulty variants ("...Bug") stand before the definition they vary: each
\* breaks a property and shows that the property depends on the code.
NextAttempt(n) == IF n < MaxAttempts THEN n + 1 ELSE MaxAttempts

\* The WHERE of a guarded update: the statuses the claim matches.
Claims(c, from) == row[c].status \in from

Snapshot(c) == [c |-> c, orig |-> row[c].orig, attempts |-> row[c].attempts]

Goto(w, l) == /\ pc' = [pc EXCEPT ![w] = l]
              /\ UNCHANGED cand

\* The worker is through with its candidate: the sweep goes on with its
\* batch, an operator's request returns.
Done(w) == /\ pc' = [pc EXCEPT ![w] = IF w = Job THEN "batch" ELSE "idle"]
           /\ cand' = [cand EXCEPT ![w] = NoCandidate]

Held(c) == \E w \in Worker : pc[w] \in Holding /\ cand[w].c = c

\* SQL: `column <> value` does not match a NULL column.
SqlDiffers(x, y) == x # "null" /\ x # y

-----------------------------------------------------------------------------
(* The daily sweep: commission-payout.job.ts *)

StartRun ==
    /\ pc[Job] = "idle"
    /\ pc' = [pc EXCEPT ![Job] = "prelude"]
    /\ todo' = Prelude
    /\ UNCHANGED <<rowVars, envVars, safVars, batch, cand, crashes>>

\* Takes back what Safaricom has and leaves what it never got.
RecoverStaleUnsentBug ==
    /\ pc[Job] = "prelude" /\ "recover" \in todo
    /\ row' = [c \in Commission |->
                 IF row[c].status = "PROCESSING" /\ row[c].submitted /\ aged[c]
                 THEN [row[c] EXCEPT !.status = "DUE", !.note = "other"]
                 ELSE row[c]]
    /\ todo' = todo \ {"recover"}
    /\ UNCHANGED <<aged, envVars, safVars, batch, wrkVars, crashes>>

RecoverStaleUnsent ==
    /\ pc[Job] = "prelude" /\ "recover" \in todo
    /\ row' = [c \in Commission |->
                 IF /\ row[c].status = "PROCESSING"
                    /\ ~row[c].submitted
                    /\ aged[c]
                 THEN [row[c] EXCEPT !.status = "DUE", !.note = "other"]
                 ELSE row[c]]
    /\ todo' = todo \ {"recover"}
    /\ UNCHANGED <<aged, envVars, safVars, batch, wrkVars, crashes>>

\* ripe: the pending commissions whose eligibleAt has passed.
PromoteEligible ==
    /\ pc[Job] = "prelude" /\ "promote" \in todo
    /\ \E ripe \in SUBSET {c \in Commission : row[c].status = "PENDING"} :
         row' = [c \in Commission |->
                   IF c \in ripe THEN [row[c] EXCEPT !.status = "DUE"]
                                 ELSE row[c]]
    /\ todo' = todo \ {"promote"}
    /\ UNCHANGED <<aged, envVars, safVars, batch, wrkVars, crashes>>

Overdue(c) ==
    /\ row[c].status = "PROCESSING"
    /\ row[c].submitted
    /\ aged[c]

FlagOverdue ==
    /\ pc[Job] = "prelude" /\ "flag" \in todo
    /\ row' = [c \in Commission |->
                 IF Overdue(c) /\ SqlDiffers(row[c].note, "overdue")
                 THEN [row[c] EXCEPT !.note = "overdue"]
                 ELSE row[c]]
    /\ todo' = todo \ {"flag"}
    /\ UNCHANGED <<aged, envVars, safVars, batch, wrkVars, crashes>>

\* Blocks on a dispute that is long over.
ListDueBug ==
    /\ pc[Job] = "prelude" /\ todo = {}
    /\ batch' = {Snapshot(c) : c \in {d \in Commission :
                    row[d].status = "DUE" /\ dispute[d] = "none"}}
    /\ Goto(Job, "batch")
    /\ UNCHANGED <<rowVars, envVars, safVars, todo, crashes>>

ListDue ==
    /\ pc[Job] = "prelude" /\ todo = {}
    /\ batch' = {Snapshot(c) : c \in {d \in Commission :
                    row[d].status = "DUE" /\ dispute[d] # "open"}}
    /\ Goto(Job, "batch")
    /\ UNCHANGED <<rowVars, envVars, safVars, todo, crashes>>

TakeNext ==
    /\ pc[Job] = "batch"
    /\ \E x \in batch :
         /\ cand' = [cand EXCEPT ![Job] = x]
         /\ batch' = batch \ {x}
    /\ pc' = [pc EXCEPT ![Job] = "claim"]
    /\ UNCHANGED <<rowVars, envVars, safVars, todo, crashes>>

EndRun ==
    /\ pc[Job] = "batch" /\ batch = {}
    /\ Goto(Job, "idle")
    /\ UNCHANGED <<rowVars, envVars, safVars, jobVars, crashes>>

-----------------------------------------------------------------------------
(* An operator's retry: admin-payout-retry.service.ts *)

RetryRead(w) ==
    /\ w \in Admin /\ pc[w] = "idle"
    /\ \E c \in Commission :
         /\ row[c].status = "FAILED"
         /\ cand' = [cand EXCEPT ![w] = Snapshot(c)]
    /\ pc' = [pc EXCEPT ![w] = "flip"]
    /\ UNCHANGED <<rowVars, envVars, safVars, jobVars, crashes>>

\* The request is refused when another writer moved the row first.
RetryFlip(w) ==
    /\ pc[w] = "flip"
    /\ LET c == cand[w].c IN
         \/ /\ Claims(c, {"FAILED"})
            /\ row' = [row EXCEPT ![c].status = "DUE", ![c].note = "null"]
            /\ Goto(w, "claim")
         \/ /\ ~Claims(c, {"FAILED"})
            /\ Done(w)
            /\ UNCHANGED row
    /\ UNCHANGED <<aged, envVars, safVars, jobVars, crashes>>

-----------------------------------------------------------------------------
(* One payout: commission-payout.processor.ts with the recorder's writes.  *)
(* The worker's label says which statement or call comes next.             *)

ClaimDue(w) ==
    /\ pc[w] = "claim"
    /\ LET c == cand[w].c IN
         \/ /\ Claims(c, {"DUE"})
            /\ row' = [row EXCEPT ![c].status = "PROCESSING",
                                  ![c].note = "null"]
            /\ aged' = [aged EXCEPT ![c] = FALSE]
            /\ Goto(w, "dispute")
         \/ /\ ~Claims(c, {"DUE"})
            /\ Done(w)
            /\ UNCHANGED rowVars
    /\ UNCHANGED <<envVars, safVars, jobVars, crashes>>

\* Trusts the sweep's own look at the dispute.
ReadDisputeBug(w) ==
    /\ pc[w] = "dispute"
    /\ Goto(w, "ensure")
    /\ UNCHANGED <<rowVars, envVars, safVars, jobVars, crashes>>

\* The dispute is read again after the claim; without a phone number the
\* row is left PROCESSING for the next sweep to recover.
ReadDispute(w) ==
    /\ pc[w] = "dispute"
    /\ LET c == cand[w].c IN
         \/ dispute[c] = "open" /\ Goto(w, "release")
         \/ dispute[c] # "open" /\ c \in reachable /\ Goto(w, "ensure")
         \/ dispute[c] # "open" /\ c \notin reachable /\ Done(w)
    /\ UNCHANGED <<rowVars, envVars, safVars, jobVars, crashes>>

\* A plain update: it does not look at the status it overwrites.
ReleaseForDispute(w) ==
    /\ pc[w] = "release"
    /\ row' = [row EXCEPT ![cand[w].c].status = "DUE",
                          ![cand[w].c].note = "other"]
    /\ Done(w)
    /\ UNCHANGED <<aged, envVars, safVars, jobVars, crashes>>

\* Makes a fresh id for every send.
EnsureConversationBug(w) ==
    /\ pc[w] = "ensure"
    /\ LET c == cand[w].c
           k == issued[c] + 1
       IN
         /\ k \in Conv
         /\ issued' = [issued EXCEPT ![c] = k]
         /\ row' = [row EXCEPT ![c].orig = k]
         /\ cand' = [cand EXCEPT ![w].orig = k]
         /\ pc' = [pc EXCEPT ![w] = "send"]
    /\ UNCHANGED <<aged, envVars, b2c, msgs, seen, jobVars, crashes>>

\* The id is persisted before the first send; the snapshot decides whether
\* one exists.
EnsureConversation(w) ==
    /\ pc[w] = "ensure"
    /\ LET c == cand[w].c
           k == issued[c] + 1
           next == IF cand[w].attempts > 0 THEN "query" ELSE "send"
       IN
         \/ /\ cand[w].orig # NoConv
            /\ Goto(w, next)
            /\ UNCHANGED <<row, issued>>
         \/ /\ cand[w].orig = NoConv
            /\ k \in Conv
            /\ issued' = [issued EXCEPT ![c] = k]
            /\ row' = [row EXCEPT ![c].orig = k]
            /\ cand' = [cand EXCEPT ![w].orig = k]
            /\ pc' = [pc EXCEPT ![w] = next]
    /\ UNCHANGED <<aged, envVars, b2c, msgs, seen, jobVars, crashes>>

\* The status query answers with Safaricom's decision or with none at all:
\* pending, not found and a failed call all come back as null.
QueryAnswer(w, settled, failed) ==
    LET outcome == b2c[cand[w].c][cand[w].orig] IN
      \/ outcome = "settled" /\ Goto(w, settled)
      \/ outcome = "failed" /\ Goto(w, failed)

ConfirmBeforeSend(w) ==
    /\ pc[w] = "query"
    /\ QueryAnswer(w, "settle", "dead") \/ Goto(w, "send")
    /\ UNCHANGED <<rowVars, envVars, safVars, jobVars, crashes>>

\* The B2C call.  Safaricom knows a conversation id once it accepted it and
\* rejects it the second time; a call can fail before or after acceptance.
Send(w) ==
    /\ pc[w] = "send"
    /\ LET c == cand[w].c
           k == cand[w].orig
       IN
         \/ /\ b2c[c][k] = "unknown"
            /\ b2c' = [b2c EXCEPT ![c][k] = "accepted"]
            /\ \E l \in {"accepted", "error"} : Goto(w, l)
         \/ /\ b2c[c][k] # "unknown"
            /\ Goto(w, "duplicate")
            /\ UNCHANGED b2c
         \/ /\ Goto(w, "error")
            /\ UNCHANGED b2c
    /\ UNCHANGED <<rowVars, envVars, issued, msgs, seen, jobVars, crashes>>

\* Takes acceptance for settlement.
RecordSubmissionBug(w) ==
    /\ pc[w] = "accepted"
    /\ LET c == cand[w].c IN
         \/ /\ Claims(c, {"PROCESSING"})
            /\ row' = [row EXCEPT ![c].submitted = TRUE, ![c].status = "PAID"]
            /\ aged' = [aged EXCEPT ![c] = FALSE]
         \/ ~Claims(c, {"PROCESSING"}) /\ UNCHANGED rowVars
    /\ Goto(w, "confirm")
    /\ UNCHANGED <<envVars, safVars, jobVars, crashes>>

\* named: the answer names Safaricom's ConversationID, which the client
\* treats as optional.
RecordSubmission(w) ==
    /\ pc[w] = "accepted"
    /\ LET c == cand[w].c IN
         \/ /\ Claims(c, {"PROCESSING"})
            /\ \E named \in BOOLEAN :
                 row' = [row EXCEPT ![c].submitted = @ \/ named,
                                    ![c].note = "null",
                                    ![c].attempts =
                                        NextAttempt(cand[w].attempts)]
            /\ aged' = [aged EXCEPT ![c] = FALSE]
         \/ ~Claims(c, {"PROCESSING"}) /\ UNCHANGED rowVars
    /\ Goto(w, "confirm")
    /\ UNCHANGED <<envVars, safVars, jobVars, crashes>>

ConfirmAfterSend(w) ==
    /\ pc[w] = "confirm"
    /\ QueryAnswer(w, "settleSent", "deadSent") \/ Done(w)
    /\ UNCHANGED <<rowVars, envVars, safVars, jobVars, crashes>>

\* recorder.markPaid
MarkPaid(w) ==
    /\ pc[w] \in {"settle", "settleSent"}
    /\ LET c == cand[w].c IN
         \/ /\ Claims(c, Unsettled)
            /\ row' = [row EXCEPT ![c].status = "PAID", ![c].submitted = TRUE,
                                  ![c].note = "null"]
            /\ aged' = [aged EXCEPT ![c] = FALSE]
         \/ ~Claims(c, Unsettled) /\ UNCHANGED rowVars
    /\ Done(w)
    /\ UNCHANGED <<envVars, safVars, jobVars, crashes>>

\* A database error after Safaricom accepted is caught with the send's own
\* errors and recorded as a failed attempt.
RecordFails(w) ==
    /\ pc[w] \in {"accepted", "settleSent", "deadSent"}
    /\ Goto(w, "error")
    /\ UNCHANGED <<rowVars, envVars, safVars, jobVars, crashes>>

\* recorder.markDeadLettered
DeadLetter(c, n) ==
    \/ /\ Claims(c, Unsettled)
       /\ row' = [row EXCEPT ![c].status = "FAILED", ![c].attempts = n,
                             ![c].note = "other"]
       /\ aged' = [aged EXCEPT ![c] = FALSE]
    \/ ~Claims(c, Unsettled) /\ UNCHANGED rowVars

\* Safaricom reported the earlier submission as failed.
MarkDeadLettered(w) ==
    /\ pc[w] \in {"dead", "deadSent"}
    /\ DeadLetter(cand[w].c, IF pc[w] = "dead" THEN cand[w].attempts
                             ELSE NextAttempt(cand[w].attempts))
    /\ Done(w)
    /\ UNCHANGED <<envVars, safVars, jobVars, crashes>>

RecordDuplicate(w) ==
    /\ pc[w] = "duplicate"
    /\ LET c == cand[w].c IN
         \/ /\ Claims(c, {"PROCESSING"})
            /\ row' = [row EXCEPT ![c].attempts = NextAttempt(cand[w].attempts),
                                  ![c].note = "other"]
            /\ aged' = [aged EXCEPT ![c] = FALSE]
         \/ ~Claims(c, {"PROCESSING"}) /\ UNCHANGED rowVars
    /\ Done(w)
    /\ UNCHANGED <<envVars, safVars, jobVars, crashes>>

\* Counts the attempt that is still left as the last one.
RecordSendFailureBug(w) ==
    /\ pc[w] = "error"
    /\ LET n == NextAttempt(cand[w].attempts) IN
         \/ n >= MaxAttempts - 1 /\ DeadLetter(cand[w].c, n)
         \/ n < MaxAttempts - 1 /\ UNCHANGED rowVars
    /\ Done(w)
    /\ UNCHANGED <<envVars, safVars, jobVars, crashes>>

\* recordSendFailure for any other error: dead-letter at the last attempt,
\* back to DUE before it.
RecordSendFailure(w) ==
    /\ pc[w] = "error"
    /\ LET c == cand[w].c
           n == NextAttempt(cand[w].attempts)
       IN
         \/ n >= MaxAttempts /\ DeadLetter(c, n)
         \/ /\ n < MaxAttempts /\ Claims(c, {"PROCESSING"})
            /\ row' = [row EXCEPT ![c].status = "DUE", ![c].attempts = n,
                                  ![c].note = "other"]
            /\ aged' = [aged EXCEPT ![c] = FALSE]
         \/ /\ n < MaxAttempts /\ ~Claims(c, {"PROCESSING"})
            /\ UNCHANGED rowVars
    /\ Done(w)
    /\ UNCHANGED <<envVars, safVars, jobVars, crashes>>

\* The replica dies, or a statement outside the try throws: the worker's
\* run is over, the rows stay as they are and the advisory lock goes with
\* the session.
Crash(w) ==
    /\ pc[w] # "idle"
    /\ crashes < MaxCrashes
    /\ crashes' = crashes + 1
    /\ pc' = [pc EXCEPT ![w] = "idle"]
    /\ cand' = [cand EXCEPT ![w] = NoCandidate]
    /\ IF w = Job THEN todo' = {} /\ batch' = {} ELSE UNCHANGED jobVars
    /\ UNCHANGED <<rowVars, envVars, safVars>>

-----------------------------------------------------------------------------
(* Safaricom: outside the repository, modelled from how the code uses it *)

Report(kind, c, k) == msgs' = msgs \cup {[kind |-> kind, c |-> c, k |-> k]}

SettlePayout(c, k) ==
    /\ b2c[c][k] = "accepted"
    /\ \/ /\ b2c' = [b2c EXCEPT ![c][k] = "settled"]
          /\ Report("success", c, k)
       \/ /\ b2c' = [b2c EXCEPT ![c][k] = "failed"]
          /\ Report("failure", c, k)
    /\ UNCHANGED <<rowVars, envVars, issued, seen, jobVars, wrkVars, crashes>>

\* The queue gives up on a request, which it then forgets or still carries
\* out late; once per conversation.
ExpirePayout(c, k) ==
    /\ b2c[c][k] = "accepted"
    /\ [kind |-> "timeout", c |-> c, k |-> k] \notin msgs
    /\ \E s \in {"unknown", "accepted"} : b2c' = [b2c EXCEPT ![c][k] = s]
    /\ Report("timeout", c, k)
    /\ UNCHANGED <<rowVars, envVars, issued, seen, jobVars, wrkVars, crashes>>

-----------------------------------------------------------------------------
(* The callbacks: commission-callback.service.ts, commission-timeout       *)
(* .service.ts.  The row is found by its conversation id; the claim decides *)
(* whatever the first read saw.                                            *)

OnSuccess(c) ==
    /\ row' = [row EXCEPT ![c].status = "PAID", ![c].submitted = TRUE,
                          ![c].note = "null"]
    /\ aged' = [aged EXCEPT ![c] = FALSE]

OnFailure(c) ==
    /\ row' = [row EXCEPT ![c].status = "FAILED", ![c].note = "other"]
    /\ aged' = [aged EXCEPT ![c] = FALSE]

\* lastAttemptAt keeps its value.
OnTimeout(c) ==
    /\ row' = [row EXCEPT ![c].status = "DUE", ![c].note = "other"]
    /\ UNCHANGED aged

\* Finds the row and forgets to ask for its status.
MatchesBug(m) == row[m.c].orig = m.k

Matches(m) ==
    /\ row[m.c].orig = m.k
    /\ Claims(m.c, IF m.kind = "timeout" THEN {"PROCESSING"} ELSE Unsettled)

Deliver(m) ==
    /\ m \in msgs
    /\ seen' = seen \cup {m}
    /\ \/ Matches(m) /\ m.kind = "success" /\ OnSuccess(m.c)
       \/ Matches(m) /\ m.kind = "failure" /\ OnFailure(m.c)
       \/ Matches(m) /\ m.kind = "timeout" /\ OnTimeout(m.c)
       \/ ~Matches(m) /\ UNCHANGED rowVars
    /\ UNCHANGED <<envVars, issued, b2c, msgs, jobVars, wrkVars, crashes>>

-----------------------------------------------------------------------------
(* Disputes, refunds and the clock *)

\* From its look at the dispute on, a worker no longer hears of a new one.
BeforeSend == {"ensure", "query", "send"}
UnderWay(c) == \/ \E w \in Worker : pc[w] \in BeforeSend /\ cand[w].c = c
               \/ \E k \in Conv : b2c[c][k] \in {"accepted", "settled"}

Open(c) ==
    /\ dispute' = [dispute EXCEPT ![c] = "open"]
    /\ stopped' = IF UnderWay(c) THEN stopped ELSE stopped \cup {c}
    /\ UNCHANGED <<rowVars, refund, reachable, safVars, jobVars, wrkVars, crashes>>

\* One dispute per unlock.
OpenDispute(c) == dispute[c] = "none" /\ Open(c)

EndDispute(c) ==
    /\ dispute[c] = "open"
    /\ dispute' = [dispute EXCEPT ![c] = "over"]
    /\ stopped' = stopped \ {c}
    /\ UNCHANGED <<rowVars, refund, reachable, safVars, jobVars, wrkVars, crashes>>

\* A request to investigate that read the dispute before its end writes after
\* it, and its update asks for nothing but the id.
ReopenDispute(c) == dispute[c] = "over" /\ Open(c)

\* The refund transaction reads the commission with the unlock and gives up
\* on a paid one ...
RefundRead(c) ==
    /\ refund[c] = "no"
    /\ row[c].status # "PAID"
    /\ refund' = [refund EXCEPT ![c] = "read"]
    /\ UNCHANGED <<rowVars, dspVars, reachable, safVars, jobVars, wrkVars, crashes>>

\* ... and cancels it with a plain update when it commits.
RefundCommit(c) ==
    /\ refund[c] = "read"
    /\ refund' = [refund EXCEPT ![c] = "done"]
    /\ row' = [row EXCEPT ![c].status = "CANCELLED", ![c].note = "other"]
    /\ UNCHANGED <<aged, dspVars, reachable, safVars, jobVars, wrkVars, crashes>>

\* Time passes over a PROCESSING row nobody works on: a worker is through
\* with a row in minutes (three HTTP calls of 15 s), the sweep runs daily and
\* its limits are 30 minutes and 24 hours.
Age(c) ==
    /\ row[c].status = "PROCESSING"
    /\ ~aged[c]
    /\ ~Held(c)
    /\ aged' = [aged EXCEPT ![c] = TRUE]
    /\ UNCHANGED <<row, envVars, safVars, jobVars, wrkVars, crashes>>

-----------------------------------------------------------------------------
JobStep == \/ StartRun \/ RecoverStaleUnsent \/ PromoteEligible
           \/ FlagOverdue \/ ListDue \/ TakeNext \/ EndRun

ProcessStep(w) ==
    \/ ClaimDue(w) \/ ReadDispute(w) \/ ReleaseForDispute(w)
    \/ EnsureConversation(w) \/ ConfirmBeforeSend(w) \/ Send(w)
    \/ RecordSubmission(w) \/ ConfirmAfterSend(w) \/ MarkPaid(w)
    \/ RecordFails(w) \/ MarkDeadLettered(w) \/ RecordDuplicate(w)
    \/ RecordSendFailure(w)

WorkerStep(w) == RetryRead(w) \/ RetryFlip(w) \/ ProcessStep(w) \/ Crash(w)

SafaricomStep(c, k) == SettlePayout(c, k) \/ ExpirePayout(c, k)

RowStep(c) == \/ OpenDispute(c) \/ EndDispute(c) \/ ReopenDispute(c)
              \/ RefundRead(c) \/ RefundCommit(c) \/ Age(c)

Next ==
    \/ JobStep
    \/ \E w \in Worker : WorkerStep(w)
    \/ \E c \in Commission, k \in Conv : SafaricomStep(c, k)
    \/ \E m \in Message : Deliver(m)
    \/ \E c \in Commission : RowStep(c)

Spec == Init /\ [][Next]_vars

DeliverFirst(m) == m \notin seen /\ Deliver(m)

\* The cron fires daily and a run goes on once started; a request goes on
\* once started; Safaricom decides what it accepted and delivers each
\* callback once; disputes get resolved; time passes.  Crashes, retries,
\* refunds and expiries need not happen.
Fairness ==
    /\ WF_vars(JobStep \/ ProcessStep(Job))
    /\ \A w \in Admin : WF_vars(RetryFlip(w) \/ ProcessStep(w))
    /\ \A c \in Commission : /\ WF_vars(EndDispute(c))
                            /\ WF_vars(Age(c))
    /\ \A c \in Commission, k \in Conv : WF_vars(SettlePayout(c, k))
    /\ \A m \in Message : WF_vars(DeliverFirst(m))

FairSpec == Spec /\ Fairness

-----------------------------------------------------------------------------
(* Properties *)

Settled(c) == {k \in Conv : b2c[c][k] = "settled"}
Decided(c) == row[c].status \in {"PAID", "FAILED", "CANCELLED"}

\* Safaricom pays a commission at most once, whatever crashes, retries,
\* requeues and duplicate callbacks happen: every send of a commission
\* carries the one conversation id Safaricom dedupes on
\* (processor.ensureOriginatorConversationId).
AtMostOnePayout == \A c \in Commission : \A j, k \in Settled(c) : j = k

\* A row says PAID only when the money has moved: acceptance of the B2C call
\* is not settlement (processor.process, confirmer.confirmFromQuery,
\* handleB2CResult).
PaidIsSettled ==
    \A c \in Commission : row[c].status = "PAID" => row[c].orig \in Settled(c)

\* A dispute filed, or opened again, while no worker is past its look at the
\* dispute and Safaricom has accepted nothing holds the money back until it
\* ends, whatever the sweep that listed the row before it, an operator's
\* retry, recoveries, crashes and late callbacks do (processor.process,
\* processCommissionPayouts).  One that comes later comes too late.
DisputeHoldsPayout ==
    \A c \in stopped :
        /\ row[c].status # "PAID"
        /\ \A k \in Conv : b2c[c][k] \notin {"accepted", "settled"}

\* A payout is dead-lettered only for a failure Safaricom reported or after
\* the last attempt (recordSendFailure, markDeadLettered, the callback).
DeadLetterJustified ==
    \A c \in Commission :
        row[c].status = "FAILED" => \/ row[c].attempts = MaxAttempts
                                    \/ b2c[c][row[c].orig] = "failed"

\* Seen from outside, every row between the claim and its outcome waits for
\* its payout.
View(c) == IF row[c].status \in {"PAID", "CANCELLED"} THEN row[c].status
                                                     ELSE "PENDING"

\* The payout keeps to a commission row as CommissionRow has it and the other
\* modules use it: whatever callbacks, retries, recoveries and crashes
\* overlap, a paid row is not paid again, and a paid or cancelled one waits
\* again only by the release for a dispute of its unlock.
R == INSTANCE CommissionRow WITH
        status <- [c \in Commission |-> View(c)],
        disputed <- {c \in Commission : dispute[c] # "none"}

ImplementsCommissionRow == R!Spec

\* No claim-guarded write takes a PAID row back: only the processor's
\* release for a dispute and the refund, both plain updates, can.
OnlyPlainUpdatesUnsettle ==
    [][\A c \in Commission :
         row[c].status = "PAID" /\ row'[c].status # "PAID"
           => \/ \E w \in Worker : ReleaseForDispute(w) /\ cand[w].c = c
              \/ RefundCommit(c)]_vars

\* Safaricom redelivers a callback finitely often, and moderators' late
\* requests reopen disputes finitely often.
FiniteRepeats == <>[][/\ \A m \in seen : ~Deliver(m)
                      /\ \A c \in Commission : ~ReopenDispute(c)]_vars

ResultSeen(c) == \E m \in seen : m.c = c /\ m.kind # "timeout"

\* A due commission Safaricom has not reported on is decided (paid or
\* dead-lettered) unless a refund takes over.  The one exception is a crash
\* over a row that Safaricom's queue timed out: the requeued row still looks
\* submitted, so no sweep recovers it and no callback is due.  Holds
\* where no operator retries.
DueIsDecided ==
    FiniteRepeats =>
      \A c \in Commission :
        c \in reachable /\ row[c].status = "DUE" /\ ~ResultSeen(c)
          ~> \/ Decided(c)
             \/ refund[c] # "no"
             \/ crashes > 0 /\ \E m \in msgs : m.kind = "timeout" /\ m.c = c

\* A commission whose poster has no phone number does not stay PROCESSING:
\* a later sweep takes the claim back (processor.process "skipped",
\* recoverStaleUnsentCommissions).
SkippedIsRequeued ==
    \A c \in Commission :
        c \notin reachable /\ row[c].status = "PROCESSING"
          ~> row[c].status # "PROCESSING"

-----------------------------------------------------------------------------
(* Statements of the code's comments that the code does not keep *)

\* Docs/02_Database_Schema.md:149 "CANCELLED // Unlock was refunded": the
\* commission of a refunded unlock stays cancelled.
RefundedIsCancelled ==
    \A c \in Commission : refund[c] = "done" => row[c].status = "CANCELLED"
=============================================================================
