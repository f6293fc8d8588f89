------------------------------ MODULE Referral ------------------------------
(***************************************************************************)
(* Referrals from the invitation to the bonus, and the daily job that pays *)
(* them on one replica at a time: it takes an advisory lock of Postgres,   *)
(* which belongs to a session, through a pool of connections, so that the  *)
(* release may run on another session than the one that holds the lock.    *)
(***************************************************************************)
EXTENDS Integers, FiniteSets

CONSTANTS
    Person,    \* people; a person stands for his phone number too
    Founder,   \* those who are members from the start
    Invite,    \* invitations that may be sent: a referrer, an invitee
    Replica,   \* replicas of the API that run the job
    Conn,      \* database connections
    PoolOf,    \* the replica whose pool a connection belongs to
    Null,      \* "nobody", "nothing"
    BatchSize, \* referrals a sweep looks at
    MaxHolds,  \* bound on the times a session takes the lock
    MaxDrops,  \* bound on the sessions that end
    MaxFailures \* bound on the job's database calls that fail

ASSUME ReferralAssumption ==
    /\ Founder \subseteq Person
    /\ Invite \subseteq Person \X Person
    /\ PoolOf \in [Conn -> Replica]
    /\ BatchSize \in Nat \ {0}
    /\ MaxHolds \in Nat /\ MaxDrops \in Nat /\ MaxFailures \in Nat
    /\ Null \notin Person \cup Replica \cup Conn

\* A referral is identified by @@unique([referrerId, inviteePhoneHash]).
ReferrerOf(i) == i[1]
InviteeOf(i) == i[2]

VARIABLES
    status,    \* each referral: "none", "INVITED", "JOINED", "REWARDED"
    joinedAt,  \* when each was joined, by the links made before
    members,   \* people whose phone is verified
    buyers,    \* people with a completed purchase
    bonus,     \* bonuses granted for a referral
    lock,      \* the advisory lock: its session and how often it holds it
    pc,        \* what the job of a replica does next
    todo,      \* referrals its sweep has still to look at
    paying,    \* the one it is about to reward
    took,      \* the session it took the lock on; Null once that has ended
    leaks,     \* auxiliary: sessions that keep a lock no job is aware of
    now, drops, failures

userVars == <<status, joinedAt, members, buyers, bonus, now>>
jobVars == <<pc, todo, paying, took>>
vars == <<status, joinedAt, members, buyers, bonus, now, lock, pc, todo,
          paying, took, leaks, drops, failures>>

TypeOK ==
    /\ status \in [Invite -> {"none", "INVITED", "JOINED", "REWARDED"}]
    /\ joinedAt \in [Invite -> Nat] /\ now \in Nat
    /\ members \subseteq Person /\ buyers \subseteq Person
    /\ bonus \in [Invite -> Nat]
    /\ lock \in [conn : Conn \cup {Null}, count : Nat]
    /\ pc \in [Replica -> {"idle", "list", "check", "reward", "release"}]
    /\ todo \in [Replica -> SUBSET Invite]
    /\ paying \in [Replica -> Invite \cup {Null}]
    /\ took \in [Replica -> Conn \cup {Null}]
    /\ leaks \subseteq Conn
    /\ drops \in 0..MaxDrops /\ failures \in 0..MaxFailures

Free == [conn |-> Null, count |-> 0]

Init ==
    /\ status = [i \in Invite |-> "none"]
    /\ joinedAt = [i \in Invite |-> 0] /\ now = 0
    /\ members = Founder /\ buyers = {}
    /\ bonus = [i \in Invite |-> 0]
    /\ lock = Free
    /\ pc = [r \in Replica |-> "idle"]
    /\ todo = [r \in Replica |-> {}]
    /\ paying = [r \in Replica |-> Null]
    /\ took = [r \in Replica |-> Null]
    /\ leaks = {}
    /\ drops = 0 /\ failures = 0

-----------------------------------------------------------------------------
(* Members: referral.service.ts, registration.service.ts *)

\* createReferral: CANNOT_REFER_SELF, REFERRAL_ALREADY_SENT otherwise
CreateReferral(i) ==
    /\ ReferrerOf(i) \in members
    /\ ReferrerOf(i) # InviteeOf(i)
    /\ status[i] = "none"
    /\ status' = [status EXCEPT ![i] = "INVITED"]
    /\ UNCHANGED <<joinedAt, members, buyers, bonus, now, lock, jobVars, leaks,
                   drops, failures>>

\* verifyOtp, of a new account or with a recovery code, and then
\* linkPendingReferral: all invitations of the number join at one moment; or
\* the best-effort link fails.
VerifyOtp(p) ==
    LET linked == {i \in Invite : InviteeOf(i) = p /\ status[i] = "INVITED"}
    IN  /\ linked # {} \/ p \notin members
        /\ members' = members \cup {p}
        /\ \/ /\ status' = [i \in Invite |->
                              IF i \in linked THEN "JOINED" ELSE status[i]]
              /\ joinedAt' = [i \in Invite |->
                                IF i \in linked THEN now + 1 ELSE joinedAt[i]]
              /\ now' = now + 1
           \/ UNCHANGED <<status, joinedAt, now>>
        /\ UNCHANGED <<buyers, bonus, lock, jobVars, leaks, drops, failures>>

CompletePurchase(p) ==
    /\ p \in members \ buyers
    /\ buyers' = buyers \cup {p}
    /\ UNCHANGED <<status, joinedAt, members, bonus, now, lock, jobVars, leaks,
                   drops, failures>>

-----------------------------------------------------------------------------
(* The lock: advisory-lock.util.ts *)

Pool(r) == {c \in Conn : PoolOf[c] = r}

\* The job of the replica relies on the lock.
Running(r) == pc[r] # "idle"

\* pg_try_advisory_lock succeeds again on the session that has the lock.
Grantable(c) == lock.conn \in {Null, c}

TryAdvisoryLock(r) ==
    /\ pc[r] = "idle"
    /\ \E c \in Pool(r) :
         /\ Grantable(c)
         /\ lock.count < MaxHolds
         /\ lock' = [conn |-> c, count |-> lock.count + 1]
         /\ took' = [took EXCEPT ![r] = c]
    /\ pc' = [pc EXCEPT ![r] = "list"]
    /\ UNCHANGED <<userVars, todo, paying, leaks, drops, failures>>

Unlocked == IF lock.count = 1 THEN Free ELSE [lock EXCEPT !.count = @ - 1]

\* The job is over and its session keeps the lock.
Leak(r) ==
    /\ leaks' = IF took[r] = Null THEN leaks ELSE leaks \cup {took[r]}
    /\ UNCHANGED lock

Return(r) == /\ pc' = [pc EXCEPT ![r] = "idle"]
             /\ took' = [took EXCEPT ![r] = Null]

\* pg_advisory_unlock on a session without the lock returns false, which the
\* job does not look at.
ReleaseAdvisoryLock(r) ==
    /\ pc[r] = "release"
    /\ \E c \in Pool(r) : IF lock.conn = c
                          THEN lock' = Unlocked /\ UNCHANGED leaks
                          ELSE Leak(r)
    /\ Return(r)
    /\ UNCHANGED <<userVars, todo, paying, drops, failures>>

\* The release fails; the job warns of it and returns all the same.
ReleaseFails(r) ==
    /\ pc[r] = "release"
    /\ failures < MaxFailures
    /\ failures' = failures + 1
    /\ Leak(r)
    /\ Return(r)
    /\ UNCHANGED <<userVars, todo, paying, drops>>

\* A session ends: its locks are released, whether the job still runs or not.
Disconnect(c) ==
    /\ drops < MaxDrops
    /\ drops' = drops + 1
    /\ lock' = IF lock.conn = c THEN Free ELSE lock
    /\ took' = [r \in Replica |-> IF took[r] = c THEN Null ELSE took[r]]
    /\ leaks' = leaks \ {c}
    /\ UNCHANGED <<userVars, pc, todo, paying, failures>>

-----------------------------------------------------------------------------
(* The sweep: referral-reward.job.ts *)

Pending == {i \in Invite : status[i] = "JOINED"}

BatchesExclusiveBug ==
    {B \in SUBSET Pending :
       /\ Cardinality(B) < BatchSize
       /\ B # Pending => Cardinality(B) = BatchSize - 1
       /\ \A i \in B, j \in Pending \ B : joinedAt[i] <= joinedAt[j]}

\* take: the batch size, orderBy: joinedAt; of rows that joined at the same
\* moment the database takes any.
Batches ==
    {B \in SUBSET Pending :
       /\ Cardinality(B) <= BatchSize
       /\ B # Pending => Cardinality(B) = BatchSize
       /\ \A i \in B, j \in Pending \ B : joinedAt[i] <= joinedAt[j]}

ListEligible(r) ==
    /\ pc[r] = "list"
    /\ \E B \in Batches : todo' = [todo EXCEPT ![r] = B]
    /\ pc' = [pc EXCEPT ![r] = "check"]
    /\ UNCHANGED <<userVars, lock, paying, took, leaks, drops, failures>>

\* refereeHasCompletedPurchase
HasPurchased(i) == InviteeOf(i) \in buyers

\* The next referral of the batch; its order is of no account.
CheckPurchase(r) ==
    /\ pc[r] = "check"
    /\ IF todo[r] = {}
       THEN pc' = [pc EXCEPT ![r] = "release"] /\ UNCHANGED <<todo, paying>>
       ELSE \E i \in todo[r] :
              /\ todo' = [todo EXCEPT ![r] = @ \ {i}]
              /\ IF HasPurchased(i)
                 THEN /\ pc' = [pc EXCEPT ![r] = "reward"]
                      /\ paying' = [paying EXCEPT ![r] = i]
                 ELSE UNCHANGED <<pc, paying>>
    /\ UNCHANGED <<userVars, lock, took, leaks, drops, failures>>

Proceed(r) == /\ pc' = [pc EXCEPT ![r] = "check"]
              /\ paying' = [paying EXCEPT ![r] = Null]
              /\ UNCHANGED todo

RewardUnclaimedBug(r) ==
    LET i == paying[r]
    IN  /\ pc[r] = "reward"
        /\ status' = [status EXCEPT ![i] = "REWARDED"]
        /\ bonus' = [bonus EXCEPT ![i] = @ + 1]
        /\ Proceed(r)
        /\ UNCHANGED <<joinedAt, members, buyers, now, lock, took, leaks, drops,
                       failures>>

\* rewardReferral: the claim and the bonus commit together.
RewardReferral(r) ==
    LET i == paying[r]
        claimed == status[i] = "JOINED"
    IN  /\ pc[r] = "reward"
        /\ status' = [status EXCEPT ![i] = IF claimed THEN "REWARDED" ELSE @]
        /\ bonus' = [bonus EXCEPT ![i] = IF claimed THEN @ + 1 ELSE @]
        /\ Proceed(r)
        /\ UNCHANGED <<joinedAt, members, buyers, now, lock, took, leaks, drops,
                       failures>>

\* The transaction fails; the sweep counts it and goes on.
RewardFails(r) ==
    /\ pc[r] = "reward"
    /\ failures < MaxFailures
    /\ failures' = failures + 1
    /\ Proceed(r)
    /\ UNCHANGED <<userVars, lock, took, leaks, drops>>

\* Forgets the lock, as if no "finally" led to its release.
SweepAbortsUnreleasedBug(r) ==
    /\ pc[r] \in {"list", "check"}
    /\ failures < MaxFailures
    /\ failures' = failures + 1
    /\ todo' = [todo EXCEPT ![r] = {}]
    /\ Return(r)
    /\ UNCHANGED <<userVars, lock, paying, leaks, drops>>

\* The list of the referrals or the look at an invitee's purchases fails,
\* which nothing catches: the sweep ends there and the lock is released.
SweepAborts(r) ==
    /\ pc[r] \in {"list", "check"}
    /\ failures < MaxFailures
    /\ failures' = failures + 1
    /\ pc' = [pc EXCEPT ![r] = "release"]
    /\ todo' = [todo EXCEPT ![r] = {}]
    /\ UNCHANGED <<userVars, lock, paying, took, leaks, drops>>

Sweep(r) == \/ ListEligible(r) \/ CheckPurchase(r) \/ RewardReferral(r)
            \/ RewardFails(r) \/ SweepAborts(r)
            \/ ReleaseAdvisoryLock(r) \/ ReleaseFails(r)

Next ==
    \/ \E i \in Invite : CreateReferral(i)
    \/ \E p \in Person : VerifyOtp(p) \/ CompletePurchase(p)
    \/ \E r \in Replica : TryAdvisoryLock(r) \/ Sweep(r)
    \/ \E c \in Conn : Disconnect(c)

Spec == Init /\ [][Next]_vars

\* Each replica's cron fires every day and a sweep runs to its end.
FairSpec ==
    /\ Spec
    /\ \A r \in Replica : SF_vars(TryAdvisoryLock(r)) /\ WF_vars(Sweep(r))

-----------------------------------------------------------------------------
(* What holds *)

\* However the lock fails, a referral's bonus is granted once, with its status,
\* and never before the invitee bought.
RewardedOnce ==
    \A i \in Invite :
        /\ bonus[i] = IF status[i] = "REWARDED" THEN 1 ELSE 0
        /\ status[i] = "REWARDED" => InviteeOf(i) \in members \cap buyers

\* Two sweeps overlap only after the session of one of them has ended; and no
\* lock is forgotten: one that is taken belongs to the session of a running
\* job, aborted or not (runReferralRewardsWithLock's "finally"), or to one
\* whose release failed or ran on another connection of the pool.
LockIsAccounted ==
    /\ \A r, s \in Replica :
         r # s /\ Running(r) /\ Running(s) => took[r] = Null \/ took[s] = Null
    /\ lock.conn # Null =>
         lock.conn \in leaks \/ \E r \in Replica : took[r] = lock.conn

\* A batch of referrals that nobody rewards joined no later than this one.
Crowded(i) ==
    Cardinality({j \in Pending \ {i} : joinedAt[j] <= joinedAt[i]}) >= BatchSize

\* A referral whose invitee bought is rewarded unless the batch stays full of
\* older ones whose invitees never buy or the lock leaks for good.
DueIsRewarded ==
    \A i \in Invite :
        (<>[](leaks = {} /\ ~Crowded(i))) =>
            ((status[i] = "JOINED" /\ InviteeOf(i) \in buyers)
               ~> (status[i] = "REWARDED"))
=============================================================================
