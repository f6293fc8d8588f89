--------------------------- MODULE ReferralProofs ---------------------------
(***************************************************************************)
(* Referral is type correct, grants a bonus once however sweeps overlap,   *)
(* and its advisory lock is held for a running sweep or known to leak.     *)
(***************************************************************************)
EXTENDS Referral, TLAPS

\* A sweep is about to reward only whom it saw buy; who bought is a member.
Bought ==
    /\ buyers \subseteq members
    /\ \A r \in Replica : pc[r] = "reward" =>
         paying[r] \in Invite /\ InviteeOf(paying[r]) \in buyers

\* A sweep that knows its session holds the lock on it; a session that holds
\* it more often than its one sweep knows has leaked it.
LockInv ==
    /\ IF lock.conn = Null THEN lock.count = 0 ELSE lock.count > 0
    /\ \A r \in Replica : took[r] # Null =>
         Running(r) /\ took[r] \in Pool(r) /\ lock.conn = took[r]
    /\ lock.conn # Null =>
         \/ lock.conn \in leaks
         \/ lock.count = 1 /\ \E r \in Replica : took[r] = lock.conn

IInv == TypeOK /\ Bought /\ RewardedOnce /\ LockInv

LEMMA InitInv == Init => IInv
  BY ReferralAssumption
  DEF Init, IInv, TypeOK, Bought, RewardedOnce, LockInv, Free, Running

-----------------------------------------------------------------------------
(* One lemma per action *)

LEMMA CreateReferralInv ==
    ASSUME IInv, NEW i \in Invite, CreateReferral(i)
    PROVE  IInv'
  <1> USE ReferralAssumption
      DEF IInv, userVars, jobVars, CreateReferral
  <1>1. TypeOK'
    BY DEF TypeOK, Free, Pool
  <1>2. Bought'
    BY DEF Bought, TypeOK, InviteeOf
  <1>3. RewardedOnce'
    BY DEF RewardedOnce, Bought, TypeOK, InviteeOf
  <1>4. LockInv'
    BY DEF LockInv, TypeOK, Running, Pool, Free
  <1>5. QED
    BY <1>1, <1>2, <1>3, <1>4

LEMMA VerifyOtpInv ==
    ASSUME IInv, NEW p \in Person, VerifyOtp(p)
    PROVE  IInv'
  <1> USE ReferralAssumption
      DEF IInv, userVars, jobVars, VerifyOtp
  <1>1. TypeOK'
    BY DEF TypeOK, Free, Pool
  <1>2. Bought'
    BY DEF Bought, TypeOK, InviteeOf
  <1>3. RewardedOnce'
    BY DEF RewardedOnce, Bought, TypeOK, InviteeOf
  <1>4. LockInv'
    BY DEF LockInv, TypeOK, Running, Pool, Free
  <1>5. QED
    BY <1>1, <1>2, <1>3, <1>4

LEMMA CompletePurchaseInv ==
    ASSUME IInv, NEW p \in Person, CompletePurchase(p)
    PROVE  IInv'
  <1> USE ReferralAssumption
      DEF IInv, userVars, jobVars, CompletePurchase
  <1>1. TypeOK'
    BY DEF TypeOK, Free, Pool
  <1>2. Bought'
    BY DEF Bought, TypeOK, InviteeOf
  <1>3. RewardedOnce'
    BY DEF RewardedOnce, Bought, TypeOK, InviteeOf
  <1>4. LockInv'
    BY DEF LockInv, TypeOK, Running, Pool, Free
  <1>5. QED
    BY <1>1, <1>2, <1>3, <1>4

LEMMA TryAdvisoryLockInv ==
    ASSUME IInv, NEW r \in Replica, TryAdvisoryLock(r)
    PROVE  IInv'
  <1> USE ReferralAssumption
      DEF IInv, userVars, jobVars, TryAdvisoryLock, Grantable
  <1>1. TypeOK'
    BY DEF TypeOK, Free, Pool
  <1>2. Bought'
    BY DEF Bought, TypeOK, InviteeOf
  <1>3. RewardedOnce'
    BY DEF RewardedOnce, Bought, TypeOK, InviteeOf
  <1>4. LockInv'
    BY DEF LockInv, TypeOK, Running, Pool, Free
  <1>5. QED
    BY <1>1, <1>2, <1>3, <1>4

LEMMA ReleaseAdvisoryLockInv ==
    ASSUME IInv, NEW r \in Replica, ReleaseAdvisoryLock(r)
    PROVE  IInv'
  <1> USE ReferralAssumption
      DEF IInv, userVars, jobVars, ReleaseAdvisoryLock, Unlocked,
          Leak, Return
  <1>1. TypeOK'
    <2>1. lock' \in [conn : Conn \cup {Null}, count : Nat]
      <3>1. [conn |-> Null, count |-> 0]
              \in [conn : Conn \cup {Null}, count : Nat]
        OBVIOUS
      <3>2. lock.count \in Nat /\ (lock.conn # Null => lock.count > 0)
        BY DEF TypeOK, LockInv
      <3>3. lock.conn # Null =>
              [lock EXCEPT !.count = lock.count - 1]
                \in [conn : Conn \cup {Null}, count : Nat]
        BY <3>2 DEF TypeOK
      <3>4. Null \notin Conn
        OBVIOUS
      <3>5. QED
        BY <3>1, <3>3, <3>4 DEF TypeOK, Free, Pool
    <2>2. leaks' \subseteq Conn
      BY DEF TypeOK, Pool
    <2>3. pc' \in [Replica -> {"idle", "list", "check", "reward", "release"}]
            /\ took' \in [Replica -> Conn \cup {Null}]
      BY DEF TypeOK
    <2>4. QED
      BY <2>1, <2>2, <2>3 DEF TypeOK
  <1>2. Bought'
    BY DEF Bought, TypeOK, InviteeOf
  <1>3. RewardedOnce'
    BY DEF RewardedOnce, Bought, TypeOK, InviteeOf
  <1>4. LockInv'
    BY DEF LockInv, TypeOK, Running, Pool, Free
  <1>5. QED
    BY <1>1, <1>2, <1>3, <1>4

LEMMA ReleaseFailsInv ==
    ASSUME IInv, NEW r \in Replica, ReleaseFails(r)
    PROVE  IInv'
  <1> USE ReferralAssumption
      DEF IInv, userVars, jobVars, ReleaseFails, Leak, Return
  <1>1. TypeOK'
    BY DEF TypeOK, Free, Pool
  <1>2. Bought'
    BY DEF Bought, TypeOK, InviteeOf
  <1>3. RewardedOnce'
    BY DEF RewardedOnce, Bought, TypeOK, InviteeOf
  <1>4. LockInv'
    BY DEF LockInv, TypeOK, Running, Pool, Free
  <1>5. QED
    BY <1>1, <1>2, <1>3, <1>4

LEMMA DisconnectInv ==
    ASSUME IInv, NEW c \in Conn, Disconnect(c)
    PROVE  IInv'
  <1> USE ReferralAssumption
      DEF IInv, userVars, jobVars, Disconnect
  <1>1. TypeOK'
    BY DEF TypeOK, Free, Pool
  <1>2. Bought'
    BY DEF Bought, TypeOK, InviteeOf
  <1>3. RewardedOnce'
    BY DEF RewardedOnce, Bought, TypeOK, InviteeOf
  <1>4. LockInv'
    BY DEF LockInv, TypeOK, Running, Pool, Free
  <1>5. QED
    BY <1>1, <1>2, <1>3, <1>4

LEMMA ListEligibleInv ==
    ASSUME IInv, NEW r \in Replica, ListEligible(r)
    PROVE  IInv'
  <1> USE ReferralAssumption
      DEF IInv, userVars, jobVars, ListEligible, Batches, Pending
  <1>1. TypeOK'
    BY DEF TypeOK, Free, Pool
  <1>2. Bought'
    BY DEF Bought, TypeOK, InviteeOf
  <1>3. RewardedOnce'
    BY DEF RewardedOnce, Bought, TypeOK, InviteeOf
  <1>4. LockInv'
    BY DEF LockInv, TypeOK, Running, Pool, Free
  <1>5. QED
    BY <1>1, <1>2, <1>3, <1>4

LEMMA CheckPurchaseInv ==
    ASSUME IInv, NEW r \in Replica, CheckPurchase(r)
    PROVE  IInv'
  <1> USE ReferralAssumption
      DEF IInv, userVars, jobVars, CheckPurchase, HasPurchased
  <1>1. TypeOK'
    <2>1. todo' \in [Replica -> SUBSET Invite]
      BY DEF TypeOK
    <2>2. paying' \in [Replica -> Invite \cup {Null}]
      BY DEF TypeOK
    <2>3. pc' \in [Replica -> {"idle", "list", "check", "reward", "release"}]
      <3>1. \/ pc' = pc
            \/ pc' = [pc EXCEPT ![r] = "release"]
            \/ pc' = [pc EXCEPT ![r] = "reward"]
        OBVIOUS
      <3>2. QED
        BY <3>1 DEF TypeOK
    <2>4. QED
      BY <2>1, <2>2, <2>3 DEF TypeOK
  <1>2. Bought'
    BY DEF Bought, TypeOK, InviteeOf
  <1>3. RewardedOnce'
    BY DEF RewardedOnce, Bought, TypeOK, InviteeOf
  <1>4. LockInv'
    BY DEF LockInv, TypeOK, Running, Pool, Free
  <1>5. QED
    BY <1>1, <1>2, <1>3, <1>4

LEMMA RewardReferralInv ==
    ASSUME IInv, NEW r \in Replica, RewardReferral(r)
    PROVE  IInv'
  <1> USE ReferralAssumption
      DEF IInv, userVars, jobVars, RewardReferral, Proceed
  <1>1. TypeOK'
    <2>1. paying[r] \in Invite
      BY DEF Bought
    <2>2. status' \in [Invite -> {"none", "INVITED", "JOINED", "REWARDED"}]
      BY <2>1 DEF TypeOK
    <2>3. bonus' \in [Invite -> Nat]
      BY <2>1 DEF TypeOK
    <2>4. /\ paying' \in [Replica -> Invite \cup {Null}]
          /\ pc' \in [Replica -> {"idle", "list", "check", "reward", "release"}]
      BY DEF TypeOK
    <2>5. QED
      BY <2>2, <2>3, <2>4 DEF TypeOK
  <1>2. Bought'
    BY DEF Bought, TypeOK, InviteeOf
  <1>3. RewardedOnce'
    BY DEF RewardedOnce, Bought, TypeOK, InviteeOf
  <1>4. LockInv'
    BY DEF LockInv, TypeOK, Running, Pool, Free
  <1>5. QED
    BY <1>1, <1>2, <1>3, <1>4

LEMMA RewardFailsInv ==
    ASSUME IInv, NEW r \in Replica, RewardFails(r)
    PROVE  IInv'
  <1> USE ReferralAssumption
      DEF IInv, userVars, jobVars, RewardFails, Proceed
  <1>1. TypeOK'
    BY DEF TypeOK, Free, Pool
  <1>2. Bought'
    BY DEF Bought, TypeOK, InviteeOf
  <1>3. RewardedOnce'
    BY DEF RewardedOnce, Bought, TypeOK, InviteeOf
  <1>4. LockInv'
    BY DEF LockInv, TypeOK, Running, Pool, Free
  <1>5. QED
    BY <1>1, <1>2, <1>3, <1>4

LEMMA SweepAbortsInv ==
    ASSUME IInv, NEW r \in Replica, SweepAborts(r)
    PROVE  IInv'
  <1> USE ReferralAssumption
      DEF IInv, userVars, jobVars, SweepAborts
  <1>1. TypeOK'
    BY DEF TypeOK, Free, Pool
  <1>2. Bought'
    BY DEF Bought, TypeOK, InviteeOf
  <1>3. RewardedOnce'
    BY DEF RewardedOnce, Bought, TypeOK, InviteeOf
  <1>4. LockInv'
    BY DEF LockInv, TypeOK, Running, Pool, Free
  <1>5. QED
    BY <1>1, <1>2, <1>3, <1>4

LEMMA StutterInv ==
    ASSUME IInv, UNCHANGED vars
    PROVE  IInv'
  BY DEF vars, IInv, TypeOK, Bought, RewardedOnce, LockInv, Running, Pool,
         InviteeOf

LEMMA NextInv == IInv /\ [Next]_vars => IInv'
  BY CreateReferralInv, VerifyOtpInv, CompletePurchaseInv, TryAdvisoryLockInv,
     ReleaseAdvisoryLockInv, DisconnectInv, ListEligibleInv, CheckPurchaseInv,
     RewardReferralInv, RewardFailsInv, SweepAbortsInv, ReleaseFailsInv,
     StutterInv
  DEF Next, Sweep

LEMMA Inductive == Spec => []IInv
  BY InitInv, NextInv, PTL DEF Spec

-----------------------------------------------------------------------------
(* What follows *)

\* Type correctness of invitations, sweeps and the lock.
THEOREM TypeCorrect == Spec => []TypeOK
  <1>1. IInv => TypeOK
    BY DEF IInv
  <1>2. QED
    BY <1>1, Inductive, PTL

\* One bonus for a referral and none before its invitee bought, whatever the
\* lock lets overlap: the claim on the row decides.
THEOREM OnceRewarded == Spec => []RewardedOnce
  <1>1. IInv => RewardedOnce
    BY DEF IInv
  <1>2. QED
    BY <1>1, Inductive, PTL

\* Sweeps overlap after a lost session only, and a lock that no sweep runs
\* under was leaked by a release that failed or ran on another connection.
THEOREM LockAccounted == Spec => []LockIsAccounted
  <1>1. IInv => LockIsAccounted
    BY ReferralAssumption DEF IInv, LockInv, LockIsAccounted, Pool, TypeOK
  <1>2. QED
    BY <1>1, Inductive, PTL
=============================================================================
