------------------------- MODULE TradeKeyLock_proofs -------------------------
(***************************************************************************)
(* Proofs about TradeKeyLock for any number of processes and inodes.       *)
(***************************************************************************)
EXTENDS TradeKeyLock, TLAPS

\* The flock and the process that holds it point at each other, and whoever
\* has passed open() has a file.
LockInv ==
  /\ \A p \in Proc : pc[p] \in {"opened", "running"} => fd[p] \in Inode
  /\ \A p \in Proc : pc[p] = "running" => flock[fd[p]] = p
  /\ \A i \in Inode : flock[i] # NoProc =>
       pc[flock[i]] = "running" /\ fd[flock[i]] = i

\* Without the release code no path is unlinked: every open file is the one
\* the path names.
PathInv ==
  /\ \A p \in Proc : pc[p] # "unlocked"
  /\ \A p \in Proc : fd[p] # NoInode => fd[p] = path

-----------------------------------------------------------------------------
LEMMA InitTypeOK == Init => TypeOK
  BY DEF Init, TypeOK

LEMMA NextTypeOK == TypeOK /\ [Next]_vars => TypeOK'
<1> SUFFICES ASSUME TypeOK, [Next]_vars PROVE TypeOK'
  OBVIOUS
<1> USE DEF TypeOK
<1>1. ASSUME NEW p \in Proc, Open(p) PROVE TypeOK'
  BY <1>1 DEF Open
<1>2. ASSUME NEW p \in Proc, Acquire(p) PROVE TypeOK'
  BY <1>2 DEF Acquire
<1>3. ASSUME NEW p \in Proc, WriteFailed(p) \/ Refuse(p) PROVE TypeOK'
  BY <1>3 DEF WriteFailed, Refuse
<1>4. ASSUME NEW p \in Proc, ReleaseFlock(p) PROVE TypeOK'
  BY <1>4 DEF ReleaseFlock
<1>5. ASSUME NEW p \in Proc, ReleaseUnlink(p) PROVE TypeOK'
  BY <1>5 DEF ReleaseUnlink
<1>6. ASSUME NEW p \in Proc, Kill(p) PROVE TypeOK'
  BY <1>6 DEF Kill
<1>7. CASE UNCHANGED vars
  BY <1>7 DEF vars
<1> QED
  BY <1>1, <1>2, <1>3, <1>4, <1>5, <1>6, <1>7 DEF Next

(***************************************************************************)
(* The types of the lock's state, for every behaviour.                     *)
(***************************************************************************)
THEOREM LockTypeCorrect == Spec => []TypeOK
  BY InitTypeOK, NextTypeOK, PTL DEF Spec

-----------------------------------------------------------------------------
LEMMA NextLockInv == TypeOK /\ LockInv /\ [Next]_vars => LockInv'
<1> SUFFICES ASSUME TypeOK, LockInv, [Next]_vars PROVE LockInv'
  OBVIOUS
<1> USE LockAssumption DEF TypeOK, LockInv
<1>1. ASSUME NEW p \in Proc, Open(p) PROVE LockInv'
  BY <1>1 DEF Open
<1>2. ASSUME NEW p \in Proc, Acquire(p) PROVE LockInv'
  BY <1>2 DEF Acquire
<1>3. ASSUME NEW p \in Proc, WriteFailed(p) \/ Refuse(p) PROVE LockInv'
  BY <1>3 DEF WriteFailed, Refuse
<1>4. ASSUME NEW p \in Proc, ReleaseFlock(p) PROVE LockInv'
  BY <1>4 DEF ReleaseFlock
<1>5. ASSUME NEW p \in Proc, ReleaseUnlink(p) PROVE LockInv'
  BY <1>5 DEF ReleaseUnlink
<1>6. ASSUME NEW p \in Proc, Kill(p) PROVE LockInv'
  BY <1>6 DEF Kill
<1>7. CASE UNCHANGED vars
  BY <1>7 DEF vars
<1> QED
  BY <1>1, <1>2, <1>3, <1>4, <1>5, <1>6, <1>7 DEF Next

LEMMA LockInvariant == Spec => [](TypeOK /\ LockInv)
<1>1. Init => TypeOK /\ LockInv
  BY InitTypeOK DEF Init, LockInv
<1>2. TypeOK /\ LockInv /\ [Next]_vars => (TypeOK /\ LockInv)'
  BY NextTypeOK, NextLockInv
<1> QED
  BY <1>1, <1>2, PTL DEF Spec

(***************************************************************************)
(* Two running engines never have the same lock file open, whatever ends   *)
(* them: the holder of a file's flock is the one process that runs on it.  *)
(***************************************************************************)
THEOREM FileExclusion == Spec => []SameFileExclusive
<1>1. LockInv => SameFileExclusive
  BY DEF LockInv, SameFileExclusive
<1> QED
  BY <1>1, LockInvariant, PTL

(***************************************************************************)
(* A start that finds the flock taken finds another engine running: no     *)
(* crash, kill or release leaves a lock that nobody holds.                 *)
(***************************************************************************)
THEOREM NoStaleLock == Spec => RefusedOnlyWhileHeld
<1> DEFINE Justified ==
      \A p \in Proc : Refuse(p) => \E q \in Proc \ {p} : pc[q] = "running"
<1>1. TypeOK /\ LockInv => Justified
  <2> SUFFICES ASSUME TypeOK, LockInv, NEW p \in Proc, Refuse(p)
               PROVE \E q \in Proc \ {p} : pc[q] = "running"
    OBVIOUS
  <2> DEFINE q == flock[fd[p]]
  <2>1. fd[p] \in Inode /\ q # NoProc /\ pc[p] = "opened"
    BY DEF LockInv, Refuse
  <2>2. q \in Proc /\ pc[q] = "running"
    BY <2>1 DEF TypeOK, LockInv
  <2>3. q \in Proc \ {p}
    BY <2>1, <2>2
  <2> QED
    BY <2>2, <2>3
<1>2. TypeOK /\ LockInv /\ [Next]_vars => [Justified]_vars
  BY <1>1
<1> QED
  BY <1>2, LockInvariant, PTL DEF Spec, RefusedOnlyWhileHeld

-----------------------------------------------------------------------------
LEMMA NextPathInv ==
  ASSUME ~GracefulRelease
  PROVE  TypeOK /\ PathInv /\ [Next]_vars => PathInv'
<1> SUFFICES ASSUME TypeOK, PathInv, [Next]_vars PROVE PathInv'
  OBVIOUS
<1> USE LockAssumption DEF TypeOK, PathInv
<1>1. ASSUME NEW p \in Proc, Open(p) PROVE PathInv'
  <2>1. path # NoInode => path' = path
    BY <1>1 DEF Open
  <2>2. path = NoInode => \A q \in Proc : fd[q] = NoInode
    OBVIOUS
  <2> QED
    BY <1>1, <2>1, <2>2 DEF Open
<1>2. ASSUME NEW p \in Proc, Acquire(p) PROVE PathInv'
  BY <1>2 DEF Acquire
<1>3. ASSUME NEW p \in Proc, WriteFailed(p) \/ Refuse(p) PROVE PathInv'
  BY <1>3 DEF WriteFailed, Refuse
<1>4. ASSUME NEW p \in Proc PROVE ~ReleaseFlock(p) /\ ~ReleaseUnlink(p)
  BY DEF ReleaseFlock, ReleaseUnlink
<1>5. ASSUME NEW p \in Proc, Kill(p) PROVE PathInv'
  BY <1>5 DEF Kill
<1>6. CASE UNCHANGED vars
  BY <1>6 DEF vars
<1> QED
  BY <1>1, <1>2, <1>3, <1>4, <1>5, <1>6 DEF Next

(***************************************************************************)
(* The exclusion that acquire_gmo_trade_key_lock promises holds as long as *)
(* engines end only by being killed: it is the unlink of the release that  *)
(* the counterexample of the model checker needs.                          *)
(***************************************************************************)
THEOREM ExclusionWhenKilled ==
  ASSUME ~GracefulRelease
  PROVE  Spec => []MutualExclusion
<1>1. Init => PathInv
  BY DEF Init, PathInv
<1>2. TypeOK /\ PathInv /\ [Next]_vars => PathInv'
  BY NextPathInv
<1>3. TypeOK /\ LockInv /\ PathInv => MutualExclusion
  <2> SUFFICES ASSUME TypeOK, LockInv, PathInv, NEW p \in Proc, NEW q \in Proc,
                      pc[p] = "running", pc[q] = "running"
               PROVE p = q
    BY DEF MutualExclusion
  <2>1. fd[p] = path /\ fd[q] = path
    BY LockAssumption DEF LockInv, PathInv
  <2> QED
    BY <2>1 DEF LockInv
<1> QED
  BY <1>1, <1>2, <1>3, LockInvariant, PTL DEF Spec
=============================================================================
