---------------------------- MODULE TradeKeyLock ----------------------------
(***************************************************************************)
(* The lock file runtime/gmo_trade_key.lock that keeps two real-mode       *)
(* engines of one host from trading with the same GMO key.  Exclusion is   *)
(* an flock on the open file; a process that ends normally first drops the *)
(* flock and then unlinks the path, in two separate system calls.          *)
(*                                                                         *)
(* An inode stands for a file; the path names at most one of them.  A file *)
(* that was unlinked lives on while some process has it open.              *)
(***************************************************************************)
EXTENDS FiniteSets

CONSTANTS
  Proc,             \* engine processes of the host
  Inode,            \* file identities, reused when nothing refers to them
  NoInode,          \* the path names no file / no file is open
  NoProc,           \* nobody holds the flock
  GracefulRelease   \* whether processes may end through their release code

ASSUME LockAssumption ==
  /\ NoInode \notin Inode
  /\ NoProc \notin Proc
  /\ GracefulRelease \in BOOLEAN

VARIABLES
  pc,      \* "down", "opened", "running", "unlocked"
  fd,      \* the inode each process has open
  path,    \* the inode the path names
  flock    \* the process that holds the flock of each inode

vars == <<pc, fd, path, flock>>

TypeOK ==
  /\ pc \in [Proc -> {"down", "opened", "running", "unlocked"}]
  /\ fd \in [Proc -> Inode \cup {NoInode}]
  /\ path \in Inode \cup {NoInode}
  /\ flock \in [Inode -> Proc \cup {NoProc}]

Init ==
  /\ pc = [p \in Proc |-> "down"]
  /\ fd = [p \in Proc |-> NoInode]
  /\ path = NoInode
  /\ flock = [i \in Inode |-> NoProc]

Unused(i) == i # path /\ \A p \in Proc : fd[p] # i

\* open(path, "a+"): the file the path names, or a new one.
Open(p) ==
  /\ pc[p] = "down"
  /\ \E i \in Inode :
       /\ IF path = NoInode THEN Unused(i) ELSE i = path
       /\ fd' = [fd EXCEPT ![p] = i]
       /\ path' = i
  /\ pc' = [pc EXCEPT ![p] = "opened"]
  /\ UNCHANGED flock

\* Mutant: the lock file alone, without its flock.
Acquire_WithoutFlock(p) ==
  /\ pc[p] = "opened"
  /\ pc' = [pc EXCEPT ![p] = "running"]
  /\ UNCHANGED <<fd, path, flock>>

\* flock(LOCK_EX | LOCK_NB) succeeds and the diagnostic contents are written.
Acquire(p) ==
  /\ pc[p] = "opened"
  /\ flock[fd[p]] = NoProc
  /\ flock' = [flock EXCEPT ![fd[p]] = p]
  /\ pc' = [pc EXCEPT ![p] = "running"]
  /\ UNCHANGED <<fd, path>>

\* flock fails for another reason, or writing the contents fails: the file is
\* closed, which drops the flock, and the process exits.
WriteFailed(p) ==
  /\ pc[p] = "opened"
  /\ flock[fd[p]] = NoProc
  /\ pc' = [pc EXCEPT ![p] = "down"]
  /\ fd' = [fd EXCEPT ![p] = NoInode]
  /\ UNCHANGED <<path, flock>>

\* BlockingIOError: close the file and exit with the duplicate-start alert.
Refuse(p) ==
  /\ pc[p] = "opened"
  /\ flock[fd[p]] # NoProc
  /\ pc' = [pc EXCEPT ![p] = "down"]
  /\ fd' = [fd EXCEPT ![p] = NoInode]
  /\ UNCHANGED <<path, flock>>

\* Normal end, first half: LOCK_UN and close.
ReleaseFlock(p) ==
  /\ GracefulRelease
  /\ pc[p] = "running"
  /\ flock' = [flock EXCEPT ![fd[p]] = NoProc]
  /\ fd' = [fd EXCEPT ![p] = NoInode]
  /\ pc' = [pc EXCEPT ![p] = "unlocked"]
  /\ UNCHANGED path

\* Normal end, second half: unlink whatever file the path names by now.
ReleaseUnlink(p) ==
  /\ pc[p] = "unlocked"
  /\ path' = NoInode
  /\ pc' = [pc EXCEPT ![p] = "down"]
  /\ UNCHANGED <<fd, flock>>

\* Mutant: a kill that leaves the lock behind, as a pid file would.
Kill_KeepsLock(p) ==
  /\ pc[p] # "down"
  /\ fd' = [fd EXCEPT ![p] = NoInode]
  /\ pc' = [pc EXCEPT ![p] = "down"]
  /\ UNCHANGED <<path, flock>>

\* SIGKILL, power loss of the container: the kernel closes the file, which
\* drops the flock; the path is left behind.
Kill(p) ==
  /\ pc[p] # "down"
  /\ flock' = [i \in Inode |-> IF flock[i] = p THEN NoProc ELSE flock[i]]
  /\ fd' = [fd EXCEPT ![p] = NoInode]
  /\ pc' = [pc EXCEPT ![p] = "down"]
  /\ UNCHANGED path

Next == \E p \in Proc :
  \/ Open(p) \/ Acquire(p) \/ WriteFailed(p) \/ Refuse(p)
  \/ ReleaseFlock(p) \/ ReleaseUnlink(p) \/ Kill(p)

Spec == Init /\ [][Next]_vars

-----------------------------------------------------------------------------
(***************************************************************************)
(* What acquire_gmo_trade_key_lock promises: True is returned to one       *)
(* process at a time, so two engines never run with the trade key.  Holds  *)
(* as long as processes end by being killed; the two-step release of       *)
(* release_gmo_trade_key_lock breaks it.                                   *)
(***************************************************************************)
MutualExclusion ==
  \A p, q \in Proc : pc[p] = "running" /\ pc[q] = "running" => p = q

(***************************************************************************)
(* Two engines that run never have the same lock file open, however their  *)
(* starts, deaths and releases interleave: the exclusion of                *)
(* acquire_gmo_trade_key_lock is lost only when the path stops naming the  *)
(* file of a running engine.                                               *)
(***************************************************************************)
SameFileExclusive ==
  \A p, q \in Proc : pc[p] = "running" /\ pc[q] = "running" /\ fd[p] = fd[q] => p = q

(***************************************************************************)
(* A start finds the flock taken (BlockingIOError) only while another      *)
(* engine really runs: no way of dying, and no race with a release, leaves *)
(* a lock behind that keeps the next engine from starting.                 *)
(***************************************************************************)
RefusedOnlyWhileHeld ==
  [][\A p \in Proc : Refuse(p) => \E q \in Proc \ {p} : pc[q] = "running"]_vars
=============================================================================
