------------------------------ MODULE HostLock ------------------------------
(***************************************************************************)
(* internal/lock/lock.go: the machine-wide lock of `runner run`,           *)
(* `runner doctor --fix` and `runner scaleset delete`.                     *)
(*                                                                         *)
(* The lock is a flock on the inode a path names at the time it is opened, *)
(* so the path, the descriptors and the locks are modelled apart.  Nobody  *)
(* but a contender touches the path.  What the file contains (Info) is     *)
(* only printed and left out.                                              *)
(***************************************************************************)
EXTENDS Naturals, FiniteSets

CONSTANT Contenders     \* processes that want the lock, each of them once

VARIABLES
    path,       \* inode the path names, 0 when there is none
    inodes,     \* inodes made so far
    fd,         \* inode each contender has open, 0 when it has none
    attempts,   \* rounds of openLockFile
    holding,    \* contenders whose flock is granted
    lock        \* where each contender is in Acquire

lockVars == <<path, inodes, fd, attempts, holding, lock>>

NoInode == 0

\* openLockFile tries three times.
MaxAttempts == 3

LockInit ==
    /\ path \in {NoInode, 1} /\ inodes = path
    /\ fd = [p \in Contenders |-> NoInode]
    /\ attempts = [p \in Contenders |-> 0]
    /\ holding = {}
    /\ lock = [p \in Contenders |-> "off"]

Moves(p, place) == lock' = [lock EXCEPT ![p] = place]

Opens(p, inode) == fd' = [fd EXCEPT ![p] = inode] /\ Moves(p, "inspecting")

BeginAcquire(p) ==
    /\ lock[p] = "off" /\ Moves(p, "opening")
    /\ UNCHANGED <<path, inodes, fd, attempts, holding>>

\* The open without O_CREAT, and whether another round is left for it.
OpenExisting(p) ==
    /\ lock[p] = "opening"
    /\ \/ attempts[p] = MaxAttempts /\ Moves(p, "failed") /\ UNCHANGED <<fd, attempts>>
       \/ /\ attempts[p] < MaxAttempts
          /\ attempts' = [attempts EXCEPT ![p] = @ + 1]
          /\ IF path = NoInode THEN Moves(p, "creating") /\ UNCHANGED fd ELSE Opens(p, path)
    /\ UNCHANGED <<path, inodes, holding>>

\* The O_EXCL create that follows ENOENT.
CreateExclusive(p) ==
    /\ lock[p] = "creating"
    /\ \/ /\ path = NoInode
          /\ inodes' = inodes + 1 /\ path' = inodes + 1 /\ Opens(p, inodes + 1)
       \/ path # NoInode /\ Moves(p, "opening") /\ UNCHANGED <<path, inodes, fd>>
    /\ UNCHANGED <<attempts, holding>>

\* The kernel closes the descriptor and drops the lock with it.
Closes(p) == fd' = [fd EXCEPT ![p] = NoInode] /\ holding' = holding \ {p}

\* fstat: the file must have exactly one link.
Inspect(p) ==
    /\ lock[p] = "inspecting"
    /\ \/ fd[p] = path /\ Moves(p, "locking") /\ UNCHANGED <<fd, holding>>
       \/ fd[p] # path /\ Moves(p, "failed") /\ Closes(p)
    /\ UNCHANGED <<path, inodes, attempts>>

LockFree(p) == \A q \in holding : fd[q] # fd[p]

\* A flock that is not exclusive.
Flock_Shared(p) ==
    /\ lock[p] = "locking"
    /\ holding' = holding \cup {p} /\ Moves(p, "writing")
    /\ UNCHANGED <<path, inodes, attempts, fd>>

Flock(p) ==
    /\ lock[p] = "locking"
    /\ \/ LockFree(p) /\ holding' = holding \cup {p} /\ Moves(p, "writing") /\ UNCHANGED fd
       \/ ~LockFree(p) /\ Moves(p, "refused") /\ Closes(p)
    /\ UNCHANGED <<path, inodes, attempts>>

WriteInfo(p) ==
    /\ lock[p] = "writing" /\ Moves(p, "held")
    /\ UNCHANGED <<path, inodes, fd, attempts, holding>>

\* fstat, fchmod, flock or writeInfo fails: the file is closed again.
AcquireFails(p) ==
    /\ lock[p] \in {"inspecting", "locking", "writing"}
    /\ Moves(p, "failed") /\ Closes(p)
    /\ UNCHANGED <<path, inodes, attempts>>

Acquire(p) ==
    \/ OpenExisting(p) \/ CreateExclusive(p) \/ Inspect(p) \/ Flock(p) \/ WriteInfo(p) \/ AcquireFails(p)

\* A release that tidies the file up.
Release_Unlinks(p) ==
    Closes(p) /\ Moves(p, "released") /\ path' = NoInode /\ UNCHANGED <<inodes, attempts>>

\* The release function, and what the kernel does for a process that ends.
Release(p) == Closes(p) /\ Moves(p, "released") /\ UNCHANGED <<path, inodes, attempts>>

LockPlaces ==
    {"off", "opening", "creating", "inspecting", "locking", "writing", "held", "refused", "failed", "released"}

LockTypeOK ==
    /\ inodes \in Nat /\ path \in 0 .. inodes
    /\ fd \in [Contenders -> 0 .. inodes]
    /\ attempts \in [Contenders -> 0 .. MaxAttempts]
    /\ holding \subseteq Contenders
    /\ lock \in [Contenders -> LockPlaces]

Holds(p) == lock[p] = "held"

\* One process has the lock, in whatever order processes open, create, lock,
\* release and die: the promise everything destructive at start-up relies on.
OneHolder == \A p, q \in Contenders : Holds(p) /\ Holds(q) => p = q

=============================================================================
