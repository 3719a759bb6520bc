--------------------------- MODULE LockFileProofs ---------------------------
(***************************************************************************)
(* Proofs about LockFile for any number of runs, processes and inodes.     *)
(***************************************************************************)
EXTENDS LockFile, TLAPS

\* The lf of a process, and the descriptor a run blocks on, were opened by a
\* run of that process.
OwnDescriptors ==
    /\ \A p \in Procs : lf[p] # None => ProcOf[lf[p]] = p
    /\ \A r \in Runs : fd[r] # None => ProcOf[fd[r]] = ProcOf[r]

\* A run that has not opened the file, or is dead, has no open description.
NoDescription ==
    \A r \in Runs : pc[r] \in {"lock", "open", "killed"} => inode[r] = None

\* The kernel keeps a lock with an open description of its inode.
LockOfOpen ==
    \A i \in Inodes : flocked[i] # None => inode[flocked[i]] = i

\* A run that has lf for itself finds its own description in it.
AloneInv ==
    \A r \in Runs : Alone(r) =>
        /\ pc[r] \in {"lock", "open"} => Lf(r) = None
        /\ pc[r] \in {"flock", "wait", "post", "unlock", "unflock", "close"} =>
               Lf(r) = r /\ inode[r] # None
        /\ pc[r] = "wait" => fd[r] = r
        /\ Inside(r) => flocked[inode[r]] = r

IInv == TypeOK /\ OwnDescriptors /\ NoDescription /\ LockOfOpen /\ AloneInv

\* At the start no process has the lock file open.
LEMMA InitIInv == Init => IInv
BY ConstantsAssumption
DEF Init, IInv, TypeOK, PCs, OwnDescriptors, NoDescription, LockOfOpen,
    AloneInv, Inside, Lf

\* A step of a run in lock(), under the lock or in unlock().
LEMMA StepIInv ==
    ASSUME IInv, NEW r \in Runs, Step(r)
    PROVE  IInv'
<1> USE ConstantsAssumption DEF IInv, Goto, Close, FreeInodes
<1>t. TypeOK'
  BY DEF Step, Lock, Open, OpenFails, FlockCall, Flocked, FlockFails, PostEnds,
         Unlink, Unflock, CloseLf, TypeOK, PCs, Lf
<1>1. CASE Lock(r)
  BY <1>t, <1>1 DEF Lock, TypeOK, OwnDescriptors, NoDescription, LockOfOpen,
                    AloneInv, Alone, Inside, Lf
<1>2. CASE Open(r)
  BY <1>t, <1>2 DEF Open, TypeOK, OwnDescriptors, NoDescription, LockOfOpen,
                    AloneInv, Alone, Inside, Lf
<1>3. CASE OpenFails(r)
  BY <1>t, <1>3 DEF OpenFails, TypeOK, OwnDescriptors, NoDescription, LockOfOpen,
                    AloneInv, Alone, Inside, Lf
<1>4. CASE FlockCall(r)
  BY <1>t, <1>4 DEF FlockCall, TypeOK, OwnDescriptors, NoDescription, LockOfOpen,
                    AloneInv, Alone, Inside, Lf
<1>5. CASE Flocked(r)
  BY <1>t, <1>5 DEF Flocked, TypeOK, OwnDescriptors, NoDescription, LockOfOpen,
                    AloneInv, Alone, Inside, Lf
<1>6. CASE FlockFails(r)
  BY <1>t, <1>6 DEF FlockFails, TypeOK, OwnDescriptors, NoDescription, LockOfOpen,
                    AloneInv, Alone, Inside, Lf
<1>7. CASE PostEnds(r)
  BY <1>t, <1>7 DEF PostEnds, TypeOK, OwnDescriptors, NoDescription, LockOfOpen,
                    AloneInv, Alone, Inside, Lf
<1>8. CASE Unlink(r)
  BY <1>t, <1>8 DEF Unlink, TypeOK, OwnDescriptors, NoDescription, LockOfOpen,
                    AloneInv, Alone, Inside, Lf
<1>9. CASE Unflock(r)
  BY <1>t, <1>9 DEF Unflock, TypeOK, OwnDescriptors, NoDescription, LockOfOpen,
                    AloneInv, Alone, Inside, Lf
<1>10. CASE CloseLf(r)
  BY <1>t, <1>10 DEF CloseLf, TypeOK, OwnDescriptors, NoDescription, LockOfOpen,
                    AloneInv, Alone, Inside, Lf
<1> QED BY <1>1, <1>2, <1>3, <1>4, <1>5, <1>6, <1>7, <1>8, <1>9, <1>10 DEF Step

\* The death of a process closes its descriptions.
LEMMA KillIInv ==
    ASSUME IInv, NEW p \in Procs, Kill(p)
    PROVE  IInv'
BY ConstantsAssumption
DEF IInv, Kill, Close, Ended, TypeOK, PCs, OwnDescriptors, NoDescription,
    LockOfOpen, AloneInv, Alone, Inside, Lf

\* What the theorems below rest on: the invariant of lf, the descriptions and
\* the locks, for any runs in any processes.
THEOREM Invariance == Spec => []IInv
<1>1. IInv /\ [Next]_vars => IInv'
  <2> SUFFICES ASSUME IInv, [Next]_vars PROVE IInv'
    OBVIOUS
  <2>1. CASE UNCHANGED vars
    BY <2>1 DEF vars, IInv, TypeOK, OwnDescriptors, NoDescription, LockOfOpen,
                AloneInv, Alone, Inside, Lf
  <2> QED BY <2>1, StepIInv, KillIInv DEF Next
<1> QED BY <1>1, InitIInv, PTL DEF Spec

\* The path, the descriptions and the locks of lock() and unlock() keep their
\* types.
THEOREM Typing == Spec => []TypeOK
<1>1. IInv => TypeOK
  BY DEF IInv
<1> QED BY <1>1, Invariance, PTL

\* A run of the tool inside the lock has the flock of the inode it opened.
THEOREM HolderSafe == Spec => []HolderHasFlock
<1>1. IInv => HolderHasFlock
  BY DEF IInv, AloneInv, HolderHasFlock, Inside
<1> QED BY <1>1, Invariance, PTL

\* Two runs of the tool are never both inside on the file lock_file names.
THEOREM PathExclusion == Spec => []ExclusiveOnPath
<1>1. HolderHasFlock => ExclusiveOnPath
  BY DEF HolderHasFlock, ExclusiveOnPath
<1> QED BY <1>1, HolderSafe, PTL

\* A dead process holds no lock.
THEOREM DeathReleases == Spec => []NoLockAfterDeath
<1>1. IInv => NoLockAfterDeath
  BY ConstantsAssumption
  DEF IInv, TypeOK, NoDescription, LockOfOpen, NoLockAfterDeath
<1> QED BY <1>1, Invariance, PTL
=============================================================================
