------------------------------ MODULE LockFile ------------------------------
(***************************************************************************)
(* The lock against parallel runs, lib/locking/locking.c, as lib_perform() *)
(* of lib/metadata/metadata.c uses it around every operation that needs    *)
(* one.  A run is one call of lib_perform(); the runs of one process share *)
(* the static descriptor lf.  The kernel side is modelled with it: a path  *)
(* that names an inode or nothing, open file descriptions, flock() locks   *)
(* that belong to a description, and close() and process death releasing   *)
(* them.  A description is identified by the run that opened it.           *)
(***************************************************************************)
EXTENDS Naturals, FiniteSets

CONSTANTS
    Runs,       \* calls of lib_perform() for operations that lock
    Procs,      \* processes
    ProcOf,     \* ProcOf[r]: the process of run r
    Inodes,     \* inodes of the file system of /var/lock/dmraid
    None        \* no inode, no description

ASSUME ConstantsAssumption ==
    /\ ProcOf \in [Runs -> Procs]
    /\ None \notin Runs \cup Inodes

VARIABLES
    path,       \* the inode lock_file names, or None
    inode,      \* the inode of the description a run opened, None if closed
    flocked,    \* the description that has the exclusive lock of an inode
    lf,         \* the static lf of a process: a description, None for -1
    fd,         \* the description a blocked flock() was called with
    pc          \* where each run is

vars == <<path, inode, flocked, lf, fd, pc>>

PCs == {"lock", "open", "flock", "wait", "post", "unlock", "unflock", "close",
        "done", "failed", "killed"}

\* Runs that have not come to an end.
Ended(r) == pc[r] \in {"done", "failed", "killed"}

\* The value of lf that run r sees.
Lf(r) == lf[ProcOf[r]]

TypeOK ==
    /\ path \in Inodes \cup {None}
    /\ inode \in [Runs -> Inodes \cup {None}]
    /\ flocked \in [Inodes -> Runs \cup {None}]
    /\ lf \in [Procs -> Runs \cup {None}]
    /\ fd \in [Runs -> Runs \cup {None}]
    /\ pc \in [Runs -> PCs]

Init ==
    /\ path = None
    /\ inode = [r \in Runs |-> None]
    /\ flocked = [i \in Inodes |-> None]
    /\ lf = [p \in Procs |-> None]
    /\ fd = [r \in Runs |-> None]
    /\ pc = [r \in Runs |-> "lock"]

Goto(r, label) == pc' = [pc EXCEPT ![r] = label]

\* An inode with no name and no open description can be allocated again.
FreeInodes == {i \in Inodes : i # path /\ \A d \in Runs : inode[d] # i}

\* The kernel closes the descriptions ds: their locks go with them.
Close(ds) ==
    /\ inode' = [d \in Runs |-> IF d \in ds THEN None ELSE inode[d]]
    /\ flocked' = [i \in Inodes |-> IF flocked[i] \in ds THEN None ELSE flocked[i]]

-----------------------------------------------------------------------------
(* lock()                                                                  *)

\* "Already locked": another run of the process has lf open.
Lock(r) ==
    /\ pc[r] = "lock"
    /\ Goto(r, IF Lf(r) # None THEN "post" ELSE "open")
    /\ UNCHANGED <<path, inode, flocked, lf, fd>>


\* Mutant: lf is assigned something else than the descriptor.
OpenComparison(r) ==
    /\ pc[r] = "open"
    /\ \E i \in IF path = None THEN FreeInodes ELSE {path} :
          /\ path' = i
          /\ inode' = [inode EXCEPT ![r] = i]
    /\ lf' = [lf EXCEPT ![ProcOf[r]] = path']
    /\ Goto(r, "flock")
    /\ UNCHANGED <<flocked, fd>>

\* open(lock_file, O_CREAT...): the inode of the path, or a new one.
Open(r) ==
    /\ pc[r] = "open"
    /\ \E i \in IF path = None THEN FreeInodes ELSE {path} :
          /\ path' = i
          /\ inode' = [inode EXCEPT ![r] = i]
    /\ lf' = [lf EXCEPT ![ProcOf[r]] = r]
    /\ Goto(r, "flock")
    /\ UNCHANGED <<flocked, fd>>

OpenFails(r) ==
    /\ pc[r] = "open"
    /\ lf' = [lf EXCEPT ![ProcOf[r]] = None]
    /\ Goto(r, "failed")
    /\ UNCHANGED <<path, inode, flocked, fd>>

\* flock(lf, LOCK_EX) is called on what lf is now.
FlockCall(r) ==
    /\ pc[r] = "flock"
    /\ Lf(r) # None
    /\ fd' = [fd EXCEPT ![r] = Lf(r)]
    /\ Goto(r, "wait")
    /\ UNCHANGED <<path, inode, flocked, lf>>


\* Mutant: flock(lf, LOCK_SH).
FlockShared(r) ==
    /\ pc[r] = "wait"
    /\ LET d == fd[r] IN
          \/ /\ inode[d] # None
             /\ flocked' = [flocked EXCEPT ![inode[d]] = d]
          \/ inode[d] = None /\ UNCHANGED flocked
    /\ Goto(r, "post")
    /\ UNCHANGED <<path, inode, lf, fd>>

\* flock() returns 0: the description has the lock of its inode (or was closed
\* under the call, which then ends with no lock at all).
Flocked(r) ==
    /\ pc[r] = "wait"
    /\ LET d == fd[r] IN
          \/ /\ inode[d] # None
             /\ flocked[inode[d]] \in {None, d}
             /\ flocked' = [flocked EXCEPT ![inode[d]] = d]
          \/ inode[d] = None /\ UNCHANGED flocked
    /\ Goto(r, "post")
    /\ UNCHANGED <<path, inode, lf, fd>>


\* Mutant: the result of flock() is not looked at.
FlockIgnored(r) ==
    /\ pc[r] = "wait" \/ (pc[r] = "flock" /\ Lf(r) = None)
    /\ Close({Lf(r)} \ {None})
    /\ lf' = [lf EXCEPT ![ProcOf[r]] = None]
    /\ Goto(r, "post")
    /\ UNCHANGED <<path, fd>>

\* flock() fails (a signal, or lf is -1 by now): the description is closed, the
\* file stays.
FlockFails(r) ==
    /\ pc[r] = "wait" \/ (pc[r] = "flock" /\ Lf(r) = None)
    /\ Close({Lf(r)} \ {None})
    /\ lf' = [lf EXCEPT ![ProcOf[r]] = None]
    /\ Goto(r, "failed")
    /\ UNCHANGED <<path, fd>>

-----------------------------------------------------------------------------
(* The end of lib_perform(), unlock().                                     *)


\* Mutant: lib_perform() returns without unlock_resource().
PostReturns(r) ==
    /\ pc[r] = "post"
    /\ Goto(r, "done")
    /\ UNCHANGED <<path, inode, flocked, lf, fd>>

\* The operation is over; "Not locked!" when lf is -1.
PostEnds(r) ==
    /\ pc[r] = "post"
    /\ Goto(r, IF Lf(r) = None THEN "done" ELSE "unlock")
    /\ UNCHANGED <<path, inode, flocked, lf, fd>>


\* unlink(lock_file): whatever inode the path names.
Unlink(r) ==
    /\ pc[r] = "unlock"
    /\ path' = None
    /\ Goto(r, "unflock")
    /\ UNCHANGED <<inode, flocked, lf, fd>>

\* flock(lf, LOCK_NB | LOCK_UN)
Unflock(r) ==
    /\ pc[r] = "unflock"
    /\ flocked' = [i \in Inodes |->
                      IF flocked[i] = Lf(r) THEN None ELSE flocked[i]]
    /\ Goto(r, "close")
    /\ UNCHANGED <<path, inode, lf, fd>>

\* close(lf); lf = -1
CloseLf(r) ==
    /\ pc[r] = "close"
    /\ Close({Lf(r)} \ {None})
    /\ lf' = [lf EXCEPT ![ProcOf[r]] = None]
    /\ Goto(r, "done")
    /\ UNCHANGED <<path, fd>>


\* Mutant: a child has inherited the descriptor.
KillInherited(p) ==
    LET rs == {r \in Runs : ProcOf[r] = p} IN
    /\ \E r \in rs : ~Ended(r)
    /\ UNCHANGED <<inode, flocked>>
    /\ lf' = [lf EXCEPT ![p] = None]
    /\ pc' = [r \in Runs |-> IF r \in rs /\ ~Ended(r) THEN "killed" ELSE pc[r]]
    /\ UNCHANGED <<path, fd>>

\* A process dies: the kernel closes its descriptions, the path stays.
Kill(p) ==
    LET rs == {r \in Runs : ProcOf[r] = p} IN
    /\ \E r \in rs : ~Ended(r)
    /\ Close(rs)
    /\ lf' = [lf EXCEPT ![p] = None]
    /\ pc' = [r \in Runs |-> IF r \in rs /\ ~Ended(r) THEN "killed" ELSE pc[r]]
    /\ UNCHANGED <<path, fd>>

-----------------------------------------------------------------------------

Step(r) ==
    \/ Lock(r) \/ Open(r) \/ OpenFails(r) \/ FlockCall(r) \/ Flocked(r)
    \/ FlockFails(r) \/ PostEnds(r) \/ Unlink(r) \/ Unflock(r) \/ CloseLf(r)

Next == (\E r \in Runs : Step(r)) \/ (\E p \in Procs : Kill(p))

\* A run goes on when it can, and its operation ends; flock() grants a free
\* lock without an interrupting signal having to arrive.
Progress(r) == Step(r) /\ ~OpenFails(r) /\ ~(pc[r] = "wait" /\ FlockFails(r))

Fairness == \A r \in Runs : WF_vars(Progress(r))

Spec == Init /\ [][Next]_vars /\ Fairness

-----------------------------------------------------------------------------
(* Properties                                                              *)

\* The runs that have lf for themselves: those of the command line tool.
Alone(r) == \A s \in Runs : ProcOf[s] = ProcOf[r] => s = r

\* The part of a run that lock() is to protect.
Inside(r) == pc[r] \in {"post", "unlock"}

\* "Lock against parallel runs" (lib_perform), "prevent multiple tool runs from
\* occurring in parallel" (tools/commands.c).
MutualExclusion == \A r, s \in Runs : Inside(r) /\ Inside(s) => r = s

\* What lock() does give a run of the tool: while it is inside, the description
\* it opened has the flock of its inode, whatever the other runs do.
HolderHasFlock ==
    \A r \in Runs :
        Alone(r) /\ Inside(r) => inode[r] # None /\ flocked[inode[r]] = r

\* At most one run of the tool is inside on the inode that lock_file names:
\* exclusion is lost at an unlink, never at a lock.
ExclusiveOnPath ==
    \A r, s \in Runs :
        /\ Alone(r) /\ Inside(r) /\ inode[r] = path
        /\ Alone(s) /\ Inside(s) /\ inode[s] = path
        => r = s

\* A process that died holds no lock, so the file it left behind keeps nobody
\* out.
NoLockAfterDeath ==
    \A i \in Inodes :
        flocked[i] # None =>
            inode[flocked[i]] = i /\ pc[flocked[i]] # "killed"

\* Every run ends, those that wait for others too, and whoever is killed.
RunsEnd == \A r \in Runs : <>Ended(r)
=============================================================================
