---------------------------- MODULE DsoRegistry ----------------------------
(***************************************************************************)
(* The registry of the dmeventd plug-in lib/events/libdmraid-events-isw.c: *)
(* the global list raid_sets of monitored RAID sets, and the three entry   *)
(* points dmeventd calls from its threads, register_device(),              *)
(* unregister_device() and process_event().                                *)
(*                                                                         *)
(* A step is what happens between two points where another thread can      *)
(* interfere: taking _register_mutex, each access to the list under it,    *)
(* the release, each hop of a walk that is done WITHOUT the mutex, taking  *)
(* and releasing event_mutex, clearing RS_IN_USE.  Structures live at      *)
(* addresses that free() makes available to the next allocation.           *)
(***************************************************************************)
EXTENDS Naturals, Sequences, Functions

CONSTANTS
    Threads,        \* threads of dmeventd that call into the plug-in
    Names,          \* names of RAID sets
    Addrs,          \* addresses dm_realloc() can return
    Null,           \* the NULL pointer, no owner, no name
    Registrars,     \* threads that call register_device()
    Unregistrars,   \* threads that call unregister_device()
    Monitors,       \* Monitors[n]: threads dmeventd delivers events of n on
    MaxCalls,       \* bound: calls into the plug-in in one behaviour
    MaxTargets      \* bound: targets in the mapping table of one event

ASSUME ConstantsAssumption ==
    /\ Null \notin Threads \cup Names \cup Addrs
    /\ Registrars \subseteq Threads
    /\ Unregistrars \subseteq Threads
    /\ Monitors \in [Names -> SUBSET Threads]
    /\ MaxCalls \in Nat
    /\ MaxTargets \in Nat

VARIABLES
    raid_sets,      \* the linked structures, in list order
    allocated,      \* addresses holding a live structure
    nameOf,         \* rs->name; what was there stays readable after free()
    next,           \* rs->next of a structure that is no longer linked
    inUse,          \* addresses whose flags have RS_IN_USE set
    event_mutex,    \* owner of rs->event_mutex
    register_mutex, \* owner of _register_mutex
    pc,             \* where each thread is
    arg,            \* the RAID set name a thread was called with
    rs,             \* the structure a thread works on
    cursor,         \* the structure an unlocked walk stands on
    targets,        \* targets of the event not yet processed
    calls,          \* calls made so far
    up              \* FALSE once a read of freed memory faulted

heapVars == <<raid_sets, allocated, nameOf, next, inUse, event_mutex>>
vars == <<raid_sets, allocated, nameOf, next, inUse, event_mutex,
          register_mutex, pc, arg, rs, cursor, targets, calls, up>>

RegisterPCs   == {"rd_lock", "rd_find", "rd_create", "rd_relock", "rd_refind",
                  "rd_add", "rd_lost", "rd_log"}
UnregisterPCs == {"ud_lock", "ud_find", "ud_del", "ud_destroy"}
WalkPCs       == {"pe_status", "pe_log", "pe_rebuild", "pe_repopulate"}
EventPCs      == {"pe_target"} \cup WalkPCs
ProcessPCs    == {"pe_lock", "pe_find", "pe_flag", "pe_event", "pe_clear"}
                     \cup EventPCs
PCs == {"idle"} \cup RegisterPCs \cup UnregisterPCs \cup ProcessPCs

\* The program points between pthread_mutex_lock(&_register_mutex) and the
\* matching unlock.
CriticalPCs == {"rd_find", "rd_refind", "rd_add", "ud_find", "ud_del",
                "pe_find", "pe_flag"}

TypeOK ==
    /\ raid_sets \in Seq(Addrs)
    /\ allocated \in SUBSET Addrs
    /\ nameOf \in [Addrs -> Names \cup {Null}]
    /\ next \in [Addrs -> Addrs \cup {Null}]
    /\ inUse \in SUBSET Addrs
    /\ event_mutex \in [Addrs -> Threads \cup {Null}]
    /\ register_mutex \in Threads \cup {Null}
    /\ pc \in [Threads -> PCs]
    /\ arg \in [Threads -> Names \cup {Null}]
    /\ rs \in [Threads -> Addrs \cup {Null}]
    /\ cursor \in [Threads -> Addrs \cup {Null}]
    /\ targets \in [Threads -> 0 .. MaxTargets]
    /\ calls \in 0 .. MaxCalls
    /\ up \in BOOLEAN

-----------------------------------------------------------------------------
(* The list.                                                               *)

Linked == Range(raid_sets)

\* _find_raid_set(): the first structure of the list with that name.
Find(n) ==
    LET hits == {i \in DOMAIN raid_sets : nameOf[raid_sets[i]] = n}
    IN  IF hits = {} THEN Null
        ELSE raid_sets[CHOOSE i \in hits : \A j \in hits : i <= j]

\* The address in rs->next.
NextOf(a) ==
    IF a \in Linked
    THEN LET i == CHOOSE i \in DOMAIN raid_sets : raid_sets[i] = a
         IN  IF i = Len(raid_sets) THEN Null ELSE raid_sets[i + 1]
    ELSE next[a]

Head_ == IF raid_sets = <<>> THEN Null ELSE raid_sets[1]

\* raid_sets after _del_raid_set(a).
Without(a) ==
    LET k == CHOOSE k \in DOMAIN raid_sets : raid_sets[k] = a
    IN  [i \in 1 .. Len(raid_sets) - 1 |->
            IF i < k THEN raid_sets[i] ELSE raid_sets[i + 1]]

-----------------------------------------------------------------------------

Init ==
    /\ raid_sets = <<>>
    /\ allocated = {}
    /\ nameOf = [a \in Addrs |-> Null]
    /\ next = [a \in Addrs |-> Null]
    /\ inUse = {}
    /\ event_mutex = [a \in Addrs |-> Null]
    /\ register_mutex = Null
    /\ pc = [t \in Threads |-> "idle"]
    /\ arg = [t \in Threads |-> Null]
    /\ rs = [t \in Threads |-> Null]
    /\ cursor = [t \in Threads |-> Null]
    /\ targets = [t \in Threads |-> 0]
    /\ calls = 0
    /\ up = TRUE

Goto(t, label) == pc' = [pc EXCEPT ![t] = label]

\* A return to dmeventd: the locals of the call are gone.
Return(t) ==
    /\ Goto(t, "idle")
    /\ arg' = [arg EXCEPT ![t] = Null]
    /\ rs' = [rs EXCEPT ![t] = Null]
    /\ cursor' = [cursor EXCEPT ![t] = Null]
    /\ targets' = [targets EXCEPT ![t] = 0]

\* dmeventd calls the entry point at label for set n.
Call(t, n, label) ==
    /\ pc[t] = "idle"
    /\ calls < MaxCalls
    /\ calls' = calls + 1
    /\ arg' = [arg EXCEPT ![t] = n]
    /\ Goto(t, label)
    /\ UNCHANGED <<heapVars, register_mutex, rs, cursor, targets, up>>

\* pthread_mutex_lock(&_register_mutex)
LockRegister(t, from, to) ==
    /\ pc[t] = from
    /\ register_mutex = Null
    /\ register_mutex' = t
    /\ Goto(t, to)
    /\ UNCHANGED <<heapVars, arg, rs, cursor, targets, calls, up>>

\* pthread_mutex_unlock(&_register_mutex)
UnlockRegister == register_mutex' = Null

-----------------------------------------------------------------------------
(* register_device()                                                       *)

Register(t) == t \in Registrars /\ \E n \in Names : Call(t, n, "rd_lock")

RegisterLock(t) == LockRegister(t, "rd_lock", "rd_find")


\* Mutant: a double registration returns without the unlock.
RegisterReturnsLocked(t) ==
    /\ pc[t] = "rd_find"
    /\ IF Find(arg[t]) # Null
       THEN UNCHANGED register_mutex /\ Return(t)
       ELSE UnlockRegister /\ Goto(t, "rd_create") /\ UNCHANGED <<arg, rs, cursor, targets>>
    /\ UNCHANGED <<heapVars, calls, up>>

\* The first check for a double registration.
RegisterFind(t) ==
    /\ pc[t] = "rd_find"
    /\ UnlockRegister
    /\ IF Find(arg[t]) # Null
       THEN Return(t)
       ELSE Goto(t, "rd_create") /\ UNCHANGED <<arg, rs, cursor, targets>>
    /\ UNCHANGED <<heapVars, calls, up>>

\* A registration is pending, or _create_raid_set() failed.
RegisterGiveUp(t) ==
    /\ pc[t] = "rd_create"
    /\ Return(t)
    /\ UNCHANGED <<heapVars, register_mutex, calls, up>>

\* _create_raid_set(): allocate and initialise a structure of the heap.
RegisterCreate(t) ==
    /\ pc[t] = "rd_create"
    /\ \E a \in Addrs \ allocated :
          /\ allocated' = allocated \cup {a}
          /\ nameOf' = [nameOf EXCEPT ![a] = arg[t]]
          /\ next' = [next EXCEPT ![a] = Null]
          /\ inUse' = inUse \ {a}
          /\ event_mutex' = [event_mutex EXCEPT ![a] = Null]
          /\ rs' = [rs EXCEPT ![t] = a]
    /\ Goto(t, "rd_relock")
    /\ UNCHANGED <<raid_sets, register_mutex, arg, cursor, targets, calls, up>>

RegisterRelock(t) == LockRegister(t, "rd_relock", "rd_refind")


\* Mutant: no second check.
RegisterUnchecked(t) ==
    /\ pc[t] = "rd_refind"
    /\ IF FALSE
       THEN UnlockRegister /\ Goto(t, "rd_lost")
       ELSE UNCHANGED register_mutex /\ Goto(t, "rd_add")
    /\ UNCHANGED <<heapVars, arg, rs, cursor, targets, calls, up>>

\* The second check, after the allocation.
RegisterRefind(t) ==
    /\ pc[t] = "rd_refind"
    /\ IF Find(arg[t]) # Null
       THEN UnlockRegister /\ Goto(t, "rd_lost")
       ELSE UNCHANGED register_mutex /\ Goto(t, "rd_add")
    /\ UNCHANGED <<heapVars, arg, rs, cursor, targets, calls, up>>


\* Mutant: the structure that lost the race is kept.
RegisterLeak(t) ==
    /\ pc[t] = "rd_lost"
    /\ UNCHANGED allocated
    /\ Return(t)
    /\ UNCHANGED <<raid_sets, nameOf, next, inUse, event_mutex,
                   register_mutex, calls, up>>

\* _destroy_raid_set() of the structure that lost the race.
RegisterLost(t) ==
    /\ pc[t] = "rd_lost"
    /\ allocated' = allocated \ {rs[t]}
    /\ Return(t)
    /\ UNCHANGED <<raid_sets, nameOf, next, inUse, event_mutex,
                   register_mutex, calls, up>>

\* _add_raid_set()
RegisterAdd(t) ==
    /\ pc[t] = "rd_add"
    /\ raid_sets' = Append(raid_sets, rs[t])
    /\ UnlockRegister
    /\ Goto(t, "rd_log")
    /\ UNCHANGED <<allocated, nameOf, next, inUse, event_mutex,
                   arg, rs, cursor, targets, calls, up>>

\* _log_names_and_ports() and _dev_led_all() read rs_new after the unlock.
RegisterLog(t) ==
    /\ pc[t] = "rd_log"
    /\ \/ up' = up
       \/ rs[t] \notin allocated /\ up' = FALSE
    /\ Return(t)
    /\ UNCHANGED <<heapVars, register_mutex, calls>>

RegisterStep(t) ==
    \/ RegisterLock(t) \/ RegisterFind(t) \/ RegisterGiveUp(t)
    \/ RegisterCreate(t) \/ RegisterRelock(t) \/ RegisterRefind(t)
    \/ RegisterLost(t) \/ RegisterAdd(t) \/ RegisterLog(t)

-----------------------------------------------------------------------------
(* unregister_device()                                                     *)

Unregister(t) == t \in Unregistrars /\ \E n \in Names : Call(t, n, "ud_lock")

UnregisterLock(t) == LockRegister(t, "ud_lock", "ud_find")


\* Mutant: RS_IN_USE is not looked at.
UnregisterBusy(t) ==
    /\ pc[t] = "ud_find"
    /\ LET a == Find(arg[t]) IN
          IF a = Null
          THEN UnlockRegister /\ Return(t)
          ELSE /\ rs' = [rs EXCEPT ![t] = a]
               /\ Goto(t, "ud_del")
               /\ UNCHANGED <<register_mutex, arg, cursor, targets>>
    /\ UNCHANGED <<heapVars, calls, up>>

\* Not registered, or busy with an event: give up.  Else go on to unlink.
UnregisterFind(t) ==
    /\ pc[t] = "ud_find"
    /\ LET a == Find(arg[t]) IN
          IF a = Null \/ a \in inUse
          THEN UnlockRegister /\ Return(t)
          ELSE /\ rs' = [rs EXCEPT ![t] = a]
               /\ Goto(t, "ud_del")
               /\ UNCHANGED <<register_mutex, arg, cursor, targets>>
    /\ UNCHANGED <<heapVars, calls, up>>

\* _del_raid_set(): the unlinked structure keeps its next pointer.
UnregisterDel(t) ==
    /\ pc[t] = "ud_del"
    /\ raid_sets' = Without(rs[t])
    /\ next' = [next EXCEPT ![rs[t]] = NextOf(rs[t])]
    /\ UnlockRegister
    /\ Goto(t, "ud_destroy")
    /\ UNCHANGED <<allocated, nameOf, inUse, event_mutex,
                   arg, rs, cursor, targets, calls, up>>

UnregisterDestroy(t) ==
    /\ pc[t] = "ud_destroy"
    /\ allocated' = allocated \ {rs[t]}
    /\ Return(t)
    /\ UNCHANGED <<raid_sets, nameOf, next, inUse, event_mutex,
                   register_mutex, calls, up>>

UnregisterStep(t) ==
    \/ UnregisterLock(t) \/ UnregisterFind(t)
    \/ UnregisterDel(t) \/ UnregisterDestroy(t)

-----------------------------------------------------------------------------
(* process_event()                                                         *)

Process(t) == \E n \in Names : t \in Monitors[n] /\ Call(t, n, "pe_lock")

ProcessLock(t) == LockRegister(t, "pe_lock", "pe_find")

ProcessFind(t) ==
    /\ pc[t] = "pe_find"
    /\ LET a == Find(arg[t]) IN
          IF a = Null
          THEN UnlockRegister /\ Return(t)
          ELSE /\ rs' = [rs EXCEPT ![t] = a]
               /\ Goto(t, "pe_flag")
               /\ UNCHANGED <<register_mutex, arg, cursor, targets>>
    /\ UNCHANGED <<heapVars, calls, up>>


\* Mutant: RS_IN_USE is not set.
ProcessUnflagged(t) ==
    /\ pc[t] = "pe_flag"
    /\ UNCHANGED inUse
    /\ UnlockRegister
    /\ Goto(t, "pe_event")
    /\ UNCHANGED <<raid_sets, allocated, nameOf, next, event_mutex,
                   arg, rs, cursor, targets, calls, up>>

\* rs->flags |= RS_IN_USE, under the mutex.
ProcessFlag(t) ==
    /\ pc[t] = "pe_flag"
    /\ inUse' = inUse \cup {rs[t]}
    /\ UnlockRegister
    /\ Goto(t, "pe_event")
    /\ UNCHANGED <<raid_sets, allocated, nameOf, next, event_mutex,
                   arg, rs, cursor, targets, calls, up>>


\* trylock, else "Another thread is handling an event.  Waiting..." and lock.
ProcessEventLock(t) ==
    /\ pc[t] = "pe_event"
    /\ event_mutex[rs[t]] = Null
    /\ event_mutex' = [event_mutex EXCEPT ![rs[t]] = t]
    /\ \E k \in 0 .. MaxTargets : targets' = [targets EXCEPT ![t] = k]
    /\ Goto(t, "pe_target")
    /\ UNCHANGED <<raid_sets, allocated, nameOf, next, inUse,
                   register_mutex, arg, rs, cursor, calls, up>>

\* Start an unlocked _find_raid_set() walk at the head of the list.
StartWalk(t, label) ==
    /\ cursor' = [cursor EXCEPT ![t] = Head_]
    /\ Goto(t, label)


\* Mutant: the loop runs once more than there are targets.
ProcessTargetOverrun(t) ==
    /\ pc[t] = "pe_target"
    /\ targets' = [targets EXCEPT ![t] = @ - 1]
    /\ \/ UNCHANGED <<cursor, pc>>
       \/ StartWalk(t, "pe_status")
    /\ UNCHANGED <<heapVars, register_mutex, arg, rs, calls, up>>

\* dm_get_next_target(): a target _process_event() knows starts with a walk,
\* "mapping lost" or an unknown target type is skipped.
ProcessTarget(t) ==
    /\ pc[t] = "pe_target"
    /\ targets[t] > 0
    /\ targets' = [targets EXCEPT ![t] = @ - 1]
    /\ \/ UNCHANGED <<cursor, pc>>
       \/ StartWalk(t, "pe_status")
    /\ UNCHANGED <<heapVars, register_mutex, arg, rs, calls, up>>

\* One hop of a walk.  Reading a freed structure finds what was left in it or
\* faults.
WalkStep(t) ==
    /\ pc[t] \in WalkPCs
    /\ cursor[t] # Null
    /\ \/ /\ nameOf[cursor[t]] # arg[t]
          /\ cursor' = [cursor EXCEPT ![t] = NextOf(cursor[t])]
          /\ up' = up
       \/ /\ cursor[t] \notin allocated
          /\ up' = FALSE
          /\ UNCHANGED cursor
    /\ UNCHANGED <<heapVars, register_mutex, pc, arg, rs, targets, calls>>

WalkFound(t) == cursor[t] # Null /\ nameOf[cursor[t]] = arg[t]
WalkOver(t)  == cursor[t] = Null \/ WalkFound(t)

EndTarget(t) ==
    /\ Goto(t, "pe_target")
    /\ cursor' = [cursor EXCEPT ![t] = Null]

\* _process_{stripe,mirror,raid45}_event() after its walk: D_IGNORE when the
\* set was not found, else log the first bad device, or go on with the
\* outcome: nothing to do, or _rebuild().
StatusWalked(t) ==
    /\ pc[t] = "pe_status" /\ WalkOver(t)
    /\ \/ EndTarget(t)
       \/ WalkFound(t) /\ StartWalk(t, "pe_log")
       \/ WalkFound(t) /\ StartWalk(t, "pe_rebuild")
    /\ UNCHANGED <<heapVars, register_mutex, arg, rs, targets, calls, up>>

\* _log_event() after its walk: the outcome of the bad device, D_FAILURE_DISK
\* of a mirror or raid45 target leads to _rebuild().
LogWalked(t) ==
    /\ pc[t] = "pe_log" /\ WalkOver(t)
    /\ \/ EndTarget(t)
       \/ StartWalk(t, "pe_rebuild")
    /\ UNCHANGED <<heapVars, register_mutex, arg, rs, targets, calls, up>>

\* _rebuild() after its walk: the library calls, with the 'r' operation that
\* ends in _repopulate() unless an earlier one made it unnecessary.
RebuildWalked(t) ==
    /\ pc[t] = "pe_rebuild" /\ WalkOver(t)
    /\ \/ EndTarget(t)
       \/ WalkFound(t) /\ StartWalk(t, "pe_repopulate")
    /\ UNCHANGED <<heapVars, register_mutex, arg, rs, targets, calls, up>>

RepopulateWalked(t) ==
    /\ pc[t] = "pe_repopulate" /\ WalkOver(t)
    /\ EndTarget(t)
    /\ UNCHANGED <<heapVars, register_mutex, arg, rs, targets, calls, up>>


ProcessEventUnlock(t) ==
    /\ pc[t] = "pe_target" /\ targets[t] = 0
    /\ event_mutex' = [event_mutex EXCEPT ![rs[t]] = Null]
    /\ Goto(t, "pe_clear")
    /\ UNCHANGED <<raid_sets, allocated, nameOf, next, inUse, register_mutex,
                   arg, rs, cursor, targets, calls, up>>

\* rs->flags &= ~RS_IN_USE, without the mutex.
ProcessClear(t) ==
    /\ pc[t] = "pe_clear"
    /\ inUse' = inUse \ {rs[t]}
    /\ Return(t)
    /\ UNCHANGED <<raid_sets, allocated, nameOf, next, event_mutex,
                   register_mutex, calls, up>>

ProcessStep(t) ==
    \/ ProcessLock(t) \/ ProcessFind(t) \/ ProcessFlag(t)
    \/ ProcessEventLock(t) \/ ProcessTarget(t) \/ WalkStep(t)
    \/ StatusWalked(t) \/ LogWalked(t) \/ RebuildWalked(t)
    \/ RepopulateWalked(t) \/ ProcessEventUnlock(t) \/ ProcessClear(t)

-----------------------------------------------------------------------------

Step(t) == RegisterStep(t) \/ UnregisterStep(t) \/ ProcessStep(t)

Next ==
    /\ up
    /\ \E t \in Threads :
          Register(t) \/ Unregister(t) \/ Process(t) \/ Step(t)

\* A thread inside the plug-in keeps running; no thread has to call it.
Fairness == \A t \in Threads : WF_vars(up /\ Step(t))

Spec == Init /\ [][Next]_vars /\ Fairness
-----------------------------------------------------------------------------
(* Properties                                                              *)

\* The threads in the part of process_event() that RS_IN_USE is to protect.
FlaggedPCs == {"pe_event", "pe_clear"} \cup EventPCs

\* A structure that one thread alone refers to: not yet linked, or no longer.
OwnerPCs == {"rd_relock", "rd_refind", "rd_add", "rd_lost", "ud_destroy"}

\* The names of the registered RAID sets, and those an event is processed of.
Registered == {nameOf[a] : a \in Linked}
Busy       == {arg[t] : t \in {u \in Threads : pc[u] \in FlaggedPCs}}

\* dmeventd delivers the events of a set on one thread.
OneMonitor == \A n \in Names : \A t, u \in Monitors[n] : t = u

\* The list has no two structures of one name, however registrations race:
\* register_device() looks for the name twice, before and after it allocates.
UniqueNames ==
    \A i, j \in DOMAIN raid_sets :
        nameOf[raid_sets[i]] = nameOf[raid_sets[j]] => i = j

\* While process_event() works on a set (RS_IN_USE taken, not yet cleared) the
\* structure it works on is neither freed nor unlinked: unregister_device()
\* sees the flag or comes before the lookup.
EventSetLive ==
    \A t \in Threads :
        pc[t] \in FlaggedPCs =>
            rs[t] \in Linked \cap allocated \cap inUse /\ nameOf[rs[t]] = arg[t]

\* Every structure is either reachable from raid_sets or held by the one thread
\* that will link or free it: nothing leaks, nothing is freed twice or while
\* it is still linked.
OneOwner ==
    LET Owners(a) == {t \in Threads : pc[t] \in OwnerPCs /\ rs[t] = a} IN
    /\ Linked \subseteq allocated
    /\ \A a \in Addrs :
          IF a \in allocated \ Linked
          THEN \E t \in Threads : Owners(a) = {t}
          ELSE Owners(a) = {}

\* A walk of the list during event processing reads live structures only
\* (the header of the file lists "locking race vs. registration in event
\* processing" as FIXED).
WalkLive ==
    \A t \in Threads :
        pc[t] \in WalkPCs /\ cursor[t] # Null => cursor[t] \in allocated

\* Every call into the plug-in returns (or the daemon died on freed memory):
\* the two mutexes never leave a thread waiting for ever.
CallsReturn ==
    \A t \in Threads : pc[t] # "idle" ~> (pc[t] = "idle" \/ ~up)

\* What dmeventd is promised, see MonitoredSets.
Promise == INSTANCE MonitoredSets WITH registered <- Registered, busy <- Busy
ImplementsMonitoredSets == Promise!Spec
=============================================================================
