----------------------------- MODULE DsoDevices -----------------------------
(***************************************************************************)
(* The member devices the plug-in lib/events/libdmraid-events-isw.c keeps  *)
(* of every RAID set it monitors: the array rs->devs, in which the status  *)
(* line of an event is looked up, from which a dead device is removed, and *)
(* to which _repopulate() adds the devices the library names after a       *)
(* rebuild.  The events of one set come one after another (DsoRegistry);   *)
(* those of different sets interleave, and share the string `disks' of     *)
(* dso_get_members().                                                      *)
(*                                                                         *)
(* The kernel's side is the mapping table of each set and the devices that *)
(* died or were pulled.  An event that changes nothing, because its line   *)
(* cannot be parsed (no memory, a mirror leg with a read error, for which  *)
(* _get_num_devs_from_status() does not count), is no step of the model.   *)
(***************************************************************************)
EXTENDS Naturals, Sequences, FiniteSets, Functions

CONSTANTS
  Sets,       \* the RAID sets
  Devices,    \* the disks
  Kind,       \* Kind[s]: the target type of s
  Initially,  \* Initially[s]: the devices of the table of s, in its order
  ByName,     \* the disks in the order of their names
  MaxDead     \* bound: devices that die

Kinds == {"striped", "mirror", "raid45"}

ASSUME ConstantsAssumption ==
  /\ Kind \in [Sets -> Kinds] /\ MaxDead \in Nat
  /\ Initially \in [Sets -> Seq(Devices)]
  /\ \A s \in Sets : Len(Initially[s]) >= 2 /\ IsInjective(Initially[s])
  /\ ByName \in Seq(Devices) /\ IsInjective(ByName) /\ Range(ByName) = Devices

VARIABLES
  table,      \* the devices of the live mapping table of each set
  dead,       \* the devices whose status character is 'D'
  gone,       \* the devices that have left sysfs
  devs,       \* rs->devs, as far as rs->num_devs goes
  max_devs,   \* rs->max_devs
  disks,      \* `static char disks[100]': the names put there so far
  at,         \* where the processing of an event of the set is
  args,       \* the devices of the status line of that event
  marked,     \* those with a 'D'
  pos,        \* the loop index i, from 1
  found,      \* ret == D_FAILURE_DISK
  names,      \* what is left of the string _repopulate() takes apart
  missed,     \* the sets that were rebuilt with no _repopulate() after it
  intact      \* FALSE once a device was written past the end of rs->devs

kernel == <<table, dead, gone>>
struct == <<devs, max_devs>>
event  == <<args, marked, pos, found>>
vars   == <<kernel, struct, disks, at, event, names, missed, intact>>

Stages == {"unregistered", "idle", "loop", "start", "end", "refresh", "adding"}

TypeOK ==
  /\ table \in [Sets -> Seq(Devices)]
  /\ dead \subseteq Devices /\ gone \subseteq dead
  /\ devs \in [Sets -> Seq(Devices)]
  /\ max_devs \in [Sets -> Nat]
  /\ disks \in Seq(Devices)
  /\ at \in [Sets -> Stages]
  /\ args \in [Sets -> Seq(Devices)]
  /\ marked \in [Sets -> SUBSET Devices]
  /\ pos \in [Sets -> Nat \ {0}]
  /\ found \in [Sets -> BOOLEAN]
  /\ names \in [Sets -> Seq(Devices)]
  /\ missed \subseteq Sets
  /\ intact \in BOOLEAN

Init ==
  /\ table = Initially /\ dead = {} /\ gone = {}
  /\ devs = [s \in Sets |-> << >>] /\ max_devs = [s \in Sets |-> 0]
  /\ disks = << >> /\ names = [s \in Sets |-> << >>]
  /\ at = [s \in Sets |-> "unregistered"]
  /\ args = [s \in Sets |-> << >>] /\ marked = [s \in Sets |-> {}]
  /\ pos = [s \in Sets |-> 1] /\ found = [s \in Sets |-> FALSE]
  /\ missed = {} /\ intact = TRUE

Goto(s, stage) == at' = [at EXCEPT ![s] = stage]

\* The event is over.
Idle(s) ==
  /\ Goto(s, "idle")
  /\ args' = [args EXCEPT ![s] = << >>] /\ marked' = [marked EXCEPT ![s] = {}]
  /\ pos' = [pos EXCEPT ![s] = 1] /\ found' = [found EXCEPT ![s] = FALSE]

-----------------------------------------------------------------------------
(* The kernel, the disks and the command line tool.                        *)

DeviceFails(d) ==
  /\ Cardinality(dead) < MaxDead
  /\ d \notin dead /\ \E s \in Sets : d \in Range(table[s])
  /\ dead' = dead \cup {d}
  /\ UNCHANGED <<table, gone, struct, disks, at, event, names, missed, intact>>

DevicePulled(d) ==
  /\ d \in dead \ gone /\ gone' = gone \cup {d}
  /\ UNCHANGED <<table, dead, struct, disks, at, event, names, missed, intact>>

\* _rebuild_raidset(): the table is reloaded with a spare in the place of the
\* one dead device; with two the set has failed.
Replace(s) ==
  \E i \in DOMAIN table[s], spare \in Devices :
    /\ Range(table[s]) \cap dead = {table[s][i]} /\ spare \notin dead
    /\ \A r \in Sets : spare \notin Range(table[r])
    /\ table' = [table EXCEPT ![s][i] = spare]

\* dmraid -R, of which the plug-in hears nothing.
ManualRebuild(s) ==
  /\ Kind[s] # "striped" /\ Replace(s)
  /\ missed' = missed \cup {s}
  /\ UNCHANGED <<dead, gone, struct, disks, at, event, names, intact>>

-----------------------------------------------------------------------------
(* Registration.                                                           *)

\* The members of s that are in S, each once, in the order of seq.
Ordered(s, S, seq) ==
  {f \in UNION {[1 .. n -> S] : n \in 0 .. Len(table[s])} :
     /\ IsInjective(f) /\ Range(f) = S
     /\ \A i, j \in DOMAIN f : i < j =>
          \E a, b \in DOMAIN seq : a < b /\ seq[a] = f[i] /\ seq[b] = f[j]}

\* Mutant: num_devs is one too high after the last device.
SlavesOneMore(s) == {Append(f, "") : f \in Ordered(s, Range(table[s]), ByName)}

\* _get_slave_devices() of _create_raid_set(): the members in the order of
\* their names, which is not that of the table.
Slaves(s) == Ordered(s, Range(table[s]), ByName)

Register(s) ==
  /\ at[s] = "unregistered" /\ Range(table[s]) \cap gone = {}
  /\ \E slaves \in Slaves(s) :
        /\ devs' = [devs EXCEPT ![s] = slaves]
        /\ max_devs' = [max_devs EXCEPT ![s] = Len(slaves)]
  /\ Goto(s, "idle") /\ missed' = missed \ {s}
  /\ UNCHANGED <<kernel, disks, event, names, intact>>

Unregister(s) ==
  /\ at[s] = "idle" /\ Goto(s, "unregistered")
  /\ devs' = [devs EXCEPT ![s] = << >>] /\ max_devs' = [max_devs EXCEPT ![s] = 0]
  /\ UNCHANGED <<kernel, disks, event, names, missed, intact>>

-----------------------------------------------------------------------------
(* _process_stripe_event(), _process_mirror_event(),                       *)
(* _process_raid45_event().                                                *)

Event(s) ==
  /\ at[s] = "idle" /\ Goto(s, "loop")
  /\ args' = [args EXCEPT ![s] = table[s]]
  /\ marked' = [marked EXCEPT ![s] = dead \cap Range(table[s])]
  /\ UNCHANGED <<kernel, struct, disks, pos, found, names, missed, intact>>

\* _find_dso_dev(rs, BY_NUM, args[i]) and _dso_dev_copy(): the last device of
\* the array takes the place of the dead one.
Without(seq, d) ==
  LET i == CHOOSE i \in DOMAIN seq : seq[i] = d
      n == Len(seq)
  IN  [j \in 1 .. n - 1 |-> IF j = i THEN seq[n] ELSE seq[j]]

\* Mutant: the device at the index of the status character is taken.
StatusCharIndexed(s) ==
  LET i == pos[s]
      hit == i \in DOMAIN args[s] /\ args[s][i] \in marked[s]
  IN
  /\ at[s] = "loop" /\ i <= Len(devs[s])
  /\ pos' = [pos EXCEPT ![s] = i + 1]
  /\ devs' = IF hit THEN [devs EXCEPT ![s] = Without(@, @[i])] ELSE devs
  /\ found' = [found EXCEPT ![s] = @ \/ hit]
  /\ UNCHANGED <<kernel, max_devs, disks, at, args, marked, names, missed, intact>>

\* One turn of the loop over the status characters.
StatusChar(s) ==
  LET i == pos[s]
      hit == /\ i \in DOMAIN args[s] /\ args[s][i] \in marked[s]
             /\ args[s][i] \in Range(devs[s])
  IN
  /\ at[s] = "loop" /\ i <= Len(devs[s])
  /\ pos' = [pos EXCEPT ![s] = i + 1]
  /\ devs' = IF hit THEN [devs EXCEPT ![s] = Without(@, args[s][i])] ELSE devs
  /\ found' = [found EXCEPT ![s] = @ \/ hit]
  /\ UNCHANGED <<kernel, max_devs, disks, at, args, marked, names, missed, intact>>

\* Mutant: the loop ends one device early.
LoopOverEarly(s) == at[s] = "loop" /\ pos[s] >= Len(devs[s])

\* i < rs->num_devs no more, whatever num_devs has become.
LoopOver(s) == at[s] = "loop" /\ pos[s] > Len(devs[s])

\* The outcome, and what _process_event() does with it: a stripe is never
\* rebuilt, a mirror is in sync when its counters say so.
Outcome(s) ==
  /\ LoopOver(s)
  /\ \/ Kind[s] # "striped" /\ found[s] /\ Goto(s, "start") /\ UNCHANGED event
     \/ Kind[s] # "striped" /\ ~found[s] /\ Goto(s, "end") /\ UNCHANGED event
     \/ (Kind[s] = "striped" \/ (Kind[s] = "mirror" /\ ~found[s])) /\ Idle(s)
  /\ UNCHANGED <<kernel, struct, disks, names, missed, intact>>

-----------------------------------------------------------------------------
(* _rebuild(), _lib_main() and _repopulate().                              *)

\* _lib_main('R') fails.
StartFails(s) ==
  /\ at[s] = "start" /\ Idle(s)
  /\ UNCHANGED <<kernel, struct, disks, names, missed, intact>>

\* Mutant: no _lib_main('r') after a rebuild was started.
StartsOnly(s) ==
  /\ at[s] = "start" /\ Replace(s) /\ Idle(s)
  /\ UNCHANGED <<dead, gone, struct, disks, names, missed, intact>>

\* _lib_main('R') starts a rebuild, or resumes one, and _lib_main('r') follows.
Start(s) ==
  /\ at[s] = "start" /\ Goto(s, "refresh")
  /\ Replace(s) \/ UNCHANGED table
  /\ UNCHANGED <<dead, gone, struct, disks, event, names, missed, intact>>

\* _lib_main('F') succeeds and ends it; when it fails, _lib_main('r') follows.
End(s) ==
  /\ at[s] = "end"
  /\ \/ Idle(s)
     \/ Goto(s, "refresh") /\ UNCHANGED event
  /\ UNCHANGED <<kernel, struct, disks, names, missed, intact>>

\* _lib_main('r') fails (no lock, no such set).
RefreshFails(s) ==
  /\ at[s] = "refresh" /\ Idle(s) /\ missed' = missed \cup {s}
  /\ UNCHANGED <<kernel, struct, disks, names, intact>>

\* dso_get_members(): the members are put behind the names of earlier calls.
\* A name that is there already has no effect a second time and is left out.
Refresh(s) ==
  /\ at[s] = "refresh" /\ Goto(s, "adding")
  /\ \E new \in Ordered(s, Range(table[s]) \ (Range(disks) \cup gone), table[s]) :
        disks' = disks \o new
  /\ names' = [names EXCEPT ![s] = disks']
  /\ UNCHANGED <<kernel, struct, event, missed, intact>>

\* Mutant: a name is not looked up in the array first.
KnownNot(s, d) == FALSE

\* _find_dso_dev(rs, BY_NAME, dev_name)
Known(s, d) == d \in Range(devs[s])

\* Mutant: the array is allocated with one device more.
RoomForMore(s) == max_devs[s] + 1

\* The array has room for max_devs devices, for two if there is one
\* (_inc_raid_set).
Room(s) == IF max_devs[s] = 1 THEN 2 ELSE max_devs[s]

\* One name of _repopulate(): skipped when known; written behind the last
\* device, and counted when sysfs knows the device.
Add(s) ==
  LET d == Head(names[s]) IN
  /\ at[s] = "adding" /\ names[s] # << >>
  /\ Len(devs[s]) > max_devs[s] => Known(s, d)
  /\ intact' = (Known(s, d) \/ Len(devs[s]) < Room(s))
  /\ devs' = IF Known(s, d) \/ d \in gone THEN devs
             ELSE [devs EXCEPT ![s] = Append(@, d)]
  /\ names' = [names EXCEPT ![s] = Tail(@)]
  /\ UNCHANGED <<kernel, max_devs, disks, at, event, missed>>

\* The string is at its end, or "programming error: num_devs > max_devs".
Added(s) ==
  /\ at[s] = "adding"
  /\ names[s] # << >> => ~Known(s, Head(names[s])) /\ Len(devs[s]) > max_devs[s]
  /\ Idle(s) /\ names' = [names EXCEPT ![s] = << >>]
  /\ UNCHANGED <<kernel, struct, disks, missed, intact>>

-----------------------------------------------------------------------------

Process(s) ==
  \/ Event(s) \/ StatusChar(s) \/ Outcome(s) \/ StartFails(s) \/ Start(s)
  \/ End(s) \/ RefreshFails(s) \/ Refresh(s) \/ Add(s) \/ Added(s)

\* What a write past the array does to the heap is not followed.
Next ==
  /\ intact
  /\ \/ \E d \in Devices : DeviceFails(d) \/ DevicePulled(d)
     \/ \E s \in Sets : ManualRebuild(s) \/ Register(s) \/ Unregister(s) \/ Process(s)

Spec == Init /\ [][Next]_vars

-----------------------------------------------------------------------------
(* Properties                                                              *)

\* No device is twice in the array, although removals reorder it and
\* _repopulate() is given names of earlier rebuilds and of other sets again.
DistinctDevices == \A s \in Sets : IsInjective(devs[s])

\* The array never has more devices than the mapping table, as long as it is
\* intact: the loop never reads beyond the status characters.
LineCovered ==
  intact => \A s \in Sets : at[s] = "loop" => Len(devs[s]) <= Len(args[s])

\* A set is not taken for in sync (rebuild ended) while its status line has a
\* 'D', if its devices are all known: the line is in the order of the table,
\* the array in an order of its own.
NoFalseSync ==
  \A s \in Sets :
    at[s] = "end" /\ Range(args[s]) \subseteq Range(devs[s]) => marked[s] = {}

\* Only a device that the status line of the event shows dead is removed.
OnlyDeadRemoved ==
  [][\A s \in Sets : at[s] = "loop" =>
        Range(devs[s]) \ Range(devs'[s]) \subseteq marked[s]]_vars

\* Between events every living member of a registered set is known, however
\* often it was rebuilt, unless a rebuild was not followed by _repopulate().
LivingKnown ==
  \A s \in Sets :
    at[s] = "idle" /\ s \notin missed => Range(table[s]) \ dead \subseteq Range(devs[s])

\* "Check against potential memory leak: access past end of devs array in case
\* array grows ?"
WithinArray == intact
=============================================================================
