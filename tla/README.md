# A TLA+ model of dmraid

dmraid discovers the vendor metadata of ATA RAID controllers on disks, groups
the disks into RAID sets, and maps the sets through the kernel's device-mapper.
A plug-in of `dmeventd` (a DSO, `lib/events/libdmraid-events-isw.c`) watches
sets of the Intel (isw) format and starts their rebuild. This directory models
the parts where several actors, failures or crashes meet, and the rules by which
sets, sizes and mapping tables come from what the disks hold; it checks them with
TLC and proves the safety properties of the concurrent parts, and those of the
discovery that do not depend on an order, with TLAPS.

Paths below are relative to the root of the sources (`lib/...` here is
`src/lib/...` in `PROJECT.json`).

## Inventory

| Component | State it keeps | Operations | Interacts with | Hard behaviour |
|---|---|---|---|---|
| Events plug-in, registry (`libdmraid-events-isw.c`) | list `raid_sets`, `_register_mutex`, per set `event_mutex` and `RS_IN_USE` | `register_device`, `unregister_device`, `process_event` | dmeventd's threads call it; it calls the library through `_lib_main` | threads, allocation outside the mutex, walks without the mutex |
| Events plug-in, member devices (same file) | `devs[]`, `num_devs`, `max_devs` of each set; the status line of an event | `_create_raid_set`, the three `_process_*_event`, `_rebuild`, `_repopulate` | kernel status line; `dso_get_members` of the library | two orders of devices, an array that shrinks under a loop, rebuilds nobody reports |
| File lock (`lib/locking/locking.c`), `lib_perform()` | lock file, static descriptor `lf` | `lock`, `unlock`, pre/post operation | all runs of the tool, the plug-in's threads | unlink before unlock, death, shared static |
| Activation (`lib/activate/activate.c`) | the kernel's mapped devices and their tables, error targets, what dmeventd monitors | `change_set` (activate, deactivate, reload), a handler per RAID type | devmapper interface, registration | a recursion over a tree of sets in which any step can fail; order of mirror legs |
| device-mapper interface (`lib/activate/devmapper.c`) | none (ioctls) | create, remove, suspend, load, resume, status | kernel | failed ioctls |
| Registration (`lib/register/dmreg.c`, `tools/dmevent_tool.c`) | dmeventd's registry | `dm_register_device`, `dm_unregister_device`, monitor queries | dmeventd FIFO protocol | pending state, results that say success on failure |
| isw metadata handler (`lib/format/ataraid/isw.c`) | disk table and rebuild states in the metadata of every disk | begin and end of a rebuild, lookup of the drive to rebuild | reconfiguration, disks | metadata written disk by disk, two volumes over one table |
| Creation and deletion of volumes (`lib/metadata/metadata.c`, `isw.c`) | volumes in the metadata of every disk | `create_raidset`, `delete_raidsets`, `erase_metadata` | command line, disks | layout beside another volume, interrupted and repeated commands |
| Reconfiguration (`lib/metadata/reconfig.c`, `log_ops.c`) | in-memory sets, change log | rebuild, hot spare, end of rebuild, revert | isw handler, activation | error paths, crash between writes, a restart in the middle |
| Grouping (`lib/metadata/metadata.c`, `lib/format/format.c`) | lists of sets and devices | `dmraid_read`, `build_set`, `check_raid_sets`, status, sizes | all formats | disks in any order, missing, broken and disagreeing members |
| Formats (`lib/format/ataraid/*`, `lib/format/ddf/*`) | none | recognise, name, type, size, group, check | grouping | stacked sets, several sets on a disk, several formats on a disk |
| Command line (`tools/*.c`) | options, action bits | option checks, order of actions | everything | incompatible options |
| Device discovery (`lib/device/*.c`) | list of disks | sysfs and ioctl reading | kernel | I/O only |
| Partitions (`lib/format/partition/dos.c`) | chain of extended tables | read, group | metadata layer | a recursive walk over on-disk data |
| Display, log, memory, misc | none | - | - | text output |

What makes each of them correct: the registry links a name once, never frees a
set under an event, leaks nothing, and always lets its callers go on; the
member arrays follow the mapping table; the lock excludes; activation never
stacks a mapping on one that is missing, removes top-down, leaves nothing
suspended or behind; a rebuild, however it is interrupted, never lets metadata
call a disk good that was not copied, nor copies over the good one; volumes do not
overlap and none is lost that no command removed; the sets found do not depend on
the order of the disks and are mapped within them.

## Modules

| Module | Role |
|---|---|
| `MonitoredSets` | abstract specification: which names are registered and which are being processed |
| `DsoRegistry` | the registry of the plug-in; implements `MonitoredSets` |
| `DsoDevices` | the member arrays of the plug-in |
| `LockFile` | `lock()`, `unlock()` as `lib_perform()` uses them |
| `Activation` | `change_set()` with devices, error targets and monitoring |
| `IswRebuild` | rebuild of isw mirrors: metadata of every disk, the tool, the plug-in, the kernel's copy, restarts |
| `IswVolumes` | creation, deletion and erasure of isw volumes, written disk by disk |
| `RaidSets` | sets, their lists, sizes and status, as `metadata.c` and `format.c` keep them for all formats |
| `Hpt37x`, `Hpt45x`, `Jm`, `Lsi`, `Nv`, `Pdc`, `Sil`, `Via`, `Asr`, `Ddf1` | one format handler each: what its metadata says, and how its devices are grouped and checked |
| `DmTables` | the mapping tables of the sets, as segments |
| `Discovery` | the program from the disks to the checked sets, over the ten formats |
| `*MC` | values of the constants for TLC |
| `*Proofs` | the proofs for TLAPS |

### DsoRegistry

A step is what a thread does between two points where another can interfere.
`pc[t]` names the point: `rd_*` for `register_device`, `ud_*` for
`unregister_device`, `pe_*` for `process_event`. `raid_sets`, `allocated`,
`nameOf`, `next` are the heap: addresses are reused after `free`, and what was
in a freed structure stays readable (or the read faults: `up`). The two mutexes
are their owners. Event processing walks the list again in the status functions, in
`_log_event`, `_rebuild` and `_repopulate`, without `_register_mutex`; each hop is
a step (`WalkStep`). What a status line says and what the library answers are
nondeterministic outcomes of these walks. `Monitors[n]` says on which threads
dmeventd delivers the events of a set; a dmeventd that has one monitoring thread
per device is `OneMonitor`.

The refinement mapping to `MonitoredSets` is direct: `registered` are the names
of the linked structures, `busy` those of the threads between taking and
clearing `RS_IN_USE`.

### DsoDevices

One event of a set runs at a time (`event_mutex`, in `DsoRegistry`), the events of different sets interleave. The kernel's side is `table`, the devices of
each mapping table, with the disks that died (`dead`) and that left sysfs
(`gone`). `Event` copies the line; `StatusChar` is one turn of the loop over the
status characters, with `_find_dso_dev` (`Range(devs[s])`) and `_dso_dev_copy`
(`Without`: the last device takes the place of the dead one); `Outcome` sends
the event to `_rebuild(REBUILD_START)`, `REBUILD_END` or nowhere. A rebuild
replaces the dead device by a spare (`Replace`), started by the plug-in
(`Start`) or by `dmraid -R` on the command line (`ManualRebuild`), of which the
plug-in is not told. `Refresh` is `dso_get_members`, whose string is static and
never reset (`disks`): it accumulates the names of all calls and all sets.
`Add` is one name in `_repopulate`; `intact` becomes FALSE when it writes past
the allocated array, and the model stops there. The bound of 100 bytes of the
string, `strtok`'s static, LEDs, ports and serial numbers are left out. A device
stands for its name and its major:minor together: numbers are not reused, and a
dead disk does not come back. A line that the code rejects as a whole is no step.

### LockFile

A run is one `lib_perform()`. The kernel is modelled with it: the path names an
inode or nothing, an open file description has an inode and possibly its
`flock`, closing (or death) releases it, a blocked `flock` waits on the
description it was called with, whatever `lf` becomes meanwhile. Runs of one
process share `lf`; that is how the plug-in's threads appear. `lock()` returning
success at once when `lf` is already set, the blocking `flock`, its failure by a
signal and the order unlink, unlock, close are those of the code. The operation under
the lock is one step, that ends.

### Activation

`change_set()` walks the tree of a set once or twice (`pass`): activate then
register, unregister then remove, or reload. `res[s]` is how far the recursive
call for set `s` has come, so the stack of the recursion is the set of `open`
members, and the order of the loop is `NextBelow`. Every ioctl and every request
to dmeventd may fail, with the effect on the result that the caller in the code
has (dropped, returned, turned into cleanup). `Kill` may come anywhere and leaves
the kernel's state. `faults` and `past` record what went wrong, for properties of
the form "only if X failed". A type handler either succeeds or fails, with or
without an error target made before; what it maps is `DmTables`.

### IswRebuild

A group of two disks with one or two mirrored volumes. `meta[d]` is what the
disk `d` holds: the disk table and, per volume, the number of the entry that is
being rebuilt (255 for none). Each volume has its kernel table `map`, and `holds`
says which disks have all of its data; the program sees neither `holds` nor which
disk died. `news` are the events of a volume that dmeventd has still to deliver, one
after the other (`Hears`). A run (`run[p]`; the tool or a thread of the plug-in per
volume) reads all disks in a step (`Read`, `Groupings`), decides (`StartRebuild`,
`Resume`, `Refuse`, `EndRebuild`), writes its image disk by disk (`Write`) and loads
the new tables (`Reload`). `Groupings` are the lists that `list_add_sorted()` can make
of the disks found in some order (`AddSorted` says where each new one goes).
`Begun` and `Ended` are `update_metadata()` and
`update_metadata_after_rebuild()`; `Mirror` is the order of the legs in
`dm_raid1()`, which needs the number of the drive (`RebuildDrive`), known only to
a run with `-R`. `Synced` is the kernel's copy of the first leg to the others;
`Fail`, `Kill` and `Reboot` come at any point. `Serial` and `ToolRebuilds` describe
steps; the theorems use them as hypotheses (see Proofs). RAID5 volumes, ports, serial
numbers and the checksum are left out; reading is atomic; a dead disk stays dead.

### IswVolumes

`meta[d]` is the family number, the disk table and the volumes of a disk. A
command computes the new metadata (`Create`, `Delete`, `DeleteAll`, `Erase`) and
puts it on `todo`; `Write` is one disk, which may fail, and the commands go on
then; `Kill` drops the rest. `whole` is the history that the properties need:
the volumes that were written to all their disks and not deleted. The
arithmetic of the layout (`ArraySize`, `StrideSize`, `Volume`, `Start`) is that of
the code with its real constants. A deletion by name reads the group as
`want_set()` filters it while the group is being built, in any order of the disks
(`late`). A deletion of all sets is a step for each group, since the groups share no
disk.
The two sectors of a disk's metadata are written as one, a family number is
assumed new, signature, generation, the second map of a migrating volume and the
prompts are left out, and so is the check that a volume to delete is not active: the
model deletes more often than the code. Commands run one at a time under the lock; a
refused command is no step.

### RaidSets, the formats, DmTables and Discovery

`RaidSets` is `[top, set]`: the sets on the list of the library context, and every
set by name with its type, stride, status, devices and subsets in order. A format
module has `Read` (a native record of the disk, to RAID devices or nothing), `Group`
and `Check`, with the sort orders, names and sizes of that format. Native
records have the fields the handlers look at; magic numbers and checksums are
"ok" or not. Byte order, and what a log entry or an update writes back, are left
out. `Discovery` takes the disks in any order (`Scan`), groups the devices one by
one (`Build`, `Settled`) and checks the sets in any order (`CheckRaidSet`). A device that cannot be
grouped removes the set it names, and a Promise disk that fails at a later metadata
area leaves what the earlier ones were put into (`Leftover`). `Layouts` are what the disks may
hold, with the assumptions on it that the theorems need (see Proofs). `DmTables` turns a set into segments
`[start, length, type, parts]`. The RAID4/5 table is a single segment; its
metadata devices and region sizes are text.

## Runs

| Run | Instance | Shows |
|---|---|---|
| `dso_registry` | 3 threads, 2 names, 2 addresses, 5 calls; 109,762 states | `TypeOK`, `UniqueNames`, `EventSetLive`, `OneOwner`, the refinement of `MonitoredSets`, and that every call returns |
| `dso_walk` | as `dso_registry` | `WalkLive` is violated (finding 1) |
| `dso_devices` | RAID5 of 3, mirror of 2, one spare, 2 deaths; 2,661,532 states | `TypeOK`, `DistinctDevices`, `LineCovered`, `NoFalseSync`, `LivingKnown`, `OnlyDeadRemoved` |
| `dso_overrun` | as `dso_devices` | `WithinArray` is violated (finding 2) |
| `lock_file` | 3 processes, 3 inodes; 16,728 states | what the lock does give (`HolderHasFlock`, `ExclusiveOnPath`), no lock after death, every run ends |
| `lock_exclusion` | as `lock_file` | `MutualExclusion` is violated (finding 3) |
| `activation` | isw group with a RAID5 and a RAID10 of two mirrors, 2 calls; 410,781 states | `Stacked`, `BottomUp`, `MonitoredActive`, `ResultsTrue`, `ResumedAgain`, `NoStrayTarget`, every call returns |
| `rebuild` | a mirror of two disks, a spare and a blank disk; one death, one failed write or reload, one kill, one restart, one run of the tool; 4,117 states | metadata that says "ok" is right (`OkHasData`), the copy goes from a leg with the data (`MasterHasData`), no living member is dropped (`StaysListed`), the daemon alone ends a rebuild (`Rebuilt`) |
| `rebuild_restart` | the same, no failed write, no kill | `CopiedFromMaster` is violated (finding 4) |
| `discovery` | 44 kinds of arrays of ten formats (352 layouts), complete, with a disk missing, with the remains of another format, with one disk of another stride or of none, with a second volume that cannot be grouped; 11,708 states | `SameSets`, `Exclusive`, `Forest`, `Uniform`, `Fits` |
| `rebuild_two_volumes` | two volumes on the two disks, the daemon alone, one death and nothing else | `FailedRemoved` is violated (finding 5) |
| `volumes` | 3 disks, 4 commands, one failed write, kills, two names, default and given sizes and strides; 175,814 states | `Disjoint`, `Survives`, `Agree`, `Sized` |

Why these bounds are enough. Two addresses make the reuse of a freed structure
happen and two names make a list with a neighbour; three threads are a
registration, a removal and an event at a time; five calls are two
registrations, an event, a removal and one more. Three processes are a holder, a
waiter on the old inode and a newcomer, and three inodes give each its own. The
tree of the activation has every shape the code distinguishes (group, plain set
with an error target, stacked set that reload passes over, sets beneath it), and
two calls make every pair of activate, deactivate and reload, with and without
`-I`. In `dso_devices` two deaths in a set of three shrink the array under the
loop twice, the table order `d4 d1 d2` differs from the order of names, and the
one spare can come to either set; rebuilds, events and registrations are not
bounded there, they repeat freely. In `rebuild` either member may die, so that the
rebuilt entry is 0 or 1, and each of the other events may come once at every point
between two writes. A second run of the tool breaks `OkHasData`,
`MasterHasData` and `StaysListed`: the daemon's rebuild is not under the lock, and both
change the metadata from what they read before (a hazard in `PROJECT.json`). A
second monitored volume breaks `OkHasData` and `StaysListed` even with the daemon alone:
its two threads write and reload side by side, and the table loses an entry too many
(`rebuild_two_volumes`). In `discovery`
every grouping and every check order of up to four disks is taken; two disks make a
stripe, three a RAID5 or a spare, four a stacked set. In `volumes` four
commands are a creation, a second one beside it, a deletion and a re-creation in
the gap; the disk `c` is smaller and odd, so that the smallest disk and the
rounding matter; RAID10 needs four disks and was explored apart, without a violation.
`MaxCalls`, `MaxTargets`, `MaxDead`, `MaxFail`, `MaxBad`, `MaxKill`, `MaxBoot` and
`MaxRuns` are the bounds on counters.

Deadlock checking is off because each model may stop: all calls made, all runs
ended, all sets checked, or the program gone after a fault.

### Fairness

`DsoRegistry`: weak fairness of each thread inside the plug-in, while the daemon
lives. No thread has to call it. A mutex that is free is eventually given to one that waits
because each thread makes finitely many calls; no stronger assumption on the
mutexes is used. `LockFile`: weak fairness of each run's progress, which excludes
failing calls and a signal in a blocked `flock` (they may occur, they need not), and
says that the operation under the lock ends, which is the operation's own affair.
`Activation`: weak fairness of the running tool as a whole; it is sequential, its
ioctls return. `DsoDevices` has no liveness property and no fairness: what
`dmeventd` delivers and when is not the program's. `IswRebuild`: weak fairness of the
kernel's copy, of each thread of the plug-in (an event it was given is
processed), and of a run of the tool that was started and not killed; nobody has
to start the tool. `Rebuilt` claims nothing after a failed write, a second death, a
restart or an intervention of the tool. `IswVolumes` and `Discovery` are sequential and
state only safety.

## Findings

1. `lib/events/libdmraid-events-isw.c:274`: event processing walks the list
   without `_register_mutex`. The event of one set can stand on the structure of
   another while that is unlinked and freed. The header (line 33) lists the
   "locking race vs. registration in event processing" as fixed; the first lookup
   in `process_event` is locked, the four later ones are not.
2. Same file, line 665: `num_devs > max_devs` lets a device be written at index
   `max_devs`. The comment (line 662) says the check is against access past the
   end. A manual rebuild, followed by an event of a set in sync whose `F`
   operation fails, is enough; so is a name of another set in the static string.
3. `lib/locking/locking.c:48`: the lock file is unlinked before the lock is
   released, so a waiter gets the lock of an inode without a name, and the
   next run makes and locks a new file. The comments promise that the lock
   prevents parallel runs (`lib/metadata/metadata.c:2140`, `tools/commands.c:830`).
4. `lib/activate/activate.c:375`: only a run with `-R` asks the metadata which entry is
   being rebuilt. When the disk that failed was entry 0, its replacement is entry 0 too;
   after a restart in the middle of the copy `dmraid -ay` maps it first, and the
   kernel copies the unfinished disk over the good one. The comment (line 457)
   says the legs are ordered so that the copy is made from the master.
5. `lib/format/ataraid/isw.c:964`: the end of a rebuild keeps the last entry of the disk
   table only if volume 0 is clean and volume 1 is not. When volume 1 ends first, its
   end drops the entry of the failed disk although volume 0 is still being rebuilt, and the
   end of volume 0's rebuild drops the last entry once more: that of a member that
   works and has all the data, which `isw_read()` does not take for a RAID disk any
   more. The comment (line 963) speaks of removing "the failed disk".

Seen while modelling, without a run of their own:

* `activate.c:982`: when the type handler fails after it created the error target, the
  target stays, against the comment at line 974; `activate.c:1110`: a deactivation
  first unregisters every set, which fails for a set activated with `-I`, and nothing is
  deactivated, although `man/dmraid.8:425` says `-an` deactivates all sets that are
  not open. `Activation` has both behaviours.
* `activate.c:449`: a mirror with one usable leg is mapped by `dm_linear()` over all its
  legs, the unusable one as the error device: the volume gets twice its size and half
  of it gives errors, the first half when the first leg is the broken one. The comment
  (line 445) wants a linear mapping of the mirror that is left. `DmTables` has the
  behaviour, and `Fits` leaves degraded mirrors out.
* `format.c:384`: a RAID10/01 superset with two subsets is always "ok", whatever
  they are; the comment at 370 speaks of broken and inconsistent ones. In the
  `jm` format the subsets of a RAID01 are never consistent, because the number of
  disks compared is that of the whole array.
* `asr.c:463`: `set_sort` returns 0, so that the stripes of a stacked asr set are in
  the order of discovery (`Unordered` in `Discovery`). `ddf1.c:155` uses an index into
  the whole table as one into this disk's records: two volumes on a disk are told
  apart only when the indexes agree.
* `format.c:503`: a device whose metadata has no stride is taken into a set as long as no
  device with one has come; after that it is refused. Which disks such a set has depends on
  their order, but no set gets devices of two strides (`Uniform`).
* `pdc.c:450`: when a further metadata area of a Promise disk cannot be grouped,
  `build_set()` removes the set of the first area only; the sets of areas between the two
  keep the disk. They stay disjoint and linked (`Exclusive`, `Forest`).
* `format.c:653` and `asr.c:661`: nothing looks whether a set is on a list already when it
  is put on another. Disks of one hpt45x name that disagree on whether there is a mirror on
  top, or asr disks that give one logical drive two parents, would link a set twice
  through the same list head. `OneParent` in `Discovery` rules these disks out, because
  what the lists are afterwards is not modelled.
* Several handlers turn a member that is marked as broken into "ok" (`pdc`, `hpt37x`, `via`,
  `asr`); the model keeps that.
* The devices of a Silicon Image RAID10 are given the size of the whole array
  (`sil.c:549`), its stripes are then mapped beyond it; `Fits` leaves that set out.
* `isw.c:1735` and `isw.c:2490`: after an interrupted creation or deletion the disks
  disagree about the volumes. `Survives` and `Agree` say that no complete volume is
  harmed by it; but a deletion by name looks at the first disk of the group only,
  and is refused when that one no longer lists the volume the others have.

## Proofs

All theorems hold for all values of the constants that satisfy the `ASSUME`s of the
modules, for any number of threads, names, addresses, runs, sets, disks and commands.

* `DsoRegistryProofs`. `ListInv` (the mutex owner is at a point inside the
  critical section; linked structures are allocated, distinct and have distinct names; a
  structure held by a thread at an owner point is allocated, unlinked and held by
  nobody else; between the second lookup and the link the name is absent) is
  inductive and gives `Typing`, `NamesUnique`, `NothingLeaks`. `UniqueNames`
  alone is not inductive: it needs the mutex and the lookup under it.
  `EventSetsLive` and `Refinement` add the part on `RS_IN_USE` and need
  `OneMonitor`: `RS_IN_USE` is one bit, set by each thread that processes an event
  of the set and cleared by the first that ends, so with two threads on one set the
  second would be left unprotected.
* `DsoDevicesProofs`. `IInv` = `Tables` (a table and the line copied from it are
  injective and keep their length), `Arrays` (an array is injective; while intact
  it has at most `max_devs` entries, `2 <= max_devs <= ` the table's length), `Scanned` (while nothing
  was found, no device before `pos` is both marked and known; at the end `pos`
  is beyond the array) and `Knows` (the living members are in the array, or, while names are
  being added, in the array or the names left). `NoFalseSync` needs, besides
  `Scanned`, the pigeonhole argument (lemma `PigeonHole`): if all devices of the line are
  in the array, the line is not longer than the array, so the loop that ended at the
  array's length has read all of the line.
* `LockFileProofs`. `IInv` relates the descriptor, the description and the
  kernel's lock of a run of the tool; `ExclusiveOnPath` then follows because the
  description that has the `flock` of the inode the path names is one.
* `ActivationProofs`. `Shape` (the types, and which stages of a call belong to which
  walk), `Levels` (`Stacked` with `Activated` and `Removed`: what a stage or a result
  says of the devices of the set and of the sets below) and `Monitoring` (what the first
  walk of a deactivation has unregistered stays so in the second, which never leaves
  that tree) are inductive together, over `ForestAssumption`, which is how
  `rs->sets` is built: no set below two others. `Stacked` alone is not inductive: a
  removal needs to know that the walk came down from a set already gone.
  `AllResumed` and `TargetsRemoved` need the recursion itself: `Recursion` says that the
  calls nest (`Nested`), take the sets in turn (`InTurn`), leave a loop after a failure
  (`LeftAfterFailure`) and never leave the tree of the root (`Inside`); `Debts` says that
  what is suspended, or made for a set, is in the hands of a call that has not
  returned. When all have returned, nothing is owed that no failed call accounts for.
* `IswRebuildProofs`. `Typing` is for one or two volumes and any runs: its point is that
  the entry of the missing disk, the place of the new device and the legs exist where the
  code takes them. The other four are about one volume. `SerialKeeps` and `SerialRemoves`
  assume `[][Serial]_vars`: no rebuild begins, and none ends, while another is under
  way, as if the plug-in, whose calls are marked `NO_LOCK`
  (`libdmraid-events-isw.c:236`), took the lock of the tool. Their invariant `SerialInv`
  is `Alone` (one run at a time) with `Lists`: each member that works lists all others
  (`Member`), a table that was extended ends with a failed disk (`LastFailed`), and a run's
  new metadata lists all members while it goes from disk to disk, to the new disk last
  (`Sound`). `StaysListed` alone is not inductive: what the run still has to write must
  list the members too.
  `DaemonOk` and `DaemonMaster` assume `[][~ToolRebuilds]_vars`: nobody types
  `dmraid -R`. Then the thread of the volume is the only one that rebuilds, and `Whole`
  holds as long as no write failed and no restart has forgotten a rebuilt entry 0
  (finding 4): a member marked clean, and all others with it, has the data
  (`CleanHolds`); the first leg of a mirror in the middle of a copy has it
  (`LegsHold`); an event that waits is still true when it is heard (`Pending`); a run
  copies from the one member that is left (`Copies`). The number of disks, spares,
  deaths, restarts and activations is arbitrary. Without these hypotheses the
  statements are false, and TLC shows how. All three break with two runs, or a run beside
  the daemon, when two disks die one after the other, and `OkHasData` and `StaysListed`
  with two monitored volumes and the daemon alone. `Serial` does not save `OkHasData`: a
  `dmraid -R` with a third disk while the second is being copied leaves an event "in
  sync" that is then taken for the third. Nor does it save `MasterHasData` on a volume that is not
  monitored (five disks, four runs, three of them killed, three deaths); on a monitored
  one no counterexample was found, with up to three runs and five disks.
* `IswVolumesProofs`. `IInv` speaks of every copy of the metadata, on a disk or still
  to be written: it is blank or of a family already made and names its own disk (`Hold`),
  its volumes fit on all disks of its table, apart from each other (`Laid`), copies of
  one family have one disk table and one volume of each name (`OneTable`), and every
  complete volume is in all copies for its disks (`Kept`). `Disjoint` alone is not
  inductive, because the second volume is laid out from the metadata of one disk and
  written to all: that needs `OneTable`, and that `_find_group()` has found all
  disks of the table (lemma `SameDisks`, by counting). `Disjoint` and `Sized` rest on the
  bounds of the rounding (`StripesBounds`, `DataBound`): a volume takes less than 512
  blocks of each disk more than its share, and the two reserves of `_cal_array_size()`
  cover that. `ConstantsAssumption` is used for what it says of the disks: a disk
  without room for a journal and the metadata could be given a volume of size 0 or 1.
* `GroupingProofs` and `DiscoveryProofs`. `Exclusive`, `Forest` and `Uniform` of `Discovery`,
  for any number of disks, any metadata of the ten formats, any order and any set name.
  The first module says what one call of a format's `group` does to the sets: the device
  goes into one set, at some place of its list, a superset gets that set at most once,
  and nothing else changes (`Put`, `Puts`); where in a list is left open (`Inserted`), so
  the comparison functions of the handlers need not be orders. The second one is about
  sequences of such calls. `SetsInv` is what the sets are at each moment: of their types
  (`IsSets`), the groups and pools only where a format makes them (`Kinds`), a device's
  format in the name of its set (`Named`), devices apart (`Separate`), strides
  (`Strided`), subsets linked once and below the set their name belongs under (`Linking`),
  and on the top list exactly those that belong under none (`Rooted`). `IInv` adds
  `Pending`: devices that wait are one of each disk, and no set has a device of that
  disk. `Exclusive` is not inductive without it, because a device is added without a look
  at the disks of other sets. `Forest` is not inductive, because a handler links a set to
  a superset that it finds by name: only the relation between the two names (`Under`) says that
  the set is not on another list. `Uniform` needs to know for asr and ddf1, which set the
  stride from the last device, that set and devices have a stride of that name (`Strides`).
  A removal frees a set with its subsets and unlinks it in one place only (`FreedKeeps`);
  that this leaves no dangling name needs `Linking` and `Rooted` for the levels above and below.
  A check only changes states (`AlikeKeeps`).
  `LayoutsAssumption` is what is taken of the disks: the volumes or areas that one
  disk's metadata lists do not overlap (the code does not compare them); a layout that is
  said to `agree` has one stride for the devices of an asr or ddf1 set (only `Uniform`
  uses that); and `OneParent` (see above). Nothing is assumed of disks that disagree
  otherwise, of a disk with records of several formats, or of missing and broken ones.
  The library's induction over data cannot be used (see below), so a statement about the
  n-th area, the n-th volume or the place of an insertion is proved from the least number
  at which it would fail (lemma `LeastNat`, from `WFMin`).

Only model-checked:

* all liveness (`CallsReturn`, `RunsEnd`, `Rebuilt`): liveness under fairness and
  `ENABLED` are out of this prover's reach;
* `SameSets` and `Fits` of `Discovery`. The first compares the result with the fold over the
  disks in the order of their numbers, and is about which list the comparison functions give;
  the second is about sums and products of sizes that folds over lists compute. Both
  need induction over data;
* `OkHasData`, `MasterHasData` and `StaysListed` with a run of the tool beside the daemon:
  true with one run and one death, as the run `rebuild` shows, and false with more.

## Not modelled, and the plan

In order of importance:

1. Composition of `LockFile` and `IswRebuild`: two runs of the tool and the plug-in, to say
   what the lock would have to cover (`libdmraid-events-isw.c:227`). The theorems with
   `Serial` are one half of it.
2. Proofs: that two devices can be grouped in either order (the step that `SameSets` rests
   on), for the formats whose comparison functions are orders; `MasterHasData` of a monitored
   volume with runs of the tool that begin one at a time.
3. Composition of `IswVolumes` and `Activation`: which volumes are active when one is
   deleted (`metadata.c:1897`).
4. Rebuilds of RAID5 volumes in `IswRebuild`, with the error target.
5. `DmReg`: the FIFO protocol with dmeventd, its pending state and `dmevent_tool`.
6. `ReconfigLog`: the change log and `revert_log`.
7. `DosPartitions`: the chain of extended partition tables, over small disks.
8. The option checks of the command line, as a relation of options to actions.

Not planned: device discovery and display (I/O and text, no protocol), byte order
conversion, checksums, what asr writes back, memory wrappers and start-up.
