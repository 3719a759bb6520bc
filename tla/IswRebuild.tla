----------------------------- MODULE IswRebuild -----------------------------
(***************************************************************************)
(* Rebuilding the mirrors of an Intel (isw) group: "dmraid -R" and the     *)
(* event plug-in on one side, the metadata on the disks and the kernel's   *)
(* mirror targets on the other (lib/metadata/reconfig.c and                *)
(* lib/format/ataraid/isw.c).                                              *)
(*                                                                         *)
(* Every run reads the metadata of all disks, decides, writes a new        *)
(* version disk by disk and reloads the kernel's tables; the tool holds    *)
(* the lock meanwhile, a thread of the plug-in does not.  Between any two  *)
(* steps a disk may die, a write may fail, the tool may be killed or the   *)
(* machine restarted.                                                      *)
(*                                                                         *)
(* The metadata is the same record on every disk: the disk table, in which *)
(* a volume's member i is entry i, and per volume the number of the entry  *)
(* being rebuilt.  Reading all disks is one step; a disk that has died     *)
(* does not come back; both volumes are mirrors over the same two disks.   *)
(***************************************************************************)
EXTENDS Naturals, Sequences, FiniteSets, SequencesExt

CONSTANTS
  Disk,       \* the disks of the machine
  Original,   \* disk[]: the two members the group was created with
  Spares,     \* the disks marked as spares
  NumVols,    \* num_raid_devs: the number of volumes
  Tool,       \* the process of the command line, which holds the lock
  Monitored,  \* the volumes registered with dmeventd
  Mortal,     \* the disks that may die
  MaxFail,    \* bounds: disks that die,
  MaxBad,     \*   writes and reloads that fail,
  MaxKill,    \*   kills of the tool,
  MaxBoot,    \*   restarts of the machine,
  MaxRuns     \*   runs of the tool

NumMembers == 2
NoneFailed == 255          \* ISW_DEV_NONE_FAILED
Vol        == 0 .. NumVols - 1
Proc       == Vol \cup {Tool}

ASSUME ConstantsAssumption ==
  /\ IsFiniteSet(Disk) /\ Tool \notin Vol
  /\ Spares \subseteq Disk /\ Mortal \subseteq Disk /\ NumVols \in {1, 2} /\ Monitored \subseteq Vol
  /\ Original \in [1 .. NumMembers -> Disk] /\ Original[1] # Original[2]
  /\ Spares \cap ToSet(Original) = {}
  /\ {MaxFail, MaxBad, MaxKill, MaxBoot, MaxRuns} \subseteq Nat

VARIABLES
  meta,    \* per disk: the metadata on it
  up,      \* the disks that work
  map,     \* per volume: the devices of its kernel table, and whether it syncs
  holds,   \* per volume: the disks with all of its data (no program sees this)
  news,    \* per volume: the events the plug-in has not processed yet, in order
  run,     \* per process: what it is doing
  count    \* how often each bounded event has happened

vars == <<meta, up, map, holds, news, run, count>>

\* What happens a bounded number of times.
Bounded == {"fail", "bad", "kill", "boot", "run"}

Blank   == [kind |-> "blank", gen |-> 0, disk |-> <<>>, failed |-> [v \in Vol |-> NoneFailed]]
Fresh   == [kind |-> "member", gen |-> 0, disk |-> Original,
            failed |-> [v \in Vol |-> NoneFailed]]
Off     == [devs |-> <<>>, sync |-> FALSE]
Idle    == [pc |-> "idle", vol |-> 0, devs |-> <<>>, new |-> <<>>, todo |-> <<>>,
            old |-> Blank, image |-> Blank]

Init ==
  /\ meta = [d \in Disk |-> IF d \in ToSet(Original) THEN Fresh
                            ELSE [Blank EXCEPT !.kind = IF d \in Spares THEN "spare" ELSE "blank"]]
  /\ up = Disk
  /\ map = [v \in Vol |-> [devs |-> Original, sync |-> FALSE]]
  /\ holds = [v \in Vol |-> ToSet(Original)]
  /\ news = [v \in Vol |-> <<>>]
  /\ run = [p \in Proc |-> Idle]
  /\ count = [e \in Bounded |-> 0]

Counts(e, bound) == count[e] < bound /\ count' = [count EXCEPT ![e] = @ + 1]

-----------------------------------------------------------------------------
(* Discovery.                                                              *)

\* isw_read(): a disk that its own metadata does not list is no RAID disk.
Read == {d \in up : meta[d].kind = "member" /\ d \in ToSet(meta[d].disk)}

\* _get_disk() scans from the end.
Slot(m, d) == SelectLastInSeq(m.disk, LAMBDA e : e = d)

\* dev_sort(): both slots are looked up in the metadata of the new disk.
Before(pos, d) == Slot(meta[d], pos) > 0 /\ Slot(meta[d], d) < Slot(meta[d], pos)

\* list_add_sorted() puts d before the first device it sorts before: of the
\* devices listed so far, those up to that one stay ahead of d.
Ahead(devs, e, d) == \E i, j \in DOMAIN devs : i <= j /\ devs[i] = e /\ devs[j] = d

AddSorted(devs, listed, d) ==
  \A e \in listed :
    Ahead(devs, e, d) <=> ~ \E pos \in listed : Ahead(devs, pos, e) /\ Before(pos, d)

\* The devices of the group, and of each volume, after reading the disks in
\* some order.
Groupings ==
  {devs \in SetToSeqs(Read) : \E scan \in SetToSeqs(Read) : \A k \in DOMAIN scan :
     AddSorted(devs, {scan[i] : i \in 1 .. k - 1}, scan[k])}

\* Mutant: devices are counted and their metadata is not looked at.
CountOnly(v) == IF Cardinality(Read) # NumMembers THEN "inconsistent" ELSE "ok"

\* get_rs_status() and set_rs_status(): the number of devices comes first, and
\* the devices must agree.
Status(v) ==
  LET migrating == {d \in Read : meta[d].failed[v] # NoneFailed}
  IN  IF Cardinality(Read) # NumMembers THEN "inconsistent"
      ELSE IF migrating = {} THEN "ok"
      ELSE IF migrating = Read THEN "nosync" ELSE "inconsistent"

-----------------------------------------------------------------------------
(* New metadata.                                                           *)

\* update_metadata(): the new disk takes the entry of the one that is missing,
\* which moves to the end; every volume is marked as being rebuilt.
Missing(m) == {i \in DOMAIN m.disk : m.disk[i] \notin up}

\* update_metadata_isw_dev(): each volume names the entry to copy to.
Migrating(i) == [v \in Vol |-> i - 1]

Begun(m, new) ==
  LET i == CHOOSE j \in Missing(m) : TRUE
  IN  [m EXCEPT !.gen    = @ + 1,
                !.disk   = Append([m.disk EXCEPT ![i] = new], m.disk[i]),
                !.failed = Migrating(i)]

\* Mutant: the first entry is dropped instead of the last.
EndedFirst(m, v) ==
  [m EXCEPT !.gen = @ + 1, !.disk = Tail(@), !.failed = [@ EXCEPT ![v] = NoneFailed]]

\* update_metadata_after_rebuild(): volume v is clean; the last entry goes
\* unless volume 0 is clean and volume 1 is not.
Ended(m, v) ==
  LET failed == [m.failed EXCEPT ![v] = NoneFailed]
      keep   == NumVols = 2 /\ failed[0] = NoneFailed /\ failed[1] # NoneFailed
  IN  [m EXCEPT !.gen = @ + 1, !.failed = failed,
                !.disk = IF keep THEN @ ELSE Front(@)]

\* GET_REBUILD_DRIVE_NO: -1, an error, for a number that is no member's.
RebuildDrive(m, v) == IF m.failed[v] < NumMembers THEN {m.failed[v]} ELSE {}

\* Mutant: the devices stay in the order of the metadata.
Unrotated(devs, sync, drive) ==
  IF Len(devs) = 1 THEN [devs |-> devs, sync |-> FALSE] ELSE [devs |-> devs, sync |-> sync]

\* dm_raid1(): a single leg is a linear mapping; the kernel copies from the
\* first leg, so that a rebuild drive 0 goes to the end.
Mirror(devs, sync, drive) ==
  IF Len(devs) <= 1 THEN [devs |-> devs, sync |-> FALSE]
  ELSE IF sync /\ drive = 0 THEN [devs |-> Append(Tail(devs), Head(devs)), sync |-> TRUE]
  ELSE [devs |-> devs, sync |-> sync]

-----------------------------------------------------------------------------
(* The steps of a run.                                                     *)

Free(p) == run[p].pc = "idle"
Goes(p, r) == run' = [run EXCEPT ![p] = r]

\* dmeventd delivers the events of a volume one after the other.
Hears(v, event) ==
  /\ news[v] # <<>> /\ Head(news[v]) = event
  /\ news' = [news EXCEPT ![v] = Tail(@)]

\* The tool holds the lock; there is one thread of the plug-in per volume.
Command(p, v) == IF p = Tool THEN Counts("run", MaxRuns) /\ news' = news
                 ELSE p = v /\ Hears(v, "failure") /\ count' = count

\* find_spare(), or the disk named on the command line, which check_busy_disk()
\* refuses if it has metadata.
Replacements(p, v) ==
  {d \in up : \/ meta[d].kind = "spare" /\ Status(v) = "inconsistent"
              \/ p = Tool /\ meta[d].kind # "spare" /\ d \notin Read}

\* rebuild_raidset() with a new disk: add_dev_to_array() and create().
StartRebuild(p, v) ==
  /\ Free(p) /\ Command(p, v) /\ Read # {}
  /\ Status(v) \in {"inconsistent", "nosync"}
  /\ \E devs \in Groupings, new \in Replacements(p, v) :
       LET old == meta[devs[1]] IN
       /\ Cardinality(Missing(old)) = 1
       /\ Goes(p, [pc |-> "write", vol |-> v, devs |-> devs, new |-> <<new>>,
                   todo |-> Append(devs, new), old |-> old, image |-> Begun(old, new)])
  /\ UNCHANGED <<meta, up, map, holds>>

\* rebuild_raidset() of a volume whose rebuild has begun: no new disk.
Resume(p, v) ==
  /\ Free(p) /\ Command(p, v) /\ Read # {} /\ Status(v) = "nosync"
  /\ \E devs \in Groupings :
       LET old == meta[devs[1]] IN
       Goes(p, [pc |-> "reload", vol |-> v, devs |-> devs, new |-> <<>>, todo |-> <<>>,
                old |-> old, image |-> old])
  /\ UNCHANGED <<meta, up, map, holds>>

\* Nothing to do, no disk to do it with, or more than one disk is missing.
Refuse(p, v) ==
  /\ Free(p) /\ Command(p, v)
  /\ \/ Read = {} \/ Status(v) = "ok"
     \/ /\ Read # {} /\ Status(v) = "inconsistent"
        /\ \/ \A d \in up : meta[d].kind # "spare"
           \/ \E devs \in Groupings : Cardinality(Missing(meta[devs[1]])) # 1
  /\ UNCHANGED <<meta, up, map, holds, run>>

\* get_rebuild_state(): the disk to copy to is one of the volume's.
InMigration(m, v, devs) ==
  m.failed[v] < Len(m.disk) /\ m.disk[m.failed[v] + 1] \in ToSet(devs)

\* The daemon hears that v is in sync: dso_end_rebuild().
EndRebuild(v) ==
  /\ Free(v) /\ Hears(v, "insync")
  /\ IF Read # {} /\ Status(v) = "nosync"
     THEN \E devs \in Groupings :
            LET m == meta[devs[1]]
            IN  Goes(v, IF ~InMigration(m, v, devs) THEN Idle
                        ELSE [Idle EXCEPT !.pc = "clear", !.vol = v, !.devs = devs,
                                          !.todo = devs, !.image = Ended(m, v)])
     ELSE run' = run
  /\ UNCHANGED <<meta, up, map, holds, count>>

\* Mutant: the loop over the disks is not left after the last one.
WrittenOn(p, ok) ==
  LET r == run[p] IN
  /\ meta' = IF ok THEN [meta EXCEPT ![Head(r.todo)] = r.image] ELSE meta
  /\ Goes(p, IF r.pc = "clear" /\ ~ok THEN Idle ELSE [r EXCEPT !.todo = Tail(@)])

\* One disk is written.  add_dev_to_raid() ignores a failure, and
\* UPDATE_REBUILD_STATE stops at the first.
Written(p, ok) ==
  LET r == run[p] IN
  /\ meta' = IF ok THEN [meta EXCEPT ![Head(r.todo)] = r.image] ELSE meta
  /\ Goes(p, IF r.pc = "clear" /\ (~ok \/ Len(r.todo) = 1) THEN Idle
             ELSE IF Len(r.todo) = 1 THEN [r EXCEPT !.pc = "reload", !.todo = <<>>]
             ELSE [r EXCEPT !.todo = Tail(@)])

Write(p) ==
  /\ run[p].pc \in {"write", "clear"}
  /\ \/ Head(run[p].todo) \in up /\ Written(p, TRUE) /\ count' = count
     \/ Head(run[p].todo) \notin up /\ Written(p, FALSE) /\ count' = count
     \/ Head(run[p].todo) \in up /\ Written(p, FALSE) /\ Counts("bad", MaxBad)
  /\ UNCHANGED <<up, map, holds, news>>

\* The new device is inserted at its place in the volume's list.
Placed(r) ==
  LET drive == RebuildDrive(r.image, r.vol) IN
  IF r.new # <<>> /\ \E i \in drive : i < Len(r.devs)
  THEN InsertAt(r.devs, (CHOOSE i \in drive : TRUE) + 1, r.new[1]) ELSE r.devs \o r.new

\* A table for w when run r rebuilds r.vol, with need_sync as given; none when
\* the number of the drive to rebuild is needed and there is none.
Tables(r, w, sync) ==
  LET devs  == IF w = r.vol THEN Placed(r) ELSE r.devs
      drive == RebuildDrive(IF w = r.vol THEN r.image ELSE r.old, r.vol)
  IN  IF Len(devs) <= 1 \/ ~sync THEN {Mirror(devs, FALSE, NoneFailed)}
      ELSE {Mirror(devs, sync, i) : i \in drive}

\* Mutant: the rebuilt volume is loaded with its status still "ok".
NeedSyncForgotten(r, w) == FALSE

\* rs_need_sync(): the rebuilt volume has been set to nosync.
NeedSync(r, w) == w = r.vol \/ r.old.failed[w] # NoneFailed \/ Len(r.devs) # NumMembers

\* change_set(): activate what is not active, the rebuilt volume as "ok", then
\* reload every volume.  A volume without a table keeps the one it has.
Reloaded(r, w) ==
  LET new == Tables(r, w, NeedSync(r, w))
      act == IF w = r.vol THEN Tables(r, w, FALSE) ELSE new
  IN  IF new # {} THEN CHOOSE t \in new : TRUE
      ELSE IF map[w].devs = <<>> /\ act # {} THEN CHOOSE t \in act : TRUE
      ELSE map[w]

\* A disk the new table leaves out misses the writes from now on.
Loads(new) ==
  /\ map' = new
  /\ holds' = [w \in Vol |-> IF new[w].devs = <<>> THEN holds[w]
                             ELSE holds[w] \cap ToSet(new[w].devs)]

\* The reload of a group always counts as a success.  Without a monitor the
\* metadata is declared clean at once.
Reload(p) ==
  LET r == run[p] IN
  /\ r.pc = "reload"
  /\ \/ Loads([w \in Vol |-> Reloaded(r, w)]) /\ count' = count
     \/ Counts("bad", MaxBad) /\ UNCHANGED <<map, holds>>
  /\ Goes(p, IF p = Tool /\ r.vol \notin Monitored
             THEN [r EXCEPT !.pc = "clear", !.todo = r.devs \o r.new,
                            !.image = Ended(r.image, r.vol)]
             ELSE Idle)
  /\ UNCHANGED <<meta, up, news>>

\* dmraid -ay: no volume is being rebuilt by this run, so that the order of
\* the legs is that of the metadata.
Activate ==
  /\ Free(Tool) /\ Counts("run", MaxRuns)
  /\ Read # {} /\ \E v \in Vol : map[v].devs = <<>>
  /\ \E devs \in Groupings :
       Loads([v \in Vol |-> IF map[v].devs # <<>> THEN map[v]
                            ELSE Mirror(devs, Status(v) # "ok", NoneFailed)])
  /\ UNCHANGED <<meta, up, news, run>>

-----------------------------------------------------------------------------
(* The kernel, the disks and the machine.                                  *)

\* The mirror target has copied its first leg to the others.
Synced(v) ==
  /\ map[v].sync /\ ToSet(map[v].devs) \subseteq up
  /\ map' = [map EXCEPT ![v].sync = FALSE]
  /\ holds' = [holds EXCEPT ![v] = IF map[v].devs[1] \in @ THEN ToSet(map[v].devs) ELSE {}]
  /\ news' = IF v \in Monitored THEN [news EXCEPT ![v] = Append(@, "insync")] ELSE news
  /\ UNCHANGED <<meta, up, run, count>>

\* A disk dies; a mirror survives the death of one leg, not of the last copy.
Fail(d) ==
  /\ d \in up \cap Mortal /\ Counts("fail", MaxFail)
  /\ \A v \in Vol : holds[v] \cap (up \ {d}) # {}
  /\ up' = up \ {d} /\ holds' = [v \in Vol |-> holds[v] \ {d}]
  /\ news' = [v \in Vol |-> IF v \in Monitored /\ d \in ToSet(map[v].devs)
                            THEN Append(news[v], "failure") ELSE news[v]]
  /\ UNCHANGED <<meta, map, run>>

Kill == /\ ~Free(Tool) /\ Counts("kill", MaxKill)
        /\ Goes(Tool, Idle)
        /\ UNCHANGED <<meta, up, map, holds, news>>

Reboot ==
  /\ Counts("boot", MaxBoot)
  /\ map' = [v \in Vol |-> Off] /\ news' = [v \in Vol |-> <<>>]
  /\ run' = [p \in Proc |-> Idle]
  /\ UNCHANGED <<meta, up, holds>>

Rebuild(p, v) == StartRebuild(p, v) \/ Resume(p, v) \/ Refuse(p, v)

Works(p) == Write(p) \/ Reload(p)

Thread(v) == Rebuild(v, v) \/ EndRebuild(v) \/ Works(v)

Next ==
  \/ \E v \in Vol : Thread(v) \/ Synced(v) \/ Rebuild(Tool, v)
  \/ Works(Tool) \/ Activate
  \/ \E d \in Disk : Fail(d)
  \/ Kill \/ Reboot

\* The kernel copies and the daemon's threads run; nobody has to start the
\* tool, but a started one goes on unless it is killed.
Fairness == /\ \A v \in Vol : WF_vars(Synced(v)) /\ WF_vars(Thread(v))
            /\ WF_vars(Works(Tool))

Spec == Init /\ [][Next]_vars /\ Fairness
-----------------------------------------------------------------------------
(* Properties.                                                             *)

Entry == [kind : {"blank", "spare", "member"}, gen : Nat, disk : Seq(Disk),
          failed : [Vol -> Nat]]

TypeOK ==
  /\ meta \in [Disk -> Entry] /\ up \subseteq Disk
  /\ map \in [Vol -> [devs : Seq(Disk), sync : BOOLEAN]]
  /\ holds \in [Vol -> SUBSET Disk]
  /\ news \in [Vol -> Seq({"insync", "failure"})]
  /\ run \in [Proc -> [pc : {"idle", "write", "reload", "clear"}, vol : Vol,
                       devs : Seq(Disk), new : {<<>>} \cup {<<d>> : d \in Disk}, todo : Seq(Disk),
                       old : Entry, image : Entry]]
  /\ count \in [Bounded -> Nat]
  /\ \A p \in Proc : run[p].pc \in {"write", "clear"} => run[p].todo # <<>>

\* The program is not told that this went wrong: add_dev_to_raid() goes on
\* after a failed write, and the reload of a group always succeeds.
Noticed == count.bad = 0

\* The new disk took entry 0, and a restart forgot that it is the one to copy
\* to (see CopiedFromMaster).
MasterForgotten == count.boot > 0 /\ Original[1] \notin up

\* A monitored volume the metadata calls "ok" has all of its data on every
\* disk it would be activated with, whatever was interrupted and retried: only
\* the end of a copy clears the rebuild state.
OkHasData ==
  \A v \in Monitored :
    Noticed /\ ~MasterForgotten /\ Read # {} /\ Status(v) = "ok" => Read \subseteq holds[v]

\* dm_raid1(): "Get drive for reordering - copy is made from first drive (i.e.
\* the master) to the other mirrors": the first leg of a mirror that is being
\* synchronised has the data.
CopiedFromMaster ==
  \A v \in Vol : map[v].sync => map[v].devs[1] \in holds[v] \cup (Disk \ up)

\* The kernel never copies from a disk without the data over one that has it:
\* dm_raid1() puts the disk to be rebuilt last, however the metadata and the
\* list of devices came about.
MasterHasData == Noticed /\ ~MasterForgotten => CopiedFromMaster

\* A disk that is in use and has the data is found again at the next start:
\* neither beginning nor ending a rebuild drops a living member.
StaysListed ==
  \A v \in Vol : Noticed => holds[v] \cap ToSet(map[v].devs) \cap up \subseteq Read

\* update_metadata_after_rebuild(): "Are we going to remove the failed disk from
\* the metadata ?"  The metadata written at the end of a rebuild leaves out a
\* disk that failed, and no member that works.
FailedRemoved ==
  \A p \in Proc : Noticed /\ run[p].pc = "clear" =>
    ToSet(run[p].devs) \subseteq ToSet(run[p].image.disk) \cup (Disk \ up)

\* A step that begins no rebuild while another one is under way, as if the
\* plug-in took the lock of the tool.
Serial == \A p \in Proc : Free(p) /\ run'[p].pc # "idle" => \A q \in Proc : Free(q)

\* A step with which the tool begins a rebuild ("dmraid -R").
ToolRebuilds == Free(Tool) /\ run'[Tool].pc # "idle"

\* A volume that lost one disk is rebuilt onto the spare by the daemon alone:
\* failure, new metadata, reload, copy, end of the copy, clean metadata.
Quiet   == count.bad = 0 /\ count.run = 0 /\ count.boot = 0
Rebuilt == \A v \in Monitored :
  count.fail = 1 ~> \/ ~Quiet \/ count.fail > 1
                    \/ Status(v) = "ok" /\ Read \subseteq holds[v]
=============================================================================
