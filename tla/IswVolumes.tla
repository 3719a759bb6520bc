----------------------------- MODULE IswVolumes -----------------------------
(***************************************************************************)
(* Creating, deleting and erasing the volumes of Intel (isw) arrays with   *)
(* "dmraid -C", "-x" and "-E" (lib/format/ataraid/isw.c and                *)
(* lib/metadata/metadata.c).                                               *)
(*                                                                         *)
(* Every disk of an array carries a copy of the metadata: the family       *)
(* number, the disk table and at most two volumes.  A command reads the    *)
(* metadata of all disks, decides, and writes the new one disk by disk; a  *)
(* failed write is not taken back, and the command may be killed between   *)
(* two disks, so that the next command finds disks that disagree.          *)
(*                                                                         *)
(* Commands run one at a time, under the lock of lib_perform().  A command *)
(* that is refused changes nothing and is no step.  Sizes are in blocks.   *)
(***************************************************************************)
EXTENDS Naturals, Sequences, FiniteSets, SequencesExt, FiniteSetsExt

CONSTANTS
  Disk,      \* the disks of the machine
  Sectors,   \* their sizes
  Lists,     \* the lists of disks a user gives with --disk
  Name,      \* the names of volumes,
  Sizes,     \*   and their sizes, 0 for the default
  Strides,   \*   and strides, 0 for the default
  MaxRuns,   \* bounds: commands that change something,
  MaxBad     \*   and writes that fail

MinVolumeSize       == 204800     \* MIN_VOLUME_SIZE
Journal             == 264        \* RAID_DS_JOURNAL
MigrOptSpace        == 4096       \* MIGR_OPT_SPACE
VolumeReserved      == Journal + MigrOptSpace
DiskReserved        == 417 + VolumeReserved
MetadataBlocks      == 2

\* No disk is as small as the journal of one volume and the metadata.
ASSUME ConstantsAssumption ==
  /\ IsFiniteSet(Disk) /\ Lists \subseteq Seq(Disk) \ {<<>>}
  /\ Sectors \in [Disk -> Nat] /\ \A d \in Disk : Sectors[d] > Journal + MetadataBlocks
  /\ Sizes \cup Strides \cup {MaxRuns, MaxBad} \subseteq Nat

Levels == {"raid0", "raid1", "raid10", "raid5", "spare"}

VARIABLES
  meta,   \* per disk: the metadata on it
  todo,   \* the writes the command still has to do
  whole,  \* the volumes that were written to all of their disks (ghost)
  next,   \* the number of the next family, and of commands run
  bad     \* the number of writes that have failed

vars == <<meta, todo, whole, next, bad>>

\* set_metadata_sizoff(): the metadata ends at ISW_CONFIGSECTOR, the last but
\* one of the disk.
MetadataStart(d) == Sectors[d] - 2 - MetadataBlocks + 1

\* A family of 0 stands for no metadata.
Blank == [family |-> 0, disk |-> <<>>, vols |-> <<>>]

Init ==
  /\ meta = [d \in Disk |-> Blank] /\ todo = <<>> /\ whole = {}
  /\ next = 1 /\ bad = 0

-----------------------------------------------------------------------------
(* Discovery.                                                              *)

\* isw_read_metadata(): the disk's own entry has to be there.
Read == {d \in Disk : d \in ToSet(meta[d].disk)}

Families == {meta[d].family : d \in Read}
Of(f)    == {d \in Read : meta[d].family = f}

\* isw_group(): dev_sort() keeps the order of the disk table.
Slot(d)      == CHOOSE i \in DOMAIN meta[d].disk : meta[d].disk[i] = d
Sorted(devs) ==
  {s \in SetToSeqs(devs) : \A i, j \in DOMAIN s : i < j => Slot(s[i]) < Slot(s[j])}

\* group_rd(): a set for each volume of each disk.
NamesOn(d) == {meta[d].vols[i].name : i \in DOMAIN meta[d].vols}
Names(f)   == UNION {NamesOn(d) : d \in Of(f)}

-----------------------------------------------------------------------------
(* Sizes.                                                                  *)

\* _num_disks()
MinDisks(level) == CASE level = "raid10" -> 4 [] level = "raid5" -> 3
                     [] level = "spare" -> 1 [] OTHER -> 2
MaxDisks(level) == CASE level \in {"raid0", "raid5"} -> 6 [] level = "raid10" -> 4
                     [] level = "raid1" -> 2 [] OTHER -> 1

\* _find_factors()
Div(level) == IF level \in {"raid1", "raid10"} THEN 2 ELSE 1
Sub(level) == IF level = "raid5" THEN 1 ELSE 0

\* _get_stride_size(): the smallest one that is large enough, or the largest.
Options(level) ==
  CASE level \in {"raid0", "raid10"} -> {8, 16, 32, 64, 128, 256}
    [] level = "raid1"               -> {128}
    [] level = "raid5"               -> {32, 64, 128, 256}
    [] OTHER                         -> {0}

StrideSize(level, stride) ==
  LET fit == {s \in Options(level) : s >= stride}
  IN  IF stride = 0 THEN (IF level = "raid0" THEN 256 ELSE 128)
      ELSE IF fit # {} THEN Min(fit) ELSE Max(Options(level))

\* What the smallest disk has left beside the volumes there are.
Left(list, vols) ==
  LET disk == Min({Sectors[list[i]] : i \in DOMAIN list})
      free == disk - DiskReserved
      used == IF vols = <<>> THEN DiskReserved ELSE vols[1].length + DiskReserved
  IN  IF vols = <<>> \/ vols[1].start = 0
      THEN IF free > used THEN {free - used} ELSE {}
      ELSE IF vols[1].start >= VolumeReserved THEN {vols[1].start - VolumeReserved} ELSE {}

\* _cal_array_size(): 1 when nothing is left, 0 for a disk smaller than what
\* is reserved.
ArraySize(list, level, vols) ==
  IF \E i \in DOMAIN list : Sectors[list[i]] < DiskReserved THEN 0
  ELSE IF Left(list, vols) = {} THEN 1
  ELSE (Max(Left(list, vols)) * (Len(list) - Sub(level))) \div Div(level)

\* Mutant: the stripes are not rounded up.
RoundedDown(size, strip, n) == (size \div strip) \div n

\* num_data_stripes in isw_config_map()
Stripes(size, strip, n) == (size \div strip + n - 1) \div n

\* isw_config_map()
Volume(name, level, n, strip, size, start) ==
  LET data == Stripes(size, strip, n - Sub(level)) * strip * Div(level)
  IN  [name |-> name, level |-> level, size |-> size, strip |-> strip,
       start |-> start, length |-> data + Journal]

-----------------------------------------------------------------------------
(* Creating a volume.                                                      *)

Idle == todo = <<>>

\* The command has the disks of list to write the metadata m to.
Writes(list, m) == [i \in DOMAIN list |-> [disk |-> list[i], meta |-> m]]

Starts(writes) ==
  /\ Idle /\ next <= MaxRuns
  /\ next' = next + 1 /\ todo' = writes
  /\ UNCHANGED <<meta, bad>>

\* enforce_size_limit()
Enforced(size) == IF size \in 1 .. MinVolumeSize THEN MinVolumeSize ELSE size

\* Mutant: only the first disk is asked.
NotOnFirst(list, name) == name \notin NamesOn(list[1])

\* is_name_unique()
NameUnique(list, name) == \A f \in Families : name \notin Names(f)

\* Mutant: a spare is given a volume.
Filled(level, vol) == <<vol>>

\* The volume table of a new array; a spare has no volume.
Table(level, vol) == IF level = "spare" THEN <<>> ELSE <<vol>>

\* _isw_create_first_volume(), of none of whose disks is_first_volume() finds
\* isw metadata.
CreateFirst(list, name, level, stride, size) ==
  LET total == ArraySize(list, level, <<>>)
      wish  == Enforced(size)
      vol   == Volume(name, level, Len(list), StrideSize(level, stride),
                      IF wish = 0 THEN total ELSE wish, 0)
  IN  /\ ToSet(list) \cap Read = {}
      /\ wish <= total
      /\ Starts(Writes(list, [family |-> next, disk |-> list,
                              vols |-> Table(level, vol)]))

\* match_hd_array() of the first disk with metadata, and _find_group(): all
\* disks of one array.
Array(list) ==
  LET First(i)  == list[i] \in Read /\ \A j \in 1 .. i - 1 : list[j] \notin Read
      Matches(m) == /\ Len(m.disk) = Len(list) /\ ToSet(list) \subseteq ToSet(m.disk)
                    /\ ToSet(list) \subseteq Of(m.family)
  IN  {meta[list[i]].family : i \in {j \in DOMAIN list : First(j) /\ Matches(meta[list[j]])}}

\* Mutant: the first volume is taken to be at the start of the disks.
Behind(first, level, n, strip, size) == {first.length + MigrOptSpace}

\* Where isw_config_dev() puts the volume beside the first one.
Start(first, level, n, strip, size) ==
  IF first.start = 0 THEN {first.length + MigrOptSpace}
  ELSE IF Volume("", level, n, strip, size, 0).length + MigrOptSpace > first.start THEN {}
  ELSE {0}

\* _isw_create_second_volume(): the size asked for is forgotten; what is there
\* is what the first disk of the array says.
CreateSecond(list, name, level, stride) ==
  \E f \in Array(list) : \E devs \in Sorted(Of(f)) :
    LET m     == meta[devs[1]]
        strip == StrideSize(level, stride)
        total == ArraySize(list, level, m.vols)
    IN  /\ level # "spare"
        /\ Len(m.vols) = 1 /\ total >= MinVolumeSize
        /\ \E start \in Start(m.vols[1], level, Len(list), strip, total) :
             Starts(Writes(list, [m EXCEPT !.vols =
               Append(@, Volume(name, level, Len(list), strip, total, start))]))

\* create_raidset() finds the disks and refuses a list that repeats one.
Accepted(list) == ToSet(list) \subseteq Disk /\ IsInjective(list)

\* _isw_create_raidset(), whose metadata config_raidset() has written.
Create(list, name, level, stride, size) ==
  /\ Accepted(list)
  /\ level # "spare" => NameUnique(list, name)
  /\ Len(list) \in MinDisks(level) .. MaxDisks(level)
  /\ IF ToSet(list) \cap Read = {} THEN CreateFirst(list, name, level, stride, size)
     ELSE CreateSecond(list, name, level, stride)
  /\ UNCHANGED whole

-----------------------------------------------------------------------------
(* Deleting volumes.                                                       *)

\* The volumes that are left in the table; there are never two.
Without(vols, names) ==
  {rest \in {<<>>} \cup {<<v>> : v \in ToSet(vols)} :
     ToSet(rest) = {v \in ToSet(vols) : v.name \notin names}}

\* Mutant: the only volume is not compared with the name.
Unchecked(m, names) == IF Len(m.vols) = 1 THEN {<<>>} ELSE Without(m.vols, names)

\* The volumes isw_delete() leaves of the group's first metadata m, in a set
\* that is empty when it refuses: of two sets in the group both must be there,
\* of one that one, and a spare has none.
Remaining(m, names) ==
  LET listed == {i \in DOMAIN m.vols : m.vols[i].name \in names}
      enough == IF Cardinality(names) > 1 THEN 2 ELSE Cardinality(names)
  IN  IF Cardinality(listed) = enough THEN Without(m.vols, names) ELSE {}

\* isw_erase_metadata() and isw_remove_dev()
Deletes(group, names) ==
  \E devs \in Sorted(group) : \E rest \in Remaining(meta[devs[1]], names) :
    Starts(Writes(devs, IF rest = <<>> THEN Blank ELSE [meta[devs[1]] EXCEPT !.vols = rest]))

\* "dmraid -x name": want_set() drops the other volumes after each disk, and a
\* group without volumes with its disks; the disks without the volume that
\* were read before one with it are not in the group, and those read later are.
Delete(f, name) ==
  LET having == {d \in Of(f) : name \in NamesOn(d)}
  IN  /\ having # {}
      /\ \E late \in SUBSET (Of(f) \ having) : Deletes(having \cup late, {name})
      /\ whole' = {v \in whole : v.family # f \/ v.vol.name # name}

\* "dmraid -x": delete_raidsets() goes from group to group, asks, and ignores
\* those that refuse.  The groups have no disk in common, so that a run over
\* several is a step for each.
DeleteAll(f) ==
  /\ Deletes(Of(f), Names(f))
  /\ whole' = {v \in whole : v.family # f}

\* "dmraid -r -E": erase_metadata() asks for each disk.
Erase(disks) ==
  /\ disks \subseteq Read /\ disks # {}
  /\ \E devs \in SetToSeqs(disks) : Starts(Writes(devs, Blank))
  /\ whole' = {v \in whole : ToSet(v.disks) \cap disks = {}}

-----------------------------------------------------------------------------
(* Writing.                                                                *)

\* The volumes of m that all of the disks have now.
Completed(m) ==
  {[family |-> m.family, disks |-> m.disk, vol |-> m.vols[i]] : i \in
     {j \in DOMAIN m.vols : \A d \in ToSet(m.disk) : m.vols[j] \in ToSet(meta'[d].vols)
                                                     /\ meta'[d].family = m.family}}

\* isw_write() of the next disk: write_set() and isw_write_all() go on after a
\* failure.
Write(ok) ==
  /\ todo # <<>>
  /\ meta' = IF ok THEN [meta EXCEPT ![Head(todo).disk] = Head(todo).meta] ELSE meta
  /\ bad' = bad + (IF ok THEN 0 ELSE 1) /\ bad' <= MaxBad
  /\ todo' = Tail(todo)
  /\ whole' = IF todo' = <<>> THEN whole \cup Completed(Head(todo).meta) ELSE whole
  /\ UNCHANGED next

Kill == todo # <<>> /\ todo' = <<>> /\ UNCHANGED <<meta, whole, next, bad>>

Next ==
  \/ \E list \in Lists, name \in Name, level \in Levels, stride \in Strides, size \in Sizes :
       Create(list, name, level, stride, size)
  \/ \E f \in Families, name \in Name : Delete(f, name)
  \/ \E f \in Families : DeleteAll(f)
  \/ \E disks \in SUBSET Read : Erase(disks)
  \/ \E ok \in BOOLEAN : Write(ok)
  \/ Kill

Spec == Init /\ [][Next]_vars

-----------------------------------------------------------------------------
(* Properties.                                                             *)

Volumes == [name : Name, level : Levels \ {"spare"}, size : Nat, strip : Nat \ {0},
            start : Nat, length : Nat]
Metas   == [family : Nat, disk : Seq(Disk), vols : Seq(Volumes)]

TypeOK ==
  /\ meta \in [Disk -> Metas] /\ todo \in Seq([disk : Disk, meta : Metas])
  /\ \A v \in whole : v \in [family : Nat, disks : Seq(Disk), vol : Volumes]
  /\ next \in 1 .. MaxRuns + 1 /\ bad \in 0 .. MaxBad

End(v) == v.start + v.length

\* Two volumes never share a block of a disk, and none reaches the metadata at
\* its end: also when the second volume is made where a deleted one was, with
\* what _cal_array_size() and isw_config_dev() find room for.
Disjoint ==
  \A d \in Disk : LET vols == meta[d].vols IN
    \A i \in DOMAIN vols :
      /\ End(vols[i]) <= MetadataStart(d)
      /\ \A j \in DOMAIN vols :
           i # j => End(vols[i]) <= vols[j].start \/ End(vols[j]) <= vols[i].start

\* A volume that was completely created, and that nobody has deleted, stays on
\* all of its disks as it is, whatever happens to the volume beside it: a
\* creation or deletion that failed half-way, was killed or repeated, and
\* whichever disk's metadata the next command happens to look at.
Survives ==
  \A v \in whole : \A d \in ToSet(v.disks) :
    meta[d].family = v.family /\ v.vol \in ToSet(meta[d].vols)

\* group_rd() makes one set of a family's volumes of one name, from whatever
\* disk they are found on: they are the same volume, even after a creation or
\* deletion that not all disks have seen.
Agree ==
  \A f \in Families : \A d, e \in Of(f) :
    \A v \in ToSet(meta[d].vols), w \in ToSet(meta[e].vols) : v.name = w.name => v = w

\* The devices of a volume hold the size it was created with; what is rounded
\* off is less than a strip.
Sized ==
  \A d \in Disk : \A v \in ToSet(meta[d].vols) :
    LET n == Len(meta[d].disk) - Sub(v.level)
    IN  ((v.length - Journal) * n) \div Div(v.level) > v.size - v.strip
=============================================================================
