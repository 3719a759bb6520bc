-------------------------------- MODULE Ddf1 --------------------------------
(***************************************************************************)
(* SNIA DDF1 metadata (lib/format/ddf/ddf1.c): every disk has the tables   *)
(* of all disks and all volumes of its group and the configuration of the  *)
(* volumes.  A native record is [fmt, primary, secondary (headers: good or *)
(* not), freed (what is read through the header that was freed is good),   *)
(* adaptec, reference (of this disk), phys, virt, cfgs]; a physical drive  *)
(* is [reference, state (a set of flags), size], a volume [guid, name], a  *)
(* configuration [vd (not of a spare), guid, ids, offsets, level,          *)
(* qualifier, shift, sectors].                                             *)
(***************************************************************************)
EXTENDS RaidSets

Disks == <<"ddf1">>      \* DDF1_DISKS, the group of all disks

\* get_phys_drive(), searched from the end.
Phys(m)  == SelectLastInSeq(m.phys, LAMBDA p : p.reference = m.reference)
Drive(m) == m.phys[Phys(m)]

\* disk_status(): the first of the flags that is set.
Status(p) ==
  IF p.state \cap {"failed", "smart", "error", "missing"} # {} THEN "broken"
  ELSE IF "rebuilding" \in p.state THEN "nosync"
  ELSE IF "transition" \in p.state THEN "setup"
  ELSE IF "online" \in p.state THEN "ok"
  ELSE "undef"

Type(m, c) ==
  CASE c.level \in {"raid0", "raid1", "raid4"} -> c.level
    [] c.level \in {"concat", "jbod"}          -> "linear"
    [] c.level = "raid5" -> IF m.adaptec THEN "raid5_la"
                            ELSE IF c.qualifier \in Raid5 \ {"raid5_ra"} THEN c.qualifier ELSE "undef"
    [] OTHER                                   -> "undef"

Stride(c) == 2 ^ c.shift

\* read_extended(): the fields that tell where the tables are come from the
\* primary header, even from a bad one that was freed.
Valid(m) == IF m.primary THEN TRUE ELSE m.secondary /\ m.freed

\* ddf1_read() and setup_rd(): the device stands for the whole disk.
Read(disk, capacity, m) ==
  {rd \in {[fmt |-> "ddf1", disk |-> disk, capacity |-> capacity, meta |-> m,
            name |-> Disks, type |-> "group", status |-> Status(Drive(m)),
            sectors |-> Drive(m).size, offset |-> 0] : x \in IF Phys(m) # 0 THEN {0} ELSE {}} :
     Valid(m) /\ rd.sectors # 0}

-----------------------------------------------------------------------------
(* The configuration records of this disk.                                 *)

Mine(m) == SelectSeq(m.cfgs, LAMBDA c : c.vd /\ m.reference \in ToSet(c.ids))

Entry(m, c)  == SelectInSeq(c.ids, LAMBDA id : id = m.reference)   \* get_offset_entry()
Offset(m, c) == c.offsets[Entry(m, c)]                             \* get_offset()

\* get_config(): the n-th (from 0) of this disk; past the last of them it is
\* the first record of the table.
Config(m, n) == IF n < Len(Mine(m)) THEN Mine(m)[n + 1] ELSE m.cfgs[1]

\* get_this_config(): the place in the whole table of the record with this
\* offset is taken for its place among those of this disk.
ThisConfig(m, offset) ==
  Config(m, SelectInSeq(m.cfgs, LAMBDA c : /\ c.vd /\ m.reference \in ToSet(c.ids)
                                           /\ Offset(m, c) = offset) - 1)

\* name(): of the volume of the record, if there is one.
Names(m, offset) ==
  LET i == SelectLastInSeq(m.virt, LAMBDA v : v.guid = ThisConfig(m, offset).guid)
  IN  IF i = 0 THEN {} ELSE {<<"ddf1", m.virt[i].name>>}

\* get_size()
Size(m, c) ==
  IF c.sectors = 0 THEN Drive(m).size
  ELSE IF Type(m, c) = "raid0" THEN RoundDown(c.sectors, Stride(c))
  ELSE c.sectors

\* The devices of the volumes of a disk, one without a volume is left out.
Segments(rd) ==
  LET m == rd.meta
      Segment(c) == {[rd EXCEPT !.name = n, !.type = Type(m, c), !.status = "setup",
                                !.sectors = Size(m, c), !.offset = Offset(m, c)] :
                       n \in Names(m, Offset(m, c))}
  IN  [i \in DOMAIN Mine(m) |-> {s \in Segment(Mine(m)[i]) : s.sectors # 0}]

\* dev_sort() by the place in the record, set_sort() by the name.
Before(pos, new) == Entry(new.meta, ThisConfig(new.meta, new.offset))
                      < Entry(pos.meta, ThisConfig(pos.meta, pos.offset))
Sooner(pos, new) == new[2] < pos[2]

\* group_rd(): each volume is a subset of the group.
Segmented(f, seg) ==
  LET c == ThisConfig(seg.meta, seg.offset)
      g == IF Found(f, seg.name) THEN f ELSE [f EXCEPT !.set[Disks].subs = AddSorted(@, seg.name, Sooner)]
  IN  WithSet(g, seg.name,
        [FoundOrNew(f, seg) EXCEPT !.type = seg.type, !.stride = Stride(c),
                                   !.devs = AddSorted(@, seg, Before), !.status = "ok"])

\* ddf1_group()
Group(f, rd) ==
  LET rs == FoundOrNew(f, rd)
      g  == Listed(WithSet(f, Disks, [rs EXCEPT !.devs = Append(@, rd)]), Disks)
      segs == Segments(rd)
      done[i \in 0 .. Len(Mine(rd.meta))] ==
        IF i = 0 THEN g
        ELSE IF segs[i] = {} THEN done[i-1]
        ELSE Segmented(done[i-1], CHOOSE s \in segs[i] : TRUE)
  IN  {done[Len(Mine(rd.meta))]}

\* device_count()
Devices(rd) == Len(ThisConfig(rd.meta, rd.offset).ids)

\* check_rd() compares the type of the device with a state.
CheckRd(rs, rd) == TRUE

\* ddf1_check()
Check(f, n) == Checked(f, n, Devices, CheckRd)
=============================================================================
