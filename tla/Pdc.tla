-------------------------------- MODULE Pdc ---------------------------------
(***************************************************************************)
(* Promise FastTrak metadata (lib/format/ataraid/pdc.c).  A disk may have  *)
(* several metadata areas, each of a set of its own.  A native record is   *)
(* [fmt, at (sectors from the end of the disk, 0: none there), begins      *)
(* (there is one at the sector large devices have it), areas]; an area is  *)
(* [id (magic_1), checksum, type, number, disks, shift, total, start,      *)
(* more (with the device: the areas that follow)].                         *)
(***************************************************************************)
EXTENDS RaidSets

ConfigOffsets == <<63, 255, 256, 16, 399, 591, 675, 735, 911, 974, 991, 3087>>
BeginSector   == 268435377
MetaOffset    == 14        \* PDC_META_OFFSET
MaxAreas      == 4         \* PDC_MAX_META_AREAS
Large         == BeginSector + MetaOffset * MaxAreas

\* set_number(), is_raid10() and _name()
SetNumber(a) == IF a.number >= a.disks \div 2 THEN 1 ELSE 0
IsRaid10(a)  == a.type = "raid10" \/ (a.type = "raid1" /\ a.disks > 3)

Name(a, subset) == IF subset THEN <<"pdc", a.id, SetNumber(a)>> ELSE <<"pdc", a.id>>

Type(a) ==
  IF IsRaid10(a) THEN "raid0"
  ELSE IF a.type = "span" THEN "linear"
  ELSE IF a.type \in {"raid0", "raid1"} THEN a.type
  ELSE "undef"

\* pdc_read_metadata(): at one of the sectors from the end, or else at the
\* beginning of a large device; the areas that follow are read with it.
MetaSector(m, capacity) ==
  IF m.at \in ToSet(ConfigOffsets) THEN {m.at}
  ELSE IF m.begins /\ capacity > Large THEN {BeginSector}
  ELSE {}

\* is_pdc()
Valid(a) == a.disks \in 1 .. 7

Sectors(a, capacity, sector) ==
  IF IsRaid10(a) THEN a.total \div (a.disks \div 2)
  ELSE IF a.type = "raid1" THEN a.total
  ELSE IF a.type = "raid0" THEN a.total \div a.disks
  ELSE IF a.type = "span" THEN capacity - sector
  ELSE 0

\* A device of an area: setup_rd() for the first, _create_rd() for the others,
\* the bit of a broken disk is not looked at.
Device(disk, capacity, a, sector, offset) ==
  {rd \in {[fmt |-> "pdc", disk |-> disk, capacity |-> capacity, meta |-> a,
            name |-> Name(a, IsRaid10(a)), type |-> Type(a), status |-> "ok",
            sectors |-> Sectors(a, capacity, sector), offset |-> offset]} :
     Valid(a) /\ rd.sectors # 0}

\* pdc_read(): the further areas are kept with the device.
Read(disk, capacity, m) ==
  LET a == [m.areas[1] EXCEPT !.more = Tail(m.areas)]
  IN  UNION {Device(disk, capacity, a, s, 0) : s \in IF a.checksum THEN MetaSector(m, capacity) ELSE {}}

Before(pos, new)    == new.meta.number < pos.meta.number
SetBefore(pos, new) == SetNumber(new.devs[1].meta) = 0

Stride(a) == IF a.shift = 0 THEN 0 ELSE 2 ^ a.shift

\* _group_rd()
Placed(f, rd) ==
  IF IsRaid10(rd.meta)
  THEN Joined(f, rd, Name(rd.meta, FALSE), "raid1", Stride(rd.meta), SetBefore)
  ELSE Listed(f, rd.name)

GroupArea(f, rd) == {Placed(g, rd) : g \in Member(f, rd, Stride(rd.meta), Before)}

\* _create_rd(): the device of the i-th area, 0 for the one that is there.
Area(rd, i) ==
  IF i = 0 THEN {rd}
  ELSE LET a == rd.meta.more[i]
       IN  {d \in Device(rd.disk, rd.capacity, a, 0, a.start) : d.type # "undef"}

\* group_rd(): the areas one by one, none after one that failed; the sets
\* of the areas before that one are left as they are.
GroupAreas(f, rd) ==
  LET Add(r, i) ==
        LET gs == UNION {GroupArea(r.sets, d) : d \in Area(rd, i)}
        IN  IF ~r.ok \/ gs = {} THEN [r EXCEPT !.ok = FALSE]
            ELSE [r EXCEPT !.sets = CHOOSE g \in gs : TRUE]
      done[i \in 0 .. Len(rd.meta.more)] ==
        Add(IF i = 0 THEN [sets |-> f, ok |-> TRUE] ELSE done[i-1], i)
  IN  done[Len(rd.meta.more)]

\* pdc_group()
Group(f, rd) ==
  LET r == GroupAreas(f, rd)
  IN  IF rd.type = "spare" \/ ~r.ok THEN {} ELSE {r.sets}

\* What pdc_group() leaves when it fails.
Leftover(f, rd) == IF rd.type = "spare" THEN f ELSE GroupAreas(f, rd).sets

Devices(rd) == IF IsRaid10(rd.meta) THEN rd.meta.disks \div 2 ELSE rd.meta.disks

\* What devices() adds up over the sets that are checked.
TotalSecs(f, n) ==
  LET rs == f.set[n]
      Add(t, rd)   == IF rd.meta.type = "span" THEN t ELSE t + rd.sectors
      AddSub(t, s) == FoldLeft(Add, t, f.set[s].devs)
  IN  FoldLeft(Add, FoldLeft(AddSub, 0, rs.subs), rs.devs)

\* pdc_check(): the sizes summed up in the first pass are checked in a second.
Check(f, n) ==
  LET g == Checked(f, n, Devices, LAMBDA rs, rd : FALSE)
  IN  IF g.set[n].status = "broken" THEN g
      ELSE Checked(g, n, Devices, LAMBDA rs, rd : TotalSecs(f, n) >= rd.meta.total)
=============================================================================
