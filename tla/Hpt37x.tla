------------------------------- MODULE Hpt37x -------------------------------
(***************************************************************************)
(* Highpoint HPT37X metadata (lib/format/ataraid/hpt37x.c).  A native      *)
(* record is [fmt, magic, magic0, magic1, type, order, disks, number,      *)
(* shift, total].                                                          *)
(***************************************************************************)
EXTENDS RaidSets

DataOffset == 10    \* HPT37X_DATAOFFSET
Stacked    == {"raid01_raid0", "raid01_raid1"}

\* name(): spares share the name of a set that nobody makes.
Name(m, subset) ==
  LET id == IF m.magic0 = 0 THEN 0 ELSE IF m.magic1 # 0 THEN m.magic1 ELSE m.magic0
  IN  IF id # 0 /\ subset /\ m.type \in Stacked THEN <<m.fmt, id, m.order>> ELSE <<m.fmt, id>>

Status(m) == IF m.magic = "bad" THEN "broken" ELSE "ok"

Type(m) ==
  IF m.magic0 = 0 THEN "spare"
  ELSE IF m.type \in {"single", "span"} THEN "linear"
  ELSE IF m.type \in {"raid0", "raid01_raid0"} THEN "raid0"
  ELSE IF m.type \in {"raid1", "raid01_raid1"} THEN "raid1"
  ELSE "undef"

Before(pos, new)    == new.meta.number < pos.meta.number
SetBefore(pos, new) == new.devs[1].meta.order < pos.devs[1].meta.order

\* check_magic()
Valid(m) == m.magic \in {"ok", "bad"} /\ m.number < 8

Stride(m) == IF m.shift = 0 THEN 0 ELSE 2 ^ m.shift

\* The first disk of a set has no space reserved at its start.
Offset(m) == IF m.number = 0 THEN 0 ELSE DataOffset

Sectors(m, capacity) ==
  (CASE Type(m) = "raid0" -> m.total \div (IF m.disks = 0 THEN 1 ELSE m.disks)
     [] Type(m) = "raid1" -> m.total
     [] OTHER             -> capacity) - Offset(m)

\* hpt37x_read() and setup_rd()
Read(disk, capacity, m) ==
  {rd \in {[fmt |-> "hpt37x", disk |-> disk, capacity |-> capacity, meta |-> m,
            name |-> Name(m, TRUE), type |-> Type(m), status |-> Status(m),
            sectors |-> Sectors(m, capacity), offset |-> Offset(m)]} :
     Valid(m) /\ rd.sectors # 0}

\* group_rd(), once the device is in its set.
Placed(f, rd) ==
  LET m == rd.meta
      h == f.set[rd.name].devs[1].meta
      super == IF m.type = "raid01_raid0" THEN "raid1" ELSE "raid0"
  IN  CASE m.type \notin Stacked /\ h.magic0 = m.magic0 -> {Listed(f, rd.name)}
        [] m.type \in Stacked /\ h.magic1 = m.magic1 ->
             {Joined(f, rd, Name(m, FALSE), super, Stride(m), SetBefore)}
        [] OTHER -> {}

\* hpt37x_group()
Group(f, rd) ==
  IF rd.type = "spare" THEN {}
  ELSE UNION {Placed(g, rd) : g \in Member(f, rd, Stride(rd.meta), Before)}

Devices(rd)     == rd.meta.disks
CheckRd(rs, rd) == rd.type = "raid1"

\* hpt37x_check()
Check(f, n) == Checked(f, n, Devices, CheckRd)
=============================================================================
