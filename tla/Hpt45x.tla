------------------------------- MODULE Hpt45x -------------------------------
(***************************************************************************)
(* Highpoint HPT45X metadata (lib/format/ataraid/hpt45x.c).  A native      *)
(* record is [fmt, magic, magic0, type, disks, number, shift, total,       *)
(* raid1type, raid1number, raid1shift].                                    *)
(***************************************************************************)
EXTENDS RaidSets

ConfigOffset(capacity) == capacity - 11   \* HPT45X_CONFIGOFFSET, in sectors

Name(m, subset) == IF subset /\ m.magic0 # 0 THEN <<m.fmt, m.magic0, m.raid1number>>
                                             ELSE <<m.fmt, m.magic0>>

Status(m) == IF m.magic = "bad" THEN "broken" ELSE "ok"

Type(m) ==
  IF m.magic0 = 0 THEN "spare"
  ELSE IF m.type = "span" THEN "linear"
  ELSE IF m.type \in {"raid0", "raid1"} THEN m.type
  ELSE "undef"

Before(pos, new)    == new.meta.number < pos.meta.number
SetBefore(pos, new) == new.devs[1].meta.raid1number < pos.devs[1].meta.raid1number

Stride(shift) == IF shift = 0 THEN 0 ELSE 2 ^ shift

Valid(m) == m.magic \in {"ok", "bad"} /\ m.number < 8

Sectors(m, capacity) ==
  CASE Type(m) = "raid0" -> m.total \div (IF m.disks = 0 THEN 1 ELSE m.disks)
    [] Type(m) = "raid1" -> m.total
    [] OTHER             -> ConfigOffset(capacity)

\* hpt45x_read() and setup_rd(); the data starts at the start of the disk.
Read(disk, capacity, m) ==
  {rd \in {[fmt |-> "hpt45x", disk |-> disk, capacity |-> capacity, meta |-> m,
            name |-> Name(m, m.raid1type = "raid1"), type |-> Type(m), status |-> Status(m),
            sectors |-> Sectors(m, capacity), offset |-> 0]} :
     Valid(m) /\ rd.sectors # 0}

\* group_rd(): stripes with a mirror on top are joined, the rest stands alone.
Placed(f, rd) ==
  LET m == rd.meta IN
  IF m.type = "raid0" /\ m.raid1type = "raid1"
  THEN Joined(f, rd, Name(m, FALSE), "raid1", Stride(m.raid1shift), SetBefore)
  ELSE Listed(f, rd.name)

\* hpt45x_group()
Group(f, rd) ==
  IF rd.type = "spare" THEN {}
  ELSE {Placed(g, rd) : g \in Member(f, rd, Stride(rd.meta.shift), Before)}

Devices(rd) == rd.meta.disks

\* hpt45x_check(), with no check of a device.
Check(f, n) == Checked(f, n, Devices, LAMBDA rs, rd : FALSE)
=============================================================================
