--------------------------------- MODULE Nv ---------------------------------
(***************************************************************************)
(* NVidia metadata (lib/format/ataraid/nv.c).  A native record is [fmt,    *)
(* magic, id (sum of the signatures), level, unit (unitNumber), width      *)
(* (stripeWidth), volumes (totalVolumes), stripe (stripeBlockSize), job    *)
(* (raidJobCode), broken (the array's error flag)].                        *)
(***************************************************************************)
EXTENDS RaidSets

ConfigOffset(capacity) == capacity - 2   \* NV_CONFIGOFFSET, in sectors

\* _subset(): the second half of a striped mirror.
Subset(m) == IF m.unit >= m.width THEN 1 ELSE 0

Name(m, subset) == IF subset /\ m.level = "1_0" THEN <<m.fmt, m.id, Subset(m)>>
                                                ELSE <<m.fmt, m.id>>

Status(m) ==
  IF m.broken THEN "broken"
  ELSE IF m.job = "idle" THEN "ok"
  ELSE IF m.job \in {"init", "sync"} THEN "nosync"
  ELSE IF m.job \in {"rebuild", "upgrade"} THEN "inconsistent"
  ELSE "undef"

\* The disks the level needs; the units beyond them are spares.
Width(m) ==
  (CASE m.level \in {"1_0", "10", "1"} -> 2 * m.width
     [] m.level = "5_sym"              -> m.width + 1
     [] OTHER                          -> m.width) % 256

Type(m) ==
  IF m.volumes >= Width(m) /\ m.unit >= Width(m) THEN "spare"
  ELSE IF m.level = "jbod" THEN "linear"
  ELSE IF m.level \in {"0", "1_0"} THEN "raid0"
  ELSE IF m.level = "1" THEN "raid1"
  ELSE IF m.level = "3" THEN "raid4"
  ELSE IF m.level = "5_sym" THEN "raid5_ls"
  ELSE IF m.level = "unknown" THEN "spare"
  ELSE "undef"

Arrived(pos, new) == FALSE      \* a mutant: the devices in the order they come

Before(pos, new)    == new.meta.unit < pos.meta.unit
SetBefore(pos, new) == Subset(new.devs[1].meta) < Subset(pos.devs[1].meta)

\* is_nv() and nv_read(): signature and checksum.
Valid(m) == m.magic = "ok"

\* setup_rd(): the disk has data up to the metadata.
Read(disk, capacity, m) ==
  {rd \in {[fmt |-> "nv", disk |-> disk, capacity |-> capacity, meta |-> m,
            name |-> Name(m, TRUE), type |-> Type(m), status |-> Status(m),
            sectors |-> ConfigOffset(capacity), offset |-> 0]} :
     Valid(m) /\ rd.sectors # 0}

\* group_rd(): a set of another level is not linked anywhere.
Placed(f, g, rd) ==
  CASE rd.meta.level = "1_0" -> Joined(g, rd, Name(rd.meta, FALSE), "raid1", rd.meta.stripe, SetBefore)
    [] rd.meta.level \in {"jbod", "0", "1", "5_sym"} -> Listed(g, rd.name)
    [] OTHER -> IF Found(f, rd.name) THEN g ELSE f

\* nv_group(): spares are grouped too.
Group(f, rd) == {Placed(f, g, rd) : g \in Member(f, rd, rd.meta.stripe, Before)}

\* devices(): the spares of the array are counted here and nowhere else.
Devices(rd) == rd.meta.volumes \div (IF rd.meta.level = "1_0" THEN 2 ELSE 1)

\* nv_check(), with no check of a device.
Check(f, n) == Checked(f, n, Devices, LAMBDA rs, rd : FALSE)
=============================================================================
