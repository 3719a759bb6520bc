-------------------------------- MODULE Via ---------------------------------
(***************************************************************************)
(* VIA metadata (lib/format/ataraid/via.c).  A native record is [fmt,      *)
(* magic, checksum, id (sum of the serial numbers), type, info             *)
(* (raid_type_info, 5 bits), member (in_disk_array), tolerance, disks,     *)
(* shift].                                                                 *)
(***************************************************************************)
EXTENDS RaidSets

ConfigOffset(capacity) == capacity - 1   \* VIA_CONFIGOFFSET, in sectors

Index(m)  == m.info % 8                   \* VIA_T_RAID_INDEX
Source(m) == m.info % 4 = 0               \* VIA_T_RAID1_SOURCE
Subset(m) == (m.info \div 8) % 2          \* VIA_T_RAID01_MIRROR
Stride(m) == 8 * 2 ^ m.shift              \* VIA_STRIDE

Name(m, subset) == IF subset /\ m.type = "raid01" THEN <<m.fmt, m.id, Subset(m)>>
                                                  ELSE <<m.fmt, m.id>>

Status(m) == IF m.tolerance THEN "broken"
             ELSE IF m.member THEN "ok"
             ELSE "undef"

Type(m) ==
  CASE m.type = "span"                -> "linear"
    [] m.type \in {"raid0", "raid01"} -> "raid0"
    [] m.type = "raid1"               -> "raid1"
    [] OTHER                          -> "undef"

Before(pos, new) ==
  IF pos.meta.type = "raid1" THEN Source(new.meta) ELSE Index(new.meta) < Index(pos.meta)

SetBefore(pos, new) == Subset(new.devs[1].meta) < Subset(pos.devs[1].meta)

\* is_via() and via_read()
Valid(m) == m.magic = "ok" /\ m.checksum

\* setup_rd()
Read(disk, capacity, m) ==
  {rd \in {[fmt |-> "via", disk |-> disk, capacity |-> capacity, meta |-> m,
            name |-> Name(m, TRUE), type |-> Type(m), status |-> Status(m),
            sectors |-> ConfigOffset(capacity), offset |-> 0]} :
     Valid(m) /\ rd.sectors # 0}

\* group_rd()
Placed(f, rd) ==
  IF rd.meta.type = "raid01"
  THEN Joined(f, rd, Name(rd.meta, FALSE), "raid1", Stride(rd.meta), SetBefore)
  ELSE Listed(f, rd.name)

\* via_group()
Group(f, rd) ==
  IF rd.type = "spare" THEN {}
  ELSE {Placed(g, rd) : g \in Member(f, rd, Stride(rd.meta), Before)}

Devices(rd) == IF rd.meta.type = "raid1" THEN 2 ELSE rd.meta.disks

\* check_rd() compares the fields of a device with themselves.
CheckRd(rs, rd) == TRUE

\* via_check()
Check(f, n) == Checked(f, n, Devices, CheckRd)
=============================================================================
