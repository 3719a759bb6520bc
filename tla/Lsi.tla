-------------------------------- MODULE Lsi ---------------------------------
(***************************************************************************)
(* LSI Logic MegaRAID metadata (lib/format/ataraid/lsi.c).  A native       *)
(* record is [fmt, magic, id (set_id), set (set_number), number            *)
(* (disk_number), type, stride, disks (4 records [stripe, mirror,          *)
(* offline])].                                                             *)
(***************************************************************************)
EXTENDS RaidSets

ConfigOffset(capacity) == capacity - 1   \* LSI_CONFIGOFFSET, in sectors

\* get_disk_slot() and get_disk()
Slot(m) == m.set * 2 + m.number
Disk(m) == m.disks[Slot(m) + 1]

Name(m, subset) ==
  IF subset /\ m.type = "raid10" THEN <<m.fmt, 10 * m.id + m.set, Disk(m).mirror>>
                                 ELSE <<m.fmt, 10 * m.id + m.set>>

Type(m) ==
  CASE m.type \in {"raid0", "raid10"} -> "raid0"
    [] m.type = "raid1"               -> "raid1"
    [] OTHER                          -> "undef"

Before(pos, new) ==
  IF new.meta.type = "raid10" THEN Disk(new.meta).stripe < Disk(pos.meta).stripe
                              ELSE Slot(new.meta) < Slot(pos.meta)

SetBefore(pos, new) == Disk(new.devs[1].meta).mirror < Disk(pos.devs[1].meta).mirror

\* is_lsi() and lsi_read()
Valid(m) == m.magic = "ok"

\* setup_rd(): every device counts as healthy and as large as
\* the space before the metadata.
Read(disk, capacity, m) ==
  {rd \in {[fmt |-> "lsi", disk |-> disk, capacity |-> capacity, meta |-> m,
            name |-> Name(m, TRUE), type |-> Type(m), status |-> "ok",
            sectors |-> ConfigOffset(capacity), offset |-> 0]} :
     Valid(m) /\ rd.sectors # 0}

\* group_rd()
Placed(f, rd) ==
  CASE rd.meta.type = "raid10" ->
         Joined(f, rd, Name(rd.meta, FALSE), "raid1", rd.meta.stride, SetBefore)
    [] OTHER -> Listed(f, rd.name)

\* lsi_group(): a drive that is not online is refused.
Group(f, rd) ==
  IF rd.type = "spare" \/ Disk(rd.meta).offline THEN {}
  ELSE {Placed(g, rd) : g \in Member(f, rd, rd.meta.stride, Before)}

\* devices(): of the whole RAID10, though it is asked for a subset.
Devices(rd) == CASE rd.meta.type = "raid10"           -> 4
                 [] rd.meta.type \in {"raid0", "raid1"} -> 2
                 [] OTHER                             -> 0

\* lsi_check(), with no check of a device.
Check(f, n) == Checked(f, n, Devices, LAMBDA rs, rd : FALSE)
=============================================================================
