-------------------------------- MODULE Sil ---------------------------------
(***************************************************************************)
(* Silicon Image metadata (lib/format/ataraid/sil.c), of which there are   *)
(* four copies on a disk.  A native record is [fmt, areas]; a copy is      *)
(* [magic, checksum, id (the time of creation), type, number, stride,      *)
(* array (sectors), disk (sectors), perStriped, striped, perMirrored,      *)
(* mirrored, state].                                                       *)
(***************************************************************************)
EXTENDS RaidSets

Areas == 4

Name(c, subset) == IF subset /\ c.type = "raid10" THEN <<"sil", c.id, c.striped>> ELSE <<"sil", c.id>>

Status(c) == CASE c.state \in {"ok", "sync"} -> "ok"
               [] c.state = "nosync"         -> "nosync"
               [] OTHER                      -> "broken"

Type(c) ==
  CASE c.type = "jbod"              -> "linear"
    [] c.type \in {"raid0", "raid10"} -> "raid0"
    [] c.type = "raid1"             -> "raid1"
    [] c.type = "raid5"             -> "raid5_ls"
    [] c.type = "spare"             -> "spare"
    [] OTHER                        -> "undef"

\* sil_valid()
Valid(c, capacity) == c.magic = "ok" /\ c.number < 8 /\ c.checksum /\ capacity >= c.disk

\* sil_read_metadata() and quorate(): the copies are compared with the first
\* valid one only, and that one is taken however few agree with it.
Quorate(m, capacity) ==
  LET valid == SelectSeq(m.areas, LAMBDA c : Valid(c, capacity))
  IN  IF valid = <<>> THEN {} ELSE {Head(valid)}

Cooked(capacity) == capacity - (Areas - 1) * 512 - (IF capacity % 2 = 1 THEN 1 ELSE 2)

Sectors(c, capacity) ==
  CASE c.type = "raid0" ->
         IF c.perStriped > -1 /\ c.number < c.perStriped THEN c.array \div c.perStriped ELSE 0
    [] c.type \in {"raid1", "raid10"} -> c.array
    [] OTHER -> Cooked(capacity)

\* sil_read() and setup_rd()
Read(disk, capacity, m) ==
  {rd \in {[fmt |-> "sil", disk |-> disk, capacity |-> capacity, meta |-> c,
            name |-> Name(c, TRUE), type |-> Type(c), status |-> Status(c),
            sectors |-> Sectors(c, capacity), offset |-> 0] : c \in Quorate(m, capacity)} :
     rd.sectors # 0}

Before(pos, new)    == new.meta.number < pos.meta.number
SetBefore(pos, new) == new.devs[1].meta.mirrored < pos.devs[1].meta.mirrored

\* group_rd()
Placed(f, rd) ==
  IF rd.meta.type = "raid10"
  THEN Joined(f, rd, Name(rd.meta, FALSE), "raid1", rd.meta.stride, SetBefore)
  ELSE Listed(f, rd.name)

\* sil_group()
Group(f, rd) ==
  IF rd.type = "spare" THEN {}
  ELSE {Placed(g, rd) : g \in Member(f, rd, rd.meta.stride, Before)}

\* devices(): RAID5 has none.
Devices(rd) ==
  LET c == rd.meta IN
  CASE c.type = "jbod"                -> IF c.array < rd.sectors THEN 1 ELSE c.perStriped
    [] c.type \in {"raid0", "raid10"} -> c.perStriped
    [] c.type = "raid1"               -> c.perMirrored
    [] OTHER                          -> 0

\* sil_check(), with no check of a device.
Check(f, n) == Checked(f, n, Devices, LAMBDA rs, rd : FALSE)
=============================================================================
