--------------------------------- MODULE Jm ---------------------------------
(***************************************************************************)
(* JMicron metadata (lib/format/ataraid/jm.c).  A native record is [fmt,   *)
(* magic, id (name), mode, block, attribute, identity, member (8 disk      *)
(* numbers, 0 for none), base, range, range2].                             *)
(***************************************************************************)
EXTENDS RaidSets

\* member(): the place of this disk in the table, searched from its end.
Place(m) == SelectLastInSeq(m.member, LAMBDA d : d = m.identity) - 1

Name(m, subset) == IF subset /\ m.mode = "raid01" THEN <<m.fmt, m.id, Place(m) \div 2>>
                                                  ELSE <<m.fmt, m.id>>

\* Only the lowest three bits of the attribute are known and harmless.
Status(m) == IF m.attribute > 7 THEN "broken" ELSE "ok"

Type(m) ==
  CASE m.mode = "jbod"              -> "linear"
    [] m.mode = "raid0"             -> "raid0"
    [] m.mode \in {"raid01", "raid1"} -> "raid1"
    [] OTHER                        -> "undef"

Before(pos, new)    == Place(new.meta) < Place(pos.meta)
SetBefore(pos, new) == Place(pos.devs[1].meta) > 1

Stride(m)  == 2 ^ (m.block + 1)

\* is_jm(): signature and checksum.
Valid(m) == m.magic = "ok"

Sectors(m) == m.range * 32 * 2048 + m.range2

\* jm_read() and setup_rd()
Read(disk, capacity, m) ==
  {rd \in {[fmt |-> "jm", disk |-> disk, capacity |-> capacity, meta |-> m,
            name |-> Name(m, TRUE), type |-> Type(m), status |-> Status(m),
            sectors |-> Sectors(m), offset |-> m.base]} :
     Valid(m) /\ rd.sectors # 0}

\* group_rd()
Placed(f, rd) ==
  IF rd.meta.mode = "raid01"
  THEN Joined(f, rd, Name(rd.meta, FALSE), "raid0", Stride(rd.meta), SetBefore)
  ELSE Listed(f, rd.name)

\* jm_group()
Group(f, rd) ==
  IF rd.type = "spare" THEN {}
  ELSE {Placed(g, rd) : g \in Member(f, rd, Stride(rd.meta), Before)}

\* devices(): up to the last member, those of the other subset included.
Devices(rd) == SelectLastInSeq(rd.meta.member, LAMBDA d : d # 0)

\* jm_check(), with no check of a device.
Check(f, n) == Checked(f, n, Devices, LAMBDA rs, rd : FALSE)
=============================================================================
