-------------------------------- MODULE Asr ---------------------------------
(***************************************************************************)
(* Adaptec HostRAID metadata (lib/format/ataraid/asr.c): every disk has a  *)
(* table of configuration lines, those of the logical drives before those  *)
(* of their disks.  A native record is [fmt, magic, version, drive (magic  *)
(* number of this disk), valid (of the table), table]; a line is [magic,   *)
(* level, type, state, count, id, name (0: none), capacity, stripe].       *)
(***************************************************************************)
EXTENDS RaidSets

Spares == <<"asr">>      \* the set .asr_spares

\* get_config(), searched from the end of the table.
Config(m, magic) == SelectLastInSeq(m.table, LAMBDA l : l.magic = magic)
ThisDisk(m)      == m.table[Config(m, m.drive)]

Status(l) ==
  CASE l.state = "optimal"                                -> "ok"
    [] l.state \in {"degraded", "failed"}                 -> "broken"
    [] l.state \in {"uninitialized", "unconfigured"}      -> "inconsistent"
    [] l.state \in {"building", "rebuilding", "replaced"} -> "nosync"
    [] OTHER                                              -> "undef"

Type(l) == IF l.type \in {"raid0", "raid1", "spare"} THEN l.type ELSE "undef"

\* read_extended(): a line without a name has that of the first line.
Named(m) ==
  [m EXCEPT !.table = [i \in DOMAIN m.table |->
     IF m.table[i].name = 0 THEN [m.table[i] EXCEPT !.name = m.table[1].name] ELSE m.table[i]]]

\* is_asr() and the tests of the table; a disk that has failed has no
\* metadata.  Every disk finds itself in its own table.
Valid(m) == /\ m.magic = "ok" /\ m.version = 8 /\ m.valid /\ m.table # <<>>
            /\ ThisDisk(m).state # "failed"

\* asr_read() and setup_rd()
Read(disk, capacity, native) ==
  LET m == Named(native) l == ThisDisk(m) IN
  {rd \in {[fmt |-> "asr", disk |-> disk, capacity |-> capacity, meta |-> m,
            name |-> <<"asr", l.name>>, type |-> Type(l), status |-> Status(l),
            sectors |-> l.capacity, offset |-> 0]} :
     Valid(native) /\ rd.sectors # 0}

\* dev_sort(): by the numbers of host adapter, channel, lun and target.
Before(pos, new) == ThisDisk(new.meta).id < ThisDisk(pos.meta).id

\* set_sort(): the sets are kept in the order they come.
SetBefore(pos, new) == FALSE

\* find_toplevel(): the first logical drive over others, or else the last one.
TopLevel(m) ==
  LET two == SelectInSeq(m.table, LAMBDA l : l.level = "fwl_2")
  IN  IF two # 0 THEN two ELSE SelectLastInSeq(m.table, LAMBDA l : l.level = "fwl")

\* find_logical(): the closest logical drive before the last line of the disk
\* that has one.
Logical(m) ==
  LET before(i) == {j \in 1 .. i - 1 : m.table[j].level = "fwl"}
      pairs == {p \in (DOMAIN m.table) \X (DOMAIN m.table) :
                  m.table[p[1]].magic = m.drive /\ p[2] \in before(p[1])}
  IN  {m.table[p[2]] : p \in {p \in pairs : \A q \in pairs :
         q[1] < p[1] \/ (q[1] = p[1] /\ q[2] <= p[2])}}

LogicalType(m) == IF Logical(m) = {} THEN "undef" ELSE Type(CHOOSE l \in Logical(m) : TRUE)

\* The set of a disk below the one with its own name, as do_stacked() has it.
SubName(l)   == <<"asr", l.name, l.magic>>
SubNames(rd) == {SubName(l) : l \in Logical(rd.meta)}

\* The set takes stride and type from the last device that was added.
Added(f, n, rd, stride, type) ==
  LET rs == IF Found(f, n) THEN f.set[n] ELSE NewSet
  IN  WithSet(f, n, [rs EXCEPT !.type = type, !.stride = stride, !.devs = AddSorted(@, rd, Before),
                               !.status = IF type = "spare" THEN @ ELSE "ok"])

\* do_spare(): one pool for all spares.
Spare(f, rd) ==
  Listed(Added(f, Spares, rd, IF Found(f, Spares) THEN f.set[Spares].stride ELSE 0, "spare"), Spares)

\* do_stacked(): a set for the disk's parent, joined under a mirror.
Stacked(f, rd, fwl) ==
  LET m == rd.meta
      stride == ThisDisk(m).stripe
      n == SubName(fwl)
      g == Joined(Added(f, n, rd, stride, Type(fwl)), [rd EXCEPT !.name = n], rd.name,
                  "raid1", stride, SetBefore)
  IN  [g EXCEPT !.set[rd.name] = [@ EXCEPT !.stride = stride, !.status = "ok", !.type = "raid1"]]

\* asr_group()
Group(f, rd) ==
  LET m == rd.meta top == TopLevel(m) IN
  IF rd.type = "spare" THEN {Spare(f, rd)}
  ELSE IF top = 0 THEN {}
  ELSE IF m.table[top].level = "fwl"
       THEN {Listed(Added(f, rd.name, rd, ThisDisk(m).stripe, LogicalType(m)), rd.name)}
  ELSE {Stacked(f, rd, l) : l \in Logical(m)}

Devices(rd) == IF Logical(rd.meta) = {} THEN 0 ELSE (CHOOSE l \in Logical(rd.meta) : TRUE).count

\* check_rd() compares the type of the device with a state.
CheckRd(rs, rd) == TRUE

\* asr_check()
Check(f, n) == Checked(f, n, Devices, CheckRd)
=============================================================================
