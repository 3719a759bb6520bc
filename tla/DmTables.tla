------------------------------ MODULE DmTables ------------------------------
(***************************************************************************)
(* The mapping tables of RAID sets (lib/activate/activate.c).  A table is  *)
(* a sequence of targets [start, length, type, parts]; a part is [on,      *)
(* offset], on the disk of a device, on a set (its name) or on the error   *)
(* device, which is <<>>.  The reordering for a rebuild, the error         *)
(* target of a degraded RAID5 and the reload belong to the formats that    *)
(* have a metadata handler and are in IswRebuild and Activation.  No       *)
(* format asks for a maximized mapping, so a stripe has one target.        *)
(***************************************************************************)
EXTENDS RaidSets

Usable == {"ok", "inconsistent", "nosync"}
Valid(e) == e.status \in Usable /\ e.type # "spare"     \* valid_rd(), valid_rs()

\* What a set is made of: its subsets and then its devices, with the size.
Members(f, rs) ==
  [i \in DOMAIN rs.subs |->
     [type |-> f.set[rs.subs[i]].type, status |-> f.set[rs.subs[i]].status, on |-> rs.subs[i],
      offset |-> 0, sectors |-> TotalSectors(f, rs.subs[i])]]
  \o
  [i \in DOMAIN rs.devs |->
     [type |-> rs.devs[i].type, status |-> rs.devs[i].status, on |-> <<rs.devs[i].disk>>,
      offset |-> rs.devs[i].offset, sectors |-> rs.devs[i].sectors]]

NotSpare(e)  == e.type # "spare"
Parts(f, rs) == SelectSeq(Members(f, rs), NotSpare)

\* _dm_path_offset()
Part(e) == [on |-> IF Valid(e) THEN e.on ELSE <<>>, offset |-> e.offset]
PartsOf(s) == [i \in DOMAIN s |-> Part(s[i])]

\* _smallest()
Smallest(s) == CHOOSE n \in {s[i].sectors : i \in DOMAIN s} : \A i \in DOMAIN s : n <= s[i].sectors

Target(start, length, type, parts) == [start |-> start, length |-> length, type |-> type, parts |-> parts]

\* dm_linear()
Linear(f, rs) ==
  LET Add(table, e) ==
        LET last  == table[Len(table)]
            start == IF table = <<>> THEN 0 ELSE last.start + last.length
        IN  Append(table, Target(start, e.sectors, "linear", <<Part(e)>>))
  IN  FoldLeft(Add, <<>>, Parts(f, rs))

\* dm_raid0()
Striped(f, rs) ==
  LET parts == SelectSeq(Parts(f, rs), LAMBDA e : e.sectors > 0)
      n     == Len(parts)
      min   == IF rs.stride = 0 THEN Smallest(parts) ELSE RoundDown(Smallest(parts), rs.stride)
  IN  IF parts = <<>> THEN <<>>
      ELSE <<Target(0, min * n, IF n > 1 THEN "striped" ELSE "linear", PartsOf(parts))>>

\* dm_raid1(): with one mirror left a linear mapping has to do.
Mirrored(f, rs) ==
  LET valid == SelectSeq(Members(f, rs), Valid)
  IN  CASE Len(valid) = 0 -> <<>>
        [] Len(valid) = 1 -> Linear(f, rs)
        [] OTHER -> <<Target(0, Smallest(Parts(f, rs)), "mirror", PartsOf(valid))>>

\* dm_raid45(): a set that lacks devices has no table without a handler.
Parities(f, rs, expected) ==
  LET all == Members(f, rs) IN
  IF Len(all) # expected THEN <<>>
  ELSE <<Target(0, (Smallest(Parts(f, rs)) \div rs.stride) * rs.stride * (Len(all) - 1), "raid45",
                PartsOf(all))>>

\* handler(): the table of a set, empty when no mapping is possible.
Table(f, n, expected) ==
  LET rs == f.set[n] IN
  CASE rs.type = "linear"                   -> Linear(f, rs)
    [] rs.type = "raid0"                    -> Striped(f, rs)
    [] rs.type = "raid1"                    -> Mirrored(f, rs)
    [] rs.type \in Raid5 \cup {"raid4"}     -> Parities(f, rs, expected)
    [] OTHER                                -> <<>>
=============================================================================
