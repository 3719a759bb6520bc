------------------------------ MODULE RaidSets ------------------------------
(***************************************************************************)
(* RAID devices and RAID sets as every metadata format uses them           *)
(* (lib/metadata/metadata.c and lib/format/format.c): sets are found by    *)
(* name, devices are sorted into them, sets are joined into supersets,     *)
(* their size is summed up and their state is checked.                     *)
(*                                                                         *)
(* A RAID device is a record [fmt, disk, capacity (of the disk), name,     *)
(* type, status, sectors, offset, meta]: "meta" is the vendor's metadata,  *)
(* which only the operators of that format look at.  A name is a tuple:    *)
(* the format, the number or name of the set, and the place of a subset.   *)
(* The sets are a record [top, set]: the names on the library context's    *)
(* list, whose order no property depends on, and every set by its name.    *)
(* Sets nest two deep.  Operators that may fail return a set of results,   *)
(* empty on failure.                                                       *)
(***************************************************************************)
EXTENDS Integers, Sequences, FiniteSets, SequencesExt

Raid5    == {"raid5_ls", "raid5_rs", "raid5_la", "raid5_ra"}
Types    == {"undef", "group", "spare", "linear", "raid0", "raid1", "raid4", "raid6"} \cup Raid5
Statuses == {"undef", "broken", "inconsistent", "nosync", "ok", "setup"}

\* alloc_raid_set()
NewSet == [type |-> "undef", stride |-> 0, devs |-> <<>>, subs |-> <<>>, status |-> "setup"]

NoSets == [top |-> {}, set |-> [n \in {} |-> NewSet]]

-----------------------------------------------------------------------------
(* Lists of sets and of devices.                                           *)

\* list_add_sorted(): before the first entry that new is to precede.
AddSorted(list, new, Before(_, _)) ==
  LET i == SelectInSeq(list, LAMBDA pos : Before(pos, new))
  IN  IF i = 0 THEN Append(list, new) ELSE InsertAt(list, i, new)

\* find_set() among all sets, and what find_or_alloc_raid_set() returns.
Found(f, n)        == n \in DOMAIN f.set
FoundOrNew(f, rd)  == IF Found(f, rd.name) THEN f.set[rd.name] ELSE [NewSet EXCEPT !.type = rd.type]

WithSet(f, n, rs) == [f EXCEPT !.set = [m \in DOMAIN f.set \cup {n} |-> IF m = n THEN rs ELSE f.set[m]]]

\* The set is put on the list of the library context.
Listed(f, n) == [f EXCEPT !.top = @ \cup {n}]

FreedAlone(f, n) ==         \* a mutant: the subsets are left
  [top |-> f.top \ {n}, set |-> [m \in DOMAIN f.set \ {n} |-> f.set[m]]]

\* free_raid_set(): the set with its subsets, and the place it is linked at.
Freed(f, n) ==
  LET gone == {n} \cup ToSet(f.set[n].subs)
  IN  [top |-> f.top \ gone,
       set |-> [m \in DOMAIN f.set \ gone |->
                 [f.set[m] EXCEPT !.subs = RemoveFirst(@, n)]]]

\* The tests of init_raid_set(): a device with another stride is refused.
AcceptsType(rs, rd, stride) == rd.type # "undef"      \* a mutant: any stride

Accepts(rs, rd, stride) == rd.type # "undef" /\ rs.stride \in {0, stride}

\* init_raid_set() and the sorted list of devices: a set takes the type and
\* stride of its first device.
Member(f, rd, stride, Before(_, _)) ==
  LET rs == FoundOrNew(f, rd)
  IN  IF ~Accepts(rs, rd, stride) THEN {}
      ELSE {WithSet(f, rd.name,
              [rs EXCEPT !.type   = IF @ \in {"spare", "undef"} THEN rd.type ELSE @,
                         !.stride = stride,
                         !.devs   = AddSorted(@, rd, Before)])}

\* join_superset(): rd's set is sorted into the superset, made when missing.
Joined(f, rd, super, type, stride, SetBefore(_, _)) ==
  LET ss   == IF super \in f.top THEN f.set[super]
              ELSE [NewSet EXCEPT !.type = type, !.stride = stride]
      After(pos, new) == SetBefore(f.set[pos], f.set[new])
  IN  Listed(WithSet(f, super, IF rd.name \in ToSet(ss.subs) THEN ss
               ELSE [ss EXCEPT !.subs = AddSorted(@, rd.name, After)]), super)

-----------------------------------------------------------------------------
(* Sizes.                                                                  *)

\* round_down(), whose mask is the remainder as long as by is a power of two.
RoundDown(what, by) == what - (what % by)

AddWhole(rs, sectors, add) ==       \* a mutant: no rounding to the stride
  IF rs.type # "raid1" THEN sectors + add
  ELSE IF sectors = 0 \/ sectors > add THEN add ELSE sectors

\* add_sectors()
AddSectors(rs, sectors, add) ==
  LET part == IF rs.stride = 0 THEN add ELSE RoundDown(add, rs.stride)
  IN  IF rs.type # "raid1" THEN sectors + part
      ELSE IF sectors = 0 \/ sectors > part THEN part ELSE sectors

IsDev(rd)   == rd.type # "spare"
Devs(rs)    == SelectSeq(rs.devs, IsDev)
SmallestDisk(rs) == CHOOSE s \in {d.sectors : d \in ToSet(rs.devs)} :
                      \A d \in ToSet(rs.devs) : s <= d.sectors

\* The devices of a set as one size, corrected for the parity of n parts.
Parity(rs, sectors, n) ==
  CASE rs.type = "raid6"                  -> sectors - 2 * (sectors \div n)
    [] rs.type \in Raid5 \cup {"raid4"}   -> sectors - sectors \div n
    [] OTHER                              -> sectors

LeafSectors(rs) ==
  IF rs.devs = <<>> THEN 0
  ELSE LET Add(s, rd) == AddSectors(rs, s, SmallestDisk(rs))
           AddSpare(s, rd) == AddSectors(rs, s, rd.sectors)
       IN  IF rs.type = "spare" THEN FoldLeft(AddSpare, 0, rs.devs)
           ELSE Parity(rs, FoldLeft(Add, 0, Devs(rs)), Len(Devs(rs)))

\* total_sectors(): no format sets f_maximize.
TotalSectors(f, n) ==
  LET rs == f.set[n]
      Add(s, sub) == AddSectors(rs, s, LeafSectors(f.set[sub]))
  IN  IF rs.subs = <<>> \/ rs.type = "group" THEN LeafSectors(rs)
      ELSE Parity(rs, FoldLeft(Add, 0, rs.subs), Len(rs.subs))

-----------------------------------------------------------------------------
(* States.                                                                 *)

\* _check_raid_set() of a device whose set has tot devices instead of found.
ShortStatus(rs, tot, found, checked, rd) ==
  CASE rs.type \in {"linear", "raid0", "spare"} -> "broken"
    [] rs.type = "raid1" ->
         IF tot >= 1 \/ (rd.type = "spare" /\ rd.sectors # LeafSectors(rs))
         THEN "inconsistent" ELSE "broken"
    [] rs.type \in Raid5 \cup {"raid4"} ->
         IF (tot = found - 1 /\ tot > 1 /\ checked) \/ tot > found THEN "inconsistent" ELSE "broken"
    [] rs.type = "raid6" ->
         IF (found >= 2 /\ tot >= found - 2 /\ checked) \/ tot > found THEN "inconsistent" ELSE "broken"
    [] OTHER -> "undef"

\* A handler without a check of its own is one whose check says FALSE.
DevStatus(rs, rd, found, checked) ==
  LET tot == Len(Devs(rs))
  IN  IF tot # found THEN ShortStatus(rs, tot, found, checked, rd)
      ELSE IF checked THEN "ok" ELSE rd.status

\* set_rs_status(): a set over two sets of the other kind is "ok" whatever
\* their state, and one that is missing breaks it.
SetStatus(f, rs) ==
  LET mixed == {i \in DOMAIN rs.subs : {rs.type, f.set[rs.subs[i]].type} = {"raid0", "raid1"}}
      works == {i \in DOMAIN rs.subs : f.set[rs.subs[i]].status \in {"ok", "inconsistent"}}
      devs(s) == {i \in DOMAIN rs.devs : rs.devs[i].status = s}
      operational == Cardinality(works) + Cardinality(devs("ok"))
  IN  IF Cardinality(mixed) = 1 THEN "broken"
      ELSE IF Cardinality(mixed) = 2 THEN "ok"
      ELSE IF Cardinality(mixed) > 2 THEN rs.status
      ELSE IF operational = Len(rs.subs) + Len(rs.devs) THEN "ok"
      ELSE IF operational > 0 THEN "inconsistent"
      ELSE IF devs("inconsistent") # {} THEN "inconsistent"
      ELSE IF devs("nosync") # {} THEN "nosync"
      ELSE "broken"

\* A set with the states of its devices and its own.
CheckedSet(f, n, Devices(_), CheckRd(_, _)) ==
  LET rs   == f.set[n]
      Check(rd) == [rd EXCEPT !.status = DevStatus(rs, rd, Devices(rd), CheckRd(rs, rd))]
      devs == IF rs.type = "group" THEN rs.devs ELSE [i \in DOMAIN rs.devs |-> Check(rs.devs[i])]
      new  == [rs EXCEPT !.devs = devs]
  IN  [new EXCEPT !.status = SetStatus(f, new)]

\* check_raid_set(): the subsets first, then the set itself.
Checked(f, n, Devices(_), CheckRd(_, _)) ==
  LET subs == ToSet(f.set[n].subs)
      g == [f EXCEPT !.set = [m \in DOMAIN f.set |->
              IF m \in subs THEN CheckedSet(f, m, Devices, CheckRd) ELSE f.set[m]]]
  IN  [g EXCEPT !.set[n] = CheckedSet(g, n, Devices, CheckRd)]

\* get_format(): the format of the first device of the first lowest set.
FormatOf(f, n) ==
  LET rs   == f.set[n]
      leaf == IF rs.subs = <<>> THEN rs ELSE f.set[rs.subs[1]]
  IN  IF leaf.devs = <<>> THEN {} ELSE {leaf.devs[1].fmt}
=============================================================================
