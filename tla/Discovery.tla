----------------------------- MODULE Discovery ------------------------------
(***************************************************************************)
(* Discovery of RAID sets (lib/metadata/metadata.c): every disk is read by *)
(* all format handlers (dmraid_read), the RAID devices found are grouped   *)
(* into sets one by one (build_set), the sets are checked and the broken   *)
(* ones removed (check_raid_sets), and the sets that are left are mapped   *)
(* (DmTables).  The disks come in the order in which the directory of the  *)
(* system lists them, which is any order.                                  *)
(*                                                                         *)
(* A layout is what the disks hold: [capacity, native (per disk, a set of  *)
(* native records of formats), agree (the disks of one array hold the same *)
(* configuration)].  The format isw is the only one with a metadata        *)
(* handler and is modelled in IswRebuild.                                  *)
(***************************************************************************)
EXTENDS DmTables

CONSTANT Layouts        \* the layouts, a set

Asr    == INSTANCE Asr
Ddf1   == INSTANCE Ddf1
Hpt37x == INSTANCE Hpt37x
Hpt45x == INSTANCE Hpt45x
Jm     == INSTANCE Jm
Lsi    == INSTANCE Lsi
Nv     == INSTANCE Nv
Pdc    == INSTANCE Pdc
Sil    == INSTANCE Sil
Via    == INSTANCE Via

\* register.h: the order in which the formats are tried.
Formats == <<"asr", "ddf1", "hpt37x", "hpt45x", "jm", "lsi", "nv", "pdc", "sil", "via">>

VARIABLES
  layout,       \* what the disks hold
  todo,         \* disks that are not read yet
  found,        \* the list of RAID devices that are not grouped yet
  sets,         \* the sets, as in RaidSets
  unchecked,    \* top level sets that are not checked yet
  phase

vars == <<layout, todo, found, sets, unchecked, phase>>

-----------------------------------------------------------------------------
(* The methods of the handlers.                                            *)

Read(fmt, disk, capacity, m) ==
  CASE fmt = "asr"    -> Asr!Read(disk, capacity, m)    [] fmt = "ddf1"   -> Ddf1!Read(disk, capacity, m)
    [] fmt = "hpt37x" -> Hpt37x!Read(disk, capacity, m) [] fmt = "hpt45x" -> Hpt45x!Read(disk, capacity, m)
    [] fmt = "jm"     -> Jm!Read(disk, capacity, m)     [] fmt = "lsi"    -> Lsi!Read(disk, capacity, m)
    [] fmt = "nv"     -> Nv!Read(disk, capacity, m)     [] fmt = "pdc"    -> Pdc!Read(disk, capacity, m)
    [] fmt = "sil"    -> Sil!Read(disk, capacity, m)    [] fmt = "via"    -> Via!Read(disk, capacity, m)

Group(f, rd) ==
  CASE rd.fmt = "asr"    -> Asr!Group(f, rd)    [] rd.fmt = "ddf1"   -> Ddf1!Group(f, rd)
    [] rd.fmt = "hpt37x" -> Hpt37x!Group(f, rd) [] rd.fmt = "hpt45x" -> Hpt45x!Group(f, rd)
    [] rd.fmt = "jm"     -> Jm!Group(f, rd)     [] rd.fmt = "lsi"    -> Lsi!Group(f, rd)
    [] rd.fmt = "nv"     -> Nv!Group(f, rd)     [] rd.fmt = "pdc"    -> Pdc!Group(f, rd)
    [] rd.fmt = "sil"    -> Sil!Group(f, rd)    [] rd.fmt = "via"    -> Via!Group(f, rd)

Check(f, n, fmt) ==
  CASE fmt = "asr"    -> Asr!Check(f, n)    [] fmt = "ddf1"   -> Ddf1!Check(f, n)
    [] fmt = "hpt37x" -> Hpt37x!Check(f, n) [] fmt = "hpt45x" -> Hpt45x!Check(f, n)
    [] fmt = "jm"     -> Jm!Check(f, n)     [] fmt = "lsi"    -> Lsi!Check(f, n)
    [] fmt = "nv"     -> Nv!Check(f, n)     [] fmt = "pdc"    -> Pdc!Check(f, n)
    [] fmt = "sil"    -> Sil!Check(f, n)    [] fmt = "via"    -> Via!Check(f, n)

Devices(rd) ==
  CASE rd.fmt = "asr"    -> Asr!Devices(rd)    [] rd.fmt = "ddf1"   -> Ddf1!Devices(rd)
    [] rd.fmt = "hpt37x" -> Hpt37x!Devices(rd) [] rd.fmt = "hpt45x" -> Hpt45x!Devices(rd)
    [] rd.fmt = "jm"     -> Jm!Devices(rd)     [] rd.fmt = "lsi"    -> Lsi!Devices(rd)
    [] rd.fmt = "nv"     -> Nv!Devices(rd)     [] rd.fmt = "pdc"    -> Pdc!Devices(rd)
    [] rd.fmt = "sil"    -> Sil!Devices(rd)    [] rd.fmt = "via"    -> Via!Devices(rd)

StrideOf(rd) ==
  CASE rd.fmt = "hpt37x" -> Hpt37x!Stride(rd.meta)
    [] rd.fmt = "hpt45x" -> Hpt45x!Stride(rd.meta.shift)
    [] rd.fmt = "jm"     -> Jm!Stride(rd.meta)
    [] rd.fmt = "pdc"    -> Pdc!Stride(rd.meta)
    [] rd.fmt = "via"    -> Via!Stride(rd.meta)
    [] rd.fmt \in {"lsi", "sil"} -> rd.meta.stride
    [] rd.fmt = "nv"     -> rd.meta.stripe
    [] rd.fmt = "asr"    -> Asr!ThisDisk(rd.meta).stripe
    [] rd.fmt = "ddf1"   -> Ddf1!Stride(Ddf1!ThisConfig(rd.meta, rd.offset))

-----------------------------------------------------------------------------
(* What the layouts are taken to be.                                       *)

\* The devices that the formats find on a disk, and on all disks.
RaidDevs(l, disk) ==
  UNION {Read(m.fmt, disk, l.capacity, m) : m \in {x \in l.native[disk] : x.fmt \in ToSet(Formats)}}
AllDevs(l) == UNION {RaidDevs(l, disk) : disk \in DOMAIN l.native}

\* The devices that are put into sets for the one that was read, in the
\* order of the metadata.
Pieces(rd) ==
  CASE rd.fmt = "pdc"  -> [i \in 0 .. Len(rd.meta.more) |-> Pdc!Area(rd, i)]
    [] rd.fmt = "ddf1" -> Ddf1!Segments(rd)
    [] OTHER           -> <<{rd}>>

\* Two devices have no sector of a disk in common.
Apart(d, e) ==
  \/ d.disk # e.disk
  \/ d.offset + d.sectors <= e.offset
  \/ e.offset + e.sectors <= d.offset

\* Where the handlers do not check the stride, the disks of one set have it in
\* common.
Agreement(l) ==
  LET Of(fmt)   == {rd \in AllDevs(l) : rd.fmt = fmt /\ rd.type # "spare"}
      Names(rd) == {rd.name} \cup Asr!SubNames(rd)
      Volumes   == UNION {UNION {Pieces(rd)[i] : i \in DOMAIN Pieces(rd)} : rd \in Of("ddf1")}
  IN  /\ \A d, e \in Of("asr") : Names(d) \cap Names(e) # {} => StrideOf(d) = StrideOf(e)
      /\ \A d, e \in Volumes : d.name = e.name => StrideOf(d) = StrideOf(e)

\* A stripe of an hpt45x set that is joined under a mirror.
Halved(rd) == rd.meta.type = "raid0" /\ rd.meta.raid1type = "raid1"

\* No set is to be put on two lists: the code does not look, and what its
\* lists are afterwards is not modelled.
OneParent(l) ==
  LET Of(fmt) == {rd \in AllDevs(l) : rd.fmt = fmt}
  IN  /\ \A d, e \in Of("hpt45x") : d.name = e.name => Halved(d) = Halved(e)
      /\ \A d, e \in Of("asr") : Asr!SubNames(d) \cap Asr!SubNames(e) # {} => d.name = e.name

ASSUME LayoutsAssumption ==
  \A l \in Layouts :
    /\ l.agree => Agreement(l)
    /\ OneParent(l)
    /\ \A rd \in AllDevs(l) :
         /\ rd.fmt = "pdc"  => rd.meta.more \in Seq(ToSet(rd.meta.more))
         /\ rd.fmt = "ddf1" => Ddf1!Mine(rd.meta) \in Seq(ToSet(Ddf1!Mine(rd.meta)))
         /\ \A i, j \in DOMAIN Pieces(rd) :
              i # j => \A d \in Pieces(rd)[i], e \in Pieces(rd)[j] : Apart(d, e)

-----------------------------------------------------------------------------
(* The steps of dmraid as functions, for the actions and for the reference. *)

DiscoveredAll(disk) ==      \* a mutant: every format that finds its metadata
  SetToSeq(UNION {Read(m.fmt, disk, layout.capacity, m) : m \in layout.native[disk]})

\* dmraid_read(): the first format that finds its metadata is used, and its
\* handler gives one device.
Discovered(disk) ==
  LET rds(fmt) == {rd \in RaidDevs(layout, disk) : rd.fmt = fmt}
      i == SelectInSeq(Formats, LAMBDA fmt : rds(fmt) # {})
  IN  IF i = 0 THEN <<>> ELSE <<CHOOSE rd \in rds(Formats[i]) : TRUE>>

\* want_set() without a name: a group without volumes is freed; only ddf1
\* makes groups, one of all disks.
Wanted(f) ==
  LET empty == {n \in f.top : f.set[n].type = "group" /\ f.set[n].subs = <<>>}
  IN  IF empty = {} THEN f ELSE Freed(f, CHOOSE n \in empty : TRUE)

\* What the handler leaves of the sets when it cannot group a device.
Leftover(f, rd) == IF rd.fmt = "pdc" THEN Pdc!Leftover(f, rd) ELSE f

\* build_set() for one device: gs are the sets it can be grouped into; when it
\* cannot be, the set it names is removed from what is left.
Settled(gs, left, name) ==
  IF gs # {} THEN Wanted(CHOOSE g \in gs : TRUE)
  ELSE IF Found(left, name) THEN Freed(left, name) ELSE left

Grouped(f, rd) == Settled(Group(f, rd), Leftover(f, rd), rd.name)

\* check_raid_sets() for one set: a broken one goes unless it is a mirror.
Sane(f, n) == IF f.set[n].status = "broken" /\ f.set[n].type # "raid1" THEN Freed(f, n) ELSE f

Kept(f, n) ==
  IF FormatOf(f, n) = {} THEN f
  ELSE Sane(Check(f, n, CHOOSE fmt \in FormatOf(f, n) : TRUE), n)

-----------------------------------------------------------------------------

Init ==
  /\ layout \in Layouts
  /\ todo = DOMAIN layout.native
  /\ found = <<>>
  /\ sets = NoSets
  /\ unchecked = {}
  /\ phase = "discover"

\* discover_raid_devices()
Scan(disk) ==
  /\ phase = "discover"
  /\ disk \in todo
  /\ todo' = todo \ {disk}
  /\ found' = found \o Discovered(disk)
  /\ phase' = IF todo' = {} THEN "build" ELSE phase
  /\ UNCHANGED <<layout, sets, unchecked>>

\* build_set()
Build ==
  /\ phase = "build"
  /\ found # <<>>
  /\ sets' = Grouped(sets, Head(found))
  /\ found' = Tail(found)
  /\ UNCHANGED <<layout, todo, unchecked, phase>>

Built ==
  /\ phase = "build"
  /\ found = <<>>
  /\ unchecked' = sets.top
  /\ phase' = "check"
  /\ UNCHANGED <<layout, todo, found, sets>>

\* check_raid_sets()
CheckRaidSet(n) ==
  /\ phase = "check"
  /\ n \in unchecked
  /\ sets' = Kept(sets, n)
  /\ unchecked' = unchecked \ {n}
  /\ UNCHANGED <<layout, todo, found, phase>>

Done ==
  /\ phase = "check"
  /\ unchecked = {}
  /\ phase' = "done"
  /\ UNCHANGED <<layout, todo, found, sets, unchecked>>

Next ==
  \/ \E disk \in todo : Scan(disk)
  \/ Build
  \/ Built
  \/ \E n \in unchecked : CheckRaidSet(n)
  \/ Done

Spec == Init /\ [][Next]_vars

-----------------------------------------------------------------------------
(* What may not depend on the order, and what the sets may be.             *)

\* The sets when the disks come in the order of their numbers.
Reference ==
  LET Read1(rds, disk) == rds \o Discovered(disk)
      KeptAll(f)       == FoldSet(LAMBDA n, g : Kept(g, n), f, f.top)
  IN  KeptAll(FoldLeft(Grouped, NoSets,
        FoldLeft(Read1, <<>>, [i \in 1 .. Cardinality(DOMAIN layout.native) |-> i])))

\* The disks of a group (no_sort) and the stripes of a stacked asr set
\* (set_sort) are kept in no order.
Unordered(f) ==
  [f EXCEPT !.set = [n \in DOMAIN @ |->
     [@[n] EXCEPT
        !.devs = IF f.set[n].type = "group" THEN {<<d.disk, d.status>> : d \in ToSet(@)} ELSE @,
        !.subs = IF n[1] = "asr" THEN ToSet(@) ELSE @]]]

(* Whatever order the system lists the disks in, the same sets come out,   *)
(* with their disks and subsets in the same order and the same states:     *)
(* each handler's sort has to put every device where it belongs, at        *)
(* whatever moment it comes (list_add_sorted, join_superset, build_set).   *)
SameSets == phase = "done" /\ layout.agree => Unordered(sets) = Unordered(Reference)

Leaves == {n \in DOMAIN sets.set : sets.set[n].type # "group"}

Places == UNION {{n} \X DOMAIN sets.set[n].devs : n \in Leaves}

Device(p) == sets.set[p[1]].devs[p[2]]

(* No sector of a disk is in two sets, or twice in one: a device that is   *)
(* found by two formats, or found again after its set was removed, is      *)
(* grouped once (dmraid_read, free_raid_set, the volumes of a DDF1 disk,   *)
(* the areas of a Promise disk).                                           *)
Exclusive ==
  \A p, q \in Places : p # q => Apart(Device(p), Device(q))

(* The sets are a forest: each is on the list of the library context or in *)
(* one superset, once, and no superset names a set that was freed, though  *)
(* sets are removed while the others are built and checked.                *)
Forest ==
  \A n \in DOMAIN sets.set :
    LET links == UNION {{<<m, i>> : i \in {j \in DOMAIN sets.set[m].subs : sets.set[m].subs[j] = n}} :
                          m \in DOMAIN sets.set}
    IN  /\ Cardinality(links) + (IF n \in sets.top THEN 1 ELSE 0) = 1
        /\ ToSet(sets.set[n].subs) \subseteq DOMAIN sets.set

(* A set is only made of devices with its own stride, or with none, in     *)
(* every order of disks that disagree: data is never striped over disks    *)
(* one of which has another layout (init_raid_set; a device without a      *)
(* stride gets into a set that has none yet); of asr and ddf1, which do    *)
(* not check it, disks that agree are assumed; a pool of spares has none.  *)
Uniform ==
  \A p \in Places :
    /\ layout.agree \/ Device(p).fmt \notin {"asr", "ddf1"}
    /\ sets.set[p[1]].type # "spare"
    => StrideOf(Device(p)) \in {0, sets.set[p[1]].stride}

Mapping(n) ==
  LET rs == sets.set[n]
  IN  Table(sets, n, IF rs.devs = <<>> THEN Len(rs.subs) ELSE Devices(rs.devs[1]))

Share(t) == CASE t.type = "striped" -> t.length \div Len(t.parts)
              [] t.type = "raid45"  -> t.length \div (Len(t.parts) - 1)
              [] OTHER              -> t.length

SizeOn(on) == IF Len(on) = 1 THEN layout.capacity ELSE TotalSectors(sets, on)

\* A stripe over mirrors one of which has lost its disk with the data offset:
\* total_sectors() sums up the subsets, the stripe uses the smallest.
Uneven(rs) == Cardinality({TotalSectors(sets, s) : s \in ToSet(rs.subs)}) > 1

Degraded(rs) == rs.type = "raid1" /\ \E i \in DOMAIN rs.devs : ~Valid(rs.devs[i])

(* The table of every set that is kept covers the size that is reported    *)
(* and used for its partitions (total_sectors), without a gap, and stays   *)
(* within each disk and each set it maps.  Not of the stripes of a Silicon *)
(* Image RAID10, whose devices are given the size of the whole array.      *)
Fits ==
  phase = "done" =>
    \A n \in Leaves :
      LET table == Mapping(n)
          rs    == sets.set[n]
          sil10 == \E d \in ToSet(rs.devs) : d.fmt = "sil" /\ d.meta.type = "raid10"
      IN  table # <<>> /\ ~Degraded(rs) /\ ~sil10 =>
            /\ table[1].start = 0
            /\ \A i \in 2 .. Len(table) : table[i].start = table[i-1].start + table[i-1].length
            /\ Uneven(rs) \/ table[Len(table)].start + table[Len(table)].length >= TotalSectors(sets, n)
            /\ \A i \in DOMAIN table : \A j \in DOMAIN table[i].parts :
                 LET part == table[i].parts[j] IN
                 part.on = <<>> \/ part.offset + Share(table[i]) <= SizeOn(part.on)
=============================================================================
