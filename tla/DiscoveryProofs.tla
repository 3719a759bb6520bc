-------------------------- MODULE DiscoveryProofs ---------------------------
(***************************************************************************)
(* The sets of the discovery (Discovery), for all layouts that are as      *)
(* LayoutsAssumption says: no sector of a disk is in two sets (Exclusive), *)
(* the sets are a forest (Forest) and no set has devices of two strides    *)
(* (Uniform).                                                              *)
(*                                                                         *)
(* The invariant of the sets is SetsInv. A handler puts a device into a    *)
(* set (PutKeeps), several into several for a disk with more than one      *)
(* volume or area (PdcKeeps, Ddf1Keeps); a set is freed with its subsets   *)
(* (FreedKeeps) and a check only changes states (CheckAlike, AlikeKeeps).  *)
(* The invariant of the discovery, IInv, adds that the devices that wait   *)
(* to be grouped are of disks no set has a device of.                      *)
(***************************************************************************)
EXTENDS GroupingProofs, FiniteSetTheorems

-----------------------------------------------------------------------------
(* The areas of a Promise disk and the volumes of a DDF1 disk.             *)

\* The device that is made of one area.
LEMMA PdcDevice ==
  ASSUME NEW disk, NEW capacity, NEW a, NEW sector, NEW offset, NEW rd \in Pdc!Device(disk, capacity, a, sector, offset)
  PROVE  /\ IsDevice(rd) /\ rd.fmt = "pdc" /\ rd.disk = disk /\ rd.capacity = capacity
         /\ rd.name = Pdc!Name(rd.meta, Pdc!IsRaid10(rd.meta))
<1>1. rd = [fmt |-> "pdc", disk |-> disk, capacity |-> capacity, meta |-> a, name |-> Pdc!Name(a, Pdc!IsRaid10(a)),
            type |-> Pdc!Type(a), status |-> "ok", sectors |-> Pdc!Sectors(a, capacity, sector), offset |-> offset]
  BY Zenon DEF Pdc!Device
<1> QED
  BY <1>1, DeviceIs

\* What the handler of pdc makes of the metadata it has read.
LEMMA PdcRead ==
  ASSUME NEW disk, NEW capacity, NEW m, NEW rd \in Pdc!Read(disk, capacity, m)
  PROVE  Known(rd) /\ rd.disk = disk
<1>1. \E a, s : rd \in Pdc!Device(disk, capacity, a, s, 0)
  BY Zenon DEF Pdc!Read
<1>9. /\ IsDevice(rd) /\ rd.fmt = "pdc" /\ rd.disk = disk
      /\ rd.name = Pdc!Name(rd.meta, Pdc!IsRaid10(rd.meta))
  BY <1>1, PdcDevice
<1> QED
  BY <1>9, FormatSet DEF Known

\* The devices of the areas of a disk belong to that disk.
LEMMA PdcArea ==
  ASSUME NEW rd, IsDevice(rd), rd.fmt = "pdc", rd.name = Pdc!Name(rd.meta, Pdc!IsRaid10(rd.meta)),
         NEW i, NEW d \in Pdc!Area(rd, i)
  PROVE  /\ IsDevice(d) /\ d.fmt = "pdc" /\ d.disk = rd.disk
         /\ d.name = Pdc!Name(d.meta, Pdc!IsRaid10(d.meta))
<1>1. CASE i = 0
  BY <1>1 DEF Pdc!Area
<1>2. CASE i # 0
  <2>1. \E a, s, o : d \in Pdc!Device(rd.disk, rd.capacity, a, s, o)
    BY <1>2, Zenon DEF Pdc!Area
  <2> QED
    BY <2>1, PdcDevice
<1> QED
  BY <1>1, <1>2

\* The sets after each area.
PdcStep(r, rd, i) ==
  LET gs == UNION {Pdc!GroupArea(r.sets, d) : d \in Pdc!Area(rd, i)}
  IN  IF ~r.ok \/ gs = {} THEN [r EXCEPT !.ok = FALSE] ELSE [r EXCEPT !.sets = CHOOSE g \in gs : TRUE]

\* GroupAreas() takes the areas one after the other.
LEMMA PdcUnfold ==
  ASSUME NEW f, NEW rd, Len(rd.meta.more) \in Nat
  PROVE  \E done : /\ done[0] = PdcStep([sets |-> f, ok |-> TRUE], rd, 0)
                   /\ \A i \in 1 .. Len(rd.meta.more) : done[i] = PdcStep(done[i-1], rd, i)
                   /\ Pdc!GroupAreas(f, rd) = done[Len(rd.meta.more)]
<1> DEFINE N == Len(rd.meta.more)
           First == [sets |-> f, ok |-> TRUE]
           Is(d, k) == d = [i \in 0 .. k |-> PdcStep(IF i = 0 THEN First ELSE d[i-1], rd, i)]
           Bad == {k \in 0 .. N : \A d : ~Is(d, k)}
<1>1. Bad = {}
  <2> SUFFICES ASSUME Bad # {} PROVE FALSE
    OBVIOUS
  <2>1. PICK k \in Bad : \A y \in Bad : k <= y
    <3>1. Bad \in SUBSET Nat
      OBVIOUS
    <3> HIDE DEF Bad
    <3> QED
      BY <3>1, LeastNat
  <2>2. k \in 0 .. N /\ \A d : ~Is(d, k)
    OBVIOUS
  <2>3. CASE k = 0
    <3> DEFINE d == [i \in 0 .. 0 |-> PdcStep(First, rd, 0)]
    <3>1. Is(d, 0)
      <4> HIDE DEF First
      <4> QED OBVIOUS
    <3> QED
      BY <2>2, <2>3, <3>1
  <2>4. CASE k # 0
    <3>1. k - 1 \in 0 .. N /\ k - 1 \notin Bad
      <4> HIDE DEF Is
      <4>1. k \in 1 .. N
        BY <2>2, <2>4
      <4>2. ~(k <= k - 1)
        BY <4>1
      <4>3. k - 1 \notin Bad
        <5> HIDE DEF Bad
        <5> QED BY <2>1, <4>2
      <4> QED
        BY <4>1, <4>3
    <3>2. PICK d : Is(d, k - 1)
      BY <3>1
    <3> DEFINE e == [i \in 0 .. k |-> IF i = k THEN PdcStep(d[k-1], rd, k) ELSE d[i]]
    <3>3. ASSUME NEW i \in 0 .. k
          PROVE  e[i] = PdcStep(IF i = 0 THEN First ELSE e[i-1], rd, i)
      <4> HIDE DEF First
      <4>1. CASE i = k
        <5>1. e[i] = PdcStep(d[k-1], rd, k) /\ e[i-1] = d[i-1]
          BY <4>1, <2>4, <2>2
        <5> QED
          BY <4>1, <5>1, <2>4
      <4>2. CASE i # k /\ i # 0
        <5>1. i \in 0 .. k - 1 /\ i - 1 \in 0 .. k - 1 /\ i - 1 # k
          BY <4>2, <2>2
        <5>2. d[i] = PdcStep(d[i-1], rd, i)
          BY <3>2, <4>2, <5>1
        <5>3. e[i] = d[i] /\ e[i-1] = d[i-1]
          BY <4>2, <5>1, <2>2
        <5> QED
          BY <4>2, <5>2, <5>3
      <4>3. CASE i # k /\ i = 0
        <5>1. d[0] = PdcStep(First, rd, 0)
          BY <3>2, <2>2, <2>4
        <5> QED
          BY <4>3, <5>1
      <4> QED
        BY <4>1, <4>2, <4>3
    <3>4. Is(e, k)
      <4>1. e = [i \in 0 .. k |-> e[i]]
        OBVIOUS
      <4> HIDE DEF e, First
      <4> QED
        BY <3>3, <4>1
    <3> QED
      BY <2>2, <3>4
  <2> QED
    BY <2>3, <2>4
<1> DEFINE done == CHOOSE d : Is(d, N)
<1>2. Is(done, N)
  <2>1. \E d : Is(d, N)
    <3> HIDE DEF Is
    <3>1. N \in 0 .. N
      OBVIOUS
    <3> QED
      BY <1>1, <3>1
  <2> HIDE DEF Is
  <2> QED
    BY <2>1
<1>3. Pdc!GroupAreas(f, rd) = done[N]
  BY DEF Pdc!GroupAreas, PdcStep
<1>0. N \in Nat
  OBVIOUS
<1> HIDE DEF done, First, N, Bad
<1>5. \A i \in 0 .. N : done[i] = PdcStep(IF i = 0 THEN First ELSE done[i-1], rd, i)
  BY <1>2, Zenon
<1>4. done[0] = PdcStep(First, rd, 0) /\ \A i \in 1 .. N : done[i] = PdcStep(done[i-1], rd, i)
  BY <1>0, <1>5
<1> QED
  BY <1>3, <1>4 DEF First, N

\* The sets with the disk itself, and after each volume.
Ddf1Start(f, rd) ==
  Ddf1!Listed(Ddf1!WithSet(f, Ddf1!Disks, [Ddf1!FoundOrNew(f, rd) EXCEPT !.devs = Append(@, rd)]), Ddf1!Disks)

Ddf1Step(g, rd, i) ==
  IF Ddf1!Segments(rd)[i] = {} THEN g ELSE Ddf1!Segmented(g, CHOOSE s \in Ddf1!Segments(rd)[i] : TRUE)

\* Group() takes the volumes one after the other.
LEMMA Ddf1Unfold ==
  ASSUME NEW f, NEW rd, Len(Ddf1!Mine(rd.meta)) \in Nat
  PROVE  \E done : /\ done[0] = Ddf1Start(f, rd)
                   /\ \A i \in 1 .. Len(Ddf1!Mine(rd.meta)) : done[i] = Ddf1Step(done[i-1], rd, i)
                   /\ Ddf1!Group(f, rd) = {done[Len(Ddf1!Mine(rd.meta))]}
<1> DEFINE N == Len(Ddf1!Mine(rd.meta))
           First == Ddf1Start(f, rd)
           Is(d, k) == d = [i \in 0 .. k |-> (IF i = 0 THEN First ELSE Ddf1Step(d[i-1], rd, i))]
           Bad == {k \in 0 .. N : \A d : ~Is(d, k)}
<1>1. Bad = {}
  <2> SUFFICES ASSUME Bad # {} PROVE FALSE
    OBVIOUS
  <2>1. PICK k \in Bad : \A y \in Bad : k <= y
    <3>1. Bad \in SUBSET Nat
      OBVIOUS
    <3> HIDE DEF Bad
    <3> QED
      BY <3>1, LeastNat
  <2>2. k \in 0 .. N /\ \A d : ~Is(d, k)
    OBVIOUS
  <2>3. CASE k = 0
    <3> DEFINE d == [i \in 0 .. 0 |-> First]
    <3>1. Is(d, 0)
      <4> HIDE DEF First
      <4> QED OBVIOUS
    <3> QED
      BY <2>2, <2>3, <3>1
  <2>4. CASE k # 0
    <3>1. k - 1 \in 0 .. N /\ k - 1 \notin Bad
      <4> HIDE DEF Is
      <4>1. k \in 1 .. N
        BY <2>2, <2>4
      <4>2. ~(k <= k - 1)
        BY <4>1
      <4>3. k - 1 \notin Bad
        <5> HIDE DEF Bad
        <5> QED BY <2>1, <4>2
      <4> QED
        BY <4>1, <4>3
    <3>2. PICK d : Is(d, k - 1)
      BY <3>1
    <3> DEFINE e == [i \in 0 .. k |-> IF i = k THEN Ddf1Step(d[k-1], rd, k) ELSE d[i]]
    <3>3. ASSUME NEW i \in 0 .. k
          PROVE  e[i] = (IF i = 0 THEN First ELSE Ddf1Step(e[i-1], rd, i))
      <4> HIDE DEF First
      <4>1. CASE i = k
        <5>1. e[i] = Ddf1Step(d[k-1], rd, k) /\ e[i-1] = d[i-1]
          BY <4>1, <2>4, <2>2
        <5> QED
          BY <4>1, <5>1, <2>4
      <4>2. CASE i # k /\ i # 0
        <5>1. i \in 0 .. k - 1 /\ i - 1 \in 0 .. k - 1 /\ i - 1 # k
          BY <4>2, <2>2
        <5>2. d[i] = Ddf1Step(d[i-1], rd, i)
          BY <3>2, <4>2, <5>1
        <5>3. e[i] = d[i] /\ e[i-1] = d[i-1]
          BY <4>2, <5>1, <2>2
        <5> QED
          BY <4>2, <5>2, <5>3
      <4>3. CASE i # k /\ i = 0
        <5>1. d[0] = First
          BY <3>2, <2>2, <2>4
        <5> QED
          BY <4>3, <5>1
      <4> QED
        BY <4>1, <4>2, <4>3
    <3>4. Is(e, k)
      <4>1. e = [i \in 0 .. k |-> e[i]]
        OBVIOUS
      <4> HIDE DEF e, First
      <4> QED
        BY <3>3, <4>1
    <3> QED
      BY <2>2, <3>4
  <2> QED
    BY <2>3, <2>4
<1> DEFINE done == CHOOSE d : Is(d, N)
<1>2. Is(done, N)
  <2>1. \E d : Is(d, N)
    <3> HIDE DEF Is
    <3>1. N \in 0 .. N
      OBVIOUS
    <3> QED
      BY <1>1, <3>1
  <2> HIDE DEF Is
  <2> QED
    BY <2>1
<1>3. Ddf1!Group(f, rd) = {done[N]}
  BY DEF Ddf1!Group, Ddf1Step, Ddf1Start
<1>0. N \in Nat
  OBVIOUS
<1> HIDE DEF done, First, N, Bad
<1>5. \A i \in 0 .. N : done[i] = (IF i = 0 THEN First ELSE Ddf1Step(done[i-1], rd, i))
  BY <1>2, Zenon
<1>4. done[0] = First /\ \A i \in 1 .. N : done[i] = Ddf1Step(done[i-1], rd, i)
  BY <1>0, <1>5
<1> QED
  BY <1>3, <1>4 DEF First, N

-----------------------------------------------------------------------------
(* All formats together.                                                   *)

\* Whatever format reads a disk, the device is of that disk and named as the format does.
LEMMA ReadKnown ==
  ASSUME NEW l, NEW disk \in DOMAIN l.native, NEW rd \in RaidDevs(l, disk)
  PROVE  Known(rd) /\ rd.disk = disk /\ rd \in AllDevs(l)
<1>1. PICK m \in l.native[disk] : m.fmt \in ToSet(Formats) /\ rd \in Read(m.fmt, disk, l.capacity, m)
  BY DEF RaidDevs
<1>2. rd \in AllDevs(l)
  BY DEF AllDevs
<1>3. Known(rd) /\ rd.disk = disk
  <2>1. CASE m.fmt = "asr"
    <3>1. rd \in Asr!Read(disk, l.capacity, m)
      BY <1>1, <2>1 DEF Read
    <3> QED
      BY <3>1, <1>1, <2>1, AsrRead
  <2>2. CASE m.fmt = "ddf1"
    <3>1. rd \in Ddf1!Read(disk, l.capacity, m)
      BY <1>1, <2>2 DEF Read
    <3> QED
      BY <3>1, <1>1, <2>2, Ddf1Read
  <2>3. CASE m.fmt = "hpt37x"
    <3>1. rd \in Hpt37x!Read(disk, l.capacity, m)
      BY <1>1, <2>3 DEF Read
    <3> QED
      BY <3>1, <1>1, <2>3, Hpt37xRead
  <2>4. CASE m.fmt = "hpt45x"
    <3>1. rd \in Hpt45x!Read(disk, l.capacity, m)
      BY <1>1, <2>4 DEF Read
    <3> QED
      BY <3>1, <1>1, <2>4, Hpt45xRead
  <2>5. CASE m.fmt = "jm"
    <3>1. rd \in Jm!Read(disk, l.capacity, m)
      BY <1>1, <2>5 DEF Read
    <3> QED
      BY <3>1, <1>1, <2>5, JmRead
  <2>6. CASE m.fmt = "lsi"
    <3>1. rd \in Lsi!Read(disk, l.capacity, m)
      BY <1>1, <2>6 DEF Read
    <3> QED
      BY <3>1, <1>1, <2>6, LsiRead
  <2>7. CASE m.fmt = "nv"
    <3>1. rd \in Nv!Read(disk, l.capacity, m)
      BY <1>1, <2>7 DEF Read
    <3> QED
      BY <3>1, <1>1, <2>7, NvRead
  <2>8. CASE m.fmt = "pdc"
    <3>1. rd \in Pdc!Read(disk, l.capacity, m)
      BY <1>1, <2>8 DEF Read
    <3> QED
      BY <3>1, <1>1, <2>8, PdcRead
  <2>9. CASE m.fmt = "sil"
    <3>1. rd \in Sil!Read(disk, l.capacity, m)
      BY <1>1, <2>9 DEF Read
    <3> QED
      BY <3>1, <1>1, <2>9, SilRead
  <2>10. CASE m.fmt = "via"
    <3>1. rd \in Via!Read(disk, l.capacity, m)
      BY <1>1, <2>10 DEF Read
    <3> QED
      BY <3>1, <1>1, <2>10, ViaRead
  <2> QED
    BY <1>1, <2>1, <2>2, <2>3, <2>4, <2>5, <2>6, <2>7, <2>8, <2>9, <2>10, FormatSet
<1> QED
  BY <1>2, <1>3

\* The handlers that put one device into one set.
LEMMA SingleGroup ==
  ASSUME NEW l, OneParent(l), NEW f, IsSets(f), NEW rd \in AllDevs(l), Known(rd), rd.fmt \notin {"ddf1", "pdc"},
         \A n \in DOMAIN f.set : (\A m : ~Under(l, n, m)) => n \in f.top,
         NEW h \in Group(f, rd)
  PROVE  h = f \/ \E n, sup : Puts(l, f, h, rd, n, sup)
<1>1. CASE rd.fmt = "asr"
  BY <1>1, AsrGroup DEF Group, Known
<1>2. CASE rd.fmt = "hpt37x"
  BY <1>2, Hpt37xGroup DEF Group, Known
<1>3. CASE rd.fmt = "hpt45x"
  BY <1>3, Hpt45xGroup DEF Group, Known
<1>4. CASE rd.fmt = "jm"
  BY <1>4, JmGroup DEF Group, Known
<1>5. CASE rd.fmt = "lsi"
  BY <1>5, LsiGroup DEF Group, Known
<1>6. CASE rd.fmt = "nv"
  BY <1>6, NvGroup DEF Group, Known
<1>7. CASE rd.fmt = "sil"
  BY <1>7, SilGroup DEF Group, Known
<1>8. CASE rd.fmt = "via"
  BY <1>8, ViaGroup DEF Group, Known
<1> QED
  BY <1>1, <1>2, <1>3, <1>4, <1>5, <1>6, <1>7, <1>8, FormatSet DEF Known

-----------------------------------------------------------------------------
(* A check changes nothing but states.                                     *)

Alike(d, e) ==
  /\ IsDevice(e)
  /\ e.fmt = d.fmt /\ e.disk = d.disk /\ e.capacity = d.capacity /\ e.name = d.name /\ e.type = d.type
  /\ e.sectors = d.sectors /\ e.offset = d.offset /\ e.meta = d.meta

\* new is the set rs with other states.
AlikeRs(rs, new) ==
  /\ IsRs(new)
  /\ new.type = rs.type /\ new.stride = rs.stride /\ new.subs = rs.subs
  /\ Len(new.devs) = Len(rs.devs)
  /\ \A i \in 1 .. Len(rs.devs) : Alike(rs.devs[i], new.devs[i])

AllDevices(rs) == \A i \in 1 .. Len(rs.devs) : IsDevice(rs.devs[i])

AlikeSets(f, g) ==
  /\ IsSets(g)
  /\ g.top = f.top
  /\ DOMAIN g.set = DOMAIN f.set
  /\ \A m \in DOMAIN f.set : AlikeRs(f.set[m], g.set[m])

WithStatus(d, status)     == [d EXCEPT !.status = status]
Renewed(rs, devs, status) == [[rs EXCEPT !.devs = devs] EXCEPT !.status = status]

Restated(rs, states, status) ==
  Renewed(rs, IF rs.type = "group" THEN rs.devs
              ELSE [i \in DOMAIN rs.devs |-> WithStatus(rs.devs[i], states[i])], status)

\* A set with other devices and another state is a set.
LEMMA RenewedIs ==
  ASSUME NEW rs, IsRs(rs), NEW devs, IsList(devs), NEW status, NEW new, new = Renewed(rs, devs, status)
  PROVE  IsRs(new) /\ new.type = rs.type /\ new.stride = rs.stride /\ new.subs = rs.subs /\ new.devs = devs
<1>1. new = [type |-> rs.type, stride |-> rs.stride, devs |-> devs, subs |-> rs.subs, status |-> status]
  BY DEF IsRs, Renewed
<1> QED
  BY <1>1 DEF IsRs

\* A device with another state is alike.
LEMMA AlikeStatus ==
  ASSUME NEW d, IsDevice(d), NEW status
  PROVE  Alike(d, WithStatus(d, status)) /\ Alike(d, d)
<1>1. WithStatus(d, status) =
        [fmt |-> d.fmt, disk |-> d.disk, capacity |-> d.capacity, meta |-> d.meta, name |-> d.name, type |-> d.type,
         status |-> status, sectors |-> d.sectors, offset |-> d.offset]
  BY DEF IsDevice, WithStatus
<1> QED
  BY <1>1 DEF Alike, IsDevice

\* A set whose devices have other states is alike.
LEMMA RestatedAlike ==
  ASSUME NEW rs, IsRs(rs), AllDevices(rs), NEW states, NEW status
  PROVE  AlikeRs(rs, Restated(rs, states, status)) /\ AllDevices(Restated(rs, states, status))
<1> DEFINE new  == Restated(rs, states, status)
           all  == [i \in DOMAIN rs.devs |-> WithStatus(rs.devs[i], states[i])]
           devs == IF rs.type = "group" THEN rs.devs ELSE all
<1>1. new = Renewed(rs, devs, status)
  BY DEF Restated
<1>2. DOMAIN rs.devs = 1 .. Len(rs.devs) /\ Len(rs.devs) \in Nat
  BY DEF IsRs, IsList
<1>3. ASSUME NEW i \in 1 .. Len(rs.devs) PROVE Alike(rs.devs[i], all[i]) /\ Alike(rs.devs[i], rs.devs[i])
  <2>1. all[i] = WithStatus(rs.devs[i], states[i]) /\ IsDevice(rs.devs[i])
    BY <1>2 DEF AllDevices
  <2> QED
    BY <2>1, AlikeStatus
<1>4. IsList(all) /\ Len(all) = Len(rs.devs)
  <2> DEFINE S == {all[i] : i \in 1 .. Len(rs.devs)}
  <2>1. all = [i \in 1 .. Len(rs.devs) |-> all[i]]
    BY <1>2
  <2> HIDE DEF all
  <2>2. all \in [1 .. Len(rs.devs) -> S]
    BY <2>1
  <2>3. all \in Seq(S) /\ Len(all) = Len(rs.devs)
    BY <1>2, <2>2, SeqDef, LenProperties
  <2> QED
    BY <1>2, <2>1, <2>3 DEF IsList
<1> HIDE DEF all
<1>5. IsList(devs) /\ Len(devs) = Len(rs.devs) /\ \A i \in 1 .. Len(rs.devs) : Alike(rs.devs[i], devs[i])
  BY <1>3, <1>4 DEF IsRs
<1> HIDE DEF devs, new
<1>6. IsRs(new) /\ new.type = rs.type /\ new.stride = rs.stride /\ new.subs = rs.subs /\ new.devs = devs
  BY <1>1, <1>5, RenewedIs
<1>7. AlikeRs(rs, new) /\ AllDevices(new)
  BY <1>5, <1>6 DEF AlikeRs, AllDevices, Alike
<1> QED
  BY <1>7 DEF new

\* What is alike has devices.
LEMMA AlikeDevices ==
  ASSUME NEW d, NEW e, NEW x, Alike(d, e), Alike(e, x)
  PROVE  Alike(d, x)
BY DEF Alike

\* A set is alike itself.
LEMMA AlikeSet ==
  ASSUME NEW rs, NEW new, NEW x, AlikeRs(rs, new), AlikeRs(new, x)
  PROVE  AlikeRs(rs, x)
BY AlikeDevices DEF AlikeRs

\* The sets are alike themselves.
LEMMA AlikeItself ==
  ASSUME NEW rs, IsRs(rs), AllDevices(rs)
  PROVE  AlikeRs(rs, rs)
BY DEF AlikeRs, AllDevices, Alike

\* The subsets are checked, then the set itself.
WithSome(f, subs, c)  == [f EXCEPT !.set = [m \in DOMAIN f.set |-> IF m \in subs THEN c[m] ELSE f.set[m]]]
WithLast(g, n, last)  == [g EXCEPT !.set[n] = last]
IsRestated(rs, new)   == \E s, t : new = Restated(rs, s, t)
AllSets(f)            == \A m \in DOMAIN f.set : AllDevices(f.set[m])

\* A set that is checked has only other states.
LEMMA IsRestatedAlike ==
  ASSUME NEW rs, IsRs(rs), AllDevices(rs), NEW new, IsRestated(rs, new)
  PROVE  AlikeRs(rs, new) /\ AllDevices(new)
BY RestatedAlike DEF IsRestated

\* The sets with some of them checked are alike.
LEMMA WithSomeIs ==
  ASSUME NEW f, IsSets(f), NEW subs, NEW c, \A m \in DOMAIN f.set : m \in subs => IsRs(c[m]),
         NEW g, g = WithSome(f, subs, c)
  PROVE  /\ IsSets(g)
         /\ g.top = f.top
         /\ DOMAIN g.set = DOMAIN f.set
         /\ \A m \in DOMAIN f.set : g.set[m] = IF m \in subs THEN c[m] ELSE f.set[m]
<1> DEFINE F == [m \in DOMAIN f.set |-> IF m \in subs THEN c[m] ELSE f.set[m]]
<1>1. g = [f EXCEPT !.set = F]
  BY DEF WithSome
<1>2. DOMAIN F = DOMAIN f.set /\ F = [m \in DOMAIN F |-> F[m]]
      /\ \A m \in DOMAIN f.set : F[m] = IF m \in subs THEN c[m] ELSE f.set[m]
  OBVIOUS
<1> HIDE DEF F
<1>3. g = [top |-> f.top, set |-> F]
  BY <1>1 DEF IsSets
<1>4. g.top = f.top /\ g.set = F /\ g = [top |-> g.top, set |-> g.set]
  BY <1>3
<1> QED
  BY <1>2, <1>4 DEF IsSets

\* The sets with one of them checked are alike.
LEMMA WithLastIs ==
  ASSUME NEW g, IsSets(g), NEW n \in DOMAIN g.set, NEW last, IsRs(last), NEW h, h = WithLast(g, n, last)
  PROVE  /\ IsSets(h)
         /\ h.top = g.top
         /\ DOMAIN h.set = DOMAIN g.set
         /\ \A m \in DOMAIN g.set \ {n} : h.set[m] = g.set[m]
         /\ h.set[n] = last
<1>1. h = WithSet(g, n, last)
  <2>1. h = [g EXCEPT !.set = [g.set EXCEPT ![n] = last]]
    BY DEF WithLast
  <2>2. [g.set EXCEPT ![n] = last] = [m \in DOMAIN g.set \cup {n} |-> IF m = n THEN last ELSE g.set[m]]
    OBVIOUS
  <2> QED
    BY <2>1, <2>2 DEF WithSet
<1>2. /\ IsSets(h)
      /\ h.top = g.top
      /\ DOMAIN h.set = DOMAIN g.set \cup {n}
      /\ \A m \in DOMAIN g.set \ {n} : h.set[m] = g.set[m]
      /\ h.set[n] = last
  BY <1>1, WithOne
<1> QED
  BY <1>2

\* The sets with a set and its subsets checked are alike.
LEMMA CheckedAlike ==
  ASSUME NEW f, IsSets(f), AllSets(f), NEW n \in DOMAIN f.set, NEW subs,
         NEW c, \A m \in DOMAIN f.set : IsRestated(f.set[m], c[m]),
         NEW g, g = WithSome(f, subs, c),
         NEW last, IsRestated(g.set[n], last),
         NEW h, h = WithLast(g, n, last)
  PROVE  AlikeSets(f, h) /\ AllSets(h)
<1>1. ASSUME NEW m \in DOMAIN f.set
      PROVE  IsRs(f.set[m]) /\ AllDevices(f.set[m]) /\ AlikeRs(f.set[m], c[m]) /\ AllDevices(c[m])
             /\ AlikeRs(f.set[m], f.set[m])
  <2>1. IsRs(f.set[m]) /\ AllDevices(f.set[m])
    BY DEF IsSets, AllSets
  <2> QED
    BY <2>1, IsRestatedAlike, AlikeItself
<1>2. \A m \in DOMAIN f.set : IsRs(c[m])
  BY <1>1 DEF AlikeRs
<1>3. IsSets(g) /\ g.top = f.top /\ DOMAIN g.set = DOMAIN f.set
      /\ \A m \in DOMAIN f.set : g.set[m] = IF m \in subs THEN c[m] ELSE f.set[m]
  BY <1>2, WithSomeIs
<1>4. \A m \in DOMAIN f.set : AlikeRs(f.set[m], g.set[m]) /\ AllDevices(g.set[m])
  BY <1>1, <1>3
<1>5. IsRs(g.set[n])
  BY <1>4 DEF AlikeRs
<1>6. AlikeRs(g.set[n], last) /\ AllDevices(last)
  BY <1>4, <1>5, IsRestatedAlike
<1>7. AlikeRs(f.set[n], last) /\ IsRs(last)
  <2>1. AlikeRs(f.set[n], g.set[n])
    BY <1>4
  <2> QED
    BY <2>1, <1>6, AlikeSet DEF AlikeRs
<1>8. IsSets(h) /\ h.top = g.top /\ DOMAIN h.set = DOMAIN g.set /\ h.set[n] = last
      /\ \A m \in DOMAIN g.set \ {n} : h.set[m] = g.set[m]
  BY <1>3, <1>7, WithLastIs
<1>9. \A m \in DOMAIN f.set : AlikeRs(f.set[m], h.set[m]) /\ AllDevices(h.set[m])
  BY <1>3, <1>4, <1>6, <1>7, <1>8
<1> QED
  BY <1>3, <1>8, <1>9 DEF AlikeSets, AllSets

\* Twice alike is alike.
LEMMA AlikeTwice ==
  ASSUME NEW f, NEW g, NEW h, AlikeSets(f, g), AlikeSets(g, h)
  PROVE  AlikeSets(f, h)
BY AlikeSet DEF AlikeSets

\* A set that asr checks has only other states.
LEMMA AsrCheckedSet ==
  ASSUME NEW f, NEW n
  PROVE  IsRestated(f.set[n], Asr!CheckedSet(f, n, Asr!Devices, Asr!CheckRd))
<1> DEFINE old    == f.set[n]
           states == [i \in DOMAIN old.devs |-> Asr!DevStatus(old, old.devs[i], Asr!Devices(old.devs[i]), Asr!CheckRd(old, old.devs[i]))]
           devs   == IF old.type = "group" THEN old.devs
                     ELSE [i \in DOMAIN old.devs |-> WithStatus(old.devs[i], states[i])]
           new    == [old EXCEPT !.devs = devs]
<1>1. Asr!CheckedSet(f, n, Asr!Devices, Asr!CheckRd) = [new EXCEPT !.status = Asr!SetStatus(f, new)]
  BY Zenon DEF Asr!CheckedSet, WithStatus
<1>2. Asr!CheckedSet(f, n, Asr!Devices, Asr!CheckRd) = Restated(old, states, Asr!SetStatus(f, new))
  BY <1>1, Zenon DEF Restated, Renewed
<1> QED
  BY <1>2, Zenon DEF IsRestated

\* check_raid_set() of asr changes only states.
LEMMA AsrChecked ==
  ASSUME NEW f, IsSets(f), AllSets(f), NEW n \in DOMAIN f.set,
         NEW h, h = Asr!Check(f, n)
  PROVE  AlikeSets(f, h) /\ AllSets(h)
<1> DEFINE subs == Asr!ToSet(f.set[n].subs)
           c    == [m \in DOMAIN f.set |-> Asr!CheckedSet(f, m, Asr!Devices, Asr!CheckRd)]
           g    == WithSome(f, subs, c)
           last == Asr!CheckedSet(g, n, Asr!Devices, Asr!CheckRd)
<1>1. h = WithLast(g, n, last)
  <2>1. [m \in DOMAIN f.set |-> IF m \in subs THEN Asr!CheckedSet(f, m, Asr!Devices, Asr!CheckRd) ELSE f.set[m]]
        = [m \in DOMAIN f.set |-> IF m \in subs THEN c[m] ELSE f.set[m]]
    BY Zenon
  <2> QED
    BY <2>1, Zenon DEF Asr!Check, Asr!Checked, WithLast, WithSome
<1>2. \A m \in DOMAIN f.set : IsRestated(f.set[m], c[m])
  BY AsrCheckedSet, Zenon
<1>3. IsRestated(g.set[n], last)
  BY AsrCheckedSet, Zenon
<1> HIDE DEF c, last, subs, g
<1>4. g = WithSome(f, subs, c)
  BY DEF g
<1> QED
  BY <1>1, <1>2, <1>3, <1>4, CheckedAlike, Zenon

\* A set that ddf1 checks has only other states.
LEMMA Ddf1CheckedSet ==
  ASSUME NEW f, NEW n
  PROVE  IsRestated(f.set[n], Ddf1!CheckedSet(f, n, Ddf1!Devices, Ddf1!CheckRd))
<1> DEFINE old    == f.set[n]
           states == [i \in DOMAIN old.devs |-> Ddf1!DevStatus(old, old.devs[i], Ddf1!Devices(old.devs[i]), Ddf1!CheckRd(old, old.devs[i]))]
           devs   == IF old.type = "group" THEN old.devs
                     ELSE [i \in DOMAIN old.devs |-> WithStatus(old.devs[i], states[i])]
           new    == [old EXCEPT !.devs = devs]
<1>1. Ddf1!CheckedSet(f, n, Ddf1!Devices, Ddf1!CheckRd) = [new EXCEPT !.status = Ddf1!SetStatus(f, new)]
  BY Zenon DEF Ddf1!CheckedSet, WithStatus
<1>2. Ddf1!CheckedSet(f, n, Ddf1!Devices, Ddf1!CheckRd) = Restated(old, states, Ddf1!SetStatus(f, new))
  BY <1>1, Zenon DEF Restated, Renewed
<1> QED
  BY <1>2, Zenon DEF IsRestated

\* check_raid_set() of ddf1 changes only states.
LEMMA Ddf1Checked ==
  ASSUME NEW f, IsSets(f), AllSets(f), NEW n \in DOMAIN f.set,
         NEW h, h = Ddf1!Check(f, n)
  PROVE  AlikeSets(f, h) /\ AllSets(h)
<1> DEFINE subs == Ddf1!ToSet(f.set[n].subs)
           c    == [m \in DOMAIN f.set |-> Ddf1!CheckedSet(f, m, Ddf1!Devices, Ddf1!CheckRd)]
           g    == WithSome(f, subs, c)
           last == Ddf1!CheckedSet(g, n, Ddf1!Devices, Ddf1!CheckRd)
<1>1. h = WithLast(g, n, last)
  <2>1. [m \in DOMAIN f.set |-> IF m \in subs THEN Ddf1!CheckedSet(f, m, Ddf1!Devices, Ddf1!CheckRd) ELSE f.set[m]]
        = [m \in DOMAIN f.set |-> IF m \in subs THEN c[m] ELSE f.set[m]]
    BY Zenon
  <2> QED
    BY <2>1, Zenon DEF Ddf1!Check, Ddf1!Checked, WithLast, WithSome
<1>2. \A m \in DOMAIN f.set : IsRestated(f.set[m], c[m])
  BY Ddf1CheckedSet, Zenon
<1>3. IsRestated(g.set[n], last)
  BY Ddf1CheckedSet, Zenon
<1> HIDE DEF c, last, subs, g
<1>4. g = WithSome(f, subs, c)
  BY DEF g
<1> QED
  BY <1>1, <1>2, <1>3, <1>4, CheckedAlike, Zenon

\* A set that hpt37x checks has only other states.
LEMMA Hpt37xCheckedSet ==
  ASSUME NEW f, NEW n
  PROVE  IsRestated(f.set[n], Hpt37x!CheckedSet(f, n, Hpt37x!Devices, Hpt37x!CheckRd))
<1> DEFINE old    == f.set[n]
           states == [i \in DOMAIN old.devs |-> Hpt37x!DevStatus(old, old.devs[i], Hpt37x!Devices(old.devs[i]), Hpt37x!CheckRd(old, old.devs[i]))]
           devs   == IF old.type = "group" THEN old.devs
                     ELSE [i \in DOMAIN old.devs |-> WithStatus(old.devs[i], states[i])]
           new    == [old EXCEPT !.devs = devs]
<1>1. Hpt37x!CheckedSet(f, n, Hpt37x!Devices, Hpt37x!CheckRd) = [new EXCEPT !.status = Hpt37x!SetStatus(f, new)]
  BY Zenon DEF Hpt37x!CheckedSet, WithStatus
<1>2. Hpt37x!CheckedSet(f, n, Hpt37x!Devices, Hpt37x!CheckRd) = Restated(old, states, Hpt37x!SetStatus(f, new))
  BY <1>1, Zenon DEF Restated, Renewed
<1> QED
  BY <1>2, Zenon DEF IsRestated

\* check_raid_set() of hpt37x changes only states.
LEMMA Hpt37xChecked ==
  ASSUME NEW f, IsSets(f), AllSets(f), NEW n \in DOMAIN f.set,
         NEW h, h = Hpt37x!Check(f, n)
  PROVE  AlikeSets(f, h) /\ AllSets(h)
<1> DEFINE subs == Hpt37x!ToSet(f.set[n].subs)
           c    == [m \in DOMAIN f.set |-> Hpt37x!CheckedSet(f, m, Hpt37x!Devices, Hpt37x!CheckRd)]
           g    == WithSome(f, subs, c)
           last == Hpt37x!CheckedSet(g, n, Hpt37x!Devices, Hpt37x!CheckRd)
<1>1. h = WithLast(g, n, last)
  <2>1. [m \in DOMAIN f.set |-> IF m \in subs THEN Hpt37x!CheckedSet(f, m, Hpt37x!Devices, Hpt37x!CheckRd) ELSE f.set[m]]
        = [m \in DOMAIN f.set |-> IF m \in subs THEN c[m] ELSE f.set[m]]
    BY Zenon
  <2> QED
    BY <2>1, Zenon DEF Hpt37x!Check, Hpt37x!Checked, WithLast, WithSome
<1>2. \A m \in DOMAIN f.set : IsRestated(f.set[m], c[m])
  BY Hpt37xCheckedSet, Zenon
<1>3. IsRestated(g.set[n], last)
  BY Hpt37xCheckedSet, Zenon
<1> HIDE DEF c, last, subs, g
<1>4. g = WithSome(f, subs, c)
  BY DEF g
<1> QED
  BY <1>1, <1>2, <1>3, <1>4, CheckedAlike, Zenon

\* A set that hpt45x checks has only other states.
LEMMA Hpt45xCheckedSet ==
  ASSUME NEW f, NEW n
  PROVE  IsRestated(f.set[n], Hpt45x!CheckedSet(f, n, Hpt45x!Devices, LAMBDA rs, rd : FALSE))
<1> DEFINE old    == f.set[n]
           states == [i \in DOMAIN old.devs |-> Hpt45x!DevStatus(old, old.devs[i], Hpt45x!Devices(old.devs[i]), FALSE)]
           devs   == IF old.type = "group" THEN old.devs
                     ELSE [i \in DOMAIN old.devs |-> WithStatus(old.devs[i], states[i])]
           new    == [old EXCEPT !.devs = devs]
<1>1. Hpt45x!CheckedSet(f, n, Hpt45x!Devices, LAMBDA rs, rd : FALSE) = [new EXCEPT !.status = Hpt45x!SetStatus(f, new)]
  BY Zenon DEF Hpt45x!CheckedSet, WithStatus
<1>2. Hpt45x!CheckedSet(f, n, Hpt45x!Devices, LAMBDA rs, rd : FALSE) = Restated(old, states, Hpt45x!SetStatus(f, new))
  BY <1>1, Zenon DEF Restated, Renewed
<1> QED
  BY <1>2, Zenon DEF IsRestated

\* check_raid_set() of hpt45x changes only states.
LEMMA Hpt45xChecked ==
  ASSUME NEW f, IsSets(f), AllSets(f), NEW n \in DOMAIN f.set,
         NEW h, h = Hpt45x!Check(f, n)
  PROVE  AlikeSets(f, h) /\ AllSets(h)
<1> DEFINE subs == Hpt45x!ToSet(f.set[n].subs)
           c    == [m \in DOMAIN f.set |-> Hpt45x!CheckedSet(f, m, Hpt45x!Devices, LAMBDA rs, rd : FALSE)]
           g    == WithSome(f, subs, c)
           last == Hpt45x!CheckedSet(g, n, Hpt45x!Devices, LAMBDA rs, rd : FALSE)
<1>1. h = WithLast(g, n, last)
  <2>1. [m \in DOMAIN f.set |-> IF m \in subs THEN Hpt45x!CheckedSet(f, m, Hpt45x!Devices, LAMBDA rs, rd : FALSE) ELSE f.set[m]]
        = [m \in DOMAIN f.set |-> IF m \in subs THEN c[m] ELSE f.set[m]]
    BY Zenon
  <2> QED
    BY <2>1, Zenon DEF Hpt45x!Check, Hpt45x!Checked, WithLast, WithSome
<1>2. \A m \in DOMAIN f.set : IsRestated(f.set[m], c[m])
  BY Hpt45xCheckedSet, Zenon
<1>3. IsRestated(g.set[n], last)
  BY Hpt45xCheckedSet, Zenon
<1> HIDE DEF c, last, subs, g
<1>4. g = WithSome(f, subs, c)
  BY DEF g
<1> QED
  BY <1>1, <1>2, <1>3, <1>4, CheckedAlike, Zenon

\* A set that jm checks has only other states.
LEMMA JmCheckedSet ==
  ASSUME NEW f, NEW n
  PROVE  IsRestated(f.set[n], Jm!CheckedSet(f, n, Jm!Devices, LAMBDA rs, rd : FALSE))
<1> DEFINE old    == f.set[n]
           states == [i \in DOMAIN old.devs |-> Jm!DevStatus(old, old.devs[i], Jm!Devices(old.devs[i]), FALSE)]
           devs   == IF old.type = "group" THEN old.devs
                     ELSE [i \in DOMAIN old.devs |-> WithStatus(old.devs[i], states[i])]
           new    == [old EXCEPT !.devs = devs]
<1>1. Jm!CheckedSet(f, n, Jm!Devices, LAMBDA rs, rd : FALSE) = [new EXCEPT !.status = Jm!SetStatus(f, new)]
  BY Zenon DEF Jm!CheckedSet, WithStatus
<1>2. Jm!CheckedSet(f, n, Jm!Devices, LAMBDA rs, rd : FALSE) = Restated(old, states, Jm!SetStatus(f, new))
  BY <1>1, Zenon DEF Restated, Renewed
<1> QED
  BY <1>2, Zenon DEF IsRestated

\* check_raid_set() of jm changes only states.
LEMMA JmChecked ==
  ASSUME NEW f, IsSets(f), AllSets(f), NEW n \in DOMAIN f.set,
         NEW h, h = Jm!Check(f, n)
  PROVE  AlikeSets(f, h) /\ AllSets(h)
<1> DEFINE subs == Jm!ToSet(f.set[n].subs)
           c    == [m \in DOMAIN f.set |-> Jm!CheckedSet(f, m, Jm!Devices, LAMBDA rs, rd : FALSE)]
           g    == WithSome(f, subs, c)
           last == Jm!CheckedSet(g, n, Jm!Devices, LAMBDA rs, rd : FALSE)
<1>1. h = WithLast(g, n, last)
  <2>1. [m \in DOMAIN f.set |-> IF m \in subs THEN Jm!CheckedSet(f, m, Jm!Devices, LAMBDA rs, rd : FALSE) ELSE f.set[m]]
        = [m \in DOMAIN f.set |-> IF m \in subs THEN c[m] ELSE f.set[m]]
    BY Zenon
  <2> QED
    BY <2>1, Zenon DEF Jm!Check, Jm!Checked, WithLast, WithSome
<1>2. \A m \in DOMAIN f.set : IsRestated(f.set[m], c[m])
  BY JmCheckedSet, Zenon
<1>3. IsRestated(g.set[n], last)
  BY JmCheckedSet, Zenon
<1> HIDE DEF c, last, subs, g
<1>4. g = WithSome(f, subs, c)
  BY DEF g
<1> QED
  BY <1>1, <1>2, <1>3, <1>4, CheckedAlike, Zenon

\* A set that lsi checks has only other states.
LEMMA LsiCheckedSet ==
  ASSUME NEW f, NEW n
  PROVE  IsRestated(f.set[n], Lsi!CheckedSet(f, n, Lsi!Devices, LAMBDA rs, rd : FALSE))
<1> DEFINE old    == f.set[n]
           states == [i \in DOMAIN old.devs |-> Lsi!DevStatus(old, old.devs[i], Lsi!Devices(old.devs[i]), FALSE)]
           devs   == IF old.type = "group" THEN old.devs
                     ELSE [i \in DOMAIN old.devs |-> WithStatus(old.devs[i], states[i])]
           new    == [old EXCEPT !.devs = devs]
<1>1. Lsi!CheckedSet(f, n, Lsi!Devices, LAMBDA rs, rd : FALSE) = [new EXCEPT !.status = Lsi!SetStatus(f, new)]
  BY Zenon DEF Lsi!CheckedSet, WithStatus
<1>2. Lsi!CheckedSet(f, n, Lsi!Devices, LAMBDA rs, rd : FALSE) = Restated(old, states, Lsi!SetStatus(f, new))
  BY <1>1, Zenon DEF Restated, Renewed
<1> QED
  BY <1>2, Zenon DEF IsRestated

\* check_raid_set() of lsi changes only states.
LEMMA LsiChecked ==
  ASSUME NEW f, IsSets(f), AllSets(f), NEW n \in DOMAIN f.set,
         NEW h, h = Lsi!Check(f, n)
  PROVE  AlikeSets(f, h) /\ AllSets(h)
<1> DEFINE subs == Lsi!ToSet(f.set[n].subs)
           c    == [m \in DOMAIN f.set |-> Lsi!CheckedSet(f, m, Lsi!Devices, LAMBDA rs, rd : FALSE)]
           g    == WithSome(f, subs, c)
           last == Lsi!CheckedSet(g, n, Lsi!Devices, LAMBDA rs, rd : FALSE)
<1>1. h = WithLast(g, n, last)
  <2>1. [m \in DOMAIN f.set |-> IF m \in subs THEN Lsi!CheckedSet(f, m, Lsi!Devices, LAMBDA rs, rd : FALSE) ELSE f.set[m]]
        = [m \in DOMAIN f.set |-> IF m \in subs THEN c[m] ELSE f.set[m]]
    BY Zenon
  <2> QED
    BY <2>1, Zenon DEF Lsi!Check, Lsi!Checked, WithLast, WithSome
<1>2. \A m \in DOMAIN f.set : IsRestated(f.set[m], c[m])
  BY LsiCheckedSet, Zenon
<1>3. IsRestated(g.set[n], last)
  BY LsiCheckedSet, Zenon
<1> HIDE DEF c, last, subs, g
<1>4. g = WithSome(f, subs, c)
  BY DEF g
<1> QED
  BY <1>1, <1>2, <1>3, <1>4, CheckedAlike, Zenon

\* A set that nv checks has only other states.
LEMMA NvCheckedSet ==
  ASSUME NEW f, NEW n
  PROVE  IsRestated(f.set[n], Nv!CheckedSet(f, n, Nv!Devices, LAMBDA rs, rd : FALSE))
<1> DEFINE old    == f.set[n]
           states == [i \in DOMAIN old.devs |-> Nv!DevStatus(old, old.devs[i], Nv!Devices(old.devs[i]), FALSE)]
           devs   == IF old.type = "group" THEN old.devs
                     ELSE [i \in DOMAIN old.devs |-> WithStatus(old.devs[i], states[i])]
           new    == [old EXCEPT !.devs = devs]
<1>1. Nv!CheckedSet(f, n, Nv!Devices, LAMBDA rs, rd : FALSE) = [new EXCEPT !.status = Nv!SetStatus(f, new)]
  BY Zenon DEF Nv!CheckedSet, WithStatus
<1>2. Nv!CheckedSet(f, n, Nv!Devices, LAMBDA rs, rd : FALSE) = Restated(old, states, Nv!SetStatus(f, new))
  BY <1>1, Zenon DEF Restated, Renewed
<1> QED
  BY <1>2, Zenon DEF IsRestated

\* check_raid_set() of nv changes only states.
LEMMA NvChecked ==
  ASSUME NEW f, IsSets(f), AllSets(f), NEW n \in DOMAIN f.set,
         NEW h, h = Nv!Check(f, n)
  PROVE  AlikeSets(f, h) /\ AllSets(h)
<1> DEFINE subs == Nv!ToSet(f.set[n].subs)
           c    == [m \in DOMAIN f.set |-> Nv!CheckedSet(f, m, Nv!Devices, LAMBDA rs, rd : FALSE)]
           g    == WithSome(f, subs, c)
           last == Nv!CheckedSet(g, n, Nv!Devices, LAMBDA rs, rd : FALSE)
<1>1. h = WithLast(g, n, last)
  <2>1. [m \in DOMAIN f.set |-> IF m \in subs THEN Nv!CheckedSet(f, m, Nv!Devices, LAMBDA rs, rd : FALSE) ELSE f.set[m]]
        = [m \in DOMAIN f.set |-> IF m \in subs THEN c[m] ELSE f.set[m]]
    BY Zenon
  <2> QED
    BY <2>1, Zenon DEF Nv!Check, Nv!Checked, WithLast, WithSome
<1>2. \A m \in DOMAIN f.set : IsRestated(f.set[m], c[m])
  BY NvCheckedSet, Zenon
<1>3. IsRestated(g.set[n], last)
  BY NvCheckedSet, Zenon
<1> HIDE DEF c, last, subs, g
<1>4. g = WithSome(f, subs, c)
  BY DEF g
<1> QED
  BY <1>1, <1>2, <1>3, <1>4, CheckedAlike, Zenon

\* A set that pdc checks has only other states.
LEMMA PdcCheckedSet ==
  ASSUME NEW f, NEW n
  PROVE  IsRestated(f.set[n], Pdc!CheckedSet(f, n, Pdc!Devices, LAMBDA rs, rd : FALSE))
<1> DEFINE old    == f.set[n]
           states == [i \in DOMAIN old.devs |-> Pdc!DevStatus(old, old.devs[i], Pdc!Devices(old.devs[i]), FALSE)]
           devs   == IF old.type = "group" THEN old.devs
                     ELSE [i \in DOMAIN old.devs |-> WithStatus(old.devs[i], states[i])]
           new    == [old EXCEPT !.devs = devs]
<1>1. Pdc!CheckedSet(f, n, Pdc!Devices, LAMBDA rs, rd : FALSE) = [new EXCEPT !.status = Pdc!SetStatus(f, new)]
  BY Zenon DEF Pdc!CheckedSet, WithStatus
<1>2. Pdc!CheckedSet(f, n, Pdc!Devices, LAMBDA rs, rd : FALSE) = Restated(old, states, Pdc!SetStatus(f, new))
  BY <1>1, Zenon DEF Restated, Renewed
<1> QED
  BY <1>2, Zenon DEF IsRestated

\* check_raid_set() of pdc changes only states.
LEMMA PdcChecked ==
  ASSUME NEW f, IsSets(f), AllSets(f), NEW n \in DOMAIN f.set,
         NEW h, h = Pdc!Checked(f, n, Pdc!Devices, LAMBDA rs, rd : FALSE)
  PROVE  AlikeSets(f, h) /\ AllSets(h)
<1> DEFINE subs == Pdc!ToSet(f.set[n].subs)
           c    == [m \in DOMAIN f.set |-> Pdc!CheckedSet(f, m, Pdc!Devices, LAMBDA rs, rd : FALSE)]
           g    == WithSome(f, subs, c)
           last == Pdc!CheckedSet(g, n, Pdc!Devices, LAMBDA rs, rd : FALSE)
<1>1. h = WithLast(g, n, last)
  <2>1. [m \in DOMAIN f.set |-> IF m \in subs THEN Pdc!CheckedSet(f, m, Pdc!Devices, LAMBDA rs, rd : FALSE) ELSE f.set[m]]
        = [m \in DOMAIN f.set |-> IF m \in subs THEN c[m] ELSE f.set[m]]
    BY Zenon
  <2> QED
    BY <2>1, Zenon DEF Pdc!Checked, WithLast, WithSome
<1>2. \A m \in DOMAIN f.set : IsRestated(f.set[m], c[m])
  BY PdcCheckedSet, Zenon
<1>3. IsRestated(g.set[n], last)
  BY PdcCheckedSet, Zenon
<1> HIDE DEF c, last, subs, g
<1>4. g = WithSome(f, subs, c)
  BY DEF g
<1> QED
  BY <1>1, <1>2, <1>3, <1>4, CheckedAlike, Zenon

\* A set that sil checks has only other states.
LEMMA SilCheckedSet ==
  ASSUME NEW f, NEW n
  PROVE  IsRestated(f.set[n], Sil!CheckedSet(f, n, Sil!Devices, LAMBDA rs, rd : FALSE))
<1> DEFINE old    == f.set[n]
           states == [i \in DOMAIN old.devs |-> Sil!DevStatus(old, old.devs[i], Sil!Devices(old.devs[i]), FALSE)]
           devs   == IF old.type = "group" THEN old.devs
                     ELSE [i \in DOMAIN old.devs |-> WithStatus(old.devs[i], states[i])]
           new    == [old EXCEPT !.devs = devs]
<1>1. Sil!CheckedSet(f, n, Sil!Devices, LAMBDA rs, rd : FALSE) = [new EXCEPT !.status = Sil!SetStatus(f, new)]
  BY Zenon DEF Sil!CheckedSet, WithStatus
<1>2. Sil!CheckedSet(f, n, Sil!Devices, LAMBDA rs, rd : FALSE) = Restated(old, states, Sil!SetStatus(f, new))
  BY <1>1, Zenon DEF Restated, Renewed
<1> QED
  BY <1>2, Zenon DEF IsRestated

\* check_raid_set() of sil changes only states.
LEMMA SilChecked ==
  ASSUME NEW f, IsSets(f), AllSets(f), NEW n \in DOMAIN f.set,
         NEW h, h = Sil!Check(f, n)
  PROVE  AlikeSets(f, h) /\ AllSets(h)
<1> DEFINE subs == Sil!ToSet(f.set[n].subs)
           c    == [m \in DOMAIN f.set |-> Sil!CheckedSet(f, m, Sil!Devices, LAMBDA rs, rd : FALSE)]
           g    == WithSome(f, subs, c)
           last == Sil!CheckedSet(g, n, Sil!Devices, LAMBDA rs, rd : FALSE)
<1>1. h = WithLast(g, n, last)
  <2>1. [m \in DOMAIN f.set |-> IF m \in subs THEN Sil!CheckedSet(f, m, Sil!Devices, LAMBDA rs, rd : FALSE) ELSE f.set[m]]
        = [m \in DOMAIN f.set |-> IF m \in subs THEN c[m] ELSE f.set[m]]
    BY Zenon
  <2> QED
    BY <2>1, Zenon DEF Sil!Check, Sil!Checked, WithLast, WithSome
<1>2. \A m \in DOMAIN f.set : IsRestated(f.set[m], c[m])
  BY SilCheckedSet, Zenon
<1>3. IsRestated(g.set[n], last)
  BY SilCheckedSet, Zenon
<1> HIDE DEF c, last, subs, g
<1>4. g = WithSome(f, subs, c)
  BY DEF g
<1> QED
  BY <1>1, <1>2, <1>3, <1>4, CheckedAlike, Zenon

\* A set that via checks has only other states.
LEMMA ViaCheckedSet ==
  ASSUME NEW f, NEW n
  PROVE  IsRestated(f.set[n], Via!CheckedSet(f, n, Via!Devices, Via!CheckRd))
<1> DEFINE old    == f.set[n]
           states == [i \in DOMAIN old.devs |-> Via!DevStatus(old, old.devs[i], Via!Devices(old.devs[i]), Via!CheckRd(old, old.devs[i]))]
           devs   == IF old.type = "group" THEN old.devs
                     ELSE [i \in DOMAIN old.devs |-> WithStatus(old.devs[i], states[i])]
           new    == [old EXCEPT !.devs = devs]
<1>1. Via!CheckedSet(f, n, Via!Devices, Via!CheckRd) = [new EXCEPT !.status = Via!SetStatus(f, new)]
  BY Zenon DEF Via!CheckedSet, WithStatus
<1>2. Via!CheckedSet(f, n, Via!Devices, Via!CheckRd) = Restated(old, states, Via!SetStatus(f, new))
  BY <1>1, Zenon DEF Restated, Renewed
<1> QED
  BY <1>2, Zenon DEF IsRestated

\* check_raid_set() of via changes only states.
LEMMA ViaChecked ==
  ASSUME NEW f, IsSets(f), AllSets(f), NEW n \in DOMAIN f.set,
         NEW h, h = Via!Check(f, n)
  PROVE  AlikeSets(f, h) /\ AllSets(h)
<1> DEFINE subs == Via!ToSet(f.set[n].subs)
           c    == [m \in DOMAIN f.set |-> Via!CheckedSet(f, m, Via!Devices, Via!CheckRd)]
           g    == WithSome(f, subs, c)
           last == Via!CheckedSet(g, n, Via!Devices, Via!CheckRd)
<1>1. h = WithLast(g, n, last)
  <2>1. [m \in DOMAIN f.set |-> IF m \in subs THEN Via!CheckedSet(f, m, Via!Devices, Via!CheckRd) ELSE f.set[m]]
        = [m \in DOMAIN f.set |-> IF m \in subs THEN c[m] ELSE f.set[m]]
    BY Zenon
  <2> QED
    BY <2>1, Zenon DEF Via!Check, Via!Checked, WithLast, WithSome
<1>2. \A m \in DOMAIN f.set : IsRestated(f.set[m], c[m])
  BY ViaCheckedSet, Zenon
<1>3. IsRestated(g.set[n], last)
  BY ViaCheckedSet, Zenon
<1> HIDE DEF c, last, subs, g
<1>4. g = WithSome(f, subs, c)
  BY DEF g
<1> QED
  BY <1>1, <1>2, <1>3, <1>4, CheckedAlike, Zenon

\* pdc_check() checks twice and changes only states.
LEMMA PdcCheck ==
  ASSUME NEW f, IsSets(f), AllSets(f), NEW n \in DOMAIN f.set, NEW h, h = Pdc!Check(f, n)
  PROVE  AlikeSets(f, h) /\ AllSets(h)
<1> DEFINE g     == Pdc!Checked(f, n, Pdc!Devices, LAMBDA rs, rd : FALSE)
           total == Pdc!TotalSecs(f, n)
           again == Pdc!Checked(g, n, Pdc!Devices, LAMBDA rs, rd : total >= rd.meta.total)
<1>1. h = IF g.set[n].status = "broken" THEN g ELSE again
  BY Zenon DEF Pdc!Check
<1>2. AlikeSets(f, g) /\ AllSets(g)
  BY PdcChecked, Zenon
<1> HIDE DEF g, total, again
<1>3. ASSUME NEW x, NEW k
      PROVE  IsRestated(x.set[k], Pdc!CheckedSet(x, k, Pdc!Devices, LAMBDA rs, rd : total >= rd.meta.total))
  <2> DEFINE old    == x.set[k]
             states == [i \in DOMAIN old.devs |-> Pdc!DevStatus(old, old.devs[i], Pdc!Devices(old.devs[i]), total >= old.devs[i].meta.total)]
             devs   == IF old.type = "group" THEN old.devs
                       ELSE [i \in DOMAIN old.devs |-> WithStatus(old.devs[i], states[i])]
             new    == [old EXCEPT !.devs = devs]
  <2>1. Pdc!CheckedSet(x, k, Pdc!Devices, LAMBDA rs, rd : total >= rd.meta.total) = [new EXCEPT !.status = Pdc!SetStatus(x, new)]
    BY Zenon DEF Pdc!CheckedSet, WithStatus
  <2>2. Pdc!CheckedSet(x, k, Pdc!Devices, LAMBDA rs, rd : total >= rd.meta.total) = Restated(old, states, Pdc!SetStatus(x, new))
    BY <2>1, Zenon DEF Restated, Renewed
  <2> QED
    BY <2>2, Zenon DEF IsRestated
<1>4. AlikeSets(g, again) /\ AllSets(again)
  <2> DEFINE subs == Pdc!ToSet(g.set[n].subs)
             c    == [m \in DOMAIN g.set |-> Pdc!CheckedSet(g, m, Pdc!Devices, LAMBDA rs, rd : total >= rd.meta.total)]
             e    == WithSome(g, subs, c)
             last == Pdc!CheckedSet(e, n, Pdc!Devices, LAMBDA rs, rd : total >= rd.meta.total)
  <2>1. again = WithLast(e, n, last)
    <3>1. [m \in DOMAIN g.set |-> IF m \in subs THEN Pdc!CheckedSet(g, m, Pdc!Devices, LAMBDA rs, rd : total >= rd.meta.total) ELSE g.set[m]]
          = [m \in DOMAIN g.set |-> IF m \in subs THEN c[m] ELSE g.set[m]]
      BY Zenon
    <3> QED
      BY <3>1, Zenon DEF again, Pdc!Checked, WithLast, WithSome
  <2>2. \A m \in DOMAIN g.set : IsRestated(g.set[m], c[m])
    BY <1>3, Zenon
  <2>3. IsRestated(e.set[n], last)
    BY <1>3, Zenon
  <2> HIDE DEF c, last, subs, e
  <2>4. e = WithSome(g, subs, c)
    BY Zenon DEF e
  <2>5. IsSets(g) /\ n \in DOMAIN g.set
    BY <1>2, Zenon DEF AlikeSets
  <2> QED
    BY <1>2, <2>1, <2>2, <2>3, <2>4, <2>5, CheckedAlike, Zenon
<1> QED
  BY <1>1, <1>2, <1>4, AlikeTwice, Zenon

\* A check by any handler.
LEMMA CheckAlike ==
  ASSUME NEW f, IsSets(f), AllSets(f), NEW n \in DOMAIN f.set, NEW fmt \in ToSet(Formats),
         NEW h, h = Check(f, n, fmt)
  PROVE  AlikeSets(f, h) /\ AllSets(h)
<1>1. CASE fmt = "asr"
  <2>1. h = Asr!Check(f, n)
    BY <1>1 DEF Check
  <2> QED
    BY <2>1, AsrChecked
<1>2. CASE fmt = "ddf1"
  <2>1. h = Ddf1!Check(f, n)
    BY <1>2 DEF Check
  <2> QED
    BY <2>1, Ddf1Checked
<1>3. CASE fmt = "hpt37x"
  <2>1. h = Hpt37x!Check(f, n)
    BY <1>3 DEF Check
  <2> QED
    BY <2>1, Hpt37xChecked
<1>4. CASE fmt = "hpt45x"
  <2>1. h = Hpt45x!Check(f, n)
    BY <1>4 DEF Check
  <2> QED
    BY <2>1, Hpt45xChecked
<1>5. CASE fmt = "jm"
  <2>1. h = Jm!Check(f, n)
    BY <1>5 DEF Check
  <2> QED
    BY <2>1, JmChecked
<1>6. CASE fmt = "lsi"
  <2>1. h = Lsi!Check(f, n)
    BY <1>6 DEF Check
  <2> QED
    BY <2>1, LsiChecked
<1>7. CASE fmt = "nv"
  <2>1. h = Nv!Check(f, n)
    BY <1>7 DEF Check
  <2> QED
    BY <2>1, NvChecked
<1>8. CASE fmt = "pdc"
  <2>1. h = Pdc!Check(f, n)
    BY <1>8 DEF Check
  <2> QED
    BY <2>1, PdcCheck
<1>9. CASE fmt = "sil"
  <2>1. h = Sil!Check(f, n)
    BY <1>9 DEF Check
  <2> QED
    BY <2>1, SilChecked
<1>10. CASE fmt = "via"
  <2>1. h = Via!Check(f, n)
    BY <1>10 DEF Check
  <2> QED
    BY <2>1, ViaChecked
<1> QED
  BY <1>1, <1>2, <1>3, <1>4, <1>5, <1>6, <1>7, <1>8, <1>9, <1>10, FormatSet

-----------------------------------------------------------------------------
(* Lists without their order.                                              *)

Elem(s, x)  == \E i \in 1 .. Len(s) : s[i] = x
Distinct(s) == \A i, j \in 1 .. Len(s) : s[i] = s[j] => i = j
Back(k, i)  == IF i < k THEN i ELSE i - 1

\* Where the entries of a list come from when one was put in.
LEMMA InsertedEntries ==
  ASSUME NEW list, IsList(list), NEW new, NEW s, Inserted(s, list, new)
  PROVE  \E k \in 1 .. Len(s) :
           /\ s[k] = new
           /\ Len(s) = Len(list) + 1
           /\ \A i \in 1 .. Len(s) : i # k => Back(k, i) \in 1 .. Len(list) /\ s[i] = list[Back(k, i)]
           /\ \A i, j \in 1 .. Len(s) : i # k /\ j # k /\ i # j => Back(k, i) # Back(k, j)
<1>1. PICK k \in 1 .. Len(list) + 1 : s = Spread(list, new, k)
  BY DEF Inserted
<1>2. Len(s) = Len(list) + 1 /\ Len(list) \in Nat
  BY <1>1, SpreadList DEF IsList
<1>3. \A i \in 1 .. Len(s) : s[i] = IF i < k THEN list[i] ELSE IF i = k THEN new ELSE list[i-1]
  BY <1>1, <1>2 DEF Spread
<1> QED
  BY <1>1, <1>2, <1>3 DEF Back

\* The members of a list with one put in.
LEMMA InsertedElem ==
  ASSUME NEW list, IsList(list), NEW new, NEW s, Inserted(s, list, new)
  PROVE  \A x : Elem(s, x) <=> Elem(list, x) \/ x = new
<1>1. PICK k \in 1 .. Len(list) + 1 : s = Spread(list, new, k)
  BY DEF Inserted
<1>2. Len(s) = Len(list) + 1 /\ Len(list) \in Nat
  BY <1>1, SpreadList DEF IsList
<1>3. \A i \in 1 .. Len(s) : s[i] = IF i < k THEN list[i] ELSE IF i = k THEN new ELSE list[i-1]
  BY <1>1, <1>2 DEF Spread
<1>4. ASSUME NEW x, Elem(s, x) PROVE Elem(list, x) \/ x = new
  <2>1. PICK i \in 1 .. Len(s) : s[i] = x
    BY <1>4 DEF Elem
  <2>2. CASE i < k
    <3>1. i \in 1 .. Len(list)
      BY <1>2, <2>2
    <3> QED
      BY <1>3, <2>1, <2>2, <3>1 DEF Elem
  <2>3. CASE i > k
    <3>1. i - 1 \in 1 .. Len(list) /\ ~(i < k) /\ i # k
      BY <1>2, <2>3
    <3> QED
      BY <1>3, <2>1, <3>1 DEF Elem
  <2> QED
    BY <1>2, <1>3, <2>1, <2>2, <2>3
<1>5. ASSUME NEW x, Elem(list, x) PROVE Elem(s, x)
  <2>1. PICK i \in 1 .. Len(list) : list[i] = x
    BY <1>5 DEF Elem
  <2>2. CASE i < k
    <3>1. i \in 1 .. Len(s)
      BY <1>2, <2>2
    <3> QED
      BY <1>3, <2>1, <2>2, <3>1 DEF Elem
  <2>3. CASE i >= k
    <3>1. i + 1 \in 1 .. Len(s) /\ ~(i + 1 < k) /\ i + 1 # k /\ (i + 1) - 1 = i
      BY <1>2, <2>3
    <3>2. s[i + 1] = x
      BY <1>3, <2>1, <3>1
    <3> QED
      BY <3>1, <3>2 DEF Elem
  <2> QED
    BY <1>2, <2>2, <2>3
<1>6. Elem(s, new)
  <2>1. k \in 1 .. Len(s) /\ ~(k < k)
    BY <1>2
  <2> QED
    BY <1>3, <2>1 DEF Elem
<1> QED
  BY <1>4, <1>5, <1>6

\* A list stays without doubles when a new member is put in.
LEMMA InsertedDistinct ==
  ASSUME NEW list, IsList(list), NEW new, NEW s, Inserted(s, list, new), Distinct(list), ~Elem(list, new)
  PROVE  Distinct(s)
<1>1. PICK k \in 1 .. Len(s) :
        /\ s[k] = new
        /\ \A i \in 1 .. Len(s) : i # k => Back(k, i) \in 1 .. Len(list) /\ s[i] = list[Back(k, i)]
        /\ \A i, j \in 1 .. Len(s) : i # k /\ j # k /\ i # j => Back(k, i) # Back(k, j)
  BY InsertedEntries
<1>2. ASSUME NEW i \in 1 .. Len(s), NEW j \in 1 .. Len(s), s[i] = s[j], i # j PROVE FALSE
  <2>1. \A e \in 1 .. Len(s) : e # k => s[e] # new
    BY <1>1 DEF Elem
  <2>2. i # k /\ j # k
    BY <1>1, <1>2, <2>1
  <2> QED
    BY <1>1, <1>2, <2>2 DEF Distinct
<1> QED
  BY <1>2 DEF Distinct

\* A list stays without doubles when it is given a member it may have.
LEMMA LinkedElem ==
  ASSUME NEW list, IsList(list), Distinct(list), NEW new, NEW s, Linked(s, list, new)
  PROVE  IsList(s) /\ Distinct(s) /\ \A x : Elem(s, x) <=> Elem(list, x) \/ x = new
<1>1. DOMAIN list = 1 .. Len(list)
  BY DEF IsList
<1>2. CASE Elem(list, new)
  BY <1>1, <1>2 DEF Linked, Elem
<1>3. CASE ~Elem(list, new)
  <2>1. Inserted(s, list, new)
    BY <1>1, <1>3 DEF Linked, Elem
  <2> QED
    BY <1>3, <2>1, InsertedElem, InsertedDistinct, InsertedList
<1> QED
  BY <1>2, <1>3

\* RemoveFirst() takes the member out of a list without doubles.
LEMMA RemoveFirstElem ==
  ASSUME NEW s, IsList(s), Distinct(s), NEW e, NEW r, r = RemoveFirst(s, e)
  PROVE  IsList(r) /\ Distinct(r) /\ \A x : Elem(r, x) <=> Elem(s, x) /\ x # e
<1>1. CASE ~Elem(s, e)
  BY <1>1 DEF RemoveFirst, Elem
<1>2. CASE Elem(s, e)
  <2> DEFINE S == {s[i] : i \in 1 .. Len(s)}
             I == {i \in 1 .. Len(s) : s[i] = e}
  <2>1. I \in SUBSET Nat /\ I # {}
    BY <1>2 DEF Elem
  <2>2. SelectInSeq(s, LAMBDA v : v = e) = Min(I)
    BY <2>1, Zenon DEF SelectInSeq
  <2> HIDE DEF I
  <2>3. Min(I) \in I
    BY <2>1, LeastNat DEF Min
  <2>4. PICK k \in 1 .. Len(s) : s[k] = e /\ r = RemoveAt(s, k)
    <3>1. r = RemoveAt(s, Min(I))
      BY <1>2, <2>2, Zenon DEF RemoveFirst, Elem
    <3> QED
      BY <2>3, <3>1 DEF I
  <2>5. s \in Seq(S) /\ Len(s) \in Nat
    BY IsListSeq DEF IsList
  <2> DEFINE a == SubSeq(s, 1, k - 1)
             b == SubSeq(s, k + 1, Len(s))
  <2>6. a \in Seq(S) /\ Len(a) = k - 1 /\ \A i \in 1 .. k - 1 : a[i] = s[i]
    BY <2>5, SubSeqProperties
  <2>7. b \in Seq(S) /\ Len(b) = Len(s) - k /\ \A i \in 1 .. Len(s) - k : b[i] = s[k + i]
    BY <2>5, SubSeqProperties
  <2>8. r = a \o b
    BY <2>4 DEF RemoveAt
  <2> HIDE DEF a, b, S
  <2>9. r \in Seq(S) /\ Len(r) = Len(s) - 1
        /\ \A i \in 1 .. Len(s) - 1 : r[i] = IF i < k THEN s[i] ELSE s[i + 1]
    <3>1. a \o b \in Seq(S) /\ Len(a \o b) = Len(a) + Len(b)
      BY <2>6, <2>7, ConcatProperties
    <3>2. \A i \in 1 .. Len(a) + Len(b) : (a \o b)[i] = IF i <= Len(a) THEN a[i] ELSE b[i - Len(a)]
      BY <2>6, <2>7, ConcatProperties
    <3>3. ASSUME NEW i \in 1 .. Len(s) - 1 PROVE r[i] = IF i < k THEN s[i] ELSE s[i + 1]
      <4>1. i \in 1 .. Len(a) + Len(b) /\ (i <= Len(a) <=> i < k)
        BY <2>5, <2>6, <2>7
      <4>2. i >= k => i - Len(a) \in 1 .. Len(s) - k /\ k + (i - Len(a)) = i + 1
        BY <2>5, <2>6
      <4>3. r[i] = IF i <= Len(a) THEN a[i] ELSE b[i - Len(a)]
        BY <2>8, <3>2, <4>1
      <4>4. CASE i < k
        <5>1. i \in 1 .. k - 1
          BY <2>5, <4>4
        <5> QED
          BY <2>6, <4>1, <4>3, <4>4, <5>1
      <4>5. CASE i >= k
        <5>1. r[i] = b[i - Len(a)] /\ b[i - Len(a)] = s[k + (i - Len(a))]
          BY <2>5, <2>7, <4>1, <4>2, <4>3, <4>5
        <5> QED
          BY <2>5, <4>2, <4>5, <5>1
      <4> QED
        BY <2>5, <4>4, <4>5
    <3> QED
      BY <2>5, <2>6, <2>7, <2>8, <3>1, <3>3
  <2>10. IsList(r)
    <3>1. DOMAIN r = 1 .. Len(r) /\ r = [i \in 1 .. Len(r) |-> r[i]]
      BY <2>9, LenProperties
    <3> QED
      BY <2>5, <2>9, <3>1, LenProperties DEF IsList
  <2>11. Distinct(r)
    <3>1. ASSUME NEW i \in 1 .. Len(s) - 1, NEW j \in 1 .. Len(s) - 1, r[i] = r[j] PROVE i = j
      <4> DEFINE p(y) == IF y < k THEN y ELSE y + 1
      <4>1. r[i] = s[p(i)] /\ r[j] = s[p(j)] /\ p(i) \in 1 .. Len(s) /\ p(j) \in 1 .. Len(s)
        BY <2>5, <2>9
      <4>2. p(i) = p(j)
        BY <3>1, <4>1 DEF Distinct
      <4> QED
        BY <4>2
    <3> QED
      BY <2>9, <3>1 DEF Distinct
  <2>12. ASSUME NEW x, Elem(r, x) PROVE Elem(s, x) /\ x # e
    <3>1. PICK i \in 1 .. Len(s) - 1 : r[i] = x
      BY <2>9, <2>12 DEF Elem
    <3> DEFINE p == IF i < k THEN i ELSE i + 1
    <3>2. r[i] = s[p] /\ p \in 1 .. Len(s) /\ p # k
      BY <2>5, <2>9
    <3> QED
      BY <2>4, <3>1, <3>2 DEF Elem, Distinct
  <2>13. ASSUME NEW x, Elem(s, x), x # e PROVE Elem(r, x)
    <3>1. PICK i \in 1 .. Len(s) : s[i] = x
      BY <2>13 DEF Elem
    <3>2. CASE i < k
      <4>1. i \in 1 .. Len(s) - 1
        BY <2>5, <3>2
      <4>2. r[i] = x
        BY <2>9, <3>1, <3>2, <4>1
      <4> QED
        BY <2>9, <4>1, <4>2 DEF Elem
    <3>3. CASE i > k
      <4>1. i - 1 \in 1 .. Len(s) - 1 /\ ~(i - 1 < k) /\ (i - 1) + 1 = i
        BY <2>5, <3>3
      <4>2. r[i - 1] = x
        BY <2>9, <3>1, <4>1
      <4> QED
        BY <2>9, <4>1, <4>2 DEF Elem
    <3> QED
      BY <2>4, <2>13, <3>1, <3>2, <3>3
  <2> QED
    BY <2>10, <2>11, <2>12, <2>13
<1> QED
  BY <1>1, <1>2

-----------------------------------------------------------------------------
(* Which set is a subset of which.                                         *)

\* All devices of a layout are named as their format does.
LEMMA AllKnown ==
  ASSUME NEW l, NEW rd \in AllDevs(l)
  PROVE  Known(rd)
<1>1. PICK disk \in DOMAIN l.native : rd \in RaidDevs(l, disk)
  BY DEF AllDevs
<1> QED
  BY <1>1, ReadKnown

\* The names of stripes of asr.
LEMMA SubNameIs ==
  ASSUME NEW rd, NEW s \in Asr!SubNames(rd)
  PROVE  s[1] = "asr" /\ Len(s) = 3
<1>1. \E x, y : s = <<"asr", x, y>>
  BY Zenon DEF Asr!SubNames, Asr!SubName
<1> QED
  BY <1>1

\* Subsets have no subsets.
LEMMA UnderFlat ==
  ASSUME NEW l, NEW n, NEW s, Under(l, n, s)
  PROVE  s # n /\ \A m : ~Under(l, s, m)
<1>1. CASE n[1] = "ddf1"
  BY <1>1 DEF Under, Ddf1!Disks
<1>2. CASE n[1] = "asr"
  <2>1. PICK d \in AllDevs(l) : d.fmt = "asr" /\ n \in Asr!SubNames(d) /\ s = d.name
    BY <1>2 DEF Under
  <2>2. s = <<"asr", Asr!ThisDisk(d.meta).name>>
    BY <2>1, AllKnown DEF Known
  <2>3. s[1] = "asr" /\ Len(s) = 2
    BY <2>2
  <2> QED
    BY <1>2, <2>3 DEF Under
<1>3. CASE n[1] # "ddf1" /\ n[1] # "asr"
  <2>1. s = <<n[1], n[2]>> /\ Len(n) = 3
    BY <1>3 DEF Under
  <2>2. s[1] = n[1] /\ Len(s) = 2
    BY <2>1
  <2> QED
    BY <1>3, <2>1, <2>2 DEF Under
<1> QED
  BY <1>1, <1>2, <1>3

\* Each subset belongs to one set.
LEMMA UnderOne ==
  ASSUME NEW l, OneParent(l), NEW n, NEW s, NEW t, Under(l, n, s), Under(l, n, t)
  PROVE  s = t
<1>1. CASE n[1] = "asr"
  <2>1. PICK d \in AllDevs(l) : d.fmt = "asr" /\ n \in Asr!SubNames(d) /\ s = d.name
    BY <1>1 DEF Under
  <2>2. PICK e \in AllDevs(l) : e.fmt = "asr" /\ n \in Asr!SubNames(e) /\ t = e.name
    BY <1>1 DEF Under
  <2>3. Asr!SubNames(d) \cap Asr!SubNames(e) # {}
    BY <2>1, <2>2
  <2>4. \A x, y \in AllDevs(l) : x.fmt = "asr" /\ y.fmt = "asr" /\ Asr!SubNames(x) \cap Asr!SubNames(y) # {}
                                   => x.name = y.name
    BY DEF OneParent
  <2> QED
    BY <2>1, <2>2, <2>3, <2>4
<1>2. CASE n[1] # "asr"
  BY <1>2 DEF Under
<1> QED
  BY <1>1, <1>2

\* The disks that agree give one stride for a set.
LEMMA OneStride ==
  ASSUME NEW l, Agreement(l), NEW n, NEW a \in Strides(l, n), NEW b \in Strides(l, n)
  PROVE  a = b
<1> DEFINE AsrOf(d)  == d \in AllDevs(l) /\ d.fmt = "asr" /\ d.type # "spare" /\ n \in {d.name} \cup Asr!SubNames(d)
           DdfOf(d) == d \in Volumes(l) /\ n = d.name
<1>1. \A d : AsrOf(d) => n[1] = "asr"
  <2>1. SUFFICES ASSUME NEW d, AsrOf(d) PROVE n[1] = "asr"
    OBVIOUS
  <2>2. d.name[1] = "asr"
    <3>1. d.name = <<"asr", Asr!ThisDisk(d.meta).name>>
      BY <2>1, AllKnown DEF Known
    <3> QED
      BY <3>1
  <2> QED
    BY <2>1, <2>2, SubNameIs
<1>2. \A d : DdfOf(d) => n[1] = "ddf1"
  <2>1. SUFFICES ASSUME NEW d, DdfOf(d) PROVE n[1] = "ddf1"
    OBVIOUS
  <2>2. PICK rd \in AllDevs(l) : rd.fmt = "ddf1" /\ \E i \in DOMAIN Pieces(rd) : d \in Pieces(rd)[i]
    BY <2>1 DEF Volumes
  <2>3. Pieces(rd) = Ddf1!Segments(rd)
    BY <2>2 DEF Pieces
  <2>4. PICK i \in DOMAIN Ddf1!Segments(rd) : d \in Ddf1!Segments(rd)[i]
    BY <2>2, <2>3
  <2>5. i \in DOMAIN Ddf1!Mine(rd.meta)
    BY Zenon DEF Ddf1!Segments
  <2>6. d.name[1] = "ddf1"
    BY <2>2, <2>4, <2>5, AllKnown, Ddf1Segment DEF Known
  <2> QED
    BY <2>1, <2>6
<1>3. \A d, e : AsrOf(d) /\ AsrOf(e) => StrideOf(d) = StrideOf(e)
  <2>1. \A d, e \in {rd \in AllDevs(l) : rd.fmt = "asr" /\ rd.type # "spare"} :
          ({d.name} \cup Asr!SubNames(d)) \cap ({e.name} \cup Asr!SubNames(e)) # {} => StrideOf(d) = StrideOf(e)
    BY DEF Agreement
  <2>2. SUFFICES ASSUME NEW d, NEW e, AsrOf(d), AsrOf(e) PROVE StrideOf(d) = StrideOf(e)
    OBVIOUS
  <2>3. n \in ({d.name} \cup Asr!SubNames(d)) \cap ({e.name} \cup Asr!SubNames(e))
    BY <2>2
  <2> QED
    BY <2>1, <2>2, <2>3
<1>4. \A d, e : DdfOf(d) /\ DdfOf(e) => StrideOf(d) = StrideOf(e)
  <2>1. \A rd \in AllDevs(l) : rd.fmt = "ddf1" => rd.type # "spare"
    BY AllKnown DEF Known
  <2>2. {rd \in AllDevs(l) : rd.fmt = "ddf1" /\ rd.type # "spare"} = {d \in AllDevs(l) : d.fmt = "ddf1"}
    BY <2>1
  <2>3. \A d, e \in Volumes(l) : d.name = e.name => StrideOf(d) = StrideOf(e)
    BY <2>2, Zenon DEF Agreement, Volumes
  <2> QED
    BY <2>3
<1>5. \A x \in Strides(l, n) : \E d : (AsrOf(d) \/ DdfOf(d)) /\ x = StrideOf(d)
  BY Zenon DEF Strides
<1>6. PICK d : (AsrOf(d) \/ DdfOf(d)) /\ a = StrideOf(d)
  BY <1>5
<1>7. PICK e : (AsrOf(e) \/ DdfOf(e)) /\ b = StrideOf(e)
  BY <1>5
<1> HIDE DEF AsrOf, DdfOf
<1> QED
  BY <1>1, <1>2, <1>3, <1>4, <1>6, <1>7

-----------------------------------------------------------------------------
(* The inductive invariant of the sets.                                    *)

\* A device has the format that the name of its set starts with.
Named(f) ==
  \A n \in DOMAIN f.set : \A i \in 1 .. Len(f.set[n].devs) :
    /\ IsDevice(f.set[n].devs[i])
    /\ f.set[n].devs[i].fmt = n[1]
    /\ f.set[n].devs[i].fmt \in ToSet(Formats)

\* Two places of devices, not in the group of all ddf1 disks.
IsPlace(f, n, i) == n \in DOMAIN f.set /\ n # Ddf1!Disks /\ i \in 1 .. Len(f.set[n].devs)

Separate(f) ==
  \A n, m, i, j : IsPlace(f, n, i) /\ IsPlace(f, m, j) /\ (n # m \/ i # j) =>
    Apart(f.set[n].devs[i], f.set[m].devs[j])

\* The strides of sets whose devices are checked for it, and of the others.
StrideKept(rs, d) == StrideOf(d) \in {0, rs.stride}

Strided(l, f) ==
  \A n \in DOMAIN f.set : \A i \in 1 .. Len(f.set[n].devs) :
    /\ n[1] \notin Unchecked => StrideKept(f.set[n], f.set[n].devs[i])
    /\ n[1] \in Unchecked /\ n \notin {Asr!Spares, Ddf1!Disks} =>
         StrideOf(f.set[n].devs[i]) \in Strides(l, n) /\ f.set[n].stride \in Strides(l, n)

\* Subsets are linked once, and to the set they are a subset of.
Linking(l, f) ==
  \A m \in DOMAIN f.set :
    /\ Distinct(f.set[m].subs)
    /\ \A x : Elem(f.set[m].subs, x) => x \in DOMAIN f.set /\ Under(l, x, m)

Rooted(l, f) ==
  \A n \in DOMAIN f.set :
    /\ n \in f.top <=> \A m : ~Under(l, n, m)
    /\ n \notin f.top => \E m \in DOMAIN f.set : Elem(f.set[m].subs, n)

SetsInv(l, f) ==
  IsSets(f) /\ Kinds(f) /\ Named(f) /\ Separate(f) /\ Strided(l, f) /\ Linking(l, f) /\ Rooted(l, f)

\* No set but the group has a device of the disk that is not apart from d.
Clear(f, d) == \A n, i : IsPlace(f, n, i) => Apart(f.set[n].devs[i], d)

-----------------------------------------------------------------------------
(* A device more.                                                          *)

\* Being apart is symmetric.
LEMMA ApartTurned ==
  ASSUME NEW d, NEW e, Apart(d, e)
  PROVE  Apart(e, d)
BY DEF Apart

\* What the lists of h are.
LEMMA PutLists ==
  ASSUME NEW l, NEW f, IsSets(f), Rooted(l, f), NEW h, NEW d, NEW n, NEW sup, Puts(l, f, h, d, n, sup)
  PROVE  /\ \A m \in DOMAIN h.set : m # n => h.set[m].devs = OldDevs(f, m)
         /\ Inserted(h.set[n].devs, OldDevs(f, n), d)
         /\ \A m \in DOMAIN h.set : m \notin sup => h.set[m].subs = OldSubs(f, m)
         /\ \A m \in sup : Linked(h.set[m].subs, OldSubs(f, m), n)
         /\ \A m : IsList(OldDevs(f, m)) /\ IsList(OldSubs(f, m))
         /\ n \in DOMAIN h.set /\ sup \subseteq DOMAIN h.set /\ n \notin sup
         /\ DOMAIN h.set = DOMAIN f.set \cup {n} \cup sup
<1>1. \A s \in sup : s \in DOMAIN f.set => s \in f.top
  BY UnderFlat DEF Rooted, Puts
<1>2. \A s \in sup : TopDevs(f, s) = OldDevs(f, s) /\ TopSubs(f, s) = OldSubs(f, s)
  BY <1>1 DEF TopDevs, TopSubs, OldDevs, OldSubs, IsSets
<1>3. Put(f, h, n, d, sup)
  BY DEF Puts
<1>4. \A m : IsList(OldDevs(f, m)) /\ IsList(OldSubs(f, m))
  BY EmptyList DEF OldDevs, OldSubs, IsSets, IsRs
<1>5. \A m \in DOMAIN f.set : OldDevs(f, m) = f.set[m].devs /\ OldSubs(f, m) = f.set[m].subs
  BY DEF OldDevs, OldSubs
<1>6. DOMAIN h.set = DOMAIN f.set \cup {n} \cup sup /\ n \notin sup
      /\ \A m \in DOMAIN f.set : m # n /\ m \notin sup => h.set[m] = f.set[m]
  BY <1>3 DEF Put
<1>7. /\ Inserted(h.set[n].devs, OldDevs(f, n), d)
      /\ h.set[n].subs = OldSubs(f, n)
      /\ \A s \in sup : h.set[s].devs = OldDevs(f, s) /\ Linked(h.set[s].subs, OldSubs(f, s), n)
  BY <1>2, <1>3 DEF Put
<1>8. \A m \in DOMAIN h.set : m # n => h.set[m].devs = OldDevs(f, m)
  BY <1>5, <1>6, <1>7
<1>9. \A m \in DOMAIN h.set : m \notin sup => h.set[m].subs = OldSubs(f, m)
  BY <1>5, <1>6, <1>7
<1> QED
  BY <1>4, <1>6, <1>7, <1>8, <1>9

\* Each place of h is a place of f or the one of d.
LEMMA PutPlaces ==
  ASSUME NEW l, NEW f, IsSets(f), Rooted(l, f), NEW h, NEW d, NEW n, NEW sup, Puts(l, f, h, d, n, sup)
  PROVE  \E k \in 1 .. Len(h.set[n].devs) :
           /\ h.set[n].devs[k] = d
           /\ \A m \in DOMAIN h.set : \A i \in 1 .. Len(h.set[m].devs) : m # n \/ i # k =>
                LET j == IF m = n THEN Back(k, i) ELSE i
                IN  /\ m \in DOMAIN f.set /\ j \in 1 .. Len(f.set[m].devs)
                    /\ h.set[m].devs[i] = f.set[m].devs[j]
           /\ \A i, j \in 1 .. Len(h.set[n].devs) : i # k /\ j # k /\ i # j => Back(k, i) # Back(k, j)
<1>1. \A m \in DOMAIN h.set : m # n => h.set[m].devs = OldDevs(f, m)
  BY PutLists
<1>2. Inserted(h.set[n].devs, OldDevs(f, n), d) /\ IsList(OldDevs(f, n))
  BY PutLists
<1>3. PICK k \in 1 .. Len(h.set[n].devs) :
           /\ h.set[n].devs[k] = d
           /\ Len(h.set[n].devs) = Len(OldDevs(f, n)) + 1
           /\ \A i \in 1 .. Len(h.set[n].devs) : i # k =>
                Back(k, i) \in 1 .. Len(OldDevs(f, n)) /\ h.set[n].devs[i] = OldDevs(f, n)[Back(k, i)]
           /\ \A i, j \in 1 .. Len(h.set[n].devs) : i # k /\ j # k /\ i # j => Back(k, i) # Back(k, j)
  BY <1>2, InsertedEntries
<1>4. \A m, i : i \in 1 .. Len(OldDevs(f, m)) => m \in DOMAIN f.set /\ OldDevs(f, m) = f.set[m].devs
  BY DEF OldDevs
<1>5. ASSUME NEW m \in DOMAIN h.set, NEW i \in 1 .. Len(h.set[m].devs), m # n \/ i # k
      PROVE  LET j == IF m = n THEN Back(k, i) ELSE i
             IN  /\ m \in DOMAIN f.set /\ j \in 1 .. Len(f.set[m].devs)
                 /\ h.set[m].devs[i] = f.set[m].devs[j]
  <2>1. CASE m = n
    <3>1. Back(k, i) \in 1 .. Len(OldDevs(f, n)) /\ h.set[n].devs[i] = OldDevs(f, n)[Back(k, i)]
      BY <1>3, <1>5, <2>1
    <3> QED
      BY <1>4, <2>1, <3>1
  <2>2. CASE m # n
    <3>1. h.set[m].devs = OldDevs(f, m)
      BY <1>1, <2>2
    <3> QED
      BY <1>4, <2>2, <3>1
  <2> QED
    BY <2>1, <2>2
<1> QED
  BY <1>3, <1>5

\* A device more: names and formats.
LEMMA PutNamed ==
  ASSUME NEW l, NEW f, SetsInv(l, f), NEW h, NEW d, IsDevice(d), d.fmt \in ToSet(Formats),
         NEW n, NEW sup, Puts(l, f, h, d, n, sup)
  PROVE  Named(h)
<1>1. PICK k \in 1 .. Len(h.set[n].devs) :
           /\ h.set[n].devs[k] = d
           /\ \A m \in DOMAIN h.set : \A i \in 1 .. Len(h.set[m].devs) : m # n \/ i # k =>
                LET j == IF m = n THEN Back(k, i) ELSE i
                IN  /\ m \in DOMAIN f.set /\ j \in 1 .. Len(f.set[m].devs)
                    /\ h.set[m].devs[i] = f.set[m].devs[j]
  BY PutPlaces DEF SetsInv
<1>2. n[1] = d.fmt /\ Named(f)
  BY DEF Puts, SetsInv
<1>3. ASSUME NEW m \in DOMAIN h.set, NEW i \in 1 .. Len(h.set[m].devs)
      PROVE  /\ IsDevice(h.set[m].devs[i]) /\ h.set[m].devs[i].fmt = m[1]
             /\ h.set[m].devs[i].fmt \in ToSet(Formats)
  <2>1. CASE m = n /\ i = k
    BY <1>1, <1>2, <2>1
  <2>2. CASE m # n \/ i # k
    <3> DEFINE j == IF m = n THEN Back(k, i) ELSE i
    <3>1. m \in DOMAIN f.set /\ j \in 1 .. Len(f.set[m].devs) /\ h.set[m].devs[i] = f.set[m].devs[j]
      BY <1>1, <2>2
    <3> HIDE DEF j
    <3> QED
      BY <1>2, <3>1 DEF Named
  <2> QED
    BY <2>1, <2>2
<1> QED
  BY <1>3 DEF Named

\* A device more: the devices stay apart if the new one is apart from them.
LEMMA PutSeparate ==
  ASSUME NEW l, NEW f, SetsInv(l, f), NEW h, NEW d, NEW n, NEW sup, Puts(l, f, h, d, n, sup),
         n # Ddf1!Disks => Clear(f, d)
  PROVE  Separate(h)
<1>1. PICK k \in 1 .. Len(h.set[n].devs) :
           /\ h.set[n].devs[k] = d
           /\ \A m \in DOMAIN h.set : \A i \in 1 .. Len(h.set[m].devs) : m # n \/ i # k =>
                LET j == IF m = n THEN Back(k, i) ELSE i
                IN  /\ m \in DOMAIN f.set /\ j \in 1 .. Len(f.set[m].devs)
                    /\ h.set[m].devs[i] = f.set[m].devs[j]
           /\ \A i, j \in 1 .. Len(h.set[n].devs) : i # k /\ j # k /\ i # j => Back(k, i) # Back(k, j)
  BY PutPlaces DEF SetsInv
<1> DEFINE B(m, i) == IF m = n THEN Back(k, i) ELSE i
<1>2. \A m, i : IsPlace(h, m, i) /\ (m # n \/ i # k) =>
        IsPlace(f, m, B(m, i)) /\ h.set[m].devs[i] = f.set[m].devs[B(m, i)]
  BY <1>1 DEF IsPlace
<1>3. \A m, i, j :
        IsPlace(h, m, i) /\ IsPlace(h, m, j) /\ i # j /\ (m # n \/ i # k) /\ (m # n \/ j # k) => B(m, i) # B(m, j)
  BY <1>1 DEF IsPlace
<1> HIDE DEF B
<1>4. ASSUME NEW a, NEW b, NEW i, NEW j, IsPlace(h, a, i), IsPlace(h, b, j), a # b \/ i # j
      PROVE  Apart(h.set[a].devs[i], h.set[b].devs[j])
  <2>1. CASE a = n /\ i = k
    <3>1. IsPlace(f, b, B(b, j)) /\ h.set[b].devs[j] = f.set[b].devs[B(b, j)]
      BY <1>2, <1>4, <2>1
    <3>2. Clear(f, d)
      BY <1>4, <2>1 DEF IsPlace
    <3> QED
      BY <1>1, <2>1, <3>1, <3>2, ApartTurned DEF Clear
  <2>2. CASE b = n /\ j = k
    <3>1. IsPlace(f, a, B(a, i)) /\ h.set[a].devs[i] = f.set[a].devs[B(a, i)]
      BY <1>2, <1>4, <2>2
    <3>2. Clear(f, d)
      BY <1>4, <2>2 DEF IsPlace
    <3> QED
      BY <1>1, <2>2, <3>1, <3>2 DEF Clear
  <2>3. CASE (a # n \/ i # k) /\ (b # n \/ j # k)
    <3>1. IsPlace(f, a, B(a, i)) /\ h.set[a].devs[i] = f.set[a].devs[B(a, i)]
      BY <1>2, <1>4, <2>3
    <3>2. IsPlace(f, b, B(b, j)) /\ h.set[b].devs[j] = f.set[b].devs[B(b, j)]
      BY <1>2, <1>4, <2>3
    <3>3. a # b \/ B(a, i) # B(b, j)
      BY <1>3, <1>4, <2>3
    <3> QED
      BY <3>1, <3>2, <3>3 DEF SetsInv, Separate
  <2> QED
    BY <2>1, <2>2, <2>3
<1> QED
  BY <1>4 DEF Separate

\* A device more: the strides.
LEMMA PutStrided ==
  ASSUME NEW l, NEW f, SetsInv(l, f), NEW h, NEW d, NEW n, NEW sup, Puts(l, f, h, d, n, sup)
  PROVE  Strided(l, h)
<1>1. PICK k \in 1 .. Len(h.set[n].devs) :
           /\ h.set[n].devs[k] = d
           /\ \A m \in DOMAIN h.set : \A i \in 1 .. Len(h.set[m].devs) : m # n \/ i # k =>
                LET j == IF m = n THEN Back(k, i) ELSE i
                IN  /\ m \in DOMAIN f.set /\ j \in 1 .. Len(f.set[m].devs)
                    /\ h.set[m].devs[i] = f.set[m].devs[j]
  BY PutPlaces DEF SetsInv
<1>2. SuitsStride(l, f, h, n, d, sup) /\ n[1] = d.fmt /\ Put(f, h, n, d, sup)
  BY DEF Puts
<1>3. \A s \in sup : Under(l, n, s) /\ s # n
  BY UnderFlat DEF Puts
<1>4. \A s \in sup : s[1] = n[1]
  <2>1. SUFFICES ASSUME NEW s \in sup PROVE s[1] = n[1]
    OBVIOUS
  <2>2. CASE n[1] = "ddf1"
    BY <1>3, <2>2 DEF Under, Ddf1!Disks
  <2>3. CASE n[1] = "asr"
    <3>1. PICK e \in AllDevs(l) : e.fmt = "asr" /\ s = e.name
      BY <1>3, <2>3 DEF Under
    <3>2. s = <<"asr", Asr!ThisDisk(e.meta).name>>
      BY <3>1, AllKnown DEF Known
    <3> QED
      BY <2>3, <3>2
  <2>4. CASE n[1] # "ddf1" /\ n[1] # "asr"
    <3>1. s = <<n[1], n[2]>>
      BY <1>3, <2>4 DEF Under
    <3> QED
      BY <3>1
  <2> QED
    BY <2>2, <2>3, <2>4
<1>5. \A s \in sup : s \in DOMAIN f.set => s \in f.top
  BY UnderFlat DEF Rooted, Puts, SetsInv
<1>6. ASSUME NEW m \in DOMAIN h.set, NEW i \in 1 .. Len(h.set[m].devs), m[1] \notin Unchecked
      PROVE  StrideKept(h.set[m], h.set[m].devs[i])
  <2> DEFINE j == IF m = n THEN Back(k, i) ELSE i
  <2>1. m # n \/ i # k =>
          /\ m \in DOMAIN f.set
          /\ h.set[m].devs[i] = f.set[m].devs[j] /\ StrideKept(f.set[m], f.set[m].devs[j])
    <3>1. m # n \/ i # k => m \in DOMAIN f.set /\ j \in 1 .. Len(f.set[m].devs) /\ h.set[m].devs[i] = f.set[m].devs[j]
      BY <1>1
    <3> HIDE DEF j
    <3> QED
      BY <1>6, <3>1 DEF SetsInv, Strided
  <2> HIDE DEF j
  <2>2. CASE m = n
    <3>1. Accepted(f, h, n, StrideOf(d))
      BY <1>2, <1>6, <2>2 DEF SuitsStride
    <3> QED
      BY <1>1, <2>1, <2>2, <3>1 DEF Accepted, StrideKept
  <2>3. CASE m \in sup /\ m # n
    <3>1. KeepsStride(f, h, m) /\ m \in f.top
      BY <1>2, <1>4, <1>5, <1>6, <2>1, <2>3 DEF SuitsStride
    <3> QED
      BY <2>1, <2>3, <3>1 DEF KeepsStride, StrideKept
  <2>4. CASE m # n /\ m \notin sup
    <3>1. h.set[m] = f.set[m]
      BY <1>2, <2>1, <2>4 DEF Put
    <3> QED
      BY <2>1, <2>4, <3>1
  <2> QED
    BY <2>2, <2>3, <2>4
<1>7. ASSUME NEW m \in DOMAIN h.set, NEW i \in 1 .. Len(h.set[m].devs), m[1] \in Unchecked,
             m \notin {Asr!Spares, Ddf1!Disks}
      PROVE  StrideOf(h.set[m].devs[i]) \in Strides(l, m) /\ h.set[m].stride \in Strides(l, m)
  <2> DEFINE j == IF m = n THEN Back(k, i) ELSE i
  <2>1. m # n \/ i # k =>
          /\ m \in DOMAIN f.set /\ h.set[m].devs[i] = f.set[m].devs[j]
          /\ StrideOf(f.set[m].devs[j]) \in Strides(l, m) /\ f.set[m].stride \in Strides(l, m)
    <3>1. m # n \/ i # k => m \in DOMAIN f.set /\ j \in 1 .. Len(f.set[m].devs) /\ h.set[m].devs[i] = f.set[m].devs[j]
      BY <1>1
    <3> HIDE DEF j
    <3> QED
      BY <1>7, <3>1 DEF SetsInv, Strided
  <2> HIDE DEF j
  <2>2. CASE m = n
    BY <1>1, <1>2, <1>7, <2>1, <2>2 DEF SuitsStride
  <2>3. CASE m \in sup /\ m # n
    BY <1>2, <1>4, <1>7, <2>1, <2>3 DEF SuitsStride
  <2>4. CASE m # n /\ m \notin sup
    <3>1. h.set[m] = f.set[m]
      BY <1>2, <2>1, <2>4 DEF Put
    <3> QED
      BY <2>1, <2>4, <3>1
  <2> QED
    BY <2>2, <2>3, <2>4
<1> QED
  BY <1>6, <1>7 DEF Strided

\* A device more: the links to subsets.
LEMMA PutLinking ==
  ASSUME NEW l, NEW f, SetsInv(l, f), NEW h, NEW d, NEW n, NEW sup, Puts(l, f, h, d, n, sup)
  PROVE  Linking(l, h)
<1>0. IsSets(f) /\ Rooted(l, f) /\ Linking(l, f)
  BY DEF SetsInv
<1>1. DOMAIN h.set = DOMAIN f.set \cup {n} \cup sup /\ \A s \in sup : Under(l, n, s)
  BY <1>0, PutLists DEF Puts
<1>2. \A m : IsList(OldSubs(f, m)) /\ Distinct(OldSubs(f, m))
             /\ \A x : Elem(OldSubs(f, m), x) => x \in DOMAIN f.set /\ Under(l, x, m)
  BY <1>0, EmptyList DEF OldSubs, Linking, IsSets, IsRs, Distinct, Elem
<1>3. \A m \in DOMAIN h.set : m \notin sup => h.set[m].subs = OldSubs(f, m)
  BY <1>0, PutLists
<1>4. \A m \in sup : Linked(h.set[m].subs, OldSubs(f, m), n)
  BY <1>0, PutLists
<1>5. ASSUME NEW m \in DOMAIN h.set
      PROVE  Distinct(h.set[m].subs) /\ \A x : Elem(h.set[m].subs, x) => x \in DOMAIN h.set /\ Under(l, x, m)
  <2>1. CASE m \notin sup
    BY <1>1, <1>2, <1>3, <2>1
  <2>2. CASE m \in sup
    <3>1. Distinct(h.set[m].subs) /\ \A x : Elem(h.set[m].subs, x) <=> Elem(OldSubs(f, m), x) \/ x = n
      BY <1>2, <1>4, <2>2, LinkedElem
    <3> QED
      BY <1>1, <1>2, <2>2, <3>1
  <2> QED
    BY <2>1, <2>2
<1> QED
  BY <1>5 DEF Linking

\* A device more: each set is on the list or linked.
LEMMA PutRooted ==
  ASSUME NEW l, NEW f, SetsInv(l, f), NEW h, NEW d, NEW n, NEW sup, Puts(l, f, h, d, n, sup)
  PROVE  Rooted(l, h)
<1>0. IsSets(f) /\ Rooted(l, f) /\ Linking(l, f)
  BY DEF SetsInv
<1>1. DOMAIN h.set = DOMAIN f.set \cup {n} \cup sup
      /\ h.top = f.top \cup (IF sup = {} THEN {n} ELSE sup) /\ f.top \subseteq DOMAIN f.set
  BY <1>0 DEF Puts, Put, IsSets
<1>2. \/ sup = {} /\ \A m : ~Under(l, n, m)
      \/ \E s : sup = {s} /\ Under(l, n, s)
  BY DEF Puts
<1>3. \A m \in DOMAIN h.set : m \notin sup => h.set[m].subs = OldSubs(f, m)
  BY <1>0, PutLists
<1>4. \A m \in sup : \A x : Elem(h.set[m].subs, x) <=> Elem(OldSubs(f, m), x) \/ x = n
  <2>1. \A m : IsList(OldSubs(f, m)) /\ Distinct(OldSubs(f, m))
    BY <1>0, EmptyList DEF OldSubs, Linking, IsSets, IsRs, Distinct, Elem
  <2>2. \A m \in sup : Linked(h.set[m].subs, OldSubs(f, m), n)
    BY <1>0, PutLists
  <2> QED
    BY <2>1, <2>2, LinkedElem
<1>5. ASSUME NEW k \in DOMAIN h.set
      PROVE  k \in h.top <=> \A m : ~Under(l, k, m)
  <2>1. \A s \in sup : \A m : ~Under(l, s, m)
    BY <1>2, UnderFlat
  <2>2. k \in DOMAIN f.set => (k \in f.top <=> \A m : ~Under(l, k, m))
    BY <1>0 DEF Rooted
  <2> QED
    BY <1>1, <1>2, <2>1, <2>2
<1>6. ASSUME NEW k \in DOMAIN h.set, k \notin h.top
      PROVE  \E m \in DOMAIN h.set : Elem(h.set[m].subs, k)
  <2>1. CASE k = n
    <3>1. PICK s : sup = {s} /\ Under(l, n, s)
      BY <1>1, <1>2, <1>6, <2>1
    <3> QED
      BY <1>1, <1>4, <2>1, <3>1
  <2>2. CASE k # n
    <3>1. k \in DOMAIN f.set /\ k \notin f.top
      BY <1>1, <1>2, <1>6, <2>2
    <3>2. PICK m \in DOMAIN f.set : Elem(f.set[m].subs, k)
      BY <1>0, <3>1 DEF Rooted
    <3>3. m \in DOMAIN h.set /\ OldSubs(f, m) = f.set[m].subs
      BY <1>1 DEF OldSubs
    <3>4. Elem(h.set[m].subs, k)
      BY <1>3, <1>4, <3>2, <3>3
    <3> QED
      BY <3>3, <3>4
  <2> QED
    BY <2>1, <2>2
<1> QED
  BY <1>5, <1>6 DEF Rooted

\* A device more keeps the invariant of the sets.
LEMMA PutKeeps ==
  ASSUME NEW l, NEW f, SetsInv(l, f), NEW h, NEW d, IsDevice(d), d.fmt \in ToSet(Formats),
         NEW n, NEW sup, Puts(l, f, h, d, n, sup), n # Ddf1!Disks => Clear(f, d)
  PROVE  SetsInv(l, h)
<1>1. IsSets(h) /\ Kinds(h)
  BY DEF SetsInv, Puts, Put
<1>2. Named(h) /\ Separate(h) /\ Strided(l, h) /\ Linking(l, h) /\ Rooted(l, h)
  BY PutNamed, PutSeparate, PutStrided, PutLinking, PutRooted
<1> QED
  BY <1>1, <1>2 DEF SetsInv

-----------------------------------------------------------------------------
(* A set less, and other states.                                           *)

Free(f, disk) == \A n \in DOMAIN f.set : \A i \in 1 .. Len(f.set[n].devs) : f.set[n].devs[i].disk # disk

\* h has no set and no device that f has not.
Within(f, h) ==
  /\ DOMAIN h.set \subseteq DOMAIN f.set
  /\ \A m \in DOMAIN h.set :
       /\ h.set[m].type = f.set[m].type /\ h.set[m].stride = f.set[m].stride
       /\ Len(h.set[m].devs) = Len(f.set[m].devs)
       /\ \A i \in 1 .. Len(f.set[m].devs) : Alike(f.set[m].devs[i], h.set[m].devs[i])

\* The stride of a device does not depend on its state.
LEMMA AlikeStride ==
  ASSUME NEW d, NEW e, Alike(d, e)
  PROVE  StrideOf(e) = StrideOf(d)
<1>1. e.fmt = d.fmt /\ e.meta = d.meta /\ e.offset = d.offset
  BY DEF Alike
<1> QED
  BY <1>1, Zenon DEF StrideOf

\* What is within the sets keeps what the invariant says of devices.
LEMMA WithinKeeps ==
  ASSUME NEW l, NEW f, SetsInv(l, f), NEW h, Within(f, h)
  PROVE  /\ Kinds(h) /\ Named(h) /\ Separate(h) /\ Strided(l, h)
         /\ \A disk : Free(f, disk) => Free(h, disk)
<1>1. \A m \in DOMAIN h.set : \A i \in 1 .. Len(h.set[m].devs) :
        /\ m \in DOMAIN f.set /\ i \in 1 .. Len(f.set[m].devs) /\ h.set[m].stride = f.set[m].stride
        /\ Alike(f.set[m].devs[i], h.set[m].devs[i])
  BY DEF Within
<1>2. Kinds(h)
  BY DEF Kinds, Within, SetsInv
<1>3. Named(h)
  BY <1>1 DEF Named, SetsInv, Alike
<1>4. Separate(h)
  <2>1. SUFFICES ASSUME NEW n, NEW m, NEW i, NEW j, IsPlace(h, n, i), IsPlace(h, m, j), n # m \/ i # j
                 PROVE  Apart(h.set[n].devs[i], h.set[m].devs[j])
    BY DEF Separate
  <2>2. IsPlace(f, n, i) /\ IsPlace(f, m, j)
    BY <1>1, <2>1 DEF IsPlace
  <2>3. Apart(f.set[n].devs[i], f.set[m].devs[j])
    BY <2>1, <2>2 DEF SetsInv, Separate
  <2>4. Alike(f.set[n].devs[i], h.set[n].devs[i]) /\ Alike(f.set[m].devs[j], h.set[m].devs[j])
    BY <1>1, <2>1 DEF IsPlace
  <2> QED
    BY <2>3, <2>4 DEF Apart, Alike
<1>5. Strided(l, h)
  <2>1. SUFFICES ASSUME NEW n \in DOMAIN h.set, NEW i \in 1 .. Len(h.set[n].devs)
                 PROVE  /\ n[1] \notin Unchecked => StrideKept(h.set[n], h.set[n].devs[i])
                        /\ n[1] \in Unchecked /\ n \notin {Asr!Spares, Ddf1!Disks} =>
                             StrideOf(h.set[n].devs[i]) \in Strides(l, n) /\ h.set[n].stride \in Strides(l, n)
    BY DEF Strided
  <2>2. /\ n \in DOMAIN f.set /\ i \in 1 .. Len(f.set[n].devs) /\ h.set[n].stride = f.set[n].stride
        /\ StrideOf(h.set[n].devs[i]) = StrideOf(f.set[n].devs[i])
    BY <1>1, AlikeStride
  <2> QED
    BY <2>2 DEF SetsInv, Strided, StrideKept
<1>6. \A disk : Free(f, disk) => Free(h, disk)
  BY <1>1 DEF Free, Alike
<1> QED
  BY <1>2, <1>3, <1>4, <1>5, <1>6

\* Sets with other states keep the invariant.
LEMMA AlikeKeeps ==
  ASSUME NEW l, NEW f, SetsInv(l, f), NEW h, AlikeSets(f, h)
  PROVE  SetsInv(l, h) /\ \A disk : Free(f, disk) => Free(h, disk)
<1>1. Within(f, h)
  BY DEF Within, AlikeSets, AlikeRs
<1>2. DOMAIN h.set = DOMAIN f.set /\ h.top = f.top /\ \A m \in DOMAIN f.set : h.set[m].subs = f.set[m].subs
  BY DEF AlikeSets, AlikeRs
<1>3. IsSets(h)
  BY DEF AlikeSets
<1>4. Linking(l, h)
  BY <1>2 DEF SetsInv, Linking
<1>5. Rooted(l, h)
  BY <1>2 DEF SetsInv, Rooted
<1> QED
  BY <1>1, <1>3, <1>4, <1>5, WithinKeeps DEF SetsInv

Gone(f, n) == {n} \cup {x \in DOMAIN f.set : Elem(f.set[n].subs, x)}

\* new is the set rs without the link to n.
Unlinked(rs, new, n) ==
  /\ new.type = rs.type /\ new.stride = rs.stride /\ new.devs = rs.devs
  /\ Distinct(new.subs)
  /\ \A x : Elem(new.subs, x) <=> Elem(rs.subs, x) /\ x # n

\* free_raid_set(): what is left, and without links to the set.
LEMMA FreedIs ==
  ASSUME NEW l, NEW f, SetsInv(l, f), NEW n \in DOMAIN f.set, NEW h, h = Freed(f, n)
  PROVE  /\ IsSets(h)
         /\ h.top = f.top \ Gone(f, n)
         /\ DOMAIN h.set = DOMAIN f.set \ Gone(f, n)
         /\ \A m \in DOMAIN h.set : Unlinked(f.set[m], h.set[m], n)
<1>0. IsSets(f) /\ Linking(l, f)
  BY DEF SetsInv
<1>1. {n} \cup ToSet(f.set[n].subs) = Gone(f, n)
  <2>1. DOMAIN f.set[n].subs = 1 .. Len(f.set[n].subs)
    BY <1>0 DEF IsSets, IsRs, IsList
  <2>2. \A x : x \in ToSet(f.set[n].subs) <=> Elem(f.set[n].subs, x)
    BY <2>1 DEF ToSet, Elem
  <2>3. \A x : Elem(f.set[n].subs, x) => x \in DOMAIN f.set
    BY <1>0 DEF Linking
  <2> QED
    BY <2>2, <2>3 DEF Gone
<1> DEFINE W(m) == WithSubs(f.set[m], RemoveFirst(f.set[m].subs, n))
           F == [m \in DOMAIN f.set \ Gone(f, n) |-> W(m)]
<1>2. h = [top |-> f.top \ Gone(f, n), set |-> F]
  BY <1>1 DEF Freed, WithSubs
<1>3. ASSUME NEW m \in DOMAIN f.set
      PROVE  IsRs(W(m)) /\ Unlinked(f.set[m], W(m), n)
  <2> DEFINE r == RemoveFirst(f.set[m].subs, n)
  <2>1. IsRs(f.set[m]) /\ IsList(f.set[m].subs) /\ Distinct(f.set[m].subs)
    BY <1>0 DEF IsSets, IsRs, Linking
  <2>2. IsList(r) /\ Distinct(r) /\ \A x : Elem(r, x) <=> Elem(f.set[m].subs, x) /\ x # n
    BY <2>1, RemoveFirstElem
  <2>3. W(m) = WithSubs(f.set[m], r)
    OBVIOUS
  <2> HIDE DEF W, r
  <2>4. IsRs(W(m)) /\ W(m).devs = f.set[m].devs /\ W(m).subs = r /\ W(m).stride = f.set[m].stride
        /\ W(m).type = f.set[m].type
    BY <2>1, <2>2, <2>3, MoreSubs
  <2> QED
    BY <2>2, <2>4 DEF Unlinked
<1>4. DOMAIN F = DOMAIN f.set \ Gone(f, n) /\ F = [m \in DOMAIN F |-> F[m]]
      /\ \A m \in DOMAIN F : F[m] = W(m)
  OBVIOUS
<1> HIDE DEF W, F
<1>5. h.top = f.top \ Gone(f, n) /\ h.set = F /\ h = [top |-> h.top, set |-> h.set]
  BY <1>2
<1>6. f.top \subseteq DOMAIN f.set
  BY <1>0 DEF IsSets
<1>7. IsSets(h)
  BY <1>3, <1>4, <1>5, <1>6 DEF IsSets
<1> QED
  BY <1>3, <1>4, <1>5, <1>7

\* free_raid_set() keeps the invariant, and all other sets of the list.
LEMMA FreedKeeps ==
  ASSUME NEW l, OneParent(l), NEW f, SetsInv(l, f), NEW n \in DOMAIN f.set, NEW h, h = Freed(f, n)
  PROVE  /\ SetsInv(l, h)
         /\ \A disk : Free(f, disk) => Free(h, disk)
         /\ f.top \ {n} \subseteq h.top
<1>0. IsSets(f) /\ Linking(l, f) /\ Rooted(l, f) /\ Named(f)
  BY DEF SetsInv
<1>1. /\ IsSets(h)
      /\ h.top = f.top \ Gone(f, n)
      /\ DOMAIN h.set = DOMAIN f.set \ Gone(f, n)
  BY FreedIs
<1>2. \A m \in DOMAIN h.set :
        /\ h.set[m].type = f.set[m].type /\ h.set[m].stride = f.set[m].stride /\ h.set[m].devs = f.set[m].devs
        /\ Distinct(h.set[m].subs)
        /\ \A x : Elem(h.set[m].subs, x) <=> Elem(f.set[m].subs, x) /\ x # n
  <2>1. \A m \in DOMAIN h.set : Unlinked(f.set[m], h.set[m], n)
    BY FreedIs
  <2> QED
    BY <2>1 DEF Unlinked
<1>3. Within(f, h)
  BY <1>0, <1>1, <1>2 DEF Within, Named, Alike
<1>4. \A x : x \in Gone(f, n) <=> x = n \/ (x \in DOMAIN f.set /\ Elem(f.set[n].subs, x))
  BY DEF Gone
<1>5. \A m \in DOMAIN f.set : \A x : Elem(f.set[m].subs, x) => x \in DOMAIN f.set /\ Under(l, x, m)
  BY <1>0 DEF Linking
<1>6. \A m \in DOMAIN h.set : \A x : Elem(h.set[m].subs, x) => x \in DOMAIN h.set /\ Under(l, x, m)
  <2>1. SUFFICES ASSUME NEW m \in DOMAIN h.set, NEW x, Elem(h.set[m].subs, x)
                 PROVE  x \in DOMAIN h.set /\ Under(l, x, m)
    OBVIOUS
  <2>2. Elem(f.set[m].subs, x) /\ x # n /\ m \in DOMAIN f.set /\ m # n
    BY <1>1, <1>2, <1>4, <2>1
  <2>3. x \in DOMAIN f.set /\ Under(l, x, m)
    BY <1>5, <2>2
  <2>4. ~Elem(f.set[n].subs, x)
    BY <1>5, <2>2, <2>3, UnderOne
  <2> QED
    BY <1>1, <1>4, <2>2, <2>3, <2>4
<1>7. Linking(l, h)
  BY <1>2, <1>6 DEF Linking
<1>8. \A k \in DOMAIN h.set : k \in h.top <=> \A m : ~Under(l, k, m)
  BY <1>0, <1>1 DEF Rooted
<1>9. ASSUME NEW k \in DOMAIN h.set, k \notin h.top
      PROVE  \E m \in DOMAIN h.set : Elem(h.set[m].subs, k)
  <2>1. k \in DOMAIN f.set /\ k \notin f.top /\ k \notin Gone(f, n)
    BY <1>1, <1>9
  <2>2. PICK m \in DOMAIN f.set : Elem(f.set[m].subs, k)
    BY <1>0, <2>1 DEF Rooted
  <2>3. m # n
    BY <1>4, <2>1, <2>2
  <2>4. ~Elem(f.set[n].subs, m)
    BY <1>5, <2>2, UnderFlat
  <2>5. m \in DOMAIN h.set
    BY <1>1, <1>4, <2>2, <2>3, <2>4
  <2> QED
    BY <1>2, <1>4, <2>1, <2>2, <2>5
<1>10. Rooted(l, h)
  BY <1>8, <1>9 DEF Rooted
<1>11. f.top \ {n} \subseteq h.top
  <2>1. SUFFICES ASSUME NEW x \in f.top, x # n PROVE x \notin Gone(f, n)
    BY <1>1
  <2>2. \A m : ~Under(l, x, m)
    BY <1>0, <2>1 DEF Rooted, IsSets
  <2> QED
    BY <1>4, <1>5, <2>1, <2>2
<1> QED
  BY <1>1, <1>3, <1>7, <1>10, <1>11, WithinKeeps DEF SetsInv

\* want_set() keeps the invariant.
LEMMA WantedKeeps ==
  ASSUME NEW l, OneParent(l), NEW f, SetsInv(l, f)
  PROVE  SetsInv(l, Wanted(f)) /\ \A disk : Free(f, disk) => Free(Wanted(f), disk)
<1> DEFINE empty == {n \in f.top : f.set[n].type = "group" /\ f.set[n].subs = <<>>}
           n == CHOOSE n \in empty : TRUE
<1>1. Wanted(f) = IF empty = {} THEN f ELSE Freed(f, n)
  BY DEF Wanted
<1>2. CASE empty # {}
  <2>1. n \in empty
    BY <1>2
  <2>2. n \in DOMAIN f.set
    BY <2>1 DEF SetsInv, IsSets
  <2> HIDE DEF n, empty
  <2>3. Wanted(f) = Freed(f, n)
    BY <1>1, <1>2
  <2> QED
    BY <2>2, <2>3, FreedKeeps
<1>3. CASE empty = {}
  BY <1>1, <1>3
<1> QED
  BY <1>2, <1>3

\* check_raid_sets() keeps the invariant, and all sets of the list that it did not check.
LEMMA KeptKeeps ==
  ASSUME NEW l, OneParent(l), NEW f, SetsInv(l, f), NEW n \in f.top, NEW h, h = Kept(f, n)
  PROVE  /\ SetsInv(l, h)
         /\ \A disk : Free(f, disk) => Free(h, disk)
         /\ f.top \ {n} \subseteq h.top
<1>0. IsSets(f) /\ Linking(l, f) /\ Named(f) /\ n \in DOMAIN f.set
  BY DEF SetsInv, IsSets
<1>1. CASE FormatOf(f, n) = {}
  BY <1>1 DEF Kept
<1>2. CASE FormatOf(f, n) # {}
  <2> DEFINE fmt == CHOOSE x \in FormatOf(f, n) : TRUE
             g   == Check(f, n, fmt)
  <2>1. h = IF g.set[n].status = "broken" /\ g.set[n].type # "raid1" THEN Freed(g, n) ELSE g
    BY <1>2 DEF Kept, Sane
  <2>2. fmt \in FormatOf(f, n)
    BY <1>2
  <2> HIDE DEF fmt, g
  <2>3. fmt \in ToSet(Formats)
    <3> DEFINE leaf == IF f.set[n].subs = <<>> THEN f.set[n] ELSE f.set[f.set[n].subs[1]]
    <3>1. leaf.devs # <<>> /\ fmt = leaf.devs[1].fmt
      BY <2>2 DEF FormatOf
    <3>2. \E m \in DOMAIN f.set : leaf = f.set[m]
      <4>1. CASE f.set[n].subs = <<>>
        BY <1>0, <4>1
      <4>2. CASE f.set[n].subs # <<>>
        <5>1. IsList(f.set[n].subs)
          BY <1>0 DEF IsSets, IsRs
        <5>2. 1 \in 1 .. Len(f.set[n].subs)
          BY <4>2, <5>1 DEF IsList
        <5>3. f.set[n].subs[1] \in DOMAIN f.set
          BY <1>0, <5>2 DEF Linking, Elem
        <5> QED
          BY <4>2, <5>3
      <4> QED
        BY <4>1, <4>2
    <3> HIDE DEF leaf
    <3>3. PICK m \in DOMAIN f.set : leaf = f.set[m]
      BY <3>2
    <3>4. IsList(f.set[m].devs)
      BY <1>0 DEF IsSets, IsRs
    <3>5. 1 \in 1 .. Len(f.set[m].devs)
      BY <3>1, <3>3, <3>4 DEF IsList
    <3> QED
      BY <1>0, <3>1, <3>3, <3>5 DEF Named
  <2>4. AllSets(f)
    BY <1>0 DEF AllSets, AllDevices, Named
  <2>5. AlikeSets(f, g)
    BY <1>0, <2>3, <2>4, CheckAlike DEF g
  <2>6. SetsInv(l, g) /\ \A disk : Free(f, disk) => Free(g, disk)
    BY <2>5, AlikeKeeps
  <2>7. n \in DOMAIN g.set /\ g.top = f.top
    BY <1>0, <2>5 DEF AlikeSets
  <2>8. SetsInv(l, Freed(g, n)) /\ g.top \ {n} \subseteq Freed(g, n).top
        /\ \A disk : Free(g, disk) => Free(Freed(g, n), disk)
    BY <2>6, <2>7, FreedKeeps
  <2> QED
    BY <2>1, <2>6, <2>7, <2>8
<1> QED
  BY <1>1, <1>2

-----------------------------------------------------------------------------
(* The grouping of a disk.                                                 *)

\* h has no devices that f has not, but those of one disk.
Spared(f, h, disk) == \A x : x # disk /\ Free(f, x) => Free(h, x)

\* A device more is one of its disk.
LEMMA PutSpared ==
  ASSUME NEW l, NEW f, SetsInv(l, f), NEW h, NEW d, NEW n, NEW sup, Puts(l, f, h, d, n, sup)
  PROVE  Spared(f, h, d.disk)
<1>1. PICK k \in 1 .. Len(h.set[n].devs) :
           /\ h.set[n].devs[k] = d
           /\ \A m \in DOMAIN h.set : \A i \in 1 .. Len(h.set[m].devs) : m # n \/ i # k =>
                LET j == IF m = n THEN Back(k, i) ELSE i
                IN  /\ m \in DOMAIN f.set /\ j \in 1 .. Len(f.set[m].devs)
                    /\ h.set[m].devs[i] = f.set[m].devs[j]
  BY PutPlaces DEF SetsInv
<1>2. SUFFICES ASSUME NEW x, x # d.disk, Free(f, x), NEW m \in DOMAIN h.set, NEW i \in 1 .. Len(h.set[m].devs)
               PROVE  h.set[m].devs[i].disk # x
  BY DEF Spared, Free
<1>3. CASE m = n /\ i = k
  BY <1>1, <1>2, <1>3
<1>4. CASE m # n \/ i # k
  <2> DEFINE j == IF m = n THEN Back(k, i) ELSE i
  <2>1. m \in DOMAIN f.set /\ j \in 1 .. Len(f.set[m].devs) /\ h.set[m].devs[i] = f.set[m].devs[j]
    BY <1>1, <1>4
  <2> HIDE DEF j
  <2> QED
    BY <1>2, <2>1 DEF Free
<1> QED
  BY <1>3, <1>4

\* A device of a disk that no set has is apart from all.
LEMMA FreeClear ==
  ASSUME NEW f, NEW d, Free(f, d.disk)
  PROVE  Clear(f, d)
BY DEF Free, Clear, IsPlace, Apart

\* The formats with one device in one set.
LEMMA SingleKeeps ==
  ASSUME NEW l, OneParent(l), NEW f, SetsInv(l, f), NEW rd \in AllDevs(l), rd.fmt \notin {"ddf1", "pdc"},
         Free(f, rd.disk), NEW h \in Group(f, rd)
  PROVE  SetsInv(l, h) /\ Spared(f, h, rd.disk)
<1>1. \A n \in DOMAIN f.set : (\A m : ~Under(l, n, m)) => n \in f.top
  BY DEF SetsInv, Rooted
<1>2. Known(rd) /\ IsSets(f)
  BY AllKnown DEF SetsInv
<1>3. CASE h = f
  BY <1>3 DEF Spared
<1>4. CASE \E n, sup : Puts(l, f, h, rd, n, sup)
  <2>1. PICK n, sup : Puts(l, f, h, rd, n, sup)
    BY <1>4
  <2>2. IsDevice(rd) /\ rd.fmt \in ToSet(Formats) /\ Clear(f, rd)
    BY <1>2, FreeClear DEF Known
  <2> QED
    BY <2>1, <2>2, PutKeeps, PutSpared
<1> QED
  BY <1>1, <1>2, <1>3, <1>4, SingleGroup

\* What the sets have of a disk are some of its pieces: those before the
\* i-th.
Begun(f, rd, i) ==
  \A n, j : IsPlace(f, n, j) => \/ f.set[n].devs[j].disk # rd.disk
                                \/ \E k \in DOMAIN Pieces(rd) : k < i /\ f.set[n].devs[j] \in Pieces(rd)[k]

\* The next piece of a disk is apart from what the sets have.
LEMMA BegunClear ==
  ASSUME NEW f, NEW rd, NEW i \in DOMAIN Pieces(rd), NEW d \in Pieces(rd)[i], d.disk = rd.disk, Begun(f, rd, i),
         DOMAIN Pieces(rd) \subseteq Nat,
         \A a, b \in DOMAIN Pieces(rd) : a # b => \A x \in Pieces(rd)[a], y \in Pieces(rd)[b] : Apart(x, y)
  PROVE  Clear(f, d)
<1>1. SUFFICES ASSUME NEW n, NEW j, IsPlace(f, n, j) PROVE Apart(f.set[n].devs[j], d)
  BY DEF Clear
<1>2. CASE f.set[n].devs[j].disk # rd.disk
  BY <1>2 DEF Apart
<1>3. CASE \E k \in DOMAIN Pieces(rd) : k < i /\ f.set[n].devs[j] \in Pieces(rd)[k]
  <2>1. PICK k \in DOMAIN Pieces(rd) : k < i /\ f.set[n].devs[j] \in Pieces(rd)[k]
    BY <1>3
  <2>2. k # i
    BY <2>1
  <2> QED
    BY <2>1, <2>2
<1> QED
  BY <1>1, <1>2, <1>3 DEF Begun

\* A piece that is put into its set is one of those before the next.
LEMMA PutBegun ==
  ASSUME NEW l, NEW f, SetsInv(l, f), NEW h, NEW d, NEW n, NEW sup, Puts(l, f, h, d, n, sup),
         NEW rd, DOMAIN Pieces(rd) \subseteq Nat, NEW i \in DOMAIN Pieces(rd), d \in Pieces(rd)[i], Begun(f, rd, i)
  PROVE  Begun(h, rd, i + 1)
<1>1. PICK k \in 1 .. Len(h.set[n].devs) :
           /\ h.set[n].devs[k] = d
           /\ \A m \in DOMAIN h.set : \A j \in 1 .. Len(h.set[m].devs) : m # n \/ j # k =>
                LET e == IF m = n THEN Back(k, j) ELSE j
                IN  /\ m \in DOMAIN f.set /\ e \in 1 .. Len(f.set[m].devs)
                    /\ h.set[m].devs[j] = f.set[m].devs[e]
  BY PutPlaces DEF SetsInv
<1>2. SUFFICES ASSUME NEW m, NEW j, IsPlace(h, m, j)
               PROVE  \/ h.set[m].devs[j].disk # rd.disk
                      \/ \E a \in DOMAIN Pieces(rd) : a < i + 1 /\ h.set[m].devs[j] \in Pieces(rd)[a]
  BY DEF Begun
<1>3. CASE m = n /\ j = k
  <2>1. i < i + 1
    OBVIOUS
  <2> QED
    BY <1>1, <1>3, <2>1
<1>4. CASE m # n \/ j # k
  <2> DEFINE e == IF m = n THEN Back(k, j) ELSE j
  <2>1. IsPlace(f, m, e) /\ h.set[m].devs[j] = f.set[m].devs[e]
    BY <1>1, <1>2, <1>4 DEF IsPlace
  <2> HIDE DEF e
  <2>2. \A a \in DOMAIN Pieces(rd) : a < i => a < i + 1
    OBVIOUS
  <2> QED
    BY <2>1, <2>2 DEF Begun
<1> QED
  BY <1>3, <1>4

\* Pieces before one are before the next.
LEMMA BegunMore ==
  ASSUME NEW f, NEW rd, NEW i \in Int, Begun(f, rd, i), DOMAIN Pieces(rd) \subseteq Nat
  PROVE  Begun(f, rd, i + 1)
<1>1. \A a \in DOMAIN Pieces(rd) : a < i => a < i + 1
  OBVIOUS
<1> QED
  BY <1>1 DEF Begun

\* No set has a piece of a disk that no set has.
LEMMA FreeBegun ==
  ASSUME NEW f, NEW rd, Free(f, rd.disk), NEW i
  PROVE  Begun(f, rd, i)
BY DEF Free, Begun, IsPlace

\* Two steps for one disk.
LEMMA SparedTwice ==
  ASSUME NEW f, NEW g, NEW h, NEW disk, Spared(f, g, disk), Spared(g, h, disk)
  PROVE  Spared(f, h, disk)
BY DEF Spared

\* The pieces of a disk are as the layouts have them.
Sound(rd) ==
  /\ rd.fmt = "pdc"  => rd.meta.more \in Seq(ToSet(rd.meta.more))
  /\ rd.fmt = "ddf1" => Ddf1!Mine(rd.meta) \in Seq(ToSet(Ddf1!Mine(rd.meta)))
  /\ \A a, b \in DOMAIN Pieces(rd) : a # b => \A x \in Pieces(rd)[a], y \in Pieces(rd)[b] : Apart(x, y)

\* The areas of a Promise disk, one by one.
LEMMA PdcKeeps ==
  ASSUME NEW l, OneParent(l), NEW f, SetsInv(l, f), NEW rd \in AllDevs(l), rd.fmt = "pdc", Sound(rd),
         Free(f, rd.disk), NEW h, h = Pdc!GroupAreas(f, rd).sets
  PROVE  SetsInv(l, h) /\ Spared(f, h, rd.disk)
<1> DEFINE N == Len(rd.meta.more)
<1>1. N \in Nat
  BY LenProperties DEF Sound
<1>2. PICK done : /\ done[0] = PdcStep([sets |-> f, ok |-> TRUE], rd, 0)
                  /\ \A i \in 1 .. N : done[i] = PdcStep(done[i-1], rd, i)
                  /\ Pdc!GroupAreas(f, rd) = done[N]
  BY <1>1, PdcUnfold
<1>3. DOMAIN Pieces(rd) = 0 .. N /\ \A i \in 0 .. N : Pieces(rd)[i] = Pdc!Area(rd, i)
  BY <1>1 DEF Pieces
<1>4. Known(rd)
  BY AllKnown
<1> DEFINE Good(r, i) == /\ r = [sets |-> r.sets, ok |-> r.ok]
                         /\ SetsInv(l, r.sets) /\ Spared(f, r.sets, rd.disk) /\ Begun(r.sets, rd, i + 1)
<1>5. ASSUME NEW r, NEW i \in 0 .. N, r = [sets |-> r.sets, ok |-> r.ok],
             SetsInv(l, r.sets), Spared(f, r.sets, rd.disk), Begun(r.sets, rd, i)
      PROVE  Good(PdcStep(r, rd, i), i)
  <2> DEFINE gs == UNION {Pdc!GroupArea(r.sets, d) : d \in Pdc!Area(rd, i)}
             g  == CHOOSE g \in gs : TRUE
  <2>1. PdcStep(r, rd, i) = IF ~r.ok \/ gs = {} THEN [r EXCEPT !.ok = FALSE] ELSE [r EXCEPT !.sets = g]
    BY DEF PdcStep
  <2>2. CASE ~r.ok \/ gs = {}
    <3>1. PdcStep(r, rd, i) = [sets |-> r.sets, ok |-> FALSE]
      BY <1>5, <2>1, <2>2
    <3>2. Begun(r.sets, rd, i + 1)
      BY <1>1, <1>3, <1>5, BegunMore
    <3> QED
      BY <1>5, <3>1, <3>2
  <2>3. CASE ~(~r.ok \/ gs = {})
    <3>1. PdcStep(r, rd, i) = [sets |-> g, ok |-> r.ok]
      <4> HIDE DEF g
      <4> QED
        BY <1>5, <2>1, <2>3
    <3>2. PICK d \in Pdc!Area(rd, i) : g \in Pdc!GroupArea(r.sets, d)
      BY <2>3
    <3> HIDE DEF g, gs
    <3>3. IsDevice(d) /\ d.fmt = "pdc" /\ d.disk = rd.disk /\ d.name = Pdc!Name(d.meta, Pdc!IsRaid10(d.meta))
      BY <1>4, PdcArea DEF Known
    <3>4. IsSets(r.sets)
      BY <1>5 DEF SetsInv
    <3>5. PICK n, sup : Puts(l, r.sets, g, d, n, sup)
      BY <3>2, <3>3, <3>4, PdcGroupArea
    <3>6. DOMAIN Pieces(rd) \subseteq Nat /\ i \in DOMAIN Pieces(rd) /\ d \in Pieces(rd)[i]
      BY <1>1, <1>3
    <3>7. Clear(r.sets, d)
      BY <1>5, <3>3, <3>6, BegunClear DEF Sound
    <3>8. d.fmt \in ToSet(Formats)
      BY <3>3, FormatSet
    <3>9. SetsInv(l, g)
      BY <1>5, <3>3, <3>5, <3>7, <3>8, PutKeeps
    <3>10. Spared(f, g, rd.disk)
      BY <1>5, <3>3, <3>5, PutSpared, SparedTwice
    <3>11. Begun(g, rd, i + 1)
      BY <1>5, <3>5, <3>6, PutBegun
    <3> QED
      BY <3>1, <3>9, <3>10, <3>11
  <2> QED
    BY <2>2, <2>3
<1> DEFINE Bad == {i \in 0 .. N : ~Good(done[i], i)}
<1>6. Good(done[0], 0)
  <2> DEFINE First == [sets |-> f, ok |-> TRUE]
  <2>1. First.sets = f /\ First = [sets |-> First.sets, ok |-> First.ok]
    OBVIOUS
  <2>2. Spared(f, f, rd.disk) /\ Begun(f, rd, 0)
    BY FreeBegun DEF Spared
  <2>3. done[0] = PdcStep(First, rd, 0) /\ 0 \in 0 .. N
    BY <1>1, <1>2
  <2> HIDE DEF First, Good
  <2> QED
    BY <1>5, <2>1, <2>2, <2>3
<1>7. ASSUME NEW i \in 1 .. N, Good(done[i-1], i - 1) PROVE Good(done[i], i)
  <2> DEFINE r == done[i-1]
  <2>1. (i - 1) + 1 = i /\ i \in 0 .. N
    BY <1>1
  <2>2. r = [sets |-> r.sets, ok |-> r.ok] /\ SetsInv(l, r.sets) /\ Spared(f, r.sets, rd.disk) /\ Begun(r.sets, rd, i)
    BY <1>7, <2>1
  <2>3. done[i] = PdcStep(r, rd, i)
    BY <1>2
  <2> HIDE DEF r, Good
  <2> QED
    BY <1>5, <2>1, <2>2, <2>3
<1> HIDE DEF Good
<1>8. Bad = {}
  <2>1. SUFFICES ASSUME Bad # {} PROVE FALSE
    OBVIOUS
  <2>2. Bad \in SUBSET Nat /\ \A i : i \in Bad <=> i \in 0 .. N /\ ~Good(done[i], i)
    BY <1>1
  <2> HIDE DEF Bad
  <2>3. PICK i \in Bad : \A j \in Bad : i <= j
    BY <2>1, <2>2, LeastNat
  <2>4. i # 0
    BY <1>6, <2>2, <2>3
  <2>5. i \in 1 .. N /\ i - 1 \in 0 .. N /\ ~(i <= i - 1)
    BY <1>1, <2>2, <2>3, <2>4
  <2>6. Good(done[i-1], i - 1)
    BY <2>2, <2>3, <2>5
  <2> QED
    BY <1>7, <2>2, <2>3, <2>5, <2>6
<1>9. Good(done[N], N)
  BY <1>1, <1>8
<1> QED
  BY <1>2, <1>9 DEF Good

\* A volume of a DDF1 disk is one of the layout.
LEMMA InVolumes ==
  ASSUME NEW l, NEW rd \in AllDevs(l), rd.fmt = "ddf1", NEW i \in DOMAIN Pieces(rd), NEW seg \in Pieces(rd)[i]
  PROVE  StrideOf(seg) \in Strides(l, seg.name)
<1> DEFINE All(d) == UNION {Pieces(d)[j] : j \in DOMAIN Pieces(d)}
<1>1. seg \in All(rd)
  OBVIOUS
<1>2. rd \in {d \in AllDevs(l) : d.fmt = "ddf1"}
  OBVIOUS
<1>3. seg \in UNION {All(d) : d \in {d \in AllDevs(l) : d.fmt = "ddf1"}}
  <2> HIDE DEF All
  <2> QED
    BY <1>1, <1>2
<1>4. seg \in Volumes(l)
  BY <1>3, Zenon DEF Volumes
<1> QED
  BY <1>4, Zenon DEF Strides

\* The volumes of a DDF1 disk, one by one.
LEMMA Ddf1Keeps ==
  ASSUME NEW l, OneParent(l), NEW f, SetsInv(l, f), NEW rd \in AllDevs(l), rd.fmt = "ddf1", Sound(rd),
         Free(f, rd.disk), NEW h \in Ddf1!Group(f, rd)
  PROVE  SetsInv(l, h) /\ Spared(f, h, rd.disk)
<1> DEFINE N == Len(Ddf1!Mine(rd.meta))
           top == Ddf1!Disks
<1>1. N \in Nat /\ DOMAIN Ddf1!Mine(rd.meta) = 1 .. N
  BY LenProperties DEF Sound
<1>2. PICK done : /\ done[0] = Ddf1Start(f, rd)
                  /\ \A i \in 1 .. N : done[i] = Ddf1Step(done[i-1], rd, i)
                  /\ Ddf1!Group(f, rd) = {done[N]}
  BY <1>1, Ddf1Unfold
<1>3. DOMAIN Pieces(rd) = 1 .. N /\ Pieces(rd) = Ddf1!Segments(rd)
  <2>1. Pieces(rd) = Ddf1!Segments(rd)
    BY DEF Pieces
  <2>2. DOMAIN Ddf1!Segments(rd) = DOMAIN Ddf1!Mine(rd.meta)
    BY Zenon DEF Ddf1!Segments
  <2> QED
    BY <1>1, <2>1, <2>2
<1>4. Known(rd) /\ IsDevice(rd) /\ rd.fmt \in ToSet(Formats)
  BY AllKnown DEF Known
<1>0. DOMAIN Pieces(rd) \subseteq Nat
  BY <1>1, <1>3
<1> DEFINE Good(g, i) == SetsInv(l, g) /\ Spared(f, g, rd.disk) /\ Begun(g, rd, i + 1) /\ top \in g.top
<1>5. Good(done[0], 0)
  <2> DEFINE g == done[0]
  <2>1. g = Ddf1!Listed(Ddf1!WithSet(f, Ddf1!Disks,
                      [Ddf1!FoundOrNew(f, rd) EXCEPT !.devs = Append(@, rd)]), Ddf1!Disks)
    BY <1>2 DEF Ddf1Start
  <2>2. rd.name = Ddf1!Disks /\ rd.type = "group" /\ IsSets(f)
    BY <1>4 DEF Known, SetsInv
  <2> HIDE DEF g
  <2>3. Puts(l, f, g, rd, Ddf1!Disks, {})
    BY <2>1, <2>2, Ddf1First
  <2>4. SetsInv(l, g) /\ Spared(f, g, rd.disk)
    BY <1>4, <2>3, PutKeeps, PutSpared
  <2>5. top \in g.top
    BY <2>3 DEF Puts, Put
  <2>6. Begun(g, rd, 0 + 1)
    <3>1. PICK k \in 1 .. Len(g.set[top].devs) :
             \A m \in DOMAIN g.set : \A j \in 1 .. Len(g.set[m].devs) : m # top \/ j # k =>
                LET e == IF m = top THEN Back(k, j) ELSE j
                IN  /\ m \in DOMAIN f.set /\ e \in 1 .. Len(f.set[m].devs)
                    /\ g.set[m].devs[j] = f.set[m].devs[e]
      BY <2>3, PutPlaces DEF SetsInv
    <3>2. \A m, j : IsPlace(g, m, j) => IsPlace(f, m, j) /\ g.set[m].devs[j] = f.set[m].devs[j]
      BY <3>1 DEF IsPlace
    <3> QED
      BY <3>2 DEF Begun, Free, IsPlace
  <2> QED
    BY <2>4, <2>5, <2>6 DEF g
<1>6. ASSUME NEW i \in 1 .. N, Good(done[i-1], i - 1) PROVE Good(done[i], i)
  <2> DEFINE g == done[i-1]
             e == done[i]
             seg == CHOOSE s \in Ddf1!Segments(rd)[i] : TRUE
  <2>1. SetsInv(l, g) /\ Spared(f, g, rd.disk) /\ Begun(g, rd, i) /\ top \in g.top
    <3>1. (i - 1) + 1 = i
      BY <1>1
    <3> QED
      BY <1>6, <3>1
  <2>2. e = IF Ddf1!Segments(rd)[i] = {} THEN g ELSE Ddf1!Segmented(g, seg)
    BY <1>2 DEF Ddf1Step
  <2>3. CASE Ddf1!Segments(rd)[i] = {}
    <3>1. Begun(g, rd, i + 1)
      BY <1>0, <1>1, <2>1, BegunMore
    <3> QED
      BY <2>1, <2>2, <2>3, <3>1
  <2>4. CASE Ddf1!Segments(rd)[i] # {}
    <3>1. seg \in Ddf1!Segments(rd)[i]
      BY <2>4
    <3>2. e = Ddf1!Segmented(g, seg)
      BY <2>2, <2>4
    <3> HIDE DEF seg, e, g
    <3>3. IsDevice(seg) /\ seg.fmt = "ddf1" /\ seg.disk = rd.disk /\ seg.name[1] = "ddf1" /\ Len(seg.name) = 2
      BY <1>1, <1>4, <3>1, Ddf1Segment
    <3>4. i \in DOMAIN Pieces(rd) /\ seg \in Pieces(rd)[i]
      BY <1>3, <3>1
    <3>5. StrideOf(seg) \in Strides(l, seg.name)
      BY <3>4, InVolumes
    <3>6. seg.name \in DOMAIN g.set <=> \E j \in DOMAIN g.set[top].subs : g.set[top].subs[j] = seg.name
      <4>1. top \in DOMAIN g.set /\ IsList(g.set[top].subs)
        BY <2>1 DEF SetsInv, IsSets, IsRs
      <4>2. (\E j \in DOMAIN g.set[top].subs : g.set[top].subs[j] = seg.name) <=> Elem(g.set[top].subs, seg.name)
        BY <4>1 DEF Elem, IsList
      <4>3. Elem(g.set[top].subs, seg.name) => seg.name \in DOMAIN g.set
        BY <2>1, <4>1 DEF SetsInv, Linking
      <4>4. ASSUME seg.name \in DOMAIN g.set PROVE Elem(g.set[top].subs, seg.name)
        <5>1. Under(l, seg.name, top)
          BY <3>3 DEF Under
        <5>2. PICK m \in DOMAIN g.set : Elem(g.set[m].subs, seg.name)
          BY <2>1, <4>4, <5>1 DEF SetsInv, Rooted
        <5>3. Under(l, seg.name, m)
          BY <2>1, <5>2 DEF SetsInv, Linking
        <5>4. m = top
          BY <5>1, <5>3, UnderOne
        <5> QED
          BY <5>2, <5>4
      <4> QED
        BY <4>2, <4>3, <4>4
    <3>7. Puts(l, g, e, seg, seg.name, {top})
      <4>1. IsSets(g)
        BY <2>1 DEF SetsInv
      <4> QED
        BY <2>1, <3>2, <3>3, <3>5, <3>6, <4>1, Ddf1Segmented
    <3>8. Clear(g, seg)
      BY <1>0, <2>1, <3>3, <3>4, BegunClear DEF Sound
    <3>9. SetsInv(l, e)
      BY <1>4, <2>1, <3>3, <3>7, <3>8, PutKeeps
    <3>10. Spared(f, e, rd.disk)
      BY <2>1, <3>3, <3>7, PutSpared, SparedTwice
    <3>11. Begun(e, rd, i + 1)
      BY <1>0, <2>1, <3>4, <3>7, PutBegun
    <3>12. top \in e.top
      BY <2>1, <3>7 DEF Puts, Put
    <3> QED
      BY <3>9, <3>10, <3>11, <3>12 DEF e
  <2> QED
    BY <2>3, <2>4
<1> DEFINE Bad == {i \in 0 .. N : ~Good(done[i], i)}
<1> HIDE DEF Good
<1>7. Bad = {}
  <2>1. SUFFICES ASSUME Bad # {} PROVE FALSE
    OBVIOUS
  <2>2. Bad \in SUBSET Nat /\ \A i : i \in Bad <=> i \in 0 .. N /\ ~Good(done[i], i)
    BY <1>1
  <2> HIDE DEF Bad
  <2>3. PICK i \in Bad : \A j \in Bad : i <= j
    BY <2>1, <2>2, LeastNat
  <2>4. i # 0
    BY <1>5, <2>2, <2>3
  <2>5. i \in 1 .. N /\ i - 1 \in 0 .. N /\ ~(i <= i - 1)
    BY <1>1, <2>2, <2>3, <2>4
  <2>6. Good(done[i-1], i - 1)
    BY <2>2, <2>3, <2>5
  <2> QED
    BY <1>6, <2>2, <2>3, <2>5, <2>6
<1>8. Good(done[N], N) /\ h = done[N]
  BY <1>1, <1>2, <1>7
<1> QED
  BY <1>8 DEF Good

\* A device of a disk that no set has.
LEMMA GroupedKeeps ==
  ASSUME NEW l, OneParent(l), NEW f, SetsInv(l, f), NEW rd \in AllDevs(l), Sound(rd), Free(f, rd.disk)
  PROVE  SetsInv(l, Grouped(f, rd)) /\ Spared(f, Grouped(f, rd), rd.disk)
<1> DEFINE Good(h) == SetsInv(l, h) /\ Spared(f, h, rd.disk)
           gs == Group(f, rd)
           g  == Leftover(f, rd)
           h  == CHOOSE h \in gs : TRUE
<1>1. Grouped(f, rd) = IF gs # {} THEN Wanted(h)
                       ELSE IF Found(g, rd.name) THEN Freed(g, rd.name) ELSE g
  BY DEF Grouped, Settled
<1>2. ASSUME NEW x \in gs PROVE Good(x)
  <2>1. CASE rd.fmt = "pdc"
    <3>1. x = Pdc!GroupAreas(f, rd).sets
      BY <1>2, <2>1 DEF Group, Pdc!Group
    <3> QED
      BY <2>1, <3>1, PdcKeeps
  <2>2. CASE rd.fmt = "ddf1"
    <3>1. x \in Ddf1!Group(f, rd)
      BY <1>2, <2>2 DEF Group
    <3> QED
      BY <2>2, <3>1, Ddf1Keeps
  <2>3. CASE rd.fmt \notin {"ddf1", "pdc"}
    BY <1>2, <2>3, SingleKeeps
  <2> QED
    BY <2>1, <2>2, <2>3
<1>3. Good(g)
  <2>1. CASE g = f
    BY <2>1 DEF Spared
  <2>2. CASE rd.fmt = "pdc" /\ g = Pdc!GroupAreas(f, rd).sets
    <3> HIDE DEF g
    <3> QED
      BY <2>2, PdcKeeps
  <2> QED
    BY <2>1, <2>2 DEF Leftover, Pdc!Leftover
<1> HIDE DEF gs, g
<1>4. CASE gs # {}
  <2>1. Good(h)
    BY <1>2, <1>4
  <2> HIDE DEF h
  <2>2. SetsInv(l, Wanted(h)) /\ \A disk : Free(h, disk) => Free(Wanted(h), disk)
    BY <2>1, WantedKeeps
  <2>3. Spared(f, Wanted(h), rd.disk)
    BY <2>1, <2>2 DEF Spared
  <2> QED
    BY <1>1, <1>4, <2>2, <2>3
<1>5. CASE gs = {} /\ Found(g, rd.name)
  <2>1. rd.name \in DOMAIN g.set
    BY <1>5 DEF Found
  <2>2. SetsInv(l, Freed(g, rd.name)) /\ \A disk : Free(g, disk) => Free(Freed(g, rd.name), disk)
    BY <1>3, <2>1, FreedKeeps
  <2>3. Spared(f, Freed(g, rd.name), rd.disk)
    BY <1>3, <2>2 DEF Spared
  <2> QED
    BY <1>1, <1>5, <2>2, <2>3
<1>6. CASE gs = {} /\ ~Found(g, rd.name)
  BY <1>1, <1>3, <1>6
<1> QED
  BY <1>4, <1>5, <1>6

-----------------------------------------------------------------------------
(* The inductive invariant of the discovery.                               *)

\* The devices that are not grouped yet are of disks that are not read
\* again, one of each, and no set has a device of these disks.
Pending ==
  /\ IsList(found)
  /\ \A i \in 1 .. Len(found) :
       /\ found[i] \in AllDevs(layout)
       /\ found[i].disk \notin todo
       /\ Free(sets, found[i].disk)
  /\ \A i, j \in 1 .. Len(found) : found[i].disk = found[j].disk => i = j
  /\ \A disk \in todo : Free(sets, disk)

IInv ==
  /\ layout \in Layouts
  /\ todo \subseteq DOMAIN layout.native
  /\ SetsInv(layout, sets)
  /\ Pending
  /\ unchecked \subseteq sets.top
  /\ phase \in {"discover", "build"} => unchecked = {}

\* What is assumed of a layout.
LEMMA LayoutIs ==
  ASSUME NEW l \in Layouts
  PROVE  OneParent(l) /\ (l.agree => Agreement(l)) /\ \A rd \in AllDevs(l) : Sound(rd)
BY LayoutsAssumption DEF Sound

\* dmraid_read() gives no device or one, and of the disk that was read.
LEMMA DiscoveredIs ==
  ASSUME NEW disk \in DOMAIN layout.native
  PROVE  \/ Discovered(disk) = <<>>
         \/ \E rd \in AllDevs(layout) : rd.disk = disk /\ Discovered(disk) = <<rd>>
<1> DEFINE rds(fmt) == {rd \in RaidDevs(layout, disk) : rd.fmt = fmt}
           I == {i \in 1 .. Len(Formats) : rds(Formats[i]) # {}}
           i == SelectInSeq(Formats, LAMBDA fmt : rds(fmt) # {})
<1>1. Discovered(disk) = IF i = 0 THEN <<>> ELSE <<CHOOSE rd \in rds(Formats[i]) : TRUE>>
  BY Zenon DEF Discovered
<1>2. i = IF I # {} THEN Min(I) ELSE 0
  BY Zenon DEF SelectInSeq
<1> HIDE DEF i
<1>3. CASE I = {}
  <2>1. i = 0
    BY <1>2, <1>3
  <2> QED
    BY <1>1, <2>1
<1>4. CASE I # {}
  <2>1. I \in SUBSET Nat
    OBVIOUS
  <2>2. i \in I
    <3> HIDE DEF I
    <3> QED
      BY <1>2, <1>4, <2>1, LeastNat DEF Min
  <2>3. i # 0 /\ rds(Formats[i]) # {}
    BY <2>2
  <2> HIDE DEF I
  <2> DEFINE rd == CHOOSE rd \in rds(Formats[i]) : TRUE
  <2>4. rd \in rds(Formats[i])
    BY <2>3
  <2>5. Discovered(disk) = <<rd>>
    BY <1>1, <2>3
  <2>6. rd \in RaidDevs(layout, disk)
    BY <2>4
  <2> HIDE DEF rd
  <2>7. rd \in AllDevs(layout) /\ rd.disk = disk
    BY <2>6, ReadKnown
  <2> QED
    BY <2>5, <2>7
<1> QED
  BY <1>3, <1>4

\* Init: there are no sets and no devices.
LEMMA InitIInv == Init => IInv
<1>1. SUFFICES ASSUME Init PROVE IInv
  OBVIOUS
<1>2. sets.set = [n \in {} |-> NewSet] /\ sets.top = {} /\ DOMAIN sets.set = {}
  BY <1>1 DEF Init, NoSets
<1>3. IsSets(sets)
  BY <1>1 DEF Init, NoSets, IsSets
<1>4. SetsInv(layout, sets)
  BY <1>2, <1>3 DEF SetsInv, Kinds, Named, Separate, IsPlace, Strided, Linking, Rooted
<1>5. Pending
  BY <1>1, <1>2, EmptyList DEF Init, Pending, Free
<1> QED
  BY <1>1, <1>2, <1>4, <1>5 DEF Init, IInv

\* One more device at the end of the list.
LEMMA AppendedList ==
  ASSUME NEW s, IsList(s), NEW e
  PROVE  /\ IsList(s \o <<e>>)
         /\ Len(s \o <<e>>) = Len(s) + 1
         /\ \A i \in 1 .. Len(s) : (s \o <<e>>)[i] = s[i]
         /\ (s \o <<e>>)[Len(s) + 1] = e
<1> DEFINE S == {s[i] : i \in 1 .. Len(s)} \cup {e}
           t == s \o <<e>>
<1>1. s \in Seq(S) /\ <<e>> \in Seq(S) /\ Len(<<e>>) = 1 /\ <<e>>[1] = e /\ Len(s) \in Nat
  BY SeqDef DEF IsList
<1>2. t \in Seq(S) /\ Len(t) = Len(s) + 1
  BY <1>1, ConcatProperties
<1>3. \A i \in 1 .. Len(s) + 1 : t[i] = IF i <= Len(s) THEN s[i] ELSE <<e>>[i - Len(s)]
  BY <1>1, ConcatProperties
<1>4. \A i \in 1 .. Len(s) : t[i] = s[i]
  BY <1>1, <1>3
<1>5. t[Len(s) + 1] = e
  <2>1. Len(s) + 1 \in 1 .. Len(s) + 1 /\ ~(Len(s) + 1 <= Len(s)) /\ (Len(s) + 1) - Len(s) = 1
    BY <1>1
  <2> QED
    BY <1>1, <1>3, <2>1
<1>6. IsList(t)
  <2>1. DOMAIN t = 1 .. Len(t) /\ t = [i \in 1 .. Len(t) |-> t[i]]
    BY <1>2, LenProperties
  <2> QED
    BY <1>1, <1>2, <2>1 DEF IsList
<1> QED
  BY <1>2, <1>4, <1>5, <1>6

\* The list without its first entry.
LEMMA TailList ==
  ASSUME NEW s, IsList(s), s # <<>>
  PROVE  /\ IsList(Tail(s))
         /\ 1 \in 1 .. Len(s) /\ Head(s) = s[1]
         /\ \A i \in 1 .. Len(Tail(s)) : i + 1 \in 1 .. Len(s) /\ i + 1 # 1 /\ Tail(s)[i] = s[i + 1]
<1> DEFINE S == {s[i] : i \in 1 .. Len(s)}
           t == Tail(s)
<1>1. s \in Seq(S) /\ Len(s) \in Nat
  BY IsListSeq DEF IsList
<1>2. Head(s) = s[1] /\ t \in Seq(S) /\ Len(t) = Len(s) - 1 /\ \A i \in 1 .. Len(t) : t[i] = s[i + 1]
  BY <1>1, HeadTailProperties
<1>3. Len(s) # 0
  BY <1>1, EmptySeq
<1>4. IsList(t)
  <2>1. DOMAIN t = 1 .. Len(t) /\ t = [i \in 1 .. Len(t) |-> t[i]]
    BY <1>2, LenProperties
  <2> QED
    BY <1>1, <1>2, <2>1, LenProperties DEF IsList
<1> HIDE DEF t, S
<1> QED
  BY <1>1, <1>2, <1>3, <1>4 DEF t

\* Scan(disk): a disk that was not read before gives the new device.
LEMMA ScanKeeps ==
  ASSUME IInv, NEW disk \in todo, Scan(disk)
  PROVE  IInv'
<1>1. disk \in DOMAIN layout.native /\ Pending /\ SetsInv(layout, sets)
  BY DEF IInv
<1>2. layout' = layout /\ sets' = sets /\ unchecked' = unchecked /\ todo' = todo \ {disk}
      /\ found' = found \o Discovered(disk)
  BY DEF Scan
<1>3. phase = "discover" /\ phase' \in {"discover", "build"}
  BY DEF Scan
<1>4. IsList(found) /\ Len(found) \in Nat
  BY <1>1 DEF Pending, IsList
<1>5. \A i \in 1 .. Len(found) : /\ found[i] \in AllDevs(layout) /\ found[i].disk \notin todo
                                 /\ Free(sets, found[i].disk)
  BY <1>1 DEF Pending
<1>6. \A i, j \in 1 .. Len(found) : found[i].disk = found[j].disk => i = j
  BY <1>1 DEF Pending
<1>7. \A d \in todo : Free(sets, d)
  BY <1>1 DEF Pending
<1>8. Pending'
  <2>1. CASE Discovered(disk) = <<>>
    <3>1. found \in Seq({found[i] : i \in 1 .. Len(found)})
      BY <1>4, IsListSeq
    <3>2. found' = found
      BY <1>2, <2>1, <3>1, ConcatEmptySeq
    <3> QED
      BY <1>2, <1>4, <1>5, <1>6, <1>7, <3>2 DEF Pending
  <2>2. CASE \E rd \in AllDevs(layout) : rd.disk = disk /\ Discovered(disk) = <<rd>>
    <3>1. PICK rd \in AllDevs(layout) : rd.disk = disk /\ Discovered(disk) = <<rd>>
      BY <2>2
    <3>2. found' = found \o <<rd>>
      BY <1>2, <3>1
    <3>3. /\ IsList(found') /\ Len(found') = Len(found) + 1
          /\ \A i \in 1 .. Len(found) : found'[i] = found[i]
          /\ found'[Len(found) + 1] = rd
      BY <1>4, <3>2, AppendedList
    <3>4. \A i \in 1 .. Len(found') : i \in 1 .. Len(found) \/ i = Len(found) + 1
      BY <1>4, <3>3
    <3>5. \A i \in 1 .. Len(found') :
            found'[i] \in AllDevs(layout) /\ found'[i].disk \notin todo' /\ Free(sets, found'[i].disk)
      BY <1>2, <1>5, <1>7, <3>1, <3>3, <3>4
    <3>6. \A i, j \in 1 .. Len(found') : found'[i].disk = found'[j].disk => i = j
      BY <1>5, <1>6, <3>1, <3>3, <3>4
    <3> QED
      BY <1>2, <1>7, <3>3, <3>5, <3>6 DEF Pending
  <2> QED
    BY <1>1, <2>1, <2>2, DiscoveredIs
<1> QED
  BY <1>1, <1>2, <1>3, <1>8 DEF IInv

\* Build: the first device is grouped, and the others are of other disks.
LEMMA BuildKeeps ==
  ASSUME IInv, Build
  PROVE  IInv'
<1>1. layout \in Layouts /\ Pending /\ SetsInv(layout, sets) /\ todo \subseteq DOMAIN layout.native
  BY DEF IInv
<1>2. /\ layout' = layout /\ todo' = todo /\ unchecked' = unchecked /\ phase' = phase /\ phase = "build"
      /\ found # <<>> /\ found' = Tail(found)
  BY DEF Build
<1> DEFINE rd == found[1]
<1>3. IsList(found) /\ 1 \in 1 .. Len(found) /\ Head(found) = rd /\ IsList(found')
      /\ \A i \in 1 .. Len(found') : i + 1 \in 1 .. Len(found) /\ i + 1 # 1 /\ found'[i] = found[i + 1]
  BY <1>1, <1>2, TailList DEF Pending
<1>4. sets' = Grouped(sets, rd)
  BY <1>3 DEF Build
<1>5. \A i \in 1 .. Len(found) : /\ found[i] \in AllDevs(layout) /\ found[i].disk \notin todo
                                 /\ Free(sets, found[i].disk)
  BY <1>1 DEF Pending
<1>6. rd \in AllDevs(layout) /\ rd.disk \notin todo /\ Free(sets, rd.disk)
  BY <1>3, <1>5
<1> HIDE DEF rd
<1>7. SetsInv(layout, sets') /\ Spared(sets, sets', rd.disk)
  BY <1>1, <1>4, <1>6, LayoutIs, GroupedKeeps
<1>8. \A i, j \in 1 .. Len(found) : found[i].disk = found[j].disk => i = j
  BY <1>1 DEF Pending
<1>9. ASSUME NEW i \in 1 .. Len(found')
      PROVE  found'[i] \in AllDevs(layout) /\ found'[i].disk \notin todo /\ Free(sets', found'[i].disk)
  <2>1. i + 1 \in 1 .. Len(found) /\ i + 1 # 1 /\ found'[i] = found[i + 1]
    BY <1>3
  <2>2. found[i + 1].disk # rd.disk
    BY <1>3, <1>8, <2>1 DEF rd
  <2> QED
    BY <1>5, <1>7, <2>1, <2>2 DEF Spared
<1>10. \A i, j \in 1 .. Len(found') : found'[i].disk = found'[j].disk => i = j
  <2>1. SUFFICES ASSUME NEW i \in 1 .. Len(found'), NEW j \in 1 .. Len(found'), found'[i].disk = found'[j].disk
                 PROVE  i = j
    OBVIOUS
  <2>2. i + 1 = j + 1
    BY <1>3, <1>8, <2>1
  <2>3. Len(found') \in Nat
    BY <1>3 DEF IsList
  <2> QED
    BY <2>2, <2>3
<1>11. \A disk \in todo : Free(sets', disk)
  <2>1. \A disk \in todo : Free(sets, disk) /\ disk # rd.disk
    BY <1>1, <1>6 DEF Pending
  <2> QED
    BY <1>7, <2>1 DEF Spared
<1>12. Pending'
  BY <1>2, <1>3, <1>9, <1>10, <1>11 DEF Pending
<1>13. unchecked = {}
  BY <1>2 DEF IInv
<1> QED
  BY <1>1, <1>2, <1>7, <1>12, <1>13 DEF IInv

\* CheckRaidSet(n): the sets that are not checked yet stay on the list.
LEMMA CheckKeeps ==
  ASSUME IInv, NEW n \in unchecked, CheckRaidSet(n)
  PROVE  IInv'
<1>1. layout \in Layouts /\ Pending /\ SetsInv(layout, sets) /\ todo \subseteq DOMAIN layout.native
      /\ unchecked \subseteq sets.top
  BY DEF IInv
<1>2. /\ layout' = layout /\ todo' = todo /\ found' = found /\ phase' = phase /\ phase = "check"
      /\ unchecked' = unchecked \ {n} /\ sets' = Kept(sets, n)
  BY DEF CheckRaidSet
<1>3. SetsInv(layout, sets') /\ (\A disk : Free(sets, disk) => Free(sets', disk)) /\ sets.top \ {n} \subseteq sets'.top
  BY <1>1, <1>2, LayoutIs, KeptKeeps
<1>4. Pending'
  BY <1>1, <1>2, <1>3 DEF Pending
<1> QED
  BY <1>1, <1>2, <1>3, <1>4 DEF IInv

\* Every step keeps the invariant.
LEMMA StepIInv == IInv /\ [Next]_vars => IInv'
<1>1. SUFFICES ASSUME IInv, [Next]_vars PROVE IInv'
  OBVIOUS
<1>2. CASE \E disk \in todo : Scan(disk)
  BY <1>1, <1>2, ScanKeeps
<1>3. CASE Build
  BY <1>1, <1>3, BuildKeeps
<1>4. CASE Built
  BY <1>1, <1>4 DEF Built, IInv, Pending
<1>5. CASE \E n \in unchecked : CheckRaidSet(n)
  BY <1>1, <1>5, CheckKeeps
<1>6. CASE Done
  BY <1>1, <1>6 DEF Done, IInv, Pending
<1>7. CASE UNCHANGED vars
  BY <1>1, <1>7 DEF vars, IInv, Pending
<1> QED
  BY <1>1, <1>2, <1>3, <1>4, <1>5, <1>6, <1>7 DEF Next

\* The invariant holds in every state of the discovery, for all layouts.
THEOREM DiscoveryInvariant == Spec => []IInv
BY InitIInv, StepIInv, PTL DEF Spec

-----------------------------------------------------------------------------
(* The properties.                                                         *)

\* A place of the properties is one of the invariant.
LEMMA PlaceIs ==
  ASSUME IInv, NEW p \in Places
  PROVE  /\ p = <<p[1], p[2]>> /\ IsPlace(sets, p[1], p[2])
         /\ sets.set[p[1]].type # "group" /\ Device(p) = sets.set[p[1]].devs[p[2]]
<1>1. PICK n \in Leaves : p \in {n} \X DOMAIN sets.set[n].devs
  BY DEF Places
<1>2. p = <<p[1], p[2]>> /\ p[1] = n /\ p[2] \in DOMAIN sets.set[n].devs
  BY <1>1
<1>3. n \in DOMAIN sets.set /\ sets.set[n].type # "group"
  BY DEF Leaves
<1>4. n # Ddf1!Disks
  BY <1>3 DEF IInv, SetsInv, Kinds
<1>5. DOMAIN sets.set[n].devs = 1 .. Len(sets.set[n].devs)
  BY <1>3 DEF IInv, SetsInv, IsSets, IsRs, IsList
<1> QED
  BY <1>2, <1>3, <1>4, <1>5 DEF IsPlace, Device

\* The devices of the sets have no sector in common.
LEMMA IInvExclusive == IInv => Exclusive
<1>1. SUFFICES ASSUME IInv, NEW p \in Places, NEW q \in Places, p # q PROVE Apart(Device(p), Device(q))
  BY DEF Exclusive
<1>2. p = <<p[1], p[2]>> /\ IsPlace(sets, p[1], p[2]) /\ Device(p) = sets.set[p[1]].devs[p[2]]
  BY <1>1, PlaceIs
<1>3. q = <<q[1], q[2]>> /\ IsPlace(sets, q[1], q[2]) /\ Device(q) = sets.set[q[1]].devs[q[2]]
  BY <1>1, PlaceIs
<1>4. p[1] # q[1] \/ p[2] # q[2]
  BY <1>1, <1>2, <1>3
<1>5. Separate(sets)
  BY <1>1 DEF IInv, SetsInv
<1> QED
  BY <1>2, <1>3, <1>4, <1>5 DEF Separate

\* A set is only made of devices with its own stride, or with none.
LEMMA IInvUniform == IInv => Uniform
<1>1. SUFFICES ASSUME IInv, NEW p \in Places, layout.agree \/ Device(p).fmt \notin {"asr", "ddf1"},
                      sets.set[p[1]].type # "spare"
               PROVE  StrideOf(Device(p)) \in {0, sets.set[p[1]].stride}
  BY DEF Uniform
<1> DEFINE n == p[1]
           i == p[2]
<1>2. IsPlace(sets, n, i) /\ Device(p) = sets.set[n].devs[i]
  BY <1>1, PlaceIs
<1> HIDE DEF n, i
<1>3. n \in DOMAIN sets.set /\ i \in 1 .. Len(sets.set[n].devs) /\ n # Ddf1!Disks
  BY <1>2 DEF IsPlace
<1>4. Device(p).fmt = n[1]
  BY <1>1, <1>2, <1>3 DEF IInv, SetsInv, Named
<1>5. n # Asr!Spares
  BY <1>1, <1>3 DEF IInv, SetsInv, Kinds, n
<1>6. CASE n[1] \notin Unchecked
  <2>1. StrideKept(sets.set[n], sets.set[n].devs[i])
    BY <1>1, <1>3, <1>6 DEF IInv, SetsInv, Strided
  <2> QED
    BY <1>2, <2>1 DEF StrideKept, n
<1>7. CASE n[1] \in Unchecked
  <2>1. StrideOf(sets.set[n].devs[i]) \in Strides(layout, n) /\ sets.set[n].stride \in Strides(layout, n)
    BY <1>1, <1>3, <1>5, <1>7 DEF IInv, SetsInv, Strided
  <2>2. Agreement(layout)
    BY <1>1, <1>4, <1>7, LayoutIs DEF IInv, Unchecked
  <2>3. StrideOf(sets.set[n].devs[i]) = sets.set[n].stride
    BY <2>1, <2>2, OneStride
  <2> QED
    BY <1>2, <2>3 DEF n
<1> QED
  BY <1>6, <1>7

\* The links to a set: the places of its name on the lists of subsets.
LinksTo(n) ==
  UNION {{<<m, i>> : i \in {j \in DOMAIN sets.set[m].subs : sets.set[m].subs[j] = n}} : m \in DOMAIN sets.set}

\* The sets are a forest.
LEMMA IInvForest == IInv => Forest
<1>1. SUFFICES ASSUME IInv, NEW n \in DOMAIN sets.set
               PROVE  /\ Cardinality(LinksTo(n)) + (IF n \in sets.top THEN 1 ELSE 0) = 1
                      /\ ToSet(sets.set[n].subs) \subseteq DOMAIN sets.set
  BY Zenon DEF Forest, LinksTo
<1>2. OneParent(layout) /\ IsSets(sets) /\ Linking(layout, sets) /\ Rooted(layout, sets)
  BY <1>1, LayoutIs DEF IInv, SetsInv
<1>3. \A m \in DOMAIN sets.set : DOMAIN sets.set[m].subs = 1 .. Len(sets.set[m].subs)
  BY <1>2 DEF IsSets, IsRs, IsList
<1>4. \A m \in DOMAIN sets.set : \A x : Elem(sets.set[m].subs, x) => x \in DOMAIN sets.set /\ Under(layout, x, m)
  BY <1>2 DEF Linking
<1>5. ToSet(sets.set[n].subs) \subseteq DOMAIN sets.set
  <2>1. \A x : x \in ToSet(sets.set[n].subs) => Elem(sets.set[n].subs, x)
    BY <1>1, <1>3 DEF ToSet, Elem
  <2> QED
    BY <1>1, <1>4, <2>1
<1>6. \A x : x \in LinksTo(n) <=> \E m \in DOMAIN sets.set : \E j \in 1 .. Len(sets.set[m].subs) :
                                    sets.set[m].subs[j] = n /\ x = <<m, j>>
  BY <1>3 DEF LinksTo
<1>7. CASE n \in sets.top
  <2>1. \A m \in DOMAIN sets.set : ~Elem(sets.set[m].subs, n)
    BY <1>1, <1>2, <1>4, <1>7 DEF Rooted
  <2>2. LinksTo(n) = {}
    BY <1>6, <2>1 DEF Elem
  <2>3. Cardinality(LinksTo(n)) = 0
    BY <2>2, FS_EmptySet
  <2> QED
    BY <1>5, <1>7, <2>3
<1>8. CASE n \notin sets.top
  <2>1. PICK m \in DOMAIN sets.set : Elem(sets.set[m].subs, n)
    BY <1>1, <1>2, <1>8 DEF Rooted
  <2>2. PICK j \in 1 .. Len(sets.set[m].subs) : sets.set[m].subs[j] = n
    BY <2>1 DEF Elem
  <2>3. ASSUME NEW x \in LinksTo(n) PROVE x = <<m, j>>
    <3>1. PICK k \in DOMAIN sets.set : \E i \in 1 .. Len(sets.set[k].subs) : sets.set[k].subs[i] = n /\ x = <<k, i>>
      BY <1>6, <2>3
    <3>2. PICK i \in 1 .. Len(sets.set[k].subs) : sets.set[k].subs[i] = n /\ x = <<k, i>>
      BY <3>1
    <3>3. Under(layout, n, k) /\ Under(layout, n, m)
      BY <1>4, <2>1, <3>2 DEF Elem
    <3>4. k = m
      BY <1>2, <3>3, UnderOne
    <3>5. i = j
      BY <1>2, <2>2, <3>2, <3>4 DEF Linking, Distinct
    <3> QED
      BY <3>2, <3>4, <3>5
  <2>4. <<m, j>> \in LinksTo(n)
    BY <1>6, <2>2
  <2>5. LinksTo(n) = {<<m, j>>}
    BY <2>3, <2>4
  <2>6. Cardinality(LinksTo(n)) = 1
    BY <2>5, FS_Singleton
  <2> QED
    BY <1>5, <1>8, <2>6
<1> QED
  BY <1>7, <1>8

\* No sector of a disk is ever in two sets, or twice in one, whatever the
\* disks hold and in whatever order they come (dmraid_read, build_set,
\* free_raid_set, group_rd of pdc and of ddf1).
THEOREM DiscoveryExclusive == Spec => []Exclusive
BY DiscoveryInvariant, IInvExclusive, PTL

\* Each set is always on the list of the library context or in one
\* superset, once, and no superset names a set that was freed
\* (find_or_alloc_raid_set, join_superset, free_raid_set).
THEOREM DiscoveryForest == Spec => []Forest
BY DiscoveryInvariant, IInvForest, PTL

\* No set ever has devices of two strides (init_raid_set).
THEOREM DiscoveryUniform == Spec => []Uniform
BY DiscoveryInvariant, IInvUniform, PTL

=============================================================================
