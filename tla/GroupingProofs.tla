-------------------------- MODULE GroupingProofs ----------------------------
(***************************************************************************)
(* What the handlers of the formats do to the sets when a device is        *)
(* grouped (the group methods of lib/format and group_rd), for all         *)
(* metadata and all sets.                                                  *)
(*                                                                         *)
(* Each handler has its own way to find the set, to check the stride, to   *)
(* sort the device in and to hang the set under a superset; here every one *)
(* of them is shown to put the device into the one set where it belongs    *)
(* and to leave the others as they are (Put, Puts), or to fail. Where in   *)
(* its list a device goes is left open (Inserted): the properties that are *)
(* proved do not depend on the order.                                      *)
(*                                                                         *)
(* No recursive definition is unfolded by induction: a list has a least    *)
(* place where it goes wrong or none (LeastNat).                           *)
(***************************************************************************)
EXTENDS Discovery, SequenceTheorems, WellFoundedInduction, TLAPS

-----------------------------------------------------------------------------
(* Least numbers and lists.                                                *)

\* Every set of numbers that is not empty has a least one.
LEMMA LeastNat ==
  ASSUME NEW T \in SUBSET Nat, T # {}
  PROVE  \E x \in T : \A y \in T : x <= y
<1>1. PICK x \in T : \A y \in T : <<y, x>> \notin OpToRel(<, Nat)
  BY NatLessThanWellFounded, WFMin, Zenon
<1>2. SUFFICES ASSUME NEW y \in T PROVE x <= y
  OBVIOUS
<1>3. <<y, x>> \notin {p \in Nat \X Nat : p[1] < p[2]}
  BY <1>1 DEF OpToRel
<1> QED
  BY <1>3

IsList(s) == Len(s) \in Nat /\ s = [i \in 1 .. Len(s) |-> s[i]]

Spread(list, new, k) ==
  [i \in 1 .. Len(list) + 1 |-> IF i < k THEN list[i] ELSE IF i = k THEN new ELSE list[i-1]]

\* s is the list with a new entry somewhere.
Inserted(s, list, new) ==
  \E k \in 1 .. Len(list) + 1 : s = Spread(list, new, k)

\* Such a list is a sequence of its entries.
LEMMA IsListSeq ==
  ASSUME NEW s, IsList(s)
  PROVE  s \in Seq({s[i] : i \in 1 .. Len(s)})
<1> DEFINE S == {s[i] : i \in 1 .. Len(s)}
<1>1. s \in [1 .. Len(s) -> S]
  BY DEF IsList
<1> QED
  BY <1>1, SeqDef DEF IsList

\* A list with a new entry is a list, one longer.
LEMMA SpreadList ==
  ASSUME NEW list, IsList(list), NEW new, NEW k \in 1 .. Len(list) + 1
  PROVE  /\ IsList(Spread(list, new, k))
         /\ Len(Spread(list, new, k)) = Len(list) + 1
<1> DEFINE S == {list[i] : i \in 1 .. Len(list)} \cup {new}
           n == Len(list) + 1
           s == Spread(list, new, k)
<1>1. n \in Nat /\ s \in [1 .. n -> S]
  BY DEF IsList, Spread
<1>2. s \in Seq(S) /\ Len(s) = n
  BY <1>1, SeqDef, LenProperties
<1> QED
  BY <1>1, <1>2 DEF IsList

\* Append() puts the new entry last.
LEMMA AppendIs ==
  ASSUME NEW list, IsList(list), NEW new
  PROVE  Append(list, new) = Spread(list, new, Len(list) + 1)
<1> DEFINE S == {list[i] : i \in 1 .. Len(list)} \cup {new}
<1>1. list \in Seq(S)
  BY SeqDef DEF IsList
<1>2. /\ Append(list, new) \in Seq(S) /\ Len(Append(list, new)) = Len(list) + 1
      /\ \A i \in 1 .. Len(list) : Append(list, new)[i] = list[i]
      /\ Append(list, new)[Len(list) + 1] = new
  BY <1>1, AppendProperties
<1>3. Append(list, new) = [i \in 1 .. Len(list) + 1 |-> Append(list, new)[i]]
  BY <1>2, LenProperties
<1>4. ASSUME NEW i \in 1 .. Len(list) + 1
      PROVE  Append(list, new)[i] = IF i < Len(list) + 1 THEN list[i] ELSE new
  BY <1>2 DEF IsList
<1> QED
  BY <1>3, <1>4 DEF Spread, IsList

\* InsertAt() puts the new entry at the place given.
LEMMA InsertAtIs ==
  ASSUME NEW list, IsList(list), NEW new, NEW k \in 1 .. Len(list)
  PROVE  InsertAt(list, k, new) = Spread(list, new, k)
<1> DEFINE S == {list[i] : i \in 1 .. Len(list)} \cup {new}
           a == SubSeq(list, 1, k - 1)
           b == SubSeq(list, k, Len(list))
<1>1. list \in Seq(S) /\ <<new>> \in Seq(S) /\ Len(<<new>>) = 1 /\ <<new>>[1] = new
  BY SeqDef DEF IsList
<1>2. a \in Seq(S) /\ Len(a) = k - 1 /\ \A i \in 1 .. k - 1 : a[i] = list[i]
  BY <1>1, SubSeqProperties DEF IsList
<1>3. b \in Seq(S) /\ Len(b) = Len(list) - k + 1 /\ \A i \in 1 .. Len(list) - k + 1 : b[i] = list[k + i - 1]
  BY <1>1, SubSeqProperties DEF IsList
<1>4. a \o <<new>> \in Seq(S) /\ Len(a \o <<new>>) = k
      /\ \A i \in 1 .. k : (a \o <<new>>)[i] = IF i < k THEN list[i] ELSE new
  BY <1>1, <1>2, ConcatProperties DEF IsList
<1>5. /\ a \o <<new>> \o b \in Seq(S) /\ Len(a \o <<new>> \o b) = Len(list) + 1
      /\ \A i \in 1 .. Len(list) + 1 : (a \o <<new>> \o b)[i] = IF i < k THEN list[i] ELSE IF i = k THEN new ELSE list[i-1]
  <2>1. Len(a \o <<new>> \o b) = Len(list) + 1
    BY <1>3, <1>4, ConcatProperties DEF IsList
  <2>2. ASSUME NEW i \in 1 .. Len(list) + 1
        PROVE  (a \o <<new>> \o b)[i] = IF i < k THEN list[i] ELSE IF i = k THEN new ELSE list[i-1]
    <3> DEFINE c == a \o <<new>>
    <3>c. c \in Seq(S) /\ b \in Seq(S) /\ Len(c) = k /\ Len(b) = Len(list) - k + 1
      BY <1>3, <1>4
    <3>0. ASSUME NEW x \in Seq(S), NEW y \in Seq(S), NEW j \in 1 .. Len(x) + Len(y)
          PROVE  (x \o y)[j] = IF j <= Len(x) THEN x[j] ELSE y[j - Len(x)]
      BY ConcatProperties
    <3>d. i \in 1 .. Len(c) + Len(b)
      BY <3>c DEF IsList
    <3>1. (a \o <<new>> \o b)[i] = IF i <= k THEN (a \o <<new>>)[i] ELSE b[i - k]
      <4> HIDE DEF a, b, S
      <4>1. (c \o b)[i] = IF i <= Len(c) THEN c[i] ELSE b[i - Len(c)]
        <5> HIDE DEF c
        <5> QED BY <3>0, <3>c, <3>d
      <4> QED
        BY <4>1, <3>c
    <3>2. i > k => i - k \in 1 .. Len(list) - k + 1 /\ k + (i - k) - 1 = i - 1
      BY DEF IsList
    <3> HIDE DEF a, b
    <3> QED
      BY <1>3, <1>4, <3>1, <3>2
  <2> QED
    BY <1>3, <1>4, <2>1, <2>2, ConcatProperties
<1>6. IsList(Spread(list, new, k)) /\ Len(Spread(list, new, k)) = Len(list) + 1
  BY SpreadList
<1>7. a \o <<new>> \o b = [i \in 1 .. Len(list) + 1 |-> (a \o <<new>> \o b)[i]]
  BY <1>5, SMTT(30)
<1>8. InsertAt(list, k, new) = a \o <<new>> \o b
  BY DEF InsertAt
<1> QED
  BY <1>5, <1>7, <1>8 DEF Spread

\* An insertion at no place or at the least of some places.
LEMMA InsertedAt ==
  ASSUME NEW list, IsList(list), NEW new, NEW s,
         s = Append(list, new) \/ \E k \in 1 .. Len(list) : s = InsertAt(list, k, new)
  PROVE  Inserted(s, list, new)
<1>1. Len(list) + 1 \in 1 .. Len(list) + 1 /\ \A k \in 1 .. Len(list) : k \in 1 .. Len(list) + 1
  BY DEF IsList
<1> QED
  BY <1>1, AppendIs, InsertAtIs DEF Inserted

\* A list stays a list when an entry is put in.
LEMMA InsertedList ==
  ASSUME NEW list, IsList(list), NEW new, NEW s, Inserted(s, list, new)
  PROVE  IsList(s)
BY SpreadList DEF Inserted

-----------------------------------------------------------------------------
(* What the handlers do to the sets, without their order of devices.       *)

\* The records of sets and the sets.
IsRs(rs) ==
  /\ rs = [type |-> rs.type, stride |-> rs.stride, devs |-> rs.devs, subs |-> rs.subs, status |-> rs.status]
  /\ IsList(rs.devs)
  /\ IsList(rs.subs)

IsSets(f) ==
  /\ f = [top |-> f.top, set |-> f.set]
  /\ f.set = [n \in DOMAIN f.set |-> f.set[n]]
  /\ \A n \in DOMAIN f.set : IsRs(f.set[n])
  /\ f.top \subseteq DOMAIN f.set

OldDevs(f, n) == IF n \in DOMAIN f.set THEN f.set[n].devs ELSE <<>>
OldSubs(f, n) == IF n \in DOMAIN f.set THEN f.set[n].subs ELSE <<>>
TopDevs(f, n) == IF n \in f.top THEN f.set[n].devs ELSE <<>>
TopSubs(f, n) == IF n \in f.top THEN f.set[n].subs ELSE <<>>

\* list with new in it, once if it was there once.
Linked(s, list, new) ==
  IF \E i \in DOMAIN list : list[i] = new THEN s = list ELSE Inserted(s, list, new)

\* g is f with the device d in the set n.
Holds(f, g, n, d) ==
  /\ IsSets(g)
  /\ g.top = f.top
  /\ DOMAIN g.set = DOMAIN f.set \cup {n}
  /\ \A m \in DOMAIN f.set \ {n} : g.set[m] = f.set[m]
  /\ Inserted(g.set[n].devs, OldDevs(f, n), d)
  /\ g.set[n].subs = OldSubs(f, n)

\* init_raid_set() has accepted the stride.
Accepted(f, g, n, stride) ==
  /\ n \in DOMAIN f.set => f.set[n].stride \in {0, stride}
  /\ g.set[n].stride = stride

\* h is g with the set n in the superset s.
Hangs(g, h, n, s) ==
  /\ IsSets(h)
  /\ h.top = g.top \cup {s}
  /\ DOMAIN h.set = DOMAIN g.set \cup {s}
  /\ \A m \in DOMAIN g.set \ {s} : h.set[m] = g.set[m]
  /\ h.set[s].devs = TopDevs(g, s)
  /\ Linked(h.set[s].subs, TopSubs(g, s), n)

KeepsStride(g, h, s) == s \in g.top => h.set[s].stride = g.set[s].stride

\* The empty list is one.
LEMMA EmptyList == IsList(<<>>)
BY DEF IsList

\* WithSet() gives one set the record given and leaves the others.
LEMMA WithOne ==
  ASSUME NEW f, IsSets(f), NEW n, NEW rs, IsRs(rs), NEW g,
         g = WithSet(f, n, rs)
  PROVE  /\ IsSets(g)
         /\ g.top = f.top
         /\ DOMAIN g.set = DOMAIN f.set \cup {n}
         /\ \A m \in DOMAIN f.set \ {n} : g.set[m] = f.set[m]
         /\ g.set[n] = rs
<1>1. g.top = f.top /\ g.set = [m \in DOMAIN f.set \cup {n} |-> IF m = n THEN rs ELSE f.set[m]]
      /\ g = [top |-> g.top, set |-> g.set]
  BY DEF IsSets, WithSet
<1> QED
  BY <1>1 DEF IsSets

\* Listed() puts a set on the list of the library context.
LEMMA ListedOne ==
  ASSUME NEW f, IsSets(f), NEW n \in DOMAIN f.set, NEW g, g = Listed(f, n)
  PROVE  IsSets(g) /\ g.top = f.top \cup {n} /\ g.set = f.set
<1>1. g.top = f.top \cup {n} /\ g.set = f.set /\ g = [top |-> g.top, set |-> g.set]
  BY DEF IsSets, Listed
<1> QED
  BY <1>1 DEF IsSets

\* A set with a device more, and with a subset more.
WithDevs(rs, type, stride, devs) == [rs EXCEPT !.type = type, !.stride = stride, !.devs = devs]
WithSubs(rs, subs)               == [rs EXCEPT !.subs = subs]
WithOnlyDevs(rs, devs)           == [rs EXCEPT !.devs = devs]
WithAll(rs, type, stride, devs, status) ==
  [rs EXCEPT !.type = type, !.stride = stride, !.devs = devs, !.status = status]
WithState(rs, stride, status, type) == [rs EXCEPT !.stride = stride, !.status = status, !.type = type]

\* A set with other devices is a set.
LEMMA MoreDevs ==
  ASSUME NEW rs, IsRs(rs), NEW d, NEW type, NEW stride, NEW devs, Inserted(devs, rs.devs, d), NEW new,
         new = WithDevs(rs, type, stride, devs)
  PROVE  IsRs(new) /\ new.devs = devs /\ new.subs = rs.subs /\ new.stride = stride /\ new.type = type
<1>1. new = [type |-> type, stride |-> stride, devs |-> devs, subs |-> rs.subs, status |-> rs.status]
  BY DEF IsRs, WithDevs
<1>2. IsList(devs) /\ IsList(rs.subs)
  BY InsertedList DEF IsRs
<1> QED
  BY <1>1, <1>2 DEF IsRs

\* A set with other subsets is a set.
LEMMA MoreSubs ==
  ASSUME NEW rs, IsRs(rs), NEW subs, IsList(subs), NEW new, new = WithSubs(rs, subs)
  PROVE  IsRs(new) /\ new.devs = rs.devs /\ new.subs = subs /\ new.stride = rs.stride /\ new.type = rs.type
<1>1. new = [type |-> rs.type, stride |-> rs.stride, devs |-> rs.devs, subs |-> subs, status |-> rs.status]
  BY DEF IsRs, WithSubs
<1> QED
  BY <1>1 DEF IsRs

\* A set with other devices only is a set.
LEMMA OnlyDevsNew ==
  ASSUME NEW rs, IsRs(rs), NEW devs, IsList(devs), NEW new, new = WithOnlyDevs(rs, devs)
  PROVE  IsRs(new) /\ new.devs = devs /\ new.subs = rs.subs /\ new.stride = rs.stride /\ new.type = rs.type
<1>1. new = [type |-> rs.type, stride |-> rs.stride, devs |-> devs, subs |-> rs.subs, status |-> rs.status]
  BY DEF IsRs, WithOnlyDevs
<1> QED
  BY <1>1 DEF IsRs

\* A set with other devices, type, stride and state is a set.
LEMMA AllNew ==
  ASSUME NEW rs, IsRs(rs), NEW type, NEW stride, NEW devs, IsList(devs), NEW status, NEW new,
         new = WithAll(rs, type, stride, devs, status)
  PROVE  IsRs(new) /\ new.devs = devs /\ new.subs = rs.subs /\ new.stride = stride /\ new.type = type
<1>1. new = [type |-> type, stride |-> stride, devs |-> devs, subs |-> rs.subs, status |-> status]
  BY DEF IsRs, WithAll
<1> QED
  BY <1>1 DEF IsRs

\* A set with another type and stride is a set.
LEMMA StateNew ==
  ASSUME NEW rs, IsRs(rs), NEW stride, NEW status, NEW type, NEW new,
         new = WithState(rs, stride, status, type)
  PROVE  IsRs(new) /\ new.devs = rs.devs /\ new.subs = rs.subs /\ new.stride = stride /\ new.type = type
<1>1. new = [type |-> type, stride |-> stride, devs |-> rs.devs, subs |-> rs.subs, status |-> status]
  BY DEF IsRs, WithState
<1> QED
  BY <1>1 DEF IsRs

\* g is f with the device d in the set n, made when missing.
LEMMA HoldsOne ==
  ASSUME NEW f, IsSets(f), NEW n, NEW d, NEW type, NEW stride, NEW devs,
         NEW rs, IsRs(rs), rs.devs = OldDevs(f, n), rs.subs = OldSubs(f, n), Inserted(devs, rs.devs, d),
         NEW new, new = WithDevs(rs, type, stride, devs),
         NEW g, g = WithSet(f, n, new)
  PROVE  Holds(f, g, n, d) /\ g.set[n].stride = stride /\ g.set[n].type = type
<1>1. IsRs(new) /\ new.devs = devs /\ new.subs = rs.subs /\ new.stride = stride /\ new.type = type
  BY MoreDevs
<1>2. /\ IsSets(g)
      /\ g.top = f.top
      /\ DOMAIN g.set = DOMAIN f.set \cup {n}
      /\ \A m \in DOMAIN f.set \ {n} : g.set[m] = f.set[m]
      /\ g.set[n] = new
  BY <1>1, WithOne
<1> QED
  BY <1>1, <1>2 DEF Holds

\* The same with the set s that holds the set n.
LEMMA HangsOne ==
  ASSUME NEW f, IsSets(f), NEW n, NEW s, NEW ss, IsRs(ss), ss.devs = TopDevs(f, s), ss.subs = TopSubs(f, s),
         NEW subs, Inserted(subs, ss.subs, n),
         NEW new, new = (IF \E i \in DOMAIN ss.subs : ss.subs[i] = n THEN ss ELSE WithSubs(ss, subs)),
         NEW g, g = Listed(WithSet(f, s, new), s)
  PROVE  Hangs(f, g, n, s) /\ g.set[s].stride = ss.stride /\ g.set[s].type = ss.type
<1> DEFINE w == WithSet(f, s, new)
<1>1. IsList(subs)
  BY InsertedList DEF IsRs
<1>2. IsRs(new) /\ new.devs = ss.devs /\ Linked(new.subs, ss.subs, n) /\ new.stride = ss.stride /\ new.type = ss.type
  <2>1. CASE \E i \in DOMAIN ss.subs : ss.subs[i] = n
    BY <2>1 DEF Linked
  <2>2. CASE ~\E i \in DOMAIN ss.subs : ss.subs[i] = n
    <3>1. new = WithSubs(ss, subs)
      BY <2>2
    <3>2. IsRs(new) /\ new.devs = ss.devs /\ new.subs = subs /\ new.stride = ss.stride /\ new.type = ss.type
      BY <3>1, <1>1, MoreSubs
    <3> QED
      BY <2>2, <3>2 DEF Linked
  <2> QED
    BY <2>1, <2>2
<1>3. /\ IsSets(w)
      /\ w.top = f.top
      /\ DOMAIN w.set = DOMAIN f.set \cup {s}
      /\ \A m \in DOMAIN f.set \ {s} : w.set[m] = f.set[m]
      /\ w.set[s] = new
  BY <1>2, WithOne
<1>4. g = Listed(w, s)
  OBVIOUS
<1> HIDE DEF w
<1>5. IsSets(g) /\ g.top = w.top \cup {s} /\ g.set = w.set
  BY <1>3, <1>4, ListedOne
<1> QED
  BY <1>2, <1>3, <1>5 DEF Hangs

\* h is f with the device d in the set n, which is on the list of the library
\* context or in the superset in sup.
Put(f, h, n, d, sup) ==
  /\ IsSets(h)
  /\ h.top = f.top \cup (IF sup = {} THEN {n} ELSE sup)
  /\ DOMAIN h.set = DOMAIN f.set \cup {n} \cup sup
  /\ n \notin sup
  /\ \A m \in DOMAIN f.set : m # n /\ m \notin sup => h.set[m] = f.set[m]
  /\ Inserted(h.set[n].devs, OldDevs(f, n), d)
  /\ h.set[n].subs = OldSubs(f, n)
  /\ \A s \in sup : h.set[s].devs = TopDevs(f, s) /\ Linked(h.set[s].subs, TopSubs(f, s), n)

\* A set that holds the new device and is on the list itself.
LEMMA PutAlone ==
  ASSUME NEW f, NEW g, NEW n, NEW d, Holds(f, g, n, d), NEW h, h = Listed(g, n)
  PROVE  Put(f, h, n, d, {}) /\ h.set = g.set
<1>1. IsSets(g) /\ n \in DOMAIN g.set
  BY DEF Holds
<1>2. IsSets(h) /\ h.top = g.top \cup {n} /\ h.set = g.set
  BY <1>1, ListedOne
<1> QED
  BY <1>2 DEF Holds, Put

\* A set that holds the new device and hangs under a superset.
LEMMA PutUnder ==
  ASSUME NEW f, NEW g, NEW n, NEW d, Holds(f, g, n, d), IsSets(f), NEW s, s # n, NEW h, Hangs(g, h, n, s)
  PROVE  Put(f, h, n, d, {s}) /\ h.set[n] = g.set[n]
<1>1. TopDevs(g, s) = TopDevs(f, s) /\ TopSubs(g, s) = TopSubs(f, s)
  BY DEF Holds, TopDevs, TopSubs, IsSets
<1> QED
  BY <1>1 DEF Holds, Hangs, Put

-----------------------------------------------------------------------------
(* Where the devices of a layout go.                                       *)

IsDevice(d) ==
  d = [fmt |-> d.fmt, disk |-> d.disk, capacity |-> d.capacity, name |-> d.name, type |-> d.type,
       status |-> d.status, sectors |-> d.sectors, offset |-> d.offset, meta |-> d.meta]

\* A record with all fields of a device is a device.
LEMMA DeviceIs ==
  ASSUME NEW fmt, NEW disk, NEW capacity, NEW meta, NEW name, NEW type, NEW status, NEW sectors, NEW offset, NEW d,
         d = [fmt |-> fmt, disk |-> disk, capacity |-> capacity, meta |-> meta, name |-> name, type |-> type,
              status |-> status, sectors |-> sectors, offset |-> offset]
  PROVE  /\ IsDevice(d) /\ d.fmt = fmt /\ d.disk = disk /\ d.capacity = capacity /\ d.meta = meta
         /\ d.name = name /\ d.type = type
BY DEF IsDevice

\* The set s is a subset of the set m.
Under(l, s, m) ==
  IF s[1] = "ddf1" THEN Len(s) = 2 /\ m = Ddf1!Disks
  ELSE /\ Len(s) = 3
       /\ IF s[1] = "asr" THEN \E d \in AllDevs(l) : d.fmt = "asr" /\ s \in Asr!SubNames(d) /\ m = d.name
                          ELSE m = <<s[1], s[2]>>
       /\ s[1] = "hpt45x" => \E d \in AllDevs(l) : d.fmt = "hpt45x" /\ d.name = s /\ Halved(d)

\* The strides that the disks have for a set of asr or of ddf1.
Volumes(l) ==
  UNION {UNION {Pieces(rd)[i] : i \in DOMAIN Pieces(rd)} : rd \in {d \in AllDevs(l) : d.fmt = "ddf1"}}

Strides(l, n) ==
  {StrideOf(d) : d \in {d \in AllDevs(l) : d.fmt = "asr" /\ d.type # "spare" /\ n \in {d.name} \cup Asr!SubNames(d)}}
  \cup {StrideOf(d) : d \in {d \in Volumes(l) : n = d.name}}

Unchecked == {"asr", "ddf1"}

Kinds(f) ==
  /\ Asr!Spares \in DOMAIN f.set => f.set[Asr!Spares].type = "spare"
  /\ Ddf1!Disks \in DOMAIN f.set => f.set[Ddf1!Disks].type = "group"

SuitsStride(l, f, h, n, d, sup) ==
  IF d.fmt \in Unchecked
  THEN /\ n \notin {Asr!Spares, Ddf1!Disks} => StrideOf(d) \in Strides(l, n) /\ h.set[n].stride \in Strides(l, n)
       /\ \A s \in sup \ {Ddf1!Disks} : h.set[s].stride \in Strides(l, s)
  ELSE Accepted(f, h, n, StrideOf(d)) /\ \A s \in sup : KeepsStride(f, h, s)

\* h is f with the device d in the set where it belongs.
Puts(l, f, h, d, n, sup) ==
  /\ Put(f, h, n, d, sup)
  /\ n[1] = d.fmt
  /\ \/ sup = {} /\ \A m : ~Under(l, n, m)
     \/ \E s : sup = {s} /\ Under(l, n, s)
  /\ SuitsStride(l, f, h, n, d, sup)
  /\ Kinds(f) => Kinds(h)

\* The formats, without their order.
LEMMA FormatSet ==
  ToSet(Formats) = {"asr", "ddf1", "hpt37x", "hpt45x", "jm", "lsi", "nv", "pdc", "sil", "via"}
<1>1. DOMAIN Formats = 1 .. 10
  BY DEF Formats
<1>2. /\ Formats[1] = "asr" /\ Formats[2] = "ddf1" /\ Formats[3] = "hpt37x" /\ Formats[4] = "hpt45x"
      /\ Formats[5] = "jm" /\ Formats[6] = "lsi" /\ Formats[7] = "nv" /\ Formats[8] = "pdc"
      /\ Formats[9] = "sil" /\ Formats[10] = "via"
  BY DEF Formats
<1> HIDE DEF Formats
<1> QED
  BY <1>1, <1>2 DEF ToSet

\* What the handlers make of the metadata they have read.
Known(rd) ==
  /\ IsDevice(rd)
  /\ rd.fmt \in ToSet(Formats)
  /\ rd.fmt = "asr"    => rd.name = <<"asr", Asr!ThisDisk(rd.meta).name>>
  /\ rd.fmt = "ddf1"   => rd.name = Ddf1!Disks /\ rd.type = "group"
  /\ rd.fmt = "hpt37x" => rd.name = Hpt37x!Name(rd.meta, TRUE) /\ rd.type = Hpt37x!Type(rd.meta) /\ rd.meta.fmt = rd.fmt
  /\ rd.fmt = "hpt45x" => /\ rd.name = Hpt45x!Name(rd.meta, rd.meta.raid1type = "raid1")
                          /\ rd.type = Hpt45x!Type(rd.meta) /\ rd.meta.fmt = rd.fmt
  /\ rd.fmt = "jm"     => rd.name = Jm!Name(rd.meta, TRUE) /\ rd.meta.fmt = rd.fmt
  /\ rd.fmt = "lsi"    => rd.name = Lsi!Name(rd.meta, TRUE) /\ rd.meta.fmt = rd.fmt
  /\ rd.fmt = "nv"     => rd.name = Nv!Name(rd.meta, TRUE) /\ rd.meta.fmt = rd.fmt
  /\ rd.fmt = "pdc"    => rd.name = Pdc!Name(rd.meta, Pdc!IsRaid10(rd.meta))
  /\ rd.fmt = "sil"    => rd.name = Sil!Name(rd.meta, TRUE)
  /\ rd.fmt = "via"    => rd.name = Via!Name(rd.meta, TRUE) /\ rd.meta.fmt = rd.fmt

\* A device whose stride was checked, in a set on the list itself.
LEMMA PutsAlone ==
  ASSUME NEW l, NEW f, NEW g, NEW d, d.fmt \notin Unchecked, d.name[1] = d.fmt,
         Holds(f, g, d.name, d), Accepted(f, g, d.name, StrideOf(d)), \A m : ~Under(l, d.name, m),
         NEW h, h = Listed(g, d.name)
  PROVE  Puts(l, f, h, d, d.name, {})
<1>1. Put(f, h, d.name, d, {}) /\ h.set = g.set
  BY PutAlone
<1>2. d.name # Asr!Spares /\ d.name # Ddf1!Disks
  BY DEF Unchecked, Asr!Spares, Ddf1!Disks
<1>3. Kinds(f) => Kinds(h)
  BY <1>1, <1>2 DEF Kinds, Holds
<1> QED
  BY <1>1, <1>3 DEF Puts, SuitsStride, Accepted

\* A device whose stride was checked, in a set under a superset.
LEMMA PutsUnder ==
  ASSUME NEW l, NEW f, IsSets(f), NEW g, NEW d, d.fmt \notin Unchecked, d.name[1] = d.fmt,
         Holds(f, g, d.name, d), Accepted(f, g, d.name, StrideOf(d)),
         NEW s, Under(l, d.name, s), s[1] = d.fmt, s # d.name,
         NEW h, Hangs(g, h, d.name, s), KeepsStride(g, h, s)
  PROVE  Puts(l, f, h, d, d.name, {s})
<1>1. Put(f, h, d.name, d, {s}) /\ h.set[d.name] = g.set[d.name]
  BY PutUnder
<1>2. d.name # Asr!Spares /\ d.name # Ddf1!Disks /\ s # Asr!Spares /\ s # Ddf1!Disks
  BY DEF Unchecked, Asr!Spares, Ddf1!Disks
<1>3. Kinds(f) => Kinds(h)
  BY <1>1, <1>2 DEF Kinds, Put
<1>4. KeepsStride(f, h, s)
  BY DEF KeepsStride, Holds, IsSets
<1> QED
  BY <1>1, <1>3, <1>4 DEF Puts, SuitsStride, Accepted

\* The least member of a set of places of asr lists.
LEMMA AsrLeast ==
  ASSUME NEW T \in SUBSET Nat, T # {}
  PROVE  Asr!Min(T) \in T
BY LeastNat DEF Asr!Min

\* list_add_sorted() puts the new entry in somewhere (asr).
LEMMA AsrSorted ==
  ASSUME NEW list, IsList(list), NEW new
  PROVE  Inserted(Asr!AddSorted(list, new, Asr!Before), list, new)
<1> DEFINE I == {i \in 1 .. Len(list) : Asr!Before(list[i], new)}
<1>1. Asr!AddSorted(list, new, Asr!Before)
        = IF I = {} THEN Append(list, new)
          ELSE IF Asr!Min(I) = 0 THEN Append(list, new) ELSE InsertAt(list, Asr!Min(I), new)
  BY SMTT(30) DEF Asr!AddSorted, Asr!SelectInSeq, Asr!InsertAt, InsertAt
<1>2. I \in SUBSET Nat /\ I \subseteq 1 .. Len(list)
  OBVIOUS
<1> HIDE DEF I
<1> QED
  BY <1>1, <1>2, AsrLeast, InsertedAt

\* What the handler of asr makes of the metadata it has read.
LEMMA AsrRead ==
  ASSUME NEW disk, NEW capacity, NEW m, NEW rd \in Asr!Read(disk, capacity, m)
  PROVE  Known(rd) /\ rd.disk = disk
<1> DEFINE t == Asr!ThisDisk(Asr!Named(m))
<1>1. rd = [fmt |-> "asr", disk |-> disk, capacity |-> capacity, meta |-> Asr!Named(m), name |-> <<"asr", t.name>>,
            type |-> Asr!Type(t), status |-> Asr!Status(t), sectors |-> t.capacity, offset |-> 0]
  BY Zenon DEF Asr!Read
<1> HIDE DEF t
<1>2. /\ IsDevice(rd) /\ rd.fmt = "asr" /\ rd.disk = disk
      /\ rd.name = <<"asr", t.name>> /\ rd.meta = Asr!Named(m)
  BY <1>1, DeviceIs
<1>9. /\ IsDevice(rd) /\ rd.fmt = "asr" /\ rd.disk = disk
      /\ rd.name = <<"asr", Asr!ThisDisk(rd.meta).name>>
  BY <1>2 DEF t
<1> QED
  BY <1>9, FormatSet DEF Known

\* asr puts a device into its set (find_or_alloc_raid_set, list_add_sorted).
LEMMA AsrAdded ==
  ASSUME NEW f, IsSets(f), NEW n, NEW rd, NEW stride, NEW type, NEW g, g = Asr!Added(f, n, rd, stride, type)
  PROVE  Holds(f, g, n, rd) /\ g.set[n].stride = stride /\ g.set[n].type = type
<1> DEFINE rs   == IF n \in DOMAIN f.set THEN f.set[n] ELSE Asr!NewSet
           devs == Asr!AddSorted(rs.devs, rd, Asr!Before)
           st   == IF type = "spare" THEN rs.status ELSE "ok"
<1>1. IsRs(rs) /\ rs.devs = OldDevs(f, n) /\ rs.subs = OldSubs(f, n)
  BY EmptyList DEF Asr!NewSet, IsSets, IsRs, OldDevs, OldSubs
<1>2. g = WithSet(f, n, WithAll(rs, type, stride, devs, st))
  BY DEF Asr!Added, Asr!WithSet, WithSet, Asr!Found, WithAll
<1>3. Inserted(devs, rs.devs, rd)
  BY <1>1, AsrSorted DEF IsRs
<1> HIDE DEF rs, devs, st
<1> DEFINE new == WithAll(rs, type, stride, devs, st)
<1>5. IsRs(new) /\ new.devs = devs /\ new.subs = rs.subs /\ new.stride = stride /\ new.type = type
  BY <1>1, <1>3, AllNew, InsertedList DEF IsRs
<1>6. g = WithSet(f, n, new)
  BY <1>2
<1> HIDE DEF new
<1>7. /\ IsSets(g)
      /\ g.top = f.top
      /\ DOMAIN g.set = DOMAIN f.set \cup {n}
      /\ \A m \in DOMAIN f.set \ {n} : g.set[m] = f.set[m]
      /\ g.set[n] = new
  BY <1>5, <1>6, WithOne
<1> QED
  BY <1>1, <1>3, <1>5, <1>7 DEF Holds

\* asr hangs the stripe under its mirror (join_superset).
LEMMA AsrJoined ==
  ASSUME NEW f, IsSets(f), NEW rd, NEW s, NEW type, NEW stride, NEW g,
         g = Asr!Joined(f, rd, s, type, stride, Asr!SetBefore)
  PROVE  Hangs(f, g, rd.name, s) /\ KeepsStride(f, g, s)
<1> DEFINE ss  == IF s \in f.top THEN f.set[s] ELSE [Asr!NewSet EXCEPT !.type = type, !.stride = stride]
           I   == {i \in 1 .. Len(ss.subs) : Asr!SetBefore(f.set[ss.subs[i]], f.set[rd.name])}
           add == IF I = {} THEN Append(ss.subs, rd.name)
                  ELSE IF Asr!Min(I) = 0 THEN Append(ss.subs, rd.name)
                  ELSE InsertAt(ss.subs, Asr!Min(I), rd.name)
           new == IF \E i \in DOMAIN ss.subs : ss.subs[i] = rd.name THEN ss ELSE WithSubs(ss, add)
<1>1. IsRs(ss) /\ ss.devs = TopDevs(f, s) /\ ss.subs = TopSubs(f, s)
      /\ (s \in f.top => ss = f.set[s])
  BY EmptyList DEF Asr!NewSet, IsSets, IsRs, TopDevs, TopSubs
<1>2. g = Listed(WithSet(f, s, new), s)
  <2>1. g = Listed(WithSet(f, s, IF rd.name \in Asr!ToSet(ss.subs) THEN ss ELSE WithSubs(ss,
              Asr!AddSorted(ss.subs, rd.name, LAMBDA pos, x : Asr!SetBefore(f.set[pos], f.set[x])))), s)
    BY DEF Asr!Joined, Asr!WithSet, Asr!Listed, WithSet, Listed, WithSubs
  <2> HIDE DEF ss
  <2>2. rd.name \in Asr!ToSet(ss.subs) <=> \E i \in DOMAIN ss.subs : ss.subs[i] = rd.name
    BY DEF Asr!ToSet
  <2>3. Asr!AddSorted(ss.subs, rd.name, LAMBDA pos, x : Asr!SetBefore(f.set[pos], f.set[x])) = add
    BY DEF Asr!AddSorted, Asr!SelectInSeq, Asr!InsertAt, InsertAt
  <2> QED
    BY <2>1, <2>2, <2>3
<1>3. I \in SUBSET Nat /\ I \subseteq 1 .. Len(ss.subs)
  OBVIOUS
<1> HIDE DEF I, ss
<1>4. Inserted(add, ss.subs, rd.name)
  BY <1>1, <1>3, AsrLeast, InsertedAt DEF IsRs
<1> HIDE DEF add
<1>5. new = IF \E i \in DOMAIN ss.subs : ss.subs[i] = rd.name THEN ss ELSE WithSubs(ss, add)
  OBVIOUS
<1> HIDE DEF new
<1>6. Hangs(f, g, rd.name, s) /\ g.set[s].stride = ss.stride
  BY <1>1, <1>2, <1>4, <1>5, HangsOne, SMTT(30)
<1> QED
  BY <1>1, <1>6 DEF KeepsStride

\* asr puts a device into a stripe that hangs under its mirror.
LEMMA AsrStacked ==
  ASSUME NEW f, IsSets(f), NEW rd, IsDevice(rd), NEW fwl, Asr!SubName(fwl) # rd.name,
         NEW h, h = Asr!Stacked(f, rd, fwl)
  PROVE  /\ Put(f, h, Asr!SubName(fwl), rd, {rd.name})
         /\ h.set[Asr!SubName(fwl)].stride = Asr!ThisDisk(rd.meta).stripe
         /\ h.set[rd.name].stride = Asr!ThisDisk(rd.meta).stripe
<1> DEFINE n == Asr!SubName(fwl)
           s == rd.name
           stride == Asr!ThisDisk(rd.meta).stripe
           a == Asr!Added(f, n, rd, stride, Asr!Type(fwl))
           rdn == [rd EXCEPT !.name = n]
           g == Asr!Joined(a, rdn, s, "raid1", stride, Asr!SetBefore)
           new == WithState(g.set[s], stride, "ok", "raid1")
<1>1. h = [g EXCEPT !.set[s] = new]
  BY DEF Asr!Stacked, WithState
<1>2. rdn.name = n
  BY DEF IsDevice
<1>3. Holds(f, a, n, rd) /\ a.set[n].stride = stride
  BY AsrAdded
<1> HIDE DEF n, rdn
<1>4. Hangs(a, g, n, s)
  BY <1>2, <1>3, AsrJoined DEF Holds
<1>0. s # n
  BY DEF n
<1> HIDE DEF s, stride, a, g, new
<1>5. Put(f, g, n, rd, {s}) /\ g.set[n] = a.set[n]
  BY <1>0, <1>3, <1>4, PutUnder
<1>6. IsSets(g) /\ s \in DOMAIN g.set /\ IsRs(g.set[s])
  BY <1>5 DEF Put, IsSets
<1>8. IsRs(new) /\ new.devs = g.set[s].devs /\ new.subs = g.set[s].subs /\ new.stride = stride
  <2> DEFINE x == g.set[s]
  <2> HIDE DEF x
  <2>1. IsRs(x)
    BY <1>6 DEF x
  <2>2. IsRs(WithState(x, stride, "ok", "raid1")) /\ WithState(x, stride, "ok", "raid1").devs = x.devs
        /\ WithState(x, stride, "ok", "raid1").subs = x.subs /\ WithState(x, stride, "ok", "raid1").stride = stride
    BY <2>1, StateNew
  <2> QED
    BY <2>2 DEF x, new
<1>10. h = WithSet(g, s, new)
  <2>1. [g.set EXCEPT ![s] = new] = [m \in DOMAIN g.set \cup {s} |-> IF m = s THEN new ELSE g.set[m]]
    BY <1>6
  <2> QED
    BY <1>6, <1>1, <2>1 DEF WithSet
<1>11. /\ IsSets(h)
       /\ h.top = g.top
       /\ DOMAIN h.set = DOMAIN g.set \cup {s}
       /\ \A m \in DOMAIN g.set \ {s} : h.set[m] = g.set[m]
       /\ h.set[s] = new
  BY <1>6, <1>8, <1>10, WithOne
<1>12. Put(f, h, n, rd, {s})
  BY <1>5, <1>6, <1>8, <1>11 DEF Put
<1>13. h.set[n].stride = stride /\ h.set[s].stride = stride
  BY <1>0, <1>3, <1>5, <1>8, <1>11 DEF Put
<1> QED
  BY <1>12, <1>13 DEF n, s, stride

\* asr_group() puts the device into the set where it belongs, or fails.
LEMMA AsrGroup ==
  ASSUME NEW l, NEW f, IsSets(f), NEW rd \in AllDevs(l), rd.fmt = "asr", IsDevice(rd),
         rd.name = <<"asr", Asr!ThisDisk(rd.meta).name>>, NEW h \in Asr!Group(f, rd)
  PROVE  \E n, sup : Puts(l, f, h, rd, n, sup)
<1> DEFINE t == Asr!ThisDisk(rd.meta)
<1>1. StrideOf(rd) = t.stripe /\ rd.fmt \in Unchecked
  BY DEF StrideOf, Unchecked
<1>2. rd.type # "spare" => StrideOf(rd) \in Strides(l, rd.name) /\ \A n \in Asr!SubNames(rd) : StrideOf(rd) \in Strides(l, n)
  BY DEF Strides
<1>3. rd.name # Asr!Spares /\ rd.name # Ddf1!Disks /\ rd.name[1] = "asr" /\ \A m : ~Under(l, rd.name, m)
  BY DEF Asr!Spares, Ddf1!Disks, Under
<1>4. CASE rd.type = "spare"
  <2> DEFINE n == Asr!Spares
             st == IF Asr!Found(f, Asr!Spares) THEN f.set[Asr!Spares].stride ELSE 0
             g == Asr!Added(f, n, rd, st, "spare")
  <2>1. h = Listed(g, n)
    BY <1>4 DEF Asr!Group, Asr!Spare, Asr!Listed, Listed
  <2> HIDE DEF st
  <2>2. Holds(f, g, n, rd) /\ g.set[n].type = "spare"
    BY AsrAdded
  <2>3. n # Ddf1!Disks /\ n[1] = "asr" /\ \A m : ~Under(l, n, m)
    BY DEF Asr!Spares, Ddf1!Disks, Under
  <2> HIDE DEF g, n
  <2>4. Put(f, h, n, rd, {}) /\ h.set = g.set
    BY <2>1, <2>2, PutAlone
  <2>5. SuitsStride(l, f, h, n, rd, {})
    BY <1>1 DEF SuitsStride, n
  <2>6. Kinds(f) => Kinds(h)
    BY <2>2, <2>3, <2>4 DEF Kinds, Holds, n
  <2> QED
    BY <2>3, <2>4, <2>5, <2>6 DEF Puts
<1>5. CASE rd.type # "spare"
  <2>1. CASE h \in {Asr!Stacked(f, rd, fwl) : fwl \in Asr!Logical(rd.meta)}
    <3>1. PICK fwl \in Asr!Logical(rd.meta) : h = Asr!Stacked(f, rd, fwl)
      BY <2>1
    <3> DEFINE n == Asr!SubName(fwl)
    <3>2. n \in Asr!SubNames(rd)
      BY DEF Asr!SubNames
    <3>3. n # rd.name /\ n # Asr!Spares /\ n # Ddf1!Disks /\ n[1] = "asr" /\ Len(n) = 3
      BY DEF Asr!SubName, Asr!Spares, Ddf1!Disks
    <3>4. /\ Put(f, h, n, rd, {rd.name})
          /\ h.set[n].stride = t.stripe
          /\ h.set[rd.name].stride = t.stripe
      BY <3>1, <3>3, AsrStacked
    <3> HIDE DEF n, t
    <3>5. Under(l, n, rd.name)
      BY <3>2, <3>3 DEF Under
    <3>6. SuitsStride(l, f, h, n, rd, {rd.name})
      BY <1>1, <1>2, <1>5, <3>2, <3>4 DEF SuitsStride
    <3>7. Kinds(f) => Kinds(h)
      BY <1>3, <3>3, <3>4 DEF Kinds, Put
    <3> QED
      BY <3>3, <3>4, <3>5, <3>6, <3>7 DEF Puts
  <2>2. CASE h = Asr!Listed(Asr!Added(f, rd.name, rd, t.stripe, Asr!LogicalType(rd.meta)), rd.name)
    <3> DEFINE g == Asr!Added(f, rd.name, rd, t.stripe, Asr!LogicalType(rd.meta))
    <3>1. Holds(f, g, rd.name, rd) /\ g.set[rd.name].stride = t.stripe
      BY AsrAdded
    <3>2. h = Listed(g, rd.name)
      BY <2>2 DEF Asr!Listed, Listed
    <3> HIDE DEF g, t
    <3>3. Put(f, h, rd.name, rd, {}) /\ h.set = g.set
      BY <3>1, <3>2, PutAlone
    <3>4. SuitsStride(l, f, h, rd.name, rd, {})
      BY <1>1, <1>2, <1>5, <3>1, <3>3 DEF SuitsStride
    <3>5. Kinds(f) => Kinds(h)
      BY <1>3, <3>1, <3>3 DEF Kinds, Holds
    <3> QED
      BY <1>3, <3>3, <3>4, <3>5 DEF Puts
  <2> QED
    BY <1>5, <2>1, <2>2 DEF Asr!Group
<1> QED
  BY <1>4, <1>5

\* The least member of a set of places of ddf1 lists.
LEMMA Ddf1Least ==
  ASSUME NEW T \in SUBSET Nat, T # {}
  PROVE  Ddf1!Min(T) \in T
BY LeastNat DEF Ddf1!Min

\* list_add_sorted() puts the new entry in somewhere (ddf1).
LEMMA Ddf1Sorted ==
  ASSUME NEW list, IsList(list), NEW new
  PROVE  Inserted(Ddf1!AddSorted(list, new, Ddf1!Before), list, new)
<1> DEFINE I == {i \in 1 .. Len(list) : Ddf1!Before(list[i], new)}
<1>1. Ddf1!AddSorted(list, new, Ddf1!Before)
        = IF I = {} THEN Append(list, new)
          ELSE IF Ddf1!Min(I) = 0 THEN Append(list, new) ELSE InsertAt(list, Ddf1!Min(I), new)
  BY SMTT(30) DEF Ddf1!AddSorted, Ddf1!SelectInSeq, Ddf1!InsertAt, InsertAt
<1>2. I \in SUBSET Nat /\ I \subseteq 1 .. Len(list)
  OBVIOUS
<1> HIDE DEF I
<1> QED
  BY <1>1, <1>2, Ddf1Least, InsertedAt

\* The segments of a volume are kept sorted.
LEMMA Ddf1Sooner ==
  ASSUME NEW list, IsList(list), NEW new
  PROVE  Inserted(Ddf1!AddSorted(list, new, Ddf1!Sooner), list, new)
<1> DEFINE I == {i \in 1 .. Len(list) : Ddf1!Sooner(list[i], new)}
<1>1. Ddf1!AddSorted(list, new, Ddf1!Sooner)
        = IF I = {} THEN Append(list, new)
          ELSE IF Ddf1!Min(I) = 0 THEN Append(list, new) ELSE InsertAt(list, Ddf1!Min(I), new)
  BY SMTT(30) DEF Ddf1!AddSorted, Ddf1!SelectInSeq, Ddf1!InsertAt, InsertAt
<1>2. I \in SUBSET Nat /\ I \subseteq 1 .. Len(list)
  OBVIOUS
<1> HIDE DEF I
<1> QED
  BY <1>1, <1>2, Ddf1Least, InsertedAt

\* What the handler of ddf1 makes of the metadata it has read.
LEMMA Ddf1Read ==
  ASSUME NEW disk, NEW capacity, NEW m, NEW rd \in Ddf1!Read(disk, capacity, m)
  PROVE  Known(rd) /\ rd.disk = disk
<1>1. rd = [fmt |-> "ddf1", disk |-> disk, capacity |-> capacity, meta |-> m,
            name |-> Ddf1!Disks, type |-> "group", status |-> Ddf1!Status(Ddf1!Drive(m)),
            sectors |-> Ddf1!Drive(m).size, offset |-> 0]
  BY Zenon DEF Ddf1!Read
<1>9. IsDevice(rd) /\ rd.fmt = "ddf1" /\ rd.disk = disk /\ rd.name = Ddf1!Disks /\ rd.type = "group"
  BY <1>1, DeviceIs
<1> QED
  BY <1>9, FormatSet DEF Known

\* The device of a disk itself goes to the group.
LEMMA Ddf1First ==
  ASSUME NEW l, NEW f, IsSets(f), NEW rd, rd.fmt = "ddf1", rd.name = Ddf1!Disks, rd.type = "group",
         NEW h, h = Ddf1!Listed(Ddf1!WithSet(f, Ddf1!Disks,
                      [Ddf1!FoundOrNew(f, rd) EXCEPT !.devs = Append(@, rd)]), Ddf1!Disks)
  PROVE  Puts(l, f, h, rd, Ddf1!Disks, {})
<1> DEFINE n    == Ddf1!Disks
           rs   == Ddf1!FoundOrNew(f, rd)
           devs == Append(rs.devs, rd)
           new  == WithOnlyDevs(rs, devs)
           g    == WithSet(f, n, new)
<1>1. IsRs(rs) /\ rs.devs = OldDevs(f, n) /\ rs.subs = OldSubs(f, n)
      /\ rs.type = IF n \in DOMAIN f.set THEN f.set[n].type ELSE "group"
  BY EmptyList DEF Ddf1!FoundOrNew, Ddf1!Found, Ddf1!NewSet, IsSets, IsRs, OldDevs, OldSubs
<1>2. h = Listed(g, n)
  BY DEF Ddf1!Listed, Ddf1!WithSet, Listed, WithSet, WithOnlyDevs
<1>3. n[1] = "ddf1" /\ n # Asr!Spares /\ \A m : ~Under(l, n, m)
  BY DEF Ddf1!Disks, Asr!Spares, Under
<1> HIDE DEF n, rs
<1>4. Inserted(devs, rs.devs, rd)
  BY <1>1, InsertedAt DEF IsRs
<1> HIDE DEF devs
<1> HIDE DEF g
<1>5. IsRs(new) /\ new.devs = devs /\ new.subs = rs.subs /\ new.stride = rs.stride /\ new.type = rs.type
  <2>1. IsList(devs)
    BY <1>1, <1>4, InsertedList DEF IsRs
  <2> QED
    BY <1>1, <2>1, OnlyDevsNew
<1> HIDE DEF new
<1> USE DEF g
<1>6. /\ IsSets(g)
      /\ g.top = f.top
      /\ DOMAIN g.set = DOMAIN f.set \cup {n}
      /\ \A m \in DOMAIN f.set \ {n} : g.set[m] = f.set[m]
      /\ g.set[n] = new
  BY <1>5, WithOne
<1> HIDE DEF g
<1>7. Holds(f, g, n, rd)
  BY <1>1, <1>4, <1>5, <1>6 DEF Holds
<1>8. Put(f, h, n, rd, {}) /\ h.set = g.set
  BY <1>2, <1>7, PutAlone
<1>9. SuitsStride(l, f, h, n, rd, {})
  BY DEF SuitsStride, Unchecked, n
<1>10. Kinds(f) => Kinds(h)
  BY <1>1, <1>3, <1>5, <1>6, <1>8 DEF Kinds, n
<1> QED
  BY <1>3, <1>8, <1>9, <1>10 DEF Puts, n

\* The devices that are made for the volumes of a disk.
LEMMA Ddf1Segment ==
  ASSUME NEW rd, IsDevice(rd), NEW i \in DOMAIN Ddf1!Mine(rd.meta), NEW s \in Ddf1!Segments(rd)[i]
  PROVE  /\ IsDevice(s) /\ s.fmt = rd.fmt /\ s.disk = rd.disk
         /\ s.name[1] = "ddf1" /\ Len(s.name) = 2
<1> DEFINE m == rd.meta
           c == Ddf1!Mine(m)[i]
<1>1. PICK n \in Ddf1!Names(m, Ddf1!Offset(m, c)) :
        s = [rd EXCEPT !.name = n, !.type = Ddf1!Type(m, c), !.status = "setup",
                       !.sectors = Ddf1!Size(m, c), !.offset = Ddf1!Offset(m, c)]
  BY Zenon DEF Ddf1!Segments
<1>2. \E x : n = <<"ddf1", x>>
  BY Zenon DEF Ddf1!Names
<1>3. n[1] = "ddf1" /\ Len(n) = 2
  BY <1>2
<1> HIDE DEF c
<1>4. s = [fmt |-> rd.fmt, disk |-> rd.disk, capacity |-> rd.capacity, meta |-> rd.meta, name |-> n,
           type |-> Ddf1!Type(m, c), status |-> "setup", sectors |-> Ddf1!Size(m, c), offset |-> Ddf1!Offset(m, c)]
  BY <1>1 DEF IsDevice
<1> QED
  BY <1>3, <1>4, DeviceIs

\* One step of group_rd(): the segment is put into the set of its volume.
LEMMA Ddf1Segmented ==
  ASSUME NEW l, NEW f, IsSets(f), NEW seg, seg.fmt = "ddf1", seg.name[1] = "ddf1", Len(seg.name) = 2,
         StrideOf(seg) \in Strides(l, seg.name), Ddf1!Disks \in f.top,
         seg.name \in DOMAIN f.set <=> \E i \in DOMAIN f.set[Ddf1!Disks].subs : f.set[Ddf1!Disks].subs[i] = seg.name,
         NEW h, h = Ddf1!Segmented(f, seg)
  PROVE  Puts(l, f, h, seg, seg.name, {Ddf1!Disks})
<1> DEFINE n   == seg.name
           s   == Ddf1!Disks
           old == f.set[s]
           add == Ddf1!AddSorted(old.subs, n, Ddf1!Sooner)
           g   == IF n \in DOMAIN f.set THEN f ELSE WithSet(f, s, WithSubs(old, add))
           rs  == Ddf1!FoundOrNew(f, seg)
           devs == Ddf1!AddSorted(rs.devs, seg, Ddf1!Before)
           new == WithAll(rs, seg.type, StrideOf(seg), devs, "ok")
<1>1. s \in DOMAIN f.set /\ IsRs(old) /\ IsRs(rs) /\ rs.devs = OldDevs(f, n) /\ rs.subs = OldSubs(f, n)
  BY EmptyList DEF Ddf1!FoundOrNew, Ddf1!Found, Ddf1!NewSet, IsSets, IsRs, OldDevs, OldSubs
<1>2. StrideOf(seg) = Ddf1!Stride(Ddf1!ThisConfig(seg.meta, seg.offset))
  BY DEF StrideOf
<1>3. [f EXCEPT !.set[Ddf1!Disks].subs = add] = WithSet(f, s, WithSubs(old, add))
  <2>1. [f EXCEPT !.set[Ddf1!Disks].subs = add] = [f EXCEPT !.set = [f.set EXCEPT ![s] = WithSubs(old, add)]]
    BY DEF WithSubs
  <2>2. [f.set EXCEPT ![s] = WithSubs(old, add)] = [m \in DOMAIN f.set \cup {s} |-> IF m = s THEN WithSubs(old, add) ELSE f.set[m]]
    <3> HIDE DEF add, old, s
    <3> QED BY <1>1
  <2> QED
    BY <2>1, <2>2 DEF WithSet
<1>4. h = WithSet(g, n, new)
  <2>1. [rs EXCEPT !.type = seg.type, !.stride = StrideOf(seg), !.devs = devs, !.status = "ok"] = new
    BY DEF WithAll
  <2> DEFINE x == IF Ddf1!Found(f, n) THEN f ELSE [f EXCEPT !.set[Ddf1!Disks].subs = add]
             r == [rs EXCEPT !.type = seg.type, !.stride = StrideOf(seg), !.devs = devs, !.status = "ok"]
  <2>2. x = g
    BY <1>3 DEF Ddf1!Found
  <2>3. h = Ddf1!WithSet(x, n, r)
    <3> HIDE DEF devs
    <3> QED
      BY <1>2, Zenon DEF Ddf1!Segmented, devs
  <2>4. Ddf1!WithSet(x, n, r) = WithSet(x, n, r)
    <3> HIDE DEF x, r, n
    <3> QED
      BY Zenon DEF Ddf1!WithSet, WithSet
  <2> HIDE DEF x, r, g, new
  <2>5. r = new
    BY <2>1 DEF r
  <2> QED
    BY <2>2, <2>3, <2>4, <2>5
<1>5. n # s /\ n # Asr!Spares /\ Under(l, n, s) /\ s # Asr!Spares
  BY DEF Ddf1!Disks, Asr!Spares, Under
<1>6. Inserted(add, old.subs, n) /\ Inserted(devs, rs.devs, seg)
  BY <1>1, Ddf1Sorted, Ddf1Sooner DEF IsRs
<1> HIDE DEF old, rs, add, devs
<1>7. /\ IsSets(g) /\ g.top = f.top /\ DOMAIN g.set = DOMAIN f.set
      /\ \A m \in DOMAIN f.set \ {s} : g.set[m] = f.set[m]
      /\ g.set[s].devs = old.devs /\ g.set[s].type = old.type /\ Linked(g.set[s].subs, old.subs, n)
  <2>1. CASE n \in DOMAIN f.set
    BY <1>1, <2>1 DEF Linked, old
  <2>2. CASE n \notin DOMAIN f.set
    <3> DEFINE sub == WithSubs(old, add)
    <3>1. IsRs(sub) /\ sub.devs = old.devs /\ sub.subs = add /\ sub.type = old.type
      BY <1>1, <1>6, MoreSubs, InsertedList DEF IsRs
    <3> HIDE DEF sub
    <3>2. g = WithSet(f, s, sub)
      BY <2>2 DEF sub
    <3> HIDE DEF g
    <3>3. /\ IsSets(g) /\ g.top = f.top /\ DOMAIN g.set = DOMAIN f.set \cup {s}
          /\ \A m \in DOMAIN f.set \ {s} : g.set[m] = f.set[m]
          /\ g.set[s] = sub
      BY <3>1, <3>2, WithOne
    <3> QED
      BY <1>1, <1>6, <2>2, <3>1, <3>3 DEF Linked, old
  <2> QED
    BY <2>1, <2>2
<1>8. IsRs(new) /\ new.devs = devs /\ new.subs = rs.subs /\ new.stride = StrideOf(seg)
  BY <1>1, <1>6, AllNew, InsertedList DEF IsRs
<1> HIDE DEF g, new, n, s
<1>9. /\ IsSets(h) /\ h.top = g.top /\ DOMAIN h.set = DOMAIN g.set \cup {n}
      /\ \A m \in DOMAIN g.set \ {n} : h.set[m] = g.set[m]
      /\ h.set[n] = new
  BY <1>4, <1>7, <1>8, WithOne
<1>10. Put(f, h, n, seg, {s})
  BY <1>1, <1>5, <1>6, <1>7, <1>8, <1>9 DEF Put, TopDevs, TopSubs, old, s
<1>11. SuitsStride(l, f, h, n, seg, {s})
  BY <1>8, <1>9 DEF SuitsStride, Unchecked, s, n
<1>12. Kinds(f) => Kinds(h)
  BY <1>1, <1>5, <1>7, <1>9 DEF Kinds, s, old
<1> QED
  BY <1>5, <1>10, <1>11, <1>12 DEF Puts, s, n

\* The least member of a set of places of hpt37x lists.
LEMMA Hpt37xLeast ==
  ASSUME NEW T \in SUBSET Nat, T # {}
  PROVE  Hpt37x!Min(T) \in T
BY LeastNat DEF Hpt37x!Min

\* list_add_sorted() puts the new entry in somewhere (hpt37x).
LEMMA Hpt37xSorted ==
  ASSUME NEW list, IsList(list), NEW new
  PROVE  Inserted(Hpt37x!AddSorted(list, new, Hpt37x!Before), list, new)
<1> DEFINE I == {i \in 1 .. Len(list) : Hpt37x!Before(list[i], new)}
<1>1. Hpt37x!AddSorted(list, new, Hpt37x!Before)
        = IF I = {} THEN Append(list, new)
          ELSE IF Hpt37x!Min(I) = 0 THEN Append(list, new) ELSE InsertAt(list, Hpt37x!Min(I), new)
  BY SMTT(30) DEF Hpt37x!AddSorted, Hpt37x!SelectInSeq, Hpt37x!InsertAt, InsertAt
<1>2. I \in SUBSET Nat /\ I \subseteq 1 .. Len(list)
  OBVIOUS
<1> HIDE DEF I
<1> QED
  BY <1>1, <1>2, Hpt37xLeast, InsertedAt

\* init_raid_set() and the sorted list of devices (hpt37x).
LEMMA Hpt37xMember ==
  ASSUME NEW f, IsSets(f), NEW rd, NEW stride, NEW g \in Hpt37x!Member(f, rd, stride, Hpt37x!Before)
  PROVE  Holds(f, g, rd.name, rd) /\ Accepted(f, g, rd.name, stride)
<1> DEFINE rs   == Hpt37x!FoundOrNew(f, rd)
           type == IF rs.type \in {"spare", "undef"} THEN rd.type ELSE rs.type
           devs == Hpt37x!AddSorted(rs.devs, rd, Hpt37x!Before)
           new  == WithDevs(rs, type, stride, devs)
<1>1. IsRs(rs) /\ rs.devs = OldDevs(f, rd.name) /\ rs.subs = OldSubs(f, rd.name)
      /\ (rd.name \in DOMAIN f.set => rs = f.set[rd.name])
  BY EmptyList DEF Hpt37x!FoundOrNew, Hpt37x!Found, Hpt37x!NewSet, IsSets, IsRs, OldDevs, OldSubs
<1>2. Hpt37x!Accepts(rs, rd, stride) /\ g = WithSet(f, rd.name, new)
  BY DEF Hpt37x!Member, Hpt37x!WithSet, WithSet, WithDevs
<1>3. Inserted(devs, rs.devs, rd)
  BY <1>1, Hpt37xSorted DEF IsRs
<1>5. new = WithDevs(rs, type, stride, devs)
  OBVIOUS
<1> HIDE DEF rs, type, devs, new
<1>4. Holds(f, g, rd.name, rd) /\ g.set[rd.name].stride = stride
  BY <1>1, <1>2, <1>3, <1>5, HoldsOne
<1> QED
  BY <1>1, <1>2, <1>4 DEF Accepted, Hpt37x!Accepts

\* join_superset() (hpt37x).
LEMMA Hpt37xJoined ==
  ASSUME NEW f, IsSets(f), NEW rd, NEW s, NEW type, NEW stride, NEW g,
         g = Hpt37x!Joined(f, rd, s, type, stride, Hpt37x!SetBefore)
  PROVE  Hangs(f, g, rd.name, s) /\ KeepsStride(f, g, s)
<1> DEFINE ss  == IF s \in f.top THEN f.set[s] ELSE [Hpt37x!NewSet EXCEPT !.type = type, !.stride = stride]
           I   == {i \in 1 .. Len(ss.subs) : Hpt37x!SetBefore(f.set[ss.subs[i]], f.set[rd.name])}
           add == IF I = {} THEN Append(ss.subs, rd.name)
                  ELSE IF Hpt37x!Min(I) = 0 THEN Append(ss.subs, rd.name)
                  ELSE InsertAt(ss.subs, Hpt37x!Min(I), rd.name)
           new == IF \E i \in DOMAIN ss.subs : ss.subs[i] = rd.name THEN ss ELSE WithSubs(ss, add)
<1>1. IsRs(ss) /\ ss.devs = TopDevs(f, s) /\ ss.subs = TopSubs(f, s)
      /\ (s \in f.top => ss = f.set[s])
  BY EmptyList DEF Hpt37x!NewSet, IsSets, IsRs, TopDevs, TopSubs
<1>2. g = Listed(WithSet(f, s, new), s)
  <2>1. g = Listed(WithSet(f, s, IF rd.name \in Hpt37x!ToSet(ss.subs) THEN ss ELSE WithSubs(ss,
              Hpt37x!AddSorted(ss.subs, rd.name, LAMBDA pos, x : Hpt37x!SetBefore(f.set[pos], f.set[x])))), s)
    BY DEF Hpt37x!Joined, Hpt37x!WithSet, Hpt37x!Listed, WithSet, Listed, WithSubs
  <2> HIDE DEF ss
  <2>2. rd.name \in Hpt37x!ToSet(ss.subs) <=> \E i \in DOMAIN ss.subs : ss.subs[i] = rd.name
    BY DEF Hpt37x!ToSet
  <2>3. Hpt37x!AddSorted(ss.subs, rd.name, LAMBDA pos, x : Hpt37x!SetBefore(f.set[pos], f.set[x])) = add
    BY DEF Hpt37x!AddSorted, Hpt37x!SelectInSeq, Hpt37x!InsertAt, InsertAt
  <2> QED
    BY <2>1, <2>2, <2>3
<1>3. I \in SUBSET Nat /\ I \subseteq 1 .. Len(ss.subs)
  OBVIOUS
<1> HIDE DEF I, ss
<1>4. Inserted(add, ss.subs, rd.name)
  BY <1>1, <1>3, Hpt37xLeast, InsertedAt DEF IsRs
<1> HIDE DEF add
<1>5. new = IF \E i \in DOMAIN ss.subs : ss.subs[i] = rd.name THEN ss ELSE WithSubs(ss, add)
  OBVIOUS
<1> HIDE DEF new
<1>6. Hangs(f, g, rd.name, s) /\ g.set[s].stride = ss.stride
  BY <1>1, <1>2, <1>4, <1>5, HangsOne, SMTT(30)
<1> QED
  BY <1>1, <1>6 DEF KeepsStride

\* What the handler of hpt37x makes of the metadata it has read.
LEMMA Hpt37xRead ==
  ASSUME NEW disk, NEW capacity, NEW m, NEW rd \in Hpt37x!Read(disk, capacity, m), m.fmt = "hpt37x"
  PROVE  Known(rd) /\ rd.disk = disk
<1>1. rd = [fmt |-> "hpt37x", disk |-> disk, capacity |-> capacity, meta |-> m, name |-> Hpt37x!Name(m, TRUE),
            type |-> Hpt37x!Type(m), status |-> Hpt37x!Status(m), sectors |-> Hpt37x!Sectors(m, capacity), offset |-> Hpt37x!Offset(m)]
  BY Zenon DEF Hpt37x!Read
<1>9. /\ IsDevice(rd) /\ rd.fmt = "hpt37x" /\ rd.disk = disk /\ rd.meta = m
      /\ rd.name = Hpt37x!Name(rd.meta, TRUE) /\ rd.type = Hpt37x!Type(rd.meta)
  BY <1>1, DeviceIs
<1> QED
  BY <1>9, FormatSet DEF Known

\* The handler of hpt37x puts the device into the set where it belongs, or fails.
LEMMA Hpt37xGroup ==
  ASSUME NEW l, NEW f, IsSets(f), NEW rd, rd.fmt = "hpt37x", rd.meta.fmt = "hpt37x",
         rd.type = Hpt37x!Type(rd.meta),
         rd.name = Hpt37x!Name(rd.meta, TRUE), NEW h \in Hpt37x!Group(f, rd)
  PROVE  \E n, sup : Puts(l, f, h, rd, n, sup)
<1>1. PICK g \in Hpt37x!Member(f, rd, Hpt37x!Stride(rd.meta), Hpt37x!Before) : h \in Hpt37x!Placed(g, rd)
  BY DEF Hpt37x!Group
<1>0. rd.meta.magic0 # 0
  BY DEF Hpt37x!Group, Hpt37x!Type
<1>2. StrideOf(rd) = Hpt37x!Stride(rd.meta)
  BY DEF StrideOf
<1>3. Holds(f, g, rd.name, rd) /\ Accepted(f, g, rd.name, StrideOf(rd)) /\ rd.fmt \notin Unchecked
  BY <1>1, <1>2, Hpt37xMember DEF Unchecked
<1>4. rd.name[1] = rd.fmt
  BY DEF Hpt37x!Name
<1>5. CASE rd.meta.type \in Hpt37x!Stacked
  <2> DEFINE s == Hpt37x!Name(rd.meta, FALSE)
  <2>1. Under(l, rd.name, s) /\ s[1] = rd.fmt /\ s # rd.name
    BY <1>0, <1>5 DEF Hpt37x!Name, Under
  <2>2. PICK type : h = Hpt37x!Joined(g, rd, s, type, Hpt37x!Stride(rd.meta), Hpt37x!SetBefore)
    BY <1>1, <1>5 DEF Hpt37x!Placed
  <2> HIDE DEF s
  <2>3. Hangs(g, h, rd.name, s) /\ KeepsStride(g, h, s)
    BY <1>3, <2>2, Hpt37xJoined DEF Holds
  <2> QED
    BY <1>3, <1>4, <2>1, <2>3, PutsUnder
<1>6. CASE rd.meta.type \notin Hpt37x!Stacked
  <2>1. \A m : ~Under(l, rd.name, m)
    BY <1>6 DEF Hpt37x!Name, Under
  <2>2. h = Listed(g, rd.name)
    BY <1>1, <1>6 DEF Hpt37x!Placed, Hpt37x!Listed, Listed
  <2> QED
    BY <1>3, <1>4, <2>1, <2>2, PutsAlone
<1> QED
  BY <1>5, <1>6

\* The least member of a set of places of hpt45x lists.
LEMMA Hpt45xLeast ==
  ASSUME NEW T \in SUBSET Nat, T # {}
  PROVE  Hpt45x!Min(T) \in T
BY LeastNat DEF Hpt45x!Min

\* list_add_sorted() puts the new entry in somewhere (hpt45x).
LEMMA Hpt45xSorted ==
  ASSUME NEW list, IsList(list), NEW new
  PROVE  Inserted(Hpt45x!AddSorted(list, new, Hpt45x!Before), list, new)
<1> DEFINE I == {i \in 1 .. Len(list) : Hpt45x!Before(list[i], new)}
<1>1. Hpt45x!AddSorted(list, new, Hpt45x!Before)
        = IF I = {} THEN Append(list, new)
          ELSE IF Hpt45x!Min(I) = 0 THEN Append(list, new) ELSE InsertAt(list, Hpt45x!Min(I), new)
  BY SMTT(30) DEF Hpt45x!AddSorted, Hpt45x!SelectInSeq, Hpt45x!InsertAt, InsertAt
<1>2. I \in SUBSET Nat /\ I \subseteq 1 .. Len(list)
  OBVIOUS
<1> HIDE DEF I
<1> QED
  BY <1>1, <1>2, Hpt45xLeast, InsertedAt

\* init_raid_set() and the sorted list of devices (hpt45x).
LEMMA Hpt45xMember ==
  ASSUME NEW f, IsSets(f), NEW rd, NEW stride, NEW g \in Hpt45x!Member(f, rd, stride, Hpt45x!Before)
  PROVE  Holds(f, g, rd.name, rd) /\ Accepted(f, g, rd.name, stride)
<1> DEFINE rs   == Hpt45x!FoundOrNew(f, rd)
           type == IF rs.type \in {"spare", "undef"} THEN rd.type ELSE rs.type
           devs == Hpt45x!AddSorted(rs.devs, rd, Hpt45x!Before)
           new  == WithDevs(rs, type, stride, devs)
<1>1. IsRs(rs) /\ rs.devs = OldDevs(f, rd.name) /\ rs.subs = OldSubs(f, rd.name)
      /\ (rd.name \in DOMAIN f.set => rs = f.set[rd.name])
  BY EmptyList DEF Hpt45x!FoundOrNew, Hpt45x!Found, Hpt45x!NewSet, IsSets, IsRs, OldDevs, OldSubs
<1>2. Hpt45x!Accepts(rs, rd, stride) /\ g = WithSet(f, rd.name, new)
  BY DEF Hpt45x!Member, Hpt45x!WithSet, WithSet, WithDevs
<1>3. Inserted(devs, rs.devs, rd)
  BY <1>1, Hpt45xSorted DEF IsRs
<1>5. new = WithDevs(rs, type, stride, devs)
  OBVIOUS
<1> HIDE DEF rs, type, devs, new
<1>4. Holds(f, g, rd.name, rd) /\ g.set[rd.name].stride = stride
  BY <1>1, <1>2, <1>3, <1>5, HoldsOne
<1> QED
  BY <1>1, <1>2, <1>4 DEF Accepted, Hpt45x!Accepts

\* join_superset() (hpt45x).
LEMMA Hpt45xJoined ==
  ASSUME NEW f, IsSets(f), NEW rd, NEW s, NEW type, NEW stride, NEW g,
         g = Hpt45x!Joined(f, rd, s, type, stride, Hpt45x!SetBefore)
  PROVE  Hangs(f, g, rd.name, s) /\ KeepsStride(f, g, s)
<1> DEFINE ss  == IF s \in f.top THEN f.set[s] ELSE [Hpt45x!NewSet EXCEPT !.type = type, !.stride = stride]
           I   == {i \in 1 .. Len(ss.subs) : Hpt45x!SetBefore(f.set[ss.subs[i]], f.set[rd.name])}
           add == IF I = {} THEN Append(ss.subs, rd.name)
                  ELSE IF Hpt45x!Min(I) = 0 THEN Append(ss.subs, rd.name)
                  ELSE InsertAt(ss.subs, Hpt45x!Min(I), rd.name)
           new == IF \E i \in DOMAIN ss.subs : ss.subs[i] = rd.name THEN ss ELSE WithSubs(ss, add)
<1>1. IsRs(ss) /\ ss.devs = TopDevs(f, s) /\ ss.subs = TopSubs(f, s)
      /\ (s \in f.top => ss = f.set[s])
  BY EmptyList DEF Hpt45x!NewSet, IsSets, IsRs, TopDevs, TopSubs
<1>2. g = Listed(WithSet(f, s, new), s)
  <2>1. g = Listed(WithSet(f, s, IF rd.name \in Hpt45x!ToSet(ss.subs) THEN ss ELSE WithSubs(ss,
              Hpt45x!AddSorted(ss.subs, rd.name, LAMBDA pos, x : Hpt45x!SetBefore(f.set[pos], f.set[x])))), s)
    BY DEF Hpt45x!Joined, Hpt45x!WithSet, Hpt45x!Listed, WithSet, Listed, WithSubs
  <2> HIDE DEF ss
  <2>2. rd.name \in Hpt45x!ToSet(ss.subs) <=> \E i \in DOMAIN ss.subs : ss.subs[i] = rd.name
    BY DEF Hpt45x!ToSet
  <2>3. Hpt45x!AddSorted(ss.subs, rd.name, LAMBDA pos, x : Hpt45x!SetBefore(f.set[pos], f.set[x])) = add
    BY DEF Hpt45x!AddSorted, Hpt45x!SelectInSeq, Hpt45x!InsertAt, InsertAt
  <2> QED
    BY <2>1, <2>2, <2>3
<1>3. I \in SUBSET Nat /\ I \subseteq 1 .. Len(ss.subs)
  OBVIOUS
<1> HIDE DEF I, ss
<1>4. Inserted(add, ss.subs, rd.name)
  BY <1>1, <1>3, Hpt45xLeast, InsertedAt DEF IsRs
<1> HIDE DEF add
<1>5. new = IF \E i \in DOMAIN ss.subs : ss.subs[i] = rd.name THEN ss ELSE WithSubs(ss, add)
  OBVIOUS
<1> HIDE DEF new
<1>6. Hangs(f, g, rd.name, s) /\ g.set[s].stride = ss.stride
  BY <1>1, <1>2, <1>4, <1>5, HangsOne, SMTT(30)
<1> QED
  BY <1>1, <1>6 DEF KeepsStride

\* What the handler of hpt45x makes of the metadata it has read.
LEMMA Hpt45xRead ==
  ASSUME NEW disk, NEW capacity, NEW m, NEW rd \in Hpt45x!Read(disk, capacity, m), m.fmt = "hpt45x"
  PROVE  Known(rd) /\ rd.disk = disk
<1>1. rd = [fmt |-> "hpt45x", disk |-> disk, capacity |-> capacity, meta |-> m, name |-> Hpt45x!Name(m, m.raid1type = "raid1"),
            type |-> Hpt45x!Type(m), status |-> Hpt45x!Status(m), sectors |-> Hpt45x!Sectors(m, capacity), offset |-> 0]
  BY Zenon DEF Hpt45x!Read
<1>9. /\ IsDevice(rd) /\ rd.fmt = "hpt45x" /\ rd.disk = disk /\ rd.meta = m
      /\ rd.name = Hpt45x!Name(rd.meta, rd.meta.raid1type = "raid1") /\ rd.type = Hpt45x!Type(rd.meta)
  BY <1>1, DeviceIs
<1> QED
  BY <1>9, FormatSet DEF Known

\* The handler of hpt45x puts the device into the set where it belongs, or fails.
LEMMA Hpt45xGroup ==
  ASSUME NEW l, NEW f, IsSets(f), NEW rd, rd.fmt = "hpt45x", rd.meta.fmt = "hpt45x",
         rd \in AllDevs(l), rd.type = Hpt45x!Type(rd.meta), OneParent(l),
         rd.name = Hpt45x!Name(rd.meta, rd.meta.raid1type = "raid1"), NEW h \in Hpt45x!Group(f, rd)
  PROVE  \E n, sup : Puts(l, f, h, rd, n, sup)
<1>1. PICK g \in Hpt45x!Member(f, rd, Hpt45x!Stride(rd.meta.shift), Hpt45x!Before) : h = Hpt45x!Placed(g, rd)
  BY DEF Hpt45x!Group
<1>2. StrideOf(rd) = Hpt45x!Stride(rd.meta.shift)
  BY DEF StrideOf
<1>3. Holds(f, g, rd.name, rd) /\ Accepted(f, g, rd.name, StrideOf(rd)) /\ rd.fmt \notin Unchecked
  BY <1>1, <1>2, Hpt45xMember DEF Unchecked
<1>4. rd.name[1] = rd.fmt
  BY DEF Hpt45x!Name
<1>5. CASE Halved(rd)
  <2> DEFINE s == Hpt45x!Name(rd.meta, FALSE)
  <2>1. Under(l, rd.name, s) /\ s[1] = rd.fmt /\ s # rd.name
    <3>1. rd.meta.magic0 # 0 /\ rd.meta.raid1type = "raid1"
      BY <1>5 DEF Hpt45x!Group, Hpt45x!Type, Halved
    <3>2. rd.name = <<"hpt45x", rd.meta.magic0, rd.meta.raid1number>> /\ s = <<"hpt45x", rd.meta.magic0>>
      BY <3>1 DEF Hpt45x!Name
    <3> HIDE DEF s
    <3>3. Len(rd.name) = 3 /\ rd.name[1] = "hpt45x" /\ s = <<rd.name[1], rd.name[2]>> /\ Len(s) = 2
          /\ s[1] = "hpt45x"
      BY <3>2
    <3>4. \E d \in AllDevs(l) : d.fmt = "hpt45x" /\ d.name = rd.name /\ Halved(d)
      BY <1>5
    <3> QED
      BY <3>3, <3>4 DEF Under
  <2>2. h = Hpt45x!Joined(g, rd, s, "raid1", Hpt45x!Stride(rd.meta.raid1shift), Hpt45x!SetBefore)
    BY <1>1, <1>5 DEF Hpt45x!Placed, Halved
  <2> HIDE DEF s
  <2>3. Hangs(g, h, rd.name, s) /\ KeepsStride(g, h, s)
    BY <1>3, <2>2, Hpt45xJoined DEF Holds
  <2> QED
    BY <1>3, <1>4, <2>1, <2>3, PutsUnder
<1>6. CASE ~Halved(rd)
  <2>1. \A m : ~Under(l, rd.name, m)
    <3>1. \A d \in AllDevs(l) : d.fmt = "hpt45x" /\ d.name = rd.name => ~Halved(d)
      BY <1>6 DEF OneParent
    <3>2. rd.name[1] = "hpt45x"
      BY DEF Hpt45x!Name
    <3> QED
      BY <3>1, <3>2 DEF Under
  <2>2. h = Listed(g, rd.name)
    BY <1>1, <1>6 DEF Hpt45x!Placed, Hpt45x!Listed, Listed, Halved
  <2> QED
    BY <1>3, <1>4, <2>1, <2>2, PutsAlone
<1> QED
  BY <1>5, <1>6

\* The least member of a set of places of jm lists.
LEMMA JmLeast ==
  ASSUME NEW T \in SUBSET Nat, T # {}
  PROVE  Jm!Min(T) \in T
BY LeastNat DEF Jm!Min

\* list_add_sorted() puts the new entry in somewhere (jm).
LEMMA JmSorted ==
  ASSUME NEW list, IsList(list), NEW new
  PROVE  Inserted(Jm!AddSorted(list, new, Jm!Before), list, new)
<1> DEFINE I == {i \in 1 .. Len(list) : Jm!Before(list[i], new)}
<1>1. Jm!AddSorted(list, new, Jm!Before)
        = IF I = {} THEN Append(list, new)
          ELSE IF Jm!Min(I) = 0 THEN Append(list, new) ELSE InsertAt(list, Jm!Min(I), new)
  BY SMTT(30) DEF Jm!AddSorted, Jm!SelectInSeq, Jm!InsertAt, InsertAt
<1>2. I \in SUBSET Nat /\ I \subseteq 1 .. Len(list)
  OBVIOUS
<1> HIDE DEF I
<1> QED
  BY <1>1, <1>2, JmLeast, InsertedAt

\* init_raid_set() and the sorted list of devices (jm).
LEMMA JmMember ==
  ASSUME NEW f, IsSets(f), NEW rd, NEW stride, NEW g \in Jm!Member(f, rd, stride, Jm!Before)
  PROVE  Holds(f, g, rd.name, rd) /\ Accepted(f, g, rd.name, stride)
<1> DEFINE rs   == Jm!FoundOrNew(f, rd)
           type == IF rs.type \in {"spare", "undef"} THEN rd.type ELSE rs.type
           devs == Jm!AddSorted(rs.devs, rd, Jm!Before)
           new  == WithDevs(rs, type, stride, devs)
<1>1. IsRs(rs) /\ rs.devs = OldDevs(f, rd.name) /\ rs.subs = OldSubs(f, rd.name)
      /\ (rd.name \in DOMAIN f.set => rs = f.set[rd.name])
  BY EmptyList DEF Jm!FoundOrNew, Jm!Found, Jm!NewSet, IsSets, IsRs, OldDevs, OldSubs
<1>2. Jm!Accepts(rs, rd, stride) /\ g = WithSet(f, rd.name, new)
  BY DEF Jm!Member, Jm!WithSet, WithSet, WithDevs
<1>3. Inserted(devs, rs.devs, rd)
  BY <1>1, JmSorted DEF IsRs
<1>5. new = WithDevs(rs, type, stride, devs)
  OBVIOUS
<1> HIDE DEF rs, type, devs, new
<1>4. Holds(f, g, rd.name, rd) /\ g.set[rd.name].stride = stride
  BY <1>1, <1>2, <1>3, <1>5, HoldsOne
<1> QED
  BY <1>1, <1>2, <1>4 DEF Accepted, Jm!Accepts

\* join_superset() (jm).
LEMMA JmJoined ==
  ASSUME NEW f, IsSets(f), NEW rd, NEW s, NEW type, NEW stride, NEW g,
         g = Jm!Joined(f, rd, s, type, stride, Jm!SetBefore)
  PROVE  Hangs(f, g, rd.name, s) /\ KeepsStride(f, g, s)
<1> DEFINE ss  == IF s \in f.top THEN f.set[s] ELSE [Jm!NewSet EXCEPT !.type = type, !.stride = stride]
           I   == {i \in 1 .. Len(ss.subs) : Jm!SetBefore(f.set[ss.subs[i]], f.set[rd.name])}
           add == IF I = {} THEN Append(ss.subs, rd.name)
                  ELSE IF Jm!Min(I) = 0 THEN Append(ss.subs, rd.name)
                  ELSE InsertAt(ss.subs, Jm!Min(I), rd.name)
           new == IF \E i \in DOMAIN ss.subs : ss.subs[i] = rd.name THEN ss ELSE WithSubs(ss, add)
<1>1. IsRs(ss) /\ ss.devs = TopDevs(f, s) /\ ss.subs = TopSubs(f, s)
      /\ (s \in f.top => ss = f.set[s])
  BY EmptyList DEF Jm!NewSet, IsSets, IsRs, TopDevs, TopSubs
<1>2. g = Listed(WithSet(f, s, new), s)
  <2>1. g = Listed(WithSet(f, s, IF rd.name \in Jm!ToSet(ss.subs) THEN ss ELSE WithSubs(ss,
              Jm!AddSorted(ss.subs, rd.name, LAMBDA pos, x : Jm!SetBefore(f.set[pos], f.set[x])))), s)
    BY DEF Jm!Joined, Jm!WithSet, Jm!Listed, WithSet, Listed, WithSubs
  <2> HIDE DEF ss
  <2>2. rd.name \in Jm!ToSet(ss.subs) <=> \E i \in DOMAIN ss.subs : ss.subs[i] = rd.name
    BY DEF Jm!ToSet
  <2>3. Jm!AddSorted(ss.subs, rd.name, LAMBDA pos, x : Jm!SetBefore(f.set[pos], f.set[x])) = add
    BY DEF Jm!AddSorted, Jm!SelectInSeq, Jm!InsertAt, InsertAt
  <2> QED
    BY <2>1, <2>2, <2>3
<1>3. I \in SUBSET Nat /\ I \subseteq 1 .. Len(ss.subs)
  OBVIOUS
<1> HIDE DEF I, ss
<1>4. Inserted(add, ss.subs, rd.name)
  BY <1>1, <1>3, JmLeast, InsertedAt DEF IsRs
<1> HIDE DEF add
<1>5. new = IF \E i \in DOMAIN ss.subs : ss.subs[i] = rd.name THEN ss ELSE WithSubs(ss, add)
  OBVIOUS
<1> HIDE DEF new
<1>6. Hangs(f, g, rd.name, s) /\ g.set[s].stride = ss.stride
  BY <1>1, <1>2, <1>4, <1>5, HangsOne, SMTT(30)
<1> QED
  BY <1>1, <1>6 DEF KeepsStride

\* What the handler of jm makes of the metadata it has read.
LEMMA JmRead ==
  ASSUME NEW disk, NEW capacity, NEW m, NEW rd \in Jm!Read(disk, capacity, m), m.fmt = "jm"
  PROVE  Known(rd) /\ rd.disk = disk
<1>1. rd = [fmt |-> "jm", disk |-> disk, capacity |-> capacity, meta |-> m, name |-> Jm!Name(m, TRUE),
            type |-> Jm!Type(m), status |-> Jm!Status(m), sectors |-> Jm!Sectors(m), offset |-> m.base]
  BY Zenon DEF Jm!Read
<1>9. /\ IsDevice(rd) /\ rd.fmt = "jm" /\ rd.disk = disk /\ rd.meta = m
      /\ rd.name = Jm!Name(rd.meta, TRUE) /\ rd.type = Jm!Type(rd.meta)
  BY <1>1, DeviceIs
<1> QED
  BY <1>9, FormatSet DEF Known

\* The handler of jm puts the device into the set where it belongs, or fails.
LEMMA JmGroup ==
  ASSUME NEW l, NEW f, IsSets(f), NEW rd, rd.fmt = "jm", rd.meta.fmt = "jm",
         rd.name = Jm!Name(rd.meta, TRUE), NEW h \in Jm!Group(f, rd)
  PROVE  \E n, sup : Puts(l, f, h, rd, n, sup)
<1>1. PICK g \in Jm!Member(f, rd, Jm!Stride(rd.meta), Jm!Before) : h = Jm!Placed(g, rd)
  BY DEF Jm!Group
<1>2. StrideOf(rd) = Jm!Stride(rd.meta)
  BY DEF StrideOf
<1>3. Holds(f, g, rd.name, rd) /\ Accepted(f, g, rd.name, StrideOf(rd)) /\ rd.fmt \notin Unchecked
  BY <1>1, <1>2, JmMember DEF Unchecked
<1>4. rd.name[1] = rd.fmt
  BY DEF Jm!Name
<1>5. CASE rd.meta.mode = "raid01"
  <2> DEFINE s == Jm!Name(rd.meta, FALSE)
  <2>1. Under(l, rd.name, s) /\ s[1] = rd.fmt /\ s # rd.name
    BY <1>5 DEF Jm!Name, Under
  <2>2. h = Jm!Joined(g, rd, s, "raid0", Jm!Stride(rd.meta), Jm!SetBefore)
    BY <1>1, <1>5 DEF Jm!Placed
  <2> HIDE DEF s
  <2>3. Hangs(g, h, rd.name, s) /\ KeepsStride(g, h, s)
    BY <1>3, <2>2, JmJoined DEF Holds
  <2> QED
    BY <1>3, <1>4, <2>1, <2>3, PutsUnder
<1>6. CASE rd.meta.mode # "raid01"
  <2>1. \A m : ~Under(l, rd.name, m)
    BY <1>6 DEF Jm!Name, Under
  <2>2. h = Listed(g, rd.name)
    BY <1>1, <1>6 DEF Jm!Placed, Jm!Listed, Listed
  <2> QED
    BY <1>3, <1>4, <2>1, <2>2, PutsAlone
<1> QED
  BY <1>5, <1>6

\* The least member of a set of places of lsi lists.
LEMMA LsiLeast ==
  ASSUME NEW T \in SUBSET Nat, T # {}
  PROVE  Lsi!Min(T) \in T
BY LeastNat DEF Lsi!Min

\* list_add_sorted() puts the new entry in somewhere (lsi).
LEMMA LsiSorted ==
  ASSUME NEW list, IsList(list), NEW new
  PROVE  Inserted(Lsi!AddSorted(list, new, Lsi!Before), list, new)
<1> DEFINE I == {i \in 1 .. Len(list) : Lsi!Before(list[i], new)}
<1>1. Lsi!AddSorted(list, new, Lsi!Before)
        = IF I = {} THEN Append(list, new)
          ELSE IF Lsi!Min(I) = 0 THEN Append(list, new) ELSE InsertAt(list, Lsi!Min(I), new)
  BY SMTT(30) DEF Lsi!AddSorted, Lsi!SelectInSeq, Lsi!InsertAt, InsertAt
<1>2. I \in SUBSET Nat /\ I \subseteq 1 .. Len(list)
  OBVIOUS
<1> HIDE DEF I
<1> QED
  BY <1>1, <1>2, LsiLeast, InsertedAt

\* init_raid_set() and the sorted list of devices (lsi).
LEMMA LsiMember ==
  ASSUME NEW f, IsSets(f), NEW rd, NEW stride, NEW g \in Lsi!Member(f, rd, stride, Lsi!Before)
  PROVE  Holds(f, g, rd.name, rd) /\ Accepted(f, g, rd.name, stride)
<1> DEFINE rs   == Lsi!FoundOrNew(f, rd)
           type == IF rs.type \in {"spare", "undef"} THEN rd.type ELSE rs.type
           devs == Lsi!AddSorted(rs.devs, rd, Lsi!Before)
           new  == WithDevs(rs, type, stride, devs)
<1>1. IsRs(rs) /\ rs.devs = OldDevs(f, rd.name) /\ rs.subs = OldSubs(f, rd.name)
      /\ (rd.name \in DOMAIN f.set => rs = f.set[rd.name])
  BY EmptyList DEF Lsi!FoundOrNew, Lsi!Found, Lsi!NewSet, IsSets, IsRs, OldDevs, OldSubs
<1>2. Lsi!Accepts(rs, rd, stride) /\ g = WithSet(f, rd.name, new)
  BY DEF Lsi!Member, Lsi!WithSet, WithSet, WithDevs
<1>3. Inserted(devs, rs.devs, rd)
  BY <1>1, LsiSorted DEF IsRs
<1>5. new = WithDevs(rs, type, stride, devs)
  OBVIOUS
<1> HIDE DEF rs, type, devs, new
<1>4. Holds(f, g, rd.name, rd) /\ g.set[rd.name].stride = stride
  BY <1>1, <1>2, <1>3, <1>5, HoldsOne
<1> QED
  BY <1>1, <1>2, <1>4 DEF Accepted, Lsi!Accepts

\* join_superset() (lsi).
LEMMA LsiJoined ==
  ASSUME NEW f, IsSets(f), NEW rd, NEW s, NEW type, NEW stride, NEW g,
         g = Lsi!Joined(f, rd, s, type, stride, Lsi!SetBefore)
  PROVE  Hangs(f, g, rd.name, s) /\ KeepsStride(f, g, s)
<1> DEFINE ss  == IF s \in f.top THEN f.set[s] ELSE [Lsi!NewSet EXCEPT !.type = type, !.stride = stride]
           I   == {i \in 1 .. Len(ss.subs) : Lsi!SetBefore(f.set[ss.subs[i]], f.set[rd.name])}
           add == IF I = {} THEN Append(ss.subs, rd.name)
                  ELSE IF Lsi!Min(I) = 0 THEN Append(ss.subs, rd.name)
                  ELSE InsertAt(ss.subs, Lsi!Min(I), rd.name)
           new == IF \E i \in DOMAIN ss.subs : ss.subs[i] = rd.name THEN ss ELSE WithSubs(ss, add)
<1>1. IsRs(ss) /\ ss.devs = TopDevs(f, s) /\ ss.subs = TopSubs(f, s)
      /\ (s \in f.top => ss = f.set[s])
  BY EmptyList DEF Lsi!NewSet, IsSets, IsRs, TopDevs, TopSubs
<1>2. g = Listed(WithSet(f, s, new), s)
  <2>1. g = Listed(WithSet(f, s, IF rd.name \in Lsi!ToSet(ss.subs) THEN ss ELSE WithSubs(ss,
              Lsi!AddSorted(ss.subs, rd.name, LAMBDA pos, x : Lsi!SetBefore(f.set[pos], f.set[x])))), s)
    BY DEF Lsi!Joined, Lsi!WithSet, Lsi!Listed, WithSet, Listed, WithSubs
  <2> HIDE DEF ss
  <2>2. rd.name \in Lsi!ToSet(ss.subs) <=> \E i \in DOMAIN ss.subs : ss.subs[i] = rd.name
    BY DEF Lsi!ToSet
  <2>3. Lsi!AddSorted(ss.subs, rd.name, LAMBDA pos, x : Lsi!SetBefore(f.set[pos], f.set[x])) = add
    BY DEF Lsi!AddSorted, Lsi!SelectInSeq, Lsi!InsertAt, InsertAt
  <2> QED
    BY <2>1, <2>2, <2>3
<1>3. I \in SUBSET Nat /\ I \subseteq 1 .. Len(ss.subs)
  OBVIOUS
<1> HIDE DEF I, ss
<1>4. Inserted(add, ss.subs, rd.name)
  BY <1>1, <1>3, LsiLeast, InsertedAt DEF IsRs
<1> HIDE DEF add
<1>5. new = IF \E i \in DOMAIN ss.subs : ss.subs[i] = rd.name THEN ss ELSE WithSubs(ss, add)
  OBVIOUS
<1> HIDE DEF new
<1>6. Hangs(f, g, rd.name, s) /\ g.set[s].stride = ss.stride
  BY <1>1, <1>2, <1>4, <1>5, HangsOne, SMTT(30)
<1> QED
  BY <1>1, <1>6 DEF KeepsStride

\* What the handler of lsi makes of the metadata it has read.
LEMMA LsiRead ==
  ASSUME NEW disk, NEW capacity, NEW m, NEW rd \in Lsi!Read(disk, capacity, m), m.fmt = "lsi"
  PROVE  Known(rd) /\ rd.disk = disk
<1>1. rd = [fmt |-> "lsi", disk |-> disk, capacity |-> capacity, meta |-> m, name |-> Lsi!Name(m, TRUE),
            type |-> Lsi!Type(m), status |-> "ok", sectors |-> Lsi!ConfigOffset(capacity), offset |-> 0]
  BY Zenon DEF Lsi!Read
<1>9. /\ IsDevice(rd) /\ rd.fmt = "lsi" /\ rd.disk = disk /\ rd.meta = m
      /\ rd.name = Lsi!Name(rd.meta, TRUE) /\ rd.type = Lsi!Type(rd.meta)
  BY <1>1, DeviceIs
<1> QED
  BY <1>9, FormatSet DEF Known

\* The handler of lsi puts the device into the set where it belongs, or fails.
LEMMA LsiGroup ==
  ASSUME NEW l, NEW f, IsSets(f), NEW rd, rd.fmt = "lsi", rd.meta.fmt = "lsi",
         rd.name = Lsi!Name(rd.meta, TRUE), NEW h \in Lsi!Group(f, rd)
  PROVE  \E n, sup : Puts(l, f, h, rd, n, sup)
<1>1. PICK g \in Lsi!Member(f, rd, rd.meta.stride, Lsi!Before) : h = Lsi!Placed(g, rd)
  BY DEF Lsi!Group
<1>2. StrideOf(rd) = rd.meta.stride
  BY DEF StrideOf
<1>3. Holds(f, g, rd.name, rd) /\ Accepted(f, g, rd.name, StrideOf(rd)) /\ rd.fmt \notin Unchecked
  BY <1>1, <1>2, LsiMember DEF Unchecked
<1>4. rd.name[1] = rd.fmt
  BY DEF Lsi!Name
<1>5. CASE rd.meta.type = "raid10"
  <2> DEFINE s == Lsi!Name(rd.meta, FALSE)
  <2>1. Under(l, rd.name, s) /\ s[1] = rd.fmt /\ s # rd.name
    BY <1>5 DEF Lsi!Name, Under
  <2>2. h = Lsi!Joined(g, rd, s, "raid1", rd.meta.stride, Lsi!SetBefore)
    BY <1>1, <1>5 DEF Lsi!Placed
  <2> HIDE DEF s
  <2>3. Hangs(g, h, rd.name, s) /\ KeepsStride(g, h, s)
    BY <1>3, <2>2, LsiJoined DEF Holds
  <2> QED
    BY <1>3, <1>4, <2>1, <2>3, PutsUnder
<1>6. CASE rd.meta.type # "raid10"
  <2>1. \A m : ~Under(l, rd.name, m)
    BY <1>6 DEF Lsi!Name, Under
  <2>2. h = Listed(g, rd.name)
    BY <1>1, <1>6 DEF Lsi!Placed, Lsi!Listed, Listed
  <2> QED
    BY <1>3, <1>4, <2>1, <2>2, PutsAlone
<1> QED
  BY <1>5, <1>6

\* The least member of a set of places of pdc lists.
LEMMA PdcLeast ==
  ASSUME NEW T \in SUBSET Nat, T # {}
  PROVE  Pdc!Min(T) \in T
BY LeastNat DEF Pdc!Min

\* list_add_sorted() puts the new entry in somewhere (pdc).
LEMMA PdcSorted ==
  ASSUME NEW list, IsList(list), NEW new
  PROVE  Inserted(Pdc!AddSorted(list, new, Pdc!Before), list, new)
<1> DEFINE I == {i \in 1 .. Len(list) : Pdc!Before(list[i], new)}
<1>1. Pdc!AddSorted(list, new, Pdc!Before)
        = IF I = {} THEN Append(list, new)
          ELSE IF Pdc!Min(I) = 0 THEN Append(list, new) ELSE InsertAt(list, Pdc!Min(I), new)
  BY SMTT(30) DEF Pdc!AddSorted, Pdc!SelectInSeq, Pdc!InsertAt, InsertAt
<1>2. I \in SUBSET Nat /\ I \subseteq 1 .. Len(list)
  OBVIOUS
<1> HIDE DEF I
<1> QED
  BY <1>1, <1>2, PdcLeast, InsertedAt

\* init_raid_set() and the sorted list of devices (pdc).
LEMMA PdcMember ==
  ASSUME NEW f, IsSets(f), NEW rd, NEW stride, NEW g \in Pdc!Member(f, rd, stride, Pdc!Before)
  PROVE  Holds(f, g, rd.name, rd) /\ Accepted(f, g, rd.name, stride)
<1> DEFINE rs   == Pdc!FoundOrNew(f, rd)
           type == IF rs.type \in {"spare", "undef"} THEN rd.type ELSE rs.type
           devs == Pdc!AddSorted(rs.devs, rd, Pdc!Before)
           new  == WithDevs(rs, type, stride, devs)
<1>1. IsRs(rs) /\ rs.devs = OldDevs(f, rd.name) /\ rs.subs = OldSubs(f, rd.name)
      /\ (rd.name \in DOMAIN f.set => rs = f.set[rd.name])
  BY EmptyList DEF Pdc!FoundOrNew, Pdc!Found, Pdc!NewSet, IsSets, IsRs, OldDevs, OldSubs
<1>2. Pdc!Accepts(rs, rd, stride) /\ g = WithSet(f, rd.name, new)
  BY DEF Pdc!Member, Pdc!WithSet, WithSet, WithDevs
<1>3. Inserted(devs, rs.devs, rd)
  BY <1>1, PdcSorted DEF IsRs
<1>5. new = WithDevs(rs, type, stride, devs)
  OBVIOUS
<1> HIDE DEF rs, type, devs, new
<1>4. Holds(f, g, rd.name, rd) /\ g.set[rd.name].stride = stride
  BY <1>1, <1>2, <1>3, <1>5, HoldsOne
<1> QED
  BY <1>1, <1>2, <1>4 DEF Accepted, Pdc!Accepts

\* join_superset() (pdc).
LEMMA PdcJoined ==
  ASSUME NEW f, IsSets(f), NEW rd, NEW s, NEW type, NEW stride, NEW g,
         g = Pdc!Joined(f, rd, s, type, stride, Pdc!SetBefore)
  PROVE  Hangs(f, g, rd.name, s) /\ KeepsStride(f, g, s)
<1> DEFINE ss  == IF s \in f.top THEN f.set[s] ELSE [Pdc!NewSet EXCEPT !.type = type, !.stride = stride]
           I   == {i \in 1 .. Len(ss.subs) : Pdc!SetBefore(f.set[ss.subs[i]], f.set[rd.name])}
           add == IF I = {} THEN Append(ss.subs, rd.name)
                  ELSE IF Pdc!Min(I) = 0 THEN Append(ss.subs, rd.name)
                  ELSE InsertAt(ss.subs, Pdc!Min(I), rd.name)
           new == IF \E i \in DOMAIN ss.subs : ss.subs[i] = rd.name THEN ss ELSE WithSubs(ss, add)
<1>1. IsRs(ss) /\ ss.devs = TopDevs(f, s) /\ ss.subs = TopSubs(f, s)
      /\ (s \in f.top => ss = f.set[s])
  BY EmptyList DEF Pdc!NewSet, IsSets, IsRs, TopDevs, TopSubs
<1>2. g = Listed(WithSet(f, s, new), s)
  <2>1. g = Listed(WithSet(f, s, IF rd.name \in Pdc!ToSet(ss.subs) THEN ss ELSE WithSubs(ss,
              Pdc!AddSorted(ss.subs, rd.name, LAMBDA pos, x : Pdc!SetBefore(f.set[pos], f.set[x])))), s)
    BY DEF Pdc!Joined, Pdc!WithSet, Pdc!Listed, WithSet, Listed, WithSubs
  <2> HIDE DEF ss
  <2>2. rd.name \in Pdc!ToSet(ss.subs) <=> \E i \in DOMAIN ss.subs : ss.subs[i] = rd.name
    BY DEF Pdc!ToSet
  <2>3. Pdc!AddSorted(ss.subs, rd.name, LAMBDA pos, x : Pdc!SetBefore(f.set[pos], f.set[x])) = add
    BY DEF Pdc!AddSorted, Pdc!SelectInSeq, Pdc!InsertAt, InsertAt
  <2> QED
    BY <2>1, <2>2, <2>3
<1>3. I \in SUBSET Nat /\ I \subseteq 1 .. Len(ss.subs)
  OBVIOUS
<1> HIDE DEF I, ss
<1>4. Inserted(add, ss.subs, rd.name)
  BY <1>1, <1>3, PdcLeast, InsertedAt DEF IsRs
<1> HIDE DEF add
<1>5. new = IF \E i \in DOMAIN ss.subs : ss.subs[i] = rd.name THEN ss ELSE WithSubs(ss, add)
  OBVIOUS
<1> HIDE DEF new
<1>6. Hangs(f, g, rd.name, s) /\ g.set[s].stride = ss.stride
  BY <1>1, <1>2, <1>4, <1>5, HangsOne, SMTT(30)
<1> QED
  BY <1>1, <1>6 DEF KeepsStride

\* group_rd() for one area of a Promise disk.
LEMMA PdcGroupArea ==
  ASSUME NEW l, NEW f, IsSets(f), NEW rd, rd.fmt = "pdc",
         rd.name = Pdc!Name(rd.meta, Pdc!IsRaid10(rd.meta)), NEW h \in Pdc!GroupArea(f, rd)
  PROVE  \E n, sup : Puts(l, f, h, rd, n, sup)
<1>1. PICK g \in Pdc!Member(f, rd, Pdc!Stride(rd.meta), Pdc!Before) : h = Pdc!Placed(g, rd)
  BY DEF Pdc!GroupArea
<1>2. StrideOf(rd) = Pdc!Stride(rd.meta)
  BY DEF StrideOf
<1>3. Holds(f, g, rd.name, rd) /\ Accepted(f, g, rd.name, StrideOf(rd)) /\ rd.fmt \notin Unchecked
  BY <1>1, <1>2, PdcMember DEF Unchecked
<1>4. rd.name[1] = rd.fmt
  BY DEF Pdc!Name
<1>5. CASE Pdc!IsRaid10(rd.meta)
  <2> DEFINE s == Pdc!Name(rd.meta, FALSE)
  <2>1. Under(l, rd.name, s) /\ s[1] = rd.fmt /\ s # rd.name
    BY <1>5 DEF Pdc!Name, Under
  <2>2. h = Pdc!Joined(g, rd, s, "raid1", Pdc!Stride(rd.meta), Pdc!SetBefore)
    BY <1>1, <1>5 DEF Pdc!Placed
  <2> HIDE DEF s
  <2>3. Hangs(g, h, rd.name, s) /\ KeepsStride(g, h, s)
    BY <1>3, <2>2, PdcJoined DEF Holds
  <2> QED
    BY <1>3, <1>4, <2>1, <2>3, PutsUnder
<1>6. CASE ~Pdc!IsRaid10(rd.meta)
  <2>1. \A m : ~Under(l, rd.name, m)
    BY <1>6 DEF Pdc!Name, Under
  <2>2. h = Listed(g, rd.name)
    BY <1>1, <1>6 DEF Pdc!Placed, Pdc!Listed, Listed
  <2> QED
    BY <1>3, <1>4, <2>1, <2>2, PutsAlone
<1> QED
  BY <1>5, <1>6

\* The least member of a set of places of sil lists.
LEMMA SilLeast ==
  ASSUME NEW T \in SUBSET Nat, T # {}
  PROVE  Sil!Min(T) \in T
BY LeastNat DEF Sil!Min

\* list_add_sorted() puts the new entry in somewhere (sil).
LEMMA SilSorted ==
  ASSUME NEW list, IsList(list), NEW new
  PROVE  Inserted(Sil!AddSorted(list, new, Sil!Before), list, new)
<1> DEFINE I == {i \in 1 .. Len(list) : Sil!Before(list[i], new)}
<1>1. Sil!AddSorted(list, new, Sil!Before)
        = IF I = {} THEN Append(list, new)
          ELSE IF Sil!Min(I) = 0 THEN Append(list, new) ELSE InsertAt(list, Sil!Min(I), new)
  BY SMTT(30) DEF Sil!AddSorted, Sil!SelectInSeq, Sil!InsertAt, InsertAt
<1>2. I \in SUBSET Nat /\ I \subseteq 1 .. Len(list)
  OBVIOUS
<1> HIDE DEF I
<1> QED
  BY <1>1, <1>2, SilLeast, InsertedAt

\* init_raid_set() and the sorted list of devices (sil).
LEMMA SilMember ==
  ASSUME NEW f, IsSets(f), NEW rd, NEW stride, NEW g \in Sil!Member(f, rd, stride, Sil!Before)
  PROVE  Holds(f, g, rd.name, rd) /\ Accepted(f, g, rd.name, stride)
<1> DEFINE rs   == Sil!FoundOrNew(f, rd)
           type == IF rs.type \in {"spare", "undef"} THEN rd.type ELSE rs.type
           devs == Sil!AddSorted(rs.devs, rd, Sil!Before)
           new  == WithDevs(rs, type, stride, devs)
<1>1. IsRs(rs) /\ rs.devs = OldDevs(f, rd.name) /\ rs.subs = OldSubs(f, rd.name)
      /\ (rd.name \in DOMAIN f.set => rs = f.set[rd.name])
  BY EmptyList DEF Sil!FoundOrNew, Sil!Found, Sil!NewSet, IsSets, IsRs, OldDevs, OldSubs
<1>2. Sil!Accepts(rs, rd, stride) /\ g = WithSet(f, rd.name, new)
  BY DEF Sil!Member, Sil!WithSet, WithSet, WithDevs
<1>3. Inserted(devs, rs.devs, rd)
  BY <1>1, SilSorted DEF IsRs
<1>5. new = WithDevs(rs, type, stride, devs)
  OBVIOUS
<1> HIDE DEF rs, type, devs, new
<1>4. Holds(f, g, rd.name, rd) /\ g.set[rd.name].stride = stride
  BY <1>1, <1>2, <1>3, <1>5, HoldsOne
<1> QED
  BY <1>1, <1>2, <1>4 DEF Accepted, Sil!Accepts

\* join_superset() (sil).
LEMMA SilJoined ==
  ASSUME NEW f, IsSets(f), NEW rd, NEW s, NEW type, NEW stride, NEW g,
         g = Sil!Joined(f, rd, s, type, stride, Sil!SetBefore)
  PROVE  Hangs(f, g, rd.name, s) /\ KeepsStride(f, g, s)
<1> DEFINE ss  == IF s \in f.top THEN f.set[s] ELSE [Sil!NewSet EXCEPT !.type = type, !.stride = stride]
           I   == {i \in 1 .. Len(ss.subs) : Sil!SetBefore(f.set[ss.subs[i]], f.set[rd.name])}
           add == IF I = {} THEN Append(ss.subs, rd.name)
                  ELSE IF Sil!Min(I) = 0 THEN Append(ss.subs, rd.name)
                  ELSE InsertAt(ss.subs, Sil!Min(I), rd.name)
           new == IF \E i \in DOMAIN ss.subs : ss.subs[i] = rd.name THEN ss ELSE WithSubs(ss, add)
<1>1. IsRs(ss) /\ ss.devs = TopDevs(f, s) /\ ss.subs = TopSubs(f, s)
      /\ (s \in f.top => ss = f.set[s])
  BY EmptyList DEF Sil!NewSet, IsSets, IsRs, TopDevs, TopSubs
<1>2. g = Listed(WithSet(f, s, new), s)
  <2>1. g = Listed(WithSet(f, s, IF rd.name \in Sil!ToSet(ss.subs) THEN ss ELSE WithSubs(ss,
              Sil!AddSorted(ss.subs, rd.name, LAMBDA pos, x : Sil!SetBefore(f.set[pos], f.set[x])))), s)
    BY DEF Sil!Joined, Sil!WithSet, Sil!Listed, WithSet, Listed, WithSubs
  <2> HIDE DEF ss
  <2>2. rd.name \in Sil!ToSet(ss.subs) <=> \E i \in DOMAIN ss.subs : ss.subs[i] = rd.name
    BY DEF Sil!ToSet
  <2>3. Sil!AddSorted(ss.subs, rd.name, LAMBDA pos, x : Sil!SetBefore(f.set[pos], f.set[x])) = add
    BY DEF Sil!AddSorted, Sil!SelectInSeq, Sil!InsertAt, InsertAt
  <2> QED
    BY <2>1, <2>2, <2>3
<1>3. I \in SUBSET Nat /\ I \subseteq 1 .. Len(ss.subs)
  OBVIOUS
<1> HIDE DEF I, ss
<1>4. Inserted(add, ss.subs, rd.name)
  BY <1>1, <1>3, SilLeast, InsertedAt DEF IsRs
<1> HIDE DEF add
<1>5. new = IF \E i \in DOMAIN ss.subs : ss.subs[i] = rd.name THEN ss ELSE WithSubs(ss, add)
  OBVIOUS
<1> HIDE DEF new
<1>6. Hangs(f, g, rd.name, s) /\ g.set[s].stride = ss.stride
  BY <1>1, <1>2, <1>4, <1>5, HangsOne, SMTT(30)
<1> QED
  BY <1>1, <1>6 DEF KeepsStride

\* What the handler of sil makes of the metadata it has read.
LEMMA SilRead ==
  ASSUME NEW disk, NEW capacity, NEW m, NEW rd \in Sil!Read(disk, capacity, m)
  PROVE  Known(rd) /\ rd.disk = disk
<1>1. PICK c \in Sil!Quorate(m, capacity) :
        rd = [fmt |-> "sil", disk |-> disk, capacity |-> capacity, meta |-> c, name |-> Sil!Name(c, TRUE),
              type |-> Sil!Type(c), status |-> Sil!Status(c), sectors |-> Sil!Sectors(c, capacity), offset |-> 0]
  BY Zenon DEF Sil!Read
<1>9. /\ IsDevice(rd) /\ rd.fmt = "sil" /\ rd.disk = disk
      /\ rd.name = Sil!Name(rd.meta, TRUE) /\ rd.type = Sil!Type(rd.meta)
  BY <1>1, DeviceIs
<1> QED
  BY <1>9, FormatSet DEF Known

\* The handler of sil puts the device into the set where it belongs, or fails.
LEMMA SilGroup ==
  ASSUME NEW l, NEW f, IsSets(f), NEW rd, rd.fmt = "sil",
         rd.name = Sil!Name(rd.meta, TRUE), NEW h \in Sil!Group(f, rd)
  PROVE  \E n, sup : Puts(l, f, h, rd, n, sup)
<1>1. PICK g \in Sil!Member(f, rd, rd.meta.stride, Sil!Before) : h = Sil!Placed(g, rd)
  BY DEF Sil!Group
<1>2. StrideOf(rd) = rd.meta.stride
  BY DEF StrideOf
<1>3. Holds(f, g, rd.name, rd) /\ Accepted(f, g, rd.name, StrideOf(rd)) /\ rd.fmt \notin Unchecked
  BY <1>1, <1>2, SilMember DEF Unchecked
<1>4. rd.name[1] = rd.fmt
  BY DEF Sil!Name
<1>5. CASE rd.meta.type = "raid10"
  <2> DEFINE s == Sil!Name(rd.meta, FALSE)
  <2>1. Under(l, rd.name, s) /\ s[1] = rd.fmt /\ s # rd.name
    BY <1>5 DEF Sil!Name, Under
  <2>2. h = Sil!Joined(g, rd, s, "raid1", rd.meta.stride, Sil!SetBefore)
    BY <1>1, <1>5 DEF Sil!Placed
  <2> HIDE DEF s
  <2>3. Hangs(g, h, rd.name, s) /\ KeepsStride(g, h, s)
    BY <1>3, <2>2, SilJoined DEF Holds
  <2> QED
    BY <1>3, <1>4, <2>1, <2>3, PutsUnder
<1>6. CASE rd.meta.type # "raid10"
  <2>1. \A m : ~Under(l, rd.name, m)
    BY <1>6 DEF Sil!Name, Under
  <2>2. h = Listed(g, rd.name)
    BY <1>1, <1>6 DEF Sil!Placed, Sil!Listed, Listed
  <2> QED
    BY <1>3, <1>4, <2>1, <2>2, PutsAlone
<1> QED
  BY <1>5, <1>6

\* The least member of a set of places of via lists.
LEMMA ViaLeast ==
  ASSUME NEW T \in SUBSET Nat, T # {}
  PROVE  Via!Min(T) \in T
BY LeastNat DEF Via!Min

\* list_add_sorted() puts the new entry in somewhere (via).
LEMMA ViaSorted ==
  ASSUME NEW list, IsList(list), NEW new
  PROVE  Inserted(Via!AddSorted(list, new, Via!Before), list, new)
<1> DEFINE I == {i \in 1 .. Len(list) : Via!Before(list[i], new)}
<1>1. Via!AddSorted(list, new, Via!Before)
        = IF I = {} THEN Append(list, new)
          ELSE IF Via!Min(I) = 0 THEN Append(list, new) ELSE InsertAt(list, Via!Min(I), new)
  BY SMTT(30) DEF Via!AddSorted, Via!SelectInSeq, Via!InsertAt, InsertAt
<1>2. I \in SUBSET Nat /\ I \subseteq 1 .. Len(list)
  OBVIOUS
<1> HIDE DEF I
<1> QED
  BY <1>1, <1>2, ViaLeast, InsertedAt

\* init_raid_set() and the sorted list of devices (via).
LEMMA ViaMember ==
  ASSUME NEW f, IsSets(f), NEW rd, NEW stride, NEW g \in Via!Member(f, rd, stride, Via!Before)
  PROVE  Holds(f, g, rd.name, rd) /\ Accepted(f, g, rd.name, stride)
<1> DEFINE rs   == Via!FoundOrNew(f, rd)
           type == IF rs.type \in {"spare", "undef"} THEN rd.type ELSE rs.type
           devs == Via!AddSorted(rs.devs, rd, Via!Before)
           new  == WithDevs(rs, type, stride, devs)
<1>1. IsRs(rs) /\ rs.devs = OldDevs(f, rd.name) /\ rs.subs = OldSubs(f, rd.name)
      /\ (rd.name \in DOMAIN f.set => rs = f.set[rd.name])
  BY EmptyList DEF Via!FoundOrNew, Via!Found, Via!NewSet, IsSets, IsRs, OldDevs, OldSubs
<1>2. Via!Accepts(rs, rd, stride) /\ g = WithSet(f, rd.name, new)
  BY DEF Via!Member, Via!WithSet, WithSet, WithDevs
<1>3. Inserted(devs, rs.devs, rd)
  BY <1>1, ViaSorted DEF IsRs
<1>5. new = WithDevs(rs, type, stride, devs)
  OBVIOUS
<1> HIDE DEF rs, type, devs, new
<1>4. Holds(f, g, rd.name, rd) /\ g.set[rd.name].stride = stride
  BY <1>1, <1>2, <1>3, <1>5, HoldsOne
<1> QED
  BY <1>1, <1>2, <1>4 DEF Accepted, Via!Accepts

\* join_superset() (via).
LEMMA ViaJoined ==
  ASSUME NEW f, IsSets(f), NEW rd, NEW s, NEW type, NEW stride, NEW g,
         g = Via!Joined(f, rd, s, type, stride, Via!SetBefore)
  PROVE  Hangs(f, g, rd.name, s) /\ KeepsStride(f, g, s)
<1> DEFINE ss  == IF s \in f.top THEN f.set[s] ELSE [Via!NewSet EXCEPT !.type = type, !.stride = stride]
           I   == {i \in 1 .. Len(ss.subs) : Via!SetBefore(f.set[ss.subs[i]], f.set[rd.name])}
           add == IF I = {} THEN Append(ss.subs, rd.name)
                  ELSE IF Via!Min(I) = 0 THEN Append(ss.subs, rd.name)
                  ELSE InsertAt(ss.subs, Via!Min(I), rd.name)
           new == IF \E i \in DOMAIN ss.subs : ss.subs[i] = rd.name THEN ss ELSE WithSubs(ss, add)
<1>1. IsRs(ss) /\ ss.devs = TopDevs(f, s) /\ ss.subs = TopSubs(f, s)
      /\ (s \in f.top => ss = f.set[s])
  BY EmptyList DEF Via!NewSet, IsSets, IsRs, TopDevs, TopSubs
<1>2. g = Listed(WithSet(f, s, new), s)
  <2>1. g = Listed(WithSet(f, s, IF rd.name \in Via!ToSet(ss.subs) THEN ss ELSE WithSubs(ss,
              Via!AddSorted(ss.subs, rd.name, LAMBDA pos, x : Via!SetBefore(f.set[pos], f.set[x])))), s)
    BY DEF Via!Joined, Via!WithSet, Via!Listed, WithSet, Listed, WithSubs
  <2> HIDE DEF ss
  <2>2. rd.name \in Via!ToSet(ss.subs) <=> \E i \in DOMAIN ss.subs : ss.subs[i] = rd.name
    BY DEF Via!ToSet
  <2>3. Via!AddSorted(ss.subs, rd.name, LAMBDA pos, x : Via!SetBefore(f.set[pos], f.set[x])) = add
    BY DEF Via!AddSorted, Via!SelectInSeq, Via!InsertAt, InsertAt
  <2> QED
    BY <2>1, <2>2, <2>3
<1>3. I \in SUBSET Nat /\ I \subseteq 1 .. Len(ss.subs)
  OBVIOUS
<1> HIDE DEF I, ss
<1>4. Inserted(add, ss.subs, rd.name)
  BY <1>1, <1>3, ViaLeast, InsertedAt DEF IsRs
<1> HIDE DEF add
<1>5. new = IF \E i \in DOMAIN ss.subs : ss.subs[i] = rd.name THEN ss ELSE WithSubs(ss, add)
  OBVIOUS
<1> HIDE DEF new
<1>6. Hangs(f, g, rd.name, s) /\ g.set[s].stride = ss.stride
  BY <1>1, <1>2, <1>4, <1>5, HangsOne, SMTT(30)
<1> QED
  BY <1>1, <1>6 DEF KeepsStride

\* What the handler of via makes of the metadata it has read.
LEMMA ViaRead ==
  ASSUME NEW disk, NEW capacity, NEW m, NEW rd \in Via!Read(disk, capacity, m), m.fmt = "via"
  PROVE  Known(rd) /\ rd.disk = disk
<1>1. rd = [fmt |-> "via", disk |-> disk, capacity |-> capacity, meta |-> m, name |-> Via!Name(m, TRUE),
            type |-> Via!Type(m), status |-> Via!Status(m), sectors |-> Via!ConfigOffset(capacity), offset |-> 0]
  BY Zenon DEF Via!Read
<1>9. /\ IsDevice(rd) /\ rd.fmt = "via" /\ rd.disk = disk /\ rd.meta = m
      /\ rd.name = Via!Name(rd.meta, TRUE) /\ rd.type = Via!Type(rd.meta)
  BY <1>1, DeviceIs
<1> QED
  BY <1>9, FormatSet DEF Known

\* The handler of via puts the device into the set where it belongs, or fails.
LEMMA ViaGroup ==
  ASSUME NEW l, NEW f, IsSets(f), NEW rd, rd.fmt = "via", rd.meta.fmt = "via",
         rd.name = Via!Name(rd.meta, TRUE), NEW h \in Via!Group(f, rd)
  PROVE  \E n, sup : Puts(l, f, h, rd, n, sup)
<1>1. PICK g \in Via!Member(f, rd, Via!Stride(rd.meta), Via!Before) : h = Via!Placed(g, rd)
  BY DEF Via!Group
<1>2. StrideOf(rd) = Via!Stride(rd.meta)
  BY DEF StrideOf
<1>3. Holds(f, g, rd.name, rd) /\ Accepted(f, g, rd.name, StrideOf(rd)) /\ rd.fmt \notin Unchecked
  BY <1>1, <1>2, ViaMember DEF Unchecked
<1>4. rd.name[1] = rd.fmt
  BY DEF Via!Name
<1>5. CASE rd.meta.type = "raid01"
  <2> DEFINE s == Via!Name(rd.meta, FALSE)
  <2>1. Under(l, rd.name, s) /\ s[1] = rd.fmt /\ s # rd.name
    BY <1>5 DEF Via!Name, Under
  <2>2. h = Via!Joined(g, rd, s, "raid1", Via!Stride(rd.meta), Via!SetBefore)
    BY <1>1, <1>5 DEF Via!Placed
  <2> HIDE DEF s
  <2>3. Hangs(g, h, rd.name, s) /\ KeepsStride(g, h, s)
    BY <1>3, <2>2, ViaJoined DEF Holds
  <2> QED
    BY <1>3, <1>4, <2>1, <2>3, PutsUnder
<1>6. CASE rd.meta.type # "raid01"
  <2>1. \A m : ~Under(l, rd.name, m)
    BY <1>6 DEF Via!Name, Under
  <2>2. h = Listed(g, rd.name)
    BY <1>1, <1>6 DEF Via!Placed, Via!Listed, Listed
  <2> QED
    BY <1>3, <1>4, <2>1, <2>2, PutsAlone
<1> QED
  BY <1>5, <1>6

\* The least member of a set of places of nv lists.
LEMMA NvLeast ==
  ASSUME NEW T \in SUBSET Nat, T # {}
  PROVE  Nv!Min(T) \in T
BY LeastNat DEF Nv!Min

\* list_add_sorted() puts the new entry in somewhere (nv).
LEMMA NvSorted ==
  ASSUME NEW list, IsList(list), NEW new
  PROVE  Inserted(Nv!AddSorted(list, new, Nv!Before), list, new)
<1> DEFINE I == {i \in 1 .. Len(list) : Nv!Before(list[i], new)}
<1>1. Nv!AddSorted(list, new, Nv!Before)
        = IF I = {} THEN Append(list, new)
          ELSE IF Nv!Min(I) = 0 THEN Append(list, new) ELSE InsertAt(list, Nv!Min(I), new)
  BY SMTT(30) DEF Nv!AddSorted, Nv!SelectInSeq, Nv!InsertAt, InsertAt
<1>2. I \in SUBSET Nat /\ I \subseteq 1 .. Len(list)
  OBVIOUS
<1> HIDE DEF I
<1> QED
  BY <1>1, <1>2, NvLeast, InsertedAt

\* init_raid_set() and the sorted list of devices (nv).
LEMMA NvMember ==
  ASSUME NEW f, IsSets(f), NEW rd, NEW stride, NEW g \in Nv!Member(f, rd, stride, Nv!Before)
  PROVE  Holds(f, g, rd.name, rd) /\ Accepted(f, g, rd.name, stride)
<1> DEFINE rs   == Nv!FoundOrNew(f, rd)
           type == IF rs.type \in {"spare", "undef"} THEN rd.type ELSE rs.type
           devs == Nv!AddSorted(rs.devs, rd, Nv!Before)
           new  == WithDevs(rs, type, stride, devs)
<1>1. IsRs(rs) /\ rs.devs = OldDevs(f, rd.name) /\ rs.subs = OldSubs(f, rd.name)
      /\ (rd.name \in DOMAIN f.set => rs = f.set[rd.name])
  BY EmptyList DEF Nv!FoundOrNew, Nv!Found, Nv!NewSet, IsSets, IsRs, OldDevs, OldSubs
<1>2. Nv!Accepts(rs, rd, stride) /\ g = WithSet(f, rd.name, new)
  BY DEF Nv!Member, Nv!WithSet, WithSet, WithDevs
<1>3. Inserted(devs, rs.devs, rd)
  BY <1>1, NvSorted DEF IsRs
<1>5. new = WithDevs(rs, type, stride, devs)
  OBVIOUS
<1> HIDE DEF rs, type, devs, new
<1>4. Holds(f, g, rd.name, rd) /\ g.set[rd.name].stride = stride
  BY <1>1, <1>2, <1>3, <1>5, HoldsOne
<1> QED
  BY <1>1, <1>2, <1>4 DEF Accepted, Nv!Accepts

\* join_superset() (nv).
LEMMA NvJoined ==
  ASSUME NEW f, IsSets(f), NEW rd, NEW s, NEW type, NEW stride, NEW g,
         g = Nv!Joined(f, rd, s, type, stride, Nv!SetBefore)
  PROVE  Hangs(f, g, rd.name, s) /\ KeepsStride(f, g, s)
<1> DEFINE ss  == IF s \in f.top THEN f.set[s] ELSE [Nv!NewSet EXCEPT !.type = type, !.stride = stride]
           I   == {i \in 1 .. Len(ss.subs) : Nv!SetBefore(f.set[ss.subs[i]], f.set[rd.name])}
           add == IF I = {} THEN Append(ss.subs, rd.name)
                  ELSE IF Nv!Min(I) = 0 THEN Append(ss.subs, rd.name)
                  ELSE InsertAt(ss.subs, Nv!Min(I), rd.name)
           new == IF \E i \in DOMAIN ss.subs : ss.subs[i] = rd.name THEN ss ELSE WithSubs(ss, add)
<1>1. IsRs(ss) /\ ss.devs = TopDevs(f, s) /\ ss.subs = TopSubs(f, s)
      /\ (s \in f.top => ss = f.set[s])
  BY EmptyList DEF Nv!NewSet, IsSets, IsRs, TopDevs, TopSubs
<1>2. g = Listed(WithSet(f, s, new), s)
  <2>1. g = Listed(WithSet(f, s, IF rd.name \in Nv!ToSet(ss.subs) THEN ss ELSE WithSubs(ss,
              Nv!AddSorted(ss.subs, rd.name, LAMBDA pos, x : Nv!SetBefore(f.set[pos], f.set[x])))), s)
    BY DEF Nv!Joined, Nv!WithSet, Nv!Listed, WithSet, Listed, WithSubs
  <2> HIDE DEF ss
  <2>2. rd.name \in Nv!ToSet(ss.subs) <=> \E i \in DOMAIN ss.subs : ss.subs[i] = rd.name
    BY DEF Nv!ToSet
  <2>3. Nv!AddSorted(ss.subs, rd.name, LAMBDA pos, x : Nv!SetBefore(f.set[pos], f.set[x])) = add
    BY DEF Nv!AddSorted, Nv!SelectInSeq, Nv!InsertAt, InsertAt
  <2> QED
    BY <2>1, <2>2, <2>3
<1>3. I \in SUBSET Nat /\ I \subseteq 1 .. Len(ss.subs)
  OBVIOUS
<1> HIDE DEF I, ss
<1>4. Inserted(add, ss.subs, rd.name)
  BY <1>1, <1>3, NvLeast, InsertedAt DEF IsRs
<1> HIDE DEF add
<1>5. new = IF \E i \in DOMAIN ss.subs : ss.subs[i] = rd.name THEN ss ELSE WithSubs(ss, add)
  OBVIOUS
<1> HIDE DEF new
<1>6. Hangs(f, g, rd.name, s) /\ g.set[s].stride = ss.stride
  BY <1>1, <1>2, <1>4, <1>5, HangsOne, SMTT(30)
<1> QED
  BY <1>1, <1>6 DEF KeepsStride

\* What the handler of nv makes of the metadata it has read.
LEMMA NvRead ==
  ASSUME NEW disk, NEW capacity, NEW m, NEW rd \in Nv!Read(disk, capacity, m), m.fmt = "nv"
  PROVE  Known(rd) /\ rd.disk = disk
<1>1. rd = [fmt |-> "nv", disk |-> disk, capacity |-> capacity, meta |-> m, name |-> Nv!Name(m, TRUE),
            type |-> Nv!Type(m), status |-> Nv!Status(m), sectors |-> Nv!ConfigOffset(capacity), offset |-> 0]
  BY Zenon DEF Nv!Read
<1>9. /\ IsDevice(rd) /\ rd.fmt = "nv" /\ rd.disk = disk /\ rd.meta = m
      /\ rd.name = Nv!Name(m, TRUE) /\ rd.type = Nv!Type(m)
  BY <1>1, DeviceIs
<1> QED
  BY <1>9, FormatSet DEF Known

\* The handler of nv puts the device into the set where it belongs, or fails.
LEMMA NvGroup ==
  ASSUME NEW l, NEW f, IsSets(f), NEW rd, rd.fmt = "nv", rd.meta.fmt = "nv", rd.name = Nv!Name(rd.meta, TRUE),
         \A n \in DOMAIN f.set : (\A m : ~Under(l, n, m)) => n \in f.top,
         NEW h \in Nv!Group(f, rd)
  PROVE  h = f \/ \E n, sup : Puts(l, f, h, rd, n, sup)
<1>1. PICK g \in Nv!Member(f, rd, rd.meta.stripe, Nv!Before) : h = Nv!Placed(f, g, rd)
  BY DEF Nv!Group
<1>2. StrideOf(rd) = rd.meta.stripe
  BY DEF StrideOf
<1>3. Holds(f, g, rd.name, rd) /\ Accepted(f, g, rd.name, StrideOf(rd)) /\ rd.fmt \notin Unchecked
  BY <1>1, <1>2, NvMember DEF Unchecked
<1>4. rd.name[1] = rd.fmt
  BY DEF Nv!Name
<1>5. CASE rd.meta.level = "1_0"
  <2> DEFINE s == Nv!Name(rd.meta, FALSE)
  <2>1. Under(l, rd.name, s) /\ s[1] = rd.fmt /\ s # rd.name
    BY <1>5 DEF Nv!Name, Under
  <2>2. h = Nv!Joined(g, rd, s, "raid1", rd.meta.stripe, Nv!SetBefore)
    BY <1>1, <1>5 DEF Nv!Placed
  <2> HIDE DEF s
  <2>3. Hangs(g, h, rd.name, s) /\ KeepsStride(g, h, s)
    BY <1>3, <2>2, NvJoined DEF Holds
  <2> QED
    BY <1>3, <1>4, <2>1, <2>3, PutsUnder
<1>6. CASE rd.meta.level # "1_0"
  <2>1. \A m : ~Under(l, rd.name, m)
    BY <1>6 DEF Nv!Name, Under
  <2>2. CASE h = Listed(g, rd.name)
    BY <1>3, <1>4, <2>1, <2>2, PutsAlone
  <2>3. CASE h = g /\ rd.name \in DOMAIN f.set
    <3>1. Listed(g, rd.name) = g
      BY <1>3, <2>1, <2>3 DEF Listed, Holds, IsSets
    <3> QED
      BY <2>2, <2>3, <3>1
  <2>4. h = f \/ h = Listed(g, rd.name) \/ (h = g /\ rd.name \in DOMAIN f.set)
    BY <1>1, <1>6 DEF Nv!Placed, Nv!Listed, Listed, Nv!Found
  <2> QED
    BY <2>2, <2>3, <2>4
<1> QED
  BY <1>5, <1>6

=============================================================================
