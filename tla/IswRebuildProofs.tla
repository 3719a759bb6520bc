-------------------------- MODULE IswRebuildProofs --------------------------
(***************************************************************************)
(* Rebuilding a mirror, for any disks and spares, and any number of disks  *)
(* that die, of failed writes and reloads, kills, restarts and runs.       *)
(*                                                                         *)
(* The first part needs nothing else.  The second, that no member is lost  *)
(* from the metadata, is about one volume and rebuilds that begin one at a *)
(* time: the plug-in does not take the lock of the tool, and with two      *)
(* rebuilds side by side, or two volumes, TLC finds counterexamples.  The  *)
(* third, that metadata and kernel know which disk has the data, is about  *)
(* the daemon without the runs of "dmraid -R".                             *)
(***************************************************************************)
EXTENDS IswRebuild, FiniteSetTheorems, SequenceTheorems, TLAPS

-----------------------------------------------------------------------------
(* Sequences.                                                              *)

\* What is in a sequence is at one of its positions.
LEMMA InSeq ==
  ASSUME NEW S, NEW s \in Seq(S)
  PROVE  /\ ToSet(s) = {s[i] : i \in 1 .. Len(s)}
         /\ \A x : x \in ToSet(s) <=> \E i \in 1 .. Len(s) : s[i] = x
         /\ ToSet(s) \subseteq S
  BY LenProperties DEF ToSet

\* All but the last of a sequence.
LEMMA FrontOf ==
  ASSUME NEW S, NEW s \in Seq(S)
  PROVE  /\ Front(s) \in Seq(S)
         /\ s # <<>> => Len(Front(s)) = Len(s) - 1
         /\ \A i \in 1 .. Len(s) - 1 : Front(s)[i] = s[i]
         /\ ToSet(Front(s)) = {s[i] : i \in 1 .. Len(s) - 1}
<1>1. Len(s) \in Nat /\ (s # <<>> => Len(s) > 0) /\ \A i \in 1 .. Len(s) - 1 : s[i] \in S
  BY LenProperties, EmptySeq
<1>2. /\ Front(s) \in Seq(S)
      /\ Len(Front(s)) = IF 1 <= Len(s) - 1 THEN Len(s) - 1 - 1 + 1 ELSE 0
      /\ \A i \in 1 .. Len(s) - 1 - 1 + 1 : Front(s)[i] = s[1 + i - 1]
  BY <1>1, SubSeqProperties DEF Front
<1>3. \A i \in 1 .. Len(s) - 1 : Front(s)[i] = s[i]
  BY <1>1, <1>2
<1>4. ToSet(Front(s)) = {s[i] : i \in 1 .. Len(s) - 1}
  <2>1. ToSet(Front(s)) = {Front(s)[i] : i \in 1 .. Len(Front(s))}
    BY <1>2, InSeq
  <2>2. 1 .. Len(Front(s)) = 1 .. Len(s) - 1
    BY <1>1, <1>2
  <2> QED
    BY <2>1, <2>2, <1>3
<1>5. s # <<>> => Len(Front(s)) = Len(s) - 1
  <2> DEFINE n == Len(s)
             m == Len(Front(s))
  <2>1. n \in Nat /\ (s # <<>> => n > 0) /\ m = IF 1 <= n - 1 THEN n - 1 - 1 + 1 ELSE 0
    BY <1>1, <1>2
  <2> HIDE DEF n, m
  <2>2. s # <<>> => m = n - 1
    BY <2>1
  <2> QED
    BY <2>2 DEF n, m
<1> QED
  BY <1>2, <1>3, <1>4, <1>5, Zenon

\* Short sequences, and what is left of them without the last element.
LEMMA ShortSeq ==
  ASSUME NEW S, NEW s \in Seq(S)
  PROVE  /\ Len(s) = 1 => ToSet(s) = {s[1]} /\ s # <<>> /\ s[1] \in S
         /\ Len(s) = 2 => ToSet(s) = {s[1], s[2]} /\ s # <<>> /\ s[1] \in S /\ s[2] \in S
         /\ Len(s) = 3 => /\ Front(s) \in Seq(S) /\ Len(Front(s)) = 2
                          /\ Front(s)[1] = s[1] /\ Front(s)[2] = s[2]
<1>1. ToSet(s) = {s[i] : i \in 1 .. Len(s)} /\ \A i \in 1 .. Len(s) : s[i] \in S
  BY InSeq
<1>2. s = <<>> => Len(s) = 0
  BY EmptySeq
<1>3. CASE Len(s) = 1
  BY <1>1, <1>2, <1>3
<1>4. CASE Len(s) = 2
  BY <1>1, <1>2, <1>4
<1>5. CASE Len(s) = 3
  <2>1. s # <<>>
    BY <1>2, <1>5
  <2>2. /\ Front(s) \in Seq(S) /\ Len(Front(s)) = Len(s) - 1
        /\ \A i \in 1 .. Len(s) - 1 : Front(s)[i] = s[i]
    BY <2>1, FrontOf
  <2> QED
    BY <1>5, <2>2
<1> QED
  BY <1>3, <1>4, <1>5

\* A second element, or the first, added at the end.
LEMMA TwoEvents == ASSUME NEW a, NEW b
  PROVE  Append(<<>>, b) = <<b>> /\ Append(<<a>>, b) = <<a, b>>
<1> DEFINE s == Append(<<a>>, b)
           t == <<a, b>>
           S == {a, b}
<1>1. <<a>> \in Seq(S) /\ Len(<<a>>) = 1 /\ <<a>>[1] = a
  OBVIOUS
<1>2. s \in Seq(S) /\ Len(s) = 2 /\ s[1] = a /\ s[2] = b
  BY <1>1, AppendProperties
<1>3. t \in Seq(S) /\ Len(t) = 2 /\ t[1] = a /\ t[2] = b
  OBVIOUS
<1> HIDE DEF s, t, S
<1>4. Len(s) = Len(t) /\ \A i \in 1 .. Len(s) : s[i] = t[i]
  BY <1>2, <1>3
<1>5. s = t
  BY <1>2, <1>3, <1>4, SeqEqual
<1>6. Append(<<>>, b) = <<b>>
  OBVIOUS
<1> QED BY <1>5, <1>6 DEF s, t

\* An element added at the end of a sequence.
LEMMA Appended ==
  ASSUME NEW S, NEW s \in Seq(S), NEW e \in S
  PROVE  LET t == Append(s, e)
         IN  /\ t \in Seq(S) /\ Len(t) = Len(s) + 1 /\ t # <<>>
             /\ t[Len(s) + 1] = e /\ \A j \in 1 .. Len(s) : t[j] = s[j]
             /\ ToSet(t) = ToSet(s) \cup {e}
<1> DEFINE t == Append(s, e)
           n == Len(s)
<1>1. n \in Nat /\ t \in Seq(S) /\ t # <<>> /\ Len(t) = n + 1 /\ t[n + 1] = e
      /\ \A j \in 1 .. n : t[j] = s[j]
  BY AppendProperties, LenProperties
<1>2. ToSet(t) = {t[j] : j \in 1 .. n + 1} /\ ToSet(s) = {s[j] : j \in 1 .. n}
  BY <1>1, InSeq, ZenonT(30)
<1> HIDE DEF t, n
<1>3. ToSet(t) = ToSet(s) \cup {e}
  BY <1>1, <1>2
<1> QED
  BY <1>1, <1>3 DEF t, n

\* An entry of a sequence replaced, and the old one added at the end.
LEMMA Moved ==
  ASSUME NEW S, NEW s \in Seq(S), NEW i \in 1 .. Len(s), NEW e \in S
  PROVE  LET t == Append([s EXCEPT ![i] = e], s[i])
         IN  /\ t \in Seq(S) /\ Len(t) = Len(s) + 1
             /\ t[i] = e /\ t[Len(s) + 1] = s[i]
             /\ \A j \in 1 .. Len(s) : j # i => t[j] = s[j]
             /\ ToSet(t) = ToSet(s) \cup {e}
<1> DEFINE u == [s EXCEPT ![i] = e]
<1>1. u \in Seq(S) /\ Len(u) = Len(s) /\ \A j \in 1 .. Len(s) : u[j] = IF j = i THEN e ELSE s[j]
  BY ExceptSeq
<1>2. s[i] \in S
  BY ElementOfSeq
<1> HIDE DEF u
<1> DEFINE t == Append(u, s[i])
           n == Len(s)
<1>3. /\ t \in Seq(S) /\ Len(t) = n + 1 /\ t[n + 1] = s[i]
      /\ \A j \in 1 .. n : t[j] = u[j]
      /\ ToSet(t) = ToSet(u) \cup {s[i]}
  BY <1>1, <1>2, Appended
<1>4. ToSet(u) = {u[j] : j \in 1 .. n} /\ ToSet(s) = {s[j] : j \in 1 .. n}
  BY <1>1, InSeq
<1> HIDE DEF t, n
<1>5. ToSet(t) = ToSet(s) \cup {e}
  BY <1>1, <1>3, <1>4 DEF n
<1> QED
  BY <1>1, <1>3, <1>5 DEF u, t, n

\* An element inserted into a sequence.
LEMMA Inserted ==
  ASSUME NEW S, NEW s \in Seq(S), NEW i \in 1 .. Len(s), NEW e \in S
  PROVE  /\ InsertAt(s, i, e) \in Seq(S)
         /\ Len(InsertAt(s, i, e)) = Len(s) + 1
         /\ \A j \in 1 .. i - 1 : InsertAt(s, i, e)[j] = s[j]
         /\ InsertAt(s, i, e)[i] = e
         /\ \A j \in i .. Len(s) : InsertAt(s, i, e)[j + 1] = s[j]
         /\ ToSet(InsertAt(s, i, e)) = ToSet(s) \cup {e}
<1> DEFINE h == SubSeq(s, 1, i - 1)
           t == SubSeq(s, i, Len(s))
           n == Len(s)
<1>1. n \in Nat /\ i \in Nat /\ 1 <= i /\ i <= n /\ \A j \in 1 .. n : s[j] \in S
  BY LenProperties
<1>2. h \in Seq(S) /\ Len(h) = i - 1 /\ \A j \in 1 .. i - 1 : h[j] = s[j]
  <2>1. \A j \in 1 .. i - 1 : s[j] \in S
    BY <1>1
  <2>2. /\ h \in Seq(S) /\ Len(h) = IF 1 <= i - 1 THEN i - 1 - 1 + 1 ELSE 0
        /\ \A j \in 1 .. i - 1 - 1 + 1 : h[j] = s[1 + j - 1]
    BY <1>1, <2>1, SubSeqProperties
  <2> QED
    BY <1>1, <2>2
<1>3. t \in Seq(S) /\ Len(t) = n - i + 1 /\ \A j \in 1 .. n - i + 1 : t[j] = s[i + j - 1]
  <2>1. \A j \in i .. n : s[j] \in S
    BY <1>1
  <2>2. /\ t \in Seq(S) /\ Len(t) = IF i <= n THEN n - i + 1 ELSE 0
        /\ \A j \in 1 .. n - i + 1 : t[j] = s[i + j - 1]
    BY <1>1, <2>1, SubSeqProperties
  <2> QED
    BY <1>1, <2>2
<1> HIDE DEF h, t, n
<1>4. <<e>> \in Seq(S) /\ Len(<<e>>) = 1 /\ <<e>>[1] = e
  OBVIOUS
<1> DEFINE g == h \o <<e>>
<1>5. /\ g \in Seq(S) /\ Len(g) = i
      /\ \A j \in 1 .. i : g[j] = IF j <= i - 1 THEN h[j] ELSE <<e>>[j - (i - 1)]
  <2>1. /\ g \in Seq(S) /\ Len(g) = Len(h) + Len(<<e>>)
        /\ \A j \in 1 .. Len(h) + Len(<<e>>) : g[j] = IF j <= Len(h) THEN h[j] ELSE <<e>>[j - Len(h)]
    BY <1>2, <1>4, ConcatProperties
  <2> QED
    BY <1>1, <1>2, <1>4, <2>1
<1> HIDE DEF g
<1> DEFINE w == g \o t
<1>6. /\ w \in Seq(S) /\ Len(w) = n + 1
      /\ \A j \in 1 .. n + 1 : w[j] = IF j <= i THEN g[j] ELSE t[j - i]
  <2>1. /\ w \in Seq(S) /\ Len(w) = Len(g) + Len(t)
        /\ \A j \in 1 .. Len(g) + Len(t) : w[j] = IF j <= Len(g) THEN g[j] ELSE t[j - Len(g)]
    BY <1>3, <1>5, ConcatProperties
  <2> QED
    BY <1>1, <1>3, <1>5, <2>1, SMTT(30)
<1>7. InsertAt(s, i, e) = w
  BY DEF InsertAt, w, g, h, t, n
<1> HIDE DEF w
<1>8. \A j \in 1 .. i - 1 : w[j] = s[j]
  BY <1>1, <1>2, <1>5, <1>6
<1>9. w[i] = e
  BY <1>1, <1>4, <1>5, <1>6
<1>10. \A j \in i .. n : w[j + 1] = s[j]
  <2> TAKE j \in i .. n
  <2>1. j \in Nat /\ j + 1 \in 1 .. n + 1 /\ ~(j + 1 <= i) /\ j + 1 - i \in 1 .. n - i + 1
        /\ i + (j + 1 - i) - 1 = j
    BY <1>1
  <2>2. w[j + 1] = t[j + 1 - i]
    BY <1>6, <2>1
  <2> QED
    BY <1>3, <2>1, <2>2
<1>11. ToSet(w) = ToSet(s) \cup {e}
  <2>1. ToSet(w) = {w[j] : j \in 1 .. n + 1} /\ ToSet(s) = {s[j] : j \in 1 .. n}
    BY <1>6, InSeq, SMTT(30) DEF n
  <2>2. \A j \in 1 .. n + 1 : w[j] \in ToSet(s) \cup {e}
    <3> TAKE j \in 1 .. n + 1
    <3>1. CASE j < i BY <3>1, <1>1, <1>8, <2>1
    <3>2. CASE j = i BY <3>2, <1>9
    <3>3. CASE j > i
      <4>1. j - 1 \in i .. n /\ (j - 1) + 1 = j /\ j - 1 \in 1 .. n
        BY <3>3, <1>1
      <4> QED
        BY <4>1, <1>10, <2>1
    <3> QED BY <3>1, <3>2, <3>3, <1>1
  <2>3. \A j \in 1 .. n : s[j] \in ToSet(w)
    <3> TAKE j \in 1 .. n
    <3>1. CASE j < i BY <3>1, <1>1, <1>8, <2>1
    <3>2. CASE j >= i
      <4>1. j + 1 \in 1 .. n + 1 /\ w[j + 1] = s[j]
        BY <3>2, <1>1, <1>10
      <4> QED
        BY <4>1, <2>1
    <3> QED BY <3>1, <3>2, <1>1
  <2>4. e \in ToSet(w)
    BY <1>1, <1>9, <2>1
  <2> QED
    BY <2>1, <2>2, <2>3, <2>4
<1> QED
  BY <1>6, <1>7, <1>8, <1>9, <1>10, <1>11 DEF n

-----------------------------------------------------------------------------
(* Types.                                                                  *)

\* The types of a new disk (or none), of what a process is doing, of a kernel table.
AtMostOne == {<<>>} \cup {<<d>> : d \in Disk}

Activity == [pc : {"idle", "write", "reload", "clear"}, vol : Vol, devs : Seq(Disk),
             new : AtMostOne, todo : Seq(Disk), old : Entry, image : Entry]

Table == [devs : Seq(Disk), sync : BOOLEAN]

\* The table of a mirror with these devices.
MirrorOf(t, devs, sync) ==
  /\ t \in Table /\ ToSet(t.devs) = ToSet(devs)
  /\ t.sync => sync /\ Len(devs) >= 2
  /\ t.devs = <<>> <=> devs = <<>>

\* A run that does something has devices.
Typed == TypeOK /\ \A p \in Proc : run[p].pc # "idle" => run[p].devs # <<>>

\* The members of the group that work, in a sequence.
LEMMA Listing ==
  ASSUME up \subseteq Disk, NEW devs \in Groupings
  PROVE  /\ devs \in Seq(Disk) /\ ToSet(devs) = Read /\ Len(devs) = Cardinality(Read)
         /\ Len(devs) \in Nat /\ IsFiniteSet(Read) /\ Read \subseteq up
         /\ \A i, j \in 1 .. Len(devs) : devs[i] = devs[j] => i = j
         /\ Read # {} => devs # <<>> /\ devs[1] \in Read /\ 1 \in 1 .. Len(devs)
<1> DEFINE n == Cardinality(Read)
<1>1. Read \subseteq up /\ Read \subseteq Disk
  BY DEF Read
<1>2. IsFiniteSet(Read) /\ n \in Nat
  BY <1>1, FS_Subset, FS_CardinalityType, ConstantsAssumption
<1>3. devs \in [1 .. n -> Read] /\ \A i, j \in 1 .. n : i # j => devs[i] # devs[j]
  BY DEF Groupings, SetToSeqs
<1> HIDE DEF n
<1>4. devs \in Injection(1 .. n, Read)
  BY <1>3 DEF Injection, IsInjective
<1>5. IsFiniteSet(1 .. n) /\ Cardinality(1 .. n) = n
  BY <1>2, FS_Interval
<1>6. devs \in Surjection(1 .. n, Read)
  BY <1>2, <1>4, <1>5, FS_Injection DEF n
<1>7. \A d \in Read : \E i \in 1 .. n : devs[i] = d
  BY <1>6 DEF Surjection
<1>8. devs \in Seq(Disk) /\ Len(devs) = n /\ DOMAIN devs = 1 .. n
  BY <1>1, <1>2, <1>3
<1>9. ToSet(devs) = Read
  BY <1>3, <1>7, <1>8 DEF ToSet
<1>10. Read # {} => devs # <<>> /\ devs[1] \in Read /\ 1 \in 1 .. n
  <2>1. Read # {} => 1 \in 1 .. n
    BY <1>2, <1>7
  <2> QED
    BY <1>3, <1>8, <2>1
<1> QED
  BY <1>1, <1>2, <1>3, <1>8, <1>9, <1>10 DEF n

\* The metadata of a rebuild that begins.
LEMMA BegunIs ==
  ASSUME NEW m \in Entry, NEW d \in Disk, Missing(m) # {}
  PROVE  /\ Begun(m, d) \in Entry /\ Begun(m, d).kind = m.kind
         /\ \E i \in 1 .. Len(m.disk) :
              LET t == Begun(m, d).disk IN
              /\ i \in Missing(m) /\ m.disk[i] \notin up
              /\ Begun(m, d).failed = [v \in Vol |-> i - 1]
              /\ Len(t) = Len(m.disk) + 1 /\ t[i] = d /\ t[Len(m.disk) + 1] = m.disk[i]
              /\ \A j \in 1 .. Len(m.disk) : j # i => t[j] = m.disk[j]
              /\ ToSet(t) = ToSet(m.disk) \cup {d}
<1> DEFINE i == CHOOSE j \in Missing(m) : TRUE
           t == Append([m.disk EXCEPT ![i] = d], m.disk[i])
<1>1. i \in Missing(m)
  OBVIOUS
<1>2. m.disk \in Seq(Disk) /\ m.gen \in Nat /\ m.kind \in {"blank", "spare", "member"}
  BY DEF Entry
<1>3. i \in 1 .. Len(m.disk) /\ m.disk[i] \notin up /\ i \in Nat /\ i - 1 \in Nat
  BY <1>1, <1>2, LenProperties DEF Missing
<1>4. Begun(m, d) = [m EXCEPT !.gen = @ + 1, !.disk = t, !.failed = Migrating(i)]
  BY DEF Begun
<1> HIDE DEF i
<1>5. /\ t \in Seq(Disk) /\ Len(t) = Len(m.disk) + 1
      /\ t[i] = d /\ t[Len(m.disk) + 1] = m.disk[i]
      /\ \A j \in 1 .. Len(m.disk) : j # i => t[j] = m.disk[j]
      /\ ToSet(t) = ToSet(m.disk) \cup {d}
  <2> DEFINE disk == m.disk
  <2>1. disk \in Seq(Disk) /\ i \in 1 .. Len(disk) /\ t = Append([disk EXCEPT ![i] = d], disk[i])
    BY <1>2, <1>3
  <2> HIDE DEF disk, t
  <2>2. /\ t \in Seq(Disk) /\ Len(t) = Len(disk) + 1
        /\ t[i] = d /\ t[Len(disk) + 1] = disk[i]
        /\ \A j \in 1 .. Len(disk) : j # i => t[j] = disk[j]
        /\ ToSet(t) = ToSet(disk) \cup {d}
    BY <2>1, Moved
  <2> QED
    BY <2>2 DEF disk
<1> HIDE DEF t
<1>6. Migrating(i) = [v \in Vol |-> i - 1] /\ Migrating(i) \in [Vol -> Nat]
  BY <1>3 DEF Migrating
<1>7. Begun(m, d) = [kind |-> m.kind, gen |-> m.gen + 1, disk |-> t, failed |-> Migrating(i)]
  BY <1>4 DEF Entry
<1>8. Begun(m, d) \in Entry
  BY <1>2, <1>5, <1>6, <1>7 DEF Entry
<1> QED
  BY <1>1, <1>3, <1>5, <1>6, <1>7, <1>8

\* The metadata of a rebuild that ends.
LEMMA EndedIs ==
  ASSUME NEW m \in Entry, NEW v \in Vol
  PROVE  /\ Ended(m, v) \in Entry /\ Ended(m, v).kind = m.kind
         /\ Ended(m, v).failed = [m.failed EXCEPT ![v] = NoneFailed]
         /\ Ended(m, v).disk \in {m.disk, Front(m.disk)}
         /\ NumVols = 1 => Ended(m, v).disk = Front(m.disk)
<1> DEFINE failed == [m.failed EXCEPT ![v] = NoneFailed]
           keep == NumVols = 2 /\ failed[0] = NoneFailed /\ failed[1] # NoneFailed
           disk == IF keep THEN m.disk ELSE Front(m.disk)
<1>1. m.disk \in Seq(Disk) /\ m.gen \in Nat /\ m.failed \in [Vol -> Nat]
      /\ m.kind \in {"blank", "spare", "member"}
  BY DEF Entry
<1>2. Ended(m, v) = [m EXCEPT !.gen = @ + 1, !.failed = failed, !.disk = disk]
  BY DEF Ended
<1>3. Ended(m, v) = [kind |-> m.kind, gen |-> m.gen + 1, disk |-> disk, failed |-> failed]
  BY <1>2 DEF Entry
<1>4. failed \in [Vol -> Nat]
  BY <1>1 DEF NoneFailed
<1>5. disk \in Seq(Disk) /\ disk \in {m.disk, Front(m.disk)}
      /\ (NumVols = 1 => disk = Front(m.disk))
  BY <1>1, FrontOf
<1> HIDE DEF failed, disk
<1>6. Ended(m, v) \in Entry
  BY <1>1, <1>3, <1>4, <1>5 DEF Entry
<1> QED
  BY <1>3, <1>5, <1>6 DEF failed

\* The legs of a mirror: all devices, in the order of the list but when entry 0
\* is the one to copy to.
LEMMA MirrorIs ==
  ASSUME NEW devs \in Seq(Disk), NEW sync \in BOOLEAN, NEW drive
  PROVE  LET t == Mirror(devs, sync, drive) IN
         /\ MirrorOf(t, devs, sync)
         /\ Len(devs) <= 1 \/ ~sync \/ drive # 0 => t.devs = devs
         /\ Len(devs) > 1 /\ sync => t.sync
         /\ Len(devs) > 1 /\ sync /\ drive = 0 => t.devs[1] = devs[2]
<1> DEFINE t == Mirror(devs, sync, drive)
           back == Append(Tail(devs), Head(devs))
<1>1. Len(devs) \in Nat /\ (devs # <<>> <=> Len(devs) > 0)
  BY LenProperties, EmptySeq
<1>2. CASE Len(devs) <= 1
  <2>1. t = [devs |-> devs, sync |-> FALSE]
    BY <1>2 DEF Mirror
  <2> QED
    BY <1>1, <1>2, <2>1 DEF Table, MirrorOf
<1>3. CASE Len(devs) > 1 /\ sync /\ drive = 0
  <2>1. t = [devs |-> back, sync |-> TRUE]
    BY <1>1, <1>3 DEF Mirror
  <2>2. /\ Head(devs) = devs[1] /\ Head(devs) \in Disk /\ Tail(devs) \in Seq(Disk)
        /\ Len(Tail(devs)) = Len(devs) - 1
        /\ \A i \in 1 .. Len(devs) - 1 : Tail(devs)[i] = devs[i + 1]
    BY <1>1, <1>3, HeadTailProperties
  <2>3. /\ back \in Seq(Disk) /\ back # <<>> /\ Len(back) = Len(devs)
        /\ \A i \in 1 .. Len(devs) - 1 : back[i] = devs[i + 1]
        /\ back[Len(devs)] = devs[1]
    <3>1. /\ back \in Seq(Disk) /\ back # <<>> /\ Len(back) = Len(Tail(devs)) + 1
          /\ \A i \in 1 .. Len(Tail(devs)) : back[i] = Tail(devs)[i]
          /\ back[Len(Tail(devs)) + 1] = Head(devs)
      BY <2>2, AppendProperties
    <3> QED
      BY <1>1, <2>2, <3>1
  <2> HIDE DEF back
  <2>4. ToSet(back) = ToSet(devs)
    <3>1. ToSet(back) = {back[i] : i \in 1 .. Len(devs)} /\ ToSet(devs) = {devs[i] : i \in 1 .. Len(devs)}
      BY <2>3, InSeq
    <3>2. \A i \in 1 .. Len(devs) : back[i] \in ToSet(devs)
      <4> TAKE i \in 1 .. Len(devs)
      <4>1. CASE i = Len(devs)
        BY <4>1, <1>1, <1>3, <2>3, <3>1
      <4>2. CASE i < Len(devs)
        <5>1. i \in 1 .. Len(devs) - 1 /\ i + 1 \in 1 .. Len(devs)
          BY <4>2, <1>1
        <5> QED
          BY <5>1, <2>3, <3>1
      <4> QED BY <4>1, <4>2, <1>1
    <3>3. \A i \in 1 .. Len(devs) : devs[i] \in ToSet(back)
      <4> TAKE i \in 1 .. Len(devs)
      <4>1. CASE i = 1
        BY <4>1, <1>1, <1>3, <2>3, <3>1
      <4>2. CASE i > 1
        <5>1. i - 1 \in 1 .. Len(devs) - 1 /\ i - 1 \in 1 .. Len(devs) /\ (i - 1) + 1 = i
          BY <4>2, <1>1
        <5>2. back[i - 1] = devs[i]
          BY <5>1, <2>3
        <5> QED
          BY <5>1, <5>2, <3>1
      <4> QED BY <4>1, <4>2, <1>1
    <3> QED
      BY <3>1, <3>2, <3>3
  <2>5. back[1] = devs[2]
    BY <1>1, <1>3, <2>3
  <2>6. t \in Table /\ t.devs = back /\ t.sync = TRUE
    BY <2>1, <2>3 DEF Table
  <2> HIDE DEF t
  <2>7. devs # <<>> /\ Len(devs) >= 2
    BY <1>1, <1>3
  <2>8. t.sync /\ t.devs # <<>> /\ ToSet(t.devs) = ToSet(devs) /\ t.devs[1] = devs[2]
    BY <2>3, <2>4, <2>5, <2>6
  <2>9. ~(Len(devs) <= 1) /\ sync /\ drive = 0
    BY <1>1, <1>3
  <2>10. /\ MirrorOf(t, devs, sync)
         /\ Len(devs) <= 1 \/ ~sync \/ drive # 0 => t.devs = devs
         /\ Len(devs) > 1 /\ sync => t.sync
         /\ Len(devs) > 1 /\ sync /\ drive = 0 => t.devs[1] = devs[2]
    BY <2>6, <2>7, <2>8, <2>9, Zenon DEF MirrorOf
  <2> QED
    BY <2>10, Zenon DEF t
<1>4. CASE Len(devs) > 1 /\ ~(sync /\ drive = 0)
  <2>1. t = [devs |-> devs, sync |-> sync]
    BY <1>1, <1>4 DEF Mirror
  <2> QED
    BY <1>1, <1>4, <2>1 DEF Table, MirrorOf
<1> QED
  BY <1>1, <1>2, <1>3, <1>4

\* The new device of a run, if there is one.
LEMMA AtMostOneIs ==
  ASSUME NEW new \in AtMostOne
  PROVE  /\ new \in Seq(Disk)
         /\ new # <<>> => new[1] \in Disk /\ ToSet(new) = {new[1]} /\ Len(new) = 1
         /\ new = <<>> => ToSet(new) = {}
<1>1. CASE new = <<>>
  BY <1>1 DEF ToSet
<1>2. ASSUME NEW d \in Disk, new = <<d>>
      PROVE  new \in Seq(Disk) /\ new[1] \in Disk /\ ToSet(new) = {new[1]} /\ Len(new) = 1
  <2>1. new \in Seq(Disk) /\ new[1] = d /\ Len(new) = 1 /\ DOMAIN new = {1}
    BY <1>2
  <2> QED
    BY <2>1, <1>2 DEF ToSet
<1> QED
  BY <1>1, <1>2 DEF AtMostOne

\* The new device is one of the volume's.
LEMMA PlacedIs ==
  ASSUME NEW r \in Activity
  PROVE  /\ Placed(r) \in Seq(Disk)
         /\ ToSet(Placed(r)) = ToSet(r.devs) \cup ToSet(r.new)
         /\ r.devs # <<>> => Placed(r) # <<>>
         /\ r.new = <<>> => Placed(r) = r.devs
<1> DEFINE drive == RebuildDrive(r.image, r.vol)
           i == CHOOSE i \in drive : TRUE
           dv == r.devs
           nw == r.new
           pl == Placed(r)
<1>1. dv \in Seq(Disk) /\ r.vol \in Vol /\ r.image \in Entry /\ nw \in AtMostOne
  BY DEF Activity
<1>2. r.image.failed \in [Vol -> Nat]
  BY <1>1 DEF Entry
<1>3. pl = IF nw # <<>> /\ \E j \in drive : j < Len(dv) THEN InsertAt(dv, i + 1, nw[1]) ELSE dv \o nw
  BY DEF Placed
<1>4. drive \subseteq {r.image.failed[r.vol]} /\ r.image.failed[r.vol] \in Nat
  BY <1>1, <1>2 DEF RebuildDrive
<1> HIDE DEF dv, nw, pl, drive
<1>6. Len(dv) \in Nat /\ (dv # <<>> <=> Len(dv) > 0)
  BY <1>1, LenProperties, EmptySeq
<1>7. nw \in Seq(Disk) /\ (nw # <<>> => nw[1] \in Disk /\ ToSet(nw) = {nw[1]} /\ Len(nw) = 1)
  BY <1>1, AtMostOneIs
<1>8. /\ pl \in Seq(Disk) /\ ToSet(pl) = ToSet(dv) \cup ToSet(nw)
      /\ (dv # <<>> => pl # <<>>) /\ (nw = <<>> => pl = dv)
  <2>1. CASE nw # <<>> /\ \E j \in drive : j < Len(dv)
    <3>1. i \in drive
      BY <2>1
    <3> HIDE DEF i
    <3>2. i + 1 \in 1 .. Len(dv)
      BY <1>4, <1>6, <2>1, <3>1
    <3> DEFINE k == i + 1
               e == nw[1]
    <3>3. e \in Disk /\ k \in 1 .. Len(dv) /\ pl = InsertAt(dv, k, e)
      BY <1>3, <1>7, <2>1, <3>2
    <3> HIDE DEF k, e
    <3>4. pl \in Seq(Disk) /\ Len(pl) = Len(dv) + 1 /\ ToSet(pl) = ToSet(dv) \cup {e}
      BY <1>1, <3>3, Inserted
    <3>5. pl # <<>>
      BY <1>6, <3>4, EmptySeq
    <3> QED
      BY <1>7, <2>1, <3>4, <3>5 DEF e
  <2>2. CASE ~(nw # <<>> /\ \E j \in drive : j < Len(dv))
    <3>1. pl = dv \o nw
      BY <1>3, <2>2
    <3>2. /\ pl \in Seq(Disk) /\ Len(pl) = Len(dv) + Len(nw)
          /\ \A j \in 1 .. Len(dv) + Len(nw) : pl[j] = IF j <= Len(dv) THEN dv[j] ELSE nw[j - Len(dv)]
      BY <1>1, <1>7, <3>1, ConcatProperties
    <3>3. CASE nw = <<>>
      <4>1. pl = dv
        BY <1>1, <3>1, <3>3, ConcatEmptySeq
      <4> QED
        BY <3>2, <3>3, <4>1 DEF ToSet
    <3>4. CASE nw # <<>>
      <4> DEFINE l == Len(dv)
                 q == Len(pl)
      <4>1. l \in Nat /\ q = l + 1 /\ pl[q] = nw[1] /\ \A j \in 1 .. l : pl[j] = dv[j]
        <5>1. l \in Nat /\ q = l + 1
          BY <1>6, <1>7, <3>2, <3>4
        <5>2. \A j \in 1 .. l + 1 : pl[j] = IF j <= l THEN dv[j] ELSE nw[j - l]
          BY <1>7, <3>2, <3>4
        <5> HIDE DEF l, q
        <5>3. l + 1 - l = 1 /\ ~(l + 1 <= l) /\ l + 1 \in 1 .. l + 1
          BY <5>1
        <5>4. pl[l + 1] = nw[1]
          BY <5>1, <5>2, <5>3
        <5>5. \A j \in 1 .. l : pl[j] = dv[j]
          BY <5>1, <5>2
        <5> QED
          BY <5>1, <5>4, <5>5
      <4>2. ToSet(pl) = {pl[j] : j \in 1 .. q} /\ ToSet(dv) = {dv[j] : j \in 1 .. l}
        BY <1>1, <3>2, InSeq
      <4> HIDE DEF l
      <4>3. q # 0 /\ pl # <<>>
        BY <4>1, <3>2, EmptySeq
      <4> HIDE DEF q
      <4>4. ToSet(pl) = ToSet(dv) \cup {nw[1]}
        BY <4>1, <4>2
      <4> QED
        BY <1>7, <3>2, <3>4, <4>3, <4>4
    <3> QED
      BY <3>3, <3>4
  <2> QED
    BY <2>1, <2>2
<1> QED
  BY <1>8 DEF dv, nw, pl

\* A table that is loaded has the devices of the run.
LEMMA TablesIs ==
  ASSUME NEW r \in Activity, NEW w \in Vol, NEW sync \in BOOLEAN, NEW t \in Tables(r, w, sync)
  PROVE  MirrorOf(t, IF w = r.vol THEN Placed(r) ELSE r.devs, sync)
<1> DEFINE devs == IF w = r.vol THEN Placed(r) ELSE r.devs
           drive == RebuildDrive(IF w = r.vol THEN r.image ELSE r.old, r.vol)
<1>1. devs \in Seq(Disk)
  BY PlacedIs DEF Activity
<1>2. Tables(r, w, sync) = IF Len(devs) <= 1 \/ ~sync THEN {Mirror(devs, FALSE, NoneFailed)}
                           ELSE {Mirror(devs, sync, i) : i \in drive}
  BY Zenon DEF Tables
<1> HIDE DEF devs, drive
<1>3. CASE t = Mirror(devs, FALSE, NoneFailed)
  <2>1. MirrorOf(Mirror(devs, FALSE, NoneFailed), devs, FALSE)
    BY <1>1, MirrorIs
  <2> QED
    BY <1>3, <2>1 DEF MirrorOf, devs
<1>4. ASSUME NEW i \in drive, t = Mirror(devs, sync, i)
      PROVE  MirrorOf(t, devs, sync)
  BY <1>1, <1>4, MirrorIs
<1> QED
  BY <1>2, <1>3, <1>4 DEF devs

\* The table a volume has after a reload.
LEMMA ReloadedIs ==
  ASSUME TypeOK, NEW r \in Activity, NEW w \in Vol
  PROVE  /\ Reloaded(r, w) \in Table
         /\ \/ Reloaded(r, w) \in Tables(r, w, NeedSync(r, w)) \cup Tables(r, w, FALSE)
            \/ Reloaded(r, w) = map[w] /\ Tables(r, w, NeedSync(r, w)) = {}
<1> DEFINE new == Tables(r, w, NeedSync(r, w))
           act == IF w = r.vol THEN Tables(r, w, FALSE) ELSE new
<1>1. NeedSync(r, w) \in BOOLEAN
  BY DEF NeedSync
<1>2. map[w] \in Table
  BY DEF TypeOK, Table
<1>3. new \subseteq Table /\ act \subseteq Table /\ act \subseteq new \cup Tables(r, w, FALSE)
  <2>1. \A sync \in BOOLEAN : Tables(r, w, sync) \subseteq Table
    BY TablesIs DEF MirrorOf
  <2>2. new \subseteq Table /\ Tables(r, w, FALSE) \subseteq Table
    BY <1>1, <2>1
  <2> QED
    BY <2>2
<1>4. Reloaded(r, w) = IF new # {} THEN CHOOSE t \in new : TRUE
                       ELSE IF map[w].devs = <<>> /\ act # {} THEN CHOOSE t \in act : TRUE
                       ELSE map[w]
  BY Zenon DEF Reloaded
<1> HIDE DEF new, act
<1>5. \/ Reloaded(r, w) \in new \cup act
      \/ Reloaded(r, w) = map[w] /\ new = {}
  BY <1>4
<1> QED
  BY <1>2, <1>3, <1>5 DEF new

\* A process takes up, or goes on with, an activity.
LEMMA GoesTyped ==
  ASSUME Typed, NEW p \in Proc, NEW r \in Activity, Goes(p, r), meta' = meta, up' = up,
         r.pc # "idle" => r.devs # <<>>, r.pc \in {"write", "clear"} => r.todo # <<>>,
         map' \in [Vol -> Table], holds' \in [Vol -> SUBSET Disk],
         news' \in [Vol -> Seq({"insync", "failure"})], count' \in [Bounded -> Nat]
  PROVE  Typed'
<1>1. run' = [run EXCEPT ![p] = r] /\ run \in [Proc -> Activity]
  BY DEF Goes, Typed, TypeOK, Activity, AtMostOne
<1>2. run' \in [Proc -> Activity]
  BY <1>1
<1>3. \A q \in Proc : (run'[q].pc # "idle" => run'[q].devs # <<>>)
                      /\ (run'[q].pc \in {"write", "clear"} => run'[q].todo # <<>>)
  BY <1>1 DEF Typed, TypeOK
<1> QED
  BY <1>2, <1>3 DEF Typed, TypeOK, Activity, AtMostOne, Table

\* What is left of the events of a volume.
LEMMA HearsTyped ==
  ASSUME Typed, NEW v \in Vol, NEW e, Hears(v, e)
  PROVE  news' \in [Vol -> Seq({"insync", "failure"})]
<1>1. news[v] \in Seq({"insync", "failure"}) /\ news[v] # <<>>
  BY DEF Typed, TypeOK, Hears
<1>2. Tail(news[v]) \in Seq({"insync", "failure"})
  BY <1>1, HeadTailProperties
<1> QED
  BY <1>2 DEF Hears, Typed, TypeOK

\* Taking an event or counting a run of the tool.
LEMMA CommandTyped ==
  ASSUME Typed, NEW p \in Proc, NEW v \in Vol, Command(p, v)
  PROVE  news' \in [Vol -> Seq({"insync", "failure"})]
<1>1. CASE p = Tool
  BY <1>1 DEF Command, Typed, TypeOK
<1>2. CASE p # Tool
  BY <1>2, HearsTyped DEF Command
<1> QED
  BY <1>1, <1>2

\* Nothing is counted backwards.
LEMMA StepCounts ==
  ASSUME count \in [Bounded -> Nat], [Next]_vars
  PROVE  /\ count' \in [Bounded -> Nat]
         /\ \A e \in Bounded : count'[e] >= count[e]
<1>1. ASSUME NEW e \in Bounded, NEW n, Counts(e, n)
      PROVE  count' \in [Bounded -> Nat] /\ \A f \in Bounded : count'[f] >= count[f]
  BY <1>1 DEF Counts
<1>2. ASSUME count' = count
      PROVE  count' \in [Bounded -> Nat] /\ \A f \in Bounded : count'[f] >= count[f]
  BY <1>2
<1>3. "fail" \in Bounded /\ "bad" \in Bounded /\ "kill" \in Bounded /\ "boot" \in Bounded
      /\ "run" \in Bounded
  BY DEF Bounded
<1>4. ASSUME NEW p, NEW v, Rebuild(p, v) PROVE count' = count \/ Counts("run", MaxRuns)
  BY <1>4, Zenon DEF Rebuild, StartRebuild, Resume, Refuse, Command
<1>5. ASSUME NEW p, Works(p) PROVE count' = count \/ Counts("bad", MaxBad)
  BY <1>5, Zenon DEF Works, Write, Reload
<1>6. ASSUME NEW v, Thread(v) \/ Synced(v) \/ Rebuild(Tool, v)
      PROVE  count' = count \/ Counts("bad", MaxBad) \/ Counts("run", MaxRuns)
  BY <1>4, <1>5, <1>6, Zenon DEF Thread, Synced, EndRebuild
<1>7. CASE Activate \/ Kill \/ Reboot \/ \E d \in Disk : Fail(d)
  <2>1. Counts("run", MaxRuns) \/ Counts("kill", MaxKill) \/ Counts("boot", MaxBoot)
        \/ Counts("fail", MaxFail)
    BY <1>7, Zenon DEF Activate, Kill, Reboot, Fail
  <2> QED
    BY <2>1, <1>1, <1>3
<1>8. CASE UNCHANGED vars
  BY <1>2, <1>8 DEF vars
<1> QED
  BY <1>1, <1>2, <1>3, <1>5, <1>6, <1>7, <1>8 DEF Next

\* All types are those of the start.
LEMMA TypedInit == Init => Typed
<1> SUFFICES ASSUME Init PROVE Typed
  OBVIOUS
<1>1. Original \in Seq(Disk) /\ ToSet(Original) \subseteq Disk
  <2>1. Original \in Seq(Disk)
    BY ConstantsAssumption, SeqDef, ZenonT(30) DEF NumMembers
  <2> QED
    BY <2>1, InSeq
<1>2. Vol \subseteq Nat /\ 0 \in Vol
  BY ConstantsAssumption DEF Vol
<1>3. Blank \in Entry /\ Fresh \in Entry /\ [Blank EXCEPT !.kind = "spare"] \in Entry
      /\ [Blank EXCEPT !.kind = "blank"] \in Entry
  <2>1. [v \in Vol |-> NoneFailed] \in [Vol -> Nat]
    BY DEF NoneFailed
  <2>2. <<>> \in Seq(Disk)
    OBVIOUS
  <2> DEFINE none == [v \in Vol |-> NoneFailed]
  <2>3. none \in [Vol -> Nat] /\ Blank = [kind |-> "blank", gen |-> 0, disk |-> <<>>, failed |-> none]
        /\ Fresh = [kind |-> "member", gen |-> 0, disk |-> Original, failed |-> none]
    BY <2>1 DEF Blank, Fresh
  <2> HIDE DEF none
  <2>4. Blank \in Entry /\ Fresh \in Entry
    BY <1>1, <2>2, <2>3 DEF Entry
  <2> HIDE DEF Blank
  <2> QED
    BY <2>4 DEF Entry
<1>4. Idle \in Activity /\ Idle.pc = "idle"
  BY <1>2, <1>3 DEF Idle, Activity, AtMostOne
<1> HIDE DEF Blank, Fresh, Idle
<1>5. meta \in [Disk -> Entry]
  BY <1>3 DEF Init
<1>6. map \in [Vol -> Table] /\ holds \in [Vol -> SUBSET Disk] /\ up = Disk
      /\ news \in [Vol -> Seq({"insync", "failure"})]
  BY <1>1 DEF Init, Table
<1>7. run = [p \in Proc |-> Idle]
  BY DEF Init
<1>8. count \in [Bounded -> Nat]
  BY DEF Init
<1> QED
  BY <1>4, <1>5, <1>6, <1>7, <1>8 DEF Typed, TypeOK, Table, Activity, AtMostOne

\* Metadata of a disk that is read.
LEMMA OldTyped ==
  ASSUME Typed, NEW devs \in Groupings, Read # {}
  PROVE  /\ meta[devs[1]] \in Entry /\ devs \in Seq(Disk) /\ devs # <<>> /\ devs[1] \in Disk
  BY Listing DEF Typed, TypeOK

\* The types of a run that begins: the new disk takes an entry of the table.
LEMMA TypedStart ==
  ASSUME Typed, count' \in [Bounded -> Nat], NEW p \in Proc, NEW v \in Vol, StartRebuild(p, v)
  PROVE  Typed'
<1>1. PICK devs \in Groupings, new \in Replacements(p, v) :
        LET old == meta[devs[1]] IN
        /\ Cardinality(Missing(old)) = 1
        /\ Goes(p, [pc |-> "write", vol |-> v, devs |-> devs, new |-> <<new>>,
                    todo |-> Append(devs, new), old |-> old, image |-> Begun(old, new)])
  BY DEF StartRebuild
<1> DEFINE old == meta[devs[1]]
           image == Begun(old, new)
<1>2. old \in Entry /\ devs \in Seq(Disk) /\ devs # <<>>
  BY OldTyped DEF StartRebuild
<1>3. new \in Disk
  BY DEF Replacements, Typed, TypeOK
<1>4. Missing(old) # {}
  <2>1. Cardinality(Missing(old)) = 1
    BY <1>1
  <2> QED
    <3>1. Cardinality({}) # 1
      BY FS_EmptySet
    <3> QED
      BY <2>1, <3>1, Zenon
<1> HIDE DEF old
<1>5. image \in Entry
  BY <1>2, <1>3, <1>4, BegunIs
<1> HIDE DEF image
<1>6. Append(devs, new) \in Seq(Disk) /\ Append(devs, new) # <<>>
  BY <1>2, <1>3, AppendProperties
<1> DEFINE todo == Append(devs, new)
           r == [pc |-> "write", vol |-> v, devs |-> devs, new |-> <<new>>,
                 todo |-> todo, old |-> old, image |-> image]
<1>7. Goes(p, r)
  BY <1>1 DEF old, image
<1> HIDE DEF todo
<1>8. r \in Activity /\ r.devs # <<>> /\ r.todo # <<>>
  BY <1>2, <1>3, <1>5, <1>6 DEF Activity, AtMostOne, todo
<1> HIDE DEF r
<1>9. news' \in [Vol -> Seq({"insync", "failure"})]
  BY CommandTyped DEF StartRebuild
<1> QED
  BY <1>7, <1>8, <1>9, GoesTyped DEF StartRebuild, Typed, TypeOK, Table

\* The types of a run that resumes.
LEMMA TypedResume ==
  ASSUME Typed, count' \in [Bounded -> Nat], NEW p \in Proc, NEW v \in Vol, Resume(p, v)
  PROVE  Typed'
<1>1. PICK devs \in Groupings :
        LET old == meta[devs[1]] IN
        Goes(p, [pc |-> "reload", vol |-> v, devs |-> devs, new |-> <<>>, todo |-> <<>>,
                 old |-> old, image |-> old])
  BY DEF Resume
<1> DEFINE old == meta[devs[1]]
           r == [pc |-> "reload", vol |-> v, devs |-> devs, new |-> <<>>, todo |-> <<>>,
                 old |-> old, image |-> old]
<1>2. old \in Entry /\ devs \in Seq(Disk) /\ devs # <<>>
  BY OldTyped DEF Resume
<1>3. Goes(p, r)
  BY <1>1
<1> HIDE DEF old
<1>4. r \in Activity /\ r.devs # <<>> /\ r.pc = "reload"
  BY <1>2 DEF Activity, AtMostOne
<1> HIDE DEF r
<1>5. news' \in [Vol -> Seq({"insync", "failure"})]
  BY CommandTyped DEF Resume
<1> QED
  BY <1>3, <1>4, <1>5, GoesTyped DEF Resume, Typed, TypeOK, Table

\* A refused rebuild takes its event only.
LEMMA TypedRefuse ==
  ASSUME Typed, count' \in [Bounded -> Nat], NEW p \in Proc, NEW v \in Vol, Refuse(p, v)
  PROVE  Typed'
<1>1. news' \in [Vol -> Seq({"insync", "failure"})]
  BY CommandTyped DEF Refuse
<1> QED
  BY <1>1 DEF Refuse, Typed, TypeOK

\* The state of an idle process has its type.
LEMMA IdleTyped == Typed /\ Proc # {} => Idle \in Activity /\ Idle.pc = "idle"
<1> SUFFICES ASSUME Typed, Proc # {} PROVE Idle \in Activity /\ Idle.pc = "idle"
  OBVIOUS
<1>1. 0 \in Vol
  BY ConstantsAssumption DEF Vol
<1>2. Blank \in Entry
  <2> DEFINE none == [v \in Vol |-> NoneFailed]
  <2>1. none \in [Vol -> Nat] /\ Blank = [kind |-> "blank", gen |-> 0, disk |-> <<>>, failed |-> none]
    BY DEF Blank, NoneFailed
  <2> HIDE DEF none
  <2> QED
    BY <2>1 DEF Entry
<1> HIDE DEF Blank
<1> QED
  BY <1>1, <1>2 DEF Idle, Activity, AtMostOne

\* The types of a run that ends a rebuild: an entry goes from the table.
LEMMA TypedEnd ==
  ASSUME Typed, count' \in [Bounded -> Nat], NEW v \in Vol, EndRebuild(v)
  PROVE  Typed'
<1>1. news' \in [Vol -> Seq({"insync", "failure"})]
  BY HearsTyped DEF EndRebuild
<1>2. CASE Read # {} /\ Status(v) = "nosync"
  <2>1. PICK devs \in Groupings :
          LET m == meta[devs[1]]
          IN  Goes(v, IF ~InMigration(m, v, devs) THEN Idle
                      ELSE [Idle EXCEPT !.pc = "clear", !.vol = v, !.devs = devs,
                                        !.todo = devs, !.image = Ended(m, v)])
    BY <1>2 DEF EndRebuild
  <2> DEFINE m == meta[devs[1]]
             image == Ended(m, v)
             s == [Idle EXCEPT !.pc = "clear", !.vol = v, !.devs = devs,
                               !.todo = devs, !.image = image]
             r == IF ~InMigration(m, v, devs) THEN Idle ELSE s
  <2>2. m \in Entry /\ devs \in Seq(Disk) /\ devs # <<>>
    BY <1>2, OldTyped
  <2>3. Goes(v, r) /\ v \in Proc
    BY <2>1 DEF Proc
  <2> HIDE DEF m
  <2>4. image \in Entry
    BY <2>2, EndedIs
  <2> HIDE DEF image
  <2>5. Idle \in Activity /\ Idle.pc = "idle"
    BY <2>3, IdleTyped
  <2> HIDE DEF Idle
  <2>6. s \in Activity /\ s.devs # <<>> /\ s.todo # <<>>
    BY <2>2, <2>4, <2>5 DEF Activity
  <2> HIDE DEF s
  <2>7. r \in Activity /\ (r.pc # "idle" => r.devs # <<>>)
        /\ (r.pc \in {"write", "clear"} => r.todo # <<>>)
    BY <2>5, <2>6
  <2> HIDE DEF r
  <2> QED
    BY <1>1, <2>3, <2>7, GoesTyped DEF EndRebuild, Typed, TypeOK, Table
<1>3. CASE ~(Read # {} /\ Status(v) = "nosync")
  BY <1>1, <1>3 DEF EndRebuild, Typed, TypeOK
<1> QED
  BY <1>2, <1>3

\* A write puts the new metadata on one disk; more are left, or the run goes on.
LEMMA TypedWrite ==
  ASSUME Typed, count' \in [Bounded -> Nat], NEW p \in Proc, Write(p)
  PROVE  Typed'
<1> DEFINE r == run[p]
           d == Head(r.todo)
<1>1. r \in Activity /\ r.devs # <<>> /\ r.todo # <<>> /\ r.pc \in {"write", "clear"}
  BY DEF Write, Typed, TypeOK, Activity, AtMostOne
<1>2. PICK ok \in BOOLEAN : Written(p, ok) /\ UNCHANGED <<up, map, holds, news>>
  BY DEF Write
<1> HIDE DEF r
<1>3. Len(r.todo) \in Nat /\ Len(r.todo) > 0 /\ r.todo \in Seq(Disk)
      /\ Tail(r.todo) \in Seq(Disk) /\ Len(Tail(r.todo)) = Len(r.todo) - 1
      /\ Head(r.todo) \in Disk /\ r.image \in Entry
  BY <1>1, HeadTailProperties, LenProperties, EmptySeq DEF Activity
<1> DEFINE on == [r EXCEPT !.pc = "reload", !.todo = <<>>]
           left == [r EXCEPT !.todo = Tail(r.todo)]
           next == IF r.pc = "clear" /\ (~ok \/ Len(r.todo) = 1) THEN Idle
                   ELSE IF Len(r.todo) = 1 THEN on ELSE left
<1>4. /\ meta' = IF ok THEN [meta EXCEPT ![d] = r.image] ELSE meta
      /\ run' = [run EXCEPT ![p] = next]
  BY <1>2 DEF Written, Goes, r
<1>5. Idle \in Activity /\ Idle.pc = "idle"
  BY IdleTyped
<1> HIDE DEF Idle
<1>6. on \in Activity /\ on.pc = "reload" /\ on.devs = r.devs
  <2> DEFINE none == <<>>
  <2>1. none \in Seq(Disk) /\ on = [r EXCEPT !.pc = "reload", !.todo = none]
    OBVIOUS
  <2> HIDE DEF none, on
  <2> QED
    BY <1>1, <2>1 DEF Activity
<1>7. left \in Activity /\ left.devs = r.devs /\ left.todo = Tail(r.todo)
  BY <1>1, <1>3 DEF Activity
<1>8. Len(r.todo) # 1 => Tail(r.todo) # <<>>
  <2> DEFINE tail == Tail(r.todo)
             n == Len(r.todo)
             k == Len(tail)
  <2>1. n \in Nat /\ k = n - 1 /\ (tail = <<>> => k = 0)
    BY <1>3, EmptySeq
  <2> HIDE DEF tail, n, k
  <2>2. n # 1 => tail # <<>>
    BY <2>1
  <2> QED
    BY <2>2 DEF tail, n
<1> HIDE DEF on, left
<1>9. next \in Activity /\ (next.pc # "idle" => next.devs # <<>>)
      /\ (next.pc \in {"write", "clear"} => next.todo # <<>>)
  BY <1>1, <1>5, <1>6, <1>7, <1>8
<1> HIDE DEF next, d
<1>10. meta' \in [Disk -> Entry]
  BY <1>3, <1>4 DEF Typed, TypeOK
<1>11. run' \in [Proc -> Activity] /\ \A q \in Proc :
         (run'[q].pc # "idle" => run'[q].devs # <<>>)
         /\ (run'[q].pc \in {"write", "clear"} => run'[q].todo # <<>>)
  <2>1. run \in [Proc -> Activity] /\ \A q \in Proc :
          (run[q].pc # "idle" => run[q].devs # <<>>)
          /\ (run[q].pc \in {"write", "clear"} => run[q].todo # <<>>)
    BY DEF Typed, TypeOK, Activity, AtMostOne
  <2> QED
    BY <1>4, <1>9, <2>1
<1> QED
  BY <1>2, <1>10, <1>11 DEF Typed, TypeOK, Activity, AtMostOne

\* New tables leave the kernel with disks that have the data.
LEMMA LoadsTyped ==
  ASSUME Typed, NEW new \in [Vol -> Table], Loads(new)
  PROVE  map' \in [Vol -> Table] /\ holds' \in [Vol -> SUBSET Disk]
BY DEF Loads, Typed, TypeOK

\* A reload takes the tables that Tables and Mirror give.
LEMMA TypedReload ==
  ASSUME Typed, count' \in [Bounded -> Nat], NEW p \in Proc, Reload(p)
  PROVE  Typed'
<1> DEFINE r == run[p]
           todo == r.devs \o r.new
           image == Ended(r.image, r.vol)
           on == [r EXCEPT !.pc = "clear", !.todo = todo, !.image = image]
           next == IF p = Tool /\ r.vol \notin Monitored THEN on ELSE Idle
<1>1. r \in Activity /\ r.devs # <<>> /\ r.pc = "reload"
  BY DEF Reload, Typed, TypeOK, Activity, AtMostOne
<1>2. /\ Loads([w \in Vol |-> Reloaded(r, w)]) \/ UNCHANGED <<map, holds>>
      /\ Goes(p, next) /\ UNCHANGED <<meta, up, news>>
  BY DEF Reload
<1> HIDE DEF r
<1>3. map' \in [Vol -> Table] /\ holds' \in [Vol -> SUBSET Disk]
  <2>1. [w \in Vol |-> Reloaded(r, w)] \in [Vol -> Table]
    BY <1>1, ReloadedIs DEF Typed
  <2> DEFINE new == [w \in Vol |-> Reloaded(r, w)]
  <2> HIDE DEF new
  <2>2. CASE Loads(new)
    BY <2>1, <2>2, LoadsTyped DEF new
  <2>3. CASE UNCHANGED <<map, holds>>
    BY <2>3 DEF Typed, TypeOK, Table
  <2> QED
    BY <1>2, <2>2, <2>3 DEF new
<1>4. todo \in Seq(Disk) /\ todo # <<>>
  <2> DEFINE dv == r.devs
             nw == r.new
  <2>1. dv \in Seq(Disk) /\ dv # <<>> /\ nw \in AtMostOne
    BY <1>1 DEF Activity
  <2> HIDE DEF dv, nw
  <2>2. dv \in Seq(Disk) /\ nw \in Seq(Disk) /\ Len(dv) # 0
    <3>1. nw \in Seq(Disk)
      BY <2>1, AtMostOneIs
    <3>2. Len(dv) # 0
      BY <2>1, EmptySeq
    <3> QED
      BY <2>1, <3>1, <3>2
  <2>3. dv \o nw \in Seq(Disk) /\ dv \o nw # <<>>
    BY <2>2, ConcatProperties, EmptySeq, LenProperties
  <2> QED
    BY <2>3 DEF dv, nw
<1>5. image \in Entry
  BY <1>1, EndedIs DEF Activity
<1> HIDE DEF todo, image
<1>6. on \in Activity /\ on.devs = r.devs /\ on.todo = todo
  BY <1>1, <1>4, <1>5 DEF Activity
<1>7. Idle \in Activity /\ Idle.pc = "idle"
  BY IdleTyped
<1> HIDE DEF on, Idle
<1>8. next \in Activity /\ (next.pc # "idle" => next.devs # <<>>)
      /\ (next.pc \in {"write", "clear"} => next.todo # <<>>)
  BY <1>1, <1>4, <1>6, <1>7
<1> HIDE DEF next
<1> QED
  BY <1>2, <1>3, <1>8, GoesTyped DEF Typed, TypeOK

\* "dmraid -ay" maps the devices of the group.
LEMMA TypedActivate == ASSUME Typed, count' \in [Bounded -> Nat], Activate PROVE Typed'
<1>1. PICK devs \in Groupings :
        Loads([v \in Vol |-> IF map[v].devs # <<>> THEN map[v]
                             ELSE Mirror(devs, Status(v) # "ok", NoneFailed)])
  BY DEF Activate
<1> DEFINE new == [v \in Vol |-> IF map[v].devs # <<>> THEN map[v]
                                 ELSE Mirror(devs, Status(v) # "ok", NoneFailed)]
<1>2. devs \in Seq(Disk)
  BY OldTyped DEF Activate
<1>3. new \in [Vol -> Table]
  <2>1. \A v \in Vol : map[v] \in Table
    BY DEF Typed, TypeOK, Table
  <2>2. \A v \in Vol : (Status(v) # "ok") \in BOOLEAN
    OBVIOUS
  <2>3. \A v \in Vol : Mirror(devs, Status(v) # "ok", NoneFailed) \in Table
    BY <1>2, <2>2, MirrorIs DEF MirrorOf
  <2> QED
    BY <2>1, <2>3
<1>4. Loads(new)
  BY <1>1
<1> HIDE DEF new
<1>5. map' \in [Vol -> Table] /\ holds' \in [Vol -> SUBSET Disk]
  BY <1>3, <1>4, LoadsTyped
<1> QED
  BY <1>5 DEF Activate, Typed, TypeOK, Table

\* The end of a copy is an event for the daemon.
LEMMA TypedSynced == ASSUME Typed, count' \in [Bounded -> Nat], NEW v \in Vol, Synced(v) PROVE Typed'
<1>1. map[v] \in Table /\ ToSet(map[v].devs) \subseteq Disk
  BY InSeq DEF Typed, TypeOK, Table
<1>2. map' \in [Vol -> Table] /\ holds' \in [Vol -> SUBSET Disk]
  BY <1>1 DEF Synced, Typed, TypeOK, Table
<1>3. news' \in [Vol -> Seq({"insync", "failure"})]
  <2>1. Append(news[v], "insync") \in Seq({"insync", "failure"})
    BY AppendProperties DEF Typed, TypeOK
  <2> QED
    BY <2>1 DEF Synced, Typed, TypeOK
<1> QED
  BY <1>2, <1>3 DEF Synced, Typed, TypeOK, Table

\* The death of a disk is an event for the daemon.
LEMMA TypedFail == ASSUME Typed, count' \in [Bounded -> Nat], NEW d \in Disk, Fail(d) PROVE Typed'
<1>1. news' \in [Vol -> Seq({"insync", "failure"})]
  <2>1. \A v \in Vol : news[v] \in Seq({"insync", "failure"})
                       /\ Append(news[v], "failure") \in Seq({"insync", "failure"})
    BY AppendProperties DEF Typed, TypeOK
  <2> QED
    BY <2>1 DEF Fail
<1>2. up' \subseteq Disk /\ holds' \in [Vol -> SUBSET Disk]
  BY DEF Fail, Typed, TypeOK
<1> QED
  BY <1>1, <1>2 DEF Fail, Typed, TypeOK

\* A killed run does nothing.
LEMMA TypedKill == ASSUME Typed, count' \in [Bounded -> Nat], Kill PROVE Typed'
<1>1. Tool \in Proc
  BY DEF Proc
<1>2. Idle \in Activity /\ Idle.pc = "idle"
  BY <1>1, IdleTyped
<1> HIDE DEF Idle
<1> QED
  BY <1>1, <1>2, GoesTyped DEF Kill, Typed, TypeOK, Table

\* After a restart nothing is mapped, heard or done.
LEMMA TypedReboot == ASSUME Typed, count' \in [Bounded -> Nat], Reboot PROVE Typed'
<1>1. Idle \in Activity /\ Idle.pc = "idle"
  BY IdleTyped DEF Proc
<1> HIDE DEF Idle
<1>2. map' \in [Vol -> Table] /\ news' \in [Vol -> Seq({"insync", "failure"})]
  BY DEF Reboot, Off, Table
<1>3. run' = [p \in Proc |-> Idle]
  BY DEF Reboot
<1> QED
  BY <1>1, <1>2, <1>3 DEF Reboot, Typed, TypeOK, Table, Activity, AtMostOne

\* Every step keeps the types.
LEMMA TypedStep == ASSUME Typed, [Next]_vars PROVE Typed'
<1>0. count' \in [Bounded -> Nat]
  BY StepCounts DEF Typed, TypeOK
<1>1. \A v \in Vol : v \in Proc
  BY DEF Proc
<1>2. Tool \in Proc
  BY DEF Proc
<1>3. ASSUME NEW p \in Proc, NEW v \in Vol, Rebuild(p, v) PROVE Typed'
  BY <1>0, <1>3, TypedStart, TypedResume, TypedRefuse DEF Rebuild
<1>4. ASSUME NEW p \in Proc, Works(p) PROVE Typed'
  BY <1>0, <1>4, TypedWrite, TypedReload DEF Works
<1>5. ASSUME NEW v \in Vol, Thread(v) PROVE Typed'
  BY <1>0, <1>1, <1>3, <1>4, <1>5, TypedEnd DEF Thread
<1>6. CASE UNCHANGED vars
  BY <1>6 DEF vars, Typed, TypeOK
<1>7. CASE Next
  BY <1>2, <1>3, <1>4, <1>5, <1>7, <1>0, TypedSynced, TypedActivate, TypedFail, TypedKill, TypedReboot
     DEF Next
<1> QED
  BY <1>6, <1>7

\* Every variable keeps its type, and a run that does something has devices:
\* the data of rebuilding is always well formed, whatever dies, fails, is
\* killed or restarted.
THEOREM Typing == Spec => []TypeOK
<1>1. Typed /\ [Next]_vars => Typed'
  BY TypedStep
<1>2. Typed => TypeOK
  BY DEF Typed
<1> QED
  BY <1>1, <1>2, TypedInit, PTL DEF Spec

-----------------------------------------------------------------------------
(* Runs one at a time.                                                     *)

\* The last entry of the disk table is a disk that failed.
LastFailed(m) == m.disk # <<>> /\ m.disk[Len(m.disk)] \notin up

\* Of two working disks with metadata each lists both, and what is copied to a
\* new disk pushed a failed one to the end of the table.
Member(d) ==
  /\ d \in Read
  /\ Read \subseteq ToSet(meta[d].disk)
  /\ meta[d].failed[0] # NoneFailed => LastFailed(meta[d])

\* The new metadata of a run lists all members, the new disk among them, and
\* the new disk gets it after all the others.
Sound(r) ==
  /\ ToSet(r.devs) \cap up \subseteq Read
  /\ r.image.kind = "member" /\ Read \subseteq ToSet(r.image.disk)
  /\ r.image.failed[0] # NoneFailed \/ r.pc # "clear" => LastFailed(r.image)
  /\ r.pc # "write" => ToSet(r.new) \cap up \subseteq Read /\ ToSet(r.todo) \cap up \subseteq Read
  /\ r.pc = "write" =>
       /\ r.new # <<>> /\ r.new[1] \in ToSet(r.image.disk) /\ r.new[1] \notin ToSet(r.devs)
       /\ Read \subseteq ToSet(r.devs)
       /\ r.todo[Len(r.todo)] = r.new[1]
       /\ \A i \in 1 .. Len(r.todo) - 1 : r.todo[i] \in ToSet(r.devs)
       /\ \A d \in (ToSet(r.devs) \cap up) \ ToSet(r.todo) : meta[d] = r.image

\* At most one process is doing something.
Alone == \A p, q \in Proc : p # q => Free(p) \/ Free(q)

\* What the disks, the kernel and the runs know of the members.
Lists ==
  /\ \A d \in up : meta[d].kind = "member" => Member(d)
  /\ ToSet(map[0].devs) \cap up \subseteq Read
  /\ \A p \in Proc : ~Free(p) => Sound(run[p])

\* The invariant for runs one at a time.
SerialInv == Typed /\ Alone /\ (Noticed => Lists)

\* A step changes what one process does, or ends everything.
LEMMA OneChanges ==
  ASSUME Typed, [Next]_vars
  PROVE  \/ run' = run
         \/ \E p \in Proc : \E r : run' = [run EXCEPT ![p] = r]
         \/ run' = [p \in Proc |-> Idle]
<1> DEFINE One == \E p \in Proc : \E r : run' = [run EXCEPT ![p] = r]
<1>1. ASSUME NEW p \in Proc, NEW r, Goes(p, r) PROVE One
  BY <1>1, Zenon DEF Goes
<1> HIDE DEF One
<1>2. ASSUME NEW p \in Proc, NEW v \in Vol, Rebuild(p, v) PROVE One \/ run' = run
  <2>1. CASE StartRebuild(p, v) BY <2>1, <1>1, Zenon DEF StartRebuild
  <2>2. CASE Resume(p, v) BY <2>2, <1>1, Zenon DEF Resume
  <2>3. CASE Refuse(p, v) BY <2>3, Zenon DEF Refuse
  <2> QED BY <1>2, <2>1, <2>2, <2>3 DEF Rebuild
<1>3. ASSUME NEW p \in Proc, Works(p) PROVE One
  <2>1. CASE Write(p) BY <2>1, <1>1, Zenon DEF Write, Written
  <2>2. CASE Reload(p) BY <2>2, <1>1, Zenon DEF Reload
  <2> QED BY <1>3, <2>1, <2>2 DEF Works
<1>4. Tool \in Proc /\ \A v \in Vol : v \in Proc
  BY DEF Proc
<1>5. ASSUME NEW v \in Vol, EndRebuild(v) PROVE One \/ run' = run
  BY <1>4, <1>5, <1>1, Zenon DEF EndRebuild
<1>6. Kill => One
  BY <1>4, <1>1, Zenon DEF Kill
<1>7. CASE Activate \/ (\E d \in Disk : Fail(d)) \/ (\E v \in Vol : Synced(v)) \/ UNCHANGED vars
  BY <1>7, Zenon DEF Activate, Fail, Synced, vars
<1>8. CASE Reboot
  BY <1>8 DEF Reboot
<1>9. ASSUME NEW v \in Vol, Thread(v) \/ Rebuild(Tool, v) PROVE One \/ run' = run
  BY <1>2, <1>3, <1>4, <1>5, <1>9 DEF Thread
<1> QED
  BY <1>3, <1>4, <1>6, <1>7, <1>8, <1>9 DEF Next, One

\* Runs that do not begin beside another one stay alone.
LEMMA AloneStep ==
  ASSUME Typed, Alone, [Next]_vars, [Serial]_vars
  PROVE  Alone'
<1>1. CASE run' = run
  BY <1>1 DEF Alone, Free
<1>2. ASSUME NEW p \in Proc, NEW r, run' = [run EXCEPT ![p] = r] PROVE Alone'
  <2>1. \A q \in Proc : q # p => run'[q] = run[q]
    BY <1>2 DEF Typed, TypeOK
  <2>2. run'[p] = r
    BY <1>2 DEF Typed, TypeOK
  <2>3. CASE UNCHANGED vars
    BY <1>1, <2>3 DEF vars
  <2>4. CASE Serial /\ Free(p) /\ r.pc # "idle"
    <3>1. \A q \in Proc : Free(q)
      BY <2>2, <2>4 DEF Serial
    <3> QED
      BY <2>1, <3>1 DEF Alone, Free
  <2>5. CASE ~Free(p)
    BY <2>1, <2>5 DEF Alone, Free
  <2>6. CASE r.pc = "idle"
    BY <2>1, <2>2, <2>6 DEF Alone, Free
  <2> QED
    BY <2>3, <2>4, <2>5, <2>6
<1>3. CASE run' = [p \in Proc |-> Idle]
  BY <1>3 DEF Alone, Free, Idle
<1> QED
  BY <1>1, <1>2, <1>3, OneChanges

\* The lists depend on the metadata and the disks that work.
LEMMA SameLists ==
  ASSUME UNCHANGED <<meta, up>>
  PROVE  /\ Read' = Read
         /\ \A d : Member(d)' <=> Member(d)
         /\ \A r : Sound(r)' <=> Sound(r)
<1>1. Read' = Read
  BY DEF Read
<1>2. \A m : LastFailed(m)' <=> LastFailed(m)
  BY DEF LastFailed
<1>3. \A d : Member(d)' <=> Member(d)
  BY <1>1, <1>2 DEF Member
<1>4. \A r : Sound(r)' <=> Sound(r)
  BY <1>1, <1>2 DEF Sound
<1> QED
  BY <1>1, <1>3, <1>4

\* A disk that dies is listed no longer, and nothing else changes.
LEMMA FewerUp ==
  ASSUME meta' = meta, up' \subseteq up
  PROVE  /\ Read' = Read \cap up'
         /\ \A m : LastFailed(m) => LastFailed(m)'
         /\ \A d \in up' : Member(d) => Member(d)'
         /\ \A r : Sound(r) => Sound(r)'
<1>1. Read' = Read \cap up'
  BY DEF Read
<1>2. \A m : LastFailed(m) => LastFailed(m)'
  BY DEF LastFailed
<1>3. \A d \in up' : Member(d) => Member(d)'
  BY <1>1, <1>2 DEF Member
<1>4. \A r : Sound(r) => Sound(r)'
  <2> TAKE r
  <2> HAVE Sound(r)
  <2>1. (\A d \in (ToSet(r.devs) \cap up) \ ToSet(r.todo) : meta[d] = r.image)
        => \A d \in (ToSet(r.devs) \cap up') \ ToSet(r.todo) : meta'[d] = r.image
    OBVIOUS
  <2> QED
    BY <1>1, <1>2, <2>1 DEF Sound
<1> QED
  BY <1>1, <1>2, <1>3, <1>4

\* One process goes on, the others stay sound.
LEMMA OneRun ==
  ASSUME Typed, NEW p \in Proc, NEW r, Goes(p, r), r.pc # "idle" => Sound(r)',
         \A q \in Proc : q # p /\ ~Free(q) => Sound(run[q])'
  PROVE  \A q \in Proc : ~Free(q)' => Sound(run[q])'
<1> SUFFICES ASSUME NEW q \in Proc, ~Free(q)' PROVE Sound(run[q])'
  OBVIOUS
<1>1. run' = [run EXCEPT ![p] = r] /\ run \in [Proc -> Activity]
  BY DEF Goes, Typed, TypeOK, Activity, AtMostOne
<1>2. CASE q = p
  <2>1. run'[q] = r
    BY <1>1, <1>2
  <2> QED
    BY <2>1 DEF Free
<1>3. CASE q # p
  <2>1. run'[q] = run[q]
    BY <1>1, <1>3
  <2> QED
    BY <1>3, <2>1 DEF Free
<1> QED
  BY <1>2, <1>3

\* A process goes on and the metadata stays.
LEMMA RunGoes ==
  ASSUME Typed, Lists, UNCHANGED <<meta, up>>, ToSet(map'[0].devs) \cap up \subseteq Read,
         NEW p \in Proc, NEW r, Goes(p, r), r.pc # "idle" => Sound(r)
  PROVE  Lists'
<1>1. Read' = Read /\ (\A d : Member(d)' <=> Member(d)) /\ (\A q : Sound(q)' <=> Sound(q))
  BY SameLists
<1>2. \A q \in Proc : ~Free(q)' => Sound(run[q])'
  <2>1. \A q \in Proc : q # p => run'[q] = run[q]
    BY DEF Goes, Typed, TypeOK
  <2>2. \A q \in Proc : q # p /\ ~Free(q) => Sound(run[q])'
    BY <1>1, <2>1 DEF Lists
  <2> QED
    BY <1>1, <2>2, OneRun
<1>3. \A d \in up' : meta'[d].kind = "member" => Member(d)'
  BY <1>1 DEF Lists
<1> QED
  BY <1>1, <1>2, <1>3 DEF Lists

\* Members list all members.
LEMMA MemberLists ==
  ASSUME Lists, NEW d \in Read
  PROVE  /\ d \in up /\ meta[d].kind = "member" /\ Read \subseteq ToSet(meta[d].disk)
         /\ meta[d].failed[0] # NoneFailed => LastFailed(meta[d])
<1>1. d \in up /\ meta[d].kind = "member"
  BY DEF Read
<1>2. Member(d)
  BY <1>1 DEF Lists
<1> QED
  BY <1>1, <1>2 DEF Member

\* A rebuild begins: the new metadata lists the members that work and the new disk.
LEMMA ListsStart ==
  ASSUME Typed, Lists, NEW p \in Proc, NEW v \in Vol, StartRebuild(p, v)
  PROVE  Lists'
<1>1. PICK devs \in Groupings, new \in Replacements(p, v) :
        LET old == meta[devs[1]] IN
        /\ Cardinality(Missing(old)) = 1
        /\ Goes(p, [pc |-> "write", vol |-> v, devs |-> devs, new |-> <<new>>,
                    todo |-> Append(devs, new), old |-> old, image |-> Begun(old, new)])
  BY DEF StartRebuild
<1> DEFINE old == meta[devs[1]]
           image == Begun(old, new)
           todo == Append(devs, new)
           r == [pc |-> "write", vol |-> v, devs |-> devs, new |-> <<new>>,
                 todo |-> todo, old |-> old, image |-> image]
<1>2. old \in Entry /\ devs \in Seq(Disk) /\ ToSet(devs) = Read /\ devs[1] \in Read
  BY OldTyped, Listing DEF StartRebuild, Typed, TypeOK
<1>3. new \in up /\ new \notin Read /\ new \in Disk
  BY DEF Replacements, Read, Typed, TypeOK
<1>4. Missing(old) # {}
  <2>1. Cardinality(Missing(old)) = 1
    BY <1>1
  <2>2. Cardinality({}) # 1
    BY FS_EmptySet
  <2> QED
    BY <2>1, <2>2, Zenon
<1>5. Goes(p, r)
  BY <1>1
<1>6. old.kind = "member" /\ Read \subseteq ToSet(old.disk)
  BY <1>2, MemberLists
<1> HIDE DEF old
<1>7. /\ image \in Entry /\ image.kind = "member" /\ LastFailed(image)
      /\ ToSet(image.disk) = ToSet(old.disk) \cup {new}
  <2>1. image \in Entry /\ image.kind = "member"
    BY <1>2, <1>3, <1>4, <1>6, BegunIs
  <2>2. PICK i \in 1 .. Len(old.disk) :
          LET t == image.disk IN
          /\ old.disk[i] \notin up
          /\ Len(t) = Len(old.disk) + 1 /\ t[Len(old.disk) + 1] = old.disk[i]
          /\ ToSet(t) = ToSet(old.disk) \cup {new}
    BY <1>2, <1>3, <1>4, BegunIs
  <2>3. image.disk # <<>>
    <3>1. image.disk = <<>> => ToSet(image.disk) = {}
      BY DEF ToSet
    <3> QED
      BY <2>2, <3>1
  <2> QED
    BY <2>1, <2>2, <2>3 DEF LastFailed
<1>8. /\ todo \in Seq(Disk) /\ Len(todo) - 1 = Len(devs) /\ todo[Len(todo)] = new
      /\ \A i \in 1 .. Len(devs) : todo[i] \in ToSet(devs)
      /\ ToSet(todo) = ToSet(devs) \cup {new}
  <2>1. /\ todo \in Seq(Disk) /\ Len(todo) = Len(devs) + 1 /\ todo[Len(devs) + 1] = new
        /\ \A i \in 1 .. Len(devs) : todo[i] = devs[i]
        /\ ToSet(todo) = ToSet(devs) \cup {new}
    BY <1>2, <1>3, Appended
  <2>2. \A i \in 1 .. Len(devs) : devs[i] \in ToSet(devs)
    BY <1>2, InSeq
  <2>3. Len(devs) \in Nat
    BY <1>2, LenProperties
  <2> QED
    BY <2>1, <2>2, <2>3
<1> HIDE DEF todo, image
<1>9. Sound(r)
  <2>1. /\ r.pc = "write" /\ r.devs = devs /\ r.new = <<new>> /\ r.todo = todo /\ r.image = image
        /\ <<new>> # <<>> /\ <<new>>[1] = new
    OBVIOUS
  <2> HIDE DEF r
  <2> QED
    BY <1>2, <1>3, <1>6, <1>7, <1>8, <2>1 DEF Sound
<1> HIDE DEF r
<1> QED
  BY <1>5, <1>9, RunGoes DEF StartRebuild, Lists

\* What the status says of the members' metadata.
LEMMA StatusIs ==
  ASSUME NEW v \in Vol
  PROVE  /\ Status(v) = "nosync" => /\ Cardinality(Read) = NumMembers
                                   /\ \A d \in Read : meta[d].failed[v] # NoneFailed
         /\ Status(v) = "ok" => /\ Cardinality(Read) = NumMembers
                               /\ \A d \in Read : meta[d].failed[v] = NoneFailed
         /\ Cardinality(Read) # NumMembers => Status(v) = "inconsistent"
<1> DEFINE migrating == {d \in Read : meta[d].failed[v] # NoneFailed}
<1>1. Status(v) = IF Cardinality(Read) # NumMembers THEN "inconsistent"
                  ELSE IF migrating = {} THEN "ok"
                  ELSE IF migrating = Read THEN "nosync" ELSE "inconsistent"
  BY Zenon DEF Status
<1> QED
  BY <1>1

\* The volume of a group with one volume.
LEMMA OneVol == ASSUME NumVols = 1, NEW v \in Vol PROVE v = 0
BY DEF Vol

\* A rebuild is resumed with the members that are there.
LEMMA ListsResume ==
  ASSUME NumVols = 1, Typed, Lists, NEW p \in Proc, NEW v \in Vol, Resume(p, v)
  PROVE  Lists'
<1>1. PICK devs \in Groupings :
        LET old == meta[devs[1]] IN
        Goes(p, [pc |-> "reload", vol |-> v, devs |-> devs, new |-> <<>>, todo |-> <<>>,
                 old |-> old, image |-> old])
  BY DEF Resume
<1> DEFINE old == meta[devs[1]]
           r == [pc |-> "reload", vol |-> v, devs |-> devs, new |-> <<>>, todo |-> <<>>,
                 old |-> old, image |-> old]
<1>2. old \in Entry /\ devs \in Seq(Disk) /\ ToSet(devs) = Read /\ devs[1] \in Read
  BY OldTyped, Listing DEF Resume, Typed, TypeOK
<1>3. old.kind = "member" /\ Read \subseteq ToSet(old.disk) /\ LastFailed(old)
  BY <1>2, MemberLists, StatusIs, OneVol DEF Resume
<1>4. Goes(p, r)
  BY <1>1
<1> HIDE DEF old
<1>5. Sound(r)
  <2>1. r.pc = "reload" /\ r.devs = devs /\ r.image = old /\ ToSet(r.new) = {} /\ ToSet(r.todo) = {}
    BY DEF ToSet
  <2> HIDE DEF r
  <2> QED
    BY <1>2, <1>3, <2>1 DEF Sound
<1> HIDE DEF r
<1> QED
  BY <1>4, <1>5, RunGoes DEF Resume, Lists

\* The last entry is dropped, and with it no member.
LEMMA EndedLists ==
  ASSUME NumVols = 1, NEW m \in Entry, NEW v \in Vol, Read \subseteq ToSet(m.disk), LastFailed(m)
  PROVE  /\ Ended(m, v) \in Entry /\ Ended(m, v).kind = m.kind
         /\ Read \subseteq ToSet(Ended(m, v).disk)
         /\ Ended(m, v).failed[0] = NoneFailed
<1> DEFINE s == m.disk
           n == Len(s)
           t == Ended(m, v).disk
<1>1. s \in Seq(Disk) /\ v = 0 /\ m.failed \in [Vol -> Nat]
  BY OneVol DEF Entry
<1>2. Ended(m, v) \in Entry /\ Ended(m, v).kind = m.kind /\ t = Front(s)
      /\ Ended(m, v).failed = [m.failed EXCEPT ![v] = NoneFailed]
  BY EndedIs
<1>3. Ended(m, v).failed[0] = NoneFailed
  BY <1>1, <1>2
<1>4. s # <<>> /\ s[n] \notin Read /\ Read \subseteq ToSet(s)
  BY DEF LastFailed, Read
<1> HIDE DEF s, t
<1>5. ToSet(t) = {s[i] : i \in 1 .. n - 1} /\ ToSet(s) = {s[i] : i \in 1 .. n} /\ n \in Nat
  BY <1>1, <1>2, FrontOf, InSeq, LenProperties
<1> HIDE DEF n
<1>6. Read \subseteq ToSet(t)
  BY <1>4, <1>5
<1> QED
  BY <1>2, <1>3, <1>6 DEF t

\* A rebuild ends: the entry that is dropped is that of a failed disk.
LEMMA ListsEnd ==
  ASSUME NumVols = 1, Typed, Lists, NEW v \in Vol, EndRebuild(v)
  PROVE  Lists'
<1>0. v \in Proc
  BY DEF Proc
<1>1. CASE Read # {} /\ Status(v) = "nosync"
  <2>1. PICK devs \in Groupings :
          LET m == meta[devs[1]]
          IN  Goes(v, IF ~InMigration(m, v, devs) THEN Idle
                      ELSE [Idle EXCEPT !.pc = "clear", !.vol = v, !.devs = devs,
                                        !.todo = devs, !.image = Ended(m, v)])
    BY <1>1 DEF EndRebuild
  <2> DEFINE m == meta[devs[1]]
             image == Ended(m, v)
             s == [Idle EXCEPT !.pc = "clear", !.vol = v, !.devs = devs,
                               !.todo = devs, !.image = image]
             r == IF ~InMigration(m, v, devs) THEN Idle ELSE s
  <2>2. m \in Entry /\ devs \in Seq(Disk) /\ ToSet(devs) = Read /\ devs[1] \in Read
    BY <1>1, OldTyped, Listing DEF Typed, TypeOK
  <2>3. Goes(v, r)
    BY <2>1
  <2>4. m.kind = "member" /\ Read \subseteq ToSet(m.disk) /\ LastFailed(m)
    BY <1>1, <2>2, MemberLists, StatusIs, OneVol
  <2> HIDE DEF m
  <2>5. image \in Entry /\ image.kind = "member" /\ Read \subseteq ToSet(image.disk)
        /\ image.failed[0] = NoneFailed
    BY <2>2, <2>4, EndedLists
  <2> HIDE DEF image
  <2>6. Sound(s)
    <3>1. s.pc = "clear" /\ s.devs = devs /\ s.image = image /\ ToSet(s.new) = {} /\ s.todo = devs
      BY DEF ToSet, Idle
    <3> HIDE DEF s
    <3> QED
      BY <2>2, <2>5, <3>1 DEF Sound
  <2>7. r.pc # "idle" => Sound(r)
    BY <2>6 DEF Idle
  <2> HIDE DEF r
  <2> QED
    BY <1>0, <2>3, <2>7, RunGoes DEF EndRebuild, Lists
<1>2. CASE ~(Read # {} /\ Status(v) = "nosync")
  <2>1. UNCHANGED <<meta, up, map, run>>
    BY <1>2 DEF EndRebuild
  <2> QED
    BY <2>1, SameLists DEF Lists, Free
<1> QED
  BY <1>1, <1>2

\* The first of a sequence and the rest.
LEMMA HeadAndTail ==
  ASSUME NEW S, NEW s \in Seq(S), s # <<>>
  PROVE  /\ Head(s) = s[1] /\ Tail(s) \in Seq(S) /\ Len(Tail(s)) = Len(s) - 1
         /\ \A i \in 1 .. Len(s) - 1 : Tail(s)[i] = s[i + 1]
         /\ ToSet(s) = {Head(s)} \cup ToSet(Tail(s))
         /\ Len(s) = 1 => ToSet(s) = {Head(s)} /\ s[Len(s)] = Head(s)
         /\ Len(s) \in Nat /\ Len(s) >= 1
<1> DEFINE n == Len(s)
           t == Tail(s)
<1>1. /\ Head(s) = s[1] /\ t \in Seq(S) /\ Len(t) = n - 1 /\ n \in Nat /\ n >= 1
      /\ \A i \in 1 .. n - 1 : t[i] = s[i + 1]
  BY HeadTailProperties, LenProperties, EmptySeq
<1>2. ToSet(t) = {t[i] : i \in 1 .. n - 1} /\ ToSet(s) = {s[i] : i \in 1 .. n}
  <2> HIDE DEF n, t
  <2>1. ToSet(t) = {t[i] : i \in 1 .. Len(t)} /\ ToSet(s) = {s[i] : i \in 1 .. Len(s)}
    BY <1>1, InSeq
  <2> QED
    BY <1>1, <2>1 DEF n
<1> HIDE DEF n, t
<1>3. ToSet(s) = {s[1]} \cup ToSet(t)
  <2>1. ASSUME NEW i \in 1 .. n PROVE s[i] \in {s[1]} \cup ToSet(t)
    <3>1. CASE i = 1
      BY <3>1
    <3>2. CASE i # 1
      <4>1. i - 1 \in 1 .. n - 1 /\ (i - 1) + 1 = i
        BY <1>1, <3>2
      <4>2. t[i - 1] = s[i]
        BY <1>1, <4>1
      <4> QED
        BY <1>2, <4>1, <4>2
    <3> QED
      BY <3>1, <3>2
  <2>2. ASSUME NEW i \in 1 .. n - 1 PROVE t[i] \in ToSet(s)
    BY <1>1, <1>2
  <2>3. s[1] \in ToSet(s)
    BY <1>1, <1>2
  <2> QED
    BY <1>2, <2>1, <2>2, <2>3
<1>4. n = 1 => ToSet(s) = {s[1]} /\ s[n] = s[1]
  BY <1>1, <1>2
<1> QED
  BY <1>1, <1>3, <1>4 DEF n, t

\* A reload uses listed members, and the new disk, that has its metadata by then.
LEMMA ListsReload ==
  ASSUME NumVols = 1, Typed, Lists, NEW p \in Proc, Reload(p)
  PROVE  Lists'
<1> DEFINE r == run[p]
           todo == r.devs \o r.new
           image == Ended(r.image, r.vol)
           on == [r EXCEPT !.pc = "clear", !.todo = todo, !.image = image]
           next == IF p = Tool /\ r.vol \notin Monitored THEN on ELSE Idle
<1>1. r \in Activity /\ r.devs # <<>> /\ r.pc = "reload" /\ Sound(r)
  BY DEF Reload, Typed, TypeOK, Activity, AtMostOne, Lists, Free
<1>2. /\ Loads([w \in Vol |-> Reloaded(r, w)]) \/ map' = map
      /\ Goes(p, next) /\ UNCHANGED <<meta, up>>
  BY DEF Reload
<1> HIDE DEF r
<1>3. /\ ToSet(r.devs) \cap up \subseteq Read /\ ToSet(r.new) \cap up \subseteq Read
      /\ r.image.kind = "member" /\ Read \subseteq ToSet(r.image.disk) /\ LastFailed(r.image)
  BY <1>1 DEF Sound
<1>4. 0 \in Vol /\ r.vol = 0 /\ r.image \in Entry /\ r.devs \in Seq(Disk) /\ r.new \in AtMostOne
      /\ r.vol \in Vol
  BY <1>1, OneVol DEF Vol, Activity
<1>5. ToSet(map'[0].devs) \cap up \subseteq Read
  <2>1. CASE map' = map
    BY <2>1 DEF Lists
  <2>2. CASE Loads([w \in Vol |-> Reloaded(r, w)])
    <3>1. map'[0] = Reloaded(r, 0)
      BY <1>4, <2>2 DEF Loads
    <3>2. NeedSync(r, 0) \in BOOLEAN
      BY DEF NeedSync
    <3>3. \A sync \in BOOLEAN : \A t \in Tables(r, 0, sync) :
            ToSet(t.devs) = ToSet(r.devs) \cup ToSet(r.new)
      BY <1>1, <1>4, TablesIs, PlacedIs DEF MirrorOf
    <3>4. \/ ToSet(Reloaded(r, 0).devs) = ToSet(r.devs) \cup ToSet(r.new)
          \/ Reloaded(r, 0) = map[0]
      BY <1>1, <1>4, <3>2, <3>3, ReloadedIs DEF Typed
    <3> QED
      BY <1>3, <3>1, <3>4 DEF Lists
  <2> QED
    BY <1>2, <2>1, <2>2
<1>6. image \in Entry /\ image.kind = "member" /\ Read \subseteq ToSet(image.disk)
      /\ image.failed[0] = NoneFailed
  BY <1>3, <1>4, EndedLists
<1>7. ToSet(todo) = ToSet(r.devs) \cup ToSet(r.new)
  <2>1. r.new \in Seq(Disk)
    BY <1>4, AtMostOneIs
  <2>2. \A q \in Seq(Disk) : ToSet(q) = Range(q)
    BY DEF ToSet, Range
  <2> DEFINE dv == r.devs
             nw == r.new
  <2>3. dv \in Seq(Disk) /\ nw \in Seq(Disk)
    BY <1>4, <2>1
  <2> HIDE DEF dv, nw
  <2>4. Range(dv \o nw) = Range(dv) \cup Range(nw) /\ dv \o nw \in Seq(Disk)
    BY <2>3, RangeConcatenation, ConcatProperties
  <2>5. ToSet(dv \o nw) = ToSet(dv) \cup ToSet(nw)
    BY <2>2, <2>3, <2>4
  <2> QED
    BY <2>5 DEF dv, nw
<1> HIDE DEF todo, image
<1>8. Sound(on)
  <2>1. on.pc = "clear" /\ on.devs = r.devs /\ on.new = r.new /\ on.todo = todo /\ on.image = image
    BY <1>1 DEF Activity
  <2> HIDE DEF on
  <2> QED
    BY <1>3, <1>6, <1>7, <2>1 DEF Sound
<1> HIDE DEF on
<1>9. next.pc # "idle" => Sound(next)
  BY <1>8 DEF Idle
<1> HIDE DEF next
<1> QED
  BY <1>2, <1>5, <1>9, RunGoes

\* One disk is written, or a dead one is not.
LEMMA ListsWrite ==
  ASSUME Typed, Alone, Lists, Noticed, Noticed', NEW p \in Proc, Write(p)
  PROVE  Lists'
<1>0. PICK r : r = run[p]
  OBVIOUS
<1> DEFINE d == Head(r.todo)
           rest == Tail(r.todo)
           n == Len(r.todo)
           k == Len(rest)
<1>1. /\ r \in Activity /\ r.todo # <<>> /\ r.pc \in {"write", "clear"}
      /\ Sound(r) /\ ~Free(p)
  BY <1>0 DEF Write, Typed, TypeOK, Activity, AtMostOne, Lists, Free
<1>2. PICK ok \in BOOLEAN : Written(p, ok) /\ UNCHANGED <<up, map>> /\ (ok <=> d \in up)
  <2>1. ~Counts("bad", MaxBad)
    BY DEF Counts, Noticed, Typed, TypeOK, Bounded
  <2> QED
    BY <1>0, <2>1, Zenon DEF Write
<1>3. /\ r.todo \in Seq(Disk) /\ d \in Disk /\ r.image \in Entry
      /\ rest \in Seq(Disk) /\ k = n - 1
      /\ \A i \in 1 .. n - 1 : rest[i] = r.todo[i + 1]
      /\ ToSet(r.todo) = {d} \cup ToSet(rest) /\ d = r.todo[1]
      /\ n = 1 => ToSet(r.todo) = {d} /\ r.todo[n] = d
      /\ n \in Nat /\ n >= 1
  <2>1. r.todo \in Seq(Disk) /\ r.image \in Entry
    BY <1>1 DEF Activity
  <2>2. d \in ToSet(r.todo)
    BY <1>1, <2>1, HeadAndTail
  <2>3. d \in Disk
    BY <2>1, <2>2, InSeq
  <2> QED
    BY <1>1, <2>1, <2>3, HeadAndTail
<1> DEFINE on == [r EXCEPT !.pc = "reload", !.todo = <<>>]
           left == [r EXCEPT !.todo = rest]
           next == IF r.pc = "clear" /\ (~ok \/ n = 1) THEN Idle
                   ELSE IF n = 1 THEN on ELSE left
<1>4. Goes(p, next) /\ meta' = IF ok THEN [meta EXCEPT ![d] = r.image] ELSE meta
  BY <1>0, <1>2 DEF Written
<1> HIDE DEF next, on, left, d, rest, n, k
<1>5. /\ ToSet(r.devs) \cap up \subseteq Read
      /\ r.image.kind = "member" /\ Read \subseteq ToSet(r.image.disk)
      /\ r.image.failed[0] # NoneFailed \/ r.pc # "clear" => LastFailed(r.image)
  BY <1>1 DEF Sound
<1>6. r.pc # "write" => ToSet(r.new) \cap up \subseteq Read /\ ToSet(r.todo) \cap up \subseteq Read
  BY <1>1 DEF Sound
<1>7. r.pc = "write" =>
       /\ ToSet(r.new) = {r.new[1]} /\ r.new[1] \in ToSet(r.image.disk) /\ r.new[1] \notin ToSet(r.devs)
       /\ Read \subseteq ToSet(r.devs)
       /\ r.todo[n] = r.new[1]
       /\ \A i \in 1 .. n - 1 : r.todo[i] \in ToSet(r.devs)
       /\ \A e \in (ToSet(r.devs) \cap up) \ ToSet(r.todo) : meta[e] = r.image
  <2>1. r.new # <<>> => ToSet(r.new) = {r.new[1]}
    BY <1>1, AtMostOneIs DEF Activity
  <2> QED
    BY <1>1, <2>1 DEF Sound, n
<1>8. r.pc = "write" => \/ n = 1 /\ d = r.new[1]
                        \/ n > 1 /\ d \in ToSet(r.devs)
  BY <1>3, <1>7
<1>9. ok => d \in ToSet(r.image.disk) /\ (d \in Read \/ (r.pc = "write" /\ n = 1 /\ d = r.new[1]))
  BY <1>1, <1>2, <1>3, <1>5, <1>6, <1>7, <1>8
<1>10. up' = up /\ map' = map /\ meta' \in [Disk -> Entry]
       /\ \A e \in Disk : meta'[e] = IF ok /\ e = d THEN r.image ELSE meta[e]
  BY <1>2, <1>3, <1>4 DEF Typed, TypeOK
<1>11. Read' = IF ok THEN Read \cup {d} ELSE Read
  <2>1. up \subseteq Disk
    BY DEF Typed, TypeOK
  <2> QED
    BY <1>2, <1>5, <1>9, <1>10, <2>1 DEF Read
<1>12. \A m : LastFailed(m)' <=> LastFailed(m)
  BY <1>10 DEF LastFailed
<1>13. Read' \subseteq ToSet(r.image.disk)
  BY <1>5, <1>9, <1>11
<1>14. ASSUME NEW e \in up', meta'[e].kind = "member" PROVE Member(e)'
  <2>1. e \in up /\ e \in Disk
    BY <1>10 DEF Typed, TypeOK
  <2>2. CASE ok /\ e = d
    <3>1. meta'[e] = r.image /\ e \in Read'
      BY <1>10, <1>11, <2>1, <2>2
    <3>2. r.image.failed[0] # NoneFailed => LastFailed(r.image)'
      BY <1>5, <1>12
    <3> QED
      BY <1>13, <3>1, <3>2 DEF Member
  <2>3. CASE ~(ok /\ e = d)
    <3>1. meta'[e] = meta[e]
      BY <1>10, <2>1, <2>3
    <3>2. e \in Read /\ Read \subseteq ToSet(meta[e].disk) /\ (meta[e].failed[0] # NoneFailed => LastFailed(meta[e]))
      BY <1>14, <2>1, <3>1 DEF Lists, Member
    <3>3. Read' \subseteq ToSet(meta[e].disk)
      <4>1. CASE ok /\ r.pc = "write" /\ n = 1 /\ d = r.new[1]
        <5>1. e \in (ToSet(r.devs) \cap up) \ ToSet(r.todo)
          BY <1>3, <1>7, <2>1, <2>3, <3>2, <4>1
        <5>2. meta[e] = r.image
          BY <1>7, <4>1, <5>1
        <5> QED
          BY <1>13, <5>2
      <4>2. CASE ~ok \/ d \in Read
        BY <1>11, <3>2, <4>2
      <4> QED
        BY <1>9, <4>1, <4>2
    <3>4. e \in Read' /\ (meta'[e].failed[0] # NoneFailed => LastFailed(meta[e])')
      BY <1>11, <1>12, <3>1, <3>2
    <3> QED
      BY <3>1, <3>3, <3>4 DEF Member
  <2> QED
    BY <2>2, <2>3
<1>15. ToSet(map'[0].devs) \cap up' \subseteq Read'
  BY <1>10, <1>11 DEF Lists
<1>16. next.pc # "idle" => Sound(next)'
  <2> SUFFICES ASSUME next.pc # "idle" PROVE Sound(next)'
    OBVIOUS
  <2>0. Idle.pc = "idle"
    BY DEF Idle
  <2>1. CASE r.pc = "clear"
    <3>1. next = left /\ ok
      BY <1>1, <2>0, <2>1 DEF next
    <3>2. next.pc = "clear" /\ next.devs = r.devs /\ next.new = r.new /\ next.todo = rest
          /\ next.image = r.image
      BY <1>1, <2>1, <3>1 DEF Activity, left
    <3> QED
      BY <1>3, <1>5, <1>6, <1>10, <1>11, <1>12, <1>13, <2>1, <3>2 DEF Sound
  <2>2. CASE r.pc = "write" /\ n = 1
    <3>1. next = on
      BY <2>2 DEF next
    <3>2. next.pc = "reload" /\ next.devs = r.devs /\ next.new = r.new /\ ToSet(next.todo) = {}
          /\ next.image = r.image
      <4>1. next.pc = "reload" /\ next.devs = r.devs /\ next.new = r.new /\ next.todo = <<>>
            /\ next.image = r.image
        BY <1>1, <3>1 DEF Activity, on
      <4> QED
        BY <4>1 DEF ToSet
    <3>3. ToSet(r.new) \cap up \subseteq Read'
      BY <1>2, <1>7, <1>8, <1>11, <2>2
    <3> QED
      BY <1>5, <1>10, <1>11, <1>12, <1>13, <2>2, <3>2, <3>3 DEF Sound
  <2>3. CASE r.pc = "write" /\ n # 1
    <3>1. next = left
      BY <2>3 DEF next
    <3>2. next.pc = "write" /\ next.devs = r.devs /\ next.new = r.new /\ next.todo = rest
          /\ next.image = r.image
      BY <1>1, <2>3, <3>1 DEF Activity, left
    <3>3. n \in Nat /\ n > 1 /\ k = n - 1
      BY <1>3, <2>3
    <3>4. d \in ToSet(r.devs) /\ Read' = Read
      BY <1>2, <1>5, <1>8, <1>11, <2>3
    <3>5. rest[k] = r.new[1]
      <4>1. n - 1 \in 1 .. n - 1 /\ n - 1 + 1 = n
        BY <3>3
      <4>2. rest[n - 1] = r.todo[n]
        BY <1>3, <4>1
      <4> QED
        BY <1>7, <2>3, <3>3, <4>2
    <3>6. \A i \in 1 .. k - 1 : rest[i] \in ToSet(r.devs)
      <4> TAKE i \in 1 .. k - 1
      <4>1. i \in 1 .. n - 1 /\ i + 1 \in 1 .. n - 1
        BY <3>3
      <4> QED
        BY <1>3, <1>7, <2>3, <4>1
    <3>7. \A e \in (ToSet(r.devs) \cap up') \ ToSet(rest) : meta'[e] = r.image
      <4> TAKE e \in (ToSet(r.devs) \cap up') \ ToSet(rest)
      <4>1. e \in up /\ e \in Disk
        BY <1>10 DEF Typed, TypeOK
      <4>2. CASE e = d
        BY <1>2, <1>10, <4>1, <4>2
      <4>3. CASE e # d
        <5>1. e \in (ToSet(r.devs) \cap up) \ ToSet(r.todo)
          BY <1>3, <4>1, <4>3
        <5> QED
          BY <1>7, <1>10, <2>3, <4>1, <4>3, <5>1
      <4> QED
        BY <4>2, <4>3
    <3>8. r.new # <<>>
      BY <1>1, <2>3 DEF Sound
    <3> QED
      BY <1>5, <1>7, <1>10, <1>12, <2>3, <3>2, <3>4, <3>5, <3>6, <3>7, <3>8 DEF Sound, k
  <2> QED
    BY <1>1, <2>1, <2>2, <2>3
<1>17. \A q \in Proc : q # p => Free(q)
  BY <1>1 DEF Alone
<1>18. \A q \in Proc : ~Free(q)' => Sound(run[q])'
  BY <1>4, <1>16, <1>17, OneRun
<1> QED
  BY <1>14, <1>15, <1>18 DEF Lists

\* "dmraid -ay" uses listed members.
LEMMA ListsActivate ==
  ASSUME NumVols = 1, Typed, Lists, Activate
  PROVE  Lists'
<1>1. PICK devs \in Groupings :
        Loads([v \in Vol |-> IF map[v].devs # <<>> THEN map[v]
                             ELSE Mirror(devs, Status(v) # "ok", NoneFailed)])
  BY DEF Activate
<1>2. 0 \in Vol
  BY DEF Vol
<1>3. devs \in Seq(Disk) /\ ToSet(devs) = Read
  BY OldTyped, Listing DEF Activate, Typed, TypeOK
<1>4. map'[0] = map[0] \/ map'[0] = Mirror(devs, Status(0) # "ok", NoneFailed)
  BY <1>1, <1>2 DEF Loads
<1>5. ToSet(Mirror(devs, Status(0) # "ok", NoneFailed).devs) = Read
  <2>1. (Status(0) # "ok") \in BOOLEAN
    OBVIOUS
  <2> QED
    BY <1>3, <2>1, MirrorIs DEF MirrorOf
<1>6. ToSet(map'[0].devs) \cap up \subseteq Read
  BY <1>4, <1>5 DEF Lists
<1> QED
  BY <1>6, SameLists DEF Activate, Lists, Free

\* The end of a copy touches no metadata.
LEMMA ListsSynced ==
  ASSUME NumVols = 1, Typed, Lists, NEW v \in Vol, Synced(v)
  PROVE  Lists'
<1>1. map'[0].devs = map[0].devs
  BY OneVol DEF Synced, Typed, TypeOK
<1> QED
  BY <1>1, SameLists DEF Synced, Lists, Free

\* The death of a disk leaves fewer members, listed as before.
LEMMA ListsFail ==
  ASSUME Typed, Lists, NEW d \in Disk, Fail(d)
  PROVE  Lists'
<1>1. UNCHANGED <<meta, map, run>> /\ up' \subseteq up
  BY DEF Fail
<1> QED
  BY <1>1, FewerUp DEF Lists, Free

\* A killed run leaves the metadata as far as it was written.
LEMMA ListsKill ==
  ASSUME Typed, Lists, Kill
  PROVE  Lists'
<1>1. Tool \in Proc /\ Idle.pc = "idle"
  BY DEF Proc, Idle
<1> QED
  BY <1>1, RunGoes DEF Kill, Lists

\* A restart leaves the metadata as far as it was written.
LEMMA ListsReboot ==
  ASSUME NumVols = 1, Typed, Lists, Reboot
  PROVE  Lists'
<1>1. UNCHANGED <<meta, up>> /\ ToSet(map'[0].devs) = {}
  BY DEF Reboot, Off, Vol, ToSet
<1>2. \A p \in Proc : Free(p)'
  BY DEF Reboot, Free, Idle
<1> QED
  BY <1>1, <1>2, SameLists DEF Lists

\* At the start both members list both members.
LEMMA SerialInit == ASSUME NumVols = 1, Init PROVE SerialInv
<1>1. Typed
  BY TypedInit
<1>2. \A p \in Proc : Free(p)
  BY DEF Init, Free, Idle
<1>3. 0 \in Vol /\ up = Disk /\ map[0].devs = Original
  BY DEF Vol, Init
<1>4. ToSet(Original) \subseteq Disk
  <2>1. Original \in Seq(Disk)
    BY ConstantsAssumption, SeqDef DEF NumMembers
  <2> QED
    BY <2>1, InSeq
<1>5. \A d \in Disk : /\ d \in ToSet(Original) => meta[d] = Fresh
                      /\ d \notin ToSet(Original) => meta[d].kind # "member"
  BY DEF Init, Blank
<1>6. Fresh.kind = "member" /\ Fresh.disk = Original /\ Fresh.failed[0] = NoneFailed
  BY <1>3 DEF Fresh
<1> HIDE DEF Fresh
<1>7. Read = ToSet(Original)
  BY <1>3, <1>4, <1>5, <1>6 DEF Read
<1>8. \A d \in up : meta[d].kind = "member" => Member(d)
  BY <1>3, <1>5, <1>6, <1>7 DEF Member
<1> QED
  BY <1>1, <1>2, <1>3, <1>7, <1>8 DEF SerialInv, Alone, Lists

\* Every step of runs one at a time keeps the invariant.
LEMMA SerialStep ==
  ASSUME NumVols = 1, SerialInv, [Next]_vars, [Serial]_vars
  PROVE  SerialInv'
<1>1. Typed' /\ Alone'
  BY TypedStep, AloneStep DEF SerialInv
<1>2. Noticed' => Noticed
  BY StepCounts DEF Noticed, Bounded, SerialInv, Typed, TypeOK
<1>3. ASSUME Noticed' PROVE Lists'
  <2> USE <1>2, <1>3 DEF SerialInv
  <2>1. Typed /\ Alone /\ Noticed /\ Lists
    OBVIOUS
  <2> HIDE DEF SerialInv
  <2>2. Tool \in Proc /\ \A v \in Vol : v \in Proc
    BY DEF Proc
  <2>3. ASSUME NEW p \in Proc, NEW v \in Vol, Rebuild(p, v) PROVE Lists'
    <3>1. CASE Refuse(p, v)
      BY <2>1, <3>1, SameLists DEF Refuse, Lists, Free
    <3> QED
      BY <2>1, <2>3, <3>1, ListsStart, ListsResume DEF Rebuild
  <2>4. ASSUME NEW p \in Proc, Works(p) PROVE Lists'
    BY <2>1, <2>4, ListsWrite, ListsReload DEF Works
  <2>5. ASSUME NEW v \in Vol, Thread(v) PROVE Lists'
    BY <2>1, <2>2, <2>3, <2>4, <2>5, ListsEnd DEF Thread
  <2>6. CASE UNCHANGED vars
    BY <2>1, <2>6, SameLists DEF vars, Lists, Free
  <2>7. CASE Next
    BY <2>1, <2>2, <2>3, <2>4, <2>5, <2>7, ListsActivate, ListsSynced, ListsFail, ListsKill, ListsReboot
       DEF Next
  <2> QED
    BY <2>6, <2>7
<1> QED
  BY <1>1, <1>3 DEF SerialInv

\* As long as no rebuild begins or ends while another one is under way, a disk
\* of a volume that is in use and has the data stays listed in the metadata of
\* every member, so that it is found at the next start: the runs of the tool and
\* of the plug-in, killed or restarted anywhere, drop no living member of a
\* group with one volume.
THEOREM SerialKeeps ==
  ASSUME NumVols = 1
  PROVE  Spec /\ [][Serial]_vars => []StaysListed
<1>1. Init => SerialInv
  BY SerialInit
<1>2. SerialInv /\ [Next]_vars /\ [Serial]_vars => SerialInv'
  BY SerialStep
<1>3. SerialInv => StaysListed
  <2> SUFFICES ASSUME SerialInv, NEW v \in Vol, Noticed
               PROVE  holds[v] \cap ToSet(map[v].devs) \cap up \subseteq Read
    BY DEF StaysListed
  <2> QED
    BY OneVol DEF SerialInv, Lists
<1> QED
  BY <1>1, <1>2, <1>3, PTL DEF Spec

\* In the same circumstances the end of a rebuild removes only the disk that
\* failed: the metadata it writes still lists every working member it is
\* written to.
THEOREM SerialRemoves ==
  ASSUME NumVols = 1
  PROVE  Spec /\ [][Serial]_vars => []FailedRemoved
<1>1. Init => SerialInv
  BY SerialInit
<1>2. SerialInv /\ [Next]_vars /\ [Serial]_vars => SerialInv'
  BY SerialStep
<1>3. SerialInv => FailedRemoved
  <2> SUFFICES ASSUME SerialInv, NEW p \in Proc, Noticed, run[p].pc = "clear"
               PROVE  ToSet(run[p].devs) \subseteq ToSet(run[p].image.disk) \cup (Disk \ up)
    BY DEF FailedRemoved
  <2>1. Sound(run[p]) /\ run[p].devs \in Seq(Disk)
    BY DEF SerialInv, Lists, Free, Typed, TypeOK
  <2>2. ToSet(run[p].devs) \subseteq Disk
    BY <2>1, InSeq
  <2> QED
    BY <2>1, <2>2 DEF Sound
<1> QED
  BY <1>1, <1>2, <1>3, PTL DEF Spec

-----------------------------------------------------------------------------
(* Without runs of the tool: the daemon alone, "dmraid -ay", and restarts.  *)

\* The member the group was created with as entry 0.
First == Original[1]

\* Both members are listed, and the one that failed while the other is copied.
Shaped(m) == /\ m.disk[1] # m.disk[2]
             /\ \/ Len(m.disk) = 2 /\ m.failed[0] = NoneFailed
                \/ Len(m.disk) = 3 /\ m.failed[0] \in {0, 1}

\* The member the group began with keeps its data and the first place while it
\* works.
FirstStays ==
  First \in up =>
    /\ First \in holds[0]
    /\ \A d \in Read : meta[d].disk[1] = First
    /\ map[0].devs # <<>> => map[0].devs[1] = First
    /\ ~Free(0) => run[0].image.disk[1] = First

\* A member that is marked clean, and every other, has the data.
CleanHolds ==
  /\ holds[0] # {} /\ holds[0] \subseteq Read
  /\ \A d \in Read : meta[d].failed[0] = NoneFailed => Read \subseteq holds[0]

\* The kernel's legs are the members, until one dies.
Running == ToSet(map[0].devs) \subseteq up

\* The legs have the data, or the first one has; what is in the middle of a copy is
\* not in the hands of a run.
LegsHold ==
  /\ map[0].devs # <<>> => holds[0] \subseteq ToSet(map[0].devs)
  /\ map[0].devs # <<>> /\ Running => Read = ToSet(map[0].devs)
  /\ \E d, e \in Disk : ToSet(map[0].devs) \subseteq {d, e}
  /\ map[0].sync => map[0].devs # <<>> /\ map[0].devs[1] \in holds[0] \cup (Disk \ up)
  /\ map[0].sync /\ Running => news[0] = <<>> /\ Free(0)
  /\ map[0].devs = <<>> => count.boot > 0 /\ news[0] = <<>> /\ Free(0)

\* What the events that the plug-in has not heard yet say is still so.
Pending ==
  /\ news[0] \in {<<>>, <<"insync">>, <<"failure">>, <<"insync", "failure">>}
  /\ "insync" \in ToSet(news[0]) => Free(0) /\ Read \subseteq holds[0]
  /\ "failure" \in ToSet(news[0]) =>
       /\ ~Running /\ run[0].pc \in {"idle", "clear"}
       /\ \E d \in Disk : Read = {d} /\ ToSet(meta[d].disk) \cap up = {d}

\* Run r rebuilds: d, the one member that is left, has the data, and the new
\* disk takes entry i.
Copies(r, d, new, i) ==
  /\ d # new /\ r.new # <<>> /\ r.new[1] = new /\ Len(r.devs) = 1 /\ r.devs[1] = d
  /\ holds[0] = {d} /\ Read \subseteq {d, new}
  /\ Len(r.image.disk) = 3 /\ r.image.failed[0] = i - 1
  /\ r.image.disk[i] = new /\ r.image.disk[3 - i] = d

\* The run of the plug-in copies from the one member that is left, or ends a
\* rebuild when all members have the data.
Busy ==
  /\ run[0].pc \in {"write", "reload"} =>
       /\ ~Running /\ news[0] = <<>>
       /\ \E d, new \in Disk : \E i \in {1, 2} : Copies(run[0], d, new, i)
  /\ run[0].pc = "clear" =>
       /\ Shaped(run[0].image) /\ run[0].image.failed[0] = NoneFailed
       /\ ToSet(run[0].image.disk) = ToSet(run[0].devs) /\ Read \subseteq holds[0]

\* All of it.
Whole == /\ \A d \in Read : Shaped(meta[d])
         /\ FirstStays /\ CleanHolds /\ LegsHold /\ Pending /\ Busy

\* The invariant without runs of the tool.
DaemonInv == SerialInv /\ Free(Tool) /\ (Noticed /\ ~MasterForgotten => Whole)

\* The invariant while nothing went wrong that the program is not told of.
Intact == Typed /\ Lists /\ Whole /\ ~MasterForgotten

\* The only volume, the only process that rebuilds it, and their data.
LEMMA OneProcess ==
  ASSUME NumVols = 1, Typed
  PROVE  /\ Vol = {0} /\ 0 \in Proc /\ Tool \in Proc /\ Tool # 0 /\ Proc = {0, Tool}
         /\ run \in [Proc -> Activity] /\ run[0] \in Activity
         /\ map[0] \in Table /\ ToSet(map[0].devs) \subseteq Disk
         /\ holds \in [Vol -> SUBSET Disk] /\ holds[0] \subseteq Disk
         /\ news[0] \in Seq({"insync", "failure"}) /\ meta \in [Disk -> Entry] /\ up \subseteq Disk
         /\ count \in [Bounded -> Nat] /\ First \in Disk /\ Original[1] # Original[2]
<1>1. Vol = {0}
  BY DEF Vol
<1>2. 0 \in Proc /\ Tool \in Proc /\ Tool # 0 /\ Proc = {0, Tool}
  BY <1>1, ConstantsAssumption DEF Proc
<1>3. run \in [Proc -> Activity]
  BY DEF Typed, TypeOK, Activity, AtMostOne
<1>4. map[0] \in Table /\ map[0].devs \in Seq(Disk)
  BY <1>1 DEF Typed, TypeOK, Table
<1>5. ToSet(map[0].devs) \subseteq Disk
  BY <1>4, InSeq
<1>6. First \in Disk /\ Original[1] # Original[2]
  BY ConstantsAssumption DEF First, NumMembers
<1> QED
  BY <1>1, <1>2, <1>3, <1>4, <1>5, <1>6 DEF Typed, TypeOK

\* The working disks of a member's table are its two first entries.
LEMMA TwoMembers ==
  ASSUME NumVols = 1, Intact, NEW x \in Read
  PROVE  LET s == meta[x].disk IN
         /\ meta[x] \in Entry /\ s \in Seq(Disk) /\ Shaped(meta[x]) /\ x \in up
         /\ {s[1], s[2]} \subseteq ToSet(s) /\ s[1] # s[2]
         /\ ToSet(s) \cap up \subseteq {s[1], s[2]} /\ Read \subseteq {s[1], s[2]}
<1> DEFINE s == meta[x].disk
<1>1. /\ x \in up /\ Read \subseteq ToSet(s) /\ (meta[x].failed[0] # NoneFailed => LastFailed(meta[x]))
      /\ Read \subseteq up
  BY MemberLists DEF Intact, Read
<1>2. Shaped(meta[x])
  BY DEF Intact, Whole
<1>3. meta[x] \in Entry /\ s \in Seq(Disk)
  BY <1>1, OneProcess DEF Intact, Entry
<1>4. s[1] # s[2] /\ (Len(s) = 2 \/ (Len(s) = 3 /\ s[3] \notin up))
  BY <1>1, <1>2 DEF Shaped, LastFailed, NoneFailed
<1> HIDE DEF s
<1>5. ToSet(s) = {s[i] : i \in 1 .. Len(s)}
  BY <1>3, InSeq
<1>6. {s[1], s[2]} \subseteq ToSet(s) /\ ToSet(s) \cap up \subseteq {s[1], s[2]}
  BY <1>4, <1>5
<1> QED
  BY <1>1, <1>2, <1>3, <1>4, <1>6 DEF s

\* Both members work exactly when two disks are found.
LEMMA HowMany ==
  ASSUME Typed
  PROVE  /\ IsFiniteSet(Read)
         /\ Cardinality(Read) = NumMembers => \A x : Read # {x}
<1>1. IsFiniteSet(Read)
  BY FS_Subset, ConstantsAssumption DEF Read, Typed, TypeOK
<1>2. ASSUME NEW x, Read = {x} PROVE Cardinality(Read) # NumMembers
  <2>1. Cardinality({x}) = 1
    BY FS_Singleton
  <2>2. 1 # NumMembers
    BY DEF NumMembers
  <2> QED
    BY <1>2, <2>1, <2>2, Zenon
<1> QED
  BY <1>1, <1>2

\* The event that is heard next.
LEMMA HearsIs ==
  ASSUME NumVols = 1, Intact, NEW e, Hears(0, e)
  PROVE  /\ news'[0] = Tail(news[0]) /\ news[0] # <<>> /\ e \in ToSet(news[0])
         /\ e = "failure" => news'[0] = <<>>
         /\ e = "insync" => news'[0] \in {<<>>, <<"failure">>}
         /\ e = "insync" /\ news'[0] = <<"failure">> => "failure" \in ToSet(news[0])
<1> DEFINE s == news[0]
<1>1. s # <<>> /\ Head(s) = e /\ news'[0] = Tail(s)
  BY OneProcess DEF Hears, Intact, Typed, TypeOK
<1>2. s \in {<<"insync">>, <<"failure">>, <<"insync", "failure">>}
  BY <1>1 DEF Intact, Whole, Pending
<1> HIDE DEF s
<1>3. e \in ToSet(s)
  BY <1>1, <1>2 DEF ToSet
<1>4. CASE s = <<"insync">>
  BY <1>1, <1>3, <1>4 DEF s
<1>5. CASE s = <<"failure">>
  BY <1>1, <1>3, <1>5 DEF s
<1>6. CASE s = <<"insync", "failure">>
  <2>1. "failure" \in ToSet(s)
    BY <1>6 DEF ToSet
  <2> QED
    BY <1>1, <1>3, <1>6, <2>1 DEF s
<1> QED
  BY <1>2, <1>4, <1>5, <1>6

\* What stays when only the run of the plug-in and its events change.
LEMMA SameWhole ==
  ASSUME Intact, UNCHANGED <<meta, up, map, holds>>, count'["boot"] >= count["boot"],
         count["boot"] \in Nat, count'["boot"] \in Nat,
         First \in up /\ ~Free(0)' => run'[0].image.disk[1] = First,
         map[0].sync /\ Running => news'[0] = <<>> /\ Free(0)',
         map[0].devs = <<>> => news'[0] = <<>> /\ Free(0)',
         Pending', Busy'
  PROVE  Whole'
<1>1. Read' = Read /\ Running' = Running
  BY DEF Read, Running
<1>2. \A d \in Read' : Shaped(meta'[d])
  BY <1>1 DEF Intact, Whole
<1>3. FirstStays'
  BY <1>1 DEF Intact, Whole, FirstStays
<1>4. CleanHolds'
  BY <1>1 DEF Intact, Whole, CleanHolds
<1>5. LegsHold'
  <2>1. count["boot"] > 0 => count'["boot"] > 0
    OBVIOUS
  <2> QED
    BY <1>1, <2>1 DEF Intact, Whole, LegsHold
<1> QED
  BY <1>2, <1>3, <1>4, <1>5 DEF Whole

\* A rebuild begins with the failure of one of two members; the other one has
\* the data.
LEMMA WholeStart ==
  ASSUME NumVols = 1, Intact, StartRebuild(0, 0), count'["boot"] >= count["boot"],
         count' \in [Bounded -> Nat]
  PROVE  Whole'
<1> USE OneProcess DEF Intact
<1>1. PICK devs \in Groupings, new \in Replacements(0, 0) :
        LET old == meta[devs[1]] IN
        /\ Cardinality(Missing(old)) = 1
        /\ Goes(0, [pc |-> "write", vol |-> 0, devs |-> devs, new |-> <<new>>,
                    todo |-> Append(devs, new), old |-> old, image |-> Begun(old, new)])
  BY DEF StartRebuild
<1>2. Hears(0, "failure") /\ Free(0) /\ Read # {} /\ UNCHANGED <<meta, up, map, holds>>
  BY DEF StartRebuild, Command
<1>3. "failure" \in ToSet(news[0]) /\ news'[0] = <<>>
  BY <1>2, HearsIs
<1>4. PICK d \in Disk : Read = {d} /\ ToSet(meta[d].disk) \cap up = {d} /\ ~Running
  BY <1>3 DEF Whole, Pending
<1>5. devs \in Seq(Disk) /\ devs[1] = d /\ Len(devs) = 1
  <2>1. Len(devs) = Cardinality(Read) /\ devs[1] \in Read /\ devs \in Seq(Disk)
    BY <1>4, Listing DEF Typed, TypeOK
  <2>2. Cardinality({d}) = 1
    BY FS_Singleton
  <2> QED
    BY <1>4, <2>1, <2>2
<1> DEFINE old == meta[d]
           image == Begun(old, new)
           s == old.disk
<1>6. /\ old \in Entry /\ s \in Seq(Disk) /\ Shaped(old) /\ {s[1], s[2]} \subseteq ToSet(s)
      /\ s[1] # s[2] /\ d \in {s[1], s[2]} /\ d \in up
      /\ (Len(s) = 3 => s[3] \notin up)
  <2>1. /\ old \in Entry /\ s \in Seq(Disk) /\ Shaped(old) /\ {s[1], s[2]} \subseteq ToSet(s)
        /\ s[1] # s[2] /\ d \in {s[1], s[2]} /\ d \in up
    BY <1>4, TwoMembers
  <2>2. Len(s) = 3 => s[3] \notin up
    BY <1>4, <2>1, MemberLists DEF Shaped, LastFailed, NoneFailed
  <2> QED
    BY <2>1, <2>2
<1>7. new \in up /\ new # d /\ new \in Disk
  BY <1>4 DEF Replacements, Read, Typed, TypeOK
<1>8. Cardinality(Missing(old)) = 1
  BY <1>1, <1>5
<1> HIDE DEF old, s
<1>9. PICK j \in {1, 2} : s[j] \notin up /\ s[3 - j] = d
  <2>1. ToSet(s) \cap up = {d}
    BY <1>4 DEF s, old
  <2>2. CASE s[1] = d
    <3>1. s[2] \notin up
      BY <1>6, <2>1, <2>2
    <3> QED
      BY <2>2, <3>1
  <2>3. CASE s[2] = d
    <3>1. s[1] \notin up
      BY <1>6, <2>1, <2>3
    <3> QED
      BY <2>3, <3>1
  <2> QED
    BY <1>6, <2>2, <2>3
<1>10. Missing(old) = {j}
  <2>1. Missing(old) = {i \in 1 .. Len(s) : s[i] \notin up}
    BY <1>6 DEF Missing, s
  <2>2. Len(s) \in {2, 3} /\ j \in Missing(old)
    BY <1>6, <1>9, <2>1 DEF Shaped, s
  <2>3. IsFiniteSet(Missing(old))
    <3>1. IsFiniteSet(1 .. Len(s))
      BY <2>2, FS_Interval
    <3> QED
      BY <2>1, <3>1, FS_Subset
  <2>4. \E i : Missing(old) = {i}
    BY <1>8, <2>3, FS_Singleton
  <2> QED
    BY <2>2, <2>4
<1>11. Len(s) = 2
  <2>1. Missing(old) = {i \in 1 .. Len(s) : s[i] \notin up}
    BY <1>6 DEF Missing, s
  <2>2. Len(s) = 3 => 3 \in Missing(old)
    BY <1>6, <2>1
  <2> QED
    BY <1>6, <1>9, <1>10, <2>2 DEF Shaped, s
<1>12. /\ Len(image.disk) = 3 /\ image.failed[0] = j - 1
       /\ image.disk[j] = new /\ image.disk[3 - j] = d
       /\ (j # 1 => image.disk[1] = s[1])
  <2>0. Missing(old) # {}
    BY <1>10
  <2>1. PICK i \in 1 .. Len(old.disk) :
          LET t == Begun(old, new).disk IN
          /\ i \in Missing(old) /\ old.disk[i] \notin up
          /\ Begun(old, new).failed = [v \in Vol |-> i - 1]
          /\ Len(t) = Len(old.disk) + 1 /\ t[i] = new /\ t[Len(old.disk) + 1] = old.disk[i]
          /\ \A k \in 1 .. Len(old.disk) : k # i => t[k] = old.disk[k]
          /\ ToSet(t) = ToSet(old.disk) \cup {new}
    BY <1>6, <1>7, <2>0, BegunIs, ZenonT(30)
  <2>2. i = j
    BY <1>10, <2>1
  <2>3. 3 - j \in 1 .. 2 /\ 3 - j # j
    OBVIOUS
  <2>4. /\ image.failed = [v \in Vol |-> j - 1]
        /\ Len(image.disk) = Len(s) + 1 /\ image.disk[j] = new
        /\ \A k \in 1 .. Len(s) : k # j => image.disk[k] = s[k]
    BY <2>1, <2>2 DEF s
  <2>5. image.failed[0] = j - 1
    BY <2>4
  <2> HIDE DEF image
  <2> QED
    BY <1>9, <1>11, <2>3, <2>4, <2>5
<1>13. /\ run'[0].pc = "write" /\ run'[0].devs = devs /\ run'[0].image = image
       /\ run'[0].new # <<>> /\ run'[0].new[1] = new
  BY <1>1, <1>5 DEF Goes, old
<1> HIDE DEF image
<1>14. Read' = Read /\ Running' = Running
  BY <1>2 DEF Read, Running
<1>15. Pending'
  BY <1>3 DEF Pending, ToSet
<1>16. holds[0] = {d}
  BY <1>4 DEF Whole, CleanHolds
<1>17. Busy'
  <2>1. ~Running' /\ news'[0] = <<>> /\ holds'[0] = {d} /\ Read' \subseteq {d, new}
    BY <1>2, <1>3, <1>4, <1>14, <1>16
  <2> QED
    BY <1>5, <1>7, <1>12, <1>13, <2>1 DEF Busy, Copies
<1>18. First \in up => image.disk[1] = First
  <2> SUFFICES ASSUME First \in up PROVE image.disk[1] = First
    OBVIOUS
  <2>1. First \in holds[0] /\ s[1] = First
    BY <1>4 DEF Whole, FirstStays, s, old
  <2> QED
    BY <1>9, <1>12, <2>1
<1>19. ~(map[0].sync /\ Running) /\ map[0].devs # <<>>
  BY <1>4 DEF Running, ToSet
<1> QED
  BY <1>2, <1>13, <1>15, <1>17, <1>18, <1>19, SameWhole DEF Bounded

\* Nothing the data depends on has changed.
LEMMA WholeStays ==
  ASSUME NumVols = 1, Intact, UNCHANGED <<meta, up, map, holds, news, run>>,
         count'["boot"] >= count["boot"], count' \in [Bounded -> Nat]
  PROVE  Whole'
<1> USE OneProcess DEF Intact
<1>1. Read' = Read /\ Running' = Running
  BY DEF Read, Running
<1>. \A d, new, i : Copies(run[0], d, new, i)' <=> Copies(run[0], d, new, i)
  BY <1>1 DEF Copies
<1>2. Pending' /\ Busy'
  <2> HIDE OneProcess
  <2>1. Pending'
    BY <1>1 DEF Whole, Pending, Free
  <2>2. Busy'
    BY <1>1 DEF Whole, Busy
  <2> QED
    BY <2>1, <2>2
<1>3. /\ First \in up /\ ~Free(0)' => run'[0].image.disk[1] = First
      /\ map[0].sync /\ Running => news'[0] = <<>> /\ Free(0)'
      /\ map[0].devs = <<>> => news'[0] = <<>> /\ Free(0)'
  BY DEF Whole, FirstStays, LegsHold, Free
<1> QED
  BY <1>2, <1>3, SameWhole DEF Bounded

\* After a failure one member is left, so that there is no rebuild to resume.
LEMMA NoResume ==
  ASSUME NumVols = 1, Intact, Resume(0, 0)
  PROVE  FALSE
<1>1. Hears(0, "failure") /\ Status(0) = "nosync" /\ 0 \in Vol
  BY OneProcess DEF Resume, Command, Intact
<1>2. \E d \in Disk : Read = {d}
  BY <1>1, HearsIs DEF Intact, Whole, Pending
<1> QED
  BY <1>1, <1>2, StatusIs, HowMany DEF Intact

\* A run with nothing to do.
LEMMA WholeRefuse ==
  ASSUME NumVols = 1, Intact, NEW p \in Proc, Refuse(p, 0), count'["boot"] >= count["boot"],
         count' \in [Bounded -> Nat]
  PROVE  Whole'
<1> USE OneProcess DEF Intact
<1>1. CASE p = Tool
  BY <1>1, WholeStays DEF Refuse, Command
<1>2. CASE p = 0
  <2>1. Hears(0, "failure") /\ Free(0) /\ UNCHANGED <<meta, up, map, holds, run>>
    BY <1>2 DEF Refuse, Command
  <2>2. news'[0] = <<>>
    BY <2>1, HearsIs
  <2>3. Pending' /\ Busy' /\ Free(0)'
    BY <2>1, <2>2 DEF Pending, Busy, Free, ToSet
  <2> QED
    BY <2>1, <2>2, <2>3, SameWhole DEF Bounded
<1> QED
  BY <1>1, <1>2

\* A rebuild ends when the kernel has copied everything: what is written then
\* lists the members, all with the data.
LEMMA WholeEnd ==
  ASSUME NumVols = 1, Intact, EndRebuild(0), count'["boot"] >= count["boot"],
         count' \in [Bounded -> Nat]
  PROVE  Whole'
<1> USE OneProcess DEF Intact
<1>1. Free(0) /\ Hears(0, "insync") /\ UNCHANGED <<meta, up, map, holds>>
  BY DEF EndRebuild
<1>2. /\ "insync" \in ToSet(news[0]) /\ news[0] # <<>> /\ Read \subseteq holds[0]
      /\ news'[0] \in {<<>>, <<"failure">>}
      /\ news'[0] = <<"failure">> => "failure" \in ToSet(news[0])
  BY <1>1, HearsIs DEF Whole, Pending
<1>3. ~(map[0].sync /\ Running) /\ map[0].devs # <<>>
  BY <1>2 DEF Whole, LegsHold
<1>4. Read' = Read /\ Running' = Running
  BY <1>1 DEF Read, Running
<1>5. ToSet(<<>>) = {} /\ ToSet(<<"failure">>) = {"failure"}
  BY DEF ToSet
<1>6. CASE ~(Read # {} /\ Status(0) = "nosync")
  <2>1. run' = run
    BY <1>6 DEF EndRebuild
  <2>2. Pending' /\ Busy' /\ Free(0)'
    BY <1>1, <1>2, <1>4, <1>5, <2>1 DEF Whole, Pending, Busy, Free
  <2> QED
    BY <1>1, <1>3, <2>2, SameWhole DEF Bounded
<1>7. CASE Read # {} /\ Status(0) = "nosync"
  <2>1. PICK devs \in Groupings :
          LET m == meta[devs[1]]
          IN  Goes(0, IF ~InMigration(m, 0, devs) THEN Idle
                      ELSE [Idle EXCEPT !.pc = "clear", !.vol = 0, !.devs = devs,
                                        !.todo = devs, !.image = Ended(m, 0)])
    BY <1>7 DEF EndRebuild
  <2> DEFINE m == meta[devs[1]]
             image == Ended(m, 0)
             table == m.disk
  <2>2. ToSet(devs) = Read /\ devs[1] \in Read
    BY <1>7, Listing DEF Typed, TypeOK
  <2>3. /\ Cardinality(Read) = NumMembers /\ \A d \in Read : meta[d].failed[0] # NoneFailed
        /\ 0 \in Vol
    BY <1>7, StatusIs
  <2>4. news'[0] = <<>>
    <3>1. \A x : Read # {x}
      BY <2>3, HowMany
    <3> QED
      BY <1>2, <3>1 DEF Whole, Pending
  <2>5. /\ m \in Entry /\ table \in Seq(Disk) /\ Shaped(m) /\ m.failed[0] # NoneFailed
        /\ table[1] # table[2] /\ Read \subseteq {table[1], table[2]}
    BY <2>2, <2>3, TwoMembers
  <2> HIDE DEF m
  <2>6. Len(table) = 3
    BY <2>5 DEF Shaped
  <2>7. image.failed = [m.failed EXCEPT ![0] = NoneFailed] /\ image.disk = Front(table)
    BY <2>3, <2>5, EndedIs
  <2>8. image.failed[0] = NoneFailed
    BY <2>5, <2>7 DEF Entry
  <2> HIDE DEF image, table
  <2>9. /\ image.disk \in Seq(Disk) /\ Len(image.disk) = 2
        /\ image.disk[1] = table[1] /\ image.disk[2] = table[2]
    <3> HIDE OneProcess
    <3> QED
      BY <2>5, <2>6, <2>7, ShortSeq
  <2>10. Read = {table[1], table[2]}
    <3>1. Read # {table[1]} /\ Read # {table[2]}
      BY <2>3, HowMany
    <3> HIDE OneProcess
    <3> QED
      BY <1>7, <2>5, <3>1
  <2>11. ToSet(image.disk) = {table[1], table[2]}
    BY <2>9, ShortSeq
  <2>12. Shaped(image)
    BY <2>5, <2>8, <2>9 DEF Shaped
  <2>13. \/ run'[0] = Idle
         \/ run'[0].pc = "clear" /\ run'[0].devs = devs /\ run'[0].image = image
    <3> DEFINE r == [Idle EXCEPT !.pc = "clear", !.vol = 0, !.devs = devs,
                                 !.todo = devs, !.image = image]
    <3>1. Goes(0, IF ~InMigration(m, 0, devs) THEN Idle ELSE r)
      BY <2>1 DEF m, image
    <3>2. r.pc = "clear" /\ r.devs = devs /\ r.image = image
      BY DEF Idle
    <3> HIDE DEF r
    <3>3. run'[0] = Idle \/ run'[0] = r
      BY <3>1 DEF Goes
    <3> QED
      BY <3>2, <3>3
  <2>14. Idle.pc = "idle"
    BY DEF Idle
  <2>15. First \in up /\ ~Free(0)' => run'[0].image.disk[1] = First
    <3>1. First \in up => table[1] = First
      BY <2>2 DEF Whole, FirstStays, m, table
    <3> QED
      BY <2>9, <2>13, <2>14, <3>1 DEF Free
  <2>16. Pending'
    BY <1>5, <2>4 DEF Pending
  <2>17. Busy'
    BY <1>1, <1>2, <1>4, <2>2, <2>8, <2>10, <2>11, <2>12, <2>13, <2>14 DEF Busy
  <2> QED
    BY <1>1, <1>3, <2>15, <2>16, <2>17, SameWhole DEF Bounded
<1> QED
  BY <1>6, <1>7

\* What a write that goes through does, when the disk works, and one to a dead
\* disk, which changes no metadata.
LEMMA WriteIs ==
  ASSUME NumVols = 1, Typed, Lists, Noticed, Noticed', Write(0), NEW r, r = run[0],
         NEW d, d = Head(r.todo)
  PROVE  /\ r \in Activity /\ r.pc \in {"write", "clear"} /\ Sound(r) /\ r.image \in Entry
         /\ d \in ToSet(r.todo) /\ d \in Disk
         /\ r.pc = "write" => \/ ToSet(r.todo) = {d} /\ d = r.new[1]
                              \/ d \in ToSet(r.devs)
         /\ UNCHANGED <<up, map, holds, news, count>>
         /\ \A e \in Disk : meta'[e] = IF d \in up /\ e = d THEN r.image ELSE meta[e]
         /\ Read' = IF d \in up THEN Read \cup {d} ELSE Read
         /\ \/ run'[0] = Idle /\ r.pc = "clear"
            \/ /\ run'[0].devs = r.devs /\ run'[0].new = r.new /\ run'[0].image = r.image
               /\ \/ r.pc = "clear" /\ d \in up /\ run'[0].pc = "clear"
                  \/ r.pc = "write" /\ run'[0].pc \in {"write", "reload"}
<1> DEFINE rest == Tail(r.todo)
           n == Len(r.todo)
<1>1. /\ r \in Activity /\ r.todo # <<>> /\ r.pc \in {"write", "clear"} /\ Sound(r) /\ ~Free(0)
  BY OneProcess DEF Write, Typed, TypeOK, Lists, Free
<1>2. PICK ok \in BOOLEAN :
        Written(0, ok) /\ UNCHANGED <<up, map, holds, news, count>> /\ (ok <=> d \in up)
  <2>1. ~Counts("bad", MaxBad)
    BY DEF Counts, Noticed, Typed, TypeOK, Bounded
  <2> QED
    BY <2>1, Zenon DEF Write
<1>3. r.todo \in Seq(Disk) /\ r.image \in Entry
  BY <1>1 DEF Activity
<1>4. /\ ToSet(r.todo) = {d} \cup ToSet(rest) /\ d = r.todo[1] /\ n \in Nat /\ n >= 1
      /\ n = 1 => ToSet(r.todo) = {d} /\ r.todo[n] = d
  BY <1>1, <1>3, HeadAndTail
<1>5. d \in ToSet(r.todo) /\ d \in Disk
  BY <1>3, <1>4, InSeq
<1> DEFINE on == [r EXCEPT !.pc = "reload", !.todo = <<>>]
           left == [r EXCEPT !.todo = rest]
           next == IF r.pc = "clear" /\ (~ok \/ n = 1) THEN Idle
                   ELSE IF n = 1 THEN on ELSE left
<1>6. Goes(0, next) /\ meta' = IF ok THEN [meta EXCEPT ![d] = r.image] ELSE meta
  BY <1>2 DEF Written
<1>7. /\ on.pc = "reload" /\ on.devs = r.devs /\ on.new = r.new /\ on.image = r.image
      /\ left.pc = r.pc /\ left.devs = r.devs /\ left.new = r.new /\ left.image = r.image
  BY <1>1 DEF Activity
<1> HIDE DEF on, left, rest, n
<1>8. run'[0] = next
  BY <1>6, OneProcess DEF Goes
<1>9. \/ run'[0] = Idle /\ r.pc = "clear"
      \/ /\ run'[0].devs = r.devs /\ run'[0].new = r.new /\ run'[0].image = r.image
         /\ \/ r.pc = "clear" /\ d \in up /\ run'[0].pc = "clear"
            \/ r.pc = "write" /\ run'[0].pc \in {"write", "reload"}
  BY <1>1, <1>2, <1>7, <1>8
<1> HIDE DEF next
<1>10. \A e \in Disk : meta'[e] = IF d \in up /\ e = d THEN r.image ELSE meta[e]
  BY <1>2, <1>3, <1>5, <1>6, OneProcess
<1>11. r.pc = "write" => \/ ToSet(r.todo) = {d} /\ d = r.new[1]
                         \/ d \in ToSet(r.devs)
  <2>1. r.pc = "write" => /\ r.todo[n] = r.new[1]
                          /\ \A i \in 1 .. n - 1 : r.todo[i] \in ToSet(r.devs)
    BY <1>1 DEF Sound, n
  <2> QED
    BY <1>4, <2>1
<1>12. d \in up => r.image.kind = "member" /\ d \in ToSet(r.image.disk)
  <2>1. /\ ToSet(r.devs) \cap up \subseteq Read
        /\ r.image.kind = "member" /\ Read \subseteq ToSet(r.image.disk)
        /\ r.pc # "write" => ToSet(r.todo) \cap up \subseteq Read
        /\ r.pc = "write" => r.new[1] \in ToSet(r.image.disk)
    BY <1>1 DEF Sound
  <2> QED
    BY <1>5, <1>11, <2>1
<1>13. Read' = IF d \in up THEN Read \cup {d} ELSE Read
  <2>1. up' = up /\ up \subseteq Disk
    BY <1>2, OneProcess
  <2> QED
    BY <1>10, <1>12, <2>1 DEF Read
<1> QED
  BY <1>1, <1>2, <1>3, <1>5, <1>9, <1>10, <1>11, <1>13

\* The new metadata of a rebuild: its two members, and the data on one of them.
LEMMA CopyIs ==
  ASSUME NumVols = 1, Intact, NEW r, r = run[0], r.pc \in {"write", "reload"}
  PROVE  /\ ~Running /\ news[0] = <<>> /\ map[0].devs # <<>> /\ Shaped(r.image)
         /\ r.image.failed[0] # NoneFailed /\ r.new # <<>> /\ Len(r.devs) = 1
         /\ \E d, new \in Disk : \E i \in {1, 2} :
              Copies(r, d, new, i) /\ ToSet(r.devs) = {d} /\ d \in Read
         /\ First \in up => r.image.disk[1] = First
<1>1. r \in Activity /\ ~Free(0)
  BY OneProcess DEF Intact, Free
<1>2. ~Running /\ news[0] = <<>> /\ \E d, new \in Disk : \E i \in {1, 2} : Copies(r, d, new, i)
  BY DEF Intact, Whole, Busy
<1>3. PICK d \in Disk, new \in Disk : \E i \in {1, 2} : Copies(r, d, new, i)
  BY <1>2
<1>. PICK i \in {1, 2} : Copies(r, d, new, i)
  BY <1>3
<1>4. ToSet(r.devs) = {d}
  BY <1>1, ShortSeq DEF Activity, Copies
<1>5. d \in Read
  BY DEF Intact, Whole, CleanHolds, Copies
<1>6. Shaped(r.image) /\ r.image.failed[0] # NoneFailed
  <2>1. CASE i = 1
    BY <2>1 DEF Shaped, NoneFailed, Copies
  <2>2. CASE i = 2
    BY <2>2 DEF Shaped, NoneFailed, Copies
  <2> QED
    BY <2>1, <2>2
<1>7. map[0].devs # <<>> /\ (First \in up => r.image.disk[1] = First)
  BY <1>1 DEF Intact, Whole, LegsHold, FirstStays
<1>8. r.new # <<>> /\ Len(r.devs) = 1
  BY DEF Copies
<1> QED
  BY <1>2, <1>4, <1>5, <1>6, <1>7, <1>8

\* A disk gets the new metadata, or is dead and does not: where the metadata of
\* all members is clean, they have the data.
LEMMA WholeWrite ==
  ASSUME NumVols = 1, Intact, Noticed, Noticed', Write(0)
  PROVE  Whole'
<1>0. PICK r, d : r = run[0] /\ d = Head(r.todo)
  OBVIOUS
<1>1. /\ r \in Activity /\ r.pc \in {"write", "clear"} /\ Sound(r) /\ r.image \in Entry
      /\ d \in ToSet(r.todo) /\ d \in Disk
      /\ r.pc = "write" => \/ ToSet(r.todo) = {d} /\ d = r.new[1]
                           \/ d \in ToSet(r.devs)
      /\ UNCHANGED <<up, map, holds, news, count>>
      /\ \A e \in Disk : meta'[e] = IF d \in up /\ e = d THEN r.image ELSE meta[e]
      /\ Read' = IF d \in up THEN Read \cup {d} ELSE Read
      /\ \/ run'[0] = Idle /\ r.pc = "clear"
         \/ /\ run'[0].devs = r.devs /\ run'[0].new = r.new /\ run'[0].image = r.image
            /\ \/ r.pc = "clear" /\ d \in up /\ run'[0].pc = "clear"
               \/ r.pc = "write" /\ run'[0].pc \in {"write", "reload"}
  BY <1>0, WriteIs DEF Intact
<1>2. Idle.pc = "idle" /\ Running' = Running
  BY <1>1 DEF Idle, Running
<1>3. up \subseteq Disk /\ Read \subseteq up /\ ~Free(0)
  BY <1>0, <1>1, OneProcess DEF Intact, Read, Free
<1>4. /\ map[0].devs # <<>> /\ (map[0].sync => ~Running)
      /\ "insync" \notin ToSet(news[0])
      /\ First \in up => First \in holds[0] /\ map[0].devs[1] = First /\ r.image.disk[1] = First
      /\ holds[0] # {} /\ holds[0] \subseteq Read
  BY <1>0, <1>3 DEF Intact, Whole, LegsHold, Pending, FirstStays, CleanHolds
<1>5. /\ Shaped(r.image)
      /\ r.pc = "clear" => /\ ToSet(r.image.disk) = ToSet(r.devs) /\ Read \subseteq holds[0]
                           /\ r.image.failed[0] = NoneFailed
  BY <1>0, <1>1, CopyIs DEF Intact, Whole, Busy
<1>6. \A e \in Read' : Shaped(meta'[e])
  BY <1>1, <1>3, <1>5 DEF Intact, Whole
<1>7. FirstStays'
  <2> SUFFICES ASSUME First \in up
               PROVE  /\ First \in holds[0] /\ \A e \in Read' : meta'[e].disk[1] = First
                      /\ map[0].devs[1] = First /\ (~Free(0)' => run'[0].image.disk[1] = First)
    BY <1>1 DEF FirstStays
  <2>1. \A e \in Read : meta[e].disk[1] = First
    BY DEF Intact, Whole, FirstStays
  <2>2. \A e \in Read' : meta'[e].disk[1] = First
    BY <1>1, <1>3, <1>4, <2>1
  <2> QED
    BY <1>1, <1>2, <1>4, <2>2 DEF Free
<1>8. Read' = Read \/ ~Running => LegsHold'
  BY <1>1, <1>2, <1>4 DEF Intact, Whole, LegsHold
<1>9. CASE r.pc = "clear"
  <2>1. d \in up => d \in Read
    BY <1>1, <1>9 DEF Sound
  <2>2. Read' = Read
    BY <1>1, <2>1
  <2>3. CleanHolds'
    BY <1>1, <1>4, <1>5, <1>9, <2>2 DEF CleanHolds
  <2>4. Busy'
    BY <1>1, <1>2, <1>5, <1>9, <2>2 DEF Busy
  <2>5. Pending'
    <3>1. ASSUME "failure" \in ToSet(news[0])
          PROVE  /\ ~Running /\ \E e \in Disk : Read = {e} /\ ToSet(meta'[e].disk) \cap up = {e}
      <4>1. PICK e \in Disk : Read = {e} /\ ToSet(meta[e].disk) \cap up = {e} /\ ~Running
        BY <3>1 DEF Intact, Whole, Pending
      <4>2. ToSet(r.image.disk) \cap up = {e}
        <5>1. ToSet(r.image.disk) \cap up \subseteq Read /\ Read \subseteq ToSet(r.image.disk)
          BY <1>1, <1>5, <1>9 DEF Sound
        <5> QED
          BY <1>3, <4>1, <5>1
      <4>3. meta'[e] = meta[e] \/ meta'[e] = r.image
        BY <1>1
      <4> QED
        BY <4>1, <4>2, <4>3
    <3>2. /\ news'[0] = news[0] /\ up' = up /\ Running' = Running
          /\ run'[0].pc \in {"idle", "clear"}
      BY <1>1, <1>2, <1>9
    <3>3. news[0] \in {<<>>, <<"insync">>, <<"failure">>, <<"insync", "failure">>}
      BY DEF Intact, Whole, Pending
    <3> QED
      BY <1>4, <2>2, <3>1, <3>2, <3>3 DEF Pending
  <2> QED
    BY <1>6, <1>7, <1>8, <2>2, <2>3, <2>4, <2>5 DEF Whole
<1>10. CASE r.pc = "write"
  <2>0. PICK e \in Disk, new \in Disk :
          \E i \in {1, 2} : Copies(r, e, new, i) /\ ToSet(r.devs) = {e} /\ e \in Read
    BY <1>0, <1>10, CopyIs
  <2>1. PICK i \in {1, 2} : Copies(r, e, new, i) /\ ToSet(r.devs) = {e} /\ e \in Read
    BY <2>0
  <2>2. /\ ~Running /\ news[0] = <<>> /\ r.image.failed[0] # NoneFailed
        /\ e # new /\ r.new[1] = new /\ holds[0] = {e} /\ Read \subseteq {e, new}
    BY <1>0, <1>10, <2>1, CopyIs DEF Copies
  <2>3. Read = {e}
    BY <1>10, <1>1, <2>1 DEF Sound
  <2>4. e \in Read' /\ Read' \subseteq {e, new}
    BY <1>1, <1>10, <2>1, <2>2, <2>3
  <2>5. CleanHolds'
    <3>1. CASE d \in up
      <4>1. \A x \in Read' : meta'[x] = r.image
        <5>1. CASE d = e
          BY <1>1, <2>1, <2>3, <3>1, <5>1
        <5>2. CASE d # e
          <6>1. ToSet(r.todo) = {d} /\ d = new
            BY <1>1, <1>10, <2>1, <2>2, <5>2
          <6>2. meta[e] = r.image
            BY <1>1, <1>3, <1>10, <2>1, <5>2, <6>1 DEF Sound
          <6> QED
            BY <1>1, <2>1, <2>3, <3>1, <6>1, <6>2
        <5> QED
          BY <5>1, <5>2
      <4> QED
        BY <1>1, <2>1, <2>2, <2>4, <4>1 DEF CleanHolds
    <3>2. CASE d \notin up
      BY <1>1, <2>1, <2>2, <2>3, <3>2 DEF CleanHolds
    <3> QED
      BY <3>1, <3>2
  <2>6. Pending'
    BY <1>1, <2>2 DEF Pending, ToSet
  <2>7. Busy'
    <3>1. /\ run'[0].devs = r.devs /\ run'[0].new = r.new /\ run'[0].image = r.image
          /\ run'[0].pc \in {"write", "reload"}
      BY <1>1, <1>10
    <3>2. ~Running' /\ news'[0] = <<>> /\ holds'[0] = {e}
      BY <1>1, <1>2, <2>2
    <3>3. Copies(run[0], e, new, i)'
      BY <2>1, <2>4, <3>1, <3>2 DEF Copies
    <3> QED
      BY <3>1, <3>2, <3>3 DEF Busy
  <2> QED
    BY <1>6, <1>7, <1>8, <2>2, <2>5, <2>6, <2>7 DEF Whole
<1> QED
  BY <1>1, <1>9, <1>10

\* The kernel copies from d to the new disk.
CopyTable(t, d, new) ==
  t.sync /\ t.devs # <<>> /\ t.devs[1] = d /\ ToSet(t.devs) = {d, new}

\* The table of a rebuild: the kernel copies from the member that is left, the
\* first leg, whichever entry the new disk has.
LEMMA CopyTableIs ==
  ASSUME NumVols = 1, NEW r \in Activity, NEW d \in Disk, NEW new \in Disk, NEW i \in {1, 2},
         Copies(r, d, new, i)
  PROVE  CopyTable(Reloaded(r, 0), d, new)
<1> DEFINE dv == r.devs
           nw == r.new
           pl == Placed(r)
           drive == RebuildDrive(r.image, r.vol)
<1>1. dv \in Seq(Disk) /\ nw \in Seq(Disk) /\ r.vol = 0 /\ Len(nw) = 1 /\ nw # <<>>
  BY OneVol, AtMostOneIs DEF Activity, Copies
<1>2. Len(dv) = 1 /\ dv[1] = d /\ nw[1] = new /\ r.image.failed[0] = i - 1
  BY DEF Copies
<1>3. drive = {i - 1}
  BY <1>1, <1>2 DEF RebuildDrive, NumMembers
<1>4. pl = IF nw # <<>> /\ \E j \in drive : j < Len(dv)
           THEN InsertAt(dv, (CHOOSE j \in drive : TRUE) + 1, nw[1]) ELSE dv \o nw
  BY DEF Placed
<1>5. Tables(r, 0, TRUE) = IF Len(pl) <= 1 THEN {Mirror(pl, FALSE, NoneFailed)}
                           ELSE {Mirror(pl, TRUE, j) : j \in drive}
  BY <1>1, Zenon DEF Tables
<1> HIDE DEF dv, nw, pl, drive
<1>6. pl \in Seq(Disk) /\ Len(pl) = 2 /\ pl[i] = new /\ pl[3 - i] = d
  <2>1. CASE i = 1
    <3>1. pl = InsertAt(dv, 1, new)
      BY <1>1, <1>2, <1>3, <1>4, <2>1
    <3>2. 1 \in 1 .. Len(dv) /\ 1 \in 1 .. Len(dv)
      BY <1>2
    <3>3. /\ InsertAt(dv, 1, new) \in Seq(Disk) /\ Len(InsertAt(dv, 1, new)) = Len(dv) + 1
          /\ InsertAt(dv, 1, new)[1] = new
          /\ \A j \in 1 .. Len(dv) : InsertAt(dv, 1, new)[j + 1] = dv[j]
      BY <1>1, <3>2, Inserted
    <3> QED
      BY <1>2, <2>1, <3>1, <3>3
  <2>2. CASE i = 2
    <3>1. pl = dv \o nw
      BY <1>1, <1>2, <1>3, <1>4, <2>2
    <3>2. /\ pl \in Seq(Disk) /\ Len(pl) = Len(dv) + Len(nw)
          /\ \A j \in 1 .. Len(dv) + Len(nw) : pl[j] = IF j <= Len(dv) THEN dv[j] ELSE nw[j - Len(dv)]
      BY <1>1, <3>1, ConcatProperties
    <3> QED
      BY <1>1, <1>2, <2>2, <3>2
  <2> QED
    BY <2>1, <2>2
<1> DEFINE k == i - 1
           t == Mirror(pl, TRUE, k)
<1>7. ToSet(pl) = {d, new}
  <2>1. ToSet(pl) = {pl[1], pl[2]}
    BY <1>6, ShortSeq
  <2> QED
    BY <1>6, <2>1
<1>11. (k = 0 <=> i = 1) /\ drive = {k}
  BY <1>3
<1> HIDE DEF k
<1>8. t.sync /\ t.devs # <<>> /\ t.devs[1] = d /\ ToSet(t.devs) = {d, new}
  <2>0. /\ MirrorOf(t, pl, TRUE)
        /\ Len(pl) <= 1 \/ ~TRUE \/ k # 0 => t.devs = pl
        /\ Len(pl) > 1 /\ TRUE => t.sync
        /\ Len(pl) > 1 /\ TRUE /\ k = 0 => t.devs[1] = pl[2]
    <3>1. pl \in Seq(Disk) /\ TRUE \in BOOLEAN
      BY <1>6
    <3> QED
      BY <3>1, MirrorIs, Zenon
  <2> HIDE DEF t
  <2>1. Len(pl) > 1 /\ pl # <<>>
    BY <1>6, ShortSeq
  <2>2. CASE i = 1
    BY <1>6, <1>7, <1>11, <2>0, <2>1, <2>2 DEF MirrorOf
  <2>3. CASE i = 2
    BY <1>6, <1>7, <1>11, <2>0, <2>1, <2>3 DEF MirrorOf
  <2> QED
    BY <2>2, <2>3
<1>9. Tables(r, 0, TRUE) = {t}
  <2>1. ~(Len(pl) <= 1)
    BY <1>6
  <2>2. Tables(r, 0, TRUE) = {Mirror(pl, TRUE, j) : j \in drive}
    BY <1>5, <2>1
  <2> QED
    BY <1>11, <2>2
<1> HIDE DEF t
<1>10. Reloaded(r, 0) = t
  <2>1. NeedSync(r, 0) = TRUE
    BY <1>1 DEF NeedSync
  <2> DEFINE new0 == Tables(r, 0, NeedSync(r, 0))
  <2>2. new0 = {t}
    BY <1>9, <2>1
  <2>3. new0 # {} => Reloaded(r, 0) = CHOOSE x \in new0 : TRUE
    BY Zenon DEF Reloaded
  <2> HIDE DEF new0
  <2> QED
    BY <2>2, <2>3
<1> QED
  BY <1>8, <1>10 DEF CopyTable

\* The kernel gets the new table and begins to copy.
LEMMA WholeReload ==
  ASSUME NumVols = 1, Intact, Noticed, Noticed', Reload(0)
  PROVE  Whole'
<1>0. PICK r : r = run[0]
  OBVIOUS
<1>1. /\ Loads([w \in Vol |-> Reloaded(r, w)]) /\ run' = [run EXCEPT ![0] = Idle]
      /\ UNCHANGED <<meta, up, news, count>> /\ r.pc = "reload"
  <2>1. ~Counts("bad", MaxBad)
    BY DEF Counts, Noticed, Intact, Typed, TypeOK, Bounded
  <2>2. Tool # 0
    BY OneProcess DEF Intact
  <2> QED
    BY <1>0, <2>1, <2>2, Zenon DEF Reload, Goes
<1>2. r \in Activity /\ Sound(r) /\ Vol = {0} /\ up \subseteq Disk /\ 0 \in Proc /\ run \in [Proc -> Activity]
  BY <1>0, <1>1, OneProcess DEF Intact, Lists, Free
<1>3. PICK d \in Disk, new \in Disk :
        \E i \in {1, 2} : Copies(r, d, new, i) /\ ToSet(r.devs) = {d} /\ d \in Read
  BY <1>0, <1>1, CopyIs
<1>4. PICK i \in {1, 2} : Copies(r, d, new, i)
  BY <1>3
<1>5. /\ news[0] = <<>> /\ holds[0] = {d} /\ Read \subseteq {d, new} /\ d \in Read
      /\ d # new /\ r.new # <<>> /\ r.new[1] = new
  BY <1>0, <1>1, <1>3, <1>4, CopyIs DEF Copies
<1>6. new \in up => new \in Read
  <2>1. ToSet(r.new) \cap up \subseteq Read
    BY <1>1, <1>2 DEF Sound
  <2>2. ToSet(r.new) = {new}
    BY <1>2, <1>5, AtMostOneIs DEF Activity
  <2> QED
    BY <2>1, <2>2
<1>. CopyTable(Reloaded(r, 0), d, new)
  BY <1>2, <1>4, CopyTableIs
<1>. PICK t : t = Reloaded(r, 0)
  OBVIOUS
<1>7. t.sync /\ t.devs # <<>> /\ t.devs[1] = d /\ ToSet(t.devs) = {d, new}
  BY DEF CopyTable
<1>8. map'[0] = t
  BY <1>1, <1>2 DEF Loads
<1>9. holds'[0] = IF map'[0].devs = <<>> THEN holds[0] ELSE holds[0] \cap ToSet(map'[0].devs)
  BY <1>1, <1>2, <1>8 DEF Loads
<1>10. holds'[0] = {d}
  BY <1>5, <1>7, <1>8, <1>9
<1>11. Read' = Read /\ Free(0)' /\ run'[0].pc = "idle"
  BY <1>1, <1>2 DEF Read, Free, Idle
<1>12. \A x \in Read' : Shaped(meta'[x])
  BY <1>1, <1>11 DEF Intact, Whole
<1>13. FirstStays'
  <2> SUFFICES ASSUME First \in up
               PROVE  /\ First \in {d} /\ \A x \in Read : meta[x].disk[1] = First
                      /\ t.devs[1] = First
    BY <1>1, <1>8, <1>10, <1>11 DEF FirstStays
  <2> QED
    BY <1>5, <1>7 DEF Intact, Whole, FirstStays
<1>14. CleanHolds'
  BY <1>1, <1>5, <1>10, <1>11 DEF Intact, Whole, CleanHolds
<1>15. LegsHold'
  <2>1. ToSet(map'[0].devs) = {d, new} /\ map'[0].devs # <<>> /\ map'[0].devs[1] = d
    BY <1>7, <1>8
  <2>2. Running' => Read' = ToSet(map'[0].devs)
    BY <1>1, <1>5, <1>6, <1>11, <2>1 DEF Running
  <2> QED
    BY <1>1, <1>5, <1>10, <1>11, <2>1, <2>2 DEF LegsHold
<1>16. Pending' /\ Busy'
  BY <1>1, <1>5, <1>11 DEF Pending, Busy, ToSet
<1> QED
  BY <1>12, <1>13, <1>14, <1>15, <1>16 DEF Whole

\* While the member the group began with works it has the first slot in the
\* metadata of all members, and the other one the second.
LEMMA SlotIs ==
  ASSUME NumVols = 1, Intact, First \in up, NEW x \in Read, NEW y \in Read
  PROVE  Slot(meta[x], y) = IF y = First THEN 1 ELSE 2
<1> DEFINE s == meta[x].disk
           at == {i \in 1 .. Len(s) : s[i] = y}
<1>1. /\ s \in Seq(Disk) /\ Shaped(meta[x]) /\ s[1] # s[2] /\ Read \subseteq {s[1], s[2]}
      /\ Read \subseteq up
  BY TwoMembers DEF Read
<1>2. s[1] = First
  BY DEF Intact, Whole, FirstStays
<1>3. Len(s) = 2 \/ (Len(s) = 3 /\ s[3] \notin up)
  BY <1>1, MemberLists DEF Shaped, LastFailed, NoneFailed, Intact
<1>4. Slot(meta[x], y) = IF at # {} THEN Max(at) ELSE 0
  BY Zenon DEF Slot, SelectLastInSeq
<1> HIDE DEF s
<1>5. at = IF y = First THEN {1} ELSE {2}
  BY <1>1, <1>2, <1>3
<1> HIDE DEF at
<1>6. \A k \in Nat : Max({k}) = k
  BY DEF Max
<1> QED
  BY <1>4, <1>5, <1>6

\* In whatever order the disks are read, list_add_sorted() puts that member first.
LEMMA FirstAhead ==
  ASSUME NumVols = 1, Intact, First \in up, NEW devs \in Groupings
  PROVE  devs[1] = First
<1> DEFINE n == Cardinality(Read)
<1>1. /\ ToSet(devs) = Read /\ Len(devs) = n /\ devs \in Seq(Disk) /\ n \in Nat
      /\ \A i, j \in 1 .. n : devs[i] = devs[j] => i = j
  BY Listing DEF Intact, Typed, TypeOK
<1>2. First \in Read
  BY DEF Intact, Whole, FirstStays, CleanHolds
<1>3. devs[1] \in Read /\ 1 \in 1 .. n
  BY <1>2, Listing DEF Intact, Typed, TypeOK
<1>4. PICK scan \in SetToSeqs(Read) : \A k \in DOMAIN scan :
             AddSorted(devs, {scan[i] : i \in 1 .. k - 1}, scan[k])
  BY DEF Groupings
<1>5. scan \in [1 .. n -> Read] /\ \A i, j \in 1 .. n : i # j => scan[i] # scan[j]
  BY <1>4 DEF SetToSeqs
<1>6. \A y \in Read : \E i \in 1 .. n : scan[i] = y
  <2>1. IsFiniteSet(Read) /\ IsFiniteSet(1 .. n) /\ Cardinality(1 .. n) = n
    <3>1. IsFiniteSet(Read)
      BY HowMany DEF Intact
    <3>2. n \in Nat
      BY <1>1
    <3> HIDE DEF n
    <3>3. 1 \in Int /\ n \in Int /\ Cardinality(1 .. n) = (IF 1 > n THEN 0 ELSE n - 1 + 1) /\ IsFiniteSet(1 .. n)
      BY <3>2, FS_Interval
    <3> QED
      BY <3>1, <3>2, <3>3
  <2>2. scan \in Injection(1 .. n, Read)
    BY <1>5 DEF Injection, IsInjective
  <2>3. scan \in Surjection(1 .. n, Read)
    BY <2>1, <2>2, FS_Injection
  <2> QED
    BY <2>3 DEF Surjection
<1> HIDE DEF n
<1>7. DOMAIN devs = 1 .. n /\ DOMAIN scan = 1 .. n
  BY <1>1, <1>5
<1> SUFFICES ASSUME devs[1] # First PROVE FALSE
  OBVIOUS
<1>8. PICK y : y = devs[1]
  OBVIOUS
<1>9. PICK a \in 1 .. n : scan[a] = First
  BY <1>2, <1>6
<1>10. PICK b \in 1 .. n : scan[b] = y
  BY <1>3, <1>6, <1>8
<1>11. y \in Read /\ y # First /\ a # b
  BY <1>3, <1>8, <1>9, <1>10
<1>12. Slot(meta[First], y) = 2 /\ Slot(meta[First], First) = 1
  BY <1>2, <1>11, SlotIs
<1>13. ~Ahead(devs, First, y)
  BY <1>1, <1>3, <1>7, <1>8, <1>11 DEF Ahead
<1>14. PICK c \in 1 .. n : devs[c] = First
  BY <1>1, <1>2, InSeq
<1>15. Ahead(devs, y, First) /\ Ahead(devs, y, y)
  BY <1>1, <1>3, <1>7, <1>8, <1>14 DEF Ahead
<1>16. CASE a < b
  <2> DEFINE listed == {scan[i] : i \in 1 .. b - 1}
  <2>1. First \in listed /\ listed \subseteq Read
    BY <1>1, <1>5, <1>9, <1>10, <1>16
  <2>2. AddSorted(devs, listed, y)
    BY <1>4, <1>7, <1>10
  <2> HIDE DEF listed
  <2>3. PICK pos \in listed : Before(pos, y)
    BY <1>13, <2>1, <2>2 DEF AddSorted
  <2>4. Slot(meta[y], y) < Slot(meta[y], pos)
    BY <2>3 DEF Before
  <2>5. Slot(meta[y], y) = 2 /\ Slot(meta[y], pos) \in {1, 2}
    BY <1>11, <2>1, <2>3, SlotIs
  <2> QED
    BY <2>4, <2>5
<1>17. CASE b < a
  <2> DEFINE listed == {scan[i] : i \in 1 .. a - 1}
  <2>1. y \in listed
    BY <1>1, <1>9, <1>10, <1>17
  <2>2. AddSorted(devs, listed, First)
    BY <1>4, <1>7, <1>9
  <2> HIDE DEF listed
  <2>3. ~Before(y, First)
    BY <1>15, <2>1, <2>2 DEF AddSorted
  <2> QED
    BY <1>12, <2>3 DEF Before
<1> QED
  BY <1>1, <1>11, <1>16, <1>17

\* "dmraid -ay" loads the members, first the one that has had the data all along.
LEMMA WholeActivate ==
  ASSUME NumVols = 1, Intact, Activate
  PROVE  Whole'
<1>0. Vol = {0} /\ up \subseteq Disk /\ Read \subseteq up /\ holds \in [Vol -> SUBSET Disk]
  BY OneProcess DEF Intact, Read
<1>1. /\ Read # {} /\ UNCHANGED <<meta, up, news, run>> /\ count'["boot"] = count["boot"]
      /\ map[0].devs = <<>>
  <2>1. \E v \in Vol : map[v].devs = <<>>
    BY DEF Activate
  <2>2. count'["boot"] = count["boot"]
    BY DEF Activate, Counts, Bounded, Intact, Typed, TypeOK
  <2> QED
    BY <1>0, <2>1, <2>2 DEF Activate
<1>2. PICK devs \in Groupings :
        Loads([v \in Vol |-> IF map[v].devs # <<>> THEN map[v]
                             ELSE Mirror(devs, Status(v) # "ok", NoneFailed)])
  BY DEF Activate
<1>3. count["boot"] > 0 /\ news[0] = <<>> /\ Free(0)
  BY <1>1 DEF Intact, Whole, LegsHold
<1>4. First \in up
  BY <1>3 DEF Intact, MasterForgotten, First
<1>5. /\ First \in holds[0] /\ holds[0] \subseteq Read /\ \A d \in Read : meta[d].disk[1] = First
      /\ \A d \in Read : Shaped(meta[d])
      /\ \A d \in Read : meta[d].failed[0] = NoneFailed => Read \subseteq holds[0]
  BY <1>4 DEF Intact, Whole, FirstStays, CleanHolds
<1>6. devs \in Seq(Disk) /\ ToSet(devs) = Read /\ devs # <<>> /\ devs[1] = First
  BY <1>1, <1>4, Listing, FirstAhead DEF Intact, Typed, TypeOK
<1> DEFINE sync == Status(0) # "ok"
           t == Mirror(devs, sync, NoneFailed)
<1>7. t.devs = devs
  <2>1. sync \in BOOLEAN /\ NoneFailed # 0
    BY DEF NoneFailed
  <2> HIDE DEF sync
  <2> QED
    BY <1>6, <2>1, MirrorIs, Zenon
<1>8. map'[0] = t
  BY <1>0, <1>1, <1>2 DEF Loads
<1> HIDE DEF t
<1>9. holds'[0] = IF map'[0].devs = <<>> THEN holds[0] ELSE holds[0] \cap ToSet(map'[0].devs)
  BY <1>0, <1>2, <1>8 DEF Loads
<1>10. map'[0].devs = devs /\ holds'[0] = holds[0]
  BY <1>5, <1>6, <1>7, <1>8, <1>9
<1>11. Read' = Read /\ Free(0)' /\ run'[0].pc = "idle"
  BY <1>1, <1>3 DEF Read, Free
<1>12. \A x \in Read' : Shaped(meta'[x])
  BY <1>1, <1>5, <1>11
<1>13. FirstStays'
  BY <1>1, <1>5, <1>6, <1>10, <1>11 DEF FirstStays
<1>14. CleanHolds'
  BY <1>1, <1>5, <1>10, <1>11 DEF CleanHolds
<1>15. LegsHold'
  <2>1. \E d, e \in Disk : Read \subseteq {d, e}
    <3>1. PICK x \in Read : TRUE
      BY <1>1
    <3>2. Read \subseteq {meta[x].disk[1], meta[x].disk[2]} /\ meta[x].disk \in Seq(Disk)
          /\ {meta[x].disk[1], meta[x].disk[2]} \subseteq ToSet(meta[x].disk)
      BY TwoMembers
    <3>3. ToSet(meta[x].disk) \subseteq Disk
      BY <3>2, InSeq
    <3> QED
      BY <3>2, <3>3
  <2> QED
    BY <1>1, <1>3, <1>5, <1>6, <1>10, <1>11, <2>1 DEF LegsHold
<1>16. Pending' /\ Busy'
  BY <1>1, <1>3, <1>11 DEF Pending, Busy, ToSet
<1> QED
  BY <1>12, <1>13, <1>14, <1>15, <1>16 DEF Whole

\* The end of a copy: all members have the data.
LEMMA WholeSynced ==
  ASSUME NumVols = 1, Intact, Synced(0)
  PROVE  Whole'
<1>0. Vol = {0} /\ map \in [Vol -> [devs : Seq(Disk), sync : BOOLEAN]] /\ up \subseteq Disk
      /\ news \in [Vol -> Seq({"insync", "failure"})] /\ holds \in [Vol -> SUBSET Disk]
      /\ ToSet(map[0].devs) \subseteq Disk
  BY OneProcess DEF Intact, Typed, TypeOK
<1>1. /\ map[0].sync /\ Running /\ UNCHANGED <<meta, up, run, count>>
      /\ map' = [map EXCEPT ![0].sync = FALSE]
      /\ holds'[0] = IF map[0].devs[1] \in holds[0] THEN ToSet(map[0].devs) ELSE {}
      /\ news'[0] \in {news[0], Append(news[0], "insync")}
  BY <1>0 DEF Synced, Running
<1>2. map'[0].devs = map[0].devs /\ map'[0].sync = FALSE
  BY <1>0, <1>1
<1>3. /\ map[0].devs # <<>> /\ news[0] = <<>> /\ Free(0) /\ Read = ToSet(map[0].devs)
      /\ map[0].devs[1] \in holds[0] \cup (Disk \ up) /\ holds[0] \subseteq Read
      /\ \E d, e \in Disk : ToSet(map[0].devs) \subseteq {d, e}
  BY <1>1 DEF Intact, Whole, LegsHold, CleanHolds
<1>4. map[0].devs[1] \in Read
  <2>1. map[0].devs \in Seq(Disk) /\ 1 \in 1 .. Len(map[0].devs)
    BY <1>0, <1>3, LenProperties, EmptySeq
  <2> QED
    BY <1>3, <2>1, InSeq
<1>5. holds'[0] = Read /\ Read # {}
  BY <1>1, <1>3, <1>4 DEF Read
<1>6. news'[0] \in {<<>>, <<"insync">>}
  BY <1>1, <1>3
<1>7. Read' = Read /\ Running' = Running /\ Free(0)' /\ run'[0].pc = "idle"
  BY <1>1, <1>2, <1>3 DEF Read, Running, Free
<1>8. \A x \in Read' : Shaped(meta'[x])
  BY <1>1, <1>7 DEF Intact, Whole
<1>9. FirstStays'
  <2> SUFFICES ASSUME First \in up
               PROVE  /\ First \in Read /\ \A d \in Read : meta[d].disk[1] = First
                      /\ map[0].devs[1] = First
    BY <1>1, <1>2, <1>5, <1>7 DEF FirstStays
  <2> QED
    BY <1>3 DEF Intact, Whole, FirstStays
<1>10. CleanHolds'
  BY <1>5, <1>7 DEF CleanHolds
<1>11. LegsHold'
  BY <1>2, <1>3, <1>5, <1>7 DEF LegsHold
<1>12. Pending'
  <2>1. ToSet(<<>>) = {} /\ ToSet(<<"insync">>) = {"insync"}
    BY DEF ToSet
  <2> QED
    BY <1>5, <1>6, <1>7, <2>1 DEF Pending
<1>13. Busy'
  BY <1>7 DEF Busy
<1> QED
  BY <1>8, <1>9, <1>10, <1>11, <1>12, <1>13 DEF Whole

\* A restart: no table, no event and no run is left, and the first member, which
\* works, is where it was.
LEMMA WholeReboot ==
  ASSUME NumVols = 1, Intact, Reboot
  PROVE  Whole'
<1>0. Vol = {0} /\ Proc = {0, Tool} /\ First \in Disk /\ count \in [Bounded -> Nat]
  BY OneProcess DEF Intact
<1>1. /\ UNCHANGED <<meta, up, holds>> /\ map'[0] = Off /\ news'[0] = <<>> /\ run'[0] = Idle
      /\ count'["boot"] > 0
  BY <1>0 DEF Reboot, Counts, Bounded
<1>2. Read' = Read /\ Free(0)' /\ run'[0].pc = "idle"
  BY <1>1 DEF Read, Free, Idle
<1>3. map'[0].devs = <<>> /\ map'[0].sync = FALSE /\ ToSet(map'[0].devs) = {} /\ ToSet(news'[0]) = {}
  BY <1>1 DEF Off, ToSet
<1>4. \A x \in Read' : Shaped(meta'[x])
  BY <1>1, <1>2 DEF Intact, Whole
<1>5. FirstStays'
  BY <1>1, <1>2, <1>3 DEF Intact, Whole, FirstStays
<1>6. CleanHolds'
  BY <1>1, <1>2 DEF Intact, Whole, CleanHolds
<1>7. LegsHold'
  BY <1>0, <1>1, <1>2, <1>3 DEF LegsHold
<1>8. Pending' /\ Busy'
  BY <1>1, <1>2, <1>3 DEF Pending, Busy
<1> QED
  BY <1>4, <1>5, <1>6, <1>7, <1>8 DEF Whole

\* A disk dies: the other member is left, with the data.
LEMMA WholeFail ==
  ASSUME NumVols = 1, Intact, NEW d \in Disk, Fail(d)
  PROVE  Whole'
<1>0. Vol = {0} /\ up \subseteq Disk /\ holds[0] \subseteq Disk /\ count \in [Bounded -> Nat]
      /\ news[0] \in Seq({"insync", "failure"})
  BY OneProcess DEF Intact
<1>1. /\ d \in up /\ up' = up \ {d} /\ UNCHANGED <<meta, map, run>> /\ holds'[0] = holds[0] \ {d}
      /\ holds'[0] # {} /\ count'["boot"] = count["boot"]
      /\ \/ news'[0] = news[0]
         \/ d \in ToSet(map[0].devs) /\ news'[0] = Append(news[0], "failure")
  BY <1>0 DEF Fail, Counts, Bounded
<1>2. Read' = Read \ {d} /\ Read \subseteq up /\ Free(0)' = Free(0) /\ (Running' => Running)
  BY <1>0, <1>1 DEF Read, Free, Running
<1>3. holds[0] \subseteq Read
  BY DEF Intact, Whole, CleanHolds
<1>4. \A x \in Read' : Shaped(meta'[x])
  BY <1>1, <1>2 DEF Intact, Whole
<1>5. FirstStays'
  BY <1>1, <1>2 DEF Intact, Whole, FirstStays, Free
<1>6. CleanHolds'
  BY <1>1, <1>2 DEF Intact, Whole, CleanHolds
<1>7. PICK a \in Disk, b \in Disk : ToSet(map[0].devs) \subseteq {a, b}
  BY DEF Intact, Whole, LegsHold
<1>8. map[0].devs = <<>> => ToSet(map[0].devs) = {}
  BY DEF ToSet
<1>9. d \in ToSet(map[0].devs) => Running
  <2> SUFFICES ASSUME d \in ToSet(map[0].devs), NEW e \in ToSet(map[0].devs), e \notin up
               PROVE  FALSE
    BY DEF Running
  <2>1. holds[0] \subseteq ToSet(map[0].devs)
    BY <1>8 DEF Intact, Whole, LegsHold
  <2>2. ToSet(map[0].devs) \subseteq {d, e}
    BY <1>1, <1>7
  <2> QED
    BY <1>1, <1>2, <1>3, <2>1, <2>2
<1>10. Running => (map[0].devs # <<>> => Read = ToSet(map[0].devs))
  BY DEF Intact, Whole, LegsHold
<1>11. LegsHold'
  <2>1. Running' /\ map[0].devs # <<>> => Read' = ToSet(map[0].devs)
    BY <1>1, <1>2, <1>10 DEF Running
  <2>2. map[0].sync /\ Running' => news'[0] = <<>> /\ Free(0)'
    BY <1>1, <1>2 DEF Intact, Whole, LegsHold, Running
  <2>3. map[0].devs = <<>> => count'["boot"] > 0 /\ news'[0] = <<>> /\ Free(0)'
    BY <1>1, <1>2, <1>8 DEF Intact, Whole, LegsHold
  <2>4. map[0].devs # <<>> => holds'[0] \subseteq ToSet(map[0].devs)
    BY <1>1 DEF Intact, Whole, LegsHold
  <2>5. map[0].sync => map[0].devs # <<>> /\ map[0].devs[1] \in holds'[0] \cup (Disk \ up')
    BY <1>1 DEF Intact, Whole, LegsHold
  <2> QED
    BY <1>1, <1>7, <2>1, <2>2, <2>3, <2>4, <2>5 DEF LegsHold
<1>12. \E x \in Read : x # d
  BY <1>1, <1>3
<1>13. PICK x \in Read : x # d
  BY <1>12
<1>14. ASSUME "failure" \in ToSet(news[0])
       PROVE  /\ ~Running /\ run[0].pc \in {"idle", "clear"}
              /\ Read' = {x} /\ ToSet(meta[x].disk) \cap up' = {x}
  <2>1. PICK y \in Disk : Read = {y} /\ ToSet(meta[y].disk) \cap up = {y}
    BY <1>14 DEF Intact, Whole, Pending
  <2>2. ~Running /\ run[0].pc \in {"idle", "clear"} /\ y = x
    BY <1>13, <1>14, <2>1 DEF Intact, Whole, Pending
  <2> QED
    BY <1>1, <1>2, <1>13, <2>1, <2>2
<1>15. ASSUME d \in ToSet(map[0].devs)
       PROVE  /\ ~Running' /\ run[0].pc \in {"idle", "clear"} /\ "failure" \notin ToSet(news[0])
              /\ Read' = {x} /\ ToSet(meta[x].disk) \cap up' = {x}
  <2>1. Running /\ Read = ToSet(map[0].devs)
    BY <1>8, <1>9, <1>10, <1>15
  <2>2. run[0].pc \in {"idle", "clear"} /\ "failure" \notin ToSet(news[0])
    <3>1. run[0].pc \in {"idle", "write", "reload", "clear"}
      BY OneProcess DEF Intact, Activity
    <3>2. ~(run[0].pc \in {"write", "reload"})
      BY <2>1 DEF Intact, Whole, Busy
    <3> QED
      BY <1>14, <2>1, <3>1, <3>2
  <2>3. Read = {d, x}
    BY <1>7, <1>13, <1>15, <2>1
  <2>4. LET s == meta[x].disk IN
        Read \subseteq {s[1], s[2]} /\ ToSet(s) \cap up \subseteq {s[1], s[2]}
        /\ {s[1], s[2]} \subseteq ToSet(s) /\ x \in up
    BY TwoMembers
  <2>5. ~Running'
    BY <1>1, <1>15 DEF Running
  <2> QED
    BY <1>1, <1>2, <1>13, <2>2, <2>3, <2>4, <2>5
<1>16. news[0] \in {<<>>, <<"insync">>, <<"failure">>, <<"insync", "failure">>}
       /\ ("insync" \in ToSet(news[0]) => Free(0) /\ Read \subseteq holds[0])
  BY DEF Intact, Whole, Pending
<1>17. x \in Disk
  BY <1>0, <1>2
<1>18. Pending'
  <2>1. CASE news'[0] = news[0]
    <3>1. "failure" \in ToSet(news[0]) => ~Running'
      BY <1>2, <1>14
    <3> QED
      BY <1>1, <1>2, <1>14, <1>16, <1>17, <2>1, <3>1 DEF Pending
  <2>2. CASE d \in ToSet(map[0].devs) /\ news'[0] = Append(news[0], "failure")
    <3>1. ToSet(<<"failure">>) = {"failure"} /\ ToSet(<<"insync", "failure">>) = {"insync", "failure"}
          /\ ToSet(<<"insync">>) = {"insync"}
      BY DEF ToSet
    <3>2. news[0] \in {<<>>, <<"insync">>}
      BY <1>15, <1>16, <2>2, <3>1
    <3>3. \/ news'[0] = <<"failure">>
          \/ news'[0] = <<"insync", "failure">> /\ "insync" \in ToSet(news[0])
      <4>1. /\ Append(<<>>, "failure") = <<"failure">>
            /\ Append(<<"insync">>, "failure") = <<"insync", "failure">>
        BY TwoEvents, Zenon
      <4> QED
        BY <2>2, <3>1, <3>2, <4>1, Zenon
    <3> QED
      BY <1>1, <1>2, <1>15, <1>16, <1>17, <2>2, <3>1, <3>3 DEF Pending
  <2> QED
    BY <1>1, <2>1, <2>2
<1>19. Busy'
  <2>1. ASSUME run[0].pc \in {"write", "reload"}
        PROVE  ~Running' /\ news'[0] = <<>> /\ \E e, new \in Disk : \E i \in {1, 2} : Copies(run[0], e, new, i)'
    <3>1. PICK e \in Disk, new \in Disk : \E i \in {1, 2} : Copies(run[0], e, new, i)
      BY <2>1 DEF Intact, Whole, Busy
    <3>2. PICK i \in {1, 2} : Copies(run[0], e, new, i)
      BY <3>1
    <3>3. ~Running /\ news[0] = <<>>
      BY <2>1 DEF Intact, Whole, Busy
    <3>4. Copies(run[0], e, new, i)'
      BY <1>1, <1>2, <3>2 DEF Copies
    <3> QED
      BY <1>1, <1>2, <1>9, <3>3, <3>4
  <2>2. run[0].pc = "clear" =>
          /\ Shaped(run[0].image) /\ run[0].image.failed[0] = NoneFailed
          /\ ToSet(run[0].image.disk) = ToSet(run[0].devs) /\ Read' \subseteq holds'[0]
    BY <1>1, <1>2 DEF Intact, Whole, Busy
  <2> QED
    BY <1>1, <2>1, <2>2 DEF Busy
<1> QED
  BY <1>4, <1>5, <1>6, <1>11, <1>18, <1>19 DEF Whole

\* At first both members work, are listed and have the data.
LEMMA WholeInit ==
  ASSUME NumVols = 1, Init
  PROVE  Whole
<1>1. Vol = {0} /\ 0 \in Proc /\ Original \in [1 .. 2 -> Disk] /\ Original[1] # Original[2]
  BY ConstantsAssumption DEF Vol, Proc, NumMembers
<1>2. /\ map[0].devs = Original /\ map[0].sync = FALSE /\ holds[0] = ToSet(Original)
      /\ news[0] = <<>> /\ run[0] = Idle /\ up = Disk
  BY <1>1 DEF Init
<1>3. /\ Original \in Seq(Disk) /\ Len(Original) = 2 /\ Original # <<>>
      /\ ToSet(Original) = {Original[1], Original[2]} /\ Original[1] \in Disk /\ Original[2] \in Disk
  <2>1. Original \in Seq(Disk) /\ DOMAIN Original = 1 .. 2
    BY <1>1, SeqDef
  <2>2. Len(Original) = 2
    BY <2>1, LenProperties
  <2> QED
    BY <2>1, <2>2, ShortSeq
<1>4. /\ \A d \in Disk : d \in ToSet(Original) => meta[d] = Fresh
      /\ \A d \in Disk : d \notin ToSet(Original) => meta[d].kind # "member"
  BY DEF Init, Blank
<1>5. Fresh.kind = "member" /\ Fresh.disk = Original /\ Fresh.failed[0] = NoneFailed
  BY <1>1 DEF Fresh
<1> HIDE DEF Fresh
<1>6. Read = ToSet(Original)
  BY <1>2, <1>3, <1>4, <1>5 DEF Read
<1>7. \A d \in Read : Shaped(meta[d])
  BY <1>1, <1>3, <1>4, <1>5, <1>6 DEF Shaped
<1>8. FirstStays
  BY <1>2, <1>3, <1>4, <1>5, <1>6 DEF FirstStays, First, Free, Idle
<1>9. CleanHolds
  BY <1>2, <1>3, <1>6 DEF CleanHolds
<1>10. LegsHold
  BY <1>2, <1>3, <1>6 DEF LegsHold
<1>11. Pending /\ Busy
  BY <1>2 DEF Pending, Busy, Idle, ToSet
<1> QED
  BY <1>7, <1>8, <1>9, <1>10, <1>11 DEF Whole

\* While the tool begins no rebuild there is nothing for it to go on with, and
\* the daemon rebuilds the only volume alone.
LEMMA ToolRests ==
  ASSUME NumVols = 1, Typed, Free(Tool), [Next]_vars, [~ToolRebuilds]_vars
  PROVE  Free(Tool)' /\ [Serial]_vars
<1>1. Proc = {0, Tool}
  BY OneProcess
<1>2. CASE UNCHANGED vars
  BY <1>2 DEF vars, Free
<1>3. CASE ~ToolRebuilds
  <2>1. Free(Tool)'
    BY <1>3 DEF ToolRebuilds, Free
  <2>2. Serial
    BY <1>1, <2>1 DEF Serial, Free
  <2> QED
    BY <2>1, <2>2
<1> QED
  BY <1>2, <1>3

\* At the start both members are clean and have the data.
LEMMA DaemonInit == ASSUME NumVols = 1, Init PROVE DaemonInv
BY SerialInit, WholeInit DEF DaemonInv, Init, Proc, Free, Idle

\* Every step leaves the data and what is known of it as they belong together.
LEMMA WholeStep ==
  ASSUME NumVols = 1, Intact, Alone, Free(Tool), Free(Tool)', Noticed, Noticed', [Next]_vars,
         count' \in [Bounded -> Nat], count'["boot"] >= count["boot"]
  PROVE  Whole'
<1>1. Vol = {0} /\ 0 \in Proc /\ Tool \in Proc /\ Tool # 0 /\ run \in [Proc -> Activity]
  BY OneProcess DEF Intact
<1>2. ASSUME NEW p \in Proc, Refuse(p, 0) PROVE Whole'
  BY <1>2, WholeRefuse
<1>3. ~Works(Tool) /\ ~Kill
  BY DEF Works, Write, Reload, Kill, Free
<1>4. ~StartRebuild(Tool, 0) /\ ~Resume(Tool, 0)
  <2>1. ASSUME NEW r, Goes(Tool, r) PROVE run'[Tool] = r
    BY <1>1, <2>1 DEF Goes
  <2>2. ASSUME StartRebuild(Tool, 0) PROVE run'[Tool].pc = "write"
    BY <2>1, <2>2 DEF StartRebuild
  <2>3. ASSUME Resume(Tool, 0) PROVE run'[Tool].pc = "reload"
    BY <2>1, <2>3 DEF Resume
  <2> QED
    BY <2>2, <2>3 DEF Free
<1>5. CASE Rebuild(Tool, 0)
  BY <1>1, <1>2, <1>4, <1>5 DEF Rebuild
<1>6. CASE Rebuild(0, 0)
  BY <1>1, <1>2, <1>6, WholeStart, NoResume DEF Rebuild
<1>7. CASE Works(0)
  BY <1>7, WholeWrite, WholeReload DEF Works
<1>8. CASE Thread(0)
  BY <1>6, <1>7, <1>8, WholeEnd DEF Thread
<1>9. CASE UNCHANGED vars
  BY <1>9, WholeStays DEF vars
<1>10. CASE Next
  BY <1>1, <1>3, <1>5, <1>8, <1>10, WholeSynced, WholeActivate, WholeFail, WholeReboot DEF Next
<1> QED
  BY <1>9, <1>10

\* Every step that begins no run of the tool keeps the invariant.
LEMMA DaemonStep ==
  ASSUME NumVols = 1, DaemonInv, [Next]_vars, [~ToolRebuilds]_vars
  PROVE  DaemonInv'
<1>1. Typed /\ SerialInv /\ Alone /\ Free(Tool)
  BY DEF DaemonInv, SerialInv
<1>2. Free(Tool)' /\ [Serial]_vars
  BY <1>1, ToolRests
<1>3. SerialInv'
  BY <1>1, <1>2, SerialStep
<1>4. count \in [Bounded -> Nat] /\ count' \in [Bounded -> Nat]
      /\ \A e \in Bounded : count'[e] >= count[e]
  BY <1>1, StepCounts DEF Typed, TypeOK
<1>5. Noticed' => Noticed
  BY <1>4 DEF Noticed, Bounded
<1>6. up' \subseteq up
  <2>1. ASSUME NEW p, NEW v, Rebuild(p, v) PROVE up' = up
    BY <2>1, Zenon DEF Rebuild, StartRebuild, Resume, Refuse
  <2>2. ASSUME NEW p, Works(p) PROVE up' = up
    BY <2>2, Zenon DEF Works, Write, Reload
  <2>3. ASSUME NEW v, Thread(v) \/ Synced(v) \/ Rebuild(Tool, v) PROVE up' = up
    BY <2>1, <2>2, <2>3, Zenon DEF Thread, Synced, EndRebuild
  <2>4. CASE Activate \/ Kill \/ Reboot \/ \E d \in Disk : Fail(d)
    BY <2>4 DEF Activate, Kill, Reboot, Fail
  <2>5. CASE UNCHANGED vars
    BY <2>5 DEF vars
  <2> QED
    BY <2>2, <2>3, <2>4, <2>5 DEF Next
<1>7. ~MasterForgotten' => ~MasterForgotten
  BY <1>4, <1>6 DEF MasterForgotten, Bounded
<1>8. ASSUME Noticed', ~MasterForgotten' PROVE Whole'
  <2>1. Noticed /\ Intact
    BY <1>1, <1>5, <1>7, <1>8 DEF DaemonInv, SerialInv, Intact
  <2>2. count'["boot"] >= count["boot"]
    BY <1>4 DEF Bounded
  <2> QED
    BY <1>1, <1>2, <1>4, <1>8, <2>1, <2>2, WholeStep
<1> QED
  BY <1>2, <1>3, <1>8 DEF DaemonInv

\* A group with one volume that the daemon rebuilds by itself, with disks that
\* die, restarts of the machine and "dmraid -ay" in between: metadata that calls
\* the volume "ok" is found only on disks with all of its data.
THEOREM DaemonOk ==
  ASSUME NumVols = 1
  PROVE  Spec /\ [][~ToolRebuilds]_vars => []OkHasData
<1>1. Init => DaemonInv
  BY DaemonInit
<1>2. DaemonInv /\ [Next]_vars /\ [~ToolRebuilds]_vars => DaemonInv'
  BY DaemonStep
<1>3. DaemonInv => OkHasData
  <2> SUFFICES ASSUME DaemonInv, NEW v \in Monitored, Noticed, ~MasterForgotten, Read # {},
                      Status(v) = "ok"
               PROVE  Read \subseteq holds[v]
    BY DEF OkHasData
  <2>1. v \in Vol
    BY ConstantsAssumption
  <2>2. v = 0 /\ Whole
    BY <2>1, OneVol DEF DaemonInv
  <2>3. \A d \in Read : meta[d].failed[0] = NoneFailed
    BY <2>1, <2>2, StatusIs
  <2> QED
    BY <2>2, <2>3 DEF Whole, CleanHolds
<1> QED
  BY <1>1, <1>2, <1>3, PTL DEF Spec

\* In the same circumstances the kernel copies from a disk with the data only:
\* the disk to be rebuilt is the last leg.
THEOREM DaemonMaster ==
  ASSUME NumVols = 1
  PROVE  Spec /\ [][~ToolRebuilds]_vars => []MasterHasData
<1>1. Init => DaemonInv
  BY DaemonInit
<1>2. DaemonInv /\ [Next]_vars /\ [~ToolRebuilds]_vars => DaemonInv'
  BY DaemonStep
<1>3. DaemonInv => MasterHasData
  BY OneVol DEF DaemonInv, Whole, LegsHold, MasterHasData, CopiedFromMaster
<1> QED
  BY <1>1, <1>2, <1>3, PTL DEF Spec
=============================================================================
