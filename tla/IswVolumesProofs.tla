-------------------------- MODULE IswVolumesProofs --------------------------
(***************************************************************************)
(* The volumes on the disks, for any disks, lists, names, sizes and        *)
(* strides, and any number of commands and of writes that fail.            *)
(***************************************************************************)
EXTENDS IswVolumes, FiniteSetTheorems, SequenceTheorems, WellFoundedInduction, TLAPS

-----------------------------------------------------------------------------
(* Numbers.                                                                *)

\* A set of naturals has a least element, which Min() picks.
LEMMA Least ==
  ASSUME NEW S, S \subseteq Nat, S # {}
  PROVE  Min(S) \in S /\ \A y \in S : Min(S) <= y
<1> DEFINE R == {ss \in Nat \X Nat : ss[1] < ss[2]}
<1>1. IsWellFoundedOn(R, Nat)
  BY NatLessThanWellFounded DEF OpToRel
<1>2. PICK x \in S : \A y \in S : ~(<<y, x>> \in R)
  BY <1>1, WFMin, Zenon
<1>3. \A y \in S : x <= y
  <2> TAKE y \in S
  <2>1. x \in Nat /\ y \in Nat /\ ~(<<y, x>> \in R)
    BY <1>2
  <2>2. y < x => <<y, x>> \in R
    BY <2>1
  <2> QED
    BY <2>1, <2>2
<1> QED
  BY <1>3 DEF Min

\* Division by the number of data disks.
LEMMA DivBounds ==
  ASSUME NEW a \in Nat, NEW k \in 1 .. 6
  PROVE  a \div k \in Nat /\ k * (a \div k) <= a /\ a < k * (a \div k) + k
<1>1. CASE k = 1 BY <1>1
<1>2. CASE k = 2 BY <1>2
<1>3. CASE k = 3 BY <1>3
<1>4. CASE k = 4 BY <1>4
<1>5. CASE k = 5 BY <1>5
<1>6. CASE k = 6 BY <1>6
<1> QED BY <1>1, <1>2, <1>3, <1>4, <1>5, <1>6

Strip == {8, 16, 32, 64, 128, 256}

\* Division by the size of a strip.
LEMMA StripBounds ==
  ASSUME NEW a \in Nat, NEW s \in Strip
  PROVE  a \div s \in Nat /\ s * (a \div s) <= a /\ a < s * (a \div s) + s
<1>1. CASE s = 8 BY <1>1
<1>2. CASE s = 16 BY <1>2
<1>3. CASE s = 32 BY <1>3
<1>4. CASE s = 64 BY <1>4
<1>5. CASE s = 128 BY <1>5
<1>6. CASE s = 256 BY <1>6
<1> QED BY <1>1, <1>2, <1>3, <1>4, <1>5, <1>6 DEF Strip

\* _get_stride_size() gives one of the strides it knows.
LEMMA StridesAre ==
  ASSUME NEW level \in Levels \ {"spare"}, NEW stride \in Nat
  PROVE  StrideSize(level, stride) \in Strip
<1> DEFINE fit == {s \in Options(level) : s >= stride}
<1>1. Options(level) \subseteq Strip /\ 128 \in Options(level)
  BY DEF Options, Levels, Strip
<1>2. CASE stride = 0
  BY <1>2 DEF StrideSize, Strip
<1>3. CASE stride # 0 /\ fit # {}
  <2>1. fit \subseteq Nat
    BY <1>1 DEF Strip
  <2>2. Min(fit) \in fit
    BY <1>3, <2>1, Least
  <2> QED
    BY <1>1, <1>3, <2>2 DEF StrideSize
<1>4. CASE stride # 0 /\ fit = {}
  <2>1. Max(Options(level)) \in Options(level)
    BY DEF Max, Options, Levels
  <2> QED
    BY <1>1, <1>4, <2>1 DEF StrideSize
<1> QED
  BY <1>2, <1>3, <1>4

\* The stripes of k data disks: the strips of a volume on all of them hold its
\* size but for less than a strip, and are less than a stripe more.
LEMMA StripesBounds ==
  ASSUME NEW size \in Nat, NEW s \in Strip, NEW k \in 1 .. 6
  PROVE  LET n == Stripes(size, s, k) * s
         IN  /\ n \in Nat
             /\ n * k > size - s
             /\ n * k <= size + s * (k - 1)
<1> DEFINE q == size \div s
           d == Stripes(size, s, k)
           n == d * s
<1>1. q \in Nat /\ s * q <= size /\ size < s * q + s
  BY StripBounds
<1>2. d \in Nat /\ k * d <= q + k - 1 /\ q + k - 1 < k * d + k
  <2>1. q + k - 1 \in Nat /\ d = (q + k - 1) \div k
    BY <1>1 DEF Stripes
  <2> QED
    BY <2>1, DivBounds
<1>3. q <= k * d /\ k * d <= q + (k - 1) /\ k * d \in Nat /\ k - 1 \in Nat
  BY <1>1, <1>2
<1> HIDE DEF d, q
<1>4. s * q <= s * (k * d) /\ s * (k * d) <= s * q + s * (k - 1)
  <2>1. \A x, y \in Nat : x <= y => s * x <= s * y
    BY DEF Strip
  <2>2. \A x, y, z \in Nat : x <= y + z => s * x <= s * y + s * z
    BY DEF Strip
  <2> QED
    BY <1>1, <1>3, <2>1, <2>2
<1>5. n \in Nat /\ n * k = s * (k * d)
  BY <1>2 DEF Strip
<1> QED
  BY <1>1, <1>4, <1>5 DEF d, Strip

\* A volume no larger than what k disks with x blocks each can hold takes less
\* than a strip more of each of them.
LEMMA DataBound ==
  ASSUME NEW x \in Nat, NEW size \in Nat, NEW s \in Strip, NEW k \in 1 .. 6,
         NEW v \in {1, 2}, size <= (x * k) \div v
  PROVE  Stripes(size, s, k) * s * v < x + 512
<1> DEFINE n == Stripes(size, s, k) * s
<1>1. n \in Nat /\ n * k <= size + s * (k - 1)
  BY StripesBounds
<1>2. v * size <= x * k
  <2>1. x * k \in Nat
    BY Z3
  <2>2. CASE v = 1 BY <2>1, <2>2
  <2>3. CASE v = 2 BY <2>1, <2>3
  <2> QED BY <2>2, <2>3
<1> HIDE DEF n
<1>3. s * v <= 512 /\ s \in Nat /\ s > 0
  BY DEF Strip
<1>4. v * (n * k) <= x * k + v * (s * (k - 1))
  <2>1. s * (k - 1) \in Nat /\ n * k \in Nat
    BY <1>1, <1>3
  <2> QED BY <1>1, <1>2, <2>1
<1>5. n * v < x + s * v
  <2>1. CASE k = 1 BY <1>1, <1>3, <1>4, <2>1
  <2>2. CASE k = 2 BY <1>1, <1>3, <1>4, <2>2
  <2>3. CASE k = 3 BY <1>1, <1>3, <1>4, <2>3
  <2>4. CASE k = 4 BY <1>1, <1>3, <1>4, <2>4
  <2>5. CASE k = 5 BY <1>1, <1>3, <1>4, <2>5
  <2>6. CASE k = 6 BY <1>1, <1>3, <1>4, <2>6
  <2> QED BY <2>1, <2>2, <2>3, <2>4, <2>5, <2>6
<1> QED
  BY <1>1, <1>3, <1>5 DEF n

\* When nothing is left _cal_array_size() gives a size of 1, which is no stripe.
LEMMA NoStripe ==
  ASSUME NEW size \in {0, 1}, NEW s \in Strip, NEW k \in 1 .. 6
  PROVE  Stripes(size, s, k) = 0
<1>1. size \div s = 0
  <2>1. size \div s \in Nat /\ s * (size \div s) <= size
    BY StripBounds
  <2> QED BY <2>1 DEF Strip
<1>2. (k - 1) \div k = 0
  <2>1. (k - 1) \div k \in Nat /\ k * ((k - 1) \div k) <= k - 1
    BY DivBounds
  <2> HIDE DEF Strip
  <2> DEFINE z == (k - 1) \div k
  <2>2. z \in Nat /\ k * z <= k - 1
    BY <2>1
  <2> HIDE DEF z
  <2>3. z = 0
    <3>1. CASE k = 1 BY <2>2, <3>1
    <3>2. CASE k = 2 BY <2>2, <3>2
    <3>3. CASE k = 3 BY <2>2, <3>3
    <3>4. CASE k = 4 BY <2>2, <3>4
    <3>5. CASE k = 5 BY <2>2, <3>5
    <3>6. CASE k = 6 BY <2>2, <3>6
    <3> QED BY <3>1, <3>2, <3>3, <3>4, <3>5, <3>6
  <2> QED BY <2>3 DEF z
<1> QED
  BY <1>1, <1>2 DEF Stripes

-----------------------------------------------------------------------------
(* The layout of one volume.                                               *)

\* What Sized says of a volume on n disks.
Rounded(v, n) ==
  ((v.length - Journal) * (n - Sub(v.level))) \div Div(v.level) > v.size - v.strip

\* The number of disks that hold data, for a number of disks that is accepted.
LEMMA DataDisks ==
  ASSUME NEW level \in Levels \ {"spare"}, NEW n \in MinDisks(level) .. MaxDisks(level)
  PROVE  /\ n \in Nat /\ n - Sub(level) \in 1 .. 6
         /\ Div(level) \in {1, 2} /\ Sub(level) \in {0, 1}
<1>1. CASE level = "raid0" BY <1>1 DEF MinDisks, MaxDisks, Sub, Div
<1>2. CASE level = "raid1" BY <1>2 DEF MinDisks, MaxDisks, Sub, Div
<1>3. CASE level = "raid10" BY <1>3 DEF MinDisks, MaxDisks, Sub, Div
<1>4. CASE level = "raid5" BY <1>4 DEF MinDisks, MaxDisks, Sub, Div
<1> QED BY <1>1, <1>2, <1>3, <1>4 DEF Levels

\* The smallest disk of a list.
LEMMA SmallestDisk ==
  ASSUME NEW list \in Seq(Disk), list # <<>>
  PROVE  LET disk == Min({Sectors[list[i]] : i \in DOMAIN list})
         IN  disk \in Nat /\ \A d \in ToSet(list) : disk <= Sectors[d]
<1> DEFINE S == {Sectors[list[i]] : i \in DOMAIN list}
<1>1. DOMAIN list = 1 .. Len(list) /\ Len(list) \in Nat \ {0} /\ \A i \in DOMAIN list : list[i] \in Disk
  BY EmptySeq, LenProperties, ElementOfSeq
<1>2. S \subseteq Nat /\ S # {}
  BY <1>1, ConstantsAssumption
<1>3. Min(S) \in S /\ \A y \in S : Min(S) <= y
  BY <1>2, Least
<1> QED
  BY <1>2, <1>3 DEF ToSet

\* Of one candidate for what is left, Max() takes that one.
LEMMA One == ASSUME NEW x \in Nat PROVE Max({x}) = x
BY DEF Max

\* _cal_array_size() is the size of the data disks with x blocks on each.
LEMMA SizeOf ==
  ASSUME NEW list \in Seq(Disk), list # <<>>, NEW level \in Levels \ {"spare"},
         NEW vols, Len(list) \in MinDisks(level) .. MaxDisks(level),
         NEW x \in Nat, Left(list, vols) = {x}
  PROVE  \/ ArraySize(list, level, vols) = 0
         \/ ArraySize(list, level, vols) = (x * (Len(list) - Sub(level))) \div Div(level)
BY One DEF ArraySize

\* The size of an array is a number of blocks.
LEMMA DivType ==
  ASSUME NEW x \in Nat, NEW k \in 1 .. 6, NEW v \in {1, 2}
  PROVE  (x * k) \div v \in Nat
<1>1. x * k \in Nat
  BY Z3
<1>2. CASE v = 1 BY <1>1, <1>2
<1>3. CASE v = 2 BY <1>1, <1>3
<1> QED BY <1>2, <1>3

\* A first volume: two reserves of each disk are left over.
LEMMA FirstSize ==
  ASSUME NEW list \in Seq(Disk), list # <<>>, NEW level \in Levels \ {"spare"},
         Len(list) \in MinDisks(level) .. MaxDisks(level)
  PROVE  LET total == ArraySize(list, level, <<>>)
         IN  /\ total \in Nat
             /\ \/ total \in {0, 1}
                \/ \E x \in Nat :
                     /\ \A d \in ToSet(list) : x + 2 * DiskReserved <= Sectors[d]
                     /\ total = (x * (Len(list) - Sub(level))) \div Div(level)
<1> DEFINE disk  == Min({Sectors[list[i]] : i \in DOMAIN list})
           total == ArraySize(list, level, <<>>)
<1>1. disk \in Nat /\ \A d \in ToSet(list) : disk <= Sectors[d] /\ Sectors[d] \in Nat
  <2>1. \A d \in ToSet(list) : Sectors[d] \in Nat
    BY ConstantsAssumption, ElementOfSeq, LenProperties DEF ToSet
  <2> QED BY <2>1, SmallestDisk
<1>2. DiskReserved \in Nat
  BY DEF DiskReserved, VolumeReserved, Journal, MigrOptSpace
<1>3. Left(list, <<>>) = IF disk - DiskReserved > DiskReserved
                         THEN {disk - DiskReserved - DiskReserved} ELSE {}
  BY DEF Left
<1> HIDE DEF disk
<1>4. CASE disk - DiskReserved > DiskReserved
  <2> DEFINE x == disk - DiskReserved - DiskReserved
  <2>1. x \in Nat /\ Left(list, <<>>) = {x}
    BY <1>1, <1>2, <1>3, <1>4
  <2>2. \A d \in ToSet(list) : x + 2 * DiskReserved <= Sectors[d]
    BY <1>1, <1>2
  <2>3. total = 0 \/ total = (x * (Len(list) - Sub(level))) \div Div(level)
    BY <2>1, SizeOf
  <2>4. (x * (Len(list) - Sub(level))) \div Div(level) \in Nat
    BY <2>1, DivType, DataDisks
  <2> QED BY <2>1, <2>2, <2>3, <2>4
<1>5. CASE ~(disk - DiskReserved > DiskReserved)
  BY <1>3, <1>5 DEF ArraySize
<1> QED BY <1>4, <1>5

\* A second volume behind a first one: two reserves are left over beside it.
LEMMA SecondSize ==
  ASSUME NEW list \in Seq(Disk), list # <<>>, NEW level \in Levels \ {"spare"},
         Len(list) \in MinDisks(level) .. MaxDisks(level),
         NEW first, first.start \in Nat, first.length \in Nat,
         ArraySize(list, level, <<first>>) >= MinVolumeSize
  PROVE  LET total == ArraySize(list, level, <<first>>)
         IN  /\ total \in Nat
             /\ first.start = 0 =>
                  \E x \in Nat :
                     /\ \A d \in ToSet(list) : x + first.length + 2 * DiskReserved <= Sectors[d]
                     /\ total = (x * (Len(list) - Sub(level))) \div Div(level)
<1> DEFINE disk  == Min({Sectors[list[i]] : i \in DOMAIN list})
           vols  == <<first>>
           total == ArraySize(list, level, vols)
           left  == disk - DiskReserved - (first.length + DiskReserved)
<1>1. disk \in Nat /\ \A d \in ToSet(list) : disk <= Sectors[d] /\ Sectors[d] \in Nat
  <2>1. \A d \in ToSet(list) : Sectors[d] \in Nat
    BY ConstantsAssumption, ElementOfSeq, LenProperties DEF ToSet
  <2> QED BY <2>1, SmallestDisk
<1>2. DiskReserved \in Nat /\ VolumeReserved \in Nat /\ MinVolumeSize > 1
  BY DEF DiskReserved, VolumeReserved, Journal, MigrOptSpace, MinVolumeSize
<1>3. vols # <<>> /\ vols[1] = first
  OBVIOUS
<1>4. Left(list, vols) =
        IF first.start = 0
        THEN IF disk - DiskReserved > first.length + DiskReserved THEN {left} ELSE {}
        ELSE IF first.start >= VolumeReserved THEN {first.start - VolumeReserved} ELSE {}
  BY <1>3 DEF Left
<1> HIDE DEF disk, vols
<1>5. Left(list, vols) # {} /\ total # 0
  <2>1. total # 0 /\ total # 1
    BY <1>2 DEF MinVolumeSize, vols
  <2> QED BY <2>1 DEF ArraySize
<1>6. \E x \in Nat : /\ Left(list, vols) = {x}
                     /\ first.start = 0 => x = left
  BY <1>1, <1>2, <1>4, <1>5
<1>7. PICK x \in Nat : Left(list, vols) = {x} /\ (first.start = 0 => x = left)
  BY <1>6
<1>8. total = (x * (Len(list) - Sub(level))) \div Div(level)
  BY <1>5, <1>7, SizeOf
<1>9. total \in Nat
  BY <1>8, DivType, DataDisks
<1>10. first.start = 0 =>
         \A d \in ToSet(list) : x + first.length + 2 * DiskReserved <= Sectors[d]
  BY <1>1, <1>2, <1>7
<1> QED
  BY <1>8, <1>9, <1>10 DEF vols

\* What isw_config_map() makes of a size that the command accepted.
LEMMA VolumeOf ==
  ASSUME NEW name \in Name, NEW level \in Levels \ {"spare"},
         NEW n \in MinDisks(level) .. MaxDisks(level), NEW strip \in Strip, NEW size \in Nat, NEW start \in Nat
  PROVE  LET vol == Volume(name, level, n, strip, size, start)
         IN  /\ vol \in Volumes /\ Rounded(vol, n)
             /\ vol.name = name /\ vol.start = start
             /\ vol.length = Stripes(size, strip, n - Sub(level)) * strip * Div(level) + Journal
<1> DEFINE k   == n - Sub(level)
           s   == Stripes(size, strip, k) * strip
           vol == Volume(name, level, n, strip, size, start)
<1>1. k \in 1 .. 6 /\ Div(level) \in {1, 2}
  BY DataDisks
<1>2. s \in Nat /\ s * k > size - strip
  BY <1>1, StripesBounds
<1>3. strip \in Nat \ {0}
  BY DEF Strip
<1>4. vol = [name |-> name, level |-> level, size |-> size, strip |-> strip,
             start |-> start, length |-> s * Div(level) + Journal]
  BY DEF Volume
<1> HIDE DEF k, s, vol
<1>5. vol \in Volumes
  <2>1. s * Div(level) + Journal \in Nat
    BY <1>1, <1>2 DEF Journal
  <2> QED
    BY <1>3, <1>4, <2>1 DEF Volumes
<1>6. Rounded(vol, n)
  <2>1. (vol.length - Journal) = s * Div(level) /\ vol.level = level
    BY <1>1, <1>2, <1>4 DEF Journal
  <2>2. (s * Div(level) * k) \div Div(level) = s * k
    <3>1. s * k \in Nat /\ s * Div(level) * k = (s * k) * Div(level)
      BY <1>1, <1>2
    <3>2. CASE Div(level) = 1 BY <3>1, <3>2
    <3>3. CASE Div(level) = 2 BY <3>1, <3>3
    <3> QED BY <1>1, <3>2, <3>3
  <2> QED
    BY <1>2, <1>4, <2>1, <2>2 DEF Rounded, k
<1> QED
  BY <1>4, <1>5, <1>6 DEF s, k, vol

\* A first volume ends before the metadata of each of its disks.
LEMMA FirstVolume ==
  ASSUME NEW list \in Seq(Disk), list # <<>>, NEW name \in Name,
         NEW level \in Levels \ {"spare"}, Len(list) \in MinDisks(level) .. MaxDisks(level),
         NEW strip \in Strip, NEW size \in Nat, size <= ArraySize(list, level, <<>>)
  PROVE  \A d \in ToSet(list) :
           End(Volume(name, level, Len(list), strip, size, 0)) <= MetadataStart(d)
<1> DEFINE n     == Len(list)
           k     == n - Sub(level)
           s     == Stripes(size, strip, k) * strip * Div(level)
           total == ArraySize(list, level, <<>>)
           vol   == Volume(name, level, n, strip, size, 0)
<1>1. vol \in Volumes /\ vol.start = 0 /\ vol.length = s + Journal
  <2> HIDE DEF n
  <2>1. n \in MinDisks(level) .. MaxDisks(level) /\ 0 \in Nat
    BY DEF n
  <2>2. /\ vol \in Volumes /\ Rounded(vol, n) /\ vol.name = name /\ vol.start = 0
        /\ vol.length = Stripes(size, strip, n - Sub(level)) * strip * Div(level) + Journal
    BY <2>1, VolumeOf
  <2> QED BY <2>2
<1>2. k \in 1 .. 6 /\ Div(level) \in {1, 2}
  BY DataDisks
<1>3. \A d \in ToSet(list) : Sectors[d] \in Nat /\ Sectors[d] > Journal + MetadataBlocks
  BY ConstantsAssumption, ElementOfSeq, LenProperties DEF ToSet
<1>4. \/ total \in {0, 1}
      \/ \E x \in Nat : /\ \A d \in ToSet(list) : x + 2 * DiskReserved <= Sectors[d]
                        /\ total = (x * k) \div Div(level)
  BY FirstSize
<1>5. CASE total \in {0, 1}
  <2>1. size \in {0, 1}
    BY <1>5
  <2>2. s = 0
    <3>1. Stripes(size, strip, k) = 0
      BY <2>1, <1>2, NoStripe
    <3> QED BY <1>2, <3>1 DEF Strip
  <2>3. vol.length = Journal
    BY <1>1, <2>2 DEF Journal
  <2> HIDE DEF vol, s
  <2> QED
    BY <1>1, <1>3, <2>3 DEF End, MetadataStart, Journal, MetadataBlocks, vol
<1>6. CASE \E x \in Nat : /\ \A d \in ToSet(list) : x + 2 * DiskReserved <= Sectors[d]
                          /\ total = (x * k) \div Div(level)
  <2>1. PICK x \in Nat : /\ \A d \in ToSet(list) : x + 2 * DiskReserved <= Sectors[d]
                         /\ total = (x * k) \div Div(level)
    BY <1>6
  <2>2. s < x + 512 /\ s \in Nat
    <3> HIDE DEF k
    <3>1. s < x + 512
      BY <1>2, <2>1, DataBound
    <3>2. Stripes(size, strip, k) * strip \in Nat
      BY <1>2, StripesBounds
    <3> QED BY <1>2, <3>1, <3>2
  <2> HIDE DEF vol, s
  <2> QED
    BY <1>1, <1>3, <2>1, <2>2 DEF End, MetadataStart, Journal, MetadataBlocks,
       DiskReserved, VolumeReserved, MigrOptSpace, vol
<1> QED BY <1>4, <1>5, <1>6

Apart(v, w) == End(v) <= w.start \/ End(w) <= v.start

\* A second volume goes behind the first or before it, and ends before the
\* metadata where the first does.
LEMMA SecondVolume ==
  ASSUME NEW list \in Seq(Disk), list # <<>>, NEW name \in Name,
         NEW level \in Levels \ {"spare"}, Len(list) \in MinDisks(level) .. MaxDisks(level),
         NEW strip \in Strip, NEW first \in Volumes,
         \A d \in ToSet(list) : End(first) <= MetadataStart(d),
         NEW total, total = ArraySize(list, level, <<first>>), total >= MinVolumeSize,
         NEW start \in Start(first, level, Len(list), strip, total)
  PROVE  LET vol == Volume(name, level, Len(list), strip, total, start)
         IN  /\ vol \in Volumes /\ Rounded(vol, Len(list))
             /\ vol.name = name
             /\ \A d \in ToSet(list) : End(vol) <= MetadataStart(d)
             /\ Apart(first, vol)
<1> DEFINE n   == Len(list)
           k   == n - Sub(level)
           s   == Stripes(total, strip, k) * strip * Div(level)
           vol == Volume(name, level, n, strip, total, start)
<1>1. first.start \in Nat /\ first.length \in Nat
  BY DEF Volumes
<1>2. /\ total \in Nat
      /\ first.start = 0 =>
           \E x \in Nat : /\ \A d \in ToSet(list) : x + first.length + 2 * DiskReserved <= Sectors[d]
                          /\ total = (x * k) \div Div(level)
  BY <1>1, SecondSize
<1>3. k \in 1 .. 6 /\ Div(level) \in {1, 2}
  BY DataDisks
<1>4. start \in Nat
  <2>1. start = first.length + MigrOptSpace \/ start = 0
    BY Zenon DEF Start
  <2> QED BY <1>1, <2>1 DEF MigrOptSpace
<1>5. /\ vol \in Volumes /\ Rounded(vol, n) /\ vol.name = name
      /\ vol.start = start /\ vol.length = s + Journal
  <2> HIDE DEF n
  <2>1. n \in MinDisks(level) .. MaxDisks(level)
    BY DEF n
  <2>2. /\ vol \in Volumes /\ Rounded(vol, n) /\ vol.name = name /\ vol.start = start
        /\ vol.length = Stripes(total, strip, n - Sub(level)) * strip * Div(level) + Journal
    BY <1>2, <1>4, <2>1, VolumeOf
  <2> QED BY <2>2
<1>6. Volume("", level, n, strip, total, 0).length = s + Journal
  BY DEF Volume
<1>7. s \in Nat
  <2>1. Stripes(total, strip, k) * strip \in Nat
    BY <1>2, <1>3, StripesBounds
  <2> QED BY <1>3, <2>1
<1>8. \A d \in ToSet(list) : Sectors[d] \in Nat
  BY ConstantsAssumption, ElementOfSeq, LenProperties DEF ToSet
<1>9. CASE first.start = 0
  <2>1. PICK x \in Nat : /\ \A d \in ToSet(list) : x + first.length + 2 * DiskReserved <= Sectors[d]
                         /\ total = (x * k) \div Div(level)
    BY <1>2, <1>9
  <2>2. s < x + 512
    <3> HIDE DEF k
    <3> QED BY <1>2, <1>3, <2>1, DataBound
  <2>3. start = first.length + MigrOptSpace
    BY <1>9 DEF Start
  <2> HIDE DEF vol, s
  <2>4. \A d \in ToSet(list) : End(vol) <= MetadataStart(d)
    <3> TAKE d \in ToSet(list)
    <3>1. x + first.length + 2 * DiskReserved <= Sectors[d] /\ Sectors[d] \in Nat
      BY <1>8, <2>1
    <3>2. End(vol) = first.length + MigrOptSpace + (s + Journal)
      BY <1>5, <2>3 DEF End
    <3> QED
      BY <1>1, <1>7, <2>2, <3>1, <3>2, SMTT(30) DEF MetadataStart, Journal, MetadataBlocks,
         DiskReserved, VolumeReserved, MigrOptSpace
  <2>5. Apart(first, vol)
    BY <1>1, <1>5, <1>9, <2>3 DEF Apart, End, MigrOptSpace
  <2> QED BY <1>5, <2>4, <2>5 DEF vol
<1>10. CASE first.start # 0
  <2>1. start = 0 /\ s + Journal + MigrOptSpace <= first.start
    <3> DEFINE need == Volume("", level, n, strip, total, 0).length + MigrOptSpace
    <3>1. need = s + Journal + MigrOptSpace
      BY <1>6, Zenon
    <3>2. start = 0 /\ ~(need > first.start)
      BY <1>10, Zenon DEF Start
    <3> HIDE DEF s, need
    <3> QED BY <1>1, <1>7, <3>1, <3>2 DEF MigrOptSpace, Journal
  <2> HIDE DEF vol, s
  <2>2. End(vol) <= first.start
    BY <1>1, <1>5, <1>7, <2>1 DEF End, MigrOptSpace, Journal
  <2>3. \A d \in ToSet(list) : End(vol) <= MetadataStart(d)
    BY <1>1, <1>5, <1>7, <1>8, <2>1 DEF End, MetadataStart, MigrOptSpace, Journal, MetadataBlocks
  <2> QED BY <1>5, <2>2, <2>3 DEF Apart, vol
<1> QED BY <1>9, <1>10

-----------------------------------------------------------------------------
(* Disk tables.                                                            *)

\* A list without repetitions, of which each disk is in a table of the same
\* length, has the disks of the table.
LEMMA SameDisks ==
  ASSUME NEW list \in Seq(Disk), NEW t \in Seq(Disk), Len(t) = Len(list),
         IsInjective(list), ToSet(list) \subseteq ToSet(t)
  PROVE  ToSet(t) = ToSet(list)
<1> DEFINE N == 1 .. Len(list)
           f == [i \in N |-> CHOOSE j \in N : t[j] = list[i]]
<1>1. DOMAIN list = N /\ DOMAIN t = N /\ Len(list) \in Nat
  BY LenProperties
<1>2. \A i \in N : f[i] \in N /\ t[f[i]] = list[i]
  BY <1>1 DEF ToSet
<1>3. \A i, j \in N : list[i] = list[j] => i = j
  BY <1>1 DEF IsInjective
<1>4. f \in Injection(N, N)
  <2>1. f \in [N -> N]
    BY <1>2
  <2>2. \A i, j \in N : f[i] = f[j] => i = j
    <3> HIDE DEF f
    <3> QED BY <1>2, <1>3
  <2> HIDE DEF f
  <2> QED BY <2>1, <2>2 DEF Injection, IsInjective
<1>5. IsFiniteSet(N) /\ Cardinality(N) = Cardinality(N)
  BY <1>1, FS_Interval
<1> HIDE DEF f
<1>6. f \in Surjection(N, N)
  BY <1>4, <1>5, FS_Injection
<1>7. \A j \in N : \E i \in N : f[i] = j
  BY <1>6 DEF Surjection
<1>8. \A x \in ToSet(t) : x \in ToSet(list)
  <2> TAKE x \in ToSet(t)
  <2>1. PICK j \in N : t[j] = x
    BY <1>1 DEF ToSet
  <2>2. PICK i \in N : f[i] = j
    BY <1>7
  <2>3. list[i] = x
    BY <1>2, <2>1, <2>2
  <2> QED
    BY <1>1, <2>3 DEF ToSet
<1> QED
  BY <1>8

-----------------------------------------------------------------------------
(* The inductive invariant speaks of every copy of the metadata, those on  *)
(* the disks and those a command still has to write.                       *)

Copies == {[disk |-> d, meta |-> meta[d]] : d \in Disk} \cup ToSet(todo)

\* A copy is blank or of a family that has been made and has the disk.
Owned(d, m) == m = Blank \/ (m.family \in 1 .. next - 1 /\ d \in ToSet(m.disk))

\* The volumes of a copy fit on all disks of its table.
Laid(m) ==
  \A i \in DOMAIN m.vols :
    /\ Rounded(m.vols[i], Len(m.disk))
    /\ \A d \in ToSet(m.disk) : End(m.vols[i]) <= MetadataStart(d)
    /\ \A j \in DOMAIN m.vols : i # j => Apart(m.vols[i], m.vols[j])

\* Two copies of a family have the same disks, and of each name one volume.
Matching(m, n) ==
  m.family = n.family /\ m.family # 0 =>
    /\ m.disk = n.disk
    /\ \A v \in ToSet(m.vols), w \in ToSet(n.vols) : v.name = w.name => v = w

\* A copy has the volume v.
Keeps(v, m) == m.family = v.family /\ m.disk = v.disks /\ v.vol \in ToSet(m.vols)

Hold     == \A c \in Copies : Owned(c.disk, c.meta) /\ Laid(c.meta)
OneTable == \A c, e \in Copies : Matching(c.meta, e.meta)
Kept     == \A v \in whole :
              v.family # 0 /\ \A c \in Copies : c.disk \in ToSet(v.disks) => Keeps(v, c.meta)

IInv == TypeOK /\ Hold /\ OneTable /\ Kept

\* What the invariant says of the properties that are checked.
LEMMA OnDisk ==
  ASSUME IInv, NEW d \in Disk
  PROVE  /\ meta[d] \in Metas /\ Owned(d, meta[d]) /\ Laid(meta[d])
         /\ \A e \in Disk : Matching(meta[d], meta[e])
         /\ \A v \in whole : v.family # 0 /\ (d \in ToSet(v.disks) => Keeps(v, meta[d]))
<1>1. \A e \in Disk : [disk |-> e, meta |-> meta[e]] \in Copies
  BY DEF Copies
<1>2. meta[d] \in Metas
  BY DEF IInv, TypeOK
<1>3. Owned(d, meta[d]) /\ Laid(meta[d])
  BY <1>1 DEF IInv, Hold
<1>4. \A e \in Disk : Matching(meta[d], meta[e])
  BY <1>1 DEF IInv, OneTable
<1>5. \A v \in whole : v.family # 0 /\ (d \in ToSet(v.disks) => Keeps(v, meta[d]))
  BY <1>1 DEF IInv, Kept
<1> QED
  BY <1>2, <1>3, <1>4, <1>5

\* A disk has been read when it is not blank.
LEMMA WhatIsRead ==
  ASSUME IInv, NEW d \in Disk
  PROVE  /\ d \in Read <=> meta[d] # Blank
         /\ d \in Read => meta[d].family \in 1 .. next - 1 /\ d \in ToSet(meta[d].disk)
<1>1. Blank.disk = <<>> /\ ToSet(<<>>) = {}
  BY DEF Blank, ToSet
<1>2. Owned(d, meta[d])
  BY OnDisk
<1> QED
  BY <1>1, <1>2 DEF Read, Owned

\* Blank metadata agrees with all other.
LEMMA BlankIs ==
  /\ Blank \in Metas /\ Laid(Blank)
  /\ \A m : Matching(Blank, m) /\ Matching(m, Blank)
<1>1. Blank \in Metas
  BY DEF Blank, Metas
<1>2. Laid(Blank)
  BY DEF Blank, Laid
<1>3. \A m : Matching(Blank, m) /\ Matching(m, Blank)
  BY DEF Blank, Matching
<1> QED BY <1>1, <1>2, <1>3

\* At the start all disks are blank.
LEMMA InitIInv == ASSUME Init PROVE IInv
<1>1. ToSet(todo) = {}
  BY DEF Init, ToSet
<1>2. \A c \in Copies : c.meta = Blank
  BY <1>1 DEF Init, Copies
<1>3. TypeOK
  <2>1. MaxRuns \in Nat /\ MaxBad \in Nat
    BY ConstantsAssumption
  <2> QED
    BY <2>1, BlankIs DEF Init, TypeOK
<1>4. Hold /\ OneTable
  BY <1>2, BlankIs DEF Hold, OneTable, Owned
<1>5. Kept
  BY DEF Init, Kept
<1> QED
  BY <1>3, <1>4, <1>5 DEF IInv

\* A command that writes m to the disks of list keeps the invariant when m is
\* well laid out, agrees with what is on the disks, and has each volume that
\* is still wanted on them.
LEMMA NewWrites ==
  ASSUME IInv, NEW list \in Seq(Disk), NEW m \in Metas,
         Starts(Writes(list, m)), whole' \subseteq whole, Laid(m),
         m = Blank \/ (m.family \in 1 .. next /\ ToSet(list) \subseteq ToSet(m.disk)),
         Matching(m, m), \A d \in Disk : Matching(m, meta[d]),
         \A v \in whole' : \A d \in ToSet(list) \cap ToSet(v.disks) : Keeps(v, m)
  PROVE  IInv'
<1> DEFINE news == Writes(list, m)
<1>1. /\ todo = <<>> /\ todo' = news /\ meta' = meta /\ bad' = bad
      /\ next' = next + 1 /\ next <= MaxRuns
  BY DEF Starts, Idle
<1>2. DOMAIN list = 1 .. Len(list) /\ Len(list) \in Nat /\ \A i \in DOMAIN list : list[i] \in Disk
  BY LenProperties, ElementOfSeq
<1>3. news \in Seq([disk : Disk, meta : Metas])
  BY <1>2 DEF Writes
<1>4. ToSet(news) = {[disk |-> d, meta |-> m] : d \in ToSet(list)}
  BY DEF Writes, ToSet
<1>5. Copies' = {[disk |-> d, meta |-> meta[d]] : d \in Disk}
                \cup {[disk |-> d, meta |-> m] : d \in ToSet(list)}
  BY <1>1, <1>4 DEF Copies
<1>6. next \in Nat \ {0}
  BY DEF IInv, TypeOK
<1>7. TypeOK'
  <2>1. MaxRuns \in Nat
    BY ConstantsAssumption
  <2>2. next' \in 1 .. MaxRuns + 1
    BY <1>1, <1>6, <2>1
  <2>3. todo' \in Seq([disk : Disk, meta : Metas])
    BY <1>1, <1>3
  <2> QED
    BY <1>1, <2>2, <2>3 DEF IInv, TypeOK
<1>8. Hold'
  <2> SUFFICES ASSUME NEW c \in Copies' PROVE Owned(c.disk, c.meta)' /\ Laid(c.meta)
    BY <1>1 DEF Hold, Laid
  <2>1. CASE \E d \in Disk : c = [disk |-> d, meta |-> meta[d]]
    <3>1. PICK d \in Disk : c = [disk |-> d, meta |-> meta[d]]
      BY <2>1
    <3>2. Owned(d, meta[d]) /\ Laid(meta[d])
      BY OnDisk
    <3>3. Owned(d, meta[d])'
      BY <1>1, <1>6, <3>2 DEF Owned
    <3> QED BY <1>1, <3>1, <3>2, <3>3
  <2>2. CASE \E d \in ToSet(list) : c = [disk |-> d, meta |-> m]
    <3>1. PICK d \in ToSet(list) : c = [disk |-> d, meta |-> m]
      BY <2>2
    <3>2. m = Blank \/ (m.family \in 1 .. next' - 1 /\ d \in ToSet(m.disk))
      BY <1>1, <1>6
    <3> QED BY <3>1, <3>2 DEF Owned
  <2> QED BY <1>5, <2>1, <2>2
<1>9. OneTable'
  <2> SUFFICES ASSUME NEW c \in Copies', NEW e \in Copies' PROVE Matching(c.meta, e.meta)
    BY DEF OneTable
  <2>1. /\ c.meta = m \/ \E d \in Disk : c.meta = meta[d]
        /\ e.meta = m \/ \E d \in Disk : e.meta = meta[d]
    BY <1>5
  <2>2. \A d, x \in Disk : Matching(meta[d], meta[x])
    BY OnDisk
  <2>3. \A d \in Disk : Matching(meta[d], m)
    BY DEF Matching
  <2> QED BY <2>1, <2>2, <2>3
<1>10. Kept'
  <2> SUFFICES ASSUME NEW v \in whole'
               PROVE  v.family # 0 /\ \A c \in Copies' : c.disk \in ToSet(v.disks) => Keeps(v, c.meta)
    BY DEF Kept
  <2>1. v.family # 0
    BY DEF IInv, Kept
  <2>2. \A d \in Disk : d \in ToSet(v.disks) => Keeps(v, meta[d])
    BY OnDisk
  <2>3. \A d \in ToSet(list) : d \in ToSet(v.disks) => Keeps(v, m)
    OBVIOUS
  <2> QED BY <1>5, <2>1, <2>2, <2>3
<1> QED
  BY <1>7, <1>8, <1>9, <1>10 DEF IInv

-----------------------------------------------------------------------------
(* The commands.                                                           *)

\* An order of some disks has these disks, and the first of them.
LEMMA OrderOf ==
  ASSUME NEW group \in SUBSET Disk, NEW devs \in SetToSeqs(group)
  PROVE  /\ devs \in Seq(Disk) /\ ToSet(devs) = group
         /\ group # {} => devs # <<>> /\ devs[1] \in group
<1> DEFINE n == Cardinality(group)
<1>1. IsFiniteSet(group) /\ n \in Nat
  BY ConstantsAssumption, FS_Subset, FS_CardinalityType
<1>2. devs \in [1 .. n -> group] /\ \A i, j \in 1 .. n : i # j => devs[i] # devs[j]
  BY DEF SetToSeqs
<1>3. devs \in Seq(Disk)
  BY <1>1, <1>2
<1>4. devs \in Injection(1 .. n, group)
  BY <1>2 DEF Injection, IsInjective
<1>5. Cardinality(1 .. n) = n
  BY <1>1, FS_Interval
<1> HIDE DEF n
<1>6. devs \in Surjection(1 .. n, group)
  BY <1>1, <1>4, <1>5, FS_Injection DEF n
<1>7. ToSet(devs) = group
  BY <1>2, <1>6 DEF Surjection, ToSet
<1>8. ASSUME group # {} PROVE devs # <<>> /\ devs[1] \in group
  <2>1. n # 0
    BY <1>1, <1>8, FS_EmptySet DEF n
  <2> QED
    BY <1>1, <1>2, <2>1
<1> QED
  BY <1>3, <1>7, <1>8

\* enforce_size_limit() gives a size.
LEMMA EnforcedIs == ASSUME NEW size \in Nat PROVE Enforced(size) \in Nat
<1>1. Enforced(size) = size \/ Enforced(size) = MinVolumeSize
  BY Zenon DEF Enforced
<1> QED
  BY <1>1 DEF MinVolumeSize

\* A new family is on no disk, and its disks are blank.
LEMMA CreateFirstStep ==
  ASSUME IInv, NEW list \in Seq(Disk), list # <<>>, NEW name \in Name, NEW level \in Levels,
         NEW stride \in Nat, NEW size \in Nat,
         Len(list) \in MinDisks(level) .. MaxDisks(level),
         CreateFirst(list, name, level, stride, size), UNCHANGED whole
  PROVE  IInv'
<1> DEFINE total == ArraySize(list, level, <<>>)
           wish  == Enforced(size)
           strip == StrideSize(level, stride)
           given == IF wish = 0 THEN total ELSE wish
           vol   == Volume(name, level, Len(list), strip, given, 0)
           m     == [family |-> next, disk |-> list, vols |-> Table(level, vol)]
<1>1. /\ ToSet(list) \cap Read = {} /\ wish <= total
      /\ Starts(Writes(list, m))
  BY DEF CreateFirst
<1>2. next \in Nat \ {0}
  BY DEF IInv, TypeOK
<1>3. level # "spare" => /\ vol \in Volumes /\ Rounded(vol, Len(list))
                         /\ \A d \in ToSet(list) : End(vol) <= MetadataStart(d)
  <2> SUFFICES ASSUME level # "spare"
               PROVE  /\ vol \in Volumes /\ Rounded(vol, Len(list))
                      /\ \A d \in ToSet(list) : End(vol) <= MetadataStart(d)
    OBVIOUS
  <2>1. level \in Levels \ {"spare"} /\ strip \in Strip
    BY StridesAre
  <2>2. given \in Nat /\ given <= total
    <3>1. total \in Nat
      BY <2>1, FirstSize
    <3>2. wish \in Nat
      BY EnforcedIs
    <3> HIDE DEF total, wish
    <3> QED BY <1>1, <3>1, <3>2
  <2> HIDE DEF strip, given
  <2>3. \A d \in ToSet(list) : End(vol) <= MetadataStart(d)
    BY <2>1, <2>2, FirstVolume
  <2> DEFINE n == Len(list)
  <2> HIDE DEF n
  <2>4. n \in MinDisks(level) .. MaxDisks(level)
    BY DEF n
  <2>5. Volume(name, level, n, strip, given, 0) \in Volumes
        /\ Rounded(Volume(name, level, n, strip, given, 0), n)
    BY <2>1, <2>2, <2>4, VolumeOf
  <2> QED BY <2>3, <2>5 DEF n
<1> HIDE DEF vol
<1>4. m \in Metas
  <2>1. Table(level, vol) \in Seq(Volumes)
    BY <1>3 DEF Table
  <2> QED BY <1>2, <2>1 DEF Metas
<1>5. m.family = next /\ m.disk = list
  OBVIOUS
<1>6. Table(level, vol) = <<>> \/ (level # "spare" /\ Table(level, vol) = <<vol>>)
  BY DEF Table
<1>7. Laid(m)
  <2>1. CASE Table(level, vol) = <<>>
    BY <2>1 DEF Laid
  <2>2. CASE level # "spare" /\ Table(level, vol) = <<vol>>
    <3>1. m.vols = <<vol>>
      BY <2>2
    <3>2. DOMAIN m.vols = {1} /\ m.vols[1] = vol
      BY <3>1
    <3> QED BY <1>3, <1>5, <2>2, <3>2 DEF Laid
  <2> QED BY <1>6, <2>1, <2>2
<1>8. Matching(m, m)
  <2>1. \A v, w \in ToSet(Table(level, vol)) : v = w
    BY <1>6 DEF ToSet
  <2> QED BY <2>1 DEF Matching
<1> HIDE DEF m
<1>9. \A d \in Disk : Matching(m, meta[d])
  <2> TAKE d \in Disk
  <2>1. meta[d] = Blank \/ meta[d].family \in 1 .. next - 1
    BY OnDisk DEF Owned
  <2>2. meta[d].family # next
    BY <1>2, <2>1 DEF Blank
  <2> QED BY <1>5, <2>2 DEF Matching
<1>10. \A v \in whole : \A d \in ToSet(list) \cap ToSet(v.disks) : Keeps(v, m)
  <2> TAKE v \in whole
  <2> TAKE d \in ToSet(list) \cap ToSet(v.disks)
  <2>1. d \in Disk
    BY ElementOfSeq, LenProperties DEF ToSet
  <2>2. meta[d] = Blank
    BY <1>1, <2>1, WhatIsRead
  <2>3. v.family # 0 /\ Keeps(v, meta[d])
    BY <2>1, OnDisk
  <2> QED BY <2>2, <2>3 DEF Keeps, Blank
<1> QED
  BY <1>1, <1>2, <1>4, <1>5, <1>7, <1>8, <1>9, <1>10, NewWrites

\* The disks of a list that match_hd_array() and _find_group() accept.
LEMMA ArrayIs ==
  ASSUME IInv, NEW list \in Seq(Disk), IsInjective(list), NEW f \in Array(list)
  PROVE  /\ f \in 1 .. next - 1 /\ f \in Families /\ ToSet(list) \subseteq Of(f)
         /\ \A d \in Of(f) : /\ meta[d].family = f /\ Len(meta[d].disk) = Len(list)
                             /\ ToSet(meta[d].disk) = ToSet(list)
<1>1. PICK i \in DOMAIN list :
        /\ list[i] \in Read /\ f = meta[list[i]].family
        /\ Len(meta[list[i]].disk) = Len(list)
        /\ ToSet(list) \subseteq ToSet(meta[list[i]].disk)
        /\ ToSet(list) \subseteq Of(f)
  BY Zenon DEF Array
<1> DEFINE e == list[i]
<1>2. e \in Disk /\ e \in Read
  BY <1>1 DEF Read
<1>3. f \in 1 .. next - 1 /\ f \in Families
  BY <1>1, <1>2, WhatIsRead DEF Families
<1>4. ToSet(meta[e].disk) = ToSet(list)
  <2>1. meta[e].disk \in Seq(Disk)
    BY <1>2 DEF IInv, TypeOK, Metas
  <2> QED BY <1>1, <2>1, SameDisks
<1>5. ASSUME NEW d \in Of(f) PROVE meta[d].family = f /\ meta[d].disk = meta[e].disk
  <2>1. d \in Disk /\ meta[d].family = f
    BY DEF Of, Read
  <2>2. Matching(meta[d], meta[e])
    BY <1>2, <2>1, OnDisk
  <2>3. next \in Nat
    BY DEF IInv, TypeOK
  <2> QED BY <1>1, <1>3, <2>1, <2>2, <2>3 DEF Matching
<1> QED
  BY <1>1, <1>3, <1>4, <1>5

\* The table of two volumes.
LEMMA Both == ASSUME NEW v, NEW w PROVE Append(<<v>>, w) = <<v, w>>
<1> DEFINE s == Append(<<v>>, w)
<1>1. <<v>> \in Seq({v, w}) /\ w \in {v, w} /\ Len(<<v>>) = 1 /\ <<v>>[1] = v
  OBVIOUS
<1>2. s \in Seq({v, w}) /\ Len(s) = 2 /\ s[1] = v /\ s[2] = w
  <2>1. \A r \in Seq({v, w}) : Len(r) = 1 =>
          /\ Append(r, w) \in Seq({v, w}) /\ Len(Append(r, w)) = 2
          /\ Append(r, w)[1] = r[1] /\ Append(r, w)[2] = w
    <3> TAKE r \in Seq({v, w})
    <3>1. w \in {v, w}
      OBVIOUS
    <3>2. /\ Append(r, w) \in Seq({v, w}) /\ Len(Append(r, w)) = Len(r) + 1
          /\ \A i \in 1 .. Len(r) : Append(r, w)[i] = r[i]
          /\ Append(r, w)[Len(r) + 1] = w
      BY <3>1, AppendProperties
    <3> QED BY <3>2
  <2> QED BY <1>1, <2>1
<1> HIDE DEF s
<1>3. s = <<v, w>>
  BY <1>2
<1> QED BY <1>3 DEF s

\* A second volume has a new name and goes to all disks of the array, which
\* have the first one.
LEMMA CreateSecondStep ==
  ASSUME IInv, NEW list \in Seq(Disk), list # <<>>, NEW name \in Name, NEW level \in Levels,
         NEW stride \in Nat, Len(list) \in MinDisks(level) .. MaxDisks(level),
         IsInjective(list), level # "spare" => NameUnique(list, name),
         CreateSecond(list, name, level, stride), UNCHANGED whole
  PROVE  IInv'
<1>1. PICK f \in Array(list) : \E devs \in Sorted(Of(f)) :
        LET m     == meta[devs[1]]
            strip == StrideSize(level, stride)
            total == ArraySize(list, level, m.vols)
        IN  /\ level # "spare"
            /\ Len(m.vols) = 1 /\ total >= MinVolumeSize
            /\ \E start \in Start(m.vols[1], level, Len(list), strip, total) :
                 Starts(Writes(list, [m EXCEPT !.vols =
                   Append(@, Volume(name, level, Len(list), strip, total, start))]))
  BY Zenon DEF CreateSecond
<1>2. PICK devs \in Sorted(Of(f)) :
        LET m     == meta[devs[1]]
            strip == StrideSize(level, stride)
            total == ArraySize(list, level, m.vols)
        IN  /\ level # "spare"
            /\ Len(m.vols) = 1 /\ total >= MinVolumeSize
            /\ \E start \in Start(m.vols[1], level, Len(list), strip, total) :
                 Starts(Writes(list, [m EXCEPT !.vols =
                   Append(@, Volume(name, level, Len(list), strip, total, start))]))
  BY <1>1, Zenon
<1> DEFINE m     == meta[devs[1]]
           first == m.vols[1]
           strip == StrideSize(level, stride)
           total == ArraySize(list, level, m.vols)
<1>3. PICK start \in Start(first, level, Len(list), strip, total) :
        Starts(Writes(list, [m EXCEPT !.vols =
          Append(@, Volume(name, level, Len(list), strip, total, start))]))
  BY <1>2, Zenon
<1> DEFINE vol  == Volume(name, level, Len(list), strip, total, start)
           both == [m EXCEPT !.vols = Append(@, vol)]
<1>4. /\ f \in 1 .. next - 1 /\ f \in Families /\ ToSet(list) \subseteq Of(f)
      /\ \A d \in Of(f) : /\ meta[d].family = f /\ Len(meta[d].disk) = Len(list)
                          /\ ToSet(meta[d].disk) = ToSet(list)
  BY ArrayIs
<1>5. next \in Nat
  BY DEF IInv, TypeOK
<1>6. devs[1] \in Of(f) /\ devs[1] \in Disk
  <2>1. list[1] \in ToSet(list)
    BY EmptySeq, LenProperties DEF ToSet
  <2>2. Of(f) # {} /\ Of(f) \subseteq Disk
    BY <1>4, <2>1 DEF Of, Read
  <2>3. devs \in SetToSeqs(Of(f))
    BY DEF Sorted
  <2> QED BY <2>2, <2>3, OrderOf
<1>7. m \in Metas /\ Laid(m) /\ (\A d \in Disk : Matching(m, meta[d]))
  BY <1>6, OnDisk
<1>8. /\ m.family = f /\ m.disk \in Seq(Disk) /\ m.vols \in Seq(Volumes)
      /\ Len(m.disk) = Len(list) /\ ToSet(m.disk) = ToSet(list)
  BY <1>4, <1>6, <1>7 DEF Metas
<1>9. m.vols = <<first>> /\ first \in Volumes /\ Len(m.vols) = 1
  BY <1>2, <1>8
<1>10. \A d \in ToSet(list) : End(first) <= MetadataStart(d)
  BY <1>7, <1>8, <1>9 DEF Laid
<1>11. /\ vol \in Volumes /\ Rounded(vol, Len(list)) /\ vol.name = name
       /\ \A d \in ToSet(list) : End(vol) <= MetadataStart(d)
       /\ Apart(first, vol)
  <2>1. level \in Levels \ {"spare"} /\ strip \in Strip /\ total >= MinVolumeSize
        /\ total = ArraySize(list, level, <<first>>)
    BY <1>2, <1>9, StridesAre
  <2> HIDE DEF strip, total, first
  <2> QED BY <1>3, <1>9, <1>10, <2>1, SecondVolume
<1> HIDE DEF vol, strip, total
<1>12. both = [family |-> f, disk |-> m.disk, vols |-> <<first, vol>>]
  <2>1. Append(m.vols, vol) = <<first, vol>>
    <3> HIDE DEF first, vol
    <3>1. Append(<<first>>, vol) = <<first, vol>>
      BY Both
    <3> QED BY <1>9, <3>1
  <2>2. m = [family |-> m.family, disk |-> m.disk, vols |-> m.vols]
    BY <1>7 DEF Metas
  <2> HIDE DEF m
  <2> QED BY <1>8, <2>1, <2>2
<1> HIDE DEF m, first
<1>13. both \in Metas /\ both.family = f /\ both.disk = m.disk /\ both.vols = <<first, vol>>
  <2> HIDE DEF both
  <2>1. <<first, vol>> \in Seq(Volumes) /\ f \in Nat
    BY <1>4, <1>5, <1>9, <1>11
  <2> QED BY <1>8, <1>12, <2>1 DEF Metas
<1> HIDE DEF both
<1>14. ToSet(both.vols) = {first, vol} /\ DOMAIN both.vols = {1, 2}
       /\ both.vols[1] = first /\ both.vols[2] = vol /\ ToSet(m.vols) = {first}
  BY <1>9, <1>13 DEF ToSet
<1>15. Laid(both)
  <2>1. Rounded(first, Len(both.disk)) /\ Rounded(vol, Len(both.disk))
    BY <1>7, <1>8, <1>9, <1>11, <1>13 DEF Laid
  <2>2. \A d \in ToSet(both.disk) : /\ End(first) <= MetadataStart(d)
                                    /\ End(vol) <= MetadataStart(d)
    BY <1>8, <1>10, <1>11, <1>13
  <2>3. Apart(first, vol) /\ Apart(vol, first)
    BY <1>11 DEF Apart
  <2> QED BY <1>14, <2>1, <2>2, <2>3 DEF Laid
<1>16. \A d \in Of(f) : \A w \in ToSet(meta[d].vols) : w.name # name
  <2> TAKE d \in Of(f)
  <2> TAKE w \in ToSet(meta[d].vols)
  <2>1. name \notin Names(f)
    BY <1>2, <1>4, Zenon DEF NameUnique
  <2>2. w.name \in NamesOn(d)
    BY DEF NamesOn, ToSet
  <2> QED BY <2>1, <2>2 DEF Names
<1>17. Matching(both, both)
  <2>1. first.name # name
    BY <1>6, <1>14, <1>16 DEF m
  <2> QED BY <1>11, <1>14, <2>1 DEF Matching
<1>18. \A d \in Disk : Matching(both, meta[d])
  <2> TAKE d \in Disk
  <2> SUFFICES ASSUME meta[d].family = f
               PROVE  /\ both.disk = meta[d].disk
                      /\ \A v \in {first, vol}, w \in ToSet(meta[d].vols) : v.name = w.name => v = w
    BY <1>13, <1>14 DEF Matching
  <2>1. /\ m.disk = meta[d].disk
        /\ \A w \in ToSet(meta[d].vols) : first.name = w.name => first = w
    BY <1>4, <1>5, <1>7, <1>8, <1>14 DEF Matching
  <2>2. d \in Of(f)
    <3>1. meta[d] # Blank
      BY <1>4, <1>5 DEF Blank
    <3> QED BY <3>1, WhatIsRead DEF Of
  <2> QED BY <1>11, <1>13, <1>16, <2>1, <2>2
<1>19. \A v \in whole : \A d \in ToSet(list) \cap ToSet(v.disks) : Keeps(v, both)
  <2> TAKE v \in whole
  <2> TAKE d \in ToSet(list) \cap ToSet(v.disks)
  <2>1. d \in Disk /\ meta[d].family = f
    BY <1>4 DEF Of, Read
  <2>2. Keeps(v, meta[d]) /\ Matching(m, meta[d])
    BY <1>7, <2>1, OnDisk
  <2>3. meta[d].disk = m.disk
    BY <1>4, <1>5, <1>8, <2>1, <2>2 DEF Matching
  <2>4. devs[1] \in ToSet(v.disks)
    BY <1>6, <2>2, <2>3, WhatIsRead DEF Keeps, Of, m
  <2>5. Keeps(v, m)
    BY <1>6, <2>4, OnDisk DEF m
  <2> QED BY <1>8, <1>13, <1>14, <2>5 DEF Keeps
<1>20. Starts(Writes(list, both)) /\ f \in 1 .. next /\ ToSet(list) \subseteq ToSet(both.disk)
  BY <1>3, <1>4, <1>5, <1>8, <1>13 DEF both, vol, m
<1> QED
  BY <1>13, <1>15, <1>17, <1>18, <1>19, <1>20, NewWrites

\* A deletion leaves the volumes of other names, and other families alone.
LEMMA DeletesStep ==
  ASSUME IInv, NEW f, NEW group \in SUBSET Of(f), group # {}, NEW names,
         Deletes(group, names),
         whole' \subseteq {v \in whole : v.family # f \/ v.vol.name \notin names}
  PROVE  IInv'
<1>1. PICK devs \in Sorted(group) : \E rest \in Remaining(meta[devs[1]], names) :
        Starts(Writes(devs, IF rest = <<>> THEN Blank ELSE [meta[devs[1]] EXCEPT !.vols = rest]))
  BY Zenon DEF Deletes
<1>2. PICK rest \in Remaining(meta[devs[1]], names) :
        Starts(Writes(devs, IF rest = <<>> THEN Blank ELSE [meta[devs[1]] EXCEPT !.vols = rest]))
  BY <1>1
<1> DEFINE m    == meta[devs[1]]
           left == IF rest = <<>> THEN Blank ELSE [m EXCEPT !.vols = rest]
<1>3. Starts(Writes(devs, left))
  BY <1>2
<1>4. group \subseteq Disk /\ \A d \in group : d \in Read /\ meta[d].family = f
  BY DEF Of, Read
<1>5. devs \in Seq(Disk) /\ ToSet(devs) = group /\ devs[1] \in group /\ devs[1] \in Disk
  <2>1. devs \in SetToSeqs(group)
    BY DEF Sorted
  <2> QED BY <1>4, <2>1, OrderOf
<1>6. next \in Nat
  BY DEF IInv, TypeOK
<1>7. /\ m \in Metas /\ Laid(m) /\ Matching(m, m)
      /\ \A d \in Disk : Matching(m, meta[d])
  BY <1>5, OnDisk
<1>8. m.family = f /\ f \in 1 .. next - 1 /\ m.disk \in Seq(Disk) /\ m.vols \in Seq(Volumes)
  BY <1>4, <1>5, <1>7, WhatIsRead DEF Metas
<1>9. \A d \in group : meta[d].disk = m.disk /\ d \in ToSet(m.disk)
  <2> TAKE d \in group
  <2>1. d \in Disk /\ meta[d].family = f /\ d \in ToSet(meta[d].disk) /\ Matching(m, meta[d])
    BY <1>4, <1>7, WhatIsRead
  <2> QED BY <1>6, <1>8, <2>1 DEF Matching
<1>10. rest \in Without(m.vols, names)
  BY <1>2 DEF Remaining
<1>11. /\ ToSet(rest) = {v \in ToSet(m.vols) : v.name \notin names}
       /\ rest = <<>> \/ \E v \in ToSet(m.vols) : rest = <<v>>
  BY <1>10 DEF Without
<1> HIDE DEF m
<1>12. CASE rest = <<>>
  <2>1. left = Blank
    BY <1>12
  <2>2. ToSet(rest) = {}
    BY <1>12 DEF ToSet
  <2> HIDE DEF left
  <2>3. \A v \in whole' : \A d \in ToSet(devs) \cap ToSet(v.disks) : Keeps(v, left)
    <3> TAKE v \in whole'
    <3> TAKE d \in ToSet(devs) \cap ToSet(v.disks)
    <3>1. d \in group /\ d \in Disk /\ meta[d].family = f /\ meta[d].disk = m.disk
      BY <1>4, <1>5, <1>9
    <3>2. Keeps(v, meta[d])
      BY <3>1, OnDisk
    <3>3. devs[1] \in ToSet(v.disks)
      BY <1>5, <1>9, <3>1, <3>2 DEF Keeps
    <3>4. Keeps(v, m)
      BY <1>5, <3>3, OnDisk DEF m
    <3>5. v.vol \in ToSet(rest)
      BY <1>8, <1>11, <3>4 DEF Keeps
    <3> QED BY <2>2, <3>5
  <2>4. /\ left \in Metas /\ Laid(left) /\ Matching(left, left)
        /\ \A d \in Disk : Matching(left, meta[d])
    BY <2>1, BlankIs
  <2>5. whole' \subseteq whole
    OBVIOUS
  <2> QED
    BY <1>3, <1>5, <2>1, <2>3, <2>4, <2>5, NewWrites
<1>13. CASE rest # <<>>
  <2>1. PICK v \in ToSet(m.vols) : rest = <<v>>
    BY <1>11, <1>13
  <2>2. PICK i \in DOMAIN m.vols : v = m.vols[i]
    BY <2>1 DEF ToSet
  <2>3. v \in Volumes
    BY <1>8, <2>2, ElementOfSeq, LenProperties
  <2>4. left = [family |-> f, disk |-> m.disk, vols |-> rest]
    <3>1. m = [family |-> m.family, disk |-> m.disk, vols |-> m.vols]
      BY <1>7 DEF Metas
    <3> QED BY <1>8, <1>13, <3>1
  <2>5. left \in Metas /\ left.family = f /\ left.disk = m.disk /\ left.vols = rest
    <3> HIDE DEF left
    <3>1. rest \in Seq(Volumes) /\ f \in Nat
      BY <1>6, <1>8, <2>1, <2>3
    <3> QED BY <1>8, <2>4, <3>1 DEF Metas
  <2> HIDE DEF left
  <2>6. ToSet(rest) = {v} /\ DOMAIN rest = {1} /\ rest[1] = v
    BY <2>1 DEF ToSet
  <2>7. Laid(left)
    BY <1>7, <2>2, <2>5, <2>6 DEF Laid
  <2>8. ToSet(left.vols) \subseteq ToSet(m.vols)
    BY <2>5, <2>6
  <2>9. Matching(left, left) /\ \A d \in Disk : Matching(left, meta[d])
    BY <1>7, <1>8, <2>5, <2>8 DEF Matching
  <2>10. \A x \in whole' : \A d \in ToSet(devs) \cap ToSet(x.disks) : Keeps(x, left)
    <3> TAKE x \in whole'
    <3> TAKE d \in ToSet(devs) \cap ToSet(x.disks)
    <3>1. d \in group /\ d \in Disk /\ meta[d].family = f /\ meta[d].disk = m.disk
      BY <1>4, <1>5, <1>9
    <3>2. Keeps(x, meta[d])
      BY <3>1, OnDisk
    <3>3. devs[1] \in ToSet(x.disks)
      BY <1>5, <1>9, <3>1, <3>2 DEF Keeps
    <3>4. Keeps(x, m)
      BY <1>5, <3>3, OnDisk DEF m
    <3>5. x.vol \in ToSet(rest)
      BY <1>8, <1>11, <3>4 DEF Keeps
    <3> QED BY <1>8, <2>5, <3>4, <3>5 DEF Keeps
  <2>11. whole' \subseteq whole
    OBVIOUS
  <2>12. f \in 1 .. next /\ ToSet(devs) \subseteq ToSet(left.disk)
    BY <1>5, <1>6, <1>8, <1>9, <2>5
  <2> QED
    BY <1>3, <1>5, <2>5, <2>7, <2>9, <2>10, <2>11, <2>12, NewWrites
<1> QED BY <1>12, <1>13

\* "dmraid -x" with and without a name.
LEMMA DeleteStep ==
  ASSUME IInv, NEW f \in Families,
         (\E name \in Name : Delete(f, name)) \/ DeleteAll(f)
  PROVE  IInv'
<1>1. ASSUME NEW name \in Name, Delete(f, name) PROVE IInv'
  <2> DEFINE having == {d \in Of(f) : name \in NamesOn(d)}
  <2>1. PICK late \in SUBSET (Of(f) \ having) : Deletes(having \cup late, {name})
    BY <1>1, Zenon DEF Delete
  <2>2. having # {} /\ having \subseteq Of(f)
        /\ whole' \subseteq {v \in whole : v.family # f \/ v.vol.name \notin {name}}
    BY <1>1 DEF Delete
  <2> HIDE DEF having
  <2> DEFINE group == having \cup late
  <2>3. group \in SUBSET Of(f) /\ group # {} /\ Deletes(group, {name})
    BY <2>1, <2>2
  <2> HIDE DEF group
  <2> QED BY <2>2, <2>3, DeletesStep
<1>2. ASSUME DeleteAll(f) PROVE IInv'
  <2>1. Deletes(Of(f), Names(f))
        /\ whole' \subseteq {v \in whole : v.family # f \/ v.vol.name \notin Names(f)}
    BY <1>2 DEF DeleteAll
  <2>2. Of(f) # {} /\ Of(f) \in SUBSET Of(f)
    BY DEF Families, Of
  <2> QED BY <2>1, <2>2, DeletesStep
<1> QED BY <1>1, <1>2

\* "dmraid -E"
LEMMA EraseStep ==
  ASSUME IInv, NEW disks \in SUBSET Read, Erase(disks)
  PROVE  IInv'
<1>1. PICK devs \in SetToSeqs(disks) : Starts(Writes(devs, Blank))
  BY DEF Erase
<1>2. disks \subseteq Disk
  BY DEF Read
<1>3. devs \in Seq(Disk) /\ ToSet(devs) = disks
  BY <1>2, OrderOf
<1>4. /\ whole' \subseteq whole
      /\ \A v \in whole' : \A d \in ToSet(devs) \cap ToSet(v.disks) : Keeps(v, Blank)
  BY <1>3 DEF Erase
<1> QED
  BY <1>1, <1>3, <1>4, BlankIs, NewWrites

-----------------------------------------------------------------------------
(* Writing.                                                                *)

\* When copies are lost, and volumes are added that all copies of their disks
\* have, the invariant holds.
LEMMA FewerCopies ==
  ASSUME IInv, TypeOK', Copies' \subseteq Copies, next' = next,
         \A v \in whole' \ whole :
           v.family # 0 /\ \A c \in Copies' : c.disk \in ToSet(v.disks) => Keeps(v, c.meta)
  PROVE  IInv'
<1>1. Hold'
  BY DEF IInv, Hold, Owned, Laid
<1>2. OneTable'
  BY DEF IInv, OneTable
<1>3. Kept'
  <2> SUFFICES ASSUME NEW v \in whole'
               PROVE  v.family # 0 /\ \A c \in Copies' : c.disk \in ToSet(v.disks) => Keeps(v, c.meta)
    BY DEF Kept
  <2>1. CASE v \in whole
    BY <2>1 DEF IInv, Kept
  <2>2. CASE v \notin whole
    BY <2>2
  <2> QED BY <2>1, <2>2
<1> QED BY <1>1, <1>2, <1>3 DEF IInv

\* A command that is killed drops what it had to write.
LEMMA KillStep == ASSUME IInv, Kill PROVE IInv'
<1>1. todo' = <<>> /\ meta' = meta /\ whole' = whole /\ next' = next /\ bad' = bad
  BY DEF Kill
<1>2. Copies' \subseteq Copies
  BY <1>1 DEF Copies, ToSet
<1>3. TypeOK'
  BY <1>1 DEF IInv, TypeOK
<1> QED
  BY <1>1, <1>2, <1>3, FewerCopies

\* A write moves a copy to its disk or loses it; the last one may complete the
\* volumes of its metadata.
LEMMA WriteStep == ASSUME IInv, NEW ok \in BOOLEAN, Write(ok) PROVE IInv'
<1> DEFINE h == Head(todo)
<1>1. /\ todo # <<>> /\ todo' = Tail(todo) /\ next' = next
      /\ meta' = IF ok THEN [meta EXCEPT ![h.disk] = h.meta] ELSE meta
      /\ bad' = bad + (IF ok THEN 0 ELSE 1) /\ bad' <= MaxBad
      /\ whole' = IF todo' = <<>> THEN whole \cup Completed(h.meta) ELSE whole
  BY DEF Write
<1>2. todo \in Seq([disk : Disk, meta : Metas]) /\ meta \in [Disk -> Metas]
  BY DEF IInv, TypeOK
<1>3. /\ h \in [disk : Disk, meta : Metas] /\ h \in ToSet(todo)
      /\ todo' \in Seq([disk : Disk, meta : Metas]) /\ ToSet(todo') \subseteq ToSet(todo)
  <2>1. todo[1] = h /\ 1 \in DOMAIN todo
    BY <1>1, <1>2
  <2>2. h \in [disk : Disk, meta : Metas] /\ todo' \in Seq([disk : Disk, meta : Metas])
    BY <1>1, <1>2, HeadTailProperties
  <2>3. \A i \in DOMAIN todo' : i + 1 \in DOMAIN todo /\ todo'[i] = todo[i + 1]
    BY <1>1, <1>2
  <2> QED BY <2>1, <2>2, <2>3 DEF ToSet
<1> HIDE DEF h
<1>4. h \in Copies
  BY <1>3 DEF Copies
<1>5. meta' \in [Disk -> Metas]
  BY <1>1, <1>2, <1>3
<1>6. Copies' \subseteq Copies
  <2>1. \A d \in Disk : meta'[d] = meta[d] \/ [disk |-> d, meta |-> meta'[d]] = h
    BY <1>1, <1>2, <1>3
  <2>2. \A d \in Disk : [disk |-> d, meta |-> meta'[d]] \in Copies
    BY <1>4, <2>1 DEF Copies
  <2> QED BY <1>3, <2>2 DEF Copies
<1>7. \A v \in Completed(h.meta) : \E i \in DOMAIN h.meta.vols :
        /\ v = [family |-> h.meta.family, disks |-> h.meta.disk, vol |-> h.meta.vols[i]]
        /\ \A d \in ToSet(h.meta.disk) : /\ h.meta.vols[i] \in ToSet(meta'[d].vols)
                                         /\ meta'[d].family = h.meta.family
  BY DEF Completed
<1>8. TypeOK'
  <2>1. bad' \in 0 .. MaxBad
    BY <1>1, ConstantsAssumption DEF IInv, TypeOK
  <2>2. \A v \in whole' : v \in [family : Nat, disks : Seq(Disk), vol : Volumes]
    <3> TAKE v \in whole'
    <3>1. CASE v \in whole
      BY <3>1 DEF IInv, TypeOK
    <3>2. CASE v \in Completed(h.meta)
      <4>1. PICK i \in DOMAIN h.meta.vols :
              v = [family |-> h.meta.family, disks |-> h.meta.disk, vol |-> h.meta.vols[i]]
        BY <1>7, <3>2
      <4>2. /\ h.meta.family \in Nat /\ h.meta.disk \in Seq(Disk)
            /\ h.meta.vols \in Seq(Volumes)
        BY <1>3 DEF Metas
      <4>3. h.meta.vols[i] \in Volumes
        BY <4>1, <4>2, ElementOfSeq, LenProperties
      <4> QED BY <4>1, <4>2, <4>3
    <3> QED BY <1>1, <3>1, <3>2
  <2> QED
    BY <1>1, <1>3, <1>5, <2>1, <2>2 DEF IInv, TypeOK
<1>9. \A v \in whole' \ whole :
        v.family # 0 /\ \A c \in Copies' : c.disk \in ToSet(v.disks) => Keeps(v, c.meta)
  <2> TAKE v \in whole' \ whole
  <2>1. todo' = <<>> /\ v \in Completed(h.meta)
    BY <1>1
  <2>2. PICK i \in DOMAIN h.meta.vols :
          /\ v = [family |-> h.meta.family, disks |-> h.meta.disk, vol |-> h.meta.vols[i]]
          /\ \A d \in ToSet(h.meta.disk) : /\ h.meta.vols[i] \in ToSet(meta'[d].vols)
                                           /\ meta'[d].family = h.meta.family
    BY <1>7, <2>1
  <2>3. h.meta.family \in 1 .. next - 1
    <3>1. Owned(h.disk, h.meta)
      BY <1>4 DEF IInv, Hold
    <3>2. h.meta # Blank
      BY <2>2 DEF Blank
    <3> QED BY <3>1, <3>2 DEF Owned
  <2>4. next \in Nat
    BY DEF IInv, TypeOK
  <2>5. ASSUME NEW c \in Copies', c.disk \in ToSet(v.disks) PROVE Keeps(v, c.meta)
    <3>1. c.meta = meta'[c.disk]
      <4>1. ToSet(todo') = {}
        BY <2>1 DEF ToSet
      <4> QED BY <4>1 DEF Copies
    <3>2. h.meta.vols[i] \in ToSet(c.meta.vols) /\ c.meta.family = h.meta.family
      BY <2>2, <2>5, <3>1
    <3>3. Matching(c.meta, h.meta)
      BY <1>4, <1>6 DEF IInv, OneTable
    <3>4. c.meta.disk = h.meta.disk
      BY <2>3, <2>4, <3>2, <3>3 DEF Matching
    <3> QED BY <2>2, <3>2, <3>4 DEF Keeps
  <2> QED BY <2>2, <2>3, <2>4, <2>5
<1> QED
  BY <1>1, <1>6, <1>8, <1>9, FewerCopies

-----------------------------------------------------------------------------
(* The theorems.                                                           *)

\* Every step keeps the invariant.
LEMMA StepIInv == ASSUME IInv, [Next]_vars PROVE IInv'
<1>1. ASSUME NEW list \in Lists, NEW name \in Name, NEW level \in Levels,
             NEW stride \in Strides, NEW size \in Sizes,
             Create(list, name, level, stride, size)
      PROVE  IInv'
  <2>1. /\ list \in Seq(Disk) /\ list # <<>> /\ stride \in Nat /\ size \in Nat
    BY ConstantsAssumption
  <2>2. /\ Len(list) \in MinDisks(level) .. MaxDisks(level) /\ IsInjective(list)
        /\ level # "spare" => NameUnique(list, name)
        /\ UNCHANGED whole
    BY <1>1 DEF Create, Accepted
  <2>3. \/ CreateFirst(list, name, level, stride, size)
        \/ CreateSecond(list, name, level, stride)
    BY <1>1 DEF Create
  <2>4. CASE CreateFirst(list, name, level, stride, size)
    BY <2>1, <2>2, <2>4, CreateFirstStep
  <2>5. CASE CreateSecond(list, name, level, stride)
    BY <2>1, <2>2, <2>5, CreateSecondStep
  <2> QED BY <2>3, <2>4, <2>5
<1>2. ASSUME UNCHANGED vars PROVE IInv'
  <2>1. Copies' = Copies /\ TypeOK' /\ whole' = whole /\ next' = next
    BY <1>2 DEF vars, Copies, IInv, TypeOK
  <2> QED BY <2>1, FewerCopies
<1> QED
  BY <1>1, <1>2, DeleteStep, EraseStep, WriteStep, KillStep DEF Next

\* The invariant holds in every reachable state.
LEMMA Inductive == Spec => []IInv
<1>1. Init => IInv
  BY InitIInv
<1>2. IInv /\ [Next]_vars => IInv'
  BY StepIInv
<1> QED
  BY <1>1, <1>2, PTL DEF Spec

\* The state is what the code can hold: lists of disks, and volumes with sizes
\* that are numbers of blocks.
THEOREM Typing == Spec => []TypeOK
<1>1. IInv => TypeOK
  BY DEF IInv
<1> QED
  BY <1>1, Inductive, PTL

\* _cal_array_size(), isw_config_dev() and isw_config_map() never give two
\* volumes the same blocks, nor a volume those of the metadata, on disks of any
\* sizes and for any stride and number of disks.
THEOREM VolumesDisjoint == Spec => []Disjoint
<1>1. IInv => Disjoint
  <2> SUFFICES ASSUME IInv, NEW d \in Disk, NEW i \in DOMAIN meta[d].vols
               PROVE  /\ End(meta[d].vols[i]) <= MetadataStart(d)
                      /\ \A j \in DOMAIN meta[d].vols :
                           i # j => \/ End(meta[d].vols[i]) <= meta[d].vols[j].start
                                    \/ End(meta[d].vols[j]) <= meta[d].vols[i].start
    BY DEF Disjoint
  <2>1. meta[d] # Blank
    BY DEF Blank
  <2>2. Laid(meta[d]) /\ d \in ToSet(meta[d].disk)
    BY <2>1, OnDisk, WhatIsRead
  <2> QED BY <2>2 DEF Laid, Apart
<1> QED
  BY <1>1, Inductive, PTL

\* A volume that all disks have is kept by all of them until it is deleted.
THEOREM VolumesSurvive == Spec => []Survives
<1>1. IInv => Survives
  <2> SUFFICES ASSUME IInv, NEW v \in whole, NEW d \in ToSet(v.disks)
               PROVE  meta[d].family = v.family /\ v.vol \in ToSet(meta[d].vols)
    BY DEF Survives
  <2>1. d \in Disk
    <3>1. v.disks \in Seq(Disk)
      BY DEF IInv, TypeOK
    <3> QED BY <3>1, ElementOfSeq, LenProperties DEF ToSet
  <2> QED BY <2>1, OnDisk DEF Keeps
<1> QED
  BY <1>1, Inductive, PTL

\* The disks of a family never have two different volumes of one name.
THEOREM VolumesAgree == Spec => []Agree
<1>1. IInv => Agree
  <2> SUFFICES ASSUME IInv, NEW f \in Families, NEW d \in Of(f), NEW e \in Of(f)
               PROVE  \A v \in ToSet(meta[d].vols), w \in ToSet(meta[e].vols) :
                        v.name = w.name => v = w
    BY DEF Agree
  <2>1. d \in Disk /\ e \in Disk /\ d \in Read /\ meta[d].family = meta[e].family
    BY DEF Of, Read
  <2>2. meta[d].family \in 1 .. next - 1 /\ Matching(meta[d], meta[e]) /\ next \in Nat
    BY <2>1, OnDisk, WhatIsRead DEF IInv, TypeOK
  <2> QED BY <2>1, <2>2 DEF Matching
<1> QED
  BY <1>1, Inductive, PTL

\* Rounding never takes a whole strip from a volume.
THEOREM SizesKept == Spec => []Sized
<1>1. IInv => Sized
  <2> SUFFICES ASSUME IInv, NEW d \in Disk, NEW v \in ToSet(meta[d].vols)
               PROVE  Rounded(v, Len(meta[d].disk))
    BY DEF Sized, Rounded
  <2>1. Laid(meta[d])
    BY OnDisk
  <2> QED BY <2>1 DEF Laid, ToSet
<1> QED
  BY <1>1, Inductive, PTL
=============================================================================
