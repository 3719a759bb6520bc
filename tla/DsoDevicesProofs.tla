-------------------------- MODULE DsoDevicesProofs --------------------------
(***************************************************************************)
(* The array of member devices of the events plug-in, for any sets, tables *)
(* and disks.                                                              *)
(***************************************************************************)
EXTENDS DsoDevices, FiniteSetTheorems, TLAPS

-----------------------------------------------------------------------------
(* The inductive invariant.                                                *)

\* A table keeps its length and its devices are distinct, in the kernel and in
\* the copy of it a status line is.
Tables ==
  \A s \in Sets :
    /\ Len(table[s]) = Len(Initially[s]) /\ IsInjective(table[s])
    /\ IsInjective(args[s]) /\ marked[s] \subseteq Range(args[s]) \cap dead
    /\ at[s] = "loop" => Len(args[s]) = Len(Initially[s])
    /\ at[s] \in {"unregistered", "idle"} => pos[s] = 1 /\ ~found[s]

\* An array that is intact has at most max_devs devices, no more than the
\* table had, and at least the two of the smallest table.
Arrays ==
  \A s \in Sets :
    /\ IsInjective(devs[s])
    /\ max_devs[s] <= Len(Initially[s])
    /\ at[s] # "unregistered" => max_devs[s] >= 2
    /\ intact => Len(devs[s]) <= max_devs[s]

\* While nothing was found, what the loop has passed is alive or unknown.
Scanned ==
  \A s \in Sets :
    /\ at[s] \in {"loop", "end"} /\ ~found[s] =>
         \A j \in DOMAIN args[s] :
           j < pos[s] => args[s][j] \notin marked[s] \cap Range(devs[s])
    /\ at[s] = "end" => ~found[s] /\ Len(devs[s]) < pos[s]

\* A living member is in the array or in the names still to be looked at.
Living(s) == Range(table[s]) \ dead

Knows ==
  \A s \in Sets \ missed :
    /\ at[s] \in {"idle", "loop", "start", "end"} => Living(s) \subseteq Range(devs[s])
    /\ at[s] = "adding" => Living(s) \subseteq Range(devs[s]) \cup Range(names[s])

IInv == TypeOK /\ Tables /\ Arrays /\ Scanned /\ Knows

-----------------------------------------------------------------------------
(* Lemmas about the sequences.                                             *)

\* _dso_dev_copy() takes one device away and no other.
LEMMA WithoutLemma ==
  ASSUME NEW S, NEW seq \in Seq(S), IsInjective(seq), NEW d \in Range(seq)
  PROVE  /\ Without(seq, d) \in Seq(S)
         /\ Len(Without(seq, d)) = Len(seq) - 1
         /\ IsInjective(Without(seq, d))
         /\ Range(Without(seq, d)) = Range(seq) \ {d}
<1> DEFINE n == Len(seq)
           i == CHOOSE i \in DOMAIN seq : seq[i] = d
           w == [j \in 1 .. n - 1 |-> IF j = i THEN seq[n] ELSE seq[j]]
<1>1. n \in Nat /\ DOMAIN seq = 1 .. n /\ \A j \in 1 .. n : seq[j] \in S
  OBVIOUS
<1>2. i \in 1 .. n /\ seq[i] = d
  BY <1>1 DEF Range
<1>3. \A j, k \in 1 .. n : seq[j] = seq[k] => j = k
  BY <1>1 DEF IsInjective
<1>4. Without(seq, d) = w
  BY DEF Without
<1> HIDE DEF i, n
<1>5. n - 1 \in Nat /\ n \in 1 .. n
  BY <1>1, <1>2
<1>6. w \in [1 .. n - 1 -> S]
  BY <1>1, <1>5
<1>7. \A j \in 1 .. n - 1 : w[j] = IF j = i THEN seq[n] ELSE seq[j]
  OBVIOUS
<1>8. DOMAIN w = 1 .. n - 1
  OBVIOUS
<1> HIDE DEF w
<1>9. w \in Seq(S) /\ Len(w) = n - 1
  BY <1>5, <1>6
<1>10. IsInjective(w)
  <2> SUFFICES ASSUME NEW j \in 1 .. n - 1, NEW k \in 1 .. n - 1, w[j] = w[k]
               PROVE  j = k
    BY <1>8 DEF IsInjective
  <2>1. j \in 1 .. n /\ k \in 1 .. n /\ j # n /\ k # n
    BY <1>1
  <2> QED BY <2>1, <1>3, <1>5, <1>7
<1>11. ASSUME NEW x \in Range(w) PROVE x \in Range(seq) \ {d}
  <2>1. PICK j \in 1 .. n - 1 : w[j] = x
    BY <1>8 DEF Range
  <2>2. j \in 1 .. n /\ j # n
    BY <1>1
  <2>3. CASE j = i
    BY <2>1, <2>2, <2>3, <1>1, <1>2, <1>3, <1>5, <1>7 DEF Range
  <2>4. CASE j # i
    BY <2>1, <2>2, <2>4, <1>1, <1>2, <1>3, <1>7 DEF Range
  <2> QED BY <2>3, <2>4
<1>12. ASSUME NEW x \in Range(seq) \ {d} PROVE x \in Range(w)
  <2>1. PICK j \in 1 .. n : seq[j] = x
    BY <1>1 DEF Range
  <2>2. j # i
    BY <2>1, <1>2
  <2>3. CASE j = n
    <3>1. i \in 1 .. n - 1 /\ w[i] = x
      BY <2>1, <2>2, <2>3, <1>1, <1>2, <1>7
    <3> QED BY <3>1, <1>8 DEF Range
  <2>4. CASE j # n
    <3>1. j \in 1 .. n - 1 /\ w[j] = x
      BY <2>1, <2>2, <2>4, <1>1, <1>7
    <3> QED BY <3>1, <1>8 DEF Range
  <2> QED BY <2>3, <2>4
<1>13. Range(w) = Range(seq) \ {d}
  BY <1>11, <1>12
<1> QED BY <1>4, <1>9, <1>10, <1>13 DEF n

\* A device added at the end of an array (_dso_dev_copy, _repopulate).
LEMMA AppendLemma ==
  ASSUME NEW S, NEW seq \in Seq(S), NEW d \in S
  PROVE  /\ Append(seq, d) \in Seq(S) /\ Len(Append(seq, d)) = Len(seq) + 1
         /\ Range(Append(seq, d)) = Range(seq) \cup {d}
         /\ IsInjective(seq) /\ d \notin Range(seq) => IsInjective(Append(seq, d))
<1> DEFINE n == Len(seq)
           w == Append(seq, d)
<1>1. /\ n \in Nat /\ DOMAIN seq = 1 .. n /\ DOMAIN w = 1 .. n + 1
      /\ w \in Seq(S) /\ Len(w) = n + 1
      /\ \A j \in 1 .. n : w[j] = seq[j]
      /\ w[n + 1] = d
  OBVIOUS
<1> HIDE DEF n, w
<1>2. \A j \in 1 .. n + 1 : j \in 1 .. n \/ j = n + 1
  BY <1>1
<1>3. n + 1 \in 1 .. n + 1 /\ 1 .. n \subseteq 1 .. n + 1 /\ n + 1 \notin 1 .. n
  BY <1>1
<1>4. Range(w) = Range(seq) \cup {d}
  BY <1>1, <1>2, <1>3 DEF Range
<1>5. ASSUME IsInjective(seq), d \notin Range(seq) PROVE IsInjective(w)
  BY <1>1, <1>2, <1>3, <1>5 DEF IsInjective, Range
<1> QED BY <1>1, <1>4, <1>5 DEF n, w

\* Two lists of names one after the other (the string of dso_get_members).
LEMMA ConcatLemma ==
  ASSUME NEW S, NEW p \in Seq(S), NEW q \in Seq(S)
  PROVE  p \o q \in Seq(S) /\ Range(p \o q) = Range(p) \cup Range(q)
<1> DEFINE m == Len(p)
           n == Len(q)
           w == p \o q
<1>1. /\ m \in Nat /\ n \in Nat /\ DOMAIN p = 1 .. m /\ DOMAIN q = 1 .. n
      /\ w \in Seq(S) /\ DOMAIN w = 1 .. m + n
      /\ \A j \in 1 .. m + n : w[j] = IF j <= m THEN p[j] ELSE q[j - m]
  OBVIOUS
<1> HIDE DEF m, n, w
<1>2. ASSUME NEW x \in Range(w) PROVE x \in Range(p) \cup Range(q)
  <2>1. PICK j \in 1 .. m + n : w[j] = x
    BY <1>1 DEF Range
  <2>2. (j <= m => j \in 1 .. m) /\ (~(j <= m) => j - m \in 1 .. n)
    BY <1>1
  <2> QED BY <2>1, <2>2, <1>1 DEF Range
<1>3. ASSUME NEW x \in Range(p) PROVE x \in Range(w)
  <2>1. PICK j \in 1 .. m : p[j] = x
    BY <1>1 DEF Range
  <2>2. j \in 1 .. m + n /\ w[j] = x
    BY <2>1, <1>1
  <2> QED BY <2>2, <1>1 DEF Range
<1>4. ASSUME NEW x \in Range(q) PROVE x \in Range(w)
  <2>1. PICK j \in 1 .. n : q[j] = x
    BY <1>1 DEF Range
  <2>2. j + m \in 1 .. m + n /\ ~(j + m <= m) /\ (j + m) - m = j
    BY <1>1
  <2>3. w[j + m] = x
    BY <2>1, <2>2, <1>1
  <2> QED BY <2>2, <2>3, <1>1 DEF Range
<1> QED BY <1>1, <1>2, <1>3, <1>4 DEF w

\* The first name of a list and the others (strtok in _repopulate).
LEMMA TailLemma ==
  ASSUME NEW S, NEW seq \in Seq(S), seq # << >>
  PROVE  /\ Head(seq) \in S /\ Tail(seq) \in Seq(S)
         /\ Range(seq) = {Head(seq)} \cup Range(Tail(seq))
<1> DEFINE n == Len(seq)
           w == Tail(seq)
<1>1. /\ n \in Nat /\ n >= 1 /\ DOMAIN seq = 1 .. n
      /\ w \in Seq(S) /\ DOMAIN w = 1 .. n - 1
      /\ \A j \in 1 .. n - 1 : w[j] = seq[j + 1]
      /\ Head(seq) = seq[1] /\ seq[1] \in S
  OBVIOUS
<1> HIDE DEF n, w
<1>2. ASSUME NEW x \in Range(seq) PROVE x \in {seq[1]} \cup Range(w)
  <2>1. PICK j \in 1 .. n : seq[j] = x
    BY <1>1 DEF Range
  <2>2. j = 1 \/ (j - 1 \in 1 .. n - 1 /\ (j - 1) + 1 = j)
    BY <1>1
  <2>3. CASE j = 1
    BY <2>1, <2>3
  <2>4. CASE j - 1 \in 1 .. n - 1 /\ (j - 1) + 1 = j
    BY <2>1, <2>4, <1>1 DEF Range
  <2> QED BY <2>2, <2>3, <2>4
<1>3. ASSUME NEW x \in Range(w) PROVE x \in Range(seq)
  <2>1. PICK j \in 1 .. n - 1 : w[j] = x
    BY <1>1 DEF Range
  <2>2. j + 1 \in 1 .. n
    BY <1>1
  <2> QED BY <2>1, <2>2, <1>1 DEF Range
<1>4. seq[1] \in Range(seq)
  BY <1>1 DEF Range
<1> QED BY <1>1, <1>2, <1>3, <1>4 DEF w

\* What Ordered() gives is a sequence of the wanted devices, not longer than
\* the table.
LEMMA OrderedLemma ==
  ASSUME NEW s \in Sets, NEW S, NEW T, S \subseteq T, NEW seq, Len(table[s]) \in Nat,
         NEW f \in Ordered(s, S, seq)
  PROVE  /\ f \in Seq(T) /\ Len(f) <= Len(table[s]) /\ Len(f) \in Nat
         /\ IsInjective(f) /\ Range(f) = S
<1>1. PICK n \in 0 .. Len(table[s]) : f \in [1 .. n -> S]
  BY DEF Ordered
<1>2. n \in Nat /\ n <= Len(table[s])
  BY <1>1
<1>3. f \in Seq(T) /\ Len(f) = n
  BY <1>1, <1>2
<1> QED BY <1>2, <1>3 DEF Ordered

\* The table after a rebuild.
LEMMA ReplaceLemma ==
  ASSUME TypeOK, Tables, NEW s \in Sets, Replace(s)
  PROVE  /\ table' \in [Sets -> Seq(Devices)]
         /\ \A r \in Sets : Len(table'[r]) = Len(table[r]) /\ IsInjective(table'[r])
         /\ \A r \in Sets \ {s} : table'[r] = table[r]
<1>1. PICK i \in DOMAIN table[s], spare \in Devices :
        /\ \A r \in Sets : spare \notin Range(table[r])
        /\ table' = [table EXCEPT ![s][i] = spare]
  BY DEF Replace
<1> DEFINE n == Len(table[s])
           new == [table[s] EXCEPT ![i] = spare]
<1>2. /\ n \in Nat /\ DOMAIN table[s] = 1 .. n
      /\ \A j \in 1 .. n : table[s][j] \in Devices
      /\ table \in [Sets -> Seq(Devices)]
  BY DEF TypeOK
<1>3. table' = [table EXCEPT ![s] = new]
  BY <1>1
<1>4. /\ new \in Seq(Devices) /\ Len(new) = n /\ DOMAIN new = 1 .. n
      /\ \A j \in 1 .. n : new[j] = IF j = i THEN spare ELSE table[s][j]
  BY <1>1, <1>2
<1>5. \A j \in 1 .. n : table[s][j] # spare
  BY <1>1, <1>2 DEF Range
<1> HIDE DEF n, new
<1>6. IsInjective(table[s])
  BY DEF Tables
<1>7. IsInjective(new)
  BY <1>2, <1>4, <1>5, <1>6 DEF IsInjective
<1>8. \A r \in Sets : table'[r] = IF r = s THEN new ELSE table[r]
  BY <1>2, <1>3
<1>9. table' \in [Sets -> Seq(Devices)]
  BY <1>2, <1>3, <1>4
<1>10. \A r \in Sets : IsInjective(table[r])
  BY DEF Tables
<1> QED BY <1>4, <1>7, <1>8, <1>9, <1>10 DEF n

\* Different elements of one sequence, all found in another, are not more
\* than the elements of the other.
LEMMA PigeonHole ==
  ASSUME NEW S, NEW p \in Seq(S), NEW q \in Seq(S), IsInjective(p), Range(p) \subseteq Range(q)
  PROVE  Len(p) <= Len(q)
<1> DEFINE m == Len(p)
           n == Len(q)
           f == [i \in 1 .. m |-> CHOOSE j \in 1 .. n : q[j] = p[i]]
<1>1. m \in Nat /\ n \in Nat /\ DOMAIN p = 1 .. m /\ DOMAIN q = 1 .. n
  OBVIOUS
<1> HIDE DEF m, n
<1>2. ASSUME NEW i \in 1 .. m PROVE f[i] \in 1 .. n /\ q[f[i]] = p[i]
  <2>1. p[i] \in Range(q)
    BY <1>1 DEF Range
  <2>2. \E j \in 1 .. n : q[j] = p[i]
    BY <1>1, <2>1, Zenon DEF Range
  <2> QED BY <2>2
<1>3. f \in [1 .. m -> 1 .. n]
  BY <1>2
<1> HIDE DEF f
<1>4. /\ IsFiniteSet(1 .. m) /\ IsFiniteSet(1 .. n)
      /\ Cardinality(1 .. m) = m /\ Cardinality(1 .. n) = n
  BY <1>1, FS_Interval
<1>5. SUFFICES ASSUME n < m PROVE FALSE
  BY <1>1 DEF m, n
<1>6. PICK x \in 1 .. m, y \in 1 .. m : x # y /\ f[x] = f[y]
  BY <1>3, <1>4, <1>5, FS_PigeonHole
<1>7. p[x] = p[y]
  BY <1>2, <1>6
<1> QED BY <1>1, <1>6, <1>7 DEF IsInjective

-----------------------------------------------------------------------------
(* The invariant is inductive.                                             *)

\* At the start nothing is registered and no event is under way.
LEMMA Initial == Init => IInv
<1> SUFFICES ASSUME Init PROVE IInv
  OBVIOUS
<1>1. \A s \in Sets : Initially[s] \in Seq(Devices) /\ Len(Initially[s]) \in Nat
  BY ConstantsAssumption
<1>2. TypeOK
  BY ConstantsAssumption DEF Init, TypeOK, Stages
<1>3. IsInjective(<< >>) /\ Range(<< >>) = {}
  BY DEF IsInjective, Range
<1>4. Tables
  BY ConstantsAssumption, <1>1, <1>3 DEF Init, Tables
<1>5. Arrays
  BY ConstantsAssumption, <1>1, <1>3 DEF Init, Arrays
<1>6. Scanned /\ Knows
  BY DEF Init, Scanned, Knows
<1> QED BY <1>2, <1>4, <1>5, <1>6 DEF IInv

\* The types.
LEMMA TypesStay == IInv /\ [Next]_vars => TypeOK'
<1> SUFFICES ASSUME IInv, [Next]_vars PROVE TypeOK'
  OBVIOUS
<1> USE DEF kernel, struct, event
<1>14. TypeOK /\ Tables /\ Arrays
  BY DEF IInv
<1>0. CASE UNCHANGED vars
  BY <1>14, <1>0 DEF TypeOK, vars
<1>1. ASSUME NEW d \in Devices, DeviceFails(d) PROVE TypeOK'
  BY <1>14, <1>1 DEF TypeOK, DeviceFails
<1>2. ASSUME NEW d \in Devices, DevicePulled(d) PROVE TypeOK'
  BY <1>14, <1>2 DEF TypeOK, DevicePulled
<1>3. ASSUME NEW s \in Sets, ManualRebuild(s) PROVE TypeOK'
  <2>1. table' \in [Sets -> Seq(Devices)]
    BY <1>14, <1>3, ReplaceLemma DEF ManualRebuild
  <2> QED BY <1>14, <1>3, <2>1 DEF TypeOK, ManualRebuild
<1>4. ASSUME NEW s \in Sets, Register(s) PROVE TypeOK'
  <2>1. PICK f \in Ordered(s, Range(table[s]), ByName) :
          devs' = [devs EXCEPT ![s] = f] /\ max_devs' = [max_devs EXCEPT ![s] = Len(f)]
    BY <1>4 DEF Register, Slaves
  <2>2. table[s] \in Seq(Devices) /\ Range(table[s]) \subseteq Devices /\ Len(table[s]) \in Nat
    BY <1>14 DEF TypeOK, Range
  <2>3. f \in Seq(Devices) /\ Len(f) \in Nat
    BY <2>1, <2>2, OrderedLemma
  <2> QED BY <1>14, <1>4, <2>1, <2>3 DEF TypeOK, Register, Goto, Stages
<1>5. ASSUME NEW s \in Sets, Unregister(s) PROVE TypeOK'
  BY <1>14, <1>5 DEF TypeOK, Unregister, Goto, Stages
<1>6. ASSUME NEW s \in Sets, Event(s) PROVE TypeOK'
  <2>1. dead \cap Range(table[s]) \subseteq Devices /\ table[s] \in Seq(Devices)
    BY <1>14 DEF TypeOK
  <2> QED BY <1>14, <1>6, <2>1 DEF TypeOK, Event, Goto, Stages
<1>7. ASSUME NEW s \in Sets, StatusChar(s) PROVE TypeOK'
  <2>1. devs' \in [Sets -> Seq(Devices)]
    <3>1. CASE devs' = devs
      BY <1>14, <3>1 DEF TypeOK
    <3>2. CASE /\ args[s][pos[s]] \in Range(devs[s])
               /\ devs' = [devs EXCEPT ![s] = Without(@, args[s][pos[s]])]
      <4>1. devs[s] \in Seq(Devices) /\ IsInjective(devs[s])
        BY <1>14 DEF TypeOK, Arrays
      <4>2. Without(devs[s], args[s][pos[s]]) \in Seq(Devices)
        BY <3>2, <4>1, WithoutLemma
      <4> QED BY <1>14, <3>2, <4>2 DEF TypeOK
    <3> QED BY <1>7, <3>1, <3>2 DEF StatusChar
  <2> QED BY <1>14, <1>7, <2>1, SMTT(30) DEF TypeOK, StatusChar
<1>8. ASSUME NEW s \in Sets, Outcome(s) PROVE TypeOK'
  <2>1. CASE Idle(s)
    BY <1>14, <1>8, <2>1 DEF TypeOK, Outcome, Idle, Goto, Stages
  <2>2. CASE (Goto(s, "start") \/ Goto(s, "end")) /\ UNCHANGED event
    BY <1>14, <1>8, <2>2 DEF TypeOK, Outcome, Goto, Stages
  <2> QED BY <1>8, <2>1, <2>2 DEF Outcome
<1>9. ASSUME NEW s \in Sets, StartFails(s) \/ End(s) \/ RefreshFails(s) PROVE TypeOK'
  <2>1. CASE Idle(s)
    BY <1>14, <1>9, <2>1 DEF TypeOK, StartFails, End, RefreshFails, Idle, Goto, Stages
  <2>2. CASE Goto(s, "refresh") /\ UNCHANGED event
    BY <1>14, <1>9, <2>2 DEF TypeOK, StartFails, End, RefreshFails, Idle, Goto, Stages
  <2> QED BY <1>9, <2>1, <2>2 DEF StartFails, End, RefreshFails
<1>10. ASSUME NEW s \in Sets, Start(s) PROVE TypeOK'
  <2>1. table' \in [Sets -> Seq(Devices)]
    BY <1>14, <1>10, ReplaceLemma DEF Start, TypeOK
  <2> QED BY <1>14, <1>10, <2>1 DEF TypeOK, Start, Goto, Stages
<1>11. ASSUME NEW s \in Sets, Refresh(s) PROVE TypeOK'
  <2>1. disks' \in Seq(Devices)
    <3> DEFINE T == Range(table[s]) \ (Range(disks) \cup gone)
    <3>1. PICK new \in Ordered(s, T, table[s]) : disks' = disks \o new
      BY <1>11 DEF Refresh
    <3>2. table[s] \in Seq(Devices) /\ T \subseteq Devices /\ Len(table[s]) \in Nat
      BY <1>14 DEF TypeOK, Range
    <3> HIDE DEF T
    <3>3. new \in Seq(Devices)
      BY <3>1, <3>2, OrderedLemma
    <3> QED BY <1>14, <3>1, <3>3, ConcatLemma DEF TypeOK
  <2> QED BY <1>14, <1>11, <2>1 DEF TypeOK, Refresh, Goto, Stages
<1>12. ASSUME NEW s \in Sets, Add(s) PROVE TypeOK'
  <2>1. names[s] \in Seq(Devices) /\ names[s] # << >> /\ devs[s] \in Seq(Devices)
    BY <1>14, <1>12 DEF TypeOK, Add
  <2>2. Head(names[s]) \in Devices /\ Tail(names[s]) \in Seq(Devices)
    BY <2>1, TailLemma
  <2>3. Append(devs[s], Head(names[s])) \in Seq(Devices)
    BY <2>1, <2>2, AppendLemma
  <2> QED BY <1>14, <1>12, <2>2, <2>3 DEF TypeOK, Add
<1>13. ASSUME NEW s \in Sets, Added(s) PROVE TypeOK'
  BY <1>14, <1>13 DEF TypeOK, Added, Idle, Goto, Stages
<1> QED BY <1>0, <1>1, <1>2, <1>3, <1>4, <1>5, <1>6, <1>7, <1>8, <1>9, <1>10, <1>11, <1>12, <1>13
        DEF Next, Process

\* The tables and their copies.
LEMMA TablesStay == IInv /\ [Next]_vars => Tables'
<1> SUFFICES ASSUME IInv, [Next]_vars, NEW r \in Sets
             PROVE  /\ Len(table'[r]) = Len(Initially[r]) /\ IsInjective(table'[r])
                    /\ IsInjective(args'[r])
                    /\ marked'[r] \subseteq Range(args'[r]) \cap dead'
                    /\ at'[r] = "loop" => Len(args'[r]) = Len(Initially[r])
                    /\ at'[r] \in {"unregistered", "idle"} => pos'[r] = 1 /\ ~found'[r]
  BY DEF Tables
<1> DEFINE Goal == /\ Len(table'[r]) = Len(Initially[r]) /\ IsInjective(table'[r])
                   /\ IsInjective(args'[r])
                   /\ marked'[r] \subseteq Range(args'[r]) \cap dead'
                   /\ at'[r] = "loop" => Len(args'[r]) = Len(Initially[r])
                   /\ at'[r] \in {"unregistered", "idle"} => pos'[r] = 1 /\ ~found'[r]
<1> USE DEF kernel, struct, event
<1>14. TypeOK /\ Tables
  BY DEF IInv
<1>15. /\ Len(table[r]) = Len(Initially[r]) /\ IsInjective(table[r])
       /\ IsInjective(args[r]) /\ marked[r] \subseteq Range(args[r]) \cap dead
       /\ at[r] = "loop" => Len(args[r]) = Len(Initially[r])
       /\ at[r] \in {"unregistered", "idle"} => pos[r] = 1 /\ ~found[r]
  BY <1>14 DEF Tables
<1>16. IsInjective(<< >>) /\ Range(<< >>) = {}
  BY DEF IsInjective, Range
<1>17. /\ at \in [Sets -> Stages] /\ args \in [Sets -> Seq(Devices)]
       /\ marked \in [Sets -> SUBSET Devices] /\ pos \in [Sets -> Nat \ {0}]
       /\ found \in [Sets -> BOOLEAN]
  BY <1>14 DEF TypeOK
<1>18. ASSUME NEW s \in Sets, Idle(s)
       PROVE  IF r = s THEN /\ args'[r] = << >> /\ marked'[r] = {} /\ pos'[r] = 1
                            /\ ~found'[r] /\ at'[r] = "idle"
              ELSE /\ args'[r] = args[r] /\ marked'[r] = marked[r] /\ pos'[r] = pos[r]
                   /\ found'[r] = found[r] /\ at'[r] = at[r]
  BY <1>17, <1>18 DEF Idle, Goto
<1>0. CASE UNCHANGED vars
  BY <1>15, <1>0 DEF vars
<1>1. ASSUME NEW d \in Devices, DeviceFails(d) \/ DevicePulled(d) PROVE Goal
  BY <1>15, <1>1 DEF DeviceFails, DevicePulled
<1>2. ASSUME NEW s \in Sets, ManualRebuild(s) PROVE Goal
  <2>1. Len(table'[r]) = Len(table[r]) /\ IsInjective(table'[r])
    BY <1>14, <1>2, ReplaceLemma DEF ManualRebuild
  <2> QED BY <1>15, <1>2, <2>1 DEF ManualRebuild
<1>3. ASSUME NEW s \in Sets, Register(s) \/ Unregister(s) PROVE Goal
  BY <1>15, <1>17, <1>3 DEF Register, Unregister, Goto
<1>4. ASSUME NEW s \in Sets, Event(s) PROVE Goal
  <2>1. CASE r = s
    <3>1. args'[r] = table[r] /\ marked'[r] = dead \cap Range(table[r]) /\ at'[r] = "loop"
          /\ table' = table /\ dead' = dead
      BY <1>4, <1>17, <2>1 DEF Event, Goto
    <3> QED BY <3>1, <1>15
  <2>2. CASE r # s
    BY <1>4, <1>15, <1>17, <2>2 DEF Event, Goto
  <2> QED BY <2>1, <2>2
<1>5. ASSUME NEW s \in Sets, StatusChar(s) PROVE Goal
  <2>1. /\ table' = table /\ args' = args /\ marked' = marked /\ dead' = dead /\ at' = at
        /\ at[s] = "loop" /\ (r # s => pos'[r] = pos[r] /\ found'[r] = found[r])
    BY <1>5, <1>17 DEF StatusChar
  <2> QED BY <2>1, <1>15
<1>6. ASSUME NEW s \in Sets, Idle(s), table' = table, dead' = dead PROVE Goal
  BY <1>6, <1>15, <1>16, <1>18
<1>7. ASSUME NEW s \in Sets, NEW stage \in {"start", "end", "refresh", "adding"},
             Goto(s, stage), UNCHANGED <<dead, event>>,
             Len(table'[r]) = Len(table[r]) /\ IsInjective(table'[r])
      PROVE  Goal
  BY <1>7, <1>15, <1>17 DEF Goto
<1>8. ASSUME NEW s \in Sets, Outcome(s) PROVE Goal
  <2>1. CASE Idle(s)
    BY <2>1, <1>6, <1>8 DEF Outcome
  <2>2. CASE (Goto(s, "start") \/ Goto(s, "end")) /\ UNCHANGED event
    BY <2>2, <1>7, <1>8, <1>15 DEF Outcome
  <2> QED BY <1>8, <2>1, <2>2 DEF Outcome
<1>9. ASSUME NEW s \in Sets, StartFails(s) \/ End(s) \/ RefreshFails(s) \/ Added(s)
      PROVE  Goal
  <2>1. CASE Idle(s)
    BY <2>1, <1>6, <1>9 DEF StartFails, End, RefreshFails, Added
  <2>2. CASE Goto(s, "refresh") /\ UNCHANGED <<kernel, event>>
    BY <2>2, <1>7, <1>15
  <2> QED BY <1>9, <2>1, <2>2 DEF StartFails, End, RefreshFails, Added
<1>10. ASSUME NEW s \in Sets, Start(s) PROVE Goal
  <2>1. Len(table'[r]) = Len(table[r]) /\ IsInjective(table'[r])
    BY <1>14, <1>15, <1>10, ReplaceLemma DEF Start
  <2> QED BY <1>7, <1>10, <2>1 DEF Start
<1>11. ASSUME NEW s \in Sets, Refresh(s) PROVE Goal
  BY <1>7, <1>11, <1>15 DEF Refresh
<1>12. ASSUME NEW s \in Sets, Add(s) PROVE Goal
  BY <1>15, <1>12 DEF Add
<1> QED BY <1>0, <1>1, <1>2, <1>3, <1>4, <1>5, <1>8, <1>9, <1>10, <1>11, <1>12
        DEF Next, Process

\* A turn of the loop: nothing, or the device of the status character goes.
LEMMA StatusCharLemma ==
  ASSUME TypeOK, Arrays, NEW s \in Sets, StatusChar(s)
  PROVE  \/ /\ devs' = devs /\ found' = found
            /\ pos[s] \in DOMAIN args[s] => args[s][pos[s]] \notin marked[s] \cap Range(devs[s])
         \/ /\ found'[s] /\ IsInjective(devs'[s]) /\ Len(devs'[s]) = Len(devs[s]) - 1
            /\ \E d \in marked[s] : Range(devs'[s]) = Range(devs[s]) \ {d}
            /\ \A r \in Sets \ {s} : devs'[r] = devs[r] /\ found'[r] = found[r]
<1> DEFINE d == args[s][pos[s]]
           hit == pos[s] \in DOMAIN args[s] /\ d \in marked[s] /\ d \in Range(devs[s])
<1>1. /\ devs \in [Sets -> Seq(Devices)] /\ found \in [Sets -> BOOLEAN]
      /\ IsInjective(devs[s]) /\ devs[s] \in Seq(Devices)
  BY DEF TypeOK, Arrays
<1>2. /\ devs' = IF hit THEN [devs EXCEPT ![s] = Without(@, d)] ELSE devs
      /\ found' = [found EXCEPT ![s] = @ \/ hit]
  BY DEF StatusChar
<1>3. CASE ~hit
  <2>1. found' = found
    <3> HIDE DEF hit
    <3>1. (found[s] \/ hit) = found[s] /\ found' = [found EXCEPT ![s] = found[s] \/ hit]
      BY <1>1, <1>2, <1>3
    <3>2. found' = [found EXCEPT ![s] = found[s]]
      BY <3>1, Zenon
    <3> QED BY <3>2, <1>1
  <2> QED BY <2>1, <1>2, <1>3
<1>4. CASE hit
  <2>1. /\ IsInjective(Without(devs[s], d)) /\ Len(Without(devs[s], d)) = Len(devs[s]) - 1
        /\ Range(Without(devs[s], d)) = Range(devs[s]) \ {d}
    BY <1>1, <1>4, WithoutLemma
  <2>2. /\ devs'[s] = Without(devs[s], d) /\ found'[s]
        /\ \A r \in Sets \ {s} : devs'[r] = devs[r] /\ found'[r] = found[r]
    <3> HIDE DEF d
    <3> QED BY <1>1, <1>2, <1>4
  <2> QED BY <1>4, <2>1, <2>2
<1> QED BY <1>3, <1>4

\* What a registration puts into the array.
LEMMA SlavesLemma ==
  ASSUME TypeOK, Tables, NEW s \in Sets, NEW f \in Slaves(s)
  PROVE  /\ f \in Seq(Devices) /\ IsInjective(f) /\ Range(f) = Range(table[s])
         /\ Len(f) \in Nat /\ Len(f) >= 2 /\ Len(f) <= Len(Initially[s])
<1>1. /\ table[s] \in Seq(Devices) /\ Range(table[s]) \subseteq Devices
      /\ Len(table[s]) \in Nat /\ DOMAIN table[s] = 1 .. Len(table[s])
  BY DEF TypeOK, Range
<1>2. /\ f \in Seq(Devices) /\ IsInjective(f) /\ Range(f) = Range(table[s])
      /\ Len(f) \in Nat /\ Len(f) <= Len(table[s])
  BY <1>1, OrderedLemma DEF Slaves
<1>3. Len(table[s]) = Len(Initially[s]) /\ Len(table[s]) >= 2 /\ IsInjective(table[s])
  BY ConstantsAssumption DEF Tables
<1>4. 1 \in DOMAIN table[s] /\ 2 \in DOMAIN table[s]
  BY <1>1, <1>3
<1>5. /\ table[s][1] \in Range(f) /\ table[s][2] \in Range(f)
      /\ table[s][1] # table[s][2]
  <2>1. table[s][1] \in Range(table[s]) /\ table[s][2] \in Range(table[s])
    BY <1>4, Zenon DEF Range
  <2>2. table[s][1] # table[s][2]
    <3>1. \A i, j \in DOMAIN table[s] : table[s][i] = table[s][j] => i = j
      BY <1>3, Zenon DEF IsInjective
    <3> QED BY <3>1, <1>4
  <2> QED BY <2>1, <2>2, <1>2
<1>6. PICK i \in DOMAIN f : f[i] = table[s][1]
  BY <1>5 DEF Range
<1>7. PICK j \in DOMAIN f : f[j] = table[s][2]
  BY <1>5 DEF Range
<1>8. DOMAIN f = 1 .. Len(f) /\ i # j
  BY <1>2, <1>5, <1>6, <1>7
<1> QED BY <1>2, <1>3, <1>6, <1>7, <1>8

\* The arrays.
LEMMA ArraysStay == IInv /\ [Next]_vars => Arrays'
<1> SUFFICES ASSUME IInv, [Next]_vars, NEW r \in Sets
             PROVE  /\ IsInjective(devs'[r])
                    /\ max_devs'[r] <= Len(Initially[r])
                    /\ at'[r] # "unregistered" => max_devs'[r] >= 2
                    /\ intact' => Len(devs'[r]) <= max_devs'[r]
  BY DEF Arrays
<1> DEFINE Goal == /\ IsInjective(devs'[r])
                   /\ max_devs'[r] <= Len(Initially[r])
                   /\ at'[r] # "unregistered" => max_devs'[r] >= 2
                   /\ intact' => Len(devs'[r]) <= max_devs'[r]
<1> USE DEF kernel, struct, event
<1>14. TypeOK /\ Tables /\ Arrays
  BY DEF IInv
<1>15. /\ IsInjective(devs[r])
       /\ max_devs[r] <= Len(Initially[r])
       /\ at[r] # "unregistered" => max_devs[r] >= 2
       /\ intact => Len(devs[r]) <= max_devs[r]
  BY <1>14 DEF Arrays
<1>16. /\ at \in [Sets -> Stages] /\ devs \in [Sets -> Seq(Devices)]
       /\ max_devs \in [Sets -> Nat] /\ devs[r] \in Seq(Devices) /\ Len(devs[r]) \in Nat
       /\ names \in [Sets -> Seq(Devices)] /\ max_devs[r] \in Nat /\ Len(Initially[r]) \in Nat
  BY <1>14, ConstantsAssumption DEF TypeOK
<1>0. CASE UNCHANGED vars
  BY <1>15, <1>0 DEF vars
\* Most actions leave the array alone and happen in a registered set.
<1>1. ASSUME NEW s \in Sets, NEW stage, Goto(s, stage), at[s] # "unregistered",
             UNCHANGED <<struct, intact>>
      PROVE  Goal
  BY <1>1, <1>15, <1>16 DEF Goto
<1>2. ASSUME NEW d \in Devices, DeviceFails(d) \/ DevicePulled(d) PROVE Goal
  BY <1>15, <1>2 DEF DeviceFails, DevicePulled
<1>3. ASSUME NEW s \in Sets, ManualRebuild(s) PROVE Goal
  BY <1>15, <1>3 DEF ManualRebuild
<1>4. ASSUME NEW s \in Sets, Register(s) PROVE Goal
  <2>1. PICK f \in Slaves(s) :
          devs' = [devs EXCEPT ![s] = f] /\ max_devs' = [max_devs EXCEPT ![s] = Len(f)]
    BY <1>4 DEF Register
  <2>2. /\ IsInjective(f) /\ Len(f) \in Nat /\ Len(f) >= 2 /\ Len(f) <= Len(Initially[s])
    BY <1>14, SlavesLemma
  <2> QED BY <1>4, <1>15, <1>16, <2>1, <2>2 DEF Register, Goto
<1>5. ASSUME NEW s \in Sets, Unregister(s) PROVE Goal
  <2>1. IsInjective(<< >>) /\ Len(<< >>) = 0
    BY DEF IsInjective
  <2> QED BY <1>5, <1>15, <1>16, <2>1 DEF Unregister, Goto
<1>6. ASSUME NEW s \in Sets, Event(s) PROVE Goal
  BY <1>1, <1>6 DEF Event
<1>7. ASSUME NEW s \in Sets, StatusChar(s) PROVE Goal
  <2>1. max_devs' = max_devs /\ at' = at /\ intact' = intact
    BY <1>7 DEF StatusChar
  <2>2. CASE devs' = devs
    BY <2>1, <2>2, <1>15
  <2>3. CASE r # s /\ devs'[r] = devs[r]
    BY <2>1, <2>3, <1>15
  <2>4. CASE r = s /\ IsInjective(devs'[s]) /\ Len(devs'[s]) = Len(devs[s]) - 1
    BY <2>1, <2>4, <1>15, <1>16
  <2> QED BY <1>7, <1>14, <2>2, <2>3, <2>4, StatusCharLemma
<1>8. ASSUME NEW s \in Sets, Outcome(s) PROVE Goal
  BY <1>1, <1>8 DEF Outcome, LoopOver, Idle
<1>9. ASSUME NEW s \in Sets, StartFails(s) \/ End(s) \/ RefreshFails(s) \/ Added(s)
      PROVE  Goal
  BY <1>1, <1>9 DEF StartFails, End, RefreshFails, Added, Idle
<1>10. ASSUME NEW s \in Sets, Start(s) PROVE Goal
  BY <1>1, <1>10 DEF Start
<1>11. ASSUME NEW s \in Sets, Refresh(s) PROVE Goal
  BY <1>1, <1>11 DEF Refresh
<1>12. ASSUME NEW s \in Sets, Add(s), intact PROVE Goal
  <2> DEFINE d == Head(names[s])
  <2>1. at' = at /\ max_devs' = max_devs /\ at[s] = "adding"
    BY <1>12 DEF Add
  <2>2. CASE devs' = devs
    BY <2>1, <2>2, <1>12, <1>15
  <2>3. CASE ~Known(s, d) /\ devs' = [devs EXCEPT ![s] = Append(@, d)]
    <3>1. CASE r # s
      BY <2>1, <2>3, <3>1, <1>12, <1>15, <1>16
    <3>2. CASE r = s
      <4>1. d \in Devices
        BY <1>12, <1>16, TailLemma DEF Add
      <4>2. d \notin Range(devs[r])
        BY <2>3, <3>2 DEF Known
      <4> HIDE DEF d
      <4>3. devs'[r] = Append(devs[r], d)
        BY <2>3, <3>2, <1>16
      <4>4. Len(devs'[r]) = Len(devs[r]) + 1 /\ IsInjective(devs'[r])
        BY <4>1, <4>2, <4>3, <1>15, <1>16, AppendLemma
      <4>5. intact' => Len(devs[r]) < max_devs[r]
        <5>1. intact' = (Known(s, d) \/ Len(devs[s]) < Room(s)) /\ ~Known(s, d)
          BY <1>12, <2>3 DEF Add, d
        <5>2. intact' => Len(devs[s]) < Room(s)
          BY <5>1
        <5>3. Room(s) = max_devs[s]
          BY <1>15, <1>16, <2>1, <3>2 DEF Room
        <5> QED BY <5>2, <5>3, <3>2
      <4> QED BY <2>1, <4>4, <4>5, <1>15, <1>16
    <3> QED BY <3>1, <3>2
  <2> QED BY <1>12, <2>2, <2>3 DEF Add
<1> QED BY <1>0, <1>2, <1>3, <1>4, <1>5, <1>6, <1>7, <1>8, <1>9, <1>10, <1>11, <1>12
        DEF Next, Process

\* What the loop has passed.
LEMMA ScannedStay == IInv /\ [Next]_vars => Scanned'
<1> DEFINE Passed(r) == \A j \in DOMAIN args[r] :
                          j < pos[r] => args[r][j] \notin marked[r] \cap Range(devs[r])
           Good(r) == /\ at[r] \in {"loop", "end"} /\ ~found[r] => Passed(r)
                      /\ at[r] = "end" => ~found[r] /\ Len(devs[r]) < pos[r]
<1> SUFFICES ASSUME IInv, [Next]_vars, NEW r \in Sets PROVE Good(r)'
  BY DEF Scanned
<1> USE DEF kernel, struct, event
<1>14. TypeOK /\ Tables /\ Arrays
  BY DEF IInv
<1>15. Good(r)
  BY DEF IInv, Scanned
<1>16. /\ at \in [Sets -> Stages] /\ args \in [Sets -> Seq(Devices)]
       /\ marked \in [Sets -> SUBSET Devices] /\ pos \in [Sets -> Nat \ {0}]
       /\ found \in [Sets -> BOOLEAN] /\ devs \in [Sets -> Seq(Devices)]
       /\ Len(devs[r]) \in Nat /\ pos[r] \in Nat /\ DOMAIN args[r] \subseteq Nat \ {0}
  <2>1. /\ at \in [Sets -> Stages] /\ args \in [Sets -> Seq(Devices)]
        /\ marked \in [Sets -> SUBSET Devices] /\ pos \in [Sets -> Nat \ {0}]
        /\ found \in [Sets -> BOOLEAN] /\ devs \in [Sets -> Seq(Devices)]
    BY <1>14 DEF TypeOK
  <2>2. devs[r] \in Seq(Devices) /\ args[r] \in Seq(Devices) /\ pos[r] \in Nat \ {0}
    BY <2>1
  <2>3. DOMAIN args[r] = 1 .. Len(args[r]) /\ Len(args[r]) \in Nat
    BY <2>2
  <2> QED BY <2>1, <2>2, <2>3
\* What leaves the event of r alone, or ends it, or goes on to a stage after
\* it, keeps the fact.
<1>0. ASSUME UNCHANGED <<args[r], marked[r], pos[r], found[r], devs[r], at[r]>>
      PROVE  Good(r)'
  BY <1>0, <1>15
<1>1. ASSUME at'[r] \notin {"loop", "end"} PROVE Good(r)'
  BY <1>1
<1>2. ASSUME UNCHANGED vars PROVE Good(r)'
  BY <1>0, <1>2 DEF vars
<1>3. ASSUME NEW d \in Devices, DeviceFails(d) \/ DevicePulled(d) PROVE Good(r)'
  BY <1>0, <1>3 DEF DeviceFails, DevicePulled
<1>4. ASSUME NEW s \in Sets, ManualRebuild(s) PROVE Good(r)'
  BY <1>0, <1>4 DEF ManualRebuild
<1>5. ASSUME NEW s \in Sets, Goto(s, "idle") \/ Goto(s, "unregistered") \/ Goto(s, "start")
                             \/ Goto(s, "refresh") \/ Goto(s, "adding"),
             r # s => UNCHANGED <<args[r], marked[r], pos[r], found[r], devs[r]>>
      PROVE  Good(r)'
  <2>1. CASE r = s
    BY <1>1, <1>5, <1>16, <2>1 DEF Goto
  <2>2. CASE r # s
    BY <1>0, <1>5, <1>16, <2>2 DEF Goto
  <2> QED BY <2>1, <2>2
<1>6. ASSUME NEW s \in Sets, Idle(s), UNCHANGED devs PROVE Good(r)'
  <2>1. r # s => UNCHANGED <<args[r], marked[r], pos[r], found[r], devs[r]>>
    BY <1>6, <1>16 DEF Idle
  <2> QED BY <1>5, <1>6, <2>1 DEF Idle
<1>7. ASSUME NEW s \in Sets, Register(s) \/ Unregister(s) PROVE Good(r)'
  <2>1. r # s => UNCHANGED <<args[r], marked[r], pos[r], found[r], devs[r]>>
    BY <1>7, <1>16 DEF Register, Unregister
  <2> QED BY <1>5, <1>7, <2>1 DEF Register, Unregister
<1>8. ASSUME NEW s \in Sets, Event(s) PROVE Good(r)'
  <2>1. CASE r = s
    <3>1. pos'[r] = 1 /\ at'[r] = "loop" /\ args'[r] = table[r] /\ table[r] \in Seq(Devices)
      BY <1>8, <1>14, <1>16, <2>1 DEF Event, Goto, Tables, TypeOK
    <3> QED BY <3>1
  <2>2. CASE r # s
    BY <1>0, <1>8, <1>16, <2>2 DEF Event, Goto
  <2> QED BY <2>1, <2>2
<1>9. ASSUME NEW s \in Sets, StatusChar(s) PROVE Good(r)'
  <2>1. /\ args' = args /\ marked' = marked /\ at' = at /\ at[s] = "loop"
        /\ pos' = [pos EXCEPT ![s] = pos[s] + 1]
    BY <1>9 DEF StatusChar
  <2>2. CASE r # s
    <3>1. devs'[r] = devs[r] /\ found'[r] = found[r] /\ pos'[r] = pos[r]
      BY <1>9, <1>14, <1>16, <2>1, <2>2, StatusCharLemma
    <3> QED BY <1>0, <2>1, <3>1
  <2>3. CASE r = s /\ found'[s]
    BY <2>1, <2>3
  <2>4. CASE /\ r = s /\ devs' = devs /\ found' = found
             /\ pos[s] \in DOMAIN args[s] => args[s][pos[s]] \notin marked[s] \cap Range(devs[s])
    <3>1. pos'[r] = pos[r] + 1
      BY <2>1, <2>4, <1>16
    <3>2. ASSUME ~found[r], NEW j \in DOMAIN args[r], j < pos[r] + 1
          PROVE  args[r][j] \notin marked[r] \cap Range(devs[r])
      <4>1. j < pos[r] \/ j = pos[r]
        BY <1>16, <3>2
      <4> QED BY <4>1, <3>2, <2>1, <2>4, <1>15
    <3> QED BY <2>1, <2>4, <3>1, <3>2
  <2> QED BY <1>9, <1>14, <2>2, <2>3, <2>4, StatusCharLemma
<1>10. ASSUME NEW s \in Sets, Outcome(s) PROVE Good(r)'
  <2>1. CASE Idle(s)
    BY <2>1, <1>6, <1>10 DEF Outcome
  <2>2. CASE Goto(s, "start") /\ UNCHANGED event
    BY <2>2, <1>5, <1>10 DEF Outcome
  <2>3. CASE ~found[s] /\ Goto(s, "end") /\ UNCHANGED event
    <3>1. CASE r = s
      <4>1. /\ at'[r] = "end" /\ at[r] = "loop" /\ pos[r] > Len(devs[r])
            /\ UNCHANGED <<args, marked, pos, found, devs>>
        BY <1>10, <1>16, <2>3, <3>1 DEF Goto, Outcome, LoopOver
      <4> QED BY <4>1, <2>3, <3>1, <1>15, <1>16
    <3>2. CASE r # s
      BY <1>0, <1>10, <1>16, <2>3, <3>2 DEF Goto, Outcome
    <3> QED BY <3>1, <3>2
  <2> QED BY <1>10, <2>1, <2>2, <2>3 DEF Outcome
<1>11. ASSUME NEW s \in Sets, StartFails(s) \/ End(s) \/ RefreshFails(s) \/ Added(s)
       PROVE  Good(r)'
  <2>1. CASE Idle(s)
    BY <2>1, <1>6, <1>11 DEF StartFails, End, RefreshFails, Added
  <2>2. CASE Goto(s, "refresh") /\ UNCHANGED <<devs, event>>
    BY <2>2, <1>5
  <2> QED BY <1>11, <2>1, <2>2 DEF StartFails, End, RefreshFails, Added
<1>12. ASSUME NEW s \in Sets, Start(s) \/ Refresh(s) PROVE Good(r)'
  BY <1>5, <1>12 DEF Start, Refresh
<1>13. ASSUME NEW s \in Sets, Add(s) PROVE Good(r)'
  <2>1. at' = at /\ at[s] = "adding" /\ UNCHANGED event
    BY <1>13 DEF Add
  <2>2. CASE r = s
    BY <1>1, <2>1, <2>2
  <2>3. CASE r # s
    <3>1. devs'[r] = devs[r]
      BY <1>13, <1>16, <2>3 DEF Add
    <3> QED BY <1>0, <2>1, <3>1
  <2> QED BY <2>2, <2>3
<1> QED BY <1>2, <1>3, <1>4, <1>7, <1>8, <1>9, <1>10, <1>11, <1>12, <1>13 DEF Next, Process

\* What is known of the living members.
LEMMA KnowsStay == IInv /\ [Next]_vars => Knows'
<1> DEFINE Sure(r) == r \notin missed =>
      /\ at[r] \in {"idle", "loop", "start", "end"} => Living(r) \subseteq Range(devs[r])
      /\ at[r] = "adding" => Living(r) \subseteq Range(devs[r]) \cup Range(names[r])
<1> SUFFICES ASSUME IInv, [Next]_vars, NEW r \in Sets PROVE Sure(r)'
  BY DEF Knows
<1> USE DEF kernel, struct, event, Living
<1>14. TypeOK /\ Tables /\ Arrays
  BY DEF IInv
<1>15. Sure(r)
  BY DEF IInv, Knows
<1>16. /\ at \in [Sets -> Stages] /\ devs \in [Sets -> Seq(Devices)]
       /\ names \in [Sets -> Seq(Devices)] /\ table \in [Sets -> Seq(Devices)]
  BY <1>14 DEF TypeOK
<1>17. marked[r] \subseteq dead
  BY <1>14 DEF Tables
\* Fewer live, and nothing else happens to r.
<1>0. ASSUME UNCHANGED <<table[r], devs[r], at[r], names[r]>>, dead \subseteq dead',
             r \notin missed' => r \notin missed
      PROVE  Sure(r)'
  BY <1>0, <1>15
<1>1. ASSUME r \in missed' \/ at'[r] \in {"unregistered", "refresh"} PROVE Sure(r)'
  BY <1>1
<1>2. ASSUME UNCHANGED vars PROVE Sure(r)'
  BY <1>0, <1>2 DEF vars
<1>3. ASSUME NEW d \in Devices, DeviceFails(d) \/ DevicePulled(d) PROVE Sure(r)'
  BY <1>0, <1>3 DEF DeviceFails, DevicePulled
<1>4. ASSUME NEW s \in Sets, ManualRebuild(s) PROVE Sure(r)'
  <2>1. CASE r = s
    BY <1>1, <1>4, <2>1 DEF ManualRebuild
  <2>2. CASE r # s
    <3>1. table'[r] = table[r]
      BY <1>4, <1>14, <2>2, ReplaceLemma DEF ManualRebuild
    <3> QED BY <1>0, <1>4, <3>1 DEF ManualRebuild
  <2> QED BY <2>1, <2>2
\* From a stage where all is known to another.
<1>5. ASSUME NEW s \in Sets, NEW stage \in {"unregistered", "idle", "loop", "start", "end", "refresh"},
             Goto(s, stage), at[s] \in {"idle", "loop", "start", "end"},
             UNCHANGED <<table, dead, devs, names, missed>>
      PROVE  Sure(r)'
  <2>1. CASE r = s
    BY <1>5, <1>15, <1>16, <2>1 DEF Goto
  <2>2. CASE r # s
    BY <1>0, <1>5, <1>16, <2>2 DEF Goto
  <2> QED BY <2>1, <2>2
<1>6. ASSUME NEW s \in Sets, Register(s) PROVE Sure(r)'
  <2>1. PICK f \in Slaves(s) : devs' = [devs EXCEPT ![s] = f]
    BY <1>6 DEF Register
  <2>2. Range(f) = Range(table[s])
    BY <1>14, SlavesLemma
  <2>3. CASE r = s
    <3>1. devs'[r] = f /\ at'[r] = "idle" /\ table' = table
      BY <1>6, <1>16, <2>1, <2>3 DEF Register, Goto
    <3> QED BY <2>2, <2>3, <3>1
  <2>4. CASE r # s
    BY <1>0, <1>6, <1>16, <2>1, <2>4 DEF Register, Goto
  <2> QED BY <2>3, <2>4
<1>7. ASSUME NEW s \in Sets, Unregister(s) PROVE Sure(r)'
  <2>1. CASE r = s
    BY <1>1, <1>7, <1>16, <2>1 DEF Unregister, Goto
  <2>2. CASE r # s
    BY <1>0, <1>7, <1>16, <2>2 DEF Unregister, Goto
  <2> QED BY <2>1, <2>2
<1>8. ASSUME NEW s \in Sets, Event(s) \/ Outcome(s) \/ StartFails(s) \/ End(s) PROVE Sure(r)'
  BY <1>5, <1>8 DEF Event, Outcome, LoopOver, StartFails, End, Idle
<1>9. ASSUME NEW s \in Sets, StatusChar(s) PROVE Sure(r)'
  <2>1. UNCHANGED <<table, dead, at, names, missed>> /\ at[s] = "loop"
    BY <1>9 DEF StatusChar
  <2>2. CASE devs'[r] = devs[r]
    BY <1>0, <2>1, <2>2
  <2>3. CASE r = s /\ \E d \in marked[s] : Range(devs'[s]) = Range(devs[s]) \ {d}
    BY <1>15, <1>17, <2>1, <2>3
  <2> QED BY <1>9, <1>14, <2>2, <2>3, StatusCharLemma
<1>10. ASSUME NEW s \in Sets, Start(s) PROVE Sure(r)'
  <2>1. CASE r = s
    BY <1>1, <1>10, <1>16, <2>1 DEF Start, Goto
  <2>2. CASE r # s
    <3>1. table'[r] = table[r]
      BY <1>10, <1>14, <2>2, ReplaceLemma DEF Start
    <3> QED BY <1>0, <1>10, <1>16, <2>2, <3>1 DEF Start, Goto
  <2> QED BY <2>1, <2>2
<1>11. ASSUME NEW s \in Sets, RefreshFails(s) PROVE Sure(r)'
  <2>1. CASE r = s
    BY <1>1, <1>11, <2>1 DEF RefreshFails
  <2>2. CASE r # s
    BY <1>0, <1>11, <1>16, <2>2 DEF RefreshFails, Idle, Goto
  <2> QED BY <2>1, <2>2
<1>12. ASSUME NEW s \in Sets, Refresh(s) PROVE Sure(r)'
  <2> DEFINE T == Range(table[s]) \ (Range(disks) \cup gone)
  <2>1. CASE r = s
    <3>1. PICK new \in Ordered(s, T, table[s]) : disks' = disks \o new
      BY <1>12 DEF Refresh
    <3>2. /\ table[s] \in Seq(Devices) /\ T \subseteq Devices /\ Len(table[s]) \in Nat
          /\ disks \in Seq(Devices) /\ gone \subseteq dead
      BY <1>14 DEF TypeOK, Range
    <3>3. new \in Seq(Devices) /\ Range(new) = T
      <4> HIDE DEF T
      <4> QED BY <3>1, <3>2, OrderedLemma
    <3>4. Range(disks') = Range(disks) \cup T
      <4> HIDE DEF T
      <4> QED BY <3>1, <3>2, <3>3, ConcatLemma
    <3>5. names'[r] = disks' /\ at'[r] = "adding" /\ table' = table /\ dead' = dead
      BY <1>12, <1>16, <2>1 DEF Refresh, Goto
    <3> QED BY <2>1, <3>2, <3>4, <3>5
  <2>2. CASE r # s
    BY <1>0, <1>12, <1>16, <2>2 DEF Refresh, Goto
  <2> QED BY <2>1, <2>2
<1>13. ASSUME NEW s \in Sets, Add(s) PROVE Sure(r)'
  <2> DEFINE d == Head(names[s])
  <2>1. UNCHANGED <<table, dead, at, missed>> /\ at[s] = "adding"
        /\ names' = [names EXCEPT ![s] = Tail(names[s])]
    BY <1>13 DEF Add
  <2>2. CASE r = s
    <3>1. /\ names[s] \in Seq(Devices) /\ names[s] # << >> /\ devs[s] \in Seq(Devices)
          /\ gone \subseteq dead
      BY <1>13, <1>14, <1>16 DEF Add, TypeOK
    <3>2. /\ d \in Devices /\ Range(names[s]) = {d} \cup Range(Tail(names[s]))
      BY <3>1, TailLemma
    <3>3. Range(devs[s]) \subseteq Range(devs'[s]) /\ (d \in Range(devs'[s]) \/ d \in dead)
      <4>1. CASE devs' = devs /\ (Known(s, d) \/ d \in gone)
        BY <3>1, <4>1 DEF Known
      <4>2. CASE devs' = [devs EXCEPT ![s] = Append(@, d)]
        <5> HIDE DEF d
        <5>1. devs'[s] = Append(devs[s], d)
          BY <4>2, <1>16
        <5> QED BY <5>1, <3>1, <3>2, AppendLemma
      <4> QED BY <1>13, <4>1, <4>2 DEF Add
    <3>4. names'[s] = Tail(names[s])
      BY <2>1, <1>16
    <3> HIDE DEF d
    <3> QED BY <1>15, <2>1, <2>2, <3>2, <3>3, <3>4
  <2>3. CASE r # s
    <3>1. devs'[r] = devs[r] /\ names'[r] = names[r]
      BY <1>13, <1>16, <2>1, <2>3 DEF Add
    <3> QED BY <1>0, <2>1, <3>1
  <2> QED BY <2>2, <2>3
<1>18. ASSUME NEW s \in Sets, Added(s), intact PROVE Sure(r)'
  <2>1. UNCHANGED <<table, dead, devs, missed>> /\ at[s] = "adding"
        /\ at' = [at EXCEPT ![s] = "idle"] /\ names' = [names EXCEPT ![s] = << >>]
    BY <1>18 DEF Added, Idle, Goto
  <2>2. CASE r = s
    <3>1. Len(devs[s]) <= max_devs[s] /\ Len(devs[s]) \in Nat /\ max_devs[s] \in Nat
      BY <1>14, <1>18 DEF Arrays, TypeOK
    <3>2. names[s] = << >>
      BY <1>18, <3>1 DEF Added
    <3>3. Range(names[s]) = {}
      BY <3>2 DEF Range
    <3> QED BY <1>15, <1>16, <2>1, <2>2, <3>3
  <2>3. CASE r # s
    BY <1>0, <1>16, <2>1, <2>3
  <2> QED BY <2>2, <2>3
<1> QED BY <1>2, <1>3, <1>4, <1>6, <1>7, <1>8, <1>9, <1>10, <1>11, <1>12, <1>13, <1>18
        DEF Next, Process

\* The invariant of the arrays and of the events that read them.
LEMMA Inductive == Spec => []IInv
<1>1. IInv /\ [Next]_vars => IInv'
  BY TypesStay, TablesStay, ArraysStay, ScannedStay, KnowsStay DEF IInv
<1> QED BY Initial, <1>1, PTL DEF Spec

-----------------------------------------------------------------------------
(* The theorems.                                                           *)

\* The types.
THEOREM Typing == Spec => []TypeOK
<1>1. IInv => TypeOK
  BY DEF IInv
<1> QED BY <1>1, Inductive, PTL

\* A device is in an array once, whatever removals, rebuilds and names of
\* other sets do to the array.
THEOREM Distinct == Spec => []DistinctDevices
<1>1. IInv => DistinctDevices
  BY DEF IInv, Arrays, DistinctDevices
<1> QED BY <1>1, Inductive, PTL

\* The loop over the status characters ends no later than they do, as long as
\* nothing was written past an array.
THEOREM Covered == Spec => []LineCovered
<1>1. IInv => LineCovered
  <2> SUFFICES ASSUME IInv, intact, NEW s \in Sets, at[s] = "loop"
               PROVE  Len(devs[s]) <= Len(args[s])
    BY DEF LineCovered
  <2>1. /\ Len(devs[s]) <= max_devs[s] /\ max_devs[s] <= Len(Initially[s])
        /\ Len(args[s]) = Len(Initially[s])
    BY DEF IInv, Arrays, Tables
  <2>2. Len(devs[s]) \in Nat /\ max_devs[s] \in Nat /\ Len(Initially[s]) \in Nat
    BY ConstantsAssumption DEF IInv, TypeOK
  <2> QED BY <2>1, <2>2
<1> QED BY <1>1, Inductive, PTL

\* No 'D' is overlooked in the line of a set whose devices are all known: the
\* line is not longer than the array, so the loop has looked at all of it.
THEOREM InSyncIsInSync == Spec => []NoFalseSync
<1>1. IInv => NoFalseSync
  <2> SUFFICES ASSUME IInv, NEW s \in Sets, at[s] = "end", Range(args[s]) \subseteq Range(devs[s])
               PROVE  marked[s] = {}
    BY DEF NoFalseSync
  <2>1. /\ args[s] \in Seq(Devices) /\ devs[s] \in Seq(Devices) /\ pos[s] \in Nat
        /\ IsInjective(args[s]) /\ marked[s] \subseteq Range(args[s])
    BY DEF IInv, TypeOK, Tables
  <2>2. /\ Len(devs[s]) < pos[s]
        /\ \A j \in DOMAIN args[s] : j < pos[s] => args[s][j] \notin marked[s] \cap Range(devs[s])
    BY DEF IInv, Scanned
  <2>3. Len(args[s]) <= Len(devs[s])
    BY <2>1, PigeonHole
  <2>4. \A j \in DOMAIN args[s] : j < pos[s]
    BY <2>1, <2>2, <2>3
  <2>5. ASSUME NEW d \in marked[s] PROVE FALSE
    <3>1. PICK j \in DOMAIN args[s] : args[s][j] = d
      BY <2>1 DEF Range
    <3>2. d \in Range(args[s])
      BY <2>1
    <3> QED BY <2>2, <2>4, <3>1, <3>2
  <2> QED BY <2>5
<1> QED BY <1>1, Inductive, PTL

\* Between events the plug-in knows every living member of a set that was
\* never rebuilt behind its back.
THEOREM LivingAreKnown == Spec => []LivingKnown
<1>1. IInv => LivingKnown
  BY DEF IInv, Knows, Living, LivingKnown
<1> QED BY <1>1, Inductive, PTL

\* The device that leaves the array in the loop is one the line shows dead.
THEOREM DeadAreRemoved == Spec => OnlyDeadRemoved
<1> USE DEF kernel, struct, event
<1>1. ASSUME IInv, [Next]_vars, NEW r \in Sets, at[r] = "loop"
      PROVE  Range(devs[r]) \ Range(devs'[r]) \subseteq marked[r]
  <2>1. TypeOK /\ Arrays /\ at \in [Sets -> Stages] /\ devs \in [Sets -> Seq(Devices)]
    BY <1>1 DEF IInv, TypeOK
  <2>2. ASSUME NEW s \in Sets, Register(s) \/ Unregister(s) \/ Add(s)
        PROVE  devs'[r] = devs[r]
    <3>1. r # s
      BY <1>1, <2>2 DEF Register, Unregister, Add
    <3> QED BY <2>1, <2>2, <3>1 DEF Register, Unregister, Add
  <2>3. ASSUME NEW s \in Sets, StatusChar(s)
        PROVE  Range(devs[r]) \ Range(devs'[r]) \subseteq marked[r]
    <3>1. \/ devs'[r] = devs[r]
          \/ r = s /\ \E d \in marked[s] : Range(devs'[s]) = Range(devs[s]) \ {d}
      BY <2>1, <2>3, StatusCharLemma
    <3> QED BY <3>1
  <2>4. ASSUME UNCHANGED devs PROVE Range(devs[r]) \ Range(devs'[r]) \subseteq marked[r]
    BY <2>4
  <2>5. \/ UNCHANGED devs
        \/ \E s \in Sets : Register(s) \/ Unregister(s) \/ Add(s) \/ StatusChar(s)
    BY <1>1 DEF Next, Process, vars, DeviceFails, DevicePulled, ManualRebuild, Event, Outcome,
                StartFails, Start, End, RefreshFails, Refresh, Added
  <2> QED BY <2>2, <2>3, <2>4, <2>5
<1>2. IInv /\ [Next]_vars =>
        [\A s \in Sets : at[s] = "loop" => Range(devs[s]) \ Range(devs'[s]) \subseteq marked[s]]_vars
  BY <1>1
<1> QED BY <1>2, Inductive, PTL DEF Spec, OnlyDeadRemoved
=============================================================================
