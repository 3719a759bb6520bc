-------------------------- MODULE DsoRegistryProofs -------------------------
(***************************************************************************)
(* Proofs about DsoRegistry for any number of threads, names and           *)
(* addresses.                                                              *)
(***************************************************************************)
EXTENDS DsoRegistry, TLAPS

\* A thread holds _register_mutex exactly between its lock and its unlock.
MutexInv ==
    \A t \in Threads : register_mutex = t <=> pc[t] \in CriticalPCs

\* What a thread inside a call was called with.
ArgInv ==
    \A t \in Threads :
        /\ pc[t] # "idle" => arg[t] \in Names
        /\ pc[t] \in ProcessPCs => t \in Monitors[arg[t]]

\* The structure of a registration carries the name of the registration; when
\* it is linked no other structure of the list has that name.
NewInv ==
    \A t \in Threads :
        /\ pc[t] \in {"rd_relock", "rd_refind", "rd_add"} =>
               nameOf[rs[t]] = arg[t]
        /\ pc[t] = "rd_add" => arg[t] \notin Registered

\* What a lookup under the mutex found is still so when it is acted upon.
HeldInv ==
    \A t \in Threads :
        /\ pc[t] \in {"pe_flag", "ud_del"} =>
               rs[t] \in Linked /\ nameOf[rs[t]] = arg[t]
        /\ pc[t] = "ud_del" => rs[t] \notin inUse

OwnersInv ==
    /\ Linked \subseteq allocated
    /\ \A t \in Threads :
          pc[t] \in OwnerPCs =>
              /\ rs[t] \in allocated \ Linked
              /\ \A u \in Threads : pc[u] \in OwnerPCs /\ rs[u] = rs[t] => u = t
    /\ \A a \in allocated \ Linked :
          \E t \in Threads : pc[t] \in OwnerPCs /\ rs[t] = a

ListInv ==
    TypeOK /\ MutexInv /\ ArgInv /\ UniqueNames /\ OwnersInv /\ NewInv /\ HeldInv

IInv == ListInv /\ EventSetLive

-----------------------------------------------------------------------------
(* Lemmas about the list operators.                                        *)

\* _find_raid_set() on a list without duplicate names.
LEMMA FindLemma ==
    ASSUME TypeOK, UniqueNames, NEW n \in Names
    PROVE  /\ Find(n) = Null => n \notin Registered
           /\ Find(n) # Null => Find(n) \in Linked /\ nameOf[Find(n)] = n
<1> DEFINE hits == {i \in DOMAIN raid_sets : nameOf[raid_sets[i]] = n}
<1>1. Linked \subseteq Addrs
  BY DEF TypeOK, Linked, Range
<1>2. CASE hits = {}
  <2>1. n \notin Registered
    BY <1>2 DEF Registered, Linked, Range
  <2>2. Find(n) = Null
    BY <1>2 DEF Find
  <2> QED BY <2>1, <2>2
<1>3. CASE hits # {}
  <2>1. PICK i \in hits : TRUE
    BY <1>3
  <2>2. \A j \in hits : j = i
    BY <2>1 DEF UniqueNames
  <2>3. i \in Nat
    BY <2>1 DEF TypeOK
  <2>4. \A j \in hits : i <= j
    BY <2>2, <2>3
  <2>5. (CHOOSE k \in hits : \A j \in hits : k <= j) = i
    BY <2>1, <2>2, <2>4
  <2>6. Find(n) = raid_sets[i]
    BY <1>3, <2>5 DEF Find
  <2>7. raid_sets[i] \in Linked /\ nameOf[raid_sets[i]] = n
    BY <2>1 DEF Linked, Range
  <2>8. raid_sets[i] # Null
    BY <2>7, <1>1, ConstantsAssumption
  <2> QED BY <2>6, <2>7, <2>8
<1> QED BY <1>2, <1>3

\* _add_raid_set() adds one structure.
LEMMA AppendLemma ==
    ASSUME TypeOK, NEW a \in Addrs
    PROVE  /\ Append(raid_sets, a) \in Seq(Addrs)
           /\ Range(Append(raid_sets, a)) = Linked \cup {a}
<1> DEFINE s == Append(raid_sets, a)
<1>1. raid_sets \in Seq(Addrs)
  BY DEF TypeOK
<1>2. /\ s \in Seq(Addrs) /\ Len(s) = Len(raid_sets) + 1
      /\ Len(raid_sets) \in Nat
      /\ DOMAIN s = 1 .. Len(raid_sets) + 1
      /\ DOMAIN raid_sets = 1 .. Len(raid_sets)
      /\ \A i \in 1 .. Len(raid_sets) : s[i] = raid_sets[i]
      /\ s[Len(raid_sets) + 1] = a
  BY <1>1
<1> HIDE DEF s
<1>3. \A x \in Range(s) : x \in Linked \cup {a}
  BY <1>2 DEF Range, Linked
<1>4. \A x \in Linked \cup {a} : x \in Range(s)
  BY <1>2 DEF Range, Linked
<1> QED BY <1>2, <1>3, <1>4 DEF s

\* _del_raid_set() removes that one structure and keeps the order of the rest.
LEMMA WithoutLemma ==
    ASSUME TypeOK, UniqueNames, NEW a \in Linked
    PROVE  /\ Without(a) \in Seq(Addrs)
           /\ Range(Without(a)) = Linked \ {a}
           /\ \A i, j \in DOMAIN Without(a) :
                 nameOf[Without(a)[i]] = nameOf[Without(a)[j]] => i = j
<1> DEFINE n == Len(raid_sets)
           k == CHOOSE k \in DOMAIN raid_sets : raid_sets[k] = a
           w == [i \in 1 .. n - 1 |->
                    IF i < k THEN raid_sets[i] ELSE raid_sets[i + 1]]
<1>1. /\ raid_sets \in Seq(Addrs) /\ n \in Nat
      /\ DOMAIN raid_sets = 1 .. n
      /\ \A i \in 1 .. n : raid_sets[i] \in Addrs
  BY DEF TypeOK
<1>2. k \in 1 .. n /\ raid_sets[k] = a
  BY <1>1 DEF Linked, Range
<1>3. \A i, j \in 1 .. n :
         nameOf[raid_sets[i]] = nameOf[raid_sets[j]] => i = j
  BY <1>1 DEF UniqueNames
<1>4. Without(a) = w
  BY DEF Without
<1> HIDE DEF n, k
<1>5. /\ DOMAIN w = 1 .. n - 1
      /\ \A i \in 1 .. n - 1 :
            /\ i < k => i \in 1 .. n /\ w[i] = raid_sets[i]
            /\ ~(i < k) => i + 1 \in 1 .. n /\ w[i] = raid_sets[i + 1]
  BY <1>1, <1>2
<1>6. w \in Seq(Addrs)
  <2>1. n - 1 \in Nat
    BY <1>1, <1>2
  <2>2. w \in [1 .. n - 1 -> Addrs]
    BY <1>1, <1>5
  <2> HIDE DEF w
  <2> QED BY <2>1, <2>2
<1> HIDE DEF w
<1>7. \A x \in Range(w) : x \in Linked \ {a}
  <2> SUFFICES ASSUME NEW i \in 1 .. n - 1
               PROVE  w[i] \in Linked \ {a}
    BY <1>5 DEF Range
  <2> DEFINE m == IF i < k THEN i ELSE i + 1
  <2>1. m \in 1 .. n /\ w[i] = raid_sets[m] /\ m # k
    BY <1>5, <1>2
  <2> HIDE DEF m
  <2>2. raid_sets[m] # raid_sets[k]
    BY <2>1, <1>2, <1>3
  <2> QED BY <2>1, <2>2, <1>1, <1>2 DEF Linked, Range
<1>8. \A x \in Linked \ {a} : x \in Range(w)
  <2> SUFFICES ASSUME NEW m \in 1 .. n, raid_sets[m] # a
               PROVE  raid_sets[m] \in Range(w)
    BY <1>1 DEF Linked, Range
  <2>1. m # k
    BY <1>2
  <2> DEFINE i == IF m < k THEN m ELSE m - 1
  <2>2. i \in 1 .. n - 1 /\ w[i] = raid_sets[m]
    <3>1. CASE m < k
      BY <3>1, <1>1, <1>2, <1>5
    <3>2. CASE ~(m < k)
      <4>1. m - 1 \in 1 .. n - 1 /\ ~(m - 1 < k) /\ (m - 1) + 1 = m
        BY <3>2, <2>1, <1>1, <1>2
      <4> QED BY <4>1, <3>2, <1>5
    <3> QED BY <3>1, <3>2
  <2> HIDE DEF i
  <2> QED BY <2>2, <1>5 DEF Range
<1>9. \A i, j \in DOMAIN w : nameOf[w[i]] = nameOf[w[j]] => i = j
  <2> SUFFICES ASSUME NEW i \in 1 .. n - 1, NEW j \in 1 .. n - 1,
                      nameOf[w[i]] = nameOf[w[j]]
               PROVE  i = j
    BY <1>5
  <2> DEFINE M(x) == IF x < k THEN x ELSE x + 1
  <2>1. /\ M(i) \in 1 .. n /\ w[i] = raid_sets[M(i)]
        /\ M(j) \in 1 .. n /\ w[j] = raid_sets[M(j)]
    BY <1>5
  <2>2. M(i) = M(j)
    BY <2>1, <1>3
  <2> QED BY <2>2, <1>1, <1>2
<1>10. Range(w) = Linked \ {a}
  BY <1>7, <1>8
<1> QED BY <1>4, <1>6, <1>9, <1>10
-----------------------------------------------------------------------------
(* The steps                                                               *)

\* g is f, changed at t at most, to a member of S.
Update(f, g, t, S) == g = f \/ \E v \in S : g = [f EXCEPT ![t] = v]

\* The locals of thread t alone may change, each to a value of its type.
LocalsOf(t) ==
    /\ Update(pc, pc', t, PCs)
    /\ Update(arg, arg', t, Names \cup {Null})
    /\ Update(rs, rs', t, Addrs \cup {Null})
    /\ Update(cursor, cursor', t, Addrs \cup {Null})
    /\ Update(targets, targets', t, 0 .. MaxTargets)

\* A step of one thread keeps the types of the locals of all, and changes
\* no local of another.
LEMMA LocalsLemma ==
    ASSUME TypeOK, NEW t \in Threads, LocalsOf(t)
    PROVE  /\ pc' \in [Threads -> PCs]
           /\ arg' \in [Threads -> Names \cup {Null}]
           /\ rs' \in [Threads -> Addrs \cup {Null}]
           /\ cursor' \in [Threads -> Addrs \cup {Null}]
           /\ targets' \in [Threads -> 0 .. MaxTargets]
           /\ \A u \in Threads \ {t} :
                 pc'[u] = pc[u] /\ arg'[u] = arg[u] /\ rs'[u] = rs[u]
<1> USE DEF TypeOK, LocalsOf, Update
<1>1. pc' \in [Threads -> PCs] /\ \A u \in Threads \ {t} : pc'[u] = pc[u]
  OBVIOUS
<1>2. /\ arg' \in [Threads -> Names \cup {Null}]
      /\ \A u \in Threads \ {t} : arg'[u] = arg[u]
  BY SMTT(30)
<1>3. /\ rs' \in [Threads -> Addrs \cup {Null}]
      /\ \A u \in Threads \ {t} : rs'[u] = rs[u]
  BY ZenonT(30)
<1>4. cursor' \in [Threads -> Addrs \cup {Null}]
  OBVIOUS
<1>5. targets' \in [Threads -> 0 .. MaxTargets]
  OBVIOUS
<1> QED BY <1>1, <1>2, <1>3, <1>4, <1>5

\* The count of targets goes down to zero.
LEMMA TargetCounts ==
    /\ 0 \in 0 .. MaxTargets
    /\ \A k \in 0 .. MaxTargets : k > 0 => k - 1 \in 0 .. MaxTargets
BY ConstantsAssumption

\* Reading a next pointer finds an address or NULL.
LEMMA PointerTypes ==
    ASSUME TypeOK
    PROVE  /\ Head_ \in Addrs \cup {Null}
           /\ \A a \in Addrs : NextOf(a) \in Addrs \cup {Null}
<1>1. /\ DOMAIN raid_sets = 1 .. Len(raid_sets) /\ Len(raid_sets) \in Nat
      /\ \A i \in 1 .. Len(raid_sets) : raid_sets[i] \in Addrs
      /\ raid_sets # <<>> => 1 \in 1 .. Len(raid_sets)
  BY DEF TypeOK
<1>2. ASSUME NEW a \in Linked
      PROVE  (CHOOSE i \in DOMAIN raid_sets : raid_sets[i] = a) \in DOMAIN raid_sets
  BY DEF Linked, Range
<1>3. \A n \in Nat : \A i \in 1 .. n : i # n => i + 1 \in 1 .. n
  OBVIOUS
<1> QED BY <1>1, <1>2, <1>3 DEF Head_, NextOf, TypeOK

\* Unchanged variables leave the sets read off them unchanged.
LEMMA SameList ==
    ASSUME raid_sets' = raid_sets, nameOf' = nameOf
    PROVE  /\ Linked' = Linked
           /\ Registered' = Registered
           /\ UniqueNames' = UniqueNames
BY DEF Linked, Range, Registered, UniqueNames

\* A step outside the critical sections that neither links, unlinks,
\* allocates nor frees, and sets no flag.
LEMMA QuietStep ==
    ASSUME ListInv, NEW t \in Threads, LocalsOf(t),
           UNCHANGED <<raid_sets, allocated, nameOf, next, register_mutex>>,
           inUse' \subseteq inUse,
           event_mutex' \in [Addrs -> Threads \cup {Null}],
           calls' \in 0 .. MaxCalls, up' \in BOOLEAN,
           {pc[t], pc'[t]} \cap (CriticalPCs \cup OwnerPCs) = {},
           pc'[t] # "idle" => arg'[t] \in Names,
           pc'[t] \in ProcessPCs => t \in Monitors[arg'[t]]
    PROVE  ListInv'
<1> USE DEF ListInv
<1>0. \A u \in Threads \ {t} :
         pc'[u] = pc[u] /\ arg'[u] = arg[u] /\ rs'[u] = rs[u]
  BY LocalsLemma
<1>1. TypeOK'
  BY LocalsLemma DEF TypeOK
<1>2. Linked' = Linked /\ Registered' = Registered /\ UniqueNames'
  BY SameList
<1>3. MutexInv'
  BY <1>0, ConstantsAssumption DEF MutexInv
<1>4. ArgInv'
  BY <1>0 DEF ArgInv
<1>5. NewInv'
  BY <1>0, <1>2 DEF NewInv, OwnerPCs, CriticalPCs
<1>6. HeldInv'
  BY <1>0, <1>2 DEF HeldInv, CriticalPCs
<1>7. OwnersInv'
  BY <1>0, <1>2 DEF OwnersInv
<1> QED BY <1>1, <1>2, <1>3, <1>4, <1>5, <1>6, <1>7

\* dmeventd calls register_device, unregister_device or process_event.
LEMMA CallStep ==
    ASSUME ListInv, NEW t \in Threads, NEW n \in Names,
           NEW label \in {"rd_lock", "ud_lock", "pe_lock"}, Call(t, n, label),
           label = "pe_lock" => t \in Monitors[n]
    PROVE  ListInv'
<1> USE DEF ListInv, TypeOK, Call, Goto, heapVars
<1>1. /\ pc[t] = "idle" /\ pc'[t] = label /\ arg'[t] = n
      /\ Update(pc, pc', t, PCs)
  BY DEF Update, PCs, RegisterPCs, UnregisterPCs, ProcessPCs, EventPCs, WalkPCs,
              CriticalPCs, OwnerPCs
<1>2. LocalsOf(t)
  BY <1>1 DEF Update, LocalsOf
<1>3. calls' \in 0 .. MaxCalls
  BY ConstantsAssumption
<1>4. {pc[t], pc'[t]} \cap (CriticalPCs \cup OwnerPCs) = {}
      /\ (label \in ProcessPCs => label = "pe_lock")
  BY <1>1 DEF PCs, RegisterPCs, UnregisterPCs, ProcessPCs, EventPCs, WalkPCs,
              CriticalPCs, OwnerPCs
<1> QED BY <1>1, <1>2, <1>3, <1>4, QuietStep

\* pthread_mutex_lock(&_register_mutex)
LEMMA LockStep ==
    ASSUME ListInv, NEW t \in Threads, NEW from, NEW to,
           LockRegister(t, from, to),
           \/ from = "rd_lock" /\ to = "rd_find"
           \/ from = "rd_relock" /\ to = "rd_refind"
           \/ from = "ud_lock" /\ to = "ud_find"
           \/ from = "pe_lock" /\ to = "pe_find"
    PROVE  ListInv'
<1> USE DEF ListInv, LockRegister, Goto, heapVars
<1>1. /\ pc[t] = from /\ pc'[t] = to /\ register_mutex' = t
      /\ register_mutex = Null /\ Update(pc, pc', t, PCs)
      /\ UNCHANGED <<arg, rs, inUse, allocated>>
  BY DEF Update, TypeOK, PCs, RegisterPCs, UnregisterPCs, ProcessPCs, EventPCs, WalkPCs,
              CriticalPCs, OwnerPCs
<1>2. LocalsOf(t)
  BY <1>1 DEF Update, LocalsOf
<1>3. \A u \in Threads \ {t} : pc'[u] = pc[u]
  BY <1>2, LocalsLemma
<1>4. TypeOK'
  BY <1>2, LocalsLemma DEF TypeOK
<1>5. Linked' = Linked /\ Registered' = Registered /\ UniqueNames'
  BY SameList
<1>6. MutexInv'
  BY <1>1, <1>3, ConstantsAssumption DEF MutexInv, CriticalPCs
<1>7. ArgInv'
  BY <1>1, <1>3 DEF ArgInv, PCs, RegisterPCs, UnregisterPCs, ProcessPCs, EventPCs, WalkPCs,
              CriticalPCs, OwnerPCs
<1>8. NewInv' /\ HeldInv'
  BY <1>1, <1>3, <1>5 DEF NewInv, HeldInv
<1>9. OwnersInv'
  <2>1. \A u \in Threads : pc'[u] \in OwnerPCs <=> pc[u] \in OwnerPCs
    BY <1>1, <1>3 DEF OwnerPCs
  <2> QED BY <1>1, <1>5, <2>1 DEF OwnersInv
<1> QED BY <1>4, <1>5, <1>6, <1>7, <1>8, <1>9

\* The actions of QuietStep's kind.
Quiet(t) ==
    \/ RegisterGiveUp(t) \/ RegisterLog(t)
    \/ ProcessEventLock(t) \/ ProcessTarget(t) \/ WalkStep(t)
    \/ StatusWalked(t) \/ LogWalked(t) \/ RebuildWalked(t) \/ RepopulateWalked(t)
    \/ ProcessEventUnlock(t) \/ ProcessClear(t)

\* The steps that are as QuietStep has them.
LEMMA QuietActions ==
    ASSUME ListInv, NEW t \in Threads, Quiet(t)
    PROVE  ListInv'
<1> USE DEF Quiet, RegisterGiveUp, RegisterLog, ProcessEventLock,
           ProcessTarget, WalkStep, StatusWalked, LogWalked,
           RebuildWalked, RepopulateWalked, ProcessEventUnlock,
           ProcessClear,
           StartWalk, EndTarget, Goto, Return, heapVars
<1>1. LocalsOf(t)
  <2>1. Update(pc, pc', t, PCs)
    BY DEF Update, PCs, RegisterPCs, UnregisterPCs, ProcessPCs, EventPCs, WalkPCs,
              CriticalPCs, OwnerPCs
  <2>2. Update(cursor, cursor', t, Addrs \cup {Null})
    BY PointerTypes DEF ListInv, TypeOK, Update
  <2>3. /\ Update(arg, arg', t, Names \cup {Null})
        /\ Update(rs, rs', t, Addrs \cup {Null})
    BY DEF Update
  <2>4. Update(targets, targets', t, 0 .. MaxTargets)
    BY TargetCounts DEF ListInv, TypeOK, Update
  <2> QED BY <2>1, <2>2, <2>3, <2>4 DEF LocalsOf
<1>2. /\ {pc[t], pc'[t]} \cap (CriticalPCs \cup OwnerPCs) = {}
      /\ pc'[t] \in ProcessPCs => pc'[t] # "idle"
      /\ pc'[t] # "idle" => pc[t] \in ProcessPCs /\ UNCHANGED arg
      /\ pc[t] # "idle"
  BY DEF ListInv, TypeOK, PCs, RegisterPCs, UnregisterPCs, ProcessPCs, EventPCs, WalkPCs,
              CriticalPCs, OwnerPCs
<1>3. /\ UNCHANGED <<raid_sets, allocated, nameOf, next, register_mutex>>
      /\ inUse' \subseteq inUse
      /\ event_mutex' \in [Addrs -> Threads \cup {Null}]
      /\ calls' \in 0 .. MaxCalls /\ up' \in BOOLEAN
  BY ZenonT(30) DEF ListInv, TypeOK
<1>4. pc'[t] # "idle" =>
        arg'[t] \in Names /\ (pc'[t] \in ProcessPCs => t \in Monitors[arg'[t]])
  BY <1>2 DEF ListInv, ArgInv
<1> QED BY <1>1, <1>2, <1>3, <1>4, QuietStep

\* The first lookup of register_device().
LEMMA RegisterFindStep ==
    ASSUME ListInv, NEW t \in Threads, RegisterFind(t)
    PROVE  ListInv'
<1> USE DEF ListInv, RegisterFind, Goto, Return, UnlockRegister, heapVars
<1>0. arg[t] \in Names
  BY DEF ArgInv
<1>a. /\ Find(arg[t]) = Null => arg[t] \notin Registered
      /\ Find(arg[t]) # Null =>
            /\ Find(arg[t]) \in Linked /\ nameOf[Find(arg[t])] = arg[t]
            /\ Find(arg[t]) \in Addrs
  BY <1>0, FindLemma DEF OwnersInv, TypeOK
<1>1. LocalsOf(t)
  <2>1. Update(pc, pc', t, PCs)
    BY DEF Update, PCs, RegisterPCs, UnregisterPCs, ProcessPCs, EventPCs, WalkPCs,
              CriticalPCs, OwnerPCs
  <2>2. Update(rs, rs', t, Addrs \cup {Null})
    BY <1>a DEF TypeOK, Update
  <2>3. /\ Update(arg, arg', t, Names \cup {Null})
        /\ Update(cursor, cursor', t, Addrs \cup {Null})
        /\ Update(targets, targets', t, 0 .. MaxTargets)
    BY TargetCounts DEF Update
  <2> QED BY <2>1, <2>2, <2>3 DEF LocalsOf
<1>2. \A u \in Threads \ {t} :
         pc'[u] = pc[u] /\ arg'[u] = arg[u] /\ rs'[u] = rs[u]
  BY <1>1, LocalsLemma
<1>3. TypeOK'
  BY <1>1, LocalsLemma DEF TypeOK
<1>4. Linked' = Linked /\ Registered' = Registered /\ UniqueNames'
  BY SameList
<1>5. MutexInv'
  BY <1>2, ConstantsAssumption DEF MutexInv, TypeOK, PCs, RegisterPCs, UnregisterPCs, ProcessPCs, EventPCs, WalkPCs,
              CriticalPCs, OwnerPCs
<1>6. ArgInv'
  BY <1>2 DEF ArgInv, TypeOK, PCs, RegisterPCs, UnregisterPCs, ProcessPCs, EventPCs, WalkPCs,
              CriticalPCs, OwnerPCs
<1>7. NewInv' /\ HeldInv'
  BY <1>a, <1>2, <1>4, ZenonT(30) DEF NewInv, HeldInv, TypeOK
<1>8. OwnersInv'
  <2>1. \A u \in Threads : pc'[u] \in OwnerPCs <=> pc[u] \in OwnerPCs
    BY <1>2 DEF OwnerPCs, TypeOK
  <2>2. \A u \in Threads : pc[u] \in OwnerPCs => rs'[u] = rs[u]
    BY <1>2 DEF OwnerPCs
  <2> QED BY <1>4, <2>1, <2>2 DEF OwnersInv
<1> QED BY <1>3, <1>4, <1>5, <1>6, <1>7, <1>8

\* The second lookup: the name is free, or the new structure is to go.
LEMMA RegisterRefindStep ==
    ASSUME ListInv, NEW t \in Threads, RegisterRefind(t)
    PROVE  ListInv'
<1> USE DEF ListInv, RegisterRefind, Goto, Return, UnlockRegister, heapVars
<1>0. arg[t] \in Names
  BY DEF ArgInv
<1>a. /\ Find(arg[t]) = Null => arg[t] \notin Registered
      /\ Find(arg[t]) # Null =>
            /\ Find(arg[t]) \in Linked /\ nameOf[Find(arg[t])] = arg[t]
            /\ Find(arg[t]) \in Addrs
  BY <1>0, FindLemma DEF OwnersInv, TypeOK
<1>1. LocalsOf(t)
  <2>1. Update(pc, pc', t, PCs)
    BY DEF Update, PCs, RegisterPCs, UnregisterPCs, ProcessPCs, EventPCs, WalkPCs,
              CriticalPCs, OwnerPCs
  <2>2. Update(rs, rs', t, Addrs \cup {Null})
    BY <1>a DEF TypeOK, Update
  <2>3. /\ Update(arg, arg', t, Names \cup {Null})
        /\ Update(cursor, cursor', t, Addrs \cup {Null})
        /\ Update(targets, targets', t, 0 .. MaxTargets)
    BY TargetCounts DEF Update
  <2> QED BY <2>1, <2>2, <2>3 DEF LocalsOf
<1>2. \A u \in Threads \ {t} :
         pc'[u] = pc[u] /\ arg'[u] = arg[u] /\ rs'[u] = rs[u]
  BY <1>1, LocalsLemma
<1>3. TypeOK'
  BY <1>1, LocalsLemma DEF TypeOK
<1>4. Linked' = Linked /\ Registered' = Registered /\ UniqueNames'
  BY SameList
<1>5. MutexInv'
  BY <1>2, ConstantsAssumption DEF MutexInv, TypeOK, PCs, RegisterPCs, UnregisterPCs, ProcessPCs, EventPCs, WalkPCs,
              CriticalPCs, OwnerPCs
<1>6. ArgInv'
  BY <1>2 DEF ArgInv, TypeOK, PCs, RegisterPCs, UnregisterPCs, ProcessPCs, EventPCs, WalkPCs,
              CriticalPCs, OwnerPCs
<1>7. NewInv' /\ HeldInv'
  BY <1>a, <1>2, <1>4 DEF NewInv, HeldInv, TypeOK
<1>8. OwnersInv'
  <2>1. \A u \in Threads : pc'[u] \in OwnerPCs <=> pc[u] \in OwnerPCs
    BY <1>2 DEF OwnerPCs, TypeOK
  <2>2. \A u \in Threads : pc[u] \in OwnerPCs => rs'[u] = rs[u]
    BY <1>2 DEF OwnerPCs
  <2> QED BY <1>4, <2>1, <2>2 DEF OwnersInv
<1> QED BY <1>3, <1>4, <1>5, <1>6, <1>7, <1>8

\* The lookup of unregister_device().
LEMMA UnregisterFindStep ==
    ASSUME ListInv, NEW t \in Threads, UnregisterFind(t)
    PROVE  ListInv'
<1> USE DEF ListInv, UnregisterFind, Goto, Return, UnlockRegister, heapVars
<1>0. arg[t] \in Names
  BY DEF ArgInv
<1>a. /\ Find(arg[t]) = Null => arg[t] \notin Registered
      /\ Find(arg[t]) # Null =>
            /\ Find(arg[t]) \in Linked /\ nameOf[Find(arg[t])] = arg[t]
            /\ Find(arg[t]) \in Addrs
  BY <1>0, FindLemma DEF OwnersInv, TypeOK
<1>1. LocalsOf(t)
  <2>1. Update(pc, pc', t, PCs)
    BY DEF Update, PCs, RegisterPCs, UnregisterPCs, ProcessPCs, EventPCs, WalkPCs,
              CriticalPCs, OwnerPCs
  <2>2. Update(rs, rs', t, Addrs \cup {Null})
    BY <1>a DEF TypeOK, Update
  <2>3. /\ Update(arg, arg', t, Names \cup {Null})
        /\ Update(cursor, cursor', t, Addrs \cup {Null})
        /\ Update(targets, targets', t, 0 .. MaxTargets)
    BY TargetCounts DEF Update
  <2> QED BY <2>1, <2>2, <2>3 DEF LocalsOf
<1>2. \A u \in Threads \ {t} :
         pc'[u] = pc[u] /\ arg'[u] = arg[u] /\ rs'[u] = rs[u]
  BY <1>1, LocalsLemma
<1>3. TypeOK'
  BY <1>1, LocalsLemma DEF TypeOK
<1>4. Linked' = Linked /\ Registered' = Registered /\ UniqueNames'
  BY SameList
<1>5. MutexInv'
  BY <1>2, ConstantsAssumption DEF MutexInv, TypeOK, PCs, RegisterPCs, UnregisterPCs, ProcessPCs, EventPCs, WalkPCs,
              CriticalPCs, OwnerPCs
<1>6. ArgInv'
  BY <1>2 DEF ArgInv, TypeOK, PCs, RegisterPCs, UnregisterPCs, ProcessPCs, EventPCs, WalkPCs,
              CriticalPCs, OwnerPCs
<1>7. NewInv' /\ HeldInv'
  BY <1>a, <1>2, <1>4, ZenonT(30) DEF NewInv, HeldInv, TypeOK
<1>8. OwnersInv'
  <2>1. \A u \in Threads : pc'[u] \in OwnerPCs <=> pc[u] \in OwnerPCs
    BY <1>2 DEF OwnerPCs, TypeOK
  <2>2. \A u \in Threads : pc[u] \in OwnerPCs => rs'[u] = rs[u]
    BY <1>2 DEF OwnerPCs
  <2> QED BY <1>4, <2>1, <2>2 DEF OwnersInv
<1> QED BY <1>3, <1>4, <1>5, <1>6, <1>7, <1>8

\* The lookup of process_event().
LEMMA ProcessFindStep ==
    ASSUME ListInv, NEW t \in Threads, ProcessFind(t)
    PROVE  ListInv'
<1> USE DEF ListInv, ProcessFind, Goto, Return, UnlockRegister, heapVars
<1>0. arg[t] \in Names
  BY DEF ArgInv
<1>a. /\ Find(arg[t]) = Null => arg[t] \notin Registered
      /\ Find(arg[t]) # Null =>
            /\ Find(arg[t]) \in Linked /\ nameOf[Find(arg[t])] = arg[t]
            /\ Find(arg[t]) \in Addrs
  BY <1>0, FindLemma DEF OwnersInv, TypeOK
<1>1. LocalsOf(t)
  <2>1. Update(pc, pc', t, PCs)
    BY DEF Update, PCs, RegisterPCs, UnregisterPCs, ProcessPCs, EventPCs, WalkPCs,
              CriticalPCs, OwnerPCs
  <2>2. Update(rs, rs', t, Addrs \cup {Null})
    BY <1>a DEF TypeOK, Update
  <2>3. /\ Update(arg, arg', t, Names \cup {Null})
        /\ Update(cursor, cursor', t, Addrs \cup {Null})
        /\ Update(targets, targets', t, 0 .. MaxTargets)
    BY TargetCounts DEF Update
  <2> QED BY <2>1, <2>2, <2>3 DEF LocalsOf
<1>2. \A u \in Threads \ {t} :
         pc'[u] = pc[u] /\ arg'[u] = arg[u] /\ rs'[u] = rs[u]
  BY <1>1, LocalsLemma
<1>3. TypeOK'
  BY <1>1, LocalsLemma DEF TypeOK
<1>4. Linked' = Linked /\ Registered' = Registered /\ UniqueNames'
  BY SameList
<1>5. MutexInv'
  BY <1>2, ConstantsAssumption DEF MutexInv, TypeOK, PCs, RegisterPCs, UnregisterPCs, ProcessPCs, EventPCs, WalkPCs,
              CriticalPCs, OwnerPCs
<1>6. ArgInv'
  BY <1>2, ZenonT(30) DEF ArgInv, TypeOK, PCs, RegisterPCs, UnregisterPCs, ProcessPCs, EventPCs, WalkPCs,
              CriticalPCs, OwnerPCs
<1>7. NewInv' /\ HeldInv'
  BY <1>a, <1>2, <1>4, ZenonT(30) DEF NewInv, HeldInv, TypeOK
<1>8. OwnersInv'
  <2>1. \A u \in Threads : pc'[u] \in OwnerPCs <=> pc[u] \in OwnerPCs
    BY <1>2 DEF OwnerPCs, TypeOK
  <2>2. \A u \in Threads : pc[u] \in OwnerPCs => rs'[u] = rs[u]
    BY <1>2 DEF OwnerPCs
  <2> QED BY <1>4, <2>1, <2>2 DEF OwnersInv
<1> QED BY <1>3, <1>4, <1>5, <1>6, <1>7, <1>8

\* Setting RS_IN_USE: nobody else is between lookup and unlink.
LEMMA ProcessFlagStep ==
    ASSUME ListInv, NEW t \in Threads, ProcessFlag(t)
    PROVE  ListInv'
<1> USE DEF ListInv, ProcessFlag, Goto, Return, UnlockRegister, heapVars
<1>1. LocalsOf(t)
  <2>1. Update(pc, pc', t, PCs)
    BY DEF Update, PCs, RegisterPCs, UnregisterPCs, ProcessPCs, EventPCs, WalkPCs,
              CriticalPCs, OwnerPCs
  <2>2. Update(rs, rs', t, Addrs \cup {Null})
    BY DEF TypeOK, Update
  <2>3. /\ Update(arg, arg', t, Names \cup {Null})
        /\ Update(cursor, cursor', t, Addrs \cup {Null})
        /\ Update(targets, targets', t, 0 .. MaxTargets)
    BY TargetCounts DEF Update
  <2> QED BY <2>1, <2>2, <2>3 DEF LocalsOf
<1>2. \A u \in Threads \ {t} :
         pc'[u] = pc[u] /\ arg'[u] = arg[u] /\ rs'[u] = rs[u]
  BY <1>1, LocalsLemma
<1>a. rs[t] \in Addrs
  BY DEF HeldInv, OwnersInv, TypeOK
<1>3. TypeOK'
  BY <1>1, <1>a, LocalsLemma DEF TypeOK
<1>4. Linked' = Linked /\ Registered' = Registered /\ UniqueNames'
  BY SameList
<1>5. MutexInv'
  BY <1>2, ConstantsAssumption DEF MutexInv, TypeOK, PCs, RegisterPCs, UnregisterPCs, ProcessPCs, EventPCs, WalkPCs,
              CriticalPCs, OwnerPCs
<1>6. ArgInv'
  BY <1>2 DEF ArgInv, TypeOK, PCs, RegisterPCs, UnregisterPCs, ProcessPCs, EventPCs, WalkPCs,
              CriticalPCs, OwnerPCs
<1>b. \A u \in Threads : pc[u] # "ud_del"
  BY DEF MutexInv, CriticalPCs
<1>7. NewInv' /\ HeldInv'
  BY <1>b, <1>2, <1>4 DEF NewInv, HeldInv, TypeOK
<1>8. OwnersInv'
  <2>1. \A u \in Threads : pc'[u] \in OwnerPCs <=> pc[u] \in OwnerPCs
    BY <1>2 DEF OwnerPCs, TypeOK
  <2>2. \A u \in Threads : pc[u] \in OwnerPCs => rs'[u] = rs[u]
    BY <1>2 DEF OwnerPCs
  <2> QED BY <1>4, <2>1, <2>2 DEF OwnersInv
<1> QED BY <1>3, <1>4, <1>5, <1>6, <1>7, <1>8

\* A new structure belongs to the thread that allocated it.
LEMMA RegisterCreateStep ==
    ASSUME ListInv, NEW t \in Threads, RegisterCreate(t)
    PROVE  ListInv'
<1> USE DEF ListInv, RegisterCreate, Goto, Return, UnlockRegister, heapVars
<1>a. PICK a \in Addrs \ allocated :
         /\ allocated' = allocated \cup {a}
         /\ nameOf' = [nameOf EXCEPT ![a] = arg[t]]
         /\ next' = [next EXCEPT ![a] = Null]
         /\ inUse' = inUse \ {a}
         /\ event_mutex' = [event_mutex EXCEPT ![a] = Null]
         /\ rs' = [rs EXCEPT ![t] = a]
  OBVIOUS
<1>b. /\ pc[t] = "rd_create" /\ pc' = [pc EXCEPT ![t] = "rd_relock"]
      /\ UNCHANGED <<raid_sets, register_mutex, arg, cursor, targets, calls, up>>
  OBVIOUS
<1> HIDE DEF RegisterCreate
<1>1. LocalsOf(t)
  BY <1>a, <1>b DEF LocalsOf, Update, PCs, RegisterPCs, UnregisterPCs, ProcessPCs, EventPCs, WalkPCs,
              CriticalPCs, OwnerPCs
<1>2. \A u \in Threads \ {t} :
         pc'[u] = pc[u] /\ arg'[u] = arg[u] /\ rs'[u] = rs[u]
  BY <1>1, LocalsLemma
<1>3. TypeOK'
  BY <1>a, <1>b, <1>1, LocalsLemma DEF TypeOK
<1>4. Linked' = Linked /\ Registered' = Registered /\ UniqueNames'
  <2>1. Linked' = Linked
    BY <1>b DEF Linked, Range
  <2>2. \A b \in Linked : nameOf'[b] = nameOf[b]
    BY <1>a DEF OwnersInv, TypeOK
  <2>3. \A i \in DOMAIN raid_sets : raid_sets[i] \in Linked
    BY DEF Linked, Range
  <2> QED BY <1>b, <2>1, <2>2, <2>3 DEF Registered, UniqueNames
<1>c. pc'[t] = "rd_relock" /\ rs'[t] = a /\ arg'[t] = arg[t]
      /\ nameOf'[a] = arg[t] /\ arg[t] \in Names
  BY <1>a, <1>b DEF TypeOK, ArgInv
<1>5. MutexInv'
  BY <1>b, <1>c, <1>2 DEF MutexInv, CriticalPCs
<1>6. ArgInv'
  BY <1>c, <1>2 DEF ArgInv, PCs, RegisterPCs, UnregisterPCs, ProcessPCs, EventPCs, WalkPCs,
              CriticalPCs, OwnerPCs
<1>d. \A b \in allocated : nameOf'[b] = nameOf[b]
  BY <1>a DEF TypeOK
<1>7. NewInv'
  <2>1. \A u \in Threads \ {t} :
           pc[u] \in {"rd_relock", "rd_refind", "rd_add"} => rs[u] \in allocated
    BY DEF OwnersInv, OwnerPCs
  <2> QED BY <1>2, <1>4, <1>c, <1>d, <2>1 DEF NewInv
<1>8. HeldInv'
  <2>1. Linked \subseteq allocated
    BY DEF OwnersInv
  <2> QED BY <1>2, <1>4, <1>a, <1>c, <1>d, <2>1 DEF HeldInv
<1>9. OwnersInv'
  <2>1. t \in Threads /\ pc'[t] \in OwnerPCs /\ pc[t] \notin OwnerPCs
    BY <1>b, <1>c DEF OwnerPCs
  <2>2. a \notin allocated /\ a \notin Linked
    BY <1>a DEF OwnersInv
  <2>3. Linked' \subseteq allocated'
    BY <1>a, <1>4 DEF OwnersInv
  <2>4. ASSUME NEW v \in Threads, pc'[v] \in OwnerPCs
        PROVE  /\ rs'[v] \in allocated' \ Linked'
               /\ \A u \in Threads : pc'[u] \in OwnerPCs /\ rs'[u] = rs'[v] => u = v
    BY <1>2, <1>4, <1>a, <1>c, <2>1, <2>2, <2>4 DEF OwnersInv
  <2>5. ASSUME NEW b \in allocated' \ Linked'
        PROVE  \E v \in Threads : pc'[v] \in OwnerPCs /\ rs'[v] = b
    BY <1>2, <1>4, <1>a, <1>c, <2>1, <2>2 DEF OwnersInv
  <2> QED BY <2>3, <2>4, <2>5 DEF OwnersInv
<1> QED BY <1>3, <1>4, <1>5, <1>6, <1>7, <1>8, <1>9

\* Freeing what was never linked.
LEMMA RegisterLostStep ==
    ASSUME ListInv, NEW t \in Threads, RegisterLost(t)
    PROVE  ListInv'
<1> USE DEF ListInv, RegisterLost, Goto, Return, UnlockRegister, heapVars
<1>1. LocalsOf(t)
  <2>1. Update(pc, pc', t, PCs)
    BY DEF Update, PCs, RegisterPCs, UnregisterPCs, ProcessPCs, EventPCs, WalkPCs,
              CriticalPCs, OwnerPCs
  <2>2. Update(rs, rs', t, Addrs \cup {Null})
    BY DEF TypeOK, Update
  <2>3. /\ Update(arg, arg', t, Names \cup {Null})
        /\ Update(cursor, cursor', t, Addrs \cup {Null})
        /\ Update(targets, targets', t, 0 .. MaxTargets)
    BY TargetCounts DEF Update
  <2> QED BY <2>1, <2>2, <2>3 DEF LocalsOf
<1>2. \A u \in Threads \ {t} :
         pc'[u] = pc[u] /\ arg'[u] = arg[u] /\ rs'[u] = rs[u]
  BY <1>1, LocalsLemma
<1>a. /\ pc[t] \in OwnerPCs /\ pc[t] \notin CriticalPCs /\ pc'[t] = "idle"
      /\ allocated' = allocated \ {rs[t]} /\ rs[t] \in allocated \ Linked
      /\ UNCHANGED <<inUse, register_mutex>>
  BY DEF OwnersInv, TypeOK, OwnerPCs, CriticalPCs
<1>3. TypeOK'
  BY <1>1, LocalsLemma DEF TypeOK
<1>4. Linked' = Linked /\ Registered' = Registered /\ UniqueNames'
  BY SameList
<1>5. MutexInv'
  BY <1>a, <1>2 DEF MutexInv, CriticalPCs
<1>6. ArgInv'
  BY <1>a, <1>2 DEF ArgInv, PCs, RegisterPCs, UnregisterPCs, ProcessPCs, EventPCs, WalkPCs,
              CriticalPCs, OwnerPCs
<1>7. NewInv' /\ HeldInv'
  BY <1>a, <1>2, <1>4 DEF NewInv, HeldInv
<1>8. OwnersInv'
  <2>1. pc'[t] \notin OwnerPCs
    BY <1>a DEF OwnerPCs
  <2>2. \A u \in Threads \ {t} : pc[u] \in OwnerPCs => rs[u] # rs[t]
    BY <1>a DEF OwnersInv
  <2> QED BY <1>2, <1>4, <1>a, <2>1, <2>2 DEF OwnersInv
<1> QED BY <1>3, <1>4, <1>5, <1>6, <1>7, <1>8

\* Freeing what was unlinked.
LEMMA UnregisterDestroyStep ==
    ASSUME ListInv, NEW t \in Threads, UnregisterDestroy(t)
    PROVE  ListInv'
<1> USE DEF ListInv, UnregisterDestroy, Goto, Return, UnlockRegister, heapVars
<1>1. LocalsOf(t)
  <2>1. Update(pc, pc', t, PCs)
    BY DEF Update, PCs, RegisterPCs, UnregisterPCs, ProcessPCs, EventPCs, WalkPCs,
              CriticalPCs, OwnerPCs
  <2>2. Update(rs, rs', t, Addrs \cup {Null})
    BY DEF TypeOK, Update
  <2>3. /\ Update(arg, arg', t, Names \cup {Null})
        /\ Update(cursor, cursor', t, Addrs \cup {Null})
        /\ Update(targets, targets', t, 0 .. MaxTargets)
    BY TargetCounts DEF Update
  <2> QED BY <2>1, <2>2, <2>3 DEF LocalsOf
<1>2. \A u \in Threads \ {t} :
         pc'[u] = pc[u] /\ arg'[u] = arg[u] /\ rs'[u] = rs[u]
  BY <1>1, LocalsLemma
<1>a. /\ pc[t] \in OwnerPCs /\ pc[t] \notin CriticalPCs /\ pc'[t] = "idle"
      /\ allocated' = allocated \ {rs[t]} /\ rs[t] \in allocated \ Linked
      /\ UNCHANGED <<inUse, register_mutex>>
  BY DEF OwnersInv, TypeOK, OwnerPCs, CriticalPCs
<1>3. TypeOK'
  BY <1>1, LocalsLemma DEF TypeOK
<1>4. Linked' = Linked /\ Registered' = Registered /\ UniqueNames'
  BY SameList
<1>5. MutexInv'
  BY <1>a, <1>2 DEF MutexInv, CriticalPCs
<1>6. ArgInv'
  BY <1>a, <1>2 DEF ArgInv, PCs, RegisterPCs, UnregisterPCs, ProcessPCs, EventPCs, WalkPCs,
              CriticalPCs, OwnerPCs
<1>7. NewInv' /\ HeldInv'
  BY <1>a, <1>2, <1>4 DEF NewInv, HeldInv
<1>8. OwnersInv'
  <2>1. pc'[t] \notin OwnerPCs
    BY <1>a DEF OwnerPCs
  <2>2. \A u \in Threads \ {t} : pc[u] \in OwnerPCs => rs[u] # rs[t]
    BY <1>a DEF OwnersInv
  <2> QED BY <1>2, <1>4, <1>a, <2>1, <2>2 DEF OwnersInv
<1> QED BY <1>3, <1>4, <1>5, <1>6, <1>7, <1>8

\* Linking: the structure passes from its thread to the list.
LEMMA RegisterAddStep ==
    ASSUME ListInv, NEW t \in Threads, RegisterAdd(t)
    PROVE  ListInv'
<1> USE DEF ListInv, RegisterAdd, Goto, Return, UnlockRegister, heapVars
<1>1. LocalsOf(t)
  <2>1. Update(pc, pc', t, PCs)
    BY DEF Update, PCs, RegisterPCs, UnregisterPCs, ProcessPCs, EventPCs, WalkPCs,
              CriticalPCs, OwnerPCs
  <2>2. Update(rs, rs', t, Addrs \cup {Null})
    BY DEF TypeOK, Update
  <2>3. /\ Update(arg, arg', t, Names \cup {Null})
        /\ Update(cursor, cursor', t, Addrs \cup {Null})
        /\ Update(targets, targets', t, 0 .. MaxTargets)
    BY TargetCounts DEF Update
  <2> QED BY <2>1, <2>2, <2>3 DEF LocalsOf
<1>2. \A u \in Threads \ {t} :
         pc'[u] = pc[u] /\ arg'[u] = arg[u] /\ rs'[u] = rs[u]
  BY <1>1, LocalsLemma
<1>a. /\ pc[t] = "rd_add" /\ pc'[t] = "rd_log" /\ rs'[t] = rs[t]
      /\ arg'[t] = arg[t]
      /\ UNCHANGED <<nameOf, allocated, inUse>>
      /\ pc[t] \in OwnerPCs /\ pc'[t] \notin OwnerPCs
      /\ register_mutex' = Null
      /\ pc[t] \in CriticalPCs /\ pc'[t] \notin CriticalPCs
  BY DEF TypeOK, OwnerPCs, CriticalPCs
<1>b. /\ rs[t] \in allocated \ Linked /\ rs[t] \in Addrs
      /\ nameOf[rs[t]] = arg[t] /\ arg[t] \notin Registered
      /\ \A u \in Threads : pc[u] \in OwnerPCs /\ rs[u] = rs[t] => u = t
  BY <1>a DEF OwnersInv, NewInv, TypeOK
<1>c. raid_sets' \in Seq(Addrs) /\ Linked' = Linked \cup {rs[t]}
  BY <1>b, AppendLemma DEF Linked
<1>d. \A u \in Threads \ {t} : pc[u] \notin CriticalPCs
  BY <1>a DEF MutexInv
<1>3. TypeOK'
  BY <1>1, <1>c, LocalsLemma DEF TypeOK
<1>4. UniqueNames'
  <2>1. /\ DOMAIN raid_sets' = 1 .. Len(raid_sets) + 1 /\ Len(raid_sets) \in Nat
        /\ DOMAIN raid_sets = 1 .. Len(raid_sets)
        /\ \A i \in 1 .. Len(raid_sets) : raid_sets'[i] = raid_sets[i]
        /\ raid_sets'[Len(raid_sets) + 1] = rs[t]
    BY <1>b DEF TypeOK
  <2>2. \A i \in 1 .. Len(raid_sets) : nameOf[raid_sets[i]] # nameOf[rs[t]]
    BY <1>b, <2>1 DEF Registered, Linked, Range
  <2>3. \A i \in DOMAIN raid_sets' :
           i = Len(raid_sets) + 1 \/ i \in 1 .. Len(raid_sets)
    BY <2>1
  <2> QED BY <1>a, <2>1, <2>2, <2>3 DEF UniqueNames
<1>5. MutexInv'
  BY <1>a, <1>2, <1>d, ConstantsAssumption DEF MutexInv
<1>6. ArgInv'
  BY <1>a, <1>2 DEF ArgInv, PCs, RegisterPCs, UnregisterPCs, ProcessPCs, EventPCs, WalkPCs,
              CriticalPCs, OwnerPCs
<1>7. NewInv' /\ HeldInv'
  BY <1>a, <1>c, <1>2, <1>d DEF NewInv, HeldInv, CriticalPCs
<1>8. OwnersInv'
  BY <1>a, <1>b, <1>c, <1>2 DEF OwnersInv
<1> QED BY <1>3, <1>4, <1>5, <1>6, <1>7, <1>8

\* Unlinking: the structure passes from the list to the thread.
LEMMA UnregisterDelStep ==
    ASSUME ListInv, NEW t \in Threads, UnregisterDel(t)
    PROVE  ListInv'
<1> USE DEF ListInv, UnregisterDel, Goto, Return, UnlockRegister, heapVars
<1>1. LocalsOf(t)
  <2>1. Update(pc, pc', t, PCs)
    BY DEF Update, PCs, RegisterPCs, UnregisterPCs, ProcessPCs, EventPCs, WalkPCs,
              CriticalPCs, OwnerPCs
  <2>2. Update(rs, rs', t, Addrs \cup {Null})
    BY DEF TypeOK, Update
  <2>3. /\ Update(arg, arg', t, Names \cup {Null})
        /\ Update(cursor, cursor', t, Addrs \cup {Null})
        /\ Update(targets, targets', t, 0 .. MaxTargets)
    BY TargetCounts DEF Update
  <2> QED BY <2>1, <2>2, <2>3 DEF LocalsOf
<1>2. \A u \in Threads \ {t} :
         pc'[u] = pc[u] /\ arg'[u] = arg[u] /\ rs'[u] = rs[u]
  BY <1>1, LocalsLemma
<1>a. /\ pc[t] = "ud_del" /\ pc'[t] = "ud_destroy" /\ rs'[t] = rs[t]
      /\ arg'[t] = arg[t]
      /\ UNCHANGED <<nameOf, allocated, inUse>>
      /\ pc[t] \notin OwnerPCs /\ pc'[t] \in OwnerPCs
      /\ register_mutex' = Null
      /\ pc[t] \in CriticalPCs /\ pc'[t] \notin CriticalPCs
  BY DEF TypeOK, OwnerPCs, CriticalPCs
<1>b. rs[t] \in Linked /\ rs[t] \in allocated /\ rs[t] \in Addrs
  BY <1>a DEF OwnersInv, HeldInv, TypeOK
<1>c. /\ raid_sets' \in Seq(Addrs) /\ Linked' = Linked \ {rs[t]}
      /\ UniqueNames'
  BY <1>a, <1>b, WithoutLemma DEF Linked, UniqueNames
<1>d. \A u \in Threads \ {t} : pc[u] \notin CriticalPCs
  BY <1>a DEF MutexInv
<1>3. TypeOK'
  BY <1>1, <1>b, <1>c, PointerTypes, LocalsLemma DEF TypeOK
<1>4. MutexInv'
  BY <1>a, <1>2, <1>d, ConstantsAssumption DEF MutexInv
<1>5. ArgInv'
  BY <1>a, <1>2 DEF ArgInv, PCs, RegisterPCs, UnregisterPCs, ProcessPCs, EventPCs, WalkPCs,
              CriticalPCs, OwnerPCs
<1>6. NewInv' /\ HeldInv'
  BY <1>a, <1>c, <1>2, <1>d DEF NewInv, HeldInv, CriticalPCs, Registered
<1>7. OwnersInv'
  BY <1>a, <1>b, <1>c, <1>2 DEF OwnersInv
<1> QED BY <1>3, <1>c, <1>4, <1>5, <1>6, <1>7

-----------------------------------------------------------------------------
(* The list invariant.                                                     *)

\* At the start the list is empty and no thread is inside the plug-in.
LEMMA ListInit == Init => ListInv
<1> SUFFICES ASSUME Init PROVE ListInv
  OBVIOUS
<1> USE ConstantsAssumption DEF Init
<1>1. Linked = {}
  BY DEF Linked, Range
<1>2. TypeOK
  BY DEF TypeOK, PCs
<1>3. MutexInv /\ ArgInv /\ NewInv /\ HeldInv
  BY DEF MutexInv, ArgInv, NewInv, HeldInv, CriticalPCs, ProcessPCs, EventPCs,
         WalkPCs
<1>4. OwnersInv
  BY <1>1 DEF OwnersInv, OwnerPCs
<1>5. UniqueNames
  BY DEF UniqueNames
<1> QED BY <1>2, <1>3, <1>4, <1>5 DEF ListInv

\* Every step of a thread keeps the list invariant.
LEMMA ListNext == ListInv /\ [Next]_vars => ListInv'
<1> SUFFICES ASSUME ListInv, [Next]_vars PROVE ListInv'
  OBVIOUS
<1>1. ASSUME NEW t \in Threads, Register(t) \/ Unregister(t) \/ Process(t)
      PROVE  ListInv'
  BY <1>1, CallStep DEF Register, Unregister, Process
<1>2. ASSUME NEW t \in Threads, RegisterStep(t)
      PROVE  ListInv'
  BY <1>2, QuietActions, LockStep, RegisterFindStep, RegisterCreateStep,
     RegisterRefindStep, RegisterLostStep, RegisterAddStep
  DEF RegisterStep, Quiet, RegisterLock, RegisterRelock
<1>3. ASSUME NEW t \in Threads, UnregisterStep(t)
      PROVE  ListInv'
  BY <1>3, LockStep, UnregisterFindStep, UnregisterDelStep,
     UnregisterDestroyStep
  DEF UnregisterStep, UnregisterLock
<1>4. ASSUME NEW t \in Threads, ProcessStep(t)
      PROVE  ListInv'
  BY <1>4, QuietActions, LockStep, ProcessFindStep, ProcessFlagStep
  DEF ProcessStep, Quiet, ProcessLock
<1>5. CASE UNCHANGED vars
  BY <1>5 DEF vars, ListInv, TypeOK, MutexInv, ArgInv, UniqueNames, OwnersInv,
              NewInv, HeldInv, Registered, Linked, Range
<1> QED BY <1>1, <1>2, <1>3, <1>4, <1>5 DEF Next, Step

\* The invariant of the list, the mutex and the structures each thread holds,
\* whatever threads register, unregister and deliver events.
THEOREM ListSafety == Spec => []ListInv
BY ListInit, ListNext, PTL DEF Spec

\* Every variable of the registry keeps its type; with it, no thread is ever
\* outside the program points and no event outruns its targets.
THEOREM Typing == Spec => []TypeOK
<1>1. ListInv => TypeOK
  BY DEF ListInv
<1> QED BY <1>1, ListSafety, PTL

\* The list never holds two structures of one name, whatever registrations,
\* removals and events race.
THEOREM NamesUnique == Spec => []UniqueNames
<1>1. ListInv => UniqueNames
  BY DEF ListInv
<1> QED BY <1>1, ListSafety, PTL

\* Every structure is linked or has the one thread that will link or free it.
THEOREM NothingLeaks == Spec => []OneOwner
<1>1. ListInv => OneOwner
  <2> SUFFICES ASSUME ListInv PROVE OneOwner
    OBVIOUS
  <2> USE DEF ListInv, OwnersInv
  <2>1. ASSUME NEW a \in allocated \ Linked
        PROVE  \E t \in Threads :
                  {u \in Threads : pc[u] \in OwnerPCs /\ rs[u] = a} = {t}
    <3>1. PICK t \in Threads : pc[t] \in OwnerPCs /\ rs[t] = a
      OBVIOUS
    <3>2. \A u \in Threads : pc[u] \in OwnerPCs /\ rs[u] = a => u = t
      BY <3>1
    <3> QED BY <3>1, <3>2
  <2>2. ASSUME NEW a \in Addrs, a \notin allocated \ Linked
        PROVE  {u \in Threads : pc[u] \in OwnerPCs /\ rs[u] = a} = {}
    BY <2>2
  <2> QED BY <2>1, <2>2 DEF OneOwner
<1> QED BY <1>1, ListSafety, PTL

-----------------------------------------------------------------------------
(* The set of an event stays registered while the event is processed, when *)
(* the events of a set arrive on one thread.                               *)

\* A thread enters the flagged part by ProcessFlag, and keeps its set in it.
LEMMA FlaggedLocals ==
    ASSUME ListInv, NEW t \in Threads,
           Register(t) \/ Unregister(t) \/ Process(t) \/ Step(t),
           NEW u \in Threads, pc'[u] \in FlaggedPCs
    PROVE  \/ /\ pc[u] \in FlaggedPCs
              /\ rs'[u] = rs[u] /\ arg'[u] = arg[u]
              /\ ~(u = t /\ ProcessClear(t))
           \/ u = t /\ ProcessFlag(t)
<1> USE DEF ListInv, TypeOK, FlaggedPCs, EventPCs, WalkPCs, Goto, Return,
            StartWalk, EndTarget
<1>1. CASE Register(t) \/ Unregister(t) \/ Process(t)
  BY <1>1 DEF Register, Unregister, Process, Call
<1>2. CASE RegisterStep(t)
  BY <1>2 DEF RegisterStep, RegisterLock, RegisterFind, RegisterGiveUp,
              RegisterCreate, RegisterRelock, RegisterRefind, RegisterLost,
              RegisterAdd, RegisterLog, LockRegister
<1>3. CASE UnregisterStep(t)
  BY <1>3 DEF UnregisterStep, UnregisterLock, UnregisterFind, UnregisterDel,
              UnregisterDestroy, LockRegister
<1>4. CASE ProcessStep(t)
  BY <1>4 DEF ProcessStep, ProcessLock, ProcessFind, ProcessFlag,
              ProcessEventLock, ProcessTarget, WalkStep, StatusWalked,
              LogWalked, RebuildWalked, RepopulateWalked, ProcessEventUnlock,
              ProcessClear, LockRegister
<1> QED BY <1>1, <1>2, <1>3, <1>4 DEF Step

\* The steps that touch the list, the memory or a flag, and the others.
HeapStep(t) ==
    \/ RegisterCreate(t) \/ RegisterLost(t) \/ RegisterAdd(t)
    \/ UnregisterDel(t) \/ UnregisterDestroy(t)
    \/ ProcessFlag(t) \/ ProcessClear(t)

\* The other steps change neither the list, the heap nor RS_IN_USE.
LEMMA OtherSteps ==
    ASSUME NEW t, Register(t) \/ Unregister(t) \/ Process(t) \/ Step(t),
           ~HeapStep(t)
    PROVE  UNCHANGED <<raid_sets, allocated, nameOf, inUse>>
<1> USE DEF heapVars
<1>1. CASE Register(t) \/ Unregister(t) \/ Process(t)
  BY <1>1 DEF Register, Unregister, Process, Call
<1>2. CASE RegisterStep(t)
  BY <1>2 DEF RegisterStep, RegisterLock, RegisterFind, RegisterGiveUp,
              RegisterRelock, RegisterRefind, RegisterLog, LockRegister, HeapStep
<1>3. CASE UnregisterStep(t)
  BY <1>3 DEF UnregisterStep, UnregisterLock, UnregisterFind, LockRegister,
              HeapStep
<1>4. CASE ProcessStep(t)
  BY <1>4 DEF ProcessStep, ProcessLock, ProcessFind,
              ProcessEventLock, ProcessTarget, WalkStep, StatusWalked,
              LogWalked, RebuildWalked, RepopulateWalked, ProcessEventUnlock,
              LockRegister, HeapStep
<1> QED BY <1>1, <1>2, <1>3, <1>4 DEF Step

\* Two linked structures of one name are one structure.
LEMMA SameName ==
    ASSUME UniqueNames, NEW a \in Linked, NEW b \in Linked, nameOf[a] = nameOf[b]
    PROVE  a = b
BY DEF UniqueNames, Linked, Range

\* With one thread per set, no two threads are in the flagged part of one set.
LEMMA FlaggedOnce ==
    ASSUME ListInv, OneMonitor, NEW t \in Threads, NEW u \in Threads,
           pc[t] \in ProcessPCs, pc[u] \in ProcessPCs, arg[t] = arg[u]
    PROVE  t = u
BY DEF ListInv, ArgInv, OneMonitor, ProcessPCs, EventPCs, WalkPCs

\* No step of a thread unlinks a set under an event (the test of RS_IN_USE in
\* unregister_device).
LEMMA LiveStep ==
    ASSUME ListInv, EventSetLive, OneMonitor, NEW t \in Threads,
           Register(t) \/ Unregister(t) \/ Process(t) \/ Step(t)
    PROVE  EventSetLive'
<1> SUFFICES ASSUME NEW u \in Threads, pc'[u] \in FlaggedPCs
             PROVE  /\ rs'[u] \in Linked' \cap allocated' \cap inUse'
                    /\ nameOf'[rs'[u]] = arg'[u]
  BY DEF EventSetLive
<1> USE DEF ListInv
<1>1. CASE u = t /\ ProcessFlag(t)
  <2>1. /\ rs[t] \in Linked /\ nameOf[rs[t]] = arg[t] /\ rs[t] \in allocated
        /\ UNCHANGED <<raid_sets, allocated, nameOf, rs, arg>>
        /\ inUse' = inUse \cup {rs[t]}
    BY <1>1 DEF HeldInv, OwnersInv, ProcessFlag
  <2> QED BY <1>1, <2>1, SameList
<1>2. CASE ~(u = t /\ ProcessFlag(t))
  <2>1. /\ pc[u] \in FlaggedPCs /\ rs'[u] = rs[u] /\ arg'[u] = arg[u]
        /\ ~(u = t /\ ProcessClear(t))
    BY <1>2, FlaggedLocals
  <2>2. /\ rs[u] \in Linked /\ rs[u] \in allocated /\ rs[u] \in inUse
        /\ nameOf[rs[u]] = arg[u]
    BY <2>1 DEF EventSetLive
  <2> SUFFICES rs[u] \in Linked' \cap allocated' \cap inUse'
               /\ nameOf'[rs[u]] = nameOf[rs[u]]
    BY <2>1, <2>2
  <2>3. CASE ~HeapStep(t)
    BY <2>2, <2>3, OtherSteps, SameList
  <2>4. CASE RegisterCreate(t)
    <3>1. Linked' = Linked /\ allocated \subseteq allocated'
      BY <2>4 DEF RegisterCreate, Linked, Range
    <3>2. PICK a \in Addrs \ allocated :
             inUse' = inUse \ {a} /\ nameOf' = [nameOf EXCEPT ![a] = arg[t]]
      BY <2>4 DEF RegisterCreate
    <3> QED BY <2>2, <3>1, <3>2 DEF TypeOK
  <2>5. CASE RegisterLost(t) \/ UnregisterDestroy(t)
    <3>1. /\ pc[t] \in OwnerPCs /\ allocated' = allocated \ {rs[t]}
          /\ UNCHANGED <<raid_sets, nameOf, inUse>>
      BY <2>5 DEF RegisterLost, UnregisterDestroy, OwnerPCs
    <3>2. rs[t] \notin Linked
      BY <3>1 DEF OwnersInv
    <3> QED BY <2>2, <3>1, <3>2, SameList
  <2>6. CASE RegisterAdd(t)
    <3>1. /\ rs[t] \in Addrs /\ raid_sets' = Append(raid_sets, rs[t])
          /\ UNCHANGED <<allocated, nameOf, inUse>>
      BY <2>6 DEF RegisterAdd, OwnersInv, OwnerPCs, TypeOK
    <3>2. Linked' = Linked \cup {rs[t]}
      BY <3>1, AppendLemma DEF Linked
    <3> QED BY <2>2, <3>1, <3>2
  <2>7. CASE UnregisterDel(t)
    <3>1. /\ rs[t] \in Linked /\ rs[t] \notin inUse
          /\ raid_sets' = Without(rs[t])
          /\ UNCHANGED <<allocated, nameOf, inUse>>
      BY <2>7 DEF UnregisterDel, HeldInv
    <3>2. Linked' = Linked \ {rs[t]}
      BY <3>1, WithoutLemma DEF Linked
    <3> QED BY <2>2, <3>1, <3>2
  <2>8. CASE ProcessFlag(t)
    <3>1. UNCHANGED <<raid_sets, allocated, nameOf>> /\ inUse \subseteq inUse'
      BY <2>8 DEF ProcessFlag
    <3> QED BY <2>2, <3>1, SameList
  <2>9. CASE ProcessClear(t)
    <3>1. /\ UNCHANGED <<raid_sets, allocated, nameOf>>
          /\ inUse' = inUse \ {rs[t]} /\ pc[t] = "pe_clear"
      BY <2>9 DEF ProcessClear
    <3>2. pc[t] \in FlaggedPCs /\ pc[t] \in ProcessPCs /\ pc[u] \in ProcessPCs
      BY <3>1, <2>1 DEF FlaggedPCs, ProcessPCs
    <3>3. nameOf[rs[t]] = arg[t]
      BY <3>2 DEF EventSetLive
    <3>4. rs[t] # rs[u]
      BY <2>1, <2>2, <2>9, <3>2, <3>3, FlaggedOnce
    <3> QED BY <2>2, <3>1, <3>4, SameList
  <2> QED BY <2>3, <2>4, <2>5, <2>6, <2>7, <2>8, <2>9 DEF HeapStep
<1> QED BY <1>1, <1>2

\* Every step keeps the sets of events alive, with one monitoring thread.
LEMMA LiveNext == OneMonitor /\ ListInv /\ EventSetLive /\ [Next]_vars => EventSetLive'
<1> SUFFICES ASSUME OneMonitor, ListInv, EventSetLive, [Next]_vars
             PROVE  EventSetLive'
  OBVIOUS
<1>1. CASE UNCHANGED vars
  BY <1>1, SameList DEF vars, EventSetLive
<1> QED BY <1>1, LiveStep DEF Next

\* No structure is freed or unlinked under an event that is being processed:
\* with the events of a set on one thread, RS_IN_USE does what it is for.
THEOREM EventSetsLive == ASSUME OneMonitor PROVE Spec => []EventSetLive
<1>1. Init => EventSetLive
  BY DEF Init, EventSetLive, FlaggedPCs, EventPCs, WalkPCs
<1>2. OneMonitor
  OBVIOUS
<1>3. ListInv /\ EventSetLive /\ [Next]_vars => EventSetLive'
  BY <1>2, LiveNext
<1> QED BY <1>1, <1>3, ListSafety, PTL DEF Spec

-----------------------------------------------------------------------------
(* The registry implements MonitoredSets.                                  *)

\* A step of a thread is a step of MonitoredSets or changes nothing it sees.
LEMMA PromiseStep ==
    ASSUME ListInv, EventSetLive, OneMonitor, NEW t \in Threads,
           Register(t) \/ Unregister(t) \/ Process(t) \/ Step(t)
    PROVE  [Promise!Next]_(Promise!vars)
<1> USE DEF ListInv, Promise!Next, Promise!vars
<1>0. ASSUME ~ProcessFlag(t), ~ProcessClear(t)
      PROVE  Busy' = Busy
  <2>1. \A u \in Threads : pc'[u] \in FlaggedPCs =>
           pc[u] \in FlaggedPCs /\ arg'[u] = arg[u]
    BY <1>0, FlaggedLocals
  <2>2. \A u \in Threads : pc[u] \in FlaggedPCs => pc'[u] \in FlaggedPCs
    <3> USE DEF TypeOK, FlaggedPCs, EventPCs, WalkPCs, Goto, Return,
                StartWalk, EndTarget
    <3>1. CASE Register(t) \/ Unregister(t) \/ Process(t)
      BY <3>1 DEF Register, Unregister, Process, Call
    <3>2. CASE RegisterStep(t)
      BY <3>2 DEF RegisterStep, RegisterLock, RegisterFind, RegisterGiveUp,
                  RegisterCreate, RegisterRelock, RegisterRefind,
                  RegisterLost, RegisterAdd, RegisterLog, LockRegister
    <3>3. CASE UnregisterStep(t)
      BY <3>3 DEF UnregisterStep, UnregisterLock, UnregisterFind,
                  UnregisterDel, UnregisterDestroy, LockRegister
    <3>4. CASE ProcessStep(t)
      BY <3>4, <1>0 DEF ProcessStep, ProcessLock, ProcessFind,
                  ProcessEventLock, ProcessTarget, WalkStep, StatusWalked,
                  LogWalked, RebuildWalked, RepopulateWalked,
                  ProcessEventUnlock, LockRegister
    <3> QED BY <3>1, <3>2, <3>3, <3>4 DEF Step
  <2> QED BY <2>1, <2>2 DEF Busy
<1>1. CASE RegisterAdd(t)
  <2>1. /\ rs[t] \in Addrs /\ raid_sets' = Append(raid_sets, rs[t])
        /\ nameOf' = nameOf /\ nameOf[rs[t]] = arg[t]
        /\ arg[t] \notin Registered /\ arg[t] \in Names /\ pc[t] = "rd_add"
    BY <1>1 DEF RegisterAdd, OwnersInv, OwnerPCs, TypeOK, NewInv, ArgInv
  <2>2. Linked' = Linked \cup {rs[t]}
    BY <2>1, AppendLemma DEF Linked
  <2>3. Registered' = Registered \cup {arg[t]}
    BY <2>1, <2>2 DEF Registered
  <2>4. Busy' = Busy
    BY <1>0, <2>1 DEF ProcessFlag, ProcessClear
  <2>5. Promise!Register(arg[t])
    BY <2>1, <2>3, <2>4 DEF Promise!Register
  <2> QED BY <2>1, <2>5
<1>2. CASE UnregisterDel(t)
  <2>1. /\ rs[t] \in Linked /\ rs[t] \notin inUse /\ nameOf[rs[t]] = arg[t]
        /\ raid_sets' = Without(rs[t]) /\ nameOf' = nameOf
        /\ arg[t] \in Names /\ pc[t] = "ud_del"
    BY <1>2 DEF UnregisterDel, HeldInv, ArgInv
  <2>2. Linked' = Linked \ {rs[t]}
    BY <2>1, WithoutLemma DEF Linked
  <2>3. Registered' = Registered \ {arg[t]}
    BY <2>1, <2>2, SameName DEF Registered
  <2>4. arg[t] \notin Busy
    <3> SUFFICES ASSUME NEW u \in Threads, pc[u] \in FlaggedPCs, arg[u] = arg[t]
                 PROVE  FALSE
      BY DEF Busy
    <3>1. rs[u] \in Linked /\ rs[u] \in inUse /\ nameOf[rs[u]] = arg[t]
      BY DEF EventSetLive
    <3> QED BY <2>1, <3>1, SameName
  <2>5. Busy' = Busy
    BY <1>0, <2>1 DEF ProcessFlag, ProcessClear
  <2>6. Promise!Unregister(arg[t])
    BY <2>1, <2>3, <2>4, <2>5 DEF Promise!Unregister, Registered
  <2> QED BY <2>1, <2>6
<1>3. CASE ProcessFlag(t)
  <2>1. /\ pc[t] = "pe_flag" /\ pc'[t] = "pe_event" /\ arg' = arg
        /\ UNCHANGED <<raid_sets, nameOf>>
        /\ \A u \in Threads \ {t} : pc'[u] = pc[u]
        /\ rs[t] \in Linked /\ nameOf[rs[t]] = arg[t] /\ arg[t] \in Names
    BY <1>3 DEF ProcessFlag, Goto, HeldInv, TypeOK, ArgInv
  <2>2. pc[t] \in ProcessPCs /\ pc[t] \notin FlaggedPCs /\ pc'[t] \in FlaggedPCs
    BY <2>1 DEF ProcessPCs, FlaggedPCs, EventPCs, WalkPCs
  <2>3. arg[t] \notin Busy
    BY <2>2, FlaggedOnce DEF Busy, FlaggedPCs, ProcessPCs
  <2>4. Busy' = Busy \cup {arg[t]}
    BY <2>1, <2>2 DEF Busy
  <2>5. Registered' = Registered /\ arg[t] \in Registered
    BY <2>1, SameList DEF Registered
  <2>6. Promise!Begin(arg[t])
    BY <2>3, <2>4, <2>5 DEF Promise!Begin
  <2> QED BY <2>1, <2>6
<1>4. CASE ProcessClear(t)
  <2>1. /\ pc[t] = "pe_clear" /\ pc'[t] = "idle"
        /\ UNCHANGED <<raid_sets, nameOf>>
        /\ \A u \in Threads \ {t} : pc'[u] = pc[u] /\ arg'[u] = arg[u]
        /\ arg[t] \in Names
    BY <1>4 DEF ProcessClear, Return, Goto, TypeOK, ArgInv
  <2>2. pc[t] \in ProcessPCs /\ pc[t] \in FlaggedPCs /\ pc'[t] \notin FlaggedPCs
    BY <2>1 DEF ProcessPCs, FlaggedPCs, EventPCs, WalkPCs
  <2>3. \A u \in Threads \ {t} : pc[u] \in FlaggedPCs => arg[u] # arg[t]
    BY <2>2, FlaggedOnce DEF FlaggedPCs, ProcessPCs
  <2>4. Busy' = Busy \ {arg[t]} /\ arg[t] \in Busy
    BY <2>1, <2>2, <2>3 DEF Busy
  <2>5. Registered' = Registered
    BY <2>1, SameList
  <2>6. Promise!End(arg[t])
    BY <2>4, <2>5 DEF Promise!End
  <2> QED BY <2>1, <2>6
<1>5. CASE ~RegisterAdd(t) /\ ~UnregisterDel(t) /\ ~ProcessFlag(t) /\ ~ProcessClear(t)
  <2>1. Busy' = Busy
    BY <1>0, <1>5
  <2>2. Registered' = Registered
    <3>1. CASE RegisterCreate(t)
      <4>1. Linked' = Linked
        BY <3>1 DEF RegisterCreate, Linked, Range
      <4>2. \A a \in Linked : nameOf'[a] = nameOf[a]
        BY <3>1 DEF RegisterCreate, OwnersInv, TypeOK
      <4> QED BY <4>1, <4>2 DEF Registered
    <3>2. CASE ~RegisterCreate(t)
      <4>1. UNCHANGED <<raid_sets, nameOf>>
        BY <1>5, <3>2, OtherSteps
        DEF HeapStep, RegisterLost, UnregisterDestroy
      <4> QED BY <4>1, SameList
    <3> QED BY <3>1, <3>2
  <2> QED BY <2>1, <2>2
<1> QED BY <1>1, <1>2, <1>3, <1>4, <1>5

\* The plug-in, with its lists, locks and memory, does what MonitoredSets says:
\* one registration per name, events only of registered names and one at a
\* time, and no removal of a busy name.
THEOREM Refinement == ASSUME OneMonitor PROVE Spec => ImplementsMonitoredSets
<1>1. Init => Promise!Init
  BY DEF Init, Promise!Init, Registered, Busy, Linked, Range, FlaggedPCs,
         EventPCs, WalkPCs
<1>2. OneMonitor
  OBVIOUS
<1>3. ListInv /\ EventSetLive /\ [Next]_vars => [Promise!Next]_(Promise!vars)
  <2> SUFFICES ASSUME ListInv, EventSetLive, [Next]_vars
               PROVE  [Promise!Next]_(Promise!vars)
    OBVIOUS
  <2>1. CASE UNCHANGED vars
    <3>1. Registered' = Registered /\ Busy' = Busy
      BY <2>1, SameList DEF vars, Busy
    <3> QED BY <3>1 DEF Promise!vars
  <2> QED BY <2>1, <1>2, PromiseStep DEF Next
<1> QED BY <1>1, <1>3, ListSafety, EventSetsLive, PTL
        DEF Spec, ImplementsMonitoredSets, Promise!Spec
=============================================================================
