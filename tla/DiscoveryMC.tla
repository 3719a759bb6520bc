---------------------------- MODULE DiscoveryMC -----------------------------
(* What the disks of a small system may hold, for TLC.  An array is what   *)
(* its disks hold, one native record per disk.                             *)
EXTENDS Discovery, TLC

Size   == 4096          \* sectors of a disk
Used == 1024            \* sectors of a disk that belong to an array

Hpt37(type, disks, number, order) ==
  [fmt |-> "hpt37x", magic |-> "ok", magic0 |-> 7 + order, magic1 |-> IF type \in Hpt37x!Stacked THEN 5 ELSE 0,
   type |-> type, order |-> order, disks |-> disks, number |-> number, shift |-> 4,
   total |-> IF type \in {"raid0", "raid01_raid0"} THEN disks * Used ELSE Used]

Hpt45(type, disks, number, mirror, half) ==
  [fmt |-> "hpt45x", magic |-> "ok", magic0 |-> 3, type |-> type, disks |-> disks, number |-> number,
   shift |-> 4, total |-> IF type = "raid0" THEN disks * Used ELSE Used,
   raid1type |-> mirror, raid1number |-> half, raid1shift |-> 4]

JMicron(mode, n, i) ==
  [fmt |-> "jm", magic |-> "ok", id |-> 4, mode |-> mode, block |-> 3, attribute |-> 1, identity |-> 10 + i,
   member |-> [j \in 1 .. 8 |-> IF j <= n THEN 10 + j ELSE 0], base |-> 0, range |-> 0, range2 |-> Used]

MegaRaid(type, i, mirror) ==
  [fmt |-> "lsi", magic |-> "ok", id |-> 1, set |-> 0, number |-> i - 1, type |-> type, stride |-> 16,
   disks |-> [j \in 1 .. 4 |-> [stripe |-> (j - 1) % 2, mirror |-> IF mirror THEN (j - 1) \div 2 ELSE 0,
                                offline |-> FALSE]]]

NVidia(level, width, volumes, unit) ==
  [fmt |-> "nv", magic |-> "ok", id |-> 6, level |-> level, unit |-> unit, width |-> width,
   volumes |-> volumes, stripe |-> 16, job |-> "idle", broken |-> FALSE]

PdcArea(id, type, disks, number, start) ==
  [id |-> id, checksum |-> TRUE, type |-> type, number |-> number, disks |-> disks, shift |-> 4,
   total |-> (IF type = "raid0" THEN disks ELSE IF type = "raid10" THEN disks \div 2 ELSE 1) * Used,
   start |-> start, more |-> <<>>]

Promise(at, areas) == [fmt |-> "pdc", at |-> at, begins |-> FALSE, areas |-> areas]

SilCopy(type, number, striped, perStriped, mirrored, perMirrored) ==
  [magic |-> "ok", checksum |-> TRUE, id |-> 9, type |-> type, number |-> number, stride |-> 16,
   array |-> Used * (IF type \in {"raid0", "raid10"} THEN perStriped ELSE 1), disk |-> Used,
   perStriped |-> perStriped, striped |-> striped, perMirrored |-> perMirrored, mirrored |-> mirrored,
   state |-> "ok"]

Image(c) == [fmt |-> "sil", areas |-> <<c, c, c, c>>]

ViaDisk(type, disks, info) ==
  [fmt |-> "via", magic |-> "ok", checksum |-> TRUE, id |-> 2, type |-> type, info |-> info,
   member |-> TRUE, tolerance |-> FALSE, disks |-> disks, shift |-> 1]

Line(magic, level, type, count, id) ==
  [magic |-> magic, level |-> level, type |-> type, state |-> "optimal", count |-> count, id |-> id,
   name |-> 8, capacity |-> Used, stripe |-> 16]

Adaptec(table, drive) ==
  [fmt |-> "asr", magic |-> "ok", version |-> 8, drive |-> drive, valid |-> TRUE, table |-> table]

AsrTable(type, n) ==
  <<Line(100, "fwl", type, n, 0)>> \o [i \in 1 .. n |-> Line(i, "pal", type, 0, i)]

AsrStacked ==
  <<Line(100, "fwl_2", "raid1", 2, 0), Line(101, "fwl", "raid0", 2, 0), Line(1, "pal", "raid0", 0, 1),
    Line(2, "pal", "raid0", 0, 2), Line(102, "fwl", "raid0", 2, 0), Line(3, "pal", "raid0", 0, 3),
    Line(4, "pal", "raid0", 0, 4)>>

Volume(guid, level, n, start) ==
  [vd |-> TRUE, guid |-> guid, ids |-> [i \in 1 .. n |-> 20 + i], offsets |-> [i \in 1 .. n |-> start],
   level |-> level, qualifier |-> "raid5_ls", shift |-> 4, sectors |-> Used]

Snia(cfgs, n, i) ==
  [fmt |-> "ddf1", primary |-> TRUE, secondary |-> TRUE, freed |-> TRUE, adaptec |-> FALSE,
   reference |-> 20 + i,
   phys |-> [j \in 1 .. n |-> [reference |-> 20 + j, state |-> {"online"}, size |-> Size - 64]],
   virt |-> [j \in 1 .. 2 |-> [guid |-> j, name |-> 10 - j]], cfgs |-> cfgs]

-----------------------------------------------------------------------------

Arrays ==
  {[i \in 1 .. 2 |-> Hpt37(t, 2, i - 1, 0)] : t \in {"raid0", "raid1", "span"}}
  \cup {[i \in 1 .. 4 |-> Hpt37(t, 2, (i - 1) % 2, 1 + (i - 1) \div 2)] : t \in Hpt37x!Stacked}
  \cup {[i \in 1 .. 2 |-> Hpt45(t, 2, i - 1, "none", 0)] : t \in {"raid0", "raid1", "span"}}
  \cup {[i \in 1 .. 4 |-> Hpt45("raid0", 2, (i - 1) % 2, "raid1", (i - 1) \div 2)]}
  \cup {[i \in 1 .. 2 |-> JMicron(mode, 2, i)] : mode \in {"jbod", "raid1"}}
  \cup {[i \in 1 .. 3 |-> JMicron("raid0", 3, i)], [i \in 1 .. 4 |-> JMicron("raid01", 4, i)]}
  \cup {[i \in 1 .. 2 |-> MegaRaid(t, i, FALSE)] : t \in {"raid0", "raid1"}}
  \cup {[i \in 1 .. 4 |-> MegaRaid("raid10", i, TRUE)]}
  \cup {[i \in 1 .. 2 |-> NVidia(l, IF l = "1" THEN 1 ELSE 2, 2, i - 1)] : l \in {"jbod", "0", "1"}}
  \cup {[i \in 1 .. 3 |-> NVidia("5_sym", 2, 3, i - 1)], [i \in 1 .. 4 |-> NVidia("1_0", 2, 4, i - 1)],
        [i \in 1 .. 3 |-> NVidia("1", 1, 3, i - 1)]}
  \cup {[i \in 1 .. 2 |-> Promise(63, <<PdcArea(4, t, 2, i - 1, 0)>>)] : t \in {"raid0", "raid1", "span"}}
  \cup {[i \in 1 .. 4 |-> Promise(255, <<PdcArea(4, "raid10", 4, i - 1, 0)>>)],
        [i \in 1 .. 2 |-> Promise(63, <<PdcArea(4, "raid0", 2, i - 1, 0), PdcArea(5, "raid1", 2, i - 1, 2048)>>)]}
  \cup {[i \in 1 .. 2 |-> Image(SilCopy(t, i - 1, i - 1, 2, i - 1, 2))] : t \in {"raid0", "raid1", "jbod"}}
  \cup {[i \in 1 .. 3 |-> Image(SilCopy("raid5", i - 1, i - 1, 3, 0, 1))],
        [i \in 1 .. 4 |-> Image(SilCopy("raid10", i - 1, (i - 1) \div 2, 2, (i - 1) \div 2, 2))]}
  \cup {[i \in 1 .. 2 |-> ViaDisk(t, 2, i - 1)] : t \in {"raid0", "span"}}
  \cup {[i \in 1 .. 2 |-> ViaDisk("raid1", 2, 2 * (i - 1))],
        [i \in 1 .. 4 |-> ViaDisk("raid01", 2, 8 * ((i - 1) \div 2) + ((i - 1) % 2))]}
  \cup {[i \in 1 .. 2 |-> Adaptec(AsrTable(t, 2), i)] : t \in {"raid0", "raid1"}}
  \cup {[i \in 1 .. 4 |-> Adaptec(AsrStacked, i)], [i \in 1 .. 2 |-> Adaptec(AsrTable("spare", 2), i)]}
  \cup {[i \in 1 .. 2 |-> Snia(<<Volume(1, t, 2, 0)>>, 2, i)] : t \in {"raid0", "raid1", "concat"}}
  \cup {[i \in 1 .. 3 |-> Snia(<<Volume(2, "raid5", 3, 0), Volume(1, "raid0", 3, 2048)>>, 3, i)]}

MCLayouts ==
  LET All(a)        == [i \in DOMAIN a |-> {a[i]}]
      Without(a, d) == [i \in DOMAIN a |-> IF i = d THEN {} ELSE {a[i]}]
      Held(n)       == [capacity |-> Size, native |-> n, agree |-> TRUE]
      \* Records left by another vendor's controller at another place of a disk.
      Left          == {[i \in 1 .. 2 |-> Hpt37("raid0", 2, i - 1, 0)],
                        [i \in 1 .. 2 |-> Hpt45("raid1", 2, i - 1, "none", 0)]}
      Twice(a, b)   == [i \in DOMAIN a |-> {a[i]} \cup (IF i \in DOMAIN b THEN {b[i]} ELSE {})]
      Wide(m)       == CASE m.fmt \in {"hpt37x", "hpt45x", "via"} -> [m EXCEPT !.shift = 5]
                         [] m.fmt = "jm" -> [m EXCEPT !.block = 4]
                         [] m.fmt = "lsi" -> [m EXCEPT !.stride = 32]
                         [] m.fmt = "nv" -> [m EXCEPT !.stripe = 32]
                         [] m.fmt = "pdc" -> [m EXCEPT !.areas[1].shift = 5]
                         [] m.fmt = "sil" -> [m EXCEPT !.areas[1].stride = 32]
                         [] OTHER -> m
      Unset(m)      == CASE m.fmt \in {"hpt37x", "hpt45x"} -> [m EXCEPT !.shift = 0]
                         [] m.fmt = "nv" -> [m EXCEPT !.stripe = 0]
                         [] m.fmt = "pdc" -> [m EXCEPT !.areas[1].shift = 0]
                         [] m.fmt = "sil" -> [m EXCEPT !.areas[1].stride = 0]
                         [] OTHER -> m
      Stale(a, d)   == [i \in DOMAIN a |-> {IF i = d THEN Wide(a[i]) ELSE a[i]}]
      NoStride(a)   == [i \in DOMAIN a |-> {IF i = 1 THEN Unset(a[i]) ELSE a[i]}]
      \* Of two volumes over the same disks the second one cannot be grouped.
      Second        == [i \in 1 .. 2 |-> {Promise(63, <<PdcArea(4, "raid10", 4, 2 * i - 1, 0),
                          [PdcArea(5, "raid1", 2, i - 1, 2048) EXCEPT !.shift = 3 + i]>>)}]
      Disagree(n)   == [capacity |-> Size, native |-> n, agree |-> FALSE]
  IN  UNION {{Held(All(a))} \cup {Held(Without(a, d)) : d \in DOMAIN a} : a \in Arrays}
      \cup {Held(Twice(a, b)) : <<a, b>> \in {<<a, b>> \in Arrays \X Left : a[1].fmt # b[1].fmt}}
      \cup {Disagree(Stale(a, d)) : a \in Arrays, d \in 1 .. 2}
      \cup {Disagree(NoStride(a)) : a \in Arrays} \cup {Disagree(Second)}
=============================================================================
