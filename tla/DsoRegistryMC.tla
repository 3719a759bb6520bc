--------------------------- MODULE DsoRegistryMC ----------------------------
(* Instances of DsoRegistry for TLC.                                       *)
EXTENDS DsoRegistry, TLC

CONSTANTS t1, t2, t3, n1, n2, a1, a2

MCNames   == {n1, n2}
MCAddrs   == {a1, a2}

\* Each set's events arrive on one thread; a third thread only registers and
\* unregisters.
OwnMonitor == n1 :> {t1} @@ n2 :> {t2}

=============================================================================
