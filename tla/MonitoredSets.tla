---------------------------- MODULE MonitoredSets ---------------------------
(***************************************************************************)
(* What the events plug-in promises dmeventd, with no lists, locks or      *)
(* memory: a set of registered RAID set names, and the names whose events  *)
(* are being processed.  A name is registered once, an event of a name is  *)
(* only processed while it is registered, one event at a time, and a busy  *)
(* name is not unregistered.  lib/events/libdmraid-events-isw.c            *)
(* (module DsoRegistry) implements it.                                     *)
(***************************************************************************)
CONSTANT Names
VARIABLES registered, busy

vars == <<registered, busy>>

Init == registered = {} /\ busy = {}

\* register_device() returned 1.
Register(n) ==
    /\ n \notin registered
    /\ registered' = registered \cup {n}
    /\ UNCHANGED busy

\* unregister_device() returned 1.
Unregister(n) ==
    /\ n \in registered \ busy
    /\ registered' = registered \ {n}
    /\ UNCHANGED busy

\* process_event() found the set and marked it in use.
Begin(n) ==
    /\ n \in registered \ busy
    /\ busy' = busy \cup {n}
    /\ UNCHANGED registered

\* process_event() is about to return.
End(n) ==
    /\ n \in busy
    /\ busy' = busy \ {n}
    /\ UNCHANGED registered

Next == \E n \in Names : Register(n) \/ Unregister(n) \/ Begin(n) \/ End(n)

Spec == Init /\ [][Next]_vars
=============================================================================
