--------------------------- MODULE ActivationProofs ---------------------------
(***************************************************************************)
(* The order of the levels of a RAID stack, the truth of the results, the  *)
(* bookkeeping of the monitoring, and that no path of the recursion leaves *)
(* a device suspended or an error target behind, for every forest of sets. *)
(***************************************************************************)
EXTENDS Activation, TLAPS

-----------------------------------------------------------------------------
(* The inductive invariant.                                                *)

\* Between calls nothing is on the stack; each stage belongs to its walk; only
\* a set with a device is mapped, and only a degraded one with an error target.
Stack ==
  /\ pass = "none" => res = Idle /\ faults = {}
  /\ \A s \in Sets :
       /\ res[s] = "suspended" => pass = "reload"
       /\ res[s] = "target" => s \in missing
       /\ res[s] \in {"suspended", "target", "map"} => s \notin Groups
       /\ pass = "activate" => res[s] \in {"none", "open", "target", "map", "cleanup", "ok", "fail"}
       /\ pass = "reload" => res[s] \notin {"removed", "kept"}
       /\ pass \in {"register", "unregister"} => res[s] \in {"none", "open", "ok", "fail"}
       /\ pass = "remove" => res[s] \in {"none", "open", "removed", "kept", "ok", "fail"}

\* When a set is being mapped, the sets it is mapped onto are.
Activated ==
  pass = "activate" => \A s \in Sets \ Groups :
    /\ res[s] = "ok" => s \in active
    /\ res[s] \in {"target", "map"} => \A c \in Subs(s) : res[c] = "ok"

\* The walk goes below a set only after the set itself is gone.
Removed ==
  pass = "remove" => \A s \in Sets :
    /\ res[s] \in {"removed", "open", "ok"} => s \notin active
    /\ res[s] = "ok" => \A c \in Subs(s) : res[c] = "ok"

\* The first walk of a deactivation: what has returned 1 is not monitored.
Unmonitored ==
  pass = "unregister" /\ ~blind => \A s \in Sets :
    /\ res[s] \in {"open", "ok"} => s \notin monitored
    /\ res[s] = "ok" => \A c \in Subs(s) : res[c] = "ok"

\* The second walk: it stays inside a tree that is not monitored.
TreeUnmonitored ==
  pass = "remove" /\ ~blind =>
    \E W \in SUBSET Sets : /\ root \in W /\ W \cap monitored = {}
                           /\ \A s \in W : Subs(s) \subseteq W
                           /\ \A s \in Sets : res[s] # "none" => s \in W

\* A deactivation that does not unregister is written down as a fault.
BlindNoted == pass \in {"unregister", "remove"} /\ blind => "blind" \in faults

\* The parts of the invariant: the types, the order of the levels, the monitoring.
Shape == TypeOK /\ Stack
Levels == Stacked /\ Activated /\ Removed
Monitoring == Unmonitored /\ TreeUnmonitored /\ BlindNoted /\ MonitoredActive

-----------------------------------------------------------------------------
\* The sets below a set are sets.
LEMMA SubsAreSets == ASSUME NEW s \in Sets PROVE Subs(s) \subseteq Sets
BY ConstantsAssumption DEF Subs

\* The loop of a set takes one of the sets below it.
LEMMA NextIsSub == ASSUME NEW p \in Sets, NEW s \in Sets, NextBelow(p, s) PROVE s \in Subs(p)
BY DEF NextBelow, Subs

\* At the start nothing is mapped, registered or called.
LEMMA InitShape == Init => Shape
<1> SUFFICES ASSUME Init PROVE Shape
  OBVIOUS
<1>1. calls \in 0 .. MaxCalls
  BY ConstantsAssumption DEF Init
<1>2. res \in [Sets -> Stages] /\ \A s \in Sets : res[s] = "none"
  BY DEF Init, Idle, Stages
<1>3. pass \in Passes \cup {"none"} /\ pass = "none"
  BY DEF Init, Passes
<1> QED BY <1>1, <1>2, <1>3 DEF Init, Shape, TypeOK, Stack

\* A call begins with nothing on the stack but the root.
LEMMA CallShape ==
  ASSUME Shape, NEW p \in First, NEW r \in Tops, NEW b \in BOOLEAN,
         NEW m \in SUBSET Raid45, NEW x \in SUBSET (Groups \cap Handled), Call(p, r, b, m, x)
  PROVE  Shape'
BY ConstantsAssumption DEF Shape, TypeOK, Stack, Call, First, Passes, Idle, Faults, kernel

\* A walk that ends leaves nothing on the stack.
LEMMA EndShape == ASSUME Shape, Return \/ Kill \/ SecondPass PROVE Shape'
BY ConstantsAssumption, ZenonT(30)
   DEF Shape, TypeOK, Stack, Return, Kill, SecondPass, Ends, Passes, Idle, Faults, kernel, request, Stages

\* A step on a set leaves that set at a stage of its walk.
LEMMA StepShape == ASSUME Shape, NEW s \in Sets, StepOn(s) PROVE Shape'
<1> USE DEF Shape, TypeOK, Stack, Goes, Fault, NoFault, Keep, Fails, Walks, kernel, request,
            Stages, Results, Faults, Idle
<1>1. CASE Enter(s)
  BY <1>1, ZenonT(30) DEF Enter, Called
<1>2. CASE Abort(s)
  BY <1>2 DEF Abort
<1>3. CASE Leave(s)
  BY <1>3 DEF Leave, Below
<1>4. CASE Suspend(s)
  BY <1>4, ZenonT(30) DEF Suspend, Below, Mapped
<1>5. CASE PlainTable(s)
  BY <1>5 DEF PlainTable, Building, Below, Mapped
<1>6. CASE ClearTarget(s)
  BY <1>6 DEF ClearTarget, DeleteTarget, Building, Below, Mapped
<1>7. CASE CreateTarget(s)
  BY <1>7, ZenonT(30) DEF CreateTarget, NoTable
<1>8. CASE TableFails(s)
  BY <1>8 DEF TableFails, NoTable
<1>9. CASE CreateSet(s)
  BY <1>9 DEF CreateSet
<1>10. CASE DropTarget(s)
  BY <1>10 DEF DropTarget, DeleteTarget
<1>11. CASE Load(s)
  BY <1>11 DEF Load
<1>12. CASE Resume(s)
  <2>1. /\ pass' = pass /\ UNCHANGED request /\ active' = active /\ errTarget' = errTarget
        /\ monitored' = monitored /\ suspended' \subseteq suspended /\ faults' \subseteq Faults
    BY <1>12 DEF Resume
  <2>2. \E stage \in Results : res' = [res EXCEPT ![s] = stage]
    BY <1>12 DEF Resume
  <2> QED BY <1>12, <2>1, <2>2 DEF Resume
<1>13. CASE RemoveSet(s)
  BY <1>13 DEF RemoveSet, Called
<1>14. CASE RemoveTarget(s)
  BY <1>14, ZenonT(30) DEF RemoveTarget, DeleteTarget
<1>15. CASE Register(s)
  BY <1>15 DEF Register, Below
<1>16. CASE Unregister(s)
  BY <1>16 DEF Unregister, Called
<1> QED BY <1>1, <1>2, <1>3, <1>4, <1>5, <1>6, <1>7, <1>8, <1>9, <1>10, <1>11, <1>12, <1>13,
           <1>14, <1>15, <1>16 DEF StepOn

\* What a step for one set leaves alone.
LEMMA StepFrame ==
  ASSUME Shape, NEW s \in Sets, StepOn(s)
  PROVE  /\ pass' = pass /\ UNCHANGED request /\ faults \subseteq faults'
         /\ res[s] \notin Results /\ \A t \in Sets \ {s} : res'[t] = res[t]
         /\ \A t \in Sets \ {s} : /\ t \in active' <=> t \in active
                                  /\ t \in monitored' <=> t \in monitored
         /\ s \in active' => s \in active \/ CreateSet(s)
         /\ s \in active => s \in active' \/ RemoveSet(s)
<1> USE DEF Shape, TypeOK, Goes, Fault, NoFault, Keep, Fails, Walks, kernel, request, Results
<1>1. CASE Enter(s) \/ Abort(s) \/ Leave(s) \/ PlainTable(s) \/ TableFails(s) \/ Load(s)
  BY <1>1 DEF Enter, Called, Abort, Leave, Below, PlainTable, Building, TableFails, Load
<1>2. CASE Suspend(s) \/ Resume(s)
  BY <1>2 DEF Suspend, Below, Resume
<1>3. CASE ClearTarget(s) \/ CreateTarget(s) \/ DropTarget(s) \/ RemoveTarget(s)
  BY <1>3 DEF ClearTarget, Building, Below, CreateTarget, DropTarget, RemoveTarget, DeleteTarget
<1>4. CASE CreateSet(s)
  BY <1>4 DEF CreateSet
<1>5. CASE RemoveSet(s)
  BY <1>5 DEF RemoveSet, Called
<1>6. CASE Register(s) \/ Unregister(s)
  BY <1>6 DEF Register, Below, Unregister, Called
<1> QED BY <1>1, <1>2, <1>3, <1>4, <1>5, <1>6 DEF StepOn

-----------------------------------------------------------------------------
(* The levels.                                                             *)

\* A set is below one other at most.
LEMMA OnePar ==
  ASSUME NEW p \in Sets, NEW q \in Sets, NEW s \in Subs(p), s \in Subs(q) PROVE p = q
BY ForestAssumption

\* A set whose walk goes on after the loop has only subsets that returned 1,
\* where a failed one would have ended it.
LEMMA BelowOk ==
  ASSUME NEW s \in Sets, Below(s), ~Tolerates(s) PROVE \A c \in Subs(s) : res[c] = "ok"
BY DEF Below, Failed, Results

\* A set is mapped when all it is mapped onto is active.
LEMMA CreateAbove ==
  ASSUME Shape, Levels, NEW s \in Sets, CreateSet(s) PROVE Subs(s) \subseteq active
<1>1. pass = "activate" /\ res[s] = "map" /\ s \notin Groups
  BY DEF CreateSet, Shape, Stack
<1>2. Subs(s) \subseteq Sets \ Groups
  BY <1>1, SubsAreSets, ForestAssumption
<1>3. \A c \in Subs(s) : res[c] = "ok"
  BY <1>1 DEF Levels, Activated
<1> QED BY <1>1, <1>2, <1>3 DEF Levels, Activated

\* A set is removed when nothing active is mapped onto it.
LEMMA RemoveBelow ==
  ASSUME Shape, Levels, NEW s \in Sets, RemoveSet(s) PROVE \A p \in active : s \notin Subs(p)
<1> SUFFICES ASSUME NEW p \in active, s \in Subs(p) PROVE FALSE
  OBVIOUS
<1>1. p \in Sets /\ root \in Tops
  BY DEF Shape, TypeOK
<1>2. s # root
  BY <1>1, ForestAssumption
<1>3. PICK q \in Sets : res[q] = "open" /\ NextBelow(q, s)
  BY <1>2 DEF RemoveSet, Called
<1>4. q = p
  BY <1>1, <1>3, NextIsSub, OnePar
<1> QED BY <1>1, <1>3, <1>4 DEF RemoveSet, Levels, Removed

\* A step on a set maps it onto devices that are there and removes it before them.
LEMMA StepStacked == ASSUME Shape, Levels, NEW s \in Sets, StepOn(s) PROVE Stacked'
<1> SUFFICES ASSUME NEW t \in active', NEW c \in Subs(t), c \notin active' PROVE FALSE
  BY DEF Stacked
<1>0. active \subseteq Sets /\ active' \subseteq Sets
  BY StepShape DEF Shape, TypeOK
<1>1. Subs(t) \subseteq active
  <2>1. CASE t \in active
    BY <2>1 DEF Levels, Stacked
  <2>2. CASE t \notin active
    BY <1>0, <2>2, StepFrame, CreateAbove
  <2> QED BY <2>1, <2>2
<1>2. c = s /\ RemoveSet(s)
  BY <1>0, <1>1, StepFrame
<1>3. t \in active
  BY <1>0, <1>2, StepFrame DEF RemoveSet, CreateSet
<1> QED BY <1>2, <1>3, RemoveBelow

\* A step on a set is reported as a success only when the set is mapped.
LEMMA StepActivated == ASSUME Shape, Levels, NEW s \in Sets, StepOn(s) PROVE Activated'
<1> SUFFICES ASSUME pass' = "activate" PROVE Activated'
  BY DEF Activated
<1>0. pass = "activate" /\ Shape'
  BY StepFrame, StepShape
<1> SUFFICES ASSUME NEW t \in Sets \ Groups
             PROVE  /\ res'[t] = "ok" => t \in active'
                    /\ res'[t] \in {"target", "map"} => \A c \in Subs(t) : res'[c] = "ok"
  BY <1>0 DEF Activated
<1>1. \A u \in Sets : res[u] = "ok" => res'[u] = "ok"
  BY StepFrame DEF Results
<1>2. \A u \in active : u \in active'
  BY <1>0, StepFrame DEF RemoveSet, Shape, TypeOK
<1>3. Subs(t) \subseteq Sets
  BY SubsAreSets
<1>4. CASE t # s
  BY <1>0, <1>1, <1>2, <1>3, <1>4, StepFrame DEF Levels, Activated
<1>5. CASE t = s
  <2>1. res'[s] = "ok" => s \in active'
    BY <1>0, <1>2, <1>5
       DEF StepOn, Shape, TypeOK, Stack, Enter, Abort, Leave, Suspend, PlainTable, ClearTarget,
           CreateTarget, TableFails, CreateSet, DropTarget, Load, Resume, RemoveSet, RemoveTarget,
           Register, Unregister, DeleteTarget, Goes, Walks, Fails, NoTable
  <2>2. ASSUME res'[s] \in {"target", "map"} PROVE \A c \in Subs(s) : res[c] = "ok"
    <3>1. CASE res[s] \in {"target", "map"}
      BY <1>0, <1>5, <3>1 DEF Levels, Activated
    <3>2. CASE res[s] \notin {"target", "map"}
      <4>1. Building(s)
        BY <1>0, <2>2, <3>2
           DEF StepOn, Shape, TypeOK, Stack, Enter, Abort, Leave, Suspend, PlainTable, ClearTarget,
               CreateTarget, TableFails, CreateSet, DropTarget, Load, Resume, RemoveSet, RemoveTarget,
               Register, Unregister, DeleteTarget, Goes, Walks, Fails, NoTable
      <4>2. Below(s) /\ ~Tolerates(s)
        BY <1>0, <1>5, <4>1 DEF Building, Shape, Stack, Tolerates
      <4> QED BY <4>2, BelowOk
    <3> QED BY <3>1, <3>2
  <2> QED BY <1>1, <1>3, <1>5, <2>1, <2>2
<1> QED BY <1>4, <1>5

\* In the walks of a deactivation a call returns 1 only after those below it.
LEMMA OkGoesUp ==
  ASSUME Shape, NEW s \in Sets, StepOn(s), pass \in {"unregister", "remove"}, res'[s] = "ok"
  PROVE  res[s] = "open" /\ \A c \in Subs(s) : res[c] = "ok" /\ res'[c] = "ok"
<1>1. Leave(s)
  BY DEF StepOn, Shape, TypeOK, Stack, Enter, Abort, Leave, Suspend, PlainTable, ClearTarget,
           CreateTarget, TableFails, CreateSet, DropTarget, Load, Resume, RemoveSet, RemoveTarget,
           Register, Unregister, DeleteTarget, Goes, Walks, Fails, NoTable
<1>2. \A c \in Subs(s) : res[c] = "ok"
  BY <1>1, BelowOk DEF Leave, Tolerates
<1>3. res[s] = "open" /\ Subs(s) \subseteq Sets
  BY <1>1, SubsAreSets DEF Leave, Below
<1> QED BY <1>2, <1>3, StepFrame DEF Results

\* A removal goes down only from a set that is gone.
LEMMA StepRemoved == ASSUME Shape, Levels, NEW s \in Sets, StepOn(s) PROVE Removed'
<1> SUFFICES ASSUME pass' = "remove" PROVE Removed'
  BY DEF Removed
<1>0. pass = "remove" /\ Shape'
  BY StepFrame, StepShape
<1> SUFFICES ASSUME NEW t \in Sets
             PROVE  /\ res'[t] \in {"removed", "open", "ok"} => t \notin active'
                    /\ res'[t] = "ok" => \A c \in Subs(t) : res'[c] = "ok"
  BY <1>0 DEF Removed
<1>1. \A u \in Sets : res[u] = "ok" => res'[u] = "ok"
  BY StepFrame DEF Results
<1>3. Subs(t) \subseteq Sets
  BY SubsAreSets
<1>4. CASE t # s
  BY <1>0, <1>1, <1>3, <1>4, StepFrame DEF Levels, Removed
<1>5. CASE t = s
  <2>1. ASSUME res'[s] \in {"removed", "open", "ok"} PROVE s \notin active'
    <3>1. CASE RemoveSet(s)
      BY <1>0, <2>1, <3>1 DEF RemoveSet, Goes, Fails, Shape, TypeOK
    <3>2. CASE Enter(s)
      BY <1>0, <3>2 DEF Enter, Walks, Keep, kernel, Shape, TypeOK
    <3>3. CASE ~RemoveSet(s) /\ ~Enter(s)
      <4>1. res[s] \in {"removed", "open"}
        BY <1>0, <2>1, <3>3 DEF Below, StepOn, Shape, TypeOK, Stack, Enter, Abort, Leave, Suspend, PlainTable, ClearTarget,
           CreateTarget, TableFails, CreateSet, DropTarget, Load, Resume, RemoveSet, RemoveTarget,
           Register, Unregister, DeleteTarget, Goes, Walks, Fails, NoTable
      <4>2. s \notin active
        BY <1>0, <4>1 DEF Levels, Removed
      <4> QED BY <1>0, <4>2, StepFrame DEF CreateSet
    <3> QED BY <3>1, <3>2, <3>3
  <2> QED BY <1>0, <1>5, <2>1, OkGoesUp
<1> QED BY <1>4, <1>5

\* A step on a set keeps the order of the levels.
LEMMA StepLevels == ASSUME Shape, Levels, NEW s \in Sets, StepOn(s) PROVE Levels'
BY StepStacked, StepActivated, StepRemoved DEF Levels

-----------------------------------------------------------------------------
(* The monitoring.                                                         *)

\* The first walk of a deactivation returns 1 only for what it has unregistered.
LEMMA StepUnmonitored ==
  ASSUME Shape, Monitoring, NEW s \in Sets, StepOn(s) PROVE Unmonitored'
<1> SUFFICES ASSUME pass' = "unregister", ~blind' PROVE Unmonitored'
  BY DEF Unmonitored
<1>0. pass = "unregister" /\ Shape' /\ ~blind
  BY StepFrame, StepShape DEF request
<1> SUFFICES ASSUME NEW t \in Sets
             PROVE  /\ res'[t] \in {"open", "ok"} => t \notin monitored'
                    /\ res'[t] = "ok" => \A c \in Subs(t) : res'[c] = "ok"
  BY <1>0 DEF Unmonitored
<1>1. \A u \in Sets : res[u] = "ok" => res'[u] = "ok"
  BY StepFrame DEF Results
<1>3. Subs(t) \subseteq Sets
  BY SubsAreSets
<1>4. CASE t # s
  BY <1>0, <1>1, <1>3, <1>4, StepFrame DEF Monitoring, Unmonitored
<1>5. CASE t = s
  <2>1. ASSUME res'[s] \in {"open", "ok"} PROVE s \notin monitored'
    <3>1. CASE Unregister(s)
      BY <1>0, <2>1, <3>1 DEF Unregister, Goes, Fails, Walks, Shape, TypeOK
    <3>2. CASE Enter(s)
      BY <1>0, <3>2 DEF Enter, Walks, Keep, kernel, Shape, TypeOK
    <3>3. CASE ~Unregister(s) /\ ~Enter(s)
      <4>1. Leave(s)
        BY <1>0, <2>1, <3>3 DEF StepOn, Shape, TypeOK, Stack, Enter, Abort, Leave, Suspend, PlainTable, ClearTarget,
           CreateTarget, TableFails, CreateSet, DropTarget, Load, Resume, RemoveSet, RemoveTarget,
           Register, Unregister, DeleteTarget, Goes, Walks, Fails, NoTable
      <4>2. s \notin monitored
        BY <1>0, <4>1 DEF Leave, Below, Monitoring, Unmonitored
      <4> QED BY <4>1, <4>2 DEF Leave, Walks, Keep, kernel
    <3> QED BY <3>1, <3>2, <3>3
  <2> QED BY <1>0, <1>5, <2>1, OkGoesUp
<1> QED BY <1>4, <1>5

\* A call inside a closed set of sets leads to calls inside it.
LEMMA CalledInside ==
  ASSUME Shape, NEW s \in Sets, StepOn(s), NEW W \in SUBSET Sets, root \in W,
         \A t \in W : Subs(t) \subseteq W, \A t \in Sets : res[t] # "none" => t \in W
  PROVE  s \in W
<1>1. res[s] # "none" \/ Called(s)
  BY DEF StepOn, Shape, TypeOK, Stack, Enter, Abort, Leave, Suspend, PlainTable, ClearTarget,
           CreateTarget, TableFails, CreateSet, DropTarget, Load, Resume, RemoveSet, RemoveTarget,
           Register, Unregister, DeleteTarget, Goes, Walks, Fails, NoTable, Below, Building
<1>2. ASSUME Called(s) PROVE s \in W
  <2>1. CASE s = root
    BY <2>1
  <2>2. CASE s # root
    <3>1. PICK p \in Sets : res[p] = "open" /\ NextBelow(p, s)
      BY <1>2, <2>2 DEF Called
    <3> QED BY <3>1, NextIsSub
  <2> QED BY <2>1, <2>2
<1> QED BY <1>1, <1>2

\* The second walk of a deactivation stays in the tree of the first.
LEMMA StepTreeUnmonitored ==
  ASSUME Shape, Monitoring, NEW s \in Sets, StepOn(s) PROVE TreeUnmonitored'
<1> SUFFICES ASSUME pass' = "remove", ~blind' PROVE TreeUnmonitored'
  BY DEF TreeUnmonitored
<1>0. pass = "remove" /\ ~blind /\ root' = root
  BY StepFrame DEF request
<1>1. PICK W \in SUBSET Sets :
        /\ root \in W /\ W \cap monitored = {}
        /\ \A t \in W : Subs(t) \subseteq W
        /\ \A t \in Sets : res[t] # "none" => t \in W
  BY <1>0 DEF Monitoring, TreeUnmonitored
<1>2. s \in W
  BY <1>1, CalledInside
<1>3. \A t \in Sets : res'[t] # "none" => t \in W
  BY <1>1, <1>2, StepFrame
<1>4. monitored' \subseteq monitored
  BY <1>0 DEF StepOn, Shape, TypeOK, Stack, Enter, Abort, Leave, Suspend, PlainTable, ClearTarget,
           CreateTarget, TableFails, CreateSet, DropTarget, Load, Resume, RemoveSet, RemoveTarget,
           Register, Unregister, DeleteTarget, Goes, Walks, Fails, NoTable, Keep, kernel
<1> QED BY <1>0, <1>1, <1>3, <1>4 DEF TreeUnmonitored

\* A removal takes away only what is not monitored.
LEMMA StepMonitoredActive ==
  ASSUME Shape, Monitoring, NEW s \in Sets, StepOn(s) PROVE MonitoredActive'
<1> SUFFICES ASSUME "blind" \notin past \cup faults, "blind" \notin past' \cup faults'
             PROVE  monitored' \subseteq active'
  BY StepFrame DEF MonitoredActive, request
<1>0. monitored \subseteq active
  BY DEF Monitoring, MonitoredActive
<1>1. CASE RemoveSet(s)
  <2>1. pass = "remove" /\ ~blind
    BY <1>1 DEF RemoveSet, Monitoring, BlindNoted
  <2>2. PICK W \in SUBSET Sets :
          /\ root \in W /\ W \cap monitored = {}
          /\ \A t \in W : Subs(t) \subseteq W
          /\ \A t \in Sets : res[t] # "none" => t \in W
    BY <2>1 DEF Monitoring, TreeUnmonitored
  <2>3. s \in W
    BY <2>2, CalledInside
  <2> QED BY <1>0, <1>1, <2>2, <2>3 DEF RemoveSet, Keep, Fails, kernel
<1>2. CASE ~RemoveSet(s)
  <2>1. active \subseteq active'
    BY <1>2, StepFrame DEF Shape, TypeOK
  <2>2. monitored' \subseteq monitored \cup active
    BY DEF StepOn, Shape, TypeOK, Stack, Enter, Abort, Leave, Suspend, PlainTable, ClearTarget,
           CreateTarget, TableFails, CreateSet, DropTarget, Load, Resume, RemoveSet, RemoveTarget,
           Register, Unregister, DeleteTarget, Goes, Walks, Fails, NoTable, Keep, kernel
  <2> QED BY <1>0, <2>1, <2>2
<1> QED BY <1>1, <1>2

\* A step on a set keeps the parts about the monitoring.
LEMMA StepMonitoring ==
  ASSUME Shape, Monitoring, NEW s \in Sets, StepOn(s) PROVE Monitoring'
<1>1. BlindNoted'
  BY StepFrame DEF Monitoring, BlindNoted, request
<1> QED BY <1>1, StepUnmonitored, StepTreeUnmonitored, StepMonitoredActive DEF Monitoring

-----------------------------------------------------------------------------
(* The other steps, and the theorems.                                      *)

\* A call begins with an empty stack, so that nothing is claimed of its sets.
LEMMA CallKeeps ==
  ASSUME Shape, Levels, Monitoring, NEW p \in First, NEW r \in Tops, NEW b \in BOOLEAN,
         NEW m \in SUBSET Raid45, NEW x \in SUBSET (Groups \cap Handled), Call(p, r, b, m, x)
  PROVE  Levels' /\ Monitoring'
<1>1. pass = "none" /\ pass' = p /\ blind' = b /\ res' = res /\ past' = past
      /\ active' = active /\ monitored' = monitored
      /\ faults' = IF p = "unregister" /\ b THEN {"blind"} ELSE {}
  BY DEF Call, kernel
<1>2. \A s \in Sets : res[s] = "none"
  BY <1>1 DEF Shape, Stack, Idle
<1>3. Levels'
  BY <1>1, <1>2, SubsAreSets DEF Levels, Stacked, Activated, Removed, First
<1>4. Unmonitored' /\ TreeUnmonitored' /\ BlindNoted'
  BY <1>1, <1>2, SubsAreSets DEF Unmonitored, TreeUnmonitored, BlindNoted, First
<1>5. MonitoredActive'
  <2>1. faults = {}
    BY <1>1 DEF Shape, Stack
  <2>2. "blind" \in past \/ monitored \subseteq active
    BY <2>1 DEF Monitoring, MonitoredActive
  <2> QED BY <1>1, <2>2 DEF MonitoredActive
<1> QED BY <1>3, <1>4, <1>5 DEF Monitoring

\* The end of a walk, its repetition and a kill change no device.
LEMMA EndKeeps ==
  ASSUME Shape, Levels, Monitoring, Return \/ Kill PROVE Levels' /\ Monitoring'
<1>1. pass' = "none" /\ active' = active /\ monitored' = monitored
      /\ past \cup faults \subseteq past'
  BY DEF Return, Kill, Ends, kernel
<1> QED BY <1>1 DEF Levels, Stacked, Activated, Removed, Monitoring, Unmonitored,
                    TreeUnmonitored, BlindNoted, MonitoredActive

\* At the turn to the second walk, the sets whose calls returned 1 are the
\* closed set of unmonitored sets the walk of the removal stays in.
LEMMA TurnKeeps ==
  ASSUME Shape, Levels, Monitoring, SecondPass PROVE Levels' /\ Monitoring'
<1>1. /\ pass \in {"activate", "unregister"} /\ res[root] = "ok" /\ res' = Idle
      /\ pass' = IF pass = "activate" THEN "register" ELSE "remove"
      /\ active' = active /\ monitored' = monitored /\ root' = root /\ blind' = blind
      /\ faults' = faults /\ past' = past
  BY DEF SecondPass, kernel, request
<1>2. \A s \in Sets : res'[s] = "none"
  BY <1>1 DEF Idle
<1>3. Levels'
  BY <1>1, <1>2, SubsAreSets DEF Levels, Stacked, Activated, Removed
<1>4. TreeUnmonitored'
  <2> SUFFICES ASSUME pass' = "remove", ~blind PROVE TreeUnmonitored'
    BY <1>1 DEF TreeUnmonitored
  <2> DEFINE W == {s \in Sets : res[s] = "ok"}
  <2>1. pass = "unregister"
    BY <1>1
  <2>2. root \in W /\ W \cap monitored = {}
    BY <1>1, <2>1, ConstantsAssumption DEF Monitoring, Unmonitored, Shape, TypeOK
  <2>3. \A s \in W : Subs(s) \subseteq W
    BY <2>1, SubsAreSets DEF Monitoring, Unmonitored
  <2>4. W \in SUBSET Sets
    OBVIOUS
  <2> HIDE DEF W
  <2> QED BY <1>1, <1>2, <2>2, <2>3, <2>4 DEF TreeUnmonitored
<1>5. Unmonitored' /\ BlindNoted' /\ MonitoredActive'
  BY <1>1 DEF Monitoring, Unmonitored, BlindNoted, MonitoredActive
<1> QED BY <1>3, <1>4, <1>5 DEF Monitoring

\* The invariant is kept by every step.
LEMMA NextKeeps == ASSUME Shape, Levels, Monitoring, [Next]_vars PROVE (Shape /\ Levels /\ Monitoring)'
<1>1. CASE \E p \in First, r \in Tops, b \in BOOLEAN, m \in SUBSET Raid45, x \in SUBSET (Groups \cap Handled) :
             Call(p, r, b, m, x)
  BY <1>1, CallShape, CallKeeps
<1>2. CASE \E s \in Sets : StepOn(s)
  BY <1>2, StepShape, StepLevels, StepMonitoring
<1>3. CASE SecondPass
  BY <1>3, EndShape, TurnKeeps
<1>4. CASE Return \/ Kill
  BY <1>4, EndShape, EndKeeps
<1>5. CASE UNCHANGED vars
  BY <1>5 DEF vars, kernel, request, Shape, TypeOK, Stack, Idle, Levels, Stacked, Activated, Removed,
              Monitoring, Unmonitored, TreeUnmonitored, BlindNoted, MonitoredActive
<1> QED BY <1>1, <1>2, <1>3, <1>4, <1>5 DEF Next, Step

\* What the theorems below rest on: the invariant holds in every reachable
\* state of change_set(), for any forest of sets and any failures.
THEOREM Invariance == Spec => [](Shape /\ Levels /\ Monitoring)
<1>1. Init => Levels /\ Monitoring
  BY DEF Init, Levels, Stacked, Activated, Removed, Monitoring, Unmonitored, TreeUnmonitored,
         BlindNoted, MonitoredActive
<1> QED BY <1>1, InitShape, NextKeeps, PTL DEF Spec

\* The kernel's devices, the stack of the recursion and the record of the
\* failures keep their types.
THEOREM Typing == Spec => []TypeOK
<1>1. Shape => TypeOK
  BY DEF Shape
<1> QED BY <1>1, Invariance, PTL

\* No set of a RAID stack is ever active without all that it is mapped onto.
THEOREM StackedSets == Spec => []Stacked
<1>1. Levels => Stacked
  BY DEF Levels
<1> QED BY <1>1, Invariance, PTL

\* activate_set() brings the levels up from below, deactivate_set() takes
\* them down from above, and no other step touches them.
THEOREM LevelOrder == Spec => BottomUp
<1> DEFINE Ordered ==
      /\ \A s \in active' \ active : Subs(s) \subseteq active
      /\ \A s \in active \ active' : \A p \in active : s \notin Subs(p)
<1>1. Shape /\ Shape' /\ Levels /\ [Next]_vars => [Ordered]_vars
  <2> SUFFICES ASSUME Shape, Shape', Levels, [Next]_vars PROVE Ordered \/ UNCHANGED vars
    OBVIOUS
  <2>0. active \subseteq Sets /\ active' \subseteq Sets
    BY DEF Shape, TypeOK
  <2>1. CASE \E s \in Sets : StepOn(s)
    <3>1. PICK s \in Sets : StepOn(s)
      BY <2>1
    <3>2. \A t \in active' \ active : Subs(t) \subseteq active
      BY <2>0, <3>1, StepFrame, CreateAbove
    <3>3. \A t \in active \ active' : \A p \in active : t \notin Subs(p)
      BY <2>0, <3>1, StepFrame, RemoveBelow
    <3> QED BY <3>2, <3>3
  <2>2. CASE SecondPass \/ Return \/ Kill
    BY <2>2 DEF SecondPass, Return, Kill, Ends, kernel
  <2>3. CASE \E p \in First, r \in Tops, b \in BOOLEAN, m \in SUBSET Raid45, x \in SUBSET (Groups \cap Handled) :
               Call(p, r, b, m, x)
    BY <2>3 DEF Call, kernel
  <2> QED BY <2>1, <2>2, <2>3 DEF Next, Step
<1>2. BottomUp <=> [][Ordered]_vars
  BY PTL DEF BottomUp
<1> QED BY <1>1, <1>2, Invariance, PTL DEF Spec

\* A result of 1 of a walk that (de)activates tells the truth about the set
\* it was for, and through its subsets about the whole stack.
THEOREM TrueResults == Spec => []ResultsTrue
<1>1. Shape /\ Levels => ResultsTrue
  BY DEF Shape, Levels, Activated, Removed, ResultsTrue
<1> QED BY <1>1, Invariance, PTL

\* Without -I no deactivation leaves the event daemon with a device that is
\* gone, whichever call fails and whenever the tool is killed.
THEOREM MonitoringFollows == Spec => []MonitoredActive
<1>1. Monitoring => MonitoredActive
  BY DEF Monitoring
<1> QED BY <1>1, Invariance, PTL

-----------------------------------------------------------------------------
(* The stack of the recursion.                                             *)

\* The call for s has begun and not returned.
Mid(s) == res[s] \notin Results \cup {"none"}

\* A set calls those below it only from its loop, and none before.
Nested ==
  \A s \in Sets :
    /\ res[s] # "open" => \A c \in Subs(s) : ~Mid(c)
    /\ res[s] \in {"none", "removed", "kept"} => \A c \in Subs(s) : res[c] = "none"

\* The loop calls them one after the other.
InTurn == \A p \in Sets : \A c \in Subs(p) : res[c] # "none" => NextBelow(p, c)

\* After one that failed the loop is left, unless that is tolerated.
LeftAfterFailure ==
  \A p \in Sets : ~Tolerates(p) /\ (\E c \in Subs(p) : Mid(c)) => ~Failed(p)

\* Whatever is closed under "below" and has the root has all the calls.
Inside ==
  \A W \in SUBSET Sets :
    root \in W /\ (\A t \in W : Subs(t) \subseteq W) => \A t \in Sets : res[t] # "none" => t \in W

\* The stack of the recursion, and what each call on it still has to do.
Recursion == Nested /\ InTurn /\ LeftAfterFailure /\ Inside

\* A set being reloaded is active, and its resume is still to come.
Reloading == {"suspended", "target", "map", "loaded", "unloaded"}

\* A device that is suspended is one of a set in the middle of its reload.
ToResume ==
  (past \cup faults) \cap {"resume", "kill"} = {} =>
    \A s \in suspended : pass = "reload" /\ res[s] \in Reloading

\* An error target without its set is about to be used, or removed.
ToDelete ==
  /\ pass = "reload" => \A s \in Sets : res[s] \in Reloading => s \in active
  /\ (past \cup faults) \cap {"table", "remove", "kill"} = {} =>
       \A s \in errTarget \ active : \/ pass = "activate" /\ res[s] \in {"map", "cleanup"}
                                     \/ pass = "remove" /\ res[s] = "removed"

\* What is suspended or made for a set is still in the hands of the call for it.
Debts == ToResume /\ ToDelete

\* Who takes a step has been called before, or is called now.
LEMMA Actor ==
  ASSUME Shape, NEW s \in Sets, StepOn(s)
  PROVE  Mid(s) \/ (Called(s) /\ res[s] = "none")
BY DEF Mid, StepOn, Shape, TypeOK, Stack, Enter, Abort, Leave, Suspend, PlainTable, ClearTarget,
           CreateTarget, TableFails, CreateSet, DropTarget, Load, Resume, RemoveSet, RemoveTarget,
           Register, Unregister, DeleteTarget, Below, Building, Called, Results

\* The caller of a set is in its loop.
LEMMA Caller ==
  ASSUME Shape, Recursion, NEW s \in Sets, StepOn(s), NEW p \in Sets, s \in Subs(p)
  PROVE  res[p] = "open" /\ p # s /\ (res[s] = "none" => NextBelow(p, s) /\ (Tolerates(p) \/ ~Failed(p)))
<1>1. p # s /\ s # root
  BY ForestAssumption DEF Shape, TypeOK
<1>2. CASE Mid(s)
  BY <1>1, <1>2 DEF Recursion, Nested, Mid
<1>3. CASE Called(s) /\ res[s] = "none"
  <2>1. PICK q \in Sets : res[q] = "open" /\ NextBelow(q, s) /\ (Tolerates(q) \/ ~Failed(q))
    BY <1>1, <1>3 DEF Called
  <2>2. q = p
    BY <2>1, NextIsSub, OnePar
  <2> QED BY <1>1, <2>1, <2>2
<1> QED BY <1>2, <1>3, Actor

\* Of two sets below one, one is not being walked.
LEMMA OneByOne ==
  ASSUME InTurn, NEW p \in Sets, NEW c \in Subs(p), NEW d \in Subs(p), c # d, Mid(c)
  PROVE  (~Mid(d) /\ ~NextBelow(p, d)) \/ res[d] \in Results
<1>1. PICK i \in DOMAIN Sub[p] : Sub[p][i] = c /\ \A j \in 1 .. i - 1 : res[Sub[p][j]] \in Results
  BY DEF InTurn, Mid, NextBelow
<1>2. ASSUME NextBelow(p, d) PROVE res[d] \in Results
  <2>1. PICK k \in DOMAIN Sub[p] : Sub[p][k] = d /\ \A j \in 1 .. k - 1 : res[Sub[p][j]] \in Results
    BY <1>2 DEF NextBelow
  <2>2. i \in Nat \ {0} /\ k \in Nat \ {0} /\ i # k
    BY <1>1, <2>1, ConstantsAssumption
  <2>3. CASE i < k
    BY <1>1, <2>1, <2>2, <2>3 DEF Mid
  <2>4. CASE k < i
    BY <1>1, <2>1, <2>2, <2>4
  <2> QED BY <2>2, <2>3, <2>4
<1>3. Mid(d) => NextBelow(p, d)
  BY DEF InTurn, Mid
<1> QED BY <1>2, <1>3 DEF Mid

\* A set leaves its loop when no call below it is going on.
LEMMA LoopLeft ==
  ASSUME Shape, Recursion, NEW s \in Sets, StepOn(s), res[s] = "open"
  PROVE  res'[s] # "open" => \A c \in Subs(s) : ~Mid(c)
<1> SUFFICES ASSUME res'[s] # "open" PROVE \A c \in Subs(s) : ~Mid(c)
  OBVIOUS
<1>1. Below(s) \/ (Failed(s) /\ ~Tolerates(s))
  BY DEF StepOn, Shape, TypeOK, Stack, Enter, Abort, Leave, Suspend, PlainTable, ClearTarget,
           CreateTarget, TableFails, CreateSet, DropTarget, Load, Resume, RemoveSet, RemoveTarget,
           Register, Unregister, DeleteTarget, Building, Called
<1> QED BY <1>1 DEF Below, Mid, Recursion, LeftAfterFailure

\* A step on a set happens inside the loop of the set above, outside all loops below.
LEMMA StepNested ==
  ASSUME Shape, Recursion, NEW s \in Sets, StepOn(s) PROVE Nested'
<1> SUFFICES ASSUME NEW p \in Sets
             PROVE  /\ res'[p] # "open" => \A c \in Subs(p) : ~Mid(c)'
                    /\ res'[p] \in {"none", "removed", "kept"} => \A c \in Subs(p) : res'[c] = "none"
  BY DEF Nested
<1>1. Subs(p) \subseteq Sets
  BY SubsAreSets
<1>2. CASE s \in Subs(p)
  BY <1>2, Caller, StepFrame
<1>3. CASE s \notin Subs(p) /\ p # s
  BY <1>1, <1>3, StepFrame DEF Recursion, Nested, Mid
<1>4. CASE p = s
  <2>1. \A c \in Subs(s) : res'[c] = res[c]
    BY <1>1, <1>4, StepFrame, ForestAssumption
  <2>2. res'[s] # "open" => \A c \in Subs(s) : ~Mid(c)
    BY LoopLeft DEF Recursion, Nested
  <2>3. res'[s] \in {"none", "removed", "kept"} => res[s] = "none"
    BY DEF StepOn, Shape, TypeOK, Stack, Enter, Abort, Leave, Suspend, PlainTable, ClearTarget,
           CreateTarget, TableFails, CreateSet, DropTarget, Load, Resume, RemoveSet, RemoveTarget,
           Register, Unregister, DeleteTarget, Building, Called, Below, Goes, Walks, Fails, NoTable
  <2> QED BY <1>4, <2>1, <2>2, <2>3 DEF Mid, Recursion, Nested
<1> QED BY <1>2, <1>3, <1>4

\* A step on a set is on the one whose turn it is.
LEMMA StepInTurn ==
  ASSUME Shape, Recursion, NEW s \in Sets, StepOn(s) PROVE InTurn'
<1> SUFFICES ASSUME NEW p \in Sets, NEW c \in Subs(p), res'[c] # "none" PROVE NextBelow(p, c)'
  BY DEF InTurn
<1>1. NextBelow(p, c)
  <2>1. CASE c # s
    BY <2>1, SubsAreSets, StepFrame DEF Recursion, InTurn
  <2>2. CASE c = s
    BY <2>2, Caller DEF Recursion, InTurn
  <2> QED BY <2>1, <2>2
<1>2. PICK i \in DOMAIN Sub[p] : Sub[p][i] = c /\ \A j \in 1 .. i - 1 : res[Sub[p][j]] \in Results
  BY <1>1 DEF NextBelow
<1>3. \A j \in 1 .. i - 1 : Sub[p][j] \in Sets
  BY ConstantsAssumption
<1>4. \A t \in Sets : res[t] \in Results => res'[t] \in Results
  BY StepFrame
<1> QED BY <1>2, <1>3, <1>4 DEF NextBelow

\* A call that returns 0 is the last of the loop of the set above.
LEMMA StepLeft ==
  ASSUME Shape, Recursion, NEW s \in Sets, StepOn(s) PROVE LeftAfterFailure'
<1> SUFFICES ASSUME NEW p \in Sets, ~Tolerates(p)', NEW c \in Subs(p), Mid(c)',
                    NEW d \in Subs(p), res'[d] = "fail"
             PROVE  FALSE
  BY DEF LeftAfterFailure, Failed
<1>1. ~Tolerates(p) /\ c \in Sets /\ d \in Sets /\ c # d
  BY StepFrame, SubsAreSets DEF Tolerates, Mid, Results
<1>2. CASE c = s
  <2>1. res[d] = "fail"
    BY <1>1, <1>2, StepFrame
  <2>2. Failed(p)
    BY <2>1 DEF Failed
  <2>3. ~Mid(s) /\ res[s] # "none"
    BY <1>1, <1>2, <2>2, Caller DEF Recursion, LeftAfterFailure
  <2> QED BY <2>3, Actor
<1>3. CASE c # s
  <2>1. Mid(c)
    BY <1>1, <1>3, StepFrame DEF Mid
  <2>2. ~Failed(p)
    BY <1>1, <2>1 DEF Recursion, LeftAfterFailure
  <2>3. d = s
    BY <1>1, <2>2, StepFrame DEF Failed
  <2>4. Mid(s) \/ NextBelow(p, s)
    BY <2>3, Actor, Caller
  <2>5. res[s] \in Results
    BY <1>3, <2>1, <2>3, <2>4, OneByOne DEF Recursion
  <2> QED BY <2>5, StepFrame
<1> QED BY <1>2, <1>3

\* A step calls a set only from the one above it, or the root.
LEMMA StepInside ==
  ASSUME Shape, Recursion, NEW s \in Sets, StepOn(s) PROVE Inside'
<1> SUFFICES ASSUME NEW W \in SUBSET Sets, root \in W, \A t \in W : Subs(t) \subseteq W
             PROVE  \A t \in Sets : res'[t] # "none" => t \in W
  BY StepFrame DEF Inside, request
<1>1. \A t \in Sets : res[t] # "none" => t \in W
  BY DEF Recursion, Inside
<1>2. s \in W
  BY <1>1, CalledInside
<1> QED BY <1>1, <1>2, StepFrame

\* When the call for the root has returned, all have.
LEMMA AllReturned ==
  ASSUME Shape, Recursion, res[root] \in Results PROVE \A s \in Sets : ~Mid(s)
<1> DEFINE W == {t \in Sets : ~Mid(t)}
<1>1. root \in W
  BY ConstantsAssumption DEF Mid, Shape, TypeOK
<1>2. \A t \in W : Subs(t) \subseteq W
  BY SubsAreSets DEF Recursion, Nested, Mid, Results
<1>3. \A t \in Sets : res[t] # "none" => t \in W
  <2> HIDE DEF W
  <2>1. W \in SUBSET Sets
    BY DEF W
  <2> QED BY <1>1, <1>2, <2>1 DEF Recursion, Inside
<1> QED BY <1>3 DEF Mid

-----------------------------------------------------------------------------
(* What is still to be done at the end of a walk.                          *)

\* What a step suspends, the same call resumes.
LEMMA StepToResume ==
  ASSUME Shape, ToResume, NEW s \in Sets, StepOn(s) PROVE ToResume'
<1> USE DEF Shape, TypeOK, Stack, Goes, Fault, NoFault, Keep, Fails, Walks, kernel, request, Reloading
<1> SUFFICES ASSUME (past' \cup faults') \cap {"resume", "kill"} = {}, NEW t \in suspended'
             PROVE  pass' = "reload" /\ res'[t] \in Reloading
  BY DEF ToResume
<1>1. (past \cup faults) \cap {"resume", "kill"} = {}
  BY StepFrame
<1>2. \A u \in suspended : pass = "reload" /\ res[u] \in Reloading
  BY <1>1 DEF ToResume
<1>3. CASE t # s
  <2>1. t \in suspended /\ t \in Sets
    BY <1>3 DEF StepOn, Enter, Abort, Leave, Suspend, PlainTable, ClearTarget,
           CreateTarget, TableFails, CreateSet, DropTarget, Load, Resume, RemoveSet, RemoveTarget,
           Register, Unregister, DeleteTarget
  <2> QED BY <1>2, <1>3, <2>1, StepFrame
<1>4. CASE t = s /\ s \in suspended
  <2>1. pass = "reload" /\ res[s] \in Reloading /\ pass' = "reload"
    BY <1>2, <1>4, StepFrame
  <2>2. ~Resume(s)
    BY <1>4 DEF Resume
  <2>3. res'[s] \in Reloading
    BY <2>1, <2>2 DEF StepOn, Enter, Abort, Leave, Suspend, PlainTable, ClearTarget, Below, Called,
           CreateTarget, TableFails, CreateSet, DropTarget, Load, RemoveSet, RemoveTarget,
           Register, Unregister, DeleteTarget, NoTable
  <2> QED BY <1>4, <2>1, <2>3
<1>5. CASE t = s /\ s \notin suspended
  <2>1. Suspend(s)
    BY <1>5 DEF StepOn, Enter, Abort, Leave, PlainTable, ClearTarget,
           CreateTarget, TableFails, CreateSet, DropTarget, Load, Resume, RemoveSet, RemoveTarget,
           Register, Unregister, DeleteTarget
  <2> QED BY <1>5, <2>1 DEF Suspend
<1> QED BY <1>3, <1>4, <1>5

\* An error target that a step makes, the same call uses or removes.
LEMMA StepToDelete ==
  ASSUME Shape, ToDelete, NEW s \in Sets, StepOn(s) PROVE ToDelete'
<1> USE DEF Shape, TypeOK, Stack, Goes, Fault, NoFault, Keep, Fails, Walks, kernel, request, Reloading
<1>1. pass' = pass /\ past' = past /\ faults \subseteq faults'
  BY StepFrame
<1>2. ASSUME pass = "reload", NEW t \in Sets, res'[t] \in Reloading PROVE t \in active'
  <2>1. active' = active
    BY <1>2 DEF StepOn, Enter, Abort, Leave, Suspend, PlainTable, ClearTarget,
           CreateTarget, TableFails, CreateSet, DropTarget, Load, Resume, RemoveSet, RemoveTarget,
           Register, Unregister, DeleteTarget
  <2>2. CASE t # s
    BY <1>2, <2>1, <2>2, StepFrame DEF ToDelete
  <2>3. CASE t = s /\ res[s] \in Reloading
    BY <1>2, <2>1, <2>3 DEF ToDelete
  <2>4. CASE t = s /\ res[s] \notin Reloading
    <3>1. Suspend(s)
      BY <1>2, <2>4 DEF StepOn, Enter, Abort, Leave, Suspend, PlainTable, ClearTarget, Building,
           CreateTarget, TableFails, CreateSet, DropTarget, Load, Resume, RemoveSet, RemoveTarget,
           Register, Unregister, DeleteTarget, NoTable
    <3> QED BY <1>2, <2>1, <2>4, <3>1 DEF Suspend
  <2> QED BY <2>2, <2>3, <2>4
<1>3. ASSUME (past \cup faults') \cap {"table", "remove", "kill"} = {}, NEW t \in errTarget' \ active'
      PROVE  \/ pass = "activate" /\ res'[t] \in {"map", "cleanup"}
             \/ pass = "remove" /\ res'[t] = "removed"
  <2>1. \A u \in errTarget \ active : \/ pass = "activate" /\ res[u] \in {"map", "cleanup"}
                                      \/ pass = "remove" /\ res[u] = "removed"
    BY <1>1, <1>3 DEF ToDelete
  <2>2. t \in Sets
    BY <1>3, StepShape, ConstantsAssumption
  <2>3. CASE t # s
    <3>1. errTarget' \subseteq errTarget \cup {s}
      <4>1. CASE ClearTarget(s) \/ DropTarget(s) \/ RemoveTarget(s)
        BY <4>1 DEF ClearTarget, DropTarget, RemoveTarget, DeleteTarget
      <4>2. CASE CreateTarget(s)
        BY <4>2 DEF CreateTarget
      <4>3. CASE errTarget' = errTarget
        BY <4>3
      <4>4. StepOn(s) => \/ ClearTarget(s) \/ DropTarget(s) \/ RemoveTarget(s) \/ CreateTarget(s)
                         \/ errTarget' = errTarget
        BY DEF StepOn, Enter, Abort, Leave, Suspend, PlainTable, TableFails, CreateSet, Load, Resume,
               RemoveSet, Register, Unregister
      <4> QED BY <4>1, <4>2, <4>3, <4>4
    <3>2. t \notin active
      BY <1>3, <2>2, <2>3, StepFrame
    <3> QED BY <1>3, <2>1, <2>2, <2>3, <3>1, <3>2, StepFrame
  <2>4. CASE t = s /\ s \in errTarget \ active
    <3>1. \/ pass = "activate" /\ res[s] \in {"map", "cleanup"}
          \/ pass = "remove" /\ res[s] = "removed"
      BY <2>1, <2>4
    <3> QED BY <1>3, <2>4, <3>1 DEF StepOn, Enter, Abort, Leave, Suspend, PlainTable, ClearTarget, Building,
           CreateTarget, TableFails, CreateSet, DropTarget, Load, Resume, RemoveSet, RemoveTarget,
           Register, Unregister, DeleteTarget, NoTable, Below, Called
  <2>5. CASE t = s /\ s \notin errTarget \ active
    <3>1. CASE CreateTarget(s)
      <4>1. pass = "activate"
        BY <1>1, <1>3, <2>5, <3>1 DEF CreateTarget, ToDelete, Passes, Idle
      <4> QED BY <1>3, <2>5, <3>1, <4>1 DEF CreateTarget
    <3>2. CASE RemoveSet(s)
      BY <1>3, <2>5, <3>2 DEF RemoveSet
    <3>3. CASE ~CreateTarget(s) /\ ~RemoveSet(s)
      BY <1>3, <2>5, <3>3 DEF StepOn, Enter, Abort, Leave, Suspend, PlainTable, ClearTarget,
           TableFails, CreateSet, DropTarget, Load, Resume, RemoveTarget,
           Register, Unregister, DeleteTarget
    <3> QED BY <3>1, <3>2, <3>3
  <2> QED BY <2>3, <2>4, <2>5
<1> QED BY <1>1, <1>2, <1>3 DEF ToDelete

\* The other steps begin and end the walks.
LEMMA OthersKeep ==
  ASSUME Shape, Recursion, Debts,
         \/ \E p \in First, r \in Tops, b \in BOOLEAN, m \in SUBSET Raid45,
               x \in SUBSET (Groups \cap Handled) : Call(p, r, b, m, x)
         \/ SecondPass \/ Return \/ Kill
  PROVE  (Recursion /\ Debts)'
<1>1. res' = Idle /\ UNCHANGED kernel
  BY DEF Call, SecondPass, Return, Kill, Ends, Shape, Stack
<1>2. \A s \in Sets : res'[s] = "none"
  BY <1>1 DEF Idle
<1>3. Recursion'
  BY <1>2, SubsAreSets DEF Recursion, Nested, InTurn, LeftAfterFailure, Inside, Mid
<1>4. pass = "none" => past' = past /\ faults = {}
  BY DEF Call, SecondPass, Return, Kill, Finished, Shape, Stack
<1>5. pass # "none" => "kill" \in past' \/ (res[root] \in Results /\ past \cup faults \subseteq past' \cup faults')
  BY DEF Call, SecondPass, Return, Kill, Finished, Results, request
<1>6. res[root] \in Results => \A s \in Sets : ~Mid(s)
  BY AllReturned
<1>7. suspended \subseteq Sets /\ errTarget \subseteq Sets
  BY ConstantsAssumption DEF Shape, TypeOK
<1>8. ToResume'
  <2> SUFFICES ASSUME (past' \cup faults') \cap {"resume", "kill"} = {}, NEW s \in suspended PROVE FALSE
    BY <1>1 DEF ToResume, kernel
  <2>1. (past \cup faults) \cap {"resume", "kill"} = {}
    BY <1>4, <1>5
  <2>2. pass = "reload" /\ res[s] \in Reloading
    BY <2>1 DEF Debts, ToResume
  <2>3. ~Mid(s)
    BY <1>5, <1>6, <1>7, <2>2
  <2> QED BY <2>2, <2>3 DEF Mid, Reloading, Results
<1>9. ToDelete'
  <2>1. \A s \in Sets : res'[s] \notin Reloading
    BY <1>2 DEF Reloading
  <2> SUFFICES ASSUME (past' \cup faults') \cap {"table", "remove", "kill"} = {},
                      NEW s \in errTarget \ active
               PROVE  FALSE
    BY <1>1, <2>1 DEF ToDelete, kernel
  <2>2. (past \cup faults) \cap {"table", "remove", "kill"} = {}
    BY <1>4, <1>5
  <2>3. pass # "none" /\ res[s] \in {"map", "cleanup", "removed"}
    BY <2>2 DEF Debts, ToDelete
  <2>4. ~Mid(s)
    BY <1>5, <1>6, <1>7, <2>3
  <2> QED BY <2>3, <2>4 DEF Mid, Results
<1> QED BY <1>3, <1>8, <1>9 DEF Debts

\* The stack and the debts of the calls on it are kept by every step.
LEMMA NextReturns ==
  ASSUME Shape, Recursion, Debts, [Next]_vars PROVE (Recursion /\ Debts)'
<1>1. CASE \E s \in Sets : StepOn(s)
  BY <1>1, StepNested, StepInTurn, StepLeft, StepInside, StepToResume, StepToDelete
     DEF Recursion, Debts
<1>2. CASE UNCHANGED vars
  BY <1>2 DEF vars, kernel, request, Recursion, Debts, Nested, InTurn, LeftAfterFailure, Inside, Mid,
              NextBelow, Failed, Tolerates, ToResume, ToDelete
<1>3. CASE \/ \E p \in First, r \in Tops, b \in BOOLEAN, m \in SUBSET Raid45,
                 x \in SUBSET (Groups \cap Handled) : Call(p, r, b, m, x)
           \/ SecondPass \/ Return \/ Kill
  BY <1>3, OthersKeep
<1> QED BY <1>1, <1>2, <1>3 DEF Next, Step

\* The calls nest, and each leaves nothing undone but what failed.
LEMMA Returns == Spec => [](Shape /\ Recursion /\ Debts)
<1>1. Init => Recursion /\ Debts
  <2> SUFFICES ASSUME Init PROVE Recursion /\ Debts
    OBVIOUS
  <2>1. \A s \in Sets : res[s] = "none"
    BY DEF Init, Idle
  <2> QED BY <2>1, SubsAreSets DEF Init, Recursion, Nested, InTurn, LeftAfterFailure, Inside, Mid,
                                   Debts, ToResume, ToDelete
<1>2. Shape /\ Recursion /\ Debts /\ [Next]_vars => (Recursion /\ Debts)'
  BY NextReturns
<1> QED BY <1>1, <1>2, Invariance, PTL DEF Spec

\* reload_subset() leaves no device suspended on any path of the recursion,
\* in any tree of sets: only a resume that fails or the death of the tool can.
THEOREM AllResumed == Spec => []ResumedAgain
<1>1. Shape /\ Debts => ResumedAgain
  <2> SUFFICES ASSUME Shape, Debts, pass = "none", past \cap {"resume", "kill"} = {}
               PROVE  suspended = {}
    BY DEF ResumedAgain
  <2>1. faults = {}
    BY DEF Shape, Stack
  <2> QED BY <2>1 DEF Debts, ToResume
<1> QED BY <1>1, Returns, PTL

\* An error target is removed with its set on every path but those of a failed
\* table, a failed removal and the death of the tool.
THEOREM TargetsRemoved == Spec => []NoStrayTarget
<1>1. Shape /\ Debts => NoStrayTarget
  <2> SUFFICES ASSUME Shape, Debts, pass = "none", past \cap {"table", "remove", "kill"} = {}
               PROVE  errTarget \subseteq active
    BY DEF NoStrayTarget
  <2>1. faults = {}
    BY DEF Shape, Stack
  <2> QED BY <2>1 DEF Debts, ToDelete
<1> QED BY <1>1, Returns, PTL
===============================================================================
