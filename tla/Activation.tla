----------------------------- MODULE Activation -----------------------------
(***************************************************************************)
(* Activating, deactivating and reloading a RAID set (change_set() in      *)
(* lib/activate/activate.c), with the device-mapper and the event daemon   *)
(* it drives.                                                              *)
(*                                                                         *)
(* A top-level set is a tree: a group holds volumes, a stacked set (RAID10 *)
(* and the like) holds the sets it is mapped onto.  change_set() walks the *)
(* tree once or twice; each walk is a "pass", and `res' holds, for every   *)
(* set, how far the call for it has come: the stack of the recursion.      *)
(* Every ioctl and every talk to the daemon is a step that may fail, and   *)
(* the tool may be killed between any two; `faults' and `past' record what *)
(* went wrong in this call and in the earlier ones.                        *)
(***************************************************************************)
EXTENDS Naturals, Sequences

CONSTANTS
  Sets,       \* the RAID sets of the system
  Tops,       \* those a call of change_set() is made for
  Groups,     \* the group sets, which have no device of their own
  Sub,        \* rs->sets: the sequence of the sets below each set
  Raid45,     \* the sets that need an error target when a member is missing
  Raid0,      \* the sets reload_subset() passes over
  Handled,    \* the sets whose format has a metadata_handler (isw)
  MaxCalls    \* bound on the number of calls of change_set()

Subs(s) == {Sub[s][i] : i \in DOMAIN Sub[s]}

ASSUME ConstantsAssumption ==
  /\ Tops \subseteq Sets /\ Groups \subseteq Sets
  /\ Raid45 \subseteq Handled \ Groups /\ Handled \subseteq Sets
  /\ Raid0 \subseteq Sets
  /\ Sub \in [Sets -> Seq(Sets)]
  /\ MaxCalls \in Nat

\* No set is below itself or below two sets: rs->sets is a forest.  A stacked
\* set is mapped onto devices, and a group has none.
ASSUME ForestAssumption ==
  /\ \A s \in Sets : s \notin Subs(s) /\ (s \in Tops => \A p \in Sets : s \notin Subs(p))
  /\ \A p, q \in Sets : p # q => Subs(p) \cap Subs(q) = {}
  /\ \A s \in Sets \ Groups : Subs(s) \cap Groups = {}

VARIABLES
  active,     \* the sets with a mapped device
  suspended,  \* the mapped devices whose I/O is held back
  errTarget,  \* the sets whose "error target" device exists
  monitored,  \* the devices registered with dmeventd
  calls,      \* number of calls of change_set() so far
  pass,       \* the walk being made, "none" between calls
  root,       \* the set change_set() was called for
  blind,      \* --ignoremonitoring
  missing,    \* the RAID4/5 sets found with a disk missing by this run
  refused,    \* the groups whose metadata handler denies ALLOW_ACTIVATE
  res,        \* per set: "none", a stage of its call, or its result
  faults,     \* what failed in this call
  past        \* what failed in the earlier ones

kernel  == <<active, suspended, errTarget, monitored>>
request == <<calls, root, blind, missing, refused, past>>
vars    == <<kernel, request, pass, res, faults>>

Passes  == {"activate", "register", "unregister", "remove", "reload"}
Results == {"ok", "fail"}
Stages  == {"none", "open", "suspended", "target", "map", "cleanup",
            "removed", "kept", "loaded", "unloaded"} \cup Results

\* What the properties tell apart: a type handler, a removal or a resume that
\* failed, a deactivation with -I, the death of the tool, any other failure.
Faults  == {"table", "remove", "resume", "blind", "kill", "other"}

Idle == [s \in Sets |-> "none"]

Init ==
  /\ active = {} /\ suspended = {} /\ errTarget = {} /\ monitored = {}
  /\ calls = 0 /\ pass = "none" /\ root \in Tops /\ blind = FALSE
  /\ missing = {} /\ refused = {} /\ res = Idle
  /\ faults = {} /\ past = {}

-----------------------------------------------------------------------------
(* The recursion.                                                          *)

\* Mutant: no T_GROUP() test in the loop.
TolerantEverywhere(s) == pass \in {"reload", "activate", "register"}

\* activate_set() goes on in a group and reload_set() everywhere when the
\* call for a subset has failed.
Tolerates(s) == pass = "reload" \/ (pass \in {"activate", "register"} /\ s \in Groups)

Failed(s) == \E c \in Subs(s) : res[c] = "fail"

\* s is the next set below p: the loop over rs->sets has come to it.
NextBelow(p, s) ==
  \E i \in DOMAIN Sub[p] : /\ Sub[p][i] = s
                           /\ \A j \in 1 .. i - 1 : res[Sub[p][j]] \in Results

Called(s) ==
  /\ pass # "none" /\ res[s] = "none"
  /\ \/ s = root
     \/ \E p \in Sets : /\ res[p] = "open" /\ NextBelow(p, s)
                        /\ Tolerates(p) \/ ~Failed(p)

\* The loop over the subsets of s has ended and has not left the function.
Below(s) == /\ res[s] = "open"
            /\ \A c \in Subs(s) : res[c] \in Results
            /\ Tolerates(s) \/ ~Failed(s)

Goes(s, stage) == res' = [res EXCEPT ![s] = stage]

\* A call that went wrong is remembered; one that went well is not.
Fault(f) == faults' = faults \cup {f}
NoFault  == faults' = faults

Keep(v) == UNCHANGED <<request, pass>> /\ UNCHANGED v

\* A call of the device-mapper or of the daemon that changes nothing.
Fails(s, f, stage) == Goes(s, stage) /\ Fault(f) /\ Keep(kernel)

\* A step of the walk that makes no such call.
Walks(s, stage) == Goes(s, stage) /\ NoFault /\ Keep(kernel)

\* A set is reached whose call goes straight on to its subsets, or
\* straight back.
Enter(s) ==
  /\ Called(s)
  /\ \/ /\ pass = "activate"
        /\ Walks(s, IF s \in active THEN "ok"
                    ELSE IF s \in refused THEN "fail" ELSE "open")
     \/ pass \in {"register", "reload"} /\ Walks(s, "open")
     \/ /\ pass = "unregister" /\ (s \in Groups \/ blind \/ s \notin Handled)
        /\ Walks(s, "open")
     \/ pass = "remove" /\ s \in Groups /\ Walks(s, "open")

\* Mutant: a failed unregistration below is not returned.
AbortForgotten(s) ==
  /\ res[s] = "open" /\ Failed(s) /\ ~Tolerates(s) /\ pass # "unregister"
  /\ Walks(s, "fail")

\* `return 0' from the loop.
Abort(s) ==
  /\ res[s] = "open" /\ Failed(s) /\ ~Tolerates(s)
  /\ Walks(s, "fail")

\* The subsets are done and nothing is left to do for s itself.
Leave(s) ==
  /\ Below(s)
  /\ \/ pass \in {"unregister", "remove"}
     \/ s \in Groups
     \/ pass = "reload" /\ s \in Raid0
     \/ pass = "register" /\ (blind \/ s \notin Handled)
  /\ Walks(s, "ok")

-----------------------------------------------------------------------------
(* The mapping of one set: activate_subset() and reload_subset().          *)

\* Mutant: no T_GROUP() test in activate_subset().
GroupMapped(s) == ~(pass = "reload" /\ s \in Raid0)

Mapped(s) == s \notin Groups /\ ~(pass = "reload" /\ s \in Raid0)

Suspend(s) ==
  /\ pass = "reload" /\ Below(s) /\ Mapped(s)
  /\ \/ /\ s \in active /\ suspended' = suspended \cup {s}
        /\ Goes(s, "suspended") /\ NoFault /\ Keep(<<active, errTarget, monitored>>)
     \/ s \in active /\ Fails(s, "other", "fail")
     \/ s \notin active /\ Walks(s, "fail")

\* The type handler is about to build the table.
Building(s) == \/ pass = "activate" /\ Below(s) /\ Mapped(s)
               \/ res[s] = "suspended"

PlainTable(s) == Building(s) /\ s \notin missing /\ Walks(s, "map")

\* delete_error_target(), whose result nobody looks at; the kernel refuses
\* while a live table of the set maps the target.
DeleteTarget(s, stage) ==
  \/ /\ errTarget' = errTarget \ {s}
     /\ Goes(s, stage) /\ NoFault /\ Keep(<<active, suspended, monitored>>)
  \/ s \in errTarget /\ s \in active /\ Walks(s, stage)
  \/ s \in errTarget /\ Fails(s, "remove", stage)

ClearTarget(s) == Building(s) /\ s \in missing /\ DeleteTarget(s, "target")

\* Mutant: reload_subset() returns without the resume.
NoResume == "fail"

\* A type handler that fails ends an activation, and leads a reload to the
\* resume of the old table.
NoTable == IF pass = "activate" THEN "fail" ELSE "unloaded"

\* create_error_target(); a device of that name may exist still.
CreateTarget(s) ==
  /\ res[s] = "target"
  /\ \/ /\ s \notin errTarget /\ errTarget' = errTarget \cup {s}
        /\ Goes(s, "map") /\ NoFault /\ Keep(<<active, suspended, monitored>>)
     \/ Fails(s, "other", NoTable)

\* The rest of the type handler: no index for a disk, no memory, no sectors.
TableFails(s) == res[s] = "map" /\ Fails(s, "table", NoTable)

\* Mutant: the result of dm_create() is not returned.
CreateResultDropped(s) ==
  /\ pass = "activate" /\ res[s] = "map"
  /\ \/ /\ active' = active \cup {s}
        /\ Goes(s, "ok") /\ NoFault /\ Keep(<<suspended, errTarget, monitored>>)
     \/ Fails(s, "other", "ok")

\* Mutant: no delete_error_target() after a failed dm_create().
CreateWithoutCleanup(s) ==
  /\ pass = "activate" /\ res[s] = "map"
  /\ \/ /\ active' = active \cup {s}
        /\ Goes(s, "ok") /\ NoFault /\ Keep(<<suspended, errTarget, monitored>>)
     \/ Fails(s, "other", "fail")

CreateSet(s) ==
  /\ pass = "activate" /\ res[s] = "map"
  /\ \/ /\ active' = active \cup {s}
        /\ Goes(s, "ok") /\ NoFault /\ Keep(<<suspended, errTarget, monitored>>)
     \/ Fails(s, "other", "cleanup")

DropTarget(s) == res[s] = "cleanup" /\ DeleteTarget(s, "fail")

Load(s) ==
  /\ pass = "reload" /\ res[s] = "map"
  /\ Walks(s, "loaded") \/ Fails(s, "other", "unloaded")

\* After a load the result of the resume is dropped; without one it becomes
\* the result of the reload.
Resume(s) ==
  /\ res[s] \in {"loaded", "unloaded"}
  /\ \/ /\ suspended' = suspended \ {s}
        /\ Goes(s, "ok") /\ NoFault /\ Keep(<<active, errTarget, monitored>>)
     \/ Fails(s, "resume", IF res[s] = "loaded" THEN "ok" ELSE "fail")

\* deactivate_superset(): the device, then the error target if any.
RemoveSet(s) ==
  /\ pass = "remove" /\ Called(s) /\ s \notin Groups
  /\ \/ /\ active' = active \ {s} /\ suspended' = suspended \ {s}
        /\ Goes(s, "removed") /\ NoFault /\ Keep(<<errTarget, monitored>>)
     \/ s \in active /\ Fails(s, "remove", "kept")

\* Mutant: the result of dm_remove() is not returned.
RemoveResultDropped(s) == res[s] \in {"removed", "kept"} /\ DeleteTarget(s, "open")

RemoveTarget(s) ==
  \/ res[s] = "removed" /\ DeleteTarget(s, "open")
  \/ res[s] = "kept" /\ DeleteTarget(s, "fail")

-----------------------------------------------------------------------------
(* Monitoring: dm_register_device() and dm_unregister_device().            *)

\* Refused for a device that is missing or monitored already.  A device whose
\* status cannot be read is reported as registered and is not.
Register(s) ==
  /\ pass = "register" /\ Below(s) /\ s \in Handled \ Groups /\ ~blind
  /\ \/ /\ s \in active \ monitored /\ monitored' = monitored \cup {s}
        /\ Goes(s, "ok") /\ NoFault /\ Keep(<<active, suspended, errTarget>>)
     \/ s \in active \ monitored /\ Fails(s, "other", "fail")
     \/ s \in active \ monitored /\ Fails(s, "other", "ok")
     \/ s \notin active \ monitored /\ Walks(s, "fail")

\* Mutant: the result of the unregistration is not returned.
UnregisterResultDropped(s) ==
  /\ pass = "unregister" /\ Called(s) /\ s \in Handled \ Groups /\ ~blind
  /\ \/ /\ s \in active \cap monitored /\ monitored' = monitored \ {s}
        /\ Goes(s, "open") /\ NoFault /\ Keep(<<active, suspended, errTarget>>)
     \/ Fails(s, "other", "open")

\* Refused for a device that is missing or not monitored.
Unregister(s) ==
  /\ pass = "unregister" /\ Called(s) /\ s \in Handled \ Groups /\ ~blind
  /\ \/ /\ s \in active \cap monitored /\ monitored' = monitored \ {s}
        /\ Goes(s, "open") /\ NoFault /\ Keep(<<active, suspended, errTarget>>)
     \/ s \in active \cap monitored /\ Fails(s, "other", "fail")
     \/ s \notin active \cap monitored /\ Walks(s, "fail")

-----------------------------------------------------------------------------
(* change_set() itself.                                                    *)

First == {"activate", "unregister", "reload"}

\* A run of the tool discovers the disks anew and calls change_set(); what the
\* walks of that call do not read is left at its initial value.
Call(p, r, b, m, x) ==
  /\ pass = "none" /\ calls < MaxCalls
  /\ p = "unregister" => m = {}
  /\ p # "activate" => x = {}
  /\ p = "reload" => ~b
  /\ calls' = calls + 1 /\ pass' = p /\ root' = r /\ blind' = b
  /\ missing' = m /\ refused' = x
  /\ faults' = IF p = "unregister" /\ b THEN {"blind"} ELSE {}
  /\ UNCHANGED <<kernel, res, past>>

\* The second walk is made if the first one succeeded.
SecondPass ==
  /\ pass \in {"activate", "unregister"} /\ res[root] = "ok"
  /\ pass' = IF pass = "activate" THEN "register" ELSE "remove"
  /\ res' = Idle
  /\ UNCHANGED <<kernel, request, faults>>

Ends == /\ pass' = "none" /\ res' = Idle /\ faults' = {}
        /\ blind' = FALSE /\ missing' = {} /\ refused' = {}
        /\ UNCHANGED <<kernel, calls, root>>

\* change_set() has its result.
Finished == pass # "none" /\ \/ res[root] = "fail"
                             \/ res[root] = "ok" /\ pass \notin {"activate", "unregister"}

Return == Finished /\ Ends /\ past' = past \cup faults

\* The process is killed; what it asked of the kernel stays.
Kill == pass # "none" /\ Ends /\ past' = past \cup faults \cup {"kill"}

StepOn(s) ==
  \/ Enter(s) \/ Abort(s) \/ Leave(s)
  \/ Suspend(s) \/ PlainTable(s) \/ ClearTarget(s) \/ CreateTarget(s)
  \/ TableFails(s) \/ CreateSet(s) \/ DropTarget(s) \/ Load(s) \/ Resume(s)
  \/ RemoveSet(s) \/ RemoveTarget(s) \/ Register(s) \/ Unregister(s)

Step == SecondPass \/ Return \/ \E s \in Sets : StepOn(s)

Next ==
  \/ \E p \in First, r \in Tops, b \in BOOLEAN, m \in SUBSET Raid45, x \in SUBSET (Groups \cap Handled) :
       Call(p, r, b, m, x)
  \/ Step \/ Kill

\* A running tool is given the processor: each of its steps is made in time.
Spec == Init /\ [][Next]_vars /\ WF_vars(Step)

-----------------------------------------------------------------------------
TypeOK ==
  /\ active \subseteq Sets \ Groups /\ suspended \subseteq active
  /\ errTarget \subseteq Raid45 /\ monitored \subseteq Handled \ Groups
  /\ calls \in 0 .. MaxCalls /\ pass \in Passes \cup {"none"} /\ root \in Tops
  /\ blind \in BOOLEAN /\ missing \subseteq Raid45 /\ refused \subseteq Groups
  /\ res \in [Sets -> Stages] /\ faults \subseteq Faults /\ past \subseteq Faults

\* A mapping stands on mappings: a stacked set is active only while every set
\* it is mapped onto is (activate.c:1034, 1085), whatever fails or is killed.
Stacked == \A s \in active : Subs(s) \subseteq active

\* The same of the steps: levels come up from below and go down from above.
BottomUp ==
  [][ /\ \A s \in active' \ active : Subs(s) \subseteq active
      /\ \A s \in active \ active' : \A p \in active : s \notin Subs(p) ]_vars

\* dmeventd is left with a device that is gone only by a deactivation that
\* was told to ignore monitoring (activate.c:1109).
MonitoredActive == "blind" \in past \cup faults \/ monitored \subseteq active

\* A result says what it seems to: a set whose activation returned 1 is
\* active; a set whose removal returned 1 is inactive, and so are all below.
ResultsTrue ==
  \A s \in Sets : res[s] = "ok" =>
    /\ pass = "activate" => s \in active \cup Groups
    /\ pass = "remove" => s \notin active /\ \A c \in Subs(s) : res[c] = "ok"

\* reload_subset() resumes what it suspends on every path: a set is left
\* suspended only when the resume itself fails or the tool dies.
ResumedAgain ==
  pass = "none" /\ past \cap {"resume", "kill"} = {} => suspended = {}

\* An error target outlives its set only when a type handler failed behind
\* it, when its removal failed, or when the tool was killed.
NoStrayTarget ==
  pass = "none" /\ past \cap {"table", "remove", "kill"} = {} => errTarget \subseteq active

\* A call of change_set() comes to its end on every path of the recursion.
CallsReturn == pass # "none" ~> pass = "none"
=============================================================================
