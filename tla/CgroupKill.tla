------------------------------ MODULE CgroupKill ------------------------------
(***************************************************************************)
(* buildCgroup.Kill against a build that keeps forking.  With cgroup.kill  *)
(* the kernel does it in one step.  Without (before 5.14) Kill asks the    *)
(* freezer to stop the cgroup, which takes effect later if at all, and     *)
(* lists and kills in passes.                                              *)
(***************************************************************************)
EXTENDS Naturals

CONSTANTS
  Pids,    \* process ids
  Passes   \* 100 in the code

ASSUME KillAssumption == Passes \in Nat \ {0}

VARIABLES
  alive,   \* processes of the build cgroup
  freeze,  \* cgroup.freeze: off, asked, or on: every process is frozen
  listed,  \* pids this pass read from cgroup.procs and has not killed yet
  pass,    \* passes done
  pc,      \* start, list, kill, done
  final    \* history: killed at once, or the last list was read while frozen

vars == <<alive, freeze, listed, pass, pc, final>>

Init ==
  /\ alive \in SUBSET Pids
  /\ freeze = "off" /\ listed = {} /\ pass = 0 /\ pc = "start" /\ final = FALSE

(* A process forks, unless it is frozen; a pid of the list is not taken again
   within a pass. *)
Fork ==
  /\ alive # {} /\ freeze # "on"
  /\ \E p \in Pids \ (alive \union listed) : alive' = alive \union {p}
  /\ UNCHANGED <<freeze, listed, pass, pc, final>>

Die(p) ==
  /\ p \in alive /\ freeze # "on"
  /\ alive' = alive \ {p}
  /\ UNCHANGED <<freeze, listed, pass, pc, final>>

(* The write to cgroup.kill succeeds ... *)
KillAtOnce ==
  /\ pc = "start"
  /\ alive' = {} /\ pc' = "done" /\ final' = TRUE
  /\ UNCHANGED <<freeze, listed, pass>>

(* ... or fails; whether the write to cgroup.freeze does is ignored. *)
Freeze ==
  /\ pc = "start"
  /\ freeze' \in {"asked", "off"}
  /\ pc' = "list"
  /\ UNCHANGED <<alive, listed, pass, final>>

FreezeTakes ==
  /\ freeze = "asked"
  /\ freeze' = "on"
  /\ UNCHANGED <<alive, listed, pass, pc, final>>

(* Read cgroup.procs.  Nothing listed ends it, and so does a failed read: the
   directory goes only when it is empty.  The deferred write thaws the cgroup. *)
List ==
  /\ pc = "list"
  /\ listed' = alive
  /\ IF alive = {}
     THEN pc' = "done" /\ freeze' = "off" /\ UNCHANGED final
     ELSE pc' = "kill" /\ final' = (freeze = "on") /\ UNCHANGED freeze
  /\ UNCHANGED <<alive, pass>>

(* Mutant: a signal that a frozen process does not act on. *)
Sigterm(p) ==
  /\ pc = "kill" /\ p \in listed
  /\ alive' = (IF freeze = "on" THEN alive ELSE alive \ {p}) /\ listed' = listed \ {p}
  /\ UNCHANGED <<freeze, pass, pc, final>>

Sigkill(p) ==
  /\ pc = "kill" /\ p \in listed
  /\ alive' = alive \ {p} /\ listed' = listed \ {p}
  /\ UNCHANGED <<freeze, pass, pc, final>>

(* 5 ms later; the last pass thaws too. *)
NextPass ==
  /\ pc = "kill" /\ listed = {}
  /\ pass' = pass + 1
  /\ IF pass + 1 = Passes
     THEN pc' = "done" /\ freeze' = "off"
     ELSE pc' = "list" /\ UNCHANGED freeze
  /\ UNCHANGED <<alive, listed, final>>

Finished == pc = "done" /\ UNCHANGED vars

KillStep == KillAtOnce \/ Freeze \/ List \/ (\E p \in Pids : Sigkill(p)) \/ NextPass
Next == KillStep \/ Fork \/ (\E p \in Pids : Die(p)) \/ FreezeTakes \/ Finished
Spec == Init /\ [][Next]_vars

-----------------------------------------------------------------------------
TypeOK ==
  /\ alive \subseteq Pids /\ listed \subseteq Pids
  /\ freeze \in {"off", "asked", "on"} /\ pass \in 0..Passes
  /\ pc \in {"start", "list", "kill", "done"} /\ final \in BOOLEAN

(* Kill leaves no process of the build, whatever it forks in the meantime:
   always with cgroup.kill, and otherwise as soon as one list was read after
   the freezer took effect. *)
KillIsComplete == pc = "done" /\ final => alive = {}
=============================================================================
