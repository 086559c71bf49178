--------------------------- MODULE CgroupKillProofs ---------------------------
(***************************************************************************)
(* KillIsComplete for any number of processes and passes.                  *)
(***************************************************************************)
EXTENDS CgroupKill, TLAPS

(* After a list read in the frozen cgroup nothing can fork until Kill thaws,
   and what is still alive is on the list. *)
FrozenListCovers == final /\ pc \in {"kill", "list"} => freeze = "on" /\ alive \subseteq listed
EmptyAtList == final /\ pc = "list" => alive = {}
StartIsFresh == pc = "start" => ~ final
PassesLeft == pc # "done" => pass < Passes

KillInv == TypeOK /\ FrozenListCovers /\ EmptyAtList /\ StartIsFresh /\ PassesLeft /\ KillIsComplete

(* KillInv is inductive, from each step of Kill and of the build. *)
LEMMA KillStepKeepsInv == KillInv /\ [Next]_vars => KillInv'
<1> SUFFICES ASSUME KillInv, [Next]_vars PROVE KillInv'
  OBVIOUS
<1> USE KillAssumption
<1> USE DEF KillInv, TypeOK, FrozenListCovers, EmptyAtList, StartIsFresh, PassesLeft, KillIsComplete
<1>1. CASE KillAtOnce
  BY <1>1 DEF KillAtOnce
<1>2. CASE Freeze
  BY <1>2 DEF Freeze
<1>3. CASE List
  BY <1>3 DEF List
<1>4. ASSUME NEW p \in Pids, Sigkill(p) PROVE KillInv'
  BY <1>4 DEF Sigkill
<1>5. CASE NextPass
  BY <1>5 DEF NextPass
<1>6. CASE Fork
  BY <1>6 DEF Fork
<1>7. ASSUME NEW p \in Pids, Die(p) PROVE KillInv'
  BY <1>7 DEF Die
<1>8. CASE FreezeTakes
  BY <1>8 DEF FreezeTakes
<1>9. CASE UNCHANGED vars
  BY <1>9 DEF vars
<1>q. QED
  BY <1>1, <1>2, <1>3, <1>4, <1>5, <1>6, <1>7, <1>8, <1>9 DEF Next, KillStep, Finished

(* buildCgroup.Kill: once a kill is one no fork can escape, nothing of the
   build is alive when it returns, for any build and any number of passes. *)
THEOREM KillIsCompleteHolds == Spec => []KillIsComplete
<1>1. Init => KillInv
  <2> SUFFICES ASSUME Init PROVE KillInv
    OBVIOUS
  <2>1. TypeOK
    <3>1. alive \subseteq Pids /\ listed \subseteq Pids
      BY DEF Init
    <3>2. pass \in 0..Passes
      BY KillAssumption DEF Init
    <3>3. final \in BOOLEAN
      BY DEF Init
    <3>q. QED
      BY <3>1, <3>2, <3>3 DEF Init, TypeOK
  <2>2. PassesLeft
    BY KillAssumption DEF Init, PassesLeft
  <2>q. QED
    BY <2>1, <2>2 DEF Init, KillInv, FrozenListCovers, EmptyAtList, StartIsFresh, KillIsComplete
<1>2. KillInv => KillIsComplete
  BY DEF KillInv
<1>q. QED
  BY <1>1, <1>2, KillStepKeepsInv, PTL DEF Spec
=============================================================================
