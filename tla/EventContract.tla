---------------------------- MODULE EventContract ----------------------------
(***************************************************************************)
(* What the report of a run may say of the events its probes saw, without  *)
(* rings, channels, goroutines or Close: an event that was seen is lost    *)
(* and counted, or kept in its turn, and the verdict, after which nothing  *)
(* moves, is clean only if no event was lost and none kept is bad.  Only   *)
(* a run that was cut short may be judged with events still on their way.  *)
(***************************************************************************)
EXTENDS Integers, Sequences

CONSTANTS Kinds, Bad

VARIABLES
  seen,     \* how many events of each kind happened
  way,      \* numbers of those neither kept nor lost yet
  kept,     \* what the report lists of each kind
  lost,     \* how many of each kind it will never list
  cut,      \* the run was interrupted
  verdict   \* none, clean or findings

vars == <<seen, way, kept, lost, cut, verdict>>

Init ==
  /\ seen = [k \in Kinds |-> 0] /\ way = [k \in Kinds |-> {}]
  /\ kept = [k \in Kinds |-> <<>>] /\ lost = [k \in Kinds |-> 0]
  /\ cut = FALSE /\ verdict = "none"

See(k) ==
  /\ seen' = [seen EXCEPT ![k] = @ + 1]
  /\ \/ way' = [way EXCEPT ![k] = @ \cup {seen[k] + 1}] /\ UNCHANGED lost
     \/ lost' = [lost EXCEPT ![k] = @ + 1] /\ UNCHANGED way
  /\ UNCHANGED <<kept, cut, verdict>>

Lose(k) ==
  /\ \E n \in way[k] : way' = [way EXCEPT ![k] = @ \ {n}]
  /\ lost' = [lost EXCEPT ![k] = @ + 1]
  /\ UNCHANGED <<seen, kept, cut, verdict>>

(* In the order they happened. *)
Keep(k) ==
  /\ \E n \in way[k] :
       /\ \A o \in way[k] : n <= o
       /\ way' = [way EXCEPT ![k] = @ \ {n}]
       /\ kept' = [kept EXCEPT ![k] = Append(@, n)]
  /\ UNCHANGED <<seen, lost, cut, verdict>>

Cut == cut' = TRUE /\ UNCHANGED <<seen, way, kept, lost, verdict>>

Whole ==
  \A k \in Kinds : lost[k] = 0 /\ \A i \in 1..Len(kept[k]) : << k, kept[k][i] >> \notin Bad

Conclude ==
  /\ cut \/ \A k \in Kinds : way[k] = {}
  /\ verdict' \in {"clean", "findings"}
  /\ verdict' = "clean" => Whole
  /\ UNCHANGED <<seen, way, kept, lost, cut>>

Next ==
  /\ verdict = "none"
  /\ Cut \/ Conclude \/ \E k \in Kinds : See(k) \/ Lose(k) \/ Keep(k)

Spec == Init /\ [][Next]_vars
=============================================================================
