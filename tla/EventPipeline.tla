---------------------------- MODULE EventPipeline ----------------------------
(***************************************************************************)
(* The way of an event from an eBPF probe to the report: per kind a kernel *)
(* ring buffer with a drop counter, a reader goroutine, a bounded channel  *)
(* and a drain goroutine of the monitor; the context watcher that closes   *)
(* the readers; and executeRun, which ends the run (Close, Wait, Dropped,  *)
(* Finish).  The events of a kind are numbered in the order the probe saw  *)
(* them.                                                                   *)
(***************************************************************************)
EXTENDS Integers, Sequences, FiniteSets

CONSTANTS
  Kinds,          \* network, process and file events
  ProcKind,       \* the kind whose absence a scoped run reports
  Bad,            \* << kind, n >>: the n-th event of the kind breaks the policy
  RingCap,        \* records a ring holds
  ChanCap,        \* capacity of a Go channel (1024)
  StoreCap,       \* maxEventsPerKind
  ViolationCap,   \* maxViolations
  MaxEvents,      \* bound on the events, per kind
  Scoped          \* the probes record the build cgroup only

ASSUME PipelineAssumption ==
  /\ ProcKind \in Kinds /\ Bad \subseteq Kinds \X (Nat \ {0})
  /\ RingCap \in Nat \ {0} /\ ChanCap \in Nat \ {0}
  /\ StoreCap \in Nat \ {0} /\ ViolationCap \in Nat \ {0}
  /\ MaxEvents \in [Kinds -> Nat] /\ Scoped \in BOOLEAN

VARIABLES
  emitted,     \* how many events the probe of each kind saw
  attached,    \* kinds whose probes are attached
  ring,        \* records in each kernel ring
  dropped,     \* the kernel's drop counter of each kind
  readerMode,  \* ringbuf.Reader of each kind: open, flushed or closed
  reader,      \* reader goroutine: reading, sending its record, or gone
  record,      \* the record it decoded; 0 is none
  undecoded,   \* userLost: records that did not decode
  chan,        \* the channel; the goroutine closes it when it goes
  drain,       \* the monitor's goroutine: receiving, storing, or done
  item,        \* the event it received; 0 is none
  stored,      \* Session.Connections / Processes / FileWrites
  overflow,    \* events over StoreCap
  violations,  \* stored policy violations
  violationOverflow,
  cancelled,   \* the run's context is done (SIGINT, SIGTERM)
  watcher,     \* the context watcher
  done,        \* the channel Close closes
  main,        \* executeRun and, inside it, Close
  final        \* finalDropped and finalErr

kernelVars  == <<emitted, attached, ring, dropped>>
readerVars  == <<readerMode, reader, record, undecoded, chan>>
monitorVars == <<drain, item, stored, overflow, violations, violationOverflow>>
ctlVars     == <<cancelled, watcher, done, main, final>>
vars == <<kernelVars, readerVars, monitorVars, ctlVars>>

Init ==
  /\ emitted = [k \in Kinds |-> 0]
  /\ attached = Kinds
  /\ ring = [k \in Kinds |-> <<>>]
  /\ dropped = [k \in Kinds |-> 0]
  /\ readerMode = [k \in Kinds |-> "open"]
  /\ reader = [k \in Kinds |-> "read"]
  /\ record = [k \in Kinds |-> 0]
  /\ undecoded = [k \in Kinds |-> 0]
  /\ chan = [k \in Kinds |-> <<>>]
  /\ drain = [k \in Kinds |-> "receive"]
  /\ item = [k \in Kinds |-> 0]
  /\ stored = [k \in Kinds |-> <<>>]
  /\ overflow = [k \in Kinds |-> 0]
  /\ violations = 0 /\ violationOverflow = 0
  /\ cancelled = FALSE
  /\ watcher = "waiting"
  /\ done = FALSE
  /\ main = "build"
  /\ final = [dropped |-> [k \in Kinds |-> 0], err |-> FALSE]

-----------------------------------------------------------------------------
(* Mutant: a full ring loses the event without counting it. *)
EmitUncounted(k) ==
  /\ k \in attached /\ emitted[k] < MaxEvents[k]
  /\ emitted' = [emitted EXCEPT ![k] = @ + 1]
  /\ ring' = [ring EXCEPT ![k] = IF Len(@) < RingCap THEN Append(@, emitted[k] + 1) ELSE @]
  /\ UNCHANGED <<attached, dropped, readerVars, monitorVars, ctlVars>>

(* A probe fires: it reserves a record in its ring, or counts the drop. *)
Emit(k) ==
  /\ k \in attached /\ emitted[k] < MaxEvents[k]
  /\ emitted' = [emitted EXCEPT ![k] = @ + 1]
  /\ IF Len(ring[k]) < RingCap
     THEN ring' = [ring EXCEPT ![k] = Append(@, emitted[k] + 1)] /\ UNCHANGED dropped
     ELSE dropped' = [dropped EXCEPT ![k] = @ + 1] /\ UNCHANGED ring
  /\ UNCHANGED <<attached, readerVars, monitorVars, ctlVars>>

-----------------------------------------------------------------------------
(* readConns / readProcs / readFiles: Read returns the oldest record; one
   that does not decode is counted. *)
Read(k) ==
  /\ reader[k] = "read" /\ readerMode[k] # "closed" /\ ring[k] # <<>>
  /\ ring' = [ring EXCEPT ![k] = Tail(@)]
  /\ \/ /\ record' = [record EXCEPT ![k] = Head(ring[k])]
        /\ reader' = [reader EXCEPT ![k] = "send"]
        /\ UNCHANGED undecoded
     \/ /\ undecoded' = [undecoded EXCEPT ![k] = @ + 1]
        /\ UNCHANGED <<record, reader>>
  /\ UNCHANGED <<emitted, attached, dropped, readerMode, chan, monitorVars, ctlVars>>

(* The send blocks while the channel is full. *)
Send(k) ==
  /\ reader[k] = "send" /\ Len(chan[k]) < ChanCap
  /\ chan' = [chan EXCEPT ![k] = Append(@, record[k])]
  /\ record' = [record EXCEPT ![k] = 0]
  /\ reader' = [reader EXCEPT ![k] = "read"]
  /\ UNCHANGED <<kernelVars, readerMode, undecoded, monitorVars, ctlVars>>

(* Mutant: a flushed reader stops at once. *)
DoneAtFlush(k) == readerMode[k] # "open"

(* ringDone: ErrClosed, or ErrFlushed once a flushed ring is empty. *)
RingDone(k) == readerMode[k] = "closed" \/ (readerMode[k] = "flushed" /\ ring[k] = <<>>)

(* The goroutine returns and closes its channel. *)
ReaderReturns(k) ==
  /\ reader[k] = "read" /\ RingDone(k)
  /\ reader' = [reader EXCEPT ![k] = "gone"]
  /\ UNCHANGED <<kernelVars, readerMode, record, undecoded, chan, monitorVars, ctlVars>>

-----------------------------------------------------------------------------
(* drainConns / drainProcs / drainFiles: range over the channel. *)
Receive(k) ==
  /\ drain[k] = "receive" /\ chan[k] # <<>>
  /\ item' = [item EXCEPT ![k] = Head(chan[k])]
  /\ chan' = [chan EXCEPT ![k] = Tail(@)]
  /\ drain' = [drain EXCEPT ![k] = "store"]
  /\ UNCHANGED <<kernelVars, readerMode, reader, record, undecoded, stored, overflow, violations,
                 violationOverflow, ctlVars>>

(* Mutant: an event over the cap is counted and not judged. *)
StoreUnjudged(k) ==
  LET bad == << k, item[k] >> \in Bad /\ Len(stored[k]) < StoreCap IN
  /\ drain[k] = "store"
  /\ IF Len(stored[k]) < StoreCap
     THEN stored' = [stored EXCEPT ![k] = Append(@, item[k])] /\ UNCHANGED overflow
     ELSE overflow' = [overflow EXCEPT ![k] = @ + 1] /\ UNCHANGED stored
  /\ violations' = IF bad /\ violations < ViolationCap THEN violations + 1 ELSE violations
  /\ violationOverflow' =
       IF bad /\ violations >= ViolationCap THEN violationOverflow + 1 ELSE violationOverflow
  /\ drain' = [drain EXCEPT ![k] = "receive"]
  /\ item' = [item EXCEPT ![k] = 0]
  /\ UNCHANGED <<kernelVars, readerVars, ctlVars>>

(* Under m.mu: store the event, or count it over the cap; evaluate the policy
   either way; store the violation, or count it. *)
Store(k) ==
  LET bad == << k, item[k] >> \in Bad IN
  /\ drain[k] = "store"
  /\ IF Len(stored[k]) < StoreCap
     THEN stored' = [stored EXCEPT ![k] = Append(@, item[k])] /\ UNCHANGED overflow
     ELSE overflow' = [overflow EXCEPT ![k] = @ + 1] /\ UNCHANGED stored
  /\ violations' = IF bad /\ violations < ViolationCap THEN violations + 1 ELSE violations
  /\ violationOverflow' =
       IF bad /\ violations >= ViolationCap THEN violationOverflow + 1 ELSE violationOverflow
  /\ drain' = [drain EXCEPT ![k] = "receive"]
  /\ item' = [item EXCEPT ![k] = 0]
  /\ UNCHANGED <<kernelVars, readerVars, ctlVars>>

(* The channel is closed and empty. *)
DrainReturns(k) ==
  /\ drain[k] = "receive" /\ chan[k] = <<>> /\ reader[k] = "gone"
  /\ drain' = [drain EXCEPT ![k] = "done"]
  /\ UNCHANGED <<kernelVars, readerVars, item, stored, overflow, violations, violationOverflow,
                 ctlVars>>

-----------------------------------------------------------------------------
(* A signal cancels the run's context. *)
Cancel ==
  /\ ~ cancelled /\ main # "reported"
  /\ cancelled' = TRUE
  /\ UNCHANGED <<kernelVars, readerVars, monitorVars, watcher, done, main, final>>

(* Mutant: the watcher selects on the context only. *)
WakesOnCancel == cancelled

WatcherWoken == cancelled \/ done

(* The watcher closes the readers in turn, which discards what their rings
   still hold; on a normal end they have been drained by then. *)
WatcherCloses(k) ==
  /\ watcher = "waiting" /\ WatcherWoken
  /\ readerMode[k] # "closed"
  /\ readerMode' = [readerMode EXCEPT ![k] = "closed"]
  /\ UNCHANGED <<kernelVars, reader, record, undecoded, chan, monitorVars, ctlVars>>

WatcherReturns ==
  /\ watcher = "waiting" /\ WatcherWoken
  /\ \A k \in Kinds : readerMode[k] = "closed"
  /\ watcher' = "gone"
  /\ UNCHANGED <<kernelVars, readerVars, monitorVars, cancelled, done, main, final>>

-----------------------------------------------------------------------------
(* executeRun: the build returned and was reaped (at the latest because the
   context killed it).  Close follows. *)
BuildReturns ==
  /\ main = "build"
  /\ main' = "detach"
  /\ UNCHANGED <<kernelVars, readerVars, monitorVars, cancelled, watcher, done, final>>

AllDetached == attached = {}

Detach(k) ==
  /\ main = "detach" /\ k \in attached
  /\ attached' = attached \ {k}
  /\ UNCHANGED <<emitted, ring, dropped, readerVars, monitorVars, ctlVars>>

Detached ==
  /\ main = "detach" /\ AllDetached
  /\ main' = "flush"
  /\ UNCHANGED <<kernelVars, readerVars, monitorVars, cancelled, watcher, done, final>>

(* Flush fails on a reader the watcher closed; the error is ignored. *)
Flush(k) ==
  /\ main = "flush" /\ readerMode[k] = "open"
  /\ readerMode' = [readerMode EXCEPT ![k] = "flushed"]
  /\ UNCHANGED <<kernelVars, reader, record, undecoded, chan, monitorVars, ctlVars>>

Flushed ==
  /\ main = "flush" /\ \A k \in Kinds : readerMode[k] # "open"
  /\ main' = "join"
  /\ UNCHANGED <<kernelVars, readerVars, monitorVars, cancelled, watcher, done, final>>

(* readersWG.Wait; close(c.done). *)
Joined ==
  /\ main = "join" /\ \A k \in Kinds : reader[k] = "gone"
  /\ done' = TRUE
  /\ main' = "watch"
  /\ UNCHANGED <<kernelVars, readerVars, monitorVars, cancelled, watcher, final>>

(* Mutant: what did not decode is forgotten. *)
LostInKernel == [dropped |-> dropped, err |-> FALSE]

(* Dropped: the kernel's counters plus what did not decode.  The code adds up
   all kinds; nobody asks more of the sum than whether it is zero, so the
   summands are kept. *)
Lost == [dropped |-> [k \in Kinds |-> dropped[k] + undecoded[k]], err |-> FALSE]

(* watchWG.Wait; the count is taken before the maps are unloaded.  A counter
   that cannot be read leaves the count too low, with an error. *)
Counted ==
  /\ main = "watch" /\ watcher = "gone"
  /\ main' = "wait"
  /\ final' \in {Lost, [dropped |-> undecoded, err |-> TRUE]}
  /\ UNCHANGED <<kernelVars, readerVars, monitorVars, cancelled, watcher, done>>

(* mon.Wait, Dropped, Finish, report.Write. *)
Report ==
  /\ main = "wait" /\ \A k \in Kinds : drain[k] = "done"
  /\ main' = "reported"
  /\ UNCHANGED <<kernelVars, readerVars, monitorVars, cancelled, watcher, done, final>>

Finished == main = "reported" /\ UNCHANGED vars

ReaderStep(k) == Read(k) \/ Send(k) \/ ReaderReturns(k)
DrainStep(k) == Receive(k) \/ Store(k) \/ DrainReturns(k)
WatcherStep == (\E k \in Kinds : WatcherCloses(k)) \/ WatcherReturns
CloseStep ==
  \/ \E k \in Kinds : Detach(k) \/ Flush(k)
  \/ Detached \/ Flushed \/ Joined \/ Counted \/ Report

Next ==
  \/ \E k \in Kinds : Emit(k) \/ ReaderStep(k) \/ DrainStep(k)
  \/ Cancel \/ WatcherStep \/ BuildReturns \/ CloseStep
  \/ Finished

Spec == Init /\ [][Next]_vars

(* Every goroutine that can run does.  The build need not end, but a cancelled
   context kills it (exec.CommandContext). *)
Fairness ==
  /\ \A k \in Kinds : WF_vars(ReaderStep(k)) /\ WF_vars(DrainStep(k))
  /\ WF_vars(WatcherStep) /\ WF_vars(CloseStep)
  /\ WF_vars(cancelled /\ BuildReturns)

FairSpec == Spec /\ Fairness

-----------------------------------------------------------------------------
(* Monitor.Finish: what the report of the run says. *)
EventsLost == \E k \in Kinds : final.dropped[k] + overflow[k] > 0
LossUnknown == final.err
ViolationsNotStored == violationOverflow > 0
ScopeRecordedNothing == Scoped /\ stored[ProcKind] = <<>>

CleanReport ==
  /\ main = "reported"
  /\ violations = 0
  /\ ~ (EventsLost \/ LossUnknown \/ ViolationsNotStored \/ ScopeRecordedNothing)

TypeOK ==
  /\ attached \subseteq Kinds
  /\ \A k \in Kinds :
       LET Number == 0..MaxEvents[k]
           Queue(cap) == {q \in Seq(1..MaxEvents[k]) : Len(q) <= cap}
       IN  /\ ring[k] \in Queue(RingCap) /\ chan[k] \in Queue(ChanCap) /\ stored[k] \in Queue(StoreCap)
           /\ {emitted[k], dropped[k], undecoded[k], overflow[k], record[k], item[k]} \subseteq Number
           /\ readerMode[k] \in {"open", "flushed", "closed"}
           /\ reader[k] \in {"read", "send", "gone"}
           /\ drain[k] \in {"receive", "store", "done"}
  /\ violations \in 0..ViolationCap /\ violationOverflow \in Nat
  /\ cancelled \in BOOLEAN /\ done \in BOOLEAN
  /\ watcher \in {"waiting", "gone"}
  /\ main \in {"build", "detach", "flush", "join", "watch", "wait", "reported"}
  /\ final \in [dropped : [Kinds -> Nat], err : BOOLEAN]

Complete == \A k \in Kinds : stored[k] = [n \in 1..emitted[k] |-> n]

(* A run that was not interrupted and whose report shows no violation recorded
   every event the probes saw, in order, and none of them breaks the policy:
   neither a full ring, a record that does not decode, the storage caps, nor
   the order in which Close takes the pipeline down can hide one. *)
CleanIsComplete ==
  CleanReport /\ ~ cancelled =>
    Complete /\ \A k \in Kinds : \A n \in 1..emitted[k] : << k, n >> \notin Bad

(* "Each loss is counted ..., so a blind spot is never silent" (scope.h). *)
BlindSpotNeverSilent == CleanReport => Complete

(* Each event is in one place: stored, over a cap, counted as lost, or still
   under way; only an interrupted run leaves any behind in a ring. *)
Accounted ==
  \A k \in Kinds :
    /\ emitted[k] = Len(ring[k]) + Len(chan[k]) + Len(stored[k])
                    + dropped[k] + undecoded[k] + overflow[k]
                    + (IF record[k] # 0 THEN 1 ELSE 0) + (IF item[k] # 0 THEN 1 ELSE 0)
    /\ main \in {"watch", "wait", "reported"} /\ ring[k] # <<>> => cancelled

(* The report of an uninterrupted run in which no event was lost on the way
   accounts for every event that breaks the policy, each once, also for those
   over maxEventsPerKind, whose events it does not hold: as a violation, or,
   when maxViolations are there, in the number of those not stored. *)
BreachesCounted ==
  main = "reported" /\ ~ cancelled /\ ~ LossUnknown /\ (\A k \in Kinds : final.dropped[k] = 0) =>
    /\ violations + violationOverflow = Cardinality({b \in Bad : b[2] <= emitted[b[1]]})
    /\ violationOverflow > 0 => violations = ViolationCap

(* Ending the run never hangs: not on a full channel, not on a context nobody
   cancels, not on a cancellation, before Close or in the middle of it. *)
Ends == cancelled \/ main # "build" ~> main = "reported"

(* The pipeline implements EventContract: whatever the goroutines, the caps and
   Close do, and in whatever order, is the contract's See, Lose, Keep, Cut or
   Conclude, or not seen at all; after Finish nothing of it moves. *)
Els(q) == {q[i] : i \in 1..Len(q)}

Hand(n) == {n} \ {0}

OnTheWay(k) == Hand(item[k]) \cup Els(chan[k]) \cup Hand(record[k]) \cup Els(ring[k])

Missed(k) == dropped[k] + undecoded[k] + overflow[k]

Verdict == IF main # "reported" THEN "none" ELSE IF CleanReport THEN "clean" ELSE "findings"

Contract == INSTANCE EventContract
  WITH seen <- emitted, way <- [k \in Kinds |-> OnTheWay(k)], kept <- stored,
       lost <- [k \in Kinds |-> Missed(k)], cut <- cancelled, verdict <- Verdict

ImplementsContract == Contract!Spec
=============================================================================
