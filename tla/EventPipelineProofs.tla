-------------------------- MODULE EventPipelineProofs --------------------------
(***************************************************************************)
(* No event disappears uncounted, every breach of the policy is counted,   *)
(* and a clean report is a complete one, for any number of kinds and       *)
(* events and any capacities of the rings, the channels and the store.     *)
(***************************************************************************)
EXTENDS EventPipeline, SequenceTheorems, FiniteSetTheorems, TLAPS

Numbers == Seq(Nat \ {0})

Counters ==
  /\ emitted \in [Kinds -> Nat] /\ dropped \in [Kinds -> Nat]
  /\ undecoded \in [Kinds -> Nat] /\ overflow \in [Kinds -> Nat]

Places ==
  /\ ring \in [Kinds -> Numbers] /\ chan \in [Kinds -> Numbers] /\ stored \in [Kinds -> Numbers]
  /\ record \in [Kinds -> Nat] /\ item \in [Kinds -> Nat]

Modes ==
  /\ attached \subseteq Kinds
  /\ readerMode \in [Kinds -> {"open", "flushed", "closed"}]
  /\ reader \in [Kinds -> {"read", "send", "gone"}]
  /\ drain \in [Kinds -> {"receive", "store", "done"}]

(* A goroutine holds an event exactly between taking it and passing it on. *)
Held ==
  \A k \in Kinds : /\ reader[k] = "send" <=> record[k] # 0
                   /\ drain[k] = "store" <=> item[k] # 0

Size(q) == Len(q)

One(n) == IF n # 0 THEN 1 ELSE 0

Balance ==
  \A k \in Kinds :
    emitted[k] = Size(ring[k]) + Size(chan[k]) + Size(stored[k])
                 + dropped[k] + undecoded[k] + overflow[k] + One(record[k]) + One(item[k])

FlowInv == Counters /\ Places /\ Modes /\ Held /\ Balance

(* Close detaches before it flushes, joins the readers before it wakes the
   watcher; without a signal a reader leaves only an empty ring behind, which
   stays empty. *)
CloseInv ==
  /\ main \notin {"build", "detach"} => attached = {}
  /\ main \in {"build", "detach"} => \A k \in Kinds : readerMode[k] # "flushed"
  /\ main \in {"watch", "wait", "reported"} => \A k \in Kinds : reader[k] = "gone"
  /\ done => main \in {"watch", "wait", "reported"}
  /\ \A k \in Kinds : readerMode[k] = "closed" => cancelled \/ done
  /\ \A k \in Kinds : reader[k] = "gone" /\ ~ cancelled =>
       ring[k] = <<>> /\ main \notin {"build", "detach"}

-----------------------------------------------------------------------------
LEMMA Queues ==
  ASSUME NEW q \in Numbers, NEW n \in Nat \ {0}
  PROVE  /\ Append(q, n) \in Numbers /\ Size(Append(q, n)) = Size(q) + 1 /\ Size(q) \in Nat
         /\ q # <<>> => /\ Tail(q) \in Numbers /\ Size(Tail(q)) = Size(q) - 1
                        /\ Head(q) \in Nat \ {0}
BY DEF Numbers, Size

(* What holds of one kind: its numbers, which hand holds an event, the sum. *)
Sized(k) ==
  /\ emitted[k] \in Nat /\ dropped[k] \in Nat /\ undecoded[k] \in Nat /\ overflow[k] \in Nat
  /\ Size(ring[k]) \in Nat /\ Size(chan[k]) \in Nat /\ Size(stored[k]) \in Nat
  /\ record[k] \in Nat /\ item[k] \in Nat
  /\ One(record[k]) \in Nat /\ One(item[k]) \in Nat

HeldOf(k) ==
  /\ reader[k] = "send" <=> record[k] # 0
  /\ drain[k] = "store" <=> item[k] # 0

SumOf(k) ==
  emitted[k] = Size(ring[k]) + Size(chan[k]) + Size(stored[k])
               + dropped[k] + undecoded[k] + overflow[k] + One(record[k]) + One(item[k])

LEMMA OneOrNone == One(0) = 0 /\ \A n \in Nat \ {0} : One(n) = 1
BY DEF One

LEMMA KindFacts ==
  ASSUME FlowInv, NEW k \in Kinds
  PROVE  /\ ring[k] \in Numbers /\ chan[k] \in Numbers /\ stored[k] \in Numbers
         /\ Sized(k) /\ HeldOf(k) /\ SumOf(k)
<1>1. ring[k] \in Numbers /\ chan[k] \in Numbers /\ stored[k] \in Numbers
  BY DEF FlowInv, Places
<1>2. Size(ring[k]) \in Nat /\ Size(chan[k]) \in Nat /\ Size(stored[k]) \in Nat
  BY <1>1 DEF Numbers, Size
<1>3. /\ emitted[k] \in Nat /\ dropped[k] \in Nat /\ undecoded[k] \in Nat /\ overflow[k] \in Nat
      /\ record[k] \in Nat /\ item[k] \in Nat
  BY DEF FlowInv, Places, Counters
<1>4. One(record[k]) \in Nat /\ One(item[k]) \in Nat
  BY <1>3 DEF One
<1>5. HeldOf(k) /\ SumOf(k)
  BY DEF FlowInv, Held, Balance, HeldOf, SumOf
<1> QED BY <1>1, <1>2, <1>3, <1>4, <1>5 DEF Sized

(* A step about kind k. *)
LEMMA KindStep ==
  ASSUME FlowInv, Counters', Places', Modes', NEW k \in Kinds, HeldOf(k)', SumOf(k)',
         \A o \in Kinds \ {k} :
           /\ emitted'[o] = emitted[o] /\ dropped'[o] = dropped[o]
           /\ undecoded'[o] = undecoded[o] /\ overflow'[o] = overflow[o]
           /\ ring'[o] = ring[o] /\ chan'[o] = chan[o] /\ stored'[o] = stored[o]
           /\ record'[o] = record[o] /\ item'[o] = item[o]
           /\ reader'[o] = reader[o] /\ drain'[o] = drain[o]
  PROVE  FlowInv'
<1>1. ASSUME NEW o \in Kinds PROVE HeldOf(o)' /\ SumOf(o)'
  <2>1. CASE o = k
    BY <2>1
  <2>2. CASE o # k
    <3>1. o \in Kinds \ {k} /\ HeldOf(o) /\ SumOf(o)
      BY <2>2, KindFacts
    <3>2. HeldOf(o)'
      BY <3>1 DEF HeldOf
    <3>3. SumOf(o)'
      BY <3>1 DEF SumOf
    <3> QED BY <3>2, <3>3
  <2> QED BY <2>1, <2>2
<1>2. Held'
  BY <1>1 DEF Held, HeldOf
<1>3. Balance'
  BY <1>1 DEF Balance, SumOf
<1> QED BY <1>2, <1>3 DEF FlowInv

LEMMA EmitFlow ==
  ASSUME FlowInv, NEW k \in Kinds, Emit(k)
  PROVE  FlowInv'
<1>1. Counters /\ Places /\ Modes
  BY DEF FlowInv
<1>2. /\ emitted' = [emitted EXCEPT ![k] = @ + 1]
      /\ attached' = attached /\ readerMode' = readerMode /\ reader' = reader /\ record' = record
      /\ undecoded' = undecoded /\ chan' = chan /\ drain' = drain /\ item' = item
      /\ stored' = stored /\ overflow' = overflow
  BY DEF Emit, readerVars, monitorVars
<1>3. Sized(k) /\ HeldOf(k) /\ SumOf(k) /\ ring[k] \in Numbers
  BY KindFacts
<1>4. emitted[k] + 1 \in Nat \ {0} /\ emitted'[k] = emitted[k] + 1
  BY <1>1, <1>2, <1>3 DEF Sized, Counters
<1>5. HeldOf(k)'
  BY <1>2, <1>3 DEF HeldOf
<1>6. /\ Size(chan'[k]) = Size(chan[k]) /\ Size(stored'[k]) = Size(stored[k])
      /\ undecoded'[k] = undecoded[k] /\ overflow'[k] = overflow[k]
      /\ One(record'[k]) = One(record[k]) /\ One(item'[k]) = One(item[k])
  BY <1>2
<1>7. CASE Len(ring[k]) < RingCap
  <2> DEFINE n == emitted[k] + 1
  <2>1. ring' = [ring EXCEPT ![k] = Append(@, n)] /\ dropped' = dropped
    BY <1>7 DEF Emit
  <2>2. n \in Nat \ {0} /\ emitted'[k] = n
    BY <1>4
  <2> HIDE DEF n
  <2>3. Append(ring[k], n) \in Numbers /\ Size(Append(ring[k], n)) = Size(ring[k]) + 1
    BY <1>3, <2>2, Queues
  <2>4. ring'[k] = Append(ring[k], n)
    BY <1>1, <2>1 DEF Places
  <2>5. Counters' /\ Places' /\ Modes'
    BY <1>1, <1>2, <1>4, <2>1, <2>3 DEF Counters, Places, Modes
  <2>6. Size(ring'[k]) = Size(ring[k]) + 1 /\ dropped'[k] = dropped[k]
    BY <2>1, <2>3, <2>4
  <2>7. SumOf(k)'
    BY <1>3, <1>4, <1>6, <2>6 DEF SumOf, Sized
  <2> QED BY <1>1, <1>2, <1>5, <2>1, <2>5, <2>7, KindStep DEF Counters, Places, Modes
<1>8. CASE ~ (Len(ring[k]) < RingCap)
  <2>1. dropped' = [dropped EXCEPT ![k] = @ + 1] /\ ring' = ring
    BY <1>8 DEF Emit
  <2>2. dropped'[k] = dropped[k] + 1 /\ Size(ring'[k]) = Size(ring[k])
    BY <1>1, <2>1 DEF Counters
  <2>3. Counters' /\ Places' /\ Modes'
    BY <1>1, <1>2, <1>4, <2>1 DEF Counters, Places, Modes
  <2>4. SumOf(k)'
    BY <1>3, <1>4, <1>6, <2>2 DEF SumOf, Sized
  <2> QED BY <1>1, <1>2, <1>5, <2>1, <2>3, <2>4, KindStep DEF Counters, Places, Modes
<1> QED BY <1>7, <1>8

LEMMA ReadFlow ==
  ASSUME FlowInv, NEW k \in Kinds, Read(k)
  PROVE  FlowInv'
<1>1. Counters /\ Places /\ Modes
  BY DEF FlowInv
<1>2. /\ reader[k] = "read" /\ ring[k] # <<>> /\ ring' = [ring EXCEPT ![k] = Tail(@)]
      /\ emitted' = emitted /\ attached' = attached /\ dropped' = dropped /\ readerMode' = readerMode
      /\ chan' = chan /\ drain' = drain /\ item' = item /\ stored' = stored /\ overflow' = overflow
  BY DEF Read, monitorVars
<1>3. Sized(k) /\ HeldOf(k) /\ SumOf(k) /\ ring[k] \in Numbers
  BY KindFacts
<1>4. /\ Tail(ring[k]) \in Numbers /\ Size(Tail(ring[k])) = Size(ring[k]) - 1
      /\ Head(ring[k]) \in Nat \ {0}
  BY <1>2, <1>3, Queues
<1>5. ring'[k] = Tail(ring[k])
  BY <1>1, <1>2 DEF Places
<1>6. /\ Size(ring'[k]) = Size(ring[k]) - 1
      /\ Size(chan'[k]) = Size(chan[k]) /\ Size(stored'[k]) = Size(stored[k])
      /\ emitted'[k] = emitted[k] /\ dropped'[k] = dropped[k] /\ overflow'[k] = overflow[k]
      /\ One(item'[k]) = One(item[k])
  BY <1>2, <1>4, <1>5
<1>7. record[k] = 0
  BY <1>2, <1>3 DEF HeldOf
<1>8. CASE /\ record' = [record EXCEPT ![k] = Head(ring[k])]
           /\ reader' = [reader EXCEPT ![k] = "send"] /\ undecoded' = undecoded
  <2>1. record'[k] = Head(ring[k]) /\ reader'[k] = "send"
    BY <1>1, <1>8 DEF Places, Modes
  <2>2. One(record[k]) = 0 /\ One(record'[k]) = 1 /\ undecoded'[k] = undecoded[k]
    BY <1>4, <1>7, <1>8, <2>1, OneOrNone
  <2>3. HeldOf(k)'
    BY <1>2, <1>3, <1>4, <2>1 DEF HeldOf
  <2>4. Counters' /\ Places' /\ Modes'
    BY <1>1, <1>2, <1>4, <1>8 DEF Counters, Places, Modes
  <2>5. SumOf(k)'
    BY <1>3, <1>6, <2>2 DEF SumOf, Sized
  <2> QED BY <1>1, <1>2, <1>8, <2>3, <2>4, <2>5, KindStep DEF Counters, Places, Modes
<1>9. CASE undecoded' = [undecoded EXCEPT ![k] = @ + 1] /\ record' = record /\ reader' = reader
  <2>1. undecoded'[k] = undecoded[k] + 1 /\ One(record'[k]) = One(record[k])
    BY <1>1, <1>9 DEF Counters
  <2>2. HeldOf(k)'
    BY <1>2, <1>3, <1>9 DEF HeldOf
  <2>3. Counters' /\ Places' /\ Modes'
    BY <1>1, <1>2, <1>4, <1>9 DEF Counters, Places, Modes
  <2>4. SumOf(k)'
    BY <1>3, <1>6, <2>1 DEF SumOf, Sized
  <2> QED BY <1>1, <1>2, <1>9, <2>2, <2>3, <2>4, KindStep DEF Counters, Places, Modes
<1> QED BY <1>8, <1>9 DEF Read

LEMMA SendFlow ==
  ASSUME FlowInv, NEW k \in Kinds, Send(k)
  PROVE  FlowInv'
<1>1. Counters /\ Places /\ Modes
  BY DEF FlowInv
<1>2. /\ reader[k] = "send" /\ chan' = [chan EXCEPT ![k] = Append(@, record[k])]
      /\ record' = [record EXCEPT ![k] = 0] /\ reader' = [reader EXCEPT ![k] = "read"]
      /\ emitted' = emitted /\ attached' = attached /\ ring' = ring /\ dropped' = dropped
      /\ readerMode' = readerMode /\ undecoded' = undecoded
      /\ drain' = drain /\ item' = item /\ stored' = stored /\ overflow' = overflow
  BY DEF Send, kernelVars, monitorVars
<1>3. Sized(k) /\ HeldOf(k) /\ SumOf(k) /\ chan[k] \in Numbers
  BY KindFacts
<1>4. record[k] \in Nat \ {0}
  BY <1>2, <1>3 DEF HeldOf, Sized
<1>5. /\ Append(chan[k], record[k]) \in Numbers
      /\ Size(Append(chan[k], record[k])) = Size(chan[k]) + 1
  BY <1>3, <1>4, Queues
<1>6. chan'[k] = Append(chan[k], record[k]) /\ record'[k] = 0 /\ reader'[k] = "read"
  BY <1>1, <1>2 DEF Places, Modes
<1>7. /\ Size(chan'[k]) = Size(chan[k]) + 1
      /\ Size(ring'[k]) = Size(ring[k]) /\ Size(stored'[k]) = Size(stored[k])
      /\ emitted'[k] = emitted[k] /\ dropped'[k] = dropped[k]
      /\ undecoded'[k] = undecoded[k] /\ overflow'[k] = overflow[k]
      /\ One(item'[k]) = One(item[k])
  BY <1>2, <1>5, <1>6
<1>8. One(record[k]) = 1 /\ One(record'[k]) = 0
  BY <1>4, <1>6, OneOrNone
<1>9. HeldOf(k)'
  BY <1>2, <1>3, <1>6 DEF HeldOf
<1>10. Counters' /\ Places' /\ Modes'
  BY <1>1, <1>2, <1>5 DEF Counters, Places, Modes
<1>11. SumOf(k)'
  BY <1>3, <1>7, <1>8 DEF SumOf, Sized
<1> QED BY <1>1, <1>2, <1>9, <1>10, <1>11, KindStep DEF Counters, Places, Modes

LEMMA ReceiveFlow ==
  ASSUME FlowInv, NEW k \in Kinds, Receive(k)
  PROVE  FlowInv'
<1>1. Counters /\ Places /\ Modes
  BY DEF FlowInv
<1>2. /\ drain[k] = "receive" /\ chan[k] # <<>> /\ item' = [item EXCEPT ![k] = Head(chan[k])]
      /\ chan' = [chan EXCEPT ![k] = Tail(@)] /\ drain' = [drain EXCEPT ![k] = "store"]
      /\ emitted' = emitted /\ attached' = attached /\ ring' = ring /\ dropped' = dropped
      /\ readerMode' = readerMode /\ reader' = reader /\ record' = record /\ undecoded' = undecoded
      /\ stored' = stored /\ overflow' = overflow
  BY DEF Receive, kernelVars
<1>3. Sized(k) /\ HeldOf(k) /\ SumOf(k) /\ chan[k] \in Numbers
  BY KindFacts
<1>4. /\ Tail(chan[k]) \in Numbers /\ Size(Tail(chan[k])) = Size(chan[k]) - 1
      /\ Head(chan[k]) \in Nat \ {0}
  BY <1>2, <1>3, Queues
<1>5. item[k] = 0
  BY <1>2, <1>3 DEF HeldOf
<1>6. chan'[k] = Tail(chan[k]) /\ item'[k] = Head(chan[k]) /\ drain'[k] = "store"
  BY <1>1, <1>2 DEF Places, Modes
<1>7. /\ Size(chan'[k]) = Size(chan[k]) - 1
      /\ Size(ring'[k]) = Size(ring[k]) /\ Size(stored'[k]) = Size(stored[k])
      /\ emitted'[k] = emitted[k] /\ dropped'[k] = dropped[k]
      /\ undecoded'[k] = undecoded[k] /\ overflow'[k] = overflow[k]
      /\ One(record'[k]) = One(record[k])
  BY <1>2, <1>4, <1>6
<1>8. One(item[k]) = 0 /\ One(item'[k]) = 1
  BY <1>4, <1>5, <1>6, OneOrNone
<1>9. HeldOf(k)'
  BY <1>2, <1>3, <1>4, <1>6 DEF HeldOf
<1>10. Counters' /\ Places' /\ Modes'
  BY <1>1, <1>2, <1>4 DEF Counters, Places, Modes
<1>11. SumOf(k)'
  BY <1>3, <1>7, <1>8 DEF SumOf, Sized
<1> QED BY <1>1, <1>2, <1>9, <1>10, <1>11, KindStep DEF Counters, Places, Modes

LEMMA StoreFlow ==
  ASSUME FlowInv, NEW k \in Kinds, Store(k)
  PROVE  FlowInv'
<1>1. Counters /\ Places /\ Modes
  BY DEF FlowInv
<1>2. /\ drain[k] = "store" /\ item' = [item EXCEPT ![k] = 0]
      /\ drain' = [drain EXCEPT ![k] = "receive"]
      /\ emitted' = emitted /\ attached' = attached /\ ring' = ring /\ dropped' = dropped
      /\ readerMode' = readerMode /\ reader' = reader /\ record' = record /\ undecoded' = undecoded
      /\ chan' = chan
  BY DEF Store, kernelVars, readerVars
<1>3. Sized(k) /\ HeldOf(k) /\ SumOf(k) /\ stored[k] \in Numbers
  BY KindFacts
<1>4. item[k] \in Nat \ {0}
  BY <1>2, <1>3 DEF HeldOf, Sized
<1>5. item'[k] = 0 /\ drain'[k] = "receive"
  BY <1>1, <1>2 DEF Places, Modes
<1>6. /\ Size(ring'[k]) = Size(ring[k]) /\ Size(chan'[k]) = Size(chan[k])
      /\ emitted'[k] = emitted[k] /\ dropped'[k] = dropped[k] /\ undecoded'[k] = undecoded[k]
      /\ One(record'[k]) = One(record[k])
  BY <1>2
<1>7. One(item[k]) = 1 /\ One(item'[k]) = 0
  BY <1>4, <1>5, OneOrNone
<1>8. HeldOf(k)'
  BY <1>2, <1>3, <1>5 DEF HeldOf
<1>9. CASE stored' = [stored EXCEPT ![k] = Append(@, item[k])] /\ overflow' = overflow
  <2>1. /\ Append(stored[k], item[k]) \in Numbers
        /\ Size(Append(stored[k], item[k])) = Size(stored[k]) + 1
    BY <1>3, <1>4, Queues
  <2>2. stored'[k] = Append(stored[k], item[k])
    BY <1>1, <1>9 DEF Places
  <2>3. Size(stored'[k]) = Size(stored[k]) + 1 /\ overflow'[k] = overflow[k]
    BY <1>9, <2>1, <2>2
  <2>4. Counters' /\ Places' /\ Modes'
    BY <1>1, <1>2, <1>9, <2>1 DEF Counters, Places, Modes
  <2>5. SumOf(k)'
    BY <1>3, <1>6, <1>7, <2>3 DEF SumOf, Sized
  <2> QED BY <1>1, <1>2, <1>8, <1>9, <2>4, <2>5, KindStep DEF Counters, Places, Modes
<1>10. CASE overflow' = [overflow EXCEPT ![k] = @ + 1] /\ stored' = stored
  <2>1. overflow'[k] = overflow[k] + 1 /\ Size(stored'[k]) = Size(stored[k])
    BY <1>1, <1>10 DEF Counters
  <2>2. Counters' /\ Places' /\ Modes'
    <3>1. Counters'
      BY <1>1, <1>2, <1>10 DEF Counters
    <3>2. Places'
      BY <1>1, <1>2, <1>10 DEF Places
    <3>3. Modes'
      BY <1>1, <1>2 DEF Modes
    <3> QED BY <3>1, <3>2, <3>3
  <2>3. SumOf(k)'
    <3>1. emitted[k] = Size(ring[k]) + Size(chan[k]) + Size(stored[k])
                       + dropped[k] + undecoded[k] + (overflow[k] + 1) + One(record[k]) + 0
      BY <1>3, <1>7 DEF SumOf, Sized
    <3> QED BY <1>6, <1>7, <2>1, <3>1 DEF SumOf
  <2> QED BY <1>1, <1>2, <1>8, <1>10, <2>2, <2>3, KindStep DEF Counters, Places, Modes
<1> QED BY <1>9, <1>10 DEF Store

(* The goroutines that end and the steps of Close move no event. *)
LEMMA QuietFlow ==
  ASSUME FlowInv, Modes', UNCHANGED <<emitted, ring, dropped, record, undecoded, chan, item, stored, overflow>>,
         \A k \in Kinds : /\ reader'[k] = "send" <=> reader[k] = "send"
                          /\ drain'[k] = "store" <=> drain[k] = "store"
  PROVE  FlowInv'
<1>1. Counters' /\ Places'
  BY DEF FlowInv, Counters, Places
<1>2. Held'
  BY DEF FlowInv, Held
<1>3. Balance'
  BY DEF FlowInv, Balance
<1> QED BY <1>1, <1>2, <1>3 DEF FlowInv

LEMMA ReturnsFlow ==
  ASSUME FlowInv, NEW k \in Kinds, ReaderReturns(k) \/ DrainReturns(k)
  PROVE  FlowInv'
<1>1. Modes
  BY DEF FlowInv
<1>2. Modes'
  <2>1. CASE ReaderReturns(k)
    BY <1>1, <2>1 DEF ReaderReturns, kernelVars, monitorVars, Modes
  <2>2. CASE DrainReturns(k)
    BY <1>1, <2>2 DEF DrainReturns, kernelVars, readerVars, Modes
  <2> QED BY <2>1, <2>2
<1>3. UNCHANGED <<emitted, ring, dropped, record, undecoded, chan, item, stored, overflow>>
  BY DEF ReaderReturns, DrainReturns, kernelVars, readerVars, monitorVars
<1>4. \A o \in Kinds : /\ reader'[o] = "send" <=> reader[o] = "send"
                       /\ drain'[o] = "store" <=> drain[o] = "store"
  BY <1>1 DEF ReaderReturns, DrainReturns, readerVars, monitorVars, Modes
<1> QED BY <1>2, <1>3, <1>4, QuietFlow

Control == Cancel \/ WatcherStep \/ BuildReturns \/ CloseStep \/ Finished \/ UNCHANGED vars

LEMMA ControlFlow ==
  ASSUME FlowInv, Control
  PROVE  FlowInv'
<1>1. Modes
  BY DEF FlowInv
<1>2. /\ UNCHANGED <<emitted, ring, dropped, record, undecoded, chan, item, stored, overflow>>
      /\ UNCHANGED <<reader, drain>>
  BY DEF Control, Cancel, WatcherStep, WatcherCloses, WatcherReturns, BuildReturns, CloseStep,
         Detach, Detached, Flush, Flushed, Joined, Counted, Report, Finished,
         vars, kernelVars, readerVars, monitorVars
<1>3. Modes'
  <2>1. ASSUME NEW k \in Kinds, WatcherCloses(k) \/ Flush(k) PROVE Modes'
    BY <1>1, <2>1 DEF WatcherCloses, Flush, kernelVars, monitorVars, Modes
  <2>2. ASSUME NEW k \in Kinds, Detach(k) PROVE Modes'
    BY <1>1, <2>2 DEF Detach, readerVars, monitorVars, Modes
  <2>3. CASE \/ Cancel \/ WatcherReturns \/ BuildReturns \/ Detached \/ Flushed \/ Joined
             \/ Counted \/ Report \/ Finished \/ UNCHANGED vars
    BY <1>1, <2>3 DEF Cancel, WatcherReturns, BuildReturns, Detached, Flushed, Joined, Counted,
       Report, Finished, vars, kernelVars, readerVars, monitorVars, Modes
  <2> QED BY <2>1, <2>2, <2>3 DEF Control, WatcherStep, CloseStep
<1> QED BY <1>2, <1>3, QuietFlow

-----------------------------------------------------------------------------
LEMMA EmitClose ==
  ASSUME FlowInv, CloseInv, NEW k \in Kinds, Emit(k)
  PROVE  CloseInv'
<1>1. /\ k \in attached /\ attached' = attached /\ readerMode' = readerMode /\ reader' = reader
      /\ main' = main /\ done' = done /\ cancelled' = cancelled
      /\ \A o \in Kinds \ {k} : ring'[o] = ring[o]
  BY DEF Emit, FlowInv, Places, readerVars, ctlVars
<1>2. main \in {"build", "detach"}
  BY <1>1 DEF CloseInv
<1> QED BY <1>1, <1>2 DEF CloseInv

LEMMA ReaderClose ==
  ASSUME FlowInv, CloseInv, NEW k \in Kinds, ReaderStep(k)
  PROVE  CloseInv'
<1>1. /\ attached' = attached /\ readerMode' = readerMode
      /\ main' = main /\ done' = done /\ cancelled' = cancelled
  BY DEF ReaderStep, Read, Send, ReaderReturns, kernelVars, ctlVars
<1>2. CASE Read(k) \/ Send(k)
  <2>1. /\ reader[k] # "gone" /\ reader'[k] # "gone"
        /\ \A o \in Kinds \ {k} : reader'[o] = reader[o] /\ ring'[o] = ring[o]
    BY <1>2 DEF Read, Send, kernelVars, FlowInv, Places, Modes
  <2> QED BY <1>1, <2>1 DEF CloseInv
<1>3. CASE ReaderReturns(k)
  <2>1. /\ reader[k] = "read" /\ RingDone(k) /\ ring' = ring
        /\ \A o \in Kinds \ {k} : reader'[o] = reader[o]
    BY <1>3 DEF ReaderReturns, kernelVars, FlowInv, Modes
  <2>2. main \notin {"watch", "wait", "reported"} /\ ~ done
    BY <2>1 DEF CloseInv
  <2>3. ~ cancelled => ring[k] = <<>> /\ main \notin {"build", "detach"}
    BY <2>1, <2>2 DEF CloseInv, RingDone
  <2> QED BY <1>1, <2>1, <2>2, <2>3 DEF CloseInv
<1> QED BY <1>2, <1>3 DEF ReaderStep

LEMMA DrainClose ==
  ASSUME CloseInv, NEW k \in Kinds, DrainStep(k)
  PROVE  CloseInv'
<1>1. UNCHANGED <<attached, readerMode, reader, ring, main, done, cancelled>>
  BY DEF DrainStep, Receive, Store, DrainReturns, kernelVars, readerVars, ctlVars
<1> QED BY <1>1 DEF CloseInv

LEMMA ControlClose ==
  ASSUME FlowInv, CloseInv, Control
  PROVE  CloseInv'
<1>1. CASE Cancel
  BY <1>1 DEF Cancel, kernelVars, readerVars, CloseInv
<1>2. ASSUME NEW k \in Kinds, WatcherCloses(k) PROVE CloseInv'
  <2>1. /\ cancelled \/ done
        /\ UNCHANGED <<attached, reader, ring, main, done, cancelled>>
        /\ readerMode'[k] = "closed"
        /\ \A o \in Kinds \ {k} : readerMode'[o] = readerMode[o]
    BY <1>2 DEF WatcherCloses, WatcherWoken, kernelVars, ctlVars, FlowInv, Modes
  <2> QED BY <2>1 DEF CloseInv
<1>3. CASE WatcherReturns \/ Report \/ Finished \/ UNCHANGED vars
  BY <1>3 DEF WatcherReturns, Report, Finished, vars, kernelVars, readerVars, ctlVars, CloseInv
<1>4. CASE BuildReturns
  BY <1>4 DEF BuildReturns, kernelVars, readerVars, CloseInv
<1>5. ASSUME NEW k \in Kinds, Detach(k) PROVE CloseInv'
  BY <1>5 DEF Detach, readerVars, ctlVars, CloseInv
<1>6. CASE Detached
  BY <1>6 DEF Detached, AllDetached, kernelVars, readerVars, CloseInv
<1>7. ASSUME NEW k \in Kinds, Flush(k) PROVE CloseInv'
  <2>1. /\ main = "flush"
        /\ UNCHANGED <<attached, reader, ring, main, done, cancelled>>
        /\ readerMode'[k] = "flushed"
        /\ \A o \in Kinds \ {k} : readerMode'[o] = readerMode[o]
    BY <1>7 DEF Flush, kernelVars, ctlVars, FlowInv, Modes
  <2> QED BY <2>1 DEF CloseInv
<1>8. CASE Flushed
  BY <1>8 DEF Flushed, kernelVars, readerVars, CloseInv
<1>9. CASE Joined
  BY <1>9 DEF Joined, kernelVars, readerVars, CloseInv
<1>10. CASE Counted
  BY <1>10 DEF Counted, kernelVars, readerVars, CloseInv
<1> QED BY <1>1, <1>2, <1>3, <1>4, <1>5, <1>6, <1>7, <1>8, <1>9, <1>10
        DEF Control, WatcherStep, CloseStep

-----------------------------------------------------------------------------
LEMMA InitInv == Init => FlowInv /\ CloseInv
<1> SUFFICES ASSUME Init PROVE FlowInv /\ CloseInv
  OBVIOUS
<1>1. Counters /\ Places /\ Modes /\ Held
  BY DEF Init, Counters, Places, Modes, Held, Numbers
<1>2. Size(<<>>) = 0 /\ One(0) = 0
  BY DEF Size, One
<1>3. Balance
  BY <1>2 DEF Init, Balance
<1>4. CloseInv
  BY DEF Init, CloseInv
<1> QED BY <1>1, <1>3, <1>4 DEF FlowInv

LEMMA NextInv == FlowInv /\ CloseInv /\ [Next]_vars => FlowInv' /\ CloseInv'
<1> SUFFICES ASSUME FlowInv, CloseInv, [Next]_vars PROVE FlowInv' /\ CloseInv'
  OBVIOUS
<1>1. ASSUME NEW k \in Kinds, Emit(k) PROVE FlowInv' /\ CloseInv'
  BY <1>1, EmitFlow, EmitClose
<1>2. ASSUME NEW k \in Kinds, ReaderStep(k) PROVE FlowInv' /\ CloseInv'
  <2>1. CloseInv'
    BY <1>2, ReaderClose
  <2>2. FlowInv'
    BY <1>2, ReadFlow, SendFlow, ReturnsFlow DEF ReaderStep
  <2> QED BY <2>1, <2>2
<1>3. ASSUME NEW k \in Kinds, DrainStep(k) PROVE FlowInv' /\ CloseInv'
  <2>1. CloseInv'
    BY <1>3, DrainClose
  <2>2. FlowInv'
    BY <1>3, ReceiveFlow, StoreFlow, ReturnsFlow DEF DrainStep
  <2> QED BY <2>1, <2>2
<1>4. CASE Control
  BY <1>4, ControlFlow, ControlClose
<1> QED BY <1>1, <1>2, <1>3, <1>4 DEF Next, Control

LEMMA InvAccounted == FlowInv /\ CloseInv => Accounted
<1> SUFFICES ASSUME FlowInv, CloseInv, NEW k \in Kinds
             PROVE  /\ emitted[k] = Len(ring[k]) + Len(chan[k]) + Len(stored[k])
                                    + dropped[k] + undecoded[k] + overflow[k]
                                    + (IF record[k] # 0 THEN 1 ELSE 0)
                                    + (IF item[k] # 0 THEN 1 ELSE 0)
                    /\ main \in {"watch", "wait", "reported"} /\ ring[k] # <<>> => cancelled
  BY DEF Accounted
<1>1. emitted[k] = Len(ring[k]) + Len(chan[k]) + Len(stored[k])
                   + dropped[k] + undecoded[k] + overflow[k]
                   + (IF record[k] # 0 THEN 1 ELSE 0) + (IF item[k] # 0 THEN 1 ELSE 0)
  BY DEF FlowInv, Balance, Size, One
<1>2. main \in {"watch", "wait", "reported"} /\ ring[k] # <<>> => cancelled
  BY DEF CloseInv
<1> QED BY <1>1, <1>2

(* Every event a probe saw is in exactly one place, stored, counted as lost or
   over a cap, or in one hand on the way, and only an interrupted run leaves
   any in a ring: for any number of kinds and any capacities. *)
THEOREM AccountedHolds == Spec => []Accounted
<1>1. Init => FlowInv /\ CloseInv
  BY InitInv
<1>2. (FlowInv /\ CloseInv) /\ [Next]_vars => (FlowInv /\ CloseInv)'
  BY NextInv
<1>3. FlowInv /\ CloseInv => Accounted
  BY InvAccounted
<1> QED BY <1>1, <1>2, <1>3, PTL DEF Spec

-----------------------------------------------------------------------------
(* The order of the events of one kind: numbers in a queue rise by at least one
   a place. *)
Spread(q) == \A i, j \in 1..Len(q) : i <= j => q[i] + (j - i) <= q[j]

Before(A, B) == \A a \in A, b \in B : a < b

(* Five stages, the first the furthest on its way, of numbers up to n. *)
Stages(A, B, C, D, E, n) ==
  /\ A \cup B \cup C \cup D \cup E \subseteq 1..n
  /\ Before(A, B \cup C \cup D \cup E) /\ Before(B, C \cup D \cup E)
  /\ Before(C, D \cup E) /\ Before(D, E)

OrderOf(k) ==
  /\ Spread(stored[k]) /\ Spread(chan[k]) /\ Spread(ring[k])
  /\ Stages(Els(stored[k]), Hand(item[k]), Els(chan[k]), Hand(record[k]), Els(ring[k]), emitted[k])

OrderInv == \A k \in Kinds : OrderOf(k)

(* The head of a queue precedes the rest; a number above all others may go to
   its end. *)
LEMMA QueueHead ==
  ASSUME NEW q \in Numbers, q # <<>>, Spread(q)
  PROVE  /\ Els(q) = {Head(q)} \cup Els(Tail(q)) /\ Before({Head(q)}, Els(Tail(q)))
         /\ Spread(Tail(q)) /\ Head(q) \in Nat \ {0}
<1>1. /\ Len(q) \in Nat /\ Len(q) > 0 /\ Len(Tail(q)) = Len(q) - 1 /\ Head(q) = q[1]
      /\ \A i \in 1..Len(Tail(q)) : Tail(q)[i] = q[i + 1]
      /\ \A i \in 1..Len(q) : q[i] \in Nat \ {0}
  BY DEF Numbers
<1>2. Spread(Tail(q))
  BY <1>1 DEF Spread
<1>3. ASSUME NEW b \in Els(Tail(q)) PROVE b \in Els(q) /\ Head(q) < b
  <2>1. PICK i \in 1..Len(Tail(q)) : b = Tail(q)[i]
    BY <1>3 DEF Els
  <2>2. i + 1 \in 1..Len(q) /\ 1 \in 1..Len(q) /\ b = q[i + 1]
    BY <1>1, <2>1
  <2>3. q[1] + ((i + 1) - 1) <= q[i + 1]
    BY <2>2, <1>1 DEF Spread
  <2> QED BY <1>1, <2>2, <2>3 DEF Els
<1>4. ASSUME NEW b \in Els(q), b # Head(q) PROVE b \in Els(Tail(q))
  <2>1. PICK i \in 1..Len(q) : b = q[i]
    BY <1>4 DEF Els
  <2>2. i - 1 \in 1..Len(Tail(q)) /\ Tail(q)[i - 1] = q[i]
    BY <1>1, <1>4, <2>1
  <2> QED BY <2>1, <2>2 DEF Els
<1>5. Head(q) \in Els(q)
  BY <1>1 DEF Els
<1> QED BY <1>1, <1>2, <1>3, <1>4, <1>5 DEF Before

LEMMA AppendEls ==
  ASSUME NEW q \in Numbers, NEW n \in Nat \ {0}
  PROVE  Els(Append(q, n)) = Els(q) \cup {n}
<1> DEFINE p == Append(q, n)
<1>1. /\ Len(q) \in Nat /\ Len(p) = Len(q) + 1 /\ p[Len(q) + 1] = n
      /\ \A i \in 1..Len(q) : p[i] = q[i]
  BY DEF Numbers
<1> HIDE DEF p
<1>2. ASSUME NEW b \in Els(p) PROVE b \in Els(q) \cup {n}
  BY <1>1, <1>2 DEF Els
<1>3. Els(q) \subseteq Els(p)
  BY <1>1 DEF Els
<1>4. n \in Els(p)
  BY <1>1 DEF Els
<1> QED BY <1>2, <1>3, <1>4 DEF p

LEMMA QueueEnd ==
  ASSUME NEW q \in Numbers, NEW n \in Nat \ {0}, Spread(q), Before(Els(q), {n})
  PROVE  Els(Append(q, n)) = Els(q) \cup {n} /\ Spread(Append(q, n))
<1> DEFINE p == Append(q, n)
<1>1. /\ Len(q) \in Nat /\ Len(p) = Len(q) + 1 /\ p[Len(q) + 1] = n
      /\ \A i \in 1..Len(q) : p[i] = q[i] /\ q[i] \in Nat \ {0} /\ q[i] \in Els(q)
  BY DEF Numbers, Els
<1>2. ASSUME NEW i \in 1..Len(q) PROVE q[i] + ((Len(q) + 1) - i) <= n
  <2>1. q[i] + (Len(q) - i) <= q[Len(q)] /\ q[Len(q)] < n
    BY <1>1 DEF Spread, Before
  <2> QED BY <1>1, <2>1
<1> HIDE DEF p
<1>3. ASSUME NEW i \in 1..Len(p), NEW j \in 1..Len(p), i <= j PROVE p[i] + (j - i) <= p[j]
  <2>1. CASE j = Len(q) + 1 /\ i = j
    BY <1>1, <2>1
  <2>2. CASE j = Len(q) + 1 /\ i # j
    <3>1. i \in 1..Len(q) /\ p[i] = q[i] /\ p[j] = n
      BY <1>1, <1>3, <2>2
    <3>2. q[i] + ((Len(q) + 1) - i) <= n
      BY <1>2, <3>1
    <3> QED BY <2>2, <3>1, <3>2
  <2>3. CASE j # Len(q) + 1
    BY <1>1, <1>3, <2>3 DEF Spread
  <2> QED BY <2>1, <2>2, <2>3
<1>4. Els(p) = Els(q) \cup {n}
  BY AppendEls DEF p
<1> QED BY <1>3, <1>4 DEF Spread, p

(* An event moves on to the next stage, or is taken out, or one joins at the
   far end. *)
LEMMA StageMoves ==
  ASSUME NEW A, NEW B, NEW C, NEW D, NEW E, NEW n \in Nat, Stages(A, B, C, D, E, n)
  PROVE  /\ Stages(A, B, C, D, E, n + 1)
         /\ Stages(A, B, C, D, E \cup {n + 1}, n + 1) /\ Before(E, {n + 1})
         /\ Stages(A, {}, C, D, E, n)
         /\ Stages(A \cup B, {}, C, D, E, n) /\ Before(A, B)
         /\ Stages(A, B, C \cup D, {}, E, n) /\ Before(C, D)
BY DEF Stages, Before

LEMMA StageTakes ==
  ASSUME NEW A, NEW B, NEW C, NEW D, NEW E, NEW n \in Nat, Stages(A, B, C, D, E, n)
  PROVE  /\ \A h, F : C = {h} \cup F /\ B = {} /\ Before({h}, F) => Stages(A, {h}, F, D, E, n)
         /\ \A h, F : E = {h} \cup F /\ D = {} /\ Before({h}, F) => Stages(A, B, C, {h}, F, n)
         /\ \A h, F : E = {h} \cup F /\ D = {} /\ Before({h}, F) => Stages(A, B, C, {}, F, n)
BY DEF Stages, Before

LEMMA Hands == Hand(0) = {} /\ \A n \in Nat \ {0} : Hand(n) = {n}
BY DEF Hand

LEMMA OrderStep ==
  ASSUME OrderInv, NEW k \in Kinds, OrderOf(k)',
         \A o \in Kinds \ {k} :
           /\ emitted'[o] = emitted[o] /\ ring'[o] = ring[o] /\ chan'[o] = chan[o]
           /\ stored'[o] = stored[o] /\ record'[o] = record[o] /\ item'[o] = item[o]
  PROVE  OrderInv'
<1>1. ASSUME NEW o \in Kinds, o # k PROVE OrderOf(o)'
  <2>1. OrderOf(o)
    BY DEF OrderInv
  <2> QED BY <1>1, <2>1 DEF OrderOf
<1> QED BY <1>1 DEF OrderInv

LEMMA EmitOrder ==
  ASSUME FlowInv, OrderInv, NEW k \in Kinds, Emit(k)
  PROVE  OrderInv'
<1>1. Places /\ Counters /\ Sized(k) /\ ring[k] \in Numbers /\ OrderOf(k)
  BY KindFacts DEF FlowInv, OrderInv
<1>2. /\ emitted' = [emitted EXCEPT ![k] = @ + 1]
      /\ record' = record /\ chan' = chan /\ item' = item /\ stored' = stored
      /\ emitted[k] \in Nat /\ emitted'[k] = emitted[k] + 1
  BY <1>1 DEF Emit, readerVars, monitorVars, Counters, Sized
<1>3. /\ Stages(Els(stored[k]), Hand(item[k]), Els(chan[k]), Hand(record[k]), Els(ring[k]),
                emitted[k] + 1)
      /\ Stages(Els(stored[k]), Hand(item[k]), Els(chan[k]), Hand(record[k]),
                Els(ring[k]) \cup {emitted[k] + 1}, emitted[k] + 1)
      /\ Before(Els(ring[k]), {emitted[k] + 1})
  BY <1>1, <1>2, StageMoves DEF OrderOf
<1>4. CASE ring' = [ring EXCEPT ![k] = Append(@, emitted[k] + 1)]
  <2>1. ring'[k] = Append(ring[k], emitted[k] + 1)
    BY <1>1, <1>4 DEF Places
  <2>2. /\ Els(ring'[k]) = Els(ring[k]) \cup {emitted[k] + 1} /\ Spread(ring'[k])
    BY <1>1, <1>2, <1>3, <2>1, QueueEnd DEF OrderOf
  <2>3. OrderOf(k)'
    BY <1>1, <1>2, <1>3, <2>2 DEF OrderOf
  <2> QED BY <1>1, <1>2, <1>4, <2>3, OrderStep DEF Places, Counters
<1>5. CASE ring' = ring
  <2>1. OrderOf(k)'
    BY <1>1, <1>2, <1>3, <1>5 DEF OrderOf
  <2> QED BY <1>1, <1>2, <1>5, <2>1, OrderStep DEF Counters
<1> QED BY <1>4, <1>5 DEF Emit

LEMMA ReadOrder ==
  ASSUME FlowInv, OrderInv, NEW k \in Kinds, Read(k)
  PROVE  OrderInv'
<1>1. Places /\ Sized(k) /\ HeldOf(k) /\ ring[k] \in Numbers /\ OrderOf(k)
  BY KindFacts DEF FlowInv, OrderInv
<1>2. /\ reader[k] = "read" /\ ring[k] # <<>> /\ ring' = [ring EXCEPT ![k] = Tail(@)]
      /\ emitted' = emitted /\ chan' = chan /\ item' = item /\ stored' = stored
  BY DEF Read, monitorVars
<1>3. /\ Els(ring[k]) = {Head(ring[k])} \cup Els(Tail(ring[k])) /\ Spread(Tail(ring[k]))
      /\ Before({Head(ring[k])}, Els(Tail(ring[k]))) /\ Head(ring[k]) \in Nat \ {0}
  BY <1>1, <1>2, QueueHead DEF OrderOf
<1>4. ring'[k] = Tail(ring[k]) /\ Hand(record[k]) = {} /\ Hand(Head(ring[k])) = {Head(ring[k])}
  BY <1>1, <1>2, <1>3, Hands DEF Places, HeldOf
<1>5. /\ Stages(Els(stored[k]), Hand(item[k]), Els(chan[k]), {Head(ring[k])}, Els(Tail(ring[k])),
                emitted[k])
      /\ Stages(Els(stored[k]), Hand(item[k]), Els(chan[k]), {}, Els(Tail(ring[k])), emitted[k])
  BY <1>1, <1>3, <1>4, StageTakes DEF OrderOf, Sized
<1>6. CASE record' = [record EXCEPT ![k] = Head(ring[k])]
  <2>1. record'[k] = Head(ring[k])
    BY <1>1, <1>6 DEF Places
  <2>2. OrderOf(k)'
    BY <1>1, <1>2, <1>3, <1>4, <1>5, <2>1 DEF OrderOf
  <2> QED BY <1>1, <1>2, <1>6, <2>2, OrderStep DEF Places
<1>7. CASE record' = record
  <2>1. OrderOf(k)'
    BY <1>1, <1>2, <1>3, <1>4, <1>5, <1>7 DEF OrderOf
  <2> QED BY <1>1, <1>2, <1>7, <2>1, OrderStep DEF Places
<1> QED BY <1>6, <1>7 DEF Read

LEMMA SendOrder ==
  ASSUME FlowInv, OrderInv, NEW k \in Kinds, Send(k)
  PROVE  OrderInv'
<1>1. Places /\ Sized(k) /\ HeldOf(k) /\ chan[k] \in Numbers /\ OrderOf(k)
  BY KindFacts DEF FlowInv, OrderInv
<1>2. /\ reader[k] = "send" /\ chan' = [chan EXCEPT ![k] = Append(@, record[k])]
      /\ record' = [record EXCEPT ![k] = 0]
      /\ emitted' = emitted /\ ring' = ring /\ item' = item /\ stored' = stored
  BY DEF Send, kernelVars, monitorVars
<1>3. record[k] \in Nat \ {0} /\ chan'[k] = Append(chan[k], record[k]) /\ record'[k] = 0
  BY <1>1, <1>2 DEF HeldOf, Sized, Places
<1>4. Hand(record[k]) = {record[k]} /\ Hand(record'[k]) = {}
  BY <1>3, Hands
<1>5. /\ Stages(Els(stored[k]), Hand(item[k]), Els(chan[k]) \cup {record[k]}, {}, Els(ring[k]),
                emitted[k])
      /\ Before(Els(chan[k]), {record[k]})
  BY <1>1, <1>4, StageMoves, ZenonT(60) DEF OrderOf, Sized
<1>6. Els(chan'[k]) = Els(chan[k]) \cup {record[k]} /\ Spread(chan'[k])
  BY <1>1, <1>3, <1>5, QueueEnd DEF OrderOf
<1>7. OrderOf(k)'
  BY <1>1, <1>2, <1>4, <1>5, <1>6 DEF OrderOf
<1> QED BY <1>1, <1>2, <1>7, OrderStep DEF Places

LEMMA ReceiveOrder ==
  ASSUME FlowInv, OrderInv, NEW k \in Kinds, Receive(k)
  PROVE  OrderInv'
<1>1. Places /\ Sized(k) /\ HeldOf(k) /\ chan[k] \in Numbers /\ OrderOf(k)
  BY KindFacts DEF FlowInv, OrderInv
<1>2. /\ drain[k] = "receive" /\ chan[k] # <<>> /\ chan' = [chan EXCEPT ![k] = Tail(@)]
      /\ item' = [item EXCEPT ![k] = Head(chan[k])]
      /\ emitted' = emitted /\ ring' = ring /\ record' = record /\ stored' = stored
  BY DEF Receive, kernelVars
<1>3. /\ Els(chan[k]) = {Head(chan[k])} \cup Els(Tail(chan[k])) /\ Spread(Tail(chan[k]))
      /\ Before({Head(chan[k])}, Els(Tail(chan[k]))) /\ Head(chan[k]) \in Nat \ {0}
  BY <1>1, <1>2, QueueHead DEF OrderOf
<1>4. /\ chan'[k] = Tail(chan[k]) /\ item'[k] = Head(chan[k])
      /\ Hand(item[k]) = {} /\ Hand(Head(chan[k])) = {Head(chan[k])}
  BY <1>1, <1>2, <1>3, Hands DEF Places, HeldOf
<1>5. Stages(Els(stored[k]), {Head(chan[k])}, Els(Tail(chan[k])), Hand(record[k]), Els(ring[k]),
             emitted[k])
  BY <1>1, <1>3, <1>4, StageTakes DEF OrderOf, Sized
<1>6. OrderOf(k)'
  BY <1>1, <1>2, <1>3, <1>4, <1>5 DEF OrderOf
<1> QED BY <1>1, <1>2, <1>6, OrderStep DEF Places

LEMMA StoreOrder ==
  ASSUME FlowInv, OrderInv, NEW k \in Kinds, Store(k)
  PROVE  OrderInv'
<1>1. Places /\ Sized(k) /\ HeldOf(k) /\ stored[k] \in Numbers /\ OrderOf(k)
  BY KindFacts DEF FlowInv, OrderInv
<1>2. /\ drain[k] = "store" /\ item' = [item EXCEPT ![k] = 0]
      /\ emitted' = emitted /\ ring' = ring /\ record' = record /\ chan' = chan
  BY DEF Store, kernelVars, readerVars
<1>3. item[k] \in Nat \ {0} /\ item'[k] = 0
  BY <1>1, <1>2 DEF HeldOf, Sized, Places
<1>4. Hand(item[k]) = {item[k]} /\ Hand(item'[k]) = {}
  BY <1>3, Hands
<1>5. /\ Stages(Els(stored[k]) \cup {item[k]}, {}, Els(chan[k]), Hand(record[k]), Els(ring[k]),
                emitted[k])
      /\ Stages(Els(stored[k]), {}, Els(chan[k]), Hand(record[k]), Els(ring[k]), emitted[k])
      /\ Before(Els(stored[k]), {item[k]})
  BY <1>1, <1>4, StageMoves, ZenonT(60) DEF OrderOf, Sized
<1>6. CASE stored' = [stored EXCEPT ![k] = Append(@, item[k])]
  <2>1. stored'[k] = Append(stored[k], item[k])
    BY <1>1, <1>6 DEF Places
  <2>2. Els(stored'[k]) = Els(stored[k]) \cup {item[k]} /\ Spread(stored'[k])
    BY <1>1, <1>3, <1>5, <2>1, QueueEnd DEF OrderOf
  <2>3. OrderOf(k)'
    BY <1>1, <1>2, <1>4, <1>5, <2>2 DEF OrderOf
  <2> QED BY <1>1, <1>2, <1>6, <2>3, OrderStep DEF Places
<1>7. CASE stored' = stored
  <2>1. OrderOf(k)'
    BY <1>1, <1>2, <1>4, <1>5, <1>7 DEF OrderOf
  <2> QED BY <1>1, <1>2, <1>7, <2>1, OrderStep DEF Places
<1> QED BY <1>6, <1>7 DEF Store

LEMMA NextOrder ==
  ASSUME FlowInv, OrderInv, [Next]_vars
  PROVE  OrderInv'
<1>1. ASSUME NEW k \in Kinds, ReaderReturns(k) \/ DrainReturns(k) PROVE OrderInv'
  BY <1>1 DEF ReaderReturns, DrainReturns, kernelVars, readerVars, monitorVars, OrderInv, OrderOf
<1>2. CASE Control
  <2>1. UNCHANGED <<emitted, ring, record, chan, item, stored>>
    BY <1>2 DEF Control, Cancel, WatcherStep, WatcherCloses, WatcherReturns, BuildReturns, CloseStep,
       Detach, Detached, Flush, Flushed, Joined, Counted, Report, Finished,
       vars, kernelVars, readerVars, monitorVars
  <2> QED BY <2>1 DEF OrderInv, OrderOf
<1> QED BY <1>1, <1>2, EmitOrder, ReadOrder, SendOrder, ReceiveOrder, StoreOrder
        DEF Next, ReaderStep, DrainStep, Control

LEMMA InitOrder == Init => OrderInv
<1> SUFFICES ASSUME Init, NEW k \in Kinds PROVE OrderOf(k)
  BY DEF OrderInv
<1>1. /\ ring[k] = <<>> /\ chan[k] = <<>> /\ stored[k] = <<>> /\ item[k] = 0 /\ record[k] = 0
      /\ emitted[k] = 0
  BY DEF Init
<1>2. Els(<<>>) = {} /\ Spread(<<>>) /\ Hand(0) = {}
  BY DEF Els, Spread, Hand
<1>3. Stages({}, {}, {}, {}, {}, 0)
  BY DEF Stages, Before
<1> QED BY <1>1, <1>2, <1>3 DEF OrderOf

-----------------------------------------------------------------------------
(* What the report is made from.  The count Close takes is the final one: no
   probe is attached and no reader runs by then.  No event that breaks the
   policy is stored while no violation is, and a drain goroutine ends only
   when its reader has gone and its channel is empty. *)
Frozen ==
  main \in {"wait", "reported"} =>
    final.err \/ \A k \in Kinds : final.dropped[k] = dropped[k] + undecoded[k]

NoneBad == \A k \in Kinds : \A n \in Els(stored[k]) : << k, n >> \notin Bad

Ended ==
  /\ main = "reported" => \A k \in Kinds : drain[k] = "done"
  /\ \A k \in Kinds : drain[k] = "done" => chan[k] = <<>> /\ reader[k] = "gone"

ReportInv ==
  /\ violations \in Nat
  /\ violations = 0 => NoneBad
  /\ Frozen
  /\ Ended

LEMMA NextFrozen ==
  ASSUME FlowInv, CloseInv, Frozen, [Next]_vars
  PROVE  Frozen'
<1>1. ASSUME NEW k \in Kinds, Emit(k) PROVE Frozen'
  BY <1>1 DEF Emit, ctlVars, CloseInv, Frozen
<1>2. ASSUME NEW k \in Kinds, Read(k) PROVE Frozen'
  BY <1>2 DEF Read, ctlVars, CloseInv, Frozen
<1>3. ASSUME NEW k \in Kinds,
             Send(k) \/ ReaderReturns(k) \/ DrainStep(k) \/ Detach(k) \/ Flush(k) \/ WatcherCloses(k)
      PROVE  Frozen'
  BY <1>3 DEF Send, ReaderReturns, DrainStep, Receive, Store, DrainReturns, Detach, Flush,
     WatcherCloses, kernelVars, readerVars, monitorVars, ctlVars, Frozen
<1>4. CASE Counted
  <2>1. final'.err \/ \A k \in Kinds : final'.dropped[k] = dropped[k] + undecoded[k]
    BY <1>4 DEF Counted, Lost
  <2> QED BY <1>4, <2>1 DEF Counted, Frozen, kernelVars, readerVars
<1>5. CASE \/ Cancel \/ WatcherReturns \/ BuildReturns \/ Detached \/ Flushed \/ Joined
           \/ Report \/ Finished \/ UNCHANGED vars
  BY <1>5 DEF Cancel, WatcherReturns, BuildReturns, Detached, Flushed, Joined, Report, Finished,
     vars, kernelVars, readerVars, ctlVars, Frozen
<1> QED BY <1>1, <1>2, <1>3, <1>4, <1>5 DEF Next, ReaderStep, WatcherStep, CloseStep

LEMMA StoreReport ==
  ASSUME FlowInv, ReportInv, NEW k \in Kinds, Store(k)
  PROVE  violations' \in Nat /\ (violations' = 0 => NoneBad')
<1>1. Places /\ stored[k] \in Numbers /\ Sized(k) /\ HeldOf(k) /\ drain[k] = "store"
  BY KindFacts DEF FlowInv, Store
<1>2. item[k] \in Nat \ {0}
  BY <1>1 DEF HeldOf, Sized
<1>3. violations' \in Nat /\ (violations' = 0 => violations = 0 /\ << k, item[k] >> \notin Bad)
  BY PipelineAssumption DEF Store, ReportInv
<1>4. ASSUME violations' = 0 PROVE NoneBad'
  <2>1. NoneBad /\ << k, item[k] >> \notin Bad
    BY <1>3, <1>4 DEF ReportInv
  <2>2. CASE stored' = [stored EXCEPT ![k] = Append(@, item[k])]
    <3>1. stored'[k] = Append(stored[k], item[k]) /\ \A o \in Kinds \ {k} : stored'[o] = stored[o]
      BY <1>1, <2>2 DEF Places
    <3>2. Els(stored'[k]) \subseteq Els(stored[k]) \cup {item[k]}
      BY <1>1, <1>2, <3>1 DEF Els, Numbers
    <3> QED BY <2>1, <3>1, <3>2 DEF NoneBad
  <2>3. CASE stored' = stored
    BY <2>1, <2>3 DEF NoneBad
  <2> QED BY <2>2, <2>3 DEF Store
<1> QED BY <1>3, <1>4

LEMMA NextEnded ==
  ASSUME FlowInv, Ended, [Next]_vars
  PROVE  Ended'
<1>1. Places /\ Modes
  BY DEF FlowInv
<1>2. ASSUME NEW k \in Kinds, ReaderStep(k) PROVE Ended'
  <2>1. drain[k] # "done" /\ drain' = drain /\ main' = main
    BY <1>2 DEF ReaderStep, Read, Send, ReaderReturns, Ended, monitorVars, ctlVars
  <2>2. \A o \in Kinds \ {k} : chan'[o] = chan[o] /\ reader'[o] = reader[o]
    BY <1>1, <1>2 DEF ReaderStep, Read, Send, ReaderReturns, Places, Modes
  <2> QED BY <2>1, <2>2 DEF Ended
<1>3. ASSUME NEW k \in Kinds, Receive(k) \/ Store(k) PROVE Ended'
  <2>1. /\ drain'[k] # "done" /\ drain[k] # "done" /\ main' = main /\ reader' = reader
        /\ \A o \in Kinds \ {k} : chan'[o] = chan[o] /\ drain'[o] = drain[o]
    BY <1>1, <1>3 DEF Receive, Store, Places, Modes, readerVars, ctlVars
  <2> QED BY <2>1 DEF Ended
<1>4. ASSUME NEW k \in Kinds, DrainReturns(k) PROVE Ended'
  BY <1>1, <1>4 DEF DrainReturns, Modes, readerVars, ctlVars, Ended
<1>5. ASSUME NEW k \in Kinds, Emit(k) \/ Detach(k) \/ Flush(k) \/ WatcherCloses(k) PROVE Ended'
  BY <1>5 DEF Emit, Detach, Flush, WatcherCloses, readerVars, monitorVars, ctlVars, Ended
<1>6. CASE \/ Cancel \/ WatcherReturns \/ BuildReturns \/ Detached \/ Flushed \/ Joined \/ Counted
           \/ Report \/ Finished \/ UNCHANGED vars
  BY <1>6 DEF Cancel, WatcherReturns, BuildReturns, Detached, Flushed, Joined, Counted, Report,
     Finished, vars, readerVars, monitorVars, ctlVars, Ended
<1> QED BY <1>2, <1>3, <1>4, <1>5, <1>6 DEF Next, DrainStep, WatcherStep, CloseStep

LEMMA NextReport ==
  ASSUME FlowInv, CloseInv, ReportInv, [Next]_vars
  PROVE  ReportInv'
<1>1. Frozen' /\ Ended'
  BY NextFrozen, NextEnded DEF ReportInv
<1>2. violations' \in Nat /\ (violations' = 0 => NoneBad')
  <2>1. CASE \E k \in Kinds : Store(k)
    BY <2>1, StoreReport
  <2>2. CASE ~ \E k \in Kinds : Store(k)
    <3>1. violations' = violations /\ stored' = stored
      BY <2>2 DEF Next, Emit, ReaderStep, Read, Send, ReaderReturns, DrainStep, Receive,
         DrainReturns, Cancel, WatcherStep, WatcherCloses, WatcherReturns, BuildReturns, CloseStep,
         Detach, Detached, Flush, Flushed, Joined, Counted, Report, Finished,
         vars, kernelVars, readerVars, monitorVars, ctlVars
    <3> QED BY <3>1 DEF ReportInv, NoneBad
  <2> QED BY <2>1, <2>2
<1> QED BY <1>1, <1>2 DEF ReportInv

LEMMA InitReport == Init => ReportInv
<1> SUFFICES ASSUME Init PROVE ReportInv
  OBVIOUS
<1>1. violations \in Nat /\ Frozen /\ Ended
  BY DEF Init, Frozen, Ended
<1>2. ASSUME NEW k \in Kinds PROVE Els(stored[k]) = {}
  BY DEF Init, Els
<1> QED BY <1>1, <1>2 DEF ReportInv, NoneBad

(* A full queue of rising numbers holds each number at its place. *)
LEMMA FullQueue ==
  ASSUME NEW q \in Numbers, Spread(q), Els(q) \subseteq 1..Len(q)
  PROVE  q = [n \in 1..Len(q) |-> n]
<1>1. Len(q) \in Nat /\ DOMAIN q = 1..Len(q) /\ q = [n \in 1..Len(q) |-> q[n]]
  BY DEF Numbers
<1>2. ASSUME NEW n \in 1..Len(q) PROVE q[n] = n
  <2>1. q[n] \in 1..Len(q) /\ q[1] \in 1..Len(q) /\ q[Len(q)] \in 1..Len(q)
    BY <1>1 DEF Els
  <2>2. q[1] + (n - 1) <= q[n] /\ q[n] + (Len(q) - n) <= q[Len(q)]
    BY <1>1 DEF Spread
  <2> QED BY <1>1, <2>1, <2>2
<1> QED BY <1>1, <1>2

LEMMA InvClean == FlowInv /\ CloseInv /\ OrderInv /\ ReportInv => CleanIsComplete
<1> SUFFICES ASSUME FlowInv, CloseInv, OrderInv, ReportInv, CleanReport, ~ cancelled, NEW k \in Kinds
             PROVE  /\ stored[k] = [n \in 1..emitted[k] |-> n]
                    /\ \A n \in 1..emitted[k] : << k, n >> \notin Bad
  BY DEF CleanIsComplete, Complete
<1>1. Sized(k) /\ HeldOf(k) /\ SumOf(k) /\ OrderOf(k) /\ stored[k] \in Numbers
  BY KindFacts DEF OrderInv
<1>2. drain[k] = "done" /\ reader[k] = "gone" /\ chan[k] = <<>> /\ ring[k] = <<>>
  BY DEF CleanReport, ReportInv, Ended, CloseInv
<1>3. record[k] = 0 /\ item[k] = 0
  BY <1>1, <1>2 DEF HeldOf
<1>4. dropped[k] = 0 /\ undecoded[k] = 0 /\ overflow[k] = 0
  <2>1. final.dropped[k] = dropped[k] + undecoded[k]
    BY DEF CleanReport, LossUnknown, ReportInv, Frozen
  <2>2. ~ (final.dropped[k] + overflow[k] > 0)
    BY DEF CleanReport, EventsLost
  <2> QED BY <1>1, <2>1, <2>2 DEF Sized
<1>5. Size(<<>>) = 0 /\ One(0) = 0
  BY DEF Size, One
<1>6. emitted[k] = Size(stored[k])
  BY <1>1, <1>2, <1>3, <1>4, <1>5 DEF SumOf, Sized
<1>7. emitted[k] = Len(stored[k])
  BY <1>6 DEF Size
<1>8. stored[k] = [n \in 1..emitted[k] |-> n]
  BY <1>1, <1>7, FullQueue DEF OrderOf, Stages
<1>9. ASSUME NEW n \in 1..emitted[k] PROVE << k, n >> \notin Bad
  <2>1. n \in Els(stored[k])
    BY <1>7, <1>8 DEF Els
  <2> QED BY <2>1 DEF CleanReport, ReportInv, NoneBad
<1> QED BY <1>8, <1>9

(* A report without violation and without a warning, of a run that was not
   interrupted, holds every event the probes saw, in order, and none of them
   breaks the policy: for any number of kinds and events, any set of breaking
   events, and any sizes of rings, channels, store and violation list. *)
THEOREM CleanIsCompleteHolds == Spec => []CleanIsComplete
<1> DEFINE Inv == FlowInv /\ CloseInv /\ OrderInv /\ ReportInv
<1>1. Init => Inv
  BY InitInv, InitOrder, InitReport
<1>2. Inv /\ [Next]_vars => Inv'
  BY NextInv, NextOrder, NextReport
<1>3. Inv => CleanIsComplete
  BY InvClean
<1> QED BY <1>1, <1>2, <1>3, PTL DEF Spec
-----------------------------------------------------------------------------
(* The refinement.  An event that leaves the way is the item, which is the least
   on it, or the head of the ring behind an idle reader. *)
LEMMA ItemLeaves ==
  ASSUME NEW A, NEW B, NEW C, NEW D, NEW E, NEW n, Stages(A, B, C, D, E, n), n \in Nat
  PROVE  \A h \in B : h <= h /\ \A o \in C \cup D \cup E : h <= o /\ h # o
<1>1. \A a \in 1..n : a <= a /\ \A b \in 1..n : a < b => a <= b /\ a # b
  OBVIOUS
<1>2. \A h \in B : h \in 1..n /\ \A o \in C \cup D \cup E : o \in 1..n /\ h < o
  BY DEF Stages, Before
<1> QED BY <1>1, <1>2

LEMMA HeadLeaves ==
  ASSUME NEW A, NEW B, NEW C, NEW D, NEW E, NEW n, NEW h, NEW F, Stages(A, B, C, D, E, n),
         n \in Nat, E = {h} \cup F, Before({h}, F)
  PROVE  /\ h \in B \cup C \cup D \cup E
         /\ (B \cup C \cup D \cup E) \ {h} = B \cup C \cup D \cup F
<1>1. \A a, b \in 1..n : a < b => a # b
  OBVIOUS
<1>2. h \in 1..n /\ B \cup C \cup D \cup F \subseteq 1..n
  BY DEF Stages
<1>3. (\A o \in B \cup C \cup D : o < h) /\ \A o \in F : h < o
  BY DEF Stages, Before
<1>4. h \notin B \cup C \cup D \cup F
  BY <1>1, <1>2, <1>3
<1> QED BY <1>4

LEMMA WayOf ==
  ASSUME FlowInv, OrderInv, NEW k \in Kinds
  PROVE  /\ item[k] # 0 =>
              /\ item[k] \in OnTheWay(k) /\ \A o \in OnTheWay(k) : item[k] <= o
              /\ OnTheWay(k) \ {item[k]} = Els(chan[k]) \cup Hand(record[k]) \cup Els(ring[k])
         /\ ring[k] # <<>> =>
              /\ Head(ring[k]) \in OnTheWay(k)
              /\ OnTheWay(k) \ {Head(ring[k])} =
                   Hand(item[k]) \cup Els(chan[k]) \cup Hand(record[k]) \cup Els(Tail(ring[k]))
<1> DEFINE A == Els(stored[k]) B == Hand(item[k]) C == Els(chan[k]) D == Hand(record[k])
           E == Els(ring[k]) F == Els(Tail(ring[k])) h == Head(ring[k]) i == item[k]
           n == emitted[k]
<1>1. Sized(k) /\ OrderOf(k) /\ ring[k] \in Numbers
  BY KindFacts DEF OrderInv
<1>2. Stages(A, B, C, D, E, n) /\ n \in Nat
  BY <1>1 DEF OrderOf, Sized
<1>3. ASSUME item[k] # 0
      PROVE  /\ item[k] \in OnTheWay(k) /\ \A o \in OnTheWay(k) : item[k] <= o
             /\ OnTheWay(k) \ {item[k]} = Els(chan[k]) \cup Hand(record[k]) \cup Els(ring[k])
  <2>1. Hand(item[k]) = {item[k]}
    BY <1>1, <1>3, Hands DEF Sized
  <2>2. B = {i}
    BY <2>1
  <2> HIDE DEF A, B, C, D, E, n, i
  <2>3. i <= i /\ \A o \in C \cup D \cup E : i <= o /\ i # o
    <3>1. \A j \in B : j <= j /\ \A o \in C \cup D \cup E : j <= o /\ j # o
      BY ONLY <1>2, ItemLeaves
    <3> QED BY <2>2, <3>1
  <2>4. i \in B \cup C \cup D \cup E /\ (\A o \in B \cup C \cup D \cup E : i <= o)
        /\ (B \cup C \cup D \cup E) \ {i} = C \cup D \cup E
    BY ONLY <2>2, <2>3
  <2> QED BY <2>4 DEF OnTheWay, B, C, D, E, i
<1>4. ASSUME ring[k] # <<>>
      PROVE  /\ Head(ring[k]) \in OnTheWay(k)
             /\ OnTheWay(k) \ {Head(ring[k])} =
                  Hand(item[k]) \cup Els(chan[k]) \cup Hand(record[k]) \cup Els(Tail(ring[k]))
  <2>1. /\ Els(ring[k]) = {Head(ring[k])} \cup Els(Tail(ring[k]))
        /\ Before({Head(ring[k])}, Els(Tail(ring[k])))
    BY <1>1, <1>4, QueueHead DEF OrderOf
  <2>2. E = {h} \cup F /\ Before({h}, F)
    BY <2>1
  <2> HIDE DEF A, B, C, D, E, F, h, n
  <2>3. h \in B \cup C \cup D \cup E /\ (B \cup C \cup D \cup E) \ {h} = B \cup C \cup D \cup F
    BY ONLY <1>2, <2>2, HeadLeaves
  <2> QED BY <2>3 DEF OnTheWay, B, C, D, E, F, h
<1> QED BY <1>3, <1>4

(* A step about kind k, seen through the mapping. *)
LEMMA WayStep ==
  ASSUME NEW k \in Kinds, \A o \in Kinds \ {k} : OnTheWay(o)' = OnTheWay(o)
  PROVE  [o \in Kinds |-> OnTheWay(o)]' =
           [[o \in Kinds |-> OnTheWay(o)] EXCEPT ![k] = OnTheWay(k)']
OBVIOUS

LEMMA MissedStep ==
  ASSUME NEW k \in Kinds, \A o \in Kinds \ {k} : Missed(o)' = Missed(o)
  PROVE  [o \in Kinds |-> Missed(o)]' = [[o \in Kinds |-> Missed(o)] EXCEPT ![k] = Missed(k)']
OBVIOUS

LEMMA Unseen ==
  ASSUME UNCHANGED <<emitted, stored, cancelled, Verdict>>,
         \A k \in Kinds : OnTheWay(k)' = OnTheWay(k) /\ Missed(k)' = Missed(k)
  PROVE  UNCHANGED Contract!vars
<1>1. [k \in Kinds |-> OnTheWay(k)]' = [k \in Kinds |-> OnTheWay(k)]
  OBVIOUS
<1>2. [k \in Kinds |-> Missed(k)]' = [k \in Kinds |-> Missed(k)]
  OBVIOUS
<1> QED BY <1>1, <1>2 DEF Contract!vars

LEMMA EmitSeen ==
  ASSUME FlowInv, NEW k \in Kinds, Emit(k), main # "reported"
  PROVE  Contract!See(k) /\ Verdict = "none"
<1>1. Places /\ Counters /\ Sized(k) /\ ring[k] \in Numbers /\ emitted[k] + 1 \in Nat \ {0}
  BY KindFacts DEF FlowInv, Sized
<1>2. /\ emitted' = [emitted EXCEPT ![k] = @ + 1]
      /\ UNCHANGED <<stored, cancelled, main, item, chan, record, undecoded, overflow>>
  BY DEF Emit, readerVars, monitorVars, ctlVars
<1>3. UNCHANGED <<stored, cancelled, Verdict>> /\ Verdict = "none"
  BY <1>2 DEF Verdict
<1>4. CASE ring' = [ring EXCEPT ![k] = Append(@, emitted[k] + 1)] /\ UNCHANGED dropped
  <2>1. /\ ring'[k] = Append(ring[k], emitted[k] + 1)
        /\ \A o \in Kinds \ {k} : ring'[o] = ring[o]
    BY <1>1, <1>4 DEF Places
  <2>2. Els(ring'[k]) = Els(ring[k]) \cup {emitted[k] + 1}
    BY <1>1, <2>1, AppendEls
  <2>3. OnTheWay(k)' = OnTheWay(k) \cup {emitted[k] + 1}
    BY <1>2, <2>2 DEF OnTheWay
  <2>4. \A o \in Kinds \ {k} : OnTheWay(o)' = OnTheWay(o)
    BY <1>2, <2>1 DEF OnTheWay
  <2>5. [o \in Kinds |-> OnTheWay(o)]' =
          [[o \in Kinds |-> OnTheWay(o)] EXCEPT ![k] = OnTheWay(k) \cup {emitted[k] + 1}]
    BY <2>3, <2>4, WayStep
  <2>6. \A o \in Kinds : Missed(o)' = Missed(o)
    BY <1>2, <1>4 DEF Missed
  <2>7. [o \in Kinds |-> Missed(o)]' = [o \in Kinds |-> Missed(o)]
    BY <2>6
  <2> QED BY <1>2, <1>3, <2>5, <2>7 DEF Contract!See
<1>5. CASE dropped' = [dropped EXCEPT ![k] = @ + 1] /\ UNCHANGED ring
  <2>1. dropped'[k] = dropped[k] + 1 /\ \A o \in Kinds \ {k} : dropped'[o] = dropped[o]
    BY <1>1, <1>5 DEF Counters
  <2>2. Missed(k)' = Missed(k) + 1
    BY <1>1, <1>2, <2>1 DEF Missed, Sized
  <2>3. \A o \in Kinds \ {k} : Missed(o)' = Missed(o)
    BY <1>2, <2>1 DEF Missed
  <2>4. [o \in Kinds |-> Missed(o)]' = [[o \in Kinds |-> Missed(o)] EXCEPT ![k] = Missed(k) + 1]
    BY <2>2, <2>3, MissedStep
  <2>5. \A o \in Kinds : OnTheWay(o)' = OnTheWay(o)
    BY <1>2, <1>5 DEF OnTheWay
  <2>6. [o \in Kinds |-> OnTheWay(o)]' = [o \in Kinds |-> OnTheWay(o)]
    BY <2>5
  <2> QED BY <1>2, <1>3, <2>4, <2>6 DEF Contract!See
<1> QED BY <1>3, <1>4, <1>5 DEF Emit

LEMMA ReadSeen ==
  ASSUME FlowInv, OrderInv, NEW k \in Kinds, Read(k), main # "reported"
  PROVE  (Contract!Lose(k) \/ UNCHANGED Contract!vars) /\ Verdict = "none"
<1>1. Places /\ Counters /\ Sized(k) /\ HeldOf(k) /\ ring[k] \in Numbers
  BY KindFacts DEF FlowInv
<1>2. /\ reader[k] = "read" /\ ring[k] # <<>> /\ ring' = [ring EXCEPT ![k] = Tail(@)]
      /\ UNCHANGED <<emitted, stored, cancelled, main, item, chan, dropped, overflow>>
  BY DEF Read, monitorVars, ctlVars
<1>3. UNCHANGED <<emitted, stored, cancelled, Verdict>> /\ Verdict = "none"
  BY <1>2 DEF Verdict
<1>4. ring'[k] = Tail(ring[k]) /\ \A o \in Kinds \ {k} : ring'[o] = ring[o]
  BY <1>1, <1>2 DEF Places
<1>5. record[k] = 0 /\ Hand(record[k]) = {}
  BY <1>1, <1>2, Hands DEF HeldOf
<1>6. /\ Head(ring[k]) \in OnTheWay(k)
      /\ OnTheWay(k) \ {Head(ring[k])} =
           Hand(item[k]) \cup Els(chan[k]) \cup Hand(record[k]) \cup Els(Tail(ring[k]))
  BY <1>2, WayOf
<1>7. CASE record' = [record EXCEPT ![k] = Head(ring[k])] /\ UNCHANGED undecoded
  <2>1. record'[k] = Head(ring[k]) /\ \A o \in Kinds \ {k} : record'[o] = record[o]
    BY <1>1, <1>7 DEF Places
  <2>2. Hand(Head(ring[k])) = {Head(ring[k])}
    <3>1. Head(ring[k]) \in Nat \ {0}
      BY <1>1, <1>2, Queues
    <3> QED BY <3>1, Hands
  <2>3. OnTheWay(k)' = OnTheWay(k)
    <3>1. OnTheWay(k)' = Hand(item[k]) \cup Els(chan[k]) \cup {Head(ring[k])} \cup Els(Tail(ring[k]))
      BY <1>2, <1>4, <2>1, <2>2 DEF OnTheWay
    <3> QED BY <1>5, <1>6, <3>1
  <2>4. \A o \in Kinds \ {k} : OnTheWay(o)' = OnTheWay(o)
    BY <1>2, <1>4, <2>1 DEF OnTheWay
  <2>5. \A o \in Kinds : Missed(o)' = Missed(o)
    BY <1>2, <1>7 DEF Missed
  <2> QED BY <1>3, <2>3, <2>4, <2>5, Unseen
<1>8. CASE undecoded' = [undecoded EXCEPT ![k] = @ + 1] /\ UNCHANGED record
  <2>1. undecoded'[k] = undecoded[k] + 1 /\ \A o \in Kinds \ {k} : undecoded'[o] = undecoded[o]
    BY <1>1, <1>8 DEF Counters
  <2>2. OnTheWay(k)' = OnTheWay(k) \ {Head(ring[k])}
    BY <1>2, <1>4, <1>6, <1>8 DEF OnTheWay
  <2>3. \A o \in Kinds \ {k} : OnTheWay(o)' = OnTheWay(o)
    BY <1>2, <1>4, <1>8 DEF OnTheWay
  <2>4. [o \in Kinds |-> OnTheWay(o)]' =
          [[o \in Kinds |-> OnTheWay(o)] EXCEPT ![k] = OnTheWay(k) \ {Head(ring[k])}]
    BY <2>2, <2>3, WayStep
  <2>5. Missed(k)' = Missed(k) + 1
    <3>1. dropped[k] \in Nat /\ undecoded[k] \in Nat /\ overflow[k] \in Nat
      BY <1>1 DEF Sized
    <3>2. dropped'[k] = dropped[k] /\ overflow'[k] = overflow[k]
      BY <1>2
    <3> QED BY <2>1, <3>1, <3>2 DEF Missed
  <2>6. \A o \in Kinds \ {k} : Missed(o)' = Missed(o)
    BY <1>2, <2>1 DEF Missed
  <2>7. [o \in Kinds |-> Missed(o)]' = [[o \in Kinds |-> Missed(o)] EXCEPT ![k] = Missed(k) + 1]
    BY <2>5, <2>6, MissedStep
  <2> QED BY <1>3, <1>6, <2>4, <2>7 DEF Contract!Lose
<1> QED BY <1>3, <1>7, <1>8 DEF Read

LEMMA SendUnseen ==
  ASSUME FlowInv, NEW k \in Kinds, Send(k), main # "reported"
  PROVE  UNCHANGED Contract!vars /\ Verdict = "none"
<1>1. Places /\ Sized(k) /\ HeldOf(k) /\ chan[k] \in Numbers
  BY KindFacts DEF FlowInv
<1>2. /\ reader[k] = "send" /\ chan' = [chan EXCEPT ![k] = Append(@, record[k])]
      /\ record' = [record EXCEPT ![k] = 0]
      /\ UNCHANGED <<emitted, stored, cancelled, main, item, ring, dropped, undecoded, overflow>>
  BY DEF Send, kernelVars, monitorVars, ctlVars
<1>3. UNCHANGED <<emitted, stored, cancelled, Verdict>> /\ Verdict = "none"
  BY <1>2 DEF Verdict
<1>4. /\ chan'[k] = Append(chan[k], record[k]) /\ record'[k] = 0 /\ record[k] \in Nat \ {0}
      /\ \A o \in Kinds \ {k} : chan'[o] = chan[o] /\ record'[o] = record[o]
  BY <1>1, <1>2 DEF Places, HeldOf, Sized
<1>5. /\ Hand(record[k]) = {record[k]} /\ Hand(record'[k]) = {}
      /\ Els(chan'[k]) = Els(chan[k]) \cup {record[k]}
  BY <1>1, <1>4, Hands, AppendEls
<1>6. OnTheWay(k)' = OnTheWay(k)
  BY <1>2, <1>5 DEF OnTheWay
<1>7. \A o \in Kinds \ {k} : OnTheWay(o)' = OnTheWay(o)
  BY <1>2, <1>4 DEF OnTheWay
<1>8. \A o \in Kinds : Missed(o)' = Missed(o)
  BY <1>2 DEF Missed
<1> QED BY <1>3, <1>6, <1>7, <1>8, Unseen

LEMMA ReceiveUnseen ==
  ASSUME FlowInv, OrderInv, NEW k \in Kinds, Receive(k), main # "reported"
  PROVE  UNCHANGED Contract!vars /\ Verdict = "none"
<1>1. Places /\ Sized(k) /\ HeldOf(k) /\ chan[k] \in Numbers /\ OrderOf(k)
  BY KindFacts DEF FlowInv, OrderInv
<1>2. /\ drain[k] = "receive" /\ chan[k] # <<>> /\ chan' = [chan EXCEPT ![k] = Tail(@)]
      /\ item' = [item EXCEPT ![k] = Head(chan[k])]
      /\ UNCHANGED <<emitted, stored, cancelled, main, record, ring, dropped, undecoded, overflow>>
  BY DEF Receive, kernelVars, ctlVars
<1>3. UNCHANGED <<emitted, stored, cancelled, Verdict>> /\ Verdict = "none"
  BY <1>2 DEF Verdict
<1>4. /\ chan'[k] = Tail(chan[k]) /\ item'[k] = Head(chan[k]) /\ item[k] = 0
      /\ \A o \in Kinds \ {k} : chan'[o] = chan[o] /\ item'[o] = item[o]
  BY <1>1, <1>2 DEF Places, HeldOf
<1>5. /\ Els(chan[k]) = {Head(chan[k])} \cup Els(Tail(chan[k]))
      /\ Hand(item[k]) = {} /\ Hand(item'[k]) = {Head(chan[k])}
  BY <1>1, <1>2, <1>4, QueueHead, Hands DEF OrderOf
<1>6. OnTheWay(k)' = OnTheWay(k)
  BY <1>2, <1>4, <1>5 DEF OnTheWay
<1>7. \A o \in Kinds \ {k} : OnTheWay(o)' = OnTheWay(o)
  BY <1>2, <1>4 DEF OnTheWay
<1>8. \A o \in Kinds : Missed(o)' = Missed(o)
  BY <1>2 DEF Missed
<1> QED BY <1>3, <1>6, <1>7, <1>8, Unseen

LEMMA StoreSeen ==
  ASSUME FlowInv, OrderInv, NEW k \in Kinds, Store(k), main # "reported"
  PROVE  (Contract!Keep(k) \/ Contract!Lose(k)) /\ Verdict = "none"
<1>1. Places /\ Counters /\ Sized(k) /\ HeldOf(k)
  BY KindFacts DEF FlowInv
<1>2. /\ drain[k] = "store" /\ item' = [item EXCEPT ![k] = 0]
      /\ UNCHANGED <<emitted, cancelled, main, chan, record, ring, dropped, undecoded>>
  BY DEF Store, kernelVars, readerVars, ctlVars
<1>3. UNCHANGED <<emitted, cancelled, Verdict>> /\ Verdict = "none"
  BY <1>2 DEF Verdict
<1>4. item[k] # 0 /\ item'[k] = 0 /\ \A o \in Kinds \ {k} : item'[o] = item[o]
  BY <1>1, <1>2 DEF Places, HeldOf
<1>5. /\ item[k] \in OnTheWay(k) /\ \A o \in OnTheWay(k) : item[k] <= o
      /\ OnTheWay(k) \ {item[k]} = Els(chan[k]) \cup Hand(record[k]) \cup Els(ring[k])
  BY <1>4, WayOf
<1>6. OnTheWay(k)' = OnTheWay(k) \ {item[k]}
  <2>1. Hand(item'[k]) = {}
    BY <1>4, Hands
  <2> QED BY <1>2, <1>5, <2>1 DEF OnTheWay
<1>7. \A o \in Kinds \ {k} : OnTheWay(o)' = OnTheWay(o)
  BY <1>2, <1>4 DEF OnTheWay
<1>8. [o \in Kinds |-> OnTheWay(o)]' =
        [[o \in Kinds |-> OnTheWay(o)] EXCEPT ![k] = OnTheWay(k) \ {item[k]}]
  BY <1>6, <1>7, WayStep
<1>9. CASE stored' = [stored EXCEPT ![k] = Append(@, item[k])] /\ UNCHANGED overflow
  <2>1. \A o \in Kinds : Missed(o)' = Missed(o)
    BY <1>2, <1>9 DEF Missed
  <2>2. [o \in Kinds |-> Missed(o)]' = [o \in Kinds |-> Missed(o)]
    BY <2>1
  <2> QED BY <1>3, <1>5, <1>8, <1>9, <2>2 DEF Contract!Keep
<1>10. CASE overflow' = [overflow EXCEPT ![k] = @ + 1] /\ UNCHANGED stored
  <2>1. overflow'[k] = overflow[k] + 1 /\ \A o \in Kinds \ {k} : overflow'[o] = overflow[o]
    BY <1>1, <1>10 DEF Counters
  <2>2. Missed(k)' = Missed(k) + 1
    BY <1>1, <1>2, <2>1 DEF Missed, Sized
  <2>3. \A o \in Kinds \ {k} : Missed(o)' = Missed(o)
    BY <1>2, <2>1 DEF Missed
  <2>4. [o \in Kinds |-> Missed(o)]' = [[o \in Kinds |-> Missed(o)] EXCEPT ![k] = Missed(k) + 1]
    BY <2>2, <2>3, MissedStep
  <2> QED BY <1>3, <1>5, <1>8, <1>10, <2>4 DEF Contract!Lose
<1> QED BY <1>3, <1>9, <1>10 DEF Store

LEMMA ReportSeen ==
  ASSUME FlowInv, CloseInv, ReportInv, Report
  PROVE  Contract!Conclude /\ Verdict = "none"
<1>1. /\ main = "wait" /\ main' = "reported" /\ \A k \in Kinds : drain[k] = "done"
      /\ UNCHANGED <<emitted, stored, cancelled, ring, chan, record, item>>
      /\ UNCHANGED <<dropped, undecoded, overflow, violations, violationOverflow, final>>
  BY DEF Report, kernelVars, readerVars, monitorVars
<1>2. ASSUME ~ cancelled, NEW k \in Kinds PROVE OnTheWay(k) = {}
  <2>1. chan[k] = <<>> /\ reader[k] = "gone" /\ ring[k] = <<>>
    BY <1>1, <1>2 DEF ReportInv, Ended, CloseInv
  <2>2. HeldOf(k)
    BY KindFacts
  <2>3. record[k] = 0 /\ item[k] = 0
    BY <1>1, <2>1, <2>2 DEF HeldOf
  <2>4. Els(<<>>) = {} /\ Hand(0) = {}
    BY DEF Els, Hand
  <2> QED BY <2>1, <2>3, <2>4 DEF OnTheWay
<1>3. ASSUME Verdict' = "clean", NEW k \in Kinds
      PROVE  Missed(k) = 0 /\ \A i \in 1..Len(stored[k]) : << k, stored[k][i] >> \notin Bad
  <2>1. violations = 0 /\ ~ final.err /\ ~ (final.dropped[k] + overflow[k] > 0)
    BY <1>1, <1>3 DEF Verdict, CleanReport, EventsLost, LossUnknown
  <2>2. final.dropped[k] = dropped[k] + undecoded[k]
    BY <1>1, <2>1 DEF ReportInv, Frozen
  <2>3. Sized(k)
    BY KindFacts
  <2>4. Missed(k) = 0
    BY <2>1, <2>2, <2>3 DEF Missed, Sized
  <2>5. NoneBad
    BY <2>1 DEF ReportInv
  <2> QED BY <2>4, <2>5 DEF NoneBad, Els
<1>4. Verdict = "none" /\ Verdict' \in {"clean", "findings"}
  BY <1>1 DEF Verdict
<1>5. \A k \in Kinds : OnTheWay(k)' = OnTheWay(k) /\ Missed(k)' = Missed(k)
  BY <1>1 DEF OnTheWay, Missed
<1>6. /\ [k \in Kinds |-> OnTheWay(k)]' = [k \in Kinds |-> OnTheWay(k)]
      /\ [k \in Kinds |-> Missed(k)]' = [k \in Kinds |-> Missed(k)]
  BY <1>5
<1>7. cancelled \/ \A k \in Kinds : [o \in Kinds |-> OnTheWay(o)][k] = {}
  BY <1>2
<1>8. Verdict' = "clean" => Contract!Whole
  BY <1>3 DEF Contract!Whole
<1> QED BY <1>1, <1>4, <1>6, <1>7, <1>8 DEF Contract!Conclude

(* Nothing moves once the report is written. *)
LEMMA OverUnseen ==
  ASSUME CloseInv, ReportInv, [Next]_vars, main = "reported"
  PROVE  UNCHANGED Contract!vars
<1>1. \A k \in Kinds : k \notin attached /\ reader[k] = "gone" /\ drain[k] = "done"
  BY DEF CloseInv, ReportInv, Ended
<1>2. WatcherStep \/ Finished \/ UNCHANGED vars
  BY <1>1 DEF Next, Emit, ReaderStep, Read, Send, ReaderReturns, DrainStep, Receive, Store,
     DrainReturns, Cancel, BuildReturns, CloseStep, Detach, Detached, Flush, Flushed, Joined,
     Counted, Report
<1>3. /\ UNCHANGED <<emitted, stored, cancelled, ring, chan, record, item, dropped, undecoded>>
      /\ UNCHANGED <<overflow, main, violations, violationOverflow, final>>
  BY <1>2 DEF WatcherStep, WatcherCloses, WatcherReturns, Finished, vars, kernelVars, readerVars,
     monitorVars, ctlVars
<1>4. \A k \in Kinds : OnTheWay(k)' = OnTheWay(k) /\ Missed(k)' = Missed(k)
  BY <1>3 DEF OnTheWay, Missed
<1>5. Verdict' = Verdict
  BY <1>3 DEF Verdict, CleanReport, EventsLost, LossUnknown, ViolationsNotStored,
     ScopeRecordedNothing
<1> QED BY <1>3, <1>4, <1>5, Unseen

(* The other steps move no event. *)
LEMMA QuietUnseen ==
  ASSUME main # "reported", main' # "reported", UNCHANGED <<emitted, stored, cancelled>>,
         UNCHANGED <<ring, chan, record, item, dropped, undecoded, overflow>>
  PROVE  UNCHANGED Contract!vars
<1>1. \A k \in Kinds : OnTheWay(k)' = OnTheWay(k) /\ Missed(k)' = Missed(k)
  BY DEF OnTheWay, Missed
<1>2. Verdict' = Verdict
  BY DEF Verdict
<1> QED BY <1>1, <1>2, Unseen

LEMMA CancelSeen ==
  ASSUME Cancel
  PROVE  Contract!Cut /\ Verdict = "none"
<1>1. /\ main # "reported" /\ cancelled' = TRUE /\ main' = main /\ UNCHANGED <<emitted, stored>>
      /\ UNCHANGED <<ring, chan, record, item, dropped, undecoded, overflow>>
  BY DEF Cancel, kernelVars, readerVars, monitorVars
<1>2. \A k \in Kinds : OnTheWay(k)' = OnTheWay(k) /\ Missed(k)' = Missed(k)
  BY <1>1 DEF OnTheWay, Missed
<1>3. /\ [k \in Kinds |-> OnTheWay(k)]' = [k \in Kinds |-> OnTheWay(k)]
      /\ [k \in Kinds |-> Missed(k)]' = [k \in Kinds |-> Missed(k)]
  BY <1>2
<1>4. Verdict' = Verdict /\ Verdict = "none"
  BY <1>1 DEF Verdict
<1> QED BY <1>1, <1>3, <1>4 DEF Contract!Cut

LEMMA ContractStep ==
  ASSUME FlowInv, CloseInv, OrderInv, ReportInv, [Next]_vars
  PROVE  [Contract!Next]_(Contract!vars)
<1>1. CASE main = "reported"
  BY <1>1, OverUnseen
<1>2. CASE main # "reported"
  <2>1. ASSUME NEW k \in Kinds, Emit(k) PROVE Contract!Next
    BY <1>2, <2>1, EmitSeen DEF Contract!Next
  <2>2. ASSUME NEW k \in Kinds, Read(k) PROVE [Contract!Next]_(Contract!vars)
    BY <1>2, <2>2, ReadSeen DEF Contract!Next
  <2>3. ASSUME NEW k \in Kinds, Send(k) PROVE UNCHANGED Contract!vars
    BY <1>2, <2>3, SendUnseen
  <2>4. ASSUME NEW k \in Kinds, Receive(k) PROVE UNCHANGED Contract!vars
    BY <1>2, <2>4, ReceiveUnseen
  <2>5. ASSUME NEW k \in Kinds, Store(k) PROVE Contract!Next
    BY <1>2, <2>5, StoreSeen DEF Contract!Next
  <2>6. CASE Cancel
    BY <2>6, CancelSeen DEF Contract!Next
  <2>7. CASE Report
    BY <2>7, ReportSeen DEF Contract!Next
  <2>8. ASSUME NEW k \in Kinds,
               ReaderReturns(k) \/ DrainReturns(k) \/ WatcherCloses(k) \/ Detach(k) \/ Flush(k)
        PROVE  UNCHANGED Contract!vars
    <3>1. /\ main' = main /\ UNCHANGED <<emitted, stored, cancelled>>
          /\ UNCHANGED <<ring, chan, record, item, dropped, undecoded, overflow>>
      BY <2>8 DEF ReaderReturns, DrainReturns, WatcherCloses, Detach, Flush, kernelVars,
         readerVars, monitorVars, ctlVars
    <3> QED BY <1>2, <3>1, QuietUnseen
  <2>9. CASE \/ WatcherReturns \/ BuildReturns \/ Detached \/ Flushed \/ Joined \/ Counted
             \/ Finished \/ UNCHANGED vars
    <3>1. /\ main' # "reported" /\ UNCHANGED <<emitted, stored, cancelled>>
          /\ UNCHANGED <<ring, chan, record, item, dropped, undecoded, overflow>>
      BY <1>2, <2>9 DEF WatcherReturns, BuildReturns, Detached, Flushed, Joined, Counted,
         Finished, vars, kernelVars, readerVars, monitorVars, ctlVars
    <3> QED BY <1>2, <3>1, QuietUnseen
  <2> QED BY <2>1, <2>2, <2>3, <2>4, <2>5, <2>6, <2>7, <2>8, <2>9
          DEF Next, ReaderStep, DrainStep, WatcherStep, CloseStep
<1> QED BY <1>1, <1>2

LEMMA ContractInit == Init => Contract!Init
<1> SUFFICES ASSUME Init PROVE Contract!Init
  OBVIOUS
<1>1. Els(<<>>) = {} /\ Hand(0) = {}
  BY DEF Els, Hand
<1>2. \A k \in Kinds : OnTheWay(k) = {} /\ Missed(k) = 0
  BY <1>1 DEF Init, OnTheWay, Missed
<1>3. /\ [k \in Kinds |-> OnTheWay(k)] = [k \in Kinds |-> {}]
      /\ [k \in Kinds |-> Missed(k)] = [k \in Kinds |-> 0]
  BY <1>2
<1>4. Verdict = "none"
  BY DEF Init, Verdict
<1> QED BY <1>3, <1>4 DEF Init, Contract!Init

(* The pipeline with its rings, goroutines, caps and Close implements the
   contract of a report: for any kinds and events, any set of breaking events and
   any capacities, each step keeps an event in its turn, loses and counts it, or
   is not seen, and the verdict is clean only if nothing was lost or bad. *)
THEOREM EventContractImplemented == Spec => ImplementsContract
<1> DEFINE Inv == FlowInv /\ CloseInv /\ OrderInv /\ ReportInv
<1>1. Init => Inv
  BY InitInv, InitOrder, InitReport
<1>2. Inv /\ [Next]_vars => Inv'
  BY NextInv, NextOrder, NextReport
<1>3. Init => Contract!Init
  BY ContractInit
<1>4. Inv /\ [Next]_vars => [Contract!Next]_(Contract!vars)
  BY ContractStep
<1> QED BY <1>1, <1>2, <1>3, <1>4, PTL DEF Spec, ImplementsContract, Contract!Spec
-----------------------------------------------------------------------------
(* The breaches of the policy among the events that have left the way, which is
   what the monitor has judged as long as none was lost. *)
Judged == {b \in Bad : b[2] <= emitted[b[1]] /\ b[2] \notin OnTheWay(b[1])}

Unlost == \A k \in Kinds : dropped[k] = 0 /\ undecoded[k] = 0

BreachInv ==
  /\ violations \in 0..ViolationCap /\ violationOverflow \in Nat
  /\ violationOverflow > 0 => violations = ViolationCap
  /\ Unlost => IsFiniteSet(Judged) /\ Cardinality(Judged) = violations + violationOverflow

(* A step that moves no event off the way judges none. *)
LEMMA SameBreaches ==
  ASSUME BreachInv, UNCHANGED <<violations, violationOverflow>>, Unlost' => Unlost,
         Unlost' => \A k \in Kinds : \A n \in Nat \ {0} :
           n <= emitted'[k] /\ n \notin OnTheWay(k)' <=> n <= emitted[k] /\ n \notin OnTheWay(k)
  PROVE  BreachInv'
<1>1. ASSUME Unlost' PROVE Judged' = Judged
  <2>1. ASSUME NEW b \in Bad PROVE b \in Judged' <=> b \in Judged
    <3>1. b[1] \in Kinds /\ b[2] \in Nat \ {0}
      BY PipelineAssumption
    <3> QED BY <1>1, <3>1 DEF Judged
  <2> QED BY <2>1 DEF Judged
<1> QED BY <1>1 DEF BreachInv

LEMMA UnseenBreaches ==
  ASSUME BreachInv, UNCHANGED <<violations, violationOverflow, dropped, undecoded>>,
         UNCHANGED Contract!vars
  PROVE  BreachInv'
<1>1. emitted' = emitted /\ [k \in Kinds |-> OnTheWay(k)]' = [k \in Kinds |-> OnTheWay(k)]
  BY DEF Contract!vars
<1>2. \A k \in Kinds : OnTheWay(k)' = OnTheWay(k)
  <2> SUFFICES ASSUME NEW k \in Kinds PROVE OnTheWay(k)' = OnTheWay(k)
    OBVIOUS
  <2>1. [o \in Kinds |-> OnTheWay(o)]'[k] = [o \in Kinds |-> OnTheWay(o)][k]
    BY <1>1
  <2> QED BY <2>1
<1>3. Unlost' => Unlost
  BY DEF Unlost
<1> QED BY <1>1, <1>2, <1>3, SameBreaches

LEMMA EmitBreaches ==
  ASSUME FlowInv, OrderInv, BreachInv, NEW k \in Kinds, Emit(k)
  PROVE  BreachInv'
<1>1. Places /\ Counters /\ Sized(k) /\ ring[k] \in Numbers /\ emitted[k] + 1 \in Nat \ {0}
  BY KindFacts DEF FlowInv, Sized
<1>2. /\ emitted' = [emitted EXCEPT ![k] = @ + 1]
      /\ UNCHANGED <<item, chan, record, undecoded, violations, violationOverflow>>
  BY DEF Emit, readerVars, monitorVars
<1>3. CASE ring' = [ring EXCEPT ![k] = Append(@, emitted[k] + 1)] /\ UNCHANGED dropped
  <2>1. /\ ring'[k] = Append(ring[k], emitted[k] + 1) /\ emitted'[k] = emitted[k] + 1
        /\ \A o \in Kinds \ {k} : ring'[o] = ring[o] /\ emitted'[o] = emitted[o]
    BY <1>1, <1>2, <1>3 DEF Places, Counters
  <2>2. Els(ring'[k]) = Els(ring[k]) \cup {emitted[k] + 1}
    BY <1>1, <2>1, AppendEls
  <2>3. OnTheWay(k)' = OnTheWay(k) \cup {emitted[k] + 1}
    BY <1>2, <2>2 DEF OnTheWay
  <2>4. \A o \in Kinds \ {k} : OnTheWay(o)' = OnTheWay(o)
    BY <1>2, <2>1 DEF OnTheWay
  <2>5. \A n \in Nat \ {0} : n <= emitted[k] + 1 /\ n # emitted[k] + 1 <=> n <= emitted[k]
    BY <1>1 DEF Sized
  <2>6. \A o \in Kinds : \A n \in Nat \ {0} :
          n <= emitted'[o] /\ n \notin OnTheWay(o)' <=> n <= emitted[o] /\ n \notin OnTheWay(o)
    BY <2>1, <2>3, <2>4, <2>5
  <2>7. Unlost' => Unlost
    BY <1>2, <1>3 DEF Unlost
  <2> QED BY <1>2, <2>6, <2>7, SameBreaches
<1>4. CASE dropped' = [dropped EXCEPT ![k] = @ + 1]
  <2>1. dropped'[k] # 0
    BY <1>1, <1>4 DEF Counters, Sized
  <2>2. ~ Unlost'
    BY <2>1 DEF Unlost
  <2> QED BY <1>2, <2>2 DEF BreachInv
<1> QED BY <1>3, <1>4 DEF Emit

LEMMA ReadBreaches ==
  ASSUME FlowInv, OrderInv, BreachInv, NEW k \in Kinds, Read(k), main # "reported"
  PROVE  BreachInv'
<1>1. Counters /\ Sized(k) /\ UNCHANGED <<dropped, violations, violationOverflow, overflow>>
  BY KindFacts DEF FlowInv, Read, monitorVars
<1>2. CASE undecoded' = [undecoded EXCEPT ![k] = @ + 1]
  <2>1. undecoded'[k] # 0
    BY <1>1, <1>2 DEF Counters, Sized
  <2>2. ~ Unlost'
    BY <2>1 DEF Unlost
  <2> QED BY <1>1, <2>2 DEF BreachInv
<1>3. CASE UNCHANGED undecoded
  <2>1. Missed(k)' = Missed(k) /\ Missed(k) \in Nat
    BY <1>1, <1>3 DEF Missed, Sized
  <2>2. ASSUME Contract!Lose(k) PROVE FALSE
    <3>1. [o \in Kinds |-> Missed(o)]' = [[o \in Kinds |-> Missed(o)] EXCEPT ![k] = @ + 1]
      BY <2>2 DEF Contract!Lose
    <3>2. [o \in Kinds |-> Missed(o)]'[k] = Missed(k) + 1
      BY <3>1
    <3> QED BY <2>1, <3>2
  <2>3. UNCHANGED Contract!vars
    BY <2>2, ReadSeen
  <2> QED BY <1>1, <1>3, <2>3, UnseenBreaches
<1> QED BY <1>2, <1>3 DEF Read

(* Store judges the item, whether it is stored or over the cap. *)
LEMMA StoreBreaches ==
  ASSUME FlowInv, OrderInv, BreachInv, NEW k \in Kinds, Store(k)
  PROVE  BreachInv'
<1> DEFINE n == item[k] b == << k, n >>
<1>1. Places /\ Counters /\ Sized(k) /\ HeldOf(k) /\ drain[k] = "store"
  BY KindFacts DEF FlowInv, Store
<1>2. /\ item' = [item EXCEPT ![k] = 0] /\ UNCHANGED <<emitted, chan, record, ring, dropped, undecoded>>
  BY DEF Store, kernelVars, readerVars
<1>3. n \in Nat \ {0} /\ item'[k] = 0 /\ \A o \in Kinds \ {k} : item'[o] = item[o]
  BY <1>1, <1>2 DEF Places, HeldOf, Sized
<1>4. /\ n \in OnTheWay(k) /\ n <= emitted[k]
      /\ OnTheWay(k) \ {n} = Els(chan[k]) \cup Hand(record[k]) \cup Els(ring[k])
  <2>1. Hand(item[k]) = {n} /\ OrderOf(k)
    BY <1>3, Hands DEF OrderInv
  <2>2. n \in 1..emitted[k]
    BY <2>1 DEF OrderOf, Stages
  <2> QED BY <1>1, <1>3, <2>2, WayOf DEF Sized
<1>5. OnTheWay(k)' = OnTheWay(k) \ {n}
  BY <1>2, <1>3, <1>4, Hands DEF OnTheWay
<1>6. \A o \in Kinds \ {k} : OnTheWay(o)' = OnTheWay(o)
  BY <1>2, <1>3 DEF OnTheWay
<1>7. b \notin Judged /\ Judged' = IF b \in Bad THEN Judged \cup {b} ELSE Judged
  <2>1. b \notin Judged
    BY <1>4 DEF Judged
  <2>2. ASSUME NEW a \in Bad PROVE a \in Judged' <=> a \in Judged \/ a = b
    <3>1. a[1] \in Kinds /\ a = << a[1], a[2] >>
      BY PipelineAssumption
    <3>2. CASE a[1] # k
      BY <1>2, <1>6, <3>1, <3>2 DEF Judged
    <3>3. CASE a[1] = k /\ a[2] # n
      BY <1>2, <1>5, <3>1, <3>3 DEF Judged
    <3>4. CASE a[1] = k /\ a[2] = n
      <4>1. a = b /\ a[2] \notin OnTheWay(a[1])' /\ a[2] <= emitted'[a[1]]
        BY <1>2, <1>4, <1>5, <3>1, <3>4
      <4> QED BY <4>1 DEF Judged
    <3> QED BY <3>2, <3>3, <3>4
  <2>3. Judged \subseteq Bad /\ Judged' \subseteq Bad
    BY DEF Judged
  <2> QED BY <2>1, <2>2, <2>3
<1>8. /\ violations' = IF b \in Bad /\ violations < ViolationCap THEN violations + 1 ELSE violations
      /\ violationOverflow' =
           IF b \in Bad /\ violations >= ViolationCap THEN violationOverflow + 1 ELSE violationOverflow
  BY DEF Store
<1> HIDE DEF b
<1>9. /\ violations' \in 0..ViolationCap /\ violationOverflow' \in Nat
      /\ violationOverflow' > 0 => violations' = ViolationCap
      /\ violations' + violationOverflow' =
           violations + violationOverflow + IF b \in Bad THEN 1 ELSE 0
  BY <1>8, PipelineAssumption DEF BreachInv
<1>10. ASSUME Unlost'
       PROVE  IsFiniteSet(Judged') /\ Cardinality(Judged') = violations' + violationOverflow'
  <2>1. IsFiniteSet(Judged) /\ Cardinality(Judged) = violations + violationOverflow
    BY <1>2, <1>10 DEF Unlost, BreachInv
  <2>2. CASE b \in Bad
    <3>1. Judged' = Judged \cup {b}
      BY <1>7, <2>2
    <3>2. IsFiniteSet(Judged \cup {b}) /\ Cardinality(Judged \cup {b}) = Cardinality(Judged) + 1
      BY <1>7, <2>1, FS_AddElement
    <3> QED BY <1>9, <2>1, <2>2, <3>1, <3>2
  <2>3. CASE b \notin Bad
    <3>1. Judged' = Judged
      BY <1>7, <2>3
    <3>2. violations' + violationOverflow' = violations + violationOverflow
      BY <1>8, <2>3
    <3> QED BY <2>1, <3>1, <3>2
  <2> QED BY <2>2, <2>3
<1> QED BY <1>9, <1>10 DEF BreachInv

LEMMA NextBreaches ==
  ASSUME FlowInv, CloseInv, OrderInv, ReportInv, BreachInv, [Next]_vars
  PROVE  BreachInv'
<1>1. ASSUME NEW k \in Kinds, Emit(k) PROVE BreachInv'
  BY <1>1, EmitBreaches
<1>2. ASSUME NEW k \in Kinds, Store(k) PROVE BreachInv'
  BY <1>2, StoreBreaches
<1>3. ASSUME NEW k \in Kinds, Read(k) PROVE BreachInv'
  <2>1. main # "reported"
    BY <1>3 DEF Read, CloseInv
  <2> QED BY <1>3, <2>1, ReadBreaches
<1>4. ASSUME NEW k \in Kinds, Send(k) \/ Receive(k) PROVE BreachInv'
  <2>1. main # "reported"
    BY <1>4 DEF Send, Receive, CloseInv, ReportInv, Ended
  <2>2. UNCHANGED Contract!vars
    BY <1>4, <2>1, SendUnseen, ReceiveUnseen
  <2>3. UNCHANGED <<violations, violationOverflow, dropped, undecoded>>
    BY <1>4 DEF Send, Receive, kernelVars, monitorVars
  <2> QED BY <2>2, <2>3, UnseenBreaches
<1>5. ASSUME NEW k \in Kinds, ReaderReturns(k) \/ DrainReturns(k) PROVE BreachInv'
  <2>1. /\ UNCHANGED <<emitted, item, chan, record, ring>>
        /\ UNCHANGED <<violations, violationOverflow, dropped, undecoded>>
    BY <1>5 DEF ReaderReturns, DrainReturns, kernelVars, readerVars, monitorVars
  <2> QED BY <2>1, SameBreaches DEF OnTheWay, Unlost
<1>6. CASE Control
  <2>1. /\ UNCHANGED <<emitted, item, chan, record, ring>>
        /\ UNCHANGED <<violations, violationOverflow, dropped, undecoded>>
    BY <1>6 DEF Control, Cancel, WatcherStep, WatcherCloses, WatcherReturns, BuildReturns, CloseStep,
       Detach, Detached, Flush, Flushed, Joined, Counted, Report, Finished,
       vars, kernelVars, readerVars, monitorVars
  <2> QED BY <2>1, SameBreaches DEF OnTheWay, Unlost
<1> QED BY <1>1, <1>2, <1>3, <1>4, <1>5, <1>6 DEF Next, ReaderStep, DrainStep, Control

LEMMA InitBreaches == Init => BreachInv
<1> SUFFICES ASSUME Init PROVE BreachInv
  OBVIOUS
<1>1. Judged = {}
  <2>1. ASSUME NEW b \in Bad PROVE ~ (b[2] <= emitted[b[1]])
    BY PipelineAssumption DEF Init
  <2> QED BY <2>1 DEF Judged
<1> QED BY <1>1, FS_EmptySet, PipelineAssumption DEF Init, BreachInv

LEMMA InvBreaches == FlowInv /\ CloseInv /\ ReportInv /\ BreachInv => BreachesCounted
<1> SUFFICES ASSUME FlowInv, CloseInv, ReportInv, BreachInv, main = "reported", ~ cancelled,
                    ~ LossUnknown, \A k \in Kinds : final.dropped[k] = 0
             PROVE  /\ violations + violationOverflow = Cardinality({b \in Bad : b[2] <= emitted[b[1]]})
                    /\ violationOverflow > 0 => violations = ViolationCap
  BY DEF BreachesCounted
<1>1. ASSUME NEW k \in Kinds PROVE dropped[k] = 0 /\ undecoded[k] = 0
  <2>1. final.dropped[k] = dropped[k] + undecoded[k] /\ final.dropped[k] = 0
    BY DEF LossUnknown, ReportInv, Frozen
  <2>2. Sized(k)
    BY KindFacts
  <2> QED BY <2>1, <2>2 DEF Sized
<1>2. ASSUME NEW k \in Kinds PROVE OnTheWay(k) = {}
  <2>1. drain[k] = "done" /\ reader[k] = "gone" /\ chan[k] = <<>> /\ ring[k] = <<>> /\ HeldOf(k)
    BY KindFacts DEF ReportInv, Ended, CloseInv
  <2>2. record[k] = 0 /\ item[k] = 0
    BY <2>1 DEF HeldOf
  <2>3. Els(<<>>) = {}
    BY DEF Els
  <2> QED BY <2>1, <2>2, <2>3, Hands DEF OnTheWay
<1>3. Judged = {b \in Bad : b[2] <= emitted[b[1]]}
  BY <1>2, PipelineAssumption DEF Judged
<1>4. Unlost
  BY <1>1 DEF Unlost
<1> QED BY <1>3, <1>4 DEF BreachInv

(* Every event that breaks the policy is counted once, as a violation or over
   the cap of violations, in the report of a run that was not interrupted and
   lost none on the way, also when the store was full long before: for any kinds
   and events, any set of breaking events, and any capacities. *)
THEOREM BreachesCountedHolds == Spec => []BreachesCounted
<1> DEFINE Inv == FlowInv /\ CloseInv /\ OrderInv /\ ReportInv /\ BreachInv
<1>1. Init => Inv
  BY InitInv, InitOrder, InitReport, InitBreaches
<1>2. Inv /\ [Next]_vars => Inv'
  BY NextInv, NextOrder, NextReport, NextBreaches
<1>3. Inv => BreachesCounted
  BY InvBreaches
<1> QED BY <1>1, <1>2, <1>3, PTL DEF Spec

-----------------------------------------------------------------------------
(* The run ends whatever the sizes are, up to fairness.  First, nobody waits on
   everybody: what the goroutines can do next is the guards of their actions. *)
ReaderCan(k) ==
  \/ reader[k] = "read" /\ readerMode[k] # "closed" /\ ring[k] # <<>>
  \/ reader[k] = "send" /\ Len(chan[k]) < ChanCap
  \/ reader[k] = "read" /\ RingDone(k)

DrainCan(k) ==
  \/ drain[k] = "receive" /\ (chan[k] # <<>> \/ reader[k] = "gone")
  \/ drain[k] = "store"

WatcherCan == watcher = "waiting" /\ WatcherWoken

CloseCan ==
  \/ main \in {"detach", "flush"}
  \/ main = "join" /\ \A k \in Kinds : reader[k] = "gone"
  \/ main = "watch" /\ watcher = "gone"
  \/ main = "wait" /\ \A k \in Kinds : drain[k] = "done"

NeverStuck ==
  main \notin {"build", "reported"} =>
    CloseCan \/ WatcherCan \/ \E k \in Kinds : ReaderCan(k) \/ DrainCan(k)

(* Close has flushed or found closed every reader it joins, and has closed the
   channel the watcher waits on before it waits for the watcher. *)
PhaseInv ==
  /\ main \in {"build", "detach", "flush", "join", "watch", "wait", "reported"}
  /\ watcher \in {"waiting", "gone"}
  /\ main \notin {"build", "detach", "flush"} => \A k \in Kinds : readerMode[k] # "open"
  /\ main \in {"watch", "wait", "reported"} => done

LEMMA NextPhase ==
  ASSUME FlowInv, PhaseInv, [Next]_vars
  PROVE  PhaseInv'
<1>1. Modes
  BY DEF FlowInv
<1>2. ASSUME NEW k \in Kinds, Emit(k) \/ ReaderStep(k) \/ DrainStep(k) \/ Detach(k) PROVE PhaseInv'
  <2>1. UNCHANGED <<readerMode, main, watcher, done>>
    BY <1>2 DEF Emit, ReaderStep, Read, Send, ReaderReturns, DrainStep, Receive, Store,
       DrainReturns, Detach, readerVars, ctlVars
  <2> QED BY <2>1 DEF PhaseInv
<1>3. ASSUME NEW k \in Kinds, WatcherCloses(k) \/ Flush(k) PROVE PhaseInv'
  <2>1. /\ UNCHANGED <<main, watcher, done>> /\ readerMode'[k] # "open"
        /\ \A o \in Kinds \ {k} : readerMode'[o] = readerMode[o]
    BY <1>1, <1>3 DEF WatcherCloses, Flush, ctlVars, Modes
  <2> QED BY <2>1 DEF PhaseInv
<1>4. CASE Cancel \/ WatcherReturns \/ Finished \/ UNCHANGED vars
  BY <1>4 DEF Cancel, WatcherReturns, Finished, vars, readerVars, ctlVars, PhaseInv
<1>5. CASE BuildReturns \/ Detached \/ Flushed
  BY <1>5 DEF BuildReturns, Detached, Flushed, readerVars, PhaseInv
<1>6. CASE Joined \/ Counted \/ Report
  BY <1>6 DEF Joined, Counted, Report, readerVars, PhaseInv
<1> QED BY <1>2, <1>3, <1>4, <1>5, <1>6 DEF Next, WatcherStep, CloseStep

LEMMA InvNeverStuck == FlowInv /\ CloseInv /\ Ended /\ PhaseInv => NeverStuck
<1> SUFFICES ASSUME FlowInv, CloseInv, Ended, PhaseInv, main \notin {"build", "reported"},
                    ~ CloseCan, ~ WatcherCan
             PROVE  \E k \in Kinds : ReaderCan(k) \/ DrainCan(k)
  BY DEF NeverStuck
<1>1. Modes
  BY DEF FlowInv
<1>2. CASE main = "join"
  <2>1. PICK k \in Kinds : reader[k] # "gone"
    BY <1>2 DEF CloseCan
  <2>2. CASE reader[k] = "read"
    <3>1. readerMode[k] \in {"flushed", "closed"}
      BY <1>1, <1>2 DEF PhaseInv, Modes
    <3> QED BY <2>2, <3>1 DEF ReaderCan, RingDone
  <2>3. CASE reader[k] = "send"
    <3>1. CASE Len(chan[k]) < ChanCap
      BY <2>3, <3>1 DEF ReaderCan
    <3>2. CASE ~ (Len(chan[k]) < ChanCap)
      <4>1. chan[k] # <<>>
        BY <3>2, PipelineAssumption
      <4>2. drain[k] \in {"receive", "store"}
        BY <1>1, <4>1 DEF Ended, Modes
      <4> QED BY <4>1, <4>2 DEF DrainCan
    <3> QED BY <3>1, <3>2
  <2> QED BY <1>1, <2>1, <2>2, <2>3 DEF Modes
<1>3. CASE main = "wait"
  <2>1. PICK k \in Kinds : drain[k] # "done"
    BY <1>3 DEF CloseCan
  <2>2. reader[k] = "gone"
    BY <1>3 DEF CloseInv
  <2>3. drain[k] \in {"receive", "store"}
    BY <1>1, <2>1 DEF Modes
  <2> QED BY <2>2, <2>3 DEF DrainCan
<1>4. main \in {"join", "wait"}
  BY DEF PhaseInv, CloseCan, WatcherCan, WatcherWoken
<1> QED BY <1>2, <1>3, <1>4

(* Between the end of the build and the report some goroutine can always go on:
   a full channel, a flushed ring, the watcher nobody woke and a monitor that
   waits for its readers never add up to a deadlock, for any kinds and any
   capacities. *)
THEOREM NeverStuckHolds == Spec => []NeverStuck
<1> DEFINE Inv == FlowInv /\ CloseInv /\ Ended /\ PhaseInv
<1>1. Init => Inv
  <2>1. Init => PhaseInv
    BY DEF Init, PhaseInv
  <2>2. Init => Ended
    BY DEF Init, Ended
  <2> QED BY <2>1, <2>2, InitInv
<1>2. Inv /\ [Next]_vars => Inv'
  BY NextInv, NextEnded, NextPhase
<1>3. Inv => NeverStuck
  BY InvNeverStuck
<1> QED BY <1>1, <1>2, <1>3, PTL DEF Spec

(* Second, no goroutine runs in circles: what is left to do for a kind, and
   outside the kinds, in steps. *)
ModeRank(m) == IF m = "open" THEN 2 ELSE IF m = "flushed" THEN 1 ELSE 0

Still(state, last) == IF state # last THEN 1 ELSE 0

Work(k) ==
  4 * Size(ring[k]) + 3 * One(record[k]) + 2 * Size(chan[k]) + One(item[k])
  + Still(reader[k], "gone") + Still(drain[k], "done") + ModeRank(readerMode[k])

Phase(m) ==
  IF m = "build" THEN 6 ELSE IF m = "detach" THEN 5 ELSE IF m = "flush" THEN 4
  ELSE IF m = "join" THEN 3 ELSE IF m = "watch" THEN 2 ELSE IF m = "wait" THEN 1 ELSE 0

Uncut == IF cancelled THEN 0 ELSE 1

Rest == Phase(main) + Still(watcher, "gone") + Uncut

Nearer ==
  /\ \A k \in Kinds : Work(k) \in Nat /\ Work(k)' <= Work(k)
  /\ Rest \in Nat /\ Rest' <= Rest
  /\ Rest' < Rest \/ \E k \in Kinds : Work(k)' < Work(k)

LEMMA Ranks ==
  /\ \A k \in Kinds :
       /\ Still(reader[k], "gone") \in Nat /\ Still(drain[k], "done") \in Nat
       /\ Still(reader'[k], "gone") \in Nat /\ Still(drain'[k], "done") \in Nat
       /\ ModeRank(readerMode[k]) \in Nat
  /\ Phase(main) \in Nat /\ Still(watcher, "gone") \in Nat /\ Uncut \in Nat
  /\ Phase(main') \in Nat /\ Still(watcher', "gone") \in Nat /\ Uncut' \in Nat
BY DEF Still, ModeRank, Phase, Uncut

LEMMA WorkNat ==
  ASSUME FlowInv
  PROVE  \A k \in Kinds : Work(k) \in Nat
<1> SUFFICES ASSUME NEW k \in Kinds PROVE Work(k) \in Nat
  OBVIOUS
<1>1. Sized(k)
  BY KindFacts
<1> QED BY <1>1, Ranks DEF Work, Sized

LEMMA RestNat == Rest \in Nat /\ Rest' \in Nat
BY Ranks DEF Rest

(* A step about kind k. *)
LEMMA KindNearer ==
  ASSUME FlowInv, NEW k \in Kinds, NEW d \in Nat \ {0}, Work(k)' = Work(k) - d,
         UNCHANGED <<main, watcher, cancelled>>,
         \A o \in Kinds \ {k} :
           /\ ring'[o] = ring[o] /\ record'[o] = record[o] /\ chan'[o] = chan[o]
           /\ item'[o] = item[o] /\ reader'[o] = reader[o] /\ drain'[o] = drain[o]
           /\ readerMode'[o] = readerMode[o]
  PROVE  Nearer
<1>1. \A o \in Kinds : Work(o) \in Nat
  BY WorkNat
<1>2. \A o \in Kinds \ {k} : Work(o)' = Work(o)
  BY DEF Work
<1>3. Rest \in Nat /\ Rest' = Rest
  BY RestNat DEF Rest, Uncut
<1>4. ASSUME NEW o \in Kinds PROVE Work(o)' <= Work(o)
  <2>1. CASE o = k
    BY <2>1, <1>1
  <2>2. CASE o # k
    BY <2>2, <1>1, <1>2
  <2> QED BY <2>1, <2>2
<1>5. Work(k)' < Work(k)
  BY <1>1
<1> QED BY <1>1, <1>3, <1>4, <1>5 DEF Nearer

(* A step about no kind. *)
LEMMA RestNearer ==
  ASSUME FlowInv, Rest' < Rest,
         UNCHANGED <<ring, record, chan, item, reader, drain, readerMode>>
  PROVE  Nearer
<1>1. \A k \in Kinds : Work(k) \in Nat /\ Work(k)' = Work(k)
  BY WorkNat DEF Work
<1>2. Rest \in Nat /\ Rest' \in Nat
  BY RestNat
<1> QED BY <1>1, <1>2 DEF Nearer

LEMMA ReadNearer ==
  ASSUME FlowInv, NEW k \in Kinds, Read(k)
  PROVE  Nearer
<1>1. Places /\ Modes /\ Sized(k) /\ HeldOf(k) /\ ring[k] \in Numbers
  BY KindFacts DEF FlowInv
<1>2. /\ reader[k] = "read" /\ ring[k] # <<>> /\ ring' = [ring EXCEPT ![k] = Tail(@)]
      /\ UNCHANGED <<readerMode, chan, drain, item, main, watcher, cancelled>>
  BY DEF Read, monitorVars, ctlVars
<1>3. /\ Size(Tail(ring[k])) = Size(ring[k]) - 1 /\ Head(ring[k]) \in Nat \ {0}
      /\ ring'[k] = Tail(ring[k])
  BY <1>1, <1>2, Queues DEF Places
<1>4. record[k] = 0 /\ One(record[k]) = 0
  BY <1>1, <1>2, OneOrNone DEF HeldOf
<1>5. /\ Size(ring'[k]) = Size(ring[k]) - 1 /\ Size(chan'[k]) = Size(chan[k])
      /\ One(item'[k]) = One(item[k]) /\ Still(drain'[k], "done") = Still(drain[k], "done")
      /\ ModeRank(readerMode'[k]) = ModeRank(readerMode[k])
  BY <1>2, <1>3
<1>6. CASE record' = [record EXCEPT ![k] = Head(ring[k])] /\ reader' = [reader EXCEPT ![k] = "send"]
  <2>1. record'[k] = Head(ring[k]) /\ reader'[k] = "send"
    BY <1>1, <1>6 DEF Places, Modes
  <2>2. One(record'[k]) = 1 /\ Still(reader'[k], "gone") = Still(reader[k], "gone")
    BY <1>2, <1>3, <2>1, OneOrNone DEF Still
  <2>3. Work(k)' = Work(k) - 1
    BY <1>1, <1>4, <1>5, <2>2, Ranks DEF Work, Sized
  <2> QED BY <1>1, <1>2, <1>6, <2>3, KindNearer DEF Places, Modes
<1>7. CASE UNCHANGED <<record, reader>>
  <2>1. One(record'[k]) = One(record[k]) /\ Still(reader'[k], "gone") = Still(reader[k], "gone")
    BY <1>7
  <2>2. Work(k)' = Work(k) - 4
    BY <1>1, <1>5, <2>1, Ranks DEF Work, Sized
  <2> QED BY <1>1, <1>2, <1>7, <2>2, KindNearer DEF Places
<1> QED BY <1>6, <1>7 DEF Read

LEMMA SendNearer ==
  ASSUME FlowInv, NEW k \in Kinds, Send(k)
  PROVE  Nearer
<1>1. Places /\ Modes /\ Sized(k) /\ HeldOf(k) /\ chan[k] \in Numbers
  BY KindFacts DEF FlowInv
<1>2. /\ reader[k] = "send" /\ chan' = [chan EXCEPT ![k] = Append(@, record[k])]
      /\ record' = [record EXCEPT ![k] = 0] /\ reader' = [reader EXCEPT ![k] = "read"]
      /\ UNCHANGED <<ring, readerMode, drain, item, main, watcher, cancelled>>
  BY DEF Send, kernelVars, monitorVars, ctlVars
<1>3. record[k] \in Nat \ {0}
  BY <1>1, <1>2 DEF HeldOf, Sized
<1>4. chan'[k] = Append(chan[k], record[k]) /\ record'[k] = 0 /\ reader'[k] = "read"
  BY <1>1, <1>2 DEF Places, Modes
<1>5. /\ Size(chan'[k]) = Size(chan[k]) + 1 /\ One(record[k]) = 1 /\ One(record'[k]) = 0
      /\ Still(reader'[k], "gone") = Still(reader[k], "gone")
  BY <1>1, <1>2, <1>3, <1>4, Queues, OneOrNone DEF Still
<1>6. /\ Size(ring'[k]) = Size(ring[k]) /\ One(item'[k]) = One(item[k])
      /\ Still(drain'[k], "done") = Still(drain[k], "done")
      /\ ModeRank(readerMode'[k]) = ModeRank(readerMode[k])
  BY <1>2
<1>7. Work(k)' = Work(k) - 1
  BY <1>1, <1>5, <1>6, Ranks DEF Work, Sized
<1> QED BY <1>1, <1>2, <1>7, KindNearer DEF Places, Modes

LEMMA ReceiveNearer ==
  ASSUME FlowInv, NEW k \in Kinds, Receive(k)
  PROVE  Nearer
<1>1. Places /\ Modes /\ Sized(k) /\ HeldOf(k) /\ chan[k] \in Numbers
  BY KindFacts DEF FlowInv
<1>2. /\ drain[k] = "receive" /\ chan[k] # <<>> /\ item' = [item EXCEPT ![k] = Head(chan[k])]
      /\ chan' = [chan EXCEPT ![k] = Tail(@)] /\ drain' = [drain EXCEPT ![k] = "store"]
      /\ UNCHANGED <<ring, readerMode, reader, record, main, watcher, cancelled>>
  BY DEF Receive, kernelVars, ctlVars
<1>3. Size(Tail(chan[k])) = Size(chan[k]) - 1 /\ Head(chan[k]) \in Nat \ {0} /\ item[k] = 0
  BY <1>1, <1>2, Queues DEF HeldOf
<1>4. chan'[k] = Tail(chan[k]) /\ item'[k] = Head(chan[k]) /\ drain'[k] = "store"
  BY <1>1, <1>2 DEF Places, Modes
<1>5. /\ Size(chan'[k]) = Size(chan[k]) - 1 /\ One(item[k]) = 0 /\ One(item'[k]) = 1
      /\ Still(drain'[k], "done") = Still(drain[k], "done")
  BY <1>2, <1>3, <1>4, OneOrNone DEF Still
<1>6. /\ Size(ring'[k]) = Size(ring[k]) /\ One(record'[k]) = One(record[k])
      /\ Still(reader'[k], "gone") = Still(reader[k], "gone")
      /\ ModeRank(readerMode'[k]) = ModeRank(readerMode[k])
  BY <1>2
<1>7. Work(k)' = Work(k) - 1
  BY <1>1, <1>5, <1>6, Ranks DEF Work, Sized
<1> QED BY <1>1, <1>2, <1>7, KindNearer DEF Places, Modes

LEMMA StoreNearer ==
  ASSUME FlowInv, NEW k \in Kinds, Store(k)
  PROVE  Nearer
<1>1. Places /\ Modes /\ Sized(k) /\ HeldOf(k)
  BY KindFacts DEF FlowInv
<1>2. /\ drain[k] = "store" /\ item' = [item EXCEPT ![k] = 0]
      /\ drain' = [drain EXCEPT ![k] = "receive"]
      /\ UNCHANGED <<ring, readerMode, reader, record, chan, main, watcher, cancelled>>
  BY DEF Store, kernelVars, readerVars, ctlVars
<1>3. item[k] \in Nat \ {0} /\ item'[k] = 0 /\ drain'[k] = "receive"
  BY <1>1, <1>2 DEF HeldOf, Sized, Places, Modes
<1>4. /\ One(item[k]) = 1 /\ One(item'[k]) = 0
      /\ Still(drain'[k], "done") = Still(drain[k], "done")
  BY <1>2, <1>3, OneOrNone DEF Still
<1>5. /\ Size(ring'[k]) = Size(ring[k]) /\ Size(chan'[k]) = Size(chan[k])
      /\ One(record'[k]) = One(record[k]) /\ Still(reader'[k], "gone") = Still(reader[k], "gone")
      /\ ModeRank(readerMode'[k]) = ModeRank(readerMode[k])
  BY <1>2
<1>6. Work(k)' = Work(k) - 1
  BY <1>1, <1>4, <1>5, Ranks DEF Work, Sized
<1> QED BY <1>1, <1>2, <1>6, KindNearer DEF Places, Modes

LEMMA ReturnsNearer ==
  ASSUME FlowInv, NEW k \in Kinds, ReaderReturns(k) \/ DrainReturns(k)
  PROVE  Nearer
<1>1. Modes /\ Sized(k)
  BY KindFacts DEF FlowInv
<1>2. UNCHANGED <<ring, readerMode, record, chan, item, main, watcher, cancelled>>
  BY DEF ReaderReturns, DrainReturns, kernelVars, readerVars, monitorVars, ctlVars
<1>3. Still(reader'[k], "gone") + Still(drain'[k], "done")
        = Still(reader[k], "gone") + Still(drain[k], "done") - 1
  <2>1. CASE ReaderReturns(k)
    <3>1. reader[k] = "read" /\ reader'[k] = "gone" /\ drain' = drain
      BY <1>1, <2>1 DEF ReaderReturns, Modes, monitorVars
    <3>2. Still(reader[k], "gone") = 1 /\ Still(reader'[k], "gone") = 0
      BY <3>1 DEF Still
    <3> QED BY <3>1, <3>2, Ranks
  <2>2. CASE DrainReturns(k)
    <3>1. drain[k] = "receive" /\ drain'[k] = "done" /\ reader' = reader
      BY <1>1, <2>2 DEF DrainReturns, Modes, readerVars
    <3>2. Still(drain[k], "done") = 1 /\ Still(drain'[k], "done") = 0
      BY <3>1 DEF Still
    <3> QED BY <3>1, <3>2, Ranks
  <2> QED BY <2>1, <2>2
<1>4. \A o \in Kinds \ {k} : reader'[o] = reader[o] /\ drain'[o] = drain[o]
  BY <1>1 DEF ReaderReturns, DrainReturns, readerVars, monitorVars, Modes
<1>5. /\ Size(ring'[k]) = Size(ring[k]) /\ Size(chan'[k]) = Size(chan[k])
      /\ One(record'[k]) = One(record[k]) /\ One(item'[k]) = One(item[k])
      /\ ModeRank(readerMode'[k]) = ModeRank(readerMode[k])
  BY <1>2
<1>6. Work(k)' = Work(k) - 1
  BY <1>1, <1>3, <1>5, Ranks DEF Work, Sized
<1> QED BY <1>2, <1>4, <1>6, KindNearer

LEMMA ModeNearer ==
  ASSUME FlowInv, NEW k \in Kinds, WatcherCloses(k) \/ Flush(k)
  PROVE  Nearer
<1>1. Modes /\ Sized(k)
  BY KindFacts DEF FlowInv
<1>2. UNCHANGED <<ring, record, chan, item, reader, drain, main, watcher, cancelled>>
  BY DEF WatcherCloses, Flush, kernelVars, monitorVars, ctlVars
<1>3. \A o \in Kinds \ {k} : readerMode'[o] = readerMode[o]
  BY <1>1 DEF WatcherCloses, Flush, Modes
<1>4. PICK d \in 1..2 : ModeRank(readerMode'[k]) = ModeRank(readerMode[k]) - d
  <2>1. CASE WatcherCloses(k)
    <3>1. readerMode[k] \in {"open", "flushed"} /\ readerMode'[k] = "closed"
      BY <1>1, <2>1 DEF WatcherCloses, Modes
    <3>2. ModeRank(readerMode[k]) \in 1..2 /\ ModeRank(readerMode'[k]) = 0
      BY <3>1 DEF ModeRank
    <3> QED BY <3>2
  <2>2. CASE Flush(k)
    <3>1. readerMode[k] = "open" /\ readerMode'[k] = "flushed"
      BY <1>1, <2>2 DEF Flush, Modes
    <3>2. ModeRank(readerMode[k]) = 2 /\ ModeRank(readerMode'[k]) = 1
      BY <3>1 DEF ModeRank
    <3> QED BY <3>2
  <2> QED BY <2>1, <2>2
<1>5. /\ Size(ring'[k]) = Size(ring[k]) /\ Size(chan'[k]) = Size(chan[k])
      /\ One(record'[k]) = One(record[k]) /\ One(item'[k]) = One(item[k])
      /\ Still(reader'[k], "gone") = Still(reader[k], "gone")
      /\ Still(drain'[k], "done") = Still(drain[k], "done")
  BY <1>2
<1>6. Work(k)' = Work(k) - d
  BY <1>1, <1>4, <1>5, Ranks DEF Work, Sized
<1> QED BY <1>2, <1>3, <1>6, KindNearer

LEMMA ControlNearer ==
  ASSUME FlowInv,
         \/ Cancel \/ WatcherReturns \/ BuildReturns \/ Detached \/ Flushed \/ Joined \/ Counted
         \/ Report
  PROVE  Nearer
<1>1. UNCHANGED <<ring, record, chan, item, reader, drain, readerMode>>
  BY DEF Cancel, WatcherReturns, BuildReturns, Detached, Flushed, Joined, Counted, Report,
     kernelVars, readerVars, monitorVars
<1>2. CASE Cancel
  <2>1. main' = main /\ watcher' = watcher /\ ~ cancelled /\ cancelled'
    BY <1>2 DEF Cancel
  <2>2. Uncut = 1 /\ Uncut' = 0
    BY <2>1 DEF Uncut
  <2>3. Rest' < Rest
    BY <2>1, <2>2, Ranks DEF Rest
  <2> QED BY <1>1, <2>3, RestNearer
<1>3. CASE WatcherReturns
  <2>1. main' = main /\ Uncut' = Uncut /\ watcher = "waiting" /\ watcher' = "gone"
    BY <1>3 DEF WatcherReturns, Uncut
  <2>2. Still(watcher, "gone") = 1 /\ Still(watcher', "gone") = 0
    BY <2>1 DEF Still
  <2>3. Rest' < Rest
    BY <2>1, <2>2, Ranks DEF Rest
  <2> QED BY <1>1, <2>3, RestNearer
<1>4. CASE BuildReturns \/ Detached \/ Flushed \/ Joined \/ Counted \/ Report
  <2>1. watcher' = watcher /\ Uncut' = Uncut
    BY <1>4 DEF BuildReturns, Detached, Flushed, Joined, Counted, Report, Uncut
  <2>2. Phase(main') = Phase(main) - 1
    BY <1>4 DEF BuildReturns, Detached, Flushed, Joined, Counted, Report, Phase
  <2>3. Rest' < Rest
    BY <2>1, <2>2, Ranks DEF Rest
  <2> QED BY <1>1, <2>3, RestNearer
<1> QED BY <1>2, <1>3, <1>4

(* Once no probe is attached every step of the program leaves less to do, and a
   number of steps that the buffers bound is all that is left: with NeverStuck
   and fair goroutines that is the end of the run, which TLC checks as Ends. *)
THEOREM NearerTheEnd == Spec => [][attached = {} => Nearer]_vars
<1>1. Init => FlowInv /\ CloseInv
  BY InitInv
<1>2. (FlowInv /\ CloseInv) /\ [Next]_vars => (FlowInv /\ CloseInv)'
  BY NextInv
<1>3. (FlowInv /\ CloseInv) /\ [Next]_vars => [attached = {} => Nearer]_vars
  <2> SUFFICES ASSUME FlowInv, Next, attached = {}, ~ UNCHANGED vars PROVE Nearer
    OBVIOUS
  <2>1. ASSUME NEW k \in Kinds, Emit(k) \/ Detach(k) PROVE FALSE
    BY <2>1 DEF Emit, Detach
  <2> QED BY <2>1, ReadNearer, SendNearer, ReceiveNearer, StoreNearer, ReturnsNearer, ModeNearer,
             ControlNearer
          DEF Next, ReaderStep, DrainStep, WatcherStep, CloseStep, Finished
<1> QED BY <1>1, <1>2, <1>3, PTL DEF Spec
=============================================================================
