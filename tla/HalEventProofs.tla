-------------------------- MODULE HalEventProofs --------------------------
(***************************************************************************)
(* Proofs about HalEvent, for every value of the constants: the types of   *)
(* its state, the resubmit protocol of the event buffers, that neither     *)
(* half of the interrupt handling forgets an event, the order of what the  *)
(* FMAC gets, and that the event path does what OrderedChannel promises,   *)
(* step by step (that everything arrives in the end stays with TLC).       *)
(*                                                                         *)
(* A fragment goes from the RPU (next) to a buffer in flight, posted or    *)
(* about to be read, to the event being put together and, with the whole   *)
(* event, to Events.  The invariants say of each part what it holds and    *)
(* how it continues the part before it.                                    *)
(***************************************************************************)
EXTENDS HalEvent, SequenceTheorems, TLAPS

(* The addresses whose fragments are still to be read, in order. *)
InFlight == (IF irqPc = "read" THEN <<event_addr>> ELSE <<>>) \o event_busy

(* Each address is in flight once, a free buffer is not, and neither is the *)
(* one the handler has read and still has to give back.                     *)
AddrInv ==
  /\ IsInjective(InFlight)
  /\ event_avl \cap ToSet(InFlight) = {}
  /\ irqPc = "read" => event_addr \in Addr
  /\ irqPc = "free" => event_addr \in Addr \ (event_avl \cup ToSet(InFlight))

(* What was posted has been taken or is still in the busy queue. *)
CountInv == /\ posted = taken + Len(event_busy)
            /\ owed <= posted

(* The RPU writes no more fragments than the event has. *)
NextInv == next.frag <= next.of

(* Fragment g is the one the RPU posts after f. *)
Follows(f, g) == IF f.frag = f.of THEN g.ev = f.ev + 1 /\ g.frag = 1
                 ELSE g = [f EXCEPT !.frag = @ + 1]

(* The fragment at place i of what is in flight; beyond the last one is the *)
(* one the RPU is about to write.                                           *)
Coming(i) == IF i <= Len(InFlight) THEN mem[InFlight[i]] ELSE next
Comings == Len(InFlight) + (IF next = NoFragment THEN 0 ELSE 1)

(* The RPU posts fragment after fragment and event after event, each one to *)
(* the kind of address it says.                                             *)
StreamInv ==
  /\ \A i \in 1..Len(sent) : sent[i] = i
  /\ \A i \in 1..(Comings - 1) : Follows(Coming(i), Coming(i + 1))
  /\ \A i \in 1..Comings :
        i = Comings => /\ Coming(i).ev = Len(sent)
                       /\ next = NoFragment => Coming(i).frag = Coming(i).of
  /\ \A i \in 1..Len(InFlight) :
        Coming(i).resubmit <=> InFlight[i] \in EventBuf

(* All of e is before what is to come and not later than the event the RPU  *)
(* is at.                                                                   *)
Ahead(e) == \A k \in 1..Len(e) :
               /\ e[k].ev <= Len(sent)
               /\ \A j \in 1..Comings : Before(e[k], Coming(j))

(* Fragments have come up in order, those still to come are after them and  *)
(* in order.                                                                *)
OrderInv ==
  /\ FragmentsOnce
  /\ \A i \in 1..Len(Events) : Ahead(Events[i])
  /\ Ahead(event_data)
  /\ \A i, j \in 1..Comings : i < j => Before(Coming(i), Coming(j))
  /\ \A j \in 1..Comings : Coming(j).ev <= Len(sent)

(* The handler has an event in hand, in parts or whole. *)
Assembling == pending > 0 \/ irqPc \in {"free", "queue"}

(* How many events have been put together. *)
Done == Len(Events)
          + (IF irqPc \in {"free", "queue"} /\ pending = 0 THEN 1 ELSE 0)

(* While no allocation fails: the events that have come up are the first    *)
(* ones, whole ...                                                          *)
EventsWhole == \A i \in 1..Len(Events) : IsWhole(Events[i]) /\ Events[i][1].ev = i

(* ... the one in hand is the next one up to what is pending of it ...      *)
AssemblyInv ==
  /\ Assembling => /\ event_data # <<>>
                   /\ event_data[1].ev = Len(Events) + 1
                   /\ event_data[1].of = Len(event_data) + pending
                   /\ event_data[1].resubmit = event_resubmit
                   /\ \A k \in 1..Len(event_data) :
                         event_data[k] = [event_data[1] EXCEPT !.frag = k]
  /\ ~Assembling => event_data = <<>>
  /\ irqPc = "queue" => pending = 0

(* ... and what is still to come goes on from there.                        *)
ContinueInv ==
  IF Comings > 0
  THEN IF pending > 0
       THEN Coming(1) = [event_data[1] EXCEPT !.frag = Len(event_data) + 1]
       ELSE Coming(1).frag = 1 /\ Coming(1).ev = Done + 1
  ELSE pending = 0 /\ Len(sent) = Done

(* The address to give back is an event buffer if the event says so. *)
ResubmitInv == irqPc = "free" => (event_resubmit <=> event_addr \in EventBuf)

(* Every event buffer is free, in flight or about to be given back. *)
CoverInv == EventBuf \subseteq event_avl \cup ToSet(event_busy) \cup InHand

UnfailedInv ==
  allocFails = 0 =>
     EventsWhole /\ AssemblyInv /\ ContinueInv /\ ResubmitInv /\ CoverInv
-----------------------------------------------------------------------------
(* Fragments are what they are said to be. *)
LEMMA FragmentType ==
  ASSUME NEW f \in Fragment
  PROVE  /\ f.ev \in Nat
         /\ f.frag \in 1..MaxFrag
         /\ f.of \in 1..MaxFrag
         /\ f.resubmit \in BOOLEAN
BY DEF Fragment

(* The variables have their types at the start. *)
LEMMA TypeInit == Init => TypeOK
<1> SUFFICES ASSUME Init PROVE TypeOK
  OBVIOUS
<1>1. NoFragment \in Fragment
  BY BoundAssumption DEF NoFragment, Fragment
<1>2. mem \in [Addr -> Fragment] /\ next \in Fragment
  BY <1>1 DEF Init
<1>3. /\ sent \in Seq(Nat) /\ event_busy \in Seq(Addr) /\ event_data \in Seq(Fragment)
      /\ event_q \in Seq(Seq(Fragment)) /\ delivered \in Seq(Seq(Fragment))
      /\ event \in Seq(Fragment)
  BY DEF Init
<1>4. /\ event_avl \in SUBSET EventBuf
      /\ pending \in 0..MaxFrag /\ allocFails \in 0..MaxAllocFails
      /\ lostIrqs \in 0..MaxLostIrqs /\ wdogs \in 0..MaxWdog
  BY BoundAssumption DEF Init
<1> QED
  BY <1>2, <1>3, <1>4 DEF Init, TypeOK

(* The steps of the RPU keep them. *)
LEMMA TypeRpu == TypeOK /\ NextInv /\ RpuNext => TypeOK' /\ NextInv'
<1> SUFFICES ASSUME TypeOK, NextInv, RpuNext PROVE TypeOK' /\ NextInv'
  OBVIOUS
<1> USE BoundAssumption DEF vars, rpuVars, hwVars, asmVars, irqVars, taskletVars
<1>1. NoFragment \in Fragment
  BY DEF NoFragment, Fragment
<1>2. CASE RpuEvent
  <2>1. Len(sent) \in Nat /\ Len(sent) + 1 \in Nat /\ 1 \in 1..MaxFrag
    BY DEF TypeOK
  <2>2. next' \in Fragment /\ NextInv'
    BY <1>2, <2>1 DEF RpuEvent, Fragment, NextInv
  <2> QED
    BY <1>2, <2>1, <2>2 DEF RpuEvent, TypeOK
<1>3. CASE RpuPost
  <2>1. PICK a \in FreeAddr : /\ mem' = [mem EXCEPT ![a] = next]
                              /\ event_busy' = Append(event_busy, a)
                              /\ event_avl' = event_avl \ {a}
    BY <1>3 DEF RpuPost
  <2>2. a \in Addr
    BY <2>1 DEF FreeAddr, TypeOK, Addr
  <2>3. next' \in Fragment /\ NextInv'
    <3>1. CASE next.frag = next.of
      <4>1. next' = NoFragment
        BY <1>3, <3>1 DEF RpuPost
      <4> QED
        BY <1>1, <4>1 DEF NextInv, NoFragment
    <3>2. CASE next.frag # next.of
      <4>1. next' = [next EXCEPT !.frag = next.frag + 1]
        BY <1>3, <3>2 DEF RpuPost
      <4>2. next \in Fragment
        BY DEF TypeOK
      <4>3. next.frag + 1 \in 1..MaxFrag /\ next.frag + 1 <= next.of
        BY <3>2, <4>2, FragmentType DEF NextInv
      <4> QED
        BY <4>1, <4>2, <4>3 DEF Fragment, NextInv
    <3> QED
      BY <3>1, <3>2
  <2>4. mem' \in [Addr -> Fragment] /\ event_busy' \in Seq(Addr) /\ event_avl' \in SUBSET EventBuf
    BY <2>1, <2>2 DEF TypeOK
  <2>a. \/ irq' = TRUE /\ lostIrqs' = lostIrqs
        \/ lostIrqs < MaxLostIrqs /\ lostIrqs' = lostIrqs + 1 /\ irq' = irq
    BY <1>3 DEF RpuPost
  <2>b. irq \in BOOLEAN /\ lostIrqs \in 0..MaxLostIrqs
    BY DEF TypeOK
  <2>5. irq' \in BOOLEAN
    BY <2>a, <2>b, Zenon
  <2>6. lostIrqs' \in 0..MaxLostIrqs
    BY <2>a, <2>b
  <2>8. posted' \in Nat
    <3>1. posted' = posted + 1
      BY <1>3 DEF RpuPost
    <3> QED
      BY <3>1 DEF TypeOK
  <2>7. UNCHANGED <<sent, wdogs, wdog, asmVars, irqVars, event_q, sched, taskletVars>>
    BY <1>3 DEF RpuPost
  <2> QED
    BY <2>3, <2>4, <2>5, <2>6, <2>7, <2>8 DEF TypeOK
<1>4. CASE RpuWdog
  BY <1>4 DEF RpuWdog, TypeOK, NextInv
<1> QED
  BY <1>2, <1>3, <1>4 DEF RpuNext

(* The steps of the handler keep them. *)
LEMMA TypeIrq ==
  TypeOK /\ AddrInv /\ (IrqEnter \/ IrqHandler \/ EventGetFails) => TypeOK'
<1> SUFFICES ASSUME TypeOK, AddrInv, IrqEnter \/ IrqHandler \/ EventGetFails PROVE TypeOK'
  OBVIOUS
<1> USE BoundAssumption DEF vars, rpuVars, hwVars, asmVars, irqVars, taskletVars
<1>1. CASE IrqEnter
  BY <1>1 DEF IrqEnter, TypeOK
<1>2. CASE EventDequeue
  <2>1. Head(event_busy) \in Addr /\ Tail(event_busy) \in Seq(Addr)
    BY <1>2 DEF EventDequeue, TypeOK
  <2> QED
    BY <1>2, <2>1 DEF EventDequeue, TypeOK
<1>3. CASE EventsRead
  BY <1>3 DEF EventsRead, TypeOK
<1>a. irqPc = "read" => mem[event_addr] \in Fragment
  BY DEF TypeOK, AddrInv
<1>4. CASE EventReadFirst
  <2>1. PICK h \in Headers(mem[event_addr]) : pending' = h.of - 1 /\ event_resubmit' = h.resubmit
    BY <1>4 DEF EventReadFirst
  <2>2. h.of \in 1..MaxFrag /\ h.resubmit \in BOOLEAN
    BY <1>4, <1>a, FragmentType DEF EventReadFirst, Headers
  <2>3. pending' \in 0..MaxFrag /\ event_resubmit' \in BOOLEAN
    BY <2>1, <2>2
  <2>4. event_data' \in Seq(Fragment)
    BY <1>4, <1>a DEF EventReadFirst
  <2> QED
    BY <1>4, <2>3, <2>4 DEF EventReadFirst, TypeOK
<1>5. CASE EventReadNext
  <2>1. event_data' \in Seq(Fragment) /\ pending' \in 0..MaxFrag
    BY <1>5, <1>a DEF EventReadNext, TypeOK
  <2> QED
    BY <1>5, <2>1 DEF EventReadNext, TypeOK
<1>6. CASE EventFree
  BY <1>6 DEF EventFree, TypeOK
<1>7. CASE EventQueue
  <2>1. event_q' \in Seq(Seq(Fragment)) /\ event_data' \in Seq(Fragment)
    BY <1>7 DEF EventQueue, TypeOK
  <2> QED
    BY <1>7, <2>1 DEF EventQueue, TypeOK
<1>8. CASE IrqAck
  <2>1. wdog' \in BOOLEAN /\ irq' \in BOOLEAN
    BY <1>8 DEF IrqAck, TypeOK
  <2>2. lostIrqs' \in 0..MaxLostIrqs
    <3>1. lostIrqs' = lostIrqs \/ lostIrqs' = lostIrqs + 1
      BY <1>8 DEF IrqAck
    <3>2. lostIrqs' <= MaxLostIrqs /\ lostIrqs \in 0..MaxLostIrqs
      BY <1>8 DEF IrqAck, TypeOK
    <3> QED
      BY <3>1, <3>2
  <2> QED
    BY <1>8, <2>1, <2>2 DEF IrqAck, TypeOK
<1>9. CASE IrqReturn
  BY <1>9 DEF IrqReturn, TypeOK
<1>10. CASE EventAllocFail
  BY <1>10 DEF EventAllocFail, TypeOK
<1>11. CASE EventMsgFail
  BY <1>11 DEF EventMsgFail, TypeOK
<1>12. CASE EventNodeFail
  BY <1>12 DEF EventNodeFail, TypeOK
<1> QED
  BY <1>1, <1>2, <1>3, <1>4, <1>5, <1>6, <1>7, <1>8, <1>9, <1>10, <1>11, <1>12
  DEF IrqHandler, EventGet, EventGetFails

(* And so does the tasklet. *)
LEMMA TypeTasklet == TypeOK /\ Tasklet => TypeOK'
<1> SUFFICES ASSUME TypeOK, Tasklet PROVE TypeOK'
  OBVIOUS
<1> USE DEF vars, rpuVars, hwVars, asmVars, irqVars, taskletVars
<1>1. CASE TaskletStart
  BY <1>1 DEF TaskletStart, TypeOK
<1>2. CASE TaskletDequeue
  BY <1>2 DEF TaskletDequeue, TypeOK
<1>3. CASE TaskletCall
  BY <1>3 DEF TaskletCall, TypeOK
<1>4. CASE TaskletDone
  BY <1>4 DEF TaskletDone, TypeOK
<1> QED
  BY <1>1, <1>2, <1>3, <1>4 DEF Tasklet

(* Every step keeps them. *)
LEMMA TypeNext == TypeOK /\ NextInv /\ AddrInv /\ [Next]_vars => TypeOK' /\ NextInv'
<1> SUFFICES ASSUME TypeOK, NextInv, AddrInv, [Next]_vars PROVE TypeOK' /\ NextInv'
  OBVIOUS
<1>1. CASE UNCHANGED vars
  BY <1>1 DEF vars, rpuVars, hwVars, asmVars, irqVars, taskletVars, TypeOK, NextInv
<1>2. ~RpuNext => next' = next
  BY DEF Next, IrqEnter, IrqHandler, EventGet, EventGetFails, Tasklet,
     EventDequeue, EventsRead, EventReadFirst, EventReadNext, EventFree,
     EventQueue, IrqAck, IrqReturn, EventAllocFail, EventMsgFail,
     EventNodeFail, TaskletStart, TaskletDequeue, TaskletCall, TaskletDone,
     vars, rpuVars
<1>3. NextInv'
  BY <1>2, TypeRpu DEF NextInv
<1> QED
  BY <1>1, <1>3, TypeRpu, TypeIrq, TypeTasklet DEF Next
-----------------------------------------------------------------------------
(* The first fragment in flight is read, or dropped. *)
Reading == EventReadFirst \/ EventReadNext \/ EventAllocFail

(* What is in flight are addresses. *)
LEMMA FlightType ==
  ASSUME TypeOK, AddrInv
  PROVE  /\ InFlight \in Seq(Addr)
         /\ Len(InFlight) \in Nat
         /\ \A i \in 1..Len(InFlight) : InFlight[i] \in Addr /\ mem[InFlight[i]] \in Fragment
         /\ ToSet(InFlight) = {InFlight[i] : i \in 1..Len(InFlight)}
<1>1. event_busy \in Seq(Addr) /\ mem \in [Addr -> Fragment]
  BY DEF TypeOK
<1>2. (IF irqPc = "read" THEN <<event_addr>> ELSE <<>>) \in Seq(Addr)
  BY DEF AddrInv
<1>3. InFlight \in Seq(Addr)
  BY <1>1, <1>2 DEF InFlight
<1> QED
  BY <1>1, <1>3 DEF ToSet

(* Outside the read it is the busy queue, during it the address in hand and *)
(* the busy queue.                                                          *)
LEMMA FlightIs ==
  ASSUME TypeOK, AddrInv
  PROVE  /\ irqPc # "read" => InFlight = event_busy
         /\ irqPc = "read" => /\ InFlight = <<event_addr>> \o event_busy
                              /\ Len(InFlight) = Len(event_busy) + 1
                              /\ InFlight[1] = event_addr
                              /\ Tail(InFlight) = event_busy
<1>1. event_busy \in Seq(Addr)
  BY DEF TypeOK
<1>2. CASE irqPc # "read"
  BY <1>1, <1>2 DEF InFlight
<1>3. CASE irqPc = "read"
  <2>1. event_addr \in Addr
    BY <1>3 DEF AddrInv
  <2>2. InFlight = <<event_addr>> \o event_busy
    BY <1>3 DEF InFlight
  <2>3. Len(InFlight) = Len(event_busy) + 1 /\ InFlight[1] = event_addr
    BY <1>1, <2>1, <2>2
  <2>4. Tail(InFlight) = event_busy
    BY <1>1, <2>1, <2>2
  <2> QED
    BY <1>3, <2>2, <2>3, <2>4
<1> QED
  BY <1>2, <1>3

(* A post puts one address that was free behind the others. *)
LEMMA FlightPost ==
  ASSUME TypeOK, AddrInv, RpuPost
  PROVE  \E a \in FreeAddr :
            /\ a \in Addr
            /\ a \notin ToSet(InFlight)
            /\ irqPc = "free" => a # event_addr
            /\ a \in EventBuf <=> next.resubmit
            /\ mem' = [mem EXCEPT ![a] = next]
            /\ event_avl' = event_avl \ {a}
            /\ InFlight' = Append(InFlight, a)
<1>1. PICK a \in FreeAddr : /\ mem' = [mem EXCEPT ![a] = next]
                            /\ event_busy' = Append(event_busy, a)
                            /\ event_avl' = event_avl \ {a}
  BY DEF RpuPost
<1>2. event_busy \in Seq(Addr) /\ event_avl \subseteq EventBuf /\ next.resubmit \in BOOLEAN
  BY FragmentType DEF TypeOK
<1>3. a \in Addr /\ (a \in EventBuf <=> next.resubmit)
  BY <1>1, <1>2, AddrAssumption DEF FreeAddr, Addr
<1>4. a \notin event_avl => a \notin ToSet(event_busy) /\ a # event_addr
  BY <1>1, <1>2 DEF FreeAddr
<1>5. a \notin ToSet(InFlight)
  <2>1. a \in event_avl => a \notin ToSet(InFlight)
    BY DEF AddrInv
  <2>2. \A x \in ToSet(InFlight) : x \in ToSet(event_busy) \/ x = event_addr
    <3>1. CASE irqPc # "read"
      BY <3>1, FlightIs
    <3>2. CASE irqPc = "read"
      <4>1. event_addr \in Addr /\ InFlight = <<event_addr>> \o event_busy
        BY <3>2, FlightIs DEF AddrInv
      <4> QED
        BY <1>2, <4>1 DEF ToSet
    <3> QED
      BY <3>1, <3>2
  <2> QED
    BY <1>4, <2>1, <2>2
<1>6. irqPc = "free" => a # event_addr
  BY <1>4 DEF AddrInv
<1>7. irqPc' = irqPc /\ event_addr' = event_addr
  BY DEF RpuPost, irqVars
<1>8. InFlight' = Append(InFlight, a)
  <2>1. CASE irqPc # "read"
    BY <1>1, <1>2, <1>3, <1>7, <2>1 DEF InFlight
  <2>2. CASE irqPc = "read"
    <3>1. event_addr \in Addr
      BY <2>2 DEF AddrInv
    <3>2. InFlight' = <<event_addr>> \o Append(event_busy, a)
      BY <1>1, <1>7, <2>2 DEF InFlight
    <3>3. InFlight = <<event_addr>> \o event_busy
      BY <2>2 DEF InFlight
    <3> QED
      BY <1>2, <1>3, <3>1, <3>2, <3>3
  <2> QED
    BY <2>1, <2>2
<1> QED
  BY <1>1, <1>3, <1>5, <1>6, <1>8

(* A read takes the first one out. *)
LEMMA FlightRead ==
  ASSUME TypeOK, AddrInv, Reading
  PROVE  /\ irqPc = "read" /\ irqPc' \in {"free", "get"}
         /\ event_addr' = event_addr
         /\ Len(InFlight) > 0
         /\ InFlight[1] = event_addr
         /\ InFlight' = Tail(InFlight)
         /\ UNCHANGED <<mem, event_avl, event_busy, next, sent>>
<1>1. /\ irqPc = "read" /\ irqPc' \in {"free", "get"}
      /\ UNCHANGED <<event_addr, mem, event_avl, event_busy, next, sent>>
  BY DEF Reading, EventReadFirst, EventReadNext, EventAllocFail, hwVars, rpuVars
<1>2. InFlight' = event_busy
  <2>1. event_busy \in Seq(Addr)
    BY DEF TypeOK
  <2>2. InFlight' = <<>> \o event_busy
    BY <1>1 DEF InFlight
  <2> QED
    BY <2>1, <2>2
<1>3. Len(event_busy) \in Nat
  BY DEF TypeOK
<1> QED
  BY <1>1, <1>2, <1>3, FlightIs

(* Nothing else changes what is in flight, or what it holds. *)
LEMMA FlightKept ==
  ASSUME TypeOK, AddrInv, [Next]_vars, ~RpuPost, ~Reading
  PROVE  InFlight' = InFlight /\ mem' = mem
<1>1. CASE EventDequeue
  <2>1. event_busy \in Seq(Addr) /\ event_busy # <<>>
    BY <1>1 DEF EventDequeue, TypeOK
  <2>2. InFlight = event_busy
    BY <1>1, FlightIs DEF EventDequeue
  <2>3. InFlight' = <<Head(event_busy)>> \o Tail(event_busy)
    BY <1>1 DEF EventDequeue, InFlight
  <2> QED
    BY <1>1, <2>1, <2>2, <2>3 DEF EventDequeue
<1>2. CASE ~EventDequeue
  <2>1. event_busy' = event_busy /\ mem' = mem
    BY <1>2 DEF Next, RpuNext, RpuEvent, RpuWdog, IrqEnter, IrqHandler,
       EventsRead, EventGet, Reading, EventFree, EventQueue, IrqAck, IrqReturn,
       EventGetFails, EventMsgFail, EventNodeFail, Tasklet, TaskletStart,
       TaskletDequeue, TaskletCall, TaskletDone, vars, hwVars
  <2>2. \/ irqPc' = irqPc /\ event_addr' = event_addr
        \/ irqPc # "read" /\ irqPc' # "read"
    BY <1>2 DEF Next, RpuNext, RpuEvent, RpuWdog, IrqEnter, IrqHandler,
       EventsRead, EventGet, Reading, EventFree, EventQueue, IrqAck, IrqReturn,
       EventGetFails, EventMsgFail, EventNodeFail, Tasklet, TaskletStart,
       TaskletDequeue, TaskletCall, TaskletDone, vars, irqVars
  <2> QED
    BY <2>1, <2>2 DEF InFlight
<1> QED
  BY <1>1, <1>2

(* The addresses stay apart. *)
LEMMA AddrNext == TypeOK /\ AddrInv /\ [Next]_vars => AddrInv'
<1> SUFFICES ASSUME TypeOK, AddrInv, [Next]_vars PROVE AddrInv'
  OBVIOUS
<1>f. /\ InFlight \in Seq(Addr)
      /\ ToSet(InFlight) = {InFlight[i] : i \in 1..Len(InFlight)}
      /\ \A i, j \in 1..Len(InFlight) : InFlight[i] = InFlight[j] => i = j
  BY FlightType DEF AddrInv, IsInjective
<1>1. CASE RpuPost
  <2>1. PICK a \in FreeAddr : /\ a \in Addr /\ a \notin ToSet(InFlight)
                              /\ irqPc = "free" => a # event_addr
                              /\ event_avl' = event_avl \ {a}
                              /\ InFlight' = Append(InFlight, a)
    BY <1>1, FlightPost
  <2>2. IsInjective(InFlight') /\ ToSet(InFlight') = ToSet(InFlight) \cup {a}
    BY <1>f, <2>1 DEF IsInjective, ToSet
  <2>3. irqPc' = irqPc /\ event_addr' = event_addr
    BY <1>1 DEF RpuPost, irqVars
  <2> QED
    BY <2>1, <2>2, <2>3 DEF AddrInv
<1>2. CASE Reading
  <2>1. /\ irqPc = "read" /\ irqPc' # "read" /\ Len(InFlight) > 0
        /\ InFlight[1] = event_addr /\ InFlight' = Tail(InFlight)
        /\ event_addr' = event_addr /\ event_avl' = event_avl
    BY <1>2, FlightRead
  <2>2. InFlight # <<>>
    BY <1>f, <2>1
  <2>3. /\ IsInjective(InFlight')
        /\ ToSet(InFlight') \subseteq ToSet(InFlight)
        /\ event_addr \notin ToSet(InFlight')
    BY <1>f, <2>1, <2>2 DEF IsInjective, ToSet
  <2>4. event_addr \in Addr /\ event_addr \in ToSet(InFlight)
    BY <1>f, <2>1 DEF AddrInv
  <2> QED
    BY <2>1, <2>3, <2>4 DEF AddrInv
<1>3. CASE ~RpuPost /\ ~Reading
  <2>1. InFlight' = InFlight
    BY <1>3, FlightKept
  <2>2. CASE EventFree
    BY <2>1, <2>2 DEF EventFree, AddrInv
  <2>3. CASE EventDequeue
    <3>1. event_busy \in Seq(Addr) /\ event_busy # <<>>
      BY <2>3 DEF EventDequeue, TypeOK
    <3> QED
      BY <2>1, <2>3, <3>1 DEF EventDequeue, AddrInv
  <2>4. CASE ~EventFree /\ ~EventDequeue
    <3>1. event_avl' = event_avl
      BY <1>3, <2>4 DEF Next, RpuNext, RpuEvent, RpuWdog, IrqEnter, IrqHandler,
         EventsRead, EventGet, Reading, EventQueue, IrqAck, IrqReturn,
         EventGetFails, EventMsgFail, EventNodeFail, Tasklet, TaskletStart,
         TaskletDequeue, TaskletCall, TaskletDone, vars, hwVars
    <3>2. \/ irqPc' = irqPc /\ event_addr' = event_addr
          \/ irqPc' \notin {"read", "free"}
      BY <1>3, <2>4 DEF Next, RpuNext, RpuEvent, RpuWdog, IrqEnter, IrqHandler,
         EventsRead, EventGet, Reading, EventQueue, IrqAck, IrqReturn,
         EventGetFails, EventMsgFail, EventNodeFail, Tasklet, TaskletStart,
         TaskletDequeue, TaskletCall, TaskletDone, vars, irqVars
    <3> QED
      BY <2>1, <3>1, <3>2 DEF AddrInv
  <2> QED
    BY <2>2, <2>3, <2>4
<1> QED
  BY <1>1, <1>2, <1>3

(* What was posted is counted. *)
LEMMA CountNext == TypeOK /\ CountInv /\ [Next]_vars => CountInv'
<1> SUFFICES ASSUME TypeOK, CountInv, [Next]_vars PROVE CountInv'
  OBVIOUS
<1>t. posted \in Nat /\ taken \in Nat /\ owed \in Nat /\ event_busy \in Seq(Addr)
  BY DEF TypeOK
<1>1. CASE RpuPost
  <2>1. PICK a \in FreeAddr : event_busy' = Append(event_busy, a)
    BY <1>1 DEF RpuPost
  <2>2. posted' = posted + 1 /\ taken' = taken /\ owed' = owed
    BY <1>1 DEF RpuPost, irqVars
  <2>3. Len(event_busy') = Len(event_busy) + 1
    BY <1>t, <2>1
  <2> QED
    BY <1>t, <2>2, <2>3 DEF CountInv
<1>2. CASE EventDequeue
  <2>1. Len(event_busy') = Len(event_busy) - 1 /\ taken' = taken + 1
    BY <1>2, <1>t DEF EventDequeue
  <2>2. posted' = posted /\ owed' = owed
    BY <1>2 DEF EventDequeue, rpuVars
  <2> QED
    BY <1>t, <2>1, <2>2 DEF CountInv
<1>3. CASE IrqEnter
  BY <1>3, <1>t DEF IrqEnter, rpuVars, CountInv
<1>4. CASE ~RpuPost /\ ~EventDequeue /\ ~IrqEnter
  <2>1. UNCHANGED <<posted, taken, owed, event_busy>>
    BY <1>4 DEF Next, RpuNext, RpuEvent, RpuWdog, IrqHandler, EventsRead, EventGet,
       EventReadFirst, EventReadNext, EventFree, EventQueue, IrqAck, IrqReturn,
       EventGetFails, EventAllocFail, EventMsgFail, EventNodeFail, Tasklet,
       TaskletStart, TaskletDequeue, TaskletCall, TaskletDone, vars, rpuVars,
       hwVars, irqVars
  <2> QED
    BY <2>1 DEF CountInv
<1> QED
  BY <1>1, <1>2, <1>3, <1>4

(* Neither half forgets an event. *)
LEMMA ForgottenNext ==
  TypeOK /\ CountInv /\ NoEventForgotten /\ [Next]_vars => NoEventForgotten'
<1> SUFFICES ASSUME TypeOK, CountInv, NoEventForgotten, [Next]_vars
             PROVE  NoEventForgotten'
  OBVIOUS
<1> USE DEF NoEventForgotten
<1>t. posted \in Nat /\ taken \in Nat /\ owed \in Nat /\ event_busy \in Seq(Addr)
  BY DEF TypeOK
<1>1. TaskletCovers'
  BY DEF TaskletCovers, TypeOK, Next, RpuNext, RpuEvent, RpuPost, RpuWdog,
     IrqEnter, IrqHandler, EventDequeue, EventsRead, EventGet, EventReadFirst,
     EventReadNext, EventFree, EventQueue, IrqAck, IrqReturn, EventGetFails,
     EventAllocFail, EventMsgFail, EventNodeFail, Tasklet, TaskletStart,
     TaskletDequeue, TaskletCall, TaskletDone, vars, irqVars, taskletVars
<1>2. HandlerDrains'
  <2>1. CASE EventsRead
    <3>1. posted = taken
      BY <1>t, <2>1 DEF EventsRead, CountInv
    <3>2. taken' = taken /\ owed' = owed
      BY <2>1 DEF EventsRead
    <3> QED
      BY <1>t, <3>1, <3>2 DEF CountInv, HandlerDrains
  <2>2. CASE ~EventsRead
    <3>1. \/ irqPc' \notin {"ack", "schedule"}
          \/ aborted'
          \/ UNCHANGED <<taken, owed, aborted>> /\ irqPc \in {"ack", "schedule"}
      BY <2>2 DEF Next, RpuNext, RpuEvent, RpuPost, RpuWdog,
         IrqEnter, IrqHandler, EventDequeue, EventGet, EventReadFirst,
         EventReadNext, EventFree, EventQueue, IrqAck, IrqReturn, EventGetFails,
         EventAllocFail, EventMsgFail, EventNodeFail, Tasklet, TaskletStart,
         TaskletDequeue, TaskletCall, TaskletDone, vars, irqVars
    <3> QED
      BY <3>1 DEF HandlerDrains
  <2> QED
    BY <2>1, <2>2
<1> QED
  BY <1>1, <1>2
-----------------------------------------------------------------------------
(* What is still to come are fragments. *)
LEMMA ComingType ==
  ASSUME TypeOK, AddrInv
  PROVE  /\ Comings \in Nat
         /\ next = NoFragment => Comings = Len(InFlight)
         /\ next # NoFragment => Comings = Len(InFlight) + 1 /\ Coming(Comings) = next
         /\ \A i \in 1..Comings : Coming(i) \in Fragment
         /\ \A i \in 1..Len(InFlight) : i \in 1..Comings /\ Coming(i) = mem[InFlight[i]]
<1>1. Len(InFlight) \in Nat /\ next \in Fragment
  BY FlightType DEF TypeOK
<1>2. next = NoFragment => Comings = Len(InFlight)
  BY <1>1 DEF Comings
<1>3. next # NoFragment => Comings = Len(InFlight) + 1
  BY <1>1 DEF Comings
<1>4. \A i \in 1..Len(InFlight) : Coming(i) = mem[InFlight[i]]
  BY <1>1 DEF Coming
<1>5. Coming(Len(InFlight) + 1) = next
  BY <1>1 DEF Coming
<1>6. \A i \in 1..Len(InFlight) : mem[InFlight[i]] \in Fragment
  BY FlightType
<1> QED
  BY <1>1, <1>2, <1>3, <1>4, <1>5, <1>6

(* A new event comes behind all others. *)
LEMMA ComingEvent ==
  ASSUME TypeOK, AddrInv, RpuEvent
  PROVE  /\ Comings' = Comings + 1 /\ next = NoFragment /\ next' # NoFragment
         /\ \A i \in 1..Comings : Coming(i)' = Coming(i)
         /\ \A i : i = Comings + 1 => Coming(i)' = next'
         /\ next'.ev = Len(sent) + 1 /\ next'.frag = 1
         /\ sent' = Append(sent, Len(sent) + 1)
         /\ InFlight' = InFlight /\ Len(InFlight) = Comings
<1>1. PICK n \in 1..MaxFrag, r \in BOOLEAN :
         next' = [ev |-> Len(sent) + 1, frag |-> 1, of |-> n, resubmit |-> r]
  BY DEF RpuEvent
<1>2. Len(sent) \in Nat
  BY DEF TypeOK
<1>3. next = NoFragment /\ next' # NoFragment
  BY <1>1, <1>2 DEF RpuEvent, NoFragment
<1>4. ~RpuPost /\ ~Reading
  BY <1>3 DEF RpuPost, RpuEvent, Reading, EventReadFirst, EventReadNext,
     EventAllocFail, rpuVars
<1>5. InFlight' = InFlight /\ mem' = mem
  BY <1>4, FlightKept DEF Next, RpuNext
<1>6. Len(InFlight) \in Nat
  BY FlightType
<1>7. Comings = Len(InFlight) /\ Comings' = Len(InFlight) + 1
  BY <1>3, <1>5, <1>6 DEF Comings
<1>8. \A i \in 1..Comings : Coming(i)' = Coming(i)
  BY <1>5, <1>6, <1>7 DEF Coming
<1>9. \A i : i = Comings + 1 => Coming(i)' = next'
  BY <1>5, <1>6, <1>7 DEF Coming
<1> QED
  BY <1>1, <1>3, <1>5, <1>6, <1>7, <1>8, <1>9 DEF RpuEvent

(* A post leaves what was to come as it is; the next fragment of the event, *)
(* if there is one, comes behind it.                                        *)
LEMMA ComingPost ==
  ASSUME TypeOK, NextInv, AddrInv, RpuPost
  PROVE  /\ next # NoFragment /\ Comings > 0 /\ Coming(Comings) = next
         /\ \A i \in 1..Comings : Coming(i)' = Coming(i)
         /\ next.frag = next.of => next' = NoFragment /\ Comings' = Comings
         /\ next.frag # next.of => /\ next' # NoFragment
                                   /\ next' = [next EXCEPT !.frag = next.frag + 1]
                                   /\ Comings' = Comings + 1
                                   /\ \A i : i = Comings + 1 => Coming(i)' = next'
         /\ Len(InFlight') = Comings
         /\ sent' = sent
<1>1. PICK a \in FreeAddr : /\ a \in Addr /\ a \notin ToSet(InFlight)
                            /\ mem' = [mem EXCEPT ![a] = next]
                            /\ InFlight' = Append(InFlight, a)
  BY FlightPost
<1>2. InFlight \in Seq(Addr) /\ mem \in [Addr -> Fragment] /\ Len(InFlight) \in Nat
  BY FlightType DEF TypeOK
<1>3. next # NoFragment /\ next \in Fragment /\ sent' = sent
  BY DEF RpuPost, TypeOK
<1>4. Comings = Len(InFlight) + 1 /\ Coming(Comings) = next
  BY <1>3, ComingType
<1>5. Len(InFlight') = Len(InFlight) + 1
  BY <1>1, <1>2
<1>6. \A i \in 1..Comings : Coming(i)' = Coming(i)
  <2> SUFFICES ASSUME NEW i \in 1..Comings PROVE Coming(i)' = Coming(i)
    OBVIOUS
  <2>1. Coming(i)' = mem'[InFlight'[i]]
    BY <1>4, <1>2, <1>5 DEF Coming
  <2>2. CASE i = Comings
    <3>1. InFlight'[i] = a
      BY <1>1, <1>2, <1>4, <2>2
    <3> QED
      BY <1>1, <1>2, <1>4, <2>1, <2>2, <3>1
  <2>3. CASE i # Comings
    <3>1. i \in 1..Len(InFlight) /\ InFlight'[i] = InFlight[i]
      BY <1>1, <1>2, <1>4, <2>3
    <3>2. InFlight[i] # a /\ InFlight[i] \in Addr
      BY <1>1, <1>2, <3>1 DEF ToSet
    <3>3. mem'[InFlight'[i]] = mem[InFlight[i]]
      BY <1>1, <1>2, <3>1, <3>2
    <3> QED
      BY <2>1, <3>1, <3>3 DEF Coming
  <2> QED
    BY <2>2, <2>3
<1>7. CASE next.frag = next.of
  <2>1. next' = NoFragment
    BY <1>7 DEF RpuPost
  <2>2. Comings' = Comings
    BY <1>2, <1>4, <1>5, <2>1 DEF Comings
  <2> QED
    BY <1>2, <1>3, <1>4, <1>5, <1>6, <1>7, <2>1, <2>2
<1>8. CASE next.frag # next.of
  <2>1. next' = [next EXCEPT !.frag = next.frag + 1]
    BY <1>8 DEF RpuPost
  <2>2. next'.frag = next.frag + 1 /\ next.frag \in 1..MaxFrag
    BY <1>3, <2>1 DEF Fragment
  <2>3. next' # NoFragment
    BY <2>2 DEF NoFragment
  <2>4. Comings' = Comings + 1
    BY <1>2, <1>4, <1>5, <2>3 DEF Comings
  <2>5. \A i : i = Comings + 1 => Coming(i)' = next'
    BY <1>2, <1>4, <1>5 DEF Coming
  <2> QED
    BY <1>2, <1>3, <1>4, <1>5, <1>6, <1>8, <2>1, <2>3, <2>4, <2>5
<1> QED
  BY <1>7, <1>8

(* A read takes the first fragment. *)
LEMMA ComingRead ==
  ASSUME TypeOK, AddrInv, Reading
  PROVE  /\ Comings > 0
         /\ Coming(1) = mem[event_addr]
         /\ Comings' = Comings - 1
         /\ \A i \in 1..Comings' : Coming(i)' = Coming(i + 1)
         /\ Len(InFlight') = Len(InFlight) - 1
         /\ \A i \in 1..Len(InFlight') : InFlight'[i] = InFlight[i + 1]
         /\ UNCHANGED <<next, sent>>
<1>1. /\ Len(InFlight) > 0 /\ InFlight[1] = event_addr /\ InFlight' = Tail(InFlight)
      /\ UNCHANGED <<mem, next, sent>>
  BY FlightRead
<1>2. InFlight \in Seq(Addr) /\ Len(InFlight) \in Nat
  BY FlightType
<1>3. /\ Len(InFlight') = Len(InFlight) - 1
      /\ \A i \in 1..Len(InFlight') : InFlight'[i] = InFlight[i + 1]
  BY <1>1, <1>2
<1>4. Comings > 0 /\ Comings' = Comings - 1
  <2>1. (IF next = NoFragment THEN 0 ELSE 1) \in Nat
    OBVIOUS
  <2>2. (IF next' = NoFragment THEN 0 ELSE 1) = (IF next = NoFragment THEN 0 ELSE 1)
    BY <1>1
  <2>3. Comings = Len(InFlight) + (IF next = NoFragment THEN 0 ELSE 1)
    BY DEF Comings
  <2>4. Comings' = Len(InFlight') + (IF next' = NoFragment THEN 0 ELSE 1)
    BY DEF Comings
  <2> QED
    BY <1>1, <1>2, <1>3, <2>1, <2>2, <2>3, <2>4
<1>5. Coming(1) = mem[event_addr]
  BY <1>1, <1>2 DEF Coming
<1>6. \A i \in 1..Comings' : Coming(i)' = Coming(i + 1)
  BY <1>1, <1>2, <1>3, <1>4 DEF Coming
<1> QED
  BY <1>1, <1>3, <1>4, <1>5, <1>6

(* The other steps change nothing of it. *)
LEMMA ComingKept ==
  ASSUME TypeOK, AddrInv, [Next]_vars, ~RpuEvent, ~RpuPost, ~Reading
  PROVE  /\ Comings' = Comings
         /\ \A i : Coming(i)' = Coming(i)
         /\ UNCHANGED <<InFlight, next, sent>>
<1>1. InFlight' = InFlight /\ mem' = mem
  BY FlightKept
<1>2. next' = next /\ sent' = sent
  BY DEF Next, RpuNext, RpuWdog, IrqEnter, IrqHandler, EventDequeue,
     EventsRead, EventGet, Reading, EventFree, EventQueue, IrqAck, IrqReturn,
     EventGetFails, EventMsgFail, EventNodeFail, Tasklet, TaskletStart,
     TaskletDequeue, TaskletCall, TaskletDone, vars, rpuVars
<1> QED
  BY <1>1, <1>2 DEF Comings, Coming

(* Fragments keep following each other. *)
LEMMA StreamNext == TypeOK /\ NextInv /\ AddrInv /\ StreamInv /\ [Next]_vars => StreamInv'
<1> SUFFICES ASSUME TypeOK, NextInv, AddrInv, StreamInv, [Next]_vars PROVE StreamInv'
  OBVIOUS
<1>t. /\ Comings \in Nat /\ sent \in Seq(Nat) /\ Len(sent) \in Nat
      /\ \A i \in 1..Comings : Coming(i) \in Fragment
      /\ InFlight \in Seq(Addr) /\ Len(InFlight) \in Nat
      /\ \A i \in 1..Len(InFlight) : i \in 1..Comings
  BY ComingType, FlightType DEF TypeOK
<1>1. CASE RpuEvent
  <2>1. /\ Comings' = Comings + 1 /\ next = NoFragment /\ next' # NoFragment
        /\ \A i \in 1..Comings : Coming(i)' = Coming(i)
        /\ \A i : i = Comings + 1 => Coming(i)' = next'
        /\ next'.ev = Len(sent) + 1 /\ next'.frag = 1
        /\ sent' = Append(sent, Len(sent) + 1)
        /\ InFlight' = InFlight
    BY <1>1, ComingEvent
  <2>2. \A i \in 1..Len(sent') : sent'[i] = i
    BY <1>t, <2>1 DEF StreamInv
  <2>3. Len(sent') = Len(sent) + 1
    BY <1>t, <2>1
  <2>4. ASSUME NEW i \in 1..(Comings' - 1) PROVE Follows(Coming(i)', Coming(i + 1)')
    <3>1. CASE i = Comings
      <4>1. Coming(i).ev = Len(sent) /\ Coming(i).frag = Coming(i).of
        BY <1>t, <2>1, <3>1 DEF StreamInv
      <4>2. Coming(i)' = Coming(i) /\ Coming(i + 1)' = next'
        BY <1>t, <2>1, <3>1
      <4> QED
        BY <2>1, <3>1, <4>1, <4>2 DEF Follows
    <3>2. CASE i # Comings
      <4>1. i \in 1..(Comings - 1) /\ i \in 1..Comings /\ i + 1 \in 1..Comings
        BY <1>t, <2>1, <3>2
      <4> QED
        BY <2>1, <4>1 DEF StreamInv
    <3> QED
      BY <3>1, <3>2
  <2>5. \A i \in 1..Comings' : i = Comings' => Coming(i)'.ev = Len(sent')
    BY <2>1, <2>3
  <2>6. \A i \in 1..Len(InFlight') : Coming(i)'.resubmit <=> InFlight'[i] \in EventBuf
    BY <1>t, <2>1 DEF StreamInv
  <2> QED
    BY <2>1, <2>2, <2>4, <2>5, <2>6 DEF StreamInv
<1>2. CASE RpuPost
  <2>1. /\ next # NoFragment /\ Comings > 0 /\ Coming(Comings) = next
        /\ \A i \in 1..Comings : Coming(i)' = Coming(i)
        /\ next.frag = next.of => next' = NoFragment /\ Comings' = Comings
        /\ next.frag # next.of => /\ next' # NoFragment
                                  /\ next' = [next EXCEPT !.frag = next.frag + 1]
                                  /\ Comings' = Comings + 1
                                  /\ \A i : i = Comings + 1 => Coming(i)' = next'
        /\ Len(InFlight') = Comings
        /\ sent' = sent
    BY <1>2, ComingPost
  <2>2. ASSUME NEW i \in 1..(Comings' - 1) PROVE Follows(Coming(i)', Coming(i + 1)')
    <3>1. CASE i = Comings
      <4>1. next.frag # next.of
        BY <1>t, <2>1, <3>1
      <4>2. Coming(i)' = next /\ Coming(i + 1)' = next'
        BY <1>t, <2>1, <3>1, <4>1
      <4> QED
        BY <2>1, <4>1, <4>2 DEF Follows
    <3>2. CASE i # Comings
      <4>1. i \in 1..(Comings - 1) /\ i \in 1..Comings /\ i + 1 \in 1..Comings
        BY <1>t, <2>1, <3>2
      <4> QED
        BY <2>1, <4>1 DEF StreamInv
    <3> QED
      BY <3>1, <3>2
  <2>3. ASSUME NEW i \in 1..Comings', i = Comings'
        PROVE  /\ Coming(i)'.ev = Len(sent')
               /\ next' = NoFragment => Coming(i)'.frag = Coming(i)'.of
    <3>1. next.ev = Len(sent) /\ next \in Fragment
      BY <1>t, <2>1 DEF StreamInv, TypeOK
    <3>2. CASE next.frag = next.of
      <4>1. Coming(i)' = next
        BY <1>t, <2>1, <2>3, <3>2
      <4> QED
        BY <2>1, <3>1, <3>2, <4>1
    <3>3. CASE next.frag # next.of
      <4>1. next'.ev = next.ev /\ Coming(i)' = next'
        BY <2>1, <2>3, <3>1, <3>3 DEF Fragment
      <4> QED
        BY <2>1, <3>1, <3>3, <4>1
    <3> QED
      BY <3>2, <3>3
  <2>5. \A i \in 1..Len(InFlight') : Coming(i)'.resubmit <=> InFlight'[i] \in EventBuf
    <3>1. PICK a \in FreeAddr : /\ a \in EventBuf <=> next.resubmit
                                /\ InFlight' = Append(InFlight, a)
                                /\ a \in Addr
      BY <1>2, FlightPost
    <3>2. Comings = Len(InFlight) + 1
      BY <2>1, ComingType
    <3>3. InFlight'[Comings] = a /\ \A i \in 1..Len(InFlight) : InFlight'[i] = InFlight[i]
      BY <1>t, <3>1, <3>2
    <3>4. \A i \in 1..Len(InFlight) : Coming(i)'.resubmit <=> InFlight'[i] \in EventBuf
      BY <1>t, <2>1, <3>3 DEF StreamInv
    <3>5. \A i \in 1..Comings : i = Comings =>
             (Coming(i)'.resubmit <=> InFlight'[i] \in EventBuf)
      BY <1>t, <2>1, <3>1, <3>3
    <3>6. \A i \in 1..Len(InFlight') : i \in 1..Len(InFlight) \/ i = Comings
      BY <1>t, <2>1, <3>2
    <3> QED
      BY <1>t, <2>1, <3>4, <3>5, <3>6
  <2> QED
    BY <2>1, <2>2, <2>3, <2>5 DEF StreamInv
<1>3. CASE Reading
  <2>1. /\ Comings > 0
        /\ Comings' = Comings - 1
        /\ \A i \in 1..Comings' : Coming(i)' = Coming(i + 1)
        /\ Len(InFlight') = Len(InFlight) - 1
        /\ \A i \in 1..Len(InFlight') : InFlight'[i] = InFlight[i + 1]
        /\ UNCHANGED <<next, sent>>
    BY <1>3, ComingRead
  <2>2. ASSUME NEW i \in 1..(Comings' - 1) PROVE Follows(Coming(i)', Coming(i + 1)')
    <3>1. i \in 1..Comings' /\ i + 1 \in 1..Comings' /\ i + 1 \in 1..(Comings - 1)
      BY <1>t, <2>1
    <3>2. Coming(i)' = Coming(i + 1) /\ Coming(i + 1)' = Coming((i + 1) + 1)
      BY <2>1, <3>1
    <3>3. Follows(Coming(i + 1), Coming((i + 1) + 1))
      BY <3>1 DEF StreamInv
    <3> QED
      BY <3>2, <3>3
  <2>3. \A i \in 1..Comings' :
           i = Comings' => /\ Coming(i)'.ev = Len(sent')
                           /\ next' = NoFragment => Coming(i)'.frag = Coming(i)'.of
    BY <1>t, <2>1 DEF StreamInv
  <2>4. \A i \in 1..Len(InFlight') : Coming(i)'.resubmit <=> InFlight'[i] \in EventBuf
    <3> SUFFICES ASSUME NEW i \in 1..Len(InFlight')
                 PROVE  Coming(i)'.resubmit <=> InFlight'[i] \in EventBuf
      OBVIOUS
    <3>1. i + 1 \in 1..Len(InFlight) /\ i \in 1..Comings'
      BY <1>t, <2>1
    <3>2. Coming(i)' = Coming(i + 1) /\ InFlight'[i] = InFlight[i + 1]
      BY <2>1, <3>1
    <3> QED
      BY <3>1, <3>2 DEF StreamInv
  <2> QED
    BY <2>1, <2>2, <2>3, <2>4 DEF StreamInv
<1>4. CASE ~RpuEvent /\ ~RpuPost /\ ~Reading
  <2>1. /\ Comings' = Comings
        /\ \A i : Coming(i)' = Coming(i)
        /\ UNCHANGED <<InFlight, next, sent>>
    BY <1>4, ComingKept
  <2> QED
    BY <2>1 DEF StreamInv
<1> QED
  BY <1>1, <1>2, <1>3, <1>4
-----------------------------------------------------------------------------
(* The events, one after the other. *)
LEMMA EventsType ==
  ASSUME TypeOK
  PROVE  Events \in Seq(Seq(Fragment)) /\ Len(Events) \in Nat
<1>1. (IF taskletPc = "call" THEN <<event>> ELSE <<>>) \in Seq(Seq(Fragment))
  BY DEF TypeOK
<1>2. delivered \in Seq(Seq(Fragment)) /\ event_q \in Seq(Seq(Fragment))
  BY DEF TypeOK
<1> HIDE DEF Fragment
<1> QED
  BY <1>1, <1>2 DEF Events

(* The handler adds the event it has put together behind the others. *)
LEMMA EventsQueue ==
  ASSUME TypeOK, EventQueue
  PROVE  Events' = Append(Events, event_data) /\ event_data' = <<>>
<1> DEFINE d == delivered \o (IF taskletPc = "call" THEN <<event>> ELSE <<>>)
<1>1. (IF taskletPc = "call" THEN <<event>> ELSE <<>>) \in Seq(Seq(Fragment))
  BY DEF TypeOK
<1>2. d \in Seq(Seq(Fragment))
  BY <1>1 DEF TypeOK
<1>3. event_q \in Seq(Seq(Fragment)) /\ event_data \in Seq(Fragment)
  BY DEF TypeOK
<1>4. Events = d \o event_q /\ Events' = d \o Append(event_q, event_data)
  BY DEF Events, EventQueue, taskletVars
<1> HIDE DEF d
<1>5. d \o Append(event_q, event_data) = Append(d \o event_q, event_data)
  BY <1>2, <1>3
<1> QED
  BY <1>4, <1>5 DEF EventQueue

(* The tasklet takes an event from the queue and hands it to the FMAC: it   *)
(* stays in its place.  Nothing else touches them.                          *)
LEMMA EventsKept ==
  ASSUME TypeOK, [Next]_vars, ~EventQueue
  PROVE  Events' = Events
<1>t. /\ delivered \in Seq(Seq(Fragment)) /\ event_q \in Seq(Seq(Fragment))
      /\ event \in Seq(Fragment)
  BY DEF TypeOK
<1>1. CASE TaskletDequeue
  <2>1. Events = delivered \o <<>> \o event_q
    BY <1>1 DEF TaskletDequeue, Events
  <2>2. Events' = delivered \o <<Head(event_q)>> \o Tail(event_q)
    BY <1>1 DEF TaskletDequeue, Events
  <2>3. event_q # <<>>
    BY <1>1 DEF TaskletDequeue
  <2> DEFINE h == Head(event_q)
             t == Tail(event_q)
  <2>4. /\ h \in Seq(Fragment) /\ t \in Seq(Seq(Fragment))
        /\ event_q = <<h>> \o t
    BY <1>t, <2>3
  <2> HIDE DEF h, t
  <2>5. delivered \o <<>> = delivered
    BY <1>t, ConcatEmptySeq
  <2>6. <<h>> \in Seq(Seq(Fragment))
    BY <2>4
  <2>7. (delivered \o <<h>>) \o t = delivered \o (<<h>> \o t)
    BY <1>t, <2>4, <2>6, ConcatAssociative
  <2> QED
    BY <2>1, <2>2, <2>4, <2>5, <2>7 DEF h, t
<1>2. CASE TaskletCall
  <2>1. Events = delivered \o <<event>> \o event_q
    BY <1>2 DEF TaskletCall, Events
  <2>2. Events' = Append(delivered, event) \o <<>> \o event_q
    BY <1>2 DEF TaskletCall, Events
  <2>3. Append(delivered, event) = delivered \o <<event>>
    BY <1>t
  <2>4. Append(delivered, event) \o <<>> = Append(delivered, event)
    BY <1>t, ConcatEmptySeq, AppendProperties
  <2> QED
    BY <2>1, <2>2, <2>3, <2>4
<1>3. CASE ~TaskletDequeue /\ ~TaskletCall
  <2>1. /\ UNCHANGED <<delivered, event, event_q>>
        /\ taskletPc = "call" <=> taskletPc' = "call"
    BY <1>3 DEF Next, RpuNext, RpuEvent, RpuPost, RpuWdog, IrqEnter, IrqHandler,
       EventDequeue, EventsRead, EventGet, EventReadFirst, EventReadNext,
       EventFree, IrqAck, IrqReturn, EventGetFails, EventAllocFail,
       EventMsgFail, EventNodeFail, Tasklet, TaskletStart, TaskletDone, vars,
       taskletVars
  <2> QED
    BY <2>1 DEF Events
<1> QED
  BY <1>1, <1>2, <1>3

(* What each step makes of the event being put together. *)
LEMMA DataStep ==
  ASSUME TypeOK, AddrInv, [Next]_vars
  PROVE  \/ EventReadFirst /\ event_data' = <<Coming(1)>>
         \/ EventReadNext /\ event_data' = Append(event_data, Coming(1))
         \/ EventQueue /\ event_data' = <<>>
         \/ EventGetFails /\ event_data' = <<>>
         \/ /\ ~Reading /\ ~EventQueue /\ ~EventGetFails
            /\ event_data' = event_data
<1>1. Reading => Coming(1) = mem[event_addr]
  BY ComingRead
<1>2. CASE EventReadFirst
  BY <1>1, <1>2 DEF EventReadFirst, Reading
<1>3. CASE EventReadNext
  BY <1>1, <1>3 DEF EventReadNext, Reading
<1>4. CASE EventQueue
  BY <1>4 DEF EventQueue
<1>5. CASE EventGetFails
  BY <1>5 DEF EventGetFails, EventAllocFail, EventMsgFail, EventNodeFail
<1>6. CASE ~EventReadFirst /\ ~EventReadNext /\ ~EventQueue /\ ~EventGetFails
  <2>1. event_data' = event_data
    BY <1>6 DEF Next, RpuNext, RpuEvent, RpuPost, RpuWdog, IrqEnter, IrqHandler,
       EventDequeue, EventsRead, EventGet, EventFree, IrqAck, IrqReturn,
       Tasklet, TaskletStart, TaskletDequeue, TaskletCall, TaskletDone, vars,
       asmVars
  <2> QED
    BY <1>6, <2>1 DEF Reading, EventGetFails
<1> QED
  BY <1>2, <1>3, <1>4, <1>5, <1>6

(* Before is transitive. *)
LEMMA BeforeTransitive ==
  ASSUME NEW f \in Fragment, NEW g \in Fragment, NEW h \in Fragment,
         Before(f, g), Before(g, h)
  PROVE  Before(f, h)
BY FragmentType DEF Before

(* The delivered events are the first of them; while the FMAC is called     *)
(* with one, it is the next.                                                *)
LEMMA DeliveredIs ==
  ASSUME TypeOK
  PROVE  /\ \A i \in 1..Len(delivered) : i \in 1..Len(Events) /\ Events[i] = delivered[i]
         /\ taskletPc = "call" => /\ Len(delivered) + 1 \in 1..Len(Events)
                                  /\ Events[Len(delivered) + 1] = event
<1>1. /\ delivered \in Seq(Seq(Fragment)) /\ event_q \in Seq(Seq(Fragment))
      /\ event \in Seq(Fragment) /\ Len(delivered) \in Nat /\ Len(event_q) \in Nat
  BY DEF TypeOK
<1> DEFINE h == IF taskletPc = "call" THEN <<event>> ELSE <<>>
<1>2. h \in Seq(Seq(Fragment)) /\ Len(h) \in Nat
  BY <1>1
<1>3. taskletPc = "call" => Len(h) = 1 /\ h[1] = event
  OBVIOUS
<1>4. Events = (delivered \o h) \o event_q
  BY DEF Events
<1> HIDE DEF h
<1>5. /\ Len(delivered \o h) = Len(delivered) + Len(h)
      /\ delivered \o h \in Seq(Seq(Fragment))
      /\ \A i \in 1..Len(delivered) : (delivered \o h)[i] = delivered[i]
      /\ Len(h) = 1 => (delivered \o h)[Len(delivered) + 1] = h[1]
  BY <1>1, <1>2
<1>6. /\ Len(Events) = Len(delivered) + Len(h) + Len(event_q)
      /\ \A i \in 1..(Len(delivered) + Len(h)) : Events[i] = (delivered \o h)[i]
  BY <1>1, <1>2, <1>4, <1>5
<1>7. ASSUME NEW i \in 1..Len(delivered)
      PROVE  i \in 1..Len(Events) /\ Events[i] = delivered[i]
  <2>1. i \in 1..Len(Events) /\ i \in 1..(Len(delivered) + Len(h))
    BY <1>1, <1>2, <1>6
  <2> QED
    BY <1>5, <1>6, <2>1
<1>8. ASSUME taskletPc = "call"
      PROVE  /\ Len(delivered) + 1 \in 1..Len(Events)
             /\ Events[Len(delivered) + 1] = event
  <2>1. /\ Len(delivered) + 1 \in 1..Len(Events)
        /\ Len(delivered) + 1 \in 1..(Len(delivered) + Len(h))
    <3>1. Len(h) = 1
      BY <1>3, <1>8
    <3>2. Len(Events) = Len(delivered) + 1 + Len(event_q)
      BY <1>6, <3>1
    <3> QED
      BY <1>1, <3>1, <3>2
  <2> QED
    BY <1>3, <1>5, <1>6, <1>8, <2>1
<1> QED
  BY <1>7, <1>8

(* FragmentsOnce, with the event being put together apart from the others. *)
LEMMA OnceIs ==
  ASSUME TypeOK
  PROVE  FragmentsOnce <=> /\ \A i \in 1..Len(Events) : InOrder(Events[i])
                           /\ \A i, j \in 1..Len(Events) :
                                 j < i => AllBefore(Events[j], Events[i])
                           /\ InOrder(event_data)
                           /\ \A j \in 1..Len(Events) : AllBefore(Events[j], event_data)
<1> DEFINE s == Append(Events, event_data)
<1>1. Events \in Seq(Seq(Fragment)) /\ Len(Events) \in Nat /\ event_data \in Seq(Fragment)
  BY EventsType DEF TypeOK
<1>2. /\ Len(s) = Len(Events) + 1
      /\ \A i \in 1..Len(Events) : s[i] = Events[i]
      /\ s[Len(Events) + 1] = event_data
  BY <1>1
<1>3. FragmentsOnce <=> \A i \in 1..Len(s) :
                          InOrder(s[i]) /\ \A j \in 1..(i - 1) : AllBefore(s[j], s[i])
  BY DEF FragmentsOnce
<1> HIDE DEF s
<1>4. \A i \in 1..Len(s) : i \in 1..Len(Events) \/ i = Len(Events) + 1
  BY <1>1, <1>2
<1>5. ASSUME FragmentsOnce, NEW i \in 1..Len(Events)
      PROVE  /\ InOrder(Events[i])
             /\ \A j \in 1..Len(Events) : j < i => AllBefore(Events[j], Events[i])
  <2>1. i \in 1..Len(s) /\ s[i] = Events[i]
    BY <1>1, <1>2, <1>5
  <2>2. InOrder(s[i]) /\ \A j \in 1..(i - 1) : AllBefore(s[j], s[i])
    BY <1>3, <1>5, <2>1
  <2>3. ASSUME NEW j \in 1..Len(Events), j < i PROVE AllBefore(Events[j], Events[i])
    <3>1. j \in 1..(i - 1) /\ s[j] = Events[j]
      BY <1>1, <1>2, <2>3
    <3> QED
      BY <2>1, <2>2, <3>1
  <2> QED
    BY <2>1, <2>2, <2>3
<1>6. ASSUME FragmentsOnce
      PROVE  InOrder(event_data) /\ \A j \in 1..Len(Events) : AllBefore(Events[j], event_data)
  <2> DEFINE i == Len(Events) + 1
  <2>1. i \in 1..Len(s) /\ s[i] = event_data
    BY <1>1, <1>2
  <2>2. InOrder(s[i]) /\ \A j \in 1..(i - 1) : AllBefore(s[j], s[i])
    BY <1>3, <1>6, <2>1
  <2>3. i - 1 = Len(Events)
    BY <1>1
  <2> HIDE DEF i
  <2>4. ASSUME NEW j \in 1..Len(Events) PROVE AllBefore(Events[j], event_data)
    <3>1. j \in 1..(i - 1) /\ s[j] = Events[j]
      BY <1>2, <2>3
    <3> QED
      BY <2>1, <2>2, <3>1
  <2> QED
    BY <2>1, <2>2, <2>4
<1>7. ASSUME \A i \in 1..Len(Events) : InOrder(Events[i]),
             \A i, j \in 1..Len(Events) : j < i => AllBefore(Events[j], Events[i]),
             InOrder(event_data),
             \A j \in 1..Len(Events) : AllBefore(Events[j], event_data),
             NEW i \in 1..Len(s)
      PROVE  InOrder(s[i]) /\ \A j \in 1..(i - 1) : AllBefore(s[j], s[i])
  <2>1. CASE i \in 1..Len(Events)
    <3>1. \A j \in 1..(i - 1) : j \in 1..Len(Events) /\ j < i
      BY <1>1, <2>1
    <3> QED
      BY <1>2, <1>7, <2>1, <3>1
  <2>2. CASE i = Len(Events) + 1
    <3>1. \A j \in 1..(i - 1) : j \in 1..Len(Events)
      BY <1>1, <2>2
    <3> QED
      BY <1>2, <1>7, <2>2, <3>1
  <2> QED
    BY <1>4, <2>1, <2>2
<1> QED
  BY <1>3, <1>5, <1>6, <1>7
(* What is ahead of all that is to come stays so at each step of the RPU    *)
(* and at each read.                                                        *)
LEMMA AheadNext ==
  ASSUME TypeOK, NextInv, AddrInv, OrderInv, [Next]_vars,
         NEW e \in Seq(Fragment), Ahead(e)
  PROVE  Ahead(e)'
<1>t. /\ Comings \in Nat /\ Len(sent) \in Nat /\ Len(e) \in Nat
      /\ \A i \in 1..Comings : Coming(i) \in Fragment
      /\ \A k \in 1..Len(e) : e[k] \in Fragment
  BY ComingType DEF TypeOK
<1> SUFFICES ASSUME NEW k \in 1..Len(e)
             PROVE  /\ e[k].ev <= Len(sent')
                    /\ \A j \in 1..Comings' : Before(e[k], Coming(j)')
  BY DEF Ahead
<1>k. /\ e[k].ev <= Len(sent)
      /\ \A j \in 1..Comings : Before(e[k], Coming(j))
  BY DEF Ahead
<1>1. CASE RpuEvent
  <2>1. /\ Comings' = Comings + 1
        /\ \A i \in 1..Comings : Coming(i)' = Coming(i)
        /\ \A i : i = Comings + 1 => Coming(i)' = next'
        /\ next'.ev = Len(sent) + 1
        /\ sent' = Append(sent, Len(sent) + 1)
    BY <1>1, ComingEvent
  <2>2. Len(sent') = Len(sent) + 1
    BY <2>1 DEF TypeOK
  <2>3. e[k].ev \in Nat
    BY <1>t, FragmentType
  <2>4. Before(e[k], next')
    BY <1>t, <1>k, <2>1, <2>3 DEF Before
  <2>5. \A j \in 1..Comings' : j \in 1..Comings \/ j = Comings + 1
    BY <1>t, <2>1
  <2>6. e[k].ev <= Len(sent')
    BY <1>t, <1>k, <2>2, <2>3
  <2> QED
    BY <1>k, <2>1, <2>4, <2>5, <2>6
<1>2. CASE RpuPost
  <2>1. /\ next # NoFragment /\ Comings > 0 /\ Coming(Comings) = next
        /\ \A i \in 1..Comings : Coming(i)' = Coming(i)
        /\ next.frag = next.of => next' = NoFragment /\ Comings' = Comings
        /\ next.frag # next.of => /\ next' # NoFragment
                                  /\ next' = [next EXCEPT !.frag = next.frag + 1]
                                  /\ Comings' = Comings + 1
                                  /\ \A i : i = Comings + 1 => Coming(i)' = next'
        /\ sent' = sent
    BY <1>2, ComingPost
  <2>2. Before(e[k], next)
    BY <1>t, <1>k, <2>1
  <2>3. next.frag # next.of => Before(e[k], next')
    <3>1. next \in Fragment
      BY DEF TypeOK
    <3>2. next.frag # next.of => next'.ev = next.ev /\ next'.frag = next.frag + 1
      BY <2>1, <3>1 DEF Fragment
    <3>3. e[k] \in Fragment
      BY <1>t
    <3> QED
      BY <2>2, <3>1, <3>2, <3>3, FragmentType DEF Before
  <2>4. \A j \in 1..Comings' : j \in 1..Comings \/ (j = Comings + 1 /\ next.frag # next.of)
    BY <1>t, <2>1
  <2> QED
    BY <1>k, <2>1, <2>3, <2>4
<1>3. CASE Reading
  <2>1. /\ Comings > 0 /\ Comings' = Comings - 1
        /\ \A i \in 1..Comings' : Coming(i)' = Coming(i + 1)
        /\ UNCHANGED <<next, sent>>
    BY <1>3, ComingRead
  <2>2. \A j \in 1..Comings' : j + 1 \in 1..Comings
    BY <1>t, <2>1
  <2> QED
    BY <1>k, <2>1, <2>2
<1>4. CASE ~RpuEvent /\ ~RpuPost /\ ~Reading
  <2>1. Comings' = Comings /\ (\A i : Coming(i)' = Coming(i)) /\ sent' = sent
    BY <1>4, ComingKept
  <2> QED
    BY <1>k, <2>1
<1> QED
  BY <1>1, <1>2, <1>3, <1>4

(* What is to come stays in order. *)
LEMMA ComingInOrder ==
  ASSUME TypeOK, NextInv, AddrInv, StreamInv, OrderInv, [Next]_vars
  PROVE  /\ \A i, j \in 1..Comings' : i < j => Before(Coming(i)', Coming(j)')
         /\ \A j \in 1..Comings' : Coming(j)'.ev <= Len(sent')
<1>t. /\ Comings \in Nat /\ Len(sent) \in Nat
      /\ \A i \in 1..Comings : Coming(i) \in Fragment
  BY ComingType DEF TypeOK
<1>o. /\ \A i, j \in 1..Comings : i < j => Before(Coming(i), Coming(j))
      /\ \A j \in 1..Comings : Coming(j).ev <= Len(sent)
  BY DEF OrderInv
<1>1. CASE RpuEvent
  <2>1. /\ Comings' = Comings + 1
        /\ \A i \in 1..Comings : Coming(i)' = Coming(i)
        /\ \A i : i = Comings + 1 => Coming(i)' = next'
        /\ next'.ev = Len(sent) + 1
        /\ sent' = Append(sent, Len(sent) + 1)
    BY <1>1, ComingEvent
  <2>2. Len(sent') = Len(sent) + 1
    BY <2>1 DEF TypeOK
  <2>3. \A i \in 1..Comings : Coming(i).ev \in Nat
    BY <1>t, FragmentType
  <2>4. \A i \in 1..Comings : Before(Coming(i), next')
    BY <1>t, <1>o, <2>1, <2>3 DEF Before
  <2>5. \A j \in 1..Comings' : j \in 1..Comings \/ j = Comings + 1
    BY <1>t, <2>1
  <2>6. ASSUME NEW i \in 1..Comings', NEW j \in 1..Comings', i < j
        PROVE  Before(Coming(i)', Coming(j)')
    <3>1. i \in 1..Comings /\ Coming(i)' = Coming(i)
      BY <1>t, <2>1, <2>6
    <3>2. CASE j \in 1..Comings
      BY <1>o, <2>1, <2>6, <3>1, <3>2
    <3>3. CASE j = Comings + 1
      BY <2>1, <2>4, <3>1, <3>3
    <3> QED
      BY <2>5, <3>2, <3>3
  <2>7. ASSUME NEW j \in 1..Comings' PROVE Coming(j)'.ev <= Len(sent')
    <3>1. CASE j \in 1..Comings
      BY <1>t, <1>o, <2>1, <2>2, <2>3, <3>1
    <3>2. CASE j = Comings + 1
      BY <1>t, <2>1, <2>2, <3>2
    <3> QED
      BY <2>5, <3>1, <3>2
  <2> QED
    BY <2>6, <2>7
<1>2. CASE RpuPost
  <2>1. /\ next # NoFragment /\ Comings > 0 /\ Coming(Comings) = next
        /\ \A i \in 1..Comings : Coming(i)' = Coming(i)
        /\ next.frag = next.of => next' = NoFragment /\ Comings' = Comings
        /\ next.frag # next.of => /\ next' # NoFragment
                                  /\ next' = [next EXCEPT !.frag = next.frag + 1]
                                  /\ Comings' = Comings + 1
                                  /\ \A i : i = Comings + 1 => Coming(i)' = next'
        /\ sent' = sent
    BY <1>2, ComingPost
  <2>2. next \in Fragment
    BY DEF TypeOK
  <2>3. next.frag # next.of => next'.ev = next.ev /\ next'.frag = next.frag + 1
    BY <2>1, <2>2 DEF Fragment
  <2>4. ASSUME NEW i \in 1..Comings, next.frag # next.of
        PROVE  Before(Coming(i), next')
    <3>1. CASE i = Comings
      BY <2>1, <2>2, <2>3, <2>4, <3>1, FragmentType DEF Before
    <3>2. CASE i # Comings
      <4>1. i < Comings /\ Comings \in 1..Comings
        BY <1>t, <3>2
      <4>2. Before(Coming(i), next) /\ Coming(i) \in Fragment
        BY <1>t, <1>o, <2>1, <4>1
      <4> QED
        BY <2>2, <2>3, <2>4, <4>2, FragmentType DEF Before
    <3> QED
      BY <3>1, <3>2
  <2>5. \A j \in 1..Comings' : j \in 1..Comings \/ (j = Comings + 1 /\ next.frag # next.of)
    BY <1>t, <2>1
  <2>6. ASSUME NEW i \in 1..Comings', NEW j \in 1..Comings', i < j
        PROVE  Before(Coming(i)', Coming(j)')
    <3>1. i \in 1..Comings /\ Coming(i)' = Coming(i)
      BY <1>t, <2>1, <2>5, <2>6
    <3>2. CASE j \in 1..Comings
      BY <1>o, <2>1, <2>6, <3>1, <3>2
    <3>3. CASE j = Comings + 1 /\ next.frag # next.of
      BY <2>1, <2>4, <3>1, <3>3
    <3> QED
      BY <2>5, <3>2, <3>3
  <2>7. ASSUME NEW j \in 1..Comings' PROVE Coming(j)'.ev <= Len(sent')
    <3>1. CASE j \in 1..Comings
      BY <1>o, <2>1, <3>1
    <3>2. CASE j = Comings + 1 /\ next.frag # next.of
      <4>1. Comings \in 1..Comings
        BY <1>t, <2>1
      <4>2. next.ev <= Len(sent)
        BY <1>o, <2>1, <4>1
      <4> QED
        BY <2>1, <2>3, <3>2, <4>2
    <3> QED
      BY <2>5, <3>1, <3>2
  <2> QED
    BY <2>6, <2>7
<1>3. CASE Reading
  <2>1. /\ Comings > 0 /\ Comings' = Comings - 1
        /\ \A i \in 1..Comings' : Coming(i)' = Coming(i + 1)
        /\ UNCHANGED <<next, sent>>
    BY <1>3, ComingRead
  <2>2. \A j \in 1..Comings' : j + 1 \in 1..Comings
    BY <1>t, <2>1
  <2>3. \A i, j \in 1..Comings' : i < j => i + 1 < j + 1
    BY <1>t, <2>1
  <2> QED
    BY <1>o, <2>1, <2>2, <2>3
<1>4. CASE ~RpuEvent /\ ~RpuPost /\ ~Reading
  <2>1. Comings' = Comings /\ (\A i : Coming(i)' = Coming(i)) /\ sent' = sent
    BY <1>4, ComingKept
  <2> QED
    BY <1>o, <2>1
<1> QED
  BY <1>1, <1>2, <1>3, <1>4

(* The fragment that is read is after all that has come up and before all   *)
(* that is still to come.                                                   *)
LEMMA ReadInOrder ==
  ASSUME TypeOK, AddrInv, OrderInv, Reading
  PROVE  /\ Coming(1) \in Fragment
         /\ \A i \in 1..Len(Events) : AllBefore(Events[i], <<Coming(1)>>)
         /\ \A k \in 1..Len(event_data) : Before(event_data[k], Coming(1))
         /\ Coming(1).ev <= Len(sent')
         /\ \A j \in 1..Comings' : Before(Coming(1), Coming(j)')
<1>1. /\ Comings > 0 /\ Comings' = Comings - 1 /\ Comings \in Nat
      /\ \A i \in 1..Comings' : Coming(i)' = Coming(i + 1)
      /\ UNCHANGED <<next, sent>>
  BY ComingRead, ComingType
<1>2. 1 \in 1..Comings /\ Coming(1) \in Fragment
  BY <1>1, ComingType
<1>3. ASSUME NEW j \in 1..Comings' PROVE Before(Coming(1), Coming(j)')
  <2>1. j + 1 \in 1..Comings /\ 1 < j + 1
    BY <1>1
  <2> QED
    BY <1>1, <1>2, <2>1 DEF OrderInv
<1>4. \A i \in 1..Len(Events) : AllBefore(Events[i], <<Coming(1)>>)
  BY <1>2 DEF OrderInv, Ahead, AllBefore
<1>5. \A k \in 1..Len(event_data) : Before(event_data[k], Coming(1))
  BY <1>2 DEF OrderInv, Ahead
<1>6. Coming(1).ev <= Len(sent')
  BY <1>1, <1>2 DEF OrderInv
<1> QED
  BY <1>2, <1>3, <1>4, <1>5, <1>6

(* Everything keeps its order. *)
LEMMA OrderNext ==
  TypeOK /\ NextInv /\ AddrInv /\ StreamInv /\ OrderInv /\ [Next]_vars /\ TypeOK' => OrderInv'
<1> SUFFICES ASSUME TypeOK, NextInv, AddrInv, StreamInv, OrderInv, [Next]_vars, TypeOK'
             PROVE  OrderInv'
  OBVIOUS
<1>t. /\ Events \in Seq(Seq(Fragment)) /\ Len(Events) \in Nat
      /\ event_data \in Seq(Fragment) /\ Len(event_data) \in Nat
      /\ \A i \in 1..Len(Events) : Events[i] \in Seq(Fragment)
  <2>1. Events \in Seq(Seq(Fragment)) /\ event_data \in Seq(Fragment)
    BY EventsType DEF TypeOK
  <2> QED
    BY <2>1
<1>o. /\ \A i \in 1..Len(Events) : InOrder(Events[i])
      /\ \A i, j \in 1..Len(Events) : j < i => AllBefore(Events[j], Events[i])
      /\ InOrder(event_data)
      /\ \A j \in 1..Len(Events) : AllBefore(Events[j], event_data)
  BY OnceIs DEF OrderInv
<1>p. ASSUME /\ \A i \in 1..Len(Events') : InOrder(Events'[i])
             /\ \A i, j \in 1..Len(Events') : j < i => AllBefore(Events'[j], Events'[i])
             /\ InOrder(event_data')
             /\ \A j \in 1..Len(Events') : AllBefore(Events'[j], event_data')
      PROVE  FragmentsOnce'
  <2>1. (FragmentsOnce <=> /\ \A i \in 1..Len(Events) : InOrder(Events[i])
                           /\ \A i, j \in 1..Len(Events) :
                                 j < i => AllBefore(Events[j], Events[i])
                           /\ InOrder(event_data)
                           /\ \A j \in 1..Len(Events) : AllBefore(Events[j], event_data))'
    BY OnceIs, PTL
  <2> QED
    BY <1>p, <2>1
<1>q. ASSUME FragmentsOnce',
             \A i \in 1..Len(Events') : \A e : e = Events'[i] => Ahead(e)',
             \A e : e = event_data' => Ahead(e)'
      PROVE  OrderInv'
  <2>1. /\ \A i, j \in 1..Comings' : i < j => Before(Coming(i)', Coming(j)')
        /\ \A j \in 1..Comings' : Coming(j)'.ev <= Len(sent')
    BY ComingInOrder
  <2>2. \A i \in 1..Len(Events') : \A k \in 1..Len(Events'[i]) :
           /\ Events'[i][k].ev <= Len(sent')
           /\ \A j \in 1..Comings' : Before(Events'[i][k], Coming(j)')
    BY <1>q DEF Ahead
  <2>3. \A k \in 1..Len(event_data') :
           /\ event_data'[k].ev <= Len(sent')
           /\ \A j \in 1..Comings' : Before(event_data'[k], Coming(j)')
    BY <1>q DEF Ahead
  <2> QED
    BY <1>q, <2>1, <2>2, <2>3 DEF OrderInv, Ahead, Before
<1>a. \A e \in Seq(Fragment) : Ahead(e) => Ahead(e)'
  BY AheadNext
<1>b. \A i \in 1..Len(Events) : Ahead(Events[i])
  BY DEF OrderInv
<1>c. Ahead(event_data)
  BY DEF OrderInv
<1>1. CASE EventQueue
  <2>1. Events' = Append(Events, event_data) /\ event_data' = <<>>
    BY <1>1, EventsQueue
  <2>2. /\ Len(Events') = Len(Events) + 1
        /\ \A i \in 1..Len(Events) : Events'[i] = Events[i]
        /\ Events'[Len(Events) + 1] = event_data
        /\ \A i \in 1..Len(Events') : i \in 1..Len(Events) \/ i = Len(Events) + 1
    BY <1>t, <2>1
  <2>3. \A i \in 1..Len(Events') : InOrder(Events'[i])
    BY <1>o, <2>2
  <2>4. ASSUME NEW i \in 1..Len(Events'), NEW j \in 1..Len(Events'), j < i
        PROVE  AllBefore(Events'[j], Events'[i])
    <3>1. j \in 1..Len(Events) /\ Events'[j] = Events[j]
      BY <1>t, <2>2, <2>4
    <3>2. CASE i \in 1..Len(Events)
      BY <1>o, <2>2, <2>4, <3>1, <3>2
    <3>3. CASE i = Len(Events) + 1
      BY <1>o, <2>2, <3>1, <3>3
    <3> QED
      BY <2>2, <3>2, <3>3
  <2>5. InOrder(event_data') /\ \A j \in 1..Len(Events') : AllBefore(Events'[j], event_data')
    BY <2>1 DEF InOrder, AllBefore
  <2>6. FragmentsOnce'
    BY <1>p, <2>3, <2>4, <2>5
  <2>7. \A i \in 1..Len(Events') : \A e : e = Events'[i] => Ahead(e)'
    BY <1>t, <1>a, <1>b, <1>c, <2>2
  <2>8. \A e : e = event_data' => Ahead(e)'
    BY <2>1 DEF Ahead
  <2> QED
    BY <1>q, <2>6, <2>7, <2>8
<1>2. CASE ~EventQueue
  <2>1. Events' = Events
    BY <1>2, EventsKept
  <2>2. \A i \in 1..Len(Events') : \A e : e = Events'[i] => Ahead(e)'
    BY <1>t, <1>a, <1>b, <2>1
  <2>3. ASSUME InOrder(event_data'), \A j \in 1..Len(Events) : AllBefore(Events[j], event_data')
        PROVE  FragmentsOnce'
    BY <1>o, <1>p, <2>1, <2>3
  <2>4. CASE event_data' = event_data
    <3>1. FragmentsOnce'
      BY <1>o, <2>3, <2>4
    <3>2. \A e : e = event_data' => Ahead(e)'
      BY <1>t, <1>a, <1>c, <2>4
    <3> QED
      BY <1>q, <2>2, <3>1, <3>2
  <2>5. CASE event_data' = <<>>
    <3>1. FragmentsOnce'
      BY <2>3, <2>5 DEF InOrder, AllBefore
    <3>2. \A e : e = event_data' => Ahead(e)'
      BY <2>5 DEF Ahead
    <3> QED
      BY <1>q, <2>2, <3>1, <3>2
  <2>6. CASE Reading /\ event_data' = <<Coming(1)>>
    <3>1. /\ Coming(1) \in Fragment
          /\ \A i \in 1..Len(Events) : AllBefore(Events[i], <<Coming(1)>>)
          /\ Coming(1).ev <= Len(sent')
          /\ \A j \in 1..Comings' : Before(Coming(1), Coming(j)')
      BY <2>6, ReadInOrder
    <3>2. InOrder(event_data')
      BY <2>6 DEF InOrder
    <3>3. FragmentsOnce'
      BY <2>3, <2>6, <3>1, <3>2
    <3>4. \A e : e = event_data' => Ahead(e)'
      BY <2>6, <3>1 DEF Ahead
    <3> QED
      BY <1>q, <2>2, <3>3, <3>4
  <2>7. CASE Reading /\ event_data' = Append(event_data, Coming(1))
    <3>1. /\ Coming(1) \in Fragment
          /\ \A i \in 1..Len(Events) : AllBefore(Events[i], <<Coming(1)>>)
          /\ \A k \in 1..Len(event_data) : Before(event_data[k], Coming(1))
          /\ Coming(1).ev <= Len(sent')
          /\ \A j \in 1..Comings' : Before(Coming(1), Coming(j)')
      BY <2>7, ReadInOrder
    <3>2. /\ Len(event_data') = Len(event_data) + 1
          /\ \A k \in 1..Len(event_data) : event_data'[k] = event_data[k]
          /\ event_data'[Len(event_data) + 1] = Coming(1)
          /\ \A k \in 1..Len(event_data') : k \in 1..Len(event_data) \/ k = Len(event_data) + 1
      BY <1>t, <2>7, <3>1
    <3>3. InOrder(event_data')
      <4> SUFFICES ASSUME NEW k \in 1..Len(event_data'), NEW l \in 1..Len(event_data'), k < l
                   PROVE  Before(event_data'[k], event_data'[l])
        BY DEF InOrder
      <4>1. k \in 1..Len(event_data)
        BY <1>t, <3>2
      <4>2. CASE l \in 1..Len(event_data)
        BY <1>o, <3>2, <4>1, <4>2 DEF InOrder
      <4>3. CASE l = Len(event_data) + 1
        BY <3>1, <3>2, <4>1, <4>3
      <4> QED
        BY <3>2, <4>2, <4>3
    <3>4. ASSUME NEW i \in 1..Len(Events) PROVE AllBefore(Events[i], event_data')
      <4>1. AllBefore(Events[i], event_data) /\ AllBefore(Events[i], <<Coming(1)>>)
        BY <1>o, <3>1
      <4>2. \A k \in 1..Len(Events[i]) : Before(Events[i][k], Coming(1))
        BY <4>1 DEF AllBefore
      <4> QED
        BY <3>2, <4>1, <4>2 DEF AllBefore
    <3>5. FragmentsOnce'
      BY <2>3, <3>3, <3>4
    <3>6. ASSUME NEW e, e = event_data' PROVE Ahead(e)'
      <4>1. \A k \in 1..Len(event_data) :
               /\ event_data[k].ev <= Len(sent')
               /\ \A j \in 1..Comings' : Before(event_data[k], Coming(j)')
        BY <1>t, <1>a, <1>c DEF Ahead
      <4> QED
        BY <3>1, <3>2, <3>6, <4>1 DEF Ahead
    <3> QED
      BY <1>q, <2>2, <3>5, <3>6
  <2> QED
    BY <1>2, <2>4, <2>5, <2>6, <2>7, DataStep DEF Reading
<1> QED
  BY <1>1, <1>2
-----------------------------------------------------------------------------
(* While nothing fails every event buffer stays in one of its places. *)
LEMMA CoverNext ==
  ASSUME TypeOK, AddrInv, ResubmitInv, CoverInv, [Next]_vars, ~EventGetFails
  PROVE  CoverInv'
<1>t. event_busy \in Seq(Addr) /\ ToSet(event_busy) = {event_busy[i] : i \in 1..Len(event_busy)}
  BY DEF TypeOK, ToSet
<1>1. CASE RpuPost
  <2>1. PICK a \in FreeAddr : event_busy' = Append(event_busy, a) /\ event_avl' = event_avl \ {a}
    BY <1>1 DEF RpuPost
  <2>2. a \in Addr
    BY <2>1 DEF FreeAddr, TypeOK, Addr
  <2>3. ToSet(event_busy') = ToSet(event_busy) \cup {a}
    BY <1>t, <2>1, <2>2 DEF ToSet
  <2>4. InHand' = InHand
    BY <1>1 DEF RpuPost, irqVars, InHand
  <2> QED
    BY <2>1, <2>3, <2>4 DEF CoverInv
<1>2. CASE EventDequeue
  <2>1. /\ event_busy # <<>> /\ irqPc = "get" /\ irqPc' = "read" /\ event_avl' = event_avl
        /\ event_addr' = Head(event_busy) /\ event_busy' = Tail(event_busy)
    BY <1>2 DEF EventDequeue
  <2>2. ToSet(event_busy) \subseteq ToSet(event_busy') \cup {event_addr'}
    <3>1. /\ Len(event_busy') = Len(event_busy) - 1
          /\ \A i \in 1..Len(event_busy') : event_busy'[i] = event_busy[i + 1]
          /\ event_addr' = event_busy[1]
          /\ event_busy' \in Seq(Addr)
      BY <1>t, <2>1
    <3>2. ToSet(event_busy') = {event_busy'[i] : i \in 1..Len(event_busy')}
      BY <3>1 DEF ToSet
    <3>3. ASSUME NEW i \in 1..Len(event_busy), i # 1
          PROVE  event_busy[i] \in ToSet(event_busy')
      <4>1. i - 1 \in 1..Len(event_busy') /\ (i - 1) + 1 = i
        BY <1>t, <3>1, <3>3
      <4>2. event_busy'[i - 1] = event_busy[i]
        BY <3>1, <4>1
      <4> QED
        BY <3>2, <4>1, <4>2
    <3> QED
      BY <1>t, <3>1, <3>3
  <2>3. InHand = {} /\ InHand' = {event_addr'}
    BY <2>1 DEF InHand
  <2> QED
    BY <2>1, <2>2, <2>3 DEF CoverInv
<1>3. CASE EventFree
  <2>1. InHand = {event_addr} /\ event_busy' = event_busy
    BY <1>3 DEF EventFree, InHand
  <2>2. event_addr \in EventBuf => event_addr \in event_avl'
    BY <1>3 DEF EventFree, ResubmitInv
  <2>3. event_avl \subseteq event_avl'
    BY <1>3 DEF EventFree
  <2> QED
    BY <2>1, <2>2, <2>3 DEF CoverInv
<1>4. CASE ~RpuPost /\ ~EventDequeue /\ ~EventFree
  <2>1. event_avl' = event_avl /\ event_busy' = event_busy
    BY <1>4 DEF Next, RpuNext, RpuEvent, RpuWdog, IrqEnter, IrqHandler,
       EventsRead, EventGet, EventReadFirst, EventReadNext, EventQueue, IrqAck,
       IrqReturn, Tasklet, TaskletStart, TaskletDequeue, TaskletCall,
       TaskletDone, vars, hwVars
  <2>2. \/ irqPc \in {"read", "free"} /\ irqPc' \in {"read", "free"} /\ event_addr' = event_addr
        \/ irqPc \notin {"read", "free"}
    BY <1>4 DEF Next, RpuNext, RpuEvent, RpuWdog, IrqEnter, IrqHandler,
       EventsRead, EventGet, EventReadFirst, EventReadNext, EventQueue, IrqAck,
       IrqReturn, Tasklet, TaskletStart, TaskletDequeue, TaskletCall,
       TaskletDone, vars, irqVars
  <2>3. InHand \subseteq InHand'
    BY <2>2 DEF InHand
  <2> QED
    BY <2>1, <2>3 DEF CoverInv
<1> QED
  BY <1>1, <1>2, <1>3, <1>4

(* What the handler has put together goes on with what is to come: the      *)
(* steps of the RPU.                                                        *)
LEMMA ContinueRpu ==
  ASSUME TypeOK, NextInv, AddrInv, ContinueInv, RpuEvent \/ RpuPost
  PROVE  ContinueInv' /\ Events' = Events
         /\ UNCHANGED <<event_data, pending, event_resubmit, irqPc, event_addr>>
<1>1. UNCHANGED <<event_data, pending, event_resubmit, irqPc, event_addr>>
  BY DEF RpuEvent, RpuPost, asmVars, irqVars
<1>2. ~EventQueue
  BY <1>1 DEF EventQueue
<1>3. Events' = Events
  BY <1>2, EventsKept DEF Next, RpuNext
<1>4. Done' = Done
  BY <1>1, <1>3 DEF Done
<1>5. CASE Comings > 0
  <2>1. Comings' > 0 /\ Coming(1)' = Coming(1)
    BY <1>5, ComingEvent, ComingPost, ComingType
  <2> QED
    BY <1>1, <1>3, <1>4, <1>5, <2>1 DEF ContinueInv
<1>6. CASE ~(Comings > 0)
  <2>1. Comings = 0 /\ pending = 0 /\ Len(sent) = Done
    BY <1>6, ComingType DEF ContinueInv
  <2>2. RpuEvent
    BY <1>6, ComingPost
  <2>3. /\ Comings' = 1
        /\ \A i : i = 1 => Coming(i)' = next'
        /\ next'.ev = Len(sent) + 1 /\ next'.frag = 1
    BY <2>1, <2>2, ComingEvent
  <2>4. Coming(1)' = next'
    BY <2>3
  <2> QED
    BY <1>1, <1>3, <1>4, <2>1, <2>3, <2>4 DEF ContinueInv
<1> QED
  BY <1>1, <1>3, <1>5, <1>6

(* A read takes the first fragment of an event, or the next one.            *)
LEMMA ContinueRead ==
  ASSUME TypeOK, AddrInv, StreamInv, AssemblyInv, ContinueInv,
         EventReadFirst \/ EventReadNext
  PROVE  ContinueInv' /\ AssemblyInv' /\ ResubmitInv' /\ Events' = Events
<1>r. Reading
  BY DEF Reading
<1>n. [Next]_vars /\ ~EventQueue
  BY DEF Next, IrqHandler, EventGet, EventReadFirst, EventReadNext, EventQueue
<1>1. /\ Comings > 0 /\ Comings' = Comings - 1 /\ Coming(1) = mem[event_addr]
      /\ \A i \in 1..Comings' : Coming(i)' = Coming(i + 1)
      /\ UNCHANGED <<next, sent>>
  BY <1>r, ComingRead
<1>2. Events' = Events
  BY <1>n, EventsKept
<1>3. irqPc = "read" /\ irqPc' = "free" /\ event_addr' = event_addr
  BY DEF EventReadFirst, EventReadNext
<1>t. /\ Len(Events) \in Nat /\ event_data \in Seq(Fragment) /\ pending \in 0..MaxFrag
      /\ Comings \in Nat /\ Coming(1) \in Fragment /\ MaxFrag \in Nat
  BY <1>1, EventsType, ComingType, BoundAssumption DEF TypeOK
<1>d. Done = Len(Events)
  BY <1>3, <1>t DEF Done
<1>a. Assembling'
  BY <1>3 DEF Assembling
<1> DEFINE f == Coming(1)
<1>f. /\ f.ev \in Nat /\ f.frag \in 1..MaxFrag /\ f.of \in 1..MaxFrag /\ f.resubmit \in BOOLEAN
  BY <1>t, FragmentType
<1>l. ASSUME Comings' = 0 PROVE f.ev = Len(sent) /\ f.frag = f.of
  <2>1. Comings = 1
    BY <1>1, <1>t, <1>l
  <2>2. next = NoFragment
    <3>1. Len(InFlight) > 0 /\ Len(InFlight) \in Nat
      BY <1>r, FlightRead, FlightType
    <3> QED
      BY <2>1, <3>1, ComingType
  <2> QED
    BY <2>1, <2>2 DEF StreamInv
<1>m. ASSUME Comings' # 0 PROVE Comings' > 0 /\ Follows(f, Coming(1)')
  <2>1. 1 \in 1..Comings' /\ 1 \in 1..(Comings - 1) /\ Comings' > 0
    BY <1>1, <1>t, <1>m
  <2>2. Coming(1)' = Coming(1 + 1)
    BY <1>1, <2>1
  <2>3. Follows(Coming(1), Coming(1 + 1))
    BY <2>1 DEF StreamInv
  <2> QED
    BY <2>1, <2>2, <2>3
<1>4. f.resubmit <=> event_addr \in EventBuf
  <2>1. Len(InFlight) > 0 /\ InFlight[1] = event_addr /\ Len(InFlight) \in Nat
    BY <1>r, FlightRead, FlightType
  <2> QED
    BY <2>1 DEF StreamInv
<1>5. CASE EventReadFirst
  <2>1. pending = 0 /\ event_data' = <<f>>
    BY <1>1, <1>5 DEF EventReadFirst
  <2>2. f.frag = 1 /\ f.ev = Len(Events) + 1
    BY <1>1, <1>d, <2>1 DEF ContinueInv
  <2>3. pending' = f.of - 1 /\ event_resubmit' = f.resubmit
    BY <1>1, <1>5, <2>2 DEF EventReadFirst, Headers
  <2>4. f = [f EXCEPT !.frag = 1]
    BY <1>t, <2>2 DEF Fragment
  <2>5. AssemblyInv'
    BY <1>2, <1>3, <1>a, <1>f, <1>t, <2>1, <2>2, <2>3, <2>4 DEF AssemblyInv
  <2>6. ContinueInv'
    <3>1. CASE pending' = 0
      <4>1. Done' = Len(Events) + 1 /\ f.frag = f.of
        BY <1>2, <1>3, <1>f, <2>2, <2>3, <3>1 DEF Done
      <4> QED
        BY <1>1, <1>l, <1>m, <1>t, <2>2, <3>1, <4>1 DEF ContinueInv, Follows
    <3>2. CASE pending' # 0
      <4>1. pending' > 0 /\ f.frag # f.of
        BY <1>f, <2>2, <2>3, <3>2
      <4>2. Comings' > 0 /\ Coming(1)' = [f EXCEPT !.frag = @ + 1]
        BY <1>l, <1>m, <4>1 DEF Follows
      <4>3. [f EXCEPT !.frag = @ + 1] = [f EXCEPT !.frag = 2]
        BY <1>t, <2>2 DEF Fragment
      <4>4. event_data'[1] = f /\ Len(event_data') + 1 = 2
        BY <2>1
      <4> QED
        BY <4>1, <4>2, <4>3, <4>4 DEF ContinueInv
    <3> QED
      BY <3>1, <3>2
  <2>7. ResubmitInv'
    BY <1>3, <1>4, <2>3 DEF ResubmitInv
  <2> QED
    BY <1>2, <2>5, <2>6, <2>7
<1>6. CASE EventReadNext
  <2>1. /\ pending > 0 /\ pending' = pending - 1
        /\ event_data' = Append(event_data, f) /\ event_resubmit' = event_resubmit
    BY <1>1, <1>6 DEF EventReadNext
  <2> DEFINE n == Len(event_data)
             d == event_data[1]
  <2>2. /\ event_data # <<>>
        /\ d.ev = Len(Events) + 1 /\ d.of = n + pending /\ d.resubmit = event_resubmit
        /\ \A k \in 1..n : event_data[k] = [d EXCEPT !.frag = k]
    BY <2>1 DEF AssemblyInv, Assembling
  <2>3. n \in Nat \ {0} /\ d \in Fragment
    BY <1>t, <2>2
  <2>4. f = [d EXCEPT !.frag = n + 1]
    BY <1>1, <2>1 DEF ContinueInv
  <2>5. /\ Len(event_data') = n + 1 /\ event_data'[1] = d /\ event_data' # <<>>
        /\ \A k \in 1..n : event_data'[k] = event_data[k]
        /\ event_data'[n + 1] = f
    BY <1>t, <2>1, <2>3
  <2>6. f.ev = d.ev /\ f.of = d.of /\ f.frag = n + 1 /\ f.resubmit = d.resubmit
    BY <2>3, <2>4 DEF Fragment
  <2> HIDE DEF n, d, f
  <2>7. \A k \in 1..(n + 1) : event_data'[k] = [d EXCEPT !.frag = k]
    <3>1. \A k \in 1..(n + 1) : k \in 1..n \/ k = n + 1
      BY <2>3
    <3> QED
      BY <2>2, <2>4, <2>5, <3>1
  <2>8. AssemblyInv'
    <3>1. d.of = Len(event_data') + pending'
      BY <1>t, <2>1, <2>2, <2>3, <2>5
    <3>2. \A k \in 1..Len(event_data') : event_data'[k] = [event_data'[1] EXCEPT !.frag = k]
      BY <2>5, <2>7
    <3> QED
      BY <1>2, <1>3, <1>a, <2>1, <2>2, <2>5, <3>1, <3>2 DEF AssemblyInv
  <2>9. ContinueInv'
    <3>1. CASE pending' = 0
      <4>1. Done' = Len(Events) + 1 /\ f.frag = f.of
        BY <1>2, <1>3, <1>t, <2>1, <2>2, <2>6, <3>1 DEF Done
      <4> QED
        BY <1>1, <1>l, <1>m, <1>t, <2>2, <2>6, <3>1, <4>1 DEF ContinueInv, Follows
    <3>2. CASE pending' # 0
      <4>1. pending' > 0 /\ f.frag # f.of
        BY <1>t, <2>1, <2>2, <2>3, <2>6, <3>2
      <4>2. Comings' > 0 /\ Coming(1)' = [f EXCEPT !.frag = @ + 1]
        BY <1>l, <1>m, <4>1 DEF Follows
      <4>3. [f EXCEPT !.frag = @ + 1] = [d EXCEPT !.frag = (n + 1) + 1]
        BY <2>3, <2>4, <2>6 DEF Fragment
      <4> QED
        BY <2>5, <4>1, <4>2, <4>3 DEF ContinueInv
    <3> QED
      BY <3>1, <3>2
  <2>10. ResubmitInv'
    BY <1>3, <1>4, <2>1, <2>2, <2>6 DEF ResubmitInv
  <2> QED
    BY <1>2, <2>8, <2>9, <2>10
<1> QED
  BY <1>5, <1>6

(* Nothing of it changes while the handler is elsewhere, and while an event *)
(* is given back and queued it only moves on.                               *)
LEMMA ContinueRest ==
  ASSUME TypeOK, AddrInv, AssemblyInv, ContinueInv, ResubmitInv, EventsWhole, [Next]_vars,
         ~RpuEvent, ~RpuPost, ~EventReadFirst, ~EventReadNext, ~EventGetFails
  PROVE  ContinueInv' /\ AssemblyInv' /\ ResubmitInv' /\ EventsWhole'
<1>1. /\ Comings' = Comings /\ sent' = sent
      /\ \A i : Coming(i)' = Coming(i)
  BY ComingKept DEF Reading, EventGetFails
<1>t. /\ Events \in Seq(Seq(Fragment)) /\ Len(Events) \in Nat
      /\ event_data \in Seq(Fragment) /\ pending \in 0..MaxFrag /\ MaxFrag \in Nat
  BY EventsType, BoundAssumption DEF TypeOK
<1>2. CASE EventQueue
  <2>1. Events' = Append(Events, event_data) /\ event_data' = <<>>
    BY <1>2, EventsQueue
  <2>2. irqPc = "queue" /\ irqPc' = "get" /\ pending = 0 /\ pending' = 0
    BY <1>2 DEF EventQueue, AssemblyInv
  <2>3. /\ Len(Events') = Len(Events) + 1
        /\ \A i \in 1..Len(Events) : Events'[i] = Events[i]
        /\ Events'[Len(Events) + 1] = event_data
        /\ \A i \in 1..Len(Events') : i \in 1..Len(Events) \/ i = Len(Events) + 1
    BY <1>t, <2>1
  <2>4. IsWhole(event_data) /\ event_data[1].ev = Len(Events) + 1
    <3>1. Assembling
      BY <2>2 DEF Assembling
    <3>2. Len(event_data) + pending = Len(event_data)
      BY <1>t, <2>2
    <3> QED
      BY <3>1, <3>2 DEF AssemblyInv, IsWhole
  <2>5. EventsWhole'
    BY <2>3, <2>4 DEF EventsWhole, IsWhole
  <2>6. Done' = Done
    BY <1>t, <2>2, <2>3 DEF Done
  <2>7. ContinueInv'
    BY <1>1, <2>2, <2>6 DEF ContinueInv
  <2>8. AssemblyInv' /\ ResubmitInv'
    BY <2>1, <2>2 DEF AssemblyInv, ResubmitInv, Assembling
  <2> QED
    BY <2>5, <2>7, <2>8
<1>3. CASE ~EventQueue
  <2>1. Events' = Events
    BY <1>3, EventsKept
  <2>2. event_data' = event_data /\ pending' = pending /\ event_resubmit' = event_resubmit
    BY <1>3 DEF Next, RpuNext, RpuWdog, IrqEnter, IrqHandler, EventDequeue,
       EventsRead, EventGet, EventFree, IrqAck, IrqReturn, Tasklet,
       TaskletStart, TaskletDequeue, TaskletCall, TaskletDone, vars, asmVars
  <2>3. EventsWhole'
    BY <2>1 DEF EventsWhole, IsWhole
  <2>4. CASE EventFree
    <3>1. irqPc = "free" /\ irqPc' = IF pending = 0 THEN "queue" ELSE "get"
      BY <2>4 DEF EventFree
    <3>2. Assembling' = Assembling
      BY <1>t, <2>2, <3>1 DEF Assembling
    <3>3. Done' = Done
      BY <1>t, <2>1, <2>2, <3>1 DEF Done
    <3> QED
      BY <1>1, <2>1, <2>2, <2>3, <3>1, <3>2, <3>3 DEF ContinueInv, AssemblyInv, ResubmitInv
  <2>5. CASE ~EventFree
    <3>1. \/ irqPc' = irqPc /\ event_addr' = event_addr
          \/ irqPc \notin {"free", "queue"} /\ irqPc' \notin {"free", "queue"}
      BY <1>3, <2>5 DEF Next, RpuNext, RpuWdog, IrqEnter, IrqHandler, EventDequeue,
         EventsRead, EventGet, IrqAck, IrqReturn, Tasklet, TaskletStart,
         TaskletDequeue, TaskletCall, TaskletDone, vars, irqVars
    <3>2. Assembling' = Assembling
      BY <2>2, <3>1 DEF Assembling
    <3>3. Done' = Done
      BY <2>1, <2>2, <3>1 DEF Done
    <3> QED
      BY <1>1, <2>1, <2>2, <2>3, <3>1, <3>2, <3>3 DEF ContinueInv, AssemblyInv, ResubmitInv
  <2> QED
    BY <2>4, <2>5
<1> QED
  BY <1>2, <1>3

(* What is said of the time before the first failure stays true. *)
LEMMA UnfailedNext ==
  TypeOK /\ NextInv /\ AddrInv /\ StreamInv /\ UnfailedInv /\ [Next]_vars => UnfailedInv'
<1> SUFFICES ASSUME TypeOK, NextInv, AddrInv, StreamInv, UnfailedInv, [Next]_vars,
                    allocFails' = 0
             PROVE  (EventsWhole /\ AssemblyInv /\ ContinueInv /\ ResubmitInv /\ CoverInv)'
  BY DEF UnfailedInv
<1>1. ~EventGetFails
  BY DEF EventGetFails, EventAllocFail, EventMsgFail, EventNodeFail, TypeOK
<1>2. allocFails = 0
  BY <1>1 DEF Next, RpuNext, RpuEvent, RpuPost, RpuWdog, IrqEnter, IrqHandler,
     EventDequeue, EventsRead, EventGet, EventReadFirst, EventReadNext,
     EventFree, EventQueue, IrqAck, IrqReturn, Tasklet, TaskletStart,
     TaskletDequeue, TaskletCall, TaskletDone, vars, irqVars
<1>3. EventsWhole /\ AssemblyInv /\ ContinueInv /\ ResubmitInv /\ CoverInv
  BY <1>2 DEF UnfailedInv
<1>4. CoverInv'
  BY <1>1, <1>3, CoverNext
<1>5. CASE RpuEvent \/ RpuPost
  <2>1. /\ ContinueInv' /\ Events' = Events
        /\ UNCHANGED <<event_data, pending, event_resubmit, irqPc, event_addr>>
    BY <1>3, <1>5, ContinueRpu
  <2> QED
    BY <1>3, <1>4, <2>1 DEF EventsWhole, IsWhole, AssemblyInv, Assembling, ResubmitInv
<1>6. CASE EventReadFirst \/ EventReadNext
  <2>1. ContinueInv' /\ AssemblyInv' /\ ResubmitInv' /\ Events' = Events
    BY <1>3, <1>6, ContinueRead
  <2> QED
    BY <1>3, <1>4, <2>1 DEF EventsWhole, IsWhole
<1>7. CASE ~RpuEvent /\ ~RpuPost /\ ~EventReadFirst /\ ~EventReadNext
  BY <1>1, <1>3, <1>4, <1>7, ContinueRest
<1> QED
  BY <1>5, <1>6, <1>7
-----------------------------------------------------------------------------
(* The inductive invariant of the event path. *)
EventInv == /\ TypeOK /\ NextInv /\ AddrInv /\ CountInv /\ NoEventForgotten
            /\ StreamInv /\ OrderInv /\ UnfailedInv

(* It holds at the start. *)
LEMMA EventInit == Init => EventInv
<1> SUFFICES ASSUME Init PROVE EventInv
  OBVIOUS
<1>1. TypeOK
  BY TypeInit
<1>2. NextInv
  BY DEF Init, NextInv, NoFragment
<1>3. InFlight = <<>> /\ Len(InFlight) = 0 /\ ToSet(InFlight) = {} /\ Comings = 0
  BY DEF Init, InFlight, ToSet, Comings
<1>4. AddrInv
  BY <1>3 DEF Init, AddrInv, IsInjective
<1>5. CountInv /\ NoEventForgotten
  BY DEF Init, CountInv, NoEventForgotten, TaskletCovers, HandlerDrains
<1>6. StreamInv
  BY <1>3 DEF Init, StreamInv
<1>7. Events = <<>> /\ Len(Events) = 0 /\ event_data = <<>> /\ Len(event_data) = 0
  BY DEF Init, Events
<1>8. FragmentsOnce
  BY <1>1, <1>7, OnceIs DEF InOrder
<1>9. OrderInv
  BY <1>3, <1>7, <1>8 DEF OrderInv, Ahead
<1>10. UnfailedInv
  BY <1>3, <1>7, AddrAssumption DEF Init, UnfailedInv, EventsWhole, AssemblyInv,
     Assembling, ContinueInv, Done, ResubmitInv, CoverInv
<1> QED
  BY <1>1, <1>2, <1>4, <1>5, <1>6, <1>9, <1>10 DEF EventInv

(* Every step keeps it. *)
LEMMA EventNext == EventInv /\ [Next]_vars => EventInv'
<1> SUFFICES ASSUME EventInv, [Next]_vars PROVE EventInv'
  OBVIOUS
<1> USE DEF EventInv
<1>1. TypeOK' /\ NextInv'
  BY TypeNext
<1>2. AddrInv' /\ CountInv' /\ NoEventForgotten'
  BY AddrNext, CountNext, ForgottenNext
<1>3. StreamInv' /\ OrderInv'
  BY <1>1, StreamNext, OrderNext
<1>4. UnfailedInv'
  BY UnfailedNext
<1> QED
  BY <1>1, <1>2, <1>3, <1>4

(* So it always holds. *)
LEMMA EventInductive == Spec => []EventInv
BY EventInit, EventNext, PTL DEF Spec

(* Every variable of the event path keeps its type. *)
THEOREM EventTypeCorrect == Spec => []TypeOK
<1>1. EventInv => TypeOK
  BY DEF EventInv
<1> QED
  BY <1>1, EventInductive, PTL

(* While no allocation fails, hal_rpu_event_free and the header's resubmit  *)
(* flag keep every event buffer in exactly one place, for any number of     *)
(* buffers and fragments and whatever interrupts are lost.                  *)
THEOREM NoEventBufferLost == Spec => []BuffersKept
<1>1. ASSUME EventInv PROVE BuffersKept
  <2> USE <1>1 DEF EventInv
  <2>1. event_busy \in Seq(Addr) /\ Len(event_busy) \in Nat
    BY DEF TypeOK
  <2>2. CASE irqPc # "read"
    <3>1. InFlight = event_busy
      BY <2>2, FlightIs
    <3>2. ToSet(event_busy) \cap InHand = {} /\ event_avl \cap InHand = {}
      BY <2>2, <3>1 DEF AddrInv, InHand
    <3> QED
      BY <3>1, <3>2 DEF AddrInv, BuffersKept, BuffersReturned, UnfailedInv, CoverInv
  <2>3. CASE irqPc = "read"
    <3>1. /\ InFlight = <<event_addr>> \o event_busy /\ event_addr \in Addr
          /\ InHand = {event_addr}
      BY <2>3, FlightIs DEF AddrInv, InHand
    <3>2. /\ Len(InFlight) = Len(event_busy) + 1 /\ InFlight[1] = event_addr
          /\ \A i \in 1..Len(event_busy) : InFlight[i + 1] = event_busy[i]
          /\ DOMAIN InFlight = 1..Len(InFlight)
          /\ DOMAIN event_busy = 1..Len(event_busy)
      BY <2>1, <3>1
    <3>3. \A i \in 1..Len(event_busy) : i + 1 \in DOMAIN InFlight /\ i + 1 # 1
      BY <2>1, <3>2
    <3>4. 1 \in DOMAIN InFlight
      BY <2>1, <3>2
    <3>5. ToSet(event_busy) \cup InHand \subseteq ToSet(InFlight)
      BY <3>1, <3>2, <3>3, <3>4 DEF ToSet
    <3>6. event_addr \notin ToSet(event_busy)
      BY <3>2, <3>3, <3>4 DEF AddrInv, IsInjective, ToSet
    <3>7. IsInjective(event_busy)
      <4> SUFFICES ASSUME NEW i \in 1..Len(event_busy), NEW j \in 1..Len(event_busy),
                          event_busy[i] = event_busy[j]
                   PROVE  i = j
        BY <3>2 DEF IsInjective
      <4>1. i + 1 = j + 1
        BY <3>2, <3>3 DEF AddrInv, IsInjective
      <4> QED
        BY <4>1
    <3> QED
      BY <3>1, <3>5, <3>6, <3>7 DEF AddrInv, BuffersKept, BuffersReturned, UnfailedInv, CoverInv
  <2> QED
    BY <2>2, <2>3
<1> QED
  BY <1>1, EventInductive, PTL

(* nrf_wifi_hal_irq_handler and the event tasklet leave no event to each    *)
(* other: what is queued has somebody to deliver it, and what was posted    *)
(* when the handler was entered is taken before it returns, in every        *)
(* interleaving.                                                            *)
THEOREM NoEventLeftBehind == Spec => []NoEventForgotten
<1>1. EventInv => NoEventForgotten
  BY DEF EventInv
<1> QED
  BY <1>1, EventInductive, PTL

(* hal_rpu_event_get puts fragments together in the order of the RPU, none  *)
(* comes up twice whatever fails, and while nothing fails the FMAC gets the *)
(* events the RPU sent, whole, from the first one on.                       *)
THEOREM FmacGetsEventsInOrder == Spec => []EventsInOrder
<1>1. ASSUME EventInv PROVE EventsInOrder
  <2> USE <1>1 DEF EventInv
  <2>1. FragmentsOnce
    BY DEF OrderInv
  <2>2. ASSUME allocFails = 0, NEW i \in 1..Len(delivered)
        PROVE  IsWhole(delivered[i]) /\ delivered[i][1].ev = i
    <3>1. i \in 1..Len(Events) /\ Events[i] = delivered[i]
      BY DeliveredIs
    <3> QED
      BY <2>2, <3>1 DEF UnfailedInv, EventsWhole
  <2> QED
    BY <2>1, <2>2 DEF EventsInOrder
<1> QED
  BY <1>1, EventInductive, PTL
-----------------------------------------------------------------------------
(* What Channel sees of the delivered events. *)
Whole == [i \in 1..Len(delivered) |->
            IF IsWhole(delivered[i]) THEN delivered[i][1].ev ELSE 0]

(* Once broken, it stays so. *)
LEMMA BrokenStays ==
  ASSUME TypeOK, [Next]_vars
  PROVE  allocFails \in Nat /\ lostIrqs \in Nat
         /\ allocFails' >= allocFails /\ lostIrqs' >= lostIrqs
<1>t. allocFails \in Nat /\ lostIrqs \in Nat
  BY BoundAssumption DEF TypeOK
<1>1. allocFails' = allocFails \/ allocFails' = allocFails + 1
  BY DEF Next, RpuNext, RpuEvent, RpuPost, RpuWdog, IrqEnter, IrqHandler,
     EventDequeue, EventsRead, EventGet, EventReadFirst, EventReadNext,
     EventFree, EventQueue, IrqAck, IrqReturn, EventGetFails, EventAllocFail,
     EventMsgFail, EventNodeFail, Tasklet, TaskletStart, TaskletDequeue,
     TaskletCall, TaskletDone, vars, irqVars
<1>2. lostIrqs' = lostIrqs \/ lostIrqs' = lostIrqs + 1
  <2>1. CASE IrqAck
    BY <2>1 DEF IrqAck
  <2>2. CASE RpuPost
    BY <2>2 DEF RpuPost
  <2>3. CASE ~IrqAck /\ ~RpuPost
    BY <2>3 DEF Next, RpuNext, RpuEvent, RpuWdog, IrqEnter, IrqHandler,
       EventDequeue, EventsRead, EventGet, EventReadFirst, EventReadNext,
       EventFree, EventQueue, IrqReturn, EventGetFails, EventAllocFail,
       EventMsgFail, EventNodeFail, Tasklet, TaskletStart, TaskletDequeue,
       TaskletCall, TaskletDone, vars, rpuVars
  <2> QED
    BY <2>1, <2>2, <2>3
<1> QED
  BY <1>t, <1>1, <1>2

(* An event of the RPU is accepted by the channel. *)
LEMMA EventAccepted ==
  ASSUME EventInv, RpuEvent
  PROVE  /\ sent' \in Seq(1..MaxEvents)
         /\ IsStrictPrefix(sent, sent')
         /\ UNCHANGED <<delivered, allocFails, lostIrqs>>
<1> USE DEF EventInv
<1>1. /\ sent \in Seq(Nat) /\ Len(sent) \in Nat
      /\ \A i \in 1..Len(sent) : sent[i] = i
  BY DEF TypeOK, StreamInv
<1>2. /\ sent' = Append(sent, Len(sent) + 1) /\ Len(sent) < MaxEvents
      /\ UNCHANGED <<delivered, allocFails, lostIrqs>>
  BY DEF RpuEvent, irqVars, taskletVars
<1>3. /\ sent' \in Seq(Nat) /\ Len(sent') = Len(sent) + 1
      /\ \A i \in 1..Len(sent) : sent'[i] = sent[i]
      /\ sent'[Len(sent) + 1] = Len(sent) + 1
  BY <1>1, <1>2
<1>4. \A i \in 1..Len(sent') : sent'[i] \in 1..MaxEvents
  BY <1>1, <1>2, <1>3, BoundAssumption
<1>5. sent' \in Seq(1..MaxEvents)
  <2> DEFINE t == sent'
             M == 1..MaxEvents
  <2>1. t \in Seq(Nat) /\ \A i \in 1..Len(t) : t[i] \in M
    BY <1>3, <1>4
  <2> HIDE DEF t, M
  <2>2. t \in [1..Len(t) -> M] /\ Len(t) \in Nat
    BY <2>1
  <2>3. t \in Seq(M)
    BY <2>2
  <2> QED
    BY <2>3 DEF t, M
<1>6. SubSeq(sent, 1, Len(sent)) = SubSeq(sent', 1, Len(sent))
  BY <1>1, <1>3
<1>7. IsStrictPrefix(sent, sent')
  BY <1>1, <1>3, <1>6 DEF IsStrictPrefix, IsPrefix
<1> QED
  BY <1>2, <1>5, <1>7

(* A call of the FMAC delivers the next event that was accepted. *)
LEMMA EventDelivered ==
  ASSUME EventInv, TaskletCall, allocFails = 0
  PROVE  /\ Len(Whole) < Len(sent)
         /\ Whole' = Append(Whole, sent[Len(Whole) + 1])
         /\ UNCHANGED sent
<1> USE DEF EventInv
<1>t. /\ delivered \in Seq(Seq(Fragment)) /\ Len(delivered) \in Nat
      /\ event \in Seq(Fragment)
      /\ \A i \in 1..Len(sent) : sent[i] = i
  BY DEF TypeOK, StreamInv
<1> DEFINE n == Len(delivered) + 1
<1>1. n \in 1..Len(Events) /\ Events[n] = event
  BY DeliveredIs DEF TaskletCall
<1>2. IsWhole(event) /\ event[1].ev = n
  BY <1>1 DEF UnfailedInv, EventsWhole
<1>3. 1 \in 1..Len(event)
  BY <1>t, <1>2 DEF IsWhole
<1>4. n <= Len(sent)
  <2>1. Ahead(event)
    BY <1>1 DEF OrderInv
  <2> QED
    BY <1>2, <1>3, <2>1 DEF Ahead
<1>5. n \in 1..Len(sent) /\ sent[n] = n
  BY <1>t, <1>4 DEF TypeOK
<1>6. Len(Whole) = Len(delivered)
  BY <1>t DEF Whole
<1>7. /\ delivered' = Append(delivered, event) /\ Len(delivered') = n
      /\ \A i \in 1..Len(delivered) : delivered'[i] = delivered[i]
      /\ delivered'[n] = event
  BY <1>t DEF TaskletCall
<1>8. Whole' = Append(Whole, n)
  <2> DEFINE w(d) == IF IsWhole(d) THEN d[1].ev ELSE 0
  <2>1. Whole = [i \in 1..Len(delivered) |-> w(delivered[i])]
    BY DEF Whole
  <2>2. Whole' = [i \in 1..n |-> w(delivered'[i])]
    BY <1>7 DEF Whole, IsWhole
  <2>3. w(delivered'[n]) = n
    BY <1>2, <1>7
  <2>4. \A i \in 1..Len(delivered) : w(delivered'[i]) = w(delivered[i])
    BY <1>7
  <2> HIDE DEF w
  <2>5. \A i \in 1..n : i \in 1..Len(delivered) \/ i = n
    BY <1>t
  <2>6. Append(Whole, n) = [i \in 1..n |-> IF i = n THEN n ELSE Whole[i]]
    BY <1>t, <2>1, <1>6
  <2> QED
    BY <1>t, <2>1, <2>2, <2>3, <2>4, <2>5, <2>6
<1>9. sent' = sent
  BY DEF TaskletCall, rpuVars
<1> QED
  BY <1>t, <1>4, <1>5, <1>6, <1>8, <1>9 DEF TypeOK

(* The other steps leave what the channel has accepted and delivered as it  *)
(* is.                                                                      *)
LEMMA ChannelKept ==
  ASSUME [Next]_vars, ~RpuEvent, ~TaskletCall
  PROVE  UNCHANGED <<sent, delivered>>
BY DEF Next, RpuNext, RpuPost, RpuWdog, IrqEnter, IrqHandler, EventDequeue,
   EventsRead, EventGet, EventReadFirst, EventReadNext, EventFree, EventQueue,
   IrqAck, IrqReturn, EventGetFails, EventAllocFail, EventMsgFail,
   EventNodeFail, Tasklet, TaskletStart, TaskletDequeue, TaskletDone, vars,
   rpuVars, taskletVars

(* Every step of the event path is a step of the channel, or none. *)
LEMMA ChannelStep == EventInv /\ [Next]_vars => [Channel!Next]_(Channel!vars)
<1> SUFFICES ASSUME EventInv, [Next]_vars PROVE [Channel!Next]_(Channel!vars)
  OBVIOUS
<1>1. /\ allocFails \in Nat /\ lostIrqs \in Nat
      /\ allocFails' \in Nat /\ lostIrqs' \in Nat
      /\ allocFails' >= allocFails /\ lostIrqs' >= lostIrqs
  <2>1. TypeOK /\ TypeOK'
    BY EventNext DEF EventInv
  <2>2. allocFails' \in Nat /\ lostIrqs' \in Nat
    <3>1. allocFails' \in 0..MaxAllocFails /\ lostIrqs' \in 0..MaxLostIrqs
      BY <2>1 DEF TypeOK
    <3> QED
      BY <3>1, BoundAssumption
  <2> QED
    BY <2>1, <2>2, BrokenStays
<1>2. CASE allocFails' + lostIrqs' > 0
  BY <1>2 DEF Channel!Next, Channel!Break
<1>3. CASE ~(allocFails' + lostIrqs' > 0)
  <2>1. allocFails = 0 /\ lostIrqs = 0 /\ allocFails' = 0 /\ lostIrqs' = 0
    <3>1. \A a, b, c, d \in Nat : c >= a /\ d >= b /\ ~(c + d > 0) => a = 0 /\ b = 0 /\ c = 0 /\ d = 0
      OBVIOUS
    <3> QED
      BY <1>1, <1>3, <3>1
  <2>2. CASE RpuEvent
    <3>1. /\ sent' \in Seq(1..MaxEvents)
          /\ IsStrictPrefix(sent, sent')
          /\ UNCHANGED delivered
      BY <2>2, EventAccepted
    <3>2. Channel!Accept
      BY <2>1, <3>1 DEF Channel!Accept, IsWhole, IsStrictPrefix, IsPrefix,
         Channel!IsStrictPrefix, Channel!IsPrefix
    <3> QED
      BY <3>2 DEF Channel!Next
  <2>3. CASE TaskletCall
    <3>1. /\ Len(Whole) < Len(sent)
          /\ Whole' = Append(Whole, sent[Len(Whole) + 1])
          /\ UNCHANGED sent
      BY <2>1, <2>3, EventDelivered
    <3>a. ~(allocFails + lostIrqs > 0)
      BY <2>1
    <3>b. UNCHANGED <<sent, allocFails + lostIrqs > 0>>
      BY <2>1, <3>1
    <3>2. Channel!Deliver
      BY <3>1, <3>a, <3>b, Zenon DEF Channel!Deliver, Whole
    <3> QED
      BY <3>2 DEF Channel!Next
  <2>4. CASE ~RpuEvent /\ ~TaskletCall
    <3>1. UNCHANGED <<sent, delivered>>
      BY <2>4, ChannelKept
    <3> QED
      BY <2>1, <3>1 DEF Channel!vars, IsWhole
  <2> QED
    BY <2>2, <2>3, <2>4
<1> QED
  BY <1>2, <1>3

(* And it starts as one. *)
LEMMA ChannelInit == Init => Channel!Init
<1> SUFFICES ASSUME Init PROVE Channel!Init
  OBVIOUS
<1>1. sent = <<>> /\ delivered = <<>> /\ allocFails = 0 /\ lostIrqs = 0
  BY DEF Init
<1>2. Len(delivered) = 0
  BY <1>1
<1>3. [i \in 1..Len(delivered) |->
         IF IsWhole(delivered[i]) THEN delivered[i][1].ev ELSE 0] = <<>>
  BY <1>2
<1> QED
  BY <1>1, <1>3 DEF Channel!Init

(* The way of an event from the RPU through buffers, interrupt handler,     *)
(* event_q and tasklet to the FMAC is an ordered channel: until an          *)
(* allocation fails or an interrupt is lost, every event that comes out is  *)
(* the oldest one still inside, whole.                                      *)
THEOREM EventPathIsChannel == Spec => Channel!Init /\ [][Channel!Next]_(Channel!vars)
BY ChannelInit, ChannelStep, EventInductive, PTL DEF Spec
=============================================================================
