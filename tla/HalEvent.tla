----------------------------- MODULE HalEvent -----------------------------
(***************************************************************************)
(* The event path of the HAL (hw_if/hal/src/hal_interrupt.c, hal_api.c):    *)
(* the RPU writes an event, in fragments when it is long, to event buffers, *)
(* posts their addresses on the event busy queue and raises an interrupt    *)
(* for each.  The interrupt handler empties the queue under lock_rx, puts   *)
(* the fragments together in event_data, gives buffers back when the event  *)
(* says so (resubmit) and queues the whole event on event_q; the event      *)
(* tasklet takes the events from there and calls the FMAC.                  *)
(*                                                                          *)
(* The payload of a fragment is abstracted to which part of which event it  *)
(* is, lengths are counted in fragments, and the hardware queue of free     *)
(* event buffers is a set.  In this build (no low power mode) reads and     *)
(* writes of RPU memory at valid addresses do not fail; allocations may.    *)
(***************************************************************************)
EXTENDS Naturals, Sequences, SequencesExt, FiniteSets

CONSTANTS EventBuf,      \* event buffers the host gives back (resubmit)
          OwnBuf,        \* addresses the RPU manages itself (no resubmit)
          MaxFrag,       \* most fragments of an event
          MaxEvents,     \* bound: events the RPU sends
          MaxAllocFails, \* bound: allocations that fail in event_get
          MaxLostIrqs,   \* bound: interrupts that get lost on the way
          MaxWdog,       \* bound: watchdog interrupts
          NoAddr         \* address 0: nothing in a hardware queue

ASSUME AddrAssumption == /\ EventBuf \cap OwnBuf = {}
                         /\ NoAddr \notin EventBuf \cup OwnBuf
ASSUME BoundAssumption == /\ MaxFrag \in Nat \ {0}
                          /\ MaxEvents \in Nat
                          /\ MaxAllocFails \in Nat
                          /\ MaxLostIrqs \in Nat
                          /\ MaxWdog \in Nat

Addr == EventBuf \cup OwnBuf

(* Part number frag of the "of" parts of event ev. *)
Fragment == [ev : Nat, frag : 1..MaxFrag, of : 1..MaxFrag, resubmit : BOOLEAN]
NoFragment == [ev |-> 0, frag |-> 1, of |-> 1, resubmit |-> FALSE]

VARIABLES
  next,           \* the fragment the RPU writes next, or NoFragment
  posted,         \* fragments posted so far
  sent,           \* the events the RPU sent, in order
  event_avl,      \* event_avl_queue: buffers the RPU may write to
  event_busy,     \* event_busy_queue: addresses posted to the host
  mem,            \* what is stored at each address
  irq,            \* an interrupt is pending
  wdog,           \* the watchdog has expired and is not acknowledged
  irqPc,          \* where the interrupt handler is
  lock_rx,        \* the interrupt handler holds lock_rx
  event_addr,     \* the address the handler works on
  num_events,     \* the handler got at least one event
  owed,           \* fragments posted when the handler was entered
  taken,          \* fragments the host took from event_busy
  event_data,     \* the event being put together
  pending,        \* event_data_pending: fragments still missing
  event_resubmit, \* the event's buffers are to be given back
  event_q,        \* whole events waiting for the tasklet
  sched,          \* event_tasklet is scheduled
  taskletPc,      \* where the tasklet is
  event,          \* the event the tasklet works on
  delivered,      \* the events handed to the FMAC, in order
  aborted,        \* this run of the handler gave up early
  allocFails, lostIrqs, wdogs

rpuVars == <<next, posted, sent, lostIrqs, wdogs>>
hwVars == <<event_avl, event_busy, mem, irq, wdog>>
asmVars == <<event_data, pending, event_resubmit>>
irqVars == <<irqPc, lock_rx, event_addr, num_events, owed, taken, aborted,
             allocFails>>
taskletVars == <<taskletPc, event, delivered>>
vars == <<rpuVars, hwVars, asmVars, irqVars, event_q, sched, taskletVars>>

TypeOK ==
  /\ next \in Fragment
  /\ posted \in Nat
  /\ sent \in Seq(Nat)
  /\ event_avl \in SUBSET EventBuf
  /\ event_busy \in Seq(Addr)
  /\ mem \in [Addr -> Fragment]
  /\ irq \in BOOLEAN
  /\ wdog \in BOOLEAN
  /\ irqPc \in {"off", "get", "read", "free", "queue", "ack", "schedule"}
  /\ lock_rx \in BOOLEAN
  /\ event_addr \in Addr \cup {NoAddr}
  /\ num_events \in BOOLEAN
  /\ owed \in Nat
  /\ taken \in Nat
  /\ event_data \in Seq(Fragment)
  /\ pending \in 0..MaxFrag
  /\ event_resubmit \in BOOLEAN
  /\ event_q \in Seq(Seq(Fragment))
  /\ sched \in BOOLEAN
  /\ taskletPc \in {"off", "loop", "call"}
  /\ event \in Seq(Fragment)
  /\ delivered \in Seq(Seq(Fragment))
  /\ aborted \in BOOLEAN
  /\ allocFails \in 0..MaxAllocFails
  /\ lostIrqs \in 0..MaxLostIrqs
  /\ wdogs \in 0..MaxWdog

Init ==
  /\ next = NoFragment
  /\ posted = 0
  /\ sent = <<>>
  /\ event_avl = EventBuf
  /\ event_busy = <<>>
  /\ mem = [a \in Addr |-> NoFragment]
  /\ irq = FALSE
  /\ wdog = FALSE
  /\ irqPc = "off"
  /\ lock_rx = FALSE
  /\ event_addr = NoAddr
  /\ num_events = FALSE
  /\ owed = 0
  /\ taken = 0
  /\ event_data = <<>>
  /\ pending = 0
  /\ event_resubmit = FALSE
  /\ event_q = <<>>
  /\ sched = FALSE
  /\ taskletPc = "off"
  /\ event = <<>>
  /\ delivered = <<>>
  /\ aborted = FALSE
  /\ allocFails = 0
  /\ lostIrqs = 0
  /\ wdogs = 0
-----------------------------------------------------------------------------
(* The RPU.  It decides on the next event ... *)
RpuEvent ==
  /\ next = NoFragment
  /\ Len(sent) < MaxEvents
  /\ \E n \in 1..MaxFrag, r \in BOOLEAN :
        next' = [ev |-> Len(sent) + 1, frag |-> 1, of |-> n, resubmit |-> r]
  /\ sent' = Append(sent, Len(sent) + 1)
  /\ UNCHANGED <<posted, lostIrqs, wdogs, hwVars, asmVars, irqVars, event_q,
                 sched, taskletVars>>

(* ... writes and posts its fragments one by one, each to a free buffer or  *)
(* to an address of its own that the host is done with, and raises an       *)
(* interrupt for each.                                                      *)
FreeAddr == IF next.resubmit THEN event_avl
            ELSE OwnBuf \ (ToSet(event_busy) \cup {event_addr})

RpuPost ==
  /\ next # NoFragment
  /\ \E a \in FreeAddr :
        /\ mem' = [mem EXCEPT ![a] = next]
        /\ event_busy' = Append(event_busy, a)
        /\ event_avl' = event_avl \ {a}
  /\ next' = IF next.frag = next.of THEN NoFragment
             ELSE [next EXCEPT !.frag = @ + 1]
  /\ posted' = posted + 1
  /\ \/ irq' = TRUE /\ UNCHANGED lostIrqs
     \/ lostIrqs < MaxLostIrqs /\ lostIrqs' = lostIrqs + 1 /\ UNCHANGED irq
  /\ UNCHANGED <<sent, wdogs, wdog, asmVars, irqVars, event_q, sched,
                 taskletVars>>

(* The watchdog of the RPU expires. *)
RpuWdog ==
  /\ wdogs < MaxWdog
  /\ wdogs' = wdogs + 1
  /\ wdog' = TRUE
  /\ irq' = TRUE
  /\ UNCHANGED <<next, posted, sent, lostIrqs, event_avl, event_busy, mem,
                 asmVars, irqVars, event_q, sched, taskletVars>>
-----------------------------------------------------------------------------
(* nrf_wifi_hal_irq_handler takes lock_rx; the tasklet holds it for single  *)
(* dequeues only.                                                           *)
IrqEnter ==
  /\ irqPc = "off"
  /\ irq
  /\ irq' = FALSE
  /\ lock_rx' = TRUE
  /\ irqPc' = "get"
  /\ num_events' = FALSE
  /\ aborted' = FALSE
  /\ owed' = posted
  /\ UNCHANGED <<rpuVars, event_avl, event_busy, mem, wdog, asmVars,
                 event_addr, taken, allocFails, event_q, sched, taskletVars>>

(* Mutant: the buffer is given back before it is read. *)
FreeBeforeRead ==
  /\ irqPc = "get"
  /\ event_busy # <<>>
  /\ event_addr' = Head(event_busy)
  /\ event_busy' = Tail(event_busy)
  /\ event_avl' = event_avl \cup ({event_addr'} \cap EventBuf)
  /\ taken' = taken + 1
  /\ irqPc' = "read"
  /\ UNCHANGED <<rpuVars, mem, irq, wdog, asmVars, lock_rx,
                 num_events, owed, aborted, allocFails, event_q, sched,
                 taskletVars>>

(* hal_rpu_event_get_all: the next address of the busy queue, which the     *)
(* write back to the dequeue register removes (hal_rpu_hpq_dequeue).        *)
EventDequeue ==
  /\ irqPc = "get"
  /\ event_busy # <<>>
  /\ event_addr' = Head(event_busy)
  /\ event_busy' = Tail(event_busy)
  /\ taken' = taken + 1
  /\ irqPc' = "read"
  /\ UNCHANGED <<rpuVars, event_avl, mem, irq, wdog, asmVars, lock_rx,
                 num_events, owed, aborted, allocFails, event_q, sched,
                 taskletVars>>

(* hal_rpu_event_get_all: no more events to read.                           *)
EventsRead ==
  /\ irqPc = "get"
  /\ event_busy = <<>>
  /\ event_addr' = NoAddr
  /\ irqPc' = "ack"
  /\ UNCHANGED <<rpuVars, hwVars, asmVars, lock_rx, num_events, owed, taken,
                 aborted, allocFails, event_q, sched, taskletVars>>

(* The length and the resubmit flag the host finds at the start of f.  They *)
(* are there in a first fragment only; anything may stand in their place in *)
(* another one.                                                             *)
Headers(f) == IF f.frag = 1 THEN {[of |-> f.of, resubmit |-> f.resubmit]}
              ELSE [of : 1..MaxFrag, resubmit : BOOLEAN]

(* hal_rpu_event_get with no event pending: the header says how long the    *)
(* event is and a buffer for all of it is allocated.                        *)
EventReadFirst ==
  /\ irqPc = "read"
  /\ pending = 0
  /\ \E h \in Headers(mem[event_addr]) :
        /\ pending' = h.of - 1
        /\ event_resubmit' = h.resubmit
  /\ event_data' = <<mem[event_addr]>>
  /\ irqPc' = "free"
  /\ UNCHANGED <<rpuVars, hwVars, lock_rx, event_addr, num_events, owed, taken,
                 aborted, allocFails, event_q, sched, taskletVars>>

(* hal_rpu_event_get, that allocation fails: the status is still the        *)
(* success of the read, and the loop goes on with the next address.         *)
EventAllocFail ==
  /\ irqPc = "read"
  /\ pending = 0
  /\ allocFails < MaxAllocFails
  /\ allocFails' = allocFails + 1
  /\ event_data' = <<>>
  /\ num_events' = TRUE
  /\ irqPc' = "get"
  /\ UNCHANGED <<rpuVars, hwVars, pending, event_resubmit, lock_rx, event_addr,
                 owed, taken, aborted, event_q, sched, taskletVars>>

(* hal_rpu_event_get with an event pending: the fragment is appended.       *)
EventReadNext ==
  /\ irqPc = "read"
  /\ pending > 0
  /\ event_data' = Append(event_data, mem[event_addr])
  /\ pending' = pending - 1
  /\ irqPc' = "free"
  /\ UNCHANGED <<rpuVars, hwVars, event_resubmit, lock_rx, event_addr,
                 num_events, owed, taken, aborted, allocFails, event_q, sched,
                 taskletVars>>

(* Mutant: the buffer of the last fragment is not given back. *)
FreeButLast ==
  /\ irqPc = "free"
  /\ event_avl' = IF event_resubmit /\ pending > 0 THEN event_avl \cup ({event_addr} \cap EventBuf)
                  ELSE event_avl
  /\ num_events' = (num_events \/ pending > 0)
  /\ irqPc' = IF pending = 0 THEN "queue" ELSE "get"
  /\ UNCHANGED <<rpuVars, event_busy, mem, irq, wdog, asmVars, lock_rx,
                 event_addr, owed, taken, aborted, allocFails, event_q, sched,
                 taskletVars>>

(* hal_rpu_event_free, if the event says so.  An address of the RPU's own   *)
(* that is given back, after a garbled header, is taken to be ignored.      *)
EventFree ==
  /\ irqPc = "free"
  /\ event_avl' = IF event_resubmit THEN event_avl \cup ({event_addr} \cap EventBuf)
                  ELSE event_avl
  /\ num_events' = (num_events \/ pending > 0)
  /\ irqPc' = IF pending = 0 THEN "queue" ELSE "get"
  /\ UNCHANGED <<rpuVars, event_busy, mem, irq, wdog, asmVars, lock_rx,
                 event_addr, owed, taken, aborted, allocFails, event_q, sched,
                 taskletVars>>

(* The event is whole: it is queued for the tasklet.                        *)
EventQueue ==
  /\ irqPc = "queue"
  /\ event_q' = Append(event_q, event_data)
  /\ event_data' = <<>>
  /\ event_resubmit' = FALSE
  /\ num_events' = TRUE
  /\ irqPc' = "get"
  /\ UNCHANGED <<rpuVars, hwVars, pending, lock_rx, event_addr, owed, taken,
                 aborted, allocFails, sched, taskletVars>>

(* The message for it cannot be allocated: the event is lost, with the      *)
(* status of the read or of the free before it, success.                    *)
EventMsgFail ==
  /\ irqPc = "queue"
  /\ allocFails < MaxAllocFails
  /\ allocFails' = allocFails + 1
  /\ event_data' = <<>>
  /\ num_events' = TRUE
  /\ irqPc' = "get"
  /\ UNCHANGED <<rpuVars, hwVars, pending, event_resubmit, lock_rx, event_addr,
                 owed, taken, aborted, event_q, sched, taskletVars>>

(* The list node of the queue cannot be allocated: the event is lost and    *)
(* the failure ends hal_rpu_event_get_all.                                  *)
EventNodeFail ==
  /\ irqPc = "queue"
  /\ allocFails < MaxAllocFails
  /\ allocFails' = allocFails + 1
  /\ event_data' = <<>>
  /\ event_addr' = NoAddr
  /\ aborted' = TRUE
  /\ irqPc' = "ack"
  /\ UNCHANGED <<rpuVars, hwVars, pending, event_resubmit, lock_rx, num_events,
                 owed, taken, event_q, sched, taskletVars>>

(* hal_rpu_irq_process: the watchdog is looked at when there was no event;  *)
(* then the interrupt is acknowledged and lock_rx released.  One that was   *)
(* raised since the handler was entered may be lost with it.                *)
IrqAck ==
  /\ irqPc = "ack"
  /\ wdog' = (wdog /\ num_events)
  /\ irq' \in {irq, FALSE}
  /\ lostIrqs' = IF irq' = irq THEN lostIrqs ELSE lostIrqs + 1
  /\ lostIrqs' <= MaxLostIrqs
  /\ lock_rx' = FALSE
  /\ irqPc' = "schedule"
  /\ UNCHANGED <<next, posted, sent, wdogs, event_avl, event_busy, mem, asmVars, event_addr,
                 num_events, owed, taken, aborted, allocFails, event_q, sched,
                 taskletVars>>

(* Mutant: a failure in event_get_all keeps the tasklet from being          *)
(* scheduled.                                                               *)
ReturnOnFailure ==
  /\ irqPc = "schedule"
  /\ sched' = (sched \/ ~aborted)
  /\ irqPc' = "off"
  /\ UNCHANGED <<rpuVars, hwVars, asmVars, lock_rx, event_addr, num_events,
                 owed, taken, aborted, allocFails, event_q, taskletVars>>

(* nrf_wifi_hal_irq_handler schedules the tasklet and returns.              *)
IrqReturn ==
  /\ irqPc = "schedule"
  /\ sched' = TRUE
  /\ irqPc' = "off"
  /\ UNCHANGED <<rpuVars, hwVars, asmVars, lock_rx, event_addr, num_events,
                 owed, taken, aborted, allocFails, event_q, taskletVars>>
-----------------------------------------------------------------------------
(* The kernel starts the scheduled tasklet; one scheduled while it runs     *)
(* runs again.                                                              *)
TaskletStart ==
  /\ sched
  /\ taskletPc = "off"
  /\ sched' = FALSE
  /\ taskletPc' = "loop"
  /\ UNCHANGED <<rpuVars, hwVars, asmVars, irqVars, event_q, event, delivered>>

(* hal_rpu_eventq_process: the next event, under lock_rx.                   *)
TaskletDequeue ==
  /\ taskletPc = "loop"
  /\ ~lock_rx
  /\ event_q # <<>>
  /\ event' = Head(event_q)
  /\ event_q' = Tail(event_q)
  /\ taskletPc' = "call"
  /\ UNCHANGED <<rpuVars, hwVars, asmVars, irqVars, sched, delivered>>

(* Mutant: the tasklet takes one event each time it is run. *)
OneEventPerTasklet ==
  /\ taskletPc = "call"
  /\ delivered' = Append(delivered, event)
  /\ event' = <<>>
  /\ taskletPc' = "off"
  /\ UNCHANGED <<rpuVars, hwVars, asmVars, irqVars, event_q, sched>>

(* hal_rpu_eventq_process: the FMAC gets the event, without the lock.       *)
TaskletCall ==
  /\ taskletPc = "call"
  /\ delivered' = Append(delivered, event)
  /\ event' = <<>>
  /\ taskletPc' = "loop"
  /\ UNCHANGED <<rpuVars, hwVars, asmVars, irqVars, event_q, sched>>

(* hal_rpu_eventq_process: nothing is left.                                 *)
TaskletDone ==
  /\ taskletPc = "loop"
  /\ ~lock_rx
  /\ event_q = <<>>
  /\ taskletPc' = "off"
  /\ UNCHANGED <<rpuVars, hwVars, asmVars, irqVars, event_q, sched, event,
                 delivered>>
-----------------------------------------------------------------------------
EventGet == \/ EventReadFirst \/ EventReadNext \/ EventFree \/ EventQueue

EventGetFails == EventAllocFail \/ EventMsgFail \/ EventNodeFail

(* What the handler does once it is entered. *)
IrqHandler == EventDequeue \/ EventsRead \/ EventGet \/ IrqAck \/ IrqReturn

Tasklet == TaskletStart \/ TaskletDequeue \/ TaskletCall \/ TaskletDone

RpuNext == RpuEvent \/ RpuPost \/ RpuWdog

Next == RpuNext \/ IrqEnter \/ IrqHandler \/ EventGetFails \/ Tasklet

Spec == Init /\ [][Next]_vars

(* The RPU posts what it has started when it has a buffer, the kernel       *)
(* delivers pending interrupts and runs scheduled tasklets, and lock_rx is  *)
(* released again and again.                                                *)
FairSpec == /\ Spec
            /\ WF_vars(RpuPost)
            /\ WF_vars(IrqEnter)
            /\ WF_vars(IrqHandler)
            /\ WF_vars(TaskletStart \/ TaskletCall)
            /\ SF_vars(TaskletDequeue \/ TaskletDone)
-----------------------------------------------------------------------------
(* The address the handler has taken and not given back or finished with.   *)
InHand == IF irqPc \in {"read", "free"} THEN {event_addr} ELSE {}

(* Every event buffer is in one place: free for the RPU, posted, or in the  *)
(* hands of the handler.  None is lost and none is given back twice.        *)
BuffersReturned ==
  /\ EventBuf \subseteq event_avl \cup ToSet(event_busy) \cup InHand
  /\ event_avl \cap (ToSet(event_busy) \cup InHand) = {}
  /\ InHand \cap ToSet(event_busy) = {}
  /\ IsInjective(event_busy)

(* With no failed allocation, the resubmit protocol keeps every buffer.     *)
BuffersKept == allocFails = 0 => BuffersReturned

(* A queued event is not forgotten: the tasklet is scheduled or will look   *)
(* at event_q again, or the handler that queued it has still to schedule.   *)
TaskletCovers ==
  event_q # <<>> => sched \/ taskletPc # "off" \/ irqPc # "off"

(* The handler empties the queue: when it acknowledges the interrupt it has *)
(* taken every fragment that was posted when it was entered, those of lost  *)
(* interrupts too, unless it gave up.                                       *)
HandlerDrains == irqPc \in {"ack", "schedule"} /\ ~aborted => taken >= owed

(* Neither half of the interrupt handling leaves an event to the other:     *)
(* what was posted is taken before the acknowledgement, and what was taken  *)
(* has somebody to deliver it, in every interleaving of the two.            *)
NoEventForgotten == TaskletCovers /\ HandlerDrains

(* The events the FMAC has got, gets and will get, in order. *)
Events == delivered \o (IF taskletPc = "call" THEN <<event>> ELSE <<>>) \o event_q

Before(f, g) == f.ev < g.ev \/ (f.ev = g.ev /\ f.frag < g.frag)

(* The fragments of e are in order. *)
InOrder(e) == \A k, l \in 1..Len(e) : k < l => Before(e[k], e[l])

(* All of d comes before all of e. *)
AllBefore(d, e) == \A k \in 1..Len(d), l \in 1..Len(e) : Before(d[k], e[l])

(* No fragment comes up twice or out of order, within an event or from one  *)
(* to a later one, whatever fails to be allocated and however handler and   *)
(* tasklet interleave.                                                      *)
FragmentsOnce ==
  LET s == Append(Events, event_data)
  IN  \A i \in 1..Len(s) :
         InOrder(s[i]) /\ \A j \in 1..(i - 1) : AllBefore(s[j], s[i])

IsWhole(e) == /\ e # <<>>
              /\ Len(e) = e[1].of
              /\ \A k \in 1..Len(e) : e[k] = [e[1] EXCEPT !.frag = k]
-----------------------------------------------------------------------------
(* The event path as an OrderedChannel. *)
Channel == INSTANCE OrderedChannel
             WITH Message <- 1..MaxEvents,
                  accepted <- sent,
                  delivered <- [i \in 1..Len(delivered) |->
                                  IF IsWhole(delivered[i])
                                  THEN delivered[i][1].ev ELSE 0],
                  broken <- allocFails + lostIrqs > 0

(* Until an allocation fails or an interrupt is lost, every event reaches   *)
(* the FMAC whole and in order.                                             *)
EventsReachFmac == Channel!Spec

(* Fragments come up once and in order whatever fails; and whatever         *)
(* interrupts are lost, while nothing fails, the events that have reached   *)
(* the FMAC are the first ones the RPU sent, whole.                         *)
EventsInOrder ==
  /\ FragmentsOnce
  /\ allocFails = 0 =>
     \A i \in 1..Len(delivered) : IsWhole(delivered[i]) /\ delivered[i][1].ev = i
=============================================================================
