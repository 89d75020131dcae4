------------------------------ MODULE HalCmd ------------------------------
(***************************************************************************)
(* The command path of the HAL (hw_if/hal/src/hal_api.c, hpqm.c): control   *)
(* commands are cut into fragments of at most max_cmd_size bytes, queued on *)
(* cmd_q, and each fragment is copied to a command buffer the RPU has made  *)
(* available, posted on the command busy queue and announced through the    *)
(* doorbell register.  Data commands (TX frames, RX buffers) go to a fixed  *)
(* address of their descriptor and are posted on the same queue (TX) or on  *)
(* the queue of their pool (RX).  Both kinds run under lock_hal from start  *)
(* to end; the RPU runs beside the lock holder all the time.                *)
(*                                                                          *)
(* The payload of a fragment is abstracted to which part of which command   *)
(* it is.  The hardware queue of available buffers is a set: nothing        *)
(* depends on the order in which the RPU gives its buffers back.            *)
(***************************************************************************)
EXTENDS Naturals, Sequences, SequencesExt, FiniteSets

CONSTANTS Caller,        \* contexts that send commands: threads, tasklets
          CmdBuf,        \* command buffers of the RPU
          TxDesc,        \* TX descriptors that may be sent (TX tokens)
          RxDesc,        \* RX descriptors
          Pool,          \* RX buffer pools
          PoolOf,        \* the pool of an RX descriptor
          MaxFrag,       \* most fragments a command is cut into
          NoCaller,      \* lock_hal is free
          NoAddr,        \* address 0: nothing in a hardware queue
          MaxCmds,       \* bound: number of calls made
          MaxTimeouts,   \* bound: waits for a command buffer that time out
          MaxAllocFails  \* bound: allocations that fail in hal_rpu_cmd_queue

ASSUME CallerAssumption == NoCaller \notin Caller
ASSUME AddrAssumption ==
          /\ IsFiniteSet(CmdBuf)
          /\ NoAddr \notin CmdBuf \cup TxDesc \cup RxDesc
          /\ CmdBuf \cap TxDesc = {}
          /\ CmdBuf \cap RxDesc = {}
          /\ TxDesc \cap RxDesc = {}
ASSUME PoolAssumption == PoolOf \in [RxDesc -> Pool]
ASSUME BoundAssumption ==
          /\ MaxFrag \in Nat \ {0}
          /\ MaxCmds \in Nat
          /\ MaxTimeouts \in Nat
          /\ MaxAllocFails \in Nat

Desc == TxDesc \cup RxDesc
Addr == CmdBuf \cup Desc

(* A fragment: part number frag of the "of" parts of command cmd.  A data   *)
(* command is its only part.                                                *)
Fragment == [cmd : Nat, frag : 1..MaxFrag, of : 1..MaxFrag]
NoFragment == [cmd |-> 0, frag |-> 0, of |-> 0]

(* What a caller asks for: a control command of `of` fragments, or a data   *)
(* command for a descriptor.                                                *)
CtrlRequest == [type : {"ctrl"}, of : 1..MaxFrag, addr : {NoAddr}]
TxRequest == [type : {"tx"}, of : {1}, addr : TxDesc]
RxRequest == [type : {"rx"}, of : {1}, addr : RxDesc]
Request == CtrlRequest \cup TxRequest \cup RxRequest

VARIABLES
  lock_hal,   \* holder of the spinlock, or NoCaller
  pc,         \* where each caller is
  req,        \* what each caller is sending
  id,         \* number of the call each caller is making
  cmd,        \* the fragment a caller took from cmd_q
  msg_addr,   \* the RPU address a caller is writing to
  status,     \* the status variable of each caller: TRUE is SUCCESS
  cmd_q,      \* hal_dev_ctx->cmd_q: fragments waiting to be written
  turns,      \* calls that took the lock so far
  calls,      \* calls made so far
  timeouts,   \* waits that timed out so far
  allocFails, \* allocations that failed so far
  cmd_avl,    \* cmd_avl_queue: buffers the RPU offers
  cmd_busy,   \* cmd_busy_queue: addresses posted, not yet taken by the RPU
  rx_busy,    \* rx_buf_busy_queue of each pool
  mem,        \* what is stored at each address of RPU memory
  bell,       \* the doorbell register is set
  running,    \* the RPU is going through cmd_busy
  held,       \* the address the RPU is working on, or NoAddr
  descOut,    \* descriptors handed to the HAL and not completed
  rcvd,       \* what the RPU read, in order
  accepted,   \* control and TX commands queued whole, in order
  outcome     \* what each finished call returned

callerVars == <<pc, req, id, cmd, msg_addr, status, turns>>
boundVars == <<calls, timeouts, allocFails>>
rpuVars == <<running, held, rcvd>>
queueVars == <<cmd_avl, cmd_busy, rx_busy, mem, bell>>
vars == <<lock_hal, callerVars, cmd_q, boundVars, queueVars, rpuVars,
          descOut, accepted, outcome>>

Locations == {"idle", "lock", "queue", "data", "loop", "wait", "write",
              "post", "bell", "unlock"}

(* Where only the holder of lock_hal can be. *)
Critical == Locations \ {"idle", "lock"}

TypeOK ==
  /\ lock_hal \in Caller \cup {NoCaller}
  /\ pc \in [Caller -> Locations]
  /\ req \in [Caller -> Request]
  /\ id \in [Caller -> Nat]
  /\ cmd \in [Caller -> Fragment \cup {NoFragment}]
  /\ msg_addr \in [Caller -> Addr \cup {NoAddr}]
  /\ status \in [Caller -> BOOLEAN]
  /\ cmd_q \in Seq(Fragment)
  /\ turns \in Nat
  /\ calls \in 0..MaxCmds
  /\ timeouts \in 0..MaxTimeouts
  /\ allocFails \in 0..MaxAllocFails
  /\ cmd_avl \in SUBSET CmdBuf
  /\ cmd_busy \in Seq(CmdBuf \cup TxDesc)
  /\ rx_busy \in [Pool -> Seq(RxDesc)]
  /\ mem \in [Addr -> Fragment \cup {NoFragment}]
  /\ bell \in BOOLEAN
  /\ running \in BOOLEAN
  /\ held \in CmdBuf \cup TxDesc \cup {NoAddr}
  /\ descOut \in SUBSET Desc
  /\ rcvd \in Seq(Fragment \cup {NoFragment})
  /\ accepted \in Seq(Nat)
  /\ outcome \in [1..MaxCmds -> {"none", "pass", "fail"}]
-----------------------------------------------------------------------------
Init ==
  /\ lock_hal = NoCaller
  /\ pc = [c \in Caller |-> "idle"]
  /\ req = [c \in Caller |-> [type |-> "ctrl", of |-> 1, addr |-> NoAddr]]
  /\ id = [c \in Caller |-> 0]
  /\ cmd = [c \in Caller |-> NoFragment]
  /\ msg_addr = [c \in Caller |-> NoAddr]
  /\ status = [c \in Caller |-> FALSE]
  /\ cmd_q = <<>>
  /\ turns = 0
  /\ calls = 0
  /\ timeouts = 0
  /\ allocFails = 0
  /\ cmd_avl = CmdBuf
  /\ cmd_busy = <<>>
  /\ rx_busy = [p \in Pool |-> <<>>]
  /\ mem = [a \in Addr |-> NoFragment]
  /\ bell = FALSE
  /\ running = FALSE
  /\ held = NoAddr
  /\ descOut = {}
  /\ rcvd = <<>>
  /\ accepted = <<>>
  /\ outcome = [i \in 1..MaxCmds |-> "none"]

At(c, loc) == pc[c] = loc
Goto(c, loc) == pc' = [pc EXCEPT ![c] = loc]

(* A caller enters ctrl_cmd_send or data_cmd_send.  The FMAC sends a        *)
(* descriptor again only once the RPU has completed it.                     *)
Call(c, r) ==
  /\ At(c, "idle")
  /\ calls < MaxCmds
  /\ calls' = calls + 1
  /\ r.addr \notin descOut
  /\ req' = [req EXCEPT ![c] = r]
  /\ descOut' = descOut \cup ({r.addr} \ {NoAddr})
  /\ Goto(c, "lock")
  /\ UNCHANGED <<lock_hal, turns, id, cmd, msg_addr, status, cmd_q, timeouts,
                 allocFails, queueVars, rpuVars, accepted, outcome>>

(* Mutant: ctrl_cmd_send and data_cmd_send do not take the lock. *)
LockNotTaken(c) ==
  /\ At(c, "lock")
  /\ lock_hal' = c
  /\ turns' = turns + 1
  /\ id' = [id EXCEPT ![c] = turns + 1]
  /\ status' = [status EXCEPT ![c] = FALSE]
  /\ Goto(c, IF req[c].type = "ctrl" THEN "queue" ELSE "data")
  /\ UNCHANGED <<req, cmd, msg_addr, cmd_q, boundVars, queueVars, rpuVars,
                 descOut, accepted, outcome>>

(* nrf_wifi_osal_spinlock_take(lock_hal).  Calls are numbered in the order  *)
(* in which they get the lock.                                              *)
Lock(c) ==
  /\ At(c, "lock")
  /\ lock_hal = NoCaller
  /\ lock_hal' = c
  /\ turns' = turns + 1
  /\ id' = [id EXCEPT ![c] = turns + 1]
  /\ status' = [status EXCEPT ![c] = FALSE]
  /\ Goto(c, IF req[c].type = "ctrl" THEN "queue" ELSE "data")
  /\ UNCHANGED <<req, cmd, msg_addr, cmd_q, boundVars, queueVars, rpuVars,
                 descOut, accepted, outcome>>

(* The fragments hal_rpu_cmd_queue makes of the command of caller c.        *)
FragmentsOf(c) ==
  [k \in 1..req[c].of |-> [cmd |-> id[c], frag |-> k, of |-> req[c].of]]

(* Mutant: the fragments are put at the head of the queue, one by one. *)
CmdQueueBackwards(c) ==
  /\ At(c, "queue")
  /\ cmd_q' = Reverse(FragmentsOf(c)) \o cmd_q
  /\ accepted' = Append(accepted, id[c])
  /\ status' = [status EXCEPT ![c] = TRUE]
  /\ Goto(c, "loop")
  /\ UNCHANGED <<lock_hal, req, id, turns, cmd, msg_addr, boundVars,
                 queueVars, rpuVars, descOut, outcome>>

(* hal_rpu_cmd_queue: every fragment gets a message and a list node.        *)
CmdQueue(c) ==
  /\ At(c, "queue")
  /\ cmd_q' = cmd_q \o FragmentsOf(c)
  /\ accepted' = Append(accepted, id[c])
  /\ status' = [status EXCEPT ![c] = TRUE]
  /\ Goto(c, "loop")
  /\ UNCHANGED <<lock_hal, req, id, turns, cmd, msg_addr, boundVars,
                 queueVars, rpuVars, descOut, outcome>>

(* hal_rpu_cmd_queue, an allocation fails after k fragments: these stay on  *)
(* cmd_q, and ctrl_cmd_send returns without processing the queue.           *)
CmdQueueFail(c) ==
  /\ At(c, "queue")
  /\ allocFails < MaxAllocFails
  /\ allocFails' = allocFails + 1
  /\ \E k \in 0..(req[c].of - 1) :
        cmd_q' = cmd_q \o SubSeq(FragmentsOf(c), 1, k)
  /\ status' = [status EXCEPT ![c] = FALSE]
  /\ Goto(c, "unlock")
  /\ UNCHANGED <<lock_hal, req, id, turns, cmd, msg_addr, calls, timeouts,
                 queueVars, rpuVars, descOut, accepted, outcome>>

(* hal_rpu_cmd_process_queue: the next fragment of cmd_q.                   *)
CmdDequeue(c) ==
  /\ At(c, "loop")
  /\ cmd_q # <<>>
  /\ cmd' = [cmd EXCEPT ![c] = Head(cmd_q)]
  /\ cmd_q' = Tail(cmd_q)
  /\ Goto(c, "wait")
  /\ UNCHANGED <<lock_hal, req, id, turns, msg_addr, status, boundVars,
                 queueVars, rpuVars, descOut, accepted, outcome>>

(* hal_rpu_cmd_process_queue: nothing is left.                              *)
CmdQueueEmpty(c) ==
  /\ At(c, "loop")
  /\ cmd_q = <<>>
  /\ Goto(c, "unlock")
  /\ UNCHANGED <<lock_hal, req, id, turns, cmd, msg_addr, status, cmd_q,
                 boundVars, queueVars, rpuVars, descOut, accepted, outcome>>

(* hal_rpu_ready_wait: the RPU offers a command buffer.                     *)
ReadyWait(c) ==
  /\ At(c, "wait")
  /\ cmd_avl # {}
  /\ Goto(c, "write")
  /\ UNCHANGED <<lock_hal, req, id, turns, cmd, msg_addr, status, cmd_q,
                 boundVars, queueVars, rpuVars, descOut, accepted, outcome>>

(* Mutant: a timeout leaves the loop over the queue. *)
TimeoutLeaves(c) ==
  /\ At(c, "wait")
  /\ cmd_avl = {}
  /\ timeouts < MaxTimeouts
  /\ timeouts' = timeouts + 1
  /\ status' = [status EXCEPT ![c] = FALSE]
  /\ Goto(c, "unlock")
  /\ UNCHANGED <<lock_hal, req, id, turns, cmd, msg_addr, cmd_q, calls,
                 allocFails, queueVars, rpuVars, descOut, accepted, outcome>>

(* hal_rpu_ready_wait: no buffer for MAX_HAL_RPU_READY_WAIT.  The fragment  *)
(* is freed and the loop goes on with the next one.                         *)
ReadyTimeout(c) ==
  /\ At(c, "wait")
  /\ cmd_avl = {}
  /\ timeouts < MaxTimeouts
  /\ timeouts' = timeouts + 1
  /\ status' = [status EXCEPT ![c] = FALSE]
  /\ Goto(c, "loop")
  /\ UNCHANGED <<lock_hal, req, id, turns, cmd, msg_addr, cmd_q, calls,
                 allocFails, queueVars, rpuVars, descOut, accepted, outcome>>

(* Mutant: hal_rpu_hpq_dequeue reads the address and does not pop it. *)
MsgWriteNoPop(c) ==
  /\ At(c, "write")
  /\ \E a \in IF cmd_avl = {} THEN {NoAddr} ELSE cmd_avl :
        /\ cmd_avl' = cmd_avl
        /\ msg_addr' = [msg_addr EXCEPT ![c] = a]
        /\ mem' = [b \in Addr |-> IF b = a THEN cmd[c] ELSE mem[b]]
        /\ status' = [status EXCEPT ![c] = (a # NoAddr)]
        /\ Goto(c, IF a = NoAddr THEN "loop" ELSE "post")
  /\ UNCHANGED <<lock_hal, req, id, turns, cmd, cmd_q, boundVars, cmd_busy,
                 rx_busy, bell, rpuVars, descOut, accepted, outcome>>

(* hal_rpu_msg_get_addr takes a buffer out of the available queue and       *)
(* hal_rpu_mem_write copies the fragment to it.  From an empty queue it     *)
(* reads 0 with success; the memory write refuses that address, and the     *)
(* loop goes on with the next fragment.                                     *)
MsgWrite(c) ==
  /\ At(c, "write")
  /\ \E a \in IF cmd_avl = {} THEN {NoAddr} ELSE cmd_avl :
        /\ cmd_avl' = cmd_avl \ {a}
        /\ msg_addr' = [msg_addr EXCEPT ![c] = a]
        /\ mem' = [b \in Addr |-> IF b = a THEN cmd[c] ELSE mem[b]]
        /\ status' = [status EXCEPT ![c] = (a # NoAddr)]
        /\ Goto(c, IF a = NoAddr THEN "loop" ELSE "post")
  /\ UNCHANGED <<lock_hal, req, id, turns, cmd, cmd_q, boundVars, cmd_busy,
                 rx_busy, bell, rpuVars, descOut, accepted, outcome>>

(* nrf_wifi_hal_data_cmd_send copies the command to the address of its      *)
(* descriptor.                                                              *)
DataWrite(c) ==
  /\ At(c, "data")
  /\ msg_addr' = [msg_addr EXCEPT ![c] = req[c].addr]
  /\ mem' = [mem EXCEPT ![req[c].addr] = [cmd |-> id[c], frag |-> 1, of |-> 1]]
  /\ accepted' = IF req[c].type = "tx" THEN Append(accepted, id[c]) ELSE accepted
  /\ Goto(c, "post")
  /\ UNCHANGED <<lock_hal, req, id, turns, cmd, status, cmd_q, boundVars,
                 cmd_avl, cmd_busy, rx_busy, bell, rpuVars, descOut, outcome>>

(* Mutant: the doorbell is skipped for TX commands. *)
MsgPostNoBell(c) ==
  /\ At(c, "post")
  /\ req[c].type # "rx"
  /\ cmd_busy' = Append(cmd_busy, msg_addr[c])
  /\ Goto(c, IF req[c].type = "tx" THEN "unlock" ELSE "bell")
  /\ UNCHANGED <<lock_hal, req, id, turns, cmd, msg_addr, status, cmd_q,
                 boundVars, cmd_avl, rx_busy, mem, bell, rpuVars, descOut,
                 accepted, outcome>>

(* hal_rpu_msg_post of a control or TX command: the address goes to the     *)
(* command busy queue; the doorbell is the next step.                       *)
MsgPost(c) ==
  /\ At(c, "post")
  /\ req[c].type # "rx"
  /\ cmd_busy' = Append(cmd_busy, msg_addr[c])
  /\ Goto(c, "bell")
  /\ UNCHANGED <<lock_hal, req, id, turns, cmd, msg_addr, status, cmd_q,
                 boundVars, cmd_avl, rx_busy, mem, bell, rpuVars, descOut,
                 accepted, outcome>>

(* hal_rpu_msg_post of an RX buffer: the queue of its pool, no doorbell.    *)
MsgPostRx(c) ==
  /\ At(c, "post")
  /\ req[c].type = "rx"
  /\ rx_busy' = [rx_busy EXCEPT ![PoolOf[msg_addr[c]]] = Append(@, msg_addr[c])]
  /\ status' = [status EXCEPT ![c] = TRUE]
  /\ Goto(c, "unlock")
  /\ UNCHANGED <<lock_hal, req, id, turns, cmd, msg_addr, cmd_q, boundVars,
                 cmd_avl, cmd_busy, mem, bell, rpuVars, descOut, accepted,
                 outcome>>

(* hal_rpu_msg_trigger: the doorbell.  A control command goes on with its   *)
(* next fragment.                                                           *)
MsgTrigger(c) ==
  /\ At(c, "bell")
  /\ bell' = TRUE
  /\ status' = [status EXCEPT ![c] = TRUE]
  /\ Goto(c, IF req[c].type = "ctrl" THEN "loop" ELSE "unlock")
  /\ UNCHANGED <<lock_hal, req, id, turns, cmd, msg_addr, cmd_q, boundVars,
                 cmd_avl, cmd_busy, rx_busy, mem, rpuVars, descOut, accepted,
                 outcome>>

(* nrf_wifi_osal_spinlock_rel(lock_hal); the status goes to the caller.     *)
Unlock(c) ==
  /\ At(c, "unlock")
  /\ lock_hal' = NoCaller
  /\ outcome' = [outcome EXCEPT ![id[c]] = IF status[c] THEN "pass" ELSE "fail"]
  /\ Goto(c, "idle")
  /\ UNCHANGED <<req, id, turns, cmd, msg_addr, status, cmd_q, boundVars,
                 queueVars, rpuVars, descOut, accepted>>
-----------------------------------------------------------------------------
(* The RPU: the doorbell starts it, it goes through the busy queue until it *)
(* is empty, and gives a command buffer back once it has worked on it.      *)
RpuStart ==
  /\ bell
  /\ bell' = FALSE
  /\ running' = TRUE
  /\ UNCHANGED <<lock_hal, callerVars, cmd_q, boundVars, cmd_avl, cmd_busy,
                 rx_busy, mem, held, rcvd, descOut, accepted, outcome>>

RpuTake ==
  /\ running
  /\ held = NoAddr
  /\ cmd_busy # <<>>
  /\ held' = Head(cmd_busy)
  /\ cmd_busy' = Tail(cmd_busy)
  /\ rcvd' = Append(rcvd, mem[Head(cmd_busy)])
  /\ UNCHANGED <<lock_hal, callerVars, cmd_q, boundVars, cmd_avl, rx_busy,
                 mem, bell, running, descOut, accepted, outcome>>

RpuRelease ==
  /\ held # NoAddr
  /\ held' = NoAddr
  /\ cmd_avl' = IF held \in CmdBuf THEN cmd_avl \cup {held} ELSE cmd_avl
  /\ descOut' = descOut \ {held}
  /\ UNCHANGED <<lock_hal, callerVars, cmd_q, boundVars, cmd_busy, rx_busy,
                 mem, bell, running, rcvd, accepted, outcome>>

RpuStop ==
  /\ running
  /\ held = NoAddr
  /\ cmd_busy = <<>>
  /\ running' = FALSE
  /\ UNCHANGED <<lock_hal, callerVars, cmd_q, boundVars, queueVars, held,
                 rcvd, descOut, accepted, outcome>>

(* A received frame uses the oldest buffer of a pool.                       *)
RpuUseRx(p) ==
  /\ rx_busy[p] # <<>>
  /\ rx_busy' = [rx_busy EXCEPT ![p] = Tail(@)]
  /\ descOut' = descOut \ {Head(rx_busy[p])}
  /\ UNCHANGED <<lock_hal, callerVars, cmd_q, boundVars, cmd_avl, cmd_busy,
                 mem, bell, rpuVars, accepted, outcome>>
-----------------------------------------------------------------------------
(* What a caller does on its own once it holds the lock. *)
Proceed(c) == \/ CmdQueue(c) \/ CmdDequeue(c) \/ CmdQueueEmpty(c)
              \/ ReadyWait(c) \/ MsgWrite(c) \/ DataWrite(c)
              \/ MsgPost(c) \/ MsgPostRx(c) \/ MsgTrigger(c)
              \/ Unlock(c)

CallerNext(c) == \/ \E r \in Request : Call(c, r)
                 \/ Lock(c) \/ Proceed(c) \/ CmdQueueFail(c) \/ ReadyTimeout(c)

RpuNext == RpuStart \/ RpuTake \/ RpuRelease \/ RpuStop
           \/ \E p \in Pool : RpuUseRx(p)

Next == (\E c \in Caller : CallerNext(c)) \/ RpuNext

Spec == Init /\ [][Next]_vars

(* A lock holder keeps running, the kernel's spinlock is fair to its        *)
(* waiters, and the RPU answers its doorbell.                               *)
FairSpec == /\ Spec
            /\ \A c \in Caller : WF_vars(Proceed(c)) /\ SF_vars(Lock(c))
            /\ WF_vars(RpuStart) /\ WF_vars(RpuTake)
            /\ WF_vars(RpuRelease) /\ WF_vars(RpuStop)
-----------------------------------------------------------------------------

(* The addresses a lock holder has written to and not posted yet. *)
Posting == {msg_addr[c] : c \in {d \in Caller : At(d, "post")}}

(* Every command buffer is in one place: offered, in the hands of the       *)
(* caller about to post it, posted, or in those of the RPU.  None is lost   *)
(* over a timeout, none carries two fragments (hal_rpu_msg_write).          *)
BuffersAccounted ==
  /\ CmdBuf \subseteq cmd_avl \cup Posting \cup ToSet(cmd_busy) \cup {held}
  /\ cmd_avl \cap (Posting \cup ToSet(cmd_busy) \cup {held}) = {}
  /\ Posting \cap (ToSet(cmd_busy) \cup {held}) = {}
  /\ held \notin ToSet(cmd_busy)
  /\ IsInjective(cmd_busy)

(* hal_rpu_ready_wait saw a free buffer and nobody else takes one before    *)
(* hal_rpu_msg_get_addr does, so that address 0 is never written to.        *)
BufferWhenWriting == \A c \in Caller : At(c, "write") => cmd_avl # {}

(* A posted address is announced: while the command queue is not empty the  *)
(* RPU is working, or its doorbell is set, or a caller is about to set it   *)
(* (hal_rpu_msg_post enqueues before it triggers).                          *)
DoorbellCovers ==
  cmd_busy # <<>> => running \/ bell \/ \E c \in Caller : At(c, "bell")

(* What waits in cmd_q, and what is taken from it, is of the call that      *)
(* holds the lock: hal_rpu_cmd_process_queue leaves nothing behind for the  *)
(* next call, even when a fragment times out.  (An allocation that fails    *)
(* half way breaks this, see hal_rpu_cmd_queue.)                            *)
QueueIsOfThisCall ==
  allocFails = 0 =>
     /\ \A i \in 1..Len(cmd_q) :
           lock_hal # NoCaller /\ cmd_q[i].cmd = id[lock_hal]
     /\ \A c \in Caller :
           At(c, "write") => cmd[c].cmd = id[c]

Before(f, g) == f.cmd < g.cmd \/ (f.cmd = g.cmd /\ f.frag < g.frag)

(* The RPU reads fragments in the order of the calls and of their parts,    *)
(* none twice, whatever timed out.  (What a failed allocation leaves on     *)
(* cmd_q is sent by a later control command, after the data commands        *)
(* between them.)                                                           *)
FragmentsInOrder ==
  allocFails = 0 =>
     \A i, j \in 1..Len(rcvd) : i < j => Before(rcvd[i], rcvd[j])

-----------------------------------------------------------------------------
(* The command path as an OrderedChannel: a command has come out when the   *)
(* RPU has read its last fragment, and all it reads has to be a sequence of *)
(* whole commands.                                                          *)
Follows(f, g) == IF f.frag = f.of
                 THEN g.cmd # f.cmd /\ g.frag = 1
                 ELSE g = [f EXCEPT !.frag = @ + 1]

WellFormed(s) == /\ s # <<>> => Head(s).frag = 1
                 /\ \A i \in 1..(Len(s) - 1) : Follows(s[i], s[i + 1])

(* Where, among the first n fragments of s, a command ends. *)
Ends(s, n) == {i \in 1..n : s[i].frag = s[i].of}

(* The commands that end in s, in the order in which they end. *)
CommandsOf(s) ==
  LET ends == Ends(s, Len(s))
      nth(k) == CHOOSE i \in ends : Cardinality(Ends(s, i)) = k
  IN  [k \in 1..Cardinality(ends) |-> s[nth(k)].cmd]

Channel == INSTANCE OrderedChannel
             WITH Message <- 1..MaxCmds,
                  accepted <- accepted,
                  delivered <- IF WellFormed(rcvd) THEN CommandsOf(rcvd) ELSE <<0>>,
                  broken <- timeouts + allocFails > 0

(* Until a wait times out or an allocation fails, commands reach the RPU    *)
(* whole, in the order in which the calls got lock_hal, and all of them do. *)
CommandsReachRpu == Channel!Spec
=============================================================================
