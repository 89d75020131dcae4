---------------------------- MODULE HalCmdProofs ----------------------------
(***************************************************************************)
(* Proofs about HalCmd, for every value of the constants: the types of its *)
(* state, where command buffers are, that the doorbell covers what is      *)
(* posted, and the order in which the RPU reads fragments.                 *)
(*                                                                         *)
(* A fragment goes from cmd_q to the hand of the lock holder, to the       *)
(* command queue of the RPU and to what the RPU has read.  The invariants  *)
(* say of each part what it holds and that it comes after the next one;    *)
(* every step moves one fragment from one part to the next.                *)
(***************************************************************************)
EXTENDS HalCmd, FiniteSetTheorems, SequenceTheorems, TLAPS

(* What the place of a caller says of its request, of the fragment it took  *)
(* and of the address it is about to post.                                  *)
CallInv ==
  \A c \in Caller :
     /\ pc[c] \in {"queue", "loop", "wait", "write"} => req[c].type = "ctrl"
     /\ pc[c] = "data" => req[c].type # "ctrl"
     /\ pc[c] \in {"wait", "write"} => cmd[c] \in Fragment
     /\ pc[c] = "post" => IF req[c].type = "ctrl" THEN msg_addr[c] \in CmdBuf
                          ELSE msg_addr[c] = req[c].addr

(* The holder of lock_hal is the one caller in the critical section. *)
LockInv == \A c \in Caller : lock_hal = c <=> pc[c] \in Critical

(* Caller c is sending a TX descriptor it has not posted yet. *)
Sends(c) == pc[c] \in {"lock", "data", "post"} /\ req[c].type = "tx"

(* The addresses the RPU has been given: posted, or in work. *)
AtRpu == ToSet(cmd_busy) \cup {held}

(* A TX descriptor somebody is sending is not at the RPU, two callers never *)
(* send the same one, and one that is at the RPU is not completed.          *)
DescInv ==
  /\ \A c \in Caller : Sends(c) => req[c].addr \in descOut \ AtRpu
  /\ \A c, d \in Caller :
        Sends(c) /\ Sends(d) /\ req[c].addr = req[d].addr => c = d
  /\ TxDesc \cap AtRpu \subseteq descOut

(* cmd_q holds fragments of the call of the lock holder only, and is empty  *)
(* outside the loop that empties it.                                        *)
QueueInv ==
  allocFails = 0 =>
     /\ cmd_q # <<>> =>
           /\ lock_hal \in Caller
           /\ pc[lock_hal] \in {"loop", "wait", "write", "post", "bell"}
           /\ req[lock_hal].type = "ctrl"
           /\ \A i \in 1..Len(cmd_q) : cmd_q[i].cmd = id[lock_hal]
     /\ \A c \in Caller :
           pc[c] \in {"wait", "write"} => cmd[c].cmd = id[c]

(* The lock holder has the highest number given so far. *)
TurnInv == \A c \in Caller : pc[c] \in Critical => id[c] = turns

(* Caller c has a fragment that is out of cmd_q and not posted yet. *)
Holding(c) == \/ pc[c] \in {"wait", "write"}
              \/ pc[c] = "post" /\ req[c].type # "rx"

(* That fragment: still in the message, or already in RPU memory. *)
InHand(c) == IF pc[c] = "post" THEN mem[msg_addr[c]] ELSE cmd[c]

(* All the RPU has read or will read is of calls before number n. *)
Earlier(n) == /\ \A i \in 1..Len(rcvd) : rcvd[i].cmd < n
              /\ \A i \in 1..Len(cmd_busy) : mem[cmd_busy[i]].cmd < n

(* Nothing carries a number that was not given, nothing at the RPU carries  *)
(* that of a call which has only begun, and a fragment on its way carries   *)
(* the current one.                                                         *)
NumberInv ==
  allocFails = 0 =>
     /\ Earlier(turns + 1)
     /\ \A c \in Caller : pc[c] \in {"queue", "data"} => Earlier(turns)
     /\ \A c \in Caller : Holding(c) => InHand(c).cmd = turns

(* Fragment f comes after all the RPU has been given. *)
Follow(f) == /\ \A i \in 1..Len(rcvd) : Before(rcvd[i], f)
             /\ \A i \in 1..Len(cmd_busy) : Before(mem[cmd_busy[i]], f)

(* What the RPU has read and what it will read are in order. *)
SentInOrder ==
  /\ \A i, j \in 1..Len(rcvd) : i < j => Before(rcvd[i], rcvd[j])
  /\ \A i \in 1..Len(rcvd), j \in 1..Len(cmd_busy) :
        Before(rcvd[i], mem[cmd_busy[j]])
  /\ \A i, j \in 1..Len(cmd_busy) :
        i < j => Before(mem[cmd_busy[i]], mem[cmd_busy[j]])

(* cmd_q is in order, and comes after what the RPU has been given. *)
QueueFollows ==
  /\ \A i \in 1..Len(cmd_q) : Follow(cmd_q[i])
  /\ \A i, j \in 1..Len(cmd_q) : i < j => Before(cmd_q[i], cmd_q[j])

(* The fragment of caller c comes between the two. *)
HandFollows(c) ==
  /\ Follow(InHand(c))
  /\ \A i \in 1..Len(cmd_q) : Before(InHand(c), cmd_q[i])

(* The three parts of the way of a fragment, together in order. *)
OrderInv ==
  allocFails = 0 => /\ SentInOrder
                    /\ QueueFollows
                    /\ \A c \in Caller : Holding(c) => HandFollows(c)

(* The names of places are compared throughout. *)
USE DEF Locations

-----------------------------------------------------------------------------

(* hal_rpu_cmd_queue makes as many fragments as asked for. *)
LEMMA FragmentsTyped ==
  ASSUME TypeOK, NEW c \in Caller
  PROVE  /\ FragmentsOf(c) \in Seq(Fragment)
         /\ Len(FragmentsOf(c)) = req[c].of
         /\ req[c].of \in 1..MaxFrag
<1>1. req[c] \in Request
  BY DEF TypeOK
<1>2. req[c].of \in 1..MaxFrag
  BY <1>1, BoundAssumption DEF Request, CtrlRequest, TxRequest, RxRequest
<1>3. id[c] \in Nat
  BY DEF TypeOK
<1>4. \A k \in 1..req[c].of : [cmd |-> id[c], frag |-> k, of |-> req[c].of] \in Fragment
  BY <1>2, <1>3, BoundAssumption DEF Fragment
<1> QED
  BY <1>2, <1>4, BoundAssumption DEF FragmentsOf

(* The address of each kind of request. *)
LEMMA RequestType ==
  ASSUME NEW r \in Request
  PROVE  /\ r.type \in {"ctrl", "tx", "rx"}
         /\ r.of \in 1..MaxFrag
         /\ r.type = "ctrl" => r.addr = NoAddr
         /\ r.type = "tx" => r.addr \in TxDesc
         /\ r.type = "rx" => r.addr \in RxDesc
         /\ r.addr \in Desc \cup {NoAddr}
BY BoundAssumption DEF Request, CtrlRequest, TxRequest, RxRequest, Desc

(* The same for the request of a caller. *)
LEMMA RequestsType ==
  ASSUME TypeOK, NEW c \in Caller
  PROVE  /\ req[c].type \in {"ctrl", "tx", "rx"}
         /\ req[c].of \in 1..MaxFrag
         /\ req[c].type = "ctrl" => req[c].addr = NoAddr
         /\ req[c].type = "tx" => req[c].addr \in TxDesc
         /\ req[c].type = "rx" => req[c].addr \in RxDesc
BY RequestType DEF TypeOK

(* Types hold at the start. *)
LEMMA TypeInit == Init => TypeOK /\ CallInv
<1> SUFFICES ASSUME Init PROVE TypeOK /\ CallInv
  OBVIOUS
<1>1. [type |-> "ctrl", of |-> 1, addr |-> NoAddr] \in Request
  BY BoundAssumption DEF Request, CtrlRequest
<1>2. cmd_busy \in Seq(CmdBuf \cup TxDesc) /\ rx_busy \in [Pool -> Seq(RxDesc)]
  BY DEF Init
<1>3. TypeOK
  <2>1. cmd_q \in Seq(Fragment) /\ rcvd \in Seq(Fragment \cup {NoFragment}) /\ accepted \in Seq(Nat)
    BY DEF Init
  <2>2. /\ pc \in [Caller -> Locations]
        /\ req \in [Caller -> Request]
        /\ id \in [Caller -> Nat]
        /\ cmd \in [Caller -> Fragment \cup {NoFragment}]
        /\ msg_addr \in [Caller -> Addr \cup {NoAddr}]
        /\ status \in [Caller -> BOOLEAN]
        /\ mem \in [Addr -> Fragment \cup {NoFragment}]
        /\ outcome \in [1..MaxCmds -> {"none", "pass", "fail"}]
    BY <1>1 DEF Init
  <2>3. /\ calls \in 0..MaxCmds /\ timeouts \in 0..MaxTimeouts
        /\ allocFails \in 0..MaxAllocFails /\ turns \in Nat
    BY BoundAssumption DEF Init
  <2>4. /\ lock_hal \in Caller \cup {NoCaller}
        /\ cmd_avl \in SUBSET CmdBuf
        /\ held \in CmdBuf \cup TxDesc \cup {NoAddr}
        /\ descOut \in SUBSET Desc
    BY DEF Init
  <2>5. bell \in BOOLEAN /\ running \in BOOLEAN
    BY DEF Init
  <2> QED
    BY <1>2, <2>1, <2>2, <2>3, <2>4, <2>5 DEF TypeOK
<1>4. CallInv
  BY DEF Init, CallInv
<1> QED
  BY <1>3, <1>4

(* Every step keeps the types. *)
LEMMA TypeNext ==
  ASSUME TypeOK, CallInv, [Next]_vars
  PROVE  TypeOK'
<1> USE DEF queueVars, rpuVars, boundVars, callerVars
<1>1. ASSUME NEW c \in Caller, NEW r \in Request, Call(c, r) PROVE TypeOK'
  BY <1>1, AddrAssumption, BoundAssumption DEF Call, TypeOK, Goto, At,
     Request, CtrlRequest, TxRequest, RxRequest, Desc
<1>2. ASSUME NEW c \in Caller, Lock(c) PROVE TypeOK'
  BY <1>2 DEF Lock, TypeOK, Goto, At
<1>3. ASSUME NEW c \in Caller, CmdQueue(c) PROVE TypeOK'
  BY <1>3, FragmentsTyped DEF CmdQueue, TypeOK, Goto, At
<1>4. ASSUME NEW c \in Caller, CmdDequeue(c) PROVE TypeOK'
  BY <1>4 DEF CmdDequeue, TypeOK, Goto, At
<1>5. ASSUME NEW c \in Caller, CmdQueueEmpty(c) PROVE TypeOK'
  BY <1>5 DEF CmdQueueEmpty, TypeOK, Goto, At
<1>6. ASSUME NEW c \in Caller, ReadyWait(c) PROVE TypeOK'
  BY <1>6 DEF ReadyWait, TypeOK, Goto, At
<1>7. ASSUME NEW c \in Caller, MsgWrite(c) PROVE TypeOK'
  BY <1>7 DEF MsgWrite, TypeOK, Goto, At, Addr
<1>8. ASSUME NEW c \in Caller, DataWrite(c) PROVE TypeOK'
  BY <1>8, BoundAssumption DEF DataWrite, TypeOK, CallInv, Goto, At, Addr,
     Desc, Fragment, Request, CtrlRequest, TxRequest, RxRequest
<1>9. ASSUME NEW c \in Caller, MsgPost(c) PROVE TypeOK'
  <2>1. msg_addr[c] \in CmdBuf \cup TxDesc
    BY <1>9, RequestsType DEF MsgPost, CallInv, At
  <2>2. cmd_busy' \in Seq(CmdBuf \cup TxDesc)
    BY <1>9, <2>1 DEF MsgPost, TypeOK
  <2> QED
    BY <1>9, <2>2 DEF MsgPost, TypeOK, Goto, At
<1>10. ASSUME NEW c \in Caller, MsgPostRx(c) PROVE TypeOK'
  <2>1. msg_addr[c] \in RxDesc
    BY <1>10, RequestsType DEF MsgPostRx, CallInv, At
  <2>2. rx_busy' \in [Pool -> Seq(RxDesc)]
    <3>1. rx_busy \in [Pool -> Seq(RxDesc)]
      BY DEF TypeOK
    <3>2. \A p \in Pool : Append(rx_busy[p], msg_addr[c]) \in Seq(RxDesc)
      BY <2>1, <3>1
    <3> QED
      BY <1>10, <3>1, <3>2 DEF MsgPostRx
  <2> QED
    BY <1>10, <2>2 DEF MsgPostRx, TypeOK, Goto, At
<1>11. ASSUME NEW c \in Caller, MsgTrigger(c) PROVE TypeOK'
  BY <1>11 DEF MsgTrigger, TypeOK, Goto, At
<1>12. ASSUME NEW c \in Caller, Unlock(c) PROVE TypeOK'
  BY <1>12 DEF Unlock, TypeOK, Goto, At
<1>13. ASSUME NEW c \in Caller, CmdQueueFail(c) PROVE TypeOK'
  <2>1. PICK k \in 0..(req[c].of - 1) : cmd_q' = cmd_q \o SubSeq(FragmentsOf(c), 1, k)
    BY <1>13 DEF CmdQueueFail
  <2>2. SubSeq(FragmentsOf(c), 1, k) \in Seq(Fragment)
    BY FragmentsTyped, BoundAssumption, <2>1
  <2>3. cmd_q' \in Seq(Fragment)
    BY <2>1, <2>2 DEF TypeOK
  <2> QED
    BY <1>13, <2>3, BoundAssumption DEF CmdQueueFail, TypeOK, Goto, At
<1>14. ASSUME NEW c \in Caller, ReadyTimeout(c) PROVE TypeOK'
  BY <1>14, BoundAssumption DEF ReadyTimeout, TypeOK, Goto, At
<1>15. CASE RpuStart
  BY <1>15 DEF RpuStart, TypeOK
<1>16. CASE RpuTake
  BY <1>16 DEF RpuTake, TypeOK, Addr, Desc
<1>17. CASE RpuRelease
  BY <1>17 DEF RpuRelease, TypeOK
<1>18. CASE RpuStop
  BY <1>18 DEF RpuStop, TypeOK
<1>19. ASSUME NEW p \in Pool, RpuUseRx(p) PROVE TypeOK'
  BY <1>19 DEF RpuUseRx, TypeOK
<1>20. CASE UNCHANGED vars
  BY <1>20 DEF vars, TypeOK
<1> QED
  BY <1>1, <1>2, <1>3, <1>4, <1>5, <1>6, <1>7, <1>8, <1>9, <1>10, <1>11,
     <1>12, <1>13, <1>14, <1>15, <1>16, <1>17, <1>18, <1>19, <1>20 DEF Next,
     CallerNext, Proceed, RpuNext

(* Every step keeps the callers consistent. *)
LEMMA CallNext ==
  ASSUME TypeOK, CallInv, [Next]_vars
  PROVE  CallInv'
<1> USE DEF queueVars, rpuVars, boundVars, callerVars, At, Goto
<1>1. ASSUME NEW c \in Caller, NEW r \in Request, Call(c, r) PROVE CallInv'
  BY <1>1 DEF Call, TypeOK, CallInv
<1>2. ASSUME NEW c \in Caller, Lock(c) PROVE CallInv'
  BY <1>2 DEF Lock, TypeOK, CallInv
<1>3. ASSUME NEW c \in Caller, CmdQueue(c) PROVE CallInv'
  BY <1>3 DEF CmdQueue, TypeOK, CallInv
<1>4. ASSUME NEW c \in Caller, CmdDequeue(c) PROVE CallInv'
  BY <1>4 DEF CmdDequeue, TypeOK, CallInv
<1>5. ASSUME NEW c \in Caller, CmdQueueEmpty(c) PROVE CallInv'
  BY <1>5 DEF CmdQueueEmpty, TypeOK, CallInv
<1>6. ASSUME NEW c \in Caller, ReadyWait(c) PROVE CallInv'
  BY <1>6 DEF ReadyWait, TypeOK, CallInv
<1>7. ASSUME NEW c \in Caller, MsgWrite(c) PROVE CallInv'
  BY <1>7 DEF MsgWrite, TypeOK, CallInv
<1>8. ASSUME NEW c \in Caller, DataWrite(c) PROVE CallInv'
  BY <1>8, RequestsType DEF DataWrite, TypeOK, CallInv
<1>9. ASSUME NEW c \in Caller, MsgPost(c) PROVE CallInv'
  BY <1>9 DEF MsgPost, TypeOK, CallInv
<1>10. ASSUME NEW c \in Caller, MsgPostRx(c) PROVE CallInv'
  BY <1>10 DEF MsgPostRx, TypeOK, CallInv
<1>11. ASSUME NEW c \in Caller, MsgTrigger(c) PROVE CallInv'
  BY <1>11 DEF MsgTrigger, TypeOK, CallInv
<1>12. ASSUME NEW c \in Caller, Unlock(c) PROVE CallInv'
  BY <1>12 DEF Unlock, TypeOK, CallInv
<1>13. ASSUME NEW c \in Caller, CmdQueueFail(c) PROVE CallInv'
  BY <1>13 DEF CmdQueueFail, TypeOK, CallInv
<1>14. ASSUME NEW c \in Caller, ReadyTimeout(c) PROVE CallInv'
  BY <1>14 DEF ReadyTimeout, TypeOK, CallInv
<1>15. CASE RpuStart
  BY <1>15 DEF RpuStart, TypeOK, CallInv
<1>16. CASE RpuTake
  BY <1>16 DEF RpuTake, TypeOK, CallInv
<1>17. CASE RpuRelease
  BY <1>17 DEF RpuRelease, TypeOK, CallInv
<1>18. CASE RpuStop
  BY <1>18 DEF RpuStop, TypeOK, CallInv
<1>19. ASSUME NEW p \in Pool, RpuUseRx(p) PROVE CallInv'
  BY <1>19 DEF RpuUseRx, TypeOK, CallInv
<1>20. CASE UNCHANGED vars
  BY <1>20 DEF vars, TypeOK, CallInv
<1> QED
  BY <1>1, <1>2, <1>3, <1>4, <1>5, <1>6, <1>7, <1>8, <1>9, <1>10, <1>11,
     <1>12, <1>13, <1>14, <1>15, <1>16, <1>17, <1>18, <1>19, <1>20 DEF Next,
     CallerNext, Proceed, RpuNext

(* The spinlock is taken and released by its holder only. *)
LEMMA LockNext ==
  ASSUME TypeOK, LockInv, [Next]_vars
  PROVE  LockInv'
<1> USE DEF queueVars, rpuVars, boundVars, callerVars, At, Goto, Critical
<1>1. ASSUME NEW c \in Caller, NEW r \in Request, Call(c, r) PROVE LockInv'
  BY <1>1, CallerAssumption DEF Call, TypeOK, LockInv
<1>2. ASSUME NEW c \in Caller, Lock(c) PROVE LockInv'
  BY <1>2, CallerAssumption DEF Lock, TypeOK, LockInv
<1>3. ASSUME NEW c \in Caller, CmdQueue(c) PROVE LockInv'
  BY <1>3, CallerAssumption DEF CmdQueue, TypeOK, LockInv
<1>4. ASSUME NEW c \in Caller, CmdDequeue(c) PROVE LockInv'
  BY <1>4, CallerAssumption DEF CmdDequeue, TypeOK, LockInv
<1>5. ASSUME NEW c \in Caller, CmdQueueEmpty(c) PROVE LockInv'
  BY <1>5, CallerAssumption DEF CmdQueueEmpty, TypeOK, LockInv
<1>6. ASSUME NEW c \in Caller, ReadyWait(c) PROVE LockInv'
  BY <1>6, CallerAssumption DEF ReadyWait, TypeOK, LockInv
<1>7. ASSUME NEW c \in Caller, MsgWrite(c) PROVE LockInv'
  BY <1>7, CallerAssumption DEF MsgWrite, TypeOK, LockInv
<1>8. ASSUME NEW c \in Caller, DataWrite(c) PROVE LockInv'
  BY <1>8, CallerAssumption DEF DataWrite, TypeOK, LockInv
<1>9. ASSUME NEW c \in Caller, MsgPost(c) PROVE LockInv'
  BY <1>9, CallerAssumption DEF MsgPost, TypeOK, LockInv
<1>10. ASSUME NEW c \in Caller, MsgPostRx(c) PROVE LockInv'
  BY <1>10, CallerAssumption DEF MsgPostRx, TypeOK, LockInv
<1>11. ASSUME NEW c \in Caller, MsgTrigger(c) PROVE LockInv'
  BY <1>11, CallerAssumption DEF MsgTrigger, TypeOK, LockInv
<1>12. ASSUME NEW c \in Caller, Unlock(c) PROVE LockInv'
  BY <1>12, CallerAssumption DEF Unlock, TypeOK, LockInv
<1>13. ASSUME NEW c \in Caller, CmdQueueFail(c) PROVE LockInv'
  BY <1>13, CallerAssumption DEF CmdQueueFail, TypeOK, LockInv
<1>14. ASSUME NEW c \in Caller, ReadyTimeout(c) PROVE LockInv'
  BY <1>14, CallerAssumption DEF ReadyTimeout, TypeOK, LockInv
<1>15. CASE RpuStart
  BY <1>15, CallerAssumption DEF RpuStart, TypeOK, LockInv
<1>16. CASE RpuTake
  BY <1>16, CallerAssumption DEF RpuTake, TypeOK, LockInv
<1>17. CASE RpuRelease
  BY <1>17, CallerAssumption DEF RpuRelease, TypeOK, LockInv
<1>18. CASE RpuStop
  BY <1>18, CallerAssumption DEF RpuStop, TypeOK, LockInv
<1>19. ASSUME NEW p \in Pool, RpuUseRx(p) PROVE LockInv'
  BY <1>19, CallerAssumption DEF RpuUseRx, TypeOK, LockInv
<1>20. CASE UNCHANGED vars
  BY <1>20 DEF vars, TypeOK, LockInv
<1> QED
  BY <1>1, <1>2, <1>3, <1>4, <1>5, <1>6, <1>7, <1>8, <1>9, <1>10, <1>11,
     <1>12, <1>13, <1>14, <1>15, <1>16, <1>17, <1>18, <1>19, <1>20 DEF Next,
     CallerNext, Proceed, RpuNext

(* A buffer seen by hal_rpu_ready_wait stays: only the lock holder takes    *)
(* buffers, the RPU only adds some.                                         *)
LEMMA WriteNext ==
  ASSUME TypeOK, LockInv, BufferWhenWriting, [Next]_vars
  PROVE  BufferWhenWriting'
<1> USE DEF queueVars, rpuVars, boundVars, callerVars, At, Goto
<1>1. ASSUME NEW c \in Caller, NEW r \in Request, Call(c, r) PROVE BufferWhenWriting'
  BY <1>1 DEF Call, TypeOK, BufferWhenWriting
<1>2. ASSUME NEW c \in Caller, Lock(c) PROVE BufferWhenWriting'
  BY <1>2 DEF Lock, TypeOK, BufferWhenWriting
<1>3. ASSUME NEW c \in Caller, CmdQueue(c) PROVE BufferWhenWriting'
  BY <1>3 DEF CmdQueue, TypeOK, BufferWhenWriting
<1>4. ASSUME NEW c \in Caller, CmdDequeue(c) PROVE BufferWhenWriting'
  BY <1>4 DEF CmdDequeue, TypeOK, BufferWhenWriting
<1>5. ASSUME NEW c \in Caller, CmdQueueEmpty(c) PROVE BufferWhenWriting'
  BY <1>5 DEF CmdQueueEmpty, TypeOK, BufferWhenWriting
<1>6. ASSUME NEW c \in Caller, ReadyWait(c) PROVE BufferWhenWriting'
  BY <1>6 DEF ReadyWait, TypeOK, BufferWhenWriting
<1>7. ASSUME NEW c \in Caller, MsgWrite(c) PROVE BufferWhenWriting'
  <2>1. pc \in [Caller -> Locations]
    BY DEF TypeOK
  <2>2. PICK l \in {"loop", "post"} : pc' = [pc EXCEPT ![c] = l]
    BY <1>7 DEF MsgWrite
  <2>3. \A d \in Caller : pc[d] = "write" => d = c
    BY <1>7 DEF MsgWrite, LockInv, Critical
  <2> QED
    BY <2>1, <2>2, <2>3 DEF BufferWhenWriting
<1>8. ASSUME NEW c \in Caller, DataWrite(c) PROVE BufferWhenWriting'
  BY <1>8 DEF DataWrite, TypeOK, BufferWhenWriting
<1>9. ASSUME NEW c \in Caller, MsgPost(c) PROVE BufferWhenWriting'
  BY <1>9 DEF MsgPost, TypeOK, BufferWhenWriting
<1>10. ASSUME NEW c \in Caller, MsgPostRx(c) PROVE BufferWhenWriting'
  BY <1>10 DEF MsgPostRx, TypeOK, BufferWhenWriting
<1>11. ASSUME NEW c \in Caller, MsgTrigger(c) PROVE BufferWhenWriting'
  BY <1>11 DEF MsgTrigger, TypeOK, BufferWhenWriting
<1>12. ASSUME NEW c \in Caller, Unlock(c) PROVE BufferWhenWriting'
  BY <1>12 DEF Unlock, TypeOK, BufferWhenWriting
<1>13. ASSUME NEW c \in Caller, CmdQueueFail(c) PROVE BufferWhenWriting'
  BY <1>13 DEF CmdQueueFail, TypeOK, BufferWhenWriting
<1>14. ASSUME NEW c \in Caller, ReadyTimeout(c) PROVE BufferWhenWriting'
  BY <1>14 DEF ReadyTimeout, TypeOK, BufferWhenWriting
<1>15. CASE RpuStart
  BY <1>15 DEF RpuStart, TypeOK, BufferWhenWriting
<1>16. CASE RpuTake
  BY <1>16 DEF RpuTake, TypeOK, BufferWhenWriting
<1>17. CASE RpuRelease
  BY <1>17 DEF RpuRelease, TypeOK, BufferWhenWriting
<1>18. CASE RpuStop
  BY <1>18 DEF RpuStop, TypeOK, BufferWhenWriting
<1>19. ASSUME NEW p \in Pool, RpuUseRx(p) PROVE BufferWhenWriting'
  BY <1>19 DEF RpuUseRx, TypeOK, BufferWhenWriting
<1>20. CASE UNCHANGED vars
  BY <1>20 DEF vars, TypeOK, BufferWhenWriting
<1> QED
  BY <1>1, <1>2, <1>3, <1>4, <1>5, <1>6, <1>7, <1>8, <1>9, <1>10, <1>11,
     <1>12, <1>13, <1>14, <1>15, <1>16, <1>17, <1>18, <1>19, <1>20 DEF Next,
     CallerNext, Proceed, RpuNext

(* Posting leads to the doorbell, the doorbell to the RPU, and the RPU      *)
(* stops on an empty queue only.                                            *)
LEMMA BellNext ==
  ASSUME TypeOK, DoorbellCovers, [Next]_vars
  PROVE  DoorbellCovers'
<1> USE DEF queueVars, rpuVars, boundVars, callerVars, At, Goto
<1>1. ASSUME NEW c \in Caller, NEW r \in Request, Call(c, r) PROVE DoorbellCovers'
  BY <1>1 DEF Call, TypeOK, DoorbellCovers
<1>2. ASSUME NEW c \in Caller, Lock(c) PROVE DoorbellCovers'
  BY <1>2 DEF Lock, TypeOK, DoorbellCovers
<1>3. ASSUME NEW c \in Caller, CmdQueue(c) PROVE DoorbellCovers'
  BY <1>3 DEF CmdQueue, TypeOK, DoorbellCovers
<1>4. ASSUME NEW c \in Caller, CmdDequeue(c) PROVE DoorbellCovers'
  BY <1>4 DEF CmdDequeue, TypeOK, DoorbellCovers
<1>5. ASSUME NEW c \in Caller, CmdQueueEmpty(c) PROVE DoorbellCovers'
  BY <1>5 DEF CmdQueueEmpty, TypeOK, DoorbellCovers
<1>6. ASSUME NEW c \in Caller, ReadyWait(c) PROVE DoorbellCovers'
  BY <1>6 DEF ReadyWait, TypeOK, DoorbellCovers
<1>7. ASSUME NEW c \in Caller, MsgWrite(c) PROVE DoorbellCovers'
  BY <1>7 DEF MsgWrite, TypeOK, DoorbellCovers
<1>8. ASSUME NEW c \in Caller, DataWrite(c) PROVE DoorbellCovers'
  BY <1>8 DEF DataWrite, TypeOK, DoorbellCovers
<1>9. ASSUME NEW c \in Caller, MsgPost(c) PROVE DoorbellCovers'
  BY <1>9 DEF MsgPost, TypeOK, DoorbellCovers
<1>10. ASSUME NEW c \in Caller, MsgPostRx(c) PROVE DoorbellCovers'
  BY <1>10 DEF MsgPostRx, TypeOK, DoorbellCovers
<1>11. ASSUME NEW c \in Caller, MsgTrigger(c) PROVE DoorbellCovers'
  BY <1>11 DEF MsgTrigger, TypeOK, DoorbellCovers
<1>12. ASSUME NEW c \in Caller, Unlock(c) PROVE DoorbellCovers'
  BY <1>12 DEF Unlock, TypeOK, DoorbellCovers
<1>13. ASSUME NEW c \in Caller, CmdQueueFail(c) PROVE DoorbellCovers'
  BY <1>13 DEF CmdQueueFail, TypeOK, DoorbellCovers
<1>14. ASSUME NEW c \in Caller, ReadyTimeout(c) PROVE DoorbellCovers'
  BY <1>14 DEF ReadyTimeout, TypeOK, DoorbellCovers
<1>15. CASE RpuStart
  BY <1>15 DEF RpuStart, TypeOK, DoorbellCovers
<1>16. CASE RpuTake
  BY <1>16 DEF RpuTake, TypeOK, DoorbellCovers
<1>17. CASE RpuRelease
  BY <1>17 DEF RpuRelease, TypeOK, DoorbellCovers
<1>18. CASE RpuStop
  BY <1>18 DEF RpuStop, TypeOK, DoorbellCovers
<1>19. ASSUME NEW p \in Pool, RpuUseRx(p) PROVE DoorbellCovers'
  BY <1>19 DEF RpuUseRx, TypeOK, DoorbellCovers
<1>20. CASE UNCHANGED vars
  BY <1>20 DEF vars, TypeOK, DoorbellCovers
<1> QED
  BY <1>1, <1>2, <1>3, <1>4, <1>5, <1>6, <1>7, <1>8, <1>9, <1>10, <1>11,
     <1>12, <1>13, <1>14, <1>15, <1>16, <1>17, <1>18, <1>19, <1>20 DEF Next,
     CallerNext, Proceed, RpuNext

-----------------------------------------------------------------------------

(* Appending a new element to a sequence of distinct ones. *)
LEMMA AppendElements ==
  ASSUME NEW S, NEW s \in Seq(S), NEW x \in S
  PROVE  /\ ToSet(Append(s, x)) = ToSet(s) \cup {x}
         /\ IsInjective(s) /\ x \notin ToSet(s) => IsInjective(Append(s, x))
<1>1. ToSet(Append(s, x)) = ToSet(s) \cup {x}
  <2>1. ToSet(Append(s, x)) \subseteq ToSet(s) \cup {x}
    BY DEF ToSet
  <2>2. \A i \in DOMAIN s : s[i] = Append(s, x)[i] /\ i \in DOMAIN Append(s, x)
    OBVIOUS
  <2>3. ToSet(s) \subseteq ToSet(Append(s, x))
    BY <2>2 DEF ToSet
  <2>4. x = Append(s, x)[Len(s) + 1] /\ Len(s) + 1 \in DOMAIN Append(s, x)
    OBVIOUS
  <2>5. x \in ToSet(Append(s, x))
    BY <2>4 DEF ToSet
  <2> QED
    BY <2>1, <2>3, <2>5
<1>2. IsInjective(s) /\ x \notin ToSet(s) => IsInjective(Append(s, x))
  BY DEF ToSet, IsInjective
<1> QED
  BY <1>1, <1>2

(* Taking the head off a sequence. *)
LEMMA TailElements ==
  ASSUME NEW S, NEW s \in Seq(S), s # <<>>
  PROVE  /\ Head(s) \in ToSet(s)
         /\ ToSet(s) = ToSet(Tail(s)) \cup {Head(s)}
         /\ IsInjective(s) => IsInjective(Tail(s)) /\ Head(s) \notin ToSet(Tail(s))
<1>1. Len(s) \in Nat /\ Len(s) > 0 /\ Len(Tail(s)) = Len(s) - 1
  OBVIOUS
<1>2. \A i \in DOMAIN Tail(s) : i + 1 \in DOMAIN s /\ Tail(s)[i] = s[i + 1]
  BY <1>1
<1>3. Head(s) = s[1] /\ 1 \in DOMAIN s
  BY <1>1
<1>4. \A i \in DOMAIN s \ {1} : i - 1 \in DOMAIN Tail(s) /\ s[i] = Tail(s)[i - 1]
  BY <1>1
<1>5. Head(s) \in ToSet(s)
  BY <1>3 DEF ToSet
<1>6. ToSet(Tail(s)) \subseteq ToSet(s)
  BY <1>2 DEF ToSet
<1>7. ToSet(s) \subseteq ToSet(Tail(s)) \cup {Head(s)}
  BY <1>3, <1>4 DEF ToSet
<1>8. ASSUME IsInjective(s)
      PROVE  IsInjective(Tail(s)) /\ Head(s) \notin ToSet(Tail(s))
  <2>1. DOMAIN s = 1..Len(s) /\ DOMAIN Tail(s) = 1..(Len(s) - 1)
    BY <1>1
  <2>2. ASSUME NEW i \in DOMAIN Tail(s), NEW j \in DOMAIN Tail(s),
               Tail(s)[i] = Tail(s)[j]
        PROVE  i = j
    <3>1. i + 1 = j + 1
      BY <1>2, <1>8, <2>2 DEF IsInjective
    <3> QED
      BY <2>1, <3>1
  <2>3. IsInjective(Tail(s))
    BY <2>2 DEF IsInjective
  <2>4. ASSUME NEW i \in DOMAIN Tail(s), Tail(s)[i] = Head(s)
        PROVE  FALSE
    <3>1. i + 1 = 1
      BY <1>2, <1>3, <1>8, <2>4 DEF IsInjective
    <3> QED
      BY <2>1, <3>1
  <2> QED
    BY <2>3, <2>4 DEF ToSet
<1> QED
  BY <1>5, <1>6, <1>7, <1>8

(* Only the lock holder can be about to post. *)
LEMMA PostingOne ==
  ASSUME LockInv, NEW c \in Caller, pc[c] \in Critical
  PROVE  Posting = IF pc[c] = "post" THEN {msg_addr[c]} ELSE {}
<1>1. \A d \in Caller : pc[d] = "post" => d = c
  BY DEF LockInv, Critical
<1> QED
  BY <1>1 DEF Posting, At

(* Posting does not change with steps to and from other places. *)
LEMMA PostingSame ==
  ASSUME TypeOK, NEW c \in Caller, NEW l \in Locations,
         pc[c] # "post", l # "post",
         pc' = [pc EXCEPT ![c] = l], msg_addr' = msg_addr
  PROVE  Posting' = Posting
<1>1. \A d \in Caller : pc'[d] = "post" <=> pc[d] = "post"
  BY DEF TypeOK
<1> QED
  BY <1>1 DEF Posting, At

(* What is posted on the command queue. *)
LEMMA BusyType ==
  ASSUME TypeOK
  PROVE  ToSet(cmd_busy) \subseteq CmdBuf \cup TxDesc
BY DEF TypeOK, ToSet

(* Nobody posts address 0. *)
LEMMA PostingAddr ==
  ASSUME TypeOK, CallInv
  PROVE  NoAddr \notin Posting
<1>1. ASSUME NEW c \in Caller, pc[c] = "post" PROVE msg_addr[c] # NoAddr
  BY <1>1, RequestsType, AddrAssumption DEF CallInv
<1> QED
  BY <1>1 DEF Posting, At

(* Every step that moves a buffer takes it from one place to another. *)
LEMMA BufferNext ==
  ASSUME TypeOK, CallInv, LockInv, LockInv', BufferWhenWriting, DescInv, BuffersAccounted, [Next]_vars
  PROVE  BuffersAccounted'
<1> USE DEF queueVars, rpuVars, boundVars, callerVars, At, Goto
<1>1. ASSUME NEW c \in Caller, NEW r \in Request, Call(c, r) PROVE BuffersAccounted'
  <2>1. Posting' = Posting
    BY <1>1, PostingSame DEF Call
  <2> QED
    BY <1>1, <2>1 DEF Call, BuffersAccounted
<1>2. ASSUME NEW c \in Caller, Lock(c) PROVE BuffersAccounted'
  <2>1. Posting' = Posting
    BY <1>2, PostingSame DEF Lock
  <2> QED
    BY <1>2, <2>1 DEF Lock, BuffersAccounted
<1>3. ASSUME NEW c \in Caller, CmdQueue(c) PROVE BuffersAccounted'
  <2>1. Posting' = Posting
    BY <1>3, PostingSame DEF CmdQueue
  <2> QED
    BY <1>3, <2>1 DEF CmdQueue, BuffersAccounted
<1>4. ASSUME NEW c \in Caller, CmdDequeue(c) PROVE BuffersAccounted'
  <2>1. Posting' = Posting
    BY <1>4, PostingSame DEF CmdDequeue
  <2> QED
    BY <1>4, <2>1 DEF CmdDequeue, BuffersAccounted
<1>5. ASSUME NEW c \in Caller, CmdQueueEmpty(c) PROVE BuffersAccounted'
  <2>1. Posting' = Posting
    BY <1>5, PostingSame DEF CmdQueueEmpty
  <2> QED
    BY <1>5, <2>1 DEF CmdQueueEmpty, BuffersAccounted
<1>6. ASSUME NEW c \in Caller, ReadyWait(c) PROVE BuffersAccounted'
  <2>1. Posting' = Posting
    BY <1>6, PostingSame DEF ReadyWait
  <2> QED
    BY <1>6, <2>1 DEF ReadyWait, BuffersAccounted
<1>7. ASSUME NEW c \in Caller, MsgWrite(c) PROVE BuffersAccounted'
  <2>1. PICK a \in cmd_avl :
           /\ cmd_avl' = cmd_avl \ {a}
           /\ msg_addr' = [msg_addr EXCEPT ![c] = a]
           /\ pc' = [pc EXCEPT ![c] = IF a = NoAddr THEN "loop" ELSE "post"]
    BY <1>7 DEF MsgWrite, BufferWhenWriting
  <2>2. a \in CmdBuf /\ a # NoAddr
    BY <2>1, AddrAssumption DEF TypeOK
  <2>3. pc[c] = "write" /\ pc'[c] = "post" /\ msg_addr'[c] = a
    BY <1>7, <2>1, <2>2 DEF MsgWrite, TypeOK
  <2>4. Posting = {}
    BY <2>3, PostingOne DEF Critical
  <2>5. Posting' = {a}
    <3>1. \A d \in Caller : pc'[d] = "post" => d = c
      BY <2>3 DEF LockInv, Critical
    <3> QED
      BY <3>1, <2>3 DEF Posting
  <2>6. a \notin ToSet(cmd_busy) \cup {held}
    BY DEF BuffersAccounted
  <2>7. cmd_busy' = cmd_busy /\ held' = held
    BY <1>7 DEF MsgWrite
  <2> QED
    BY <2>1, <2>4, <2>5, <2>6, <2>7 DEF BuffersAccounted
<1>8. ASSUME NEW c \in Caller, DataWrite(c) PROVE BuffersAccounted'
  <2>1. pc[c] = "data" /\ pc'[c] = "post" /\ msg_addr'[c] = req[c].addr
    BY <1>8 DEF DataWrite, TypeOK
  <2>2. Posting = {}
    BY <2>1, PostingOne DEF Critical
  <2>3. Posting' = {req[c].addr}
    <3>1. \A d \in Caller : pc'[d] = "post" => d = c
      BY <2>1 DEF LockInv, Critical
    <3> QED
      BY <3>1, <2>1 DEF Posting
  <2>4. req[c].addr \notin ToSet(cmd_busy) \cup {held}
    <3>1. CASE req[c].type = "tx"
      BY <2>1, <3>1 DEF DescInv, Sends, AtRpu
    <3>2. CASE req[c].type = "rx"
      BY <3>2, RequestsType, BusyType, AddrAssumption DEF TypeOK
    <3> QED
      BY <2>1, <3>1, <3>2, RequestsType DEF CallInv
  <2>5. req[c].addr \notin cmd_avl
    BY <2>1, RequestsType, AddrAssumption DEF CallInv, TypeOK
  <2>6. cmd_busy' = cmd_busy /\ held' = held /\ cmd_avl' = cmd_avl
    BY <1>8 DEF DataWrite
  <2> QED
    BY <2>2, <2>3, <2>4, <2>5, <2>6 DEF BuffersAccounted
<1>9. ASSUME NEW c \in Caller, MsgPost(c) PROVE BuffersAccounted'
  <2>1. /\ pc[c] = "post" /\ pc'[c] = "bell" /\ msg_addr' = msg_addr
        /\ cmd_busy' = Append(cmd_busy, msg_addr[c])
        /\ cmd_avl' = cmd_avl /\ held' = held
    BY <1>9 DEF MsgPost, TypeOK
  <2>2. Posting = {msg_addr[c]}
    BY <2>1, PostingOne DEF Critical
  <2>3. Posting' = {}
    <3>1. \A d \in Caller : pc'[d] = "post" => d = c
      BY <2>1 DEF LockInv, Critical
    <3> QED
      BY <3>1, <2>1 DEF Posting
  <2>4. msg_addr[c] \in CmdBuf \cup TxDesc
    BY <1>9, <2>1, RequestsType DEF MsgPost, CallInv
  <2>5. /\ ToSet(cmd_busy') = ToSet(cmd_busy) \cup {msg_addr[c]}
        /\ IsInjective(cmd_busy')
    BY <2>1, <2>2, <2>4, AppendElements DEF BuffersAccounted, TypeOK
  <2> QED
    BY <2>1, <2>2, <2>3, <2>5 DEF BuffersAccounted
<1>10. ASSUME NEW c \in Caller, MsgPostRx(c) PROVE BuffersAccounted'
  <2>1. /\ pc[c] = "post" /\ pc'[c] = "unlock" /\ msg_addr' = msg_addr
        /\ cmd_busy' = cmd_busy /\ cmd_avl' = cmd_avl /\ held' = held
    BY <1>10 DEF MsgPostRx, TypeOK
  <2>2. Posting = {msg_addr[c]}
    BY <2>1, PostingOne DEF Critical
  <2>3. Posting' = {}
    <3>1. \A d \in Caller : pc'[d] = "post" => d = c
      BY <2>1 DEF LockInv, Critical
    <3> QED
      BY <3>1, <2>1 DEF Posting
  <2>4. msg_addr[c] \notin CmdBuf
    BY <1>10, <2>1, RequestsType, AddrAssumption DEF MsgPostRx, CallInv
  <2> QED
    BY <2>1, <2>2, <2>3, <2>4 DEF BuffersAccounted
<1>11. ASSUME NEW c \in Caller, MsgTrigger(c) PROVE BuffersAccounted'
  <2>1. Posting' = Posting
    BY <1>11, PostingSame DEF MsgTrigger
  <2> QED
    BY <1>11, <2>1 DEF MsgTrigger, BuffersAccounted
<1>12. ASSUME NEW c \in Caller, Unlock(c) PROVE BuffersAccounted'
  <2>1. Posting' = Posting
    BY <1>12, PostingSame DEF Unlock
  <2> QED
    BY <1>12, <2>1 DEF Unlock, BuffersAccounted
<1>13. ASSUME NEW c \in Caller, CmdQueueFail(c) PROVE BuffersAccounted'
  <2>1. Posting' = Posting
    BY <1>13, PostingSame DEF CmdQueueFail
  <2> QED
    BY <1>13, <2>1 DEF CmdQueueFail, BuffersAccounted
<1>14. ASSUME NEW c \in Caller, ReadyTimeout(c) PROVE BuffersAccounted'
  <2>1. Posting' = Posting
    BY <1>14, PostingSame DEF ReadyTimeout
  <2> QED
    BY <1>14, <2>1 DEF ReadyTimeout, BuffersAccounted
<1>15. CASE RpuStart
  BY <1>15 DEF RpuStart, Posting, BuffersAccounted
<1>16. CASE RpuTake
  <2>1. /\ held = NoAddr /\ cmd_busy # <<>> /\ cmd_busy' = Tail(cmd_busy)
        /\ held' = Head(cmd_busy) /\ cmd_avl' = cmd_avl
    BY <1>16 DEF RpuTake
  <2>2. Posting' = Posting
    BY <1>16 DEF RpuTake, Posting
  <2>3. /\ ToSet(cmd_busy) = ToSet(cmd_busy') \cup {held'}
        /\ IsInjective(cmd_busy') /\ held' \notin ToSet(cmd_busy')
    BY <2>1, TailElements DEF BuffersAccounted, TypeOK
  <2> QED
    BY <2>1, <2>2, <2>3, AddrAssumption DEF BuffersAccounted
<1>17. CASE RpuRelease
  <2>1. /\ held # NoAddr /\ held' = NoAddr /\ cmd_busy' = cmd_busy
        /\ cmd_avl' = IF held \in CmdBuf THEN cmd_avl \cup {held} ELSE cmd_avl
    BY <1>17 DEF RpuRelease
  <2>2. Posting' = Posting
    BY <1>17 DEF RpuRelease, Posting
  <2>3. NoAddr \notin ToSet(cmd_busy) /\ NoAddr \notin cmd_avl /\ NoAddr \notin CmdBuf
    BY BusyType, AddrAssumption DEF TypeOK
  <2>4. NoAddr \notin Posting
    BY PostingAddr
  <2> QED
    BY <2>1, <2>2, <2>3, <2>4 DEF BuffersAccounted
<1>18. CASE RpuStop
  BY <1>18 DEF RpuStop, Posting, BuffersAccounted
<1>19. ASSUME NEW p \in Pool, RpuUseRx(p) PROVE BuffersAccounted'
  BY <1>19 DEF RpuUseRx, Posting, BuffersAccounted
<1>20. CASE UNCHANGED vars
  BY <1>20 DEF vars, Posting, BuffersAccounted
<1> QED
  BY <1>1, <1>2, <1>3, <1>4, <1>5, <1>6, <1>7, <1>8, <1>9, <1>10, <1>11,
     <1>12, <1>13, <1>14, <1>15, <1>16, <1>17, <1>18, <1>19, <1>20 DEF Next,
     CallerNext, Proceed, RpuNext

(* Every step keeps TX descriptors in one place. *)
LEMMA DescNext ==
  ASSUME TypeOK, CallInv, BuffersAccounted, DescInv, [Next]_vars
  PROVE  DescInv'
<1> USE DEF queueVars, rpuVars, boundVars, callerVars, At, Goto
<1>1. ASSUME NEW c \in Caller, NEW r \in Request, Call(c, r) PROVE DescInv'
  <2>1. /\ calls' = calls + 1 /\ pc[c] = "idle" /\ r.addr \notin descOut
        /\ req' = [req EXCEPT ![c] = r] /\ pc' = [pc EXCEPT ![c] = "lock"]
        /\ descOut \subseteq descOut'
        /\ r.addr # NoAddr => r.addr \in descOut'
        /\ cmd_busy' = cmd_busy /\ held' = held
    BY <1>1 DEF Call
  <2>2. /\ \A d \in Caller \ {c} : Sends(d)' = Sends(d) /\ req'[d] = req[d]
        /\ req'[c] = r
    BY <2>1 DEF TypeOK, Sends
  <2>3. r.type = "tx" => r.addr \in TxDesc
    BY RequestType
  <2>4. AtRpu' = AtRpu
    BY <2>1 DEF AtRpu
  <2>5. ASSUME Sends(c)'
        PROVE  r.addr \in descOut' /\ r.addr \notin AtRpu /\ r.addr \notin descOut
    <3>1. r.addr \in TxDesc
      BY <2>2, <2>3, <2>5 DEF Sends
    <3>2. r.addr # NoAddr
      BY <3>1, AddrAssumption
    <3> QED
      BY <2>1, <3>1, <3>2 DEF DescInv
  <2>6. \A d \in Caller \ {c} : Sends(d)' => req'[d].addr \in (descOut \cap descOut') \ AtRpu
    BY <2>1, <2>2 DEF DescInv
  <2>7. \A d \in Caller : Sends(d)' => req'[d].addr \in descOut' \ AtRpu'
    BY <2>2, <2>4, <2>5, <2>6
  <2>8. ASSUME NEW d \in Caller, NEW e \in Caller, Sends(d)', Sends(e)',
               req'[d].addr = req'[e].addr
        PROVE  d = e
    <3>1. CASE d # c /\ e # c
      BY <2>2, <2>8, <3>1 DEF DescInv
    <3>2. CASE d = c \/ e = c
      BY <2>2, <2>5, <2>6, <2>8, <3>2
    <3> QED
      BY <3>1, <3>2
  <2>9. TxDesc \cap AtRpu' \subseteq descOut'
    BY <2>1, <2>4 DEF DescInv
  <2> QED
    BY <2>7, <2>8, <2>9 DEF DescInv
<1>2. ASSUME NEW c \in Caller, Lock(c) PROVE DescInv'
  BY <1>2 DEF Lock, TypeOK, DescInv, Sends, AtRpu
<1>3. ASSUME NEW c \in Caller, CmdQueue(c) PROVE DescInv'
  BY <1>3 DEF CmdQueue, TypeOK, DescInv, Sends, AtRpu
<1>4. ASSUME NEW c \in Caller, CmdDequeue(c) PROVE DescInv'
  BY <1>4 DEF CmdDequeue, TypeOK, DescInv, Sends, AtRpu
<1>5. ASSUME NEW c \in Caller, CmdQueueEmpty(c) PROVE DescInv'
  BY <1>5 DEF CmdQueueEmpty, TypeOK, DescInv, Sends, AtRpu
<1>6. ASSUME NEW c \in Caller, ReadyWait(c) PROVE DescInv'
  BY <1>6 DEF ReadyWait, TypeOK, DescInv, Sends, AtRpu
<1>7. ASSUME NEW c \in Caller, MsgWrite(c) PROVE DescInv'
  <2>1. PICK l \in {"loop", "post"} : pc' = [pc EXCEPT ![c] = l]
    BY <1>7 DEF MsgWrite
  <2>2. /\ pc[c] = "write" /\ req' = req /\ descOut' = descOut
        /\ cmd_busy' = cmd_busy /\ held' = held
    BY <1>7 DEF MsgWrite
  <2>3. req[c].type = "ctrl"
    BY <2>2 DEF CallInv
  <2>4. \A d \in Caller : Sends(d)' = Sends(d)
    BY <2>1, <2>2, <2>3 DEF Sends, TypeOK
  <2> QED
    BY <2>2, <2>4 DEF DescInv, AtRpu
<1>8. ASSUME NEW c \in Caller, DataWrite(c) PROVE DescInv'
  BY <1>8 DEF DataWrite, TypeOK, DescInv, Sends, AtRpu
<1>9. ASSUME NEW c \in Caller, MsgPost(c) PROVE DescInv'
  <2>1. /\ pc[c] = "post" /\ pc' = [pc EXCEPT ![c] = "bell"] /\ req' = req
        /\ cmd_busy' = Append(cmd_busy, msg_addr[c])
        /\ held' = held /\ descOut' = descOut
    BY <1>9 DEF MsgPost
  <2>2. msg_addr[c] \in CmdBuf \cup TxDesc
    BY <1>9, <2>1, RequestsType DEF MsgPost, CallInv
  <2>3. AtRpu' = AtRpu \cup {msg_addr[c]}
    BY <2>1, <2>2, AppendElements DEF AtRpu, TypeOK
  <2>4. \A d \in Caller : Sends(d)' => Sends(d) /\ d # c
    BY <2>1 DEF Sends, TypeOK
  <2>5. ASSUME NEW d \in Caller, Sends(d)' PROVE req[d].addr # msg_addr[c]
    <3>1. req[d].addr \in TxDesc
      BY <2>4, <2>5, RequestsType DEF Sends
    <3>2. CASE req[c].type = "ctrl"
      BY <2>1, <3>1, <3>2, AddrAssumption DEF CallInv
    <3>3. CASE req[c].type = "tx"
      BY <2>1, <2>4, <2>5, <3>3 DEF CallInv, DescInv, Sends
    <3> QED
      BY <1>9, <3>2, <3>3, RequestsType DEF MsgPost
  <2>6. msg_addr[c] \in TxDesc => msg_addr[c] \in descOut
    <3>1. CASE req[c].type = "ctrl"
      BY <2>1, <3>1, AddrAssumption DEF CallInv
    <3>2. CASE req[c].type = "tx"
      BY <2>1, <3>2 DEF CallInv, DescInv, Sends
    <3> QED
      BY <1>9, <3>1, <3>2, RequestsType DEF MsgPost
  <2> QED
    BY <2>1, <2>3, <2>4, <2>5, <2>6 DEF DescInv
<1>10. ASSUME NEW c \in Caller, MsgPostRx(c) PROVE DescInv'
  BY <1>10 DEF MsgPostRx, TypeOK, DescInv, Sends, AtRpu
<1>11. ASSUME NEW c \in Caller, MsgTrigger(c) PROVE DescInv'
  BY <1>11 DEF MsgTrigger, TypeOK, DescInv, Sends, AtRpu
<1>12. ASSUME NEW c \in Caller, Unlock(c) PROVE DescInv'
  BY <1>12 DEF Unlock, TypeOK, DescInv, Sends, AtRpu
<1>13. ASSUME NEW c \in Caller, CmdQueueFail(c) PROVE DescInv'
  BY <1>13 DEF CmdQueueFail, TypeOK, DescInv, Sends, AtRpu
<1>14. ASSUME NEW c \in Caller, ReadyTimeout(c) PROVE DescInv'
  BY <1>14 DEF ReadyTimeout, TypeOK, DescInv, Sends, AtRpu
<1>15. CASE RpuStart
  BY <1>15 DEF RpuStart, TypeOK, DescInv, Sends, AtRpu
<1>16. CASE RpuTake
  <2>1. AtRpu' \subseteq AtRpu
    BY <1>16, TailElements DEF RpuTake, AtRpu, TypeOK
  <2>2. \A c \in Caller : Sends(c)' = Sends(c)
    BY <1>16 DEF RpuTake, Sends
  <2>3. req' = req /\ descOut' = descOut
    BY <1>16 DEF RpuTake
  <2> QED
    BY <2>1, <2>2, <2>3 DEF DescInv
<1>17. CASE RpuRelease
  <2>1. /\ pc' = pc /\ req' = req /\ descOut' = descOut \ {held}
        /\ AtRpu' = ToSet(cmd_busy) \cup {NoAddr}
    BY <1>17 DEF RpuRelease, AtRpu
  <2>2. held \notin ToSet(cmd_busy) /\ held \in AtRpu
    BY DEF BuffersAccounted, AtRpu
  <2>3. \A c \in Caller : Sends(c) => req[c].addr \in TxDesc
    BY RequestsType DEF Sends
  <2>4. \A c \in Caller : Sends(c)' = Sends(c)
    BY <2>1 DEF Sends
  <2> QED
    BY <2>1, <2>2, <2>3, <2>4, AddrAssumption DEF DescInv, AtRpu
<1>18. CASE RpuStop
  BY <1>18 DEF RpuStop, TypeOK, DescInv, Sends, AtRpu
<1>19. ASSUME NEW p \in Pool, RpuUseRx(p) PROVE DescInv'
  <2>1. Head(rx_busy[p]) \in RxDesc
    BY <1>19 DEF RpuUseRx, TypeOK
  <2>2. /\ pc' = pc /\ req' = req /\ AtRpu' = AtRpu
        /\ descOut' = descOut \ {Head(rx_busy[p])}
    BY <1>19 DEF RpuUseRx, AtRpu
  <2>3. \A c \in Caller : Sends(c) => req[c].addr \in TxDesc
    BY RequestsType DEF Sends
  <2>4. \A c \in Caller : Sends(c)' = Sends(c)
    BY <2>2 DEF Sends
  <2> QED
    BY <2>1, <2>2, <2>3, <2>4, AddrAssumption DEF DescInv
<1>20. CASE UNCHANGED vars
  BY <1>20 DEF vars, TypeOK, DescInv, Sends, AtRpu
<1> QED
  BY <1>1, <1>2, <1>3, <1>4, <1>5, <1>6, <1>7, <1>8, <1>9, <1>10, <1>11,
     <1>12, <1>13, <1>14, <1>15, <1>16, <1>17, <1>18, <1>19, <1>20 DEF Next,
     CallerNext, Proceed, RpuNext

-----------------------------------------------------------------------------

(* The loop of hal_rpu_cmd_process_queue leaves cmd_q empty. *)
LEMMA QueueNext ==
  ASSUME TypeOK, CallInv, LockInv, QueueInv, [Next]_vars
  PROVE  QueueInv'
<1> USE DEF queueVars, rpuVars, boundVars, callerVars, At, Goto, Critical
<1>1. ASSUME NEW c \in Caller, NEW r \in Request, Call(c, r) PROVE QueueInv'
  BY <1>1, CallerAssumption DEF Call, TypeOK, LockInv, QueueInv
<1>2. ASSUME NEW c \in Caller, Lock(c) PROVE QueueInv'
  BY <1>2, CallerAssumption DEF Lock, TypeOK, LockInv, QueueInv
<1>3. ASSUME NEW c \in Caller, CmdQueue(c) PROVE QueueInv'
  <2>1. /\ pc[c] = "queue" /\ lock_hal = c /\ lock_hal' = c /\ id' = id /\ req' = req
        /\ pc' = [pc EXCEPT ![c] = "loop"] /\ cmd' = cmd /\ allocFails' = allocFails
        /\ cmd_q' = cmd_q \o FragmentsOf(c)
    BY <1>3 DEF CmdQueue, LockInv, Critical
  <2> SUFFICES ASSUME allocFails = 0 PROVE QueueInv'
    BY <2>1 DEF QueueInv
  <2>2. cmd_q = <<>>
    BY <2>1 DEF QueueInv
  <2>3. cmd_q' = FragmentsOf(c)
    BY <2>1, <2>2, FragmentsTyped
  <2>4. \A i \in 1..Len(cmd_q') : cmd_q'[i].cmd = id[c]
    BY <2>3, FragmentsTyped DEF FragmentsOf
  <2>5. req[c].type = "ctrl"
    BY <2>1 DEF CallInv
  <2>6. pc'[c] = "loop" /\ \A d \in Caller \ {c} : pc'[d] = pc[d]
    BY <2>1 DEF TypeOK
  <2> QED
    BY <2>1, <2>4, <2>5, <2>6 DEF QueueInv
<1>4. ASSUME NEW c \in Caller, CmdDequeue(c) PROVE QueueInv'
  <2>1. /\ pc[c] = "loop" /\ lock_hal = c /\ lock_hal' = c /\ id' = id /\ req' = req
        /\ pc' = [pc EXCEPT ![c] = "wait"] /\ allocFails' = allocFails
        /\ cmd_q # <<>> /\ cmd_q' = Tail(cmd_q)
        /\ cmd' = [cmd EXCEPT ![c] = Head(cmd_q)]
    BY <1>4 DEF CmdDequeue, LockInv, Critical
  <2> SUFFICES ASSUME allocFails = 0 PROVE QueueInv'
    BY <2>1 DEF QueueInv
  <2>2. /\ Len(cmd_q) \in Nat /\ Len(cmd_q) > 0
        /\ Len(cmd_q') = Len(cmd_q) - 1
        /\ \A i \in 1..Len(cmd_q') : cmd_q'[i] = cmd_q[i + 1] /\ i + 1 \in 1..Len(cmd_q)
        /\ Head(cmd_q) = cmd_q[1] /\ 1 \in 1..Len(cmd_q)
    BY <2>1 DEF TypeOK
  <2>3. \A i \in 1..Len(cmd_q') : cmd_q'[i].cmd = id[c]
    BY <2>1, <2>2 DEF QueueInv
  <2>4. /\ pc'[c] = "wait" /\ cmd'[c].cmd = id[c]
        /\ \A d \in Caller \ {c} : pc'[d] = pc[d] /\ cmd'[d] = cmd[d]
    BY <2>1, <2>2 DEF TypeOK, QueueInv
  <2> QED
    BY <2>1, <2>3, <2>4 DEF QueueInv
<1>5. ASSUME NEW c \in Caller, CmdQueueEmpty(c) PROVE QueueInv'
  BY <1>5, CallerAssumption DEF CmdQueueEmpty, TypeOK, LockInv, QueueInv
<1>6. ASSUME NEW c \in Caller, ReadyWait(c) PROVE QueueInv'
  BY <1>6, CallerAssumption DEF ReadyWait, TypeOK, LockInv, QueueInv
<1>7. ASSUME NEW c \in Caller, MsgWrite(c) PROVE QueueInv'
  BY <1>7, CallerAssumption DEF MsgWrite, TypeOK, LockInv, QueueInv
<1>8. ASSUME NEW c \in Caller, DataWrite(c) PROVE QueueInv'
  BY <1>8, CallerAssumption DEF DataWrite, TypeOK, LockInv, QueueInv
<1>9. ASSUME NEW c \in Caller, MsgPost(c) PROVE QueueInv'
  BY <1>9, CallerAssumption DEF MsgPost, TypeOK, LockInv, QueueInv
<1>10. ASSUME NEW c \in Caller, MsgPostRx(c) PROVE QueueInv'
  BY <1>10, CallerAssumption DEF MsgPostRx, TypeOK, LockInv, QueueInv
<1>11. ASSUME NEW c \in Caller, MsgTrigger(c) PROVE QueueInv'
  BY <1>11, CallerAssumption DEF MsgTrigger, TypeOK, LockInv, QueueInv
<1>12. ASSUME NEW c \in Caller, Unlock(c) PROVE QueueInv'
  BY <1>12, CallerAssumption DEF Unlock, TypeOK, LockInv, QueueInv
<1>13. ASSUME NEW c \in Caller, CmdQueueFail(c) PROVE QueueInv'
  BY <1>13, CallerAssumption DEF CmdQueueFail, TypeOK, LockInv, QueueInv
<1>14. ASSUME NEW c \in Caller, ReadyTimeout(c) PROVE QueueInv'
  BY <1>14, CallerAssumption DEF ReadyTimeout, TypeOK, LockInv, QueueInv
<1>15. CASE RpuStart
  BY <1>15, CallerAssumption DEF RpuStart, TypeOK, LockInv, QueueInv
<1>16. CASE RpuTake
  BY <1>16, CallerAssumption DEF RpuTake, TypeOK, LockInv, QueueInv
<1>17. CASE RpuRelease
  BY <1>17, CallerAssumption DEF RpuRelease, TypeOK, LockInv, QueueInv
<1>18. CASE RpuStop
  BY <1>18, CallerAssumption DEF RpuStop, TypeOK, LockInv, QueueInv
<1>19. ASSUME NEW p \in Pool, RpuUseRx(p) PROVE QueueInv'
  BY <1>19, CallerAssumption DEF RpuUseRx, TypeOK, LockInv, QueueInv
<1>20. CASE UNCHANGED vars
  BY <1>20 DEF vars, TypeOK, QueueInv
<1> QED
  BY <1>1, <1>2, <1>3, <1>4, <1>5, <1>6, <1>7, <1>8, <1>9, <1>10, <1>11,
     <1>12, <1>13, <1>14, <1>15, <1>16, <1>17, <1>18, <1>19, <1>20 DEF Next,
     CallerNext, Proceed, RpuNext

(* Numbers are given under the lock. *)
LEMMA TurnNext ==
  ASSUME TypeOK, LockInv, TurnInv, [Next]_vars
  PROVE  TurnInv'
<1> USE DEF queueVars, rpuVars, boundVars, callerVars, At, Goto, Critical
<1>1. ASSUME NEW c \in Caller, NEW r \in Request, Call(c, r) PROVE TurnInv'
  BY <1>1, CallerAssumption DEF Call, TypeOK, LockInv, TurnInv
<1>2. ASSUME NEW c \in Caller, Lock(c) PROVE TurnInv'
  BY <1>2, CallerAssumption DEF Lock, TypeOK, LockInv, TurnInv
<1>3. ASSUME NEW c \in Caller, CmdQueue(c) PROVE TurnInv'
  BY <1>3, CallerAssumption DEF CmdQueue, TypeOK, LockInv, TurnInv
<1>4. ASSUME NEW c \in Caller, CmdDequeue(c) PROVE TurnInv'
  BY <1>4, CallerAssumption DEF CmdDequeue, TypeOK, LockInv, TurnInv
<1>5. ASSUME NEW c \in Caller, CmdQueueEmpty(c) PROVE TurnInv'
  BY <1>5, CallerAssumption DEF CmdQueueEmpty, TypeOK, LockInv, TurnInv
<1>6. ASSUME NEW c \in Caller, ReadyWait(c) PROVE TurnInv'
  BY <1>6, CallerAssumption DEF ReadyWait, TypeOK, LockInv, TurnInv
<1>7. ASSUME NEW c \in Caller, MsgWrite(c) PROVE TurnInv'
  BY <1>7, CallerAssumption DEF MsgWrite, TypeOK, LockInv, TurnInv
<1>8. ASSUME NEW c \in Caller, DataWrite(c) PROVE TurnInv'
  BY <1>8, CallerAssumption DEF DataWrite, TypeOK, LockInv, TurnInv
<1>9. ASSUME NEW c \in Caller, MsgPost(c) PROVE TurnInv'
  BY <1>9, CallerAssumption DEF MsgPost, TypeOK, LockInv, TurnInv
<1>10. ASSUME NEW c \in Caller, MsgPostRx(c) PROVE TurnInv'
  BY <1>10, CallerAssumption DEF MsgPostRx, TypeOK, LockInv, TurnInv
<1>11. ASSUME NEW c \in Caller, MsgTrigger(c) PROVE TurnInv'
  BY <1>11, CallerAssumption DEF MsgTrigger, TypeOK, LockInv, TurnInv
<1>12. ASSUME NEW c \in Caller, Unlock(c) PROVE TurnInv'
  BY <1>12, CallerAssumption DEF Unlock, TypeOK, LockInv, TurnInv
<1>13. ASSUME NEW c \in Caller, CmdQueueFail(c) PROVE TurnInv'
  BY <1>13, CallerAssumption DEF CmdQueueFail, TypeOK, LockInv, TurnInv
<1>14. ASSUME NEW c \in Caller, ReadyTimeout(c) PROVE TurnInv'
  BY <1>14, CallerAssumption DEF ReadyTimeout, TypeOK, LockInv, TurnInv
<1>15. CASE RpuStart
  BY <1>15, CallerAssumption DEF RpuStart, TypeOK, LockInv, TurnInv
<1>16. CASE RpuTake
  BY <1>16, CallerAssumption DEF RpuTake, TypeOK, LockInv, TurnInv
<1>17. CASE RpuRelease
  BY <1>17, CallerAssumption DEF RpuRelease, TypeOK, LockInv, TurnInv
<1>18. CASE RpuStop
  BY <1>18, CallerAssumption DEF RpuStop, TypeOK, LockInv, TurnInv
<1>19. ASSUME NEW p \in Pool, RpuUseRx(p) PROVE TurnInv'
  BY <1>19, CallerAssumption DEF RpuUseRx, TypeOK, LockInv, TurnInv
<1>20. CASE UNCHANGED vars
  BY <1>20 DEF vars, TypeOK, TurnInv
<1> QED
  BY <1>1, <1>2, <1>3, <1>4, <1>5, <1>6, <1>7, <1>8, <1>9, <1>10, <1>11,
     <1>12, <1>13, <1>14, <1>15, <1>16, <1>17, <1>18, <1>19, <1>20 DEF Next,
     CallerNext, Proceed, RpuNext

-----------------------------------------------------------------------------

(* Earlier does not change while what the RPU has been given is the same. *)
LEMMA EarlierSame ==
  ASSUME NEW n, Earlier(n), rcvd' = rcvd, cmd_busy' = cmd_busy,
         \A i \in 1..Len(cmd_busy) : mem'[cmd_busy[i]] = mem[cmd_busy[i]]
  PROVE  Earlier(n)'
BY DEF Earlier

(* A larger number bounds it as well. *)
LEMMA EarlierGrows ==
  ASSUME TypeOK, NEW n \in Nat, Earlier(n)
  PROVE  Earlier(n + 1)
<1>1. \A i \in 1..Len(rcvd) : rcvd[i].cmd \in Nat
  BY DEF TypeOK, Fragment, NoFragment
<1>2. \A i \in 1..Len(cmd_busy) : mem[cmd_busy[i]].cmd \in Nat
  BY DEF TypeOK, Fragment, NoFragment, Addr, Desc
<1> QED
  BY <1>1, <1>2 DEF Earlier

(* A write outside the posted addresses leaves what is posted alone. *)
LEMMA OutsideBusy ==
  ASSUME TypeOK, NEW a, a \notin ToSet(cmd_busy), \A b \in Addr \ {a} : mem'[b] = mem[b]
  PROVE  \A i \in 1..Len(cmd_busy) : mem'[cmd_busy[i]] = mem[cmd_busy[i]]
BY DEF TypeOK, ToSet, Addr, Desc

(* What hal_rpu_msg_get_addr and the copy do, given a free buffer. *)
LEMMA MsgWriteEffect ==
  ASSUME TypeOK, LockInv, BufferWhenWriting, BuffersAccounted,
         NEW c \in Caller, MsgWrite(c)
  PROVE  /\ pc[c] = "write" /\ lock_hal = c
         /\ pc' = [pc EXCEPT ![c] = "post"]
         /\ msg_addr'[c] \in CmdBuf
         /\ mem'[msg_addr'[c]] = cmd[c]
         /\ \A d \in Caller \ {c} : msg_addr'[d] = msg_addr[d]
         /\ \A i \in 1..Len(cmd_busy) : mem'[cmd_busy[i]] = mem[cmd_busy[i]]
         /\ UNCHANGED <<req, id, turns, cmd, cmd_q, cmd_busy, rcvd, allocFails>>
<1> USE DEF At, Goto, queueVars, rpuVars, boundVars
<1>1. pc[c] = "write" /\ lock_hal = c
  BY DEF MsgWrite, LockInv, Critical
<1>2. PICK a \in cmd_avl :
         /\ msg_addr' = [msg_addr EXCEPT ![c] = a]
         /\ mem' = [b \in Addr |-> IF b = a THEN cmd[c] ELSE mem[b]]
         /\ pc' = [pc EXCEPT ![c] = IF a = NoAddr THEN "loop" ELSE "post"]
  BY <1>1 DEF MsgWrite, BufferWhenWriting
<1>3. a \in CmdBuf /\ a # NoAddr /\ a \notin ToSet(cmd_busy) /\ a \in Addr
  BY <1>2, AddrAssumption DEF TypeOK, BuffersAccounted, Addr
<1>4. /\ msg_addr'[c] = a /\ mem'[a] = cmd[c]
      /\ \A d \in Caller \ {c} : msg_addr'[d] = msg_addr[d]
      /\ \A b \in Addr \ {a} : mem'[b] = mem[b]
  BY <1>2, <1>3 DEF TypeOK
<1>5. \A i \in 1..Len(cmd_busy) : mem'[cmd_busy[i]] = mem[cmd_busy[i]]
  BY <1>3, <1>4, OutsideBusy
<1>6. UNCHANGED <<req, id, turns, cmd, cmd_q, cmd_busy, rcvd, allocFails>>
  BY DEF MsgWrite
<1> QED
  BY <1>1, <1>2, <1>3, <1>4, <1>5, <1>6

(* What the copy of a data command does. *)
LEMMA DataWriteEffect ==
  ASSUME TypeOK, LockInv, CallInv, DescInv,
         NEW c \in Caller, DataWrite(c)
  PROVE  /\ pc[c] = "data" /\ lock_hal = c
         /\ pc' = [pc EXCEPT ![c] = "post"]
         /\ msg_addr'[c] = req[c].addr
         /\ mem'[req[c].addr] = [cmd |-> id[c], frag |-> 1, of |-> 1]
         /\ \A d \in Caller \ {c} : msg_addr'[d] = msg_addr[d]
         /\ \A i \in 1..Len(cmd_busy) : mem'[cmd_busy[i]] = mem[cmd_busy[i]]
         /\ UNCHANGED <<req, id, turns, cmd, cmd_q, cmd_busy, rcvd, allocFails>>
<1> USE DEF At, Goto, queueVars, rpuVars, boundVars
<1>1. /\ pc[c] = "data" /\ lock_hal = c /\ pc' = [pc EXCEPT ![c] = "post"]
      /\ msg_addr' = [msg_addr EXCEPT ![c] = req[c].addr]
      /\ mem' = [mem EXCEPT ![req[c].addr] = [cmd |-> id[c], frag |-> 1, of |-> 1]]
  BY DEF DataWrite, LockInv, Critical
<1>2. req[c].addr \in Desc /\ req[c].addr \notin ToSet(cmd_busy)
  <2>1. CASE req[c].type = "tx"
    BY <1>1, <2>1, RequestsType DEF DescInv, Sends, AtRpu, Desc
  <2>2. CASE req[c].type = "rx"
    BY <2>2, RequestsType, BusyType, AddrAssumption DEF Desc
  <2> QED
    BY <1>1, <2>1, <2>2, RequestsType DEF CallInv
<1>3. /\ msg_addr'[c] = req[c].addr
      /\ \A d \in Caller \ {c} : msg_addr'[d] = msg_addr[d]
      /\ mem'[req[c].addr] = [cmd |-> id[c], frag |-> 1, of |-> 1]
      /\ \A b \in Addr \ {req[c].addr} : mem'[b] = mem[b]
  BY <1>1, <1>2 DEF TypeOK, Addr
<1>4. \A i \in 1..Len(cmd_busy) : mem'[cmd_busy[i]] = mem[cmd_busy[i]]
  BY <1>2, <1>3, OutsideBusy
<1>5. UNCHANGED <<req, id, turns, cmd, cmd_q, cmd_busy, rcvd, allocFails>>
  BY DEF DataWrite
<1> QED
  BY <1>1, <1>3, <1>4, <1>5

(* Only the lock holder has a fragment on its way. *)
LEMMA HeldByHolder ==
  ASSUME LockInv, NEW c \in Caller, lock_hal = c
  PROVE  \A d \in Caller : Holding(d) => d = c
BY DEF LockInv, Holding, Critical

(* NumberInv of a step of the lock holder past its first. *)
LEMMA NumberEarlier ==
  ASSUME TypeOK, LockInv, LockInv', NumberInv, allocFails = 0,
         NEW c \in Caller, lock_hal' = c, pc'[c] \notin {"queue", "data"},
         Earlier(turns + 1)', turns' = turns,
         Holding(c)' => InHand(c)'.cmd = turns
  PROVE  NumberInv'
<1>1. \A d \in Caller : pc'[d] \in Critical => d = c
  BY DEF LockInv
<1>2. \A d \in Caller : Holding(d)' => d = c
  BY <1>1 DEF Holding, Critical
<1>3. \A d \in Caller : pc'[d] \notin {"queue", "data"}
  BY <1>1 DEF Critical
<1> QED
  BY <1>2, <1>3 DEF NumberInv

(* NumberInv of a step that moves nothing. *)
LEMMA NumberSame ==
  ASSUME NumberInv, allocFails = 0, turns' = turns,
         rcvd' = rcvd, cmd_busy' = cmd_busy,
         \A i \in 1..Len(cmd_busy) : mem'[cmd_busy[i]] = mem[cmd_busy[i]],
         \A d \in Caller : pc'[d] \in {"queue", "data"} => pc[d] \in {"queue", "data"},
         \A d \in Caller : Holding(d)' => Holding(d) /\ InHand(d)' = InHand(d)
  PROVE  NumberInv'
<1>1. Earlier(turns + 1)' /\ (Earlier(turns) => Earlier(turns)')
  BY EarlierSame DEF NumberInv
<1> QED
  BY <1>1 DEF NumberInv

(* The steps that move no fragment and take no number. *)
Quiet ==
  \/ \E c \in Caller :
        \/ \E r \in Request : Call(c, r)
        \/ CmdQueueEmpty(c) \/ ReadyWait(c) \/ ReadyTimeout(c)
        \/ MsgPostRx(c) \/ MsgTrigger(c) \/ Unlock(c)
  \/ RpuStart \/ RpuRelease \/ RpuStop \/ \E p \in Pool : RpuUseRx(p)
  \/ UNCHANGED vars

(* What these steps leave alone. *)
LEMMA QuietStep ==
  ASSUME TypeOK, Quiet
  PROVE  /\ UNCHANGED <<allocFails, turns, rcvd, cmd_busy, cmd_q, mem>>
         /\ \A d \in Caller : pc'[d] \in {"queue", "data"} => pc[d] \in {"queue", "data"}
         /\ \A d \in Caller : Holding(d)' => Holding(d) /\ InHand(d)' = InHand(d)
<1> DEFINE Goal ==
      /\ UNCHANGED <<allocFails, turns, rcvd, cmd_busy, cmd_q, mem>>
      /\ \A d \in Caller : pc'[d] \in {"queue", "data"} => pc[d] \in {"queue", "data"}
      /\ \A d \in Caller : Holding(d)' => Holding(d) /\ InHand(d)' = InHand(d)
<1> USE DEF queueVars, rpuVars, boundVars, callerVars, At, Goto
<1>1. ASSUME NEW c \in Caller, NEW r \in Request, Call(c, r) PROVE Goal
  BY <1>1 DEF Call, TypeOK, Holding, InHand
<1>2. ASSUME NEW c \in Caller, CmdQueueEmpty(c) PROVE Goal
  BY <1>2 DEF CmdQueueEmpty, TypeOK, Holding, InHand
<1>3. ASSUME NEW c \in Caller, ReadyWait(c) PROVE Goal
  BY <1>3 DEF ReadyWait, TypeOK, Holding, InHand
<1>4. ASSUME NEW c \in Caller, ReadyTimeout(c) PROVE Goal
  BY <1>4 DEF ReadyTimeout, TypeOK, Holding, InHand
<1>5. ASSUME NEW c \in Caller, MsgPostRx(c) PROVE Goal
  BY <1>5 DEF MsgPostRx, TypeOK, Holding, InHand
<1>6. ASSUME NEW c \in Caller, MsgTrigger(c) PROVE Goal
  BY <1>6 DEF MsgTrigger, TypeOK, Holding, InHand
<1>7. ASSUME NEW c \in Caller, Unlock(c) PROVE Goal
  BY <1>7 DEF Unlock, TypeOK, Holding, InHand
<1>8. CASE RpuStart
  BY <1>8 DEF RpuStart, TypeOK, Holding, InHand
<1>9. CASE RpuRelease
  BY <1>9 DEF RpuRelease, TypeOK, Holding, InHand
<1>10. CASE RpuStop
  BY <1>10 DEF RpuStop, TypeOK, Holding, InHand
<1>11. ASSUME NEW p \in Pool, RpuUseRx(p) PROVE Goal
  BY <1>11 DEF RpuUseRx, TypeOK, Holding, InHand
<1>12. CASE UNCHANGED vars
  BY <1>12 DEF vars, Holding, InHand
<1> QED
  BY <1>1, <1>2, <1>3, <1>4, <1>5, <1>6, <1>7, <1>8, <1>9, <1>10, <1>11, <1>12
     DEF Quiet

(* Every step keeps the numbers right. *)
LEMMA NumberNext ==
  ASSUME TypeOK, CallInv, LockInv, LockInv', BufferWhenWriting, BuffersAccounted,
         DescInv, QueueInv, TurnInv, NumberInv, [Next]_vars
  PROVE  NumberInv'
<1> USE DEF queueVars, rpuVars, boundVars, callerVars, At, Goto
<1>1. CASE Quiet
  <2> SUFFICES ASSUME allocFails = 0 PROVE NumberInv'
    BY <1>1, QuietStep DEF NumberInv
  <2> QED
    BY <1>1, QuietStep, NumberSame
<1>2. ASSUME NEW c \in Caller, Lock(c) PROVE NumberInv'
  <2>1. /\ pc[c] = "lock" /\ lock_hal = NoCaller /\ turns' = turns + 1 /\ mem' = mem
        /\ rcvd' = rcvd /\ cmd_busy' = cmd_busy /\ allocFails' = allocFails
        /\ pc' = [pc EXCEPT ![c] = IF req[c].type = "ctrl" THEN "queue" ELSE "data"]
    BY <1>2 DEF Lock
  <2> SUFFICES ASSUME allocFails = 0 PROVE NumberInv'
    BY <2>1 DEF NumberInv
  <2>2. Earlier(turns + 1) /\ Earlier((turns + 1) + 1)
    BY EarlierGrows DEF NumberInv, TypeOK
  <2>3. Earlier(turns)' /\ Earlier(turns + 1)'
    BY <2>1, <2>2 DEF Earlier
  <2>4. \A d \in Caller : ~Holding(d)'
    BY <2>1, CallerAssumption DEF LockInv, Critical, Holding, TypeOK
  <2> QED
    BY <2>3, <2>4 DEF NumberInv
<1>3. ASSUME NEW c \in Caller, CmdQueue(c) PROVE NumberInv'
  <2> SUFFICES ASSUME allocFails = 0 PROVE NumberInv'
    BY <1>3 DEF CmdQueue, NumberInv
  <2>1. \A d \in Caller : pc'[d] \in {"queue", "data"} => pc[d] \in {"queue", "data"}
    BY <1>3 DEF CmdQueue, TypeOK
  <2>2. \A d \in Caller : Holding(d)' => Holding(d) /\ InHand(d)' = InHand(d)
    BY <1>3 DEF CmdQueue, TypeOK, Holding, InHand
  <2>3. /\ turns' = turns /\ rcvd' = rcvd /\ cmd_busy' = cmd_busy
        /\ \A i \in 1..Len(cmd_busy) : mem'[cmd_busy[i]] = mem[cmd_busy[i]]
    BY <1>3 DEF CmdQueue
  <2> QED
    BY <2>1, <2>2, <2>3, NumberSame
<1>4. ASSUME NEW c \in Caller, CmdQueueFail(c) PROVE NumberInv'
  BY <1>4 DEF CmdQueueFail, NumberInv, TypeOK
<1>5. ASSUME NEW c \in Caller, CmdDequeue(c) PROVE NumberInv'
  <2>1. /\ pc[c] = "loop" /\ lock_hal = c /\ lock_hal' = c /\ turns' = turns
        /\ pc' = [pc EXCEPT ![c] = "wait"] /\ allocFails' = allocFails
        /\ cmd_q # <<>> /\ cmd' = [cmd EXCEPT ![c] = Head(cmd_q)]
        /\ rcvd' = rcvd /\ cmd_busy' = cmd_busy /\ mem' = mem
    BY <1>5 DEF CmdDequeue, LockInv, Critical
  <2> SUFFICES ASSUME allocFails = 0 PROVE NumberInv'
    BY <2>1 DEF NumberInv
  <2>2. Head(cmd_q).cmd = turns
    <3>1. Head(cmd_q) = cmd_q[1] /\ 1 \in 1..Len(cmd_q)
      BY <2>1 DEF TypeOK
    <3> QED
      BY <2>1, <3>1 DEF QueueInv, TurnInv, Critical
  <2>3. pc'[c] = "wait" /\ InHand(c)'.cmd = turns
    BY <2>1, <2>2 DEF TypeOK, InHand
  <2>4. Earlier(turns + 1)'
    BY <2>1 DEF NumberInv, Earlier
  <2> QED
    BY <2>1, <2>3, <2>4, NumberEarlier
<1>6. ASSUME NEW c \in Caller, MsgWrite(c) PROVE NumberInv'
  <2> SUFFICES ASSUME allocFails = 0 PROVE NumberInv'
    BY <1>6 DEF MsgWrite, NumberInv
  <2>0. /\ lock_hal' = c /\ turns' = turns /\ cmd_busy' = cmd_busy /\ rcvd' = rcvd
        /\ pc[c] = "write" /\ pc'[c] = "post" /\ mem'[msg_addr'[c]] = cmd[c]
        /\ \A i \in 1..Len(cmd_busy) : mem'[cmd_busy[i]] = mem[cmd_busy[i]]
    <3>1. lock_hal' = lock_hal
      BY <1>6 DEF MsgWrite
    <3> QED
      BY <1>6, <3>1, MsgWriteEffect DEF TypeOK
  <2>1. Holding(c) /\ InHand(c) = cmd[c] /\ InHand(c)' = cmd[c]
    BY <2>0 DEF Holding, InHand
  <2>2. Earlier(turns + 1)'
    BY <2>0 DEF NumberInv, Earlier
  <2>3. cmd[c].cmd = turns
    BY <2>1 DEF NumberInv
  <2> QED
    BY <2>0, <2>1, <2>2, <2>3, NumberEarlier
<1>7. ASSUME NEW c \in Caller, DataWrite(c) PROVE NumberInv'
  <2> SUFFICES ASSUME allocFails = 0 PROVE NumberInv'
    BY <1>7 DEF DataWrite, NumberInv
  <2>0. /\ pc[c] = "data" /\ lock_hal = c /\ lock_hal' = lock_hal
        /\ pc' = [pc EXCEPT ![c] = "post"]
        /\ msg_addr'[c] = req[c].addr
        /\ mem'[req[c].addr] = [cmd |-> id[c], frag |-> 1, of |-> 1]
        /\ \A i \in 1..Len(cmd_busy) : mem'[cmd_busy[i]] = mem[cmd_busy[i]]
        /\ UNCHANGED <<id, turns, cmd_busy, rcvd>>
    <3>1. lock_hal' = lock_hal
      BY <1>7 DEF DataWrite
    <3> QED
      BY <1>7, <3>1, DataWriteEffect
  <2>1. /\ pc'[c] = "post" /\ lock_hal' = c /\ turns' = turns
        /\ InHand(c)'.cmd = id[c] /\ id[c] = turns
    <3>1. pc'[c] = "post"
      BY <2>0 DEF TypeOK
    <3>2. InHand(c)' = [cmd |-> id[c], frag |-> 1, of |-> 1]
      BY <2>0, <3>1 DEF InHand
    <3>3. id[c] = turns
      BY <2>0 DEF TurnInv, Critical
    <3> QED
      BY <2>0, <3>1, <3>2, <3>3
  <2>2. Earlier(turns + 1)'
    BY <2>0 DEF NumberInv, Earlier
  <2> QED
    BY <2>1, <2>2, NumberEarlier
<1>8. ASSUME NEW c \in Caller, MsgPost(c) PROVE NumberInv'
  <2>1. /\ pc[c] = "post" /\ lock_hal = c /\ lock_hal' = c /\ turns' = turns
        /\ pc' = [pc EXCEPT ![c] = "bell"] /\ req[c].type # "rx"
        /\ cmd_busy' = Append(cmd_busy, msg_addr[c])
        /\ rcvd' = rcvd /\ mem' = mem /\ allocFails' = allocFails
    BY <1>8 DEF MsgPost, LockInv, Critical
  <2> SUFFICES ASSUME allocFails = 0 PROVE NumberInv'
    BY <2>1 DEF NumberInv
  <2>2. mem[msg_addr[c]].cmd = turns
    BY <2>1 DEF NumberInv, Holding, InHand
  <2>3. pc'[c] = "bell" /\ ~Holding(c)'
    BY <2>1 DEF TypeOK, Holding
  <2>4. \A i \in 1..Len(cmd_busy') : mem[cmd_busy'[i]].cmd < turns + 1
    BY <2>1, <2>2 DEF TypeOK, NumberInv, Earlier
  <2>5. Earlier(turns + 1)'
    BY <2>1, <2>4 DEF NumberInv, Earlier
  <2> QED
    BY <2>1, <2>3, <2>5, NumberEarlier
<1>9. CASE RpuTake
  <2>1. /\ cmd_busy # <<>> /\ cmd_busy' = Tail(cmd_busy) /\ mem' = mem
        /\ rcvd' = Append(rcvd, mem[Head(cmd_busy)]) /\ turns' = turns
        /\ pc' = pc /\ req' = req /\ cmd' = cmd /\ msg_addr' = msg_addr
        /\ allocFails' = allocFails
    BY <1>9 DEF RpuTake
  <2> SUFFICES ASSUME allocFails = 0 PROVE NumberInv'
    BY <2>1 DEF NumberInv
  <2>2. ASSUME NEW n, Earlier(n) PROVE Earlier(n)'
    <3>1. /\ 1 \in 1..Len(cmd_busy) /\ Head(cmd_busy) = cmd_busy[1]
          /\ \A i \in 1..Len(cmd_busy') : i + 1 \in 1..Len(cmd_busy) /\ cmd_busy'[i] = cmd_busy[i + 1]
      BY <2>1 DEF TypeOK
    <3>2. \A i \in 1..Len(rcvd') : rcvd'[i] = mem[cmd_busy[1]] \/ (i \in 1..Len(rcvd) /\ rcvd'[i] = rcvd[i])
      BY <2>1, <3>1 DEF TypeOK
    <3> QED
      BY <2>1, <2>2, <3>1, <3>2 DEF Earlier
  <2>3. \A d \in Caller : Holding(d)' = Holding(d) /\ InHand(d)' = InHand(d)
    BY <2>1 DEF Holding, InHand
  <2>4. Earlier(turns + 1)' /\ (Earlier(turns) => Earlier(turns)')
    BY <2>1, <2>2 DEF NumberInv
  <2> QED
    BY <2>1, <2>3, <2>4 DEF NumberInv
<1> QED
  BY <1>1, <1>2, <1>3, <1>4, <1>5, <1>6, <1>7, <1>8, <1>9 DEF Next,
     CallerNext, Proceed, RpuNext, Quiet

-----------------------------------------------------------------------------

(* OrderInv of a step that moves no fragment to another part. *)
LEMMA OrderSame ==
  ASSUME OrderInv, allocFails = 0,
         rcvd' = rcvd, cmd_busy' = cmd_busy, cmd_q' = cmd_q,
         \A i \in 1..Len(cmd_busy) : mem'[cmd_busy[i]] = mem[cmd_busy[i]],
         \A d \in Caller : Holding(d)' => Holding(d) /\ InHand(d)' = InHand(d)
  PROVE  OrderInv'
<1>1. ASSUME NEW f, Follow(f) PROVE Follow(f)'
  BY <1>1 DEF Follow
<1>2. SentInOrder'
  BY DEF OrderInv, SentInOrder
<1>3. QueueFollows'
  BY <1>1 DEF OrderInv, QueueFollows
<1>4. ASSUME NEW d \in Caller, Holding(d)' PROVE HandFollows(d)'
  <2>1. Holding(d) /\ InHand(d)' = InHand(d) /\ HandFollows(d)
    BY <1>4 DEF OrderInv
  <2>2. Follow(InHand(d))'
    BY <2>1 DEF Follow, HandFollows
  <2> QED
    BY <2>1, <2>2 DEF HandFollows
<1> QED
  BY <1>2, <1>3, <1>4 DEF OrderInv

(* A fragment of a later call comes after those of earlier ones. *)
LEMMA EarlierFollow ==
  ASSUME NEW f, Earlier(f.cmd)
  PROVE  Follow(f)
BY DEF Earlier, Follow, Before

(* Only the new lock holder has a fragment on its way. *)
LEMMA HeldByNewHolder ==
  ASSUME LockInv', NEW c \in Caller, lock_hal' = c
  PROVE  \A d \in Caller : Holding(d)' => d = c
BY DEF LockInv, Holding, Critical

(* Nobody has one when the lock holder is back in its loop. *)
LEMMA LoopNotHolding ==
  ASSUME TypeOK, LockInv', NEW c \in Caller, lock_hal' = c,
         NEW l \in {"loop", "bell"}, pc' = [pc EXCEPT ![c] = l]
  PROVE  \A d \in Caller : ~Holding(d)'
BY HeldByNewHolder DEF Holding, TypeOK

(* Every step keeps the fragments in order, wherever they are. *)
LEMMA OrderNext ==
  ASSUME TypeOK, CallInv, LockInv, LockInv', BufferWhenWriting, BuffersAccounted,
         DescInv, QueueInv, TurnInv, NumberInv, OrderInv, [Next]_vars
  PROVE  OrderInv'
<1> USE DEF queueVars, rpuVars, boundVars, callerVars, At, Goto
<1>1. CASE Quiet
  <2> SUFFICES ASSUME allocFails = 0 PROVE OrderInv'
    BY <1>1, QuietStep DEF OrderInv
  <2> QED
    BY <1>1, QuietStep, OrderSame
<1>2. ASSUME NEW c \in Caller, Lock(c) PROVE OrderInv'
  <2> SUFFICES ASSUME allocFails = 0 PROVE OrderInv'
    BY <1>2 DEF Lock, OrderInv
  <2>1. \A d \in Caller : Holding(d)' => Holding(d) /\ InHand(d)' = InHand(d)
    BY <1>2 DEF Lock, TypeOK, Holding, InHand
  <2>2. /\ rcvd' = rcvd /\ cmd_busy' = cmd_busy /\ cmd_q' = cmd_q
        /\ \A i \in 1..Len(cmd_busy) : mem'[cmd_busy[i]] = mem[cmd_busy[i]]
    BY <1>2 DEF Lock
  <2> QED
    BY <2>1, <2>2, OrderSame
<1>3. ASSUME NEW c \in Caller, CmdQueue(c) PROVE OrderInv'
  <2>1. /\ pc[c] = "queue" /\ lock_hal = c /\ lock_hal' = c
        /\ pc' = [pc EXCEPT ![c] = "loop"] /\ allocFails' = allocFails
        /\ cmd_q' = cmd_q \o FragmentsOf(c)
        /\ rcvd' = rcvd /\ cmd_busy' = cmd_busy /\ mem' = mem
    BY <1>3 DEF CmdQueue, LockInv, Critical
  <2> SUFFICES ASSUME allocFails = 0 PROVE OrderInv'
    BY <2>1 DEF OrderInv
  <2>2. cmd_q' = FragmentsOf(c)
    BY <2>1, FragmentsTyped DEF QueueInv
  <2>3. \A i \in 1..Len(cmd_q') : cmd_q'[i].cmd = turns /\ cmd_q'[i].frag = i
    BY <2>1, <2>2, FragmentsTyped DEF FragmentsOf, TurnInv, Critical
  <2>4. Earlier(turns)
    BY <2>1 DEF NumberInv
  <2>5. \A i \in 1..Len(cmd_q') : Follow(cmd_q'[i])
    BY <2>3, <2>4, EarlierFollow
  <2>6. (\A i \in 1..Len(cmd_q) : Follow(cmd_q[i]))'
    BY <2>1, <2>5 DEF Follow
  <2>7. QueueFollows'
    BY <2>3, <2>6 DEF QueueFollows, Before
  <2>8. SentInOrder'
    BY <2>1 DEF OrderInv, SentInOrder
  <2>9. \A d \in Caller : ~Holding(d)'
    BY <2>1, LoopNotHolding
  <2> QED
    BY <2>7, <2>8, <2>9 DEF OrderInv
<1>4. ASSUME NEW c \in Caller, CmdQueueFail(c) PROVE OrderInv'
  BY <1>4 DEF CmdQueueFail, OrderInv, TypeOK
<1>5. ASSUME NEW c \in Caller, CmdDequeue(c) PROVE OrderInv'
  <2>1. /\ pc[c] = "loop" /\ lock_hal = c /\ lock_hal' = c
        /\ pc' = [pc EXCEPT ![c] = "wait"] /\ allocFails' = allocFails
        /\ cmd_q # <<>> /\ cmd_q' = Tail(cmd_q)
        /\ cmd' = [cmd EXCEPT ![c] = Head(cmd_q)]
        /\ rcvd' = rcvd /\ cmd_busy' = cmd_busy /\ mem' = mem
    BY <1>5 DEF CmdDequeue, LockInv, Critical
  <2> SUFFICES ASSUME allocFails = 0 PROVE OrderInv'
    BY <2>1 DEF OrderInv
  <2>2. /\ 1 \in 1..Len(cmd_q) /\ Head(cmd_q) = cmd_q[1]
        /\ \A i \in 1..Len(cmd_q') : /\ i + 1 \in 1..Len(cmd_q)
                                     /\ cmd_q'[i] = cmd_q[i + 1]
                                     /\ i \in Nat /\ 1 < i + 1
    BY <2>1 DEF TypeOK
  <2>3. pc'[c] = "wait" /\ InHand(c)' = cmd_q[1]
    BY <2>1, <2>2 DEF TypeOK, InHand
  <2>4. \A d \in Caller : Holding(d)' => d = c
    BY <2>1, HeldByNewHolder
  <2>5. ASSUME NEW f, Follow(f) PROVE Follow(f)'
    BY <2>1, <2>5 DEF Follow
  <2>6. SentInOrder'
    BY <2>1 DEF OrderInv, SentInOrder
  <2>7. QueueFollows'
    <3>1. (\A i \in 1..Len(cmd_q) : Follow(cmd_q[i]))'
      BY <2>2, <2>5 DEF OrderInv, QueueFollows
    <3>2. \A i, j \in 1..Len(cmd_q') : i < j => Before(cmd_q'[i], cmd_q'[j])
      BY <2>2 DEF OrderInv, QueueFollows
    <3> QED
      BY <3>1, <3>2 DEF QueueFollows
  <2>8. HandFollows(c)'
    <3>1. Follow(InHand(c))'
      BY <2>1, <2>2, <2>3 DEF OrderInv, QueueFollows, Follow
    <3>2. \A i \in 1..Len(cmd_q') : Before(InHand(c)', cmd_q'[i])
      BY <2>2, <2>3 DEF OrderInv, QueueFollows
    <3> QED
      BY <3>1, <3>2 DEF HandFollows
  <2> QED
    BY <2>4, <2>6, <2>7, <2>8 DEF OrderInv
<1>6. ASSUME NEW c \in Caller, MsgWrite(c) PROVE OrderInv'
  <2> SUFFICES ASSUME allocFails = 0 PROVE OrderInv'
    BY <1>6 DEF MsgWrite, OrderInv
  <2>1. lock_hal' = lock_hal
    BY <1>6 DEF MsgWrite
  <2>2. /\ lock_hal' = c /\ pc[c] = "write" /\ pc'[c] = "post"
        /\ mem'[msg_addr'[c]] = cmd[c]
    BY <1>6, <2>1, MsgWriteEffect DEF TypeOK
  <2>3. Holding(c) /\ InHand(c)' = InHand(c)
    BY <2>2 DEF Holding, InHand
  <2>4. \A d \in Caller : Holding(d)' => d = c
    BY <2>2, HeldByNewHolder
  <2>5. /\ rcvd' = rcvd /\ cmd_busy' = cmd_busy /\ cmd_q' = cmd_q
        /\ \A i \in 1..Len(cmd_busy) : mem'[cmd_busy[i]] = mem[cmd_busy[i]]
    BY <1>6, MsgWriteEffect
  <2> QED
    BY <2>3, <2>4, <2>5, OrderSame
<1>7. ASSUME NEW c \in Caller, DataWrite(c) PROVE OrderInv'
  <2> SUFFICES ASSUME allocFails = 0 PROVE OrderInv'
    BY <1>7 DEF DataWrite, OrderInv
  <2>0. lock_hal' = lock_hal
    BY <1>7 DEF DataWrite
  <2>1. /\ pc[c] = "data" /\ lock_hal = c /\ lock_hal' = c
        /\ pc' = [pc EXCEPT ![c] = "post"] /\ msg_addr'[c] = req[c].addr
        /\ mem'[req[c].addr] = [cmd |-> id[c], frag |-> 1, of |-> 1]
        /\ \A i \in 1..Len(cmd_busy) : mem'[cmd_busy[i]] = mem[cmd_busy[i]]
        /\ cmd_busy' = cmd_busy /\ rcvd' = rcvd /\ cmd_q' = cmd_q
    BY <1>7, <2>0, DataWriteEffect
  <2>2. cmd_q = <<>>
    BY <2>1 DEF QueueInv
  <2>3. SentInOrder' /\ QueueFollows'
    BY <2>1, <2>2 DEF OrderInv, SentInOrder, QueueFollows
  <2>4. InHand(c)'.cmd = turns
    <3>1. pc'[c] = "post"
      BY <2>1 DEF TypeOK
    <3>2. InHand(c)' = [cmd |-> id[c], frag |-> 1, of |-> 1]
      BY <2>1, <3>1 DEF InHand
    <3>3. id[c] = turns
      BY <2>1 DEF TurnInv, Critical
    <3> QED
      BY <3>2, <3>3
  <2>5. Follow(InHand(c))'
    <3>1. Earlier(turns)
      BY <2>1 DEF NumberInv
    <3>2. Follow(InHand(c)')
      BY <2>4, <3>1, EarlierFollow
    <3> QED
      BY <2>1, <3>2 DEF Follow
  <2>6. HandFollows(c)'
    BY <2>1, <2>2, <2>5 DEF HandFollows
  <2>7. \A d \in Caller : Holding(d)' => d = c
    BY <2>1, HeldByNewHolder
  <2> QED
    BY <2>3, <2>6, <2>7 DEF OrderInv
<1>8. ASSUME NEW c \in Caller, MsgPost(c) PROVE OrderInv'
  <2>1. /\ pc[c] = "post" /\ lock_hal = c /\ lock_hal' = c
        /\ pc' = [pc EXCEPT ![c] = "bell"] /\ req[c].type # "rx"
        /\ cmd_busy' = Append(cmd_busy, msg_addr[c]) /\ cmd_q' = cmd_q
        /\ rcvd' = rcvd /\ mem' = mem /\ allocFails' = allocFails
    BY <1>8 DEF MsgPost, LockInv, Critical
  <2> SUFFICES ASSUME allocFails = 0 PROVE OrderInv'
    BY <2>1 DEF OrderInv
  <2> DEFINE h == mem[msg_addr[c]]
  <2>2. Follow(h) /\ \A i \in 1..Len(cmd_q) : Before(h, cmd_q[i])
    BY <2>1 DEF OrderInv, Holding, InHand, HandFollows
  <2>3. /\ Len(cmd_busy) \in Nat /\ Len(cmd_busy') = Len(cmd_busy) + 1
        /\ mem[cmd_busy'[Len(cmd_busy) + 1]] = h
        /\ \A i \in 1..Len(cmd_busy) : cmd_busy'[i] = cmd_busy[i]
    BY <2>1 DEF TypeOK
  <2>4. \A i \in 1..Len(cmd_busy') : i \in 1..Len(cmd_busy) \/ i = Len(cmd_busy) + 1
    BY <2>3
  <2> HIDE DEF h
  <2>5. SentInOrder'
    BY <2>1, <2>2, <2>3, <2>4 DEF OrderInv, SentInOrder, Follow
  <2>6. QueueFollows'
    BY <2>1, <2>2, <2>3, <2>4 DEF OrderInv, QueueFollows, Follow
  <2>7. \A d \in Caller : ~Holding(d)'
    BY <2>1, LoopNotHolding
  <2> QED
    BY <2>5, <2>6, <2>7 DEF OrderInv
<1>9. CASE RpuTake
  <2>1. /\ cmd_busy # <<>> /\ cmd_busy' = Tail(cmd_busy) /\ mem' = mem
        /\ rcvd' = Append(rcvd, mem[Head(cmd_busy)]) /\ cmd_q' = cmd_q
        /\ pc' = pc /\ req' = req /\ cmd' = cmd /\ msg_addr' = msg_addr
        /\ allocFails' = allocFails
    BY <1>9 DEF RpuTake
  <2> SUFFICES ASSUME allocFails = 0 PROVE OrderInv'
    BY <2>1 DEF OrderInv
  <2>2. /\ 1 \in 1..Len(cmd_busy)
        /\ \A i \in 1..Len(cmd_busy') : /\ i + 1 \in 1..Len(cmd_busy) /\ 1 < i + 1
                                        /\ cmd_busy'[i] = cmd_busy[i + 1]
    BY <2>1 DEF TypeOK
  <2>3. \A i \in 1..Len(rcvd') :
           \/ i = Len(rcvd') /\ rcvd'[i] = mem[cmd_busy[1]]
           \/ i \in 1..Len(rcvd) /\ rcvd'[i] = rcvd[i]
    BY <2>1, <2>2 DEF TypeOK
  <2>4. ASSUME NEW f, Follow(f) PROVE Follow(f)'
    BY <2>1, <2>2, <2>3, <2>4 DEF Follow
  <2>5. SentInOrder'
    BY <2>1, <2>2, <2>3 DEF OrderInv, SentInOrder
  <2>6. QueueFollows'
    BY <2>1, <2>4 DEF OrderInv, QueueFollows
  <2>7. ASSUME NEW d \in Caller, Holding(d)' PROVE HandFollows(d)'
    <3>1. InHand(d)' = InHand(d) /\ HandFollows(d)
      BY <2>1, <2>7 DEF Holding, InHand, OrderInv
    <3>2. Follow(InHand(d))'
      BY <2>1, <2>2, <2>3, <3>1 DEF HandFollows, Follow
    <3> QED
      BY <2>1, <3>1, <3>2 DEF HandFollows
  <2> QED
    BY <2>5, <2>6, <2>7 DEF OrderInv
<1> QED
  BY <1>1, <1>2, <1>3, <1>4, <1>5, <1>6, <1>7, <1>8, <1>9 DEF Next,
     CallerNext, Proceed, RpuNext, Quiet

-----------------------------------------------------------------------------

(* The inductive invariant of the command path. *)
HalInv ==
  /\ TypeOK /\ CallInv /\ LockInv
  /\ BufferWhenWriting /\ DoorbellCovers
  /\ BuffersAccounted /\ DescInv
  /\ QueueInv /\ TurnInv /\ NumberInv /\ OrderInv

(* It holds at the start. *)
LEMMA HalInit == Init => HalInv
<1> SUFFICES ASSUME Init PROVE HalInv
  OBVIOUS
<1>1. TypeOK /\ CallInv
  BY TypeInit
<1>2. \A c \in Caller : pc[c] = "idle"
  BY DEF Init
<1>3. LockInv /\ TurnInv /\ BufferWhenWriting
  BY <1>2, CallerAssumption DEF Init, LockInv, TurnInv, BufferWhenWriting,
     Critical, At
<1>4. cmd_busy = <<>> /\ cmd_q = <<>> /\ rcvd = <<>> /\ held = NoAddr /\ cmd_avl = CmdBuf
  BY DEF Init
<1>5. ToSet(cmd_busy) = {} /\ Posting = {}
  BY <1>2, <1>4 DEF ToSet, Posting, At
<1>6. DoorbellCovers
  BY <1>4 DEF DoorbellCovers
<1>7. BuffersAccounted
  BY <1>4, <1>5, AddrAssumption DEF BuffersAccounted, IsInjective
<1>8. DescInv
  BY <1>2, <1>4, <1>5, AddrAssumption DEF DescInv, Sends, AtRpu
<1>9. QueueInv /\ NumberInv /\ OrderInv
  BY <1>2, <1>4 DEF QueueInv, NumberInv, OrderInv, Earlier, Holding,
     SentInOrder, QueueFollows
<1> QED
  BY <1>1, <1>3, <1>6, <1>7, <1>8, <1>9 DEF HalInv

(* Every step keeps it. *)
LEMMA HalNext == HalInv /\ [Next]_vars => HalInv'
<1> SUFFICES ASSUME HalInv, [Next]_vars PROVE HalInv'
  OBVIOUS
<1> USE DEF HalInv
<1>1. TypeOK' /\ CallInv'
  BY TypeNext, CallNext
<1>2. LockInv'
  BY LockNext
<1>3. BufferWhenWriting' /\ DoorbellCovers'
  BY WriteNext, BellNext
<1>4. BuffersAccounted' /\ DescInv'
  BY <1>2, BufferNext, DescNext
<1>5. QueueInv' /\ TurnInv'
  BY QueueNext, TurnNext
<1>6. NumberInv' /\ OrderInv'
  BY <1>2, NumberNext, OrderNext
<1> QED
  BY <1>1, <1>2, <1>3, <1>4, <1>5, <1>6

(* So it always holds. *)
LEMMA HalInductive == Spec => []HalInv
BY HalInit, HalNext, PTL DEF Spec

(* Every variable of the command path keeps its type. *)
THEOREM HalTypeCorrect == Spec => []TypeOK
<1>1. HalInv => TypeOK
  BY DEF HalInv
<1> QED
  BY <1>1, HalInductive, PTL

(* Between hal_rpu_ready_wait and hal_rpu_msg_get_addr a free command       *)
(* buffer stays free, for any number of callers and buffers:                *)
(* hal_rpu_msg_write never gets address 0.                                  *)
THEOREM NoWriteToAddressZero == Spec => []BufferWhenWriting
<1>1. HalInv => BufferWhenWriting
  BY DEF HalInv
<1> QED
  BY <1>1, HalInductive, PTL

(* An address on the command queue is always being worked on or announced   *)
(* through the doorbell (hal_rpu_msg_post, hal_rpu_msg_trigger): the RPU    *)
(* never sleeps on posted work.                                             *)
THEOREM NoPostUnannounced == Spec => []DoorbellCovers
<1>1. HalInv => DoorbellCovers
  BY DEF HalInv
<1> QED
  BY <1>1, HalInductive, PTL

(* Every command buffer is in exactly one place, whatever waits time out    *)
(* and whatever allocations fail.                                           *)
THEOREM NoBufferLost == Spec => []BuffersAccounted
<1>1. HalInv => BuffersAccounted
  BY DEF HalInv
<1> QED
  BY <1>1, HalInductive, PTL

(* Unless an allocation failed, cmd_q holds fragments of the call that      *)
(* holds lock_hal only: hal_rpu_cmd_process_queue leaves nothing behind,    *)
(* even on a timeout.                                                       *)
THEOREM QueueBelongsToHolder == Spec => []QueueIsOfThisCall
<1>1. ASSUME HalInv PROVE QueueIsOfThisCall
  <2>1. QueueInv /\ cmd_q \in Seq(Fragment) /\ NoCaller \notin Caller
    BY <1>1, CallerAssumption DEF HalInv, TypeOK
  <2>2. Len(cmd_q) \in Nat /\ (1..Len(cmd_q) # {} => cmd_q # <<>>)
    BY <2>1
  <2> QED
    BY <2>1, <2>2 DEF QueueInv, QueueIsOfThisCall, At
<1> QED
  BY <1>1, HalInductive, PTL

(* Unless an allocation failed, the RPU reads fragments in the order of the *)
(* calls and of their parts, none twice, for any number of callers, command *)
(* buffers, descriptors and timeouts.                                       *)
THEOREM RpuReadsInOrder == Spec => []FragmentsInOrder
<1>1. HalInv => FragmentsInOrder
  BY DEF HalInv, OrderInv, SentInOrder, FragmentsInOrder
<1> QED
  BY <1>1, HalInductive, PTL
-----------------------------------------------------------------------------
(* The command path as a channel.  All that was accepted and is not lost    *)
(* is one stream of fragments: read by the RPU, posted, in the hands of the *)
(* lock holder, waiting in cmd_q.  While nothing fails, a step moves a      *)
(* fragment from one part to the next, or adds a whole command at the end.  *)
Posted == [i \in 1..Len(cmd_busy) |-> mem[cmd_busy[i]]]

Hand == IF lock_hal \in Caller /\ Holding(lock_hal) THEN <<InHand(lock_hal)>>
        ELSE <<>>

Stream == rcvd \o Posted \o Hand \o cmd_q

(* The k-th command that ends in s is the k-th accepted one. *)
Matched(s, acc) ==
  /\ Cardinality(Ends(s, Len(s))) = Len(acc)
  /\ \A i \in Ends(s, Len(s)) : acc[Cardinality(Ends(s, i))] = s[i].cmd
  /\ \A n \in 0..Len(s) : \A k \in 1..Cardinality(Ends(s, n)) :
        \E i \in Ends(s, n) : Cardinality(Ends(s, i)) = k

(* s consists of the accepted commands, whole. *)
Carries(s, acc) == /\ WellFormed(s)
                   /\ s # <<>> => s[Len(s)].frag = s[Len(s)].of
                   /\ Matched(s, acc)

StreamInv == timeouts = 0 /\ allocFails = 0 => Carries(Stream, accepted)

(* The callers that wait for lock_hal. *)
Waiting == {c \in Caller : pc[c] = "lock"}

(* Every call that waits will get a number of its own. *)
CountInv == /\ IsFiniteSet(Waiting)
            /\ turns + Cardinality(Waiting) = calls
            /\ \A c \in Caller : pc[c] \in Critical => turns >= 1
            /\ accepted \in Seq(1..MaxCmds)

(* The parts of a command that is sent in m fragments. *)
Parts(n, m) == [k \in 1..m |-> [cmd |-> n, frag |-> k, of |-> m]]

Part == Fragment \cup {NoFragment}

(* Ends are finitely many, and one more fragment is at most one end more. *)
LEMMA EndsFinite ==
  ASSUME NEW s, NEW n \in Nat
  PROVE  IsFiniteSet(Ends(s, n)) /\ Cardinality(Ends(s, n)) \in Nat
<1>1. IsFiniteSet(1..n)
  BY FS_Interval
<1>2. Ends(s, n) \in SUBSET (1..n)
  BY DEF Ends
<1> HIDE DEF Ends
<1> QED
  BY <1>1, <1>2, FS_Subset, FS_CardinalityType

LEMMA EndsNext ==
  ASSUME NEW s, NEW n \in Nat
  PROVE  Cardinality(Ends(s, n + 1)) =
           IF s[n + 1].frag = s[n + 1].of THEN Cardinality(Ends(s, n)) + 1
           ELSE Cardinality(Ends(s, n))
<1>1. n + 1 \notin Ends(s, n)
  BY DEF Ends
<1>2. \A i : i \in 1..(n + 1) <=> i \in 1..n \/ i = n + 1
  OBVIOUS
<1>3. Ends(s, n + 1) = IF s[n + 1].frag = s[n + 1].of THEN Ends(s, n) \cup {n + 1}
                       ELSE Ends(s, n)
  BY <1>2 DEF Ends
<1>4. IsFiniteSet(Ends(s, n))
  BY EndsFinite
<1>5. Cardinality(Ends(s, n) \cup {n + 1}) = Cardinality(Ends(s, n)) + 1
  BY <1>1, <1>4, FS_AddElement
<1> QED
  BY <1>3, <1>5

LEMMA EndsNone ==
  ASSUME NEW s
  PROVE  Ends(s, 0) = {} /\ Cardinality(Ends(s, 0)) = 0
BY FS_EmptySet DEF Ends

(* Sequences that agree on the first n fragments have the same ends there. *)
LEMMA EndsAgree ==
  ASSUME NEW s, NEW t, NEW n \in Nat, \A i \in 1..n : s[i] = t[i], NEW m \in 0..n
  PROVE  Ends(s, m) = Ends(t, m)
BY DEF Ends

(* An end is the one or the other of those counted. *)
LEMMA EndsCount ==
  ASSUME NEW s, NEW n \in Nat, NEW i \in Ends(s, n)
  PROVE  Cardinality(Ends(s, i)) \in 1..Cardinality(Ends(s, n))
<1>1. i \in 1..n /\ i \in Ends(s, i) /\ i \in Nat
  BY DEF Ends
<1>2. Ends(s, i) \in SUBSET Ends(s, n)
  BY <1>1 DEF Ends
<1>3. /\ IsFiniteSet(Ends(s, n)) /\ Cardinality(Ends(s, n)) \in Nat
      /\ IsFiniteSet(Ends(s, i)) /\ Cardinality(Ends(s, i)) \in Nat
  BY <1>1, EndsFinite
<1>4. Cardinality(Ends(s, i)) <= Cardinality(Ends(s, n))
  BY <1>2, <1>3, FS_Subset
<1>5. Cardinality(Ends(s, i)) # 0
  BY <1>1, <1>3, FS_EmptySet
<1> QED
  BY <1>3, <1>4, <1>5

(* What has come out of a stream that carries the accepted commands: the    *)
(* first of them, as many as end in it.                                     *)
LEMMA PrefixCommands ==
  ASSUME NEW s \in Seq(Part), NEW r \in Seq(Part), NEW acc \in Seq(Nat), Carries(s, acc),
         Len(r) <= Len(s), \A i \in 1..Len(r) : r[i] = s[i]
  PROVE  /\ WellFormed(r)
         /\ Cardinality(Ends(r, Len(r))) \in 0..Len(acc)
         /\ CommandsOf(r) = [k \in 1..Cardinality(Ends(r, Len(r))) |-> acc[k]]
<1> DEFINE n == Len(r)
           E == Ends(r, n)
<1>t. n \in Nat /\ n \in 0..Len(s) /\ Len(s) \in Nat /\ Len(acc) \in Nat
  OBVIOUS
<1>1. WellFormed(r)
  <2>1. r # <<>> => Head(r) = r[1] /\ 1 \in 1..Len(r) /\ s # <<>> /\ Head(s) = s[1]
    OBVIOUS
  <2>2. \A i \in 1..(Len(r) - 1) : i \in 1..(Len(s) - 1) /\ i \in 1..Len(r) /\ i + 1 \in 1..Len(r)
    BY <1>t
  <2> QED
    BY <2>1, <2>2 DEF Carries, WellFormed
<1>2. ASSUME NEW m \in 0..n PROVE Ends(r, m) = Ends(s, m)
  <2>1. n \in Nat /\ \A i \in 1..n : r[i] = s[i]
    BY <1>t
  <2> HIDE DEF n
  <2> QED
    BY <2>1, EndsAgree
<1>3. \A i \in E : /\ i \in 1..n /\ i \in 0..n /\ i \in Ends(s, Len(s))
                   /\ r[i] = s[i] /\ Ends(r, i) = Ends(s, i)
  <2> SUFFICES ASSUME NEW i \in E
               PROVE /\ i \in 1..n /\ i \in 0..n /\ i \in Ends(s, Len(s))
                     /\ r[i] = s[i] /\ Ends(r, i) = Ends(s, i)
    OBVIOUS
  <2>1. i \in 1..n /\ i \in 0..n /\ r[i] = s[i] /\ r[i].frag = r[i].of
    BY DEF Ends
  <2>2. i \in Ends(s, Len(s))
    BY <1>t, <2>1 DEF Ends
  <2> QED
    BY <1>2, <2>1, <2>2
<1>4. Cardinality(E) \in 0..Len(acc)
  <2>1. Ends(s, n) \in SUBSET Ends(s, Len(s))
    BY <1>t DEF Ends
  <2>2. IsFiniteSet(Ends(s, Len(s))) /\ IsFiniteSet(Ends(s, n)) /\ Cardinality(Ends(s, n)) \in Nat
    BY <1>t, EndsFinite
  <2>3. Cardinality(Ends(s, n)) <= Cardinality(Ends(s, Len(s)))
    BY <2>1, <2>2, FS_Subset
  <2>4. Cardinality(Ends(s, Len(s))) = Len(acc) /\ E = Ends(s, n)
    BY <1>t, <1>2 DEF Carries, Matched
  <2> QED
    BY <1>t, <2>2, <2>3, <2>4
<1>5. \A k \in 1..Cardinality(E) : \E i \in E : Cardinality(Ends(r, i)) = k
  <2>1. E = Ends(s, n)
    BY <1>t, <1>2
  <2>2. \A k \in 1..Cardinality(Ends(s, n)) : \E i \in Ends(s, n) : Cardinality(Ends(s, i)) = k
    BY <1>t DEF Carries, Matched
  <2> HIDE DEF E
  <2> QED
    BY <1>3, <2>1, <2>2
<1>6. \A i \in E : r[i].cmd = acc[Cardinality(Ends(r, i))]
  BY <1>3 DEF Carries, Matched
<1> DEFINE nth(k) == CHOOSE i \in E : Cardinality(Ends(r, i)) = k
<1>7. \A k \in 1..Cardinality(E) : nth(k) \in E /\ Cardinality(Ends(r, nth(k))) = k
  <2> HIDE DEF E
  <2> QED
    BY <1>5
<1>8. CommandsOf(r) = [k \in 1..Cardinality(E) |-> r[nth(k)].cmd]
  BY DEF CommandsOf
<1> HIDE DEF nth, E
<1>9. \A k \in 1..Cardinality(E) : r[nth(k)].cmd = acc[k]
  BY <1>6, <1>7
<1>10. CommandsOf(r) = [k \in 1..Cardinality(E) |-> acc[k]]
  BY <1>8, <1>9
<1> QED
  BY <1>1, <1>4, <1>10 DEF E

(* The parts of a command form a sequence, and only the last one ends it. *)
LEMMA PartsType ==
  ASSUME NEW n \in Nat, NEW m \in 1..MaxFrag
  PROVE  /\ Parts(n, m) \in Seq(Part) /\ Len(Parts(n, m)) = m
         /\ \A k \in 1..m : /\ Parts(n, m)[k].cmd = n
                            /\ Parts(n, m)[k].frag = k
                            /\ Parts(n, m)[k].of = m
         /\ \A k \in 1..(m - 1) : Follows(Parts(n, m)[k], Parts(n, m)[k + 1])
<1>1. m \in Nat /\ MaxFrag \in Nat
  BY BoundAssumption
<1>2. \A k \in 1..m : [cmd |-> n, frag |-> k, of |-> m] \in Part
  BY <1>1 DEF Part, Fragment
<1>3. Parts(n, m) \in Seq(Part) /\ Len(Parts(n, m)) = m
  <2>1. Parts(n, m) \in [1..m -> Part]
    BY <1>2 DEF Parts
  <2> QED
    BY <1>1, <2>1 DEF Parts
<1>4. \A k \in 1..m : Parts(n, m)[k] = [cmd |-> n, frag |-> k, of |-> m]
  BY DEF Parts
<1>5. ASSUME NEW k \in 1..(m - 1) PROVE Follows(Parts(n, m)[k], Parts(n, m)[k + 1])
  <2>1. k \in 1..m /\ k + 1 \in 1..m /\ k # m
    BY <1>1
  <2>2. /\ Parts(n, m)[k] = [cmd |-> n, frag |-> k, of |-> m]
        /\ Parts(n, m)[k + 1] = [cmd |-> n, frag |-> k + 1, of |-> m]
    BY <1>4, <2>1
  <2> QED
    BY <2>1, <2>2 DEF Follows
<1> QED
  BY <1>3, <1>4, <1>5

(* The empty stream carries no command. *)
LEMMA CarriesNone == Carries(<<>>, <<>>)
<1>1. Len(<<>>) = 0
  OBVIOUS
<1>2. Cardinality(Ends(<<>>, 0)) = 0 /\ Ends(<<>>, 0) = {}
  BY EndsNone
<1>3. WellFormed(<<>>)
  BY DEF WellFormed
<1>4. \A n \in 0..0 : \A k \in 1..Cardinality(Ends(<<>>, n)) : FALSE
  BY <1>2
<1>5. Matched(<<>>, <<>>)
  BY <1>1, <1>2, <1>4 DEF Matched
<1> QED
  BY <1>3, <1>5 DEF Carries

(* A stream that is continued by a whole new command carries that one too. *)
LEMMA CarriesMore ==
  ASSUME NEW s \in Seq(Part), NEW acc \in Seq(Nat), Carries(s, acc),
         NEW n \in Nat, NEW m \in 1..MaxFrag, \A i \in 1..Len(s) : s[i].cmd # n
  PROVE  Carries(s \o Parts(n, m), Append(acc, n))
<1> DEFINE p == Parts(n, m)
           t == s \o p
           L == Len(s)
<1>n. m \in Nat /\ m >= 1 /\ L \in Nat
  BY BoundAssumption
<1>q. /\ p \in Seq(Part) /\ Len(p) = m
      /\ \A k \in 1..m : p[k].cmd = n /\ p[k].frag = k /\ p[k].of = m
      /\ \A k \in 1..(m - 1) : Follows(p[k], p[k + 1])
  BY PartsType
<1>p. /\ \A k \in 1..m : p[k].cmd = n /\ p[k].frag = k /\ p[k].of = m
      /\ \A k \in 1..(m - 1) : Follows(p[k], p[k + 1])
  BY <1>q
<1> HIDE DEF p
<1>u. /\ t \in Seq(Part) /\ Len(t) = L + m
      /\ \A i \in 1..(L + m) : t[i] = IF i <= L THEN s[i] ELSE p[i - L]
  <2>1. s \in Seq(Part) /\ p \in Seq(Part) /\ Len(p) = m
    BY <1>q
  <2> QED
    BY <2>1, ConcatProperties
<1> HIDE DEF t
<1>t. /\ Len(t) = L + m /\ t # <<>> /\ Head(t) = t[1]
      /\ \A i \in 1..L : t[i] = s[i]
      /\ \A k \in 1..m : t[L + k] = p[k]
  <2>1. Len(t) = L + m /\ t # <<>> /\ Head(t) = t[1]
    BY <1>n, <1>u
  <2>2. \A i \in 1..L : t[i] = s[i]
    BY <1>n, <1>u
  <2>3. ASSUME NEW k \in 1..m PROVE t[L + k] = p[k]
    <3>1. L + k \in 1..(L + m) /\ ~(L + k <= L) /\ (L + k) - L = k
      BY <1>n
    <3> QED
      BY <1>u, <3>1
  <2> QED
    BY <2>1, <2>2, <2>3
<1>c. /\ L # 0 => s[1].frag = 1 /\ s[L].frag = s[L].of
      /\ \A i \in 1..(L - 1) : Follows(s[i], s[i + 1])
      /\ \A i \in 1..L : s[i].cmd # n
  <2>1. L # 0 => s # <<>> /\ Head(s) = s[1]
    OBVIOUS
  <2> QED
    BY <2>1 DEF Carries, WellFormed
<1>m. /\ Cardinality(Ends(s, L)) = Len(acc)
      /\ \A i \in Ends(s, L) : acc[Cardinality(Ends(s, i))] = s[i].cmd
      /\ \A q \in 0..L : \A k \in 1..Cardinality(Ends(s, q)) :
            \E i \in Ends(s, q) : Cardinality(Ends(s, i)) = k
  BY DEF Carries, Matched
<1> HIDE DEF L
<1> DEFINE a == Append(acc, n)
<1>a. /\ a \in Seq(Nat) /\ Len(a) = Len(acc) + 1 /\ Len(acc) \in Nat
      /\ \A i \in 1..Len(acc) : a[i] = acc[i]
      /\ a[Len(acc) + 1] = n
  OBVIOUS
<1> HIDE DEF a
<1>1. WellFormed(t)
  <2>1. t # <<>> /\ Head(t) = t[1]
    BY <1>t
  <2>2. t[1].frag = 1
    <3>1. CASE L = 0
      <4>1. 1 \in 1..m /\ L + 1 = 1
        BY <1>n, <3>1
      <4>2. t[1] = p[1]
        BY <1>t, <4>1
      <4> QED
        BY <1>p, <4>1, <4>2
    <3>2. CASE L # 0
      <4>1. 1 \in 1..L
        BY <1>n, <3>2
      <4> QED
        BY <1>c, <1>t, <3>2, <4>1
    <3> QED
      BY <3>1, <3>2
  <2>3. ASSUME NEW i \in 1..(Len(t) - 1) PROVE Follows(t[i], t[i + 1])
    <3>a. Len(t) = L + m
      BY <1>t
    <3>0. i \in 1..(L + m - 1)
      BY <1>n, <3>a
    <3>1. CASE i < L
      <4>1. i \in 1..(L - 1) /\ i \in 1..L /\ i + 1 \in 1..L
        BY <1>n, <3>0, <3>1
      <4>2. t[i] = s[i] /\ t[i + 1] = s[i + 1]
        BY <1>t, <4>1
      <4> QED
        BY <1>c, <4>1, <4>2
    <3>2. CASE i = L
      <4>1. L \in 1..L /\ L # 0 /\ 1 \in 1..m
        BY <1>n, <3>0, <3>2
      <4>2. t[i] = s[L] /\ t[i + 1] = p[1]
        BY <1>t, <3>2, <4>1
      <4>3. s[L].frag = s[L].of /\ s[L].cmd # n
        BY <1>c, <4>1
      <4>4. p[1].cmd = n /\ p[1].frag = 1
        BY <1>p, <4>1
      <4> QED
        BY <4>2, <4>3, <4>4 DEF Follows
    <3>3. CASE i > L
      <4>1. i - L \in 1..(m - 1) /\ i - L \in 1..m /\ (i - L) + 1 \in 1..m
        BY <1>n, <3>0, <3>3
      <4>2. L + (i - L) = i /\ L + ((i - L) + 1) = i + 1
        BY <1>n, <3>0
      <4>3. t[L + (i - L)] = p[i - L] /\ t[L + ((i - L) + 1)] = p[(i - L) + 1]
        BY <1>t, <4>1
      <4>4. t[i] = p[i - L] /\ t[i + 1] = p[(i - L) + 1]
        BY <4>2, <4>3
      <4> QED
        BY <1>p, <4>1, <4>4
    <3> QED
      BY <1>n, <3>0, <3>1, <3>2, <3>3
  <2> QED
    BY <2>1, <2>2, <2>3 DEF WellFormed
<1>2. t[Len(t)].frag = t[Len(t)].of
  <2>1. m \in 1..m
    BY <1>n
  <2>2. t[L + m] = p[m]
    BY <1>t, <2>1
  <2>3. p[m].frag = m /\ p[m].of = m
    BY <1>p, <2>1
  <2> QED
    BY <1>t, <2>2, <2>3
<1>3. \A i \in 0..L : Ends(t, i) = Ends(s, i)
  <2>1. \A i \in 1..L : t[i] = s[i]
    BY <1>t
  <2> QED
    BY <1>n, <2>1, EndsAgree
<1>4. \A i \in L..(L + m - 1) : Ends(t, i) = Ends(s, L)
  <2> SUFFICES ASSUME NEW i \in L..(L + m - 1) PROVE Ends(t, i) = Ends(s, L)
    OBVIOUS
  <2>1. ASSUME NEW j \in 1..i, j > L PROVE t[j].frag # t[j].of
    <3>1. j - L \in 1..m /\ j - L # m /\ L + (j - L) = j
      BY <1>n, <2>1
    <3>2. t[L + (j - L)] = p[j - L]
      BY <1>t, <3>1
    <3>3. p[j - L].frag = j - L /\ p[j - L].of = m
      BY <1>p, <3>1
    <3> QED
      BY <3>1, <3>2, <3>3
  <2>2. ASSUME NEW j \in 1..i, t[j].frag = t[j].of PROVE j \in 1..L
    BY <1>n, <2>1, <2>2
  <2>3. \A j \in 1..L : j \in 1..i /\ t[j] = s[j]
    BY <1>n, <1>t
  <2> QED
    BY <2>2, <2>3 DEF Ends
<1>5. Cardinality(Ends(s, L)) = Len(acc)
  BY <1>m
<1>6. Cardinality(Ends(t, L + m)) = Len(acc) + 1
  <2>1. L + m - 1 \in Nat /\ L + m - 1 \in L..(L + m - 1) /\ (L + m - 1) + 1 = L + m
    BY <1>n
  <2>2. t[(L + m - 1) + 1].frag = t[(L + m - 1) + 1].of
    BY <1>2, <1>t, <2>1
  <2>3. Cardinality(Ends(t, (L + m - 1) + 1)) = Cardinality(Ends(t, L + m - 1)) + 1
    BY <2>1, <2>2, EndsNext
  <2>4. Ends(t, L + m - 1) = Ends(s, L)
    BY <1>4, <2>1
  <2> QED
    BY <1>5, <2>1, <2>3, <2>4
<1>7. \A i \in 1..(L + m) :
         i \in Ends(t, L + m) => \/ i = L + m
                                 \/ /\ i \in Ends(s, L) /\ i \in 1..L
                                    /\ Ends(t, i) = Ends(s, i) /\ t[i] = s[i]
  <2> SUFFICES ASSUME NEW i \in 1..(L + m), i \in Ends(t, L + m), i # L + m
               PROVE  /\ i \in Ends(s, L) /\ i \in 1..L
                      /\ Ends(t, i) = Ends(s, i) /\ t[i] = s[i]
    OBVIOUS
  <2>0. t[i].frag = t[i].of
    BY DEF Ends
  <2>1. i \in 1..(L + m - 1) /\ L + m - 1 \in L..(L + m - 1)
    BY <1>n
  <2>2. i \in Ends(t, L + m - 1)
    BY <2>0, <2>1 DEF Ends
  <2>3. i \in Ends(s, L)
    BY <1>4, <2>1, <2>2
  <2>4. i \in 1..L /\ i \in 0..L
    BY <1>n, <2>3 DEF Ends
  <2> QED
    BY <1>3, <1>t, <2>3, <2>4
<1>8. \A i \in Ends(t, L + m) : a[Cardinality(Ends(t, i))] = t[i].cmd
  <2> SUFFICES ASSUME NEW i \in Ends(t, L + m) PROVE a[Cardinality(Ends(t, i))] = t[i].cmd
    OBVIOUS
  <2>1. i \in 1..(L + m)
    BY DEF Ends
  <2>2. CASE i = L + m
    <3>1. m \in 1..m
      BY <1>n
    <3>2. t[L + m].cmd = n
      BY <1>p, <1>t, <3>1
    <3> QED
      BY <1>6, <1>a, <2>2, <3>2
  <2>3. CASE /\ i \in Ends(s, L) /\ i \in 1..L
             /\ Ends(t, i) = Ends(s, i) /\ t[i] = s[i]
    <3>1. acc[Cardinality(Ends(s, i))] = s[i].cmd
      BY <1>m, <2>3
    <3>2. Cardinality(Ends(s, i)) \in 1..Len(acc)
      BY <1>5, <1>n, <2>3, EndsCount
    <3> QED
      BY <1>a, <2>3, <3>1, <3>2
  <2> QED
    BY <1>7, <2>1, <2>2, <2>3
<1>9. \A q \in 0..(L + m) : \A k \in 1..Cardinality(Ends(t, q)) :
         \E i \in Ends(t, q) : Cardinality(Ends(t, i)) = k
  <2> SUFFICES ASSUME NEW q \in 0..(L + m), NEW k \in 1..Cardinality(Ends(t, q))
               PROVE  \E i \in Ends(t, q) : Cardinality(Ends(t, i)) = k
    OBVIOUS
  <2>1. ASSUME NEW j \in 0..L, NEW l \in 1..Cardinality(Ends(s, j))
        PROVE  \E i \in Ends(s, j) : Cardinality(Ends(t, i)) = l
    <3>1. PICK i \in Ends(s, j) : Cardinality(Ends(s, i)) = l
      BY <1>m, <2>1
    <3>a. i \in 1..j
      BY DEF Ends
    <3>2. i \in 0..L
      BY <1>n, <3>a
    <3> QED
      BY <1>3, <3>1, <3>2
  <2>2. CASE q \in 0..L
    BY <1>3, <2>1, <2>2
  <2>3. CASE q \in L..(L + m - 1)
    <3>1. Ends(t, q) = Ends(s, L) /\ L \in 0..L
      BY <1>4, <1>n, <2>3
    <3> QED
      BY <2>1, <3>1
  <2>4. CASE q = L + m
    <3>1. k \in 1..(Len(acc) + 1)
      BY <1>6, <2>4
    <3>2. CASE k = Len(acc) + 1
      <4>0. L + m \in 1..(L + m)
        BY <1>n
      <4>1. L + m \in Ends(t, L + m)
        BY <1>2, <1>t, <4>0 DEF Ends
      <4> QED
        BY <1>6, <2>4, <3>2, <4>1
    <3>3. CASE k \in 1..Len(acc)
      <4>0. L \in 0..L /\ k \in 1..Cardinality(Ends(s, L))
        BY <1>5, <1>n, <3>3
      <4>1. PICK i \in Ends(s, L) : Cardinality(Ends(t, i)) = k
        BY <2>1, <4>0
      <4>2. i \in 1..L /\ s[i].frag = s[i].of
        BY DEF Ends
      <4>3. i \in 1..(L + m) /\ t[i].frag = t[i].of
        BY <1>n, <1>t, <4>2
      <4>4. i \in Ends(t, L + m)
        BY <4>3 DEF Ends
      <4> QED
        BY <2>4, <4>1, <4>4
    <3> QED
      BY <1>a, <3>1, <3>2, <3>3
  <2>5. q \in 0..L \/ q \in L..(L + m - 1) \/ q = L + m
    BY <1>n
  <2> QED
    BY <2>2, <2>3, <2>4, <2>5
<1>10. Matched(t, a)
  BY <1>6, <1>8, <1>9, <1>a, <1>t DEF Matched
<1>11. Carries(t, a)
  BY <1>1, <1>2, <1>10 DEF Carries
<1> QED
  BY <1>11 DEF t, a, p

(* A caller that is about to post a command has an address of RPU memory.   *)
LEMMA HandAddr ==
  ASSUME TypeOK, CallInv, NEW c \in Caller, Holding(c), pc[c] = "post"
  PROVE  msg_addr[c] \in Addr
<1>1. req[c].type # "rx"
  BY DEF Holding
<1>2. IF req[c].type = "ctrl" THEN msg_addr[c] \in CmdBuf ELSE msg_addr[c] = req[c].addr
  BY DEF CallInv
<1> QED
  BY <1>1, <1>2, RequestsType DEF Addr, Desc

(* The parts of the stream are sequences of fragments. *)
LEMMA StreamType ==
  ASSUME TypeOK, CallInv
  PROVE  /\ rcvd \in Seq(Part) /\ Posted \in Seq(Part) /\ Len(Posted) = Len(cmd_busy)
         /\ \A i \in 1..Len(cmd_busy) : Posted[i] = mem[cmd_busy[i]]
         /\ Hand \in Seq(Part) /\ cmd_q \in Seq(Part)
         /\ rcvd \o Posted \in Seq(Part) /\ Stream \in Seq(Part)
<1>1. rcvd \in Seq(Part)
  BY DEF TypeOK, Part
<1>2. Posted \in Seq(Part) /\ Len(Posted) = Len(cmd_busy)
  <2>1. Len(cmd_busy) \in Nat /\ \A i \in 1..Len(cmd_busy) : cmd_busy[i] \in Addr
    BY DEF TypeOK, Addr, Desc
  <2>2. \A i \in 1..Len(cmd_busy) : mem[cmd_busy[i]] \in Part
    BY <2>1 DEF TypeOK, Part
  <2>3. Posted \in [1..Len(cmd_busy) -> Part]
    BY <2>2 DEF Posted
  <2> QED
    BY <2>1, <2>3
<1>3. \A i \in 1..Len(cmd_busy) : Posted[i] = mem[cmd_busy[i]]
  BY DEF Posted
<1>4. Hand \in Seq(Part)
  <2>1. ASSUME NEW c \in Caller, Holding(c) PROVE InHand(c) \in Part
    <3>1. CASE pc[c] = "post"
      <4>1. mem \in [Addr -> Part] /\ msg_addr[c] \in Addr \cup {NoAddr}
        BY DEF TypeOK, Part
      <4> QED
        BY <3>1, <4>1, HandAddr, <2>1 DEF InHand
    <3>2. CASE pc[c] # "post"
      BY <3>2 DEF InHand, TypeOK, Part
    <3> QED
      BY <3>1, <3>2
  <2> QED
    BY <2>1 DEF Hand
<1>5. cmd_q \in Seq(Part)
  BY DEF TypeOK, Part
<1>6. rcvd \o Posted \in Seq(Part)
  BY <1>1, <1>2, ConcatProperties
<1>7. (rcvd \o Posted) \o Hand \in Seq(Part)
  BY <1>4, <1>6, ConcatProperties
<1>8. Stream \in Seq(Part)
  BY <1>5, <1>7, ConcatProperties DEF Stream
<1> QED
  BY <1>1, <1>2, <1>3, <1>4, <1>5, <1>6, <1>8

(* The head of the second part goes to the end of the first. *)
LEMMA HeadMoves ==
  ASSUME NEW S, NEW a \in Seq(S), NEW b \in Seq(S), b # <<>>
  PROVE  Append(a, Head(b)) \o Tail(b) = a \o b
<1>1. Head(b) \in S /\ Tail(b) \in Seq(S) /\ <<Head(b)>> \in Seq(S)
  OBVIOUS
<1>3. <<Head(b)>> \o Tail(b) = b
  BY <1>1
<1> DEFINE h == Head(b)
           t == Tail(b)
<1> HIDE DEF h, t
<1>t. h \in S /\ t \in Seq(S) /\ <<h>> \in Seq(S)
  BY <1>1 DEF h, t
<1>2. Append(a, h) = a \o <<h>>
  BY <1>t, AppendIsConcat
<1>4. (a \o <<h>>) \o t = a \o (<<h>> \o t)
  BY <1>t, ConcatAssociative
<1> QED
  BY <1>2, <1>3, <1>4 DEF h, t

(* What is in the hands of the lock holder. *)
LEMMA HandIs ==
  ASSUME NEW c \in Caller, lock_hal = c
  PROVE  Hand = IF Holding(c) THEN <<InHand(c)>> ELSE <<>>
BY DEF Hand

(* The same lock holder with the same fragment. *)
LEMMA HandSame ==
  ASSUME lock_hal' = lock_hal,
         \A d \in Caller : lock_hal = d => /\ Holding(d)' <=> Holding(d)
                                           /\ Holding(d) => InHand(d)' = InHand(d)
  PROVE  Hand' = Hand
<1>1. CASE lock_hal \in Caller
  <2> DEFINE d == lock_hal
  <2>1. (Holding(d)' <=> Holding(d)) /\ (Holding(d) => InHand(d)' = InHand(d))
    BY <1>1
  <2> QED
    BY <1>1, <2>1 DEF Hand
<1>2. CASE lock_hal \notin Caller
  BY <1>2 DEF Hand
<1> QED
  BY <1>1, <1>2

(* Without a fragment before and after. *)
LEMMA HandEmpty ==
  ASSUME \A d \in Caller : ~Holding(d), \A d \in Caller : ~Holding(d)'
  PROVE  Hand = <<>> /\ Hand' = <<>>
BY DEF Hand

(* Steps that touch no fragment leave what the lock holder has. *)
LEMMA HandQuiet ==
  ASSUME TypeOK, LockInv, Quiet, timeouts' = timeouts
  PROVE  Hand' = Hand
<1> DEFINE Kept(d) == lock_hal = d => /\ Holding(d)' <=> Holding(d)
                                      /\ Holding(d) => InHand(d)' = InHand(d)
<1> USE DEF queueVars, rpuVars, boundVars, callerVars, At, Goto
<1>0. \A d \in Caller : lock_hal = d => pc[d] \in Critical
  BY DEF LockInv
<1>1. ASSUME NEW c \in Caller, NEW r \in Request, Call(c, r) PROVE Hand' = Hand
  <2>1. ASSUME NEW d \in Caller PROVE Kept(d)
    BY <1>0, <1>1 DEF Call, TypeOK, Critical, Holding, InHand
  <2> QED
    BY <1>1, <2>1, HandSame DEF Call
<1>2. ASSUME NEW c \in Caller, CmdQueueEmpty(c) PROVE Hand' = Hand
  <2>1. ASSUME NEW d \in Caller PROVE Kept(d)
    BY <1>2 DEF CmdQueueEmpty, TypeOK, Holding, InHand
  <2> QED
    BY <1>2, <2>1, HandSame DEF CmdQueueEmpty
<1>3. ASSUME NEW c \in Caller, ReadyWait(c) PROVE Hand' = Hand
  <2>1. ASSUME NEW d \in Caller PROVE Kept(d)
    BY <1>3 DEF ReadyWait, TypeOK, Holding, InHand
  <2> QED
    BY <1>3, <2>1, HandSame DEF ReadyWait
<1>4. ASSUME NEW c \in Caller, ReadyTimeout(c) PROVE FALSE
  BY <1>4, BoundAssumption DEF ReadyTimeout, TypeOK
<1>5. ASSUME NEW c \in Caller, MsgPostRx(c) PROVE Hand' = Hand
  <2>1. ASSUME NEW d \in Caller PROVE Kept(d)
    BY <1>5 DEF MsgPostRx, TypeOK, Holding, InHand
  <2> QED
    BY <1>5, <2>1, HandSame DEF MsgPostRx
<1>6. ASSUME NEW c \in Caller, MsgTrigger(c) PROVE Hand' = Hand
  <2>1. ASSUME NEW d \in Caller PROVE Kept(d)
    BY <1>6 DEF MsgTrigger, TypeOK, Holding, InHand
  <2> QED
    BY <1>6, <2>1, HandSame DEF MsgTrigger
<1>7. ASSUME NEW c \in Caller, Unlock(c) PROVE Hand' = Hand
  <2>1. lock_hal = c /\ ~Holding(c)
    BY <1>7 DEF Unlock, LockInv, Critical, Holding
  <2>2. lock_hal' = NoCaller
    BY <1>7 DEF Unlock
  <2> QED
    BY <2>1, <2>2, CallerAssumption DEF Hand
<1>8. ASSUME UNCHANGED <<lock_hal, pc, req, cmd, msg_addr, mem>> PROVE Hand' = Hand
  BY <1>8 DEF Hand, Holding, InHand
<1>9. ASSUME NEW p \in Pool, RpuUseRx(p) PROVE Hand' = Hand
  BY <1>8, <1>9 DEF RpuUseRx
<1>10. CASE RpuStart \/ RpuRelease \/ RpuStop \/ UNCHANGED vars
  BY <1>8, <1>10 DEF RpuStart, RpuRelease, RpuStop, vars
<1> QED
  BY <1>1, <1>2, <1>3, <1>4, <1>5, <1>6, <1>7, <1>9, <1>10 DEF Quiet

(* Quiet steps leave what was accepted. *)
LEMMA QuietAccepted ==
  ASSUME Quiet
  PROVE  accepted' = accepted
BY DEF Quiet, Call, CmdQueueEmpty, ReadyWait, ReadyTimeout, MsgPostRx,
   MsgTrigger, Unlock, RpuStart, RpuRelease, RpuStop, RpuUseRx, vars

(* The shape of a tail and of a longer sequence. *)
LEMMA TailShape ==
  ASSUME NEW S, NEW s \in Seq(S), s # <<>>
  PROVE  Tail(s) = [i \in 1..(Len(s) - 1) |-> s[i + 1]]
<1> DEFINE t == [i \in 1..(Len(s) - 1) |-> s[i + 1]]
<1>1. /\ Len(s) \in Nat \ {0} /\ Tail(s) \in Seq(S) /\ Len(Tail(s)) = Len(s) - 1
      /\ \A i \in 1..(Len(s) - 1) : Tail(s)[i] = s[i + 1]
  OBVIOUS
<1>2. \A i \in 1..(Len(s) - 1) : s[i + 1] \in S
  BY <1>1
<1>3. t \in Seq(S) /\ Len(t) = Len(s) - 1
  BY <1>1, <1>2
<1>4. \A i \in 1..(Len(s) - 1) : t[i] = s[i + 1]
  OBVIOUS
<1> HIDE DEF t
<1>5. Tail(s) = t
  BY <1>1, <1>3, <1>4, SeqEqual
<1> QED
  BY <1>5 DEF t

LEMMA AppendShape ==
  ASSUME NEW S, NEW s \in Seq(S), NEW x
  PROVE  Append(s, x) = [i \in 1..(Len(s) + 1) |-> IF i = Len(s) + 1 THEN x ELSE s[i]]
<1> DEFINE t == [i \in 1..(Len(s) + 1) |-> IF i = Len(s) + 1 THEN x ELSE s[i]]
           T == S \cup {x}
<1>1. /\ Len(s) \in Nat /\ s \in Seq(T) /\ x \in T
      /\ \A i \in 1..Len(s) : s[i] \in T
  OBVIOUS
<1> HIDE DEF T
<1>2. /\ Append(s, x) \in Seq(T) /\ Len(Append(s, x)) = Len(s) + 1
      /\ \A i \in 1..Len(s) : Append(s, x)[i] = s[i]
      /\ Append(s, x)[Len(s) + 1] = x
  BY <1>1
<1>3. \A i \in 1..(Len(s) + 1) : i = Len(s) + 1 \/ i \in 1..Len(s)
  BY <1>1
<1>4. \A i \in 1..(Len(s) + 1) : (IF i = Len(s) + 1 THEN x ELSE s[i]) \in T
  BY <1>1, <1>3
<1>5. t \in Seq(T) /\ Len(t) = Len(s) + 1
  BY <1>1, <1>4
<1>6. \A i \in 1..(Len(s) + 1) : t[i] = Append(s, x)[i]
  BY <1>2, <1>3
<1> HIDE DEF t
<1>7. Append(s, x) = t
  BY <1>2, <1>5, <1>6, SeqEqual
<1> QED
  BY <1>7 DEF t

(* What is posted, when the command queue stays, loses its head or grows.   *)
LEMMA PostedSame ==
  ASSUME cmd_busy' = cmd_busy,
         \A i \in 1..Len(cmd_busy) : mem'[cmd_busy[i]] = mem[cmd_busy[i]]
  PROVE  Posted' = Posted
BY DEF Posted

LEMMA PostedTail ==
  ASSUME TypeOK, CallInv, cmd_busy # <<>>, cmd_busy' = Tail(cmd_busy), mem' = mem
  PROVE  /\ Posted # <<>> /\ Head(Posted) = mem[Head(cmd_busy)]
         /\ Posted' = Tail(Posted)
<1> DEFINE q == cmd_busy
           L == Len(q)
           P == Posted
<1>1. /\ P \in Seq(Part) /\ Len(P) = L
      /\ \A i \in 1..L : P[i] = mem[q[i]]
  BY StreamType
<1>2. L \in Nat /\ L # 0 /\ Len(Tail(q)) = L - 1 /\ Head(q) = q[1]
      /\ \A i \in 1..(L - 1) : Tail(q)[i] = q[i + 1]
  BY DEF TypeOK
<1>3. Posted' = [i \in 1..(L - 1) |-> mem[Tail(q)[i]]]
  BY <1>2 DEF Posted
<1> HIDE DEF P, L, q
<1>4. P # <<>> /\ Head(P) = P[1]
  BY <1>1, <1>2
<1>5. 1 \in 1..L /\ \A i \in 1..(L - 1) : i + 1 \in 1..L
  BY <1>2
<1>6. Tail(P) = [i \in 1..(L - 1) |-> P[i + 1]]
  BY <1>1, <1>4, TailShape
<1>7. \A i \in 1..(L - 1) : mem[Tail(q)[i]] = P[i + 1]
  BY <1>1, <1>2, <1>5
<1>8. Posted' = Tail(P)
  BY <1>3, <1>6, <1>7
<1>9. Head(P) = mem[Head(q)]
  BY <1>1, <1>2, <1>4, <1>5
<1> QED
  BY <1>4, <1>8, <1>9 DEF P, q

LEMMA PostedAppend ==
  ASSUME TypeOK, CallInv, NEW a, cmd_busy' = Append(cmd_busy, a), mem' = mem
  PROVE  Posted' = Append(Posted, mem[a])
<1> DEFINE q == cmd_busy
           L == Len(q)
           P == Posted
<1>1. /\ P \in Seq(Part) /\ Len(P) = L
      /\ \A i \in 1..L : P[i] = mem[q[i]]
  BY StreamType
<1>2. /\ L \in Nat /\ Len(Append(q, a)) = L + 1
      /\ \A i \in 1..L : Append(q, a)[i] = q[i]
      /\ Append(q, a)[L + 1] = a
  BY DEF TypeOK
<1>3. Posted' = [i \in 1..(L + 1) |-> mem[Append(q, a)[i]]]
  BY <1>2 DEF Posted
<1> DEFINE x == mem[a]
<1>4. Append(P, x) = [i \in 1..(L + 1) |-> IF i = L + 1 THEN x ELSE P[i]]
  <2> HIDE DEF P, L, x
  <2> QED
    BY <1>1, AppendShape
<1> HIDE DEF P, L, q
<1>5. \A i \in 1..(L + 1) : i \in 1..L \/ i = L + 1
  BY <1>2
<1>6. \A i \in 1..(L + 1) : mem[Append(q, a)[i]] = IF i = L + 1 THEN x ELSE P[i]
  BY <1>1, <1>2, <1>5
<1>7. Posted' = Append(P, x)
  BY <1>3, <1>4, <1>6
<1> QED
  BY <1>7 DEF P

(* hal_rpu_cmd_queue adds the parts of its command. *)
LEMMA FragmentsParts ==
  ASSUME NEW c \in Caller
  PROVE  FragmentsOf(c) = Parts(id[c], req[c].of)
BY DEF FragmentsOf, Parts

(* Before a caller has queued its command, nothing is in its hands or in    *)
(* cmd_q, and no fragment has its number.                                   *)
LEMMA StreamFresh ==
  ASSUME HalInv, allocFails = 0, NEW c \in Caller, pc[c] \in {"queue", "data"}
  PROVE  /\ lock_hal = c /\ Hand = <<>> /\ cmd_q = <<>>
         /\ Stream = rcvd \o Posted
         /\ \A i \in 1..Len(Stream) : Stream[i].cmd # id[c]
<1> USE DEF HalInv
<1>1. lock_hal = c /\ ~Holding(c)
  BY DEF LockInv, Critical, Holding
<1>2. Hand = <<>>
  BY <1>1, HandIs
<1>3. cmd_q = <<>>
  BY <1>1 DEF QueueInv
<1>4. /\ rcvd \in Seq(Part) /\ Posted \in Seq(Part) /\ rcvd \o Posted \in Seq(Part)
      /\ Len(Posted) = Len(cmd_busy)
      /\ \A i \in 1..Len(cmd_busy) : Posted[i] = mem[cmd_busy[i]]
  BY StreamType
<1>5. Stream = rcvd \o Posted
  <2>1. (rcvd \o Posted) \o <<>> = rcvd \o Posted
    BY <1>4, ConcatEmptySeq
  <2> QED
    BY <1>2, <1>3, <2>1 DEF Stream
<1>6. /\ \A i \in 1..Len(rcvd) : rcvd[i].cmd < turns
      /\ \A i \in 1..Len(Posted) : Posted[i].cmd < turns
      /\ id[c] = turns /\ turns \in Nat
  BY <1>4 DEF NumberInv, Earlier, TurnInv, Critical, TypeOK
<1>7. ASSUME NEW i \in 1..Len(Stream) PROVE Stream[i].cmd # id[c]
  <2> DEFINE m == Len(rcvd)
             n == Len(Posted)
  <2>1. m \in Nat /\ n \in Nat
    BY <1>4
  <2>2. Len(rcvd \o Posted) = m + n
    BY <1>4, ConcatProperties
  <2>3. \A j \in 1..(m + n) : (rcvd \o Posted)[j] = IF j <= m THEN rcvd[j] ELSE Posted[j - m]
    BY <1>4, ConcatProperties
  <2>4. i \in 1..(m + n)
    BY <1>5, <2>2
  <2>5. Stream[i] = IF i <= m THEN rcvd[i] ELSE Posted[i - m]
    BY <1>5, <2>3, <2>4
  <2> HIDE DEF m, n
  <2>6. i <= m => i \in 1..m
    BY <2>1, <2>4
  <2>7. ~(i <= m) => i - m \in 1..n
    BY <2>1, <2>4
  <2>8. Stream[i].cmd < turns
    BY <1>6, <2>5, <2>6, <2>7 DEF m, n
  <2>9. ~(turns < turns)
    BY <1>6
  <2> QED
    BY <1>6, <2>8, <2>9
<1> QED
  BY <1>1, <1>2, <1>3, <1>5, <1>7

(* Caller c adds the m parts of its command to the stream. *)
Adds(c, m) == /\ pc[c] \in {"queue", "data"}
              /\ Stream' = Stream \o Parts(id[c], m)
              /\ accepted' = Append(accepted, id[c])
              /\ rcvd' = rcvd

(* A step with which nothing fails leaves the stream, or adds a command.    *)
LEMMA StreamStep ==
  ASSUME HalInv, LockInv', [Next]_vars,
         allocFails = 0, allocFails' = allocFails, timeouts' = timeouts
  PROVE  \/ UNCHANGED <<Stream, accepted>>
         \/ \E c \in Caller, m \in 1..MaxFrag : Adds(c, m)
<1> USE DEF HalInv, queueVars, rpuVars, boundVars, callerVars, At, Goto
<1>t. /\ rcvd \in Seq(Part) /\ Posted \in Seq(Part) /\ Hand \in Seq(Part)
      /\ cmd_q \in Seq(Part) /\ rcvd \o Posted \in Seq(Part)
  BY StreamType
<1> DEFINE Same == UNCHANGED <<Stream, accepted>>
<1>1. CASE Quiet
  <2>1. UNCHANGED <<rcvd, Posted, cmd_q>>
    BY <1>1, QuietStep, PostedSame
  <2>2. UNCHANGED <<Hand, accepted>>
    BY <1>1, HandQuiet, QuietAccepted
  <2> QED
    BY <2>1, <2>2 DEF Stream
<1>2. ASSUME NEW c \in Caller, Lock(c) PROVE Same
  <2>1. UNCHANGED <<rcvd, cmd_q, cmd_busy, mem, accepted>>
    BY <1>2 DEF Lock
  <2>2. Posted' = Posted
    BY <2>1, PostedSame
  <2>3. \A d \in Caller : ~Holding(d)
    BY <1>2, CallerAssumption DEF Lock, LockInv, Critical, Holding
  <2>4. lock_hal' = c /\ pc'[c] \in {"queue", "data"}
    BY <1>2 DEF Lock, TypeOK
  <2>5. \A d \in Caller : ~Holding(d)'
    BY <2>4, HeldByNewHolder DEF Holding
  <2>6. Hand' = Hand
    BY <2>3, <2>5, HandEmpty
  <2> QED
    BY <2>1, <2>2, <2>6 DEF Stream
<1>3. ASSUME NEW c \in Caller, CmdQueue(c) PROVE \E m \in 1..MaxFrag : Adds(c, m)
  <2>1. /\ pc[c] = "queue" /\ lock_hal = c /\ lock_hal' = c
        /\ pc' = [pc EXCEPT ![c] = "loop"]
        /\ cmd_q' = cmd_q \o FragmentsOf(c) /\ accepted' = Append(accepted, id[c])
        /\ UNCHANGED <<rcvd, cmd_busy, mem>>
    BY <1>3 DEF CmdQueue, LockInv, Critical
  <2> DEFINE m == req[c].of
             p == Parts(id[c], m)
  <2>2. m \in 1..MaxFrag /\ id[c] \in Nat
    BY RequestsType DEF TypeOK
  <2>3. p \in Seq(Part)
    BY <2>2, PartsType
  <2>4. Hand = <<>> /\ cmd_q = <<>> /\ Stream = rcvd \o Posted
    BY <2>1, StreamFresh
  <2>5. \A d \in Caller : ~Holding(d)'
    BY <2>1, LoopNotHolding
  <2>6. Hand' = <<>>
    BY <2>5 DEF Hand
  <2>7. Posted' = Posted
    BY <2>1, PostedSame
  <2>8. cmd_q' = p
    <3>1. cmd_q' = <<>> \o p
      BY <2>1, <2>4, FragmentsParts
    <3> HIDE DEF p
    <3> QED
      BY <2>3, <3>1, ConcatEmptySeq
  <2>9. (rcvd \o Posted) \o <<>> = rcvd \o Posted
    BY <1>t, ConcatEmptySeq
  <2>10. Stream' = Stream \o p
    BY <2>1, <2>4, <2>6, <2>7, <2>8, <2>9 DEF Stream
  <2> QED
    BY <2>1, <2>2, <2>10 DEF Adds
<1>4. ASSUME NEW c \in Caller, CmdQueueFail(c) PROVE FALSE
  BY <1>4 DEF CmdQueueFail
<1>5. ASSUME NEW c \in Caller, CmdDequeue(c) PROVE Same
  <2>1. /\ pc[c] = "loop" /\ lock_hal = c /\ lock_hal' = c
        /\ pc' = [pc EXCEPT ![c] = "wait"]
        /\ cmd_q # <<>> /\ cmd_q' = Tail(cmd_q)
        /\ cmd' = [cmd EXCEPT ![c] = Head(cmd_q)]
        /\ UNCHANGED <<rcvd, cmd_busy, mem, accepted>>
    BY <1>5 DEF CmdDequeue, LockInv, Critical
  <2>2. Hand = <<>>
    BY <2>1, HandIs DEF Holding
  <2>3. pc'[c] = "wait" /\ cmd'[c] = Head(cmd_q)
    BY <2>1 DEF TypeOK
  <2>4. Hand' = <<Head(cmd_q)>>
    BY <2>1, <2>3 DEF Hand, Holding, InHand
  <2>5. Posted' = Posted
    BY <2>1, PostedSame
  <2> DEFINE a == rcvd \o Posted
             h == Head(cmd_q)
  <2>6. a \o <<>> = a /\ a \in Seq(Part) /\ h \in Part
    BY <1>t, <2>1, ConcatEmptySeq
  <2>7. Append(a, h) \o Tail(cmd_q) = a \o cmd_q
    BY <1>t, <2>1, HeadMoves
  <2>8. Append(a, h) = a \o <<h>>
    <3> HIDE DEF a, h
    <3> QED
      BY <2>6, AppendIsConcat
  <2>9. Stream' = (a \o <<h>>) \o Tail(cmd_q)
    BY <2>1, <2>4, <2>5 DEF Stream
  <2>10. Stream = a \o cmd_q
    BY <2>2, <2>6 DEF Stream
  <2> HIDE DEF a, h
  <2> QED
    BY <2>1, <2>7, <2>8, <2>9, <2>10
<1>6. ASSUME NEW c \in Caller, MsgWrite(c) PROVE Same
  <2>1. /\ pc[c] = "write" /\ lock_hal = c /\ pc' = [pc EXCEPT ![c] = "post"]
        /\ mem'[msg_addr'[c]] = cmd[c]
        /\ \A i \in 1..Len(cmd_busy) : mem'[cmd_busy[i]] = mem[cmd_busy[i]]
        /\ UNCHANGED <<req, cmd, cmd_q, cmd_busy, rcvd>>
    BY <1>6, MsgWriteEffect
  <2>2. lock_hal' = lock_hal /\ accepted' = accepted
    BY <1>6 DEF MsgWrite
  <2>3. pc'[c] = "post" /\ req'[c].type = "ctrl"
    BY <2>1 DEF TypeOK, CallInv
  <2>4. Holding(c)' /\ Holding(c) /\ InHand(c)' = InHand(c)
    BY <2>1, <2>3 DEF Holding, InHand
  <2>5. Hand' = Hand
    BY <2>1, <2>2, <2>4, HandSame
  <2>6. Posted' = Posted
    BY <2>1, PostedSame
  <2> QED
    BY <2>1, <2>2, <2>5, <2>6 DEF Stream
<1>7. ASSUME NEW c \in Caller, DataWrite(c)
      PROVE Same \/ \E m \in 1..MaxFrag : Adds(c, m)
  <2>1. /\ pc[c] = "data" /\ lock_hal = c /\ pc' = [pc EXCEPT ![c] = "post"]
        /\ msg_addr'[c] = req[c].addr
        /\ mem'[req[c].addr] = [cmd |-> id[c], frag |-> 1, of |-> 1]
        /\ \A i \in 1..Len(cmd_busy) : mem'[cmd_busy[i]] = mem[cmd_busy[i]]
        /\ UNCHANGED <<req, cmd_q, cmd_busy, rcvd>>
    BY <1>7, DataWriteEffect
  <2>2. lock_hal' = c
    BY <1>7, <2>1 DEF DataWrite
  <2>3. Hand = <<>> /\ cmd_q = <<>> /\ Stream = rcvd \o Posted
    BY <2>1, StreamFresh
  <2>4. Posted' = Posted
    BY <2>1, PostedSame
  <2>5. pc'[c] = "post"
    BY <2>1 DEF TypeOK
  <2>6. CASE req[c].type = "tx"
    <3> DEFINE f == [cmd |-> id[c], frag |-> 1, of |-> 1]
    <3>1. Hand' = <<f>>
      BY <2>1, <2>2, <2>5, <2>6 DEF Hand, Holding, InHand
    <3>2. id[c] \in Nat /\ 1 \in 1..MaxFrag
      BY BoundAssumption DEF TypeOK
    <3>3. Parts(id[c], 1) = <<f>>
      BY DEF Parts
    <3>4. <<f>> \in Seq(Part)
      BY <3>2, <3>3, PartsType
    <3> HIDE DEF f
    <3>5. (rcvd \o Posted) \o <<f>> \in Seq(Part)
      BY <1>t, <3>4, ConcatProperties
    <3>6. ((rcvd \o Posted) \o <<f>>) \o <<>> = (rcvd \o Posted) \o <<f>>
      BY <3>5, ConcatEmptySeq
    <3>7. Stream' = Stream \o <<f>>
      BY <2>1, <2>3, <2>4, <3>1, <3>6 DEF Stream
    <3>8. accepted' = Append(accepted, id[c])
      BY <1>7, <2>6 DEF DataWrite
    <3>9. Adds(c, 1)
      BY <2>1, <3>3, <3>7, <3>8 DEF Adds
    <3> QED
      BY <3>2, <3>9
  <2>7. CASE req[c].type # "tx"
    <3>1. req[c].type = "rx"
      BY <2>1, <2>7, RequestsType DEF CallInv
    <3>2. Hand' = <<>>
      BY <2>1, <2>2, <2>5, <3>1 DEF Hand, Holding
    <3>3. accepted' = accepted
      BY <1>7, <2>7 DEF DataWrite
    <3> QED
      BY <2>1, <2>3, <2>4, <3>2, <3>3 DEF Stream
  <2> QED
    BY <2>6, <2>7
<1>8. ASSUME NEW c \in Caller, MsgPost(c) PROVE Same
  <2>1. /\ pc[c] = "post" /\ lock_hal = c /\ lock_hal' = c
        /\ pc' = [pc EXCEPT ![c] = "bell"] /\ req[c].type # "rx"
        /\ cmd_busy' = Append(cmd_busy, msg_addr[c])
        /\ UNCHANGED <<cmd_q, rcvd, mem, accepted>>
    BY <1>8 DEF MsgPost, LockInv, Critical
  <2> DEFINE h == mem[msg_addr[c]]
  <2>2. Hand = <<h>>
    BY <2>1, HandIs DEF Holding, InHand
  <2>3. h \in Part
    <3>1. Hand[1] \in Part
      BY <1>t, <2>2
    <3> QED
      BY <2>2, <3>1
  <2>4. \A d \in Caller : ~Holding(d)'
    BY <2>1, LoopNotHolding
  <2>5. Hand' = <<>>
    BY <2>4 DEF Hand
  <2>6. Posted' = Append(Posted, h)
    BY <2>1, PostedAppend
  <2> HIDE DEF h
  <2> DEFINE p == Posted
  <2>7. Append(p, h) = p \o <<h>> /\ p \o <<h>> \in Seq(Part) /\ <<h>> \in Seq(Part)
    <3>1. p \in Seq(Part) /\ <<h>> \in Seq(Part)
      BY <1>t, <2>3
    <3> HIDE DEF p
    <3>2. Append(p, h) = p \o <<h>>
      BY <2>3, <3>1, AppendIsConcat
    <3>3. p \o <<h>> \in Seq(Part)
      BY <3>1, ConcatProperties
    <3> QED
      BY <3>1, <3>2, <3>3
  <2>8. (rcvd \o p) \o <<h>> = rcvd \o (p \o <<h>>)
    <3>1. rcvd \in Seq(Part) /\ p \in Seq(Part) /\ <<h>> \in Seq(Part)
      BY <1>t, <2>7
    <3> HIDE DEF p
    <3> QED
      BY <3>1, ConcatAssociative
  <2>9. (rcvd \o (p \o <<h>>)) \o <<>> = rcvd \o (p \o <<h>>)
    <3>0. rcvd \in Seq(Part) /\ p \o <<h>> \in Seq(Part)
      BY <1>t, <2>7
    <3>1. rcvd \o (p \o <<h>>) \in Seq(Part)
      BY <3>0, ConcatProperties
    <3> QED
      BY <3>1, ConcatEmptySeq
  <2>10. Stream' = ((rcvd \o (p \o <<h>>)) \o <<>>) \o cmd_q
    BY <2>1, <2>5, <2>6, <2>7 DEF Stream
  <2>11. Stream = ((rcvd \o p) \o <<h>>) \o cmd_q
    BY <2>2 DEF Stream
  <2> HIDE DEF p
  <2> QED
    BY <2>1, <2>8, <2>9, <2>10, <2>11
<1>9. CASE RpuTake
  <2>1. /\ cmd_busy # <<>> /\ cmd_busy' = Tail(cmd_busy)
        /\ rcvd' = Append(rcvd, mem[Head(cmd_busy)])
        /\ UNCHANGED <<lock_hal, pc, req, cmd, msg_addr, cmd_q, mem, accepted>>
    BY <1>9 DEF RpuTake
  <2>2. Hand' = Hand
    BY <2>1 DEF Hand, Holding, InHand
  <2>3. /\ Posted # <<>> /\ Head(Posted) = mem[Head(cmd_busy)]
        /\ Posted' = Tail(Posted)
    BY <2>1, PostedTail
  <2>4. Append(rcvd, Head(Posted)) \o Tail(Posted) = rcvd \o Posted
    BY <1>t, <2>3, HeadMoves
  <2>5. rcvd' \o Posted' = rcvd \o Posted
    BY <2>1, <2>3, <2>4
  <2> QED
    BY <2>1, <2>2, <2>5 DEF Stream
<1> QED
  BY <1>1, <1>2, <1>3, <1>4, <1>5, <1>6, <1>7, <1>8, <1>9 DEF Next,
     CallerNext, Proceed, RpuNext, Quiet

(* The steps that change who waits, how many calls there are, or what was   *)
(* accepted.                                                                *)
Uncounted == /\ \A c \in Caller : ~Lock(c) /\ ~CmdQueue(c) /\ ~DataWrite(c)
             /\ \A c \in Caller, r \in Request : ~Call(c, r)

LEMMA UncountedStep ==
  ASSUME TypeOK, [Next]_vars, Uncounted
  PROVE  /\ UNCHANGED <<turns, calls, accepted>>
         /\ \A d \in Caller : pc'[d] = "lock" <=> pc[d] = "lock"
         /\ \A d \in Caller : pc'[d] \in Critical => pc[d] \in Critical
<1> DEFINE Goal == /\ UNCHANGED <<turns, calls, accepted>>
                   /\ \A d \in Caller : pc'[d] = "lock" <=> pc[d] = "lock"
                   /\ \A d \in Caller : pc'[d] \in Critical => pc[d] \in Critical
<1> USE DEF queueVars, rpuVars, boundVars, callerVars, At, Goto, Critical
<1>1. ASSUME NEW c \in Caller, CmdDequeue(c) PROVE Goal
  BY <1>1 DEF CmdDequeue, TypeOK
<1>2. ASSUME NEW c \in Caller, CmdQueueEmpty(c) PROVE Goal
  BY <1>2 DEF CmdQueueEmpty, TypeOK
<1>3. ASSUME NEW c \in Caller, ReadyWait(c) PROVE Goal
  BY <1>3 DEF ReadyWait, TypeOK
<1>4. ASSUME NEW c \in Caller, ReadyTimeout(c) PROVE Goal
  BY <1>4 DEF ReadyTimeout, TypeOK
<1>5. ASSUME NEW c \in Caller, MsgWrite(c) PROVE Goal
  <2>1. PICK l \in {"loop", "post"} : pc' = [pc EXCEPT ![c] = l]
    BY <1>5 DEF MsgWrite
  <2>2. pc[c] = "write" /\ UNCHANGED <<turns, calls, accepted>>
    BY <1>5 DEF MsgWrite
  <2> QED
    BY <2>1, <2>2 DEF TypeOK
<1>6. ASSUME NEW c \in Caller, MsgPost(c) PROVE Goal
  BY <1>6 DEF MsgPost, TypeOK
<1>7. ASSUME NEW c \in Caller, MsgPostRx(c) PROVE Goal
  BY <1>7 DEF MsgPostRx, TypeOK
<1>8. ASSUME NEW c \in Caller, MsgTrigger(c) PROVE Goal
  BY <1>8 DEF MsgTrigger, TypeOK
<1>9. ASSUME NEW c \in Caller, Unlock(c) PROVE Goal
  BY <1>9 DEF Unlock, TypeOK
<1>10. ASSUME NEW c \in Caller, CmdQueueFail(c) PROVE Goal
  BY <1>10 DEF CmdQueueFail, TypeOK
<1>11. ASSUME NEW p \in Pool, RpuUseRx(p) PROVE Goal
  BY <1>11 DEF RpuUseRx
<1>12. CASE RpuStart \/ RpuTake \/ RpuRelease \/ RpuStop \/ UNCHANGED vars
  BY <1>12 DEF RpuStart, RpuTake, RpuRelease, RpuStop, vars
<1> QED
  BY <1>1, <1>2, <1>3, <1>4, <1>5, <1>6, <1>7, <1>8, <1>9, <1>10, <1>11, <1>12
     DEF Next, CallerNext, Proceed, RpuNext, Uncounted

(* What a lock holder accepts is the number of a call. *)
LEMMA AcceptNumber ==
  ASSUME TypeOK, TurnInv, CountInv, NEW c \in Caller, pc[c] \in {"queue", "data"}
  PROVE  /\ id[c] \in 1..MaxCmds
         /\ Append(accepted, id[c]) \in Seq(1..MaxCmds)
<1>1. id[c] = turns /\ turns >= 1 /\ turns \in Nat
  BY DEF TurnInv, CountInv, Critical, TypeOK
<1>2. Cardinality(Waiting) \in Nat
  BY FS_CardinalityType DEF CountInv
<1>3. turns <= calls /\ calls <= MaxCmds /\ calls \in Nat /\ MaxCmds \in Nat
  BY <1>1, <1>2, BoundAssumption DEF CountInv, TypeOK
<1>4. id[c] \in 1..MaxCmds
  BY <1>1, <1>3
<1> QED
  BY <1>4 DEF CountInv

LEMMA CountNext ==
  ASSUME TypeOK, TurnInv, CountInv, [Next]_vars
  PROVE  CountInv'
<1> USE DEF queueVars, rpuVars, boundVars, callerVars, At, Goto
<1>t. IsFiniteSet(Waiting) /\ Cardinality(Waiting) \in Nat /\ turns \in Nat /\ calls \in Nat
  BY FS_CardinalityType, BoundAssumption DEF CountInv, TypeOK
<1>1. ASSUME NEW c \in Caller, NEW r \in Request, Call(c, r) PROVE CountInv'
  <2>1. /\ pc[c] = "idle" /\ pc' = [pc EXCEPT ![c] = "lock"]
        /\ turns' = turns /\ calls' = calls + 1 /\ accepted' = accepted
    BY <1>1 DEF Call
  <2>2. c \notin Waiting /\ Waiting' = Waiting \cup {c}
    BY <2>1 DEF Waiting, TypeOK
  <2>3. IsFiniteSet(Waiting') /\ Cardinality(Waiting') = Cardinality(Waiting) + 1
    <3> HIDE DEF Waiting
    <3> QED
      BY <1>t, <2>2, FS_AddElement
  <2>4. \A d \in Caller : pc'[d] \in Critical => pc[d] \in Critical
    BY <2>1 DEF TypeOK, Critical
  <2> HIDE DEF Waiting
  <2> QED
    BY <1>t, <2>1, <2>3, <2>4 DEF CountInv
<1>2. ASSUME NEW c \in Caller, Lock(c) PROVE CountInv'
  <2>1. /\ pc[c] = "lock" /\ turns' = turns + 1
        /\ calls' = calls /\ accepted' = accepted
    BY <1>2 DEF Lock
  <2>2. PICK l \in {"queue", "data"} : pc' = [pc EXCEPT ![c] = l]
    BY <1>2 DEF Lock
  <2>3. c \in Waiting /\ Waiting' = Waiting \ {c}
    BY <2>1, <2>2 DEF Waiting, TypeOK
  <2>4. IsFiniteSet(Waiting') /\ Cardinality(Waiting') = Cardinality(Waiting) - 1
    <3> HIDE DEF Waiting
    <3> QED
      BY <1>t, <2>3, FS_RemoveElement
  <2>5. turns' >= 1
    BY <1>t, <2>1
  <2> HIDE DEF Waiting
  <2> QED
    BY <1>t, <2>1, <2>4, <2>5 DEF CountInv
<1>3. ASSUME NEW c \in Caller, CmdQueue(c) \/ DataWrite(c) PROVE CountInv'
  <2>1. /\ pc[c] \in {"queue", "data"}
        /\ turns' = turns /\ calls' = calls
        /\ accepted' \in {accepted, Append(accepted, id[c])}
    BY <1>3 DEF CmdQueue, DataWrite
  <2>2. PICK l \in {"loop", "post"} : pc' = [pc EXCEPT ![c] = l]
    BY <1>3 DEF CmdQueue, DataWrite
  <2>3. Waiting' = Waiting
    BY <2>1, <2>2 DEF Waiting, TypeOK
  <2>4. \A d \in Caller : pc'[d] \in Critical => pc[d] \in Critical
    BY <2>1, <2>2 DEF TypeOK, Critical
  <2>5. accepted' \in Seq(1..MaxCmds)
    BY <2>1, AcceptNumber DEF CountInv
  <2> QED
    BY <2>1, <2>3, <2>4, <2>5 DEF CountInv
<1>4. CASE Uncounted
  <2>1. /\ UNCHANGED <<turns, calls, accepted>>
        /\ \A d \in Caller : pc'[d] = "lock" <=> pc[d] = "lock"
        /\ \A d \in Caller : pc'[d] \in Critical => pc[d] \in Critical
    BY <1>4, UncountedStep
  <2>2. Waiting' = Waiting
    BY <2>1 DEF Waiting
  <2> QED
    BY <2>1, <2>2 DEF CountInv
<1> QED
  BY <1>1, <1>2, <1>3, <1>4 DEF Uncounted

(* A failure is never forgotten. *)
LEMMA FailuresStay ==
  ASSUME TypeOK, [Next]_vars
  PROVE  /\ timeouts \in Nat /\ allocFails \in Nat
         /\ (timeouts' = timeouts \/ timeouts' = timeouts + 1)
         /\ (allocFails' = allocFails \/ allocFails' = allocFails + 1)
<1>t. timeouts \in Nat /\ allocFails \in Nat
  <2>1. timeouts \in 0..MaxTimeouts /\ allocFails \in 0..MaxAllocFails
    BY DEF TypeOK
  <2> QED
    BY <2>1, BoundAssumption
<1> DEFINE Goal == /\ (timeouts' = timeouts \/ timeouts' = timeouts + 1)
                   /\ (allocFails' = allocFails \/ allocFails' = allocFails + 1)
<1>1. ASSUME NEW c \in Caller, Proceed(c) PROVE Goal
  BY <1>1 DEF Proceed, boundVars, CmdQueue, CmdDequeue, CmdQueueEmpty,
     ReadyWait, MsgWrite, DataWrite, MsgPost, MsgPostRx, MsgTrigger, Unlock
<1>2. ASSUME NEW c \in Caller, NEW r \in Request, Call(c, r) PROVE Goal
  BY <1>2 DEF Call
<1>3. ASSUME NEW c \in Caller, Lock(c) \/ CmdQueueFail(c) \/ ReadyTimeout(c) PROVE Goal
  BY <1>3 DEF Lock, CmdQueueFail, ReadyTimeout, boundVars
<1>4. ASSUME RpuNext PROVE Goal
  <2>1. UNCHANGED <<timeouts, allocFails>>
    BY <1>4 DEF RpuNext, RpuStart, RpuTake, RpuRelease, RpuStop, RpuUseRx, boundVars
  <2> QED
    BY <2>1
<1>5. ASSUME UNCHANGED vars PROVE Goal
  <2>1. UNCHANGED <<timeouts, allocFails>>
    BY <1>5 DEF vars, boundVars
  <2> QED
    BY <2>1
<1>6. Goal
  BY <1>1, <1>2, <1>3, <1>4, <1>5 DEF Next, CallerNext
<1> QED
  BY <1>t, <1>6

(* While nothing fails, the stream carries the accepted commands. *)
LEMMA StreamNext ==
  ASSUME HalInv, LockInv', StreamInv, [Next]_vars
  PROVE  StreamInv'
<1> SUFFICES ASSUME timeouts' = 0, allocFails' = 0 PROVE Carries(Stream, accepted)'
  BY DEF StreamInv
<1>1. timeouts = 0 /\ allocFails = 0
  BY FailuresStay DEF HalInv
<1>2. Carries(Stream, accepted)
  BY <1>1 DEF StreamInv
<1>3. CASE UNCHANGED <<Stream, accepted>>
  <2> DEFINE s == Stream
             a == accepted
  <2>1. s' = s /\ a' = a
    BY <1>3
  <2>2. Carries(s, a)
    BY <1>2
  <2> HIDE DEF s, a
  <2>3. Carries(s', a')
    BY <2>1, <2>2
  <2> QED
    BY <2>3 DEF s, a, Carries, WellFormed, Matched, Follows, Ends
<1>4. ASSUME NEW c \in Caller, NEW m \in 1..MaxFrag, Adds(c, m)
      PROVE  Carries(Stream, accepted)'
  <2>1. /\ pc[c] \in {"queue", "data"}
        /\ Stream' = Stream \o Parts(id[c], m) /\ accepted' = Append(accepted, id[c])
    BY <1>4 DEF Adds
  <2>2. \A i \in 1..Len(Stream) : Stream[i].cmd # id[c]
    BY <1>1, <2>1, StreamFresh
  <2>3. Stream \in Seq(Part) /\ accepted \in Seq(Nat) /\ id[c] \in Nat
    BY StreamType DEF HalInv, TypeOK
  <2>4. Carries(Stream \o Parts(id[c], m), Append(accepted, id[c]))
    BY <1>2, <2>2, <2>3, CarriesMore
  <2>5. Carries(Stream', accepted')
    BY <2>1, <2>4
  <2> QED
    BY <2>5 DEF Carries, WellFormed, Matched, Follows, Ends
<1> QED
  BY <1>1, <1>3, <1>4, StreamStep

(* The invariant of the command path as a channel. *)
PathInv == HalInv /\ CountInv /\ StreamInv

(* It holds at the start. *)
LEMMA PathInit == Init => PathInv
<1> SUFFICES ASSUME Init PROVE PathInv
  OBVIOUS
<1>1. HalInv
  BY HalInit
<1>2. CountInv
  <2>1. Waiting = {}
    BY DEF Init, Waiting
  <2>2. turns = 0 /\ calls = 0 /\ accepted = <<>> /\ \A c \in Caller : pc[c] \notin Critical
    BY DEF Init, Critical
  <2>3. IsFiniteSet(Waiting) /\ Cardinality(Waiting) = 0
    BY <2>1, FS_EmptySet
  <2>4. accepted \in Seq(1..MaxCmds)
    BY <2>2
  <2> QED
    BY <2>2, <2>3, <2>4 DEF CountInv
<1>3. Carries(Stream, accepted)
  <2>1. cmd_busy = <<>> /\ rcvd = <<>> /\ cmd_q = <<>> /\ accepted = <<>>
    BY DEF Init
  <2>2. Posted = <<>>
    <3>1. Posted = [i \in 1..0 |-> mem[cmd_busy[i]]]
      BY <2>1 DEF Posted
    <3> QED
      BY <3>1
  <2>3. Hand = <<>>
    BY CallerAssumption DEF Init, Hand
  <2>4. Stream = <<>>
    <3>1. <<>> \o <<>> = <<>>
      OBVIOUS
    <3> QED
      BY <2>1, <2>2, <2>3, <3>1 DEF Stream
  <2> QED
    BY <2>1, <2>4, CarriesNone
<1> QED
  BY <1>1, <1>2, <1>3 DEF PathInv, StreamInv

(* It always holds. *)
LEMMA PathNext == PathInv /\ [Next]_vars => PathInv'
<1> SUFFICES ASSUME PathInv, [Next]_vars PROVE PathInv'
  OBVIOUS
<1>1. HalInv'
  BY HalNext DEF PathInv
<1>2. LockInv'
  BY <1>1 DEF HalInv
<1>3. CountInv'
  BY CountNext DEF PathInv, HalInv
<1>4. StreamInv'
  BY <1>2, StreamNext DEF PathInv
<1> QED
  BY <1>1, <1>3, <1>4 DEF PathInv

LEMMA PathInductive == Spec => []PathInv
BY PathInit, PathNext, PTL DEF Spec

(* A sequence begins with the first of its two parts. *)
LEMMA FirstPart ==
  ASSUME NEW S, NEW a \in Seq(S), NEW b \in Seq(S)
  PROVE  /\ Len(a) <= Len(a \o b)
         /\ \A i \in 1..Len(a) : (a \o b)[i] = a[i]
<1> DEFINE m == Len(a)
           n == Len(b)
           t == a \o b
<1>1. m \in Nat /\ n \in Nat
  OBVIOUS
<1>2. Len(t) = m + n /\ \A i \in 1..(m + n) : t[i] = IF i <= m THEN a[i] ELSE b[i - m]
  BY ConcatProperties
<1> HIDE DEF m, n, t
<1>3. \A i \in 1..m : i \in 1..(m + n) /\ i <= m
  BY <1>1
<1>4. m <= Len(t) /\ \A i \in 1..m : t[i] = a[i]
  BY <1>1, <1>2, <1>3
<1> QED
  BY <1>4 DEF m, t

(* What begins the read and the posted fragments begins the stream. *)
LEMMA StreamBegins ==
  ASSUME TypeOK, CallInv, NEW r \in Seq(Part), NEW w \in Seq(Part),
         r \o w = rcvd \o Posted
  PROVE  /\ Len(r) <= Len(Stream)
         /\ \A i \in 1..Len(r) : r[i] = Stream[i]
<1> DEFINE a == rcvd \o Posted
           b == a \o Hand
           t == b \o cmd_q
<1>1. a \in Seq(Part) /\ Hand \in Seq(Part) /\ cmd_q \in Seq(Part)
  BY StreamType
<1>2. b \in Seq(Part)
  BY <1>1, ConcatProperties
<1>3. Len(r) <= Len(a) /\ \A i \in 1..Len(r) : a[i] = r[i]
  BY FirstPart
<1> HIDE DEF a
<1>4. Len(a) <= Len(b) /\ \A i \in 1..Len(a) : b[i] = a[i]
  BY <1>1, FirstPart
<1> HIDE DEF b
<1>5. Len(b) <= Len(t) /\ \A i \in 1..Len(b) : t[i] = b[i]
  BY <1>1, <1>2, FirstPart
<1>6. Stream = t
  BY DEF Stream, a, b
<1>7. t \in Seq(Part)
  BY <1>1, <1>2, ConcatProperties
<1> HIDE DEF t
<1>8. Len(r) \in Nat /\ Len(a) \in Nat /\ Len(b) \in Nat /\ Len(t) \in Nat
  BY <1>1, <1>2, <1>7
<1>9. \A i \in 1..Len(r) : i \in 1..Len(a) /\ i \in 1..Len(b)
  BY <1>3, <1>4, <1>8
<1>10. Len(r) <= Len(t) /\ \A i \in 1..Len(r) : t[i] = r[i]
  BY <1>3, <1>4, <1>5, <1>8, <1>9
<1> QED
  BY <1>6, <1>10

(* What Channel sees as delivered. *)
Delivered == IF WellFormed(rcvd) THEN CommandsOf(rcvd) ELSE <<0>>

(* How many commands have come out whole. *)
Done == Cardinality(Ends(rcvd, Len(rcvd)))

(* What has come out: the first of the accepted commands. *)
LEMMA DeliveredIs ==
  ASSUME HalInv, Carries(Stream, accepted)
  PROVE  /\ Done \in 0..Len(accepted)
         /\ Delivered = [k \in 1..Done |-> accepted[k]]
<1>1. /\ rcvd \in Seq(Part) /\ Posted \in Seq(Part) /\ Stream \in Seq(Part)
      /\ accepted \in Seq(Nat)
  BY StreamType DEF HalInv, TypeOK
<1>2. Len(rcvd) <= Len(Stream) /\ \A i \in 1..Len(rcvd) : rcvd[i] = Stream[i]
  BY <1>1, StreamBegins DEF HalInv
<1> HIDE DEF Carries
<1> QED
  BY <1>1, <1>2, PrefixCommands DEF Delivered, Done

(* The RPU reads a fragment: it is the last one of the oldest command       *)
(* inside, or none comes out.                                               *)
LEMMA CommandTaken ==
  ASSUME HalInv, Carries(Stream, accepted), RpuTake
  PROVE  \/ Delivered' = Delivered
         \/ /\ Len(Delivered) < Len(accepted)
            /\ Delivered' = Append(Delivered, accepted[Len(Delivered) + 1])
<1> DEFINE f == mem[Head(cmd_busy)]
           r == Append(rcvd, f)
           L == Len(rcvd)
<1>1. /\ cmd_busy # <<>> /\ rcvd' = r
  BY DEF RpuTake
<1>2. /\ rcvd \in Seq(Part) /\ Posted \in Seq(Part) /\ Stream \in Seq(Part)
      /\ accepted \in Seq(Nat)
  BY StreamType DEF HalInv, TypeOK
<1>3. Posted # <<>> /\ Head(Posted) = f
  <2>1. cmd_busy' = Tail(cmd_busy) /\ mem' = mem
    BY DEF RpuTake
  <2> QED
    BY <1>1, <2>1, PostedTail DEF HalInv
<1>4. f \in Part /\ Tail(Posted) \in Seq(Part)
  BY <1>2, <1>3
<1> HIDE DEF f
<1>5. /\ r \in Seq(Part) /\ Len(r) = L + 1 /\ L \in Nat
      /\ \A i \in 1..L : r[i] = rcvd[i]
  BY <1>2, <1>4
<1>6. r \o Tail(Posted) = rcvd \o Posted
  BY <1>2, <1>3, HeadMoves
<1> HIDE DEF r, L
<1>7. Len(r) <= Len(Stream) /\ \A i \in 1..Len(r) : r[i] = Stream[i]
  BY <1>4, <1>5, <1>6, StreamBegins DEF HalInv
<1> DEFINE n == Cardinality(Ends(r, Len(r)))
<1>8. /\ WellFormed(r) /\ n \in 0..Len(accepted)
      /\ CommandsOf(r) = [k \in 1..n |-> accepted[k]]
  <2> HIDE DEF Carries
  <2> QED
    BY <1>2, <1>5, <1>7, PrefixCommands
<1>9. Delivered' = [k \in 1..n |-> accepted[k]]
  <2>1. Delivered' = IF WellFormed(r) THEN CommandsOf(r) ELSE <<0>>
    BY <1>1 DEF Delivered, WellFormed, CommandsOf, Follows, Ends
  <2> QED
    BY <1>8, <2>1
<1>10. Done \in 0..Len(accepted) /\ Delivered = [k \in 1..Done |-> accepted[k]]
  BY DeliveredIs
<1>11. n = Done \/ n = Done + 1
  <2>0. L \in Nat /\ L \in 0..L /\ \A i \in 1..L : r[i] = rcvd[i]
    BY <1>5
  <2>1. Ends(r, L) = Ends(rcvd, L)
    BY <2>0, EndsAgree
  <2>2. \/ Cardinality(Ends(r, L + 1)) = Cardinality(Ends(r, L))
        \/ Cardinality(Ends(r, L + 1)) = Cardinality(Ends(r, L)) + 1
    BY <1>5, EndsNext
  <2> QED
    BY <1>5, <2>1, <2>2 DEF Done, L
<1> HIDE DEF n
<1>12. CASE n = Done
  BY <1>9, <1>10, <1>12
<1>13. CASE n = Done + 1
  <2> DEFINE D == Delivered
             d == Done
             a == accepted
  <2>1. d \in Nat /\ d + 1 \in 1..Len(a) /\ d < Len(a)
    BY <1>2, <1>8, <1>10, <1>13
  <2>2. D = [k \in 1..d |-> a[k]]
    BY <1>10
  <2>3. Delivered' = [k \in 1..(d + 1) |-> a[k]]
    BY <1>9, <1>13
  <2>4. a \in Seq(Nat)
    BY <1>2
  <2> HIDE DEF D, d, a
  <2>5. \A k \in 1..d : a[k] \in Nat
    BY <2>1, <2>4
  <2>6. D \in Seq(Nat) /\ Len(D) = d
    BY <2>1, <2>2, <2>5
  <2>7. Append(D, a[d + 1]) = [k \in 1..(d + 1) |-> IF k = d + 1 THEN a[d + 1] ELSE D[k]]
    BY <2>6, AppendShape
  <2>8. \A k \in 1..(d + 1) : k \in 1..d \/ k = d + 1
    BY <2>1
  <2>9. \A k \in 1..(d + 1) : a[k] = IF k = d + 1 THEN a[d + 1] ELSE D[k]
    BY <2>2, <2>8
  <2>10. Delivered' = Append(D, a[Len(D) + 1])
    BY <2>3, <2>6, <2>7, <2>9
  <2>11. Len(D) < Len(a)
    <3>1. Len(D) = d /\ d < Len(a)
      BY <2>1, <2>6
    <3> QED
      BY <3>1
  <2> QED
    BY <2>10, <2>11 DEF D, a
<1> QED
  BY <1>11, <1>12, <1>13

(* Only the RPU changes what has come out. *)
LEMMA OnlyRpuTakes ==
  ASSUME [Next]_vars, ~RpuTake
  PROVE  rcvd' = rcvd
<1>1. ASSUME NEW c \in Caller, Proceed(c) PROVE rcvd' = rcvd
  BY <1>1 DEF Proceed, rpuVars, CmdQueue, CmdDequeue, CmdQueueEmpty,
     ReadyWait, MsgWrite, DataWrite, MsgPost, MsgPostRx, MsgTrigger, Unlock
<1>2. ASSUME NEW c \in Caller, NEW r \in Request, Call(c, r) PROVE rcvd' = rcvd
  BY <1>2 DEF Call, rpuVars
<1>3. ASSUME NEW c \in Caller, Lock(c) \/ CmdQueueFail(c) \/ ReadyTimeout(c)
      PROVE  rcvd' = rcvd
  BY <1>3 DEF Lock, CmdQueueFail, ReadyTimeout, rpuVars
<1>4. CASE RpuNext
  BY <1>4 DEF RpuNext, RpuStart, RpuRelease, RpuStop, RpuUseRx, rpuVars
<1>5. CASE UNCHANGED vars
  BY <1>5 DEF vars, rpuVars
<1> QED
  BY <1>1, <1>2, <1>3, <1>4, <1>5 DEF Next, CallerNext

(* Accepting a command makes the accepted ones longer by one. *)
LEMMA LongerByOne ==
  ASSUME NEW S, NEW a \in Seq(S), NEW x
  PROVE  IsStrictPrefix(a, Append(a, x))
<1>1. SubSeq(a, 1, Len(a)) = SubSeq(Append(a, x), 1, Len(a))
  OBVIOUS
<1>2. Len(a) <= Len(Append(a, x)) /\ a # Append(a, x)
  OBVIOUS
<1> QED
  BY <1>1, <1>2 DEF IsStrictPrefix, IsPrefix

(* Every step of the command path is a step of the channel, or none. *)
LEMMA CommandStep == PathInv /\ [Next]_vars => [Channel!Next]_(Channel!vars)
<1> SUFFICES ASSUME PathInv, [Next]_vars PROVE [Channel!Next]_(Channel!vars)
  OBVIOUS
<1>1. /\ timeouts \in Nat /\ allocFails \in Nat
      /\ (timeouts' = timeouts \/ timeouts' = timeouts + 1)
      /\ (allocFails' = allocFails \/ allocFails' = allocFails + 1)
  BY FailuresStay DEF PathInv, HalInv
<1>2. CASE timeouts' + allocFails' > 0
  BY <1>2 DEF Channel!Next, Channel!Break
<1>3. CASE ~(timeouts' + allocFails' > 0)
  <2>1. timeouts = 0 /\ allocFails = 0 /\ timeouts' = 0 /\ allocFails' = 0
    <3>1. \A a, b, c, d \in Nat :
             (c = a \/ c = a + 1) /\ (d = b \/ d = b + 1) /\ ~(c + d > 0)
               => a = 0 /\ b = 0 /\ c = 0 /\ d = 0
      OBVIOUS
    <3>2. timeouts' \in Nat /\ allocFails' \in Nat
      BY <1>1
    <3> QED
      BY <1>1, <1>3, <3>1, <3>2
  <2>2. Carries(Stream, accepted)
    BY <2>1 DEF PathInv, StreamInv
  <2>3. LockInv'
    BY HalNext DEF PathInv, HalInv
  <2>4. /\ ~(timeouts + allocFails > 0)
        /\ (timeouts + allocFails > 0)' = (timeouts + allocFails > 0)
    BY <2>1
  <2>5. CASE RpuTake
    <3>1. accepted' = accepted
      BY <2>5 DEF RpuTake
    <3>2. CASE Delivered' = Delivered
      BY <2>4, <3>1, <3>2, Zenon DEF Channel!vars, Delivered
    <3>3. CASE /\ Len(Delivered) < Len(accepted)
               /\ Delivered' = Append(Delivered, accepted[Len(Delivered) + 1])
      <4>1. Channel!Deliver
        BY <2>4, <3>1, <3>3, Zenon DEF Channel!Deliver, Delivered
      <4> QED
        BY <4>1 DEF Channel!Next
    <3> QED
      BY <2>2, <2>5, <3>2, <3>3, CommandTaken DEF PathInv
  <2>6. CASE ~RpuTake
    <3>1. Delivered' = Delivered
      <4>1. rcvd' = rcvd
        BY <2>6, OnlyRpuTakes
      <4> QED
        BY <4>1 DEF Delivered, WellFormed, CommandsOf, Follows, Ends
    <3>2. CASE UNCHANGED <<Stream, accepted>>
      <4>1. accepted' = accepted
        BY <3>2
      <4> QED
        BY <2>4, <3>1, <4>1, Zenon DEF Channel!vars, Delivered
    <3>3. ASSUME NEW c \in Caller, NEW m \in 1..MaxFrag, Adds(c, m)
          PROVE  Channel!Accept
      <4>1. accepted' = Append(accepted, id[c]) /\ pc[c] \in {"queue", "data"}
        BY <3>3 DEF Adds
      <4>2. accepted' \in Seq(1..MaxCmds)
        BY <4>1, AcceptNumber DEF PathInv, HalInv
      <4>3. accepted \in Seq(1..MaxCmds)
        BY DEF PathInv, CountInv
      <4>4. IsStrictPrefix(accepted, accepted')
        BY <4>1, <4>3, LongerByOne
      <4>5. Channel!IsStrictPrefix(accepted, accepted')
        BY <4>4 DEF IsStrictPrefix, IsPrefix, Channel!IsStrictPrefix, Channel!IsPrefix
      <4> QED
        BY <2>4, <3>1, <4>2, <4>5, Zenon DEF Channel!Accept, Delivered
    <3> QED
      BY <2>1, <2>3, <3>2, <3>3, StreamStep DEF PathInv, Channel!Next
  <2> QED
    BY <2>5, <2>6
<1> QED
  BY <1>2, <1>3

(* And it starts as one. *)
LEMMA CommandInit == Init => Channel!Init
<1> SUFFICES ASSUME Init PROVE Channel!Init
  OBVIOUS
<1>1. PathInv
  BY PathInit
<1>2. timeouts = 0 /\ allocFails = 0 /\ accepted = <<>>
  BY DEF Init
<1>3. Carries(Stream, accepted)
  BY <1>1, <1>2 DEF PathInv, StreamInv
<1>4. Done \in 0..0 /\ Delivered = [k \in 1..Done |-> accepted[k]]
  <2>1. Len(accepted) = 0
    BY <1>2
  <2> QED
    BY <1>1, <1>3, <2>1, DeliveredIs DEF PathInv
<1>5. Delivered = <<>>
  BY <1>4
<1>6. ~(timeouts + allocFails > 0)
  BY <1>2
<1> QED
  BY <1>2, <1>5, <1>6, Zenon DEF Channel!Init, Delivered

(* The way of a command from hal_rpu_cmd_queue through cmd_q, a command     *)
(* buffer and the busy queue to the RPU is an ordered channel, for any      *)
(* number of callers, fragments, command buffers and descriptors: until a   *)
(* wait for a buffer times out or an allocation fails, every command the    *)
(* RPU has read to its end is the oldest one still inside, whole.           *)
THEOREM CommandPathIsChannel == Spec => Channel!Init /\ [][Channel!Next]_(Channel!vars)
BY CommandInit, CommandStep, PathInductive, PTL DEF Spec
=============================================================================
