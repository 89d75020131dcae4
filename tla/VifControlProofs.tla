------------------------- MODULE VifControlProofs -------------------------
(***************************************************************************)
(* Proofs about VifControl, for every value of the constants: the types of *)
(* its state, that interfaces, contexts and net devices belong together,   *)
(* that the interface counters are right, that a wait takes the answer to  *)
(* its own command, and that driver, cfg80211 and RPU agree on the type of *)
(* an interface.                                                           *)
(*                                                                         *)
(* The invariants say where each context is, what may be on its way        *)
(* between driver and RPU while a call is made or after it, and what of    *)
(* that a late wait leaves behind.                                         *)
(***************************************************************************)
EXTENDS VifControl, FiniteSetTheorems, SequenceTheorems, WellFoundedInduction, TLAPS

(* A command is of the kind its type says, and for a call that was made. *)
CommandFits(m) == /\ m.cmd \in {"NEW_INTERFACE", "SET_INTERFACE"} => m.type \in IfType
                  /\ m.cmd = "DEL_INTERFACE" => m.type = "none"
                  /\ m.call > 0
EventFits(m) == m.event # "CARRIER" => m.call > 0
QueueInv == /\ \A i \in 1..Len(cmdq) : CommandFits(cmdq[i])
            /\ \A i \in 1..Len(evtq) : EventFits(evtq[i])

(* A call that has begun is the one its place says. *)
CallInv ==
  /\ pc # "idle" => calls > 0
  /\ pc = "publish" => cur.op = "add"
  /\ pc \in {"free", "unregister", "clear"} => cur.op = "del"
  /\ pc = "set_if" => cur.op = "chg"
  /\ pc = "ifflags" => cur.op \in {"open", "close", "del"}

(* A delete of interface v has freed its context, or v is being added and   *)
(* has none yet.                                                            *)
Leaving(v) == cur.op = "del" /\ cur.vif = v /\ pc \in {"unregister", "ifflags", "clear"}
Coming(v) == pc = "publish" /\ cur.vif = v

(* Net devices and contexts belong together, each context to one interface. *)
SlotInv ==
  /\ \A v \in Vif : IF Coming(v) THEN netdev[v].registered /\ vif_ctx[v] = NULL
                                 ELSE netdev[v].registered <=> vif_ctx[v] # NULL
  /\ \A v, w \in Vif : v # w /\ vif_ctx[v] # NULL => vif_ctx[v] # vif_ctx[w]
  /\ pc # "idle" => netdev[cur.vif].registered

(* A live context has an interface, or is the one AddVif has just made.     *)
ContextInv ==
  /\ \A v \in Vif : vif_ctx[v] # NULL =>
        /\ ctx[vif_ctx[v]].state # "unused"
        /\ ctx[vif_ctx[v]].state = "live" <=> ~Leaving(v) /\ vif_ctx[v] \notin lost
  /\ \A c \in lost : ctx[c].state \notin {"unused", "live"}
  /\ \A c \in Live : (\A v \in Vif : vif_ctx[v] # c) =>
        pc = "publish" /\ ctx[c].if_type = cur.type
  /\ \A c, d \in Live : (\A v \in Vif : vif_ctx[v] \notin {c, d}) => c = d

(* The limit was checked for the type a call brings. *)
LimitInv == pc \in {"publish", "set_if"} => CheckIfLimit(cur.type)

(* The driver's and cfg80211's idea of an interface are the same. *)
DriverTypes ==
  \A v \in Registered :
     netdev[v].iftype = IF Coming(v) THEN cur.type ELSE ctx[vif_ctx[v]].if_type

(* Commands and events of a kind for interface v that are on their way. *)
Sent(kind, v) == {i \in 1..Len(cmdq) : cmdq[i].cmd = kind /\ cmdq[i].vif = v}
Answers(kind, v) == {i \in 1..Len(evtq) : evtq[i].event = kind /\ evtq[i].vif = v}
None(cmd, event, v) == Sent(cmd, v) = {} /\ Answers(event, v) = {}

(* At most one of them, and it is of the call being made. *)
AtMostOne(cmd, event, v) ==
  /\ \A i, j \in Sent(cmd, v) : i = j
  /\ \A i, j \in Answers(event, v) : i = j
  /\ Sent(cmd, v) = {} \/ Answers(event, v) = {}
  /\ \A i \in Sent(cmd, v) : cmdq[i].call = calls
  /\ \A i \in Answers(event, v) : evtq[i].call = calls

(* A change of interface v is waited for, or a change of its state. *)
Changing(v) == pc = "set_if" /\ cur.vif = v
Switching(v) == pc = "ifflags" /\ cur.vif = v

(* Unless a wait on interface v has given up, a command is on its way only  *)
(* while its answer is waited for, or the answer is, or it has come.        *)
ChangeWaited(v) ==
  IF Changing(v)
  THEN /\ AtMostOne("SET_INTERFACE", "SET_INTERFACE", v)
       /\ netdev[v].event_set_if # 0 =>
             /\ netdev[v].event_set_if = calls
             /\ None("SET_INTERFACE", "SET_INTERFACE", v)
  ELSE None("SET_INTERFACE", "SET_INTERFACE", v) /\ netdev[v].event_set_if = 0
ChangeInv == \A v \in Vif \ late : ChangeWaited(v)

SwitchWaited(v) ==
  IF Switching(v)
  THEN /\ AtMostOne("SET_IFFLAGS", "IFFLAGS_STATUS", v)
       /\ ctx[vif_ctx[v]].ifflags # 0 =>
             /\ ctx[vif_ctx[v]].ifflags = calls
             /\ None("SET_IFFLAGS", "IFFLAGS_STATUS", v)
  ELSE None("SET_IFFLAGS", "IFFLAGS_STATUS", v)
SwitchInv == \A v \in Vif \ late : SwitchWaited(v)

(* The commands on their way that make or delete interface v. *)
Life(v) == Sent("NEW_INTERFACE", v) \cup Sent("DEL_INTERFACE", v)

(* What the RPU has, or will have once it has taken these, is what cfg80211 *)
(* and the driver think, but for a change that is being made: that comes    *)
(* after these and is of the type asked for, and once answered the RPU has  *)
(* that type unless it refused.                                             *)
RpuTold(v) ==
  /\ \A i \in Sent("SET_INTERFACE", v) :
        /\ cmdq[i].type = cur.type
        /\ \A j \in Life(v) : j < i
        /\ Life(v) = {} => rpu[v].type = netdev[v].iftype
  /\ \A i \in Answers("SET_INTERFACE", v) :
        /\ Life(v) = {}
        /\ rpu[v].type = IF evtq[i].error THEN netdev[v].iftype ELSE cur.type
  /\ netdev[v].event_set_if # 0 =>
        /\ Life(v) = {}
        /\ rpu[v].type = IF netdev[v].status_set_if THEN netdev[v].iftype ELSE cur.type
RpuAgrees(v) ==
  /\ \A i \in Life(v) : (\A j \in Life(v) : j <= i) =>
        cmdq[i].cmd = "NEW_INTERFACE" /\ cmdq[i].type = netdev[v].iftype
  /\ ~Changing(v) /\ Life(v) = {} => rpu[v].type = netdev[v].iftype
  /\ Changing(v) => RpuTold(v)
Deleting(v) == pc # "idle" /\ cur.op = "del" /\ cur.vif = v
RpuTypes == \A v \in Registered \ late : ~Deleting(v) => RpuAgrees(v)

(* A step that neither sends nor takes a command of this kind for v, or an  *)
(* event: what there is of them stays in its place or moves up by one.      *)
SentSame(kind, v) ==
  \E d \in {0, 1} : \A i \in Nat :
     /\ i \in Sent(kind, v)' <=> i + d \in Sent(kind, v)
     /\ i \in Sent(kind, v)' => cmdq'[i] = cmdq[i + d]
AnswersSame(kind, v) ==
  \E d \in {0, 1} : \A i \in Nat :
     /\ i \in Answers(kind, v)' <=> i + d \in Answers(kind, v)
     /\ i \in Answers(kind, v)' => evtq'[i] = evtq[i + d]

(* What makes, deletes or changes v stays in its place or moves up by one.  *)
QueueShift(v) ==
  \E d \in {0, 1} : \A i \in Nat :
     /\ i \in Life(v)' <=> i + d \in Life(v)
     /\ i \in Sent("SET_INTERFACE", v)' <=> i + d \in Sent("SET_INTERFACE", v)
     /\ i \in Life(v)' \/ i \in Sent("SET_INTERFACE", v)' => cmdq'[i] = cmdq[i + d]

(* A step that leaves interfaces, contexts and net devices what they are,   *)
(* and makes no delete or add of a call that was none.                      *)
Unmoved ==
  /\ UNCHANGED <<vif_ctx, num_sta, num_ap, lost>>
  /\ \A c \in Context : /\ ctx'[c].state = ctx[c].state
                        /\ ctx'[c].if_type = ctx[c].if_type
  /\ \A v \in Vif : /\ netdev'[v].registered = netdev[v].registered
                    /\ netdev'[v].iftype = netdev[v].iftype
                    /\ Coming(v)' <=> Coming(v)
                    /\ Leaving(v)' <=> Leaving(v)
  /\ pc = "publish" \/ pc' = "publish" => pc' = pc /\ cur' = cur
  /\ pc' # "idle" => netdev[cur'.vif].registered
  /\ pc' = "set_if" => CheckIfLimit(cur'.type)

(* The other steps. *)
Moves == \/ \E t \in IfType : AddVif(t)
         \/ AddVifPublish
         \/ \E v \in Vif : DelVifFails(v)
         \/ DelVifFree
         \/ DelVifClear
         \/ ChgVifAnswered

(* The contents of a context, and of a net device. *)
States == {"unused", "live", "freed", "freed twice"}
CallNumber == 0..MaxCalls
CtxSet == [state : States, if_type : IfType, ifflags : CallNumber]
NetdevSet == [registered : BOOLEAN, up : BOOLEAN, iftype : IfType,
              event_set_if : CallNumber, status_set_if : BOOLEAN, carrier : BOOLEAN]

(* The types of a call, and of what is between driver and RPU. *)
CallTypes ==
  /\ pc \in {"idle", "publish", "free", "unregister", "clear", "set_if", "ifflags"}
  /\ cur \in [op : {"none", "add", "del", "chg", "open", "close"}, vif : Vif,
              type : IfType, sent : BOOLEAN]
  /\ result \in {"none", "ok", "fail"} /\ answer \in CallNumber
  /\ fault \in {"none", "mac_addr", "null", "freed"}
  /\ calls \in CallNumber /\ fails \in 0..MaxFails /\ carriers \in 0..MaxCarrier
  /\ late \in SUBSET Vif
QueueTypes == cmdq \in Seq(CommandSet) /\ evtq \in Seq(EventSet)
RpuSet == [type : IfType \cup {"none"}, up : BOOLEAN]

(* The first layer: what the driver has. *)
HeldInv == /\ TypeOK /\ QueueInv /\ CallInv /\ SlotInv /\ ContextInv
           /\ LimitInv /\ DriverTypes /\ CountsMatch

-----------------------------------------------------------------------------
(* A set of natural numbers that is not empty has a least one. *)
LEMMA MinByOrder ==
  ASSUME NEW R, IsWellFoundedOn(R, Nat),
         \A x, y \in Nat : <<y, x>> \in R <=> y < x,
         NEW T \in SUBSET Nat, T # {}
  PROVE \E x \in T : \A y \in T : x <= y
<1>1. PICK x \in T : \A y \in T : ~(<<y, x>> \in R)
  BY WFMin
<1>2. ASSUME NEW y \in T PROVE x <= y
  <2>1. <<y, x>> \notin R
    BY <1>1
  <2>2. x \in Nat /\ y \in Nat
    OBVIOUS
  <2> QED BY <2>1, <2>2
<1> QED BY <1>2

LEMMA LeastExists ==
  ASSUME NEW T \in SUBSET Nat, T # {}
  PROVE \E x \in T : \A y \in T : x <= y
<1> DEFINE R == OpToRel(<, Nat)
<1>1. IsWellFoundedOn(R, Nat)
  BY NatLessThanWellFounded
<1>2. \A x, y \in Nat : <<y, x>> \in R <=> y < x
  BY DEF OpToRel
<1> HIDE DEF R
<1> QED BY <1>1, <1>2, MinByOrder

(* The interfaces are natural numbers. *)
LEMMA VifNat == IsFiniteSet(Vif) /\ Vif \subseteq Nat /\ 0 \in Vif
<1>1. Cardinality(Vif) \in Nat
  BY FS_CardinalityType, VifAssumption
<1> QED BY <1>1, VifAssumption

(* vif_idx_get returns an empty slot when there is one. *)
LEMMA FreeSlotFound ==
  ASSUME FreeSlots # {}
  PROVE VifIdxGet \in Vif /\ vif_ctx[VifIdxGet] = NULL
<1>1. FreeSlots \in SUBSET Nat
  BY VifNat DEF FreeSlots
<1>2. \E v \in FreeSlots : \A w \in FreeSlots : v <= w
  BY <1>1, LeastExists
<1>3. VifIdxGet \in FreeSlots
  BY <1>2 DEF VifIdxGet
<1> QED BY <1>3 DEF FreeSlots

(* The allocator returns memory that is not in use when there is some. *)
LEMMA UnusedFound ==
  ASSUME \E c \in Context : ctx[c].state = "unused"
  PROVE Unused \in Context /\ ctx[Unused].state = "unused"
BY DEF Unused

(* What is left of a queue when its head is taken, and what it is with one  *)
(* more at its end.                                                         *)
LEMMA TailOf ==
  ASSUME NEW S, NEW q \in Seq(S), q # <<>>
  PROVE /\ Len(q) \in Nat /\ Len(q) > 0
        /\ Head(q) = q[1] /\ q[1] \in S
        /\ Tail(q) \in Seq(S) /\ Len(Tail(q)) = Len(q) - 1
        /\ \A i \in 1..(Len(q) - 1) : Tail(q)[i] = q[i + 1]
<1>1. Len(q) \in Nat /\ Len(q) > 0
  OBVIOUS
<1>2. Head(q) = q[1] /\ q[1] \in S
  BY <1>1, ElementOfSeq
<1>3. Tail(q) \in Seq(S) /\ Len(Tail(q)) = Len(q) - 1
  OBVIOUS
<1>4. \A i \in 1..(Len(q) - 1) : Tail(q)[i] = q[i + 1]
  OBVIOUS
<1> QED BY <1>1, <1>2, <1>3, <1>4

LEMMA AppendOf ==
  ASSUME NEW S, NEW q \in Seq(S), NEW m \in S
  PROVE /\ Len(q) \in Nat /\ Append(q, m) \in Seq(S)
        /\ Len(Append(q, m)) = Len(q) + 1
        /\ Append(q, m)[Len(q) + 1] = m
        /\ \A i \in 1..Len(q) : Append(q, m)[i] = q[i]
OBVIOUS

-----------------------------------------------------------------------------
(* Calls that were made get a number, and a failure is counted. *)
LEMMA Numbers ==
  ASSUME TypeOK
  PROVE /\ MaxCalls \in Nat /\ calls \in Nat /\ fails \in Nat /\ carriers \in Nat
        /\ calls \in 0..MaxCalls
        /\ calls < MaxCalls => calls + 1 \in 0..MaxCalls
        /\ fails < MaxFails => fails + 1 \in 0..MaxFails
        /\ carriers < MaxCarrier => carriers + 1 \in 0..MaxCarrier
<1>1. calls \in 0..MaxCalls /\ fails \in 0..MaxFails /\ carriers \in 0..MaxCarrier
  BY DEF TypeOK
<1> QED BY <1>1, BoundAssumption

LEMMA Typed ==
  ASSUME TypeOK
  PROVE /\ ctx \in [Context -> CtxSet] /\ netdev \in [Vif -> NetdevSet]
        /\ vif_ctx \in [Vif -> Context \cup {NULL}] /\ lost \in SUBSET Context
        /\ cur.vif \in Vif /\ cur.type \in IfType /\ cur.sent \in BOOLEAN
        /\ cmdq \in Seq(CommandSet) /\ evtq \in Seq(EventSet)
        /\ calls \in CallNumber
        /\ rpu \in [Vif -> RpuSet] /\ CallTypes /\ QueueTypes
BY DEF TypeOK, CtxSet, NetdevSet, States, CallNumber, RpuSet, CallTypes, QueueTypes

LEMMA CallNumbers ==
  /\ CallNumber \subseteq Nat /\ 0 \in CallNumber
  /\ \A n \in CallNumber : n < MaxCalls => n + 1 \in CallNumber
BY BoundAssumption DEF CallNumber

(* Contexts and net devices with one field of one of them changed. *)
LEMMA CtxUpdated ==
  ASSUME NEW f \in [Context -> CtxSet], NEW c
  PROVE /\ \A s \in States : [f EXCEPT ![c].state = s] \in [Context -> CtxSet]
        /\ \A t \in IfType : [f EXCEPT ![c].if_type = t] \in [Context -> CtxSet]
        /\ \A n \in CallNumber : [f EXCEPT ![c].ifflags = n] \in [Context -> CtxSet]
BY DEF CtxSet

LEMMA CtxFreed ==
  ASSUME TypeOK, NEW c
  PROVE Freed(c) \in [Context -> CtxSet]
<1>1. ctx \in [Context -> CtxSet]
  BY Typed
<1>2. PICK s \in States : Freed(c) = [ctx EXCEPT ![c].state = s]
  BY <1>1 DEF Freed, States
<1> QED BY <1>1, <1>2, CtxUpdated

LEMMA NetdevUpdated ==
  ASSUME NEW f \in [Vif -> NetdevSet], NEW v
  PROVE /\ \A r \in NetdevSet : [f EXCEPT ![v] = r] \in [Vif -> NetdevSet]
        /\ \A b \in BOOLEAN : /\ [f EXCEPT ![v].up = b] \in [Vif -> NetdevSet]
                              /\ [f EXCEPT ![v].carrier = b] \in [Vif -> NetdevSet]
        /\ \A n \in CallNumber : [f EXCEPT ![v].event_set_if = n] \in [Vif -> NetdevSet]
BY DEF NetdevSet

LEMMA NetdevNew ==
  NoNetdev \in NetdevSet /\ \A t \in IfType : NewNetdev(t) \in NetdevSet
<1>1. NoNetdev \in NetdevSet
  BY CallNumbers DEF NoNetdev, NetdevSet, IfType
<1>2. ASSUME NEW t \in IfType PROVE NewNetdev(t) \in NetdevSet
  BY <1>1 DEF NewNetdev, NetdevSet
<1> QED BY <1>1, <1>2

(* The interface of a call that is being made has a context, but for an add. *)
LEMMA CallHasContext ==
  ASSUME TypeOK, SlotInv, pc \notin {"idle", "publish"}
  PROVE vif_ctx[cur.vif] \in Context /\ netdev[cur.vif].registered
<1>1. cur.vif \in Vif /\ vif_ctx \in [Vif -> Context \cup {NULL}]
  BY Typed
<1> QED BY <1>1 DEF SlotInv, Coming

(* So has a net device between two calls. *)
LEMMA NetdevHasContext ==
  ASSUME TypeOK, SlotInv, pc = "idle", NEW v \in Vif, netdev[v].registered
  PROVE vif_ctx[v] \in Context
<1>1. vif_ctx \in [Vif -> Context \cup {NULL}]
  BY Typed
<1> QED BY <1>1 DEF SlotInv, Coming

(* The command and the event at the head are of the kinds there are. *)
LEMMA HeadCommand ==
  ASSUME TypeOK, cmdq # <<>>
  PROVE Command \in CommandSet /\ Command = cmdq[1]
<1>1. cmdq \in Seq(CommandSet)
  BY Typed
<1> QED BY <1>1, TailOf DEF Command

LEMMA HeadEvent ==
  ASSUME TypeOK, evtq # <<>>
  PROVE Event \in EventSet /\ Event = evtq[1]
<1>1. evtq \in Seq(EventSet)
  BY Typed
<1> QED BY <1>1, TailOf DEF Event

-----------------------------------------------------------------------------
(* Types, one group of variables after the other. *)
LEMMA CtxTyped ==
  ASSUME TypeOK, [Next]_vars
  PROVE ctx' \in [Context -> CtxSet]
<1> DEFINE Goal == ctx' \in [Context -> CtxSet]
<1>0. ctx \in [Context -> CtxSet] /\ 0 \in CallNumber /\ cur.type \in IfType
  BY Typed, CallNumbers
<1>1. ASSUME NEW t \in IfType, AddVif(t) PROVE Goal
  <2>1. [state |-> "live", if_type |-> t, ifflags |-> 0] \in CtxSet
    BY <1>0 DEF CtxSet, States
  <2> QED BY <1>0, <1>1, <2>1 DEF AddVif
<1>2. ASSUME NEW v \in Vif, DelVifFails(v) PROVE Goal
  BY <1>2, CtxFreed DEF DelVifFails
<1>3. CASE DelVifFree
  BY <1>3, CtxFreed DEF DelVifFree
<1>4. CASE DelVifClose
  BY <1>0, <1>4, CtxUpdated DEF DelVifClose
<1>5. CASE DelVifClear
  BY <1>5, CtxFreed DEF DelVifClear, ClearCtx
<1>6. CASE ChgVifAnswered
  BY <1>0, <1>6, CtxUpdated DEF ChgVifAnswered, UpdateIfType
<1>7. ASSUME NEW v \in Vif, NEW op \in {"open", "close"}, ChgVifState(v, op) PROVE Goal
  BY <1>0, <1>7, CtxUpdated DEF ChgVifState
<1>8. CASE IfflagsStatus
  <2>1. Event.call \in CallNumber
    BY <1>8, HeadEvent DEF IfflagsStatus, NextEvent, EventSet, CallNumber
  <2> QED BY <1>0, <1>8, <2>1, CtxUpdated DEF IfflagsStatus
<1>9. CASE UNCHANGED ctx
  BY <1>0, <1>9
<1> QED
  BY <1>1, <1>2, <1>3, <1>4, <1>5, <1>6, <1>7, <1>8, <1>9
  DEF Next, Call, Proceed, EventTasklet, RpuNext, vars, vifVars, MacAddr, AddVifFails,
      AddVifPublish, DelVifRefused, DelVif, ChgVifFails, ChgVif, ChgVifTimeout,
      ChgVifStateFails, ChgVifStateAnswered, ChgVifStateTimeout, UseOfFreed,
      SetIfCallback, CarrierEvent, EventFault, RpuNewInterface, RpuSetInterface,
      RpuSetIfflags, RpuCarrier, NextCommand

LEMMA SlotTyped ==
  ASSUME TypeOK, SlotInv, [Next]_vars
  PROVE vif_ctx' \in [Vif -> Context \cup {NULL}] /\ lost' \in SUBSET Context
<1> DEFINE Goal == vif_ctx' \in [Vif -> Context \cup {NULL}] /\ lost' \in SUBSET Context
<1>0. vif_ctx \in [Vif -> Context \cup {NULL}] /\ lost \in SUBSET Context
  BY Typed
<1>1. CASE AddVifPublish
  BY <1>0, <1>1 DEF AddVifPublish, Live
<1>2. ASSUME NEW v \in Vif, DelVifFails(v) PROVE Goal
  <2>1. vif_ctx[v] \in Context
    BY <1>2, NetdevHasContext DEF DelVifFails, Refuse
  <2> QED BY <1>0, <1>2, <2>1 DEF DelVifFails
<1>3. CASE DelVifClear
  BY <1>0, <1>3 DEF DelVifClear, ClearCtx
<1>4. CASE UNCHANGED <<vif_ctx, lost>>
  BY <1>0, <1>4
<1> QED
  BY <1>1, <1>2, <1>3, <1>4
  DEF Next, Call, Proceed, EventTasklet, RpuNext, vars, vifVars, MacAddr, AddVifFails,
      AddVif, DelVifRefused, DelVif, DelVifFree, DelVifClose, ChgVifFails, ChgVif,
      ChgVifAnswered, ChgVifTimeout, ChgVifState, ChgVifStateFails,
      ChgVifStateAnswered, ChgVifStateTimeout, UseOfFreed, IfflagsStatus,
      SetIfCallback, CarrierEvent, EventFault, RpuNewInterface, RpuSetInterface,
      RpuSetIfflags, RpuCarrier, NextCommand

LEMMA NetdevTyped ==
  ASSUME TypeOK, [Next]_vars
  PROVE netdev' \in [Vif -> NetdevSet]
<1> DEFINE Goal == netdev' \in [Vif -> NetdevSet]
<1>0. /\ netdev \in [Vif -> NetdevSet] /\ 0 \in CallNumber
      /\ cur.type \in IfType /\ cur.vif \in Vif
  BY Typed, CallNumbers
<1>1. ASSUME NEW t \in IfType, AddVif(t) PROVE Goal
  BY <1>0, <1>1, NetdevNew, NetdevUpdated DEF AddVif
<1>2. CASE DelVifClose
  BY <1>0, <1>2, NetdevUpdated DEF DelVifClose
<1>3. CASE DelVifClear
  BY <1>0, <1>3, NetdevNew, NetdevUpdated DEF DelVifClear
<1>4. ASSUME NEW v \in Vif, NEW t \in IfType, ChgVifFails(v, t) PROVE Goal
  BY <1>0, <1>4, NetdevUpdated DEF ChgVifFails
<1>5. CASE ChgVifAnswered
  <2> DEFINE old == netdev[cur.vif]
             new == [old EXCEPT !.event_set_if = 0,
                                !.iftype = IF old.status_set_if THEN @ ELSE cur.type]
  <2>1. old \in NetdevSet
    BY <1>0
  <2>2. new \in NetdevSet
    BY <1>0, <2>1 DEF NetdevSet
  <2>3. netdev' = [netdev EXCEPT ![cur.vif] = new]
    BY <1>0, <1>5 DEF ChgVifAnswered
  <2> QED BY <1>0, <2>2, <2>3, NetdevUpdated
<1>6. ASSUME NEW v \in Vif, NEW op \in {"open", "close"}, ChgVifStateFails(v, op)
      PROVE Goal
  BY <1>0, <1>6, NetdevUpdated DEF ChgVifStateFails
<1>7. ASSUME NEW ok \in BOOLEAN, StateDone(ok) PROVE Goal
  <2> DEFINE old == netdev[cur.vif]
             new == [old EXCEPT !.up = cur.op = "open" /\ ok,
                                !.carrier = @ /\ ~(ok /\ cur.op # "open")]
  <2>1. old \in NetdevSet
    BY <1>0
  <2>2. new \in NetdevSet
    BY <1>0, <2>1 DEF NetdevSet
  <2>3. netdev' = [netdev EXCEPT ![cur.vif] = new]
    BY <1>0, <1>7 DEF StateDone
  <2> QED BY <1>0, <2>2, <2>3, NetdevUpdated
<1>8. CASE ChgVifStateAnswered \/ ChgVifStateTimeout
  BY <1>7, <1>8, Typed DEF ChgVifStateAnswered, ChgVifStateTimeout
<1>9. CASE SetIfCallback
  <2>1. Event.call \in CallNumber /\ Event.error \in BOOLEAN /\ Event.vif \in Vif
    BY <1>9, HeadEvent DEF SetIfCallback, NextEvent, EventSet, CallNumber
  <2> DEFINE old == netdev[Event.vif]
             new == IF old.registered
                    THEN [old EXCEPT !.event_set_if = Event.call,
                                     !.status_set_if = Event.error]
                    ELSE old
  <2>2. new \in NetdevSet
    BY <1>0, <2>1 DEF NetdevSet
  <2>3. netdev' = [netdev EXCEPT ![Event.vif] = new]
    BY <1>0, <1>9 DEF SetIfCallback
  <2> QED BY <1>0, <2>2, <2>3, NetdevUpdated
<1>10. CASE CarrierEvent
  <2>1. \E b \in BOOLEAN : netdev' = [netdev EXCEPT ![Event.vif].carrier = b]
    BY <1>10 DEF CarrierEvent
  <2>2. PICK b \in BOOLEAN : netdev' = [netdev EXCEPT ![Event.vif].carrier = b]
    BY <2>1
  <2>3. [netdev EXCEPT ![Event.vif].carrier = b] \in [Vif -> NetdevSet]
    BY <1>0, NetdevUpdated
  <2> QED BY <2>2, <2>3
<1>11. CASE UNCHANGED netdev
  BY <1>0, <1>11
<1> QED
  BY <1>1, <1>2, <1>3, <1>4, <1>5, <1>6, <1>8, <1>9, <1>10, <1>11
  DEF Next, Call, Proceed, EventTasklet, RpuNext, vars, MacAddr, AddVifFails,
      AddVifPublish, DelVifRefused, DelVif, DelVifFails, DelVifFree, ChgVif,
      ChgVifTimeout, ChgVifState, UseOfFreed, IfflagsStatus, EventFault,
      RpuNewInterface, RpuSetInterface, RpuSetIfflags, RpuCarrier, NextCommand

LEMMA CallTyped ==
  ASSUME TypeOK, CallInv, SlotInv, [Next]_vars
  PROVE CallTypes'
<1>0. /\ CallTypes /\ 0 \in CallNumber /\ 0 \in Vif
      /\ calls < MaxCalls => calls + 1 \in CallNumber
      /\ fails < MaxFails => fails + 1 \in 0..MaxFails
      /\ carriers < MaxCarrier => carriers + 1 \in 0..MaxCarrier
  BY Typed, CallNumbers, Numbers, VifNat
<1>1. ASSUME NEW t \in IfType, MacAddr(t) PROVE CallTypes'
  BY <1>0, <1>1, FreeSlotFound DEF MacAddr, CallTypes
<1>2. ASSUME NEW t \in IfType, AddVifFails(t) PROVE CallTypes'
  BY <1>0, <1>2 DEF AddVifFails, Refuse, Fail, CallTypes
<1>3. ASSUME NEW t \in IfType, AddVif(t) PROVE CallTypes'
  BY <1>0, <1>3, FreeSlotFound DEF AddVif, Start, CallTypes
<1>4. CASE DelVifRefused
  <2>1. netdev[0].iftype \in IfType
    BY <1>0, Typed DEF NetdevSet
  <2> QED BY <1>0, <1>4, <2>1 DEF DelVifRefused, Refuse, CallTypes
<1>5. ASSUME NEW v \in Vif, DelVif(v) \/ DelVifFails(v) \/ UseOfFreed(v) PROVE CallTypes'
  <2>1. netdev[v].iftype \in IfType
    BY <1>0, Typed DEF NetdevSet
  <2>2. CASE DelVif(v)
    BY <1>0, <2>1, <2>2 DEF DelVif, Start, CallTypes
  <2>3. CASE DelVifFails(v)
    BY <1>0, <2>1, <2>3 DEF DelVifFails, Refuse, Fail, CallTypes
  <2>4. CASE UseOfFreed(v)
    BY <1>0, <2>4 DEF UseOfFreed, CallTypes
  <2> QED BY <1>5, <2>2, <2>3, <2>4
<1>6. ASSUME NEW v \in Vif, NEW t \in IfType, ChgVif(v, t) \/ ChgVifFails(v, t)
      PROVE CallTypes'
  <2>1. CASE ChgVif(v, t)
    BY <1>0, <2>1 DEF ChgVif, Start, CallTypes
  <2>2. CASE ChgVifFails(v, t)
    BY <1>0, <2>2 DEF ChgVifFails, Refuse, Fail, CallTypes
  <2> QED BY <1>6, <2>1, <2>2
<1>7. ASSUME NEW v \in Vif, NEW op \in {"open", "close"},
             ChgVifState(v, op) \/ ChgVifStateFails(v, op)
      PROVE CallTypes'
  <2>1. netdev[v].iftype \in IfType
    BY <1>0, Typed DEF NetdevSet
  <2>2. CASE ChgVifState(v, op)
    <3>1. PICK s \in BOOLEAN :
            /\ cur' = [op |-> op, vif |-> v, type |-> netdev[v].iftype, sent |-> s]
            /\ fails' = fails \/ (fails < MaxFails /\ fails' = fails + 1)
      BY <2>2 DEF ChgVifState, Fail
    <3>2. cur' \in [op : {"none", "add", "del", "chg", "open", "close"}, vif : Vif,
                    type : IfType, sent : BOOLEAN]
      BY <2>1, <3>1
    <3> QED BY <1>0, <2>2, <3>1, <3>2 DEF ChgVifState, CallTypes
  <2>3. CASE ChgVifStateFails(v, op)
    BY <1>0, <2>1, <2>3 DEF ChgVifStateFails, Refuse, Fail, CallTypes
  <2> QED BY <1>7, <2>2, <2>3
<1>8. CASE AddVifPublish \/ DelVifFree \/ DelVifClose \/ DelVifClear \/ ChgVifTimeout
  BY <1>0, <1>8 DEF AddVifPublish, DelVifFree, DelVifClose, DelVifClear, ChgVifTimeout,
     Return, CallTypes
<1>9. CASE ChgVifAnswered
  <2>1. netdev[cur.vif].event_set_if \in CallNumber
    BY <1>0, Typed DEF NetdevSet
  <2> QED BY <1>0, <1>9, <2>1 DEF ChgVifAnswered, Return, CallTypes
<1>10. CASE ChgVifStateAnswered \/ ChgVifStateTimeout
  <2>1. vif_ctx[cur.vif] \in Context
    BY <1>10, CallHasContext DEF ChgVifStateAnswered, ChgVifStateTimeout, At
  <2>2. ctx[vif_ctx[cur.vif]].ifflags \in CallNumber
    BY <2>1, Typed DEF CtxSet
  <2> QED BY <1>0, <1>10, <2>2
          DEF ChgVifStateAnswered, ChgVifStateTimeout, StateDone, Return, CallTypes
<1>11. CASE EventTasklet
  BY <1>0, <1>11 DEF EventTasklet, IfflagsStatus, SetIfCallback, CarrierEvent,
     EventFault, callVars, CallTypes
<1>12. CASE RpuNext
  BY <1>0, <1>12 DEF RpuNext, RpuNewInterface, RpuSetInterface, RpuSetIfflags,
     RpuCarrier, NextCommand, callVars, CallTypes
<1>13. CASE UNCHANGED vars
  BY <1>0, <1>13 DEF vars, callVars, CallTypes
<1> QED
  BY <1>1, <1>2, <1>3, <1>4, <1>5, <1>6, <1>7, <1>8, <1>9, <1>10, <1>11, <1>12, <1>13
  DEF Next, Call, Proceed

LEMMA QueueTyped ==
  ASSUME TypeOK, CallInv, SlotInv, [Next]_vars
  PROVE QueueTypes'
<1>0. /\ cmdq \in Seq(CommandSet) /\ evtq \in Seq(EventSet)
      /\ calls' \in CallNumber /\ cur.vif \in Vif
  BY Typed, CallTyped DEF CallTypes
<1>1. ASSUME NEW cmd \in {"NEW_INTERFACE", "DEL_INTERFACE", "SET_INTERFACE", "SET_IFFLAGS"},
             NEW v \in Vif, NEW t \in IfType \cup {"none", "up", "down"},
             UmacCmdCfg(cmd, v, t)
      PROVE cmdq' \in Seq(CommandSet)
  <2>1. [cmd |-> cmd, vif |-> v, type |-> t, call |-> calls'] \in CommandSet
    BY <1>0 DEF CommandSet, CallNumber
  <2> QED BY <1>0, <1>1, <2>1, AppendOf DEF UmacCmdCfg
<1>2. ASSUME NEW event \in {"SET_INTERFACE", "IFFLAGS_STATUS"}, NEW error \in BOOLEAN,
             Reply(event, error), NextCommand
      PROVE evtq' \in Seq(EventSet)
  <2>1. Command \in CommandSet
    BY <1>2, HeadCommand DEF NextCommand
  <2> DEFINE e == [event |-> event, vif |-> Command.vif, error |-> error,
                   call |-> Command.call]
  <2>2. e \in EventSet
    BY <2>1 DEF EventSet, CommandSet
  <2>3. evtq' = Append(evtq, e)
    BY <1>2 DEF Reply
  <2> HIDE DEF e
  <2> QED BY <1>0, <2>2, <2>3, AppendOf
<1>3. ASSUME NEW t \in IfType, AddVif(t) PROVE QueueTypes'
  BY <1>0, <1>1, <1>3, FreeSlotFound DEF AddVif, QueueTypes
<1>4. ASSUME NEW v \in Vif, DelVif(v) PROVE QueueTypes'
  BY <1>0, <1>1, <1>4 DEF DelVif, QueueTypes
<1>5. ASSUME NEW v \in Vif, NEW t \in IfType, ChgVif(v, t) PROVE QueueTypes'
  BY <1>0, <1>1, <1>5 DEF ChgVif, QueueTypes
<1>6. ASSUME NEW v \in Vif, NEW op \in {"open", "close"}, ChgVifState(v, op)
      PROVE QueueTypes'
  <2>1. cmdq' \in Seq(CommandSet)
    BY <1>0, <1>1, <1>6 DEF ChgVifState
  <2> QED BY <1>0, <1>6, <2>1 DEF ChgVifState, QueueTypes
<1>7. CASE DelVifClose
  BY <1>0, <1>1, <1>7 DEF DelVifClose, QueueTypes
<1>8. CASE EventTasklet
  <2>1. evtq # <<>> /\ evtq' = Tail(evtq) /\ cmdq' = cmdq
    BY <1>8 DEF EventTasklet, IfflagsStatus, SetIfCallback, CarrierEvent, EventFault,
       NextEvent
  <2> QED BY <1>0, <2>1, TailOf DEF QueueTypes
<1>9. ASSUME NextCommand PROVE cmdq' \in Seq(CommandSet)
  BY <1>0, <1>9, TailOf DEF NextCommand
<1>10. CASE RpuNewInterface \/ RpuSetInterface \/ RpuSetIfflags
  BY <1>0, <1>2, <1>9, <1>10
  DEF RpuNewInterface, RpuSetInterface, RpuSetIfflags, QueueTypes
<1>11. CASE RpuCarrier
  <2>1. PICK v \in Vif, off \in BOOLEAN :
            evtq' = Append(evtq, [event |-> "CARRIER", vif |-> v, error |-> off,
                                  call |-> 0])
    BY <1>11 DEF RpuCarrier
  <2>2. [event |-> "CARRIER", vif |-> v, error |-> off, call |-> 0] \in EventSet
    BY CallNumbers DEF EventSet, CallNumber
  <2> QED BY <1>0, <1>11, <2>1, <2>2, AppendOf DEF RpuCarrier, QueueTypes
<1>12. CASE UNCHANGED <<cmdq, evtq>>
  BY <1>0, <1>12 DEF QueueTypes
<1> QED
  BY <1>3, <1>4, <1>5, <1>6, <1>7, <1>8, <1>10, <1>11, <1>12
  DEF Next, Call, Proceed, RpuNext, vars, MacAddr, AddVifFails, AddVifPublish,
      DelVifRefused, DelVifFails, DelVifFree, DelVifClear, ChgVifFails, ChgVifAnswered,
      ChgVifTimeout, ChgVifStateFails, ChgVifStateAnswered, ChgVifStateTimeout,
      UseOfFreed

LEMMA RpuTyped ==
  ASSUME TypeOK, QueueInv, [Next]_vars
  PROVE rpu' \in [Vif -> RpuSet]
<1>0. rpu \in [Vif -> RpuSet]
  BY Typed
<1>1. CASE RpuNewInterface
  <2>1. Command \in CommandSet /\ Command = cmdq[1] /\ Len(cmdq) \in Nat /\ Len(cmdq) > 0
    BY <1>1, HeadCommand, TailOf, Typed DEF RpuNewInterface, NextCommand
  <2>2. Command.type \in IfType \cup {"none"}
    BY <1>1, <2>1 DEF QueueInv, CommandFits, RpuNewInterface
  <2>3. [type |-> Command.type, up |-> FALSE] \in RpuSet
    BY <2>2 DEF RpuSet
  <2> QED BY <1>0, <1>1, <2>3 DEF RpuNewInterface
<1>2. CASE RpuSetInterface
  <2>1. Command \in CommandSet /\ Command = cmdq[1] /\ Len(cmdq) \in Nat /\ Len(cmdq) > 0
    BY <1>2, HeadCommand, TailOf, Typed DEF RpuSetInterface, NextCommand
  <2>2. Command.type \in IfType
    BY <1>2, <2>1 DEF QueueInv, CommandFits, RpuSetInterface
  <2>3. [rpu EXCEPT ![Command.vif].type = Command.type] \in [Vif -> RpuSet]
    BY <1>0, <2>2 DEF RpuSet
  <2> QED BY <1>0, <1>2, <2>3 DEF RpuSetInterface
<1>3. CASE RpuSetIfflags
  <2>1. \A b \in BOOLEAN : [rpu EXCEPT ![Command.vif].up = b] \in [Vif -> RpuSet]
    BY <1>0 DEF RpuSet
  <2>2. \E b \in BOOLEAN : rpu' = rpu \/ rpu' = [rpu EXCEPT ![Command.vif].up = b]
    BY <1>3 DEF RpuSetIfflags
  <2> QED BY <1>0, <2>1, <2>2
<1>4. CASE UNCHANGED rpu
  BY <1>0, <1>4
<1> QED
  BY <1>1, <1>2, <1>3, <1>4
  DEF Next, Call, Proceed, EventTasklet, RpuNext, vars, MacAddr, AddVifFails, AddVif,
      AddVifPublish, DelVifRefused, DelVif, DelVifFails, DelVifFree, DelVifClose,
      DelVifClear, ChgVif, ChgVifFails, ChgVifAnswered, ChgVifTimeout, ChgVifState,
      ChgVifStateFails, ChgVifStateAnswered, ChgVifStateTimeout, UseOfFreed,
      IfflagsStatus, SetIfCallback, CarrierEvent, EventFault, RpuCarrier

-----------------------------------------------------------------------------
(* What is sent fits its call, and so do the answers. *)
LEMMA QueueFits ==
  ASSUME TypeOK, QueueInv, CallInv, [Next]_vars
  PROVE QueueInv'
<1>a. cmdq \in Seq(CommandSet) /\ evtq \in Seq(EventSet) /\ calls \in Nat
  BY Typed, CallNumbers
<1>0. /\ cmdq \in Seq(CommandSet) /\ evtq \in Seq(EventSet)
      /\ calls \in Nat /\ Len(cmdq) \in Nat /\ Len(evtq) \in Nat
  BY <1>a, LenProperties
<1>1. ASSUME NEW m, cmdq' = Append(cmdq, m), CommandFits(m), evtq' = evtq PROVE QueueInv'
  BY <1>0, <1>1 DEF QueueInv
<1>2. ASSUME evtq # <<>>, evtq' = Tail(evtq), cmdq' = cmdq PROVE QueueInv'
  BY <1>0, <1>2, TailOf DEF QueueInv
<1>3. ASSUME cmdq # <<>>, cmdq' = Tail(cmdq), evtq' = evtq PROVE QueueInv'
  BY <1>0, <1>3, TailOf DEF QueueInv
<1>4. ASSUME NEW m, evtq' = Append(evtq, m), EventFits(m),
             cmdq' = cmdq \/ (cmdq # <<>> /\ cmdq' = Tail(cmdq))
      PROVE QueueInv'
  <2>1. CASE cmdq' = cmdq
    BY <1>0, <1>4, <2>1 DEF QueueInv
  <2>2. CASE cmdq # <<>> /\ cmdq' = Tail(cmdq)
    <3>1. \A i \in 1..Len(cmdq') : CommandFits(cmdq'[i])
      BY <1>0, <2>2, TailOf DEF QueueInv
    <3> QED BY <1>0, <1>4, <3>1 DEF QueueInv
  <2> QED BY <1>4, <2>1, <2>2
<1>5. ASSUME NEW t \in IfType, AddVif(t) PROVE QueueInv'
  BY <1>0, <1>1, <1>5 DEF AddVif, Start, UmacCmdCfg, CommandFits
<1>6. ASSUME NEW v \in Vif, DelVif(v) PROVE QueueInv'
  BY <1>0, <1>1, <1>6 DEF DelVif, Start, UmacCmdCfg, CommandFits
<1>7. ASSUME NEW v \in Vif, NEW t \in IfType, ChgVif(v, t) PROVE QueueInv'
  BY <1>0, <1>1, <1>7 DEF ChgVif, Start, UmacCmdCfg, CommandFits
<1>8. ASSUME NEW v \in Vif, NEW op \in {"open", "close"}, ChgVifState(v, op) PROVE QueueInv'
  <2>1. CASE cmdq' = cmdq
    BY <1>8, <2>1 DEF ChgVifState, QueueInv
  <2>2. CASE UmacCmdCfg("SET_IFFLAGS", v, IF op = "open" THEN "up" ELSE "down")
    <3>1. PICK t : cmdq' = Append(cmdq, [cmd |-> "SET_IFFLAGS", vif |-> v, type |-> t,
                                         call |-> calls'])
      BY <2>2 DEF UmacCmdCfg
    <3>2. calls' > 0 /\ evtq' = evtq
      BY <1>0, <1>8 DEF ChgVifState
    <3> QED BY <1>1, <3>1, <3>2 DEF CommandFits
  <2> QED BY <1>8, <2>1, <2>2 DEF ChgVifState
<1>9. CASE DelVifClose
  BY <1>0, <1>1, <1>9 DEF DelVifClose, CallInv, At, UmacCmdCfg, CommandFits
<1>10. CASE EventTasklet
  BY <1>2, <1>10 DEF EventTasklet, IfflagsStatus, SetIfCallback, CarrierEvent, EventFault,
     NextEvent
<1>11. CASE RpuNewInterface
  BY <1>3, <1>11 DEF RpuNewInterface, NextCommand
<1>12. CASE RpuSetInterface \/ RpuSetIfflags
  <2>1. cmdq # <<>> /\ cmdq' = Tail(cmdq)
    BY <1>12 DEF RpuSetInterface, RpuSetIfflags, NextCommand
  <2>2. Command = cmdq[1] /\ 1 \in 1..Len(cmdq)
    BY <1>0, <2>1, HeadCommand, TailOf
  <2>3. Command.call > 0
    BY <2>2 DEF QueueInv, CommandFits
  <2>4. \E event, error :
           evtq' = Append(evtq, [event |-> event, vif |-> Command.vif, error |-> error,
                                 call |-> Command.call])
    BY <1>12 DEF RpuSetInterface, RpuSetIfflags, Reply
  <2> QED BY <1>4, <2>1, <2>3, <2>4 DEF EventFits
<1>13. CASE RpuCarrier
  BY <1>4, <1>13 DEF RpuCarrier, EventFits
<1>14. CASE UNCHANGED <<cmdq, evtq>>
  BY <1>14 DEF QueueInv
<1> QED
  BY <1>5, <1>6, <1>7, <1>8, <1>9, <1>10, <1>11, <1>12, <1>13, <1>14
  DEF Next, Call, Proceed, RpuNext, vars, MacAddr, AddVifFails, AddVifPublish,
      DelVifRefused, DelVifFails, DelVifFree, DelVifClear, ChgVifFails, ChgVifAnswered,
      ChgVifTimeout, ChgVifStateFails, ChgVifStateAnswered, ChgVifStateTimeout,
      UseOfFreed

(* The place of a call fits the call. *)
LEMMA CallFits ==
  ASSUME TypeOK, CallInv, [Next]_vars
  PROVE CallInv'
<1>0. calls \in Nat
  BY Typed, CallNumbers
<1>1. CASE Call
  <2>1. ASSUME NEW op, NEW v, NEW t, Refuse(op, v, t) PROVE CallInv'
    BY <1>0, <2>1 DEF Refuse, CallInv
  <2>2. ASSUME NEW t \in IfType, MacAddr(t) \/ AddVif(t) PROVE CallInv'
    BY <1>0, <2>2 DEF MacAddr, AddVif, Start, CallInv
  <2>3. ASSUME NEW v \in Vif, DelVif(v) \/ UseOfFreed(v) PROVE CallInv'
    BY <1>0, <2>3 DEF DelVif, UseOfFreed, Start, CallInv
  <2>4. ASSUME NEW v \in Vif, NEW t \in IfType, ChgVif(v, t) PROVE CallInv'
    BY <1>0, <2>4 DEF ChgVif, Start, CallInv
  <2>5. ASSUME NEW v \in Vif, NEW op \in {"open", "close"}, ChgVifState(v, op)
        PROVE CallInv'
    BY <1>0, <2>5 DEF ChgVifState, CallInv
  <2> QED BY <1>1, <2>1, <2>2, <2>3, <2>4, <2>5
          DEF Call, AddVifFails, DelVifRefused, DelVifFails, ChgVifFails, ChgVifStateFails
<1>2. CASE Proceed
  BY <1>0, <1>2 DEF Proceed, CallInv, AddVifPublish, DelVifFree, DelVifClose, DelVifClear,
     ChgVifAnswered, ChgVifTimeout, ChgVifStateAnswered, ChgVifStateTimeout, At,
     StateDone, Return
<1>3. CASE UNCHANGED <<pc, cur, calls>>
  BY <1>3 DEF CallInv
<1> QED
  BY <1>1, <1>2, <1>3
  DEF Next, EventTasklet, RpuNext, vars, callVars, IfflagsStatus, SetIfCallback,
      CarrierEvent, EventFault, RpuNewInterface, RpuSetInterface, RpuSetIfflags,
      RpuCarrier, NextCommand

-----------------------------------------------------------------------------
(* Most steps leave interfaces, contexts and net devices what they are.     *)
LEMMA CtxKept ==
  ASSUME TypeOK, NEW x, NEW n,
         ctx' = ctx \/ ctx' = [ctx EXCEPT ![x].ifflags = n]
  PROVE \A c \in Context : /\ ctx'[c].state = ctx[c].state
                           /\ ctx'[c].if_type = ctx[c].if_type
<1>1. ctx \in [Context -> CtxSet]
  BY Typed
<1> QED BY <1>1 DEF CtxSet

LEMMA CallStays ==
  ASSUME TypeOK, SlotInv, NEW op, NEW v \in Vif, NEW t, NEW s,
         pc = "idle", pc' \in {"idle", "free", "set_if", "ifflags"},
         cur' = [op |-> op, vif |-> v, type |-> t, sent |-> s],
         pc' = "idle" \/ netdev[v].registered,
         pc' = "ifflags" => op # "del",
         pc' = "set_if" => CheckIfLimit(t)
  PROVE /\ \A w \in Vif : (Coming(w)' <=> Coming(w)) /\ (Leaving(w)' <=> Leaving(w))
        /\ pc = "publish" \/ pc' = "publish" => pc' = pc /\ cur' = cur
        /\ pc' # "idle" => netdev[cur'.vif].registered
        /\ pc' = "set_if" => CheckIfLimit(cur'.type)
BY DEF Coming, Leaving

LEMMA StepUnmoved ==
  ASSUME TypeOK, CallInv, SlotInv, LimitInv, [Next]_vars
  PROVE Moves \/ Unmoved
<1> DEFINE Devices == \A v \in Vif : /\ netdev'[v].registered = netdev[v].registered
                                     /\ netdev'[v].iftype = netdev[v].iftype
           Contexts == \A c \in Context : /\ ctx'[c].state = ctx[c].state
                                          /\ ctx'[c].if_type = ctx[c].if_type
           Stays == /\ \A v \in Vif : (Coming(v)' <=> Coming(v)) /\ (Leaving(v)' <=> Leaving(v))
                    /\ pc = "publish" \/ pc' = "publish" => pc' = pc /\ cur' = cur
                    /\ pc' # "idle" => netdev[cur'.vif].registered
                    /\ pc' = "set_if" => CheckIfLimit(cur'.type)
<1>0. /\ netdev \in [Vif -> NetdevSet] /\ ctx \in [Context -> CtxSet]
      /\ vif_ctx \in [Vif -> Context \cup {NULL}] /\ cur.vif \in Vif /\ 0 \in Vif
  BY Typed, VifNat
<1>1. Contexts \/ Moves
  <2>1. ASSUME NEW x, NEW n, ctx' = [ctx EXCEPT ![x].ifflags = n] PROVE Contexts
    BY <2>1, CtxKept
  <2>2. CASE IfflagsStatus
    BY <2>1, <2>2 DEF IfflagsStatus
  <2>3. CASE UNCHANGED ctx
    BY <2>3
  <2>4. CASE DelVifClose
    BY <2>1, <2>4 DEF DelVifClose
  <2>5. ASSUME NEW v \in Vif, NEW op \in {"open", "close"}, ChgVifState(v, op)
        PROVE Contexts
    BY <2>1, <2>5 DEF ChgVifState
  <2> HIDE DEF Contexts
  <2> QED BY <2>2, <2>3, <2>4, <2>5
  DEF Moves, Next, Call, Proceed, EventTasklet, RpuNext, vars, vifVars, MacAddr,
      AddVifFails, DelVifRefused, DelVif, ChgVifFails, ChgVif, ChgVifTimeout,
      ChgVifStateFails, ChgVifStateAnswered, ChgVifStateTimeout, UseOfFreed,
      SetIfCallback, CarrierEvent, EventFault, RpuNewInterface,
      RpuSetInterface, RpuSetIfflags, RpuCarrier, NextCommand
<1>2. UNCHANGED <<vif_ctx, num_sta, num_ap, lost>> \/ Moves
  BY DEF Moves, Next, Call, Proceed, EventTasklet, RpuNext, vars, vifVars, MacAddr,
      AddVifFails, DelVifRefused, DelVif, DelVifClose, ChgVifFails, ChgVif, ChgVifTimeout,
      ChgVifState, ChgVifStateFails, ChgVifStateAnswered, ChgVifStateTimeout, UseOfFreed,
      IfflagsStatus, SetIfCallback, CarrierEvent, EventFault, RpuNewInterface,
      RpuSetInterface, RpuSetIfflags, RpuCarrier, NextCommand
<1>3. Devices \/ Moves
  <2>1. ASSUME NEW x, NEW b,
               \/ netdev' = [netdev EXCEPT ![x].up = b]
               \/ netdev' = [netdev EXCEPT ![x].carrier = b]
               \/ netdev' = [netdev EXCEPT ![x].event_set_if = b]
        PROVE Devices
    BY <1>0, <2>1 DEF NetdevSet
  <2>2. ASSUME NEW ok, StateDone(ok) PROVE Devices
    BY <1>0, <2>2 DEF StateDone, NetdevSet
  <2>3. CASE SetIfCallback
    BY <1>0, <2>3 DEF SetIfCallback, NetdevSet
  <2>4. CASE UNCHANGED netdev
    BY <2>4
  <2>5. ASSUME NEW v \in Vif, NEW t \in IfType, ChgVifFails(v, t) PROVE Devices
    BY <2>1, <2>5 DEF ChgVifFails
  <2>6. ASSUME NEW v \in Vif, NEW op \in {"open", "close"}, ChgVifStateFails(v, op)
        PROVE Devices
    BY <2>1, <2>6 DEF ChgVifStateFails
  <2>7. CASE CarrierEvent \/ DelVifClose
    BY <2>1, <2>7 DEF CarrierEvent, DelVifClose
  <2>8. CASE ChgVifStateAnswered \/ ChgVifStateTimeout
    BY <2>2, <2>8 DEF ChgVifStateAnswered, ChgVifStateTimeout
  <2> HIDE DEF Devices
  <2> QED
    BY <2>3, <2>4, <2>5, <2>6, <2>7, <2>8
    DEF Moves, Next, Call, Proceed, EventTasklet, RpuNext, vars, MacAddr,
      AddVifFails, DelVifRefused, DelVif, ChgVif, ChgVifTimeout,
      ChgVifState, UseOfFreed, IfflagsStatus, EventFault, RpuNewInterface,
      RpuSetInterface, RpuSetIfflags, RpuCarrier, NextCommand
<1>4. Stays \/ Moves
  <2>1. ASSUME UNCHANGED <<pc, cur>> PROVE Stays
    BY <2>1 DEF SlotInv, LimitInv, Coming, Leaving
  <2>2. ASSUME NEW t \in IfType, MacAddr(t) \/ AddVifFails(t) PROVE Stays
    BY <1>0, <2>2, FreeSlotFound, CallStays DEF MacAddr, AddVifFails, Refuse
  <2>3. CASE DelVifRefused
    BY <1>0, <2>3, CallStays DEF DelVifRefused, Refuse
  <2>4. ASSUME NEW v \in Vif, DelVif(v) PROVE Stays
    BY <2>4, CallStays DEF DelVif, Start
  <2>5. ASSUME NEW v \in Vif, NEW t \in IfType, ChgVif(v, t) \/ ChgVifFails(v, t)
        PROVE Stays
    BY <2>5, CallStays DEF ChgVif, ChgVifFails, Start, Refuse
  <2>6. ASSUME NEW v \in Vif, NEW op \in {"open", "close"},
               ChgVifState(v, op) \/ ChgVifStateFails(v, op)
        PROVE Stays
    BY <2>6, CallStays DEF ChgVifState, ChgVifStateFails, Refuse
  <2>7. CASE DelVifClose \/ ChgVifTimeout
    BY <1>0, <2>7 DEF DelVifClose, ChgVifTimeout, At, Return, CallInv, SlotInv, Coming, Leaving
  <2>8. CASE ChgVifStateAnswered \/ ChgVifStateTimeout
    BY <1>0, <2>8 DEF ChgVifStateAnswered, ChgVifStateTimeout, At, StateDone, Return,
       CallInv, SlotInv, Coming, Leaving
  <2> QED
    BY <2>1, <2>2, <2>3, <2>4, <2>5, <2>6, <2>7, <2>8
    DEF Moves, Next, Call, Proceed, EventTasklet, RpuNext, vars, callVars, UseOfFreed,
      IfflagsStatus, SetIfCallback, CarrierEvent, EventFault, RpuNewInterface,
      RpuSetInterface, RpuSetIfflags, RpuCarrier, NextCommand
<1> QED BY <1>1, <1>2, <1>3, <1>4 DEF Unmoved

-----------------------------------------------------------------------------
(* A context is new until its slot is filled: what AddVif makes.            *)
LEMMA AddVifMakes ==
  ASSUME TypeOK, NEW t \in IfType, AddVif(t)
  PROVE /\ pc = "idle" /\ pc' = "publish" /\ UNCHANGED <<vif_ctx, num_sta, num_ap, lost>>
        /\ cur'.op = "add" /\ cur'.type = t /\ CheckIfLimit(t)
        /\ cur'.vif \in Vif /\ vif_ctx[cur'.vif] = NULL
        /\ \A w \in Vif : w # cur'.vif => netdev'[w] = netdev[w]
        /\ netdev'[cur'.vif].registered /\ netdev'[cur'.vif].iftype = t
        /\ netdev'[cur'.vif].event_set_if = 0
        /\ \E c \in Context : /\ ctx[c].state = "unused"
                              /\ ctx'[c].state = "live" /\ ctx'[c].if_type = t
                              /\ \A d \in Context : d # c => ctx'[d] = ctx[d]
<1>1. /\ netdev \in [Vif -> NetdevSet] /\ ctx \in [Context -> CtxSet]
      /\ VifIdxGet \in Vif /\ vif_ctx[VifIdxGet] = NULL
      /\ Unused \in Context /\ ctx[Unused].state = "unused"
  BY Typed, FreeSlotFound, UnusedFound DEF AddVif
<1>2. cur' = [op |-> "add", vif |-> VifIdxGet, type |-> t, sent |-> TRUE]
  BY DEF AddVif, Start
<1>3. /\ \A w \in Vif : w # VifIdxGet => netdev'[w] = netdev[w]
      /\ netdev'[VifIdxGet] = NewNetdev(t)
  BY <1>1 DEF AddVif
<1>4. /\ NewNetdev(t).registered /\ NewNetdev(t).iftype = t
      /\ NewNetdev(t).event_set_if = 0
  BY DEF NewNetdev, NoNetdev
<1>5. /\ ctx'[Unused] = [state |-> "live", if_type |-> t, ifflags |-> 0]
      /\ \A d \in Context : d # Unused => ctx'[d] = ctx[d]
  BY <1>1 DEF AddVif
<1> QED BY <1>1, <1>2, <1>3, <1>4, <1>5 DEF AddVif, Start

(* AddVifPublish fills the slot with it. *)
LEMMA PublishFills ==
  ASSUME TypeOK, AddVifPublish
  PROVE /\ pc = "publish" /\ pc' = "idle" /\ UNCHANGED <<cur, ctx, netdev, lost>>
        /\ \E c \in Live : /\ \A v \in Vif : vif_ctx[v] # c
                           /\ vif_ctx'[cur.vif] = c
                           /\ \A w \in Vif : w # cur.vif => vif_ctx'[w] = vif_ctx[w]
<1>1. vif_ctx \in [Vif -> Context \cup {NULL}] /\ cur.vif \in Vif
  BY Typed
<1> QED BY <1>1 DEF AddVifPublish, At, Return

(* What freeing a context does. *)
LEMMA FreedIs ==
  ASSUME TypeOK, NEW c \in Context
  PROVE /\ Freed(c)[c].state \in {"freed", "freed twice"}
        /\ Freed(c)[c].if_type = ctx[c].if_type
        /\ \A d \in Context : d # c => Freed(c)[d] = ctx[d]
<1>1. ctx \in [Context -> CtxSet]
  BY Typed
<1> QED BY <1>1 DEF Freed, CtxSet

LEMMA DelVifFailsFrees ==
  ASSUME TypeOK, SlotInv, NEW v \in Vif, DelVifFails(v)
  PROVE /\ pc = "idle" /\ pc' = "idle" /\ UNCHANGED <<vif_ctx, netdev, num_sta, num_ap>>
        /\ vif_ctx[v] \in Context /\ ctx' = Freed(vif_ctx[v])
        /\ lost' = lost \cup {vif_ctx[v]}
<1>1. vif_ctx[v] \in Context
  BY NetdevHasContext DEF DelVifFails, Refuse
<1> QED BY <1>1 DEF DelVifFails, Refuse

LEMMA DelVifFreeFrees ==
  ASSUME TypeOK, CallInv, SlotInv, DelVifFree
  PROVE /\ pc = "free" /\ pc' \in {"unregister", "clear"} /\ cur.op = "del"
        /\ UNCHANGED <<cur, vif_ctx, netdev, lost>>
        /\ vif_ctx[cur.vif] \in Context /\ ctx' = Freed(vif_ctx[cur.vif])
        /\ Count("none", ctx[vif_ctx[cur.vif]].if_type)
<1>1. vif_ctx[cur.vif] \in Context
  BY CallHasContext DEF DelVifFree, At
<1> QED BY <1>1 DEF DelVifFree, At, CallInv

LEMMA DelVifClearEmpties ==
  ASSUME TypeOK, CallInv, SlotInv, DelVifClear
  PROVE /\ pc = "clear" /\ pc' = "idle" /\ cur.op = "del"
        /\ UNCHANGED <<cur, num_sta, num_ap, lost>>
        /\ vif_ctx[cur.vif] \in Context /\ ctx' = Freed(vif_ctx[cur.vif])
        /\ vif_ctx'[cur.vif] = NULL /\ ~netdev'[cur.vif].registered
        /\ netdev'[cur.vif].event_set_if = 0
        /\ \A w \in Vif : w # cur.vif => vif_ctx'[w] = vif_ctx[w] /\ netdev'[w] = netdev[w]
<1>1. vif_ctx[cur.vif] \in Context
  BY CallHasContext DEF DelVifClear, At
<1>2. /\ vif_ctx \in [Vif -> Context \cup {NULL}] /\ netdev \in [Vif -> NetdevSet]
      /\ cur.vif \in Vif
  BY Typed
<1>3. ~NoNetdev.registered /\ NoNetdev.event_set_if = 0
  BY DEF NoNetdev
<1> QED BY <1>1, <1>2, <1>3 DEF DelVifClear, ClearCtx, At, Return, CallInv

(* A change that was answered: both driver and net device take the type, or *)
(* neither does.                                                            *)
LEMMA ChgVifTakes ==
  ASSUME TypeOK, CallInv, SlotInv, ChgVifAnswered
  PROVE /\ pc = "set_if" /\ pc' = "idle" /\ cur.op = "chg"
        /\ UNCHANGED <<cur, vif_ctx, lost>>
        /\ netdev'[cur.vif].registered = netdev[cur.vif].registered
        /\ netdev'[cur.vif].event_set_if = 0
        /\ \A w \in Vif : w # cur.vif => netdev'[w] = netdev[w]
        /\ vif_ctx[cur.vif] \in Context
        /\ ctx'[vif_ctx[cur.vif]].state = ctx[vif_ctx[cur.vif]].state
        /\ ctx'[vif_ctx[cur.vif]].ifflags = ctx[vif_ctx[cur.vif]].ifflags
        /\ \A c \in Context : c # vif_ctx[cur.vif] => ctx'[c] = ctx[c]
        /\ \/ /\ netdev[cur.vif].status_set_if /\ UNCHANGED <<ctx, num_sta, num_ap>>
              /\ netdev'[cur.vif].iftype = netdev[cur.vif].iftype
           \/ /\ ~netdev[cur.vif].status_set_if
              /\ Count(cur.type, ctx[vif_ctx[cur.vif]].if_type)
              /\ netdev'[cur.vif].iftype = cur.type
              /\ ctx'[vif_ctx[cur.vif]].if_type = cur.type
<1>1. vif_ctx[cur.vif] \in Context
  BY CallHasContext DEF ChgVifAnswered, At
<1>2. /\ ctx \in [Context -> CtxSet] /\ netdev \in [Vif -> NetdevSet]
      /\ cur.vif \in Vif
  BY Typed
<1>3. /\ netdev'[cur.vif].registered = netdev[cur.vif].registered
      /\ netdev'[cur.vif].event_set_if = 0
      /\ netdev'[cur.vif].iftype = IF netdev[cur.vif].status_set_if
                                   THEN netdev[cur.vif].iftype ELSE cur.type
      /\ \A w \in Vif : w # cur.vif => netdev'[w] = netdev[w]
  BY <1>2 DEF ChgVifAnswered, NetdevSet
<1>4. IF netdev[cur.vif].status_set_if THEN UNCHANGED <<ctx, num_sta, num_ap>>
      ELSE /\ Count(cur.type, ctx[vif_ctx[cur.vif]].if_type)
           /\ ctx' = [ctx EXCEPT ![vif_ctx[cur.vif]].if_type = cur.type]
  BY DEF ChgVifAnswered, UpdateIfType
<1>5. /\ ctx'[vif_ctx[cur.vif]].state = ctx[vif_ctx[cur.vif]].state
      /\ ctx'[vif_ctx[cur.vif]].ifflags = ctx[vif_ctx[cur.vif]].ifflags
      /\ \A c \in Context : c # vif_ctx[cur.vif] => ctx'[c] = ctx[c]
      /\ ~netdev[cur.vif].status_set_if => ctx'[vif_ctx[cur.vif]].if_type = cur.type
  BY <1>1, <1>2, <1>4 DEF CtxSet
<1> QED BY <1>1, <1>3, <1>4, <1>5 DEF ChgVifAnswered, At, Return, CallInv

-----------------------------------------------------------------------------
(* Interfaces, contexts and net devices stay together. *)
LEMMA SlotKept ==
  ASSUME TypeOK, CallInv, SlotInv, ContextInv, LimitInv, [Next]_vars
  PROVE SlotInv'
<1>0. /\ vif_ctx \in [Vif -> Context \cup {NULL}] /\ cur.vif \in Vif
      /\ vif_ctx' \in [Vif -> Context \cup {NULL}] /\ NULL \notin Context
  BY Typed, SlotTyped, VifAssumption
<1>1. CASE Unmoved
  <2>1. cur'.vif \in Vif
    BY CallTyped DEF CallTypes
  <2> QED BY <1>1, <2>1 DEF Unmoved, SlotInv
<1>2. ASSUME NEW t \in IfType, AddVif(t) PROVE SlotInv'
  BY <1>2, AddVifMakes DEF SlotInv, Coming
<1>3. CASE AddVifPublish
  <2>1. PICK c \in Live : /\ \A v \in Vif : vif_ctx[v] # c
                          /\ vif_ctx'[cur.vif] = c
                          /\ \A w \in Vif : w # cur.vif => vif_ctx'[w] = vif_ctx[w]
    BY <1>3, PublishFills
  <2>2. c # NULL /\ pc = "publish" /\ pc' = "idle" /\ UNCHANGED <<cur, netdev>>
    BY <1>0, <1>3, PublishFills DEF Live
  <2> QED BY <1>0, <2>1, <2>2 DEF SlotInv, Coming
<1>4. ASSUME NEW v \in Vif, DelVifFails(v) PROVE SlotInv'
  BY <1>4, DelVifFailsFrees DEF SlotInv, Coming
<1>5. CASE DelVifFree
  BY <1>5, DelVifFreeFrees DEF SlotInv, Coming
<1>6. CASE DelVifClear
  BY <1>0, <1>6, DelVifClearEmpties DEF SlotInv, Coming
<1>7. CASE ChgVifAnswered
  <2>1. \A w \in Vif : netdev'[w].registered = netdev[w].registered
    BY <1>7, ChgVifTakes
  <2> QED BY <1>7, <2>1, ChgVifTakes DEF SlotInv, Coming
<1> QED BY <1>1, <1>2, <1>3, <1>4, <1>5, <1>6, <1>7, StepUnmoved DEF Moves

LEMMA ContextsKept ==
  ASSUME TypeOK, CallInv, SlotInv, ContextInv, LimitInv, [Next]_vars
  PROVE ContextInv'
<1>0. /\ vif_ctx \in [Vif -> Context \cup {NULL}] /\ cur.vif \in Vif
      /\ vif_ctx' \in [Vif -> Context \cup {NULL}] /\ NULL \notin Context
      /\ lost \in SUBSET Context
  BY Typed, SlotTyped, VifAssumption
<1>1. CASE Unmoved
  <2>1. Live' = Live
    BY <1>1 DEF Unmoved, Live
  <2>2. \A v \in Vif : vif_ctx'[v] = vif_ctx[v] /\ (Leaving(v)' <=> Leaving(v))
    BY <1>1 DEF Unmoved
  <2>3. \A c \in Context : /\ ctx'[c].state = ctx[c].state
                           /\ ctx'[c].if_type = ctx[c].if_type
    BY <1>1 DEF Unmoved
  <2>4. lost' = lost /\ (pc = "publish" => pc' = "publish" /\ cur' = cur)
    BY <1>1 DEF Unmoved
  <2>5. \A v \in Vif : vif_ctx[v] # NULL =>
          /\ ctx'[vif_ctx[v]].state # "unused"
          /\ ctx'[vif_ctx[v]].state = "live" <=> ~Leaving(v)' /\ vif_ctx[v] \notin lost
    BY <1>0, <2>2, <2>3 DEF ContextInv
  <2>6. \A c \in lost : ctx'[c].state \notin {"unused", "live"}
    BY <1>0, <2>3 DEF ContextInv
  <2>7. \A c \in Live : (\A v \in Vif : vif_ctx[v] # c) =>
          pc' = "publish" /\ ctx'[c].if_type = cur'.type
    BY <2>3, <2>4 DEF ContextInv, Live
  <2>8. \A c, d \in Live : (\A v \in Vif : vif_ctx[v] \notin {c, d}) => c = d
    BY DEF ContextInv
  <2> QED BY <2>1, <2>2, <2>4, <2>5, <2>6, <2>7, <2>8 DEF ContextInv
<1>2. ASSUME NEW t \in IfType, AddVif(t) PROVE ContextInv'
  <2>1. PICK c \in Context : /\ ctx[c].state = "unused"
                             /\ ctx'[c].state = "live" /\ ctx'[c].if_type = t
                             /\ \A d \in Context : d # c => ctx'[d] = ctx[d]
    BY <1>2, AddVifMakes
  <2>2. /\ vif_ctx' = vif_ctx /\ lost' = lost /\ pc = "idle" /\ pc' = "publish"
        /\ cur'.op = "add" /\ cur'.type = t
    BY <1>2, AddVifMakes
  <2>3. (\A v \in Vif : vif_ctx[v] # c) /\ c \notin lost
    BY <1>0, <2>1 DEF ContextInv
  <2>4. Live' = Live \cup {c} /\ \A d \in Live : \E v \in Vif : vif_ctx[v] = d
    BY <2>1, <2>2 DEF Live, ContextInv
  <2>5. \A v \in Vif : ~Leaving(v) /\ ~Leaving(v)'
    BY <2>2 DEF Leaving
  <2>6. \A v \in Vif : vif_ctx[v] # NULL => vif_ctx[v] \in Context \ {c}
    BY <1>0, <2>3
  <2>7. \A v \in Vif : vif_ctx[v] # NULL => ctx'[vif_ctx[v]] = ctx[vif_ctx[v]]
    BY <2>1, <2>6
  <2>8. \A d \in lost : ctx'[d] = ctx[d]
    BY <1>0, <2>1, <2>3
  <2> QED BY <1>0, <2>1, <2>2, <2>3, <2>4, <2>5, <2>7, <2>8 DEF ContextInv
<1>3. CASE AddVifPublish
  <2>1. PICK c \in Live : /\ \A v \in Vif : vif_ctx[v] # c
                          /\ vif_ctx'[cur.vif] = c
                          /\ \A w \in Vif : w # cur.vif => vif_ctx'[w] = vif_ctx[w]
    BY <1>3, PublishFills
  <2>2. pc = "publish" /\ pc' = "idle" /\ UNCHANGED <<cur, ctx, lost>>
    BY <1>3, PublishFills
  <2>3. c \in Context /\ ctx[c].state = "live" /\ c \notin lost /\ vif_ctx[cur.vif] = NULL
    BY <1>0, <2>1, <2>2 DEF Live, ContextInv, SlotInv, Coming
  <2>4. \A v \in Vif : ~Leaving(v) /\ ~Leaving(v)'
    BY <2>2 DEF Leaving
  <2>5. Live' = Live /\ \A d \in Live : \E v \in Vif : vif_ctx'[v] = d
    BY <1>0, <2>1, <2>2, <2>3 DEF Live, ContextInv
  <2>6. \A v \in Vif : vif_ctx'[v] # NULL =>
          /\ ctx[vif_ctx'[v]].state # "unused"
          /\ ctx[vif_ctx'[v]].state = "live" <=> vif_ctx'[v] \notin lost
    BY <1>0, <2>1, <2>3, <2>4 DEF ContextInv
  <2> QED BY <1>0, <2>2, <2>4, <2>5, <2>6 DEF ContextInv
<1>4. ASSUME NEW c \in Context, ctx' = Freed(c), NEW u \in Vif, vif_ctx[u] = c,
             pc # "publish",
             \A w \in Vif : w # u => (Leaving(w)' <=> Leaving(w)),
             \/ vif_ctx'[u] = NULL /\ lost' = lost /\ Leaving(u)
             \/ vif_ctx'[u] = c /\ lost' = lost /\ Leaving(u)'
             \/ vif_ctx'[u] = c /\ lost' = lost \cup {c},
             \A w \in Vif : w # u => vif_ctx'[w] = vif_ctx[w]
      PROVE ContextInv'
  <2>1. /\ ctx'[c].state \in {"freed", "freed twice"}
        /\ ctx'[c].if_type = ctx[c].if_type
        /\ \A d \in Context : d # c => ctx'[d] = ctx[d]
    BY <1>4, FreedIs
  <2>a. Live' = Live \ {c}
    BY <2>1 DEF Live
  <2>b. pc # "publish"
    BY <1>4
  <2>c. \A d \in Live : \E v \in Vif : vif_ctx[v] = d
    BY <2>b DEF ContextInv
  <2>2. Live' = Live \ {c} /\ \A d \in Live : \E v \in Vif : vif_ctx[v] = d
    BY <2>a, <2>c
  <2>3. \A d \in Live' : \E v \in Vif : vif_ctx'[v] = d
    BY <1>4, <2>2
  <2>4. \A v \in Vif : v # u /\ vif_ctx'[v] # NULL =>
           vif_ctx[v] \in Context /\ vif_ctx[v] # c /\ ctx'[vif_ctx[v]] = ctx[vif_ctx[v]]
    BY <1>0, <1>4, <2>1 DEF SlotInv
  <2>d. lost' = lost \/ lost' = lost \cup {c}
    BY <1>4
  <2>e. ASSUME NEW v \in Vif, vif_ctx'[v] # NULL, v # u
        PROVE /\ ctx'[vif_ctx'[v]].state # "unused"
              /\ ctx'[vif_ctx'[v]].state = "live" <=> ~Leaving(v)' /\ vif_ctx'[v] \notin lost'
    <3>1. vif_ctx'[v] = vif_ctx[v] /\ (Leaving(v)' <=> Leaving(v))
      BY <1>4, <2>e
    <3>2. vif_ctx[v] # c /\ vif_ctx[v] # NULL /\ ctx'[vif_ctx[v]] = ctx[vif_ctx[v]]
      BY <2>4, <2>e, <3>1
    <3> QED BY <2>d, <3>1, <3>2 DEF ContextInv
  <2>f. ASSUME vif_ctx'[u] # NULL
        PROVE /\ ctx'[vif_ctx'[u]].state # "unused"
              /\ ctx'[vif_ctx'[u]].state = "live" <=> ~Leaving(u)' /\ vif_ctx'[u] \notin lost'
    <3>1. vif_ctx'[u] = c /\ (Leaving(u)' \/ c \in lost')
      BY <1>4, <2>f
    <3> QED BY <2>1, <3>1
  <2>5. \A v \in Vif : vif_ctx'[v] # NULL =>
          /\ ctx'[vif_ctx'[v]].state # "unused"
          /\ ctx'[vif_ctx'[v]].state = "live" <=> ~Leaving(v)' /\ vif_ctx'[v] \notin lost'
    BY <2>e, <2>f
  <2>6. \A d \in lost' : ctx'[d].state \notin {"unused", "live"}
    <3>1. \A d \in lost : d \in Context /\ ctx[d].state \notin {"unused", "live"}
      BY <1>0 DEF ContextInv
    <3> QED BY <2>1, <2>d, <3>1
  <2> QED BY <2>3, <2>5, <2>6 DEF ContextInv
<1>5. ASSUME NEW v \in Vif, DelVifFails(v) PROVE ContextInv'
  BY <1>4, <1>5, DelVifFailsFrees DEF Leaving
<1>6. CASE DelVifFree
  BY <1>0, <1>4, <1>6, DelVifFreeFrees DEF Leaving
<1>7. CASE DelVifClear
  BY <1>0, <1>4, <1>7, DelVifClearEmpties DEF Leaving
<1>8. CASE ChgVifAnswered
  <2>1. \A c \in Context : ctx'[c].state = ctx[c].state
    BY <1>8, ChgVifTakes
  <2>2. Live' = Live /\ \A v \in Vif : ~Leaving(v) /\ ~Leaving(v)'
    BY <1>8, <2>1, ChgVifTakes DEF Live, Leaving
  <2>3. \A d \in Live : \E v \in Vif : vif_ctx[v] = d
    BY <1>8, ChgVifTakes DEF ContextInv
  <2>4. vif_ctx' = vif_ctx /\ lost' = lost
    BY <1>8, ChgVifTakes
  <2>5. \A v \in Vif : vif_ctx[v] # NULL => vif_ctx[v] \in Context
    BY <1>0
  <2> QED BY <1>0, <2>1, <2>2, <2>3, <2>4, <2>5 DEF ContextInv
<1> QED BY <1>1, <1>2, <1>3, <1>5, <1>6, <1>7, <1>8, StepUnmoved DEF Moves

(* The limit stays checked while a call is made. *)
LEMMA LimitKept ==
  ASSUME TypeOK, CallInv, SlotInv, LimitInv, [Next]_vars
  PROVE LimitInv'
<1>1. CASE Unmoved
  BY <1>1 DEF Unmoved, LimitInv, CheckIfLimit
<1>2. ASSUME NEW t \in IfType, AddVif(t) PROVE LimitInv'
  BY <1>2, AddVifMakes DEF LimitInv, CheckIfLimit
<1>3. CASE pc' \notin {"publish", "set_if"}
  BY <1>3 DEF LimitInv
<1> QED BY <1>1, <1>2, <1>3, StepUnmoved, PublishFills, DelVifFailsFrees, DelVifFreeFrees,
           DelVifClearEmpties, ChgVifTakes DEF Moves

(* The driver and cfg80211 agree on the type of an interface. *)
LEMMA DriverTypesKept ==
  ASSUME TypeOK, CallInv, SlotInv, ContextInv, LimitInv, DriverTypes, [Next]_vars
  PROVE DriverTypes'
<1>0. /\ vif_ctx \in [Vif -> Context \cup {NULL}] /\ cur.vif \in Vif
      /\ NULL \notin Context
  BY Typed, VifAssumption
<1>1. CASE Unmoved
  <2>1. Registered' = Registered
    BY <1>1 DEF Unmoved, Registered
  <2>2. ASSUME NEW v \in Registered
        PROVE netdev'[v].iftype = IF Coming(v)' THEN cur'.type ELSE ctx'[vif_ctx'[v]].if_type
    <3>1. netdev'[v].iftype = netdev[v].iftype /\ vif_ctx' = vif_ctx /\ v \in Vif
      BY <1>1 DEF Unmoved, Registered
    <3>2. CASE Coming(v)
      BY <1>1, <3>1, <3>2 DEF Unmoved, DriverTypes, Coming
    <3>3. CASE ~Coming(v)
      <4>1. ~Coming(v)' /\ vif_ctx[v] \in Context
        BY <1>0, <1>1, <3>1, <3>3 DEF Unmoved, SlotInv, Registered
      <4>2. ctx'[vif_ctx[v]].if_type = ctx[vif_ctx[v]].if_type
        BY <1>1, <4>1 DEF Unmoved
      <4> QED BY <3>1, <3>3, <4>1, <4>2 DEF DriverTypes
    <3> QED BY <3>2, <3>3
  <2> QED BY <2>1, <2>2 DEF DriverTypes
<1>2. ASSUME NEW t \in IfType, AddVif(t), NEW v \in Registered'
      PROVE netdev'[v].iftype = IF Coming(v)' THEN cur'.type ELSE ctx'[vif_ctx'[v]].if_type
  <2>1. CASE v = cur'.vif
    BY <1>2, <2>1, AddVifMakes DEF Coming
  <2>2. CASE v # cur'.vif
    <3>1. /\ v \in Registered /\ netdev'[v] = netdev[v] /\ vif_ctx' = vif_ctx
          /\ ~Coming(v) /\ ~Coming(v)'
      BY <1>2, <2>2, AddVifMakes DEF Registered, Coming
    <3>2. vif_ctx[v] \in Context /\ ctx[vif_ctx[v]].state # "unused"
      BY <1>0, <3>1 DEF SlotInv, ContextInv, Registered
    <3>3. ctx'[vif_ctx[v]] = ctx[vif_ctx[v]]
      BY <1>2, <3>2, AddVifMakes
    <3> QED BY <3>1, <3>3 DEF DriverTypes
  <2> QED BY <2>1, <2>2
<1>3. ASSUME AddVifPublish, NEW v \in Registered'
      PROVE netdev'[v].iftype = IF Coming(v)' THEN cur'.type ELSE ctx'[vif_ctx'[v]].if_type
  <2>1. /\ v \in Registered /\ netdev' = netdev /\ ctx' = ctx /\ ~Coming(v)'
        /\ pc = "publish" /\ v \in Vif
    BY <1>3, PublishFills DEF Registered, Coming
  <2>2. CASE v = cur.vif
    <3>1. ctx[vif_ctx'[v]].if_type = cur.type
      BY <1>3, <2>2, PublishFills DEF ContextInv
    <3> QED BY <2>1, <2>2, <3>1 DEF DriverTypes, Coming
  <2>3. CASE v # cur.vif
    <3>1. vif_ctx'[v] = vif_ctx[v]
      BY <1>3, <2>1, <2>3, PublishFills
    <3> QED BY <2>1, <2>3, <3>1 DEF DriverTypes, Coming
  <2> QED BY <2>2, <2>3
<1>4. ASSUME NEW c \in Context, ctx' = Freed(c), pc # "publish", pc' # "publish",
             NEW v \in Registered, vif_ctx'[v] = vif_ctx[v], netdev'[v] = netdev[v]
      PROVE netdev'[v].iftype = IF Coming(v)' THEN cur'.type ELSE ctx'[vif_ctx'[v]].if_type
  <2>1. ~Coming(v) /\ ~Coming(v)' /\ vif_ctx[v] \in Context
    BY <1>0, <1>4 DEF Coming, SlotInv, Registered
  <2>2. ctx'[vif_ctx[v]].if_type = ctx[vif_ctx[v]].if_type
    BY <1>4, <2>1, FreedIs
  <2> QED BY <1>4, <2>1, <2>2 DEF DriverTypes
<1>5. ASSUME NEW u \in Vif, DelVifFails(u), NEW v \in Registered'
      PROVE netdev'[v].iftype = IF Coming(v)' THEN cur'.type ELSE ctx'[vif_ctx'[v]].if_type
  BY <1>4, <1>5, DelVifFailsFrees DEF Registered
<1>6. ASSUME DelVifFree, NEW v \in Registered'
      PROVE netdev'[v].iftype = IF Coming(v)' THEN cur'.type ELSE ctx'[vif_ctx'[v]].if_type
  BY <1>4, <1>6, DelVifFreeFrees DEF Registered
<1>7. ASSUME DelVifClear, NEW v \in Registered'
      PROVE netdev'[v].iftype = IF Coming(v)' THEN cur'.type ELSE ctx'[vif_ctx'[v]].if_type
  <2>1. /\ v \in Vif /\ v # cur.vif /\ v \in Registered
        /\ vif_ctx'[v] = vif_ctx[v] /\ netdev'[v] = netdev[v]
    BY <1>7, DelVifClearEmpties DEF Registered
  <2> QED BY <1>4, <1>7, <2>1, DelVifClearEmpties
<1>8. ASSUME ChgVifAnswered, NEW v \in Registered'
      PROVE netdev'[v].iftype = IF Coming(v)' THEN cur'.type ELSE ctx'[vif_ctx'[v]].if_type
  <2>1. /\ v \in Vif /\ v \in Registered /\ ~Coming(v) /\ ~Coming(v)' /\ vif_ctx' = vif_ctx
    BY <1>8, ChgVifTakes DEF Registered, Coming
  <2>2. vif_ctx[v] \in Context /\ netdev[v].iftype = ctx[vif_ctx[v]].if_type
    BY <1>0, <2>1 DEF SlotInv, Registered, DriverTypes
  <2>3. CASE v = cur.vif
    BY <1>8, <2>1, <2>2, <2>3, ChgVifTakes
  <2>4. CASE v # cur.vif
    <3>1. vif_ctx[v] # vif_ctx[cur.vif]
      BY <1>0, <2>1, <2>2, <2>4 DEF SlotInv
    <3> QED BY <1>0, <1>8, <2>1, <2>2, <2>4, <3>1, ChgVifTakes
  <2> QED BY <2>3, <2>4
<1> QED BY <1>1, <1>2, <1>3, <1>5, <1>6, <1>7, <1>8, StepUnmoved DEF Moves, DriverTypes

-----------------------------------------------------------------------------
(* The counters count the interfaces that have a context and are not going. *)
LEMMA CountedIs ==
  ASSUME NEW t
  PROVE Counted(t) = {v \in Vif : /\ vif_ctx[v] # NULL /\ ctx[vif_ctx[v]].if_type = t
                                  /\ ~Leaving(v)}
BY DEF Counted, Leaving

LEMMA CountedFinite ==
  ASSUME NEW t
  PROVE /\ IsFiniteSet(Counted(t)) /\ Cardinality(Counted(t)) \in Nat
        /\ IsFiniteSet(Counted(t)') /\ Cardinality(Counted(t)') \in Nat
<1>1. Counted(t) \in SUBSET Vif /\ Counted(t)' \in SUBSET Vif
  BY DEF Counted
<1> QED BY <1>1, VifNat, FS_Subset, FS_CardinalityType

LEMMA CountersTyped ==
  ASSUME CountsMatch'
  PROVE num_sta' \in Nat /\ num_ap' \in Nat
BY CountedFinite DEF CountsMatch

(* One interface of type t comes, or one of type u goes, or both. *)
LEMMA CountChanges ==
  ASSUME TypeOK, CountsMatch, NEW v \in Vif,
         NEW t \in IfType \cup {"none"}, NEW u \in IfType \cup {"none"}, Count(t, u),
         t # "none" => CheckIfLimit(t),
         \A k \in IfType :
            /\ k = u => v \in Counted(k)
            /\ k # u => v \notin Counted(k)
            /\ Counted(k)' = IF k = t THEN Counted(k) \cup {v} ELSE Counted(k) \ {v}
  PROVE CountsMatch'
<1>1. /\ num_sta \in Nat /\ num_ap \in Nat /\ MAX_NUM_STAS \in Nat /\ MAX_NUM_APS \in Nat
      /\ STA \in IfType /\ AP \in IfType /\ STA # AP /\ STA # "none" /\ AP # "none"
  BY LimitAssumption DEF TypeOK, IfType, STA, AP
<1>2. ASSUME NEW k \in IfType
      PROVE Cardinality(Counted(k)') =
              Cardinality(Counted(k)) + (IF k = t /\ k # u THEN 1
                                         ELSE IF k # t /\ k = u THEN -1 ELSE 0)
  <2>1. IsFiniteSet(Counted(k)) /\ Cardinality(Counted(k)) \in Nat
    BY CountedFinite
  <2>2. CASE k = t
    BY <2>1, <2>2, FS_AddElement
  <2>3. CASE k # t
    BY <2>1, <2>3, FS_RemoveElement
  <2> QED BY <2>2, <2>3
<1>3. /\ num_sta = Cardinality(Counted(STA)) /\ num_ap = Cardinality(Counted(AP))
      /\ num_sta <= MAX_NUM_STAS /\ num_ap <= MAX_NUM_APS
  BY DEF CountsMatch
<1>4. num_sta' = Cardinality(Counted(STA)') /\ num_ap' = Cardinality(Counted(AP)')
  BY <1>1, <1>2, <1>3 DEF Count, IncrIfType, DecrIfType
<1>5. num_sta' <= MAX_NUM_STAS /\ num_ap' <= MAX_NUM_APS
  BY <1>1, <1>3 DEF Count, IncrIfType, DecrIfType, CheckIfLimit
<1> QED BY <1>4, <1>5 DEF CountsMatch

LEMMA CountsSame ==
  ASSUME CountsMatch, UNCHANGED <<num_sta, num_ap>>,
         \A k \in IfType : Counted(k)' = Counted(k)
  PROVE CountsMatch'
BY DEF CountsMatch, IfType

LEMMA FreedTypes ==
  ASSUME TypeOK, NEW c \in Context, ctx' = Freed(c)
  PROVE \A d \in Context : ctx'[d].if_type = ctx[d].if_type
BY FreedIs

LEMMA CountsKept ==
  ASSUME HeldInv, [Next]_vars
  PROVE CountsMatch'
<1>0. /\ vif_ctx \in [Vif -> Context \cup {NULL}] /\ cur.vif \in Vif
      /\ NULL \notin Context /\ cur.type \in IfType
      /\ ctx \in [Context -> CtxSet]
  BY Typed, VifAssumption DEF HeldInv
<1>a. TypeOK /\ CallInv /\ SlotInv /\ ContextInv /\ LimitInv /\ CountsMatch
  BY DEF HeldInv
<1>1. CASE Unmoved
  <2>1. ASSUME NEW k \in IfType PROVE Counted(k)' = Counted(k)
    <3>1. \A v \in Vif : /\ vif_ctx'[v] = vif_ctx[v]
                         /\ vif_ctx[v] # NULL =>
                              ctx'[vif_ctx'[v]].if_type = ctx[vif_ctx[v]].if_type
                         /\ Leaving(v)' <=> Leaving(v)
      BY <1>0, <1>1 DEF Unmoved
    <3> QED BY <3>1 DEF Counted, Leaving
  <2> QED BY <1>a, <1>1, <2>1, CountsSame DEF Unmoved
<1>2. ASSUME NEW t \in IfType, AddVif(t) PROVE CountsMatch'
  <2>1. ASSUME NEW k \in IfType PROVE Counted(k)' = Counted(k)
    <3>1. pc = "idle" /\ pc' = "publish" /\ vif_ctx' = vif_ctx
      BY <1>a, <1>2, AddVifMakes
    <3>2. \A v \in Vif : vif_ctx[v] # NULL => ctx'[vif_ctx[v]] = ctx[vif_ctx[v]]
      BY <1>0, <1>a, <1>2, AddVifMakes DEF ContextInv
    <3> QED BY <3>1, <3>2 DEF Counted
  <2> QED BY <1>a, <1>2, <2>1, CountsSame, AddVifMakes
<1>3. CASE AddVifPublish
  <2>1. PICK c \in Live : /\ \A v \in Vif : vif_ctx[v] # c
                          /\ vif_ctx'[cur.vif] = c
                          /\ \A w \in Vif : w # cur.vif => vif_ctx'[w] = vif_ctx[w]
    BY <1>3, <1>a, PublishFills
  <2>2. /\ pc = "publish" /\ pc' = "idle" /\ UNCHANGED <<cur, ctx>>
        /\ Count(cur.type, "none") /\ CheckIfLimit(cur.type)
    BY <1>3, <1>a, PublishFills DEF AddVifPublish, LimitInv
  <2>3. c # NULL /\ ctx[c].if_type = cur.type /\ vif_ctx[cur.vif] = NULL
    BY <1>0, <1>a, <2>1, <2>2 DEF Live, ContextInv, SlotInv, Coming
  <2>4. ASSUME NEW k \in IfType
        PROVE /\ k # "none" /\ cur.vif \notin Counted(k)
              /\ Counted(k)' = IF k = cur.type THEN Counted(k) \cup {cur.vif}
                               ELSE Counted(k) \ {cur.vif}
    <3>1. k # "none"
      BY DEF IfType, STA, AP
    <3>2. cur.vif \notin Counted(k)
      BY <2>3 DEF Counted
    <3>3. \A v \in Vif : v \in Counted(k)' <=> IF v = cur.vif THEN k = cur.type
                                               ELSE v \in Counted(k)
      BY <2>1, <2>2, <2>3 DEF Counted
    <3>4. Counted(k) \subseteq Vif /\ Counted(k)' \subseteq Vif
      BY DEF Counted
    <3> QED BY <1>0, <3>1, <3>2, <3>3, <3>4
  <2> QED BY <1>0, <1>a, <2>2, <2>4, CountChanges
<1>4. ASSUME NEW u \in Vif, DelVifFails(u) PROVE CountsMatch'
  <2>1. ASSUME NEW k \in IfType PROVE Counted(k)' = Counted(k)
    <3>1. pc = "idle" /\ pc' = "idle" /\ vif_ctx' = vif_ctx
      BY <1>a, <1>4, DelVifFailsFrees
    <3>2. \A v \in Vif : vif_ctx[v] # NULL =>
             ctx'[vif_ctx[v]].if_type = ctx[vif_ctx[v]].if_type
      BY <1>0, <1>a, <1>4, DelVifFailsFrees, FreedTypes
    <3> QED BY <3>1, <3>2 DEF Counted
  <2> QED BY <1>a, <1>4, <2>1, CountsSame, DelVifFailsFrees
<1>5. CASE DelVifFree
  <2> DEFINE u == ctx[vif_ctx[cur.vif]].if_type
  <2>1. /\ pc = "free" /\ pc' \in {"unregister", "clear"} /\ cur.op = "del"
        /\ UNCHANGED <<cur, vif_ctx>> /\ vif_ctx[cur.vif] \in Context
        /\ Count("none", u) /\ ctx' = Freed(vif_ctx[cur.vif])
    BY <1>a, <1>5, DelVifFreeFrees
  <2>2. u \in IfType
    BY <1>0, <2>1 DEF CtxSet
  <2>3. \A v \in Vif : vif_ctx[v] # NULL =>
           ctx'[vif_ctx[v]].if_type = ctx[vif_ctx[v]].if_type
    BY <1>0, <1>a, <2>1, FreedTypes
  <2>4. ASSUME NEW k \in IfType
        PROVE /\ k = u <=> cur.vif \in Counted(k)
              /\ k # "none" /\ Counted(k)' = Counted(k) \ {cur.vif}
    <3>1. k # "none"
      BY DEF IfType, STA, AP
    <3>2. k = u <=> cur.vif \in Counted(k)
      BY <1>0, <2>1 DEF Counted
    <3>3. \A v \in Vif : v \in Counted(k)' <=> v # cur.vif /\ v \in Counted(k)
      BY <2>1, <2>3 DEF Counted
    <3>4. Counted(k) \subseteq Vif /\ Counted(k)' \subseteq Vif
      BY DEF Counted
    <3> QED BY <3>1, <3>2, <3>3, <3>4
  <2> HIDE DEF u
  <2> QED BY <1>0, <1>a, <2>1, <2>2, <2>4, CountChanges
<1>6. CASE DelVifClear
  <2>1. ASSUME NEW k \in IfType PROVE Counted(k)' = Counted(k)
    <3>1. /\ pc = "clear" /\ pc' = "idle" /\ cur.op = "del" /\ vif_ctx'[cur.vif] = NULL
          /\ vif_ctx[cur.vif] \in Context /\ ctx' = Freed(vif_ctx[cur.vif])
          /\ \A w \in Vif : w # cur.vif => vif_ctx'[w] = vif_ctx[w]
      BY <1>a, <1>6, DelVifClearEmpties
    <3>2. \A v \in Vif : vif_ctx[v] # NULL =>
             ctx'[vif_ctx[v]].if_type = ctx[vif_ctx[v]].if_type
      BY <1>0, <1>a, <3>1, FreedTypes
    <3>3. \A v \in Vif : v \in Counted(k)' <=> v \in Counted(k)
      BY <3>1, <3>2 DEF Counted
    <3>4. Counted(k) \subseteq Vif /\ Counted(k)' \subseteq Vif
      BY DEF Counted
    <3> QED BY <3>3, <3>4
  <2> QED BY <1>a, <1>6, <2>1, CountsSame, DelVifClearEmpties
<1>7. CASE ChgVifAnswered
  <2> DEFINE u == ctx[vif_ctx[cur.vif]].if_type
  <2>1. /\ pc = "set_if" /\ pc' = "idle" /\ vif_ctx' = vif_ctx
        /\ vif_ctx[cur.vif] \in Context /\ cur' = cur
        /\ \A c \in Context : c # vif_ctx[cur.vif] => ctx'[c] = ctx[c]
    BY <1>a, <1>7, ChgVifTakes
  <2>2. CASE UNCHANGED <<ctx, num_sta, num_ap>>
    <3>1. ASSUME NEW k \in IfType PROVE Counted(k)' = Counted(k)
      BY <2>1, <2>2 DEF Counted
    <3> QED BY <1>a, <2>2, <3>1, CountsSame
  <2>3. CASE Count(cur.type, u) /\ ctx'[vif_ctx[cur.vif]].if_type = cur.type
    <3>1. u \in IfType /\ CheckIfLimit(cur.type)
      BY <1>0, <1>a, <2>1 DEF CtxSet, LimitInv
    <3>2. ASSUME NEW k \in IfType
          PROVE /\ k = u <=> cur.vif \in Counted(k)
                /\ Counted(k)' = IF k = cur.type THEN Counted(k) \cup {cur.vif}
                                 ELSE Counted(k) \ {cur.vif}
      <4>1. k = u <=> cur.vif \in Counted(k)
        BY <1>0, <2>1 DEF Counted
      <4>2. cur.vif \in Counted(k)' <=> k = cur.type
        BY <1>0, <2>1, <2>3 DEF Counted
      <4>3. ASSUME NEW v \in Vif, v # cur.vif PROVE v \in Counted(k)' <=> v \in Counted(k)
        <5>1. vif_ctx[v] # NULL => ctx'[vif_ctx[v]] = ctx[vif_ctx[v]]
          BY <1>0, <1>a, <2>1, <4>3 DEF SlotInv
        <5> QED BY <2>1, <5>1 DEF Counted
      <4>4. Counted(k) \subseteq Vif /\ Counted(k)' \subseteq Vif
        BY DEF Counted
      <4> QED BY <1>0, <4>1, <4>2, <4>3, <4>4
    <3> HIDE DEF u
    <3> QED BY <1>0, <1>a, <2>3, <3>1, <3>2, CountChanges
  <2> QED BY <1>a, <1>7, <2>2, <2>3, ChgVifTakes
<1> QED BY <1>a, <1>1, <1>2, <1>3, <1>4, <1>5, <1>6, <1>7, StepUnmoved DEF Moves

-----------------------------------------------------------------------------
(* The first layer holds at the start and is preserved. *)
LEMMA HeldInit == ASSUME Init PROVE HeldInv
<1> DEFINE first == CHOOSE c \in Context : TRUE
<1>0. first \in Context /\ NULL \notin Context /\ 0 \in Vif /\ Vif \subseteq Nat
  BY VifAssumption, VifNat
<1> HIDE DEF first
<1>1. /\ vif_ctx = [v \in Vif |-> IF v = 0 THEN first ELSE NULL]
      /\ ctx = [c \in Context |-> [state |-> IF c = first THEN "live" ELSE "unused",
                                   if_type |-> STA, ifflags |-> 0]]
      /\ num_sta = 1 /\ num_ap = 0
      /\ netdev = [v \in Vif |-> IF v = 0 THEN NewNetdev(STA) ELSE NoNetdev]
      /\ pc = "idle" /\ cur = NoCall /\ cmdq = <<>> /\ evtq = <<>> /\ lost = {}
  BY DEF Init, first
<1>2. TypeOK
  <2>1. NetdevSet = [registered : BOOLEAN, up : BOOLEAN, iftype : IfType,
                     event_set_if : 0..MaxCalls, status_set_if : BOOLEAN,
                     carrier : BOOLEAN]
    BY DEF NetdevSet, CallNumber
  <2>2. netdev \in [Vif -> NetdevSet]
    BY <1>1, NetdevNew DEF IfType
  <2>3. 0 \in 0..MaxCalls /\ 0 \in 0..MaxFails /\ 0 \in 0..MaxCarrier
    BY BoundAssumption
  <2>4. ctx \in [Context -> [state : {"unused", "live", "freed", "freed twice"},
                             if_type : IfType, ifflags : 0..MaxCalls]]
    BY <1>1, <2>3 DEF IfType
  <2>5. cur \in [op : {"none", "add", "del", "chg", "open", "close"}, vif : Vif,
                 type : IfType, sent : BOOLEAN]
    BY <1>0, <1>1 DEF NoCall, IfType
  <2>6. rpu \in [Vif -> [type : IfType \cup {"none"}, up : BOOLEAN]]
    BY DEF Init, IfType
  <2>7. cmdq \in Seq(CommandSet) /\ evtq \in Seq(EventSet)
    BY <1>1
  <2>8. vif_ctx \in [Vif -> Context \cup {NULL}]
    BY <1>0, <1>1
  <2> QED BY <1>1, <2>1, <2>2, <2>3, <2>4, <2>5, <2>6, <2>7, <2>8 DEF Init, TypeOK
<1>3. QueueInv /\ CallInv /\ LimitInv
  BY <1>1 DEF QueueInv, CallInv, LimitInv
<1>4. \A v \in Vif : /\ netdev[v].registered <=> v = 0
                     /\ vif_ctx[v] # NULL <=> v = 0
                     /\ v = 0 => netdev[v].iftype = STA
                     /\ ~Coming(v) /\ ~Leaving(v)
  BY <1>0, <1>1 DEF NewNetdev, NoNetdev, Coming, Leaving
<1>5. SlotInv
  BY <1>1, <1>4 DEF SlotInv
<1>6. /\ vif_ctx[0] = first /\ ctx[first].state = "live" /\ ctx[first].if_type = STA
      /\ Live = {first}
  BY <1>0, <1>1 DEF Live
<1>7. ContextInv
  BY <1>0, <1>1, <1>4, <1>6 DEF ContextInv
<1>8. DriverTypes
  BY <1>0, <1>4, <1>6 DEF DriverTypes, Registered
<1>9. CountsMatch
  <2>1. Counted(STA) = {0} /\ Counted(AP) = {}
    BY <1>0, <1>1, <1>4, <1>6, CountedIs DEF STA, AP
  <2>2. Cardinality({0}) = 1 /\ Cardinality({}) = 0
    BY FS_EmptySet, FS_Singleton
  <2> QED BY <1>1, <2>1, <2>2, LimitAssumption DEF CountsMatch
<1> QED BY <1>2, <1>3, <1>5, <1>7, <1>8, <1>9 DEF HeldInv

LEMMA HeldStep == ASSUME HeldInv, [Next]_vars PROVE HeldInv'
<1>0. /\ TypeOK /\ QueueInv /\ CallInv /\ SlotInv /\ ContextInv /\ LimitInv
      /\ DriverTypes /\ CountsMatch
  BY DEF HeldInv
<1>1. CountsMatch' /\ num_sta' \in Nat /\ num_ap' \in Nat
  BY CountsKept, CountersTyped
<1>2. TypeOK'
  <2>1. /\ ctx' \in [Context -> CtxSet] /\ netdev' \in [Vif -> NetdevSet]
        /\ vif_ctx' \in [Vif -> Context \cup {NULL}] /\ lost' \in SUBSET Context
        /\ rpu' \in [Vif -> RpuSet] /\ CallTypes' /\ QueueTypes'
    BY <1>0, CtxTyped, NetdevTyped, SlotTyped, CallTyped, QueueTyped, RpuTyped
  <2> QED BY <1>1, <2>1
          DEF TypeOK, CtxSet, NetdevSet, RpuSet, States, CallNumber, CallTypes, QueueTypes
<1> QED BY <1>0, <1>1, <1>2, QueueFits, CallFits, SlotKept, ContextsKept, LimitKept,
           DriverTypesKept DEF HeldInv

LEMMA HeldAlways == Spec => []HeldInv
BY HeldInit, HeldStep, PTL DEF Spec

(* The variables of the interface model keep their types; in particular the *)
(* counters never go below zero.                                            *)
THEOREM InterfaceTypeCorrect == Spec => []TypeOK
<1>1. HeldInv => TypeOK
  BY DEF HeldInv
<1> QED BY <1>1, HeldAlways, PTL

(* Between two calls, net devices and contexts belong together, through     *)
(* every add, delete and change, refused, failed or late.                   *)
THEOREM InterfacesAreHeld == Spec => []InterfacesHeld
<1>1. HeldInv => InterfacesHeld
  <2> SUFFICES ASSUME HeldInv, pc = "idle"
               PROVE /\ \A v \in Vif : netdev[v].registered <=> vif_ctx[v] # NULL
                     /\ \A v, w \in Registered : v # w => vif_ctx[v] # vif_ctx[w]
                     /\ Live = {vif_ctx[v] : v \in Registered} \ lost
    BY DEF InterfacesHeld
  <2>1. \A v \in Vif : /\ netdev[v].registered <=> vif_ctx[v] # NULL
                       /\ ~Leaving(v)
    BY DEF HeldInv, SlotInv, Coming, Leaving
  <2>2. \A v, w \in Registered : v # w => vif_ctx[v] # vif_ctx[w]
    BY <2>1 DEF HeldInv, SlotInv, Registered
  <2>3. vif_ctx \in [Vif -> Context \cup {NULL}]
    BY Typed DEF HeldInv
  <2>4. ASSUME NEW c \in Live PROVE c \in {vif_ctx[v] : v \in Registered} \ lost
    <3>1. PICK v \in Vif : vif_ctx[v] = c
      BY DEF HeldInv, ContextInv
    <3>2. c # NULL /\ ctx[c].state = "live"
      BY VifAssumption DEF Live
    <3> QED BY <2>1, <3>1, <3>2 DEF HeldInv, ContextInv, Registered
  <2>5. ASSUME NEW v \in Registered, vif_ctx[v] \notin lost PROVE vif_ctx[v] \in Live
    BY <2>1, <2>3, <2>5 DEF HeldInv, ContextInv, Registered, Live
  <2> QED BY <2>1, <2>2, <2>4, <2>5
<1> QED BY <1>1, HeldAlways, PTL

-----------------------------------------------------------------------------
(* What a step does to the commands and events of a kind for an interface.  *)
LEMMA Places ==
  ASSUME TypeOK, NEW kind, NEW v
  PROVE /\ Len(cmdq) \in Nat /\ Len(evtq) \in Nat
        /\ Sent(kind, v) \subseteq 1..Len(cmdq) /\ Sent(kind, v) \subseteq Nat
        /\ Answers(kind, v) \subseteq 1..Len(evtq) /\ Answers(kind, v) \subseteq Nat
        /\ 0 \notin Sent(kind, v) /\ 0 \notin Answers(kind, v)
<1>1. cmdq \in Seq(CommandSet) /\ evtq \in Seq(EventSet)
  BY Typed
<1>2. Len(cmdq) \in Nat /\ Len(evtq) \in Nat
  BY <1>1, LenProperties
<1> QED BY <1>2 DEF Sent, Answers

LEMMA PlacesNext ==
  ASSUME TypeOK', NEW kind, NEW v
  PROVE Sent(kind, v)' \subseteq Nat /\ Answers(kind, v)' \subseteq Nat
<1>1. cmdq' \in Seq(CommandSet) /\ evtq' \in Seq(EventSet)
  BY DEF TypeOK
<1>2. Len(cmdq') \in Nat /\ Len(evtq') \in Nat
  BY <1>1, LenProperties
<1> QED BY <1>2 DEF Sent, Answers

LEMMA SentAdded ==
  ASSUME TypeOK, NEW m, cmdq' = Append(cmdq, m), NEW kind, NEW v
  PROVE /\ Sent(kind, v)' = Sent(kind, v) \cup
              (IF m.cmd = kind /\ m.vif = v THEN {Len(cmdq) + 1} ELSE {})
        /\ \A i \in 1..Len(cmdq) : cmdq'[i] = cmdq[i]
        /\ cmdq'[Len(cmdq) + 1] = m
<1>1. cmdq \in Seq(CommandSet) /\ Len(cmdq) \in Nat
  BY Typed, Places
<1>2. /\ Len(cmdq') = Len(cmdq) + 1 /\ cmdq'[Len(cmdq) + 1] = m
      /\ \A i \in 1..Len(cmdq) : cmdq'[i] = cmdq[i]
  BY <1>1
<1>3. \A i \in 1..(Len(cmdq) + 1) : i \in 1..Len(cmdq) \/ i = Len(cmdq) + 1
  BY <1>1
<1>4. \A i : i \in Sent(kind, v)' <=>
               \/ i \in Sent(kind, v)
               \/ i = Len(cmdq) + 1 /\ m.cmd = kind /\ m.vif = v
  BY <1>1, <1>2, <1>3 DEF Sent
<1> QED BY <1>2, <1>4

LEMMA AnswersAdded ==
  ASSUME TypeOK, NEW m, evtq' = Append(evtq, m), NEW kind, NEW v
  PROVE /\ Answers(kind, v)' = Answers(kind, v) \cup
              (IF m.event = kind /\ m.vif = v THEN {Len(evtq) + 1} ELSE {})
        /\ \A i \in 1..Len(evtq) : evtq'[i] = evtq[i]
        /\ evtq'[Len(evtq) + 1] = m
<1>1. evtq \in Seq(EventSet) /\ Len(evtq) \in Nat
  BY Typed, Places
<1>2. /\ Len(evtq') = Len(evtq) + 1 /\ evtq'[Len(evtq) + 1] = m
      /\ \A i \in 1..Len(evtq) : evtq'[i] = evtq[i]
  BY <1>1
<1>3. \A i \in 1..(Len(evtq) + 1) : i \in 1..Len(evtq) \/ i = Len(evtq) + 1
  BY <1>1
<1>4. \A i : i \in Answers(kind, v)' <=>
               \/ i \in Answers(kind, v)
               \/ i = Len(evtq) + 1 /\ m.event = kind /\ m.vif = v
  BY <1>1, <1>2, <1>3 DEF Answers
<1> QED BY <1>2, <1>4

LEMMA SentTaken ==
  ASSUME TypeOK, cmdq # <<>>, cmdq' = Tail(cmdq), NEW kind, NEW v
  PROVE /\ \A i \in Nat : i \in Sent(kind, v)' <=> i # 0 /\ i + 1 \in Sent(kind, v)
        /\ \A i \in Nat : i \in Sent(kind, v)' => cmdq'[i] = cmdq[i + 1]
        /\ 1 \in Sent(kind, v) <=> Command.cmd = kind /\ Command.vif = v
        /\ Command = cmdq[1]
<1>1. cmdq \in Seq(CommandSet) /\ Len(cmdq) \in Nat
  BY Typed, Places
<1>2. /\ Len(cmdq) > 0 /\ Len(cmdq') = Len(cmdq) - 1 /\ Command = cmdq[1]
      /\ \A i \in 1..(Len(cmdq) - 1) : cmdq'[i] = cmdq[i + 1]
  BY <1>1, TailOf DEF Command
<1> QED BY <1>1, <1>2 DEF Sent

LEMMA AnswersTaken ==
  ASSUME TypeOK, evtq # <<>>, evtq' = Tail(evtq), NEW kind, NEW v
  PROVE /\ \A i \in Nat : i \in Answers(kind, v)' <=> i # 0 /\ i + 1 \in Answers(kind, v)
        /\ \A i \in Nat : i \in Answers(kind, v)' => evtq'[i] = evtq[i + 1]
        /\ 1 \in Answers(kind, v) <=> Event.event = kind /\ Event.vif = v
        /\ Event = evtq[1]
<1>1. evtq \in Seq(EventSet) /\ Len(evtq) \in Nat
  BY Typed, Places
<1>2. /\ Len(evtq) > 0 /\ Len(evtq') = Len(evtq) - 1 /\ Event = evtq[1]
      /\ \A i \in 1..(Len(evtq) - 1) : evtq'[i] = evtq[i + 1]
  BY <1>1, TailOf DEF Event
<1> QED BY <1>1, <1>2 DEF Answers

LEMMA SentMovesUp ==
  ASSUME TypeOK, NEW kind, NEW v, cmdq # <<>>, cmdq' = Tail(cmdq),
         1 \notin Sent(kind, v)
  PROVE SentSame(kind, v)
<1>1. cmdq \in Seq(CommandSet) /\ Len(cmdq) \in Nat
  BY Typed, Places
<1>2. /\ Len(cmdq) > 0 /\ Len(cmdq') = Len(cmdq) - 1
      /\ \A i \in 1..(Len(cmdq) - 1) : cmdq'[i] = cmdq[i + 1]
  BY <1>1, TailOf
<1>3. \A i \in Nat : i \in Sent(kind, v)' => cmdq'[i] = cmdq[i + 1]
  BY <1>1, <1>2 DEF Sent
<1>4. \A i \in Nat : i \in Sent(kind, v)' <=> i + 1 \in Sent(kind, v)
  BY <1>1, <1>2 DEF Sent
<1> QED BY <1>3, <1>4 DEF SentSame

LEMMA SentUntouched ==
  ASSUME TypeOK, NEW kind, NEW v,
         \/ cmdq' = cmdq
         \/ \E m : cmdq' = Append(cmdq, m) /\ ~(m.cmd = kind /\ m.vif = v)
         \/ cmdq # <<>> /\ cmdq' = Tail(cmdq) /\ ~(Command.cmd = kind /\ Command.vif = v)
  PROVE SentSame(kind, v)
<1>1. CASE cmdq' = cmdq
  <2>1. Sent(kind, v)' = Sent(kind, v)
    BY <1>1 DEF Sent
  <2> QED BY <1>1, <2>1 DEF SentSame
<1>2. ASSUME NEW m, cmdq' = Append(cmdq, m), ~(m.cmd = kind /\ m.vif = v)
      PROVE SentSame(kind, v)
  BY <1>2, SentAdded, Places DEF SentSame
<1>3. CASE cmdq # <<>> /\ cmdq' = Tail(cmdq) /\ ~(Command.cmd = kind /\ Command.vif = v)
  BY <1>3, SentTaken, SentMovesUp
<1> QED BY <1>1, <1>2, <1>3

LEMMA AnswersMovesUp ==
  ASSUME TypeOK, NEW kind, NEW v, evtq # <<>>, evtq' = Tail(evtq),
         1 \notin Answers(kind, v)
  PROVE AnswersSame(kind, v)
<1>1. evtq \in Seq(EventSet) /\ Len(evtq) \in Nat
  BY Typed, Places
<1>2. /\ Len(evtq) > 0 /\ Len(evtq') = Len(evtq) - 1
      /\ \A i \in 1..(Len(evtq) - 1) : evtq'[i] = evtq[i + 1]
  BY <1>1, TailOf
<1>3. \A i \in Nat : i \in Answers(kind, v)' => evtq'[i] = evtq[i + 1]
  BY <1>1, <1>2 DEF Answers
<1>4. \A i \in Nat : i \in Answers(kind, v)' <=> i + 1 \in Answers(kind, v)
  BY <1>1, <1>2 DEF Answers
<1> QED BY <1>3, <1>4 DEF AnswersSame

LEMMA AnswersUntouched ==
  ASSUME TypeOK, NEW kind, NEW v,
         \/ evtq' = evtq
         \/ \E m : evtq' = Append(evtq, m) /\ ~(m.event = kind /\ m.vif = v)
         \/ evtq # <<>> /\ evtq' = Tail(evtq) /\ ~(Event.event = kind /\ Event.vif = v)
  PROVE AnswersSame(kind, v)
<1>1. CASE evtq' = evtq
  <2>1. Answers(kind, v)' = Answers(kind, v)
    BY <1>1 DEF Answers
  <2> QED BY <1>1, <2>1 DEF AnswersSame
<1>2. ASSUME NEW m, evtq' = Append(evtq, m), ~(m.event = kind /\ m.vif = v)
      PROVE AnswersSame(kind, v)
  BY <1>2, AnswersAdded, Places DEF AnswersSame
<1>3. CASE evtq # <<>> /\ evtq' = Tail(evtq) /\ ~(Event.event = kind /\ Event.vif = v)
  BY <1>3, AnswersTaken, AnswersMovesUp
<1> QED BY <1>1, <1>2, <1>3

(* Untouched, they stay none, or at most one of the call. *)
LEMMA StillNone ==
  ASSUME TypeOK, TypeOK', NEW cmd, NEW event, NEW v,
         SentSame(cmd, v), AnswersSame(event, v), None(cmd, event, v)
  PROVE None(cmd, event, v)'
<1>1. /\ Sent(cmd, v)' \subseteq Nat /\ Answers(event, v)' \subseteq Nat
  BY PlacesNext
<1> QED BY <1>1 DEF SentSame, AnswersSame, None

LEMMA StillOne ==
  ASSUME TypeOK, TypeOK', NEW cmd, NEW event, NEW v, calls' = calls,
         SentSame(cmd, v), AnswersSame(event, v), AtMostOne(cmd, event, v)
  PROVE AtMostOne(cmd, event, v)'
<1>1. /\ Sent(cmd, v)' \subseteq Nat /\ Answers(event, v)' \subseteq Nat
  BY PlacesNext
<1>2. PICK d \in {0, 1} : \A i \in Nat :
         /\ i \in Sent(cmd, v)' <=> i + d \in Sent(cmd, v)
         /\ i \in Sent(cmd, v)' => cmdq'[i] = cmdq[i + d]
  BY DEF SentSame
<1>3. PICK e \in {0, 1} : \A i \in Nat :
         /\ i \in Answers(event, v)' <=> i + e \in Answers(event, v)
         /\ i \in Answers(event, v)' => evtq'[i] = evtq[i + e]
  BY DEF AnswersSame
<1>4. \A i, j \in Sent(cmd, v)' : i = j
  BY <1>1, <1>2 DEF AtMostOne
<1>5. \A i, j \in Answers(event, v)' : i = j
  BY <1>1, <1>3 DEF AtMostOne
<1>6. Sent(cmd, v)' = {} \/ Answers(event, v)' = {}
  BY <1>1, <1>2, <1>3 DEF AtMostOne
<1>7. \A i \in Sent(cmd, v)' : cmdq'[i].call = calls'
  BY <1>1, <1>2 DEF AtMostOne
<1>8. \A i \in Answers(event, v)' : evtq'[i].call = calls'
  BY <1>1, <1>3 DEF AtMostOne
<1> QED BY <1>4, <1>5, <1>6, <1>7, <1>8 DEF AtMostOne

(* The command is sent, taken and answered, and the answer taken.           *)
LEMMA FirstSent ==
  ASSUME TypeOK, NEW cmd, NEW event, NEW v, None(cmd, event, v), NEW m,
         cmdq' = Append(cmdq, m), m.cmd = cmd, m.vif = v, m.call = calls', evtq' = evtq
  PROVE AtMostOne(cmd, event, v)'
<1>1. Sent(cmd, v)' = {Len(cmdq) + 1} /\ cmdq'[Len(cmdq) + 1] = m
  BY SentAdded DEF None
<1>2. Answers(event, v)' = {}
  BY DEF None, Answers
<1> QED BY <1>1, <1>2 DEF AtMostOne

LEMMA OneAnswered ==
  ASSUME TypeOK, TypeOK', NEW cmd, NEW event, NEW v, AtMostOne(cmd, event, v),
         calls' = calls, cmdq # <<>>, cmdq' = Tail(cmdq), Command.cmd = cmd,
         Command.vif = v, NEW m, evtq' = Append(evtq, m), m.event = event, m.vif = v,
         m.call = Command.call
  PROVE /\ AtMostOne(cmd, event, v)' /\ Sent(cmd, v)' = {}
        /\ Answers(event, v)' = {Len(evtq) + 1} /\ evtq'[Len(evtq) + 1] = m
<1>1. 1 \in Sent(cmd, v) /\ Command = cmdq[1]
  BY SentTaken
<1>2. Sent(cmd, v)' \subseteq Nat
  BY PlacesNext
<1>3. Sent(cmd, v)' = {}
  BY <1>1, <1>2, SentTaken DEF AtMostOne
<1>4. Answers(event, v) = {} /\ m.call = calls
  BY <1>1 DEF AtMostOne
<1>5. Answers(event, v)' = {Len(evtq) + 1} /\ evtq'[Len(evtq) + 1] = m
  BY <1>4, AnswersAdded
<1> QED BY <1>3, <1>4, <1>5 DEF AtMostOne

LEMMA AnswerTaken ==
  ASSUME TypeOK, TypeOK', NEW cmd, NEW event, NEW v, AtMostOne(cmd, event, v),
         cmdq' = cmdq, evtq # <<>>, evtq' = Tail(evtq), Event.event = event, Event.vif = v
  PROVE None(cmd, event, v)' /\ Event.call = calls
<1>1. 1 \in Answers(event, v) /\ Event = evtq[1]
  BY AnswersTaken
<1>2. Answers(event, v)' \subseteq Nat
  BY PlacesNext
<1>3. Answers(event, v)' = {}
  BY <1>1, <1>2, AnswersTaken DEF AtMostOne
<1>4. Sent(cmd, v)' = {}
  BY <1>1 DEF AtMostOne, Sent
<1> QED BY <1>1, <1>3, <1>4 DEF None, AtMostOne

-----------------------------------------------------------------------------
(* Which steps send or take commands and events for interface v.            *)
LEMMA ChangeSent ==
  ASSUME TypeOK, [Next]_vars, NEW v \in Vif
  PROVE \/ SentSame("SET_INTERFACE", v)
        \/ \E t \in IfType : ChgVif(v, t)
        \/ RpuSetInterface /\ Command.vif = v
<1> DEFINE Same == SentSame("SET_INTERFACE", v)
<1>1. ASSUME cmdq' = cmdq PROVE Same
  BY <1>1, SentUntouched
<1>2. ASSUME NEW cmd, NEW w, NEW t, UmacCmdCfg(cmd, w, t),
             cmd # "SET_INTERFACE" \/ w # v
      PROVE Same
  BY <1>2, SentUntouched DEF UmacCmdCfg
<1>3. ASSUME NextCommand, Command.cmd # "SET_INTERFACE" \/ Command.vif # v PROVE Same
  BY <1>3, SentUntouched DEF NextCommand
<1>4. ASSUME NEW w \in Vif, NEW op \in {"open", "close"}, ChgVifState(w, op) PROVE Same
  BY <1>1, <1>2, <1>4 DEF ChgVifState
<1>5. ASSUME NEW w \in Vif, NEW t \in IfType, ChgVif(w, t), w # v PROVE Same
  BY <1>2, <1>5 DEF ChgVif
<1>6. CASE Call
  BY <1>1, <1>2, <1>4, <1>5, <1>6
  DEF Call, MacAddr, AddVifFails, AddVif, DelVifRefused, DelVif, DelVifFails, UseOfFreed,
      ChgVifFails, ChgVifStateFails
<1>7. CASE Proceed
  BY <1>1, <1>2, <1>7
  DEF Proceed, AddVifPublish, DelVifFree, DelVifClose, DelVifClear, ChgVifAnswered,
      ChgVifTimeout, ChgVifStateAnswered, ChgVifStateTimeout
<1>8. CASE EventTasklet \/ UNCHANGED vars
  BY <1>1, <1>8 DEF EventTasklet, IfflagsStatus, SetIfCallback, CarrierEvent, EventFault, vars
<1>9. CASE RpuNext
  BY <1>1, <1>3, <1>9 DEF RpuNext, RpuNewInterface, RpuSetInterface, RpuSetIfflags, RpuCarrier
<1> QED BY <1>6, <1>7, <1>8, <1>9 DEF Next

LEMMA SwitchSent ==
  ASSUME TypeOK, [Next]_vars, NEW v \in Vif
  PROVE \/ SentSame("SET_IFFLAGS", v)
        \/ \E op \in {"open", "close"} : ChgVifState(v, op)
        \/ DelVifClose /\ cur.vif = v
        \/ RpuSetIfflags /\ Command.vif = v
<1> DEFINE Same == SentSame("SET_IFFLAGS", v)
<1>1. ASSUME cmdq' = cmdq PROVE Same
  BY <1>1, SentUntouched
<1>2. ASSUME NEW cmd, NEW w, NEW t, UmacCmdCfg(cmd, w, t), cmd # "SET_IFFLAGS" \/ w # v
      PROVE Same
  BY <1>2, SentUntouched DEF UmacCmdCfg
<1>3. ASSUME NextCommand, Command.cmd # "SET_IFFLAGS" \/ Command.vif # v PROVE Same
  BY <1>3, SentUntouched DEF NextCommand
<1>4. ASSUME NEW w \in Vif, NEW op \in {"open", "close"}, ChgVifState(w, op), w # v
      PROVE Same
  BY <1>1, <1>2, <1>4 DEF ChgVifState
<1>5. ASSUME NEW w \in Vif, NEW t \in IfType, ChgVif(w, t) PROVE Same
  BY <1>2, <1>5 DEF ChgVif
<1>6. CASE Call
  BY <1>1, <1>2, <1>4, <1>5, <1>6
  DEF Call, MacAddr, AddVifFails, AddVif, DelVifRefused, DelVif, DelVifFails, UseOfFreed,
      ChgVifFails, ChgVifStateFails
<1>7. CASE Proceed
  BY <1>1, <1>2, <1>7
  DEF Proceed, AddVifPublish, DelVifFree, DelVifClose, DelVifClear, ChgVifAnswered,
      ChgVifTimeout, ChgVifStateAnswered, ChgVifStateTimeout
<1>8. CASE EventTasklet \/ UNCHANGED vars
  BY <1>1, <1>8 DEF EventTasklet, IfflagsStatus, SetIfCallback, CarrierEvent, EventFault, vars
<1>9. CASE RpuNext
  BY <1>1, <1>3, <1>9 DEF RpuNext, RpuNewInterface, RpuSetInterface, RpuSetIfflags, RpuCarrier
<1> QED BY <1>6, <1>7, <1>8, <1>9 DEF Next

LEMMA AnswersSent ==
  ASSUME TypeOK, [Next]_vars, NEW v \in Vif
  PROVE /\ \/ AnswersSame("SET_INTERFACE", v)
           \/ SetIfCallback /\ Event.vif = v
           \/ EventFault /\ Event.event = "SET_INTERFACE" /\ Event.vif = v
           \/ RpuSetInterface /\ Command.vif = v
        /\ \/ AnswersSame("IFFLAGS_STATUS", v)
           \/ IfflagsStatus /\ Event.vif = v
           \/ EventFault /\ Event.event = "IFFLAGS_STATUS" /\ Event.vif = v
           \/ RpuSetIfflags /\ Command.vif = v
<1>1. ASSUME NEW kind, evtq' = evtq PROVE AnswersSame(kind, v)
  BY <1>1, AnswersUntouched
<1>2. ASSUME NEW kind, NEW event, NEW w, NEW e, NEW c,
             evtq' = Append(evtq, [event |-> event, vif |-> w, error |-> e, call |-> c]),
             event # kind \/ w # v
      PROVE AnswersSame(kind, v)
  BY <1>2, AnswersUntouched
<1>3. ASSUME NEW kind, NextEvent, Event.event # kind \/ Event.vif # v
      PROVE AnswersSame(kind, v)
  BY <1>3, AnswersUntouched DEF NextEvent
<1>4. CASE evtq' = evtq
  BY <1>1, <1>4
<1>5. CASE EventTasklet
  BY <1>3, <1>5 DEF EventTasklet, IfflagsStatus, SetIfCallback, CarrierEvent, EventFault
<1>6. CASE RpuSetInterface
  BY <1>2, <1>6 DEF RpuSetInterface, Reply
<1>7. CASE RpuSetIfflags
  BY <1>2, <1>7 DEF RpuSetIfflags, Reply
<1>8. CASE RpuCarrier
  BY <1>2, <1>8 DEF RpuCarrier
<1> QED BY <1>4, <1>5, <1>6, <1>7, <1>8
  DEF Next, Call, Proceed, RpuNext, vars, MacAddr, AddVifFails, AddVif, DelVifRefused,
      DelVif, DelVifFails, UseOfFreed, ChgVif, ChgVifFails, ChgVifState, ChgVifStateFails,
      AddVifPublish, DelVifFree, DelVifClose, DelVifClear, ChgVifAnswered, ChgVifTimeout,
      ChgVifStateAnswered, ChgVifStateTimeout, RpuNewInterface

(* Which steps begin and end a wait.                                        *)
LEMMA ChangingKept ==
  ASSUME TypeOK, CallInv, [Next]_vars, NEW v \in Vif
  PROVE \/ (Changing(v)' <=> Changing(v)) /\ (Changing(v) => calls' = calls)
        \/ \E t \in IfType : ChgVif(v, t)
        \/ (ChgVifAnswered \/ ChgVifTimeout) /\ cur.vif = v
<1> DEFINE Same == (Changing(v)' <=> Changing(v)) /\ (Changing(v) => calls' = calls)
<1>1. ASSUME pc \notin {"set_if"}, pc' \notin {"set_if"} PROVE Same
  BY <1>1 DEF Changing
<1>2. CASE Call
  <2>1. ASSUME NEW t \in IfType, ~ChgVif(v, t), NEW w \in Vif, ChgVif(w, t) PROVE Same
    BY <2>1 DEF ChgVif, Start, Changing
  <2> QED BY <1>1, <1>2, <2>1
      DEF Call, MacAddr, AddVifFails, AddVif, DelVifRefused, DelVif, DelVifFails, UseOfFreed,
          ChgVifFails, ChgVifState, ChgVifStateFails, Start, Refuse
<1>3. CASE Proceed
  <2>1. ASSUME ChgVifAnswered \/ ChgVifTimeout, cur.vif # v PROVE Same
    BY <2>1 DEF ChgVifAnswered, ChgVifTimeout, Return, Changing
  <2> QED BY <1>1, <1>3, <2>1
      DEF Proceed, AddVifPublish, DelVifFree, DelVifClose, DelVifClear, 
          ChgVifStateAnswered, ChgVifStateTimeout, StateDone, Return, At
<1>4. CASE EventTasklet \/ UNCHANGED vars
  BY <1>4 DEF EventTasklet, IfflagsStatus, SetIfCallback, CarrierEvent, EventFault, vars,
     callVars, Changing
<1>5. CASE RpuNext
  BY <1>5 DEF RpuNext, RpuNewInterface, RpuSetInterface, RpuSetIfflags, RpuCarrier,
     NextCommand, callVars, Changing
<1> QED BY <1>2, <1>3, <1>4, <1>5 DEF Next

LEMMA SwitchingKept ==
  ASSUME TypeOK, CallInv, [Next]_vars, NEW v \in Vif
  PROVE \/ (Switching(v)' <=> Switching(v)) /\ (Switching(v) => calls' = calls)
        \/ \E op \in {"open", "close"} : ChgVifState(v, op)
        \/ (DelVifClose \/ ChgVifStateAnswered \/ ChgVifStateTimeout) /\ cur.vif = v
<1> DEFINE Same == (Switching(v)' <=> Switching(v)) /\ (Switching(v) => calls' = calls)
<1>1. ASSUME pc \notin {"ifflags"}, pc' \notin {"ifflags"} PROVE Same
  BY <1>1 DEF Switching
<1>2. CASE Call
  <2>1. ASSUME NEW w \in Vif, NEW op \in {"open", "close"}, ChgVifState(w, op), w # v
        PROVE Same
    BY <2>1 DEF ChgVifState, Switching
  <2> QED BY <1>1, <1>2, <2>1
      DEF Call, MacAddr, AddVifFails, AddVif, DelVifRefused, DelVif, DelVifFails, UseOfFreed,
          ChgVif, ChgVifFails, ChgVifStateFails, Start, Refuse
<1>3. CASE Proceed
  <2>1. ASSUME DelVifClose \/ ChgVifStateAnswered \/ ChgVifStateTimeout, cur.vif # v
        PROVE Same
    BY <2>1 DEF DelVifClose, ChgVifStateAnswered, ChgVifStateTimeout, StateDone, Return,
       Switching
  <2> QED BY <1>1, <1>3, <2>1
      DEF Proceed, AddVifPublish, DelVifFree, DelVifClear, ChgVifAnswered, ChgVifTimeout,
          Return, At
<1>4. CASE EventTasklet \/ UNCHANGED vars
  BY <1>4 DEF EventTasklet, IfflagsStatus, SetIfCallback, CarrierEvent, EventFault, vars,
     callVars, Switching
<1>5. CASE RpuNext
  BY <1>5 DEF RpuNext, RpuNewInterface, RpuSetInterface, RpuSetIfflags, RpuCarrier,
     NextCommand, callVars, Switching
<1> QED BY <1>2, <1>3, <1>4, <1>5 DEF Next

LEMMA LateGrows == ASSUME [Next]_vars PROVE late \subseteq late'
BY DEF Next, Call, Proceed, EventTasklet, RpuNext, vars, callVars, MacAddr, AddVifFails, AddVif,
  DelVifRefused, DelVif, DelVifFails, UseOfFreed, ChgVif, ChgVifFails, ChgVifState,
  ChgVifStateFails, AddVifPublish, DelVifFree, DelVifClose, DelVifClear, ChgVifAnswered,
  ChgVifTimeout, ChgVifStateAnswered, ChgVifStateTimeout, IfflagsStatus, SetIfCallback,
  CarrierEvent, EventFault, RpuNewInterface, RpuSetInterface, RpuSetIfflags, RpuCarrier,
  NextCommand, Start, Refuse

(* event_set_if is set by the callback only. *)
LEMMA FlagKept ==
  ASSUME TypeOK, CallInv, SlotInv, [Next]_vars, NEW v \in Vif
  PROVE \/ netdev'[v].event_set_if \in {netdev[v].event_set_if, 0}
        \/ SetIfCallback /\ Event.vif = v
<1> DEFINE Same == netdev'[v].event_set_if \in {netdev[v].event_set_if, 0}
<1>0. netdev \in [Vif -> NetdevSet] /\ cur.vif \in Vif
  BY Typed
<1>1. ASSUME NEW x, NEW b,
             \/ netdev' = [netdev EXCEPT ![x].up = b]
             \/ netdev' = [netdev EXCEPT ![x].carrier = b]
             \/ netdev' = [netdev EXCEPT ![x].event_set_if = 0]
      PROVE Same
  BY <1>0, <1>1 DEF NetdevSet
<1>2. ASSUME NEW t \in IfType, AddVif(t) PROVE Same
  <2>1. cur'.vif \in Vif /\ netdev'[cur'.vif].event_set_if = 0
        /\ \A w \in Vif : w # cur'.vif => netdev'[w] = netdev[w]
    BY <1>2, AddVifMakes
  <2> QED BY <2>1
<1>3. CASE ChgVifAnswered
  BY <1>0, <1>3, ChgVifTakes
<1>4. CASE DelVifClear
  BY <1>0, <1>4, DelVifClearEmpties
<1>5. ASSUME NEW ok, StateDone(ok) PROVE Same
  BY <1>0, <1>5 DEF StateDone, NetdevSet
<1>6. CASE ChgVifStateAnswered \/ ChgVifStateTimeout
  BY <1>5, <1>6 DEF ChgVifStateAnswered, ChgVifStateTimeout
<1>7. ASSUME SetIfCallback, Event.vif # v PROVE Same
  BY <1>0, <1>7 DEF SetIfCallback, NetdevSet
<1>8. CASE CarrierEvent \/ DelVifClose
  BY <1>1, <1>8 DEF CarrierEvent, DelVifClose
<1>9. ASSUME NEW w \in Vif, NEW t \in IfType, ChgVifFails(w, t) PROVE Same
  BY <1>1, <1>9 DEF ChgVifFails
<1>10. ASSUME NEW w \in Vif, NEW op \in {"open", "close"}, ChgVifStateFails(w, op)
       PROVE Same
  BY <1>1, <1>10 DEF ChgVifStateFails
<1>11. CASE UNCHANGED netdev
  BY <1>11
<1>12. CASE Call
  BY <1>2, <1>9, <1>10, <1>11, <1>12
  DEF Call, MacAddr, AddVifFails, DelVifRefused, DelVif, DelVifFails, ChgVif, ChgVifState,
      UseOfFreed
<1>13. CASE Proceed \/ UNCHANGED vars
  BY <1>3, <1>4, <1>6, <1>8, <1>11, <1>13
  DEF Proceed, vars, AddVifPublish, DelVifFree, ChgVifTimeout
<1>14. CASE EventTasklet
  BY <1>7, <1>8, <1>11, <1>14 DEF EventTasklet, IfflagsStatus, EventFault
<1>15. CASE RpuNext
  BY <1>11, <1>15
  DEF RpuNext, RpuNewInterface, RpuSetInterface, RpuSetIfflags, RpuCarrier, NextCommand
<1> QED BY <1>12, <1>13, <1>14, <1>15 DEF Next

(* Unless it was late, a change waits for the answer to its own command. *)
LEMMA ChangeKept ==
  ASSUME HeldInv, HeldInv', ChangeInv, [Next]_vars
  PROVE ChangeInv'
<1>0. TypeOK /\ TypeOK' /\ CallInv /\ SlotInv /\ QueueInv
  BY DEF HeldInv
<1> SUFFICES ASSUME NEW v \in Vif \ late' PROVE ChangeWaited(v)'
  BY DEF ChangeInv
<1>a. v \in Vif /\ v \notin late /\ ChangeWaited(v)
  BY LateGrows DEF ChangeInv
<1>b. netdev \in [Vif -> NetdevSet] /\ calls \in Nat /\ calls' \in Nat
  BY <1>0, Typed, CallNumbers, CallTyped DEF CallTypes
<1>1. ASSUME SentSame("SET_INTERFACE", v), AnswersSame("SET_INTERFACE", v),
             Changing(v)' <=> Changing(v), Changing(v) => calls' = calls,
             netdev'[v].event_set_if \in {netdev[v].event_set_if, 0}
      PROVE ChangeWaited(v)'
  <2>1. CASE Changing(v)
    <3>1. AtMostOne("SET_INTERFACE", "SET_INTERFACE", v)'
      BY <1>0, <1>1, <1>a, <2>1, StillOne DEF ChangeWaited
    <3>2. netdev'[v].event_set_if # 0 =>
             /\ netdev'[v].event_set_if = calls'
             /\ None("SET_INTERFACE", "SET_INTERFACE", v)'
      BY <1>0, <1>1, <1>a, <2>1, StillNone DEF ChangeWaited
    <3> QED BY <1>1, <2>1, <3>1, <3>2 DEF ChangeWaited
  <2>2. CASE ~Changing(v)
    <3>1. None("SET_INTERFACE", "SET_INTERFACE", v)' /\ netdev'[v].event_set_if = 0
      BY <1>0, <1>1, <1>a, <2>2, StillNone DEF ChangeWaited
    <3> QED BY <1>1, <2>2, <3>1 DEF ChangeWaited
  <2> QED BY <2>1, <2>2
<1>2. ASSUME NEW t \in IfType, ChgVif(v, t) PROVE ChangeWaited(v)'
  <2>1. /\ ~Changing(v) /\ Changing(v)' /\ netdev' = netdev /\ evtq' = evtq
        /\ cmdq' = Append(cmdq, [cmd |-> "SET_INTERFACE", vif |-> v, type |-> t,
                                 call |-> calls'])
    BY <1>2 DEF ChgVif, Start, UmacCmdCfg, Changing
  <2>2. None("SET_INTERFACE", "SET_INTERFACE", v) /\ netdev'[v].event_set_if = 0
    BY <1>a, <2>1 DEF ChangeWaited
  <2>3. AtMostOne("SET_INTERFACE", "SET_INTERFACE", v)'
    BY <1>0, <2>1, <2>2, FirstSent
  <2> QED BY <2>1, <2>2, <2>3 DEF ChangeWaited
<1>3. ASSUME ChgVifAnswered, cur.vif = v PROVE ChangeWaited(v)'
  <2>1. /\ Changing(v) /\ ~Changing(v)' /\ netdev[v].event_set_if # 0
        /\ cmdq' = cmdq /\ evtq' = evtq
    BY <1>3 DEF ChgVifAnswered, At, Return, Changing
  <2>2. None("SET_INTERFACE", "SET_INTERFACE", v)'
    BY <1>a, <2>1 DEF ChangeWaited, None, Sent, Answers
  <2>3. netdev'[v].event_set_if = 0
    BY <1>0, <1>3, ChgVifTakes
  <2> QED BY <2>1, <2>2, <2>3 DEF ChangeWaited
<1>4. ASSUME ChgVifTimeout, cur.vif = v PROVE ChangeWaited(v)'
  BY <1>4 DEF ChgVifTimeout
<1>5. ASSUME NextEvent, Event.event = "SET_INTERFACE", Event.vif = v, cmdq' = cmdq,
             UNCHANGED <<pc, cur, calls>>,
             netdev' = netdev \/ netdev'[v].event_set_if = Event.call
      PROVE ChangeWaited(v)'
  <2>1. 1 \in Answers("SET_INTERFACE", v)
    BY <1>0, <1>5, AnswersTaken DEF NextEvent
  <2>2. /\ Changing(v) /\ AtMostOne("SET_INTERFACE", "SET_INTERFACE", v)
        /\ netdev[v].event_set_if = 0
    BY <1>a, <2>1 DEF ChangeWaited, None
  <2>3. None("SET_INTERFACE", "SET_INTERFACE", v)' /\ Event.call = calls
    BY <1>0, <1>5, <2>2, AnswerTaken DEF NextEvent
  <2>4. AtMostOne("SET_INTERFACE", "SET_INTERFACE", v)'
    BY <2>3 DEF None, AtMostOne
  <2>5. Changing(v)'
    BY <1>5, <2>2 DEF Changing
  <2> QED BY <1>5, <2>2, <2>3, <2>4, <2>5 DEF ChangeWaited
<1>6. ASSUME SetIfCallback, Event.vif = v PROVE ChangeWaited(v)'
  <2>1. netdev' = netdev \/ netdev'[v].event_set_if = Event.call
    BY <1>b, <1>6 DEF SetIfCallback, NetdevSet
  <2> QED BY <1>5, <1>6, <2>1 DEF SetIfCallback, callVars
<1>7. ASSUME EventFault, Event.event = "SET_INTERFACE", Event.vif = v
      PROVE ChangeWaited(v)'
  BY <1>5, <1>7 DEF EventFault, callVars
<1>8. ASSUME RpuSetInterface, Command.vif = v PROVE ChangeWaited(v)'
  <2>1. /\ cmdq # <<>> /\ cmdq' = Tail(cmdq) /\ Command.cmd = "SET_INTERFACE"
        /\ netdev' = netdev /\ UNCHANGED <<pc, cur, calls>>
        /\ \E e : evtq' = Append(evtq, [event |-> "SET_INTERFACE", vif |-> v,
                                        error |-> e, call |-> Command.call])
    BY <1>8 DEF RpuSetInterface, Reply, NextCommand, callVars
  <2>2. 1 \in Sent("SET_INTERFACE", v)
    BY <1>0, <1>8, <2>1, SentTaken
  <2>3. /\ Changing(v) /\ AtMostOne("SET_INTERFACE", "SET_INTERFACE", v)
        /\ netdev[v].event_set_if = 0
    BY <1>a, <2>2 DEF ChangeWaited, None
  <2>4. AtMostOne("SET_INTERFACE", "SET_INTERFACE", v)'
    BY <1>0, <1>8, <2>1, <2>3, OneAnswered
  <2>5. Changing(v)'
    BY <2>1, <2>3 DEF Changing
  <2> QED BY <2>1, <2>3, <2>4, <2>5 DEF ChangeWaited
<1> QED
  BY <1>0, <1>1, <1>2, <1>3, <1>4, <1>6, <1>7, <1>8, <1>a,
     ChangeSent, AnswersSent, ChangingKept, FlagKept

(* While a change of state is waited for, ifflags is set by the event only. *)
LEMMA IfflagsKept ==
  ASSUME HeldInv, [Next]_vars, NEW v \in Vif, Switching(v), Switching(v)'
  PROVE \/ /\ vif_ctx'[v] = vif_ctx[v]
           /\ ctx'[vif_ctx[v]].ifflags = ctx[vif_ctx[v]].ifflags
        \/ IfflagsStatus /\ Event.vif = v
<1>0. /\ TypeOK /\ CallInv /\ SlotInv /\ ctx \in [Context -> CtxSet]
      /\ vif_ctx \in [Vif -> Context \cup {NULL}] /\ cur.vif = v /\ pc = "ifflags"
      /\ NULL \notin Context
  BY Typed, VifAssumption DEF HeldInv, Switching
<1>1. vif_ctx[v] \in Context
  BY <1>0, CallHasContext
<1>2. CASE UNCHANGED <<vif_ctx, ctx>>
  BY <1>2
<1>3. ASSUME IfflagsStatus, Event.vif # v
      PROVE /\ vif_ctx'[v] = vif_ctx[v]
            /\ ctx'[vif_ctx[v]].ifflags = ctx[vif_ctx[v]].ifflags
  <2>1. Event.vif \in Vif
    BY <1>0, <1>3, HeadEvent DEF IfflagsStatus, NextEvent, EventSet
  <2>2. vif_ctx[Event.vif] # vif_ctx[v]
    BY <1>0, <1>1, <1>3, <2>1 DEF SlotInv
  <2> QED BY <1>0, <1>1, <1>3, <2>2 DEF IfflagsStatus
<1> QED
  BY <1>0, <1>2, <1>3
  DEF Next, Call, Proceed, EventTasklet, RpuNext, vars, vifVars, MacAddr, AddVifFails,
      AddVif, AddVifPublish, DelVifRefused, DelVif, DelVifFails, DelVifFree, DelVifClose,
      DelVifClear, ChgVif, ChgVifFails, ChgVifAnswered, ChgVifTimeout, ChgVifState,
      ChgVifStateFails, ChgVifStateAnswered, ChgVifStateTimeout, UseOfFreed,
      SetIfCallback, CarrierEvent, EventFault, RpuNewInterface,
      RpuSetInterface, RpuSetIfflags, RpuCarrier, NextCommand, Start, Refuse, At

(* Unless it was late, a change of state waits for the answer to its own    *)
(* command.                                                                 *)
LEMMA SwitchKept ==
  ASSUME HeldInv, HeldInv', SwitchInv, [Next]_vars
  PROVE SwitchInv'
<1>0. TypeOK /\ TypeOK' /\ CallInv /\ SlotInv /\ QueueInv
  BY DEF HeldInv
<1> SUFFICES ASSUME NEW v \in Vif \ late' PROVE SwitchWaited(v)'
  BY DEF SwitchInv
<1>a. v \in Vif /\ v \notin late /\ SwitchWaited(v)
  BY LateGrows DEF SwitchInv
<1>b. /\ ctx \in [Context -> CtxSet] /\ vif_ctx \in [Vif -> Context \cup {NULL}]
      /\ cur.vif \in Vif /\ NULL \notin Context
  BY <1>0, Typed, VifAssumption
<1>1. ASSUME SentSame("SET_IFFLAGS", v), AnswersSame("IFFLAGS_STATUS", v),
             Switching(v)' <=> Switching(v), Switching(v) => calls' = calls,
             ~(IfflagsStatus /\ Event.vif = v)
      PROVE SwitchWaited(v)'
  <2>1. CASE Switching(v)
    <3>1. AtMostOne("SET_IFFLAGS", "IFFLAGS_STATUS", v)'
      BY <1>0, <1>1, <1>a, <2>1, StillOne DEF SwitchWaited
    <3>2. vif_ctx'[v] = vif_ctx[v] /\ ctx'[vif_ctx[v]].ifflags = ctx[vif_ctx[v]].ifflags
      BY <1>1, <1>a, <2>1, IfflagsKept
    <3>3. ctx'[vif_ctx'[v]].ifflags # 0 =>
             /\ ctx'[vif_ctx'[v]].ifflags = calls'
             /\ None("SET_IFFLAGS", "IFFLAGS_STATUS", v)'
      BY <1>0, <1>1, <1>a, <2>1, <3>2, StillNone DEF SwitchWaited
    <3> QED BY <1>1, <2>1, <3>1, <3>3 DEF SwitchWaited
  <2>2. CASE ~Switching(v)
    <3>1. None("SET_IFFLAGS", "IFFLAGS_STATUS", v)'
      BY <1>0, <1>1, <1>a, <2>2, StillNone DEF SwitchWaited
    <3> QED BY <1>1, <2>2, <3>1 DEF SwitchWaited
  <2> QED BY <2>1, <2>2
<1>2. ASSUME ~Switching(v), evtq' = evtq, vif_ctx' = vif_ctx, vif_ctx[v] \in Context,
             ctx' = [ctx EXCEPT ![vif_ctx[v]].ifflags = 0],
             \/ cmdq' = cmdq
             \/ \E t : cmdq' = Append(cmdq, [cmd |-> "SET_IFFLAGS", vif |-> v, type |-> t,
                                             call |-> calls']),
             Switching(v)'
      PROVE SwitchWaited(v)'
  <2>1. None("SET_IFFLAGS", "IFFLAGS_STATUS", v)
    BY <1>a, <1>2 DEF SwitchWaited
  <2>2. ctx'[vif_ctx'[v]].ifflags = 0
    BY <1>2, <1>b
  <2>3. AtMostOne("SET_IFFLAGS", "IFFLAGS_STATUS", v)'
    <3>1. CASE cmdq' = cmdq
      BY <1>2, <2>1, <3>1 DEF None, AtMostOne, Sent, Answers
    <3>2. ASSUME NEW t, cmdq' = Append(cmdq, [cmd |-> "SET_IFFLAGS", vif |-> v,
                                              type |-> t, call |-> calls'])
          PROVE AtMostOne("SET_IFFLAGS", "IFFLAGS_STATUS", v)'
      BY <1>0, <1>2, <2>1, <3>2, FirstSent
    <3> QED BY <1>2, <3>1, <3>2
  <2> QED BY <1>2, <2>2, <2>3 DEF SwitchWaited
<1>3. ASSUME NEW op \in {"open", "close"}, ChgVifState(v, op) PROVE SwitchWaited(v)'
  <2>1. vif_ctx[v] \in Context
    BY <1>0, <1>3, <1>a, NetdevHasContext DEF ChgVifState
  <2>2. \/ cmdq' = cmdq
        \/ \E t : cmdq' = Append(cmdq, [cmd |-> "SET_IFFLAGS", vif |-> v, type |-> t,
                                        call |-> calls'])
    BY <1>3 DEF ChgVifState, UmacCmdCfg
  <2>3. cur'.vif = v /\ pc' = "ifflags" /\ pc = "idle"
    BY <1>3 DEF ChgVifState
  <2> QED BY <1>2, <1>3, <2>1, <2>2, <2>3 DEF ChgVifState, Switching
<1>4. ASSUME DelVifClose, cur.vif = v PROVE SwitchWaited(v)'
  <2>1. vif_ctx[v] \in Context
    BY <1>0, <1>4, CallHasContext DEF DelVifClose, At
  <2> QED BY <1>2, <1>4, <2>1 DEF DelVifClose, At, UmacCmdCfg, Switching
<1>5. ASSUME ChgVifStateAnswered, cur.vif = v PROVE SwitchWaited(v)'
  <2>1. /\ Switching(v) /\ ctx[vif_ctx[v]].ifflags # 0 /\ cmdq' = cmdq /\ evtq' = evtq
        /\ ~Switching(v)'
    BY <1>5 DEF ChgVifStateAnswered, At, StateDone, Return, Switching
  <2>2. None("SET_IFFLAGS", "IFFLAGS_STATUS", v)'
    BY <1>a, <2>1 DEF SwitchWaited, None, Sent, Answers
  <2> QED BY <2>1, <2>2 DEF SwitchWaited
<1>6. ASSUME ChgVifStateTimeout, cur.vif = v PROVE SwitchWaited(v)'
  BY <1>6 DEF ChgVifStateTimeout
<1>7. ASSUME NextEvent, Event.event = "IFFLAGS_STATUS", Event.vif = v, cmdq' = cmdq,
             UNCHANGED <<pc, cur, calls, vif_ctx>>,
             ctx' = ctx \/ ctx' = [ctx EXCEPT ![vif_ctx[v]].ifflags = Event.call]
      PROVE SwitchWaited(v)'
  <2>1. 1 \in Answers("IFFLAGS_STATUS", v)
    BY <1>0, <1>7, AnswersTaken DEF NextEvent
  <2>2. /\ Switching(v) /\ AtMostOne("SET_IFFLAGS", "IFFLAGS_STATUS", v)
        /\ ctx[vif_ctx[v]].ifflags = 0
    BY <1>a, <2>1 DEF SwitchWaited, None
  <2>3. None("SET_IFFLAGS", "IFFLAGS_STATUS", v)' /\ Event.call = calls
    BY <1>0, <1>7, <2>2, AnswerTaken DEF NextEvent
  <2>4. AtMostOne("SET_IFFLAGS", "IFFLAGS_STATUS", v)'
    BY <2>3 DEF None, AtMostOne
  <2>5. Switching(v)' /\ vif_ctx[v] \in Context
    BY <1>0, <1>7, <2>2, CallHasContext DEF Switching
  <2>6. ctx'[vif_ctx'[v]].ifflags \in {0, Event.call}
    <3>1. vif_ctx'[v] = vif_ctx[v]
      BY <1>7
    <3>2. CASE ctx' = ctx
      BY <2>2, <3>1, <3>2
    <3>3. CASE ctx' = [ctx EXCEPT ![vif_ctx[v]].ifflags = Event.call]
      BY <1>b, <2>5, <3>1, <3>3 DEF CtxSet
    <3> QED BY <1>7, <3>2, <3>3
  <2> QED BY <1>7, <2>3, <2>4, <2>5, <2>6 DEF SwitchWaited
<1>8. ASSUME IfflagsStatus, Event.vif = v PROVE SwitchWaited(v)'
  BY <1>7, <1>8 DEF IfflagsStatus, callVars
<1>9. ASSUME EventFault, Event.event = "IFFLAGS_STATUS", Event.vif = v
      PROVE SwitchWaited(v)'
  BY <1>7, <1>9 DEF EventFault, callVars, vifVars
<1>10. ASSUME RpuSetIfflags, Command.vif = v PROVE SwitchWaited(v)'
  <2>1. /\ cmdq # <<>> /\ cmdq' = Tail(cmdq) /\ Command.cmd = "SET_IFFLAGS"
        /\ UNCHANGED <<ctx, vif_ctx, pc, cur, calls>>
        /\ \E e : evtq' = Append(evtq, [event |-> "IFFLAGS_STATUS", vif |-> v,
                                        error |-> e, call |-> Command.call])
    BY <1>10 DEF RpuSetIfflags, Reply, NextCommand, callVars, vifVars
  <2>2. 1 \in Sent("SET_IFFLAGS", v)
    BY <1>0, <1>10, <2>1, SentTaken
  <2>3. /\ Switching(v) /\ AtMostOne("SET_IFFLAGS", "IFFLAGS_STATUS", v)
        /\ ctx[vif_ctx[v]].ifflags = 0
    BY <1>a, <2>2 DEF SwitchWaited, None
  <2>4. AtMostOne("SET_IFFLAGS", "IFFLAGS_STATUS", v)'
    BY <1>0, <1>10, <2>1, <2>3, OneAnswered
  <2>5. Switching(v)'
    BY <2>1, <2>3 DEF Switching
  <2> QED BY <2>1, <2>3, <2>4, <2>5 DEF SwitchWaited
<1> QED
  BY <1>0, <1>1, <1>3, <1>4, <1>5, <1>6, <1>8, <1>9, <1>10, <1>a,
     SwitchSent, AnswersSent, SwitchingKept

-----------------------------------------------------------------------------
(* A wait that ends well has taken the answer to the command of its call. *)
LEMMA AnswersKept ==
  ASSUME HeldInv, ChangeInv, SwitchInv, AnswersMatch, [Next]_vars
  PROVE AnswersMatch'
<1>0. TypeOK /\ CallInv /\ SlotInv /\ cur.vif \in Vif
  BY Typed DEF HeldInv
<1>1. CASE ChgVifAnswered
  <2>1. /\ pc = "set_if" /\ cur' = cur /\ calls' = calls /\ late' = late
        /\ answer' = netdev[cur.vif].event_set_if /\ netdev[cur.vif].event_set_if # 0
    BY <1>1 DEF ChgVifAnswered, At, Return
  <2>2. cur.vif \notin late => netdev[cur.vif].event_set_if = calls
    BY <1>0, <2>1 DEF ChangeInv, ChangeWaited, Changing
  <2> QED BY <2>1, <2>2 DEF AnswersMatch
<1>2. CASE ChgVifStateAnswered
  <2>1. /\ pc = "ifflags" /\ cur' = cur /\ calls' = calls /\ late' = late
        /\ ctx[vif_ctx[cur.vif]].ifflags # 0
        /\ pc' = "idle" => answer' = ctx[vif_ctx[cur.vif]].ifflags
    BY <1>2 DEF ChgVifStateAnswered, At, StateDone, Return
  <2>2. cur.vif \notin late => ctx[vif_ctx[cur.vif]].ifflags = calls
    BY <1>0, <2>1 DEF SwitchInv, SwitchWaited, Switching
  <2> QED BY <2>1, <2>2 DEF AnswersMatch
<1>3. CASE ChgVifTimeout \/ ChgVifStateTimeout
  BY <1>3 DEF ChgVifTimeout, ChgVifStateTimeout, StateDone, Return, AnswersMatch
<1>4. CASE AddVifPublish \/ DelVifFree \/ DelVifClose \/ DelVifClear
  BY <1>0, <1>4 DEF AddVifPublish, DelVifFree, DelVifClose, DelVifClear, At, Return, CallInv,
     AnswersMatch
<1>5. CASE Call
  <2>1. ASSUME pc' # "idle" \/ result' # "ok" PROVE AnswersMatch'
    BY <2>1 DEF AnswersMatch
  <2>2. ASSUME NEW t \in IfType, MacAddr(t) PROVE AnswersMatch'
    BY <2>2 DEF MacAddr, AnswersMatch
  <2> QED BY <1>5, <2>1, <2>2
      DEF Call, AddVifFails, AddVif, DelVifRefused, DelVif, DelVifFails, UseOfFreed,
          ChgVif, ChgVifFails, ChgVifState, ChgVifStateFails, Start, Refuse
<1>6. CASE UNCHANGED callVars
  BY <1>6 DEF callVars, AnswersMatch
<1> QED
  BY <1>1, <1>2, <1>3, <1>4, <1>5, <1>6
  DEF Next, Proceed, EventTasklet, RpuNext, vars, IfflagsStatus, SetIfCallback,
      CarrierEvent, EventFault, RpuNewInterface, RpuSetInterface, RpuSetIfflags,
      RpuCarrier, NextCommand

-----------------------------------------------------------------------------
(* The commands that make, delete or change v, and the step.                *)
LEMMA ShiftUntouched ==
  ASSUME TypeOK, NEW v,
         \/ cmdq' = cmdq
         \/ \E m : cmdq' = Append(cmdq, m) /\ (m.vif # v \/ m.cmd = "SET_IFFLAGS")
         \/ /\ cmdq # <<>> /\ cmdq' = Tail(cmdq)
            /\ Command.vif # v \/ Command.cmd = "SET_IFFLAGS"
  PROVE QueueShift(v)
<1>1. CASE cmdq' = cmdq
  <2>1. Life(v)' = Life(v) /\ Sent("SET_INTERFACE", v)' = Sent("SET_INTERFACE", v)
    BY <1>1 DEF Life, Sent
  <2> QED BY <1>1, <2>1 DEF QueueShift
<1>2. ASSUME NEW m, cmdq' = Append(cmdq, m), m.vif # v \/ m.cmd = "SET_IFFLAGS"
      PROVE QueueShift(v)
  <2>1. ASSUME NEW kind \in {"NEW_INTERFACE", "DEL_INTERFACE", "SET_INTERFACE"}
        PROVE Sent(kind, v)' = Sent(kind, v)
    <3>1. ~(m.cmd = kind /\ m.vif = v)
      BY <1>2
    <3>2. Sent(kind, v)' = Sent(kind, v) \cup
             (IF m.cmd = kind /\ m.vif = v THEN {Len(cmdq) + 1} ELSE {})
      BY <1>2, SentAdded
    <3> QED BY <3>1, <3>2
  <2>2. \A i \in 1..Len(cmdq) : cmdq'[i] = cmdq[i]
    BY <1>2, SentAdded
  <2>3. Life(v)' = Life(v) /\ Life(v) \subseteq 1..Len(cmdq)
        /\ Sent("SET_INTERFACE", v)' = Sent("SET_INTERFACE", v)
        /\ Sent("SET_INTERFACE", v) \subseteq 1..Len(cmdq)
    BY <2>1, Places DEF Life
  <2> QED BY <2>2, <2>3 DEF QueueShift
<1>3. ASSUME cmdq # <<>>, cmdq' = Tail(cmdq), Command.vif # v \/ Command.cmd = "SET_IFFLAGS"
      PROVE QueueShift(v)
  <2>1. cmdq \in Seq(CommandSet) /\ Len(cmdq) \in Nat
    BY Typed, Places
  <2>2. /\ Len(cmdq) > 0 /\ Len(cmdq') = Len(cmdq) - 1
        /\ \A i \in 1..(Len(cmdq) - 1) : cmdq'[i] = cmdq[i + 1]
    BY <1>3, <2>1, TailOf
  <2>3. ASSUME NEW kind \in {"NEW_INTERFACE", "DEL_INTERFACE", "SET_INTERFACE"}
        PROVE \A i \in Nat : /\ i \in Sent(kind, v)' <=> i + 1 \in Sent(kind, v)
                             /\ i \in Sent(kind, v)' => cmdq'[i] = cmdq[i + 1]
    <3>1. 1 \notin Sent(kind, v)
      BY <1>3, SentTaken
    <3>2. \A i \in Nat : i \in Sent(kind, v)' => cmdq'[i] = cmdq[i + 1]
      BY <2>1, <2>2 DEF Sent
    <3>3. \A i \in Nat : i \in Sent(kind, v)' <=> i + 1 \in Sent(kind, v)
      BY <2>1, <2>2, <3>1 DEF Sent
    <3> QED BY <3>2, <3>3
  <2>4. \A i \in Nat : /\ i \in Life(v)' <=> i + 1 \in Life(v)
                       /\ i \in Sent("SET_INTERFACE", v)' <=> i + 1 \in Sent("SET_INTERFACE", v)
                       /\ i \in Life(v)' \/ i \in Sent("SET_INTERFACE", v)' =>
                             cmdq'[i] = cmdq[i + 1]
    BY <2>3 DEF Life
  <2> QED BY <2>4 DEF QueueShift
<1> QED BY <1>1, <1>2, <1>3

LEMMA LifeSent ==
  ASSUME TypeOK, [Next]_vars, NEW v \in Vif
  PROVE \/ QueueShift(v)
        \/ \E t \in IfType : (AddVif(t) /\ cur'.vif = v) \/ ChgVif(v, t)
        \/ DelVif(v)
        \/ (RpuNewInterface \/ RpuSetInterface) /\ Command.vif = v
<1>1. ASSUME cmdq' = cmdq PROVE QueueShift(v)
  BY <1>1, ShiftUntouched
<1>2. ASSUME NEW cmd, NEW w, NEW t, UmacCmdCfg(cmd, w, t), cmd = "SET_IFFLAGS" \/ w # v
      PROVE QueueShift(v)
  BY <1>2, ShiftUntouched DEF UmacCmdCfg
<1>3. ASSUME NextCommand, Command.cmd = "SET_IFFLAGS" \/ Command.vif # v
      PROVE QueueShift(v)
  BY <1>3, ShiftUntouched DEF NextCommand
<1>4. CASE Call
  <2>1. ASSUME NEW t \in IfType, AddVif(t), cur'.vif # v PROVE QueueShift(v)
    BY <1>2, <2>1 DEF AddVif, Start
  <2>2. ASSUME NEW w \in Vif, DelVif(w), w # v PROVE QueueShift(v)
    BY <1>2, <2>2 DEF DelVif
  <2>3. ASSUME NEW w \in Vif, NEW t \in IfType, ChgVif(w, t), w # v PROVE QueueShift(v)
    BY <1>2, <2>3 DEF ChgVif
  <2>4. ASSUME NEW w \in Vif, NEW op \in {"open", "close"}, ChgVifState(w, op)
        PROVE QueueShift(v)
    BY <1>1, <1>2, <2>4 DEF ChgVifState
  <2> QED BY <1>1, <1>4, <2>1, <2>2, <2>3, <2>4
      DEF Call, MacAddr, AddVifFails, DelVifRefused, DelVifFails, UseOfFreed, ChgVifFails,
          ChgVifStateFails
<1>5. CASE Proceed
  BY <1>1, <1>2, <1>5
  DEF Proceed, AddVifPublish, DelVifFree, DelVifClose, DelVifClear, ChgVifAnswered,
      ChgVifTimeout, ChgVifStateAnswered, ChgVifStateTimeout
<1>6. CASE EventTasklet \/ UNCHANGED vars
  BY <1>1, <1>6 DEF EventTasklet, IfflagsStatus, SetIfCallback, CarrierEvent, EventFault, vars
<1>7. CASE RpuNext
  BY <1>1, <1>3, <1>7 DEF RpuNext, RpuNewInterface, RpuSetInterface, RpuSetIfflags, RpuCarrier
<1> QED BY <1>4, <1>5, <1>6, <1>7 DEF Next

(* What a net device and the RPU have of v, and the step.                   *)
LEMMA TypeStays ==
  ASSUME HeldInv, [Next]_vars, NEW v \in Vif
  PROVE \/ /\ netdev'[v].registered = netdev[v].registered
           /\ netdev'[v].iftype = netdev[v].iftype
        \/ \E t \in IfType : AddVif(t) /\ cur'.vif = v
        \/ (DelVifClear \/ ChgVifAnswered) /\ cur.vif = v
<1>0. TypeOK /\ CallInv /\ SlotInv /\ LimitInv
  BY DEF HeldInv
<1>1. CASE Unmoved
  BY <1>1 DEF Unmoved
<1>2. ASSUME NEW t \in IfType, AddVif(t), cur'.vif # v PROVE netdev'[v] = netdev[v]
  BY <1>0, <1>2, AddVifMakes
<1>3. ASSUME AddVifPublish \/ DelVifFree \/ \E w \in Vif : DelVifFails(w)
      PROVE netdev'[v] = netdev[v]
  BY <1>3 DEF AddVifPublish, DelVifFree, DelVifFails
<1>4. ASSUME DelVifClear \/ ChgVifAnswered, cur.vif # v PROVE netdev'[v] = netdev[v]
  BY <1>0, <1>4, DelVifClearEmpties, ChgVifTakes
<1> QED BY <1>0, <1>1, <1>2, <1>3, <1>4, StepUnmoved DEF Moves

LEMMA RpuStays ==
  ASSUME TypeOK, [Next]_vars, NEW v \in Vif
  PROVE \/ rpu'[v].type = rpu[v].type
        \/ (RpuNewInterface \/ RpuSetInterface) /\ Command.vif = v
<1>0. rpu \in [Vif -> RpuSet]
  BY Typed
<1>1. ASSUME RpuNewInterface \/ RpuSetInterface, Command.vif # v PROVE rpu'[v].type = rpu[v].type
  BY <1>0, <1>1 DEF RpuNewInterface, RpuSetInterface
<1>2. CASE RpuSetIfflags
  BY <1>0, <1>2 DEF RpuSetIfflags, RpuSet
<1>3. CASE UNCHANGED rpu
  BY <1>3
<1> QED
  BY <1>1, <1>2, <1>3
  DEF Next, Call, Proceed, EventTasklet, RpuNext, vars, MacAddr, AddVifFails, AddVif,
      AddVifPublish, DelVifRefused, DelVif, DelVifFails, DelVifFree, DelVifClose,
      DelVifClear, ChgVif, ChgVifFails, ChgVifAnswered, ChgVifTimeout, ChgVifState,
      ChgVifStateFails, ChgVifStateAnswered, ChgVifStateTimeout, UseOfFreed,
      IfflagsStatus, SetIfCallback, CarrierEvent, EventFault, RpuCarrier

(* While a change is waited for, its net device hears from the event only.  *)
LEMMA ReplyStays ==
  ASSUME TypeOK, [Next]_vars, NEW v \in Vif, Changing(v), Changing(v)'
  PROVE /\ cur' = cur
        /\ \/ /\ netdev'[v].event_set_if = netdev[v].event_set_if
              /\ netdev'[v].status_set_if = netdev[v].status_set_if
           \/ SetIfCallback /\ Event.vif = v
<1>0. netdev \in [Vif -> NetdevSet] /\ pc = "set_if" /\ pc' = "set_if"
  BY Typed DEF Changing
<1>1. ASSUME SetIfCallback, Event.vif # v PROVE netdev'[v] = netdev[v]
  BY <1>0, <1>1 DEF SetIfCallback
<1>2. CASE CarrierEvent
  BY <1>0, <1>2 DEF CarrierEvent, NetdevSet, callVars
<1>3. CASE UNCHANGED <<netdev, cur>>
  BY <1>3
<1> QED
  BY <1>0, <1>1, <1>2, <1>3
  DEF Next, Call, Proceed, EventTasklet, RpuNext, vars, callVars, MacAddr, AddVifFails,
      AddVif, AddVifPublish, DelVifRefused, DelVif, DelVifFails, DelVifFree, DelVifClose,
      DelVifClear, ChgVif, ChgVifFails, ChgVifAnswered, ChgVifTimeout, ChgVifState,
      ChgVifStateFails, ChgVifStateAnswered, ChgVifStateTimeout, UseOfFreed,
      IfflagsStatus, SetIfCallback, EventFault, RpuNewInterface,
      RpuSetInterface, RpuSetIfflags, RpuCarrier, NextCommand, Start, Refuse, At, Return

(* A step that does not concern v leaves the agreement about v as it is.    *)
LEMMA AgreesQuiet ==
  ASSUME TypeOK, TypeOK', NEW v \in Vif, RpuAgrees(v), QueueShift(v),
         AnswersSame("SET_INTERFACE", v), Changing(v)' <=> Changing(v),
         netdev'[v].iftype = netdev[v].iftype, rpu'[v].type = rpu[v].type,
         Changing(v) => /\ cur' = cur
                        /\ netdev'[v].event_set_if = netdev[v].event_set_if
                        /\ netdev'[v].status_set_if = netdev[v].status_set_if
  PROVE RpuAgrees(v)'
<1>1. PICK d \in {0, 1} : \A i \in Nat :
         /\ i \in Life(v)' <=> i + d \in Life(v)
         /\ i \in Sent("SET_INTERFACE", v)' <=> i + d \in Sent("SET_INTERFACE", v)
         /\ i \in Life(v)' \/ i \in Sent("SET_INTERFACE", v)' => cmdq'[i] = cmdq[i + d]
  BY DEF QueueShift
<1>2. PICK e \in {0, 1} : \A i \in Nat :
         /\ i \in Answers("SET_INTERFACE", v)' <=> i + e \in Answers("SET_INTERFACE", v)
         /\ i \in Answers("SET_INTERFACE", v)' => evtq'[i] = evtq[i + e]
  BY DEF AnswersSame
<1>3. /\ Life(v) \subseteq Nat \ {0} /\ Life(v)' \subseteq Nat
      /\ Sent("SET_INTERFACE", v)' \subseteq Nat /\ Answers("SET_INTERFACE", v)' \subseteq Nat
  BY Places, PlacesNext DEF Life
<1>4. \A k \in Life(v) : \E j \in Life(v)' : k = j + d
  <2>1. ASSUME NEW k \in Life(v) PROVE k - d \in Life(v)' /\ k = (k - d) + d
    <3>1. k \in Nat /\ k > 0 /\ k - d \in Nat /\ k = (k - d) + d
      BY <1>3
    <3> QED BY <1>1, <3>1
  <2> QED BY <2>1
<1>5. Life(v)' = {} <=> Life(v) = {}
  BY <1>1, <1>3, <1>4
<1>6. ASSUME NEW i \in Life(v)', \A j \in Life(v)' : j <= i
      PROVE cmdq'[i].cmd = "NEW_INTERFACE" /\ cmdq'[i].type = netdev'[v].iftype
  <2>1. i \in Nat /\ i + d \in Life(v) /\ cmdq'[i] = cmdq[i + d]
    BY <1>1, <1>3
  <2>2. \A k \in Life(v) : k <= i + d
    BY <1>3, <1>4, <1>6
  <2> QED BY <2>1, <2>2 DEF RpuAgrees
<1>7. ~Changing(v)' /\ Life(v)' = {} => rpu'[v].type = netdev'[v].iftype
  BY <1>5 DEF RpuAgrees
<1>8. ASSUME Changing(v) PROVE RpuTold(v)'
  <2>1. RpuTold(v) /\ cur' = cur
    BY <1>8 DEF RpuAgrees
  <2>2. ASSUME NEW i \in Sent("SET_INTERFACE", v)'
        PROVE /\ cmdq'[i].type = cur'.type
              /\ \A j \in Life(v)' : j < i
              /\ Life(v)' = {} => rpu'[v].type = netdev'[v].iftype
    <3>1. i \in Nat /\ i + d \in Sent("SET_INTERFACE", v) /\ cmdq'[i] = cmdq[i + d]
      BY <1>1, <1>3
    <3>2. \A j \in Life(v)' : j \in Nat /\ j + d \in Life(v)
      BY <1>1, <1>3
    <3>3. \A j \in Life(v)' : j + d < i + d
      BY <2>1, <3>1, <3>2 DEF RpuTold
    <3>4. \A j \in Life(v)' : j < i
      BY <3>1, <3>2, <3>3
    <3> QED BY <1>5, <2>1, <3>1, <3>4 DEF RpuTold
  <2>3. ASSUME NEW i \in Answers("SET_INTERFACE", v)'
        PROVE /\ Life(v)' = {}
              /\ rpu'[v].type = IF evtq'[i].error THEN netdev'[v].iftype ELSE cur'.type
    <3>1. i + e \in Answers("SET_INTERFACE", v) /\ evtq'[i] = evtq[i + e]
      BY <1>2, <1>3
    <3> QED BY <1>5, <2>1, <3>1 DEF RpuTold
  <2>4. netdev'[v].event_set_if # 0 =>
          /\ Life(v)' = {}
          /\ rpu'[v].type = IF netdev'[v].status_set_if THEN netdev'[v].iftype
                            ELSE cur'.type
    BY <1>5, <1>8, <2>1 DEF RpuTold
  <2> QED BY <2>2, <2>3, <2>4 DEF RpuTold
<1> QED BY <1>6, <1>7, <1>8 DEF RpuAgrees

(* The head of the commands makes or deletes v.                             *)
LEMMA LifeTaken ==
  ASSUME TypeOK, TypeOK', QueueInv, NEW v \in Vif, RpuNewInterface, Command.vif = v,
         RpuAgrees(v)
  PROVE RpuAgrees(v)'
<1>1. /\ cmdq # <<>> /\ cmdq' = Tail(cmdq) /\ evtq' = evtq /\ UNCHANGED <<netdev, pc, cur>>
      /\ Command.cmd \in {"NEW_INTERFACE", "DEL_INTERFACE"}
  BY DEF RpuNewInterface, NextCommand, callVars
<1>2. rpu'[v].type = Command.type
  BY Typed DEF RpuNewInterface
<1>3. /\ cmdq \in Seq(CommandSet) /\ Len(cmdq) \in Nat /\ Len(cmdq) > 0
      /\ Len(cmdq') = Len(cmdq) - 1 /\ Command = cmdq[1]
      /\ \A i \in 1..(Len(cmdq) - 1) : cmdq'[i] = cmdq[i + 1]
  BY <1>1, Typed, Places, TailOf DEF Command
<1>4. 1 \in Life(v) /\ 1 \notin Sent("SET_INTERFACE", v)
  BY <1>1, <1>3 DEF Life, Sent
<1>5. \A i \in Nat : /\ i \in Life(v)' <=> i # 0 /\ i + 1 \in Life(v)
                     /\ i \in Life(v)' => cmdq'[i] = cmdq[i + 1]
  BY <1>3 DEF Life, Sent
<1>6. \A i \in Nat : /\ i \in Sent("SET_INTERFACE", v)' => i # 0 /\ i + 1 \in Sent("SET_INTERFACE", v)
                     /\ i \in Sent("SET_INTERFACE", v)' => cmdq'[i] = cmdq[i + 1]
  BY <1>3 DEF Sent
<1>7. /\ Life(v) \subseteq Nat \ {0} /\ Life(v)' \subseteq Nat
      /\ Sent("SET_INTERFACE", v)' \subseteq Nat
  BY Places, PlacesNext DEF Life
<1>8. Answers("SET_INTERFACE", v)' = Answers("SET_INTERFACE", v)
  BY <1>1 DEF Answers
<1>9. \A k \in Life(v) : k # 1 => \E j \in Life(v)' : k = j + 1
  <2>1. ASSUME NEW k \in Life(v), k # 1 PROVE k - 1 \in Life(v)' /\ k = (k - 1) + 1
    <3>1. k \in Nat /\ k - 1 \in Nat /\ k - 1 # 0 /\ k = (k - 1) + 1
      BY <1>7, <2>1
    <3> QED BY <1>5, <3>1
  <2> QED BY <2>1
<1>10. Life(v)' = {} => rpu'[v].type = netdev'[v].iftype
  <2>1. ASSUME Life(v)' = {} PROVE \A k \in Life(v) : k <= 1
    BY <1>9, <2>1
  <2> QED BY <1>1, <1>2, <1>3, <1>4, <2>1 DEF RpuAgrees
<1>11. ASSUME NEW i \in Life(v)', \A j \in Life(v)' : j <= i
       PROVE cmdq'[i].cmd = "NEW_INTERFACE" /\ cmdq'[i].type = netdev'[v].iftype
  <2>1. i \in Nat /\ i # 0 /\ i + 1 \in Life(v) /\ cmdq'[i] = cmdq[i + 1]
    BY <1>5, <1>7
  <2>2. \A k \in Life(v) : k <= i + 1
    BY <1>7, <1>9, <1>11, <2>1
  <2> QED BY <1>1, <2>1, <2>2 DEF RpuAgrees
<1>12. ASSUME Changing(v) PROVE RpuTold(v)'
  <2>1. RpuTold(v)
    BY <1>12 DEF RpuAgrees
  <2>2. ASSUME NEW i \in Sent("SET_INTERFACE", v)'
        PROVE cmdq'[i].type = cur'.type /\ \A j \in Life(v)' : j < i
    <3>1. i \in Nat /\ i + 1 \in Sent("SET_INTERFACE", v) /\ cmdq'[i] = cmdq[i + 1]
      BY <1>6, <1>7
    <3>2. \A j \in Life(v)' : j \in Nat /\ j + 1 \in Life(v)
      BY <1>5, <1>7
    <3>3. \A j \in Life(v)' : j + 1 < i + 1
      BY <2>1, <3>1, <3>2 DEF RpuTold
    <3>4. \A j \in Life(v)' : j < i
      BY <3>1, <3>2, <3>3
    <3> QED BY <1>1, <2>1, <3>1, <3>4 DEF RpuTold
  <2>3. Answers("SET_INTERFACE", v) = {} /\ netdev[v].event_set_if = 0
    BY <1>4, <2>1 DEF RpuTold
  <2> QED BY <1>1, <1>8, <1>10, <2>2, <2>3 DEF RpuTold
<1>13. Changing(v)' <=> Changing(v)
  BY <1>1 DEF Changing
<1> QED BY <1>10, <1>11, <1>12, <1>13 DEF RpuAgrees

(* The head of the commands changes v: what the RPU answers is what it did. *)
LEMMA ChangeAnswered ==
  ASSUME TypeOK, TypeOK', NEW v \in Vif, RpuSetInterface, Command.vif = v,
         ChangeWaited(v), RpuAgrees(v)
  PROVE RpuAgrees(v)'
<1>1. /\ cmdq # <<>> /\ cmdq' = Tail(cmdq) /\ UNCHANGED <<netdev, pc, cur, calls>>
      /\ Command.cmd = "SET_INTERFACE"
  BY DEF RpuSetInterface, NextCommand, callVars
<1>2. PICK error \in BOOLEAN :
         /\ rpu' = IF error THEN rpu ELSE [rpu EXCEPT ![Command.vif].type = Command.type]
         /\ Reply("SET_INTERFACE", error)
  BY DEF RpuSetInterface
<1>3. 1 \in Sent("SET_INTERFACE", v) /\ Command = cmdq[1]
  BY <1>1, SentTaken
<1>4. Changing(v) /\ AtMostOne("SET_INTERFACE", "SET_INTERFACE", v) /\ netdev[v].event_set_if = 0
  BY <1>3 DEF ChangeWaited, None
<1>5. RpuTold(v)
  BY <1>4 DEF RpuAgrees
<1>6. Life(v) = {}
  <2>1. \A j \in Life(v) : j \in Nat \ {0} /\ j < 1
    BY <1>3, <1>5, Places DEF RpuTold, Life
  <2> QED BY <2>1
<1>7. Command.type = cur.type /\ rpu[v].type = netdev[v].iftype
  BY <1>3, <1>5, <1>6 DEF RpuTold
<1>8. rpu'[v].type = IF error THEN netdev[v].iftype ELSE cur.type
  <2>1. rpu \in [Vif -> RpuSet]
    BY Typed
  <2> QED BY <1>2, <1>7, <2>1 DEF RpuSet
<1>9. /\ Sent("SET_INTERFACE", v)' = {}
      /\ Answers("SET_INTERFACE", v)' = {Len(evtq) + 1}
      /\ evtq'[Len(evtq) + 1].error = error
  <2> DEFINE m == [event |-> "SET_INTERFACE", vif |-> v, error |-> error,
                   call |-> Command.call]
  <2>1. evtq' = Append(evtq, m)
    BY <1>2 DEF Reply
  <2>2. /\ m.event = "SET_INTERFACE" /\ m.vif = v /\ m.error = error
        /\ m.call = Command.call
    OBVIOUS
  <2> HIDE DEF m
  <2> QED BY <1>1, <1>4, <2>1, <2>2, OneAnswered
<1>10. Life(v)' = {}
  <2>1. /\ cmdq \in Seq(CommandSet) /\ Len(cmdq) \in Nat /\ Len(cmdq) > 0
        /\ Len(cmdq') = Len(cmdq) - 1
        /\ \A i \in 1..(Len(cmdq) - 1) : cmdq'[i] = cmdq[i + 1]
    BY <1>1, Typed, Places, TailOf
  <2>2. \A i \in Nat : i \in Life(v)' => i + 1 \in Life(v)
    BY <2>1 DEF Life, Sent
  <2>3. Life(v)' \subseteq Nat
    BY PlacesNext DEF Life
  <2> QED BY <1>6, <2>2, <2>3
<1>11. Changing(v)' /\ RpuTold(v)'
  BY <1>1, <1>4, <1>8, <1>9, <1>10 DEF Changing, RpuTold
<1> QED BY <1>10, <1>11 DEF RpuAgrees

LEMMA RpuTypesKept ==
  ASSUME HeldInv, HeldInv', ChangeInv, RpuTypes, [Next]_vars
  PROVE RpuTypes'
<1>0. TypeOK /\ TypeOK' /\ CallInv /\ SlotInv /\ QueueInv
  BY DEF HeldInv
<1> SUFFICES ASSUME NEW v \in Vif, v \in Registered', v \notin late', ~Deleting(v)'
             PROVE RpuAgrees(v)'
  BY DEF RpuTypes, Registered
<1>a. v \notin late /\ ChangeWaited(v)
  BY LateGrows DEF ChangeInv
<1>b. netdev \in [Vif -> NetdevSet] /\ calls \in Nat
  BY <1>0, Typed, CallNumbers
<1>1. ASSUME NEW t \in IfType, AddVif(t), cur'.vif = v PROVE RpuAgrees(v)'
  <2> DEFINE m == [cmd |-> "NEW_INTERFACE", vif |-> v, type |-> t, call |-> calls']
  <2>1. /\ cmdq' = Append(cmdq, m) /\ netdev'[v].iftype = t /\ pc' = "publish"
    BY <1>0, <1>1, AddVifMakes DEF AddVif, Start, UmacCmdCfg
  <2>2. m.cmd = "NEW_INTERFACE" /\ m.vif = v /\ m.type = t
    OBVIOUS
  <2> HIDE DEF m
  <2>a. /\ Sent("NEW_INTERFACE", v)' = Sent("NEW_INTERFACE", v) \cup
              (IF m.cmd = "NEW_INTERFACE" /\ m.vif = v THEN {Len(cmdq) + 1} ELSE {})
        /\ cmdq'[Len(cmdq) + 1] = m
    BY <1>0, <2>1, SentAdded
  <2>b. Sent("DEL_INTERFACE", v)' = Sent("DEL_INTERFACE", v) \cup
              (IF m.cmd = "DEL_INTERFACE" /\ m.vif = v THEN {Len(cmdq) + 1} ELSE {})
    BY <1>0, <2>1, SentAdded
  <2>c. Sent("DEL_INTERFACE", v)' = Sent("DEL_INTERFACE", v)
    BY <2>2, <2>b
  <2>d. Sent("NEW_INTERFACE", v)' = Sent("NEW_INTERFACE", v) \cup {Len(cmdq) + 1}
    BY <2>2, <2>a
  <2>3. /\ Sent("NEW_INTERFACE", v)' = Sent("NEW_INTERFACE", v) \cup {Len(cmdq) + 1}
        /\ Sent("DEL_INTERFACE", v)' = Sent("DEL_INTERFACE", v)
        /\ cmdq'[Len(cmdq) + 1] = m
    BY <2>a, <2>c, <2>d
  <2>4. Life(v)' = Life(v) \cup {Len(cmdq) + 1} /\ Life(v) \subseteq 1..Len(cmdq)
        /\ Len(cmdq) \in Nat
    BY <1>0, <2>3, Places DEF Life
  <2>5. \A i \in Life(v)' : (\A j \in Life(v)' : j <= i) => i = Len(cmdq) + 1
    <3> SUFFICES ASSUME NEW i \in Life(v)', \A j \in Life(v)' : j <= i,
                        i # Len(cmdq) + 1
                 PROVE FALSE
      OBVIOUS
    <3>1. i \in 1..Len(cmdq)
      BY <2>4
    <3>2. Len(cmdq) + 1 \in Life(v)'
      BY <2>4
    <3>3. Len(cmdq) + 1 <= i
      BY <3>2
    <3> QED BY <2>4, <3>1, <3>3
  <2>6. ~Changing(v)'
    BY <2>1 DEF Changing
  <2> QED BY <2>1, <2>2, <2>3, <2>4, <2>5, <2>6 DEF RpuAgrees
<1>2. CASE ~\E t \in IfType : AddVif(t) /\ cur'.vif = v
  <2>1. ~(DelVifClear /\ cur.vif = v)
    BY <1>0, DelVifClearEmpties DEF Registered
  <2>2. v \in Registered
    BY <1>0, <1>2, <2>1, TypeStays, ChgVifTakes DEF Registered
  <2>3. ~Deleting(v)
    <3>1. ASSUME pc # "idle", cur.op = "del", cur.vif = v PROVE FALSE
      <4>1. pc' # "idle" /\ cur' = cur
        BY <1>0, <2>1, <3>1
        DEF Next, Call, Proceed, EventTasklet, RpuNext, vars, callVars, MacAddr, AddVifFails,
            AddVif, DelVifRefused, DelVif, DelVifFails, UseOfFreed, ChgVif, ChgVifFails,
            ChgVifState, ChgVifStateFails, AddVifPublish, DelVifFree, DelVifClose,
            ChgVifAnswered, ChgVifTimeout, ChgVifStateAnswered, ChgVifStateTimeout,
            IfflagsStatus, SetIfCallback, CarrierEvent, EventFault, RpuNewInterface,
            RpuSetInterface, RpuSetIfflags, RpuCarrier, NextCommand, Start, Refuse, At,
            StateDone, CallInv
      <4> QED BY <3>1, <4>1 DEF Deleting
    <3> QED BY <3>1 DEF Deleting
  <2>4. RpuAgrees(v)
    BY <1>a, <2>2, <2>3 DEF RpuTypes
  <2>5. ASSUME NEW t \in IfType, ChgVif(v, t) PROVE RpuAgrees(v)'
    <3> DEFINE m == [cmd |-> "SET_INTERFACE", vif |-> v, type |-> t, call |-> calls']
    <3>1. /\ cmdq' = Append(cmdq, m) /\ evtq' = evtq /\ UNCHANGED <<netdev, rpu>>
          /\ cur'.type = t /\ ~Changing(v) /\ Changing(v)'
      BY <2>5 DEF ChgVif, Start, UmacCmdCfg, Changing
    <3>2. m.cmd = "SET_INTERFACE" /\ m.vif = v /\ m.type = t
      OBVIOUS
    <3> HIDE DEF m
    <3>a. /\ Sent("NEW_INTERFACE", v)' = Sent("NEW_INTERFACE", v) \cup
                (IF m.cmd = "NEW_INTERFACE" /\ m.vif = v THEN {Len(cmdq) + 1} ELSE {})
          /\ cmdq'[Len(cmdq) + 1] = m
          /\ \A i \in 1..Len(cmdq) : cmdq'[i] = cmdq[i]
      BY <1>0, <3>1, SentAdded
    <3>b. Sent("DEL_INTERFACE", v)' = Sent("DEL_INTERFACE", v) \cup
                (IF m.cmd = "DEL_INTERFACE" /\ m.vif = v THEN {Len(cmdq) + 1} ELSE {})
      BY <1>0, <3>1, SentAdded
    <3>c. Sent("SET_INTERFACE", v)' = Sent("SET_INTERFACE", v) \cup
                (IF m.cmd = "SET_INTERFACE" /\ m.vif = v THEN {Len(cmdq) + 1} ELSE {})
      BY <1>0, <3>1, SentAdded
    <3>d. Sent("NEW_INTERFACE", v)' = Sent("NEW_INTERFACE", v)
      BY <3>2, <3>a
    <3>e. Sent("DEL_INTERFACE", v)' = Sent("DEL_INTERFACE", v)
      BY <3>2, <3>b
    <3>f. Sent("SET_INTERFACE", v)' = Sent("SET_INTERFACE", v) \cup {Len(cmdq) + 1}
      BY <3>2, <3>c
    <3>3. /\ Sent("NEW_INTERFACE", v)' = Sent("NEW_INTERFACE", v)
          /\ Sent("DEL_INTERFACE", v)' = Sent("DEL_INTERFACE", v)
          /\ Sent("SET_INTERFACE", v)' = Sent("SET_INTERFACE", v) \cup {Len(cmdq) + 1}
          /\ cmdq'[Len(cmdq) + 1] = m
          /\ \A i \in 1..Len(cmdq) : cmdq'[i] = cmdq[i]
      BY <3>a, <3>d, <3>e, <3>f
    <3>4. Life(v)' = Life(v) /\ Life(v) \subseteq 1..Len(cmdq) /\ Len(cmdq) \in Nat
      BY <1>0, <3>3, Places DEF Life
    <3>5. /\ Sent("SET_INTERFACE", v) = {} /\ Answers("SET_INTERFACE", v)' = {}
          /\ netdev'[v].event_set_if = 0
      BY <1>a, <3>1 DEF ChangeWaited, None, Answers
    <3>6. Life(v) = {} => rpu'[v].type = netdev'[v].iftype
      BY <2>4, <3>1 DEF RpuAgrees
    <3>7. RpuTold(v)'
      BY <3>1, <3>2, <3>3, <3>4, <3>5, <3>6 DEF RpuTold
    <3>8. \A i \in Life(v)' : (\A j \in Life(v)' : j <= i) =>
             cmdq'[i].cmd = "NEW_INTERFACE" /\ cmdq'[i].type = netdev'[v].iftype
      BY <2>4, <3>1, <3>3, <3>4 DEF RpuAgrees
    <3> QED BY <3>1, <3>7, <3>8 DEF RpuAgrees
  <2>6. ASSUME ChgVifAnswered, cur.vif = v PROVE RpuAgrees(v)'
    <3>1. /\ Changing(v) /\ ~Changing(v)' /\ netdev[v].event_set_if # 0
          /\ cmdq' = cmdq /\ rpu' = rpu
      BY <2>6 DEF ChgVifAnswered, At, Return, Changing
    <3>2. Life(v) = {} /\ Life(v)' = {}
      BY <2>4, <3>1 DEF RpuAgrees, RpuTold, Life, Sent
    <3>3. rpu[v].type = IF netdev[v].status_set_if THEN netdev[v].iftype ELSE cur.type
      BY <2>4, <3>1 DEF RpuAgrees, RpuTold
    <3>4. netdev'[v].iftype = IF netdev[v].status_set_if THEN netdev[v].iftype ELSE cur.type
      BY <1>0, <2>6, ChgVifTakes
    <3> QED BY <3>1, <3>2, <3>3, <3>4 DEF RpuAgrees
  <2>7. ASSUME ChgVifTimeout, cur.vif = v PROVE RpuAgrees(v)'
    BY <2>7 DEF ChgVifTimeout
  <2>8. ASSUME NextEvent, Event.event = "SET_INTERFACE", Event.vif = v,
               UNCHANGED <<pc, cur, cmdq, rpu>>,
               netdev'[v].iftype = netdev[v].iftype,
               \/ netdev' = netdev
               \/ netdev'[v].status_set_if = Event.error
        PROVE RpuAgrees(v)'
    <3>1. 1 \in Answers("SET_INTERFACE", v) /\ Event = evtq[1]
      BY <1>0, <2>8, AnswersTaken DEF NextEvent
    <3>2. /\ Changing(v) /\ AtMostOne("SET_INTERFACE", "SET_INTERFACE", v)
          /\ netdev[v].event_set_if = 0
      BY <1>a, <3>1 DEF ChangeWaited, None
    <3>3. None("SET_INTERFACE", "SET_INTERFACE", v)'
      BY <1>0, <2>8, <3>2, AnswerTaken DEF NextEvent
    <3>4. /\ Life(v) = {} /\ Life(v)' = {} /\ Changing(v)'
          /\ rpu'[v].type = IF Event.error THEN netdev[v].iftype ELSE cur.type
      BY <2>4, <2>8, <3>1, <3>2 DEF RpuAgrees, RpuTold, Life, Sent, Changing
    <3>5. netdev'[v].event_set_if # 0 =>
             rpu'[v].type = IF netdev'[v].status_set_if THEN netdev'[v].iftype
                            ELSE cur'.type
      BY <2>8, <3>2, <3>4
    <3>6. RpuTold(v)'
      BY <3>3, <3>4, <3>5 DEF RpuTold, None
    <3> QED BY <3>4, <3>6 DEF RpuAgrees
  <2>9. ASSUME SetIfCallback, Event.vif = v PROVE RpuAgrees(v)'
    <3>1. /\ netdev'[v].iftype = netdev[v].iftype
          /\ netdev' = netdev \/ netdev'[v].status_set_if = Event.error
      BY <1>b, <2>9 DEF SetIfCallback, NetdevSet
    <3> QED BY <2>8, <2>9, <3>1 DEF SetIfCallback, callVars
  <2>10. ASSUME EventFault, Event.event = "SET_INTERFACE", Event.vif = v PROVE RpuAgrees(v)'
    BY <2>8, <2>10 DEF EventFault, callVars
  <2>11. ASSUME RpuNewInterface, Command.vif = v PROVE RpuAgrees(v)'
    BY <1>0, <2>4, <2>11, LifeTaken
  <2>12. ASSUME RpuSetInterface, Command.vif = v PROVE RpuAgrees(v)'
    BY <1>0, <1>a, <2>4, <2>12, ChangeAnswered
  <2>13. ~DelVif(v)
    BY DEF DelVif, Start, Deleting
  <2>14. CASE /\ ~\E t \in IfType : ChgVif(v, t)
              /\ ~((ChgVifAnswered \/ ChgVifTimeout) /\ cur.vif = v)
              /\ ~(SetIfCallback /\ Event.vif = v)
              /\ ~(EventFault /\ Event.event = "SET_INTERFACE" /\ Event.vif = v)
              /\ ~((RpuNewInterface \/ RpuSetInterface) /\ Command.vif = v)
    <3>1. QueueShift(v)
      BY <1>0, <1>2, <2>13, <2>14, LifeSent
    <3>2. AnswersSame("SET_INTERFACE", v)
      BY <1>0, <2>14, AnswersSent
    <3>3. Changing(v)' <=> Changing(v)
      BY <1>0, <2>14, ChangingKept
    <3>4. netdev'[v].iftype = netdev[v].iftype
      BY <1>2, <2>1, <2>14, TypeStays
    <3>5. rpu'[v].type = rpu[v].type
      BY <1>0, <2>14, RpuStays
    <3>6. Changing(v) => /\ cur' = cur
                         /\ netdev'[v].event_set_if = netdev[v].event_set_if
                         /\ netdev'[v].status_set_if = netdev[v].status_set_if
      BY <1>0, <2>14, <3>3, ReplyStays
    <3> QED BY <1>0, <2>4, <3>1, <3>2, <3>3, <3>4, <3>5, <3>6, AgreesQuiet
  <2> QED BY <2>5, <2>6, <2>7, <2>9, <2>10, <2>11, <2>12, <2>14
<1> QED BY <1>1, <1>2

-----------------------------------------------------------------------------
IInv == HeldInv /\ ChangeInv /\ SwitchInv /\ AnswersMatch /\ RpuTypes

LEMMA IInvInit == ASSUME Init PROVE IInv
<1>1. HeldInv
  BY HeldInit
<1>2. \A kind, v : Sent(kind, v) = {} /\ Answers(kind, v) = {}
  BY DEF Init, Sent, Answers
<1>3. /\ pc = "idle" /\ result = "none"
      /\ \A v \in Vif : /\ netdev[v].event_set_if = 0
                        /\ netdev[v].registered => v = 0 /\ netdev[v].iftype = STA
  BY DEF Init, NewNetdev, NoNetdev
<1>4. ChangeInv /\ SwitchInv
  BY <1>2, <1>3 DEF ChangeInv, ChangeWaited, SwitchInv, SwitchWaited, None, Changing, Switching
<1>5. AnswersMatch
  BY <1>3 DEF AnswersMatch
<1>6. RpuTypes
  <2>1. rpu[0].type = STA
    BY VifNat DEF Init
  <2> QED BY <1>2, <1>3, <2>1 DEF RpuTypes, RpuAgrees, Registered, Life, Changing
<1> QED BY <1>1, <1>4, <1>5, <1>6 DEF IInv

LEMMA IInvStep == ASSUME IInv, [Next]_vars PROVE IInv'
<1>1. HeldInv'
  BY HeldStep DEF IInv
<1> QED BY <1>1, ChangeKept, SwitchKept, AnswersKept, RpuTypesKept DEF IInv

LEMMA IInvAlways == Spec => []IInv
BY IInvInit, IInvStep, PTL DEF Spec

(* A wait for the RPU that ends well has taken the answer to the command of *)
(* its own call, never one to an earlier command, unless an earlier wait on *)
(* the interface had given up (event_set_if, ifflags).                      *)
THEOREM WaitsGetTheirAnswer == Spec => []AnswersMatch
<1>1. IInv => AnswersMatch
  BY DEF IInv
<1> QED BY <1>1, IInvAlways, PTL

(* The interface counters are those of the interfaces and within the        *)
(* limits; where no wait gave up, driver, cfg80211 and RPU agree on the     *)
(* type of an interface but for commands still on their way.                *)
THEOREM InterfaceTypesAgree == Spec => []TypesAgree
<1>1. IInv => TypesAgree
  <2> SUFFICES ASSUME IInv PROVE TypesAgree
    OBVIOUS
  <2>1. CountsMatch
    BY DEF IInv, HeldInv
  <2> SUFFICES ASSUME NEW v \in Registered \ late
               PROVE /\ (pc = "idle" \/ cur.vif # v) =>
                            netdev[v].iftype = ctx[vif_ctx[v]].if_type
                     /\ \/ rpu[v].type = netdev[v].iftype
                        \/ cur.vif = v /\ pc # "idle"
                        \/ \E i \in DOMAIN cmdq : cmdq[i].vif = v
    BY <2>1 DEF TypesAgree
  <2>2. (pc = "idle" \/ cur.vif # v) => netdev[v].iftype = ctx[vif_ctx[v]].if_type
    BY DEF IInv, HeldInv, DriverTypes, Coming
  <2>3. ASSUME pc = "idle" \/ cur.vif # v, rpu[v].type # netdev[v].iftype
        PROVE \E i \in DOMAIN cmdq : cmdq[i].vif = v
    <3>1. RpuAgrees(v) /\ ~Changing(v)
      BY <2>3 DEF IInv, RpuTypes, Deleting, Changing
    <3>2. Life(v) # {}
      BY <2>3, <3>1 DEF RpuAgrees
    <3>3. cmdq \in Seq(CommandSet)
      BY Typed DEF IInv, HeldInv
    <3>4. DOMAIN cmdq = 1..Len(cmdq)
      BY <3>3
    <3> QED BY <3>2, <3>4 DEF Life, Sent
  <2> QED BY <2>2, <2>3
<1> QED BY <1>1, IInvAlways, PTL
=============================================================================
