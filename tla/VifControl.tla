----------------------------- MODULE VifControl -----------------------------
(***************************************************************************)
(* Virtual interfaces: cfg80211's add, delete and change of an interface    *)
(* (cfg80211_if.c), the net device's open and stop (netdev.c), the FMAC     *)
(* calls under them (default/fmac_api.c, fmac_vif.c) and the events that    *)
(* answer them (event.c).  These calls hold rtnl, so one is made at a time; *)
(* the RPU takes the commands in order beside the caller, and the event     *)
(* tasklet delivers its events in order beside both.                        *)
(*                                                                          *)
(* Interface 0 exists from the start (dev_init_lnx adds it).  A context     *)
(* that was freed is not given out again, so that a use after it was freed  *)
(* is seen as one; such a use goes on with the old contents or is the end   *)
(* (fault), a use of a NULL context always is.                              *)
(***************************************************************************)
EXTENDS Naturals, Sequences, FiniteSets

CONSTANTS Vif,        \* 0 .. MAX_NUM_VIFS - 1
          Context,    \* memory for interface contexts
          NULL,       \* no context
          MAX_NUM_STAS, MAX_NUM_APS,
          MaxCalls,   \* bound: calls made
          MaxFails,   \* bound: allocations and sends that fail
          MaxCarrier  \* bound: carrier events

ASSUME VifAssumption ==
          /\ IsFiniteSet(Vif) /\ Vif = 0..(Cardinality(Vif) - 1) /\ 0 \in Vif
          /\ Context # {} /\ NULL \notin Context
ASSUME LimitAssumption == MAX_NUM_STAS \in Nat \ {0} /\ MAX_NUM_APS \in Nat
ASSUME BoundAssumption == MaxCalls \in Nat /\ MaxFails \in Nat /\ MaxCarrier \in Nat

STA == "sta"    \* NRF_WIFI_IFTYPE_STATION, _P2P_CLIENT
AP == "ap"      \* NRF_WIFI_IFTYPE_AP, _P2P_GO
IfType == {STA, AP}

VARIABLES
  vif_ctx,  \* def_dev_ctx->vif_ctx: a context or NULL
  ctx,      \* contents of the contexts: [state, if_type, ifflags]
  num_sta, num_ap,
  netdev,   \* [registered, up, iftype, event_set_if, status_set_if, carrier]
  pc,       \* where the rtnl holder is
  cur,      \* the call it makes: [op, vif, type, sent]
  result,   \* what the last call returned
  answer,   \* the call whose reply the last wait took
  cmdq,     \* commands on their way to the RPU
  evtq,     \* events on their way to the driver
  rpu,      \* what the RPU has: [type, up] of each interface
  fault,    \* how the driver came down, or "none"
  calls, fails, carriers,
  late,     \* interfaces on which a wait timed out
  lost      \* contexts freed by a delete that failed

callVars == <<pc, cur, result, answer, calls, fails, late>>
vifVars == <<vif_ctx, ctx, num_sta, num_ap, lost>>
vars == <<vifVars, netdev, callVars, cmdq, evtq, rpu, fault, carriers>>

Unused == CHOOSE c \in Context : ctx[c].state = "unused"
Live == {c \in Context : ctx[c].state = "live"}
Registered == {v \in Vif : netdev[v].registered}
NoCall == [op |-> "none", vif |-> 0, type |-> STA, sent |-> FALSE]
NoNetdev == [registered |-> FALSE, up |-> FALSE, iftype |-> STA, event_set_if |-> 0,
             status_set_if |-> FALSE, carrier |-> FALSE]
NewNetdev(t) == [NoNetdev EXCEPT !.registered = TRUE, !.iftype = t]

(* The commands to the RPU and the events from it, with the call they are    *)
(* for.                                                                      *)
CommandSet == [cmd : {"NEW_INTERFACE", "DEL_INTERFACE", "SET_INTERFACE", "SET_IFFLAGS"},
               vif : Vif, type : IfType \cup {"none", "up", "down"},
               call : 0..MaxCalls]
EventSet == [event : {"SET_INTERFACE", "IFFLAGS_STATUS", "CARRIER"},
             vif : Vif, error : BOOLEAN, call : 0..MaxCalls]

TypeOK ==
  /\ vif_ctx \in [Vif -> Context \cup {NULL}]
  /\ ctx \in [Context -> [state : {"unused", "live", "freed", "freed twice"},
                          if_type : IfType, ifflags : 0..MaxCalls]]
  /\ num_sta \in Nat /\ num_ap \in Nat
  /\ netdev \in [Vif -> [registered : BOOLEAN, up : BOOLEAN, iftype : IfType,
                         event_set_if : 0..MaxCalls, status_set_if : BOOLEAN,
                         carrier : BOOLEAN]]
  /\ pc \in {"idle", "publish", "free", "unregister", "clear",
            "set_if", "ifflags"}
  /\ cur \in [op : {"none", "add", "del", "chg", "open", "close"}, vif : Vif,
              type : IfType, sent : BOOLEAN]
  /\ result \in {"none", "ok", "fail"}
  /\ answer \in 0..MaxCalls
  /\ cmdq \in Seq(CommandSet) /\ evtq \in Seq(EventSet)
  /\ rpu \in [Vif -> [type : IfType \cup {"none"}, up : BOOLEAN]]
  /\ fault \in {"none", "mac_addr", "null", "freed"}
  /\ calls \in 0..MaxCalls /\ fails \in 0..MaxFails /\ carriers \in 0..MaxCarrier
  /\ late \in SUBSET Vif /\ lost \in SUBSET Context

Init ==
  LET first == CHOOSE c \in Context : TRUE IN
  /\ vif_ctx = [v \in Vif |-> IF v = 0 THEN first ELSE NULL]
  /\ ctx = [c \in Context |-> [state |-> IF c = first THEN "live" ELSE "unused",
                               if_type |-> STA, ifflags |-> 0]]
  /\ num_sta = 1 /\ num_ap = 0
  /\ netdev = [v \in Vif |-> IF v = 0 THEN NewNetdev(STA) ELSE NoNetdev]
  /\ pc = "idle" /\ cur = NoCall /\ result = "none" /\ answer = 0
  /\ cmdq = <<>> /\ evtq = <<>>
  /\ rpu = [v \in Vif |-> [type |-> IF v = 0 THEN STA ELSE "none", up |-> FALSE]]
  /\ fault = "none" /\ calls = 0 /\ fails = 0 /\ carriers = 0
  /\ late = {} /\ lost = {}
-----------------------------------------------------------------------------
(* fmac_vif.c                                                               *)
CheckIfLimit(t) == IF t = STA THEN num_sta < MAX_NUM_STAS ELSE num_ap < MAX_NUM_APS

(* The counters once one interface of type t came (incr_if_type) and one of *)
(* type u went (decr_if_type); "none" where there is none.                  *)
IncrIfType(n, kind, t) == IF t = kind THEN n + 1 ELSE n
DecrIfType(n, kind, u) == IF u = kind THEN n - 1 ELSE n
Count(t, u) == /\ num_sta' = IncrIfType(DecrIfType(num_sta, STA, u), STA, t)
               /\ num_ap' = IncrIfType(DecrIfType(num_ap, AP, u), AP, t)

(* The driver learns the type the RPU has accepted.                         *)
UpdateIfType(v, t) ==
  /\ Count(t, ctx[vif_ctx[v]].if_type)
  /\ ctx' = [ctx EXCEPT ![vif_ctx[v]].if_type = t]

(* A context is freed; once more if it had been freed before.               *)
Freed(c) == [ctx EXCEPT ![c].state = IF @ = "live" THEN "freed" ELSE "freed twice"]

(* Mutant: the slot keeps its pointer. *)
ClearKeepsSlot(v) == /\ ctx' = Freed(vif_ctx[v])
               /\ vif_ctx' = vif_ctx

ClearCtx(v) == /\ ctx' = Freed(vif_ctx[v])
               /\ vif_ctx' = [vif_ctx EXCEPT ![v] = NULL]

(* The slot a new interface gets (vif_idx_get).                             *)
FreeSlots == {v \in Vif : vif_ctx[v] = NULL}
VifIdxGet == CHOOSE v \in FreeSlots : \A w \in FreeSlots : v <= w
-----------------------------------------------------------------------------
(* An allocation or umac_cmd_cfg fails.                                     *)
Fail == fails < MaxFails /\ fails' = fails + 1

UmacCmdCfg(cmd, v, t) ==
  cmdq' = Append(cmdq, [cmd |-> cmd, vif |-> v, type |-> t, call |-> calls'])

(* A call begins, at the place where its command has been sent ...          *)
Start(op, v, t, where) ==
  /\ fault = "none" /\ pc = "idle" /\ calls < MaxCalls
  /\ calls' = calls + 1
  /\ cur' = [op |-> op, vif |-> v, type |-> t, sent |-> TRUE]
  /\ pc' = where /\ result' = "none" /\ answer' = 0
  /\ UNCHANGED <<late, fails>>

(* ... or returns at once, because something failed or was refused.         *)
Refuse(op, v, t) ==
  /\ fault = "none" /\ pc = "idle" /\ calls < MaxCalls
  /\ calls' = calls + 1
  /\ cur' = [op |-> op, vif |-> v, type |-> t, sent |-> FALSE]
  /\ result' = "fail" /\ answer' = 0
  /\ UNCHANGED <<pc, late>>

At(where) == fault = "none" /\ pc = where

Return(r, a) == /\ pc' = "idle" /\ result' = r /\ answer' = a
                /\ UNCHANGED <<cur, calls>>
-----------------------------------------------------------------------------
(* cfg80211_add_vif asks fmac_mac_addr for an address: that finds the slot   *)
(* the interface will get and reads the address of the context there, which  *)
(* is NULL.                                                                  *)
MacAddr(t) ==
  /\ fault = "none" /\ pc = "idle" /\ calls < MaxCalls
  /\ FreeSlots # {}
  /\ calls' = calls + 1 /\ fault' = "mac_addr"
  /\ cur' = [op |-> "add", vif |-> VifIdxGet, type |-> t, sent |-> FALSE]
  /\ UNCHANGED <<vifVars, netdev, pc, result, answer, cmdq, evtq, rpu, carriers,
                 fails, late>>

(* fmac_add_vif with an address the host has, as dev_init_lnx calls it.      *)
(* Refused, or failed: the net device that was registered goes again.        *)
AddVifFails(t) ==
  /\ Refuse("add", 0, t)
  /\ \/ (FreeSlots = {} \/ ~CheckIfLimit(t)) /\ UNCHANGED fails
     \/ Fail
  /\ UNCHANGED <<vifVars, netdev, cmdq, evtq, rpu, fault, carriers>>

(* The command is sent while the slot is still empty ...                     *)
AddVif(t) ==
  /\ FreeSlots # {} /\ CheckIfLimit(t)
  /\ \E c \in Context : ctx[c].state = "unused"
  /\ ctx' = [ctx EXCEPT ![Unused] = [state |-> "live", if_type |-> t, ifflags |-> 0]]
  /\ Start("add", VifIdxGet, t, "publish")
  /\ netdev' = [netdev EXCEPT ![VifIdxGet] = NewNetdev(t)]
  /\ UmacCmdCfg("NEW_INTERFACE", VifIdxGet, t)
  /\ UNCHANGED <<vif_ctx, num_sta, num_ap, lost, evtq, rpu, fault, carriers>>

(* ... which is filled after that.                                           *)
AddVifPublish ==
  /\ At("publish")
  /\ \E c \in Live :
        /\ \A v \in Vif : vif_ctx[v] # c
        /\ vif_ctx' = [vif_ctx EXCEPT ![cur.vif] = c]
  /\ Count(cur.type, "none")
  /\ Return("ok", calls)
  /\ UNCHANGED <<ctx, lost, netdev, cmdq, evtq, rpu, fault, carriers, fails, late>>
-----------------------------------------------------------------------------
(* cfg80211_del_vif, fmac_del_vif.  The first interface stays.               *)
DelVifRefused ==
  /\ Refuse("del", 0, netdev[0].iftype)
  /\ UNCHANGED <<vifVars, netdev, cmdq, evtq, rpu, fault, carriers, fails>>

(* The command cannot be sent: the context is freed all the same, its slot   *)
(* still points to it, and the net device stays.                             *)
DelVifFails(v) ==
  /\ v # 0 /\ netdev[v].registered
  /\ Refuse("del", v, netdev[v].iftype) /\ Fail
  /\ ctx' = Freed(vif_ctx[v])
  /\ lost' = lost \cup {vif_ctx[v]}
  /\ UNCHANGED <<vif_ctx, num_sta, num_ap, netdev, cmdq, evtq, rpu, fault, carriers>>

DelVif(v) ==
  /\ v # 0 /\ netdev[v].registered
  /\ Start("del", v, netdev[v].iftype, "free")
  /\ UmacCmdCfg("DEL_INTERFACE", v, "none")
  /\ UNCHANGED <<vifVars, netdev, evtq, rpu, fault, carriers>>

DelVifFree ==
  /\ At("free")
  /\ Count("none", ctx[vif_ctx[cur.vif]].if_type)
  /\ ctx' = Freed(vif_ctx[cur.vif])
  /\ pc' = IF netdev[cur.vif].up THEN "unregister" ELSE "clear"
  /\ UNCHANGED <<vif_ctx, lost, netdev, cur, result, answer, calls, fails, late, cmdq,
                 evtq, rpu, fault, carriers>>

(* netdev_del_vif: unregister_netdevice closes the device, which asks for a  *)
(* change of state of the interface that was just deleted.                   *)
DelVifClose ==
  /\ At("unregister") /\ calls' = calls
  /\ ctx' = [ctx EXCEPT ![vif_ctx[cur.vif]].ifflags = 0]
  /\ netdev' = [netdev EXCEPT ![cur.vif].up = FALSE]
  /\ UmacCmdCfg("SET_IFFLAGS", cur.vif, "down")
  /\ pc' = "ifflags"
  /\ UNCHANGED <<vif_ctx, num_sta, num_ap, lost, cur, result, answer, fails, late,
                 evtq, rpu, fault, carriers>>

DelVifClear ==
  /\ At("clear")
  /\ ClearCtx(cur.vif)
  /\ netdev' = [netdev EXCEPT ![cur.vif] = NoNetdev]
  /\ Return("ok", calls)
  /\ UNCHANGED <<num_sta, num_ap, lost, cmdq, evtq, rpu, fault, carriers, fails, late>>
-----------------------------------------------------------------------------
(* cfg80211_chg_vif, fmac_chg_vif: event_set_if is cleared when the call     *)
(* ends, not when it begins.                                                 *)
ChgVifFails(v, t) ==
  /\ netdev[v].registered
  /\ Refuse("chg", v, t)
  /\ \/ ~CheckIfLimit(t) /\ UNCHANGED fails
     \/ Fail
  /\ netdev' = [netdev EXCEPT ![v].event_set_if = 0]
  /\ UNCHANGED <<vifVars, cmdq, evtq, rpu, fault, carriers>>

ChgVif(v, t) ==
  /\ netdev[v].registered /\ CheckIfLimit(t)
  /\ Start("chg", v, t, "set_if")
  /\ UmacCmdCfg("SET_INTERFACE", v, t)
  /\ UNCHANGED <<vifVars, netdev, evtq, rpu, fault, carriers>>

(* Mutant: event_set_if stays set when the call ends. *)
ChgVifKeepsFlag ==
  /\ At("set_if") /\ netdev[cur.vif].event_set_if # 0
  /\ LET refused == netdev[cur.vif].status_set_if IN
     /\ IF refused THEN UNCHANGED <<ctx, num_sta, num_ap>>
                   ELSE UpdateIfType(cur.vif, cur.type)
     /\ netdev' = [netdev EXCEPT ![cur.vif].iftype =
                      IF refused THEN @ ELSE cur.type]
     /\ Return(IF refused THEN "fail" ELSE "ok", netdev[cur.vif].event_set_if)
  /\ UNCHANGED <<vif_ctx, lost, cmdq, evtq, rpu, fault, carriers, fails, late>>

ChgVifAnswered ==
  /\ At("set_if") /\ netdev[cur.vif].event_set_if # 0
  /\ LET refused == netdev[cur.vif].status_set_if IN
     /\ IF refused THEN UNCHANGED <<ctx, num_sta, num_ap>>
                   ELSE UpdateIfType(cur.vif, cur.type)
     /\ netdev' = [netdev EXCEPT ![cur.vif].event_set_if = 0,
                                 ![cur.vif].iftype = IF refused THEN @ ELSE cur.type]
     /\ Return(IF refused THEN "fail" ELSE "ok", netdev[cur.vif].event_set_if)
  /\ UNCHANGED <<vif_ctx, lost, cmdq, evtq, rpu, fault, carriers, fails, late>>

(* Two seconds went by.                                                      *)
ChgVifTimeout ==
  /\ At("set_if") /\ netdev[cur.vif].event_set_if = 0
  /\ late' = late \cup {cur.vif}
  /\ Return("fail", 0)
  /\ UNCHANGED <<vifVars, netdev, cmdq, evtq, rpu, fault, carriers, fails>>
-----------------------------------------------------------------------------
(* netdev_open, netdev_close, fmac_chg_vif_state: ifflags is cleared, the    *)
(* command sent, and its status awaited even if it could not be sent.        *)
ChgVifState(v, op) ==
  /\ netdev[v].registered /\ netdev[v].up = (op = "close")
  /\ fault = "none" /\ pc = "idle" /\ calls < MaxCalls
  /\ calls' = calls + 1
  /\ \E sent \in BOOLEAN :
        /\ cur' = [op |-> op, vif |-> v, type |-> netdev[v].iftype, sent |-> sent]
        /\ IF sent
           THEN /\ UmacCmdCfg("SET_IFFLAGS", v, IF op = "open" THEN "up" ELSE "down")
                /\ UNCHANGED fails
           ELSE Fail /\ UNCHANGED cmdq
  /\ ctx' = [ctx EXCEPT ![vif_ctx[v]].ifflags = 0]
  /\ pc' = "ifflags" /\ result' = "none" /\ answer' = 0
  /\ UNCHANGED <<vif_ctx, num_sta, num_ap, lost, netdev, late, evtq, rpu, fault,
                 carriers>>

(* The memory for the request cannot be had; a close is done regardless.     *)
ChgVifStateFails(v, op) ==
  /\ netdev[v].registered /\ netdev[v].up = (op = "close")
  /\ Refuse(op, v, netdev[v].iftype) /\ Fail
  /\ netdev' = [netdev EXCEPT ![v].up = FALSE]
  /\ UNCHANGED <<vifVars, cmdq, evtq, rpu, fault, carriers>>

(* What the net device is after its open or stop has returned; a stop inside *)
(* unregister_netdevice goes on to the end of the delete.                    *)
StateDone(ok) ==
  /\ netdev' = [netdev EXCEPT ![cur.vif].up = cur.op = "open" /\ ok,
                              ![cur.vif].carrier = @ /\ ~(ok /\ cur.op # "open")]
  /\ IF cur.op = "del"
     THEN pc' = "clear" /\ UNCHANGED <<cur, calls, result, answer>>
     ELSE Return(IF ok THEN "ok" ELSE "fail", ctx[vif_ctx[cur.vif]].ifflags)

ChgVifStateAnswered ==
  /\ At("ifflags") /\ ctx[vif_ctx[cur.vif]].ifflags # 0
  /\ StateDone(cur.sent)
  /\ UNCHANGED <<vifVars, cmdq, evtq, rpu, fault, carriers, fails, late>>

(* RPU_CMD_TIMEOUT_MS went by.                                               *)
ChgVifStateTimeout ==
  /\ At("ifflags") /\ ctx[vif_ctx[cur.vif]].ifflags = 0
  /\ late' = late \cup {cur.vif}
  /\ StateDone(FALSE)
  /\ UNCHANGED <<vifVars, cmdq, evtq, rpu, fault, carriers, fails>>
-----------------------------------------------------------------------------
(* A call on an interface whose context a failed delete has freed.           *)
UseOfFreed(v) ==
  /\ fault = "none" /\ pc = "idle" /\ calls < MaxCalls
  /\ netdev[v].registered /\ vif_ctx[v] \notin Live
  /\ calls' = calls + 1 /\ fault' = "freed" /\ result' = "none"
  /\ UNCHANGED <<vifVars, netdev, pc, cur, answer, fails, late, cmdq, evtq,
                 rpu, carriers>>

(* The tasklet: the event at the head is taken to the context of its         *)
(* interface (umac_event_ctrl_process, carr_state_event_proc).               *)
Event == Head(evtq)
NextEvent == fault = "none" /\ evtq # <<>> /\ evtq' = Tail(evtq)

(* IFFLAGS_STATUS with a negative status is dropped before the context is    *)
(* looked at.                                                                *)
NeedsContext == ~(Event.event = "IFFLAGS_STATUS" /\ Event.error)

IfflagsStatus ==
  /\ NextEvent /\ Event.event = "IFFLAGS_STATUS"
  /\ IF Event.error
     THEN UNCHANGED ctx
     ELSE /\ vif_ctx[Event.vif] # NULL
          /\ ctx' = [ctx EXCEPT ![vif_ctx[Event.vif]].ifflags = Event.call]
  /\ UNCHANGED <<vif_ctx, num_sta, num_ap, lost, netdev, callVars, cmdq, rpu, fault,
                 carriers>>

(* Mutant: the status in the event is not looked at. *)
SetIfDropsStatus ==
  /\ NextEvent /\ Event.event = "SET_INTERFACE" /\ vif_ctx[Event.vif] # NULL
  /\ netdev' = [netdev EXCEPT ![Event.vif] =
                   IF @.registered
                   THEN [@ EXCEPT !.event_set_if = Event.call,
                                  !.status_set_if = FALSE]
                   ELSE @]
  /\ UNCHANGED <<vifVars, callVars, cmdq, rpu, fault, carriers>>

(* set_if_callbk_fn *)
SetIfCallback ==
  /\ NextEvent /\ Event.event = "SET_INTERFACE" /\ vif_ctx[Event.vif] # NULL
  /\ netdev' = [netdev EXCEPT ![Event.vif] =
                   IF @.registered
                   THEN [@ EXCEPT !.event_set_if = Event.call,
                                  !.status_set_if = Event.error]
                   ELSE @]
  /\ UNCHANGED <<vifVars, callVars, cmdq, rpu, fault, carriers>>

(* netdev_if_state_chg_callbk_fn: the carrier is on or off.                  *)
CarrierEvent ==
  /\ NextEvent /\ Event.event = "CARRIER" /\ vif_ctx[Event.vif] # NULL
  /\ netdev' = [netdev EXCEPT ![Event.vif].carrier = ~Event.error]
  /\ UNCHANGED <<vifVars, callVars, cmdq, rpu, fault, carriers>>

(* The event finds no context, or one that was freed.                        *)
EventFault ==
  /\ NextEvent /\ NeedsContext /\ vif_ctx[Event.vif] \notin Live
  /\ fault' = IF vif_ctx[Event.vif] = NULL THEN "null" ELSE "freed"
  /\ UNCHANGED <<vifVars, netdev, callVars, cmdq, rpu, carriers>>
-----------------------------------------------------------------------------
(* The RPU takes the next command.  It may refuse a change, or not be able   *)
(* to change the state; it answers SET_INTERFACE and SET_IFFLAGS.            *)
Command == Head(cmdq)
Reply(event, error) == evtq' = Append(evtq, [event |-> event, vif |-> Command.vif,
                                             error |-> error, call |-> Command.call])
NextCommand == /\ cmdq # <<>> /\ cmdq' = Tail(cmdq)
               /\ UNCHANGED <<vifVars, netdev, callVars, fault, carriers>>

RpuNewInterface ==
  /\ NextCommand /\ Command.cmd \in {"NEW_INTERFACE", "DEL_INTERFACE"}
  /\ rpu' = [rpu EXCEPT ![Command.vif] = [type |-> Command.type, up |-> FALSE]]
  /\ UNCHANGED evtq

RpuSetInterface ==
  /\ NextCommand /\ Command.cmd = "SET_INTERFACE"
  /\ \E error \in BOOLEAN :
        /\ rpu' = IF error THEN rpu
                  ELSE [rpu EXCEPT ![Command.vif].type = Command.type]
        /\ Reply("SET_INTERFACE", error)

RpuSetIfflags ==
  /\ NextCommand /\ Command.cmd = "SET_IFFLAGS"
  /\ \E error \in BOOLEAN :
        /\ rpu' = IF error THEN rpu
                  ELSE [rpu EXCEPT ![Command.vif].up = (Command.type = "up")]
        /\ Reply("IFFLAGS_STATUS", error)

RpuCarrier ==
  /\ carriers < MaxCarrier /\ carriers' = carriers + 1
  /\ \E v \in Vif, off \in BOOLEAN :
        /\ rpu[v].up
        /\ evtq' = Append(evtq, [event |-> "CARRIER", vif |-> v, error |-> off,
                                 call |-> 0])
  /\ UNCHANGED <<vifVars, netdev, callVars, fault, cmdq, rpu>>
-----------------------------------------------------------------------------
Proceed == \/ AddVifPublish \/ DelVifFree \/ DelVifClose \/ DelVifClear
           \/ ChgVifAnswered \/ ChgVifTimeout
           \/ ChgVifStateAnswered \/ ChgVifStateTimeout

Call == \/ \E t \in IfType : MacAddr(t) \/ AddVifFails(t) \/ AddVif(t)
        \/ DelVifRefused
        \/ \E v \in Vif : \/ DelVif(v) \/ DelVifFails(v) \/ UseOfFreed(v)
                          \/ \E t \in IfType : ChgVif(v, t) \/ ChgVifFails(v, t)
                          \/ \E op \in {"open", "close"} :
                                ChgVifState(v, op) \/ ChgVifStateFails(v, op)

EventTasklet == IfflagsStatus \/ SetIfCallback \/ CarrierEvent \/ EventFault

RpuNext == RpuNewInterface \/ RpuSetInterface \/ RpuSetIfflags \/ RpuCarrier

Next == Call \/ Proceed \/ EventTasklet \/ RpuNext

Spec == Init /\ [][Next]_vars
-----------------------------------------------------------------------------
(* The interfaces the counters stand for: those with a context, but the one  *)
(* a delete has already counted out.                                         *)
Counted(t) == {v \in Vif : /\ vif_ctx[v] # NULL
                           /\ ctx[vif_ctx[v]].if_type = t
                           /\ ~(cur.op = "del" /\ cur.vif = v
                                /\ pc \in {"unregister", "ifflags", "clear"})}

(* The counters the limits are checked against are those of the interfaces,  *)
(* through every add, delete and change, refused, failed or answered late;   *)
(* so that there are never more of a kind than the limit (fmac_vif.c).       *)
CountsMatch == /\ num_sta = Cardinality(Counted(STA)) /\ num_sta <= MAX_NUM_STAS
               /\ num_ap = Cardinality(Counted(AP)) /\ num_ap <= MAX_NUM_APS

(* Between two calls a net device has a context of its own, live unless the  *)
(* delete of that very interface has failed, and no context is left without  *)
(* a net device (cfg80211_add_vif, cfg80211_del_vif).                        *)
InterfacesHeld ==
  pc = "idle" =>
     /\ \A v \in Vif : netdev[v].registered <=> vif_ctx[v] # NULL
     /\ \A v, w \in Registered : v # w => vif_ctx[v] # vif_ctx[w]
     /\ Live = {vif_ctx[v] : v \in Registered} \ lost

(* A wait that ends well took the answer to the command of its own call,     *)
(* unless an earlier wait on the interface had given up (ifflags is cleared  *)
(* at the start of a call, event_set_if at its end).                         *)
AnswersMatch ==
  (pc = "idle" /\ result = "ok" /\ cur.op \in {"chg", "open", "close"}) =>
     answer = calls \/ cur.vif \in late

(* The counters are right, and where no wait gave up, the driver, cfg80211   *)
(* and the RPU agree on what an interface is, but for commands the RPU has   *)
(* not come to.                                                              *)
TypesAgree ==
  /\ CountsMatch
  /\ \A v \in Registered \ late :
     /\ (pc = "idle" \/ cur.vif # v) => netdev[v].iftype = ctx[vif_ctx[v]].if_type
     /\ \/ rpu[v].type = netdev[v].iftype
        \/ cur.vif = v /\ pc # "idle"
        \/ \E i \in DOMAIN cmdq : cmdq[i].vif = v
=============================================================================
