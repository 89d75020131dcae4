------------------------------ MODULE FmacDev -------------------------------
(***************************************************************************)
(* The life of the driver and of its device: insmod and rmmod (main.c), the *)
(* work that registers the PCI driver, probe and remove (lnx_shim.c), and   *)
(* under them the layers that each take resources and give them back: FMAC  *)
(* (fmac_api_common.c, default/ and radio_test/fmac_api.c), HAL             *)
(* (hal_api.c), bus abstraction (bal.c) and PCIe bus (pcie.c); the loading  *)
(* of the firmware; and the users of the wiphy, of the debug files and of   *)
(* the netdev of the default interface, who do not wait for a probe or a    *)
(* remove that is on its way.  INLINE_RX is not set, as in Makefile.wezen.  *)
(*                                                                          *)
(* What a function takes is a sequence of steps, each with what the code    *)
(* gives back, in order, when the step fails.  insmod, the probe, remove,   *)
(* the interrupt handler, its tasklet, the operations of users and the RPU  *)
(* interleave.  An access to a resource that is not held is a fault, after  *)
(* which nothing is modelled.                                               *)
(***************************************************************************)
EXTENDS Naturals, FiniteSets, SequencesExt

CONSTANTS Builds,     \* "regular" and "radio_test": which compile-time build
          MaxProbes,  \* bound: probes
          MaxFails    \* bound: steps that fail

ASSUME BoundsAssumption ==
  /\ Builds \subseteq {"regular", "radio_test"}
  /\ MaxProbes \in Nat /\ MaxFails \in Nat

VARIABLES
  build,      \* constant: CONFIG_NRF700X_RADIO_TEST
  mod,        \* the module: "unloaded", "init", "loaded", "broken" (no fmac_priv), "exit",
              \* "freed" (fmac_priv is gone, the debug files are not)
  at,         \* the step init_lnx is at
  drv_init,   \* rpu_drv_priv.drv_init
  work,       \* drv_reg: "none", "scheduled", "registered", "failed"
  pdev,       \* lnx_pcie_priv->pdev
  dev,        \* "absent", "waiting", "adding", "boot", "starting", "undoing", "left",
              \* "bound", "removing"; "left" is the end of a probe that failed
  step,       \* the step of the probe
  todo,       \* what is to be given back next
  held,       \* what the driver holds
  booted,     \* the processors of the RPU that run; they are never stopped
  fw_init,    \* umac_cmd_init: "none", "sent", "done" (fw_init_done)
  pending,    \* event_tasklet: "idle", "scheduled", or "freed" while it was scheduled
  open,       \* the netdev is up
  probes, fails,
  fault       \* [who, when] of the first access to what is not held

vars == <<build, mod, at, drv_init, work, pdev, dev, step, todo, held,
          booted, fw_init, pending, open, probes, fails, fault>>

NoFault == [who |-> "none", when |-> "none"]
Procs == {"LMAC", "UMAC"}

S(take, undo) == [take |-> take, undo |-> undo]
\* The steps of one function, run inside a caller that undoes more.
Within(steps, undo) == [i \in DOMAIN steps |-> S(steps[i].take, steps[i].undo \o undo)]
\* Steps that give back, last first, what the steps before them took.
Unwound(names) ==
  [i \in DOMAIN names |-> S(names[i], Reverse(SubSeq(names, 1, i - 1)))]

-----------------------------------------------------------------------------
(* What insmod takes.                                                         *)

ShimInit == <<S("shim_priv", <<>>)>>  \* with pcie_drv and pdev_id
PcieInit == <<S("pcie_priv", <<>>)>> \o Within(ShimInit, <<"pcie_priv">>)
BalInit == <<S("bpriv", <<>>)>> \o Within(PcieInit, <<"bpriv">>)
HalInit == <<S("hpriv", <<>>)>> \o Within(BalInit, <<"hpriv">>)
OsalInit == S("osal", <<>>)
\* opriv is not given back when fpriv cannot be had.
FmacInit == <<OsalInit, S("fpriv", <<>>)>> \o Within(HalInit, <<"fpriv", "osal">>)
DbgfsRoot == S("dbgfs_root", <<>>)
InitSteps == <<DbgfsRoot>> \o FmacInit

FmacDeinit == <<"shim_priv", "pcie_priv", "bpriv", "hpriv", "fpriv", "osal">>

-----------------------------------------------------------------------------
(* What a probe takes.  The steps in Unchecked fail without a check: the code *)
(* goes on and uses what it did not get.                                      *)

ShimDevAdd == Unwound(<<"shim", "pci", "regions">>)
ShimDevRem == <<"regions", "shim">>

PcieDevRem == <<"iomem", "irq">> \o ShimDevRem \o <<"pcie">>

IntrReg == S("irq", <<"iomem">> \o ShimDevRem \o <<"pcie">>)
PcieDevAdd == <<S("pcie", <<>>)>> \o Within(ShimDevAdd, <<"pcie">>)
              \o <<S("iomem", <<>>), IntrReg>>
BalDevRem == PcieDevRem \o <<"bal">>
BalDevAdd == <<S("bal", <<>>)>> \o Within(PcieDevAdd, <<"bal">>)

HalUndo == <<"tasklet", "lock_rx", "lock_hal", "event_q", "cmd_q", "HD">>
RxBufs == <<"rx_buf0", "rx_buf1", "rx_buf2">>
\* "wicr" stands for the registers written: WICR and the interrupt enable.
HalDevAdd ==
  Unwound(<<"HD", "cmd_q", "event_q", "lock_hal", "lock_rx", "tasklet">>)
  \o Within(BalDevAdd, HalUndo)
  \o <<S("wicr", BalDevRem \o HalUndo)>>
  \o [i \in 1..3 |-> S(RxBufs[i], BalDevRem \o HalUndo)]
  \o <<S("tx_buf", RxBufs \o BalDevRem \o HalUndo)>>
HalDevRem ==
  <<"tx_buf">> \o RxBufs
  \o <<"tasklet_kill", "tasklet", "lock_hal", "lock_rx", "event_q", "cmd_q">>
  \o BalDevRem \o <<"HD">>

FmacDevAdd == <<S("FD", <<>>)>> \o Within(HalDevAdd, <<"FD">>)
FmacDevRem == HalDevRem \o <<"FD">>

FwGet == Unwound(<<"umac_hex", "lmac_hex">>)
FwRel == <<"umac_hex", "lmac_hex">>
\* n_fmac_fw_load up to the start of the RPU.
FwLoad == FwGet \o <<S("fw", FwRel)>>

WiphyInit == <<S("wiphy", <<>>)>>
\* When the firmware cannot be loaded only the wiphy is given back.
DevAddLnx == WiphyInit \o Within(FmacDevAdd \o FwLoad, <<"wiphy">>)

InitTx == <<S("tx", <<>>)>>
DeinitTx == <<"tx">>
InitRx == <<S("rx", <<>>), S("rx_post", <<>>)>>  \* rx stays when posting fails
DeinitRx == <<"rx">>
FwDeinit == DeinitRx \o DeinitTx
CmdInit == S("init_cmd", FwDeinit)
FwInitDone == S("init_done", FwDeinit)
FwInit == InitTx \o Within(InitRx, DeinitTx) \o <<CmdInit, FwInitDone>>
HalDevInit == S("dev_init", <<>>)
OtpInfoGet == S("otp", <<>>)
FmacDevInit == <<HalDevInit, OtpInfoGet>> \o FwInit

NetdevAdd == S("netdev", <<>>)
AddVif == S("vif", <<>>)
DbgfsInit == S("dbgfs", <<>>)
VerGet == S("ver", <<>>)
MacAddr == S("macaddr", <<>>)
\* On failure only the netdev is deleted.
DevInitLnx ==
  <<NetdevAdd>>
  \o Within(<<AddVif, DbgfsInit, VerGet>> \o FmacDevInit \o <<MacAddr>>, <<"netdev">>)

\* wiphy goes first; rpu_ctx_lnx, read next, is in it.
DevRemLnx == <<"wiphy", "rpu_ctx_lnx">> \o FmacDevRem

(* Mutant: the FMAC interface goes before the netdev. *)
VifFirst == FwDeinit \o <<"dbgfs", "vif", "netdev">>

DevDeinitLnx == FwDeinit \o <<"dbgfs", "netdev", "vif">>

RemoveList == DevDeinitLnx \o DevRemLnx

\* These name a call and not something held.
Calls == {"wicr", "fw", "rx_post", "init_cmd", "dev_init", "otp", "ver", "init_done", "macaddr",
          "tasklet_kill", "rpu_ctx_lnx"}
Resources == ({s.take : s \in ToSet(InitSteps \o DevAddLnx \o DevInitLnx)} \ Calls)

NotInRadioTest == {"tx_buf", "tx", "rx", "rx_post", "netdev", "vif", "macaddr", "otp"}
                  \cup ToSet(RxBufs)
Built(name) == build = "radio_test" => name \notin NotInRadioTest
AddNow == SelectSeq(DevAddLnx, LAMBDA s : Built(s.take))
StartNow == SelectSeq(DevInitLnx, LAMBDA s : Built(s.take))

-----------------------------------------------------------------------------
Init ==
  /\ build \in Builds
  /\ mod = "unloaded" /\ at = 1 /\ drv_init = FALSE
  /\ work = "none" /\ pdev = FALSE
  /\ dev = "absent" /\ step = 1 /\ todo = <<>>
  /\ held = {} /\ booted = {} /\ fw_init = "none" /\ pending = "idle" /\ open = FALSE
  /\ probes = 0 /\ fails = 0 /\ fault = NoFault

moduleVars == <<mod, at, drv_init>>
deviceVars == <<work, pdev, dev, step, todo>>
rpuVars == <<booted, fw_init, pending, open>>

Going == fault = NoFault /\ UNCHANGED build

Take(name) == held' = IF name \in Calls THEN held ELSE held \cup {name}
GiveBack(names) == held' = held \ ToSet(names)
CanFail == fails < MaxFails /\ fails' = fails + 1

Faults(who) ==
  /\ fault' = [who |-> who, when |-> IF mod \in {"freed", "unloaded"} THEN mod ELSE dev]
  /\ UNCHANGED <<moduleVars, deviceVars, rpuVars, held, probes>>

-----------------------------------------------------------------------------
(* insmod and rmmod.                                                          *)

Insmod ==
  /\ Going
  /\ mod = "unloaded" /\ at = 1
  /\ mod' = "init"
  /\ UNCHANGED <<at, drv_init, deviceVars, rpuVars, held, probes, fails, fault>>

\* The last step schedules drv_reg, which runs from then on.
InitStep ==
  /\ Going
  /\ mod = "init" /\ at <= Len(InitSteps)
  /\ Take(InitSteps[at].take)
  /\ at' = at + 1
  /\ work' = IF at = Len(InitSteps) THEN "scheduled" ELSE work
  /\ UNCHANGED <<mod, drv_init, pdev, dev, step, todo, rpuVars, probes, fails, fault>>

\* A failure of n_fmac_init is reported as success, ret being 0 by then; so is an
\* rf_params of the wrong length, which ends as a failure of the first step does.
InitFails ==
  /\ Going
  /\ mod = "init" /\ at <= Len(InitSteps) /\ CanFail
  /\ GiveBack(InitSteps[at].undo)
  /\ mod' = IF InitSteps[at].take = "dbgfs_root" THEN "refused" ELSE "broken"
  /\ UNCHANGED <<at, drv_init, deviceVars, rpuVars, probes, fault>>

InitDone ==
  /\ Going
  /\ mod = "init" /\ at > Len(InitSteps)
  /\ drv_init' = TRUE /\ mod' = "loaded"
  /\ UNCHANGED <<at, deviceVars, rpuVars, held, probes, fails, fault>>

\* n_deinit_lnx reads fmac_priv, which a broken module does not have.
Rmmod ==
  /\ Going
  /\ \/ mod = "broken" /\ Faults("rmmod")
     \/ /\ mod = "loaded"
        /\ mod' = "exit"
        /\ UNCHANGED <<at, drv_init, deviceVars, rpuVars, held, probes, fault>>
  /\ UNCHANGED fails

\* pci_unregister_driver has removed the device, or waited for its probe to
\* fail.  A drv_reg that has not run, or that has freed lnx_pcie_priv when the
\* registration failed, is not known here.
Deinit ==
  /\ Going
  /\ mod = "exit" /\ dev \in {"absent", "left"}
  /\ \/ work # "registered" /\ Faults("rmmod")
     \/ /\ work = "registered"
        /\ GiveBack(FmacDeinit)
        /\ mod' = "freed"
        /\ UNCHANGED <<at, drv_init, deviceVars, rpuVars, probes, fault>>
  /\ UNCHANGED fails

\* With the root go the debug files of a probe that failed.
DbgfsDeinit ==
  /\ Going
  /\ mod = "freed"
  /\ GiveBack(<<"dbgfs_root", "dbgfs">>)
  /\ mod' = "unloaded"
  /\ UNCHANGED <<at, drv_init, deviceVars, rpuVars, probes, fails, fault>>

RegDrv ==
  /\ Going
  /\ work = "scheduled"
  /\ \/ work' = "registered" /\ UNCHANGED <<held, fails>>
     \/ CanFail /\ work' = "failed" /\ GiveBack(<<"shim_priv">>)
  /\ UNCHANGED <<moduleVars, pdev, dev, step, todo, rpuVars, probes, fault>>

-----------------------------------------------------------------------------
(* probe.                                                                     *)

\* pdev is NULL only before the first probe and after one that succeeded.
Probe ==
  /\ Going
  /\ work = "registered" /\ mod \in {"init", "loaded"}
  /\ dev \in {"absent", "left"} /\ probes < MaxProbes
  /\ probes' = probes + 1 /\ pdev' = TRUE /\ step' = 1
  /\ dev' = IF pdev THEN "left" ELSE IF drv_init THEN "adding" ELSE "waiting"
  /\ UNCHANGED <<moduleVars, work, todo, rpuVars, held, fails, fault>>

\* At most 5 * 10 ms; a drv_init that is set during the last of them is too late.
WaitDrvInit ==
  /\ Going
  /\ dev = "waiting"
  /\ \/ drv_init /\ dev' = "adding"
     \/ dev' = "left"
  /\ UNCHANGED <<moduleVars, work, pdev, step, todo, rpuVars, held, probes, fails, fault>>

AddStep ==
  /\ Going
  /\ dev = "adding"
  /\ Take(AddNow[step].take)
  /\ step' = step + 1
  /\ dev' = IF step = Len(AddNow) THEN "boot" ELSE dev
  /\ UNCHANGED <<moduleVars, work, pdev, todo, rpuVars, probes, fails, fault>>

\* lock_hal: HD is NULL when its queues are to be freed.  The others are not
\* checked, or lead to a device context that is not set up, and the registers
\* are accessed without a mapping.
Unchecked == {"lock_hal", "pci", "regions", "iomem"}

Undo(steps) ==
  /\ todo' = SelectSeq(steps, Built)
  /\ dev' = IF todo' = <<>> THEN "left" ELSE "undoing"

\* Of a wiphy that cannot be made, the registration is checked, the memory is not.
AddFails ==
  /\ Going
  /\ dev = "adding" /\ CanFail
  /\ \/ /\ AddNow[step].take \in Unchecked \cup {"wiphy"}
        /\ Faults("probe")
     \/ /\ AddNow[step].take \notin Unchecked
        /\ Undo(AddNow[step].undo)
        /\ UNCHANGED <<moduleVars, work, pdev, step, rpuVars, held, probes, fault>>

\* Each processor has 10 s to show its signature.
FwChkBoot == booted' \in SUBSET Procs

(* Mutant: the images are not released when the RPU does not boot. *)
ImagesKept ==
  /\ Going
  /\ dev = "boot"
  /\ FwChkBoot
  /\ IF "UMAC" \in booted'
       THEN dev' = "starting" /\ step' = 1 /\ GiveBack(FwRel) /\ UNCHANGED todo
       ELSE Undo(<<"wiphy">>) /\ UNCHANGED <<step, held>>
  /\ fw_init' = "none"
  /\ UNCHANGED <<moduleVars, work, pdev, pending, open, probes, fails, fault>>

\* Whether the LMAC started is checked, and overwritten by whether the UMAC did.
Boot ==
  /\ Going
  /\ dev = "boot"
  /\ FwChkBoot
  /\ IF "UMAC" \in booted'
       THEN dev' = "starting" /\ step' = 1 /\ GiveBack(FwRel) /\ UNCHANGED todo
       ELSE Undo(FwRel \o <<"wiphy">>) /\ UNCHANGED <<step, held>>
  /\ fw_init' = "none"
  /\ UNCHANGED <<moduleVars, work, pdev, pending, open, probes, fails, fault>>

StartStep ==
  /\ Going
  /\ dev = "starting"
  /\ StartNow[step].take = "init_done" => fw_init = "done"
  /\ Take(StartNow[step].take)
  /\ fw_init' = IF StartNow[step].take = "init_cmd" THEN "sent" ELSE fw_init
  /\ step' = step + 1
  /\ IF step = Len(StartNow) THEN dev' = "bound" /\ pdev' = FALSE ELSE UNCHANGED <<dev, pdev>>
  /\ UNCHANGED <<moduleVars, work, todo, booted, pending, open, probes, fails, fault>>

(* Mutant: the driver waits for INIT_DONE for ever. *)
NoTimeout ==
  /\ Going
  /\ dev = "starting"
  /\ StartNow[step].take # "init_done" /\ CanFail
  /\ Undo(StartNow[step].undo)
  /\ UNCHANGED <<moduleVars, work, pdev, step, rpuVars, held, probes, fault>>

\* "init_done" fails when the RPU does not answer within 5 s.
StartFails ==
  /\ Going
  /\ dev = "starting"
  /\ IF StartNow[step].take = "init_done"
       THEN fw_init = "sent" /\ UNCHANGED fails
       ELSE CanFail
  /\ Undo(StartNow[step].undo)
  /\ UNCHANGED <<moduleVars, work, pdev, step, rpuVars, held, probes, fault>>

-----------------------------------------------------------------------------
(* remove, and the way back of a probe that failed.                           *)

\* By rmmod, or because the device is unbound or gone.
PcieRemove ==
  /\ Going
  /\ dev = "bound"
  /\ todo' = SelectSeq(RemoveList, Built)
  /\ dev' = "removing"
  /\ UNCHANGED <<moduleVars, work, pdev, step, rpuVars, held, probes, fails, fault>>

Given ==
  /\ todo' = Tail(todo)
  /\ dev' = IF Tail(todo) # <<>> THEN dev ELSE IF dev = "undoing" THEN "left" ELSE "absent"
  /\ UNCHANGED <<moduleVars, work, pdev, step, booted, fw_init, probes, fault>>

Give ==
  /\ Going
  /\ todo # <<>> /\ Head(todo) \notin Calls
  /\ \/ /\ Head(todo) \in held
        /\ Given
        /\ held' = held \ {Head(todo)}
        /\ open' = (open /\ Head(todo) # "netdev")
        /\ pending' = IF Head(todo) = "tasklet" /\ pending # "idle" THEN "freed" ELSE pending
     \/ Head(todo) \notin held /\ Faults("twice")
  /\ UNCHANGED fails

\* tasklet_kill waits for a tasklet that is scheduled.
TaskletKill ==
  /\ Going
  /\ todo # <<>> /\ Head(todo) = "tasklet_kill" /\ pending = "idle"
  /\ Given
  /\ UNCHANGED <<held, open, pending, fails>>

\* rpu_ctx_lnx->rpu_ctx is read from memory that wiphy_free gave back: what is
\* read is still there or is not.
ReadRpuCtx ==
  /\ Going
  /\ todo # <<>> /\ Head(todo) = "rpu_ctx_lnx"
  /\ \/ Given /\ UNCHANGED <<held, open, pending>>
     \/ Faults("remove")
  /\ UNCHANGED fails

-----------------------------------------------------------------------------
(* The actors that do not wait for probe and remove.                          *)

\* The line is shared: the handler is also called when there is no event.
NeededByIrq(event) ==
  {"lock_rx", "iomem", "pcie", "bal", "HD", "hpriv"} \cup (IF event THEN {"tasklet"} ELSE {})

Interrupt ==
  /\ Going
  /\ "irq" \in held
  /\ \E event \in BOOLEAN :
       /\ event => "UMAC" \in booted
       /\ IF NeededByIrq(event) \subseteq held
            THEN /\ pending' = IF event THEN "scheduled" ELSE pending
                 /\ UNCHANGED <<moduleVars, deviceVars, booted, fw_init, open, held, probes, fault>>
            ELSE Faults("irq")
  /\ UNCHANGED fails

NeededByTasklet == {"tasklet", "lock_rx", "lock_hal", "event_q", "HD", "FD", "fpriv"}
\* An event about the interface reads vif_ctx and what it points to; a received
\* frame reads rx_buf_info as well.
NeededByEvent(kind) ==
  CASE kind = "other" -> {}
    [] kind = "interface" -> {"vif", "netdev"}
    [] kind = "rx" -> {"vif", "netdev", "rx"}

Tasklet ==
  /\ Going
  /\ pending # "idle"
  /\ \E kind \in {"other", "interface", "rx"} :
       /\ kind # "other" => fw_init = "done" /\ build = "regular"
       /\ IF pending = "scheduled" /\ NeededByTasklet \cup NeededByEvent(kind) \subseteq held
            THEN /\ pending' = "idle"
                 /\ \/ UNCHANGED fw_init
                    \/ kind = "other" /\ fw_init = "sent" /\ fw_init' = "done"
                 /\ UNCHANGED <<moduleVars, deviceVars, booted, open, held, probes, fault>>
            ELSE Faults("tasklet")
  /\ UNCHANGED fails

\* ndo_open and ndo_stop: chg_vif_state writes to vif_ctx and waits for the RPU.
\* Before INIT_DONE umac_cmd_cfg refuses the command and the netdev stays down.
\* The cfg80211 operations of a netdev use vif_ctx in the same way.
Open ==
  /\ Going
  /\ "netdev" \in held
  /\ IF "vif" \in held
       THEN /\ open \/ fw_init = "done"
            /\ open' = ~open
            /\ UNCHANGED <<moduleVars, deviceVars, booted, fw_init, pending, held, probes, fault>>
       ELSE Faults("open")
  /\ UNCHANGED fails

\* ndo_start_xmit of a frame to a peer: the TX path's lock and queues.
Xmit ==
  /\ Going
  /\ open /\ "tx" \notin held
  /\ Faults("xmit")
  /\ UNCHANGED fails

HalResources == {s.take : s \in ToSet(SelectSeq(FmacDevAdd, LAMBDA s : Built(s.take)))} \ Calls
\* What an operation finds through rpu_ctx, which is set when FmacDevAdd is done.
NeededByRpuCtx == HalResources \cup ToSet(FmacDeinit)
\* def_vif_ctx is set after AddVif, and lies in the memory of the netdev.
NeededByDefVif == IF build = "regular" THEN {"netdev", "vif"} ELSE {}

\* set_wiphy_params, which cfg80211 calls on any registered wiphy; the radio
\* test has no operations, but cfg80211_ops is in the module.  add_virtual_intf
\* needs rpu_ctx only.
WiphyOp ==
  /\ Going
  /\ "wiphy" \in held
  /\ \/ build = "regular" /\ ~(NeededByRpuCtx \cup NeededByDefVif \subseteq held)
     \/ mod = "unloaded"
  /\ Faults("wiphy")
  /\ UNCHANGED fails

\* A write of ps_timeout=, ps_listen_interval= or ps_wakeup_mode=; in the radio
\* test, of any setting that is sent to the RPU.
DebugFile ==
  /\ Going
  /\ "dbgfs" \in held
  /\ ~(NeededByRpuCtx \cup NeededByDefVif \subseteq held)
  /\ Faults("debugfs")
  /\ UNCHANGED fails

-----------------------------------------------------------------------------
Probing == WaitDrvInit \/ AddStep \/ AddFails \/ Boot \/ StartStep \/ StartFails
Releasing == Give \/ ReadRpuCtx

Next ==
  \/ Insmod \/ InitStep \/ InitFails \/ InitDone \/ Rmmod \/ Deinit \/ DbgfsDeinit
  \/ RegDrv \/ Probe \/ PcieRemove \/ Probing \/ Releasing \/ TaskletKill
  \/ Interrupt \/ Tasklet \/ Open \/ Xmit \/ WiphyOp \/ DebugFile

\* The thread of a probe or a remove goes on, and softirqs run.  tasklet_kill
\* looks again whenever the tasklet was scheduled, and takes the first chance.
Spec == /\ Init /\ [][Next]_vars
        /\ WF_vars(Probing) /\ WF_vars(Releasing) /\ WF_vars(Tasklet)
        /\ SF_vars(TaskletKill)

-----------------------------------------------------------------------------
\* Every variable has a value of its type.
TypeOK ==
  /\ build \in Builds
  /\ mod \in {"unloaded", "init", "refused", "broken", "loaded", "exit", "freed"}
  /\ at \in 1..Len(InitSteps) + 1 /\ drv_init \in BOOLEAN
  /\ work \in {"none", "scheduled", "registered", "failed"} /\ pdev \in BOOLEAN
  /\ dev \in {"absent", "waiting", "adding", "boot", "starting", "undoing", "left",
               "bound", "removing"}
  /\ step \in 1..Len(DevAddLnx) + 1
  /\ todo \in Seq(Resources \cup Calls) /\ (todo # <<>> <=> dev \in {"undoing", "removing"})
  /\ held \subseteq Resources /\ booted \subseteq Procs
  /\ fw_init \in {"none", "sent", "done"} /\ pending \in {"idle", "scheduled", "freed"} /\ open \in BOOLEAN
  /\ probes \in 0..MaxProbes /\ fails \in 0..MaxFails
  /\ fault.who \in {"none", "rmmod", "probe", "twice", "remove", "irq", "tasklet", "open", "xmit",
                    "wiphy", "debugfs"}

DeviceResources == {s.take : s \in ToSet(DevAddLnx \o DevInitLnx)} \ Calls

\* remove gives back all that probe took, and rmmod after it all that insmod
\* took, but for pci_enable_device: dev_deinit, which would undo it, has no caller.
NothingLeft ==
  dev = "absent" /\ fault = NoFault =>
    /\ held \cap DeviceResources \subseteq {"pci"}
    /\ mod = "unloaded" => held \subseteq {"pci"}

\* A probe that failed has given back the device of the HAL as a whole, but for
\* RX pools and pci_enable_device, or not at all; the netdev and the firmware
\* images never stay, and a wiphy only with an RPU that runs.
AllOrNothing ==
  dev = "left" =>
    /\ \/ held \cap DeviceResources \subseteq ToSet(RxBufs) \cup {"pci"}
       \/ HalResources \subseteq held
    /\ held \cap ({"netdev"} \cup ToSet(FwRel)) = {}
    /\ "wiphy" \in held => HalResources \subseteq held /\ "UMAC" \in booted

\* A device that is bound has all that its build takes, an RPU that has answered
\* the init command, and has made room for the next probe.
BoundIsWhole ==
  dev = "bound" =>
    /\ {s.take : s \in ToSet(AddNow \o StartNow)} \ (Calls \cup ToSet(FwRel)) \subseteq held
    /\ held \cap ToSet(FwRel) = {}
    /\ "UMAC" \in booted /\ fw_init = "done" /\ ~pdev

\* What a device holds wherever it may rest: absent, failed, bound.
HeldWhole == NothingLeft /\ AllOrNothing /\ BoundIsWhole

\* What each of these actors accesses without holding it, and when.  Nothing is
\* given back twice; a device that is bound is safe from all of them; and each
\* operation of a user is safe in the states that are not named for it.
FaultsAreKnown ==
  fault # NoFault =>
    \/ fault.who = "probe" /\ fault.when = "adding"
    \/ fault.who = "remove" /\ fault.when = "removing"
    \/ fault.who = "rmmod" /\ fault.when = "absent"
    \/ fault.who = "open" /\ fault.when \in {"starting", "undoing"}
    \/ fault.who = "xmit" /\ fault.when \in {"undoing", "removing"}
    \/ fault.who = "irq" /\ fault.when \in {"undoing", "removing", "freed", "unloaded"}
    \/ /\ fault.who = "tasklet" /\ fault.when \notin {"waiting", "bound"}
       /\ fault.when \in {"absent", "starting"} => pending = "freed"
    \/ fault.who = "wiphy" /\ fault.when \notin {"absent", "waiting", "bound"}
    \/ fault.who = "debugfs" /\ fault.when \in {"left", "freed"}

\* Every probe and every remove ends, whatever the RPU does.
ProbesEnd ==
  dev \notin {"absent", "left", "bound"} ~> dev \in {"absent", "left", "bound"} \/ fault # NoFault

=============================================================================
