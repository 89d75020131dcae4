# Formal models of the nRF70/Wezen Wi-Fi host driver

This directory holds TLA+ models of the host driver: what it promises the
network stack and the cfg80211 layer above it, and how it keeps that promise
towards the radio processing unit (RPU) below it. TLC checks the models on
small instances; TLAPS proves their invariants for every instance.
`src/nrfxlib/nrf_wifi` is abbreviated `N`, `src/nrf_wifi_driver.git/linux/fullmac`
is abbreviated `L`.

## 1. The system

The driver is layered. Each layer calls the one below through a small API and
is called back from below through a function table.

| Part | Code | State it keeps | Operations |
|---|---|---|---|
| Linux driver | `L/src/main.c`, `netdev.c`, `wiphy.c` | one context per device and per interface, scan and power state, carrier | probe/remove, open/stop, `start_xmit`, receive and event callbacks |
| cfg80211 operations | `L/src/cfg80211_if.c`, `wpa_supp_if.c` | pending scan request, keys, association state | scan, connect, AP start/stop, waits for answers |
| Debug files | `L/src/dbgfs_*.c`, `hal_tb.c` | the parameters of `conf`, shadow copies of what the RPU was told | parse, check, send one command, store; print |
| Radio test | `N/fw_if/umac_if/src/radio_test/*.c` | the answer of the radio command in progress, the buffer of the RF test | program TX and RX, RF tests, each with a bounded wait |
| FMAC device and VIFs | `N/fw_if/umac_if/src/default/fmac_api.c`, `fmac_api_common.c`, `fmac_vif.c`, `cmd.c` | table of interfaces, firmware state flags, statistics | init/deinit, add/change/delete interface, one function per UMAC command |
| TX path | `N/fw_if/umac_if/src/tx.c`, `fmac_ap.c` | tokens, pending queues per peer and category, counters, the map of spare tokens, woken peers | `start_xmit`, TX-done event, power-save events |
| Peer table | `fmac_peer.c`, station events of `event.c` | addresses, power-save state, bitmap of pending categories | add, remove, flush, look up |
| RX path | `rx.c` | buffer of each RX descriptor, RX tasklet queue | command to (re)post a buffer, RX event |
| Event dispatch | `event.c` | flags and answers the API waits for | one case per event |
| HAL commands | `N/hw_if/hal/src/hal_api.c`, `hpqm.c` | command queue, counter of commands | control command (fragmented), data command |
| HAL events | `hal_interrupt.c`, `hal_api.c` | event under reassembly, event queue | interrupt handler, tasklet |
| HAL power save | `hal_api.c` | awake/asleep, idle timer, `irq_ctx` | wake, sleep timer |
| HAL memory | `hal_mem.c`, `hal_reg.c`, `pal.c`, buffer maps in `hal_api.c` | maps of TX and RX buffers, offset in the current token | map, unmap, read, write |
| Firmware load | `hal_fw_*_loader.c` | current processor, boot flag | reset, load, boot, poll |
| Bus and OS | `N/bus_if`, `N/os_if`, `L/src/lnx_shim.c`, `N/utils` | device contexts | thin wrappers, lists and queues |

How they interact: the network stack calls `start_xmit` on any CPU, several
interfaces at once. The FMAC layer queues the frame under `tx_lock`, and, with
a token free, writes a TX command to the RPU through the HAL under `lock_hal`.
The RPU answers with an interrupt; its handler copies events to a queue under
`lock_rx`, and a tasklet hands them to the FMAC event handlers, which take
`tx_lock` in turn, free the frames of the token and send the next batch.
Control commands take the HAL command queue, and their answers come back as
events which set flags the caller polls.

What is hard in this code:

* **tokens**: a frame is queued, batched, mapped, sent, completed; the token's
  category is not stored but recomputed from a bit map, and counters decide
  whether a new frame may be held back;
* **holding back**: frames wait, without any timer, for a TX-done event that
  must find them;
* **power save of stations** (access point): doze, poll, wake and TX-done
  events in any order;
* **the peer table** changes without the TX lock, and slots are reused while
  their queues hold frames;
* **commands larger than a command buffer** are split, and a timeout in the
  middle drops a part;
* **events larger than an event buffer** are reassembled from several reads
  that can fail;
* **answers are matched with calls** by a flag or a pointer that a later call
  may share with an earlier one that gave up;
* **cfg80211 and the driver keep the same facts** (the scan in progress, the
  access point, the stations, the type of an interface) and must agree on them
  through failures and through events that overtake calls;
* **keys are written to RPU memory at once**, while the commands that tell the
  RPU about them wait in a queue;
* **debug files and cfg80211** change the same settings without a common lock;
* **interrupts, timer and process context** share the power state (low-power
  builds);
* **start-up and shut-down** unwind half-built contexts while the interrupt
  handler, its tasklet and the net device already, or still, run.

The properties that make the parts correct:

* TX path: no frame is lost, doubled or freed while queued; the counters and
  the map of tokens are exact; a frame that waits is found by an event that
  will come; dozing stations are not sent to; every frame is freed in the end.
* RX path: every descriptor is at the RPU or on its way back to it; a buffer
  is never posted twice and never given to the stack while posted.
* HAL commands: the RPU sees commands whole and in the order they were sent.
* HAL events: the FMAC sees events whole, once, and in the order they were
  raised; an RPU event buffer always goes back.
* API: a wait for an answer ends, and an answer is not taken for another one.
* Interfaces: counters, contexts, net devices and the RPU agree.
* Scan, connection: each scan is reported done once, each frame's status under
  its own cookie, and cfg80211's idea of being connected is true.
* Keys and stations: one entry of the key data base for each station, each key
  where the RPU looks for it, the peer table equal to the RPU's stations.
* Settings: what the files show is what the RPU was told.
* Life cycle: a device holds all it needs or nothing, and nothing is used that
  is not held.
* Power save (not compiled): the RPU is never accessed while asleep.

## 2. What is modelled

### TxPath, the core

`TxPath.tla` models `tx.c` (enqueueing, batching, tokens, TX commands, TX-done),
`fmac_ap.c` and `fmac_peer.c`. `tx` is one record, `struct tx_config` field by
field: `busy` is `buf_pool_bmp_p`, `outstanding` is `outstanding_descs`,
`spare_map` the set of bits of `spare_desc_queue_map`, `pending` is
`data_pending_txq`, `opp` is `curr_peer_opp`, `pkt` and `pkt_peer` are
`pkt_info_p`, `coalesce` is `send_pkt_coalesce_count_p`, `wakeup` is
`wakeup_client_q`; `mapped` is the number of mapped buffers of a token (they
are mapped from the first on), `in_rpu` the tokens whose command the RPU has,
`rpu_bmp` the bitmaps in the RPU's memory. `xmit` holds, for each interface, a
call of `start_xmit` between the look-up of the peer (no lock) and the locked
part; `live` the frames the driver owns.

Each C function that changes the configuration is an operator from
configurations to configurations, with the same name in TLA+ spelling
(`DescFree`, `PendingProcess`, `CmdInit`, ...), so a handler that runs under
`tx_lock` is one action that composes them:

| Action | Code |
|---|---|
| `XmitLookup`, `XmitTx` | `nrf_wifi_fmac_start_xmit`, before and under the lock |
| `TxDoneEvent` | `nrf_wifi_fmac_tx_done_event_process` |
| `GetFrames`, `Doze`, `WakeUp` | `sap_client_ps_get_frames`, `sap_client_update_pmmode` |
| `PeerAdd`, `PeerRemove`, `PeersFlush` | `nrf_wifi_fmac_peer_add/remove/peers_flush` |

`TxService.tla` is the abstract specification: a frame is with the stack, waits
or travels in a batch; batches have one category, a token that may carry it,
and a bounded size. `ImplementsService` maps the places of frames in `TxPath`
to it.

Abstractions, and why they are sound for the properties:

* a frame is a model value with a destination, a flow (its pair of MAC
  addresses) and a size; nothing else of it is inspected;
* the interfaces share one type (station or access point) and one peer table,
  as in the code; `if_idx` of a peer is left out;
* `can_xmit` is always true: `twt_sleep_status` is set to AWAKE in `tx_init`
  (tx.c:1374) and nowhere changed;
* mapping for DMA succeeds (it fails for oversized frames only); an access to
  the RPU fails only with `HalMayFail`, which stands for a low-power build
  whose RPU does not wake up. One handler finds it reachable throughout or not
  at all;
* allocation failures are left out: the code does not survive them
  (a failed `tx_cmd_prepare`, tx.c:765, leaks the command and leaves the frames
  on a token the RPU does not have);
* the slot of group addresses never gets `is_legacy`, because no caller adds a
  group address to the table.

### HalCmd, the command path of the HAL

`HalCmd.tla` models `nrf_wifi_hal_ctrl_cmd_send` and `nrf_wifi_hal_data_cmd_send`
step by step, because the RPU runs beside the caller that holds `lock_hal`.
`cmd_avl`, `cmd_busy`, `rx_busy` are the hardware queues, `bell` the doorbell,
`mem` what stands at each address; `pc`, `cmd`, `msg_addr`, `status` are the
position and the local variables of each caller.

| Action | Code |
|---|---|
| `Call`, `Lock`, `Unlock` | entry, `spinlock_take`, `spinlock_rel` |
| `CmdQueue`, `CmdQueueFail` | `hal_rpu_cmd_queue`, whole or with an allocation that fails at any fragment |
| `CmdDequeue`, `CmdQueueEmpty` | the loop of `hal_rpu_cmd_process_queue` |
| `ReadyWait`, `ReadyTimeout` | `hal_rpu_ready_wait` and its failure |
| `MsgWrite` | `hal_rpu_msg_get_addr`, `hal_rpu_mem_write` |
| `DataWrite` | the copy of a data command to the address of its descriptor |
| `MsgPost`, `MsgPostRx`, `MsgTrigger` | `hal_rpu_msg_post`, `hal_rpu_msg_trigger` |
| `RpuStart`, `RpuTake`, `RpuRelease`, `RpuStop`, `RpuUseRx` | the firmware, as the host relies on it |

A fragment is which part of which command it is. Calls are numbered in the
order in which they get the lock. `num_cmds` is left out: on this SoC it is only
counted. The variants of `SOFT_HPQM` are not compiled.

### HalEvent, the event path of the HAL

`HalEvent.tla` models the interrupt handler (`hal_rpu_irq_process`,
`hal_rpu_event_get_all`, `hal_rpu_event_get`) and the event tasklet
(`hal_rpu_eventq_process`). `event_data` holds the fragments put together so
far, `pending` is `event_data_pending` counted in fragments, `event_resubmit`
the flag of that name.

| Action | Code |
|---|---|
| `IrqEnter`, `IrqAck`, `IrqReturn` | `nrf_wifi_hal_irq_handler` with `lock_rx`, acknowledgement, scheduling |
| `EventDequeue`, `EventsRead` | the loop of `hal_rpu_event_get_all` |
| `EventReadFirst`, `EventReadNext`, `EventFree`, `EventQueue` | `hal_rpu_event_get` |
| `EventAllocFail`, `EventMsgFail`, `EventNodeFail` | its three allocations |
| `TaskletStart`, `TaskletDequeue`, `TaskletCall`, `TaskletDone` | the tasklet |
| `RpuEvent`, `RpuPost`, `RpuWdog` | the firmware |

After a failed allocation the handler may read a header in the middle of an
event; `Headers` then allows any length and any resubmit flag. Whether the
acknowledgement also clears an interrupt raised since the handler was entered
is a property of the hardware; `IrqAck` allows both, and counts such an
interrupt as lost.

### RxPath

`RxPath.tla` models the life of an RX descriptor: `init_rx` gives it a buffer,
the HAL maps the buffer to a slot of packet RAM, the RPU fills the slot, the
event tasklet takes the frame out and posts the descriptor with a new buffer,
and `deinit_rx` with `hal_dev_rem` takes everything apart. `rx_buf_info` and
`hal_map` are the two maps, of the FMAC and of the HAL; `posted`, `filled`,
`event_q` and `todo` are the places of a descriptor on its way round; `dev` is
the position of the thread that starts and removes the driver.

| Action | Code |
|---|---|
| `InitRx`, `InitDesc`, `InitRxDone`, `InitRxFail`, `InitDone` | `nrf_wifi_fmac_init_rx` and `fw_init` with its wait |
| `Stop`, `DeinitCheck`, `DeinitUnmap`, `DeinitFree`, `DeinitRxDone` | `nrf_wifi_fmac_deinit_rx`, one descriptor at a time |
| `HalMapFree`, `TaskletKill` | `nrf_wifi_hal_dev_rem` |
| `RxEvent`, `RxUnmap`, `RxClear`, `RxDeliver`, `RxBeacon`, `RxUnknown` | `nrf_wifi_fmac_rx_event_process` |
| `RxAlloc`, `RxAllocFail`, `RxMap`, `RxSet`, `RxPost` | `nrf_wifi_fmac_rx_cmd_send(INIT)` for the descriptor just emptied |

The tasklet and the removing thread share no lock, so their steps are as fine
as their accesses to the two maps. Frames and buffers are numbered. The RX work
queue and `CMD_RX_BUFF` are not compiled.

### VifControl

`VifControl.tla` models the virtual interfaces: what cfg80211 and the net
device ask for (`cfg80211_if.c`, `netdev.c`), the FMAC calls under it
(`default/fmac_api.c`), the counters and limits of `fmac_vif.c`, and the events
that answer. The calls hold rtnl, so there is one at a time; `pc` is where it
is, `cur` which it is. `ctx` is the memory of the contexts: it is never given
out twice, so that a use after a free is seen (`UseOfFreed`, `EventFault`).
`answer` is the call whose reply the last wait took.

| Action | Code |
|---|---|
| `MacAddr`, `AddVif`, `AddVifPublish`, `AddVifFails` | `cfg80211_add_vif`, `fmac_mac_addr`, `fmac_add_vif`, before and after the context is published |
| `DelVif`, `DelVifFree`, `DelVifClose`, `DelVifClear`, `DelVifRefused`, `DelVifFails` | `cfg80211_del_vif`, `fmac_del_vif`, the unregistering that closes the net device, `vif_clear_ctx` |
| `ChgVif`, `ChgVifAnswered`, `ChgVifTimeout`, `ChgVifFails` | `cfg80211_chg_vif` with its wait for `event_set_if` |
| `ChgVifState`, `ChgVifStateAnswered`, `ChgVifStateTimeout`, `ChgVifStateFails` | open and stop, `fmac_chg_vif_state` with its wait for `ifflags` |
| `IfflagsStatus`, `SetIfCallback`, `CarrierEvent`, `EventFault` | `umac_event_ctrl_process` and the callbacks |
| `RpuNewInterface`, `RpuSetInterface`, `RpuSetIfflags`, `RpuCarrier` | the firmware, which may refuse |

A second interface cannot be added in this code as it stands: `fmac_mac_addr`
(fmac_api.c:2282) reads the context of every interface, and one of them is NULL.
`MacAddr` has this as a fault. `AddVif` is an add that has its address already, as
`dev_init_lnx` makes it for the first interface; `vif_ops` lets it add any
interface that is free, so that what the counters and limits are there for is
reached.

### Mlme

`Mlme.tla` models scan, authentication, association, management frames and their
events for a station. A scan request and a frame are the number of the call they
came with. `n_scan_req`, `bss`, `bssid`, `cookie_g` and `cookie_list` are the
driver's; `scan_req`, `scans`, `connected` and `reports` what cfg80211 has.

| Action | Code |
|---|---|
| `Scan`, `ScanFails`, `ScanStarted` | `cfg80211_scan`: the command is sent, then `n_scan_req` is set |
| `Auth`, `Assoc`, `Deauth`, `Disassoc` | the operations and FMAC calls of these names |
| `MgmtTx`, `MgmtFrameReg` | `cfg80211_mgmt_tx`, `cfg80211_mgmt_frame_reg` |
| `ScanStartCallback`, `ScanDoneCallback`, `ScanAbortCallback`, `ScanResCallback` | the event callbacks |
| `AssocRespCallback`, `DeauthCallback`, `NewStation`, `DelStation` | the event callbacks, with `umac_event_connect` for the peer table |
| `CookieRspCallback`, `TxStatusCallback` | `cookie_rsp_callbk_fn`, `cfg80211_tx_status_callbk_fn` |
| `RpuScan`, `RpuScanEnds`, `RpuAuth`, `RpuAssoc`, `RpuDeauth`, `RpuFrame`, `RpuRegisterFrame`, `RpuLoses`, `RpuUnprotected` | the firmware |

### Stations

`Stations.tla` models the keys, the stations and the access point mode. `db` is
`peerKeyDB`, `keymem` the key memory in cells of 16 bytes; a cell holds the name
of the key that was written to it, so that keys that overlap are seen. `rpu` is
what the RPU was told when it took the command. The indices of group keys go up to
5 (`KeyAssumption`): cfg80211 passes 4 and 5 for the management group keys of
AES-CMAC (cfg80211_if.c:2739), while an entry has four cells for them.

| Action | Code |
|---|---|
| `AddPairwiseKey`, `AddGroupKey` | `cfg80211_add_key`, `fmac_add_key` with `findValidPeerDBIndex` and `program_peer_key` |
| `DelPairwiseKey`, `DelGroupKey` | `cfg80211_del_key`, `fmac_del_key` |
| `SetDefKey`, `SetDefMgmtKey` | the default keys, `fmac_set_key` |
| `StartAp`, `StopAp`, `ChgBcn`, `ChgBss` | access point mode |
| `ChgSta`, `DelSta`, `Assoc` | `cfg80211_chg_sta`, `cfg80211_del_sta`; what `fmac_assoc` sets |
| `CallFails` | any of these calls, when no command can be allocated |
| `NewStation`, `DelStation` | `umac_event_connect` |
| `RpuNewKey`, `RpuDelKey`, `RpuAp`, `RpuAssoc`, `RpuOther`, `RpuJoins`, `RpuLeaves` | the firmware |

### Conf, Settings and RadioTest

`Conf.tla` has the parameters of the debug file `conf`: defaults, the check each
written value has to pass, and the writes that only store. `Settings.tla` adds
the regular build: the writes that send a command, cfg80211's settings, and the
two queries that wait (`get_station` and the statistics). `RadioTest.tla` adds the
radio test: its own parameters, `tx=` and `rx=`, the initialisation and the RF
tests. `MCSettings` composes them; `build` chooses between the regular build,
the radio test with the file, and the radio test driven by an application. Which
values are written is chosen around the boundaries of each check.

| Action | Code |
|---|---|
| `ConfStore`, `RtStores` | parameters that are stored only |
| `PowerSave`, `RtsThreshold`, `UapsdQueue`, `SetHeLtfGi`, `TxPktMcs`, `TxPktRate`, then `StoreProgrammed` | checked, sent, and in a later step stored |
| `PsTimeout`, `PsListenInterval`, `PsWakeupMode` | stored, then sent |
| `SetPowerMgmt`, `CfgSetWiphyParams`, `SetQosMap` | cfg80211's settings |
| `GetStation`, `GetStationReturns`, `GetStationTimeout`, `GetStationCallback` | `cfg80211_get_station` and its event |
| `StatsGet`, `StatsSend`, `StatsReturns`, `StatsTimeout`, `StatsProcess` | `fmac_stats_get` and its event |
| `Tx`, `Rx`, `RadioTestInit`, `RadioDone`, `RadioTimeout`, `RadioCmdStatus` | the radio commands, `wait_for_radio_cmd_status` |
| `RfTestRxCap`, `RfTestTxTone`, `RfTestDpd`, `RfGetTemp`, `RfGetRfRssi`, `SetXoVal`, `RfTestComputeXo`, `RfTestDone`, `RfTestTimeout`, `RfTestProcess` | the RF tests |
| `RpuAnswers`, `RtRpuStep` | the firmware: an answer may be late or not come |

### FmacDev

`FmacDev.tla` models insmod and rmmod, the work that registers the PCI driver,
probe with the loading of the firmware, and remove, through all layers. What a
function takes is a table: a sequence of steps, each with the list of what the
code gives back, in this order, when the step fails. `held` is what the driver
holds, `todo` what is to be given back next. The tables compose as the functions
do (`DevAddLnx` contains `FmacDevAdd`, which contains `HalDevAdd`, ...); `Built`
and `NotInRadioTest` choose what a build has. Whoever uses something that is not
held is named in `fault`, with the moment; nothing is modelled after that.
Users come in by three ways, each from the moment it is registered: the wiphy,
which is the first thing a probe makes, the debug files, and the netdev of the
default interface. `rpu_ctx` and `def_vif_ctx`, which the first two dereference
without a check, are set later and outlived.

| Action | Code |
|---|---|
| `Insmod`, `InitStep`, `InitFails`, `InitDone` | `nrf_wifi_init_lnx` |
| `Rmmod`, `Deinit`, `DbgfsDeinit` | `nrf_wifi_deinit_lnx`, `lnx_shim_bus_pcie_deinit`, `nrf_wifi_lnx_dbgfs_deinit` |
| `RegDrv`, `Probe` | the work `drv_reg`, `lnx_shim_bus_pcie_probe` |
| `Probing` | `dev_add_lnx`, `fw_load`, `dev_init_lnx`: the next step, its failure, the wait for the firmware |
| `PcieRemove`, `Releasing`, `TaskletKill` | `lnx_shim_bus_pcie_remove`, `dev_deinit_lnx`, `dev_rem_lnx`, and the unwinding of a probe |
| `Interrupt`, `Tasklet` | the interrupt handler and the event tasklet, by what they need |
| `Open`, `Xmit` | the net device's users; before INIT_DONE it cannot come up |
| `WiphyOp`, `DebugFile` | `cfg80211_set_wiphy_params`, and the writes of `conf` that send a command, by what they need |

### OrderedChannel

`OrderedChannel.tla` is the abstract specification of three paths: messages are
accepted, and delivered in the order of acceptance, each once, and all of them
in the end, until something fails (`broken`); then nothing is promised. `HalCmd`,
`HalEvent` and `RxPath` instantiate it with what they
accept and deliver (`Channel`); a sequence of fragments that is not made of
whole commands or events maps to a message that was never accepted.

How the modules fit together: `TxPath` takes a TX command, and `RxPath` the
posting of a descriptor, as one step; `HalCmd` shows that commands arrive whole
and in order, whoever sends beside them. `TxPath` and `RxPath` take an event as
one step of a tasklet; `HalEvent` shows that events come once and in order.
`VifControl`, `Mlme`, `Stations`, `Settings` and `RadioTest` rest on the same two
results: their `cmdq` and `evtq` (`rpuq`, `rtq`, ...) are the ordered channels
that `HalCmd` and `HalEvent` implement while nothing fails, and the loss of a
command there is a call that fails or an answer that does not come. `FmacDev` gives the
life of the device around all of them; `Stations` takes the association from
`Mlme` as one call, and both treat `umac_event_connect`, the one for an access
point's stations and the other for a station's access point.

In all modules, definitions marked "Mutant" are variants of a definition with a
plausible mistake; they show that each property depends on the code.

## 3. Runs

Each `MC` module gives its component's constants their values.

| Run | Question | Instance |
|---|---|---|
| `tx_tokens` | Are tokens, nibbles, frames and batches always accounted for, does no frame wait without a token that will fetch it, and is `TxService` implemented, while stations leave and others get their slot? | 4 frames of BK and VO (one emergency, one large, one of another flow), 2 stations for 1 slot, 5 reserved and 1 spare token, queues and batches of 2 |
| `tx_ap` | Power save: are frames held for dozing stations, is the bitmap of pending categories right? | 2 stations and the group, 3 frames of BE, polls of one frame, at most 2 entries in the queue of woken peers |
| `tx_live` | Does every frame leave if the RPU answers? | 2 stations, 4 frames of BK and VO |
| `rx_frames` | Descriptors, the two maps, buffers and frames; does a removal, or a start that times out, free everything? | pools of 2 and 1 descriptors, 3 frames, events of up to 2 frames, 1 failed allocation, 1 event of unknown type |
| `cmd_path` | Is a command buffer ever lost or used twice, a post not announced, a fragment out of order? Is the path an `OrderedChannel`? | 2 callers, a command buffer, a TX and an RX descriptor, 3 calls of up to 2 fragments, 1 timeout, 1 failed allocation |
| `evt_path` | Are event buffers returned, is no event forgotten, does any fragment come up twice, do events arrive whole? | 2 events of up to 2 fragments, 2 + 1 addresses, 1 failed allocation, 1 lost interrupt, 1 watchdog interrupt |
| `vif_ops` | Do contexts, counters, net devices and the RPU agree through refused, failed and late calls? Is an answer that of its call? | 4 calls on 2 interfaces, 3 contexts, limits of 2 stations and 1 access point, 1 failure, 1 carrier event |
| `mlme` | Is each scan reported once, a frame's status under its cookie, cfg80211's connection true? Does each scan end? | 3 calls of any kind, 2 access points, scans for no SSID, for a named one and the wildcard, for two named ones, 1 failure, 1 loss of the access point |
| `stations` | One entry for each station, each key in place, peer table equal to the RPU's? | 6 calls, 2 stations (symmetric), 2 entries, group key indices 0, 1 and 4, 2 waiting commands, 1 failure |
| `settings` | Do the files show what the RPU was told, and does an answer belong to its question? | one writer, one reader, cfg80211; 4 calls in the regular build, 5 in the radio test, 3 RF tests, 1 failure |
| `dev_life` | What does a device hold when a probe has failed, when it is bound, when it is gone? Which user of a device meets what is not held, and when? Does each probe and remove end? | both builds, 3 probes, 1 failing step |
| `conf_race` | the comment at dbgfs_wlan_fmac_conf.c:2729, that a rate and an MCS are not both set, with two writers | see Findings |

Why the bounds are enough. TX: `UintMod = 16` replaces 2^32; counters reach 7 at
most, so a decrement below zero would show as 15. With one reserved token per
category (as many tokens as `PerAc = 1` gives) and one spare one, four frames
exhaust reserved and spare tokens of a category, fill a queue past its limit of
two, and leave frames to hold back. Batches of two reach the aggregation limit,
the token length limit and the change of flow. Two stations are enough for the
round robin to wrap, and for one to get the slot that the other left. HAL:
commands and events of two fragments meet both an empty and a full queue of
buffers, and the third call meets what the first two left behind; a third caller
would only wait for the lock as the second does. RX: the descriptor numbers cross
the border of a pool, and the descriptor of the second pool goes round three
times. Accesses that fail (`HalMayFail`) are covered by the theorems on types and tokens.
Interfaces: four calls are an add, a change that times out, the change that may
take its answer, and one call after it. MLME: three calls are two overlapping
associations and a deauthentication, or three scans or frames, enough for the
answer to one to meet the next; one failure or loss may come anywhere. Stations: six calls
fill both entries, delete one and use it again with commands still waiting, or
write the key of index 4 over another key of its entry and over the next entry's.
Settings: channels on either side of each band's border, the centre of a 40 MHz
pair, 14, and a number above 255 (`PrimariesMC`); a write that collects, one that sends, one of cfg80211 and one that
repeats; writes of parameters that no check or command looks at singly count for
`QuietCost` calls. Life cycle: the first probe fails or is removed, the second
meets what it left, the third what the second left.

Deadlock is checked in the TX runs, where the system never stops. It is off in
the others, in which the bounded number of commands, events, frames, calls or
probes comes to an end; `dev_life` also stops at a fault.

Fairness. `TxPath`: the RPU reports every TX command it was given, and a
`start_xmit` in progress continues. The first is the firmware's contract
(`nrf_wifi_fmac_tx_done_event_process` is its only answer), the second holds
because the code between look-up and lock does not block. Nothing is assumed
about new frames or stations: it is the point of `tx_live` that no later packet
is needed. The formula is weak fairness of both actions with their guards
written out, because evaluating ENABLED is slow.

`HalCmd`: a lock holder keeps running (it does not sleep), `lock_hal` is fair to
its waiters (strong fairness of `Lock`; the kernel's spinlocks are queued), and
the RPU answers its doorbell and empties its queue. `HalEvent`: the RPU posts
what it has started when it has a buffer, a pending interrupt is delivered, a
scheduled tasklet runs; the tasklet's dequeue is strongly fair because the
handler takes `lock_rx` again and again. No fairness makes a lost interrupt come
back: it breaks the channel. `RxPath`: the start of the driver
continues, the RPU executes its INIT command and reports what it received,
scheduled tasklets run. That the RPU receives frames is not assumed.

`Mlme`: the caller goes on after the command was sent (`ScanStarted`), the event
tasklet runs, the RPU works off its commands and ends every scan it began.
`FmacDev`: the thread of a probe or a remove goes on, the tasklet runs once it is
scheduled, and `tasklet_kill`, which looks again each time, takes the first
chance (strong fairness, because an RPU that is not stopped may raise interrupts
for ever). `VifControl`, `Stations` and `MCSettings` assume none and claim none:
every wait in them has a bound in the code, and its end is a step of the model.

`EveryFrameFreed` has a condition, that the voice traffic pauses: VO frames may
take the spare token for ever, while a BK frame that was held back waits although
its own token is idle. Strict priority is intended. Other properties name their
conditions the same way: `AnswersMatch` and `TypesAgree` except interfaces on which a wait
gave up (`late`), `KeysInPlace` entries that were freed with a key in them (`cut`),
`PeersMatch` a `stop_ap` that could not be sent (`unstopped`), `ConnectedIsTrue` an
assoc that overtakes the answer to another (`overlap`), `ScanEnds` a scan whose end
comes before `n_scan_req` is set (`missed`), `SuccessIsOwn` a late answer (`late`). Each of
these conditions is a history variable that is set by the one step that makes
it true, and each names something the code does not keep.
`KeysInPlace` also excepts cells that a management group key and an ordinary key
both claim: indices 4 and 5 lie past the entry's cells, and whichever key was
written last has them. `TxChannelPaired` lists what the checks of `tx=` let
through, the pairs of the band and those that do not exist.
`FaultsAreKnown` lists, for the actors `FmacDev` has, the phases in which one uses
something that is not held, each of which TLC reaches; for these actors there is no other.
In particular a bound device is safe, and nothing is given back twice. The
actors are insmod and rmmod, probe and remove, the interrupt handler and the tasklet,
`ndo_open`, `ndo_stop` and `start_xmit` of the default interface,
`set_wiphy_params` and the debug file `conf`. Operations that find a device by other
ways are not among them: an interface that a user adds, and what an operation that
began before remove still uses while it waits.

### Findings

* `conf_race`: `'tx_pkt_rate' & 'tx_pkt_mcs' cannot be set simultaneously`
  (dbgfs_wlan_fmac_conf.c:2729). The test that the other one is unset is made
  before the command is sent and the value stored after it, and writers of the
  file share no lock: two of them can set both.

### Divergences met while modelling

These are in the models as the code has them; the properties above are stated
around them and no run is devoted to them.

* Spare tokens are given to the multicast category as well (tx.c:255), whose bit
  lies in the next token's nibble (comment in `fmac_tx.h`). `tx_tokens` and the
  token theorems leave group frames out for this reason.
* The queues and the bitmap of a slot of the peer table outlive the station
  (fmac_peer.c:112); frames for the old station are counted with the new one's.
* The status of a control command is that of its last fragment
  (hal_api.c:1254): it can be reported as sent with a fragment missing.
* After a failed allocation in the interrupt handler the second fragment of an
  event is taken for a header (hal_interrupt.c:310).
* The removal of the device frees the RX tables before it kills the tasklet that
  uses them, and does not tell the RPU to stop (fmac_api.c:378).
* A second interface cannot be added (fmac_api.c:2282, see VifControl).
* A wildcard before a named SSID in a scan request makes the last named ones
  drop out (cfg80211_if.c:1006); the lists of `mlme` have wildcards last.
* The entry for a group key that does not exist is copied from address NULL in
  `Stations` (`fault`); the cipher types of an entry stay invalid after the
  first `del_key` (fmac_api.c:1435).
* A group key of index 4 or 5 is written at that index times the size of a key
  (fmac_api.c:1219, 1226), past the entry's four: a MIC key of index 4 lies on
  group key 0 of the same entry, another key of index 4 on the next entry's
  pairwise key (`Overrun`).
* `tx=1` accepts 40 MHz on channels that are the primary of no pair
  (dbgfs_wlan_fmac_conf.c:347), with any secondary but for 14; and
  `check_valid_channel` takes an unsigned char, so the channel that is stored may have
  more bits than the one that was checked (line 2385).
* The wiphy is registered before anything its operations use
  (cfg80211_if.c:2983), and it and the debug files stay after a failed start, when
  `def_vif_ctx` points to freed memory (main.c:945, 1026).
* The RPU is never stopped: it runs on after remove and into the next probe.
  The tasklet and the locks are freed, and the registers unmapped, before the
  interrupt is (hal_api.c:1882); a tasklet may be freed while it is scheduled. A
  start that fails keeps everything but the net device; `pdev` stays set after
  a failed probe, so no later one can succeed (lnx_shim.c:849).

Further weak points of the code that no model reaches, because the step is one
access or one allocation without an interleaving of interest: a TX-done event
whose descriptor equals `num_tx_tokens` passes the test (tx.c:1050); each poll
and wake-up appends a peer to `wakeup_client_q` again (fmac_ap.c:63, the model
bounds it by `MaxWakeup`); an event for an interface without a context
(event.c:66) and the second free in `vif_clear_ctx` (fmac_vif.c:114) are the
faults of `VifControl`.

## 4. Proofs

All proofs are checked by tlapm, from the named assumptions on the constants of
each module, for all values that satisfy them. A theorem that needs more says so in its
`ASSUME`. Unless a line says otherwise each is an invariant, `Spec => []P`, that follows from
an inductive one; the inductive invariants were checked by TLC on the instance
of the component's run before they were proved.

| Module | Theorem | Property |
|---|---|---|
| `TxPathProofs` | `TypeCorrect` | `FieldsOK` |
| | `TokensAccounted`, `NibblesName` (no group traffic) | `TokenAccounting`, `SpareNibbles` |
| | `TokensCarryBatches`, `FramesInCustody` (no failing access) | `BatchOnToken`, `FrameCustody` |
| | `TrafficIsAdvertised` (no failing access, no station leaves) | `PendBmpAccurate` |
| | `NothingIsStranded` (no failing access, no group traffic, and no access point or no station that leaves) | `NoStrandedFrames` |
| | `DozingFramesHeld` | `DozingHeld`, an action property |
| | `TxPathIsService` (no failing access, no group traffic) | `ImplementsService`, the refinement of `TxService` |
| `HalCmdProofs` | `HalTypeCorrect`, `NoWriteToAddressZero`, `NoPostUnannounced`, `NoBufferLost` | `TypeOK`, `BufferWhenWriting` (no run checks it), `DoorbellCovers`, `BuffersAccounted` |
| | `QueueBelongsToHolder`, `RpuReadsInOrder` | `QueueIsOfThisCall`, `FragmentsInOrder`, both while no allocation has failed |
| | `CommandPathIsChannel` | the initial states and the steps of `OrderedChannel` |
| `HalEventProofs` | `EventTypeCorrect`, `NoEventBufferLost`, `NoEventLeftBehind`, `FmacGetsEventsInOrder` | `TypeOK`, `BuffersKept`, `NoEventForgotten`, `EventsInOrder` |
| | `EventPathIsChannel` | the initial states and the steps of `OrderedChannel` |
| `RxPathProofs` | `RxTypeCorrect`, `DescriptorsAreKept`, `BuffersAreOwned`, `FramesStayInOrder`, `StopsClean` | `TypeOK`, `DescriptorsKept`, `BuffersOwned`, `FramesInOrder`, `CleanStop` |
| | `RxPathIsChannel` | the initial states and the steps of `OrderedChannel` |
| `VifControlProofs` | `InterfaceTypeCorrect`, `InterfacesAreHeld`, `WaitsGetTheirAnswer`, `InterfaceTypesAgree` | `TypeOK`, `InterfacesHeld`, `AnswersMatch`, `TypesAgree` |
| `MlmeProofs` | `MlmeTypeCorrect`, `ScansAreAsAsked`, `StatusesMatchCookies`, `ConnectionIsTrue` | `TypeOK`, `ScansAsAsked`, `CookiesMatch`, `ConnectedIsTrue` |
| `StationsProofs` | `StationTypeCorrect`, `OneEntryForEach`, `KeysStayInPlace` (but for keys that overrun an entry), `PeersAreStations` | `TypeOK`, `OneEntryPerPeer`, `KeysInPlace`, `PeersMatch` |
| `SettingsProofs` | `AnswersBelong` (one reader) | `AnswersAreOwn` |
| | `FileIsTruthful` (one writer) | `ShownIsTold` |
| | `SuccessIsEarned`, `RadioIsAsTold` (one writer) | `SuccessIsOwn`, `RadioTold` |

### The TX path

`ConstantsOK` asks for at least five tokens, at most four spare ones, an
unsigned int that holds the number of tokens, and frames of positive size.

`FieldsOK` is inductive as it stands; each operator has a lemma that it keeps the
type (`...Typed`), and `NextTyped` puts them together action by action.

`TokenAccounting` is not inductive alone: a TX-done computes the category from
the nibble. `TokenInv` adds to the types that the nibble of a busy spare token
names exactly one category and that of a free one none (`Marked`), that the
counters are the cardinalities of the sets of tokens of each category
(`Counted`), that the RPU holds busy tokens only, and that calls in progress
carry unicast categories. Each operator either leaves the tokens alone or moves
exactly one token between categories (`DescTakeSound`, `DescFreeSound`,
`ReassignSound`). The proof covers departures, power save and failing accesses
at once. The assumption about group traffic is needed (first of the divergences
of section 3).

`FramesInv` is the invariant of the frames: `FieldsOK`, `Good(tx)` and
`CallsApart`. `Good` says that what a token carries fits what the token is
(`AllFit`: a free one is blank, one in the RPU has a mapped batch of one
category and one receiver) and that no frame is in two places (`Once`);
`CallsApart` that the frames of the calls in progress are in none of them.
`BatchOnToken` is part of it because a batch overwrites the list of its token,
which must be empty for no frame to be lost. `HalMayFail = FALSE` is what the Linux driver is
built with; where accesses fail, the code leaks frames. `Exact` relates the
bitmap of each station to its queues; a slot that is taken again inherits them
(second divergence), which is why no station may leave there. `Attended` says
that each category with frames that may go has a token in the RPU, whose return will fetch
them, in every state and not only between two calls. It fails when a dozing station leaves an
access point: its slot loses the doze flag, its frames wait for the next token of their
category, and none need come. The proof found this condition.

`DozingHeld` needs no more than the types. `Spends` says of a handler that no slot
gains a power-save token and that a dozing slot whose queues lose a frame loses a token;
it composes, every operator below the handlers has it, and
only the requests for frames set a token count. It holds with group
traffic, departures and failing accesses.

For the refinement, each operator is shown to be a composition of the few things
a handler can do to what `TxService` sees (`Seen`): it gives up a token's load,
loads one token of its category and ships it (`Ships`), or queues one frame
(`Boards`); each action of `TxPath` then is one of `TxService` or a stutter.

### The HAL

`HalInv` has, beyond the properties: `LockInv` (the lock holder is the only
caller in the critical section), `CallInv` (what the place of a caller says of
what it sends), `DescInv` (a TX descriptor is in one place; this rests on the
guard of `Call`, that the FMAC sends a descriptor again only after it
completed), `TurnInv` and `NumberInv` (which calls the fragments belong to), and
`OrderInv`. Of the properties only `DoorbellCovers` is inductive with the types
alone. The order in which the RPU reads says nothing of what is still on its
way, so `OrderInv` states it for each part of the way (read, posted, in the hand
of the lock holder, on `cmd_q`) and between each two parts; every step moves one
fragment from one part to the next, and `QuietStep` covers the steps that move
none. A new call comes after all earlier ones because `cmd_q` is empty when a
call gets the lock (`QueueInv`), which is what a failed allocation breaks.

The refinement of `OrderedChannel` looks at the parts of the way as one sequence,
`Stream`. While nothing fails a step leaves it as it is or adds a whole command at its end
(`StreamStep`), so it consists of the accepted commands (`Carries`): neighbours
follow one another, and the k-th end of a command in it is that of the k-th accepted one.
What the RPU has read begins the stream, and what comes out of a
beginning is a beginning of what was accepted (`PrefixCommands`). That the k-th end exists is
part of the invariant (`Matched`): it would take an induction to get it from the count of
the ends. `CountInv` bounds the numbers of calls by counting those that wait
for the lock. TLC checked `StreamInv` and `CountInv` on the instance of `cmd_path`.

`EventInv` is the conjunction of `NextInv` (the RPU writes no more fragments than
the event has), `AddrInv` (each address is in flight once, and a free buffer is
not), `CountInv` (what was posted has been taken or waits in the busy queue),
`NoEventForgotten`, `StreamInv` (fragments follow one another in each part of the way), `OrderInv` (and every part is ahead
of the part behind it), and `UnfailedInv`, which holds until an allocation fails: the events are
whole, the assembly buffer has the fragments before the next one, a dequeued
event covers those it was made of. The channel's `sent` and `delivered` are the
events the RPU started and the FMAC got; that each is delivered in order and once is
`UnfailedInv` and `OrderInv` together.

### The RX path

`RxInv` has eleven parts. `QuietInv` says what is idle before the RPU is on and
after it is stopped; `PipeInv` that the descriptors under way from the RPU to
the tasklet are sorted by receipt (`Precedes`) and differ; `UnknownInv`, `LostInv` what
an event of unknown type and a failed allocation leave behind; `MapInv` and
`AgreeInv` that both maps and the RPU's own notion of a buffer agree wherever
none of these happened; `OwnInv` that no buffer has two owners; `CleanInv` how far a stop has
come; `FrameInv` and `UnfailedInv` the order and completeness of the frames.
The removal needs the invariant to speak of each of its loops' indices.

### Interfaces, MLME, stations

`VifControl`: `HeldInv` = types, `QueueInv`, `CallInv`, `SlotInv`,
`ContextInv`, `LimitInv`, `DriverTypes` and `CountsMatch` is inductive by itself
and gives `InterfacesHeld`. `IInv` adds `ChangeInv` and `SwitchInv`, which say for
a wait that no answer or command of its kind but its own is under way on an
interface where no wait gave up, and `RpuTypes`, which follows the
type of the RPU's interface through the commands still queued.

`Mlme`: `RequestInv` and `OneScan` (while cfg80211 waits there is at most one of
the command, the scan and its last event; when it does not, none) give
`ScansAsAsked`. `FrameInv` and `ReportInv` say that frames queued and sent, events and
reports carry cookies of the call that issued them. `ConnectInv` relates cfg80211's
connection, the peer of the driver and the RPU's through everything queued
between them, `PeerInv` and `AddressInv` the frames to it.

`Stations`: `OneEntryPerPeer` needs that the entries of waiting commands are
their stations' (`OwnedInv`). For `KeysInPlace` the keys that count are the
installed ones and those on their way that nothing queued behind deletes
(`LiveIn`), and each is held by a valid entry (`Held`), in whose cells lies the key or
one of the other kind of index that overran them; `PlacesApart` is the lemma that keys of
one kind never share a cell. `PeersMatch` compares two
tables between which events wait: `PeerInv` carries the history of
the RPU's set of stations before each waiting event. Proving `KeysInPlace` showed that the
history variable `cut` missed a case, which TLC's instance was too small for;
the model was corrected.

### Settings and radio test

Both builds of the file `conf` send numbered commands down one queue and get
answers up another; `Line` says that numbers ascend along both, and the lemmas about
it are shared. The theorems assume one writer of the file, or one reader of the
statistics: the code has no lock that would order two, and the run `conf_race` shows
what two writers do. cfg80211's calls are not restricted.

`AnswerInv` adds to the types and the line (`LineInv`) that the answers to
get_station, returned, stored and under way, ascend and are not younger than the last
question (`StationInv`), and that a request for statistics that is open has one
query under way, that of the reader who waits (`StatsInv`). `ShownInv`
compares what the RPU was told not with the file but with the file as it will be
when the write under way ends (`After`): the RPU is told before the field is
stored. `StatusInv` numbers the commands (`NumberInv`) and says, until an answer
is late, that a radio command under way is the waiting writer's (`CmdInv`), an RF
test under way is the one waited for (`TestInv`), the two do not share a number
(`ApartInv`) and an event reports what was executed (`DoneInv`). `RadioInv`
adds what the file may hold (`FileInv`), that what is on was told to be, on a channel pair
that the checks let through (`OnInv`, `CheckedIsPaired`), and, until an answer is late, that commands under way
carry what the file shows and executed ones made it so (`MatchInv`).

### Recurring arguments

A statement about "the first", "the next" or "the least" needs induction over
Nat. The library's induction theorems cannot be cited for an operator, but for
a set of numbers they need not be: `MinByOrder` (or `LeastExists`) takes a least element with
`WFMin` and `NatLessThanWellFounded`. Sorted sequences are handled by lemmas on
their sets of elements under Append and Tail, cited wherever a queue moves.

### Only model-checked

* Liveness: fairness and ENABLED are beyond the prover.
* The typing of `wakeup` in `TxPath`: `Remove` is defined by SelectSeq.
* `HeldWhole` and `FaultsAreKnown` of `FmacDev`. What each step undoes is
  computed from concrete lists with Reverse and SelectSeq, which only TLC evaluates. Little
  is lost: the constants are the bounds on probes and on failures, and apart from
  these the states are finite.

## 5. Plan

Every module of the driver's own logic is there, and for each component
but the life cycle there is a theorem for each of its invariants. The four refinements are
proved as well, those of `OrderedChannel` but for its fairness. What could come
next: the TX theorems for a build in which accesses fail (with the frames that leak
named), and the parts of section 6 if the driver starts to use them.

## 6. Not modelled

* HAL power save (`CONFIG_NRF_WIFI_LOW_POWER`), the QSPI and SPI buses, the TX and
  RX work queues, `SOFT_HPQM`, `CMD_RX_BUFF`, P2P and remain-on-channel: not
  compiled into, or not sent by, the Linux driver.
* HAL memory and register access, address translation, the layout of packet RAM:
  without a state of their own. Reads and writes of RPU memory at valid
  addresses succeed: without low-power mode they have no way to fail.
* Firmware images: the patch loader is not compiled, the hex loader is a step of
  `FmacDev` that may fail; the polls of the boot are steps with a bounded wait.
* Printing and parsing of the debug files beyond the checks of `conf`, the tables of
  capabilities, statistics as numbers, and the layout of commands, whose fields
  have no state in the driver; the parameters of `conf` in DEBUG builds, which
  do not compile.
* `INLINE_RX`, which is off in `Makefile.wezen`: neither the mapping of the host's RX
  memory, whose failure is not checked (hal_api.c:2321), nor the addresses taken from it.
* Lengths of events and buffers: whether an event is as long as its type needs
  is not state of the driver, and the models take the RPU's events for well formed.
* `tx_init` and `tx_deinit` in detail: they are steps of `FmacDev`.
* The OS primitives, which are taken to do what their names say: spin locks are
  atomic steps or the lock of `HalCmd`, tasklets and work items are scheduled flags,
  lists and queues are sequences.
