------------------------------- MODULE RxPath -------------------------------
(***************************************************************************)
(* The RX path (fw_if/umac_if/src/rx.c, default/fmac_api.c, and the RX      *)
(* buffer map of hw_if/hal/src/hal_api.c).  Every RX descriptor has a slot  *)
(* in the packet RAM, grouped in pools.  init_rx gives each descriptor a    *)
(* network buffer (nwb), maps it and posts it; the RPU fills slots and      *)
(* reports them in RX events; for each descriptor of an event the event     *)
(* tasklet copies the frame out of its slot, hands the buffer to the stack  *)
(* and posts the descriptor again with a new buffer.  deinit_rx and         *)
(* hal_dev_rem take all this apart in process context, without a lock.      *)
(*                                                                          *)
(* Network buffers are numbered in the order of their allocation, frames in *)
(* the order in which the RPU receives them.  How a frame is converted to   *)
(* Ethernet is left out.                                                    *)
(***************************************************************************)
EXTENDS Naturals, Sequences, SequencesExt, FiniteSets

CONSTANTS NumPools,      \* MAX_NUM_OF_RX_QUEUES
          NumBufs,       \* number of buffers of each pool
          MaxPkts,       \* most frames of one RX event
          MaxFrames,     \* bound: frames received
          MaxAllocFails, \* bound: allocations that fail
          MaxUnknown,    \* bound: events of a type the driver does not know
          MayStop        \* the driver may be removed, its start may time out

ASSUME PoolAssumption == /\ NumPools \in Nat \ {0}
                         /\ NumBufs \in [0..(NumPools - 1) -> Nat]
ASSUME BoundAssumption == /\ MaxPkts \in Nat \ {0}
                          /\ MaxFrames \in Nat
                          /\ MaxAllocFails \in Nat
                          /\ MaxUnknown \in Nat
                          /\ MayStop \in BOOLEAN

Pool == 0..(NumPools - 1)

(* The slots of all the pools: pool, and number in the pool. *)
Slot == UNION {{p} \X (0..(NumBufs[p] - 1)) : p \in Pool}

(* The first descriptor of each pool is the number of slots in the pools    *)
(* before it; that of a pool past the last one is num_rx_bufs.              *)
rx_desc == [p \in 0..NumPools |-> Cardinality({s \in Slot : s[1] < p})]

num_rx_bufs == rx_desc[NumPools]
Desc == 0..(num_rx_bufs - 1)

(* nrf_wifi_fmac_map_desc_to_pool: the pool of a descriptor and its number  *)
(* in the pool.                                                             *)
InPool(d, p) == rx_desc[p] <= d /\ d < rx_desc[p] + NumBufs[p]
MapDescToPool(d) == LET p == CHOOSE q \in Pool : InPool(d, q)
                    IN  <<p, d - rx_desc[p]>>

NoBuf == 0
Info == [nwb : Nat, mapped : BOOLEAN]
Unmapped == [nwb |-> NoBuf, mapped |-> FALSE]

VARIABLES
  dev,          \* where the start or the removal of the driver is
  di,           \* descriptor it works on
  rx_buf_info,  \* fmac: buffer of each descriptor
  info,         \* rx_buf_info is "none", "allocated" or "freed"
  hal_map,      \* hal: buffer mapped to each slot, or NoBuf
  hal,          \* the tables of hal_map are allocated
  slot,         \* the frame in each slot of the packet RAM
  data,         \* the frame in each network buffer
  live,         \* network buffers allocated and not freed
  stack,        \* network buffers handed to the network stack
  nwbs,         \* network buffers allocated so far
  posted,       \* rx_buf_busy_queue of each pool
  filled,       \* descriptors the RPU has filled and not reported
  event_q,      \* RX events on their way to the tasklet
  rpu,          \* the INIT command: not sent, sent, executed by the RPU
  frames,       \* frames received so far
  reported,     \* data frames reported so far
  tpc,          \* where the tasklet is
  todo,         \* the event it works on: type, and descriptors left
  nwb,          \* its local variable
  delivered,    \* frames handed to the stack
  allocFails, unknown,
  late          \* the tasklet has run beside the removal of the driver

devVars == <<dev, di>>
mapVars == <<rx_buf_info, info, hal_map, hal>>
bufVars == <<data, live, stack, nwbs>>
rpuVars == <<filled, rpu, frames, reported, unknown>>
taskletVars == <<tpc, todo, nwb, delivered>>
vars == <<devVars, mapVars, slot, bufVars, posted, event_q, rpuVars,
          taskletVars, allocFails, late>>

Starting == {"down", "init", "wait"}
Stopping == {"check", "unmap", "free", "rem", "kill", "gone"}

TypeOK ==
  /\ dev \in Starting \cup {"up"} \cup Stopping
  /\ di \in 0..num_rx_bufs
  /\ rx_buf_info \in [Desc -> Info]
  /\ info \in {"none", "allocated", "freed"}
  /\ hal_map \in [Slot -> Nat]
  /\ hal \in BOOLEAN
  /\ slot \in [Slot -> 0..MaxFrames]
  /\ data \in Seq(0..MaxFrames)
  /\ live \subseteq 1..nwbs
  /\ stack \subseteq 1..nwbs
  /\ nwbs = Len(data)
  /\ posted \in [Pool -> Seq(Desc)]
  /\ \A p \in Pool : \A d \in ToSet(posted[p]) : InPool(d, p)
  /\ filled \in Seq(Desc)
  /\ event_q \in Seq([type : {"data", "beacon", "unknown"}, descs : Seq(Desc)])
  /\ rpu \in {"off", "told", "on"}
  /\ frames \in 0..MaxFrames
  /\ reported \in Seq(1..MaxFrames)
  /\ tpc \in {"off", "unmap", "clear", "deliver", "check", "map", "set", "post"}
  /\ todo \in [type : {"data", "beacon", "unknown"}, descs : Seq(Desc)]
  /\ nwb \in 0..nwbs
  /\ delivered \in Seq(0..MaxFrames)
  /\ allocFails \in 0..MaxAllocFails
  /\ unknown \in 0..MaxUnknown
  /\ late \in BOOLEAN

Init ==
  /\ dev = "down"
  /\ di = 0
  /\ rx_buf_info = [d \in Desc |-> Unmapped]
  /\ info = "none"
  /\ hal_map = [s \in Slot |-> NoBuf]
  /\ hal = TRUE
  /\ slot = [s \in Slot |-> 0]
  /\ data = <<>>
  /\ live = {}
  /\ stack = {}
  /\ nwbs = 0
  /\ posted = [p \in Pool |-> <<>>]
  /\ filled = <<>>
  /\ event_q = <<>>
  /\ rpu = "off"
  /\ frames = 0
  /\ reported = <<>>
  /\ tpc = "off"
  /\ todo = [type |-> "data", descs |-> <<>>]
  /\ nwb = NoBuf
  /\ delivered = <<>>
  /\ allocFails = 0
  /\ unknown = 0
  /\ late = FALSE
-----------------------------------------------------------------------------
(* The pieces of nrf_wifi_fmac_rx_cmd_send(INIT). *)

(* nrf_wifi_osal_nbuf_alloc: a buffer that was never used before.           *)
AllocBuf == /\ nwbs' = nwbs + 1
            /\ live' = live \cup {nwbs + 1}
            /\ data' = Append(data, 0)

(* nrf_wifi_hal_buf_map_rx: a slot that is mapped already keeps its buffer, *)
(* and that counts as success.                                              *)
Mapped(d, b) == LET s == MapDescToPool(d)
                IN  IF hal_map[s] = NoBuf THEN [hal_map EXCEPT ![s] = b]
                    ELSE hal_map

(* nrf_wifi_hal_data_cmd_send for an RX buffer (see HalCmd).                *)
Post(d) == posted' = [posted EXCEPT ![MapDescToPool(d)[1]] = Append(@, d)]

Fail == allocFails < MaxAllocFails /\ allocFails' = allocFails + 1
-----------------------------------------------------------------------------
(* nrf_wifi_fmac_init_rx: rx_buf_info is allocated, cleared.                *)
InitRx ==
  /\ dev = "down"
  /\ dev' = "init"
  /\ di' = 0
  /\ info' = "allocated"
  /\ rx_buf_info' = [d \in Desc |-> Unmapped]
  /\ UNCHANGED <<hal_map, hal, slot, bufVars, posted, event_q, rpuVars,
                 taskletVars, allocFails, late>>

(* One turn of its loop, rx_cmd_send(INIT).  Nothing runs beside it: the    *)
(* RPU does not receive yet.                                                *)
InitDesc ==
  /\ dev = "init"
  /\ di < num_rx_bufs
  /\ AllocBuf
  /\ hal_map' = Mapped(di, nwbs + 1)
  /\ rx_buf_info' = [rx_buf_info EXCEPT ![di] = [nwb |-> nwbs + 1, mapped |-> TRUE]]
  /\ Post(di)
  /\ di' = di + 1
  /\ UNCHANGED <<dev, info, hal, slot, stack, event_q, rpuVars, taskletVars,
                 allocFails, late>>

(* Its end: nrf_wifi_fmac_fw_init sends the INIT command and waits.         *)
InitRxDone ==
  /\ dev = "init"
  /\ di = num_rx_bufs
  /\ dev' = "wait"
  /\ rpu' = "told"
  /\ UNCHANGED <<di, mapVars, slot, bufVars, posted, event_q, filled, frames,
                 reported, unknown, taskletVars, allocFails, late>>

(* An allocation of nrf_wifi_fmac_init_rx fails.  fw_init frees what is for *)
(* TX, and the caller removes the device.                                   *)
InitRxFail ==
  /\ dev = "down" \/ (dev = "init" /\ di < num_rx_bufs)
  /\ Fail
  /\ dev' = "rem"
  /\ UNCHANGED <<di, mapVars, slot, bufVars, posted, event_q, rpuVars,
                 taskletVars, late>>

(* The RPU executes the INIT command, however late.                         *)
RpuInit ==
  /\ rpu = "told"
  /\ dev # "gone"
  /\ rpu' = "on"
  /\ UNCHANGED <<devVars, mapVars, slot, bufVars, posted, event_q, filled,
                 frames, reported, unknown, taskletVars, allocFails, late>>

(* nrf_wifi_fmac_fw_init saw fw_init_done.                                  *)
InitDone ==
  /\ dev = "wait"
  /\ rpu = "on"
  /\ dev' = "up"
  /\ UNCHANGED <<di, mapVars, slot, bufVars, posted, event_q, rpuVars,
                 taskletVars, allocFails, late>>

(* Mutant: the descriptor counter is not reset. *)
StopNoReset ==
  /\ MayStop
  /\ dev \in {"wait", "up"}
  /\ dev' = "check"
  /\ di' = di
  /\ late' = (late \/ tpc # "off")
  /\ UNCHANGED <<mapVars, slot, bufVars, posted, event_q, rpuVars,
                 taskletVars, allocFails>>

(* fw_init gives up after MAX_INIT_WAIT, or the driver is removed: both go  *)
(* to nrf_wifi_fmac_deinit_rx.                                              *)
Stop ==
  /\ MayStop
  /\ dev \in {"wait", "up"}
  /\ dev' = "check"
  /\ di' = 0
  /\ late' = (late \/ tpc # "off")
  /\ UNCHANGED <<mapVars, slot, bufVars, posted, event_q, rpuVars,
                 taskletVars, allocFails>>
-----------------------------------------------------------------------------
(* nrf_wifi_fmac_deinit_rx, one turn of its loop: rx_cmd_send(DEINIT) in    *)
(* three steps.  A descriptor that is not mapped ends the loop.             *)
DeinitCheck ==
  /\ dev = "check"
  /\ di < num_rx_bufs
  /\ dev' = IF rx_buf_info[di].mapped THEN "unmap" ELSE "rem"
  /\ UNCHANGED <<di, mapVars, slot, bufVars, posted, event_q, rpuVars,
                 taskletVars, allocFails, late>>

(* nrf_wifi_hal_buf_unmap_rx.  If it finds nothing mapped, status is still  *)
(* the success of map_desc_to_pool and the loop goes on.                    *)
DeinitUnmap ==
  /\ dev = "unmap"
  /\ IF hal_map[MapDescToPool(di)] = NoBuf
     THEN dev' = "check" /\ di' = di + 1
     ELSE dev' = "free" /\ di' = di
  /\ hal_map' = [hal_map EXCEPT ![MapDescToPool(di)] = NoBuf]
  /\ UNCHANGED <<rx_buf_info, info, hal, slot, bufVars, posted, event_q,
                 rpuVars, taskletVars, allocFails, late>>

DeinitFree ==
  /\ dev = "free"
  /\ live' = live \ {rx_buf_info[di].nwb}
  /\ rx_buf_info' = [rx_buf_info EXCEPT ![di] = Unmapped]
  /\ dev' = "check"
  /\ di' = di + 1
  /\ UNCHANGED <<info, hal_map, hal, slot, data, stack, nwbs, posted, event_q,
                 rpuVars, taskletVars, allocFails, late>>

(* The end of deinit_rx: rx_buf_info is freed.                              *)
DeinitRxDone ==
  /\ dev = "check"
  /\ di = num_rx_bufs
  /\ info' = "freed"
  /\ dev' = "rem"
  /\ UNCHANGED <<di, rx_buf_info, hal_map, hal, slot, bufVars, posted, event_q,
                 rpuVars, taskletVars, allocFails, late>>

(* nrf_wifi_hal_dev_rem frees the tables of the RX map ...                  *)
HalMapFree ==
  /\ dev = "rem"
  /\ hal' = FALSE
  /\ dev' = "kill"
  /\ UNCHANGED <<di, rx_buf_info, info, hal_map, slot, bufVars, posted,
                 event_q, rpuVars, taskletVars, allocFails, late>>

(* ... and then waits for the tasklet and kills it.                         *)
TaskletKill ==
  /\ dev = "kill"
  /\ tpc = "off"
  /\ dev' = "gone"
  /\ UNCHANGED <<di, mapVars, slot, bufVars, posted, event_q, rpuVars,
                 taskletVars, allocFails, late>>
-----------------------------------------------------------------------------
(* The RPU receives a frame into the oldest slot of a pool ...              *)
RpuRx(p) ==
  /\ rpu = "on"
  /\ dev # "gone"
  /\ frames < MaxFrames
  /\ posted[p] # <<>>
  /\ frames' = frames + 1
  /\ slot' = [slot EXCEPT ![MapDescToPool(Head(posted[p]))] = frames + 1]
  /\ filled' = Append(filled, Head(posted[p]))
  /\ posted' = [posted EXCEPT ![p] = Tail(@)]
  /\ UNCHANGED <<devVars, mapVars, bufVars, event_q, rpu, reported, unknown,
                 taskletVars, allocFails, late>>

(* ... and reports the oldest ones in an event of one type.                 *)
RpuReport ==
  /\ filled # <<>>
  /\ \E n \in 1..(IF Len(filled) < MaxPkts THEN Len(filled) ELSE MaxPkts) :
     \E t \in {"data", "beacon", "unknown"} :
        LET ds == SubSeq(filled, 1, n)
        IN  /\ t = "unknown" => unknown < MaxUnknown
            /\ unknown' = IF t = "unknown" THEN unknown + 1 ELSE unknown
            /\ event_q' = Append(event_q, [type |-> t, descs |-> ds])
            /\ filled' = SubSeq(filled, n + 1, Len(filled))
            /\ reported' = IF t # "data" THEN reported
                           ELSE reported \o [i \in 1..n |-> slot[MapDescToPool(ds[i])]]
  /\ UNCHANGED <<devVars, mapVars, slot, bufVars, posted, rpu, frames,
                 taskletVars, allocFails, late>>
-----------------------------------------------------------------------------
(* nrf_wifi_fmac_rx_event_process, in the event tasklet.                    *)
Tasklet == <<devVars, event_q, rpuVars, late>>

cur == Head(todo.descs)

(* The loop ends, at the last descriptor or on an error.                    *)
Leave == tpc' = "off" /\ todo' = [todo EXCEPT !.descs = <<>>]

RxEvent ==
  /\ tpc = "off"
  /\ dev # "gone"
  /\ event_q # <<>>
  /\ todo' = Head(event_q)
  /\ event_q' = Tail(event_q)
  /\ tpc' = "unmap"
  /\ late' = (late \/ dev \in Stopping)
  /\ UNCHANGED <<devVars, mapVars, slot, bufVars, posted, rpuVars, nwb,
                 delivered, allocFails>>

(* Mutant: the HAL forgets to clear the entry of its map. *)
UnmapKeepsMap ==
  /\ tpc = "unmap"
  /\ hal
  /\ LET s == MapDescToPool(cur)
     IN  IF hal_map[s] = NoBuf
         THEN /\ Leave
              /\ UNCHANGED <<hal_map, data>>
         ELSE /\ data' = [data EXCEPT ![hal_map[s]] = slot[s]]
              /\ hal_map' = hal_map
              /\ tpc' = "clear"
              /\ UNCHANGED todo
  /\ UNCHANGED <<Tasklet, rx_buf_info, info, hal, slot, live, stack, nwbs,
                 posted, nwb, delivered, allocFails>>

(* nrf_wifi_hal_buf_unmap_rx copies the frame from the slot to the buffer   *)
(* the slot is mapped to.  A slot that is not mapped ends the event, with   *)
(* the success of map_desc_to_pool.                                         *)
RxUnmap ==
  /\ tpc = "unmap"
  /\ hal
  /\ LET s == MapDescToPool(cur)
     IN  IF hal_map[s] = NoBuf
         THEN /\ Leave
              /\ UNCHANGED <<hal_map, data>>
         ELSE /\ data' = [data EXCEPT ![hal_map[s]] = slot[s]]
              /\ hal_map' = [hal_map EXCEPT ![s] = NoBuf]
              /\ tpc' = "clear"
              /\ UNCHANGED todo
  /\ UNCHANGED <<Tasklet, rx_buf_info, info, hal, slot, live, stack, nwbs,
                 posted, nwb, delivered, allocFails>>

(* Mutant: only the flag is reset. *)
ClearKeepsBuffer ==
  /\ tpc = "clear"
  /\ info = "allocated"
  /\ nwb' = rx_buf_info[cur].nwb
  /\ rx_buf_info' = [rx_buf_info EXCEPT ![cur].mapped = FALSE]
  /\ tpc' = "deliver"
  /\ UNCHANGED <<Tasklet, info, hal_map, hal, slot, bufVars, posted, todo,
                 delivered, allocFails>>

(* The buffer is taken from rx_buf_info.                                    *)
RxClear ==
  /\ tpc = "clear"
  /\ info = "allocated"
  /\ nwb' = rx_buf_info[cur].nwb
  /\ rx_buf_info' = [rx_buf_info EXCEPT ![cur] = Unmapped]
  /\ tpc' = "deliver"
  /\ UNCHANGED <<Tasklet, info, hal_map, hal, slot, bufVars, posted, todo,
                 delivered, allocFails>>

(* rx_frm_callbk_fn: a data frame goes to the network stack.                *)
RxDeliver ==
  /\ tpc = "deliver"
  /\ todo.type = "data"
  /\ nwb # NoBuf
  /\ delivered' = Append(delivered, data[nwb])
  /\ stack' = stack \cup {nwb}
  /\ nwb' = NoBuf
  /\ tpc' = "check"
  /\ UNCHANGED <<Tasklet, mapVars, slot, data, live, nwbs, posted, todo,
                 allocFails>>

(* Mutant: the descriptor of a beacon is not posted again. *)
BeaconNotPosted ==
  /\ tpc = "deliver"
  /\ todo.type = "beacon"
  /\ nwb # NoBuf
  /\ live' = live \ {nwb}
  /\ nwb' = NoBuf
  /\ todo' = [todo EXCEPT !.descs = Tail(@)]
  /\ tpc' = IF Len(todo.descs) = 1 THEN "off" ELSE "unmap"
  /\ UNCHANGED <<Tasklet, mapVars, slot, data, stack, nwbs, posted,
                 delivered, allocFails>>

(* A beacon or a probe response has been looked at and is freed.            *)
RxBeacon ==
  /\ tpc = "deliver"
  /\ todo.type = "beacon"
  /\ nwb # NoBuf
  /\ live' = live \ {nwb}
  /\ nwb' = NoBuf
  /\ tpc' = "check"
  /\ UNCHANGED <<Tasklet, mapVars, slot, data, stack, nwbs, posted, todo,
                 delivered, allocFails>>

(* An event of another type fails, and the buffer is forgotten.             *)
RxUnknown ==
  /\ tpc = "deliver"
  /\ todo.type = "unknown"
  /\ nwb' = NoBuf
  /\ Leave
  /\ UNCHANGED <<Tasklet, mapVars, slot, bufVars, posted, delivered,
                 allocFails>>

(* rx_cmd_send(INIT): the descriptor must not be mapped, and gets a buffer. *)
RxAlloc ==
  /\ tpc = "check"
  /\ info = "allocated"
  /\ ~rx_buf_info[cur].mapped
  /\ AllocBuf
  /\ nwb' = nwbs + 1
  /\ tpc' = "map"
  /\ UNCHANGED <<Tasklet, mapVars, slot, stack, posted, todo, delivered,
                 allocFails>>

(* No buffer: the rest of the event is neither delivered nor posted again.  *)
RxAllocFail ==
  /\ tpc = "check"
  /\ Fail
  /\ Leave
  /\ UNCHANGED <<Tasklet, mapVars, slot, bufVars, posted, nwb, delivered>>

RxMap ==
  /\ tpc = "map"
  /\ hal
  /\ hal_map' = Mapped(cur, nwb)
  /\ tpc' = "set"
  /\ UNCHANGED <<Tasklet, rx_buf_info, info, hal, slot, bufVars, posted, todo,
                 nwb, delivered, allocFails>>

RxSet ==
  /\ tpc = "set"
  /\ info = "allocated"
  /\ rx_buf_info' = [rx_buf_info EXCEPT ![cur] = [nwb |-> nwb, mapped |-> TRUE]]
  /\ nwb' = NoBuf
  /\ tpc' = "post"
  /\ UNCHANGED <<Tasklet, info, hal_map, hal, slot, bufVars, posted, todo,
                 delivered, allocFails>>

(* Mutant: the rest of the event is skipped. *)
PostOnlyFirst ==
  /\ tpc = "post"
  /\ Post(cur)
  /\ todo' = [todo EXCEPT !.descs = <<>>]
  /\ tpc' = "off"
  /\ UNCHANGED <<Tasklet, mapVars, slot, bufVars, nwb, delivered, allocFails>>

(* The descriptor is posted; on to the next one.                            *)
RxPost ==
  /\ tpc = "post"
  /\ Post(cur)
  /\ todo' = [todo EXCEPT !.descs = Tail(@)]
  /\ tpc' = IF Len(todo.descs) = 1 THEN "off" ELSE "unmap"
  /\ UNCHANGED <<Tasklet, mapVars, slot, bufVars, nwb, delivered, allocFails>>
-----------------------------------------------------------------------------
DevNext == \/ InitRx \/ InitDesc \/ InitRxDone \/ InitRxFail \/ InitDone
           \/ Stop \/ DeinitCheck \/ DeinitUnmap \/ DeinitFree
           \/ DeinitRxDone \/ HalMapFree \/ TaskletKill

RxStep == \/ RxUnmap \/ RxClear \/ RxDeliver \/ RxBeacon \/ RxUnknown
          \/ RxAlloc \/ RxMap \/ RxSet \/ RxPost

RpuNext == RpuInit \/ RpuReport \/ \E p \in Pool : RpuRx(p)

Next == DevNext \/ RpuNext \/ RxEvent \/ RxStep \/ RxAllocFail

Spec == Init /\ [][Next]_vars

(* The start of the driver goes on, the RPU executes its INIT command and   *)
(* reports what it has received, scheduled tasklets run.                    *)
FairSpec == /\ Spec
            /\ WF_vars(InitRx \/ InitDesc \/ InitRxDone \/ InitDone)
            /\ WF_vars(RpuInit) /\ WF_vars(RpuReport)
            /\ WF_vars(RxEvent \/ RxStep)
-----------------------------------------------------------------------------
(* The queues a descriptor is in on its way round: that of its pool, the    *)
(* event the tasklet works on, the events before it, and what is filled and *)
(* not reported.                                                            *)
Queues ==
  [k \in 0..(NumPools + Len(event_q) + 1) |->
     CASE k < NumPools -> posted[k]
       [] k = NumPools -> todo.descs
       [] k > NumPools + Len(event_q) -> filled
       [] OTHER -> event_q[k - NumPools].descs]

Circulating == UNION {ToSet(Queues[k]) : k \in DOMAIN Queues}

NoneTwice ==
  \A k, l \in DOMAIN Queues : \A m \in DOMAIN Queues[k], n \in DOMAIN Queues[l] :
     Queues[k][m] = Queues[l][n] => k = l /\ m = n

(* Descriptors the tasklet is not changing right now. *)
Settled == Desc \ (IF tpc \in {"off", "unmap", "post"} THEN {} ELSE {cur})

(* The two maps, of rx.c and of the HAL, name the same buffer for each      *)
(* descriptor, and the RPU has only mapped ones: rx.c finds the buffer of a *)
(* frame in one map, the HAL copies the frame to that of the other.         *)
MapsAgree ==
  dev \in {"wait", "up"} =>
     \A d \in Settled :
        /\ rx_buf_info[d].nwb = hal_map[MapDescToPool(d)]
        /\ rx_buf_info[d].mapped = (rx_buf_info[d].nwb # NoBuf)
        /\ d \in Circulating => rx_buf_info[d].mapped

(* No descriptor is posted twice: the RPU would overwrite a slot that is    *)
(* still to be read.  None disappears unless an allocation fails or an      *)
(* event is unknown, and then only those of the event.  And each one that   *)
(* goes round has its one buffer in both maps.                              *)
DescriptorsKept ==
  /\ dev \in {"wait", "up"} =>
        /\ NoneTwice
        /\ Cardinality(Desc \ Circulating) <= (allocFails + unknown) * MaxPkts
  /\ MapsAgree

(* The buffers the driver has. *)
Owned == {rx_buf_info[d].nwb : d \in Desc} \cup {nwb}

(* Every network buffer is either the driver's or the stack's: the driver   *)
(* keeps none it gave away, none is freed that is in use, and one is leaked *)
(* at most for an event of an unknown type.                                 *)
BuffersOwned ==
  ~late =>
     /\ (Owned \ {NoBuf}) \subseteq live
     /\ Owned \cap stack = {}
     /\ stack \subseteq live
     /\ Cardinality(live \ (Owned \cup stack)) <= unknown

(* What the stack gets are the data frames in the order received, each at   *)
(* most once and never the content of another slot.                         *)
FramesInOrder ==
  /\ \A i, j \in 1..Len(delivered) : i < j => delivered[i] < delivered[j]
  /\ ToSet(delivered) \subseteq ToSet(reported)

(* A removal, or a start that timed out, leaves nothing behind when no      *)
(* frame is handled beside it and nothing has failed before.                *)
CleanStop ==
  dev = "gone" /\ ~late /\ allocFails = 0 /\ unknown = 0
     => live = stack /\ info = "freed"

(* An allocation has failed, an event was unknown, the driver is removed. *)
Failed == allocFails + unknown > 0 \/ dev \in Stopping

(* The RX path as an OrderedChannel of the data frames. *)
Channel == INSTANCE OrderedChannel
             WITH Message <- 1..MaxFrames,
                  accepted <- reported,
                  delivered <- delivered,
                  broken <- Failed

(* While nothing fails every data frame reported reaches the stack, in      *)
(* order.                                                                   *)
FramesReachStack == Channel!Spec
=============================================================================
