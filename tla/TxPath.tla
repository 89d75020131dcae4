------------------------------- MODULE TxPath -------------------------------
(***************************************************************************)
(* The transmit path of the UMAC interface layer: fw_if/umac_if/src/tx.c,  *)
(* fmac_ap.c and the peer table of fmac_peer.c.                            *)
(*                                                                         *)
(* A frame from the network stack waits in the queue of its peer and       *)
(* access category until a TX token (a descriptor) is available.  A token  *)
(* carries one batch of frames to the RPU and comes back with the TX-done  *)
(* event, when it either takes the next batch or is freed.  PerAc tokens   *)
(* are reserved for each access category; the remaining, spare, ones serve *)
(* any category and the driver remembers in a bit map which one.           *)
(*                                                                         *)
(* `tx' is struct tx_config, with the TX buffer map of the device context  *)
(* (mapped) and what the RPU has been told (in_rpu, rpu_bmp).  Every       *)
(* handler runs under tx_lock, so it is one step; the lookup of the peer   *)
(* in start_xmit and the maintenance of the peer table run without it.     *)
(***************************************************************************)
EXTENDS Integers, Sequences, FiniteSets, SequencesExt

CONSTANTS
    Frames,       \* network buffers the stack may hand to the driver
    Stations,     \* the unicast addresses frames are sent to
    Group,        \* stands for every group address
    None,         \* no station, no peer
    Vifs,         \* interfaces whose start_xmit may run concurrently
    PerAc,        \* num_tx_tokens_per_ac
    NumTokens,    \* num_tx_tokens
    MaxPeers,     \* MAX_PEERS
    MaxAggr,      \* max_tx_aggregation
    MaxQLen,      \* CONFIG_NRF700X_MAX_TX_PENDING_QLEN
    AvailLen,     \* avail_ampdu_len_per_token
    UintMod,      \* 2^32, the range of an unsigned int
    Dest,         \* Dest[f]: the station (or Group) frame f is addressed to
    Flow,         \* Flow[f]: the pair of MAC addresses in f's header
    Size,         \* Size[f]: TX_BUF_HEADROOM and the length of f
    Emergency,    \* frames of priority NRF_WIFI_AC_TWT_PRIORITY_EMERGENCY
    Legacy,       \* stations without aggregation
    TrafficAcs,   \* the categories the unicast frames of a run belong to
    ApVif,        \* the interface is an access point
    ApMode,       \* CONFIG_NRF700X_AP_MODE: power-save events are handled
    PeersLeave,   \* stations may disconnect
    HalMayFail,   \* an access to the RPU may fail (it cannot be woken up)
    MaxPsTokens,  \* bound of a run on the frames a service period asks for
    MaxWakeup     \* bound of a run on the length of wakeup_client_q

-----------------------------------------------------------------------------
(* enum nrf_wifi_fmac_ac and the layout of the token numbers.              *)

BK == 0
BE == 1
VI == 2
VO == 3
MC == 4
AC_MAX == 5
SPARE_DESC_Q_MAP_SIZE == 4

Unicast == BK .. VO
Acs == 0 .. AC_MAX - 1
Slots == 0 .. MaxPeers - 1          \* the peer slots of stations
SwPeers == 0 .. MaxPeers            \* and the one of group addressed frames
NumReserved == PerAc * AC_MAX
Tokens == 0 .. NumTokens - 1
Spare == NumReserved .. NumTokens - 1

ASSUME ConstantsOK ==
    /\ PerAc \in Nat \ {0}
    /\ NumTokens \in NumReserved .. NumReserved + AC_MAX - 1
    /\ MaxPeers \in Nat \ {0}
    /\ MaxAggr \in Nat \ {0}
    /\ MaxQLen \in Nat \ {0}
    /\ AvailLen \in Nat
    /\ UintMod \in Nat /\ UintMod > NumTokens
    /\ None \notin Stations /\ Group \notin Stations
    /\ None # Group
    /\ None \notin Frames /\ None \notin SwPeers
    /\ Dest \in [Frames -> Stations \cup {Group}]
    /\ Size \in [Frames -> Nat \ {0}]
    /\ TrafficAcs \subseteq Unicast
    /\ {ApVif, ApMode, PeersLeave, HalMayFail} \subseteq BOOLEAN
    /\ MaxPsTokens \in Nat /\ MaxWakeup \in Nat

(* What an access to the RPU may return during one handler. *)
Reachable == IF HalMayFail THEN BOOLEAN ELSE {TRUE}

VARIABLES
    tx,           \* struct tx_config
    xmit,         \* xmit[v]: the call of start_xmit in progress on vif v
    live          \* frames the driver was given and has not freed

vars == <<tx, xmit, live>>

Idle == [frame |-> None, peer |-> None, ac |-> None]

(* A slot of the peer table after memset and peer_id = -1. *)
NoPeer == [sta |-> None, ps |-> FALSE, tokens |-> 0, bmp |-> {}]

-----------------------------------------------------------------------------
(* Token bookkeeping.                                                      *)

(* The bit of the spare-token map for token d and category q. *)
SpareBit(d, q) == (d % NumReserved) * SPARE_DESC_Q_MAP_SIZE + q

(* The categories named by the four bits of token d. *)
SpareNibble(s, d) == {q \in Unicast : SpareBit(d, q) \in s.spare_map}

(* Mutant: the bit of a spare token is not cleared when it is freed. *)
DescFreeKeepsBit(s, d, q) ==
    IF d \notin s.busy
    THEN s
    ELSE [s EXCEPT !.busy = @ \ {d}, !.outstanding[q] = (@ - 1) % UintMod]

(* tx_desc_free: give token d, held by category q, back. *)
DescFree(s, d, q) ==
    IF d \notin s.busy
    THEN s
    ELSE [s EXCEPT !.busy = @ \ {d},
                   !.outstanding[q] = (@ - 1) % UintMod,
                   !.spare_map = IF d \in Spare THEN @ \ {SpareBit(d, q)} ELSE @]

(* The tokens tx_desc_get searches for category q: its own, else the spare. *)
Candidates(s, q) ==
    LET own == {d \in Tokens : d \notin Spare /\ d % AC_MAX = q} \ s.busy
    IN  IF own # {} THEN own ELSE Spare \ s.busy

IsFirstFree(s, q, d) ==
    d \in Candidates(s, q) /\ \A e \in Candidates(s, q) : d <= e

(* The token tx_desc_get returns, NumTokens when there is none. *)
DescPick(s, q) ==
    IF \E d \in Tokens : IsFirstFree(s, q, d)
    THEN CHOOSE d \in Tokens : IsFirstFree(s, q, d)
    ELSE NumTokens

(* The state in which tx_desc_get leaves the configuration. *)
DescTake(s, q, d) ==
    [s EXCEPT !.busy = @ \cup {d},
              !.outstanding[q] = (@ + 1) % UintMod,
              !.spare_map = IF d \in Spare THEN @ \cup {SpareBit(d, q)} ELSE @]

-----------------------------------------------------------------------------
(* Which peer is served next.                                              *)

HasPending(s, p, ac) == s.pending[p][ac] # <<>>

(* A peer in the wake-up queue with power-save tokens and frames. *)
CanWake(s, p, ac) == s.peers[p].tokens # 0 /\ HasPending(s, p, ac)

(* get_peer_from_wakeup_q: the first such peer in the queue. *)
IsFirstAwake(s, p, ac) ==
    \E i \in DOMAIN s.wakeup :
        /\ s.wakeup[i] = p
        /\ CanWake(s, p, ac)
        /\ \A j \in 1 .. i - 1 : ~ CanWake(s, s.wakeup[j], ac)

(* How far slot p is from the peer whose turn it is. *)
TurnsAway(s, p, ac) == (p - s.opp[ac] + MaxPeers) % MaxPeers

(* Mutant: the power-save state of the peer is ignored. *)
CanServeDozing(s, p, ac) == HasPending(s, p, ac)

CanServe(s, p, ac) == ~ s.peers[p].ps /\ HasPending(s, p, ac)

IsNextInTurn(s, p, ac) ==
    /\ CanServe(s, p, ac)
    /\ \A r \in Slots : CanServe(s, r, ac) =>
                            TurnsAway(s, p, ac) <= TurnsAway(s, r, ac)

(* Mutant: the turn does not move on. *)
TurnStays(p) == p

(* The peer whose turn is after that of p. *)
TurnAfter(p) == (p + 1) % MaxPeers

(* tx_curr_peer_opp_get: the peer, None when no peer has frames to send,   *)
(* and the configuration after the token or the turn has been consumed.    *)
PeerOpp(s, ac) ==
    CASE ac = MC -> [peer |-> MaxPeers, tx |-> s]
      [] ac # MC /\ \E p \in Slots : IsFirstAwake(s, p, ac) ->
            LET p == CHOOSE p \in Slots : IsFirstAwake(s, p, ac)
            IN  [peer |-> p, tx |-> [s EXCEPT !.peers[p].tokens = @ - 1]]
      [] ac # MC /\ ~ (\E p \in Slots : IsFirstAwake(s, p, ac))
                 /\ \E p \in Slots : IsNextInTurn(s, p, ac) ->
            LET p == CHOOSE p \in Slots : IsNextInTurn(s, p, ac)
            IN  [peer |-> p, tx |-> [s EXCEPT !.opp[ac] = TurnAfter(p)]]
      [] OTHER -> [peer |-> None, tx |-> s]

-----------------------------------------------------------------------------
(* Moving frames from a pending queue to a token.                          *)

(* Mutant: the bit of a queue that becomes empty stays set. *)
UpdateBmpSticks(s, ac, p, up) ==
    IF ApVif /\ p \in Slots /\ HasPending(s, p, ac)
    THEN LET bmp == s.peers[p].bmp \cup {ac}
         IN  [s EXCEPT !.peers[p].bmp = bmp,
                       !.rpu_bmp[p] = IF up THEN bmp ELSE @]
    ELSE s

(* update_pend_q_bmp: an access point tells the RPU whether the queue of   *)
(* the station is empty.                                                   *)
UpdateBmp(s, ac, p, up) ==
    IF ApVif /\ p \in Slots
    THEN LET bmp == IF HasPending(s, p, ac) THEN s.peers[p].bmp \cup {ac}
                                            ELSE s.peers[p].bmp \ {ac}
         IN  [s EXCEPT !.peers[p].bmp = bmp,
                       !.rpu_bmp[p] = IF up THEN bmp ELSE @]
    ELSE s

IsLegacy(s, p) == s.peers[p].sta \in Legacy

AmpduLen(q, n) == FoldLeft(LAMBDA len, f : len + Size[f], 0, SubSeq(q, 1, n))

(* The loop of _tx_pending_process takes at least the first n frames. *)
Aggregates(q, n) ==
    /\ n <= MaxAggr
    /\ AmpduLen(q, n) < AvailLen
    /\ \A i \in 1 .. n : Flow[q[i]] = Flow[q[1]]

IsBatch(q, n) == Aggregates(q, n) /\ (n = Len(q) \/ ~ Aggregates(q, n + 1))

(* Mutant: one frame too many joins the batch. *)
BatchLenPlusOne(q, legacy) ==
    IF ~ legacy /\ \E n \in 1 .. Len(q) - 1 : IsBatch(q, n)
    THEN 1 + CHOOSE n \in 1 .. Len(q) - 1 : IsBatch(q, n)
    ELSE Len(q)

(* How many frames leave the queue q of a peer: as many as aggregate, and  *)
(* one when not even the first does.                                       *)
BatchLen(q, legacy) ==
    IF ~ legacy /\ \E n \in 1 .. Len(q) : IsBatch(q, n)
    THEN CHOOSE n \in 1 .. Len(q) : IsBatch(q, n)
    ELSE 1

(* _tx_pending_process: fill token d with frames of category ac.  The      *)
(* token stays empty when no peer has any.                                 *)
PendingProcess(s, d, ac, up) ==
    LET o == PeerOpp(s, ac)
    IN  IF o.peer = None THEN s
        ELSE IF ~ HasPending(s, o.peer, ac) THEN s
        ELSE LET q == s.pending[o.peer][ac]
                 n == BatchLen(q, IsLegacy(s, o.peer))
             IN  UpdateBmp([o.tx EXCEPT
                              !.pending[o.peer][ac] = SubSeq(q, n + 1, Len(q)),
                              !.pkt[d] = SubSeq(q, 1, n),
                              !.pkt_peer[d] = o.peer], ac, o.peer, up)

(* tx_cmd_init, with tx_cmd_prepare and tx_cmd_prep_callbk_fn: map the     *)
(* frames of token d and hand the TX command to the RPU.  It fails when    *)
(* the buffers of the token are still mapped or the RPU is unreachable.    *)
CmdInit(s, d, up) ==
    LET p == s.pkt_peer[d]
        counted == [s EXCEPT !.coalesce[d] = Len(s.pkt[d])]
    IN  IF s.mapped[d] # 0
        THEN counted
        ELSE [counted EXCEPT
                !.mapped[d] = Len(s.pkt[d]),
                !.wakeup = IF s.peers[p].tokens = 0
                           THEN Remove(@, p) ELSE @,
                !.in_rpu = IF up THEN @ \cup {d} ELSE @]

CmdSent(s, d, up) == up /\ s.mapped[d] = 0

(* tx_pending_process, on a token just taken from the pool. *)
FillToken(s, d, ac, up) ==
    LET t == PendingProcess(s, d, ac, up)
    IN  IF t.pkt[d] # <<>> THEN CmdInit(t, d, up) ELSE DescFree(t, d, ac)

FillStatus(s, d, ac, up) ==
    LET t == PendingProcess(s, d, ac, up)
    IN  IF t.pkt[d] # <<>> /\ ~ CmdSent(t, d, up) THEN "fail" ELSE "success"

-----------------------------------------------------------------------------
(* nrf_wifi_fmac_tx.                                                       *)

(* The queueing part of tx_enqueue. *)
Enqueue(s, f, ac, p, up) ==
    UpdateBmp([s EXCEPT !.pending[p][ac] =
                   IF f \in Emergency THEN <<f>> \o @ ELSE Append(@, f)],
              ac, p, up)

(* tx_enqueue returns the status of the write of the bitmap. *)
EnqueueFails(p, up) == ApVif /\ p \in Slots /\ ~ up

(* Mutant: frames wait for others to aggregate with although no token is out. *)
HoldBackIdle(s, f, ac, p) ==
    LET q == s.pending[p][ac]
    IN  \/ s.peers[p].ps
        \/ Flow[f] = Flow[Head(q)] /\ Len(q) < MaxAggr

(* tx_process: the frame only waits, for its dozing peer, or for frames    *)
(* to aggregate with while tokens of its category are out.                 *)
HoldBack(s, f, ac, p) ==
    LET q == s.pending[p][ac]
    IN  \/ s.peers[p].ps
        \/ /\ s.outstanding[ac] >= PerAc
           /\ Flow[f] = Flow[Head(q)]
           /\ Len(q) < MaxAggr

(* The result of nrf_wifi_fmac_tx: the configuration and the TX status. *)
FmacTx(s, f, ac, p, up) ==
    LET e == Enqueue(s, f, ac, p, up)
        d == DescPick(e, ac)
        t == DescTake(e, ac, d)
    IN  IF Len(s.pending[p][ac]) >= MaxQLen
        THEN [tx |-> s, status |-> "fail"]
        ELSE IF EnqueueFails(p, up)
        THEN [tx |-> e, status |-> "fail"]
        ELSE IF HoldBack(e, f, ac, p) \/ d = NumTokens
        THEN [tx |-> e, status |-> "queued"]
        ELSE [tx |-> FillToken(t, d, ac, up), status |-> FillStatus(t, d, ac, up)]

(* nrf_wifi_fmac_peer_get_id. *)
PeerGetId(s, a) ==
    IF a = Group THEN MaxPeers
    ELSE IF \E p \in Slots : s.peers[p].sta = a
    THEN CHOOSE p \in Slots : s.peers[p].sta = a
    ELSE None

(* nrf_wifi_fmac_start_xmit finds the peer and the category without the    *)
(* lock.  A frame for an unknown peer is freed at once: no step.           *)
XmitLookup(v, f) ==
    /\ xmit[v] = Idle
    /\ f \notin live
    /\ PeerGetId(tx, Dest[f]) # None
    /\ \E ac \in (IF Dest[f] = Group THEN {MC} ELSE TrafficAcs) :
          xmit' = [xmit EXCEPT ![v] =
                      [frame |-> f, peer |-> PeerGetId(tx, Dest[f]), ac |-> ac]]
    /\ live' = live \cup {f}
    /\ UNCHANGED tx

(* ... and queues the frame under the lock; it frees the frame when        *)
(* nrf_wifi_fmac_tx fails.                                                 *)
XmitTx(v) ==
    /\ xmit[v] # Idle
    /\ \E up \in Reachable :
          LET x == xmit[v]
              r == FmacTx(tx, x.frame, x.ac, x.peer, up)
          IN  /\ tx' = r.tx
              /\ live' = IF r.status = "fail" THEN live \ {x.frame} ELSE live
    /\ xmit' = [xmit EXCEPT ![v] = Idle]

-----------------------------------------------------------------------------
(* The TX-done event.                                                      *)

(* The test of the four bits of a spare token, lowest first; when they are *)
(* clear the result keeps its initial value, BK.                           *)
LowestBit(nibble) ==
    IF \E q \in nibble : \A r \in nibble : q <= r
    THEN CHOOSE q \in nibble : \A r \in nibble : q <= r
    ELSE BK

(* The category a finished token is accounted to. *)
TxDoneQueue(s, d) ==
    IF d \notin Spare THEN d % AC_MAX ELSE LowestBit(SpareNibble(s, d))

(* Category ac has frames a token can take. *)
Serviceable(s, ac) ==
    LET p == PeerOpp(s, ac).peer IN p # None /\ HasPending(s, p, ac)

(* The categories tx_buff_req_free tries for token d. *)
ServedAcs(d) == IF d \in Spare THEN Unicast ELSE {d % AC_MAX}

IsHighest(s, d, ac) ==
    /\ ac \in ServedAcs(d)
    /\ Serviceable(s, ac)
    /\ \A b \in ServedAcs(d) : Serviceable(s, b) => b <= ac

(* Mutant: the new category of a spare token is not counted. *)
ReassignUncounted(s, d, from, to) ==
    IF from = to THEN s
    ELSE [s EXCEPT !.outstanding[from] = (@ - 1) % UintMod,
                   !.spare_map =
                       (@ \ {SpareBit(d, from)}) \cup {SpareBit(d, to)}]

(* Mutant: the map still names the old category. *)
ReassignKeepsBit(s, d, from, to) ==
    IF from = to THEN s
    ELSE [s EXCEPT !.outstanding[from] = (@ - 1) % UintMod,
                   !.outstanding[to] = (@ + 1) % UintMod]

(* A spare token that changes category: the counters and the map follow. *)
Reassign(s, d, from, to) ==
    IF from = to THEN s
    ELSE [s EXCEPT !.outstanding[from] = (@ - 1) % UintMod,
                   !.outstanding[to] = (@ + 1) % UintMod,
                   !.spare_map =
                       (@ \ {SpareBit(d, from)}) \cup {SpareBit(d, to)}]

(* tx_buff_req_free, and the TX command for the next batch if there is one. *)
BuffReqFree(s, d, up) ==
    LET q == TxDoneQueue(s, d)
    IN  IF \E ac \in Acs : IsHighest(s, d, ac)
        THEN LET ac == CHOOSE ac \in Acs : IsHighest(s, d, ac)
             IN  CmdInit(Reassign(PendingProcess(s, d, ac, up), d, q, ac), d, up)
        ELSE DescFree(s, d, q)

(* tx_done_process: the frames of token d are unmapped and freed. *)
TxDoneEvent(d) ==
    /\ d \in tx.in_rpu
    /\ \E up \in Reachable :
          LET back == [tx EXCEPT !.in_rpu = @ \ {d}, !.mapped[d] = 0]
          IN  IF tx.mapped[d] < tx.coalesce[d]
              THEN tx' = back /\ UNCHANGED live
              ELSE /\ tx' = BuffReqFree([back EXCEPT !.pkt[d] = <<>>], d, up)
                   /\ live' = live \ ToSet(tx.pkt[d])
    /\ UNCHANGED xmit

-----------------------------------------------------------------------------
(* Power save of the stations of an access point.                          *)

(* One turn of the loops over the categories in fmac_ap.c. *)
ServeAc(s, ac, up) ==
    LET d == DescPick(s, ac)
    IN  IF d < NumTokens THEN FillToken(DescTake(s, ac, d), d, ac, up) ELSE s

ServeAll(s, up) ==
    ServeAc(ServeAc(ServeAc(ServeAc(s, VO, up), VI, up), BE, up), BK, up)

(* sap_client_ps_get_frames: the station asks for n frames. *)
GetFrames(a, n) ==
    LET p == PeerGetId(tx, a)
    IN  /\ ApMode
        /\ p # None
        /\ Len(tx.wakeup) < MaxWakeup
        /\ \E up \in Reachable :
              tx' = ServeAll([tx EXCEPT !.peers[p].tokens = n,
                                        !.wakeup = Append(@, p)], up)
        /\ UNCHANGED <<xmit, live>>

(* sap_client_update_pmmode, the station starts to doze ... *)
Doze(a) ==
    LET p == PeerGetId(tx, a)
    IN  /\ ApMode
        /\ p # None
        /\ tx' = [tx EXCEPT !.peers[p].ps = TRUE]
        /\ UNCHANGED <<xmit, live>>

(* ... or becomes active. *)
WakeUp(a) ==
    LET p == PeerGetId(tx, a)
    IN  /\ ApMode
        /\ p # None
        /\ Len(tx.wakeup) < MaxWakeup
        /\ \E up \in Reachable :
              tx' = ServeAll([tx EXCEPT !.peers[p].ps = FALSE,
                                        !.wakeup = Append(@, p)], up)
        /\ UNCHANGED <<xmit, live>>

-----------------------------------------------------------------------------
(* The peer table.                                                         *)

(* NRF_WIFI_UMAC_EVENT_NEW_STATION: nrf_wifi_fmac_peer_add takes the first *)
(* free slot.                                                              *)
PeerAdd(a) ==
    /\ PeerGetId(tx, a) = None
    /\ \E p \in Slots :
          /\ tx.peers[p].sta = None
          /\ \A r \in 0 .. p - 1 : tx.peers[r].sta # None
          /\ tx' = [tx EXCEPT !.peers[p].sta = a]
    /\ UNCHANGED <<xmit, live>>

(* Mutant: the queues of the slot are emptied and their frames forgotten. *)
PeerRemoveDrops(a) ==
    LET p == PeerGetId(tx, a)
    IN  /\ PeersLeave
        /\ p # None
        /\ tx' = [tx EXCEPT !.peers[p] = NoPeer,
                            !.pending[p] = [q \in Acs |-> <<>>]]
        /\ UNCHANGED <<xmit, live>>

(* NRF_WIFI_UMAC_EVENT_DEL_STATION: nrf_wifi_fmac_peer_remove clears the   *)
(* slot; the queues of the slot are not touched.                           *)
PeerRemove(a) ==
    LET p == PeerGetId(tx, a)
    IN  /\ PeersLeave
        /\ p # None
        /\ tx' = [tx EXCEPT !.peers[p] = NoPeer]
        /\ UNCHANGED <<xmit, live>>

(* nrf_wifi_fmac_peers_flush, when an access point starts or stops. *)
PeersFlush ==
    /\ PeersLeave
    /\ ApVif
    /\ tx' = [tx EXCEPT !.peers =
                 [p \in SwPeers |-> IF p \in Slots THEN NoPeer ELSE tx.peers[p]]]
    /\ UNCHANGED <<xmit, live>>

-----------------------------------------------------------------------------

Init ==
    /\ tx = [busy        |-> {},
             outstanding |-> [q \in Acs |-> 0],
             spare_map   |-> {},
             pending     |-> [p \in SwPeers |-> [q \in Acs |-> <<>>]],
             opp         |-> [q \in Acs |-> 0],
             pkt         |-> [d \in Tokens |-> <<>>],
             pkt_peer    |-> [d \in Tokens |-> 0],
             coalesce    |-> [d \in Tokens |-> 0],
             mapped      |-> [d \in Tokens |-> 0],
             in_rpu      |-> {},
             peers       |-> [p \in SwPeers |-> NoPeer],
             rpu_bmp     |-> [p \in Slots |-> {}],
             wakeup      |-> <<>>]
    /\ xmit = [v \in Vifs |-> Idle]
    /\ live = {}

Next ==
    \/ \E v \in Vifs, f \in Frames : XmitLookup(v, f)
    \/ \E v \in Vifs : XmitTx(v)
    \/ \E d \in Tokens : TxDoneEvent(d)
    \/ \E a \in Stations, n \in 1 .. MaxPsTokens : GetFrames(a, n)
    \/ \E a \in Stations : Doze(a) \/ WakeUp(a)
    \/ \E a \in Stations : PeerAdd(a) \/ PeerRemove(a)
    \/ PeersFlush

Spec == Init /\ [][Next]_vars

(* The RPU reports every TX command it was given, and a start_xmit in      *)
(* progress continues: WF_vars(TxDoneEvent(d)) and WF_vars(XmitTx(v)),     *)
(* with the guards of the actions for ENABLED, which is slow to evaluate.  *)
(* Nothing is assumed of the stack or of the stations.                     *)
Fairness ==
    /\ \A d \in Tokens : []<>(d \notin tx.in_rpu) \/ []<><<UNCHANGED xmit /\ TxDoneEvent(d)>>_vars
    /\ \A v \in Vifs : []<>(xmit[v] = Idle) \/ []<><<xmit'[v] = Idle /\ XmitTx(v)>>_vars

FairSpec == Spec /\ Fairness

-----------------------------------------------------------------------------
(* Properties.                                                             *)

(* The category a token in use is accounted to, as tx_done will see it. *)
Holder(d) == TxDoneQueue(tx, d)

Peer == [sta    : Stations \cup {None}, ps  : BOOLEAN,
         tokens : Nat,                  bmp : SUBSET Unicast]

(* The values of tx when the wake-up queue is w. *)
Config(w) ==
    [busy        : SUBSET Tokens,
     outstanding : [Acs -> 0 .. UintMod - 1],
     spare_map   : SUBSET Nat,
     pending     : [SwPeers -> [Acs -> Seq(Frames)]],
     opp         : [Acs -> Slots],
     pkt         : [Tokens -> Seq(Frames)],
     pkt_peer    : [Tokens -> SwPeers],
     coalesce    : [Tokens -> Nat],
     mapped      : [Tokens -> Nat],
     in_rpu      : SUBSET Tokens,
     peers       : [SwPeers -> Peer],
     rpu_bmp     : [Slots -> SUBSET Unicast],
     wakeup      : {w}]

Calls == {Idle} \cup [frame : Frames, peer : Slots, ac : Unicast]
                \cup [frame : Frames, peer : {MaxPeers}, ac : {MC}]

(* The fields have the types their declarations in fmac_structs.h give     *)
(* them, the queue of woken peers aside.                                   *)
FieldsOK ==
    /\ tx \in Config(tx.wakeup)
    /\ xmit \in [Vifs -> Calls]
    /\ live \subseteq Frames

(* Every variable has its type: in particular a group addressed frame is   *)
(* only ever queued for the slot beyond those of the stations.             *)
TypeOK ==
    /\ FieldsOK
    /\ tx.wakeup \in Seq(Slots)

(* outstanding_descs counts the tokens of each category: the number        *)
(* tx_process compares with num_tx_tokens_per_ac is never stale, although  *)
(* tx_done_process only infers the category of a spare token from the map  *)
(* and moves it from one counter to another.                               *)
TokenAccounting ==
    \A q \in Acs :
        tx.outstanding[q] = Cardinality({d \in tx.busy : Holder(d) = q})

(* "4 bits represent 4 access categories" (fmac_tx.h): the nibble of a     *)
(* spare token in use names its one category, that of a free one is clear. *)
SpareNibbles ==
    \A d \in Spare :
        Cardinality(SpareNibble(tx, d)) = IF d \in tx.busy THEN 1 ELSE 0

(* Where the driver keeps frame f: calls, pending queues and tokens. *)
Places(f) ==
    {<<"call", v>> : v \in {v \in Vifs : xmit[v].frame = f}}
    \cup (UNION {{<<"pending", p, q, i>> :
                     i \in {i \in DOMAIN tx.pending[p][q] : tx.pending[p][q][i] = f}} :
                 p \in SwPeers, q \in Acs})
    \cup (UNION {{<<"token", d, i>> :
                     i \in {i \in DOMAIN tx.pkt[d] : tx.pkt[d][i] = f}} :
                 d \in Tokens})

(* A frame the driver owns is in exactly one place and a frame it has      *)
(* freed is nowhere: nothing leaks, nothing is freed while queued.         *)
FrameCustody ==
    \A f \in Frames : Cardinality(Places(f)) = IF f \in live THEN 1 ELSE 0

(* A token in use is at the RPU with a batch whose frames are all mapped   *)
(* and counted, share their addresses and stay within the limits; a free   *)
(* token has nothing attached to it.                                       *)
BatchOnToken ==
    \A d \in Tokens :
        IF d \in tx.busy
        THEN /\ d \in tx.in_rpu
             /\ tx.pkt[d] # <<>>
             /\ tx.mapped[d] = Len(tx.pkt[d])
             /\ tx.coalesce[d] = Len(tx.pkt[d])
             /\ \/ Len(tx.pkt[d]) = 1
                \/ Aggregates(tx.pkt[d], Len(tx.pkt[d]))
        ELSE d \notin tx.in_rpu /\ tx.pkt[d] = <<>> /\ tx.mapped[d] = 0

(* A frame left in the queue of a peer that does not doze has a token out  *)
(* whose TX-done event will find it: tx_process holds frames back, and no  *)
(* timer or later packet is needed to send them.                           *)
NoStrandedFrames ==
    \A p \in Slots, q \in Unicast :
        CanServe(tx, p, q) => \E d \in tx.in_rpu : q \in ServedAcs(d)

(* The RPU advertises pending traffic exactly for the categories in which  *)
(* a connected station has frames waiting.                                 *)
PendBmpAccurate ==
    \A p \in Slots : ApVif /\ tx.peers[p].sta # None =>
        tx.rpu_bmp[p] = {q \in Unicast : HasPending(tx, p, q)}

(* The frames of slot p that leave its queues in a step. *)
Queued(s, p) == UNION {ToSet(s.pending[p][q]) : q \in Unicast}
Leaving(p) == Queued(tx, p) \ Queued(tx', p)
Dozing(p) == tx.peers[p].ps /\ tx'.peers[p].ps

(* The frames of a dozing station stay in the host until it asks for them, *)
(* whichever token comes free, and each batch uses up a power-save token.  *)
DozingHeld ==
    [][\/ \E a \in Stations, n \in 1 .. MaxPsTokens : GetFrames(a, n)
       \/ \A p \in Slots : Dozing(p) /\ Leaving(p) # {} =>
              tx'.peers[p].tokens < tx.peers[p].tokens]_vars

(* The voice traffic pauses for good. *)
VoicePauses ==
    <>[](/\ \A v \in Vifs : xmit[v] = Idle \/ xmit[v].ac # VO
         /\ \A p \in Slots : tx.pending[p][VO] = <<>>)

(* Every frame given to the driver is eventually done with, unless higher  *)
(* categories go on for ever: no timer and no later packet is needed.      *)
EveryFrameFreed ==
    VoicePauses => \A f \in Frames : f \in live ~> f \notin live

(* The frames as the stack sees them: what TxService promises.  A place    *)
(* that is not a token is a negative number.                               *)
AtStack == -1
Waiting == -2

PlaceOf ==
    [f \in Frames |->
        IF \E d \in Tokens : f \in ToSet(tx.pkt[d])
        THEN CHOOSE d \in Tokens : f \in ToSet(tx.pkt[d])
        ELSE IF f \in live THEN Waiting ELSE AtStack]

CatOf ==
    [f \in Frames |->
        IF PlaceOf[f] \in Tokens THEN Holder(PlaceOf[f])
        ELSE IF \E v \in Vifs : xmit[v].frame = f
        THEN xmit[CHOOSE v \in Vifs : xmit[v].frame = f].ac
        ELSE IF PlaceOf[f] = Waiting
        THEN CHOOSE q \in Acs : \E p \in SwPeers : f \in ToSet(tx.pending[p][q])
        ELSE None]

Service == INSTANCE TxService WITH place <- PlaceOf, cat <- CatOf, Stack <- AtStack,
                                   Serves <- [d \in Tokens |-> ServedAcs(d)]

(* The token machinery implements the service. *)
ImplementsService == Service!Spec
=============================================================================
