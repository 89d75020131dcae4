------------------------------ MODULE RadioTest ------------------------------
(***************************************************************************)
(* The radio test build of the driver: the parameters of the debug file     *)
(* "conf" that only it has (dbgfs_wlan_fmac_conf.c), the commands that start *)
(* and stop transmission and reception, the initialisation, and the RF tests *)
(* (radio_test/fmac_api.c, cmd.c, event.c).                                 *)
(*                                                                          *)
(* A radio command and an RF test wait for the RPU with a bound.  The RPU    *)
(* takes commands in order; it executes one or refuses it, and its answer    *)
(* comes soon, late, or not at all.                                         *)
(***************************************************************************)
EXTENDS Conf, Sequences

CONSTANT Primaries  \* numbers written to chnl_primary (of 32 bits; longer ones are cut)

ASSUME PrimariesAssumption == Primaries \subseteq Nat

VARIABLES
  cmd_done,   \* radio_cmd_done and radio_cmd_status: [done, ok]
  rf,         \* the RF test: rf_test_type, rf_test_cap_data, and its caller
  rpu,        \* what the RPU does: the parameters tx and rx were started with, or Off
  rtq, rtevq, \* commands and events on their way
  issued,     \* commands issued
  executed,   \* those that the RPU executed and somebody waits for
  healthy,    \* healthy[d]: the last command of direction d succeeded
  late        \* a wait ended before the answer came

rtVars == <<cmd_done, rf, rpu, rtq, rtevq, issued, executed, healthy, late>>

Off == [on |-> 0]
Max == "max"   \* NRF_WIFI_RF_TEST_MAX
Null == 0

\* The buffer of a capture is named after the test that brought it.
NoTest == [pc |-> "idle", id |-> 0, test |-> Max, cap |-> Null, filled |-> {}]

RtInit ==
  /\ cmd_done = [done |-> FALSE, ok |-> FALSE]
  /\ rf = NoTest
  /\ rpu = [tx |-> Off, rx |-> Off]
  /\ rtq = <<>> /\ rtevq = <<>>
  /\ issued = 0 /\ executed = {}
  /\ healthy = [tx |-> TRUE, rx |-> TRUE] /\ late = FALSE

RtStore(w, field, inputs) == Disabled /\ \E val \in inputs : Store(w, field, val)

OpMode(w) == RtStore(w, "op_mode", {"RADIO_TEST", "FCM"})

\* The low byte of what is written is checked, and all of it is stored.
ChnlPrimary(w) ==
  Disabled /\ \E val \in Primaries : CheckValidChannel(val % 256) /\ Store(w, "primary", val)

ChnlBw(w) == RtStore(w, "bw", ChannelWidths \cap 0..1)

\* Going back to 20 MHz leaves the offset as it is.
ChnlSec20Offset(w) == conf.bw # 0 /\ RtStore(w, "sec_20", -2..2 \cap {-1, 0, 1})

TxMode(w) == RtStore(w, "tx_mode", 0..2 \cap 0..1)
TxPktNum(w) == RtStore(w, "tx_pkt_num", {-2, -1, 0, 100} \ {-2, 0})
TxPktLen(w) == RtStore(w, "tx_pkt_len", {0, 100} \ {0})
TxPower(w) == RtStore(w, "tx_power", {0, 20})
RtTxPktMcs(w) ==
  Disabled /\ \E val \in McsInputs : McsAllowed(val) /\ Store(w, "tx_pkt_mcs", SignedChar(val))
RtTxPktRate(w) ==
  Disabled /\ \E val \in RateInputs :
    RateAllowed(val) /\ Store(w, "tx_pkt_rate", SignedChar(val))

\* The only legal chain is the one that is stored from the start.
AuxAdcInputChainId(w) ==
  /\ conf.op_mode = "FCM" /\ conf.tx = 0
  /\ \E val \in 0..2 \cap {1} : Store(w, "aux_adc", val)

-----------------------------------------------------------------------------
(* Radio commands: umac_cmd_prog_*, then wait_for_radio_cmd_status            *)

Settled == <<rpu, executed, late>>

(* Mutant: radio_cmd_done is not reset. *)
DoneKept(w, kind, params) ==
  /\ calls' = calls + 1
  /\ UNCHANGED cmd_done
  /\ issued' = issued + 1
  /\ \/ /\ rtq' = Append(rtq, [kind |-> kind, id |-> issued + 1, params |-> params])
        /\ job' = [job EXCEPT ![w] = [pc |-> "radio", kind |-> kind, id |-> issued + 1]]
        /\ UNCHANGED <<fails, healthy>>
     \/ /\ fails < MaxFails /\ fails' = fails + 1
        /\ healthy' = IF kind = "init" THEN healthy ELSE [healthy EXCEPT ![kind] = FALSE]
        /\ UNCHANGED <<rtq, job>>
  /\ UNCHANGED <<build, rf, rtevq>> /\ UNCHANGED Settled

\* radio_cmd_done is reset first.  A command that is not sent fails at once.
RadioCmd(w, kind, params) ==
  /\ calls' = calls + 1
  /\ cmd_done' = [cmd_done EXCEPT !.done = FALSE]
  /\ issued' = issued + 1
  /\ \/ /\ rtq' = Append(rtq, [kind |-> kind, id |-> issued + 1, params |-> params])
        /\ job' = [job EXCEPT ![w] = [pc |-> "radio", kind |-> kind, id |-> issued + 1]]
        /\ UNCHANGED <<fails, healthy>>
     \/ /\ fails < MaxFails /\ fails' = fails + 1
        /\ healthy' = IF kind = "init" THEN healthy ELSE [healthy EXCEPT ![kind] = FALSE]
        /\ UNCHANGED <<rtq, job>>
  /\ UNCHANGED <<build, rf, rtevq>> /\ UNCHANGED Settled

\* What a command hands over: everything, or the receiver's part of it.
TxParams(c) ==
  [f \in DOMAIN c \cup {"on"} |-> IF f = "on" THEN c.tx ELSE IF f = "rx" THEN 0 ELSE c[f]]
RxParams(c) == [nss |-> c.nss, rf_params |-> c.rf_params, primary |-> c.primary, bw |-> c.bw,
                sec_20 |-> c.sec_20, phy_threshold |-> c.phy_threshold,
                phy_calib |-> c.phy_calib, on |-> c.rx]

RadioTestInit(w) == CanCall(w) /\ RadioCmd(w, "init", Off) /\ UNCHANGED conf

\* tx=: stored before the command is sent.
Tx(w) ==
  \E val \in 0..2 \cap 0..1 :
    /\ CanCall(w) /\ conf.tx # val
    /\ val = 1 => /\ conf.op_mode = "RADIO_TEST" => conf.rx = 0
                  /\ conf.sec_20 # 0 => conf.bw > 0
                  /\ CheckChannelSettings(conf)
                  /\ conf.tx_pkt_rate = -1 \/ conf.tx_pkt_mcs = -1
    /\ conf' = [conf EXCEPT !.tx = val]
    /\ RadioCmd(w, "tx", TxParams(conf'))

Rx(w) ==
  \E val \in 0..2 \cap 0..1 :
    /\ CanCall(w) /\ conf.op_mode = "RADIO_TEST" /\ conf.rx # val
    /\ val = 1 => conf.tx = 0
    /\ conf' = [conf EXCEPT !.rx = val]
    /\ RadioCmd(w, "rx", RxParams(conf'))

\* The wait ends with whatever status is there.
RadioDone(w) ==
  /\ job[w].pc = "radio" /\ cmd_done.done
  /\ executed' = executed \ {job[w].id}
  /\ healthy' = IF job[w].kind = "init" THEN healthy
                ELSE [healthy EXCEPT ![job[w].kind] = cmd_done.ok]
  /\ job' = [job EXCEPT ![w] = Idle]
  /\ UNCHANGED <<build, conf, calls, fails, cmd_done, rf, rpu, rtq, rtevq, issued, late>>

\* The count is looked at, not the flag: an answer with the last look fails too.
RadioTimeout(w) ==
  /\ job[w].pc = "radio" /\ fails < MaxFails
  /\ fails' = fails + 1
  /\ executed' = executed \ {job[w].id}
  /\ healthy' = IF job[w].kind = "init" THEN healthy
                ELSE [healthy EXCEPT ![job[w].kind] = FALSE]
  /\ job' = [job EXCEPT ![w] = Idle]
  /\ late' = TRUE
  /\ UNCHANGED <<build, conf, calls, cmd_done, rf, rpu, rtq, rtevq, issued>>

-----------------------------------------------------------------------------
(* RF tests, one at a time                                                    *)

\* Set up, send, and wait.  When the send fails the type and the buffer stay.
RfTest(test, cap) ==
  /\ rf.pc = "idle" /\ calls < MaxCalls[build]
  /\ calls' = calls + 1
  /\ issued' = issued + 1
  /\ LET set == [pc |-> "wait", id |-> issued + 1, test |-> test, cap |-> cap, filled |-> {}]
     IN \/ /\ rtq' = Append(rtq, [kind |-> test, id |-> issued + 1, params |-> Off])
           /\ rf' = set /\ UNCHANGED fails
        \/ /\ fails < MaxFails /\ fails' = fails + 1
           /\ rf' = [set EXCEPT !.pc = "idle"] /\ UNCHANGED rtq
  /\ UNCHANGED <<build, conf, job, cmd_done, rtevq, healthy>> /\ UNCHANGED Settled

RfTestRxCap ==
  \E test \in {"RX_ADC_CAP", "RX_STAT_PKT_CAP", "RX_DYN_PKT_CAP"} : RfTest(test, issued + 1)
RfTestTxTone == RfTest("TX_TONE", Null)
RfTestDpd == RfTest("DPD", Null)
RfGetTemp == RfTest("GET_TEMPERATURE", Null)
RfGetRfRssi == RfTest("RF_RSSI", Null)
SetXoVal == RfTest("XO_CALIB", Null)
RfTestComputeXo == RfTest("XO_TUNE", Null)

RfTestDone ==
  /\ rf.pc = "wait" /\ rf.test = Max
  /\ executed' = executed \ {rf.id}
  /\ rf' = NoTest
  /\ UNCHANGED <<build, conf, job, calls, fails, cmd_done, rpu, rtq, rtevq, issued, healthy, late>>

RfTestTimeout ==
  /\ rf.pc = "wait" /\ fails < MaxFails
  /\ fails' = fails + 1
  /\ executed' = executed \ {rf.id}
  /\ rf' = NoTest
  /\ late' = TRUE
  /\ UNCHANGED <<build, conf, job, calls, cmd_done, rpu, rtq, rtevq, issued, healthy>>

-----------------------------------------------------------------------------
(* The RPU, and the event tasklet                                             *)

Awaited(id) == (rf.pc = "wait" /\ rf.id = id) \/ \E w \in Writer : job[w].pc = "radio" /\ job[w].id = id

IsRadio(kind) == kind \in {"tx", "rx", "init"}

\* Executed or refused (only radio commands have a status), answered or not.
RtRpuStep ==
  /\ rtq # <<>>
  /\ rtq' = Tail(rtq)
  /\ LET c == Head(rtq)
     IN \E ok \in IF IsRadio(c.kind) THEN BOOLEAN ELSE {TRUE}, lost \in BOOLEAN :
          /\ rpu' = IF ok /\ c.kind \in {"tx", "rx"}
                    THEN [rpu EXCEPT ![c.kind] = IF c.params.on = 1 THEN c.params ELSE Off]
                    ELSE rpu
          /\ executed' = IF ok /\ Awaited(c.id) THEN executed \cup {c.id} ELSE executed
          /\ rtevq' = IF lost THEN rtevq
                      ELSE Append(rtevq, [kind |-> c.kind, id |-> c.id, ok |-> ok])
  /\ UNCHANGED <<build, conf, job, calls, fails, cmd_done, rf, issued, healthy, late>>

RadioCmdStatus ==
  /\ rtevq # <<>> /\ IsRadio(Head(rtevq).kind)
  /\ rtevq' = Tail(rtevq)
  /\ cmd_done' = [done |-> TRUE, ok |-> Head(rtevq).ok]
  /\ UNCHANGED <<build, conf, job, calls, fails, rf, rpu, rtq, issued, executed, healthy, late>>

\* An event of the type that is set ends the test, whoever it is for; the
\* samples go to wherever rf_test_cap_data points.
RfTestProcess ==
  /\ rtevq # <<>> /\ ~IsRadio(Head(rtevq).kind)
  /\ rtevq' = Tail(rtevq)
  /\ rf' = IF Head(rtevq).kind # rf.test THEN rf
           ELSE [rf EXCEPT !.test = Max,
                           !.filled = IF rf.cap = Null THEN {} ELSE {Head(rtevq).id}]
  /\ UNCHANGED <<build, conf, job, calls, fails, cmd_done, rpu, rtq, issued, executed, healthy, late>>

-----------------------------------------------------------------------------

RtStores(w) ==
  \/ OpMode(w) \/ ChnlPrimary(w) \/ ChnlBw(w) \/ ChnlSec20Offset(w) \/ TxMode(w)
  \/ TxPktNum(w) \/ TxPktLen(w) \/ TxPower(w) \/ RtTxPktMcs(w) \/ RtTxPktRate(w)
  \/ AuxAdcInputChainId(w)

\* The initialisation and the RF tests are for applications that link the
\* driver: the Linux files do not call them.
RtNext ==
  \/ /\ build = "radio_test"
     /\ \E w \in Writer : \/ (ConfStore(w) \/ RtStores(w)) /\ UNCHANGED rtVars
                         \/ Tx(w) \/ Rx(w)
  \/ /\ build = "application"
     /\ \/ \E w \in Writer : RadioTestInit(w)
        \/ RfTestRxCap \/ RfTestTxTone \/ RfTestDpd \/ RfGetTemp \/ RfGetRfRssi \/ SetXoVal
        \/ RfTestComputeXo \/ RfTestDone \/ RfTestTimeout
  \/ \E w \in Writer : RadioDone(w) \/ RadioTimeout(w)
  \/ RtRpuStep \/ RadioCmdStatus \/ RfTestProcess

-----------------------------------------------------------------------------
(* Properties *)

\* Parameters that may change while the RPU transmits: their writes lack the test.
Unguarded == {"antenna_sel", "he_ltf", "he_gi"}

Waiting(kind) == \E w \in Writer : job[w].pc = "radio" /\ job[w].kind = kind

Agrees(params) == \A f \in DOMAIN params \ ({"on", "tx", "rx"} \cup Unguarded) :
                    params[f] = conf[f]

(* "conf" is what the radio runs with: unless an answer was late, a          *)
(* direction whose last command succeeded is on in the RPU exactly when it   *)
(* is on in the file, with the parameters the file still shows, antenna_sel, *)
(* he_ltf and he_gi apart; and both directions are never on at once.         *)
RadioAsShown ==
  build = "radio_test" /\ ~late =>
    /\ \A d \in {"tx", "rx"} :
         healthy[d] /\ ~Waiting(d) =>
           /\ rpu[d].on = conf[d]
           /\ rpu[d].on = 1 => Agrees(rpu[d])
    /\ healthy.tx /\ healthy.rx => rpu.tx = Off \/ rpu.rx = Off

\* Primary and secondary of the 40 MHz channels.
PairsOf40 == {<<36, 40>>, <<44, 48>>, <<52, 56>>, <<60, 64>>, <<100, 104>>, <<108, 112>>,
              <<116, 120>>, <<124, 128>>, <<132, 136>>, <<140, 144>>, <<149, 153>>, <<157, 161>>}

\* Channels that are the primary of no pair: 14, the centres of 40 MHz, and 165.
NoPrimary == {14, 38, 46, 54, 62, 102, 110, 118, 126, 134, 142, 151, 159, 165}

(* What tx=1 lets through, whatever was written before it, and no more: 20   *)
(* MHz without a secondary channel; a pair of the 5 GHz band; in 2.4 GHz a   *)
(* secondary four channels away, within 1 to 13; and, for 40 MHz, two things *)
(* that check_channel_settings does not refuse though the band has no such   *)
(* pair: a primary channel that is the primary of none, and a number above   *)
(* 255 of which check_valid_channel saw only the low byte.                   *)
TxChannelPaired ==
  build = "radio_test" /\ rpu.tx.on = 1 =>
    LET p == rpu.tx.primary
        s == p + 4 * rpu.tx.sec_20
    IN \/ rpu.tx.bw = 0 /\ rpu.tx.sec_20 = 0
       \/ /\ rpu.tx.bw = 1 /\ rpu.tx.sec_20 # 0
          /\ \/ p \in 1..13 /\ s \in 1..13
             \/ <<p, s>> \in PairsOf40 \/ <<s, p>> \in PairsOf40
             \/ p \in NoPrimary /\ (p = 14 => rpu.tx.sec_20 = -1)
             \/ p > 255 /\ CheckValidChannel(p % 256)

(* What the RPU was told of the radio is what is shown, and was let through.  *)
RadioTold == RadioAsShown /\ TxChannelPaired

(* A radio command or an RF test that is about to return success was         *)
(* executed by the RPU, unless an answer was late: the status is its own;    *)
(* and the buffer of a capture holds its own samples then.                   *)
SuccessIsOwn ==
  late \/ /\ \A w \in Writer :
              job[w].pc = "radio" /\ cmd_done.done /\ cmd_done.ok => job[w].id \in executed
          /\ rf.pc = "wait" /\ rf.test = Max =>
               rf.id \in executed /\ (rf.cap # Null => rf.filled = {rf.id})
=============================================================================
