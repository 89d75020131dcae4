-------------------------------- MODULE Conf --------------------------------
(***************************************************************************)
(* The parameters of the debug file "conf" (dbgfs_wlan_fmac_conf.c): their  *)
(* defaults, the checks a written value has to pass, and the writes that    *)
(* only store a value.  The file exists in two builds of the driver: the    *)
(* regular one (module Settings), where some writes send a command, and the *)
(* radio test (module RadioTest), where values are collected, are handed    *)
(* over by tx=1 or rx=1 and are frozen until tx=0 or rx=0.                  *)
(*                                                                          *)
(* A write that is refused, or that repeats the value that is stored,       *)
(* changes nothing and is no step.  Nothing serialises the writes of two    *)
(* processes that hold the file open.                                       *)
(***************************************************************************)
EXTENDS Integers, FiniteSets

CONSTANTS Writer,    \* processes that write the file
          MaxCalls,  \* bound: writes and calls, by build
          QuietCost, \* bound: how many calls the write of a quiet parameter counts for
          MaxFails   \* bound: allocations and sends that fail, answers that time out

ASSUME BoundsAssumption == MaxFails \in Nat /\ \A b \in {"regular", "radio_test", "application"} : MaxCalls[b] \in Nat /\ QuietCost \in Nat

VARIABLES
  build,  \* "regular", "radio_test", or "application": the radio test without the file
  conf,   \* rpu_ctx_lnx->conf_params and the three ps_* globals of the file
  job,    \* job[w]: what writer w is doing
  calls, fails

confVars == <<build, conf, job, calls, fails>>

Legacy == 0  HT == 1  VHT == 2  HE_SU == 3  HE_ER_SU == 4  HE_TB == 5
TputModes == 0..6     \* enum rpu_tput_mode, and its end
ChannelWidths == 0..2 \* 20 and 40 MHz, and RPU_CH_BW_MAX

\* Parameters that no check and no command looks at one by one.
Quiet == {"phy_threshold", "phy_calib", "nss", "antenna_sel", "rf_params",
          "tx_pkt_chnl_bw", "tx_pkt_sgi", "tx_pkt_preamble", "tx_pkt_stbc",
          "tx_pkt_fec_coding", "tx_mode", "tx_pkt_num", "tx_pkt_len", "tx_power",
          "aux_adc"}

\* he_ltf and he_gi are unsigned char: their default of -1 is stored as 255.
Defaults(b) ==
  [phy_threshold |-> 0, phy_calib |-> {"RXDC", "TXDC", "TXPOW", "RXIQ", "TXIQ", "DPD"},
   nss |-> 1, antenna_sel |-> 1, he_ltf |-> 255, he_gi |-> 255, rf_params |-> "default",
   set_he_ltf_gi |-> 0, power_save |-> 0, rts_threshold |-> 0, uapsd_queue |-> 0,
   ps_timeout |-> 100, ps_listen_interval |-> 10, ps_wakeup_mode |-> 0,
   tx_pkt_chnl_bw |-> 0, tx_pkt_tput_mode |-> Legacy, tx_pkt_sgi |-> 0, tx_pkt_nss |-> 1,
   tx_pkt_preamble |-> 0, tx_pkt_stbc |-> 0, tx_pkt_fec_coding |-> 0,
   tx_pkt_mcs |-> -1, tx_pkt_rate |-> -1,
   op_mode |-> IF b = "radio_test" THEN "RADIO_TEST" ELSE "none",
   primary |-> 1, bw |-> 0, sec_20 |-> 0, tx_mode |-> 1, tx_pkt_num |-> -1,
   tx_pkt_len |-> 1400, tx_power |-> 0, tx |-> 0, rx |-> 0, aux_adc |-> 1]

Idle == [pc |-> "idle"]

ConfInit ==
  /\ conf = Defaults(build)
  /\ job = [w \in Writer |-> Idle]
  /\ calls = 0 /\ fails = 0

-----------------------------------------------------------------------------
(* Values *)

\* A long stored in a signed char.
SignedChar(v) == ((v + 128) % 256) - 128

Bit7(v) == (v \div 128) % 2 = 1
SetBit7(v) == IF Bit7(v) THEN v ELSE v + 128

LegacyRates == {1, 2, 55, 11, 6, 9, 12, 18, 24, 36, 48, 54}

\* The MCS numbers of a mode; the test for HT is one of a bit, which HE_SU and
\* HE_TB have too.
McsOf(mode, nss) ==
  CASE mode % 2 = 1     -> IF nss = 2 THEN 8..15 ELSE 0..7
    [] mode = VHT       -> 0..9
    [] mode = HE_ER_SU  -> 0..2
    [] OTHER            -> {}

\* Bit 7 marks an MCS; the caller sets it for tx_pkt_mcs, not for tx_pkt_rate.
CheckValidDataRate(mode, nss, dr) ==
  \/ dr = -1
  \/ Bit7(dr) /\ dr % 128 \in McsOf(mode, nss)
  \/ ~Bit7(dr) /\ mode = Legacy /\ dr \in LegacyRates

CheckValidChannel(ch) ==
  ch \in 1..14 \cup {36, 38, 40, 44, 46, 48, 52, 54, 56, 60, 62, 64, 100, 102, 104, 108,
                     110, 112, 116, 118, 120, 124, 126, 128, 132, 134, 136, 140, 142, 144,
                     149, 151, 153, 157, 159, 161, 165}

UpperOf40 == {40, 48, 56, 64, 104, 112, 120, 128, 136, 144, 153, 161}
LowerOf40 == {36, 44, 52, 60, 100, 108, 116, 124, 132, 140, 149, 157}

Offset5GOk(c) ==
  /\ c.sec_20 = 1 => c.primary \notin UpperOf40
  /\ c.sec_20 = -1 => c.primary \notin LowerOf40

Offset24GOk(c) ==
  /\ c.primary \in 1..4 => c.sec_20 = 1
  /\ c.primary \in 8..14 => c.sec_20 = -1

\* sec_40_offset is 0: no write can set it (it asks for a width of 80 MHz).
LegacyChannelOk(c) == c.bw = 0 /\ c.sec_20 = 0

HtChannelOk(c) ==
  \/ c.bw = 0 /\ c.sec_20 = 0
  \/ /\ c.bw = 1 /\ c.sec_20 # 0
     /\ IF c.primary \in 1..14 THEN Offset24GOk(c) ELSE Offset5GOk(c)

VhtChannelOk(c) ==
  /\ c.primary \notin 1..14
  /\ \/ c.bw = 0 /\ c.sec_20 = 0
     \/ c.bw = 1 /\ c.sec_20 # 0 /\ Offset5GOk(c)

HeChannelOk(c) ==
  \/ c.bw = 0 /\ c.sec_20 = 0
  \/ /\ c.bw = 1 /\ c.sec_20 # 0
     /\ IF c.primary \in 1..14 THEN Offset24GOk(c) ELSE Offset5GOk(c)

CheckChannelSettings(c) ==
  CASE c.tx_pkt_tput_mode = Legacy             -> LegacyChannelOk(c)
    [] c.tx_pkt_tput_mode = HT                 -> HtChannelOk(c)
    [] c.tx_pkt_tput_mode = VHT                -> VhtChannelOk(c)
    [] c.tx_pkt_tput_mode \in {HE_SU, HE_ER_SU} -> HeChannelOk(c)
    [] OTHER                                   -> FALSE

-----------------------------------------------------------------------------
(* Writes that only store *)

(* Mutant: reception is not asked for. *)
TxDisabled ==
  build = "radio_test" =>
    conf.tx = 0

\* What most writes of the radio test ask for: "Disable TX", "Disable RX".
Disabled ==
  build = "radio_test" =>
    conf.tx = 0 /\ (conf.op_mode = "RADIO_TEST" => conf.rx = 0)

CanCall(w) == job[w] = Idle /\ calls < MaxCalls[build]

Store(w, field, val) ==
  /\ CanCall(w) /\ conf[field] # val
  /\ conf' = [conf EXCEPT ![field] = val]
  /\ calls' = calls + IF field \in Quiet THEN QuietCost ELSE 1
  /\ calls' <= MaxCalls[build]
  /\ UNCHANGED <<build, job, fails>>

StoreOneOf(w, field, inputs, legal) ==
  Disabled /\ \E val \in inputs \cap legal : Store(w, field, val)

PhyThreshold(w) == StoreOneOf(w, "phy_threshold", {0, 20, 21}, -113..20)

\* Setting or clearing the flag of one calibration.
PhyCalib(w, flag) ==
  Disabled /\ \E val \in {conf.phy_calib \cup flag, conf.phy_calib \ flag} :
    Store(w, "phy_calib", val)
PhyCalibRxdc(w)  == PhyCalib(w, {"RXDC"})
PhyCalibTxdc(w)  == PhyCalib(w, {"TXDC"})
PhyCalibTxpow(w) == PhyCalib(w, {"TXPOW"})
PhyCalibRxiq(w)  == PhyCalib(w, {"RXIQ"})
PhyCalibTxiq(w)  == PhyCalib(w, {"TXIQ"})
PhyCalibDpd(w)   == PhyCalib(w, {"DPD"})

\* The names are looked for with strstr, so that "tx_pkt_nss=" is taken for
\* "nss=", which is looked for first: tx_pkt_nss keeps its default.
Nss(w) == StoreOneOf(w, "nss", 0..3, {1, 2})

\* Neither these three nor the writers of them ask for "Disable TX".
AntennaSel(w) == \E val \in 0..3 \cap {1, 2} : Store(w, "antenna_sel", val)
HeLtf(w) == \E val \in {2, 3} \cap 0..2 : Store(w, "he_ltf", val)
HeGi(w) == \E val \in {2, 3} \cap 0..2 : Store(w, "he_gi", val)

RfParams(w) ==
  /\ build = "radio_test" => conf.op_mode = "RADIO_TEST" /\ conf.tx = 0 /\ conf.rx = 0
  /\ Store(w, "rf_params", "written")

TxPktChnlBw(w) == StoreOneOf(w, "tx_pkt_chnl_bw", ChannelWidths, 0..1)
TxPktTputMode(w) == StoreOneOf(w, "tx_pkt_tput_mode", TputModes, 0..5)
TxPktSgi(w) == StoreOneOf(w, "tx_pkt_sgi", 0..2, 0..1)

\* Short or long for legacy packets, mixed for all others.
TxPktPreamble(w) ==
  StoreOneOf(w, "tx_pkt_preamble", 0..3,
             IF conf.tx_pkt_tput_mode = Legacy THEN {0, 1} ELSE {2})

TxPktStbc(w) == StoreOneOf(w, "tx_pkt_stbc", 0..2, 0..1)
TxPktFecCoding(w) == StoreOneOf(w, "tx_pkt_fec_coding", 0..2, 0..1)

McsAllowed(val) ==
  /\ conf.tx_pkt_rate = -1
  /\ CheckValidDataRate(conf.tx_pkt_tput_mode, conf.tx_pkt_nss, SetBit7(val))
  /\ conf.tx_pkt_mcs # val

RateAllowed(val) ==
  /\ conf.tx_pkt_mcs = -1
  /\ CheckValidDataRate(conf.tx_pkt_tput_mode, conf.tx_pkt_nss, val)
  /\ conf.tx_pkt_rate # val

McsInputs == {-1, 3, 9, 131}
RateInputs == {-1, 3, 55, 131}

ConfStore(w) ==
  \/ PhyThreshold(w) \/ PhyCalibRxdc(w) \/ PhyCalibTxdc(w) \/ PhyCalibTxpow(w)
  \/ PhyCalibRxiq(w) \/ PhyCalibTxiq(w) \/ PhyCalibDpd(w) \/ Nss(w) \/ AntennaSel(w)
  \/ HeLtf(w) \/ HeGi(w) \/ RfParams(w) \/ TxPktChnlBw(w) \/ TxPktTputMode(w)
  \/ TxPktSgi(w) \/ TxPktPreamble(w) \/ TxPktStbc(w) \/ TxPktFecCoding(w)
=============================================================================
