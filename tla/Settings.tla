------------------------------ MODULE Settings ------------------------------
(***************************************************************************)
(* The settings of the RPU in the regular build: writes of the debug file   *)
(* "conf" that send a command (dbgfs_wlan_fmac_conf.c), the cfg80211        *)
(* operations that change the same settings (cfg80211_if.c), the FMAC       *)
(* commands under both (default/fmac_api.c, fmac_api_common.c, cmd.c), and  *)
(* the two queries that wait for the RPU: get_station and the statistics.   *)
(*                                                                          *)
(* cfg80211 makes one call at a time; the debug files are not under its     *)
(* lock, so that writers, readers and cfg80211 interleave.  A setting       *)
(* reaches the RPU with its command; the answers to queries come later, in  *)
(* order, or not at all.                                                    *)
(***************************************************************************)
EXTENDS Conf, Sequences

CONSTANTS Reader,    \* processes that read the debug file "stats"
          MaxQuiet3  \* bound: timeout, listen interval and wake-up mode away from their defaults

VARIABLES
  told,         \* what the RPU was told last
  failed,       \* a command of a writer failed
  station,      \* state of cfg80211's get_station: [pc, id]
  station_info, \* vif_ctx_lnx->station_info: the query it answers, 0 is NULL
  returned,     \* the queries whose answers get_station returned
  stats_req, fw_stats, \* fmac_dev_ctx's: the flag, and whose buffer is pointed to
  reader,       \* reader[r]: [pc, id, got]: the answer its buffer holds
  statsOk,      \* [id, got] of the reads that succeeded
  asked,        \* queries made
  rpuq, evtq    \* queries and answers on their way

settingsVars == <<told, failed, station, station_info, returned, stats_req, fw_stats,
                  reader, statsOk, asked, rpuq, evtq>>

None == "none"

SettingsInit ==
  /\ told = [rate |-> -1, flag |-> 0, ltf |-> 0, gi |-> 0, ltf_gi |-> 0,
             power_save |-> 0, rts_threshold |-> 0, uapsd_queue |-> 0,
             ps_timeout |-> 100, ps_listen_interval |-> 10, ps_wakeup_mode |-> 0,
             qos_map |-> "none", by |-> [power_save |-> None, rts_threshold |-> None]]
  /\ failed = FALSE
  /\ station = [pc |-> "idle", id |-> 0]
  /\ station_info = 0 /\ returned = <<>>
  /\ stats_req = FALSE /\ fw_stats = None
  /\ reader = [r \in Reader |-> [pc |-> "idle", id |-> 0, got |-> 0]]
  /\ statsOk = {} /\ asked = 0
  /\ rpuq = <<>> /\ evtq = <<>>

-----------------------------------------------------------------------------
(* Commands: allocated, copied, handed to the HAL; the RPU has the setting    *)
(* when that succeeds.                                                        *)

Sent(new) == told' = new /\ UNCHANGED fails
NotSent == fails < MaxFails /\ fails' = fails + 1 /\ UNCHANGED told

SetPowerSave(state, who) ==
  Sent([told EXCEPT !.power_save = state, !.by.power_save = who])

\* Only the fields of wiphy_info that are not 0 are valid.
SetWiphyParams(rts, who) ==
  Sent(IF rts = 0 THEN told
       ELSE [told EXCEPT !.rts_threshold = rts, !.by.rts_threshold = who])

SetUapsdQueue(val) == Sent([told EXCEPT !.uapsd_queue = val])
SetPowerSaveTimeout(val) == Sent([told EXCEPT !.ps_timeout = val])
SetListenInterval(val) == Sent([told EXCEPT !.ps_listen_interval = val])
SetPsWakeupMode(val) == Sent([told EXCEPT !.ps_wakeup_mode = val])
SetTxRate(flag, rate) == Sent([told EXCEPT !.flag = flag, !.rate = rate])

\* The two values go with the command only when it enables them.
CmdHeLtfGi(ltf, gi, on) ==
  Sent([told EXCEPT !.ltf_gi = on, !.ltf = IF on = 1 THEN ltf ELSE 0,
                    !.gi = IF on = 1 THEN gi ELSE 0])
ConfLtfGi(ltf, gi, on) == CmdHeLtfGi(ltf, gi, on)

-----------------------------------------------------------------------------
(* Writes of "conf" that send a command: checked, sent, stored when sent.     *)
(* A failure leaves ret_val at the number of bytes: the writer is told        *)
(* nothing.                                                                   *)

Unmoved == <<station, station_info, returned, stats_req, fw_stats, reader, statsOk,
             asked, rpuq, evtq>>

\* The value is stored after the command returned, in a step of its own.
Program(w, field, val, Command) ==
  /\ CanCall(w) /\ conf[field] # val
  /\ calls' = calls + 1
  /\ \/ Command /\ job' = [job EXCEPT ![w] = [pc |-> "store", field |-> field, val |-> val]]
        /\ UNCHANGED failed
     \/ NotSent /\ failed' = TRUE /\ UNCHANGED job
  /\ UNCHANGED <<build, conf>> /\ UNCHANGED Unmoved

StoreProgrammed(w) ==
  /\ job[w].pc = "store"
  /\ conf' = [conf EXCEPT ![job[w].field] = job[w].val]
  /\ job' = [job EXCEPT ![w] = Idle]
  /\ UNCHANGED <<build, calls, fails>> /\ UNCHANGED settingsVars

\* Sent with the he_ltf and he_gi stored at this time, when the switch changes.
SetHeLtfGi(w) ==
  \E val \in 0..2 \cap {0, 1} :
    Program(w, "set_he_ltf_gi", val, ConfLtfGi(conf.he_ltf, conf.he_gi, val))

PowerSave(w) ==
  \E val \in 0..2 \cap {0, 1} :
    Program(w, "power_save", val, SetPowerSave(val, w))

RtsThreshold(w) ==
  \E val \in {0, 500, 501} \ {0} :
    Program(w, "rts_threshold", val, SetWiphyParams(val, w))

UapsdQueue(w) ==
  \E val \in {0, 15, 16} \cap 0..15 : Program(w, "uapsd_queue", val, SetUapsdQueue(val))

(* Mutant: the rate is sent in HE_TB too. *)
RateInHeTb(w, field, val) ==
  /\ CanCall(w)
  /\ calls' = calls + 1
  /\ \/ /\ SetTxRate(conf.tx_pkt_tput_mode,
                     val)
        /\ job' = [job EXCEPT ![w] = [pc |-> "store", field |-> field,
                                      val |-> SignedChar(val)]]
        /\ UNCHANGED failed
     \/ NotSent /\ failed' = TRUE /\ UNCHANGED job
  /\ UNCHANGED <<build, conf>> /\ UNCHANGED Unmoved

\* The command has the whole value (an int), the parameter is a signed char.
FixedRate(w, field, val) ==
  /\ CanCall(w)
  /\ calls' = calls + 1
  /\ \/ /\ SetTxRate(conf.tx_pkt_tput_mode,
                     IF conf.tx_pkt_tput_mode = HE_TB THEN -1 ELSE val)
        /\ job' = [job EXCEPT ![w] = [pc |-> "store", field |-> field,
                                      val |-> SignedChar(val)]]
        /\ UNCHANGED failed
     \/ NotSent /\ failed' = TRUE /\ UNCHANGED job
  /\ UNCHANGED <<build, conf>> /\ UNCHANGED Unmoved

TxPktMcs(w) == \E val \in McsInputs : McsAllowed(val) /\ FixedRate(w, "tx_pkt_mcs", val)
TxPktRate(w) == \E val \in RateInputs : RateAllowed(val) /\ FixedRate(w, "tx_pkt_rate", val)

\* These three are stored before the command is sent, and stay when it fails.
StoreFirst(w, field, val, Command) ==
  /\ CanCall(w)
  /\ conf' = [conf EXCEPT ![field] = val]
  /\ Cardinality({f \in {"ps_timeout", "ps_listen_interval", "ps_wakeup_mode"} :
                    conf'[f] # Defaults(build)[f]}) <= MaxQuiet3
  /\ calls' = calls + 1
  /\ \/ Command /\ UNCHANGED failed
     \/ NotSent /\ failed' = TRUE
  /\ UNCHANGED <<build, job>> /\ UNCHANGED Unmoved

PsTimeout(w) == \E val \in {0, 100} : StoreFirst(w, "ps_timeout", val, SetPowerSaveTimeout(val))
PsListenInterval(w) ==
  \E val \in {10, 65535, 65536} \cap 0..65535 :
    StoreFirst(w, "ps_listen_interval", val, SetListenInterval(val))
PsWakeupMode(w) ==
  \E val \in 0..2 \cap {0, 1} : StoreFirst(w, "ps_wakeup_mode", val, SetPsWakeupMode(val))

-----------------------------------------------------------------------------
(* cfg80211's settings: commands that leave "conf" as it is.                  *)

Cfg80211(Command) ==
  /\ station.pc = "idle" /\ calls < MaxCalls[build]
  /\ calls' = calls + 1
  /\ (Command \/ NotSent)
  /\ UNCHANGED <<build, conf, job, failed>> /\ UNCHANGED Unmoved

SetPowerMgmt == \E on \in {0, 1} : Cfg80211(SetPowerSave(on, "cfg80211"))

\* 0: another parameter than the RTS threshold changed.
CfgSetWiphyParams == \E rts \in {0, 501} : Cfg80211(SetWiphyParams(rts, "cfg80211"))

\* Without a map the length is 0: the RPU goes back to its own.
SetQosMap == \E map \in {"none", "map"} : Cfg80211(Sent([told EXCEPT !.qos_map = map]))

-----------------------------------------------------------------------------
(* get_station: asks, and waits until station_info is there                   *)

Ask(kind) == asked' = asked + 1 /\ rpuq' = Append(rpuq, [kind |-> kind, id |-> asked + 1])

\* The result of the command is not looked at.
GetStation ==
  /\ station.pc = "idle" /\ calls < MaxCalls[build]
  /\ calls' = calls + 1
  /\ station' = [pc |-> "wait", id |-> asked + 1]
  /\ \/ Ask("station") /\ UNCHANGED fails
     \/ /\ fails < MaxFails /\ fails' = fails + 1
        /\ asked' = asked + 1 /\ UNCHANGED rpuq
  /\ UNCHANGED <<build, conf, job, told, failed, station_info, returned, stats_req,
                 fw_stats, reader, statsOk, evtq>>

(* Mutant: station_info is not reset after it was copied. *)
InfoKept ==
  /\ station.pc = "wait" /\ station_info # 0
  /\ returned' = Append(returned, [call |-> station.id, answer |-> station_info])
  /\ station_info' = station_info
  /\ station' = [station EXCEPT !.pc = "idle"]
  /\ UNCHANGED <<build, conf, job, calls, fails, told, failed, stats_req, fw_stats,
                 reader, statsOk, asked, rpuq, evtq>>

\* sta_set_sinfo copies, and the information is freed.
GetStationReturns ==
  /\ station.pc = "wait" /\ station_info # 0
  /\ returned' = Append(returned, [call |-> station.id, answer |-> station_info])
  /\ station_info' = 0
  /\ station' = [station EXCEPT !.pc = "idle"]
  /\ UNCHANGED <<build, conf, job, calls, fails, told, failed, stats_req, fw_stats,
                 reader, statsOk, asked, rpuq, evtq>>

\* Two waits of 100 ms; an answer that came at the end of them is still taken.
GetStationTimeout ==
  /\ station.pc = "wait" /\ station_info = 0
  /\ station' = [station EXCEPT !.pc = "idle"]
  /\ UNCHANGED <<build, conf, job, calls, fails, told, failed, station_info, returned,
                 stats_req, fw_stats, reader, statsOk, asked, rpuq, evtq>>

-----------------------------------------------------------------------------
(* The statistics: one request at a time                                      *)

\* nrf_wifi_fmac_stats_get is refused while a request is open.
StatsGet(r) ==
  /\ reader[r].pc = "idle" /\ calls < MaxCalls[build]
  /\ calls' = calls + 1
  /\ ~stats_req
  /\ reader' = [reader EXCEPT ![r] = [pc |-> "send", id |-> 0, got |-> 0]]
  /\ UNCHANGED <<build, conf, job, fails, told, failed, station, station_info, returned,
                 stats_req, fw_stats, statsOk, asked, rpuq, evtq>>

\* When the command fails the request stays open: no answer will close it.
StatsSend(r) ==
  /\ reader[r].pc = "send"
  /\ stats_req' = TRUE /\ fw_stats' = r
  /\ \/ /\ Ask("stats") /\ UNCHANGED fails
        /\ reader' = [reader EXCEPT ![r].pc = "wait", ![r].id = asked + 1]
     \/ /\ fails < MaxFails /\ fails' = fails + 1
        /\ reader' = [reader EXCEPT ![r].pc = "idle"]
        /\ UNCHANGED <<asked, rpuq>>
  /\ UNCHANGED <<build, conf, job, calls, told, failed, station, station_info, returned,
                 statsOk, evtq>>

StatsReturns(r) ==
  /\ reader[r].pc = "wait" /\ ~stats_req
  /\ statsOk' = statsOk \cup {[id |-> reader[r].id, got |-> reader[r].got]}
  /\ reader' = [reader EXCEPT ![r] = [pc |-> "idle", id |-> 0, got |-> 0]]
  /\ UNCHANGED <<build, conf, job, calls, fails, told, failed, station, station_info,
                 returned, stats_req, fw_stats, asked, rpuq, evtq>>

\* After 50 looks; an answer that came with the last of them is not taken.
\* The buffer is never freed: a late answer still writes to it.
StatsTimeout(r) ==
  /\ reader[r].pc = "wait"
  /\ reader' = [reader EXCEPT ![r] = [pc |-> "idle", id |-> 0, got |-> 0]]
  /\ UNCHANGED <<build, conf, job, calls, fails, told, failed, station, station_info,
                 returned, stats_req, fw_stats, statsOk, asked, rpuq, evtq>>

-----------------------------------------------------------------------------
(* The RPU, and the event tasklet                                             *)

\* The RPU knows the station, or has nothing to say.
RpuAnswers ==
  /\ rpuq # <<>>
  /\ rpuq' = Tail(rpuq)
  /\ evtq' \in {Append(evtq, Head(rpuq)), evtq}
  /\ UNCHANGED <<build, conf, job, calls, fails, told, failed, station, station_info,
                 returned, stats_req, fw_stats, reader, statsOk, asked>>

\* Whatever station_info held before is leaked.
GetStationCallback ==
  /\ evtq # <<>> /\ Head(evtq).kind = "station"
  /\ evtq' = Tail(evtq)
  /\ station_info' = Head(evtq).id
  /\ UNCHANGED <<build, conf, job, calls, fails, told, failed, station, returned,
                 stats_req, fw_stats, reader, statsOk, asked, rpuq>>

\* Copied to wherever fw_stats points, if a request is open.
StatsProcess ==
  /\ evtq # <<>> /\ Head(evtq).kind = "stats"
  /\ evtq' = Tail(evtq)
  /\ stats_req' = FALSE
  /\ IF stats_req /\ reader[fw_stats].pc = "wait"
     THEN reader' = [reader EXCEPT ![fw_stats].got = Head(evtq).id]
     ELSE UNCHANGED reader
  /\ UNCHANGED <<build, conf, job, calls, fails, told, failed, station, station_info,
                 returned, fw_stats, statsOk, asked, rpuq>>

-----------------------------------------------------------------------------

SettingsNext ==
  \/ \E w \in Writer :
       \/ ConfStore(w) /\ UNCHANGED settingsVars
       \/ SetHeLtfGi(w) \/ PowerSave(w) \/ RtsThreshold(w) \/ UapsdQueue(w)
       \/ TxPktMcs(w) \/ TxPktRate(w) \/ StoreProgrammed(w)
       \/ PsTimeout(w) \/ PsListenInterval(w) \/ PsWakeupMode(w)
  \/ SetPowerMgmt \/ CfgSetWiphyParams \/ SetQosMap
  \/ GetStation \/ GetStationReturns \/ GetStationTimeout
  \/ \E r \in Reader : StatsGet(r) \/ StatsSend(r) \/ StatsReturns(r) \/ StatsTimeout(r)
  \/ RpuAnswers \/ GetStationCallback \/ StatsProcess

-----------------------------------------------------------------------------
(* Properties *)

Quiescent == \A w \in Writer : job[w] = Idle

\* The rate "conf" shows.
ShownRate == IF conf.tx_pkt_mcs # -1 THEN conf.tx_pkt_mcs ELSE conf.tx_pkt_rate

(* What "conf" shows is what the RPU was told, once no write is under way:  *)
(* the fixed rate (its low byte, and none in HE_TB), the U-APSD queues, the *)
(* switch for the HE LTF and GI; power save and RTS threshold unless        *)
(* cfg80211 spoke last; the three values that are stored first unless a     *)
(* command failed.  Writes are checked against "conf", a repeated value is  *)
(* not sent: a difference would never heal.                                 *)
ShownIsTold ==
  build = "regular" /\ Quiescent =>
    /\ SignedChar(told.rate) = IF told.flag = HE_TB THEN -1 ELSE ShownRate
    /\ told.uapsd_queue = conf.uapsd_queue
    /\ told.ltf_gi = conf.set_he_ltf_gi
    /\ \A f \in {"power_save", "rts_threshold"} :
         told.by[f] = "cfg80211" \/ told[f] = conf[f]
    /\ failed \/ \A f \in {"ps_timeout", "ps_listen_interval", "ps_wakeup_mode"} :
         told[f] = conf[f]

(* A read of the statistics that succeeds holds the RPU's answer to its own *)
(* request, also after requests that timed out (one reader at a time).      *)
StatsOfThisCall == \A s \in statsOk : s.got = s.id

(* What get_station returns answers a query that was made, this one or an   *)
(* earlier one, and an answer is returned once; the statistics are those of *)
(* the call.                                                                *)
AnswersAreOwn ==
  /\ StatsOfThisCall
  /\ \A i \in DOMAIN returned : returned[i].answer <= returned[i].call
  /\ \A i, j \in DOMAIN returned :
       i < j => returned[i].answer < returned[j].answer

(* "'tx_pkt_rate' & 'tx_pkt_mcs' cannot be set simultaneously".             *)
RateOrMcs == conf.tx_pkt_rate = -1 \/ conf.tx_pkt_mcs = -1
=============================================================================
