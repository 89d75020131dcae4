-------------------------------- MODULE Mlme --------------------------------
(***************************************************************************)
(* Scanning, authentication, association and management frames of one      *)
(* station interface: the cfg80211 operations and event callbacks of       *)
(* cfg80211_if.c, the FMAC commands under them (default/fmac_api.c) and the *)
(* dispatch of events (event.c).  cfg80211 makes one call at a time; the    *)
(* RPU takes the commands in order beside it, and the event tasklet         *)
(* delivers the RPU's events in order beside both.                          *)
(*                                                                          *)
(* A frame is the number of the mgmt_tx call it came with, a scan request   *)
(* the number of its call.  cfg80211 is modelled by what the driver may     *)
(* count on: one scan at a time, a disassociation only of a station that    *)
(* is associated.                                                           *)
(***************************************************************************)
EXTENDS Naturals, Sequences, FiniteSets

CONSTANTS Bss,       \* access points
          None,      \* no access point
          SsidLists, \* SSIDs of scan requests
          MaxCalls,  \* bound: calls made
          MaxFails,  \* bound: allocations and sends that fail
          MaxLosses  \* bound: times the RPU loses its access point

MaxSsids == 2         \* NRF_WIFI_SCAN_MAX_NUM_SSIDS
Wildcard == ""        \* the SSID of length 0
Ssid == {"a", "b", Wildcard}

ASSUME BssAssumption == None \notin Bss
(* Of the requests made the named SSIDs come first: see NamedSsidsScanned.   *)
ASSUME SsidAssumption ==
  \A ssids \in SsidLists :
     /\ ssids \in Seq(Ssid)
     /\ \A i, j \in DOMAIN ssids : i < j /\ ssids[i] = Wildcard => ssids[j] = Wildcard
ASSUME BoundAssumption == MaxCalls \in Nat /\ MaxFails \in Nat /\ MaxLosses \in Nat

VARIABLES
  pc,          \* "idle", or "scan": n_fmac_scan returned, n_scan_req not set yet
  calls, fails, losses,
  n_scan_req,  \* vif_ctx_lnx->n_scan_req, 0 is NULL
  bss,         \* vif_ctx_lnx->bss
  bssid,       \* vif_ctx->bssid, where frames for the access point are sent to
  peers,       \* access points in the peer table
  cookie_g,    \* cmd_frame_cookie_g
  cookie_list, \* the pairs [host, rpu] of rpu_ctx_lnx->cookie_list
  cmdq, evtq,  \* commands and events on their way
  rpu,         \* the RPU: its scan, its access point, its frames not yet sent
  fault,       \* a NULL bss was handed to cfg80211
  \* what cfg80211 has
  scan_req,    \* its scan request, 0 if none
  scans,       \* [req, aborted] of the scans reported done
  wanted,      \* the named SSIDs of the scan it asked for
  connected,   \* its access point
  reports,     \* [frame, cookie] of the frames whose status was reported
  \* history
  probed,      \* the SSIDs the RPU was told to scan for
  missed,      \* requests whose scan was done before n_scan_req was set
  overlap,     \* an assoc or disassoc was called with an assoc unanswered
  badAssoc,    \* the last assoc call failed after it had set bssid
  lostCookies  \* frames whose cookie there was no memory for

boundVars == <<calls, fails, losses>>
cfgVars == <<scan_req, scans, wanted, connected, reports>>
mlmeVars == <<bss, bssid, peers>>
cookieVars == <<cookie_g, cookie_list>>
history == <<probed, missed, overlap, badAssoc, lostCookies>>
vars == <<pc, boundVars, n_scan_req, mlmeVars, cookieVars, cmdq, evtq, rpu, fault,
          cfgVars, history>>

Call == 0..MaxCalls

(* Commands and events: what they are, the access point, request or frame   *)
(* they are about, and whether it went well.                                *)
CommandNames == {"TRIGGER_SCAN", "AUTHENTICATE", "ASSOCIATE", "DEAUTHENTICATE",
                 "FRAME", "REGISTER_FRAME"}
EventNames == {"TRIGGER_SCAN_START", "SCAN_DONE", "SCAN_ABORTED", "SCAN_RESULT",
               "AUTHENTICATE", "ASSOCIATE", "DEAUTHENTICATE", "DISASSOCIATE",
               "UNPROT_DEAUTHENTICATE", "FRAME", "COOKIE_RESP",
               "FRAME_TX_STATUS", "NEW_STATION", "DEL_STATION"}
Commands == [cmd : CommandNames, bss : Bss \cup {None}, call : Call, ssids : SUBSET Ssid]
Events == [event : EventNames, bss : Bss \cup {None}, call : Call, ok : BOOLEAN]

Rpu == [scan : Call, bss : Bss \cup {None}, frames : SUBSET Call]

TypeOK ==
  /\ pc \in {"idle", "scan"}
  /\ calls \in Call /\ fails \in 0..MaxFails /\ losses \in 0..MaxLosses
  /\ n_scan_req \in Call /\ scan_req \in Call
  /\ bss \in Bss \cup {None} /\ bssid \in Bss \cup {None} /\ connected \in Bss \cup {None}
  /\ peers \subseteq Bss \cup {None}
  /\ cookie_g \in Call
  /\ cookie_list \subseteq [host : Call, rpu : Call]
  /\ cmdq \in Seq(Commands) /\ evtq \in Seq(Events)
  /\ rpu \in Rpu /\ fault \in BOOLEAN
  /\ scans \in Seq([req : Call, aborted : BOOLEAN])
  /\ reports \in Seq([frame : Call, cookie : Call])
  /\ wanted \subseteq Ssid /\ probed \subseteq Ssid
  /\ missed \subseteq Call /\ lostCookies \subseteq Call
  /\ overlap \in BOOLEAN /\ badAssoc \in BOOLEAN

Init ==
  /\ pc = "idle" /\ calls = 0 /\ fails = 0 /\ losses = 0
  /\ n_scan_req = 0 /\ bss = None /\ bssid = None /\ peers = {}
  /\ cookie_g = 0 /\ cookie_list = {}
  /\ cmdq = <<>> /\ evtq = <<>>
  /\ rpu = [scan |-> 0, bss |-> None, frames |-> {}] /\ fault = FALSE
  /\ scan_req = 0 /\ scans = <<>> /\ wanted = {} /\ connected = None /\ reports = <<>>
  /\ probed = {} /\ missed = {} /\ overlap = FALSE /\ badAssoc = FALSE
  /\ lostCookies = {}
-----------------------------------------------------------------------------
Begin == /\ pc = "idle" /\ ~fault /\ calls < MaxCalls
         /\ calls' = calls + 1 /\ UNCHANGED losses

(* The command is sent, or an allocation or umac_cmd_cfg fails.             *)
Send(cmd, b, ssids) ==
  /\ cmdq' = Append(cmdq, [cmd |-> cmd, bss |-> b, ssids |-> ssids,
                           call |-> IF cmd = "TRIGGER_SCAN" THEN calls' ELSE 0])
  /\ UNCHANGED fails
SendFails == fails < MaxFails /\ fails' = fails + 1 /\ UNCHANGED cmdq
Try(cmd, b) == Send(cmd, b, {}) \/ SendFails

(* cfg80211_scan copies the SSIDs that have a name to the places they have  *)
(* in the request, counts them, and leaves it to the RPU to take as many    *)
(* from the front: an empty place stands for the wildcard.                  *)
Named(ssids) == {i \in DOMAIN ssids : ssids[i] # Wildcard}
ScanSsids(ssids) == LET count == Cardinality(Named(ssids))
                    IN  {ssids[i] : i \in 1..count}

FmacScan(ssids) == Send("TRIGGER_SCAN", None, ScanSsids(ssids))

Scan(ssids) ==
  /\ Begin /\ scan_req = 0
  /\ Cardinality(Named(ssids)) <= MaxSsids
  /\ scan_req' = calls'
  /\ wanted' = {ssids[i] : i \in Named(ssids)}
  /\ FmacScan(ssids)
  /\ pc' = "scan"
  /\ UNCHANGED <<n_scan_req, mlmeVars, cookieVars, evtq, rpu, fault, scans, connected,
                 reports, history>>

(* Refused, or failed: cfg80211 keeps no request.                           *)
ScanFails ==
  /\ Begin /\ scan_req = 0 /\ SendFails
  /\ UNCHANGED <<pc, n_scan_req, mlmeVars, cookieVars, evtq, rpu, fault, cfgVars, history>>

(* Only now the driver knows which request it is working on.                *)
ScanStarted ==
  /\ pc = "scan" /\ ~fault
  /\ n_scan_req' = calls /\ pc' = "idle"
  /\ UNCHANGED <<boundVars, mlmeVars, cookieVars, cmdq, evtq, rpu, fault, cfgVars, history>>
-----------------------------------------------------------------------------
FmacAuth == Try("AUTHENTICATE", None)

Auth ==
  /\ Begin /\ FmacAuth
  /\ UNCHANGED <<pc, n_scan_req, mlmeVars, cookieVars, evtq, rpu, fault, cfgVars, history>>

(* An assoc whose answer the driver has not seen.                           *)
AssocPending == \/ \E i \in DOMAIN cmdq : cmdq[i].cmd = "ASSOCIATE"
                \/ \E i \in DOMAIN evtq : evtq[i].event = "ASSOCIATE"

(* fmac_assoc keeps the bssid before anything can fail (before that the       *)
(* caller may have run out of memory).                                       *)
FmacAssoc(b) == \/ bssid' = b /\ Send("ASSOCIATE", b, {}) /\ badAssoc' = FALSE
                \/ bssid' \in {bssid, b} /\ SendFails /\ badAssoc' = TRUE

(* cfg80211_assoc keeps the bss, first of all.                               *)
Assoc(b) ==
  /\ Begin
  /\ bss' = b /\ FmacAssoc(b)
  /\ overlap' = (overlap \/ AssocPending)
  /\ UNCHANGED <<pc, n_scan_req, peers, cookieVars, evtq, rpu, fault, cfgVars, probed,
                 missed, lostCookies>>

FmacDeauth(b) == Try("DEAUTHENTICATE", b)

(* fmac_disassoc asks for a deauthentication too.                            *)
FmacDisassoc(b) == Try("DEAUTHENTICATE", b)

(* cfg80211_deauth: cfg80211 is told at once, whatever access point it was.  *)
Deauth(b) ==
  /\ Begin /\ FmacDeauth(b)
  /\ connected' = IF fails' = fails THEN None ELSE connected
  /\ UNCHANGED <<pc, n_scan_req, mlmeVars, cookieVars, evtq, rpu, fault, scan_req, scans,
                 wanted, reports, history>>

(* cfg80211_disassoc forgets the bss as well.                               *)
Disassoc ==
  /\ Begin /\ connected # None
  /\ FmacDisassoc(connected)
  /\ IF fails' = fails
     THEN connected' = None /\ bss' = None /\ overlap' = (overlap \/ AssocPending)
     ELSE UNCHANGED <<connected, bss, overlap>>
  /\ UNCHANGED <<pc, n_scan_req, bssid, peers, cookieVars, evtq, rpu, fault, scan_req,
                 scans, wanted, reports, probed, missed, badAssoc, lostCookies>>

FmacMgmtTx(cookie) ==
  /\ cmdq' = Append(cmdq, [cmd |-> "FRAME", bss |-> None, ssids |-> {}, call |-> cookie])
  /\ UNCHANGED fails

(* cfg80211_mgmt_tx: a new cookie, never 0, is used up also if the frame     *)
(* cannot be sent in the end.                                               *)
MgmtTx ==
  /\ Begin
  /\ \/ cookie_g' = cookie_g + 1 /\ FmacMgmtTx(cookie_g')
     \/ cookie_g' \in {cookie_g, cookie_g + 1} /\ SendFails
  /\ UNCHANGED <<pc, n_scan_req, mlmeVars, cookie_list, evtq, rpu, fault, cfgVars, history>>

FmacRegisterFrame == Try("REGISTER_FRAME", None)

MgmtFrameReg ==
  /\ Begin /\ FmacRegisterFrame
  /\ UNCHANGED <<pc, n_scan_req, mlmeVars, cookieVars, evtq, rpu, fault, cfgVars, history>>
-----------------------------------------------------------------------------
(* The tasklet: one event is taken to its callback (umac_event_ctrl_process) *)
Event == Head(evtq)
Dispatch(names) ==
  /\ ~fault /\ evtq # <<>> /\ Event.event \in names
  /\ evtq' = Tail(evtq)
  /\ UNCHANGED <<pc, boundVars, cmdq, rpu>>

(* Callbacks that hand the frame up, or do nothing.                          *)
ScanStartCallback ==
  /\ Dispatch({"TRIGGER_SCAN_START", "AUTHENTICATE", "FRAME", "UNPROT_DEAUTHENTICATE"})
  /\ UNCHANGED <<n_scan_req, mlmeVars, cookieVars, fault, cfgVars, history>>

(* Mutant: the request is kept after it was reported done. *)
ScanDoneKeeps(aborted) ==
  IF n_scan_req # 0
  THEN /\ scans' = Append(scans, [req |-> n_scan_req, aborted |-> aborted])
       /\ n_scan_req' = n_scan_req /\ scan_req' = 0 /\ wanted' = {} /\ UNCHANGED missed
  ELSE missed' = missed \cup {Event.call} /\ UNCHANGED <<scans, n_scan_req, scan_req, wanted>>

(* n_cfg80211_scan_done: nothing happens without a request.                  *)
ScanDone(aborted) ==
  IF n_scan_req # 0
  THEN /\ scans' = Append(scans, [req |-> n_scan_req, aborted |-> aborted])
       /\ n_scan_req' = 0 /\ scan_req' = 0 /\ wanted' = {} /\ UNCHANGED missed
  ELSE missed' = missed \cup {Event.call} /\ UNCHANGED <<scans, n_scan_req, scan_req, wanted>>

ScanDoneCallback ==
  /\ Dispatch({"SCAN_DONE"}) /\ ScanDone(FALSE)
  /\ UNCHANGED <<mlmeVars, cookieVars, fault, connected, reports, probed, overlap,
                 badAssoc, lostCookies>>

(* Mutant: the end of an aborted scan is not reported. *)
AbortIgnored ==
  /\ Dispatch({"SCAN_ABORTED"}) /\ UNCHANGED <<scans, n_scan_req, scan_req, wanted, missed>>
  /\ UNCHANGED <<mlmeVars, cookieVars, fault, connected, reports, probed, overlap,
                 badAssoc, lostCookies>>

ScanAbortCallback ==
  /\ Dispatch({"SCAN_ABORTED"}) /\ ScanDone(TRUE)
  /\ UNCHANGED <<mlmeVars, cookieVars, fault, connected, reports, probed, overlap,
                 badAssoc, lostCookies>>

(* A result is told to cfg80211; the last one (seq 0) ends the scan.         *)
ScanResCallback ==
  /\ Dispatch({"SCAN_RESULT"})
  /\ IF Event.ok THEN ScanDone(FALSE) ELSE UNCHANGED <<scans, n_scan_req, scan_req, wanted, missed>>
  /\ UNCHANGED <<mlmeVars, cookieVars, fault, connected, reports, probed, overlap,
                 badAssoc, lostCookies>>

(* cfg80211_rx_assoc_resp is given the bss of the latest assoc call.         *)
AssocRespCallback ==
  /\ Dispatch({"ASSOCIATE"})
  /\ fault' = (Event.ok /\ bss = None)
  /\ connected' = IF Event.ok THEN bss ELSE None
  /\ UNCHANGED <<n_scan_req, mlmeVars, cookieVars, scan_req, scans, wanted, reports, history>>

(* Mutant: cfg80211 is not told of a deauthentication by the access point. *)
DeauthNotTold ==
  /\ Dispatch({"DEAUTHENTICATE", "DISASSOCIATE"})
  /\ connected' = connected
  /\ UNCHANGED <<n_scan_req, mlmeVars, cookieVars, fault, scan_req, scans, wanted, reports,
                 history>>

(* cfg80211_tx_mlme_mgmt: cfg80211 lets go of the access point if it is the  *)
(* one the frame is about.                                                   *)
DeauthCallback ==
  /\ Dispatch({"DEAUTHENTICATE", "DISASSOCIATE"})
  /\ connected' = IF connected = Event.bss THEN None ELSE connected
  /\ UNCHANGED <<n_scan_req, mlmeVars, cookieVars, fault, scan_req, scans, wanted, reports,
                 history>>

(* umac_event_connect: the access point comes into the peer table once.      *)
NewStation ==
  /\ Dispatch({"NEW_STATION"})
  /\ bssid' = Event.bss
  /\ peers' = peers \cup {Event.bss}
  /\ UNCHANGED <<n_scan_req, bss, cookieVars, fault, cfgVars, history>>

DelStation ==
  /\ Dispatch({"DEL_STATION"})
  /\ peers' = peers \ {Event.bss}
  /\ UNCHANGED <<n_scan_req, bss, bssid, cookieVars, fault, cfgVars, history>>

(* cookie_rsp_callbk_fn: the pair of cookies is kept, memory permitting.     *)
CookieRspCallback ==
  /\ Dispatch({"COOKIE_RESP"})
  /\ \/ /\ cookie_list' = cookie_list \cup {[host |-> Event.call, rpu |-> Event.call]}
        /\ UNCHANGED lostCookies
     \/ /\ Cardinality(lostCookies) < MaxFails
        /\ lostCookies' = lostCookies \cup {Event.call}
        /\ UNCHANGED cookie_list
  /\ UNCHANGED <<n_scan_req, mlmeVars, cookie_g, fault, cfgVars, probed, missed, overlap,
                 badAssoc>>

Report(cookie) == reports' = Append(reports, [frame |-> Event.call, cookie |-> cookie])
Matching == {c \in cookie_list : c.rpu = Event.call}

(* Mutant: the pair of cookies is not deleted. *)
PairStays ==
  /\ Dispatch({"FRAME_TX_STATUS"})
  /\ \/ Matching = {} /\ Report(0)
     \/ \E c \in Matching : Report(c.host)
  /\ UNCHANGED <<n_scan_req, mlmeVars, cookieVars, fault, scan_req, scans, wanted, connected,
                 history>>

(* tx_status_callbk_fn: all pairs with the RPU's cookie go, one of them has  *)
(* the cookie that is reported (the last in the list); 0 if there is none.   *)
TxStatusCallback ==
  /\ Dispatch({"FRAME_TX_STATUS"})
  /\ \/ Matching = {} /\ Report(0)
     \/ \E c \in Matching : Report(c.host)
  /\ cookie_list' = cookie_list \ Matching
  /\ UNCHANGED <<n_scan_req, mlmeVars, cookie_g, fault, scan_req, scans, wanted, connected,
                 history>>
-----------------------------------------------------------------------------
(* The RPU.                                                                  *)
Command == Head(cmdq)
Take(cmd) ==
  /\ cmdq # <<>> /\ Command.cmd = cmd /\ cmdq' = Tail(cmdq)
  /\ UNCHANGED <<pc, boundVars, n_scan_req, mlmeVars, cookieVars, fault, cfgVars, missed,
                 overlap, badAssoc, lostCookies>>
Ev(event, b, call, ok) == [event |-> event, bss |-> b, call |-> call, ok |-> ok]
Tell(events) == evtq' = evtq \o events
Leave == IF rpu.bss = None THEN <<>> ELSE <<Ev("DEL_STATION", rpu.bss, 0, TRUE)>>

RpuScan ==
  /\ Take("TRIGGER_SCAN")
  /\ rpu' = [rpu EXCEPT !.scan = Command.call]
  /\ probed' = Command.ssids
  /\ Tell(<<Ev("TRIGGER_SCAN_START", None, Command.call, TRUE)>>)

RpuScanEnds ==
  /\ rpu.scan # 0
  /\ \/ Tell(<<Ev("SCAN_DONE", None, rpu.scan, TRUE)>>)
     \/ Tell(<<Ev("SCAN_ABORTED", None, rpu.scan, TRUE)>>)
     \/ Tell(<<Ev("SCAN_RESULT", None, rpu.scan, FALSE), Ev("SCAN_RESULT", None, rpu.scan, TRUE)>>)
  /\ rpu' = [rpu EXCEPT !.scan = 0] /\ probed' = {}
  /\ UNCHANGED <<pc, boundVars, n_scan_req, mlmeVars, cookieVars, cmdq, fault, cfgVars,
                 missed, overlap, badAssoc, lostCookies>>

RpuAuth ==
  /\ Take("AUTHENTICATE") /\ UNCHANGED <<rpu, probed>>
  /\ Tell(<<Ev("AUTHENTICATE", Command.bss, Command.call, TRUE)>>)

(* The RPU leaves the access point it had and joins the new one, or does not *)
RpuAssoc ==
  /\ Take("ASSOCIATE") /\ UNCHANGED probed
  /\ \E ok \in BOOLEAN :
        /\ rpu' = [rpu EXCEPT !.bss = IF ok THEN Command.bss ELSE None]
        /\ Tell(Leave \o <<Ev("ASSOCIATE", Command.bss, Command.call, ok)>>
                \o IF ok THEN <<Ev("NEW_STATION", Command.bss, 0, TRUE)>> ELSE <<>>)

RpuDeauth ==
  /\ Take("DEAUTHENTICATE") /\ UNCHANGED probed
  /\ IF rpu.bss = Command.bss
     THEN /\ Tell(Leave \o <<Ev("DEAUTHENTICATE", Command.bss, Command.call, TRUE)>>)
          /\ rpu' = [rpu EXCEPT !.bss = None]
     ELSE /\ Tell(<<Ev("DEAUTHENTICATE", Command.bss, Command.call, TRUE)>>)
          /\ UNCHANGED rpu

(* The RPU's cookie for a frame is as new as the host's.                     *)
RpuFrame ==
  /\ Take("FRAME") /\ UNCHANGED probed
  /\ rpu' = [rpu EXCEPT !.frames = @ \cup {Command.call}]
  /\ Tell(<<Ev("COOKIE_RESP", None, Command.call, TRUE)>>)

(* The frames go out in any order.                                           *)
RpuFrameSent ==
  /\ \E c \in rpu.frames :
        /\ Tell(<<Ev("FRAME_TX_STATUS", None, c, TRUE)>>)
        /\ rpu' = [rpu EXCEPT !.frames = @ \ {c}]
  /\ UNCHANGED <<pc, boundVars, n_scan_req, mlmeVars, cookieVars, cmdq, fault, cfgVars,
                 history>>

RpuRegisterFrame ==
  /\ Take("REGISTER_FRAME") /\ UNCHANGED <<rpu, probed>>
  /\ Tell(<<Ev("FRAME", None, 0, TRUE)>>)

(* The access point goes away, or sends us away.                             *)
RpuLoses ==
  /\ losses < MaxLosses /\ losses' = losses + 1
  /\ rpu.bss # None
  /\ \E why \in {"DEAUTHENTICATE", "DISASSOCIATE"} :
        Tell(Leave \o <<Ev(why, rpu.bss, 0, TRUE)>>)
  /\ rpu' = [rpu EXCEPT !.bss = None]
  /\ UNCHANGED <<pc, calls, fails, n_scan_req, mlmeVars, cookieVars, cmdq, fault, cfgVars,
                 history>>

(* A frame that is not protected and should be.                              *)
RpuUnprotected ==
  /\ losses < MaxLosses /\ losses' = losses + 1
  /\ rpu.bss # None
  /\ Tell(<<Ev("UNPROT_DEAUTHENTICATE", rpu.bss, 0, TRUE)>>)
  /\ UNCHANGED <<pc, calls, fails, n_scan_req, mlmeVars, cookieVars, cmdq, rpu, fault,
                 cfgVars, history>>
-----------------------------------------------------------------------------
Operation == \/ \E ssids \in SsidLists : Scan(ssids)
             \/ ScanFails \/ MgmtTx \/ MgmtFrameReg \/ Auth \/ Disassoc
             \/ \E b \in Bss : Assoc(b) \/ Deauth(b)

EventTasklet == \/ ScanStartCallback \/ ScanDoneCallback \/ ScanAbortCallback
                \/ ScanResCallback \/ AssocRespCallback \/ DeauthCallback
                \/ NewStation \/ DelStation \/ CookieRspCallback \/ TxStatusCallback

RpuNext == \/ RpuScan \/ RpuScanEnds \/ RpuAuth \/ RpuAssoc \/ RpuDeauth
           \/ RpuFrame \/ RpuFrameSent \/ RpuRegisterFrame

Next == Operation \/ ScanStarted \/ EventTasklet \/ RpuNext \/ RpuLoses \/ RpuUnprotected

Spec == Init /\ [][Next]_vars

(* The caller goes on, the tasklet runs, the RPU works its commands off.     *)
FairSpec == /\ Spec /\ WF_vars(ScanStarted) /\ WF_vars(EventTasklet)
            /\ WF_vars(RpuScan \/ RpuAuth \/ RpuAssoc \/ RpuDeauth \/ RpuFrame
                       \/ RpuRegisterFrame)
            /\ WF_vars(RpuScanEnds)
-----------------------------------------------------------------------------
(* cfg80211_scan_done is called with the request cfg80211 is waiting for,    *)
(* once: the driver holds no request cfg80211 has had back, and a request    *)
(* that was reported done stays so (n_cfg80211_scan_done).                   *)
ScansDoneOnce ==
  /\ n_scan_req # 0 => n_scan_req = scan_req
  /\ \A i, j \in DOMAIN scans : i # j => scans[i].req # scans[j].req
  /\ \A i \in DOMAIN scans : scans[i].req # scan_req

(* The SSIDs cfg80211 named are among those the RPU scans for, when no      *)
(* wildcard stands before a named one in the request, as in the lists of    *)
(* SsidLists (behind a wildcard the last named SSIDs are left out).          *)
NamedSsidsScanned == rpu.scan # 0 => wanted \subseteq probed

(* A scan is of the SSIDs asked for and reported done once.                 *)
ScansAsAsked == ScansDoneOnce /\ NamedSsidsScanned

(* A scan cfg80211 asked for is reported done, unless its end came between   *)
(* the sending of the command and the assignment of n_scan_req.              *)
ScanEnds == scan_req # 0 ~> (scan_req \in {0} \cup missed \/ fault)

(* A frame's status is reported once and under the cookie that mgmt_tx gave  *)
(* for it, or under none if there was no memory to keep the cookie; a pair   *)
(* of cookies does not outlive the report.                                   *)
CookiesMatch ==
  /\ \A i \in DOMAIN reports :
        \/ reports[i].cookie = reports[i].frame
        \/ reports[i].cookie = 0 /\ reports[i].frame \in lostCookies
  /\ \A i, j \in DOMAIN reports : i # j => reports[i].frame # reports[j].frame
  /\ \A c \in cookie_list : \A i \in DOMAIN reports : reports[i].frame # c.rpu

(* When all commands and events have been dealt with and cfg80211 holds the  *)
(* station for connected, the RPU is with that access point, the peer table  *)
(* has it and nothing else, and frames are addressed to it: through          *)
(* deauthentications from either side, losses and failed calls, as long as   *)
(* no assoc or disassoc overtakes the answer to an assoc.                    *)
ConnectedIsTrue ==
  cmdq = <<>> /\ evtq = <<>> /\ ~overlap /\ connected # None =>
     /\ rpu.bss = connected /\ peers = {connected}
     /\ ~badAssoc => bssid = connected
=============================================================================
