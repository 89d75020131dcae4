------------------------------ MODULE Stations ------------------------------
(***************************************************************************)
(* The stations of one interface, their keys and the access point mode:    *)
(* add_key, del_key, the default keys, start_ap, stop_ap, the beacon, and  *)
(* the commands about stations (cfg80211_if.c and default/fmac_api.c), with *)
(* the key data base and the key memory it stands for, and the peer table  *)
(* kept by the RPU's events.                                               *)
(*                                                                          *)
(* cfg80211 makes one call at a time.  A key is named by whose it is: the   *)
(* station, pairwise or group, and its index.  The key memory is a row of   *)
(* cells of 16 bytes; a cell holds the name of the key written to it.       *)
(***************************************************************************)
EXTENDS Naturals, Sequences, FiniteSets, Functions

CONSTANTS Sta,       \* other stations, an access point being one
          None,      \* no station
          MaxPeers,  \* MAX_PEERS: places in the peer table, entries searched
          KeyIdx,    \* key indices of group keys
          MaxCalls,  \* bound: calls made
          MaxQueue,  \* bound: commands on their way when a call is made
          MaxFails   \* bound: allocations and sends that fail

ASSUME StaAssumption == None \notin Sta
ASSUME PeersAssumption == MaxPeers \in Nat \ {0}
ASSUME KeyAssumption == KeyIdx \subseteq 0..5 /\ 0 \in KeyIdx
ASSUME BoundAssumption ==
  MaxCalls \in Nat /\ MaxQueue \in Nat /\ MaxFails \in Nat /\ IsFiniteSet(Sta)

Entries == 1..MaxPeers

(* Suites with a MIC key of their own, and the others. *)
Ciphers == {"TKIP", "CCMP"}
Kinds == {"pairwise", "group"}

(* One entry of the key memory: MIC key, pairwise key, a MIC and an          *)
(* encryption key for each group key index.                                 *)
EntryCells == 15      \* PEER_KEY_TOTAL_LEN
MicCells == 1         \* PEER_MIC_KEY_LEN_16
UnicastCells == 2     \* PEER_UNICAST_KEY_LEN
BcstCells == 2        \* PEER_BCST_KEY_LEN
Cells == 0..(EntryCells * (MaxPeers + 1))

VARIABLES
  if_type,   \* of the interface: "STATION" or "AP"
  bssid,     \* vif_ctx->bssid
  peers,     \* stations in the peer table
  db,        \* peerKeyDB: [peer, valid, ucst, bcst]; ucst and bcst are set
             \* to FALSE (WLAN_OPER_INVALID) by del_key and never back
  keymem,    \* what each cell holds, <<>> at first
  cmdq, evtq,
  beaconing, \* cfg80211: start_ap succeeded, stop_ap not yet
  rpu,       \* the RPU: [ap, stations, keys]
  fault,     \* a copy from a NULL address
  calls, fails,
  cut,       \* history: entries freed with a key in them the RPU was not told
             \* to delete
  unstopped  \* history: a stop_ap was not sent after the table was flushed

vars == <<if_type, bssid, peers, db, keymem, cmdq, evtq, beaconing, rpu, fault, calls,
          fails, cut, unstopped>>

NoKey == <<>>
Key(p, kind, idx) == <<p, kind, idx>>
KeyNames == {Key(p, kind, idx) : p \in Sta, kind \in Kinds, idx \in KeyIdx}

Commands == [cmd : {"NEW_KEY", "DEL_KEY", "SET_KEY", "SET_STATION", "SET_WIPHY",
                    "START_AP", "STOP_AP", "SET_BEACON", "SET_BSS", "DEL_STATION",
                    "ASSOCIATE"},
             peer : Sta \cup {None}, kind : Kinds, idx : KeyIdx, entry : Entries,
             cipher : Ciphers]
Events == [event : {"NEW_STATION", "DEL_STATION"}, peer : Sta]
Installed == [key : KeyNames, entry : Entries, cipher : Ciphers]

TypeOK ==
  /\ if_type \in {"STATION", "AP"} /\ bssid \in Sta \cup {None}
  /\ peers \subseteq Sta /\ Cardinality(peers) <= MaxPeers
  /\ db \in [Entries -> [peer : Sta \cup {None}, valid : BOOLEAN, ucst : BOOLEAN,
                         bcst : BOOLEAN]]
  /\ keymem \in [Cells -> KeyNames \cup {NoKey}]
  /\ cmdq \in Seq(Commands) /\ evtq \in Seq(Events)
  /\ beaconing \in BOOLEAN
  /\ rpu \in [ap : BOOLEAN, stations : SUBSET Sta, keys : SUBSET Installed]
  /\ fault \in BOOLEAN /\ calls \in 0..MaxCalls /\ fails \in 0..MaxFails
  /\ cut \subseteq Entries /\ unstopped \in BOOLEAN

Init ==
  /\ if_type \in {"STATION", "AP"} /\ bssid = None /\ peers = {}
  /\ db = [i \in Entries |-> [peer |-> None, valid |-> FALSE, ucst |-> TRUE, bcst |-> TRUE]]
  /\ keymem = [c \in Cells |-> NoKey]
  /\ cmdq = <<>> /\ evtq = <<>> /\ beaconing = FALSE
  /\ rpu = [ap |-> FALSE, stations |-> {}, keys |-> {}] /\ fault = FALSE
  /\ calls = 0 /\ fails = 0 /\ cut = {} /\ unstopped = FALSE
-----------------------------------------------------------------------------
Begin == /\ ~fault /\ calls < MaxCalls /\ calls' = calls + 1
         /\ Len(cmdq) < MaxQueue

Command(cmd, p, kind, idx, i, cipher) ==
  [cmd |-> cmd, peer |-> p, kind |-> kind, idx |-> idx, entry |-> i, cipher |-> cipher]
Plain(cmd, p) == Command(cmd, p, "group", 0, 1, "CCMP")

Send(c) == cmdq' = Append(cmdq, c) /\ UNCHANGED fails
SendFails == fails < MaxFails /\ fails' = fails + 1 /\ UNCHANGED cmdq
Try(c) == Send(c) \/ SendFails

keyVars == <<db, keymem, cut>>
envVars == <<if_type, evtq, rpu>>

(* A call that cannot allocate its command changes nothing else.            *)
CallFails ==
  /\ Begin /\ SendFails
  /\ UNCHANGED <<bssid, peers, keyVars, envVars, beaconing, fault, unstopped>>

(* The first entry that satisfies P, as the loops over peerKeyDB find it.    *)
First(I) == CHOOSE i \in I : \A j \in I : i <= j
EntriesOf(p) == {i \in Entries : db[i].valid /\ db[i].peer = p}
FreeEntries == {i \in Entries : ~db[i].valid}

(* Mutant: a free entry is taken although the peer has one. *)
AlwaysNewEntry(p) ==
  IF FreeEntries # {} THEN FreeEntries ELSE EntriesOf(p)

(* findValidPeerDBIndex: the valid entry of the peer, or the first free one. *)
FindValidPeerDBIndex(p) ==
  IF EntriesOf(p) # {} THEN EntriesOf(p) ELSE FreeEntries

(* secure_crypto_reg_write                                                   *)
Written(cells, key) == [c \in Cells |-> IF c \in cells THEN key ELSE keymem[c]]

(* Mutant: the key index is left out of the place of a group key. *)
OneGroupKey(i, kind, idx, cipher) ==
  LET entry == (i - 1) * EntryCells
      groupMic == entry + MicCells + UnicastCells
  IN  CASE kind = "pairwise" /\ cipher = "TKIP" -> {entry}
        [] kind = "pairwise" /\ cipher # "TKIP" ->
             {entry + MicCells, entry + MicCells + 1}
        [] kind = "group" /\ cipher = "TKIP" -> {groupMic + idx * MicCells}
        [] OTHER -> LET c == groupMic + 4 * MicCells  IN {c, c + 1}

(* Where the key memory has a key: a suite with a MIC key has only that      *)
(* programmed.  The entry has cells for the group key indices 0 to 3; those  *)
(* of a management group key, 4 and 5, are counted on past them.             *)
Place(i, kind, idx, cipher) ==
  LET entry == (i - 1) * EntryCells
      groupMic == entry + MicCells + UnicastCells
  IN  CASE kind = "pairwise" /\ cipher = "TKIP" -> {entry}
        [] kind = "pairwise" /\ cipher # "TKIP" ->
             {entry + MicCells, entry + MicCells + 1}
        [] kind = "group" /\ cipher = "TKIP" -> {groupMic + idx * MicCells}
        [] OTHER -> LET c == groupMic + 4 * MicCells + idx * BcstCells IN {c, c + 1}

(* program_peer_key and umac_cmd_cfg: the data base and the memory are        *)
(* written, whether the command can be sent or not.                          *)
ProgramPeerKey(p, kind, idx, cipher) ==
  IF FindValidPeerDBIndex(p) = {} THEN UNCHANGED <<keyVars, cmdq, fails>>
  ELSE LET i == First(FindValidPeerDBIndex(p))
       IN  /\ db' = [db EXCEPT ![i].valid = TRUE, ![i].peer = p]
           /\ keymem' = Written(Place(i, kind, idx, cipher), Key(p, kind, idx))
           /\ Try(Command("NEW_KEY", p, kind, idx, i, cipher))
           /\ UNCHANGED cut

(* add_key, pairwise: the peer must be in the peer table.                    *)
AddPairwiseKey(p, cipher) ==
  /\ Begin
  /\ IF p \in peers THEN ProgramPeerKey(p, "pairwise", 0, cipher)
     ELSE UNCHANGED <<keyVars, cmdq, fails>>
  /\ UNCHANGED <<bssid, peers, envVars, beaconing, fault, unstopped>>

(* add_key, group: cfg80211 gives no address.  A station takes the entry of   *)
(* the bssid; a new entry would have its address copied from NULL.  On an     *)
(* access point no entry is found at all.                                     *)
AddGroupKey(idx, cipher) ==
  /\ Begin /\ (if_type = "STATION" => peers # {})
  /\ LET found == if_type = "STATION" /\ EntriesOf(bssid) # {}
         new == if_type = "STATION" /\ EntriesOf(bssid) = {} /\ FreeEntries # {}
     IN  /\ fault' = new
         /\ IF found THEN ProgramPeerKey(bssid, "group", idx, cipher)
            ELSE UNCHANGED <<keyVars, cmdq, fails>>
  /\ UNCHANGED <<bssid, peers, envVars, beaconing, unstopped>>

(* The keys that are installed or on their way to be.                        *)
KeysIn(i) == {k.key : k \in {r \in rpu.keys : r.entry = i}}
             \cup {Key(c.peer, c.kind, c.idx) :
                      c \in {d \in Range(cmdq) : d.cmd = "NEW_KEY" /\ d.entry = i}}

(* The keys a DEL_KEY command is about.                                      *)
Deletes(c, key) ==
  c.cmd = "DEL_KEY" /\ c.peer \in {None, key[1]} /\ c.kind = key[2] /\ c.idx = key[3]

(* del_key: the cipher type of the entry is invalid from now on; when both    *)
(* are, the entry is free.  When no entry was found, that is asked of the     *)
(* first.  mac_addr is NULL for a group key: the first valid entry is taken.  *)
DelKey(p, kind, idx) ==
  /\ Begin
  /\ LET found == {i \in Entries : db[i].valid /\ (p = None \/ db[i].peer = p)}
         i == IF found = {} THEN 1 ELSE First(found)
         ucst == db[i].ucst /\ ~(found # {} /\ kind = "pairwise")
         bcst == db[i].bcst /\ ~(found # {} /\ kind = "group")
         free == ~ucst /\ ~bcst
         c == Command("DEL_KEY", p, kind, idx, 1, "CCMP")
     IN  /\ db' = [db EXCEPT ![i].ucst = ucst, ![i].bcst = bcst,
                             ![i].valid = @ /\ ~free]
         /\ Try(c)
         /\ cut' = IF free /\ \E key \in KeysIn(i) : fails' # fails \/ ~Deletes(c, key)
                   THEN cut \cup {i} ELSE cut
  /\ UNCHANGED <<bssid, peers, keymem, envVars, beaconing, fault, unstopped>>

(* cfg80211 asks for a pairwise key to be deleted while the station is there, *)
(* and deletes group keys by index.                                           *)
DelPairwiseKey(p) == p \in peers /\ DelKey(p, "pairwise", 0)
DelGroupKey(idx) == DelKey(None, "group", idx)

(* set_key: the length of the key is 0, so nothing is written to the memory.  *)
SetKey ==
  /\ Begin /\ Try(Plain("SET_KEY", None))
  /\ UNCHANGED <<bssid, peers, keyVars, envVars, beaconing, fault, unstopped>>

(* set_default_key and set_default_mgmt_key differ in a flag.                 *)
SetDefKey == SetKey
SetDefMgmtKey == SetKey
-----------------------------------------------------------------------------
(* What fmac_assoc does to the bssid (see Mlme for the rest).                *)
Assoc(p) ==
  /\ Begin /\ if_type = "STATION"
  /\ bssid' = p /\ Try(Plain("ASSOCIATE", p))
  /\ UNCHANGED <<peers, keyVars, envVars, beaconing, fault, unstopped>>

FmacChgSta(p) == Try(Plain("SET_STATION", p))

ChgSta(p) ==
  /\ Begin /\ p \in peers /\ FmacChgSta(p)
  /\ UNCHANGED <<bssid, peers, keyVars, envVars, beaconing, fault, unstopped>>

(* start_ap: the channel, then the peer table is flushed, then the command.   *)
FmacStartAp(ok) ==
  \/ ~ok /\ SendFails /\ UNCHANGED peers
  \/ ~ok /\ fails < MaxFails /\ fails' = fails + 1 /\ peers' = {}
         /\ cmdq' = Append(cmdq, Plain("SET_WIPHY", None))
  \/ ok /\ peers' = {} /\ UNCHANGED fails
        /\ cmdq' = cmdq \o <<Plain("SET_WIPHY", None), Plain("START_AP", None)>>

StartAp ==
  /\ Begin /\ if_type = "AP" /\ ~beaconing
  /\ \E ok \in BOOLEAN : FmacStartAp(ok) /\ beaconing' = ok
  /\ UNCHANGED <<bssid, keyVars, envVars, fault, unstopped>>

(* stop_ap flushes the table first.                                           *)
FmacStopAp == peers' = {} /\ Try(Plain("STOP_AP", None))

StopAp ==
  /\ Begin /\ beaconing
  /\ FmacStopAp
  /\ beaconing' = (fails' # fails)
  /\ unstopped' = (unstopped \/ fails' # fails)
  /\ UNCHANGED <<bssid, keyVars, envVars, fault>>

FmacChgBcn == Try(Plain("SET_BEACON", None))

ChgBcn ==
  /\ Begin /\ beaconing /\ FmacChgBcn
  /\ UNCHANGED <<bssid, peers, keyVars, envVars, beaconing, fault, unstopped>>

FmacSetBss == Try(Plain("SET_BSS", None))

ChgBss ==
  /\ Begin /\ beaconing /\ FmacSetBss
  /\ UNCHANGED <<bssid, peers, keyVars, envVars, beaconing, fault, unstopped>>

FmacDelSta(p) == Try(Plain("DEL_STATION", p))

(* The peer stays in the table until the RPU says that it is gone.            *)
DelSta(p) ==
  /\ Begin /\ beaconing /\ FmacDelSta(p)
  /\ UNCHANGED <<bssid, peers, keyVars, envVars, beaconing, fault, unstopped>>
-----------------------------------------------------------------------------
(* The event tasklet (umac_event_connect).                                   *)
NewStation ==
  /\ ~fault /\ evtq # <<>> /\ Head(evtq).event = "NEW_STATION"
  /\ evtq' = Tail(evtq)
  /\ bssid' = IF if_type = "STATION" THEN Head(evtq).peer ELSE bssid
  /\ peers' = IF Cardinality(peers) < MaxPeers THEN peers \cup {Head(evtq).peer} ELSE peers
  /\ UNCHANGED <<if_type, keyVars, cmdq, beaconing, rpu, fault, calls, fails, unstopped>>

(* Mutant: a station that left stays in the table. *)
PeerStays ==
  /\ ~fault /\ evtq # <<>> /\ Head(evtq).event = "DEL_STATION"
  /\ evtq' = Tail(evtq)
  /\ peers' = peers
  /\ UNCHANGED <<if_type, bssid, keyVars, cmdq, beaconing, rpu, fault, calls, fails,
                 unstopped>>

DelStation ==
  /\ ~fault /\ evtq # <<>> /\ Head(evtq).event = "DEL_STATION"
  /\ evtq' = Tail(evtq)
  /\ peers' = peers \ {Head(evtq).peer}
  /\ UNCHANGED <<if_type, bssid, keyVars, cmdq, beaconing, rpu, fault, calls, fails,
                 unstopped>>
-----------------------------------------------------------------------------
(* The RPU.                                                                  *)
Take(cmds) ==
  /\ ~fault /\ cmdq # <<>> /\ Head(cmdq).cmd \in cmds /\ cmdq' = Tail(cmdq)
  /\ UNCHANGED <<if_type, bssid, peers, keyVars, beaconing, fault, calls, fails, unstopped>>

RpuOther == Take({"SET_KEY", "SET_STATION", "SET_WIPHY", "SET_BEACON", "SET_BSS"})
            /\ UNCHANGED <<rpu, evtq>>

(* A key of a station that is not there is not kept.                          *)
RpuNewKey ==
  /\ Take({"NEW_KEY"}) /\ UNCHANGED evtq
  /\ LET c == Head(cmdq)
         key == Key(c.peer, c.kind, c.idx)
     IN  rpu' = IF c.peer \in rpu.stations
                THEN [rpu EXCEPT !.keys = {k \in @ : k.key # key} \cup
                        {[key |-> key, entry |-> c.entry, cipher |-> c.cipher]}]
                ELSE rpu

RpuDelKey ==
  /\ Take({"DEL_KEY"}) /\ UNCHANGED evtq
  /\ LET c == Head(cmdq)
     IN  rpu' = [rpu EXCEPT !.keys =
                   {k \in @ : ~Deletes(c, k.key)}]

Event(e, p) == [event |-> e, peer |-> p]

(* The stations of P go, in any order, with their keys, and those of new come. *)
Gone(P, ap, new) ==
  /\ rpu' = [ap |-> ap, stations |-> (rpu.stations \ P) \cup Range(new),
             keys |-> {k \in rpu.keys : k.key[1] \notin P}]
  /\ LET gone == P \cap rpu.stations
     IN  \E order \in Bijection(1..Cardinality(gone), gone) :
           evtq' = evtq \o [i \in 1..Cardinality(gone) |-> Event("DEL_STATION", order[i])]
                   \o [i \in 1..Len(new) |-> Event("NEW_STATION", new[i])]

RpuAp ==
  \/ Take({"START_AP"}) /\ rpu' = [rpu EXCEPT !.ap = TRUE] /\ UNCHANGED evtq
  \/ Take({"STOP_AP"}) /\ Gone(Sta, FALSE, <<>>)
  \/ /\ Take({"DEL_STATION"})
     /\ Gone(IF Head(cmdq).peer = None THEN Sta ELSE {Head(cmdq).peer}, rpu.ap, <<>>)

(* The interface leaves the access point it had and joins another, or fails.  *)
RpuAssoc ==
  /\ Take({"ASSOCIATE"})
  /\ \E new \in {<<>>, <<Head(cmdq).peer>>} : Gone(Sta, FALSE, new)

(* A station joins the access point.                                          *)
RpuJoins(p) ==
  /\ ~fault /\ p \notin rpu.stations /\ Len(evtq) < 2
  /\ rpu.ap /\ Cardinality(rpu.stations) < MaxPeers
  /\ rpu' = [rpu EXCEPT !.stations = @ \cup {p}]
  /\ evtq' = Append(evtq, Event("NEW_STATION", p))
  /\ UNCHANGED <<if_type, bssid, peers, keyVars, cmdq, beaconing, fault, calls, fails,
                 unstopped>>

RpuLeaves(p) ==
  /\ ~fault /\ p \in rpu.stations /\ Len(evtq) < 2
  /\ Gone({p}, rpu.ap, <<>>)
  /\ UNCHANGED <<if_type, bssid, peers, keyVars, cmdq, beaconing, fault, calls, fails,
                 unstopped>>
-----------------------------------------------------------------------------
Operation ==
  \/ CallFails \/ SetDefKey \/ SetDefMgmtKey \/ StartAp \/ StopAp \/ ChgBcn \/ ChgBss
  \/ \E p \in Sta : \/ Assoc(p) \/ DelPairwiseKey(p) \/ ChgSta(p) \/ DelSta(p)
                    \/ \E cipher \in Ciphers : AddPairwiseKey(p, cipher)
  \/ \E idx \in KeyIdx : \/ DelGroupKey(idx)
                         \/ \E cipher \in Ciphers : AddGroupKey(idx, cipher)
  \/ DelSta(None)

RpuNext == RpuNewKey \/ RpuDelKey \/ RpuAp \/ RpuAssoc \/ RpuOther
           \/ \E p \in Sta : RpuJoins(p) \/ RpuLeaves(p)

Next == Operation \/ NewStation \/ DelStation \/ RpuNext

Spec == Init /\ [][Next]_vars
-----------------------------------------------------------------------------
(* A station has one entry in the key data base, however often it leaves,     *)
(* comes back and is given keys (findValidPeerDBIndex).                       *)
OneEntryPerPeer == \A p \in Sta : Cardinality(EntriesOf(p)) <= 1

(* Where the RPU looks for a key it was told of, and not told to delete, the  *)
(* memory holds that key or a newer one of the same station, kind and index:  *)
(* entries and indices do not overlap and an entry is given away only when    *)
(* its keys are deleted, with commands still on their way.  A management      *)
(* group key is the exception, both ways: an entry has cells for the indices  *)
(* 0 to 3 and program_peer_key does not check, so 4 and 5 are written to the  *)
(* next entry (or to the group keys of this one), and a key that lies there   *)
(* and a management group key write over each other.  Left out are the        *)
(* entries del_key freed with another key in them (a cipher type once invalid *)
(* stays so) or without the command being sent.                               *)
Deleting(k) == \E c \in Range(cmdq) : Deletes(c, k.key)

Management(key) == key[3] > 3

Overrun(k, c) == keymem[c] # NoKey /\ Management(keymem[c]) # Management(k.key)

KeysInPlace ==
  \A k \in rpu.keys : k.entry \notin cut /\ ~Deleting(k) =>
     \A c \in Place(k.entry, k.key[2], k.key[3], k.cipher) :
        keymem[c] = k.key \/ Overrun(k, c)

(* When commands and events have been dealt with, the peer table has the      *)
(* stations the RPU has, unless a stop_ap flushed the table and then could    *)
(* not be sent.                                                               *)
PeersMatch ==
  (cmdq = <<>> /\ evtq = <<>> /\ ~unstopped) => peers = rpu.stations
=============================================================================
