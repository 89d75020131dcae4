-------------------------- MODULE StationsProofs --------------------------
(***************************************************************************)
(* Proofs about Stations, for every value of the constants: the types of   *)
(* its state, that a station has one entry in the key data base, that the  *)
(* key memory holds what the RPU was told of, and that the peer table is   *)
(* the RPU's stations once commands and events have been dealt with.       *)
(*                                                                         *)
(* The invariants say which keys still count - installed or on their way,  *)
(* and not to be deleted - and what the RPU's stations were before each    *)
(* event that waits for the driver.                                        *)
(***************************************************************************)
EXTENDS Stations, FiniteSetTheorems, SequenceTheorems, WellFoundedInduction, TLAPS

(* Entries in use belong to a station.  What the RPU is to join is one, and *)
(* only a station joins; a pairwise key has the index 0.                    *)
Allowed == {c \in Commands :
  /\ c.cmd = "ASSOCIATE" => c.peer \in Sta /\ if_type = "STATION"
  /\ c.cmd = "NEW_KEY" /\ c.kind = "pairwise" => c.idx = 0}
OwnedInv ==
  /\ \A i \in Entries : db[i].valid => db[i].peer \in Sta
  /\ cmdq \in Seq(Allowed)

TypeInv == TypeOK /\ OwnedInv

(* The key a NEW_KEY command is about, and the keys that count: installed   *)
(* and not to be deleted, or on their way and not deleted by what follows.  *)
KeyOf(c) == [key |-> Key(c.peer, c.kind, c.idx), entry |-> c.entry, cipher |-> c.cipher]
LiveIn(keys, q) ==
  {k \in keys : \A n \in 1..Len(q) : ~Deletes(q[n], k.key)}
  \cup {KeyOf(q[m]) : m \in {n \in 1..Len(q) :
          /\ q[n].cmd = "NEW_KEY"
          /\ \A l \in 1..Len(q) : n < l => ~Deletes(q[l], KeyOf(q[n]).key)}}
Live == LiveIn(rpu.keys, cmdq)

(* The entry is the station's and the memory has the key, but where a       *)
(* management group key and another key lie over each other.                *)
Held(k) ==
  /\ db[k.entry].valid /\ db[k.entry].peer = k.key[1]
  /\ \A c \in Place(k.entry, k.key[2], k.key[3], k.cipher) :
        keymem[c] = k.key \/ Overrun(k, c)

KeyInv ==
  /\ \A k \in Live : k.entry \notin cut => Held(k)
  /\ \A k \in rpu.keys : k.key[2] = "pairwise" => k.key[3] = 0

(* Entries in use have different peers.                                     *)
PeersDiffer == \A i, j \in Entries :
  db[i].valid /\ db[j].valid /\ db[i].peer = db[j].peer => i = j

(* A STOP_AP is on its way; each START_AP is followed by one.               *)
Stops(q) == \E n \in 1..Len(q) : q[n].cmd = "STOP_AP"
Stopped(q) == \A n \in 1..Len(q) : q[n].cmd = "START_AP" =>
                 \E m \in 1..Len(q) : n < m /\ q[m].cmd = "STOP_AP"

(* The RPU has stations only as an access point, and unless the driver has  *)
(* failed to say so it is one only while it is beaconing or until the       *)
(* command that stops it.                                                   *)
ApInv ==
  /\ if_type = "AP" /\ rpu.stations # {} => rpu.ap
  /\ ~beaconing /\ ~unstopped => (rpu.ap => Stops(cmdq)) /\ Stopped(cmdq)

(* S: the RPU's stations before each event of q, and after the last.        *)
History(S, q, stations) ==
  /\ S \in [1..(Len(q) + 1) -> SUBSET Sta]
  /\ S[Len(q) + 1] = stations
  /\ \A n \in 1..Len(q) :
        S[n + 1] = IF q[n].event = "NEW_STATION" THEN S[n] \cup {q[n].peer}
                                                 ELSE S[n] \ {q[n].peer}
  /\ \A n \in 1..(Len(q) + 1) : Cardinality(S[n]) <= MaxPeers

(* The table has none but the stations there were, and one it has not will  *)
(* be reported gone, at once or when the access point stops.                *)
Told(S) ==
  /\ peers \subseteq S[1]
  /\ \A p \in S[1] \ peers :
        \/ unstopped \/ Stops(cmdq)
        \/ \E n \in 1..Len(evtq) : evtq[n] = Event("DEL_STATION", p)
PeerInv == \E S \in [1..(Len(evtq) + 1) -> SUBSET Sta] :
              History(S, evtq, rpu.stations) /\ Told(S)
-----------------------------------------------------------------------------
(* Sequences: what appending e does, and what taking the head away does.    *)
LEMMA AppendFacts ==
  ASSUME NEW X, NEW q \in Seq(X), NEW e \in X
  PROVE /\ Append(q, e) \in Seq(X) /\ Len(Append(q, e)) = Len(q) + 1 /\ Len(q) \in Nat
        /\ \A i \in 1..Len(q) : Append(q, e)[i] = q[i]
        /\ Append(q, e)[Len(q) + 1] = e
OBVIOUS

LEMMA TailFacts ==
  ASSUME NEW X, NEW q \in Seq(X), q # <<>>
  PROVE /\ Tail(q) \in Seq(X) /\ Len(Tail(q)) = Len(q) - 1 /\ Len(q) \in Nat /\ Len(q) > 0
        /\ \A i \in 1..(Len(q) - 1) : Tail(q)[i] = q[i + 1]
        /\ Head(q) = q[1] /\ Head(q) \in X
<1>1. Len(q) \in Nat /\ Len(q) > 0
  BY EmptySeq
<1> QED BY <1>1

LEMMA AppendTwo ==
  ASSUME NEW X, NEW q \in Seq(X), NEW a \in X, NEW b \in X
  PROVE q \o <<a, b>> = Append(Append(q, a), b)
OBVIOUS

(* What is in a sequence stays when one more comes, but for what the head   *)
(* was when that is taken.                                                  *)
LEMMA InAppend ==
  ASSUME NEW X, NEW q \in Seq(X), NEW e \in X
  PROVE \A i \in 1..Len(Append(q, e)) :
           \/ i \in 1..Len(q) /\ Append(q, e)[i] = q[i]
           \/ i = Len(q) + 1 /\ Append(q, e)[i] = e
<1>1. \A i \in 1..(Len(q) + 1) : i \in 1..Len(q) \/ i = Len(q) + 1
  BY AppendFacts
<1> QED BY <1>1, AppendFacts

LEMMA InTail ==
  ASSUME NEW X, NEW q \in Seq(X), q # <<>>
  PROVE /\ \A i \in 1..Len(Tail(q)) : i + 1 \in 1..Len(q) /\ Tail(q)[i] = q[i + 1]
        /\ \A i \in 1..Len(q) : i = 1 \/ (i - 1 \in 1..Len(Tail(q)) /\ Tail(q)[i - 1] = q[i])
<1>1. \A i \in 1..(Len(q) - 1) : i + 1 \in 1..Len(q) /\ Tail(q)[i] = q[i + 1]
  BY TailFacts
<1>2. ASSUME NEW i \in 1..Len(q), i # 1
      PROVE i - 1 \in 1..(Len(q) - 1) /\ Tail(q)[i - 1] = q[i]
  <2>1. i - 1 \in 1..(Len(q) - 1) /\ (i - 1) + 1 = i
    BY <1>2, TailFacts
  <2> QED BY <1>1, <2>1
<1> QED BY <1>1, <1>2, TailFacts

(* A set of natural numbers that has one has a least one.                   *)
LEMMA MinByOrder ==
  ASSUME NEW R, IsWellFoundedOn(R, Nat),
         \A x, y \in Nat : <<y, x>> \in R <=> y < x,
         NEW T \in SUBSET Nat, T # {}
  PROVE \E x \in T : \A y \in T : x <= y
<1>1. PICK x \in T : \A y \in T : <<y, x>> \notin R
  BY WFMin
<1>2. ASSUME NEW y \in T PROVE x <= y
  <2>1. <<y, x>> \notin R
    BY <1>1
  <2>2. x \in Nat /\ y \in Nat
    OBVIOUS
  <2> QED BY <2>1, <2>2
<1> QED BY <1>2

LEMMA LeastExists ==
  ASSUME NEW T \in SUBSET Nat, T # {}
  PROVE \E x \in T : \A y \in T : x <= y
<1> DEFINE R == OpToRel(<, Nat)
<1>1. IsWellFoundedOn(R, Nat)
  BY NatLessThanWellFounded
<1>2. \A x, y \in Nat : <<y, x>> \in R <=> y < x
  BY DEF OpToRel
<1> HIDE DEF R
<1> QED BY <1>1, <1>2, MinByOrder

(* The first of a set of entries is one of them.                            *)
LEMMA FirstIsOne ==
  ASSUME NEW I \in SUBSET Entries, I # {}
  PROVE First(I) \in I
<1>1. I \in SUBSET Nat
  BY PeersAssumption DEF Entries
<1>2. \E i \in I : \A j \in I : i <= j
  BY <1>1, LeastExists
<1> QED BY <1>2 DEF First
-----------------------------------------------------------------------------
(* Types.                                                                   *)

(* A call is counted, and a failure.                                        *)
LEMMA Numbers ==
  ASSUME TypeOK
  PROVE /\ calls < MaxCalls => calls + 1 \in 0..MaxCalls
        /\ fails < MaxFails => fails + 1 \in 0..MaxFails
        /\ fails < MaxFails => fails + 1 # fails
<1>1. calls \in 0..MaxCalls /\ fails \in 0..MaxFails
  BY DEF TypeOK
<1> QED BY <1>1, BoundAssumption

(* Commands are of the kinds there are.                                     *)
CmdNames == {"NEW_KEY", "DEL_KEY", "SET_KEY", "SET_STATION", "SET_WIPHY", "START_AP",
             "STOP_AP", "SET_BEACON", "SET_BSS", "DEL_STATION", "ASSOCIATE"}

LEMMA CommandMade ==
  ASSUME NEW cmd \in CmdNames, NEW p \in Sta \cup {None}, NEW kind \in Kinds,
         NEW idx \in KeyIdx, NEW i \in Entries, NEW cipher \in Ciphers
  PROVE /\ Command(cmd, p, kind, idx, i, cipher) \in Commands
        /\ Command(cmd, p, kind, idx, i, cipher).cmd = cmd
        /\ Command(cmd, p, kind, idx, i, cipher).peer = p
BY DEF Command, Commands, CmdNames

LEMMA PlainMade ==
  ASSUME NEW cmd \in CmdNames, NEW p \in Sta \cup {None}
  PROVE Plain(cmd, p) \in Commands /\ Plain(cmd, p).cmd = cmd /\ Plain(cmd, p).peer = p
<1>1. "group" \in Kinds /\ 0 \in KeyIdx /\ 1 \in Entries /\ "CCMP" \in Ciphers
  BY KeyAssumption, PeersAssumption DEF Kinds, Entries, Ciphers
<1> QED BY <1>1 DEF Plain, Command, Commands, CmdNames

(* Commands that change neither keys nor the access point.                  *)
QuietNames == {"SET_KEY", "SET_STATION", "SET_WIPHY", "SET_BEACON", "SET_BSS", "DEL_STATION"}
Quiet == {c \in Commands : \/ c.cmd \in QuietNames
                           \/ c.cmd = "ASSOCIATE" /\ c.peer \in Sta /\ if_type = "STATION"}

(* Calls that send one of these and change nothing else.                    *)
SendsQuiet ==
  /\ UNCHANGED <<peers, keyVars, envVars, beaconing, fault, unstopped>>
  /\ bssid' \in Sta \cup {None} /\ calls' \in 0..MaxCalls /\ fails' \in 0..MaxFails
  /\ cmdq' = cmdq \/ \E c \in Quiet : cmdq' = Append(cmdq, c)

LEMMA TriesQuiet ==
  ASSUME TypeOK, NEW c \in Quiet, Begin, Try(c), bssid' \in Sta \cup {None},
         UNCHANGED <<peers, keyVars, envVars, beaconing, fault, unstopped>>
  PROVE SendsQuiet
<1>1. calls' \in 0..MaxCalls
  BY Numbers DEF Begin
<1>2. fails' \in 0..MaxFails /\ (cmdq' = cmdq \/ cmdq' = Append(cmdq, c))
  BY Numbers DEF Try, Send, SendFails, TypeOK
<1> QED BY <1>1, <1>2 DEF SendsQuiet

LEMMA QuietMade ==
  ASSUME NEW cmd \in QuietNames, NEW p \in Sta \cup {None}
  PROVE Plain(cmd, p) \in Quiet
<1>1. cmd \in CmdNames
  BY DEF CmdNames, QuietNames
<1> QED BY <1>1, PlainMade DEF Quiet

QuietCall ==
  \/ CallFails \/ SetDefKey \/ SetDefMgmtKey \/ ChgBcn \/ ChgBss \/ DelSta(None)
  \/ \E p \in Sta : Assoc(p) \/ ChgSta(p) \/ DelSta(p)

LEMMA QuietCallDoes ==
  ASSUME TypeOK, QuietCall
  PROVE SendsQuiet
<1> DEFINE P == Sta \cup {None}
<1>0. bssid \in P /\ None \in P
  BY DEF TypeOK
<1>1. CASE CallFails
  <2>1. calls' \in 0..MaxCalls
    BY <1>1, Numbers DEF CallFails, Begin
  <2>2. fails' \in 0..MaxFails /\ cmdq' = cmdq
    BY <1>1, Numbers DEF CallFails, SendFails
  <2> QED BY <1>0, <1>1, <2>1, <2>2 DEF CallFails, SendsQuiet
<1>2. CASE SetKey
  <2>1. Plain("SET_KEY", None) \in Quiet
    BY QuietMade DEF QuietNames
  <2> QED BY <1>0, <1>2, <2>1, TriesQuiet DEF SetKey
<1>3. CASE ChgBcn
  <2>1. Plain("SET_BEACON", None) \in Quiet
    BY QuietMade DEF QuietNames
  <2> QED BY <1>0, <1>3, <2>1, TriesQuiet DEF ChgBcn, FmacChgBcn
<1>4. CASE ChgBss
  <2>1. Plain("SET_BSS", None) \in Quiet
    BY QuietMade DEF QuietNames
  <2> QED BY <1>0, <1>4, <2>1, TriesQuiet DEF ChgBss, FmacSetBss
<1>5. ASSUME NEW p \in P, DelSta(p) PROVE SendsQuiet
  <2>1. Plain("DEL_STATION", p) \in Quiet
    BY QuietMade DEF QuietNames
  <2> QED BY <1>0, <1>5, <2>1, TriesQuiet DEF DelSta, FmacDelSta
<1>6. ASSUME NEW p \in Sta, ChgSta(p) PROVE SendsQuiet
  <2>1. Plain("SET_STATION", p) \in Quiet
    BY QuietMade DEF QuietNames
  <2> QED BY <1>0, <1>6, <2>1, TriesQuiet DEF ChgSta, FmacChgSta
<1>7. ASSUME NEW p \in Sta, Assoc(p) PROVE SendsQuiet
  <2>1. Plain("ASSOCIATE", p) \in Quiet
    BY <1>7, PlainMade DEF Quiet, CmdNames, Assoc
  <2> QED BY <1>7, <2>1, TriesQuiet DEF Assoc
<1> QED BY <1>0, <1>1, <1>2, <1>3, <1>4, <1>5, <1>6, <1>7
        DEF QuietCall, SetDefKey, SetDefMgmtKey

(* The queue of commands when one is taken.                                 *)
LEMMA TakeDoes ==
  ASSUME TypeOK, NEW cmds, Take(cmds)
  PROVE /\ cmdq # <<>> /\ cmdq' = Tail(cmdq) /\ Head(cmdq) \in Commands
        /\ Head(cmdq).cmd \in cmds /\ Head(cmdq) = cmdq[1] /\ 1 \in 1..Len(cmdq)
        /\ UNCHANGED <<if_type, bssid, peers, db, keymem, cut, beaconing, fault, calls,
                       fails, unstopped>>
<1>1. cmdq \in Seq(Commands) /\ cmdq # <<>>
  BY DEF TypeOK, Take
<1> QED BY <1>1, TailFacts DEF Take, keyVars

(* A key that is programmed takes the entry of its peer, or a free one.     *)
Programs(p, kind, idx, cipher, i) ==
  /\ i \in Entries /\ (db[i].valid => db[i].peer = p)
  /\ EntriesOf(p) # {} => db[i].valid
  /\ db' = [db EXCEPT ![i].valid = TRUE, ![i].peer = p]
  /\ keymem' = Written(Place(i, kind, idx, cipher), Key(p, kind, idx))
  /\ UNCHANGED cut
  /\ \/ cmdq' = cmdq
     \/ cmdq' = Append(cmdq, Command("NEW_KEY", p, kind, idx, i, cipher))

LEMMA ProgramDoes ==
  ASSUME TypeOK, NEW p, NEW kind, NEW idx, NEW cipher, ProgramPeerKey(p, kind, idx, cipher)
  PROVE /\ fails' \in 0..MaxFails
        /\ \/ UNCHANGED <<keyVars, cmdq>>
           \/ \E i \in Entries : Programs(p, kind, idx, cipher, i)
<1> DEFINE I == FindValidPeerDBIndex(p)
           i == First(I)
<1>1. CASE I = {}
  BY <1>1 DEF ProgramPeerKey, TypeOK
<1>2. CASE I # {}
  <2>1. I \in SUBSET Entries
    BY DEF FindValidPeerDBIndex, EntriesOf, FreeEntries
  <2>2. i \in I
    BY <1>2, <2>1, FirstIsOne
  <2>3. i \in Entries /\ (db[i].valid => db[i].peer = p) /\ (EntriesOf(p) # {} => db[i].valid)
    BY <2>2 DEF FindValidPeerDBIndex, EntriesOf, FreeEntries
  <2>4. /\ db' = [db EXCEPT ![i].valid = TRUE, ![i].peer = p]
        /\ keymem' = Written(Place(i, kind, idx, cipher), Key(p, kind, idx))
        /\ Try(Command("NEW_KEY", p, kind, idx, i, cipher))
        /\ UNCHANGED cut
    BY <1>2 DEF ProgramPeerKey
  <2>5. /\ fails' \in 0..MaxFails
        /\ \/ cmdq' = cmdq
           \/ cmdq' = Append(cmdq, Command("NEW_KEY", p, kind, idx, i, cipher))
    BY <2>4, Numbers DEF Try, Send, SendFails, TypeOK
  <2> HIDE DEF i
  <2>6. Programs(p, kind, idx, cipher, i)
    BY <2>3, <2>4, <2>5 DEF Programs
  <2> QED BY <2>3, <2>5, <2>6
<1> QED BY <1>1, <1>2

(* A call that adds a key, for a station there is; a pairwise key has the   *)
(* index 0.                                                                 *)
AddsKey(p, kind, idx, cipher) ==
  /\ \/ UNCHANGED <<keyVars, cmdq>>
     \/ /\ p \in Sta /\ kind \in Kinds /\ idx \in KeyIdx /\ cipher \in Ciphers
        /\ kind = "pairwise" => idx = 0
        /\ \E i \in Entries : Programs(p, kind, idx, cipher, i)
  /\ UNCHANGED <<bssid, peers, envVars, beaconing, unstopped>>
  /\ fault' \in BOOLEAN /\ calls' \in 0..MaxCalls /\ fails' \in 0..MaxFails

LEMMA AddPairwiseDoes ==
  ASSUME TypeOK, NEW p \in Sta, NEW cipher \in Ciphers, AddPairwiseKey(p, cipher)
  PROVE AddsKey(p, "pairwise", 0, cipher)
<1>1. /\ calls' \in 0..MaxCalls /\ fault' \in BOOLEAN
      /\ UNCHANGED <<bssid, peers, envVars, beaconing, unstopped>>
  BY Numbers DEF AddPairwiseKey, Begin, TypeOK
<1>2. fails \in 0..MaxFails
  BY DEF TypeOK
<1>3. "pairwise" \in Kinds /\ 0 \in KeyIdx
  BY KeyAssumption DEF Kinds
<1>4. CASE p \in peers
  <2>1. ProgramPeerKey(p, "pairwise", 0, cipher)
    BY <1>4 DEF AddPairwiseKey
  <2>2. /\ fails' \in 0..MaxFails
        /\ \/ UNCHANGED <<keyVars, cmdq>>
           \/ \E i \in Entries : Programs(p, "pairwise", 0, cipher, i)
    BY <2>1, ProgramDoes
  <2> QED BY <1>1, <1>3, <2>2 DEF AddsKey
<1>5. CASE p \notin peers
  BY <1>1, <1>2, <1>5 DEF AddPairwiseKey, AddsKey
<1> QED BY <1>4, <1>5

LEMMA AddGroupDoes ==
  ASSUME TypeInv, NEW idx \in KeyIdx, NEW cipher \in Ciphers, AddGroupKey(idx, cipher)
  PROVE AddsKey(bssid, "group", idx, cipher)
<1>0. TypeOK
  BY DEF TypeInv
<1>1. /\ calls' \in 0..MaxCalls /\ fault' \in BOOLEAN
      /\ UNCHANGED <<bssid, peers, envVars, beaconing, unstopped>>
  BY <1>0, Numbers DEF AddGroupKey, Begin
<1>2. fails \in 0..MaxFails
  BY <1>0 DEF TypeOK
<1>3. "group" \in Kinds
  BY DEF Kinds
<1>4. CASE if_type = "STATION" /\ EntriesOf(bssid) # {}
  <2>1. ProgramPeerKey(bssid, "group", idx, cipher)
    BY <1>4 DEF AddGroupKey
  <2>2. /\ fails' \in 0..MaxFails
        /\ \/ UNCHANGED <<keyVars, cmdq>>
           \/ \E i \in Entries : Programs(bssid, "group", idx, cipher, i)
    BY <1>0, <2>1, ProgramDoes
  <2>3. bssid \in Sta
    BY <1>4 DEF TypeInv, OwnedInv, EntriesOf
  <2> QED BY <1>1, <1>3, <2>2, <2>3 DEF AddsKey
<1>5. CASE ~(if_type = "STATION" /\ EntriesOf(bssid) # {})
  BY <1>1, <1>2, <1>5 DEF AddGroupKey, AddsKey
<1> QED BY <1>4, <1>5

(* A key that is deleted: at entry i cipher types become invalid, and when  *)
(* both are the entry is free; a key of it that is not deleted with the     *)
(* command is cut.                                                          *)
Deleted(p, kind, idx) == Command("DEL_KEY", p, kind, idx, 1, "CCMP")
DeletesAt(i, u, b, v, c) ==
  /\ db' = [db EXCEPT ![i].ucst = u, ![i].bcst = b, ![i].valid = v]
  /\ v => db[i].valid
  /\ \/ v = db[i].valid
     \/ cut' = cut \cup {i}
     \/ KeysIn(i) = {}
     \/ /\ cmdq' = Append(cmdq, c)
        /\ \A key \in KeysIn(i) : Deletes(c, key)
  /\ cut' = cut \/ cut' = cut \cup {i}
DeletesKey(p, kind, idx) ==
  /\ \E i \in Entries, u \in BOOLEAN, b \in BOOLEAN, v \in BOOLEAN :
       DeletesAt(i, u, b, v, Deleted(p, kind, idx))
  /\ cmdq' = cmdq \/ cmdq' = Append(cmdq, Deleted(p, kind, idx))
  /\ UNCHANGED <<bssid, peers, keymem, envVars, beaconing, fault, unstopped>>
  /\ calls' \in 0..MaxCalls /\ fails' \in 0..MaxFails

LEMMA DelKeyDoes ==
  ASSUME TypeOK, NEW p, NEW kind, NEW idx, DelKey(p, kind, idx)
  PROVE DeletesKey(p, kind, idx)
<1> DEFINE found == {i \in Entries : db[i].valid /\ (p = None \/ db[i].peer = p)}
           i == IF found = {} THEN 1 ELSE First(found)
           ucst == db[i].ucst /\ ~(found # {} /\ kind = "pairwise")
           bcst == db[i].bcst /\ ~(found # {} /\ kind = "group")
           free == ~ucst /\ ~bcst
           c == Deleted(p, kind, idx)
           left == \E key \in KeysIn(i) : fails' # fails \/ ~Deletes(c, key)
<1>1. /\ db' = [db EXCEPT ![i].ucst = ucst, ![i].bcst = bcst, ![i].valid = @ /\ ~free]
      /\ Try(c)
      /\ cut' = IF free /\ left THEN cut \cup {i} ELSE cut
      /\ Begin
      /\ UNCHANGED <<bssid, peers, keymem, envVars, beaconing, fault, unstopped>>
  BY DEF DelKey, Deleted
<1>2. i \in Entries
  <2>1. 1 \in Entries
    BY PeersAssumption DEF Entries
  <2>2. found \in SUBSET Entries
    OBVIOUS
  <2>3. found # {} => First(found) \in found
    BY <2>2, FirstIsOne
  <2> QED BY <2>1, <2>3
<1>3. calls' \in 0..MaxCalls
  BY <1>1, Numbers DEF Begin
<1> HIDE DEF c
<1>4. /\ fails' \in 0..MaxFails
      /\ \/ cmdq' = cmdq /\ fails' # fails
         \/ cmdq' = Append(cmdq, c) /\ fails' = fails
  BY <1>1, Numbers DEF Try, Send, SendFails, TypeOK
<1>5. \/ ~(free /\ left) /\ cut' = cut
      \/ free /\ left /\ cut' = cut \cup {i}
  BY <1>1
<1>6. ~left /\ fails' = fails => \A key \in KeysIn(i) : Deletes(c, key)
  OBVIOUS
<1>7. ~left /\ fails' # fails => KeysIn(i) = {}
  OBVIOUS
<1> DEFINE v == db[i].valid /\ ~free
<1>8. db' = [db EXCEPT ![i].ucst = ucst, ![i].bcst = bcst, ![i].valid = v]
  BY <1>1
<1>9. ucst \in BOOLEAN /\ bcst \in BOOLEAN /\ v \in BOOLEAN /\ (v => db[i].valid)
  OBVIOUS
<1>10. free \/ v = db[i].valid
  BY <1>2 DEF TypeOK
<1>11. \/ v = db[i].valid
       \/ cut' = cut \cup {i}
       \/ KeysIn(i) = {}
       \/ cmdq' = Append(cmdq, c) /\ \A key \in KeysIn(i) : Deletes(c, key)
  BY <1>4, <1>5, <1>6, <1>7, <1>10
<1>12. cut' = cut \/ cut' = cut \cup {i}
  BY <1>5
<1> HIDE DEF i, ucst, bcst, v
<1>13. DeletesAt(i, ucst, bcst, v, c)
  BY <1>8, <1>9, <1>11, <1>12, Zenon DEF DeletesAt
<1>14. \E j \in Entries, u \in BOOLEAN, b \in BOOLEAN, w \in BOOLEAN : DeletesAt(j, u, b, w, c)
  BY <1>2, <1>9, <1>13, Zenon
<1> QED BY <1>1, <1>3, <1>4, <1>14 DEF DeletesKey, c

(* The access point is started, or fails to with the table flushed or not.  *)
LEMMA StartApDoes ==
  ASSUME TypeOK, StartAp
  PROVE /\ if_type = "AP" /\ ~beaconing
        /\ UNCHANGED <<bssid, keyVars, envVars, fault, unstopped>>
        /\ calls' \in 0..MaxCalls /\ fails' \in 0..MaxFails
        /\ \/ ~beaconing' /\ peers' = peers /\ cmdq' = cmdq
           \/ ~beaconing' /\ peers' = {} /\ cmdq' = Append(cmdq, Plain("SET_WIPHY", None))
           \/ /\ beaconing' = TRUE /\ peers' = {}
              /\ cmdq' = Append(Append(cmdq, Plain("SET_WIPHY", None)), Plain("START_AP", None))
        /\ beaconing' \in BOOLEAN
        /\ Plain("SET_WIPHY", None) \in Quiet /\ Plain("START_AP", None) \in Commands
        /\ Plain("START_AP", None).cmd = "START_AP"
<1>1. Plain("SET_WIPHY", None) \in Quiet
  BY QuietMade DEF QuietNames
<1>2. Plain("START_AP", None) \in Commands /\ Plain("START_AP", None).cmd = "START_AP"
  BY PlainMade DEF CmdNames
<1>3. PICK ok \in BOOLEAN : FmacStartAp(ok) /\ beaconing' = ok
  BY DEF StartAp
<1>4. calls' \in 0..MaxCalls
  BY Numbers DEF StartAp, Begin
<1>5. cmdq \in Seq(Commands) /\ Plain("SET_WIPHY", None) \in Commands /\ fails \in 0..MaxFails
  BY <1>1 DEF TypeOK, Quiet
<1>6. CASE ~ok
  BY <1>1, <1>2, <1>3, <1>4, <1>5, <1>6, Numbers DEF StartAp, FmacStartAp, SendFails
<1>7. CASE ok
  <2>1. peers' = {} /\ fails' = fails
        /\ cmdq' = cmdq \o <<Plain("SET_WIPHY", None), Plain("START_AP", None)>>
    BY <1>3, <1>7 DEF FmacStartAp
  <2>2. cmdq' = Append(Append(cmdq, Plain("SET_WIPHY", None)), Plain("START_AP", None))
    BY <1>2, <1>5, <2>1, AppendTwo
  <2> QED BY <1>1, <1>2, <1>3, <1>4, <1>5, <1>7, <2>1, <2>2 DEF StartAp
<1> QED BY <1>6, <1>7

LEMMA StopApDoes ==
  ASSUME TypeOK, StopAp
  PROVE /\ beaconing /\ peers' = {}
        /\ UNCHANGED <<bssid, keyVars, envVars, fault>>
        /\ calls' \in 0..MaxCalls /\ fails' \in 0..MaxFails
        /\ \/ beaconing' = TRUE /\ unstopped' = TRUE /\ cmdq' = cmdq
           \/ /\ beaconing' = FALSE /\ unstopped' = unstopped
              /\ cmdq' = Append(cmdq, Plain("STOP_AP", None))
        /\ Plain("STOP_AP", None) \in Commands /\ Plain("STOP_AP", None).cmd = "STOP_AP"
<1>1. Plain("STOP_AP", None) \in Commands /\ Plain("STOP_AP", None).cmd = "STOP_AP"
  BY PlainMade DEF CmdNames
<1>2. calls' \in 0..MaxCalls
  BY Numbers DEF StopAp, Begin
<1>3. fails \in 0..MaxFails /\ unstopped \in BOOLEAN
  BY DEF TypeOK
<1>4. CASE Send(Plain("STOP_AP", None))
  BY <1>1, <1>2, <1>3, <1>4 DEF StopAp, FmacStopAp, Send
<1>5. CASE SendFails
  BY <1>1, <1>2, <1>3, <1>5, Numbers DEF StopAp, FmacStopAp, SendFails
<1> QED BY <1>4, <1>5 DEF StopAp, FmacStopAp, Try

LEMMA EventMade ==
  ASSUME NEW e \in {"NEW_STATION", "DEL_STATION"}, NEW p \in Sta
  PROVE Event(e, p) \in Events /\ Event(e, p).event = e /\ Event(e, p).peer = p
BY DEF Event, Events

(* The stations of P are reported gone one after the other, and then one    *)
(* that is new.                                                             *)
Reports(order, k) == [i \in 1..k |-> Event("DEL_STATION", order[i])]

LEMMA ReportsMade ==
  ASSUME NEW k \in Nat, NEW order \in [1..k -> Sta]
  PROVE /\ Reports(order, k) \in Seq(Events) /\ Len(Reports(order, k)) = k
        /\ \A i \in 1..k : Reports(order, k)[i] = Event("DEL_STATION", order[i])
<1>1. \A i \in 1..k : Event("DEL_STATION", order[i]) \in Events
  BY EventMade
<1> QED BY <1>1 DEF Reports

LEMMA ConcatNothing ==
  ASSUME NEW X, NEW q \in Seq(X), NEW e \in X
  PROVE q \o <<>> = q /\ q \o <<e>> = Append(q, e)
OBVIOUS

LEMMA ConcatFacts ==
  ASSUME NEW X, NEW q \in Seq(X), NEW r \in Seq(X)
  PROVE /\ q \o r \in Seq(X) /\ Len(q \o r) = Len(q) + Len(r)
        /\ \A i \in 1..Len(q) : (q \o r)[i] = q[i]
        /\ \A i \in 1..Len(r) : (q \o r)[Len(q) + i] = r[i]
OBVIOUS

Leaving(P, new, order, k) ==
  /\ \A p \in Sta : p \in P /\ p \in rpu.stations <=> \E i \in 1..k : order[i] = p
  /\ \/ /\ new = <<>> /\ rpu'.stations = rpu.stations \ P
        /\ evtq' = evtq \o Reports(order, k)
     \/ \E p \in Sta : /\ new = <<p>> /\ rpu'.stations = (rpu.stations \ P) \cup {p}
                       /\ evtq' = Append(evtq \o Reports(order, k), Event("NEW_STATION", p))
Leave(P, ap, new) ==
  /\ rpu' \in [ap : BOOLEAN, stations : SUBSET Sta, keys : SUBSET Installed]
  /\ rpu'.ap = ap /\ rpu'.keys \subseteq rpu.keys
  /\ \E k \in Nat : \E order \in [1..k -> Sta] : Leaving(P, new, order, k)

LEMMA GoneDoes ==
  ASSUME TypeOK, NEW P, NEW ap \in BOOLEAN, NEW new,
         new = <<>> \/ \E p \in Sta : new = <<p>>,
         Gone(P, ap, new)
  PROVE Leave(P, ap, new)
<1> DEFINE gone == P \cap rpu.stations
           k == Cardinality(gone)
<1>1. rpu \in [ap : BOOLEAN, stations : SUBSET Sta, keys : SUBSET Installed]
      /\ evtq \in Seq(Events)
  BY DEF TypeOK
<1>2. rpu' = [ap |-> ap, stations |-> (rpu.stations \ P) \cup Range(new),
              keys |-> {r \in rpu.keys : r.key[1] \notin P}]
  BY DEF Gone
<1>3. Range(new) \subseteq Sta /\ (new = <<>> => Range(new) = {})
      /\ \A p \in Sta : new = <<p>> => Range(new) = {p}
  BY DEF Range
<1>4. IsFiniteSet(gone)
  BY <1>1, BoundAssumption, FS_Subset
<1>5. k \in Nat
  BY <1>4, FS_CardinalityType
<1>6. PICK order \in Bijection(1..k, gone) :
        evtq' = evtq \o [i \in 1..k |-> Event("DEL_STATION", order[i])]
                \o [i \in 1..Len(new) |-> Event("NEW_STATION", new[i])]
  BY DEF Gone
<1> HIDE DEF k
<1>7. order \in [1..k -> gone] /\ \A t \in gone : \E s \in 1..k : order[s] = t
  BY <1>6 DEF Bijection, Injection, Surjection
<1>8. order \in [1..k -> Sta]
  BY <1>1, <1>7
<1>9. \A p \in Sta : p \in P /\ p \in rpu.stations <=> \E i \in 1..k : order[i] = p
  BY <1>7
<1>10. Reports(order, k) \in Seq(Events)
       /\ evtq' = (evtq \o Reports(order, k)) \o [i \in 1..Len(new) |-> Event("NEW_STATION", new[i])]
  BY <1>5, <1>6, <1>8, ReportsMade DEF Reports
<1>11. evtq \o Reports(order, k) \in Seq(Events)
  BY <1>1, <1>10, ConcatFacts
<1>12. /\ rpu' \in [ap : BOOLEAN, stations : SUBSET Sta, keys : SUBSET Installed]
       /\ rpu'.ap = ap /\ rpu'.keys \subseteq rpu.keys
       /\ rpu'.stations = (rpu.stations \ P) \cup Range(new)
  BY <1>1, <1>2, <1>3
<1>13. CASE new = <<>>
  <2>1. [i \in 1..Len(new) |-> Event("NEW_STATION", new[i])] = <<>>
    BY <1>13
  <2>2. evtq' = evtq \o Reports(order, k)
    BY <1>10, <1>11, <2>1
  <2>3. rpu'.stations = rpu.stations \ P
    BY <1>3, <1>12, <1>13
  <2> QED BY <1>5, <1>8, <1>9, <1>12, <1>13, <2>2, <2>3 DEF Leave, Leaving
<1>14. ASSUME NEW p \in Sta, new = <<p>>
       PROVE /\ rpu'.stations = (rpu.stations \ P) \cup {p}
             /\ evtq' = Append(evtq \o Reports(order, k), Event("NEW_STATION", p))
  <2>1. [i \in 1..Len(new) |-> Event("NEW_STATION", new[i])] = <<Event("NEW_STATION", p)>>
    BY <1>14
  <2>2. Event("NEW_STATION", p) \in Events
    BY EventMade
  <2>3. evtq' = Append(evtq \o Reports(order, k), Event("NEW_STATION", p))
    BY <1>10, <1>11, <2>1, <2>2, ConcatNothing
  <2> QED BY <1>3, <1>12, <1>14, <2>3
<1> QED BY <1>5, <1>8, <1>9, <1>12, <1>13, <1>14 DEF Leave, Leaving

LEMMA LeaveReports ==
  ASSUME TypeOK, NEW P, NEW ap, NEW new, Leave(P, ap, new)
  PROVE evtq' \in Seq(Events)
<1>0. PICK k \in Nat : \E order \in [1..k -> Sta] : Leaving(P, new, order, k)
  BY DEF Leave
<1>1. PICK order \in [1..k -> Sta] : Leaving(P, new, order, k)
  BY <1>0
<1>2. evtq \in Seq(Events) /\ Reports(order, k) \in Seq(Events)
  BY ReportsMade DEF TypeOK
<1>3. evtq \o Reports(order, k) \in Seq(Events)
  BY <1>2, ConcatFacts
<1>4. ASSUME NEW p \in Sta
      PROVE Append(evtq \o Reports(order, k), Event("NEW_STATION", p)) \in Seq(Events)
  BY <1>3, EventMade, AppendFacts
<1> QED BY <1>1, <1>3, <1>4 DEF Leaving

(* What each kind of command is.                                            *)
LEMMA QuietAllowed ==
  ASSUME NEW c \in Quiet
  PROVE c \in Allowed /\ c \in Commands /\ c.cmd \in QuietNames \cup {"ASSOCIATE"}
BY DEF Quiet, QuietNames, Allowed

LEMMA NewKeyMade ==
  ASSUME NEW p \in Sta, NEW kind \in Kinds, NEW idx \in KeyIdx, NEW cipher \in Ciphers,
         NEW i \in Entries, kind = "pairwise" => idx = 0
  PROVE Command("NEW_KEY", p, kind, idx, i, cipher) \in Allowed
BY DEF Command, Commands, Allowed

LEMMA DelKeyMade ==
  ASSUME NEW p \in Sta \cup {None}, NEW kind \in Kinds, NEW idx \in KeyIdx
  PROVE Deleted(p, kind, idx) \in Allowed
<1>1. 1 \in Entries /\ "CCMP" \in Ciphers
  BY PeersAssumption DEF Entries, Ciphers
<1> QED BY <1>1 DEF Command, Commands, Allowed, Deleted

LEMMA ApMade ==
  ASSUME NEW cmd \in {"START_AP", "STOP_AP"}
  PROVE Plain(cmd, None) \in Allowed /\ Plain(cmd, None).cmd = cmd
<1>1. Plain(cmd, None) \in Commands /\ Plain(cmd, None).cmd = cmd
  BY PlainMade DEF CmdNames
<1> QED BY <1>1 DEF Allowed

(* A step that changes the data base and the queue of commands and leaves   *)
(* the rest of what the types are about.                                    *)
LEMMA TypeStep ==
  ASSUME TypeInv, if_type' = if_type,
         bssid' \in Sta \cup {None},
         peers' \subseteq Sta, Cardinality(peers') <= MaxPeers,
         db' \in [Entries -> [peer : Sta \cup {None}, valid : BOOLEAN, ucst : BOOLEAN,
                              bcst : BOOLEAN]],
         \A i \in Entries : db'[i].valid => db'[i].peer \in Sta,
         keymem' \in [Cells -> KeyNames \cup {NoKey}],
         cmdq' \in Seq(Allowed), evtq' \in Seq(Events), beaconing' \in BOOLEAN,
         rpu' \in [ap : BOOLEAN, stations : SUBSET Sta, keys : SUBSET Installed],
         fault' \in BOOLEAN, calls' \in 0..MaxCalls, fails' \in 0..MaxFails,
         cut' \subseteq Entries, unstopped' \in BOOLEAN
  PROVE TypeInv'
<1>1. cmdq' \in Seq(Commands)
  <2>1. Allowed \subseteq Commands
    BY DEF Allowed
  <2> QED BY <2>1
<1>2. Allowed' = Allowed
  BY DEF Allowed
<1>3. TypeOK'
  BY <1>1 DEF TypeInv, TypeOK
<1>4. OwnedInv'
  BY <1>2 DEF OwnedInv
<1> QED BY <1>3, <1>4 DEF TypeInv

(* What the types say of the state itself.                                  *)
LEMMA TypeFacts ==
  ASSUME TypeInv
  PROVE /\ bssid \in Sta \cup {None}
        /\ peers \subseteq Sta /\ Cardinality(peers) <= MaxPeers
        /\ db \in [Entries -> [peer : Sta \cup {None}, valid : BOOLEAN, ucst : BOOLEAN,
                               bcst : BOOLEAN]]
        /\ \A i \in Entries : db[i].valid => db[i].peer \in Sta
        /\ keymem \in [Cells -> KeyNames \cup {NoKey}]
        /\ cmdq \in Seq(Allowed) /\ cmdq \in Seq(Commands) /\ evtq \in Seq(Events)
        /\ beaconing \in BOOLEAN
        /\ rpu \in [ap : BOOLEAN, stations : SUBSET Sta, keys : SUBSET Installed]
        /\ fault \in BOOLEAN /\ calls \in 0..MaxCalls /\ fails \in 0..MaxFails
        /\ cut \subseteq Entries /\ unstopped \in BOOLEAN
BY DEF TypeInv, TypeOK, OwnedInv

LEMMA NoneIsSmall == Cardinality({}) <= MaxPeers
BY FS_EmptySet, PeersAssumption

LEMMA KeyNamed ==
  ASSUME NEW p \in Sta, NEW kind \in Kinds, NEW idx \in KeyIdx
  PROVE Key(p, kind, idx) \in KeyNames
BY DEF KeyNames

(* What taking commands does to the queue.                                  *)
LEMMA TakeAllowed ==
  ASSUME TypeInv, cmdq # <<>>, cmdq' = Tail(cmdq)
  PROVE cmdq' \in Seq(Allowed) /\ Head(cmdq) \in Allowed
BY TypeFacts, TailFacts

LEMMA TypeQuiet ==
  ASSUME TypeInv, SendsQuiet
  PROVE TypeInv'
<1>1. cmdq' \in Seq(Allowed)
  <2>1. cmdq \in Seq(Allowed)
    BY TypeFacts
  <2>2. cmdq' = cmdq \/ \E c \in Allowed : cmdq' = Append(cmdq, c)
    BY QuietAllowed DEF SendsQuiet
  <2> QED BY <2>1, <2>2, AppendFacts
<1>2. /\ UNCHANGED <<if_type, peers, db, keymem, cut, evtq, rpu, beaconing, fault, unstopped>>
      /\ bssid' \in Sta \cup {None} /\ calls' \in 0..MaxCalls /\ fails' \in 0..MaxFails
  BY DEF SendsQuiet, keyVars, envVars
<1> QED BY <1>1, <1>2, TypeFacts, TypeStep

LEMMA TypeAdds ==
  ASSUME TypeInv, NEW p, NEW kind, NEW idx, NEW cipher, AddsKey(p, kind, idx, cipher)
  PROVE TypeInv'
<1>1. /\ UNCHANGED <<if_type, bssid, peers, evtq, rpu, beaconing, unstopped>>
      /\ fault' \in BOOLEAN /\ calls' \in 0..MaxCalls /\ fails' \in 0..MaxFails
  BY DEF AddsKey, envVars
<1>2. CASE UNCHANGED <<keyVars, cmdq>>
  <2>1. UNCHANGED <<db, keymem, cut, cmdq>>
    BY <1>2 DEF keyVars
  <2> QED BY <1>1, <2>1, TypeFacts, TypeStep
<1>3. CASE ~UNCHANGED <<keyVars, cmdq>>
  <2>1. /\ p \in Sta /\ kind \in Kinds /\ idx \in KeyIdx /\ cipher \in Ciphers
        /\ kind = "pairwise" => idx = 0
    BY <1>3 DEF AddsKey
  <2>2. PICK i \in Entries : Programs(p, kind, idx, cipher, i)
    BY <1>3 DEF AddsKey
  <2>3. Command("NEW_KEY", p, kind, idx, i, cipher) \in Allowed
    BY <2>1, NewKeyMade
  <2>4. cmdq' \in Seq(Allowed)
    <3>1. cmdq \in Seq(Allowed)
      BY TypeFacts
    <3> QED BY <2>2, <2>3, <3>1, AppendFacts DEF Programs
  <2>5. Key(p, kind, idx) \in KeyNames
    BY <2>1, KeyNamed
  <2>6. keymem' \in [Cells -> KeyNames \cup {NoKey}]
    BY <2>2, <2>5, TypeFacts DEF Programs, Written
  <2>7. /\ db' \in [Entries -> [peer : Sta \cup {None}, valid : BOOLEAN, ucst : BOOLEAN,
                              bcst : BOOLEAN]]
        /\ \A j \in Entries : db'[j].valid => db'[j].peer \in Sta
    BY <2>1, <2>2, TypeFacts DEF Programs
  <2>8. cut' = cut
    BY <2>2 DEF Programs
  <2> QED BY <1>1, <2>4, <2>6, <2>7, <2>8, TypeFacts, TypeStep
<1> QED BY <1>2, <1>3

LEMMA EntryChanged ==
  ASSUME NEW d \in [Entries -> [peer : Sta \cup {None}, valid : BOOLEAN, ucst : BOOLEAN,
                                bcst : BOOLEAN]],
         NEW i \in Entries, NEW u \in BOOLEAN, NEW b \in BOOLEAN, NEW v \in BOOLEAN
  PROVE [d EXCEPT ![i].ucst = u, ![i].bcst = b, ![i].valid = v]
          \in [Entries -> [peer : Sta \cup {None}, valid : BOOLEAN, ucst : BOOLEAN,
                           bcst : BOOLEAN]]
<1> DEFINE R == [peer : Sta \cup {None}, valid : BOOLEAN, ucst : BOOLEAN, bcst : BOOLEAN]
           e == [d EXCEPT ![i].ucst = u, ![i].bcst = b, ![i].valid = v]
<1>1. \A j \in Entries : j # i => e[j] = d[j]
  OBVIOUS
<1>2. e[i] = [d[i] EXCEPT !.ucst = u, !.bcst = b, !.valid = v]
  OBVIOUS
<1>3. e[i] \in R
  BY <1>2
<1> QED BY <1>1, <1>3

LEMMA TypeDeletes ==
  ASSUME TypeInv, NEW p \in Sta \cup {None}, NEW kind \in Kinds, NEW idx \in KeyIdx,
         DeletesKey(p, kind, idx)
  PROVE TypeInv'
<1>1. /\ UNCHANGED <<if_type, bssid, peers, keymem, evtq, rpu, beaconing, fault, unstopped>>
      /\ calls' \in 0..MaxCalls /\ fails' \in 0..MaxFails
  BY DEF DeletesKey, envVars
<1>2. cmdq' \in Seq(Allowed)
  <2>1. cmdq \in Seq(Allowed)
    BY TypeFacts
  <2> QED BY <2>1, DelKeyMade, AppendFacts DEF DeletesKey
<1>3. PICK i \in Entries, u \in BOOLEAN, b \in BOOLEAN, v \in BOOLEAN :
        DeletesAt(i, u, b, v, Deleted(p, kind, idx))
  BY DEF DeletesKey
<1>4. /\ db' \in [Entries -> [peer : Sta \cup {None}, valid : BOOLEAN, ucst : BOOLEAN,
                              bcst : BOOLEAN]]
      /\ \A j \in Entries : db'[j].valid => db'[j].peer \in Sta
  <2>1. db \in [Entries -> [peer : Sta \cup {None}, valid : BOOLEAN, ucst : BOOLEAN,
                            bcst : BOOLEAN]]
    BY TypeFacts
  <2>2. db' = [db EXCEPT ![i].ucst = u, ![i].bcst = b, ![i].valid = v] /\ (v => db[i].valid)
    BY <1>3 DEF DeletesAt
  <2>3. \A j \in Entries : db'[j].peer = db[j].peer /\ (db'[j].valid => db[j].valid)
    BY <2>1, <2>2
  <2>4. db' \in [Entries -> [peer : Sta \cup {None}, valid : BOOLEAN, ucst : BOOLEAN,
                            bcst : BOOLEAN]]
    BY <2>1, <2>2, EntryChanged
  <2> QED BY <2>3, <2>4, TypeFacts
<1>5. cut' \subseteq Entries
  BY <1>3, TypeFacts DEF DeletesAt
<1> QED BY <1>1, <1>2, <1>4, <1>5, TypeFacts, TypeStep

LEMMA TypeAp ==
  ASSUME TypeInv, StartAp \/ StopAp
  PROVE TypeInv'
<1>0. TypeOK
  BY DEF TypeInv
<1>1. CASE StartAp
  <2>1. cmdq' \in Seq(Allowed)
    <3>1. cmdq \in Seq(Allowed)
      BY TypeFacts
    <3>2. Plain("SET_WIPHY", None) \in Allowed /\ Plain("START_AP", None) \in Allowed
      BY <1>0, <1>1, StartApDoes, QuietAllowed, ApMade
    <3>3. Append(cmdq, Plain("SET_WIPHY", None)) \in Seq(Allowed)
      BY <3>1, <3>2, AppendFacts
    <3>4. Append(Append(cmdq, Plain("SET_WIPHY", None)), Plain("START_AP", None)) \in Seq(Allowed)
      BY <3>2, <3>3, AppendFacts
    <3> QED BY <1>0, <1>1, <3>1, <3>3, <3>4, StartApDoes
  <2>2. peers' \subseteq Sta /\ Cardinality(peers') <= MaxPeers
    BY <1>0, <1>1, StartApDoes, TypeFacts, NoneIsSmall
  <2>3. /\ UNCHANGED <<if_type, bssid, db, keymem, cut, evtq, rpu, fault, unstopped>>
        /\ calls' \in 0..MaxCalls /\ fails' \in 0..MaxFails /\ beaconing' \in BOOLEAN
    BY <1>0, <1>1, StartApDoes DEF keyVars, envVars
  <2> QED BY <2>1, <2>2, <2>3, TypeFacts, TypeStep
<1>2. CASE StopAp
  <2>1. cmdq' \in Seq(Allowed)
    <3>1. cmdq \in Seq(Allowed)
      BY TypeFacts
    <3>2. Append(cmdq, Plain("STOP_AP", None)) \in Seq(Allowed)
      BY <3>1, ApMade, AppendFacts
    <3> QED BY <1>0, <1>2, <3>1, <3>2, StopApDoes
  <2>2. peers' \subseteq Sta /\ Cardinality(peers') <= MaxPeers
    BY <1>0, <1>2, StopApDoes, NoneIsSmall
  <2>3. /\ UNCHANGED <<if_type, bssid, db, keymem, cut, evtq, rpu, fault>>
        /\ calls' \in 0..MaxCalls /\ fails' \in 0..MaxFails
    BY <1>0, <1>2, StopApDoes DEF keyVars, envVars
  <2>4. beaconing' \in BOOLEAN /\ unstopped' \in BOOLEAN
    BY <1>0, <1>2, StopApDoes, TypeFacts
  <2> QED BY <2>1, <2>2, <2>3, <2>4, TypeFacts, TypeStep
<1> QED BY <1>1, <1>2

LEMMA NewStationDoes ==
  ASSUME TypeInv, NewStation
  PROVE /\ evtq # <<>> /\ evtq' = Tail(evtq) /\ Head(evtq).event = "NEW_STATION"
        /\ evtq' \in Seq(Events) /\ Head(evtq).peer \in Sta
        /\ bssid' \in Sta \cup {None}
        /\ \/ Cardinality(peers) < MaxPeers /\ peers' = peers \cup {Head(evtq).peer}
           \/ ~(Cardinality(peers) < MaxPeers) /\ peers' = peers
        /\ UNCHANGED <<if_type, db, keymem, cut, cmdq, beaconing, rpu, fault, calls, fails,
                       unstopped>>
<1>1. evtq \in Seq(Events) /\ evtq # <<>> /\ bssid \in Sta \cup {None}
  BY TypeFacts DEF NewStation
<1>2. Head(evtq) \in Events /\ Tail(evtq) \in Seq(Events)
  BY <1>1, TailFacts
<1>3. Head(evtq).peer \in Sta
  BY <1>2 DEF Events
<1> QED BY <1>1, <1>2, <1>3 DEF NewStation, keyVars

LEMMA DelStationDoes ==
  ASSUME TypeInv, DelStation
  PROVE /\ evtq # <<>> /\ evtq' = Tail(evtq) /\ Head(evtq).event = "DEL_STATION"
        /\ evtq' \in Seq(Events) /\ Head(evtq).peer \in Sta
        /\ peers' = peers \ {Head(evtq).peer}
        /\ UNCHANGED <<if_type, bssid, db, keymem, cut, cmdq, beaconing, rpu, fault, calls,
                       fails, unstopped>>
<1>1. evtq \in Seq(Events) /\ evtq # <<>>
  BY TypeFacts DEF DelStation
<1>2. Head(evtq) \in Events /\ Tail(evtq) \in Seq(Events)
  BY <1>1, TailFacts
<1>3. Head(evtq).peer \in Sta
  BY <1>2 DEF Events
<1> QED BY <1>1, <1>2, <1>3 DEF DelStation, keyVars

(* The peer table stays small enough.                                       *)
LEMMA TableFits ==
  ASSUME TypeInv
  PROVE /\ IsFiniteSet(peers) /\ Cardinality(peers) \in Nat
        /\ \A p \in Sta : /\ Cardinality(peers) < MaxPeers =>
                                Cardinality(peers \cup {p}) <= MaxPeers
                          /\ Cardinality(peers \ {p}) <= MaxPeers
<1>1. IsFiniteSet(peers)
  BY TypeFacts, BoundAssumption, FS_Subset
<1>2. Cardinality(peers) \in Nat /\ Cardinality(peers) <= MaxPeers
  BY <1>1, FS_CardinalityType, TypeFacts
<1>3. ASSUME NEW p \in Sta, Cardinality(peers) < MaxPeers
      PROVE Cardinality(peers \cup {p}) <= MaxPeers
  <2>1. Cardinality(peers \cup {p}) = Cardinality(peers)
        \/ Cardinality(peers \cup {p}) = Cardinality(peers) + 1
    BY <1>1, FS_AddElement
  <2> QED BY <1>2, <1>3, <2>1, PeersAssumption
<1>4. ASSUME NEW p \in Sta PROVE Cardinality(peers \ {p}) <= MaxPeers
  <2>1. IsFiniteSet(peers \ {p}) /\ Cardinality(peers \ {p}) <= Cardinality(peers)
    BY <1>1, FS_Subset
  <2>2. Cardinality(peers \ {p}) \in Nat
    BY <2>1, FS_CardinalityType
  <2> QED BY <1>2, <2>1, <2>2, PeersAssumption
<1> QED BY <1>1, <1>2, <1>3, <1>4

LEMMA TypeEvent ==
  ASSUME TypeInv, NewStation \/ DelStation
  PROVE TypeInv'
<1>1. CASE NewStation
  <2>1. peers' \subseteq Sta /\ Cardinality(peers') <= MaxPeers
    BY <1>1, NewStationDoes, TableFits, TypeFacts
  <2>2. /\ evtq' \in Seq(Events) /\ bssid' \in Sta \cup {None}
        /\ UNCHANGED <<if_type, db, keymem, cut, cmdq, beaconing, rpu, fault, calls, fails,
                       unstopped>>
    BY <1>1, NewStationDoes
  <2> QED BY <2>1, <2>2, TypeFacts, TypeStep
<1>2. CASE DelStation
  <2>1. peers' \subseteq Sta /\ Cardinality(peers') <= MaxPeers
    BY <1>2, DelStationDoes, TableFits, TypeFacts
  <2>2. /\ evtq' \in Seq(Events)
        /\ UNCHANGED <<if_type, bssid, db, keymem, cut, cmdq, beaconing, rpu, fault, calls,
                       fails, unstopped>>
    BY <1>2, DelStationDoes
  <2> QED BY <2>1, <2>2, TypeFacts, TypeStep
<1> QED BY <1>1, <1>2

(* The RPU's steps change its state, take commands and report events.       *)
RpuSteps ==
  /\ UNCHANGED <<if_type, bssid, peers, db, keymem, cut, beaconing, fault, calls, fails,
                 unstopped>>
  /\ cmdq' = cmdq \/ (cmdq # <<>> /\ cmdq' = Tail(cmdq))
  /\ evtq' \in Seq(Events)
  /\ rpu' \in [ap : BOOLEAN, stations : SUBSET Sta, keys : SUBSET Installed]

LEMMA TypeRpu ==
  ASSUME TypeInv, RpuSteps
  PROVE TypeInv'
<1>1. cmdq' \in Seq(Allowed)
  BY TypeFacts, TakeAllowed DEF RpuSteps
<1> QED BY <1>1, TypeFacts, TypeStep DEF RpuSteps

(* What a key the RPU is told of is.                                        *)
LEMMA NewKeyIs ==
  ASSUME NEW c \in Commands, c.peer \in Sta
  PROVE KeyOf(c) \in Installed /\ KeyOf(c).key = Key(c.peer, c.kind, c.idx)
<1>1. /\ c.kind \in Kinds /\ c.idx \in KeyIdx /\ c.entry \in Entries /\ c.cipher \in Ciphers
  BY DEF Commands
<1>2. Key(c.peer, c.kind, c.idx) \in KeyNames
  BY <1>1, KeyNamed
<1> QED BY <1>1, <1>2 DEF KeyOf, Installed

LEMMA RpuNewKeyDoes ==
  ASSUME TypeInv, RpuNewKey
  PROVE /\ RpuSteps /\ cmdq # <<>> /\ cmdq' = Tail(cmdq) /\ Head(cmdq).cmd = "NEW_KEY"
        /\ evtq' = evtq /\ rpu'.ap = rpu.ap /\ rpu'.stations = rpu.stations
        /\ rpu'.keys \subseteq rpu.keys \cup {KeyOf(Head(cmdq))}
<1>0. TypeOK
  BY DEF TypeInv
<1>1. Take({"NEW_KEY"}) /\ evtq' = evtq
  BY DEF RpuNewKey
<1> DEFINE c == Head(cmdq)
<1>2. /\ cmdq # <<>> /\ cmdq' = Tail(cmdq) /\ c \in Commands /\ c.cmd = "NEW_KEY"
      /\ UNCHANGED <<if_type, bssid, peers, db, keymem, cut, beaconing, fault, calls,
                     fails, unstopped>>
  BY <1>0, <1>1, TakeDoes
<1>3. evtq \in Seq(Events)
      /\ rpu \in [ap : BOOLEAN, stations : SUBSET Sta, keys : SUBSET Installed]
  BY TypeFacts
<1>4. \/ rpu' = rpu
      \/ /\ c.peer \in rpu.stations
         /\ rpu' = [rpu EXCEPT !.keys = {k \in @ : k.key # Key(c.peer, c.kind, c.idx)}
                                        \cup {KeyOf(c)}]
  BY DEF RpuNewKey, KeyOf
<1>5. CASE rpu' = rpu
  BY <1>1, <1>2, <1>3, <1>5 DEF RpuSteps
<1>6. CASE rpu' # rpu
  <2>1. KeyOf(c) \in Installed
    BY <1>2, <1>3, <1>4, <1>6, NewKeyIs
  <2> HIDE DEF c
  <2>2. /\ rpu' \in [ap : BOOLEAN, stations : SUBSET Sta, keys : SUBSET Installed]
        /\ rpu'.ap = rpu.ap /\ rpu'.stations = rpu.stations
        /\ rpu'.keys \subseteq rpu.keys \cup {KeyOf(c)}
    BY <1>3, <1>4, <1>6, <2>1
  <2> QED BY <1>1, <1>2, <1>3, <2>2 DEF RpuSteps, c
<1> QED BY <1>5, <1>6

LEMMA RpuDelKeyDoes ==
  ASSUME TypeInv, RpuDelKey
  PROVE /\ RpuSteps /\ cmdq # <<>> /\ cmdq' = Tail(cmdq) /\ Head(cmdq).cmd = "DEL_KEY"
        /\ evtq' = evtq /\ rpu'.ap = rpu.ap /\ rpu'.stations = rpu.stations
        /\ rpu'.keys \subseteq rpu.keys
        /\ \A k \in rpu'.keys : ~Deletes(Head(cmdq), k.key)
<1>0. TypeOK
  BY DEF TypeInv
<1>1. Take({"DEL_KEY"}) /\ evtq' = evtq
  BY DEF RpuDelKey
<1> DEFINE c == Head(cmdq)
<1>2. /\ cmdq # <<>> /\ cmdq' = Tail(cmdq) /\ c \in Commands /\ c.cmd = "DEL_KEY"
      /\ UNCHANGED <<if_type, bssid, peers, db, keymem, cut, beaconing, fault, calls,
                     fails, unstopped>>
  BY <1>0, <1>1, TakeDoes
<1>3. evtq \in Seq(Events)
      /\ rpu \in [ap : BOOLEAN, stations : SUBSET Sta, keys : SUBSET Installed]
  BY TypeFacts
<1>4. rpu' = [rpu EXCEPT !.keys = {k \in @ : ~Deletes(c, k.key)}]
  BY DEF RpuDelKey
<1>5. /\ rpu' \in [ap : BOOLEAN, stations : SUBSET Sta, keys : SUBSET Installed]
      /\ rpu'.ap = rpu.ap /\ rpu'.stations = rpu.stations
      /\ rpu'.keys = {k \in rpu.keys : ~Deletes(c, k.key)}
  BY <1>3, <1>4
<1> QED BY <1>1, <1>2, <1>3, <1>5 DEF RpuSteps

LEMMA RpuOtherDoes ==
  ASSUME TypeInv, RpuOther
  PROVE /\ RpuSteps /\ cmdq # <<>> /\ cmdq' = Tail(cmdq)
        /\ Head(cmdq).cmd \in QuietNames /\ UNCHANGED <<evtq, rpu>>
<1>0. TypeOK
  BY DEF TypeInv
<1>1. Take({"SET_KEY", "SET_STATION", "SET_WIPHY", "SET_BEACON", "SET_BSS"})
      /\ UNCHANGED <<rpu, evtq>>
  BY DEF RpuOther
<1>2. /\ cmdq # <<>> /\ cmdq' = Tail(cmdq)
      /\ Head(cmdq).cmd \in {"SET_KEY", "SET_STATION", "SET_WIPHY", "SET_BEACON", "SET_BSS"}
      /\ UNCHANGED <<if_type, bssid, peers, db, keymem, cut, beaconing, fault, calls,
                     fails, unstopped>>
  BY <1>0, <1>1, TakeDoes
<1> QED BY <1>1, <1>2, TypeFacts DEF RpuSteps, QuietNames

(* The access point is started or stopped, stations leave, the RPU joins.   *)
LEMMA RpuStartDoes ==
  ASSUME TypeInv, Take({"START_AP"}), rpu' = [rpu EXCEPT !.ap = TRUE], UNCHANGED evtq
  PROVE /\ RpuSteps /\ cmdq # <<>> /\ cmdq' = Tail(cmdq) /\ Head(cmdq).cmd = "START_AP"
        /\ evtq' = evtq /\ rpu'.ap = TRUE /\ rpu'.stations = rpu.stations
        /\ rpu'.keys = rpu.keys
<1>0. TypeOK
  BY DEF TypeInv
<1>1. /\ cmdq # <<>> /\ cmdq' = Tail(cmdq) /\ Head(cmdq).cmd \in {"START_AP"}
      /\ UNCHANGED <<if_type, bssid, peers, db, keymem, cut, beaconing, fault, calls,
                     fails, unstopped>>
  BY <1>0, TakeDoes
<1>2. evtq \in Seq(Events)
      /\ rpu \in [ap : BOOLEAN, stations : SUBSET Sta, keys : SUBSET Installed]
  BY TypeFacts
<1>3. /\ rpu' \in [ap : BOOLEAN, stations : SUBSET Sta, keys : SUBSET Installed]
      /\ rpu'.ap = TRUE /\ rpu'.stations = rpu.stations /\ rpu'.keys = rpu.keys
  BY <1>2
<1> QED BY <1>1, <1>2, <1>3 DEF RpuSteps

LEMMA TakeGoneDoes ==
  ASSUME TypeInv, NEW cmds, NEW P, NEW ap \in BOOLEAN, NEW new,
         new = <<>> \/ \E p \in Sta : new = <<p>>,
         Take(cmds), Gone(P, ap, new)
  PROVE /\ RpuSteps /\ cmdq # <<>> /\ cmdq' = Tail(cmdq) /\ Head(cmdq).cmd \in cmds
        /\ Leave(P, ap, new)
<1>0. TypeOK
  BY DEF TypeInv
<1>1. /\ cmdq # <<>> /\ cmdq' = Tail(cmdq) /\ Head(cmdq).cmd \in cmds
      /\ UNCHANGED <<if_type, bssid, peers, db, keymem, cut, beaconing, fault, calls,
                     fails, unstopped>>
  BY <1>0, TakeDoes
<1>2. Leave(P, ap, new)
  BY <1>0, GoneDoes
<1>3. evtq' \in Seq(Events)
  BY <1>0, <1>2, LeaveReports
<1>4. rpu' \in [ap : BOOLEAN, stations : SUBSET Sta, keys : SUBSET Installed]
  BY <1>2 DEF Leave
<1> QED BY <1>1, <1>2, <1>3, <1>4 DEF RpuSteps

LEMMA RpuApDoes ==
  ASSUME TypeInv, RpuAp
  PROVE /\ RpuSteps /\ cmdq # <<>> /\ cmdq' = Tail(cmdq)
        /\ \/ /\ Head(cmdq).cmd = "START_AP"
              /\ evtq' = evtq /\ rpu'.ap = TRUE /\ rpu'.stations = rpu.stations
              /\ rpu'.keys = rpu.keys
           \/ Head(cmdq).cmd = "STOP_AP" /\ Leave(Sta, FALSE, <<>>)
           \/ Head(cmdq).cmd = "DEL_STATION" /\ \E P : Leave(P, rpu.ap, <<>>)
<1>1. CASE Take({"START_AP"}) /\ rpu' = [rpu EXCEPT !.ap = TRUE] /\ UNCHANGED evtq
  BY <1>1, RpuStartDoes
<1>2. CASE Take({"STOP_AP"}) /\ Gone(Sta, FALSE, <<>>)
  <2>1. Take({"STOP_AP"}) /\ Gone(Sta, FALSE, <<>>) /\ FALSE \in BOOLEAN
    BY <1>2
  <2>2. /\ RpuSteps /\ cmdq # <<>> /\ cmdq' = Tail(cmdq) /\ Head(cmdq).cmd \in {"STOP_AP"}
        /\ Leave(Sta, FALSE, <<>>)
    BY <2>1, TakeGoneDoes
  <2> QED BY <2>2
<1>3. CASE /\ Take({"DEL_STATION"})
           /\ Gone(IF Head(cmdq).peer = None THEN Sta ELSE {Head(cmdq).peer}, rpu.ap, <<>>)
  <2>1. rpu.ap \in BOOLEAN
    BY TypeFacts
  <2>2. PICK P : P = IF Head(cmdq).peer = None THEN Sta ELSE {Head(cmdq).peer}
    OBVIOUS
  <2>3. Gone(P, rpu.ap, <<>>) /\ Take({"DEL_STATION"})
    BY <1>3, <2>2
  <2>4. /\ RpuSteps /\ cmdq # <<>> /\ cmdq' = Tail(cmdq) /\ Head(cmdq).cmd \in {"DEL_STATION"}
        /\ Leave(P, rpu.ap, <<>>)
    BY <2>1, <2>3, TakeGoneDoes
  <2> QED BY <2>4
<1> QED BY <1>1, <1>2, <1>3 DEF RpuAp

LEMMA RpuAssocDoes ==
  ASSUME TypeInv, RpuAssoc
  PROVE /\ RpuSteps /\ cmdq # <<>> /\ cmdq' = Tail(cmdq) /\ Head(cmdq).cmd = "ASSOCIATE"
        /\ if_type = "STATION"
        /\ \/ Leave(Sta, FALSE, <<>>)
           \/ \E p \in Sta : Leave(Sta, FALSE, <<p>>)
<1>0. TypeOK
  BY DEF TypeInv
<1>1. Take({"ASSOCIATE"})
  BY DEF RpuAssoc
<1>2. /\ cmdq # <<>> /\ cmdq' = Tail(cmdq) /\ Head(cmdq).cmd \in {"ASSOCIATE"}
  BY <1>0, <1>1, TakeDoes
<1>3. Head(cmdq) \in Allowed
  BY <1>2, TakeAllowed
<1>4. Head(cmdq).peer \in Sta /\ if_type = "STATION"
  BY <1>2, <1>3 DEF Allowed
<1>5. PICK p \in Sta : p = Head(cmdq).peer
  BY <1>4
<1>6. CASE Gone(Sta, FALSE, <<>>)
  BY <1>1, <1>2, <1>4, <1>6, TakeGoneDoes
<1>7. CASE Gone(Sta, FALSE, <<p>>)
  BY <1>1, <1>2, <1>4, <1>7, TakeGoneDoes
<1> QED BY <1>5, <1>6, <1>7 DEF RpuAssoc

LEMMA RpuJoinsDoes ==
  ASSUME TypeInv, NEW p \in Sta, RpuJoins(p)
  PROVE /\ RpuSteps /\ cmdq' = cmdq /\ evtq' = Append(evtq, Event("NEW_STATION", p))
        /\ rpu.ap /\ rpu'.ap = rpu.ap /\ rpu'.keys = rpu.keys
        /\ rpu'.stations = rpu.stations \cup {p}
        /\ p \notin rpu.stations /\ Cardinality(rpu.stations) < MaxPeers
<1>1. evtq \in Seq(Events)
      /\ rpu \in [ap : BOOLEAN, stations : SUBSET Sta, keys : SUBSET Installed]
  BY TypeFacts
<1>2. evtq' = Append(evtq, Event("NEW_STATION", p)) /\ evtq' \in Seq(Events)
  BY <1>1, EventMade, AppendFacts DEF RpuJoins
<1>3. rpu' = [rpu EXCEPT !.stations = @ \cup {p}]
  BY DEF RpuJoins
<1>4. /\ rpu' \in [ap : BOOLEAN, stations : SUBSET Sta, keys : SUBSET Installed]
      /\ rpu'.ap = rpu.ap /\ rpu'.keys = rpu.keys
      /\ rpu'.stations = rpu.stations \cup {p}
  BY <1>1, <1>3
<1> QED BY <1>2, <1>4 DEF RpuJoins, RpuSteps, keyVars

LEMMA RpuLeavesDoes ==
  ASSUME TypeInv, NEW p \in Sta, RpuLeaves(p)
  PROVE RpuSteps /\ cmdq' = cmdq /\ Leave({p}, rpu.ap, <<>>)
<1>1. TypeOK /\ rpu.ap \in BOOLEAN
  BY TypeFacts DEF TypeInv
<1>2. Leave({p}, rpu.ap, <<>>)
  BY <1>1, GoneDoes DEF RpuLeaves
<1>3. evtq' \in Seq(Events)
  BY <1>1, <1>2, LeaveReports
<1>4. rpu' \in [ap : BOOLEAN, stations : SUBSET Sta, keys : SUBSET Installed]
  BY <1>2 DEF Leave
<1> QED BY <1>2, <1>3, <1>4 DEF RpuLeaves, RpuSteps, keyVars

(* What is unchanged has the types it had.                                  *)
LEMMA TypeStutter ==
  ASSUME TypeInv, UNCHANGED vars
  PROVE TypeInv'
<1>1. UNCHANGED <<if_type, bssid, peers, db, keymem, cmdq, evtq, beaconing, rpu, fault, calls,
                  fails, cut, unstopped>>
  BY DEF vars
<1> QED BY <1>1, TypeFacts, TypeStep

LEMMA TypeInit ==
  ASSUME Init
  PROVE TypeInv
<1>1. /\ db \in [Entries -> [peer : Sta \cup {None}, valid : BOOLEAN, ucst : BOOLEAN,
                             bcst : BOOLEAN]]
      /\ \A i \in Entries : ~db[i].valid
  BY DEF Init
<1>2. keymem \in [Cells -> KeyNames \cup {NoKey}]
  BY DEF Init
<1>3. rpu \in [ap : BOOLEAN, stations : SUBSET Sta, keys : SUBSET Installed]
  BY DEF Init
<1>4. calls \in 0..MaxCalls /\ fails \in 0..MaxFails
  BY BoundAssumption DEF Init
<1>5. peers \subseteq Sta /\ Cardinality(peers) <= MaxPeers
  BY NoneIsSmall DEF Init
<1>6. cmdq \in Seq(Allowed) /\ cmdq \in Seq(Commands) /\ evtq \in Seq(Events)
  BY DEF Init
<1>7. /\ if_type \in {"STATION", "AP"} /\ bssid \in Sta \cup {None}
      /\ beaconing \in BOOLEAN /\ fault \in BOOLEAN /\ cut \subseteq Entries
      /\ unstopped \in BOOLEAN
  BY DEF Init
<1> QED BY <1>1, <1>2, <1>3, <1>4, <1>5, <1>6, <1>7 DEF TypeInv, TypeOK, OwnedInv

(* A step is one of these.                                                  *)
LEMMA Steps ==
  ASSUME TypeInv, Next
  PROVE \/ SendsQuiet
        \/ \E p : \E kind : \E idx : \E cipher : AddsKey(p, kind, idx, cipher)
        \/ \E p \in Sta \cup {None}, kind \in Kinds, idx \in KeyIdx : DeletesKey(p, kind, idx)
        \/ StartAp \/ StopAp \/ NewStation \/ DelStation
        \/ RpuNewKey \/ RpuDelKey \/ RpuOther \/ RpuAp \/ RpuAssoc
        \/ \E p \in Sta : RpuJoins(p) \/ RpuLeaves(p)
<1>0. TypeOK
  BY DEF TypeInv
<1>1. CASE QuietCall
  BY <1>0, <1>1, QuietCallDoes
<1>2. ASSUME NEW p \in Sta, NEW cipher \in Ciphers, AddPairwiseKey(p, cipher)
      PROVE AddsKey(p, "pairwise", 0, cipher)
  BY <1>0, <1>2, AddPairwiseDoes
<1>3. ASSUME NEW idx \in KeyIdx, NEW cipher \in Ciphers, AddGroupKey(idx, cipher)
      PROVE AddsKey(bssid, "group", idx, cipher)
  BY <1>3, AddGroupDoes
<1>4. ASSUME NEW p \in Sta, DelPairwiseKey(p)
      PROVE DeletesKey(p, "pairwise", 0)
  BY <1>0, <1>4, DelKeyDoes DEF DelPairwiseKey
<1>5. ASSUME NEW idx \in KeyIdx, DelGroupKey(idx)
      PROVE DeletesKey(None, "group", idx)
  BY <1>0, <1>5, DelKeyDoes DEF DelGroupKey
<1>6. "pairwise" \in Kinds /\ "group" \in Kinds /\ 0 \in KeyIdx
  BY KeyAssumption DEF Kinds
<1>7. CASE Operation
  BY <1>1, <1>2, <1>3, <1>4, <1>5, <1>6, <1>7 DEF Operation, QuietCall
<1>8. CASE RpuNext
  BY <1>8 DEF RpuNext
<1> QED BY <1>7, <1>8 DEF Next

LEMMA TypeNext ==
  ASSUME TypeInv, [Next]_vars
  PROVE TypeInv'
<1>1. CASE UNCHANGED vars
  BY <1>1, TypeStutter
<1>2. CASE Next
  <2>1. CASE SendsQuiet
    BY <2>1, TypeQuiet
  <2>2. CASE \E p : \E kind : \E idx : \E cipher : AddsKey(p, kind, idx, cipher)
    BY <2>2, TypeAdds
  <2>3. CASE \E p \in Sta \cup {None}, kind \in Kinds, idx \in KeyIdx : DeletesKey(p, kind, idx)
    BY <2>3, TypeDeletes
  <2>4. CASE StartAp \/ StopAp
    BY <2>4, TypeAp
  <2>5. CASE NewStation \/ DelStation
    BY <2>5, TypeEvent
  <2>6. CASE RpuNewKey \/ RpuDelKey \/ RpuOther \/ RpuAp \/ RpuAssoc
    <3>1. RpuSteps
      BY <2>6, RpuNewKeyDoes, RpuDelKeyDoes, RpuOtherDoes, RpuApDoes, RpuAssocDoes
    <3> QED BY <3>1, TypeRpu
  <2>7. CASE \E p \in Sta : RpuJoins(p) \/ RpuLeaves(p)
    <3>1. RpuSteps
      BY <2>7, RpuJoinsDoes, RpuLeavesDoes
    <3> QED BY <3>1, TypeRpu
  <2> QED BY <1>2, <2>1, <2>2, <2>3, <2>4, <2>5, <2>6, <2>7, Steps
<1> QED BY <1>1, <1>2

THEOREM TypeInvariant == Spec => []TypeInv
<1>1. Init => TypeInv
  BY TypeInit
<1>2. TypeInv /\ [Next]_vars => TypeInv'
  BY TypeNext
<1> QED BY <1>1, <1>2, PTL DEF Spec

(* The state has the types its declarations say, the peer table never has   *)
(* more than MAX_PEERS stations, and all entries name stations.             *)
THEOREM StationTypeCorrect == Spec => []TypeOK
<1>1. TypeInv => TypeOK
  BY DEF TypeInv
<1> QED BY <1>1, TypeInvariant, PTL
-----------------------------------------------------------------------------
(* Entries of the key data base.                                            *)

(* Entries in use stay those of different peers.                            *)
LEMMA DifferKept ==
  ASSUME TypeInv, PeersDiffer, db' = db
  PROVE PeersDiffer'
BY DEF PeersDiffer

LEMMA DifferAdds ==
  ASSUME TypeInv, PeersDiffer, NEW p, NEW kind, NEW idx, NEW cipher,
         AddsKey(p, kind, idx, cipher)
  PROVE PeersDiffer'
<1>1. CASE UNCHANGED <<keyVars, cmdq>>
  BY <1>1, DifferKept DEF keyVars
<1>2. CASE ~UNCHANGED <<keyVars, cmdq>>
  <2>1. PICK i \in Entries : Programs(p, kind, idx, cipher, i)
    BY <1>2 DEF AddsKey
  <2>2. /\ db' = [db EXCEPT ![i].valid = TRUE, ![i].peer = p]
        /\ db[i].valid => db[i].peer = p
        /\ EntriesOf(p) # {} => db[i].valid
    BY <2>1 DEF Programs
  <2>3. /\ db'[i].valid /\ db'[i].peer = p
        /\ \A j \in Entries : j # i => db'[j] = db[j]
    BY <2>2, TypeFacts
  <2>4. ASSUME NEW j \in Entries, j # i, db[j].valid PROVE db[j].peer # p
    <3> SUFFICES ASSUME db[j].peer = p PROVE FALSE
      OBVIOUS
    <3>1. EntriesOf(p) # {}
      BY <2>4 DEF EntriesOf
    <3> QED BY <2>2, <2>4, <3>1 DEF PeersDiffer
  <2> QED BY <2>3, <2>4 DEF PeersDiffer
<1> QED BY <1>1, <1>2

LEMMA DifferDeletes ==
  ASSUME TypeInv, PeersDiffer, NEW p, NEW kind, NEW idx, DeletesKey(p, kind, idx)
  PROVE PeersDiffer'
<1>1. PICK i \in Entries, u \in BOOLEAN, b \in BOOLEAN, v \in BOOLEAN :
        DeletesAt(i, u, b, v, Deleted(p, kind, idx))
  BY DEF DeletesKey
<1>2. db \in [Entries -> [peer : Sta \cup {None}, valid : BOOLEAN, ucst : BOOLEAN,
                          bcst : BOOLEAN]]
  BY TypeFacts
<1>3. db' = [db EXCEPT ![i].ucst = u, ![i].bcst = b, ![i].valid = v] /\ (v => db[i].valid)
  BY <1>1 DEF DeletesAt
<1>4. \A j \in Entries : db'[j].peer = db[j].peer /\ (db'[j].valid => db[j].valid)
  BY <1>2, <1>3
<1> QED BY <1>4 DEF PeersDiffer

LEMMA DifferNext ==
  ASSUME TypeInv, PeersDiffer, [Next]_vars
  PROVE PeersDiffer'
<1>0. TypeOK
  BY DEF TypeInv
<1>1. CASE UNCHANGED vars
  BY <1>1, DifferKept DEF vars
<1>2. CASE Next
  <2>1. CASE SendsQuiet
    BY <2>1, DifferKept DEF SendsQuiet, keyVars
  <2>2. CASE \E p : \E kind : \E idx : \E cipher : AddsKey(p, kind, idx, cipher)
    BY <2>2, DifferAdds
  <2>3. CASE \E p \in Sta \cup {None}, kind \in Kinds, idx \in KeyIdx : DeletesKey(p, kind, idx)
    BY <2>3, DifferDeletes
  <2>4. CASE StartAp \/ StopAp
    BY <1>0, <2>4, StartApDoes, StopApDoes, DifferKept DEF keyVars
  <2>5. CASE NewStation \/ DelStation
    BY <2>5, NewStationDoes, DelStationDoes, DifferKept
  <2>6. CASE RpuNewKey \/ RpuDelKey \/ RpuOther \/ RpuAp \/ RpuAssoc
    <3>1. RpuSteps
      BY <2>6, RpuNewKeyDoes, RpuDelKeyDoes, RpuOtherDoes, RpuApDoes, RpuAssocDoes
    <3> QED BY <3>1, DifferKept DEF RpuSteps
  <2>7. CASE \E p \in Sta : RpuJoins(p) \/ RpuLeaves(p)
    <3>1. RpuSteps
      BY <2>7, RpuJoinsDoes, RpuLeavesDoes
    <3> QED BY <3>1, DifferKept DEF RpuSteps
  <2> QED BY <1>2, <2>1, <2>2, <2>3, <2>4, <2>5, <2>6, <2>7, Steps
<1> QED BY <1>1, <1>2

(* A set with no two elements has at most one.                              *)
LEMMA AtMostOne ==
  ASSUME NEW S, \A i, j \in S : i = j
  PROVE Cardinality(S) <= 1
<1>1. CASE S = {}
  BY <1>1, FS_EmptySet
<1>2. CASE S # {}
  <2>1. PICK i \in S : TRUE
    BY <1>2
  <2>2. S = {i}
    BY <2>1
  <2>3. Cardinality({i}) = 1
    BY FS_Singleton
  <2> QED BY <2>2, <2>3
<1> QED BY <1>1, <1>2

(* Stations: a station has one entry in the key data base, however often it *)
(* leaves, comes back and is given keys (findValidPeerDBIndex).             *)
THEOREM OneEntryForEach == Spec => []OneEntryPerPeer
<1>1. Init => PeersDiffer
  BY DEF Init, PeersDiffer
<1>2. TypeInv /\ PeersDiffer /\ [Next]_vars => PeersDiffer'
  BY DifferNext
<1>3. PeersDiffer => OneEntryPerPeer
  <2> SUFFICES ASSUME PeersDiffer, NEW p \in Sta
               PROVE Cardinality(EntriesOf(p)) <= 1
    BY DEF OneEntryPerPeer
  <2>1. \A i, j \in EntriesOf(p) : i = j
    BY DEF PeersDiffer, EntriesOf
  <2> QED BY <2>1, AtMostOne
<1> QED BY <1>1, <1>2, <1>3, TypeInvariant, PTL DEF Spec
-----------------------------------------------------------------------------
(* Keys.                                                                    *)

(* A key counts when it is installed, or the command that brings it is on   *)
(* its way, and no command that deletes it follows.                         *)
LEMMA LiveAppend ==
  ASSUME NEW keys, NEW q \in Seq(Commands), NEW c \in Commands,
         NEW k \in LiveIn(keys, Append(q, c))
  PROVE \/ k \in LiveIn(keys, q) /\ ~Deletes(c, k.key)
        \/ c.cmd = "NEW_KEY" /\ k = KeyOf(c)
<1> DEFINE r == Append(q, c)
<1>1. /\ Len(r) = Len(q) + 1 /\ Len(q) \in Nat /\ r[Len(q) + 1] = c
      /\ \A i \in 1..Len(q) : r[i] = q[i]
  BY AppendFacts
<1>2. 1..Len(q) \subseteq 1..Len(r) /\ Len(q) + 1 \in 1..Len(r)
      /\ \A i \in 1..Len(q) : i < Len(q) + 1
  BY <1>1
<1>3. \A n \in 1..Len(r) : n \in 1..Len(q) \/ n = Len(q) + 1
  BY <1>1
<1>4. k \in LiveIn(keys, r)
  OBVIOUS
<1> HIDE DEF r
<1>5. CASE k \in keys /\ \A n \in 1..Len(r) : ~Deletes(r[n], k.key)
  <2>1. \A n \in 1..Len(q) : ~Deletes(q[n], k.key)
    BY <1>1, <1>2, <1>5
  <2>2. ~Deletes(c, k.key)
    BY <1>1, <1>2, <1>5
  <2> QED BY <1>5, <2>1, <2>2 DEF LiveIn
<1>6. ASSUME NEW n \in 1..Len(r), r[n].cmd = "NEW_KEY", k = KeyOf(r[n]),
             \A l \in 1..Len(r) : n < l => ~Deletes(r[l], KeyOf(r[n]).key)
      PROVE \/ k \in LiveIn(keys, q) /\ ~Deletes(c, k.key)
            \/ c.cmd = "NEW_KEY" /\ k = KeyOf(c)
  <2>1. CASE n = Len(q) + 1
    BY <1>1, <1>6, <2>1
  <2>2. CASE n \in 1..Len(q)
    <3>1. r[n] = q[n]
      BY <1>1, <2>2
    <3>2. \A l \in 1..Len(q) : n < l => ~Deletes(q[l], KeyOf(q[n]).key)
      BY <1>1, <1>2, <1>6, <3>1
    <3>3. ~Deletes(c, k.key)
      BY <1>1, <1>2, <1>6, <2>2
    <3>4. k \in LiveIn(keys, q)
      BY <1>6, <2>2, <3>1, <3>2 DEF LiveIn
    <3> QED BY <3>3, <3>4
  <2> QED BY <1>3, <2>1, <2>2
<1>7. \/ k \in keys /\ \A n \in 1..Len(r) : ~Deletes(r[n], k.key)
      \/ \E n \in 1..Len(r) : /\ r[n].cmd = "NEW_KEY" /\ k = KeyOf(r[n])
                              /\ \A l \in 1..Len(r) : n < l => ~Deletes(r[l], KeyOf(r[n]).key)
  BY <1>4 DEF LiveIn
<1> QED BY <1>5, <1>6, <1>7

LEMMA LiveTail ==
  ASSUME NEW keys, NEW more, NEW q \in Seq(Commands), q # <<>>,
         \A k \in more : \/ k \in keys /\ ~Deletes(Head(q), k.key)
                         \/ Head(q).cmd = "NEW_KEY" /\ k = KeyOf(Head(q)),
         NEW k \in LiveIn(more, Tail(q))
  PROVE k \in LiveIn(keys, q)
<1> DEFINE r == Tail(q)
<1>1. /\ Len(r) = Len(q) - 1 /\ Len(q) \in Nat /\ Len(q) > 0 /\ Head(q) = q[1]
      /\ 1 \in 1..Len(q)
  BY TailFacts
<1>2. /\ \A i \in 1..Len(r) : i + 1 \in 1..Len(q) /\ r[i] = q[i + 1]
      /\ \A i \in 1..Len(q) : i = 1 \/ (i - 1 \in 1..Len(r) /\ r[i - 1] = q[i])
  BY InTail
<1>3. k \in LiveIn(more, r)
  OBVIOUS
<1> HIDE DEF r
<1>4. CASE k \in more /\ \A n \in 1..Len(r) : ~Deletes(r[n], k.key)
  <2>1. CASE k \in keys /\ ~Deletes(Head(q), k.key)
    <3>1. \A n \in 1..Len(q) : ~Deletes(q[n], k.key)
      BY <1>1, <1>2, <1>4, <2>1
    <3> QED BY <2>1, <3>1 DEF LiveIn
  <2>2. CASE Head(q).cmd = "NEW_KEY" /\ k = KeyOf(Head(q))
    <3>1. \A n \in 1..Len(q) : 1 < n => ~Deletes(q[n], KeyOf(q[1]).key)
      BY <1>1, <1>2, <1>4, <2>2
    <3> QED BY <1>1, <2>2, <3>1 DEF LiveIn
  <2> QED BY <1>4, <2>1, <2>2
<1>5. ASSUME NEW n \in 1..Len(r), r[n].cmd = "NEW_KEY", k = KeyOf(r[n]),
             \A l \in 1..Len(r) : n < l => ~Deletes(r[l], KeyOf(r[n]).key)
      PROVE k \in LiveIn(keys, q)
  <2>1. n + 1 \in 1..Len(q) /\ q[n + 1] = r[n]
    BY <1>2
  <2>2. ASSUME NEW l \in 1..Len(q), n + 1 < l PROVE ~Deletes(q[l], KeyOf(q[n + 1]).key)
    <3>1. l - 1 \in 1..Len(r) /\ r[l - 1] = q[l] /\ n < l - 1
      BY <1>1, <1>2, <2>1, <2>2
    <3> QED BY <1>5, <2>1, <3>1
  <2> QED BY <1>5, <2>1, <2>2 DEF LiveIn
<1>6. \/ k \in more /\ \A n \in 1..Len(r) : ~Deletes(r[n], k.key)
      \/ \E n \in 1..Len(r) : /\ r[n].cmd = "NEW_KEY" /\ k = KeyOf(r[n])
                              /\ \A l \in 1..Len(r) : n < l => ~Deletes(r[l], KeyOf(r[n]).key)
  BY <1>3 DEF LiveIn
<1> QED BY <1>4, <1>5, <1>6

LEMMA LiveFewer ==
  ASSUME NEW keys, NEW fewer, fewer \subseteq keys, NEW q
  PROVE LiveIn(fewer, q) \subseteq LiveIn(keys, q)
BY DEF LiveIn

(* What counts is what a NEW_KEY says or is installed: its parts.           *)
LEMMA LiveIs ==
  ASSUME TypeInv, KeyInv, NEW k \in Live
  PROVE /\ k.entry \in Entries /\ k.key[2] \in Kinds /\ k.key[3] \in 0..5
        /\ k.cipher \in Ciphers /\ k.key = Key(k.key[1], k.key[2], k.key[3])
        /\ k.key[2] = "pairwise" => k.key[3] = 0
        /\ k.key \in KeysIn(k.entry)
<1>1. CASE k \in rpu.keys
  <2>1. k \in Installed
    BY <1>1, TypeFacts
  <2>2. k.entry \in Entries /\ k.cipher \in Ciphers /\ k.key \in KeyNames
    BY <2>1 DEF Installed
  <2>3. PICK p \in Sta, kind \in Kinds, idx \in KeyIdx : k.key = Key(p, kind, idx)
    BY <2>2 DEF KeyNames
  <2>4. k.key[1] = p /\ k.key[2] = kind /\ k.key[3] = idx
    BY <2>3 DEF Key
  <2>5. k.key \in KeysIn(k.entry)
    BY <1>1 DEF KeysIn
  <2> QED BY <1>1, <2>2, <2>3, <2>4, <2>5, KeyAssumption DEF KeyInv
<1>2. ASSUME NEW n \in 1..Len(cmdq), cmdq[n].cmd = "NEW_KEY", k = KeyOf(cmdq[n])
      PROVE /\ k.entry \in Entries /\ k.key[2] \in Kinds /\ k.key[3] \in 0..5
            /\ k.cipher \in Ciphers /\ k.key = Key(k.key[1], k.key[2], k.key[3])
            /\ k.key[2] = "pairwise" => k.key[3] = 0
            /\ k.key \in KeysIn(k.entry)
  <2> DEFINE c == cmdq[n]
  <2>1. c \in Allowed /\ c \in Range(cmdq)
    BY TypeFacts, ElementOfSeq DEF Range
  <2>2. c \in Commands
    BY <2>1 DEF Allowed
  <2>3. /\ c.entry \in Entries /\ c.kind \in Kinds /\ c.idx \in KeyIdx /\ c.cipher \in Ciphers
    BY <2>2 DEF Commands
  <2>4. k.entry = c.entry /\ k.key = Key(c.peer, c.kind, c.idx) /\ k.cipher = c.cipher
    BY <1>2 DEF KeyOf
  <2>5. k.key[1] = c.peer /\ k.key[2] = c.kind /\ k.key[3] = c.idx
    BY <2>4 DEF Key
  <2>6. c.kind = "pairwise" => c.idx = 0
    BY <1>2, <2>1 DEF Allowed
  <2>7. k.key \in KeysIn(k.entry)
    BY <1>2, <2>1, <2>4 DEF KeysIn
  <2> QED BY <2>3, <2>4, <2>5, <2>6, <2>7, KeyAssumption
<1> QED BY <1>1, <1>2 DEF Live, LiveIn

(* The memory of two keys, both management group keys or neither, overlaps  *)
(* only when they are the same but for the cipher: of one entry and kind,   *)
(* and of one index if they are group keys.                                 *)
LEMMA PlacesApart ==
  ASSUME NEW i \in Entries, NEW j \in Entries, NEW k \in Kinds, NEW l \in Kinds,
         NEW x \in 0..5, NEW y \in 0..5, NEW c \in Ciphers, NEW d \in Ciphers,
         k = "pairwise" => x = 0, l = "pairwise" => y = 0, x > 3 <=> y > 3,
         NEW m, m \in Place(i, k, x, c), m \in Place(j, l, y, d)
  PROVE i = j /\ k = l /\ x = y
<1> DEFINE Off(kk, xx, cc, z) ==
      \/ kk = "pairwise" /\ cc = "TKIP" /\ z = 0
      \/ kk = "pairwise" /\ cc # "TKIP" /\ z \in {1, 2}
      \/ kk = "group" /\ cc = "TKIP" /\ z = 3 + xx
      \/ kk = "group" /\ cc # "TKIP" /\ z \in {7 + 2 * xx, 8 + 2 * xx}
<1>0. i \in Nat /\ j \in Nat /\ i >= 1 /\ j >= 1
  BY PeersAssumption DEF Entries
<1>1. \E z \in 0..18 : m = (i - 1) * 15 + z /\ Off(k, x, c, z)
  BY <1>0 DEF Place, EntryCells, MicCells, UnicastCells, BcstCells, Kinds
<1>2. \E z \in 0..18 : m = (j - 1) * 15 + z /\ Off(l, y, d, z)
  BY <1>0 DEF Place, EntryCells, MicCells, UnicastCells, BcstCells, Kinds
<1>3. PICK z \in 0..18 : m = (i - 1) * 15 + z /\ Off(k, x, c, z)
  BY <1>1
<1>4. PICK w \in 0..18 : m = (j - 1) * 15 + w /\ Off(l, y, d, w)
  BY <1>2
<1>5. z - w < 15 /\ w - z < 15
  <2>1. CASE x > 3
    BY <1>3, <1>4, <2>1
  <2>2. CASE ~(x > 3)
    BY <1>3, <1>4, <2>2
  <2> QED BY <2>1, <2>2
<1>6. i = j /\ z = w
  BY <1>0, <1>3, <1>4, <1>5
<1>7. CASE x = y
  BY <1>3, <1>4, <1>6, <1>7
<1>8. CASE x # y
  BY <1>3, <1>4, <1>6, <1>8
<1> QED BY <1>7, <1>8

LEMMA PlaceInMemory ==
  ASSUME NEW i \in Entries, NEW k \in Kinds, NEW x \in 0..5, NEW c \in Ciphers
  PROVE Place(i, k, x, c) \subseteq Cells
<1>1. i \in Nat /\ i >= 1 /\ i <= MaxPeers /\ MaxPeers \in Nat
  BY PeersAssumption DEF Entries
<1>2. \A m \in Place(i, k, x, c) : \E z \in 0..18 : m = (i - 1) * 15 + z
  BY <1>1 DEF Place, EntryCells, MicCells, UnicastCells, BcstCells, Kinds
<1>3. ASSUME NEW m \in Place(i, k, x, c) PROVE m \in 0..(15 * (MaxPeers + 1))
  <2>1. PICK z \in 0..18 : m = (i - 1) * 15 + z
    BY <1>2
  <2> QED BY <1>1, <2>1
<1> QED BY <1>3 DEF Cells, EntryCells

(* Nothing that counts is new, the data base and the memory stay.           *)
LEMMA KeysKept ==
  ASSUME TypeInv, KeyInv, UNCHANGED <<db, keymem, cut>>,
         LiveIn(rpu'.keys, cmdq') \subseteq LiveIn(rpu.keys, cmdq),
         \A k \in rpu'.keys : k.key[2] = "pairwise" => k.key[3] = 0
  PROVE KeyInv'
<1>1. \A k : Held(k)' <=> Held(k)
  BY DEF Held, Overrun, Management
<1>2. Live' = LiveIn(rpu'.keys, cmdq')
  BY DEF Live, LiveIn, Deletes, KeyOf, Key
<1> QED BY <1>1, <1>2 DEF KeyInv, Live

(* A command that is not about keys is sent.                                *)
LEMMA KeysOther ==
  ASSUME NEW keys, NEW q \in Seq(Commands), NEW c \in Commands, c.cmd # "NEW_KEY"
  PROVE LiveIn(keys, Append(q, c)) \subseteq LiveIn(keys, q)
BY LiveAppend

LEMMA KeysQuiet ==
  ASSUME TypeInv, KeyInv, rpu' = rpu, UNCHANGED <<db, keymem, cut>>,
         \/ cmdq' = cmdq
         \/ \E c \in Commands : c.cmd # "NEW_KEY" /\ cmdq' = Append(cmdq, c)
         \/ \E c \in Commands : \E d \in Commands :
              /\ c.cmd # "NEW_KEY" /\ d.cmd # "NEW_KEY"
              /\ cmdq' = Append(Append(cmdq, c), d)
  PROVE KeyInv'
<1>1. cmdq \in Seq(Commands)
  BY TypeFacts
<1>2. ASSUME NEW c \in Commands, NEW d \in Commands, c.cmd # "NEW_KEY", d.cmd # "NEW_KEY"
      PROVE LiveIn(rpu.keys, Append(Append(cmdq, c), d)) \subseteq LiveIn(rpu.keys, cmdq)
  <2>1. Append(cmdq, c) \in Seq(Commands)
    BY <1>1, AppendFacts
  <2>2. LiveIn(rpu.keys, Append(Append(cmdq, c), d)) \subseteq LiveIn(rpu.keys, Append(cmdq, c))
    BY <1>2, <2>1, KeysOther
  <2>3. LiveIn(rpu.keys, Append(cmdq, c)) \subseteq LiveIn(rpu.keys, cmdq)
    BY <1>1, <1>2, KeysOther
  <2> QED BY <2>2, <2>3
<1>3. LiveIn(rpu.keys, cmdq') \subseteq LiveIn(rpu.keys, cmdq)
  BY <1>1, <1>2, KeysOther
<1>4. \A k \in rpu.keys : k.key[2] = "pairwise" => k.key[3] = 0
  BY DEF KeyInv
<1>5. LiveIn(rpu'.keys, cmdq') \subseteq LiveIn(rpu.keys, cmdq)
  BY <1>3
<1> QED BY <1>4, <1>5, KeysKept

(* A command is taken: what it brings counted already, and what it deletes  *)
(* does not count.                                                          *)
LEMMA KeysTaken ==
  ASSUME TypeInv, KeyInv, RpuSteps, cmdq # <<>>, cmdq' = Tail(cmdq),
         \A k \in rpu'.keys :
            \/ k \in rpu.keys /\ ~Deletes(Head(cmdq), k.key)
            \/ Head(cmdq).cmd = "NEW_KEY" /\ k = KeyOf(Head(cmdq))
  PROVE KeyInv'
<1>1. cmdq \in Seq(Commands)
  BY TypeFacts
<1>2. LiveIn(rpu'.keys, Tail(cmdq)) \subseteq LiveIn(rpu.keys, cmdq)
  BY <1>1, LiveTail
<1>3. LiveIn(rpu'.keys, cmdq') \subseteq LiveIn(rpu.keys, cmdq)
  BY <1>2
<1>4. ASSUME NEW k \in rpu'.keys, k.key[2] = "pairwise" PROVE k.key[3] = 0
  <2>1. CASE k \in rpu.keys
    BY <1>4, <2>1 DEF KeyInv
  <2>2. CASE Head(cmdq).cmd = "NEW_KEY" /\ k = KeyOf(Head(cmdq))
    <3>1. Head(cmdq) \in Allowed
      BY <1>1, TakeAllowed
    <3>2. k.key[2] = Head(cmdq).kind /\ k.key[3] = Head(cmdq).idx
      BY <2>2 DEF KeyOf, Key
    <3> QED BY <1>4, <2>2, <3>1, <3>2 DEF Allowed
  <2> QED BY <2>1, <2>2
<1>5. UNCHANGED <<db, keymem, cut>>
  BY DEF RpuSteps
<1> QED BY <1>3, <1>4, <1>5, KeysKept

(* A command that is not DEL_KEY is taken, and keys may go.                 *)
LEMMA KeysGo ==
  ASSUME TypeInv, KeyInv, RpuSteps, cmdq # <<>>, cmdq' = Tail(cmdq),
         rpu'.keys \subseteq rpu.keys, Head(cmdq).cmd # "DEL_KEY"
  PROVE KeyInv'
<1>1. \A k \in rpu'.keys : k \in rpu.keys /\ ~Deletes(Head(cmdq), k.key)
  BY DEF Deletes
<1> QED BY <1>1, KeysTaken

LEMMA KeysLess ==
  ASSUME TypeInv, KeyInv, RpuSteps, cmdq' = cmdq, rpu'.keys \subseteq rpu.keys
  PROVE KeyInv'
<1>1. LiveIn(rpu'.keys, cmdq) \subseteq LiveIn(rpu.keys, cmdq)
  BY LiveFewer
<1>2. LiveIn(rpu'.keys, cmdq') \subseteq LiveIn(rpu.keys, cmdq)
  BY <1>1
<1>3. UNCHANGED <<db, keymem, cut>>
  BY DEF RpuSteps
<1>4. \A k \in rpu'.keys : k.key[2] = "pairwise" => k.key[3] = 0
  BY DEF KeyInv
<1> QED BY <1>2, <1>3, <1>4, KeysKept

(* A key is programmed: the entry was free, or its peer's, and the memory   *)
(* of other keys is not touched.                                            *)
LEMMA KeysProgrammed ==
  ASSUME TypeInv, KeyInv, NEW p \in Sta, NEW kind \in Kinds, NEW idx \in KeyIdx,
         NEW cipher \in Ciphers, kind = "pairwise" => idx = 0,
         NEW i \in Entries, Programs(p, kind, idx, cipher, i), rpu' = rpu
  PROVE KeyInv'
<1> DEFINE c == Command("NEW_KEY", p, kind, idx, i, cipher)
           w == KeyOf(c)
<1>1. /\ db' = [db EXCEPT ![i].valid = TRUE, ![i].peer = p]
      /\ db[i].valid => db[i].peer = p
      /\ keymem' = Written(Place(i, kind, idx, cipher), Key(p, kind, idx))
      /\ cut' = cut /\ (cmdq' = cmdq \/ cmdq' = Append(cmdq, c))
  BY DEF Programs
<1>2. idx \in 0..5
  BY KeyAssumption
<1>3. /\ w.entry = i /\ w.key = Key(p, kind, idx) /\ w.cipher = cipher
      /\ w.key[1] = p /\ w.key[2] = kind /\ w.key[3] = idx
  BY DEF KeyOf, Command, Key
<1>4. c \in Commands
  BY NewKeyMade DEF Allowed
<1>5. cmdq \in Seq(Commands) /\ keymem \in [Cells -> KeyNames \cup {NoKey}]
      /\ db \in [Entries -> [peer : Sta \cup {None}, valid : BOOLEAN, ucst : BOOLEAN,
                             bcst : BOOLEAN]]
  BY TypeFacts
<1>6. db'[i].valid /\ db'[i].peer = p /\ \A j \in Entries : j # i => db'[j] = db[j]
  BY <1>1, <1>5
<1>7. \A m \in Cells : keymem'[m] = IF m \in Place(i, kind, idx, cipher)
                                    THEN Key(p, kind, idx) ELSE keymem[m]
  BY <1>1 DEF Written
<1> HIDE DEF c, w
<1>8. Held(w)'
  <2>1. \A m \in Place(i, kind, idx, cipher) : keymem'[m] = Key(p, kind, idx)
    BY <1>2, <1>7, PlaceInMemory
  <2> QED BY <1>3, <1>6, <2>1 DEF Held, Place, Overrun
<1>9. ASSUME NEW k \in Live, k.entry \notin cut PROVE Held(k)'
  <2>1. Held(k)
    BY <1>9 DEF KeyInv
  <2>2. /\ k.entry \in Entries /\ k.key[2] \in Kinds /\ k.key[3] \in 0..5
        /\ k.cipher \in Ciphers /\ k.key = Key(k.key[1], k.key[2], k.key[3])
        /\ k.key[2] = "pairwise" => k.key[3] = 0
    BY LiveIs
  <2>3. db'[k.entry].valid /\ db'[k.entry].peer = k.key[1]
    BY <1>1, <1>6, <2>1, <2>2 DEF Held
  <2>4. ASSUME NEW m \in Place(k.entry, k.key[2], k.key[3], k.cipher)
        PROVE keymem'[m] = k.key \/ Overrun(k, m)'
    <3>1. m \in Cells /\ (keymem[m] = k.key \/ Overrun(k, m))
      BY <2>1, <2>2, PlaceInMemory DEF Held
    <3>2. CASE m \in Place(i, kind, idx, cipher) /\ (k.key[3] > 3 <=> idx > 3)
      <4>1. k.entry = i /\ k.key[2] = kind /\ k.key[3] = idx
        BY <1>2, <2>2, <3>2, PlacesApart
      <4>2. k.key[1] = p
        BY <1>6, <2>3, <4>1
      <4> QED BY <1>7, <2>2, <3>1, <3>2, <4>1, <4>2
    <3>3. CASE m \in Place(i, kind, idx, cipher) /\ ~(k.key[3] > 3 <=> idx > 3)
      <4>1. keymem'[m] = Key(p, kind, idx)
        BY <1>7, <3>1, <3>3
      <4>2. keymem'[m] # NoKey /\ keymem'[m][3] = idx
        BY <4>1 DEF Key, NoKey
      <4>3. Management(keymem'[m]) # Management(k.key)
        BY <3>3, <4>2 DEF Management
      <4> QED BY <4>2, <4>3 DEF Overrun, Management
    <3>4. CASE m \notin Place(i, kind, idx, cipher)
      <4>1. keymem'[m] = keymem[m]
        BY <1>7, <3>1, <3>4
      <4> QED BY <3>1, <4>1 DEF Overrun, Management
    <3> QED BY <3>2, <3>3, <3>4
  <2> QED BY <2>3, <2>4 DEF Held, Place
<1>10. ASSUME NEW k \in LiveIn(rpu.keys, cmdq') PROVE k \in Live \/ k = w
  BY <1>1, <1>4, <1>5, <1>10, LiveAppend DEF Live, w
<1>11. Live' = LiveIn(rpu.keys, cmdq')
  BY DEF Live, LiveIn, Deletes, KeyOf, Key
<1>12. \A k \in Live' : k.entry \notin cut' => Held(k)'
  BY <1>1, <1>8, <1>9, <1>10, <1>11
<1>13. \A k \in rpu'.keys : k.key[2] = "pairwise" => k.key[3] = 0
  BY DEF KeyInv
<1> QED BY <1>12, <1>13 DEF KeyInv

(* A key is deleted: an entry is freed only when no key of it counts any    *)
(* longer, or it is cut.                                                    *)
LEMMA KeysDeleted ==
  ASSUME TypeInv, KeyInv, NEW p \in Sta \cup {None}, NEW kind \in Kinds, NEW idx \in KeyIdx,
         DeletesKey(p, kind, idx)
  PROVE KeyInv'
<1> DEFINE c == Deleted(p, kind, idx)
<1>1. PICK i \in Entries, u \in BOOLEAN, b \in BOOLEAN, v \in BOOLEAN :
        DeletesAt(i, u, b, v, c)
  BY DEF DeletesKey
<1>2. c \in Commands /\ c.cmd = "DEL_KEY"
  BY DelKeyMade DEF Allowed, Deleted, Command
<1>3. /\ cmdq' = cmdq \/ cmdq' = Append(cmdq, c)
      /\ rpu' = rpu /\ keymem' = keymem
  BY DEF DeletesKey, envVars
<1> HIDE DEF c
<1>4. cmdq \in Seq(Commands)
      /\ db \in [Entries -> [peer : Sta \cup {None}, valid : BOOLEAN, ucst : BOOLEAN,
                             bcst : BOOLEAN]]
  BY TypeFacts
<1>5. /\ db' = [db EXCEPT ![i].ucst = u, ![i].bcst = b, ![i].valid = v]
      /\ cut' = cut \/ cut' = cut \cup {i}
      /\ \/ v = db[i].valid
         \/ cut' = cut \cup {i}
         \/ KeysIn(i) = {}
         \/ cmdq' = Append(cmdq, c) /\ \A key \in KeysIn(i) : Deletes(c, key)
  BY <1>1 DEF DeletesAt
<1>6. /\ \A j \in Entries : db'[j].peer = db[j].peer
      /\ \A j \in Entries : j # i => db'[j].valid = db[j].valid
      /\ db'[i].valid = v
  BY <1>4, <1>5
<1>7. ASSUME NEW k \in LiveIn(rpu.keys, cmdq')
      PROVE k \in Live /\ (cmdq' = Append(cmdq, c) => ~Deletes(c, k.key))
  <2>1. CASE cmdq' = Append(cmdq, c)
    <3>1. k \in LiveIn(rpu.keys, Append(cmdq, c))
      BY <1>7, <2>1
    <3> QED BY <1>2, <1>4, <3>1, LiveAppend DEF Live
  <2>2. CASE cmdq' = cmdq /\ cmdq' # Append(cmdq, c)
    BY <1>7, <2>2 DEF Live
  <2> QED BY <1>3, <2>1, <2>2
<1>8. ASSUME NEW k \in LiveIn(rpu.keys, cmdq'), k.entry \notin cut' PROVE Held(k)'
  <2>1. k \in Live /\ k.entry \notin cut /\ (cmdq' = Append(cmdq, c) => ~Deletes(c, k.key))
    BY <1>5, <1>7, <1>8
  <2>2. k.entry \in Entries /\ k.key \in KeysIn(k.entry)
    BY <2>1, LiveIs
  <2>3. /\ db[k.entry].valid /\ db[k.entry].peer = k.key[1]
        /\ \A m \in Place(k.entry, k.key[2], k.key[3], k.cipher) :
              keymem[m] = k.key \/ Overrun(k, m)
    BY <2>1 DEF KeyInv, Held
  <2>4. db'[k.entry].valid
    <3>1. CASE k.entry # i
      BY <1>6, <2>2, <2>3, <3>1
    <3>2. CASE k.entry = i
      <4>1. v = db[i].valid
        BY <1>5, <1>8, <2>1, <2>2, <3>2
      <4>2. db[i].valid = TRUE
        BY <2>3, <3>2, <1>4
      <4>3. db'[i].valid = TRUE
        BY <1>6, <4>1, <4>2
      <4> QED BY <3>2, <4>3
    <3> QED BY <3>1, <3>2
  <2> QED BY <1>3, <1>6, <2>2, <2>3, <2>4 DEF Held, Place, Overrun, Management
<1>9. Live' = LiveIn(rpu.keys, cmdq')
  BY <1>3 DEF Live, LiveIn, Deletes, KeyOf, Key
<1>10. \A k \in rpu'.keys : k.key[2] = "pairwise" => k.key[3] = 0
  BY <1>3 DEF KeyInv
<1> QED BY <1>8, <1>9, <1>10 DEF KeyInv

LEMMA KeysNext ==
  ASSUME TypeInv, KeyInv, [Next]_vars
  PROVE KeyInv'
<1>0. TypeOK
  BY DEF TypeInv
<1>1. CASE UNCHANGED vars
  BY <1>1, KeysQuiet DEF vars
<1>2. CASE Next
  <2>1. CASE SendsQuiet
    <3>1. cmdq' = cmdq \/ \E c \in Commands : c.cmd # "NEW_KEY" /\ cmdq' = Append(cmdq, c)
      BY <2>1, QuietAllowed DEF SendsQuiet, QuietNames
    <3>2. rpu' = rpu /\ UNCHANGED <<db, keymem, cut>>
      BY <2>1 DEF SendsQuiet, keyVars, envVars
    <3> QED BY <3>1, <3>2, KeysQuiet
  <2>2. ASSUME NEW p, NEW kind, NEW idx, NEW cipher, AddsKey(p, kind, idx, cipher)
        PROVE KeyInv'
    <3>1. rpu' = rpu
      BY <2>2 DEF AddsKey, envVars
    <3>2. CASE UNCHANGED <<keyVars, cmdq>>
      BY <3>1, <3>2, KeysQuiet DEF keyVars
    <3>3. CASE ~UNCHANGED <<keyVars, cmdq>>
      <4>1. /\ p \in Sta /\ kind \in Kinds /\ idx \in KeyIdx /\ cipher \in Ciphers
            /\ kind = "pairwise" => idx = 0
        BY <2>2, <3>3 DEF AddsKey
      <4>2. PICK i \in Entries : Programs(p, kind, idx, cipher, i)
        BY <2>2, <3>3 DEF AddsKey
      <4> QED BY <3>1, <4>1, <4>2, KeysProgrammed
    <3> QED BY <3>2, <3>3
  <2>3. CASE \E p \in Sta \cup {None}, kind \in Kinds, idx \in KeyIdx : DeletesKey(p, kind, idx)
    BY <2>3, KeysDeleted
  <2>4. CASE StartAp
    <3>1. Plain("SET_WIPHY", None) \in Commands /\ Plain("SET_WIPHY", None).cmd # "NEW_KEY"
      BY <1>0, <2>4, StartApDoes, QuietAllowed DEF QuietNames
    <3>2. Plain("START_AP", None) \in Commands /\ Plain("START_AP", None).cmd # "NEW_KEY"
      BY <1>0, <2>4, StartApDoes
    <3>3. rpu' = rpu /\ UNCHANGED <<db, keymem, cut>>
      BY <1>0, <2>4, StartApDoes DEF keyVars, envVars
    <3>4. \/ cmdq' = cmdq
          \/ cmdq' = Append(cmdq, Plain("SET_WIPHY", None))
          \/ cmdq' = Append(Append(cmdq, Plain("SET_WIPHY", None)), Plain("START_AP", None))
      BY <1>0, <2>4, StartApDoes
    <3> QED BY <3>1, <3>2, <3>3, <3>4, KeysQuiet
  <2>5. CASE StopAp
    <3>1. rpu' = rpu /\ UNCHANGED <<db, keymem, cut>>
      BY <1>0, <2>5, StopApDoes DEF keyVars, envVars
    <3>2. /\ Plain("STOP_AP", None) \in Commands /\ Plain("STOP_AP", None).cmd # "NEW_KEY"
          /\ cmdq' = cmdq \/ cmdq' = Append(cmdq, Plain("STOP_AP", None))
      BY <1>0, <2>5, StopApDoes
    <3> QED BY <3>1, <3>2, KeysQuiet
  <2>6. CASE NewStation \/ DelStation
    BY <2>6, NewStationDoes, DelStationDoes, KeysQuiet
  <2>7. CASE RpuNewKey
    <3>1. /\ RpuSteps /\ cmdq # <<>> /\ cmdq' = Tail(cmdq) /\ Head(cmdq).cmd = "NEW_KEY"
          /\ rpu'.keys \subseteq rpu.keys \cup {KeyOf(Head(cmdq))}
      BY <2>7, RpuNewKeyDoes
    <3>2. \A k : ~Deletes(Head(cmdq), k)
      BY <3>1 DEF Deletes
    <3> QED BY <3>1, <3>2, KeysTaken
  <2>8. CASE RpuDelKey
    <3>1. /\ RpuSteps /\ cmdq # <<>> /\ cmdq' = Tail(cmdq)
          /\ rpu'.keys \subseteq rpu.keys
          /\ \A k \in rpu'.keys : ~Deletes(Head(cmdq), k.key)
      BY <2>8, RpuDelKeyDoes
    <3> QED BY <3>1, KeysTaken
  <2>9. CASE RpuOther
    <3>1. /\ RpuSteps /\ cmdq # <<>> /\ cmdq' = Tail(cmdq) /\ Head(cmdq).cmd # "DEL_KEY"
          /\ rpu'.keys \subseteq rpu.keys
      BY <2>9, RpuOtherDoes DEF QuietNames
    <3> QED BY <3>1, KeysGo
  <2>10. CASE RpuAp
    <3>1. /\ RpuSteps /\ cmdq # <<>> /\ cmdq' = Tail(cmdq) /\ Head(cmdq).cmd # "DEL_KEY"
          /\ rpu'.keys \subseteq rpu.keys
      BY <2>10, RpuApDoes DEF Leave
    <3> QED BY <3>1, KeysGo
  <2>11. CASE RpuAssoc
    <3>1. /\ RpuSteps /\ cmdq # <<>> /\ cmdq' = Tail(cmdq) /\ Head(cmdq).cmd # "DEL_KEY"
          /\ rpu'.keys \subseteq rpu.keys
      BY <2>11, RpuAssocDoes DEF Leave
    <3> QED BY <3>1, KeysGo
  <2>12. CASE \E p \in Sta : RpuJoins(p) \/ RpuLeaves(p)
    <3>1. RpuSteps /\ cmdq' = cmdq /\ rpu'.keys \subseteq rpu.keys
      BY <2>12, RpuJoinsDoes, RpuLeavesDoes DEF Leave
    <3> QED BY <3>1, KeysLess
  <2> QED BY <1>2, <2>1, <2>2, <2>3, <2>4, <2>5, <2>6, <2>7, <2>8, <2>9, <2>10, <2>11, <2>12,
             Steps
<1> QED BY <1>1, <1>2

(* Stations: where the RPU looks for a key it was told of, and not told to  *)
(* delete, the memory holds that key or a newer one of the same station,    *)
(* kind and index, although the memory is written when the call is made and *)
(* the commands come later (program_peer_key, del_key) - but where a        *)
(* management group key, written past the cells of its index, and another   *)
(* key lie over each other.                                                 *)
THEOREM KeysStayInPlace == Spec => []KeysInPlace
<1>1. Init => KeyInv
  <2> SUFFICES ASSUME Init PROVE KeyInv
    OBVIOUS
  <2>1. rpu.keys = {} /\ cmdq = <<>>
    BY DEF Init
  <2>2. Live = {}
    BY <2>1 DEF Live, LiveIn
  <2> QED BY <2>1, <2>2 DEF KeyInv
<1>2. TypeInv /\ KeyInv /\ [Next]_vars => KeyInv'
  BY KeysNext
<1>3. TypeInv /\ KeyInv => KeysInPlace
  <2> SUFFICES ASSUME TypeInv, KeyInv, NEW k \in rpu.keys, k.entry \notin cut, ~Deleting(k),
                      NEW m \in Place(k.entry, k.key[2], k.key[3], k.cipher)
               PROVE keymem[m] = k.key \/ Overrun(k, m)
    BY DEF KeysInPlace
  <2>1. cmdq \in Seq(Commands)
    BY TypeFacts
  <2>2. \A n \in 1..Len(cmdq) : cmdq[n] \in Range(cmdq)
    BY <2>1 DEF Range
  <2>3. k \in Live
    BY <2>2 DEF Live, LiveIn, Deleting
  <2> QED BY <2>3 DEF KeyInv, Held
<1> QED BY <1>1, <1>2, <1>3, TypeInvariant, PTL DEF Spec
-----------------------------------------------------------------------------
(* The access point.                                                        *)

(* What sending and taking a command does to what stops the access point.   *)
LEMMA StopsAppend ==
  ASSUME NEW q \in Seq(Commands), NEW c \in Commands
  PROVE /\ Stops(q) => Stops(Append(q, c))
        /\ c.cmd = "STOP_AP" => Stops(Append(q, c)) /\ Stopped(Append(q, c))
        /\ c.cmd # "START_AP" /\ Stopped(q) => Stopped(Append(q, c))
<1> DEFINE r == Append(q, c)
<1>1. /\ Len(r) = Len(q) + 1 /\ Len(q) \in Nat /\ r[Len(q) + 1] = c
      /\ \A i \in 1..Len(q) : r[i] = q[i]
  BY AppendFacts
<1> HIDE DEF r
<1>2. 1..Len(q) \subseteq 1..Len(r) /\ Len(q) + 1 \in 1..Len(r)
      /\ \A i \in 1..Len(q) : i < Len(q) + 1
  BY <1>1
<1>3. \A n \in 1..Len(r) : n \in 1..Len(q) \/ n = Len(q) + 1
  BY <1>1
<1>4. Stops(q) => Stops(r)
  BY <1>1, <1>2 DEF Stops
<1>5. c.cmd = "STOP_AP" => Stops(r)
  BY <1>1, <1>2 DEF Stops
<1>6. c.cmd = "STOP_AP" => Stopped(r)
  BY <1>1, <1>2, <1>3 DEF Stopped
<1>7. ASSUME c.cmd # "START_AP", Stopped(q) PROVE Stopped(r)
  <2> SUFFICES ASSUME NEW n \in 1..Len(r), r[n].cmd = "START_AP"
               PROVE \E m \in 1..Len(r) : n < m /\ r[m].cmd = "STOP_AP"
    BY DEF Stopped
  <2>1. n \in 1..Len(q) /\ q[n].cmd = "START_AP"
    BY <1>1, <1>3, <1>7
  <2>2. PICK m \in 1..Len(q) : n < m /\ q[m].cmd = "STOP_AP"
    BY <1>7, <2>1 DEF Stopped
  <2> QED BY <1>1, <1>2, <2>2
<1> QED BY <1>4, <1>5, <1>6, <1>7 DEF r

LEMMA StopsTail ==
  ASSUME NEW q \in Seq(Commands), q # <<>>
  PROVE /\ Stops(q) /\ Head(q).cmd # "STOP_AP" => Stops(Tail(q))
        /\ Stopped(q) => Stopped(Tail(q))
        /\ Stopped(q) /\ Head(q).cmd = "START_AP" => Stops(Tail(q))
<1> DEFINE r == Tail(q)
<1>1. /\ Len(r) = Len(q) - 1 /\ Len(q) \in Nat /\ Len(q) > 0 /\ Head(q) = q[1]
      /\ 1 \in 1..Len(q)
  BY TailFacts
<1>2. /\ \A i \in 1..Len(r) : i + 1 \in 1..Len(q) /\ r[i] = q[i + 1]
      /\ \A i \in 1..Len(q) : i = 1 \/ (i - 1 \in 1..Len(r) /\ r[i - 1] = q[i])
  BY InTail
<1> HIDE DEF r
<1>3. Stops(q) /\ Head(q).cmd # "STOP_AP" => Stops(r)
  BY <1>1, <1>2 DEF Stops
<1>4. ASSUME NEW n \in 1..Len(q), Stopped(q), q[n].cmd = "START_AP"
      PROVE \E m \in 1..Len(r) : n - 1 < m /\ r[m].cmd = "STOP_AP"
  <2>1. PICK m \in 1..Len(q) : n < m /\ q[m].cmd = "STOP_AP"
    BY <1>4 DEF Stopped
  <2>2. m # 1 /\ n - 1 < m - 1
    BY <2>1
  <2> QED BY <1>2, <2>1, <2>2
<1>5. ASSUME Stopped(q) PROVE Stopped(r)
  <2> SUFFICES ASSUME NEW n \in 1..Len(r), r[n].cmd = "START_AP"
               PROVE \E m \in 1..Len(r) : n < m /\ r[m].cmd = "STOP_AP"
    BY DEF Stopped
  <2>1. n + 1 \in 1..Len(q) /\ q[n + 1].cmd = "START_AP" /\ (n + 1) - 1 = n
    BY <1>2
  <2> QED BY <1>4, <1>5, <2>1
<1>6. Stopped(q) /\ Head(q).cmd = "START_AP" => Stops(r)
  BY <1>1, <1>4 DEF Stops
<1> QED BY <1>3, <1>5, <1>6 DEF r

(* Commands of no concern to the access point are sent, or none.            *)
SendsOther ==
  /\ UNCHANGED <<if_type, rpu, evtq, peers, beaconing, unstopped>>
  /\ \/ cmdq' = cmdq
     \/ \E c \in Commands : c.cmd \notin {"START_AP", "STOP_AP"} /\ cmdq' = Append(cmdq, c)

LEMMA ApSends ==
  ASSUME TypeInv, ApInv, SendsOther
  PROVE ApInv'
<1>1. cmdq \in Seq(Commands)
  BY TypeFacts
<1>2. (Stops(cmdq) => Stops(cmdq')) /\ (Stopped(cmdq) => Stopped(cmdq'))
  BY <1>1, StopsAppend DEF SendsOther
<1> QED BY <1>2 DEF ApInv, SendsOther, Stops, Stopped

LEMMA OthersSend ==
  ASSUME TypeInv, Next
  PROVE \/ SendsOther
        \/ StartAp \/ StopAp \/ NewStation \/ DelStation
        \/ RpuNewKey \/ RpuDelKey \/ RpuOther \/ RpuAp \/ RpuAssoc
        \/ \E p \in Sta : RpuJoins(p) \/ RpuLeaves(p)
<1>1. CASE SendsQuiet
  <2>1. \/ cmdq' = cmdq
        \/ \E c \in Commands : c.cmd \notin {"START_AP", "STOP_AP"} /\ cmdq' = Append(cmdq, c)
    BY <1>1, QuietAllowed DEF SendsQuiet, QuietNames
  <2> QED BY <1>1, <2>1 DEF SendsQuiet, SendsOther, envVars
<1>2. ASSUME NEW p, NEW kind, NEW idx, NEW cipher, AddsKey(p, kind, idx, cipher)
      PROVE SendsOther
  <2>1. UNCHANGED <<if_type, rpu, evtq, peers, beaconing, unstopped>>
    BY <1>2 DEF AddsKey, envVars
  <2>2. CASE UNCHANGED <<keyVars, cmdq>>
    BY <2>1, <2>2 DEF SendsOther
  <2>3. CASE ~UNCHANGED <<keyVars, cmdq>>
    <3>1. /\ p \in Sta /\ kind \in Kinds /\ idx \in KeyIdx /\ cipher \in Ciphers
          /\ kind = "pairwise" => idx = 0
      BY <1>2, <2>3 DEF AddsKey
    <3>2. PICK i \in Entries : Programs(p, kind, idx, cipher, i)
      BY <1>2, <2>3 DEF AddsKey
    <3>3. PICK c : c = Command("NEW_KEY", p, kind, idx, i, cipher)
      OBVIOUS
    <3>4. c \in Commands /\ c.cmd = "NEW_KEY"
      BY <3>1, <3>3, NewKeyMade DEF Allowed, Command
    <3>5. cmdq' = cmdq \/ cmdq' = Append(cmdq, c)
      BY <3>2, <3>3 DEF Programs
    <3> QED BY <2>1, <3>4, <3>5 DEF SendsOther
  <2> QED BY <2>2, <2>3
<1>3. ASSUME NEW p \in Sta \cup {None}, NEW kind \in Kinds, NEW idx \in KeyIdx,
             DeletesKey(p, kind, idx)
      PROVE SendsOther
  <2>1. UNCHANGED <<if_type, rpu, evtq, peers, beaconing, unstopped>>
    BY <1>3 DEF DeletesKey, envVars
  <2>2. PICK c : c = Deleted(p, kind, idx)
    OBVIOUS
  <2>3. c \in Commands /\ c.cmd = "DEL_KEY"
    BY <2>2, DelKeyMade DEF Allowed, Deleted, Command
  <2>4. cmdq' = cmdq \/ cmdq' = Append(cmdq, c)
    BY <1>3, <2>2 DEF DeletesKey
  <2> QED BY <2>1, <2>3, <2>4 DEF SendsOther
<1> QED BY <1>1, <1>2, <1>3, Steps

(* A command is taken: what it means for the access point.                  *)
LEMMA ApTakes ==
  ASSUME TypeInv, ApInv, RpuSteps, cmdq # <<>>, cmdq' = Tail(cmdq),
         Head(cmdq).cmd \notin {"START_AP", "STOP_AP"},
         rpu'.ap = rpu.ap, rpu'.stations \subseteq rpu.stations
  PROVE ApInv'
<1>1. cmdq \in Seq(Commands)
  BY TypeFacts
<1>2. (Stops(cmdq) => Stops(cmdq')) /\ (Stopped(cmdq) => Stopped(cmdq'))
  BY <1>1, StopsTail
<1> QED BY <1>2 DEF ApInv, RpuSteps, Stops, Stopped

LEMMA ApNext ==
  ASSUME TypeInv, ApInv, [Next]_vars
  PROVE ApInv'
<1>0. TypeOK /\ cmdq \in Seq(Commands)
  BY TypeFacts DEF TypeInv
<1>1. CASE UNCHANGED vars
  BY <1>1 DEF vars, ApInv, Stops, Stopped
<1>2. CASE StartAp
  <2>1. UNCHANGED <<if_type, rpu, unstopped>> /\ ~beaconing
    BY <1>0, <1>2, StartApDoes DEF envVars
  <2>2. Plain("SET_WIPHY", None) \in Commands /\ Plain("SET_WIPHY", None).cmd # "START_AP"
    BY <1>0, <1>2, StartApDoes, QuietAllowed DEF QuietNames
  <2>3. /\ Stops(cmdq) => Stops(Append(cmdq, Plain("SET_WIPHY", None)))
        /\ Stopped(cmdq) => Stopped(Append(cmdq, Plain("SET_WIPHY", None)))
    BY <1>0, <2>2, StopsAppend
  <2>4. \/ cmdq' = cmdq \/ cmdq' = Append(cmdq, Plain("SET_WIPHY", None))
        \/ beaconing' = TRUE
    BY <1>0, <1>2, StartApDoes
  <2>5. beaconing' = TRUE \/ ((Stops(cmdq) => Stops(cmdq')) /\ (Stopped(cmdq) => Stopped(cmdq')))
    BY <2>3, <2>4
  <2> QED BY <2>1, <2>5 DEF ApInv, Stops, Stopped
<1>3. CASE StopAp
  <2>1. UNCHANGED <<if_type, rpu>>
    BY <1>0, <1>3, StopApDoes DEF envVars
  <2>2. \/ unstopped' = TRUE
        \/ cmdq' = Append(cmdq, Plain("STOP_AP", None))
    BY <1>0, <1>3, StopApDoes
  <2>3. Plain("STOP_AP", None) \in Commands /\ Plain("STOP_AP", None).cmd = "STOP_AP"
    BY <1>0, <1>3, StopApDoes
  <2>4. unstopped' = TRUE \/ (Stops(cmdq') /\ Stopped(cmdq'))
    BY <1>0, <2>2, <2>3, StopsAppend
  <2> QED BY <2>1, <2>4 DEF ApInv, Stops, Stopped
<1>4. CASE NewStation \/ DelStation
  <2>1. UNCHANGED <<if_type, cmdq, beaconing, rpu, unstopped>>
    BY <1>4, NewStationDoes, DelStationDoes
  <2> QED BY <2>1 DEF ApInv, Stops, Stopped
<1>5. CASE RpuNewKey \/ RpuDelKey \/ RpuOther
  BY <1>5, RpuNewKeyDoes, RpuDelKeyDoes, RpuOtherDoes, ApTakes DEF QuietNames
<1>6. CASE RpuAp
  <2>1. RpuSteps /\ cmdq # <<>> /\ cmdq' = Tail(cmdq)
    BY <1>6, RpuApDoes
  <2>2. UNCHANGED <<if_type, beaconing, unstopped>>
    BY <2>1 DEF RpuSteps
  <2>3. Stopped(cmdq) => Stopped(cmdq')
    BY <1>0, <2>1, StopsTail
  <2>4. CASE /\ Head(cmdq).cmd = "START_AP"
             /\ rpu'.ap = TRUE /\ rpu'.stations = rpu.stations
    <3>1. Stopped(cmdq) => Stops(cmdq')
      BY <1>0, <2>1, <2>4, StopsTail
    <3> QED BY <2>2, <2>3, <2>4, <3>1 DEF ApInv, Stops, Stopped
  <2>5. CASE Leave(Sta, FALSE, <<>>)
    <3>1. rpu'.ap = FALSE /\ rpu'.stations = rpu.stations \ Sta
      BY <2>5 DEF Leave, Leaving
    <3>2. rpu.stations \subseteq Sta
      BY TypeFacts
    <3>3. rpu'.stations = {}
      BY <3>1, <3>2
    <3> QED BY <2>2, <2>3, <3>1, <3>3 DEF ApInv, Stops, Stopped
  <2>6. ASSUME Head(cmdq).cmd = "DEL_STATION", NEW P, Leave(P, rpu.ap, <<>>)
        PROVE ApInv'
    <3>1. rpu'.ap = rpu.ap /\ rpu'.stations \subseteq rpu.stations
      BY <2>6 DEF Leave, Leaving
    <3> QED BY <2>1, <2>6, <3>1, ApTakes
  <2> QED BY <1>6, <2>4, <2>5, <2>6, RpuApDoes
<1>7. CASE RpuAssoc
  <2>1. RpuSteps /\ cmdq # <<>> /\ cmdq' = Tail(cmdq) /\ if_type = "STATION" /\ rpu'.ap = FALSE
    BY <1>7, RpuAssocDoes DEF Leave
  <2>2. UNCHANGED <<if_type, beaconing, unstopped>>
    BY <2>1 DEF RpuSteps
  <2>3. Stopped(cmdq) => Stopped(cmdq')
    BY <1>0, <2>1, StopsTail
  <2> QED BY <2>1, <2>2, <2>3 DEF ApInv, Stops, Stopped
<1>8. CASE \E p \in Sta : RpuJoins(p)
  <2>1. RpuSteps /\ cmdq' = cmdq /\ rpu.ap /\ rpu'.ap = rpu.ap
    BY <1>8, RpuJoinsDoes
  <2> QED BY <2>1 DEF ApInv, RpuSteps, Stops, Stopped
<1>9. CASE \E p \in Sta : RpuLeaves(p)
  <2>1. PICK p \in Sta : RpuLeaves(p)
    BY <1>9
  <2>2. RpuSteps /\ cmdq' = cmdq /\ Leave({p}, rpu.ap, <<>>)
    BY <2>1, RpuLeavesDoes
  <2>3. rpu'.ap = rpu.ap /\ rpu'.stations \subseteq rpu.stations
    BY <2>2 DEF Leave, Leaving
  <2> QED BY <2>2, <2>3 DEF ApInv, RpuSteps, Stops, Stopped
<1> QED BY <1>1, <1>2, <1>3, <1>4, <1>5, <1>6, <1>7, <1>8, <1>9, OthersSend, ApSends
-----------------------------------------------------------------------------
(* The peer table.                                                          *)

(* The history of the RPU's stations when one more joins, when some are     *)
(* reported gone, and when the first event has been dealt with.             *)
LEMMA HistoryJoins ==
  ASSUME NEW q \in Seq(Events), NEW st, NEW S, History(S, q, st),
         NEW p \in Sta, NEW joined, joined = st \cup {p}, Cardinality(joined) <= MaxPeers
  PROVE \E T : History(T, Append(q, Event("NEW_STATION", p)), joined) /\ T[1] = S[1]
<1> DEFINE e == Event("NEW_STATION", p)
           r == Append(q, e)
           T == [n \in 1..(Len(q) + 2) |-> IF n = Len(q) + 2 THEN joined ELSE S[n]]
<1>1. e \in Events /\ e.event = "NEW_STATION" /\ e.peer = p
  BY EventMade
<1> HIDE DEF e
<1>2. /\ Len(r) = Len(q) + 1 /\ Len(q) \in Nat /\ r[Len(q) + 1] = e
      /\ \A i \in 1..Len(q) : r[i] = q[i]
  BY <1>1, AppendFacts
<1> HIDE DEF r
<1>3. /\ S \in [1..(Len(q) + 1) -> SUBSET Sta] /\ S[Len(q) + 1] = st
      /\ \A n \in 1..Len(q) :
           S[n + 1] = IF q[n].event = "NEW_STATION" THEN S[n] \cup {q[n].peer}
                                                    ELSE S[n] \ {q[n].peer}
      /\ \A n \in 1..(Len(q) + 1) : Cardinality(S[n]) <= MaxPeers
  BY DEF History
<1>4. T \in [1..(Len(r) + 1) -> SUBSET Sta]
  <2>1. joined \in SUBSET Sta
    BY <1>2, <1>3
  <2> QED BY <1>2, <1>3, <2>1
<1>5. /\ T[Len(r) + 1] = joined
      /\ \A n \in 1..(Len(q) + 1) : T[n] = S[n]
      /\ DOMAIN T = 1..(Len(r) + 1)
  BY <1>2
<1> HIDE DEF T
<1>6. ASSUME NEW n \in 1..Len(r)
      PROVE T[n + 1] = IF r[n].event = "NEW_STATION" THEN T[n] \cup {r[n].peer}
                                                     ELSE T[n] \ {r[n].peer}
  <2>1. CASE n \in 1..Len(q)
    <3>1. n \in 1..(Len(q) + 1) /\ n + 1 \in 1..(Len(q) + 1)
      BY <1>2, <2>1
    <3> QED BY <1>2, <1>3, <1>5, <2>1, <3>1
  <2>2. CASE n = Len(q) + 1
    <3>1. n \in 1..(Len(q) + 1) /\ n + 1 = Len(r) + 1
      BY <1>2, <2>2
    <3> QED BY <1>1, <1>2, <1>3, <1>5, <2>2, <3>1
  <2> QED BY <1>2, <2>1, <2>2
<1>7. ASSUME NEW n \in 1..(Len(r) + 1) PROVE Cardinality(T[n]) <= MaxPeers
  <2>1. n \in 1..(Len(q) + 1) \/ n = Len(r) + 1
    BY <1>2
  <2> QED BY <1>3, <1>5, <2>1
<1>8. T[1] = S[1]
  BY <1>2, <1>5
<1>9. History(T, r, joined)
  BY <1>4, <1>5, <1>6, <1>7 DEF History
<1> QED BY <1>8, <1>9 DEF r, e

(* What of st is left when those of order have left.                        *)
Remain(left, st, order, k) ==
  /\ k \in Nat /\ order \in [1..k -> Sta] /\ left \subseteq st
  /\ \A p \in st : p \in left <=> ~\E i \in 1..k : order[i] = p

LEMMA HistoryLeaves ==
  ASSUME NEW q \in Seq(Events), NEW st, NEW S, History(S, q, st),
         NEW k, NEW order, NEW left, Remain(left, st, order, k)
  PROVE \E T : History(T, q \o Reports(order, k), left) /\ T[1] = S[1]
<1> DEFINE r == q \o Reports(order, k)
           T == [n \in 1..(Len(q) + k + 1) |->
                   IF n <= Len(q) + 1 THEN S[n]
                   ELSE st \ {order[i] : i \in 1..(n - (Len(q) + 1))}]
<1>0. /\ k \in Nat /\ order \in [1..k -> Sta] /\ left \subseteq st
      /\ \A p \in st : p \in left <=> ~\E i \in 1..k : order[i] = p
  BY DEF Remain
<1>1. /\ Len(r) = Len(q) + k /\ Len(q) \in Nat
      /\ k \in Nat /\ order \in [1..k -> Sta]
      /\ \A i \in 1..Len(q) : r[i] = q[i]
      /\ \A i \in 1..k : r[Len(q) + i] = Event("DEL_STATION", order[i])
  <2>1. /\ Reports(order, k) \in Seq(Events) /\ Len(Reports(order, k)) = k
        /\ \A i \in 1..k : Reports(order, k)[i] = Event("DEL_STATION", order[i])
    BY <1>0, ReportsMade
  <2>2. PICK s \in Seq(Events) : s = Reports(order, k)
    BY <2>1
  <2>3. /\ Len(q \o s) = Len(q) + Len(s)
        /\ \A i \in 1..Len(q) : (q \o s)[i] = q[i]
        /\ \A i \in 1..Len(s) : (q \o s)[Len(q) + i] = s[i]
    BY ConcatFacts
  <2> QED BY <1>0, <2>1, <2>2, <2>3
<1> HIDE DEF r
<1>2. /\ S \in [1..(Len(q) + 1) -> SUBSET Sta] /\ S[Len(q) + 1] = st
      /\ \A n \in 1..Len(q) :
           S[n + 1] = IF q[n].event = "NEW_STATION" THEN S[n] \cup {q[n].peer}
                                                    ELSE S[n] \ {q[n].peer}
      /\ \A n \in 1..(Len(q) + 1) : Cardinality(S[n]) <= MaxPeers
  BY DEF History
<1>3. /\ \A n \in 1..(Len(q) + 1) : T[n] = S[n]
      /\ \A n \in 1..(Len(r) + 1) : T[n] \in SUBSET Sta
      /\ T \in [1..(Len(r) + 1) -> SUBSET Sta]
  <2>1. st \in SUBSET Sta
    BY <1>1, <1>2
  <2>2. \A n : st \ {order[i] : i \in 1..(n - (Len(q) + 1))} \in SUBSET Sta
    BY <2>1
  <2>3. \A n \in 1..(Len(r) + 1) : T[n] \in SUBSET Sta
    BY <1>1, <1>2, <2>2
  <2> QED BY <1>1, <1>2, <2>3
<1>4. ASSUME NEW j \in 0..k
      PROVE T[Len(q) + 1 + j] = st \ {order[i] : i \in 1..j}
  <2>1. CASE j = 0
    <3>1. {order[i] : i \in 1..j} = {} /\ Len(q) + 1 + j = Len(q) + 1 /\ Len(q) + 1 \in 1..(Len(q) + 1)
      BY <1>1, <2>1
    <3> QED BY <1>2, <1>3, <3>1
  <2>2. CASE j # 0
    <3>1. /\ Len(q) + 1 + j \in 1..(Len(q) + k + 1) /\ ~(Len(q) + 1 + j <= Len(q) + 1)
          /\ (Len(q) + 1 + j) - (Len(q) + 1) = j
      BY <1>1, <2>2
    <3> QED BY <3>1
  <2> QED BY <2>1, <2>2
<1> HIDE DEF T
<1>5. ASSUME NEW n \in 1..Len(r)
      PROVE T[n + 1] = IF r[n].event = "NEW_STATION" THEN T[n] \cup {r[n].peer}
                                                     ELSE T[n] \ {r[n].peer}
  <2>1. CASE n \in 1..Len(q)
    <3>1. n \in 1..(Len(q) + 1) /\ n + 1 \in 1..(Len(q) + 1)
      BY <1>1, <2>1
    <3> QED BY <1>1, <1>2, <1>3, <2>1, <3>1
  <2>2. CASE n \notin 1..Len(q)
    <3>1. PICK j \in 1..k : n = Len(q) + j
      <4>1. n - Len(q) \in 1..k /\ n = Len(q) + (n - Len(q))
        BY <1>1, <2>2
      <4> QED BY <4>1
    <3>2. r[n] = Event("DEL_STATION", order[j]) /\ order[j] \in Sta
      BY <1>1, <3>1
    <3>3. r[n].event = "DEL_STATION" /\ r[n].peer = order[j]
      BY <3>2, EventMade
    <3>4. /\ j - 1 \in 0..k /\ j \in 0..k /\ n = Len(q) + 1 + (j - 1) /\ n + 1 = Len(q) + 1 + j
          /\ \A i : i \in 1..j <=> i \in 1..(j - 1) \/ i = j
      BY <1>1, <3>1
    <3>5. T[n] = st \ {order[i] : i \in 1..(j - 1)} /\ T[n + 1] = st \ {order[i] : i \in 1..j}
      BY <1>4, <3>4
    <3>6. T[n + 1] = T[n] \ {order[j]}
      BY <3>4, <3>5
    <3> QED BY <3>3, <3>6
  <2> QED BY <2>1, <2>2
<1>6. ASSUME NEW n \in 1..(Len(r) + 1) PROVE Cardinality(T[n]) <= MaxPeers
  <2>1. CASE n \in 1..(Len(q) + 1)
    BY <1>2, <1>3, <2>1
  <2>2. CASE n \notin 1..(Len(q) + 1)
    <3>1. n - (Len(q) + 1) \in 0..k /\ n = Len(q) + 1 + (n - (Len(q) + 1))
      BY <1>1, <2>2
    <3>2. T[n] \subseteq st
      BY <1>4, <3>1
    <3>3. IsFiniteSet(st) /\ Cardinality(st) <= MaxPeers
      <4>1. Len(q) + 1 \in 1..(Len(q) + 1)
        BY <1>1
      <4> QED BY <1>2, <4>1, BoundAssumption, FS_Subset
    <3>4. Cardinality(T[n]) <= Cardinality(st) /\ IsFiniteSet(T[n])
      BY <3>2, <3>3, FS_Subset
    <3>5. Cardinality(T[n]) \in Nat /\ Cardinality(st) \in Nat
      BY <3>3, <3>4, FS_CardinalityType
    <3> QED BY <3>3, <3>4, <3>5, PeersAssumption
  <2> QED BY <2>1, <2>2
<1>7. T[1] = S[1] /\ T[Len(r) + 1] = left
  <2>1. 1 \in 1..(Len(q) + 1) /\ k \in 0..k /\ Len(r) + 1 = Len(q) + 1 + k
    BY <1>1
  <2>2. T[Len(r) + 1] = st \ {order[i] : i \in 1..k}
    BY <1>4, <2>1
  <2>3. left = st \ {order[i] : i \in 1..k}
    BY <1>0
  <2> QED BY <1>3, <2>1, <2>2, <2>3
<1>8. History(T, r, left)
  BY <1>3, <1>5, <1>6, <1>7 DEF History
<1> QED BY <1>7, <1>8 DEF r

LEMMA HistoryTail ==
  ASSUME NEW q \in Seq(Events), q # <<>>, NEW st, NEW S, History(S, q, st)
  PROVE \E T : History(T, Tail(q), st) /\ T[1] = S[2]
<1> DEFINE r == Tail(q)
           T == [n \in 1..Len(q) |-> S[n + 1]]
<1>1. /\ Len(r) = Len(q) - 1 /\ Len(q) \in Nat /\ Len(q) > 0
  BY TailFacts
<1>2. \A i \in 1..Len(r) : i + 1 \in 1..Len(q) /\ r[i] = q[i + 1]
  BY InTail
<1> HIDE DEF r
<1>3. /\ S \in [1..(Len(q) + 1) -> SUBSET Sta] /\ S[Len(q) + 1] = st
      /\ \A n \in 1..Len(q) :
           S[n + 1] = IF q[n].event = "NEW_STATION" THEN S[n] \cup {q[n].peer}
                                                    ELSE S[n] \ {q[n].peer}
      /\ \A n \in 1..(Len(q) + 1) : Cardinality(S[n]) <= MaxPeers
  BY DEF History
<1>4. /\ T \in [1..(Len(r) + 1) -> SUBSET Sta]
      /\ \A n \in 1..Len(q) : T[n] = S[n + 1] /\ n + 1 \in 1..(Len(q) + 1)
      /\ Len(r) + 1 = Len(q) /\ 1 \in 1..Len(q) /\ Len(q) \in 1..Len(q)
  BY <1>1, <1>3
<1> HIDE DEF T
<1>5. ASSUME NEW n \in 1..Len(r)
      PROVE T[n + 1] = IF r[n].event = "NEW_STATION" THEN T[n] \cup {r[n].peer}
                                                     ELSE T[n] \ {r[n].peer}
  <2>1. n \in 1..Len(q) /\ n + 1 \in 1..Len(q) /\ r[n] = q[n + 1]
    BY <1>1, <1>2
  <2> QED BY <1>3, <1>4, <2>1
<1>6. History(T, r, st)
  BY <1>3, <1>4, <1>5 DEF History
<1>7. T[1] = S[2]
  BY <1>4
<1> QED BY <1>6, <1>7 DEF r

(* A station that was there and is not any longer is reported gone.         *)
LEMMA HistoryGone ==
  ASSUME NEW q \in Seq(Events), NEW st, NEW S, History(S, q, st),
         NEW p \in S[1], p \notin st
  PROVE \E n \in 1..Len(q) : q[n] = Event("DEL_STATION", p)
<1>0. Len(q) \in Nat
  OBVIOUS
<1>1. /\ S[Len(q) + 1] = st /\ Len(q) \in Nat
      /\ \A n \in 1..Len(q) :
           S[n + 1] = IF q[n].event = "NEW_STATION" THEN S[n] \cup {q[n].peer}
                                                    ELSE S[n] \ {q[n].peer}
  BY <1>0 DEF History
<1> DEFINE G == {n \in 1..(Len(q) + 1) : p \notin S[n]}
<1>2. G \in SUBSET Nat /\ Len(q) + 1 \in G
  BY <1>1
<1>3. PICK m \in G : \A n \in G : m <= n
  BY <1>2, LeastExists
<1>4. m # 1 /\ m \in 1..(Len(q) + 1) /\ p \notin S[m]
  BY <1>3
<1>5. PICK n \in 1..Len(q) : m = n + 1
  <2>1. m - 1 \in 1..Len(q) /\ m = (m - 1) + 1
    BY <1>1, <1>4
  <2> QED BY <2>1
<1>6. p \in S[n]
  <2>1. n \in 1..(Len(q) + 1) /\ ~(m <= n)
    BY <1>1, <1>5
  <2> QED BY <1>3, <2>1
<1>7. q[n].event # "NEW_STATION" /\ q[n].peer = p
  BY <1>1, <1>4, <1>5, <1>6
<1>8. q[n] \in Events
  BY ElementOfSeq
<1>9. q[n] = Event("DEL_STATION", p)
  BY <1>7, <1>8 DEF Events, Event
<1> QED BY <1>9

(* The history after stations have left.                                    *)
LEMMA LeaveHistory ==
  ASSUME TypeInv, NEW S, History(S, evtq, rpu.stations), NEW P, NEW ap, NEW new,
         Leave(P, ap, new), new = <<>> \/ P = Sta
  PROVE /\ \E T : History(T, evtq', rpu'.stations) /\ T[1] = S[1]
        /\ \A n \in 1..Len(evtq) : \E m \in 1..Len(evtq') : evtq'[m] = evtq[n]
<1>1. PICK k \in Nat : \E order \in [1..k -> Sta] : Leaving(P, new, order, k)
  BY DEF Leave
<1>2. PICK order \in [1..k -> Sta] : Leaving(P, new, order, k)
  BY <1>1
<1>3. evtq \in Seq(Events) /\ rpu.stations \in SUBSET Sta
  BY TypeFacts
<1> DEFINE gone == {order[i] : i \in 1..k}
           r == evtq \o Reports(order, k)
<1>4. Reports(order, k) \in Seq(Events)
  BY ReportsMade
<1>5. /\ r \in Seq(Events) /\ Len(r) \in Nat /\ Len(evtq) \in Nat
      /\ 1..Len(evtq) \subseteq 1..Len(r) /\ \A n \in 1..Len(evtq) : r[n] = evtq[n]
  <2>1. /\ r \in Seq(Events) /\ Len(r) = Len(evtq) + Len(Reports(order, k))
        /\ \A n \in 1..Len(evtq) : r[n] = evtq[n]
    BY <1>3, <1>4, ConcatFacts
  <2>2. Len(evtq) \in Nat /\ Len(Reports(order, k)) \in Nat
    BY <1>3, <1>4
  <2> QED BY <2>1, <2>2
<1>6. PICK T : History(T, r, rpu.stations \ gone) /\ T[1] = S[1]
  <2>1. PICK left : left = rpu.stations \ gone
    OBVIOUS
  <2>2. Remain(left, rpu.stations, order, k)
    BY <2>1 DEF Remain
  <2>3. PICK T : History(T, r, left) /\ T[1] = S[1]
    BY <1>3, <2>2, HistoryLeaves
  <2> QED BY <2>1, <2>3
<1>7. rpu.stations \ gone = rpu.stations \ P
  <2>1. \A p \in Sta : p \in P /\ p \in rpu.stations <=> p \in gone
    BY <1>2 DEF Leaving
  <2> QED BY <1>3, <2>1
<1> HIDE DEF r, gone
<1>8. CASE evtq' = r /\ rpu'.stations = rpu.stations \ P
  BY <1>5, <1>6, <1>7, <1>8
<1>9. ASSUME NEW p \in Sta, new = <<p>>, rpu'.stations = (rpu.stations \ P) \cup {p},
             evtq' = Append(r, Event("NEW_STATION", p))
      PROVE /\ \E U : History(U, evtq', rpu'.stations) /\ U[1] = S[1]
            /\ \A n \in 1..Len(evtq) : \E m \in 1..Len(evtq') : evtq'[m] = evtq[n]
  <2>1. P = Sta
    BY <1>9
  <2>2. rpu.stations \ gone = {} /\ rpu'.stations = {p}
    BY <1>3, <1>7, <1>9, <2>1
  <2>3. Cardinality({} \cup {p}) <= MaxPeers
    <3>1. {} \cup {p} = {p} /\ Cardinality({p}) = 1
      BY FS_Singleton
    <3> QED BY <3>1, PeersAssumption
  <2>4. History(T, r, {})
    BY <1>6, <2>2
  <2>5. PICK U : History(U, Append(r, Event("NEW_STATION", p)), {} \cup {p}) /\ U[1] = T[1]
    <3>1. PICK joined : joined = {} \cup {p}
      OBVIOUS
    <3>2. Cardinality(joined) <= MaxPeers
      BY <2>3, <3>1
    <3>3. PICK U : History(U, Append(r, Event("NEW_STATION", p)), joined) /\ U[1] = T[1]
      BY <1>5, <2>4, <3>1, <3>2, HistoryJoins
    <3> QED BY <3>1, <3>3
  <2>6. rpu'.stations = {} \cup {p}
    BY <2>2
  <2>7. History(U, evtq', rpu'.stations) /\ U[1] = S[1]
    BY <1>6, <1>9, <2>5, <2>6
  <2>8. Event("NEW_STATION", p) \in Events
    BY EventMade
  <2>9. /\ Len(evtq') = Len(r) + 1
        /\ \A n \in 1..Len(r) : evtq'[n] = r[n]
    BY <1>5, <1>9, <2>8, AppendFacts
  <2>10. \A n \in 1..Len(evtq) : n \in 1..Len(evtq') /\ evtq'[n] = evtq[n]
    BY <1>5, <2>9
  <2> QED BY <2>7, <2>10
<1> QED BY <1>2, <1>8, <1>9 DEF Leaving, r

(* The table stays what it was: what was told, or will be, is so still.     *)
LEMMA ToldKept ==
  ASSUME NEW S, NEW T, Told(S), T[1] = S[1], peers' = peers,
         unstopped \/ Stops(cmdq) => unstopped' \/ Stops(cmdq'),
         \A n \in 1..Len(evtq) : \E m \in 1..Len(evtq') : evtq'[m] = evtq[n]
  PROVE Told(T)'
BY DEF Told, Stops

(* All of S are gone: they are all told of.                                 *)
LEMMA ToldGone ==
  ASSUME NEW S, evtq' \in Seq(Events), History(S, evtq', {}), peers' \subseteq S[1]
  PROVE Told(S)'
<1>1. \A p \in S[1] : \E n \in 1..Len(evtq') : evtq'[n] = Event("DEL_STATION", p)
  BY HistoryGone
<1> QED BY <1>1 DEF Told

LEMMA PeerIs ==
  ASSUME NEW S, History(S, evtq', rpu'.stations), Told(S)'
  PROVE PeerInv'
<1>1. S \in [1..(Len(evtq') + 1) -> SUBSET Sta]
  BY DEF History
<1>2. History(S, evtq, rpu.stations)'
  BY DEF History
<1> QED BY <1>1, <1>2 DEF PeerInv

(* The events and the stations stay.                                        *)
LEMMA PeersStay ==
  ASSUME TypeInv, PeerInv, evtq' = evtq, rpu'.stations = rpu.stations, peers' = peers,
         unstopped \/ Stops(cmdq) => unstopped' \/ Stops(cmdq')
  PROVE PeerInv'
<1>1. PICK S : History(S, evtq, rpu.stations) /\ Told(S)
  BY DEF PeerInv
<1>2. \A n \in 1..Len(evtq) : \E m \in 1..Len(evtq') : evtq'[m] = evtq[n]
  OBVIOUS
<1>3. Told(S)'
  BY <1>1, <1>2, ToldKept
<1>4. History(S, evtq', rpu'.stations)
  BY <1>1
<1> QED BY <1>3, <1>4, PeerIs

(* The stations of P leave, and the table follows.                          *)
LEMMA PeersLeave ==
  ASSUME TypeInv, PeerInv, RpuSteps, NEW P, NEW ap, NEW new, Leave(P, ap, new),
         new = <<>> \/ P = Sta, Stops(cmdq) => Stops(cmdq')
  PROVE PeerInv'
<1>1. PICK S : History(S, evtq, rpu.stations) /\ Told(S)
  BY DEF PeerInv
<1>2. PICK T : History(T, evtq', rpu'.stations) /\ T[1] = S[1]
  BY <1>1, LeaveHistory
<1>3. \A n \in 1..Len(evtq) : \E m \in 1..Len(evtq') : evtq'[m] = evtq[n]
  BY <1>1, LeaveHistory
<1>4. peers' = peers /\ unstopped' = unstopped
  BY DEF RpuSteps
<1>5. Told(T)'
  BY <1>1, <1>2, <1>3, <1>4, ToldKept
<1> QED BY <1>2, <1>5, PeerIs

LEMMA PeersStop ==
  ASSUME TypeInv, PeerInv, RpuSteps, Leave(Sta, FALSE, <<>>)
  PROVE PeerInv'
<1>1. PICK S : History(S, evtq, rpu.stations) /\ Told(S)
  BY DEF PeerInv
<1>2. PICK T : History(T, evtq', rpu'.stations) /\ T[1] = S[1]
  BY <1>1, LeaveHistory
<1>3. rpu'.stations = {}
  <2>1. rpu'.stations = rpu.stations \ Sta
    BY DEF Leave, Leaving
  <2> QED BY <2>1, TypeFacts
<1>4. peers' = peers /\ evtq' \in Seq(Events)
  BY DEF RpuSteps
<1>5. Told(T)'
  <2>1. History(T, evtq', {})
    BY <1>2, <1>3
  <2>2. peers' \subseteq T[1]
    BY <1>1, <1>2, <1>4 DEF Told
  <2> QED BY <1>4, <2>1, <2>2, ToldGone
<1> QED BY <1>2, <1>5, PeerIs

(* The table is flushed.                                                    *)
LEMMA PeersFlush ==
  ASSUME TypeInv, PeerInv, peers' = {}, evtq' = evtq, rpu' = rpu,
         unstopped' \/ Stops(cmdq') \/ rpu.stations = {}
  PROVE PeerInv'
<1>1. PICK S : History(S, evtq, rpu.stations) /\ Told(S)
  BY DEF PeerInv
<1>2. evtq \in Seq(Events)
  BY TypeFacts
<1>3. Told(S)'
  <2>1. CASE unstopped' \/ Stops(cmdq')
    BY <2>1 DEF Told, Stops
  <2>2. CASE rpu.stations = {}
    <3>1. History(S, evtq', {}) /\ evtq' \in Seq(Events) /\ peers' \subseteq S[1]
      BY <1>1, <1>2, <2>2
    <3> QED BY <3>1, ToldGone
  <2> QED BY <2>1, <2>2
<1>4. History(S, evtq', rpu'.stations)
  BY <1>1
<1> QED BY <1>3, <1>4, PeerIs

LEMMA PeersStartAp ==
  ASSUME TypeInv, ApInv, PeerInv, StartAp
  PROVE PeerInv'
<1>1. TypeOK /\ cmdq \in Seq(Commands)
  BY TypeFacts DEF TypeInv
<1>2. /\ if_type = "AP" /\ ~beaconing /\ evtq' = evtq /\ rpu' = rpu /\ unstopped' = unstopped
  BY <1>1, StartApDoes DEF envVars
<1>3. Plain("SET_WIPHY", None) \in Commands
  BY <1>1, StartApDoes, QuietAllowed
<1>4. Plain("START_AP", None) \in Commands
  BY <1>1, StartApDoes
<1>5. CASE peers' = peers /\ cmdq' = cmdq
  BY <1>2, <1>5, PeersStay
<1>6. CASE peers' = {} /\ (\/ cmdq' = Append(cmdq, Plain("SET_WIPHY", None))
                           \/ cmdq' = Append(Append(cmdq, Plain("SET_WIPHY", None)),
                                             Plain("START_AP", None)))
  <2>1. Stops(cmdq) => Stops(Append(cmdq, Plain("SET_WIPHY", None)))
    BY <1>1, <1>3, StopsAppend
  <2>2. Append(cmdq, Plain("SET_WIPHY", None)) \in Seq(Commands)
    BY <1>1, <1>3, AppendFacts
  <2>3. Stops(Append(cmdq, Plain("SET_WIPHY", None))) =>
          Stops(Append(Append(cmdq, Plain("SET_WIPHY", None)), Plain("START_AP", None)))
    BY <1>4, <2>2, StopsAppend
  <2>4. Stops(cmdq) => Stops(cmdq')
    BY <1>6, <2>1, <2>3
  <2>5. unstopped \/ Stops(cmdq) \/ rpu.stations = {}
    BY <1>2 DEF ApInv
  <2>6. unstopped' \/ Stops(cmdq') \/ rpu.stations = {}
    BY <1>2, <2>4, <2>5
  <2> QED BY <1>2, <1>6, <2>6, PeersFlush
<1> QED BY <1>1, <1>5, <1>6, StartApDoes

LEMMA PeersStopAp ==
  ASSUME TypeInv, PeerInv, StopAp
  PROVE PeerInv'
<1>1. TypeOK /\ cmdq \in Seq(Commands)
  BY TypeFacts DEF TypeInv
<1>2. evtq' = evtq /\ rpu' = rpu /\ peers' = {}
  BY <1>1, StopApDoes DEF envVars
<1>3. Plain("STOP_AP", None) \in Commands /\ Plain("STOP_AP", None).cmd = "STOP_AP"
  BY <1>1, StopApDoes
<1>4. Stops(Append(cmdq, Plain("STOP_AP", None)))
  BY <1>1, <1>3, StopsAppend
<1>5. unstopped' = TRUE \/ cmdq' = Append(cmdq, Plain("STOP_AP", None))
  BY <1>1, StopApDoes
<1>6. unstopped' \/ Stops(cmdq') \/ rpu.stations = {}
  BY <1>4, <1>5
<1> QED BY <1>2, <1>6, PeersFlush

(* A station that joined is entered: the RPU never had more than the table  *)
(* holds, and those of the table were among them.                           *)
LEMMA PeersEnter ==
  ASSUME TypeInv, PeerInv, NewStation
  PROVE PeerInv'
<1>1. PICK S : History(S, evtq, rpu.stations) /\ Told(S)
  BY DEF PeerInv
<1> DEFINE p == Head(evtq).peer
<1>2. /\ evtq # <<>> /\ evtq' = Tail(evtq) /\ Head(evtq).event = "NEW_STATION" /\ p \in Sta
      /\ \/ Cardinality(peers) < MaxPeers /\ peers' = peers \cup {p}
         \/ ~(Cardinality(peers) < MaxPeers) /\ peers' = peers
      /\ UNCHANGED <<cmdq, rpu, unstopped>> /\ evtq' \in Seq(Events)
  BY NewStationDoes
<1>3. evtq \in Seq(Events) /\ peers \subseteq Sta /\ Cardinality(peers) <= MaxPeers
  BY TypeFacts
<1>4. Head(evtq) = evtq[1] /\ 1 \in 1..Len(evtq) /\ Len(evtq) \in Nat
  BY <1>2, <1>3, TailFacts
<1> HIDE DEF p
<1>5. S[2] = S[1] \cup {p} /\ Cardinality(S[2]) <= MaxPeers /\ S[2] \in SUBSET Sta
  <2>1. S[1 + 1] = S[1] \cup {evtq[1].peer}
    BY <1>1, <1>2, <1>4 DEF History
  <2>2. 2 \in 1..(Len(evtq) + 1) /\ 1 + 1 = 2
    BY <1>4
  <2> QED BY <1>1, <1>4, <2>1, <2>2 DEF History, p
<1>6. PICK T : History(T, Tail(evtq), rpu.stations) /\ T[1] = S[2]
  BY <1>1, <1>2, <1>3, HistoryTail
<1>7. peers' = peers \cup {p}
  <2> SUFFICES ASSUME ~(Cardinality(peers) < MaxPeers), p \notin peers PROVE FALSE
    BY <1>2
  <2>1. peers \cup {p} \subseteq S[2]
    BY <1>1, <1>5 DEF Told
  <2>2. IsFiniteSet(S[2])
    BY <1>5, BoundAssumption, FS_Subset
  <2>3. /\ IsFiniteSet(peers) /\ Cardinality(peers) \in Nat
    BY TableFits
  <2>4. Cardinality(peers \cup {p}) = Cardinality(peers) + 1
    BY <2>3, FS_AddElement
  <2>5. Cardinality(peers \cup {p}) <= Cardinality(S[2])
    BY <2>1, <2>2, FS_Subset
  <2>6. Cardinality(S[2]) \in Nat
    BY <2>2, FS_CardinalityType
  <2> QED BY <1>3, <1>5, <2>3, <2>4, <2>5, <2>6, PeersAssumption
<1>8. ASSUME NEW s \in T[1] \ peers'
      PROVE \/ unstopped' \/ Stops(cmdq')
            \/ \E n \in 1..Len(evtq') : evtq'[n] = Event("DEL_STATION", s)
  <2>1. s \in S[1] \ peers
    BY <1>5, <1>6, <1>7, <1>8
  <2>2. CASE unstopped \/ Stops(cmdq)
    BY <1>2, <2>2
  <2>3. ASSUME NEW n \in 1..Len(evtq), evtq[n] = Event("DEL_STATION", s)
        PROVE \E m \in 1..Len(evtq') : evtq'[m] = Event("DEL_STATION", s)
    <3>1. n # 1
      BY <1>2, <1>4, <2>3 DEF Event
    <3>2. n - 1 \in 1..Len(Tail(evtq)) /\ Tail(evtq)[n - 1] = evtq[n]
      BY <1>2, <1>3, <3>1, InTail
    <3> QED BY <1>2, <2>3, <3>2
  <2> QED BY <1>1, <2>1, <2>2, <2>3 DEF Told
<1>9. peers' \subseteq T[1]
  BY <1>1, <1>5, <1>6, <1>7 DEF Told
<1>10. Told(T)'
  BY <1>8, <1>9 DEF Told, Stops
<1>11. History(T, evtq', rpu'.stations)
  BY <1>2, <1>6
<1> QED BY <1>10, <1>11, PeerIs

LEMMA PeersRemove ==
  ASSUME TypeInv, PeerInv, DelStation
  PROVE PeerInv'
<1>1. PICK S : History(S, evtq, rpu.stations) /\ Told(S)
  BY DEF PeerInv
<1> DEFINE p == Head(evtq).peer
<1>2. /\ evtq # <<>> /\ evtq' = Tail(evtq) /\ Head(evtq).event = "DEL_STATION" /\ p \in Sta
      /\ peers' = peers \ {p}
      /\ UNCHANGED <<cmdq, rpu, unstopped>> /\ evtq' \in Seq(Events)
  BY DelStationDoes
<1>3. evtq \in Seq(Events)
  BY TypeFacts
<1>4. Head(evtq) = evtq[1] /\ 1 \in 1..Len(evtq) /\ Len(evtq) \in Nat
  BY <1>2, <1>3, TailFacts
<1> HIDE DEF p
<1>5. S[2] = S[1] \ {p}
  <2>1. S[1 + 1] = S[1] \ {evtq[1].peer}
    BY <1>1, <1>2, <1>4 DEF History
  <2> QED BY <1>4, <2>1 DEF p
<1>6. PICK T : History(T, Tail(evtq), rpu.stations) /\ T[1] = S[2]
  BY <1>1, <1>2, <1>3, HistoryTail
<1>8. ASSUME NEW s \in T[1] \ peers'
      PROVE \/ unstopped' \/ Stops(cmdq')
            \/ \E n \in 1..Len(evtq') : evtq'[n] = Event("DEL_STATION", s)
  <2>1. s \in S[1] \ peers /\ s # p
    BY <1>2, <1>5, <1>6, <1>8
  <2>2. CASE unstopped \/ Stops(cmdq)
    BY <1>2, <2>2
  <2>3. ASSUME NEW n \in 1..Len(evtq), evtq[n] = Event("DEL_STATION", s)
        PROVE \E m \in 1..Len(evtq') : evtq'[m] = Event("DEL_STATION", s)
    <3>1. n # 1
      BY <1>4, <2>1, <2>3 DEF Event, p
    <3>2. n - 1 \in 1..Len(Tail(evtq)) /\ Tail(evtq)[n - 1] = evtq[n]
      BY <1>2, <1>3, <3>1, InTail
    <3> QED BY <1>2, <2>3, <3>2
  <2> QED BY <1>1, <2>1, <2>2, <2>3 DEF Told
<1>9. peers' \subseteq T[1]
  BY <1>1, <1>2, <1>5, <1>6 DEF Told
<1>10. Told(T)'
  BY <1>8, <1>9 DEF Told, Stops
<1>11. History(T, evtq', rpu'.stations)
  BY <1>2, <1>6
<1> QED BY <1>10, <1>11, PeerIs

LEMMA PeersJoin ==
  ASSUME TypeInv, PeerInv, NEW p \in Sta, RpuJoins(p)
  PROVE PeerInv'
<1>1. PICK S : History(S, evtq, rpu.stations) /\ Told(S)
  BY DEF PeerInv
<1>2. /\ cmdq' = cmdq /\ evtq' = Append(evtq, Event("NEW_STATION", p))
      /\ rpu'.stations = rpu.stations \cup {p}
      /\ Cardinality(rpu.stations) < MaxPeers
      /\ peers' = peers /\ unstopped' = unstopped
  BY RpuJoinsDoes DEF RpuSteps
<1>3. evtq \in Seq(Events) /\ rpu.stations \in SUBSET Sta
  BY TypeFacts
<1>4. Cardinality(rpu.stations \cup {p}) <= MaxPeers
  <2>1. IsFiniteSet(rpu.stations)
    BY <1>3, BoundAssumption, FS_Subset
  <2>2. Cardinality(rpu.stations) \in Nat
    BY <2>1, FS_CardinalityType
  <2>3. Cardinality(rpu.stations \cup {p}) = Cardinality(rpu.stations)
        \/ Cardinality(rpu.stations \cup {p}) = Cardinality(rpu.stations) + 1
    BY <2>1, FS_AddElement
  <2> QED BY <1>2, <2>2, <2>3, PeersAssumption
<1>5. PICK T : History(T, Append(evtq, Event("NEW_STATION", p)), rpu.stations \cup {p})
               /\ T[1] = S[1]
  <2>1. PICK joined : joined = rpu.stations \cup {p}
    OBVIOUS
  <2>2. Cardinality(joined) <= MaxPeers
    BY <1>4, <2>1
  <2>3. PICK T : History(T, Append(evtq, Event("NEW_STATION", p)), joined) /\ T[1] = S[1]
    BY <1>1, <1>3, <2>1, <2>2, HistoryJoins
  <2> QED BY <2>1, <2>3
<1>6. \A n \in 1..Len(evtq) : \E m \in 1..Len(evtq') : evtq'[m] = evtq[n]
  <2>1. Event("NEW_STATION", p) \in Events
    BY EventMade
  <2>2. /\ Len(evtq') = Len(evtq) + 1 /\ Len(evtq) \in Nat
        /\ \A n \in 1..Len(evtq) : evtq'[n] = evtq[n]
    BY <1>2, <1>3, <2>1, AppendFacts
  <2>3. \A n \in 1..Len(evtq) : n \in 1..Len(evtq')
    BY <2>2
  <2> QED BY <2>2, <2>3
<1>7. Told(T)'
  BY <1>1, <1>2, <1>5, <1>6, ToldKept
<1>8. History(T, evtq', rpu'.stations)
  BY <1>2, <1>5
<1> QED BY <1>7, <1>8, PeerIs

LEMMA PeerNext ==
  ASSUME TypeInv, ApInv, PeerInv, [Next]_vars
  PROVE PeerInv'
<1>0. cmdq \in Seq(Commands)
  BY TypeFacts
<1>1. CASE UNCHANGED vars
  BY <1>1, PeersStay DEF vars, Stops
<1>2. CASE SendsOther
  <2>1. Stops(cmdq) => Stops(cmdq')
    BY <1>0, <1>2, StopsAppend DEF SendsOther
  <2> QED BY <1>2, <2>1, PeersStay DEF SendsOther
<1>3. CASE RpuNewKey \/ RpuDelKey \/ RpuOther
  <2>1. /\ RpuSteps /\ cmdq # <<>> /\ cmdq' = Tail(cmdq) /\ Head(cmdq).cmd # "STOP_AP"
        /\ evtq' = evtq /\ rpu'.stations = rpu.stations
    BY <1>3, RpuNewKeyDoes, RpuDelKeyDoes, RpuOtherDoes DEF QuietNames
  <2>2. Stops(cmdq) => Stops(cmdq')
    BY <1>0, <2>1, StopsTail
  <2> QED BY <2>1, <2>2, PeersStay DEF RpuSteps
<1>4. CASE RpuAp
  <2>1. RpuSteps /\ cmdq # <<>> /\ cmdq' = Tail(cmdq)
    BY <1>4, RpuApDoes
  <2>2. Head(cmdq).cmd # "STOP_AP" => (Stops(cmdq) => Stops(cmdq'))
    BY <1>0, <2>1, StopsTail
  <2>3. CASE Head(cmdq).cmd = "START_AP" /\ evtq' = evtq /\ rpu'.stations = rpu.stations
    BY <2>1, <2>2, <2>3, PeersStay DEF RpuSteps
  <2>4. CASE Leave(Sta, FALSE, <<>>)
    BY <2>1, <2>4, PeersStop
  <2>5. ASSUME Head(cmdq).cmd = "DEL_STATION", NEW P, Leave(P, rpu.ap, <<>>)
        PROVE PeerInv'
    BY <2>1, <2>2, <2>5, PeersLeave
  <2> QED BY <1>4, <2>3, <2>4, <2>5, RpuApDoes
<1>5. CASE RpuAssoc
  <2>1. RpuSteps /\ cmdq # <<>> /\ cmdq' = Tail(cmdq) /\ Head(cmdq).cmd = "ASSOCIATE"
    BY <1>5, RpuAssocDoes
  <2>2. Stops(cmdq) => Stops(cmdq')
    BY <1>0, <2>1, StopsTail
  <2>3. PICK new : Leave(Sta, FALSE, new)
    BY <1>5, RpuAssocDoes
  <2> QED BY <2>1, <2>2, <2>3, PeersLeave
<1>6. ASSUME NEW p \in Sta, RpuLeaves(p) PROVE PeerInv'
  <2>1. RpuSteps /\ cmdq' = cmdq /\ Leave({p}, rpu.ap, <<>>)
    BY <1>6, RpuLeavesDoes
  <2>2. Stops(cmdq) => Stops(cmdq')
    BY <2>1
  <2> QED BY <2>1, <2>2, PeersLeave
<1> QED BY <1>1, <1>2, <1>3, <1>4, <1>5, <1>6, OthersSend, PeersStartAp, PeersStopAp,
           PeersEnter, PeersRemove, PeersJoin

(* Stations: when commands and events have been dealt with, the peer table  *)
(* has the stations the RPU has, although start_ap and stop_ap flush it and *)
(* it takes no more than it has room for, unless a stop_ap flushed it and   *)
(* then could not be sent (umac_event_connect, nrf_wifi_fmac_peers_flush).  *)
THEOREM PeersAreStations == Spec => []PeersMatch
<1>1. Init => ApInv /\ PeerInv
  <2> SUFFICES ASSUME Init PROVE ApInv /\ PeerInv
    OBVIOUS
  <2>1. /\ rpu.ap = FALSE /\ rpu.stations = {} /\ cmdq = <<>> /\ evtq = <<>>
        /\ peers = {}
    BY DEF Init
  <2>2. ApInv
    BY <2>1 DEF ApInv, Stopped
  <2>3. PICK S : S = [n \in 1..(Len(evtq) + 1) |-> {}]
    OBVIOUS
  <2>4. S \in [1..(Len(evtq) + 1) -> SUBSET Sta] /\ S[1] = {} /\ Len(evtq) = 0
    BY <2>1, <2>3
  <2>5. History(S, evtq, rpu.stations)
    BY <2>1, <2>3, <2>4, NoneIsSmall DEF History
  <2>6. Told(S)
    BY <2>1, <2>4 DEF Told
  <2> QED BY <2>2, <2>4, <2>5, <2>6 DEF PeerInv
<1>2. TypeInv /\ ApInv /\ PeerInv /\ [Next]_vars => ApInv' /\ PeerInv'
  BY ApNext, PeerNext
<1>3. PeerInv => PeersMatch
  <2> SUFFICES ASSUME PeerInv, cmdq = <<>>, evtq = <<>>, ~unstopped
               PROVE peers = rpu.stations
    BY DEF PeersMatch
  <2>1. PICK S : History(S, evtq, rpu.stations) /\ Told(S)
    BY DEF PeerInv
  <2>2. Len(evtq) = 0 /\ Len(cmdq) = 0
    OBVIOUS
  <2>3. S[1] = rpu.stations
    BY <2>1, <2>2 DEF History
  <2>4. ~Stops(cmdq)
    BY <2>2 DEF Stops
  <2>5. peers \subseteq S[1]
    BY <2>1, <2>2, <2>4 DEF Told
  <2>6. ASSUME NEW p \in S[1], p \notin peers PROVE FALSE
    BY <2>1, <2>2, <2>4, <2>6 DEF Told
  <2> QED BY <2>3, <2>5, <2>6
<1> QED BY <1>1, <1>2, <1>3, TypeInvariant, PTL DEF Spec
=============================================================================
