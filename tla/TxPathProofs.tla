---------------------------- MODULE TxPathProofs ----------------------------
(***************************************************************************)
(* Proofs about TxPath, for every value of the constants.  The first half  *)
(* is about the types of its state and the accounting of the TX tokens.    *)
(* The second is about its frames: while the RPU can be reached every      *)
(* token in use carries a batch the RPU has, every frame is in one place,  *)
(* no queue is left without a token that will serve it, the RPU knows      *)
(* which stations have traffic, and the token machinery implements         *)
(* TxService.                                                              *)
(*                                                                         *)
(* The operators of TxPath are functions from configurations to            *)
(* configurations, so each has lemmas of its own: that it keeps the type,  *)
(* that it keeps the tokens sound, and what it does to the queues and      *)
(* tokens it moves frames between.  A lemma about an operator uses the     *)
(* ones about the operators it calls.                                      *)
(***************************************************************************)
EXTENDS TxPath, TLAPS, FiniteSetTheorems, SequenceTheorems, WellFoundedInduction

(* A configuration whose fields have their types. *)
Typed(s) == s \in Config(s.wakeup)

(* t has the tokens of s, and the RPU holds the same ones. *)
SameTokens(s, t) ==
    /\ t.busy = s.busy
    /\ t.outstanding = s.outstanding
    /\ t.spare_map = s.spare_map
    /\ t.in_rpu = s.in_rpu

(* The same, except that the RPU may hold token d as well. *)
KeepsTokens(s, t, d) ==
    /\ t.busy = s.busy
    /\ t.outstanding = s.outstanding
    /\ t.spare_map = s.spare_map
    /\ t.in_rpu \in {s.in_rpu, s.in_rpu \cup {d}}

(* The numbers the module is about: categories, tokens, slots. *)
LEMMA Sets ==
    /\ Unicast = {0, 1, 2, 3}
    /\ Acs = {0, 1, 2, 3, 4}
    /\ MC = 4 /\ AC_MAX = 5
    /\ NumReserved \in Nat /\ NumReserved >= 5
    /\ NumTokens \in Nat
    /\ Tokens \subseteq Nat
    /\ Spare \subseteq Tokens
    /\ Slots \subseteq SwPeers
    /\ MaxPeers \in SwPeers
    /\ MaxPeers \notin Slots
BY ConstantsOK DEF ConstantsOK, Unicast, Acs, MC, AC_MAX, NumReserved, Tokens, Spare, Slots, SwPeers, BK, VO

(* The spare tokens are numbered from 0 again in the bit map. *)
LEMMA SpareMod ==
    ASSUME NEW d \in Spare
    PROVE  d % NumReserved = d - NumReserved
BY ConstantsOK DEF ConstantsOK, Spare, NumReserved, AC_MAX

(* Bit positions are numbers. *)
LEMMA SpareBitInt ==
    ASSUME NEW d \in Tokens, NEW q \in Acs
    PROVE  SpareBit(d, q) \in Nat
BY Sets DEF SpareBit, Acs, Tokens, SPARE_DESC_Q_MAP_SIZE

(* Adding or taking one token keeps the counters unsigned ints. *)
LEMMA Counter ==
    ASSUME NEW c \in [Acs -> 0 .. UintMod - 1], NEW q \in Acs
    PROVE  /\ [c EXCEPT ![q] = (@ + 1) % UintMod] \in [Acs -> 0 .. UintMod - 1]
           /\ [c EXCEPT ![q] = (@ - 1) % UintMod] \in [Acs -> 0 .. UintMod - 1]
<1>1. UintMod \in Nat /\ UintMod > 0
  BY ConstantsOK, Sets DEF ConstantsOK
<1>. QED
  BY <1>1

-----------------------------------------------------------------------------

(* A configuration of its type, field by field. *)
LEMMA Fields ==
    ASSUME NEW s, Typed(s)
    PROVE  /\ s.busy \in SUBSET Tokens
           /\ s.outstanding \in [Acs -> 0 .. UintMod - 1]
           /\ s.spare_map \in SUBSET Nat
           /\ s.pending \in [SwPeers -> [Acs -> Seq(Frames)]]
           /\ s.opp \in [Acs -> Slots]
           /\ s.pkt \in [Tokens -> Seq(Frames)]
           /\ s.pkt_peer \in [Tokens -> SwPeers]
           /\ s.coalesce \in [Tokens -> Nat]
           /\ s.mapped \in [Tokens -> Nat]
           /\ s.in_rpu \in SUBSET Tokens
           /\ s.peers \in [SwPeers -> Peer]
           /\ s.rpu_bmp \in [Slots -> SUBSET Unicast]
BY DEF Typed, Config

(* An update of the token fields keeps the type. *)
LEMMA UpdTokens ==
    ASSUME NEW s, Typed(s), NEW b \in SUBSET Tokens,
           NEW o \in [Acs -> 0 .. UintMod - 1], NEW m \in SUBSET Nat
    PROVE  LET t == [s EXCEPT !.busy = b, !.outstanding = o, !.spare_map = m]
           IN  /\ Typed(t)
               /\ t.busy = b /\ t.outstanding = o /\ t.spare_map = m
               /\ t.in_rpu = s.in_rpu
BY DEF Typed, Config

(* An update of the counters and the bit map keeps the type. *)
LEMMA UpdCount ==
    ASSUME NEW s, Typed(s), 
           NEW o \in [Acs -> 0 .. UintMod - 1], NEW m \in SUBSET Nat
    PROVE  LET t == [s EXCEPT !.outstanding = o, !.spare_map = m]
           IN  /\ Typed(t)
               /\ t.busy = s.busy /\ t.outstanding = o /\ t.spare_map = m
               /\ t.in_rpu = s.in_rpu
BY DEF Typed, Config

(* An update of the peer table keeps the type and the tokens. *)
LEMMA UpdPeers ==
    ASSUME NEW s, Typed(s), NEW P \in [SwPeers -> Peer]
    PROVE  /\ Typed([s EXCEPT !.peers = P])
           /\ SameTokens(s, [s EXCEPT !.peers = P])
BY DEF Typed, Config, SameTokens

(* An update of a peer's bitmap, in the host and the RPU, keeps both. *)
LEMMA UpdBitmaps ==
    ASSUME NEW s, Typed(s), NEW P \in [SwPeers -> Peer],
           NEW b \in [Slots -> SUBSET Unicast]
    PROVE  /\ Typed([s EXCEPT !.peers = P, !.rpu_bmp = b])
           /\ SameTokens(s, [s EXCEPT !.peers = P, !.rpu_bmp = b])
BY DEF Typed, Config, SameTokens

(* An update of the queue of woken peers keeps both. *)
LEMMA UpdWakeup ==
    ASSUME NEW s, Typed(s), NEW P \in [SwPeers -> Peer], NEW w
    PROVE  /\ Typed([s EXCEPT !.peers = P, !.wakeup = w])
           /\ SameTokens(s, [s EXCEPT !.peers = P, !.wakeup = w])
BY DEF Typed, Config, SameTokens

(* An update of the turns keeps both. *)
LEMMA UpdOpp ==
    ASSUME NEW s, Typed(s), NEW o \in [Acs -> Slots]
    PROVE  Typed([s EXCEPT !.opp = o]) /\ SameTokens(s, [s EXCEPT !.opp = o])
BY DEF Typed, Config, SameTokens

(* An update of the pending queues keeps both. *)
LEMMA UpdPending ==
    ASSUME NEW s, Typed(s), NEW q \in [SwPeers -> [Acs -> Seq(Frames)]]
    PROVE  Typed([s EXCEPT !.pending = q]) /\ SameTokens(s, [s EXCEPT !.pending = q])
BY DEF Typed, Config, SameTokens

(* Moving frames from a queue to a token keeps both. *)
LEMMA UpdBatch ==
    ASSUME NEW s, Typed(s), NEW q \in [SwPeers -> [Acs -> Seq(Frames)]],
           NEW k \in [Tokens -> Seq(Frames)], NEW p \in [Tokens -> SwPeers]
    PROVE  /\ Typed([s EXCEPT !.pending = q, !.pkt = k, !.pkt_peer = p])
           /\ SameTokens(s, [s EXCEPT !.pending = q, !.pkt = k, !.pkt_peer = p])
BY DEF Typed, Config, SameTokens

(* An update of the coalesce counts keeps both. *)
LEMMA UpdCoalesce ==
    ASSUME NEW s, Typed(s), NEW c \in [Tokens -> Nat]
    PROVE  Typed([s EXCEPT !.coalesce = c]) /\ SameTokens(s, [s EXCEPT !.coalesce = c])
BY DEF Typed, Config, SameTokens

(* Handing a command to the RPU keeps the type. *)
LEMMA UpdCommand ==
    ASSUME NEW s, Typed(s), NEW m \in [Tokens -> Nat], NEW w, NEW r \in SUBSET Tokens
    PROVE  LET t == [s EXCEPT !.mapped = m, !.wakeup = w, !.in_rpu = r]
           IN  Typed(t) /\ t.in_rpu = r /\ SameTokens([s EXCEPT !.in_rpu = r], t)
BY DEF Typed, Config, SameTokens

(* Taking a command back from the RPU keeps the type. *)
LEMMA UpdDone ==
    ASSUME NEW s, Typed(s), NEW r \in SUBSET Tokens, NEW m \in [Tokens -> Nat]
    PROVE  LET t == [s EXCEPT !.in_rpu = r, !.mapped = m]
           IN  /\ Typed(t) /\ t.in_rpu = r
               /\ t.busy = s.busy
               /\ t.outstanding = s.outstanding
               /\ t.spare_map = s.spare_map
BY DEF Typed, Config

(* Emptying a token keeps both. *)
LEMMA UpdPkt ==
    ASSUME NEW s, Typed(s), NEW k \in [Tokens -> Seq(Frames)]
    PROVE  Typed([s EXCEPT !.pkt = k]) /\ SameTokens(s, [s EXCEPT !.pkt = k])
BY DEF Typed, Config, SameTokens

-----------------------------------------------------------------------------

(* tx_desc_free keeps the type. *)
LEMMA DescFreeTyped ==
    ASSUME NEW s, Typed(s), NEW d \in Tokens, NEW q \in Acs
    PROVE  Typed(DescFree(s, d, q))
<1>1. CASE d \notin s.busy
  BY <1>1 DEF DescFree
<1>2. CASE d \in s.busy
  <2>1. [s.outstanding EXCEPT ![q] = (@ - 1) % UintMod] \in [Acs -> 0 .. UintMod - 1]
    BY Fields, Counter
  <2>2. s.busy \ {d} \in SUBSET Tokens
    BY Fields
  <2>3. (IF d \in Spare THEN s.spare_map \ {SpareBit(d, q)} ELSE s.spare_map) \in SUBSET Nat
    BY Fields
  <2>. QED
    BY <1>2, <2>1, <2>2, <2>3 DEF DescFree, Typed, Config
<1>. QED
  BY <1>1, <1>2

(* tx_desc_get keeps the type. *)
LEMMA DescTakeTyped ==
    ASSUME NEW s, Typed(s), NEW d \in Tokens, NEW q \in Acs
    PROVE  Typed(DescTake(s, q, d))
<1>1. [s.outstanding EXCEPT ![q] = (@ + 1) % UintMod] \in [Acs -> 0 .. UintMod - 1]
  BY Fields, Counter
<1>2. s.busy \cup {d} \in SUBSET Tokens
  BY Fields
<1>3. (IF d \in Spare THEN s.spare_map \cup {SpareBit(d, q)} ELSE s.spare_map) \in SUBSET Nat
  BY Fields, SpareBitInt
<1>. QED
  BY <1>1, <1>2, <1>3 DEF DescTake, Typed, Config

(* The change of category of a spare token keeps the type. *)
LEMMA ReassignTyped ==
    ASSUME NEW s, Typed(s), NEW d \in Tokens, NEW from \in Acs, NEW to \in Acs
    PROVE  Typed(Reassign(s, d, from, to))
<1>1. CASE from = to
  BY <1>1 DEF Reassign
<1>2. CASE from # to
  <2>1. UintMod \in Nat /\ UintMod > 0
    BY ConstantsOK, Sets DEF ConstantsOK
  <2> DEFINE a == [s.outstanding EXCEPT ![from] = (@ - 1) % UintMod]
             o == [a EXCEPT ![to] = (s.outstanding[to] + 1) % UintMod]
             m == (s.spare_map \ {SpareBit(d, from)}) \cup {SpareBit(d, to)}
  <2>2. Reassign(s, d, from, to) = [s EXCEPT !.outstanding = o, !.spare_map = m]
    BY <1>2 DEF Reassign
  <2>3. a \in [Acs -> 0 .. UintMod - 1]
    BY Fields, Counter
  <2>6. a[to] = s.outstanding[to]
    BY <1>2, Fields
  <2>. HIDE DEF a
  <2>4. o \in [Acs -> 0 .. UintMod - 1]
    BY <2>3, <2>6, Counter
  <2>5. m \in SUBSET Nat
    BY Fields, SpareBitInt
  <2>. HIDE DEF o, m
  <2>7. Typed([s EXCEPT !.outstanding = o, !.spare_map = m])
    BY <2>4, <2>5, UpdCount
  <2>. QED
    BY <2>2, <2>7
<1>. QED
  BY <1>1, <1>2

(* tx_curr_peer_opp_get keeps the type and the tokens, and returns a peer. *)
LEMMA PeerOppTyped ==
    ASSUME NEW s, Typed(s), NEW ac \in Acs
    PROVE  LET o == PeerOpp(s, ac)
           IN  /\ Typed(o.tx) /\ SameTokens(s, o.tx)
               /\ o.peer \in SwPeers \cup {None}
<1>0. SameTokens(s, s)
  BY DEF SameTokens
<1>1. CASE ac = MC
  BY <1>0, <1>1, Sets DEF PeerOpp
<1>2. CASE ac # MC /\ \E p \in Slots : IsFirstAwake(s, p, ac)
  <2> DEFINE p == CHOOSE p \in Slots : IsFirstAwake(s, p, ac)
  <2>1. p \in Slots /\ IsFirstAwake(s, p, ac)
    BY <1>2
  <2>2. PeerOpp(s, ac) = [peer |-> p, tx |-> [s EXCEPT !.peers[p].tokens = @ - 1]]
    BY <1>2 DEF PeerOpp
  <2>3. s.peers[p].tokens # 0
    BY <2>1 DEF IsFirstAwake, CanWake
  <2> DEFINE P == [s.peers EXCEPT ![p].tokens = @ - 1]
  <2>4. P \in [SwPeers -> Peer]
    <3>1. s.peers[p] \in Peer /\ s.peers[p].tokens - 1 \in Nat
      BY <2>1, <2>3, Fields, Sets DEF Peer
    <3>. QED BY <3>1, Fields DEF Peer
  <2>. HIDE DEF p
  <2>. QED
    <3>1. PeerOpp(s, ac) = [peer |-> p, tx |-> [s EXCEPT !.peers = P]]
      BY <2>2
    <3>. HIDE DEF P
    <3>2. LET t == [s EXCEPT !.peers = P] IN Typed(t) /\ SameTokens(s, t)
      BY <2>4, UpdPeers
    <3>. QED
      BY <2>1, <3>1, <3>2, Sets
<1>3. CASE ac # MC /\ ~ (\E p \in Slots : IsFirstAwake(s, p, ac))
           /\ \E p \in Slots : IsNextInTurn(s, p, ac)
  <2> DEFINE p == CHOOSE p \in Slots : IsNextInTurn(s, p, ac)
  <2>1. p \in Slots
    BY <1>3
  <2>2. PeerOpp(s, ac) = [peer |-> p, tx |-> [s EXCEPT !.opp[ac] = TurnAfter(p)]]
    BY <1>3 DEF PeerOpp
  <2>3. TurnAfter(p) \in Slots
    BY <2>1, ConstantsOK DEF TurnAfter, Slots, ConstantsOK
  <2> DEFINE o == [s.opp EXCEPT ![ac] = TurnAfter(p)]
  <2>4. o \in [Acs -> Slots]
    BY <2>3, Fields
  <2>. HIDE DEF p
  <2>. QED
    <3>1. PeerOpp(s, ac) = [peer |-> p, tx |-> [s EXCEPT !.opp = o]]
      BY <2>2
    <3>. HIDE DEF o
    <3>2. LET t == [s EXCEPT !.opp = o] IN Typed(t) /\ SameTokens(s, t)
      BY <2>4, UpdOpp
    <3>. QED
      BY <2>1, <3>1, <3>2, Sets
<1>4. CASE ac # MC /\ ~ (\E p \in Slots : IsFirstAwake(s, p, ac))
           /\ ~ (\E p \in Slots : IsNextInTurn(s, p, ac))
  BY <1>0, <1>4 DEF PeerOpp
<1>. QED
  BY <1>1, <1>2, <1>3, <1>4

(* update_pend_q_bmp keeps the type and the tokens. *)
LEMMA UpdateBmpTyped ==
    ASSUME NEW s, Typed(s), NEW ac \in Acs, NEW p \in SwPeers, NEW up,
           p \in Slots => ac \in Unicast
    PROVE  /\ Typed(UpdateBmp(s, ac, p, up))
           /\ SameTokens(s, UpdateBmp(s, ac, p, up))
<1>1. CASE ~ (ApVif /\ p \in Slots)
  BY <1>1 DEF UpdateBmp, SameTokens
<1>2. CASE ApVif /\ p \in Slots
  <2> DEFINE bmp == IF HasPending(s, p, ac) THEN s.peers[p].bmp \cup {ac}
                                            ELSE s.peers[p].bmp \ {ac}
             P == [s.peers EXCEPT ![p].bmp = bmp]
             b == [s.rpu_bmp EXCEPT ![p] = IF up THEN bmp ELSE @]
  <2>1. UpdateBmp(s, ac, p, up) = [s EXCEPT !.peers = P, !.rpu_bmp = b]
    BY <1>2 DEF UpdateBmp
  <2>2. s.peers[p] \in Peer
    BY Fields
  <2>3. bmp \in SUBSET Unicast
    BY <1>2, <2>2 DEF Peer
  <2>. HIDE DEF bmp
  <2>4. P \in [SwPeers -> Peer]
    BY <2>2, <2>3, Fields DEF Peer
  <2>5. b \in [Slots -> SUBSET Unicast]
    BY <1>2, <2>3, Fields
  <2>. HIDE DEF P, b
  <2>6. LET t == [s EXCEPT !.peers = P, !.rpu_bmp = b] IN Typed(t) /\ SameTokens(s, t)
    BY <2>4, <2>5, UpdBitmaps
  <2>. QED
    BY <2>1, <2>6
<1>. QED
  BY <1>1, <1>2

(* At least one frame leaves a queue, and no more than there are. *)
LEMMA BatchLenTyped ==
    ASSUME NEW q \in Seq(Frames), q # <<>>, NEW legacy
    PROVE  BatchLen(q, legacy) \in 1 .. Len(q)
<1>1. 1 \in 1 .. Len(q)
  BY EmptySeq, LenProperties
<1>2. CASE ~ legacy /\ \E n \in 1 .. Len(q) : IsBatch(q, n)
  BY <1>2 DEF BatchLen
<1>3. CASE ~ (~ legacy /\ \E n \in 1 .. Len(q) : IsBatch(q, n))
  BY <1>1, <1>3 DEF BatchLen
<1>. QED
  BY <1>2, <1>3

(* _tx_pending_process keeps the type and the tokens. *)
LEMMA PendingProcessTyped ==
    ASSUME NEW s, Typed(s), NEW d \in Tokens, NEW ac \in Acs, NEW up
    PROVE  /\ Typed(PendingProcess(s, d, ac, up))
           /\ SameTokens(s, PendingProcess(s, d, ac, up))
<1> DEFINE o == PeerOpp(s, ac)
           t == o.tx
           p == o.peer
           q == s.pending[p][ac]
           n == BatchLen(q, IsLegacy(s, p))
<1>1. CASE p = None \/ ~ HasPending(s, p, ac)
  BY <1>1 DEF PendingProcess, SameTokens
<1>2. CASE p # None /\ HasPending(s, p, ac)
  <2>1. Typed(t) /\ SameTokens(s, t) /\ p \in SwPeers
    BY <1>2, PeerOppTyped
  <2>2. p \in Slots => ac \in Unicast
    BY Sets DEF PeerOpp
  <2>3. PendingProcess(s, d, ac, up) =
          UpdateBmp([t EXCEPT !.pending[p][ac] = SubSeq(q, n + 1, Len(q)),
                              !.pkt[d] = SubSeq(q, 1, n),
                              !.pkt_peer[d] = p], ac, p, up)
    BY <1>2 DEF PendingProcess
  <2>. HIDE DEF o, t, p
  <2>4. q \in Seq(Frames) /\ q # <<>>
    BY <1>2, <2>1, Fields DEF HasPending
  <2>5. n \in 1 .. Len(q)
    BY <2>4, BatchLenTyped
  <2>. HIDE DEF q, n
  <2>6. Len(q) \in Nat /\ n \in Nat /\ n <= Len(q)
    BY <2>4, <2>5, LenProperties
  <2>7. SubSeq(q, n + 1, Len(q)) \in Seq(Frames) /\ SubSeq(q, 1, n) \in Seq(Frames)
    BY <2>4, <2>6, SubSeqProperties
  <2> DEFINE a == [t.pending EXCEPT ![p][ac] = SubSeq(q, n + 1, Len(q))]
             k == [t.pkt EXCEPT ![d] = SubSeq(q, 1, n)]
             r == [t.pkt_peer EXCEPT ![d] = p]
  <2>8. a \in [SwPeers -> [Acs -> Seq(Frames)]]
    BY <2>1, <2>7, Fields
  <2>9. k \in [Tokens -> Seq(Frames)] /\ r \in [Tokens -> SwPeers]
    BY <2>1, <2>7, Fields
  <2> DEFINE u == [t EXCEPT !.pending = a, !.pkt = k, !.pkt_peer = r]
  <2>10. PendingProcess(s, d, ac, up) = UpdateBmp(u, ac, p, up)
    BY <2>3
  <2>. HIDE DEF a, k, r
  <2>11. Typed(u) /\ SameTokens(t, u)
    BY <2>1, <2>8, <2>9, UpdBatch
  <2>. HIDE DEF u
  <2>12. Typed(UpdateBmp(u, ac, p, up)) /\ SameTokens(u, UpdateBmp(u, ac, p, up))
    BY <2>1, <2>2, <2>11, UpdateBmpTyped
  <2>. QED
    BY <2>1, <2>10, <2>11, <2>12 DEF SameTokens
<1>. QED
  BY <1>1, <1>2

(* tx_cmd_init keeps the type, and gives the RPU token d at most. *)
LEMMA CmdInitTyped ==
    ASSUME NEW s, Typed(s), NEW d \in Tokens, NEW up
    PROVE  Typed(CmdInit(s, d, up)) /\ KeepsTokens(s, CmdInit(s, d, up), d)
<1> DEFINE c == [s.coalesce EXCEPT ![d] = Len(s.pkt[d])]
           t == [s EXCEPT !.coalesce = c]
<1>1. Len(s.pkt[d]) \in Nat
  BY Fields, LenProperties
<1>2. c \in [Tokens -> Nat]
  BY <1>1, Fields
<1>3. Typed(t) /\ SameTokens(s, t) /\ t.mapped = s.mapped
  <2>. HIDE DEF c
  <2>1. Typed(t) /\ SameTokens(s, t)
    BY <1>2, UpdCoalesce
  <2>. QED
    BY <2>1 DEF Typed, Config
<1>4. CASE s.mapped[d] # 0
  <2>1. CmdInit(s, d, up) = t
    BY <1>4 DEF CmdInit
  <2>. QED
    BY <1>3, <2>1 DEF SameTokens, KeepsTokens
<1>5. CASE s.mapped[d] = 0
  <2> DEFINE m == [t.mapped EXCEPT ![d] = Len(s.pkt[d])]
             w == IF s.peers[s.pkt_peer[d]].tokens = 0
                  THEN Remove(t.wakeup, s.pkt_peer[d]) ELSE t.wakeup
             r == IF up THEN t.in_rpu \cup {d} ELSE t.in_rpu
             u == [t EXCEPT !.mapped = m, !.wakeup = w, !.in_rpu = r]
  <2>1. CmdInit(s, d, up) = u
    BY <1>5 DEF CmdInit
  <2>2. m \in [Tokens -> Nat] /\ r \in SUBSET Tokens
    BY <1>1, <1>3, Fields
  <2>3. r \in {s.in_rpu, s.in_rpu \cup {d}}
    BY <1>3 DEF SameTokens
  <2>. HIDE DEF t, m, w, r
  <2>4. Typed(u) /\ u.in_rpu = r /\ SameTokens([t EXCEPT !.in_rpu = r], u)
    BY <1>3, <2>2, UpdCommand
  <2>5. u.busy = t.busy /\ u.outstanding = t.outstanding /\ u.spare_map = t.spare_map
    BY <1>3, <2>4 DEF SameTokens, Typed, Config
  <2>. QED
    BY <1>3, <2>1, <2>3, <2>4, <2>5 DEF SameTokens, KeepsTokens
<1>. QED
  BY <1>4, <1>5, Fields

(* tx_pending_process keeps the type. *)
LEMMA FillTokenTyped ==
    ASSUME NEW s, Typed(s), NEW d \in Tokens, NEW ac \in Acs, NEW up
    PROVE  Typed(FillToken(s, d, ac, up))
BY PendingProcessTyped, CmdInitTyped, DescFreeTyped DEF FillToken

(* tx_enqueue keeps the type and the tokens. *)
LEMMA EnqueueTyped ==
    ASSUME NEW s, Typed(s), NEW f \in Frames, NEW ac \in Acs, NEW p \in SwPeers, NEW up,
           p \in Slots => ac \in Unicast
    PROVE  Typed(Enqueue(s, f, ac, p, up)) /\ SameTokens(s, Enqueue(s, f, ac, p, up))
<1> DEFINE q == IF f \in Emergency THEN <<f>> \o s.pending[p][ac]
                                   ELSE Append(s.pending[p][ac], f)
           a == [s.pending EXCEPT ![p][ac] = q]
           t == [s EXCEPT !.pending = a]
<1>1. Enqueue(s, f, ac, p, up) = UpdateBmp(t, ac, p, up)
  BY DEF Enqueue
<1>2. s.pending[p][ac] \in Seq(Frames)
  BY Fields
<1>3. q \in Seq(Frames)
  BY <1>2, AppendProperties, ConcatProperties
<1>. HIDE DEF q
<1>4. a \in [SwPeers -> [Acs -> Seq(Frames)]]
  BY <1>3, Fields
<1>. HIDE DEF a
<1>5. Typed(t) /\ SameTokens(s, t)
  BY <1>4, UpdPending
<1>. HIDE DEF t
<1>6. Typed(UpdateBmp(t, ac, p, up)) /\ SameTokens(t, UpdateBmp(t, ac, p, up))
  BY <1>5, UpdateBmpTyped
<1>. QED
  BY <1>1, <1>5, <1>6 DEF SameTokens

(* tx_desc_get returns a token of the pool, or the number of tokens. *)
LEMMA DescPickFree ==
    ASSUME NEW s, NEW q, DescPick(s, q) # NumTokens
    PROVE  DescPick(s, q) \in Tokens /\ DescPick(s, q) \in Candidates(s, q)
BY DEF DescPick, IsFirstFree

(* nrf_wifi_fmac_tx keeps the type. *)
LEMMA FmacTxTyped ==
    ASSUME NEW s, Typed(s), NEW f \in Frames, NEW ac \in Acs, NEW p \in SwPeers, NEW up,
           p \in Slots => ac \in Unicast
    PROVE  Typed(FmacTx(s, f, ac, p, up).tx)
<1> DEFINE e == Enqueue(s, f, ac, p, up)
           d == DescPick(e, ac)
           t == DescTake(e, ac, d)
<1>1. Typed(e)
  BY EnqueueTyped
<1>2. CASE d = NumTokens
  BY <1>1, <1>2 DEF FmacTx
<1>3. CASE d # NumTokens
  <2>1. d \in Tokens
    BY <1>3, DescPickFree
  <2>. HIDE DEF e, d
  <2>2. Typed(t)
    BY <1>1, <2>1, DescTakeTyped
  <2>. HIDE DEF t
  <2>3. Typed(FillToken(t, d, ac, up))
    BY <2>1, <2>2, FillTokenTyped
  <2>. QED
    BY <1>1, <2>3 DEF FmacTx, e, d, t
<1>. QED
  BY <1>2, <1>3

(* The category inferred for a token is a category. *)
LEMMA TxDoneQueueTyped ==
    ASSUME NEW s, NEW d \in Tokens
    PROVE  TxDoneQueue(s, d) \in Acs
<1>1. CASE d \notin Spare
  <2>1. d \in Nat
    BY Sets
  <2>2. d % 5 \in 0 .. 4
    BY <2>1
  <2>. QED
    BY <1>1, <2>2 DEF TxDoneQueue, Acs, AC_MAX
<1>2. CASE d \in Spare
  <2>1. SpareNibble(s, d) \subseteq Acs
    BY Sets DEF SpareNibble
  <2>. QED
    BY <1>2, <2>1, Sets DEF TxDoneQueue, LowestBit, BK
<1>. QED
  BY <1>1, <1>2

(* tx_buff_req_free keeps the type. *)
LEMMA BuffReqFreeTyped ==
    ASSUME NEW s, Typed(s), NEW d \in Tokens, NEW up
    PROVE  Typed(BuffReqFree(s, d, up))
<1> DEFINE q == TxDoneQueue(s, d)
<1>1. q \in Acs
  BY TxDoneQueueTyped
<1>. HIDE DEF q
<1>2. CASE \E ac \in Acs : IsHighest(s, d, ac)
  <2> DEFINE ac == CHOOSE ac \in Acs : IsHighest(s, d, ac)
             t == PendingProcess(s, d, ac, up)
             u == Reassign(t, d, q, ac)
  <2>1. ac \in Acs
    BY <1>2
  <2>2. BuffReqFree(s, d, up) = CmdInit(u, d, up)
    BY <1>2 DEF BuffReqFree, q
  <2>. HIDE DEF ac
  <2>3. Typed(t)
    BY <2>1, PendingProcessTyped
  <2>. HIDE DEF t
  <2>4. Typed(u)
    BY <1>1, <2>1, <2>3, ReassignTyped
  <2>. HIDE DEF u
  <2>. QED
    BY <2>2, <2>4, CmdInitTyped
<1>3. CASE ~ (\E ac \in Acs : IsHighest(s, d, ac))
  <2>1. BuffReqFree(s, d, up) = DescFree(s, d, q)
    BY <1>3 DEF BuffReqFree, q
  <2>. QED
    BY <1>1, <2>1, DescFreeTyped
<1>. QED
  BY <1>2, <1>3

(* One turn of the loops of fmac_ap.c keeps the type. *)
LEMMA ServeAcTyped ==
    ASSUME NEW s, Typed(s), NEW ac \in Acs, NEW up
    PROVE  Typed(ServeAc(s, ac, up))
<1> DEFINE d == DescPick(s, ac)
<1>1. CASE d < NumTokens
  <2>1. d # NumTokens
    BY <1>1, Sets
  <2>2. d \in Tokens
    BY <2>1, DescPickFree
  <2>. HIDE DEF d
  <2>3. Typed(DescTake(s, ac, d))
    BY <2>2, DescTakeTyped
  <2>4. Typed(FillToken(DescTake(s, ac, d), d, ac, up))
    BY <2>2, <2>3, FillTokenTyped
  <2>. QED
    BY <2>4 DEF ServeAc, d
<1>2. CASE ~ (d < NumTokens)
  BY <1>2 DEF ServeAc
<1>. QED
  BY <1>1, <1>2

(* The loops of fmac_ap.c keep the type. *)
LEMMA ServeAllTyped ==
    ASSUME NEW s, Typed(s), NEW up
    PROVE  Typed(ServeAll(s, up))
<1>1. VO \in Acs /\ VI \in Acs /\ BE \in Acs /\ BK \in Acs
  BY Sets DEF VO, VI, BE, BK
<1>. QED
  BY <1>1, ServeAcTyped DEF ServeAll

-----------------------------------------------------------------------------

(* An update of one slot of the peer table is one. *)
LEMMA PeerField ==
    ASSUME NEW P \in [SwPeers -> Peer], NEW p
    PROVE  /\ \A n \in Nat : [P EXCEPT ![p].tokens = n] \in [SwPeers -> Peer]
           /\ \A b \in BOOLEAN : [P EXCEPT ![p].ps = b] \in [SwPeers -> Peer]
           /\ \A a \in Stations : [P EXCEPT ![p].sta = a] \in [SwPeers -> Peer]
<1>1. CASE p \in SwPeers
  <2>1. P[p] \in Peer
    BY <1>1
  <2>2. /\ \A n \in Nat : [P[p] EXCEPT !.tokens = n] \in Peer
        /\ \A b \in BOOLEAN : [P[p] EXCEPT !.ps = b] \in Peer
        /\ \A a \in Stations : [P[p] EXCEPT !.sta = a] \in Peer
    BY <2>1 DEF Peer
  <2>. QED BY <1>1, <2>2
<1>2. CASE p \notin SwPeers
  BY <1>2
<1>. QED BY <1>1, <1>2

(* nrf_wifi_fmac_peer_get_id returns a slot, the group slot or none. *)
LEMMA PeerGetIdTyped ==
    ASSUME NEW s, NEW a
    PROVE  PeerGetId(s, a) \in Slots \cup {MaxPeers, None}
BY DEF PeerGetId

(* Every field has its type at the start. *)
LEMMA InitTyped == Init => FieldsOK
<1>. SUFFICES ASSUME Init PROVE FieldsOK
  OBVIOUS
<1>1. UintMod \in Nat /\ UintMod > 0 /\ 0 \in Slots
  BY ConstantsOK, Sets DEF ConstantsOK, Slots
<1>2. NoPeer \in Peer
  BY DEF NoPeer, Peer
<1>3. 0 \in SwPeers /\ <<>> \in Seq(Frames)
  BY <1>1, Sets
<1>4. tx \in Config(tx.wakeup)
  BY <1>1, <1>2, <1>3 DEF Init, Config
<1>5. xmit \in [Vifs -> Calls] /\ live \subseteq Frames
  BY DEF Init, Calls
<1>. QED
  BY <1>4, <1>5 DEF FieldsOK

(* Every action keeps the types of the fields. *)
LEMMA NextTyped == FieldsOK /\ [Next]_vars => FieldsOK'
<1>. SUFFICES ASSUME FieldsOK, [Next]_vars PROVE FieldsOK'
  OBVIOUS
<1>0. /\ Typed(tx)
      /\ xmit \in [Vifs -> Calls]
      /\ live \subseteq Frames
  BY DEF FieldsOK, Typed
<1>. SUFFICES Typed(tx') /\ xmit' \in [Vifs -> Calls] /\ live' \subseteq Frames
  BY DEF FieldsOK, Typed, Config
<1>1. ASSUME NEW v \in Vifs, NEW f \in Frames, XmitLookup(v, f)
      PROVE  Typed(tx') /\ xmit' \in [Vifs -> Calls] /\ live' \subseteq Frames
  <2>1. PICK ac \in (IF Dest[f] = Group THEN {MC} ELSE TrafficAcs) :
           xmit' = [xmit EXCEPT ![v] =
                       [frame |-> f, peer |-> PeerGetId(tx, Dest[f]), ac |-> ac]]
    BY <1>1 DEF XmitLookup
  <2>2. [frame |-> f, peer |-> PeerGetId(tx, Dest[f]), ac |-> ac] \in Calls
    <3>1. CASE Dest[f] = Group
      BY <2>1, <3>1 DEF PeerGetId, Calls
    <3>2. CASE Dest[f] # Group
      <4>1. PeerGetId(tx, Dest[f]) \in Slots
        BY <1>1, <3>2 DEF XmitLookup, PeerGetId
      <4>2. ac \in Unicast
        BY <2>1, <3>2, ConstantsOK DEF ConstantsOK
      <4>. QED BY <4>1, <4>2 DEF Calls
    <3>. QED BY <3>1, <3>2
  <2>. QED
    BY <1>0, <1>1, <2>1, <2>2 DEF XmitLookup
<1>2. ASSUME NEW v \in Vifs, XmitTx(v)
      PROVE  Typed(tx') /\ xmit' \in [Vifs -> Calls] /\ live' \subseteq Frames
  <2> DEFINE x == xmit[v]
  <2>1. /\ x.frame \in Frames /\ x.ac \in Acs /\ x.peer \in SwPeers
        /\ x.peer \in Slots => x.ac \in Unicast
    BY <1>0, <1>2, Sets DEF XmitTx, Calls
  <2>2. PICK up \in Reachable : tx' = FmacTx(tx, x.frame, x.ac, x.peer, up).tx
    BY <1>2 DEF XmitTx
  <2>3. Typed(tx')
    BY <1>0, <2>1, <2>2, FmacTxTyped
  <2>4. xmit' \in [Vifs -> Calls]
    BY <1>0, <1>2 DEF XmitTx, Calls
  <2>5. live' \subseteq Frames
    BY <1>0, <1>2 DEF XmitTx
  <2>. QED BY <2>3, <2>4, <2>5
<1>3. ASSUME NEW d \in Tokens, TxDoneEvent(d)
      PROVE  Typed(tx') /\ xmit' \in [Vifs -> Calls] /\ live' \subseteq Frames
  <2> DEFINE r == tx.in_rpu \ {d}
             m == [tx.mapped EXCEPT ![d] = 0]
             back == [tx EXCEPT !.in_rpu = r, !.mapped = m]
             k == [back.pkt EXCEPT ![d] = <<>>]
             u == [back EXCEPT !.pkt = k]
  <2>1. r \in SUBSET Tokens /\ m \in [Tokens -> Nat]
    BY <1>0, Fields
  <2>2. /\ tx' = back \/ \E up \in Reachable : tx' = BuffReqFree(u, d, up)
        /\ live' = live \/ live' = live \ ToSet(tx.pkt[d])
        /\ xmit' = xmit
    BY <1>3 DEF TxDoneEvent
  <2>. HIDE DEF r, m
  <2>3. Typed(back)
    BY <1>0, <2>1, UpdDone
  <2>. HIDE DEF back
  <2>4. k \in [Tokens -> Seq(Frames)]
    BY <2>3, Fields
  <2>. HIDE DEF k
  <2>5. Typed(u)
    BY <2>3, <2>4, UpdPkt
  <2>. HIDE DEF u
  <2>6. Typed(tx')
    BY <2>2, <2>3, <2>5, BuffReqFreeTyped
  <2>. QED BY <1>0, <2>2, <2>6
<1>4. ASSUME NEW a \in Stations, NEW n \in 1 .. MaxPsTokens, GetFrames(a, n)
      PROVE  Typed(tx') /\ xmit' \in [Vifs -> Calls] /\ live' \subseteq Frames
  <2> DEFINE p == PeerGetId(tx, a)
             P == [tx.peers EXCEPT ![p].tokens = n]
             u == [tx EXCEPT !.peers = P, !.wakeup = Append(tx.wakeup, p)]
  <2>1. PICK up \in Reachable : tx' = ServeAll(u, up)
    BY <1>4 DEF GetFrames
  <2>2. P \in [SwPeers -> Peer]
    <3>1. tx.peers \in [SwPeers -> Peer] /\ n \in Nat
      BY <1>0, Fields, ConstantsOK DEF ConstantsOK
    <3>. HIDE DEF p
    <3>. QED BY <3>1, PeerField
  <2>3. Typed(u)
    <3>. HIDE DEF P, p
    <3>. QED BY <1>0, <2>2, UpdWakeup
  <2>. HIDE DEF u
  <2>. QED
    BY <1>0, <1>4, <2>1, <2>3, ServeAllTyped DEF GetFrames
<1>5. ASSUME NEW a \in Stations, Doze(a)
      PROVE  Typed(tx') /\ xmit' \in [Vifs -> Calls] /\ live' \subseteq Frames
  <2> DEFINE p == PeerGetId(tx, a)
             P == [tx.peers EXCEPT ![p].ps = TRUE]
  <2>1. tx' = [tx EXCEPT !.peers = P]
    BY <1>5 DEF Doze
  <2>2. P \in [SwPeers -> Peer]
    <3>1. tx.peers \in [SwPeers -> Peer]
      BY <1>0, Fields
    <3>. HIDE DEF p
    <3>. QED BY <3>1, PeerField
  <2>. HIDE DEF P
  <2>3. Typed([tx EXCEPT !.peers = P])
    BY <1>0, <2>2, UpdPeers
  <2>. QED
    BY <1>0, <1>5, <2>1, <2>3 DEF Doze
<1>6. ASSUME NEW a \in Stations, WakeUp(a)
      PROVE  Typed(tx') /\ xmit' \in [Vifs -> Calls] /\ live' \subseteq Frames
  <2> DEFINE p == PeerGetId(tx, a)
             P == [tx.peers EXCEPT ![p].ps = FALSE]
             u == [tx EXCEPT !.peers = P, !.wakeup = Append(tx.wakeup, p)]
  <2>1. PICK up \in Reachable : tx' = ServeAll(u, up)
    BY <1>6 DEF WakeUp
  <2>2. P \in [SwPeers -> Peer]
    <3>1. tx.peers \in [SwPeers -> Peer]
      BY <1>0, Fields
    <3>. HIDE DEF p
    <3>. QED BY <3>1, PeerField
  <2>3. Typed(u)
    <3>. HIDE DEF P, p
    <3>. QED BY <1>0, <2>2, UpdWakeup
  <2>. HIDE DEF u
  <2>. QED
    BY <1>0, <1>6, <2>1, <2>3, ServeAllTyped DEF WakeUp
<1>7. ASSUME NEW a \in Stations, PeerAdd(a) \/ PeerRemove(a)
      PROVE  Typed(tx') /\ xmit' \in [Vifs -> Calls] /\ live' \subseteq Frames
  <2>1. NoPeer \in Peer
    BY DEF NoPeer, Peer
  <2>2. \E P \in [SwPeers -> Peer] : tx' = [tx EXCEPT !.peers = P]
    <3>1. CASE PeerAdd(a)
      <4>1. PICK p \in Slots : tx' = [tx EXCEPT !.peers[p].sta = a]
        BY <3>1 DEF PeerAdd
      <4>2. [tx.peers EXCEPT ![p].sta = a] \in [SwPeers -> Peer]
        BY <1>0, Fields, PeerField
      <4>. QED BY <4>1, <4>2
    <3>2. CASE PeerRemove(a)
      <4> DEFINE p == PeerGetId(tx, a)
      <4>1. tx' = [tx EXCEPT !.peers[p] = NoPeer]
        BY <3>2 DEF PeerRemove
      <4>2. [tx.peers EXCEPT ![p] = NoPeer] \in [SwPeers -> Peer]
        BY <1>0, <2>1, Fields
      <4>. QED BY <4>1, <4>2
    <3>. QED BY <1>7, <3>1, <3>2
  <2>3. xmit' = xmit /\ live' = live
    BY <1>7 DEF PeerAdd, PeerRemove
  <2>. QED
    BY <1>0, <2>2, <2>3, UpdPeers
<1>8. ASSUME PeersFlush
      PROVE  Typed(tx') /\ xmit' \in [Vifs -> Calls] /\ live' \subseteq Frames
  <2> DEFINE P == [p \in SwPeers |-> IF p \in Slots THEN NoPeer ELSE tx.peers[p]]
  <2>1. P \in [SwPeers -> Peer]
    BY <1>0, Fields DEF NoPeer, Peer
  <2>2. tx' = [tx EXCEPT !.peers = P] /\ xmit' = xmit /\ live' = live
    BY <1>8 DEF PeersFlush
  <2>. HIDE DEF P
  <2>. QED
    BY <1>0, <2>1, <2>2, UpdPeers
<1>9. CASE UNCHANGED vars
  BY <1>0, <1>9 DEF vars
<1>. QED
  BY <1>1, <1>2, <1>3, <1>4, <1>5, <1>6, <1>7, <1>8, <1>9 DEF Next

(* Every field of struct tx_config, every call in progress and the set of  *)
(* frames keep their types, whatever the sizes of the tables: no counter   *)
(* leaves the range of an unsigned int, no turn passes MAX_PEERS, no index *)
(* leaves its table.                                                       *)
THEOREM TypeCorrect == Spec => []FieldsOK
<1>. QED
  BY InitTyped, NextTyped, PTL DEF Spec

-----------------------------------------------------------------------------

(* The tokens in use that category q is charged with. *)
HeldBy(s, q) == {d \in s.busy : TxDoneQueue(s, d) = q}

(* The counters count them. *)
Counted(s) == \A q \in Acs : s.outstanding[q] = Cardinality(HeldBy(s, q))

(* The bit map names the one category of each spare token in use.          *)
Marked(s) ==
    \A d \in Spare :
        /\ d \in s.busy => \E q \in Unicast : SpareNibble(s, d) = {q}
        /\ d \notin s.busy => SpareNibble(s, d) = {}

(* Tokens other than d are charged to the same categories. *)
SameHolders(s, t, d) == \A e \in Tokens \ {d} : TxDoneQueue(t, e) = TxDoneQueue(s, e)

(* The bookkeeping of the tokens is right, and the RPU has busy ones only. *)
Sound(s) == Typed(s) /\ Counted(s) /\ Marked(s) /\ s.in_rpu \subseteq s.busy

(* Bits of different spare tokens, or of different categories of one, differ. *)
LEMMA SpareBitsDiffer ==
    ASSUME NEW d \in Spare, NEW e \in Spare, NEW q \in Unicast, NEW r \in Unicast,
           SpareBit(d, q) = SpareBit(e, r)
    PROVE  d = e /\ q = r
<1>1. d % NumReserved = d - NumReserved /\ e % NumReserved = e - NumReserved
  BY SpareMod
<1>2. d \in Nat /\ e \in Nat /\ NumReserved \in Nat
  BY Sets
<1>. QED
  BY <1>1, <1>2, Sets DEF SpareBit, SPARE_DESC_Q_MAP_SIZE

(* A nibble with one bit names that category. *)
LEMMA NibbleQueue ==
    ASSUME NEW s, NEW d \in Spare, NEW q \in Unicast, SpareNibble(s, d) = {q}
    PROVE  TxDoneQueue(s, d) = q
<1>1. q \in Nat
  BY Sets
<1>. QED
  BY <1>1 DEF TxDoneQueue, LowestBit

(* The tokens of a category are finitely many. *)
LEMMA HeldFinite ==
    ASSUME NEW s, Typed(s), NEW q
    PROVE  /\ IsFiniteSet(HeldBy(s, q))
           /\ Cardinality(HeldBy(s, q)) \in 0 .. NumTokens
<1>1. NumTokens \in Nat
  BY Sets
<1>2. IsFiniteSet(0 .. NumTokens - 1) /\ Cardinality(0 .. NumTokens - 1) = NumTokens
  BY <1>1, FS_Interval
<1>3. HeldBy(s, q) \subseteq 0 .. NumTokens - 1
  BY Fields DEF HeldBy, Tokens
<1>4. IsFiniteSet(HeldBy(s, q)) /\ Cardinality(HeldBy(s, q)) <= NumTokens
  BY <1>2, <1>3, FS_Subset
<1>. QED
  BY <1>1, <1>4, FS_CardinalityType

(* The category of a token depends on the bit map only. *)
LEMMA SameNibbles ==
    ASSUME NEW s, NEW t, t.spare_map = s.spare_map
    PROVE  /\ \A d : SpareNibble(t, d) = SpareNibble(s, d)
           /\ \A d : TxDoneQueue(t, d) = TxDoneQueue(s, d)
<1>1. \A d : SpareNibble(t, d) = SpareNibble(s, d)
  BY DEF SpareNibble
<1>. QED
  BY <1>1 DEF TxDoneQueue

(* What leaves the tokens alone keeps them sound. *)
LEMMA KeepsSound ==
    ASSUME NEW s, NEW t, NEW d \in s.busy, Sound(s), Typed(t), KeepsTokens(s, t, d)
    PROVE  Sound(t)
<1>1. /\ \A e : SpareNibble(t, e) = SpareNibble(s, e)
      /\ \A e : TxDoneQueue(t, e) = TxDoneQueue(s, e)
  BY SameNibbles DEF KeepsTokens
<1>2. \A q : HeldBy(t, q) = HeldBy(s, q)
  BY <1>1 DEF HeldBy, KeepsTokens
<1>. QED
  BY <1>1, <1>2 DEF Sound, Counted, Marked, KeepsTokens

(* What also leaves the RPU alone keeps them sound. *)
LEMMA SameSound ==
    ASSUME NEW s, NEW t, Sound(s), Typed(t), SameTokens(s, t)
    PROVE  Sound(t)
<1>1. /\ \A e : SpareNibble(t, e) = SpareNibble(s, e)
      /\ \A e : TxDoneQueue(t, e) = TxDoneQueue(s, e)
  BY SameNibbles DEF SameTokens
<1>2. \A q : HeldBy(t, q) = HeldBy(s, q)
  BY <1>1 DEF HeldBy, SameTokens
<1>. QED
  BY <1>1, <1>2 DEF Sound, Counted, Marked, SameTokens

(* tx_desc_get, of a free token the category may use, keeps them sound. *)
LEMMA DescTakeSound ==
    ASSUME NEW s, Sound(s), NEW d \in Tokens, d \notin s.busy, NEW q \in Acs,
           IF d \in Spare THEN q \in Unicast ELSE q = d % AC_MAX
    PROVE  LET t == DescTake(s, q, d)
           IN  /\ Sound(t)
               /\ d \in t.busy /\ d \notin t.in_rpu
               /\ TxDoneQueue(t, d) = q /\ SameHolders(s, t, d)
<1> DEFINE t == DescTake(s, q, d)
<1>0. Typed(s) /\ Typed(t)
  BY DescTakeTyped DEF Sound
<1>1. /\ t.busy = s.busy \cup {d}
      /\ t.outstanding = [s.outstanding EXCEPT ![q] = (s.outstanding[q] + 1) % UintMod]
      /\ t.spare_map = IF d \in Spare THEN s.spare_map \cup {SpareBit(d, q)}
                                      ELSE s.spare_map
      /\ t.in_rpu = s.in_rpu
  BY <1>0 DEF DescTake, Typed, Config
<1>. HIDE DEF t
<1>2. \A e \in Spare \ {d} : SpareNibble(t, e) = SpareNibble(s, e)
  BY <1>1, SpareBitsDiffer DEF SpareNibble
<1>3. d \in Spare => SpareNibble(t, d) = {q}
  BY <1>1, SpareBitsDiffer DEF SpareNibble, Sound, Marked
<1>4. SameHolders(s, t, d)
  BY <1>2 DEF SameHolders, TxDoneQueue
<1>5. TxDoneQueue(t, d) = q
  BY <1>3, NibbleQueue DEF TxDoneQueue
<1>6. Marked(t)
  BY <1>1, <1>2, <1>3 DEF Sound, Marked
<1>7. /\ HeldBy(t, q) = HeldBy(s, q) \cup {d}
      /\ d \notin HeldBy(s, q)
      /\ \A r \in Acs \ {q} : HeldBy(t, r) = HeldBy(s, r)
  BY <1>0, <1>1, <1>4, <1>5, Fields DEF HeldBy, SameHolders
<1>8. Counted(t)
  <2>1. Cardinality(HeldBy(t, q)) = Cardinality(HeldBy(s, q)) + 1
    BY <1>0, <1>7, HeldFinite, FS_AddElement
  <2>2. Cardinality(HeldBy(t, q)) \in 0 .. NumTokens
    BY <1>0, HeldFinite
  <2>3. s.outstanding[q] = Cardinality(HeldBy(s, q)) /\ s.outstanding[q] \in Nat
    BY <1>0, Fields DEF Sound, Counted
  <2>4. (s.outstanding[q] + 1) % UintMod = s.outstanding[q] + 1
    BY <2>1, <2>2, <2>3, ConstantsOK, Sets DEF ConstantsOK
  <2>. QED
    <3>1. t.outstanding[q] = Cardinality(HeldBy(t, q))
      BY <1>0, <1>1, <2>1, <2>3, <2>4, Fields
    <3>2. ASSUME NEW r \in Acs \ {q} PROVE t.outstanding[r] = Cardinality(HeldBy(t, r))
      <4>1. t.outstanding[r] = s.outstanding[r]
        BY <1>0, <1>1, <3>2, Fields
      <4>. QED
        BY <1>7, <3>2, <4>1 DEF Sound, Counted
    <3>. QED
      BY <3>1, <3>2 DEF Counted
<1>. QED
  BY <1>0, <1>1, <1>4, <1>5, <1>6, <1>8 DEF Sound, t

(* tx_desc_free, for the category the token is held by, keeps them sound. *)
LEMMA DescFreeSound ==
    ASSUME NEW s, Sound(s), NEW d \in s.busy, d \notin s.in_rpu
    PROVE  LET t == DescFree(s, d, TxDoneQueue(s, d))
           IN  Sound(t) /\ SameHolders(s, t, d) /\ d \notin t.busy
<1> DEFINE q == TxDoneQueue(s, d)
           t == DescFree(s, d, q)
<1>0. Typed(s) /\ d \in Tokens
  BY Fields DEF Sound
<1>1. q \in Acs
  BY <1>0, TxDoneQueueTyped
<1>2. Typed(t)
  BY <1>0, <1>1, DescFreeTyped
<1>3. /\ t.busy = s.busy \ {d}
      /\ t.outstanding = [s.outstanding EXCEPT ![q] = (s.outstanding[q] - 1) % UintMod]
      /\ t.spare_map = IF d \in Spare THEN s.spare_map \ {SpareBit(d, q)}
                                      ELSE s.spare_map
      /\ t.in_rpu = s.in_rpu
  BY <1>0 DEF DescFree, Typed, Config
<1>4. d \in Spare => q \in Unicast /\ SpareNibble(s, d) = {q}
  BY NibbleQueue DEF Sound, Marked
<1>. HIDE DEF q, t
<1>5. \A e \in Spare \ {d} : SpareNibble(t, e) = SpareNibble(s, e)
  BY <1>3, <1>4, SpareBitsDiffer DEF SpareNibble
<1>6. d \in Spare => SpareNibble(t, d) = {}
  BY <1>3, <1>4, SpareBitsDiffer DEF SpareNibble
<1>7. SameHolders(s, t, d)
  BY <1>5 DEF SameHolders, TxDoneQueue
<1>8. Marked(t)
  BY <1>3, <1>5, <1>6 DEF Sound, Marked
<1>9. /\ HeldBy(t, q) = HeldBy(s, q) \ {d}
      /\ d \in HeldBy(s, q)
      /\ \A r \in Acs \ {q} : HeldBy(t, r) = HeldBy(s, r)
  BY <1>0, <1>3, <1>7, Fields DEF HeldBy, SameHolders, q
<1>10. Counted(t)
  <2>1. Cardinality(HeldBy(t, q)) = Cardinality(HeldBy(s, q)) - 1
    BY <1>0, <1>9, HeldFinite, FS_RemoveElement
  <2>2. Cardinality(HeldBy(t, q)) \in 0 .. NumTokens
    BY <1>2, HeldFinite
  <2>3. s.outstanding[q] = Cardinality(HeldBy(s, q)) /\ s.outstanding[q] \in Nat
    BY <1>0, <1>1, Fields DEF Sound, Counted
  <2>4. (s.outstanding[q] - 1) % UintMod = s.outstanding[q] - 1
    BY <2>1, <2>2, <2>3, ConstantsOK, Sets DEF ConstantsOK
  <2>. QED
    <3>1. t.outstanding[q] = Cardinality(HeldBy(t, q))
      BY <1>0, <1>1, <1>3, <2>1, <2>3, <2>4, Fields
    <3>2. ASSUME NEW r \in Acs \ {q} PROVE t.outstanding[r] = Cardinality(HeldBy(t, r))
      <4>1. t.outstanding[r] = s.outstanding[r]
        BY <1>0, <1>1, <1>3, <3>2, Fields
      <4>. QED
        BY <1>9, <3>2, <4>1 DEF Sound, Counted
    <3>. QED
      BY <3>1, <3>2 DEF Counted
<1>. QED
  BY <1>2, <1>3, <1>7, <1>8, <1>10 DEF Sound, t, q

(* So does the change of category of a spare token in use. *)
LEMMA ReassignSound ==
    ASSUME NEW s, Sound(s), NEW d \in s.busy, NEW to \in ServedAcs(d)
    PROVE  LET t == Reassign(s, d, TxDoneQueue(s, d), to)
           IN  Sound(t) /\ SameHolders(s, t, d) /\ TxDoneQueue(t, d) = to
<1> DEFINE q == TxDoneQueue(s, d)
           t == Reassign(s, d, q, to)
<1>0. Typed(s) /\ d \in Tokens
  BY Fields DEF Sound
<1>1. q \in Acs
  BY <1>0, TxDoneQueueTyped
<1>2. CASE q = to
  BY <1>2 DEF Reassign, SameHolders
<1>3. CASE q # to
  <2>1. d \in Spare /\ to \in Unicast /\ to \in Acs
    BY <1>3, Sets DEF ServedAcs, TxDoneQueue
  <2>2. Typed(t)
    BY <1>0, <1>1, <2>1, ReassignTyped
  <2>3. /\ t.busy = s.busy
        /\ t.outstanding = [[s.outstanding EXCEPT ![q] = (s.outstanding[q] - 1) % UintMod]
                               EXCEPT ![to] = (s.outstanding[to] + 1) % UintMod]
        /\ t.spare_map = (s.spare_map \ {SpareBit(d, q)}) \cup {SpareBit(d, to)}
        /\ t.in_rpu = s.in_rpu
    BY <1>0, <1>3 DEF Reassign, Typed, Config
  <2>4. q \in Unicast /\ SpareNibble(s, d) = {q}
    BY <2>1, NibbleQueue DEF Sound, Marked
  <2>. HIDE DEF q, t
  <2>5. \A e \in Spare \ {d} : SpareNibble(t, e) = SpareNibble(s, e)
    BY <2>1, <2>3, <2>4, SpareBitsDiffer DEF SpareNibble
  <2>6. SpareNibble(t, d) = {to}
    BY <1>3, <2>1, <2>3, <2>4, SpareBitsDiffer DEF SpareNibble
  <2>7. SameHolders(s, t, d)
    BY <2>5 DEF SameHolders, TxDoneQueue
  <2>8. TxDoneQueue(t, d) = to
    BY <2>1, <2>6, NibbleQueue
  <2>9. Marked(t)
    BY <2>1, <2>3, <2>5, <2>6 DEF Sound, Marked
  <2>10. /\ HeldBy(t, q) = HeldBy(s, q) \ {d} /\ d \in HeldBy(s, q)
         /\ HeldBy(t, to) = HeldBy(s, to) \cup {d} /\ d \notin HeldBy(s, to)
         /\ \A r \in Acs \ {q, to} : HeldBy(t, r) = HeldBy(s, r)
    BY <1>0, <1>3, <2>3, <2>7, <2>8, Fields DEF HeldBy, SameHolders, q
  <2>11. Counted(t)
    <3>1. Cardinality(HeldBy(t, q)) = Cardinality(HeldBy(s, q)) - 1
      BY <1>0, <2>10, HeldFinite, FS_RemoveElement
    <3>2. Cardinality(HeldBy(t, to)) = Cardinality(HeldBy(s, to)) + 1
      BY <1>0, <2>10, HeldFinite, FS_AddElement
    <3>3. /\ Cardinality(HeldBy(t, q)) \in 0 .. NumTokens
          /\ Cardinality(HeldBy(t, to)) \in 0 .. NumTokens
      BY <2>2, HeldFinite
    <3>4. /\ s.outstanding[q] = Cardinality(HeldBy(s, q)) /\ s.outstanding[q] \in Nat
          /\ s.outstanding[to] = Cardinality(HeldBy(s, to)) /\ s.outstanding[to] \in Nat
      BY <1>0, <1>1, <2>1, Fields DEF Sound, Counted
    <3>5. /\ (s.outstanding[q] - 1) % UintMod = s.outstanding[q] - 1
          /\ (s.outstanding[to] + 1) % UintMod = s.outstanding[to] + 1
      BY <3>1, <3>2, <3>3, <3>4, ConstantsOK, Sets DEF ConstantsOK
    <3>6. t.outstanding[q] = s.outstanding[q] - 1 /\ t.outstanding[to] = s.outstanding[to] + 1
      BY <1>0, <1>1, <1>3, <2>1, <2>3, <3>5, Fields
    <3>7. ASSUME NEW r \in Acs \ {q, to} PROVE t.outstanding[r] = Cardinality(HeldBy(t, r))
      <4>1. t.outstanding[r] = s.outstanding[r]
        BY <1>0, <2>3, <3>7, Fields
      <4>. QED
        BY <2>10, <3>7, <4>1 DEF Sound, Counted
    <3>. QED
      BY <3>1, <3>2, <3>4, <3>6, <3>7 DEF Counted
  <2>. QED
    BY <2>2, <2>3, <2>7, <2>8, <2>9, <2>11 DEF Sound, t, q
<1>. QED
  BY <1>2, <1>3

(* A TX command for a token in use keeps them sound. *)
LEMMA CmdInitSound ==
    ASSUME NEW s, Sound(s), NEW d \in s.busy, NEW up
    PROVE  LET t == CmdInit(s, d, up)
           IN  /\ Sound(t) /\ t.busy = s.busy
               /\ \A e : TxDoneQueue(t, e) = TxDoneQueue(s, e)
<1>1. Typed(s) /\ d \in Tokens
  BY Fields DEF Sound
<1>2. Typed(CmdInit(s, d, up)) /\ KeepsTokens(s, CmdInit(s, d, up), d)
  BY <1>1, CmdInitTyped
<1>. QED
  BY <1>2, KeepsSound, SameNibbles DEF KeepsTokens

(* Filling a token keeps them sound. *)
LEMMA PendingProcessSound ==
    ASSUME NEW s, Sound(s), NEW d \in Tokens, NEW ac \in Acs, NEW up
    PROVE  LET t == PendingProcess(s, d, ac, up)
           IN  /\ Sound(t)
               /\ t.busy = s.busy /\ t.in_rpu = s.in_rpu
               /\ \A e : TxDoneQueue(t, e) = TxDoneQueue(s, e)
<1> DEFINE t == PendingProcess(s, d, ac, up)
<1>1. Typed(t) /\ SameTokens(s, t)
  BY PendingProcessTyped DEF Sound
<1>. HIDE DEF t
<1>2. Sound(t)
  BY <1>1, SameSound
<1>3. \A e : TxDoneQueue(t, e) = TxDoneQueue(s, e)
  BY <1>1, SameNibbles DEF SameTokens
<1>. QED
  BY <1>1, <1>2, <1>3 DEF SameTokens, t

(* tx_pending_process, on a token of category ac, keeps them sound. *)
LEMMA FillTokenSound ==
    ASSUME NEW s, Sound(s), NEW d \in s.busy, d \notin s.in_rpu,
           NEW ac \in Acs, TxDoneQueue(s, d) = ac, NEW up
    PROVE  LET u == FillToken(s, d, ac, up)
           IN  /\ Sound(u) /\ SameHolders(s, u, d)
               /\ d \in u.busy => TxDoneQueue(u, d) = ac
<1> DEFINE t == PendingProcess(s, d, ac, up)
<1>1. d \in Tokens
  BY Fields DEF Sound
<1>2. /\ Sound(t)
      /\ d \in t.busy /\ d \notin t.in_rpu
      /\ \A e : TxDoneQueue(t, e) = TxDoneQueue(s, e)
  BY <1>1, PendingProcessSound
<1>3. FillToken(s, d, ac, up) =
        IF t.pkt[d] # <<>> THEN CmdInit(t, d, up) ELSE DescFree(t, d, ac)
  BY DEF FillToken
<1>. HIDE DEF t
<1>4. /\ Sound(CmdInit(t, d, up))
      /\ \A e : TxDoneQueue(CmdInit(t, d, up), e) = TxDoneQueue(t, e)
  BY <1>2, CmdInitSound
<1>5. /\ Sound(DescFree(t, d, ac)) /\ SameHolders(t, DescFree(t, d, ac), d)
      /\ d \notin DescFree(t, d, ac).busy
  BY <1>2, DescFreeSound
<1>. QED
  BY <1>2, <1>3, <1>4, <1>5 DEF SameHolders

(* A token taken from the pool for category q and filled. *)
LEMMA PickSound ==
    ASSUME NEW s, Sound(s), NEW q \in Unicast, NEW up, DescPick(s, q) # NumTokens
    PROVE  LET d == DescPick(s, q)
               u == FillToken(DescTake(s, q, d), d, q, up)
           IN  /\ Sound(u) /\ SameHolders(s, u, d)
               /\ d \in u.busy => TxDoneQueue(u, d) = q
<1> DEFINE d == DescPick(s, q)
           t == DescTake(s, q, d)
<1>1. d \in Tokens /\ d \in Candidates(s, q)
  BY DescPickFree
<1>2. d \notin s.busy /\ (IF d \in Spare THEN q \in Unicast ELSE q = d % AC_MAX)
  BY <1>1 DEF Candidates
<1>3. q \in Acs
  BY Sets
<1>. HIDE DEF d
<1>4. /\ Sound(t) /\ d \in t.busy /\ d \notin t.in_rpu /\ TxDoneQueue(t, d) = q
      /\ SameHolders(s, t, d)
  BY <1>1, <1>2, <1>3, DescTakeSound
<1>. HIDE DEF t
<1>5. /\ Sound(FillToken(t, d, q, up)) /\ SameHolders(t, FillToken(t, d, q, up), d)
      /\ d \in FillToken(t, d, q, up).busy => TxDoneQueue(FillToken(t, d, q, up), d) = q
  BY <1>3, <1>4, FillTokenSound
<1>6. SameHolders(s, FillToken(t, d, q, up), d)
  BY <1>4, <1>5 DEF SameHolders
<1>. QED
  BY <1>5, <1>6 DEF t, d

(* nrf_wifi_fmac_tx, of a unicast frame, keeps the tokens sound. *)
LEMMA FmacTxSound ==
    ASSUME NEW s, Sound(s), NEW f \in Frames, NEW ac \in Unicast, NEW p \in SwPeers, NEW up
    PROVE  Sound(FmacTx(s, f, ac, p, up).tx)
<1> DEFINE e == Enqueue(s, f, ac, p, up)
           d == DescPick(e, ac)
<1>1. Typed(e) /\ SameTokens(s, e)
  BY EnqueueTyped, Sets DEF Sound
<1>2. Sound(e)
  BY <1>1, SameSound
<1>3. CASE d = NumTokens
  BY <1>2, <1>3 DEF FmacTx
<1>4. CASE d # NumTokens
  <2>. HIDE DEF e
  <2>1. Sound(FillToken(DescTake(e, ac, d), d, ac, up))
    BY <1>2, <1>4, PickSound
  <2>. QED
    BY <1>2, <2>1 DEF FmacTx, e
<1>. QED
  BY <1>3, <1>4

(* The loops of fmac_ap.c keep the tokens sound. *)
LEMMA ServeAllSound ==
    ASSUME NEW s, Sound(s), NEW up
    PROVE  Sound(ServeAll(s, up))
<1>1. ASSUME NEW c, Sound(c), NEW q \in Unicast PROVE Sound(ServeAc(c, q, up))
  <2>1. CASE DescPick(c, q) < NumTokens
    <3>1. DescPick(c, q) # NumTokens
      BY <2>1, Sets
    <3>. QED
      BY <1>1, <2>1, <3>1, PickSound DEF ServeAc
  <2>2. CASE ~ (DescPick(c, q) < NumTokens)
    BY <1>1, <2>2 DEF ServeAc
  <2>. QED
    BY <2>1, <2>2
<1>2. VO \in Unicast /\ VI \in Unicast /\ BE \in Unicast /\ BK \in Unicast
  BY Sets DEF VO, VI, BE, BK
<1>. QED
  BY <1>1, <1>2 DEF ServeAll

(* tx_buff_req_free, of a token in use, keeps the tokens sound. *)
LEMMA BuffReqFreeSound ==
    ASSUME NEW s, Sound(s), NEW d \in s.busy, d \notin s.in_rpu, NEW up
    PROVE  LET t == BuffReqFree(s, d, up)
           IN  /\ Sound(t) /\ SameHolders(s, t, d)
               /\ \A c \in Acs : IsHighest(s, d, c) => TxDoneQueue(t, d) = c
<1> DEFINE q == TxDoneQueue(s, d)
<1>1. CASE \E ac \in Acs : IsHighest(s, d, ac)
  <2> DEFINE ac == CHOOSE ac \in Acs : IsHighest(s, d, ac)
             t == PendingProcess(s, d, ac, up)
             u == Reassign(t, d, q, ac)
  <2>1. ac \in Acs /\ ac \in ServedAcs(d) /\ IsHighest(s, d, ac)
    BY <1>1 DEF IsHighest
  <2>0. \A c \in Acs : IsHighest(s, d, c) => c = ac
    <3>1. \A c \in Acs : c \in Nat
      BY Sets
    <3>. HIDE DEF ac
    <3>. QED BY <2>1, <3>1 DEF IsHighest
  <2>2. BuffReqFree(s, d, up) = CmdInit(u, d, up)
    BY <1>1 DEF BuffReqFree
  <2>. HIDE DEF ac
  <2>3. Sound(t) /\ d \in t.busy /\ \A e : TxDoneQueue(t, e) = TxDoneQueue(s, e)
    <3>1. d \in Tokens
      BY Fields DEF Sound
    <3>. QED BY <2>1, <3>1, PendingProcessSound
  <2>. HIDE DEF t
  <2>4. Sound(u) /\ SameHolders(t, u, d) /\ TxDoneQueue(u, d) = ac
    <3>1. q = TxDoneQueue(t, d)
      BY <2>3
    <3>. HIDE DEF q
    <3>. QED BY <2>1, <2>3, <3>1, ReassignSound
  <2>5. u.busy = t.busy
    BY <2>3 DEF Reassign, Sound, Typed, Config
  <2>. HIDE DEF u
  <2>6. /\ Sound(CmdInit(u, d, up))
        /\ \A e : TxDoneQueue(CmdInit(u, d, up), e) = TxDoneQueue(u, e)
    BY <2>3, <2>4, <2>5, CmdInitSound
  <2>. QED
    BY <2>0, <2>2, <2>3, <2>4, <2>6 DEF SameHolders
<1>2. CASE ~ (\E ac \in Acs : IsHighest(s, d, ac))
  <2>1. BuffReqFree(s, d, up) = DescFree(s, d, q)
    BY <1>2 DEF BuffReqFree
  <2>2. Sound(DescFree(s, d, q)) /\ SameHolders(s, DescFree(s, d, q), d)
    BY DescFreeSound
  <2>. QED
    BY <1>2, <2>1, <2>2
<1>. QED
  BY <1>1, <1>2

-----------------------------------------------------------------------------

(* tx_desc_get gives spare tokens to the multicast category too, whose bit *)
(* is one of the next token: the runs show what that does, and the theorems *)
(* exclude it.                                                             *)
NoGroupTraffic == \A f \in Frames : Dest[f] # Group

(* The calls in progress are of unicast frames. *)
UnicastCalls == \A v \in Vifs : xmit[v] # Idle => xmit[v].ac \in Unicast

(* The inductive invariant. TokenAccounting alone is not inductive: the    *)
(* category of a spare token is read from its four bits, so the proof needs *)
(* that these name exactly one category, and that TX-done is reported for  *)
(* tokens in use only.                                                     *)
TokenInv == FieldsOK /\ Sound(tx) /\ UnicastCalls

(* The invariant holds at the start, when every token is free. *)
LEMMA InitSound == Init => TokenInv
<1>. SUFFICES ASSUME Init PROVE TokenInv
  OBVIOUS
<1>1. FieldsOK
  BY InitTyped
<1>2. tx.busy = {} /\ tx.in_rpu = {} /\ tx.spare_map = {}
      /\ tx.outstanding = [q \in Acs |-> 0]
  BY DEF Init
<1>3. Typed(tx)
  BY <1>1 DEF FieldsOK, Typed
<1>4. Counted(tx)
  <2>1. \A q \in Acs : HeldBy(tx, q) = {}
    BY <1>2 DEF HeldBy
  <2>. QED
    BY <1>2, <2>1, FS_EmptySet DEF Counted
<1>5. Marked(tx)
  BY <1>2 DEF Marked, SpareNibble
<1>6. UnicastCalls
  BY DEF Init, UnicastCalls
<1>. QED
  BY <1>1, <1>2, <1>3, <1>4, <1>5, <1>6 DEF TokenInv, Sound

(* Every action keeps the invariant. *)
LEMMA NextSound ==
    ASSUME NoGroupTraffic
    PROVE  TokenInv /\ [Next]_vars => TokenInv'
<1>. SUFFICES ASSUME TokenInv, [Next]_vars PROVE TokenInv'
  OBVIOUS
<1>0. FieldsOK' /\ FieldsOK /\ Sound(tx) /\ UnicastCalls
  BY NextTyped DEF TokenInv
<1>00. /\ Typed(tx') /\ Typed(tx)
       /\ xmit \in [Vifs -> Calls]
  BY <1>0 DEF FieldsOK, Typed
<1>. SUFFICES Sound(tx') /\ UnicastCalls'
  BY <1>0 DEF TokenInv, Sound, Typed, Config, Counted, Marked, HeldBy, TxDoneQueue, SpareNibble
<1>1. ASSUME NEW v \in Vifs, NEW f \in Frames, XmitLookup(v, f)
      PROVE  Sound(tx') /\ UnicastCalls'
  <2>1. PICK ac \in TrafficAcs :
           xmit' = [xmit EXCEPT ![v] =
                       [frame |-> f, peer |-> PeerGetId(tx, Dest[f]), ac |-> ac]]
    BY <1>1 DEF XmitLookup, NoGroupTraffic
  <2>2. ac \in Unicast
    BY <2>1, ConstantsOK DEF ConstantsOK
  <2>3. UnicastCalls'
    BY <1>0, <1>00, <2>1, <2>2 DEF UnicastCalls
  <2>. QED
    BY <1>0, <1>1, <2>3 DEF XmitLookup
<1>2. ASSUME NEW v \in Vifs, XmitTx(v)
      PROVE  Sound(tx') /\ UnicastCalls'
  <2> DEFINE x == xmit[v]
  <2>1. x.frame \in Frames /\ x.ac \in Unicast /\ x.peer \in SwPeers
    BY <1>0, <1>00, <1>2, Sets DEF XmitTx, Calls, UnicastCalls
  <2>2. PICK up \in Reachable : tx' = FmacTx(tx, x.frame, x.ac, x.peer, up).tx
    BY <1>2 DEF XmitTx
  <2>3. Sound(tx')
    BY <1>0, <2>1, <2>2, FmacTxSound
  <2>4. UnicastCalls'
    BY <1>0, <1>00, <1>2 DEF XmitTx, UnicastCalls
  <2>. QED BY <2>3, <2>4
<1>3. ASSUME NEW d \in Tokens, TxDoneEvent(d)
      PROVE  Sound(tx') /\ UnicastCalls'
  <2> DEFINE r == tx.in_rpu \ {d}
             m == [tx.mapped EXCEPT ![d] = 0]
             back == [tx EXCEPT !.in_rpu = r, !.mapped = m]
             k == [back.pkt EXCEPT ![d] = <<>>]
             u == [back EXCEPT !.pkt = k]
  <2>1. r \in SUBSET Tokens /\ m \in [Tokens -> Nat]
    BY <1>00, Fields
  <2>2. tx' = back \/ \E up \in Reachable : tx' = BuffReqFree(u, d, up)
    BY <1>3 DEF TxDoneEvent
  <2>3. d \in tx.busy
    BY <1>0, <1>3 DEF TxDoneEvent, Sound
  <2>4. r \subseteq tx.busy /\ d \notin r
    BY <1>0 DEF Sound
  <2>. HIDE DEF r, m
  <2>5. /\ Typed(back) /\ back.in_rpu = r
        /\ back.busy = tx.busy
        /\ back.outstanding = tx.outstanding
        /\ back.spare_map = tx.spare_map
    BY <1>00, <2>1 DEF Typed, Config
  <2>. HIDE DEF back
  <2>6. Sound(back)
    <3>1. /\ \A e : SpareNibble(back, e) = SpareNibble(tx, e)
          /\ \A e : TxDoneQueue(back, e) = TxDoneQueue(tx, e)
      BY <2>5, SameNibbles
    <3>2. \A q : HeldBy(back, q) = HeldBy(tx, q)
      BY <2>5, <3>1 DEF HeldBy
    <3>. QED
      BY <1>0, <2>4, <2>5, <3>1, <3>2 DEF Sound, Counted, Marked
  <2>7. k \in [Tokens -> Seq(Frames)]
    BY <2>5, Fields
  <2>. HIDE DEF k
  <2>8. Typed(u) /\ SameTokens(back, u)
    BY <2>5, <2>7, UpdPkt
  <2>. HIDE DEF u
  <2>9. Sound(u) /\ d \in u.busy /\ d \notin u.in_rpu
    BY <2>3, <2>4, <2>5, <2>6, <2>8, SameSound DEF SameTokens
  <2>10. Sound(tx')
    BY <2>2, <2>6, <2>9, BuffReqFreeSound
  <2>. QED
    BY <1>0, <1>3, <2>10 DEF TxDoneEvent, UnicastCalls
<1>4. ASSUME NEW a \in Stations, NEW n \in 1 .. MaxPsTokens, GetFrames(a, n)
      PROVE  Sound(tx') /\ UnicastCalls'
  <2> DEFINE p == PeerGetId(tx, a)
             P == [tx.peers EXCEPT ![p].tokens = n]
             u == [tx EXCEPT !.peers = P, !.wakeup = Append(tx.wakeup, p)]
  <2>1. PICK up \in Reachable : tx' = ServeAll(u, up)
    BY <1>4 DEF GetFrames
  <2>2. P \in [SwPeers -> Peer]
    <3>1. tx.peers \in [SwPeers -> Peer] /\ n \in Nat
      BY <1>00, Fields, ConstantsOK DEF ConstantsOK
    <3>. HIDE DEF p
    <3>. QED BY <3>1, PeerField
  <2>3. Typed(u) /\ SameTokens(tx, u)
    <3>. HIDE DEF P, p
    <3>. QED BY <1>00, <2>2, UpdWakeup
  <2>. HIDE DEF u
  <2>. QED
    BY <1>0, <1>4, <2>1, <2>3, SameSound, ServeAllSound DEF GetFrames, UnicastCalls
<1>5. ASSUME NEW a \in Stations, WakeUp(a)
      PROVE  Sound(tx') /\ UnicastCalls'
  <2> DEFINE p == PeerGetId(tx, a)
             P == [tx.peers EXCEPT ![p].ps = FALSE]
             u == [tx EXCEPT !.peers = P, !.wakeup = Append(tx.wakeup, p)]
  <2>1. PICK up \in Reachable : tx' = ServeAll(u, up)
    BY <1>5 DEF WakeUp
  <2>2. P \in [SwPeers -> Peer]
    <3>1. tx.peers \in [SwPeers -> Peer]
      BY <1>00, Fields
    <3>. HIDE DEF p
    <3>. QED BY <3>1, PeerField
  <2>3. Typed(u) /\ SameTokens(tx, u)
    <3>. HIDE DEF P, p
    <3>. QED BY <1>00, <2>2, UpdWakeup
  <2>. HIDE DEF u
  <2>. QED
    BY <1>0, <1>5, <2>1, <2>3, SameSound, ServeAllSound DEF WakeUp, UnicastCalls
<1>6. ASSUME \/ \E a \in Stations : Doze(a) \/ PeerAdd(a) \/ PeerRemove(a)
             \/ PeersFlush
      PROVE  Sound(tx') /\ UnicastCalls'
  <2>1. xmit' = xmit
    BY <1>6 DEF Doze, PeerAdd, PeerRemove, PeersFlush
  <2>2. SameTokens(tx, tx')
    BY <1>00, <1>6 DEF Doze, PeerAdd, PeerRemove, PeersFlush, SameTokens, Typed, Config
  <2>. QED
    BY <1>0, <1>00, <2>1, <2>2, SameSound DEF UnicastCalls
<1>7. CASE UNCHANGED vars
  BY <1>0, <1>7 DEF vars, UnicastCalls
<1>. QED
  BY <1>1, <1>2, <1>3, <1>4, <1>5, <1>6, <1>7 DEF Next

(* The invariant implies the two properties of the tokens. *)
LEMMA TokenInvImplies == TokenInv => TokenAccounting /\ SpareNibbles
<1>. SUFFICES ASSUME TokenInv PROVE TokenAccounting /\ SpareNibbles
  OBVIOUS
<1>1. TokenAccounting
  BY DEF TokenInv, Sound, Counted, HeldBy, TokenAccounting, Holder
<1>2. ASSUME NEW d \in Spare
      PROVE  Cardinality(SpareNibble(tx, d)) = IF d \in tx.busy THEN 1 ELSE 0
  BY <1>2, FS_EmptySet, FS_Singleton DEF TokenInv, Sound, Marked
<1>. QED
  BY <1>1, <1>2 DEF SpareNibbles

(* Without group traffic the counters of outstanding tokens are exact, for *)
(* any number of peers, tokens, frames and categories in use, on a station *)
(* and on an access point, also when accesses to the RPU fail.             *)
THEOREM TokensAccounted ==
    ASSUME NoGroupTraffic
    PROVE  Spec => []TokenAccounting
<1>. QED
  BY InitSound, NextSound, TokenInvImplies, PTL DEF Spec

(* Without group traffic the four bits of a spare token in use name one    *)
(* category, and those of a free one are clear.                            *)
THEOREM NibblesName ==
    ASSUME NoGroupTraffic
    PROVE  Spec => []SpareNibbles
<1>. QED
  BY InitSound, NextSound, TokenInvImplies, PTL DEF Spec

-----------------------------------------------------------------------------
(* Frames: where they are, and what the handlers do to them.               *)

(* Frame f is the i-th in the queue of peer p and category q. *)
InQueue(s, f, p, q, i) == i \in DOMAIN s.pending[p][q] /\ s.pending[p][q][i] = f

(* It is the i-th on token d. *)
OnToken(s, f, d, i) == i \in DOMAIN s.pkt[d] /\ s.pkt[d][i] = f

Carries(s, f, d) == \E i \in Nat : OnToken(s, f, d, i)
Waits(s, f, q) == \E p \in SwPeers, i \in Nat : InQueue(s, f, p, q, i)
Has(s, f) == (\E d \in Tokens : Carries(s, f, d)) \/ (\E q \in Acs : Waits(s, f, q))

(* Every frame is in one place of the queues and tokens at most. *)
Once(s) ==
    \A f \in Frames :
        /\ \A p, r \in SwPeers, a, b \in Acs, i, j \in Nat :
              InQueue(s, f, p, a, i) /\ InQueue(s, f, r, b, j) =>
                  p = r /\ a = b /\ i = j
        /\ \A d, e \in Tokens, i, j \in Nat :
              OnToken(s, f, d, i) /\ OnToken(s, f, e, j) => d = e /\ i = j
        /\ \A p \in SwPeers, a \in Acs, d \in Tokens, i, j \in Nat :
              ~ (InQueue(s, f, p, a, i) /\ OnToken(s, f, d, j))

(* The frames of t are those of s, and the only ones that moved went from  *)
(* a queue of category c to token d.                                       *)
Loads(s, t, d, c) ==
    /\ \A f \in Frames :
        /\ \A e \in Tokens : Carries(s, f, e) => Carries(t, f, e)
        /\ \A e \in Tokens : Carries(t, f, e) =>
               Carries(s, f, e) \/ (e = d /\ Waits(s, f, c))
        /\ \A b \in Acs : Waits(t, f, b) => Waits(s, f, b)
        /\ \A b \in Acs : Waits(s, f, b) =>
               Waits(t, f, b) \/ (b = c /\ Carries(t, f, d))
    /\ \A p \in SwPeers, b \in Acs : HasPending(t, p, b) => HasPending(s, p, b)

(* t has the frames of s in the same places. *)
SameFrames(s, t) == t.pending = s.pending /\ t.pkt = s.pkt

(* t has the commands of s. *)
SameCommands(s, t) == t.mapped = s.mapped /\ t.coalesce = s.coalesce

(* t has the stations of s, and they doze as in s. *)
SameStations(s, t) ==
    \A p \in SwPeers : /\ t.peers[p].sta = s.peers[p].sta
                       /\ t.peers[p].ps = s.peers[p].ps

(* The RPU and the host know what they knew of the queues. *)
SameBitmaps(s, t) ==
    /\ t.rpu_bmp = s.rpu_bmp
    /\ \A p \in SwPeers : t.peers[p].bmp = s.peers[p].bmp

(* The host knows whether queue c of peer p of t is empty, and has told    *)
(* the RPU; it knows what it knew in s of the others.                      *)
Noted(s, t, p, c) ==
    LET b == IF HasPending(t, p, c) THEN s.peers[p].bmp \cup {c}
                                    ELSE s.peers[p].bmp \ {c}
    IN  IF ApVif /\ p \in Slots
        THEN /\ t.peers[p].bmp = b /\ t.rpu_bmp[p] = b
             /\ \A r \in Slots \ {p} : /\ t.peers[r].bmp = s.peers[r].bmp
                                       /\ t.rpu_bmp[r] = s.rpu_bmp[r]
        ELSE SameBitmaps(s, t)

(* The frames 1 .. n of the queue of peer p have moved to token d. *)
Moves(s, t, d, p, c, n) ==
    /\ p \in SwPeers
    /\ n \in 1 .. Len(s.pending[p][c])
    /\ t.pending = [s.pending EXCEPT ![p] =
                       [s.pending[p] EXCEPT ![c] =
                           SubSeq(s.pending[p][c], n + 1, Len(s.pending[p][c]))]]
    /\ t.pkt = [s.pkt EXCEPT ![d] = SubSeq(s.pending[p][c], 1, n)]

(* What n frames, all addressed alike and short enough, or one frame, are. *)
IsLoad(q) == Len(q) = 1 \/ (Len(q) > 0 /\ Aggregates(q, Len(q)))

-----------------------------------------------------------------------------

(* tx_curr_peer_opp_get moves no frame. *)
LEMMA PeerOppKeeps ==
    ASSUME NEW s, Typed(s), NEW ac \in Acs
    PROVE  LET t == PeerOpp(s, ac).tx
           IN  /\ SameFrames(s, t) /\ SameCommands(s, t)
               /\ SameStations(s, t) /\ SameBitmaps(s, t)
<1>1. CASE ac = MC
  BY <1>1 DEF PeerOpp, SameFrames, SameCommands, SameStations, SameBitmaps
<1>2. CASE ac # MC /\ \E p \in Slots : IsFirstAwake(s, p, ac)
  <2> DEFINE p == CHOOSE p \in Slots : IsFirstAwake(s, p, ac)
             t == [s EXCEPT !.peers[p].tokens = @ - 1]
  <2>1. p \in Slots
    BY <1>2
  <2>2. PeerOpp(s, ac).tx = t
    BY <1>2 DEF PeerOpp
  <2>. HIDE DEF p
  <2>3. \A r \in SwPeers : s.peers[r] \in Peer
    BY Fields
  <2> DEFINE n == s.peers[p].tokens - 1
  <2>4. /\ t.peers = [s.peers EXCEPT ![p].tokens = n]
        /\ t.pending = s.pending /\ t.pkt = s.pkt /\ t.rpu_bmp = s.rpu_bmp
        /\ t.mapped = s.mapped /\ t.coalesce = s.coalesce
    BY DEF Typed, Config
  <2>. HIDE DEF t, n
  <2>5. \A r \in SwPeers : /\ t.peers[r].sta = s.peers[r].sta
                           /\ t.peers[r].ps = s.peers[r].ps
                           /\ t.peers[r].bmp = s.peers[r].bmp
    <3>1. s.peers \in [SwPeers -> Peer] /\ p \in SwPeers
      BY <2>1, Fields, Sets
    <3>2. \A r \in SwPeers : t.peers[r] = IF r = p THEN [s.peers[p] EXCEPT !.tokens = n]
                                                   ELSE s.peers[r]
      BY <2>4, <3>1
    <3>. QED BY <2>3, <3>1, <3>2 DEF Peer
  <2>. QED
    BY <2>2, <2>4, <2>5 DEF SameFrames, SameCommands, SameStations, SameBitmaps
<1>3. CASE ac # MC /\ ~ (\E p \in Slots : IsFirstAwake(s, p, ac))
           /\ \E p \in Slots : IsNextInTurn(s, p, ac)
  <2> DEFINE p == CHOOSE p \in Slots : IsNextInTurn(s, p, ac)
             t == [s EXCEPT !.opp[ac] = TurnAfter(p)]
  <2>1. PeerOpp(s, ac).tx = t
    BY <1>3 DEF PeerOpp
  <2>. HIDE DEF p
  <2>2. /\ t.peers = s.peers
        /\ t.pending = s.pending /\ t.pkt = s.pkt /\ t.rpu_bmp = s.rpu_bmp
        /\ t.mapped = s.mapped /\ t.coalesce = s.coalesce
    BY DEF Typed, Config
  <2>. HIDE DEF t
  <2>. QED
    BY <2>1, <2>2 DEF SameFrames, SameCommands, SameStations, SameBitmaps
<1>4. CASE ac # MC /\ ~ (\E p \in Slots : IsFirstAwake(s, p, ac))
           /\ ~ (\E p \in Slots : IsNextInTurn(s, p, ac))
  BY <1>4 DEF PeerOpp, SameFrames, SameCommands, SameStations, SameBitmaps
<1>. QED
  BY <1>1, <1>2, <1>3, <1>4

(* update_pend_q_bmp moves no frame, and notes whether the queue is empty. *)
LEMMA UpdateBmpKeeps ==
    ASSUME NEW s, Typed(s), NEW ac \in Acs, NEW p \in SwPeers,
           p \in Slots => ac \in Unicast
    PROVE  LET t == UpdateBmp(s, ac, p, TRUE)
           IN  /\ SameFrames(s, t) /\ SameCommands(s, t) /\ SameStations(s, t)
               /\ Noted(s, t, p, ac)
<1> DEFINE t == UpdateBmp(s, ac, p, TRUE)
           b == IF HasPending(s, p, ac) THEN s.peers[p].bmp \cup {ac}
                                        ELSE s.peers[p].bmp \ {ac}
<1>1. CASE ~ (ApVif /\ p \in Slots)
  BY <1>1 DEF UpdateBmp, SameFrames, SameCommands, SameStations, SameBitmaps, Noted
<1>2. CASE ApVif /\ p \in Slots
  <2>1. t = [s EXCEPT !.peers[p].bmp = b, !.rpu_bmp[p] = b]
    BY <1>2 DEF UpdateBmp
  <2>. HIDE DEF b
  <2>2. /\ t.peers = [s.peers EXCEPT ![p].bmp = b]
        /\ t.rpu_bmp = [s.rpu_bmp EXCEPT ![p] = b]
        /\ t.pending = s.pending /\ t.pkt = s.pkt
        /\ t.mapped = s.mapped /\ t.coalesce = s.coalesce
    BY <2>1 DEF Typed, Config
  <2>. HIDE DEF t
  <2>3. \A r \in SwPeers : s.peers[r] \in Peer
    BY Fields
  <2>4. \A r \in SwPeers : /\ t.peers[r].sta = s.peers[r].sta
                           /\ t.peers[r].ps = s.peers[r].ps
                           /\ t.peers[r].bmp = IF r = p THEN b ELSE s.peers[r].bmp
    BY <2>2, <2>3, Fields DEF Peer
  <2>5. \A r \in Slots : t.rpu_bmp[r] = IF r = p THEN b ELSE s.rpu_bmp[r]
    BY <1>2, <2>2, Fields
  <2>6. HasPending(t, p, ac) <=> HasPending(s, p, ac)
    BY <2>2 DEF HasPending
  <2>7. SameFrames(s, t) /\ SameCommands(s, t) /\ SameStations(s, t)
    BY <2>2, <2>4 DEF SameFrames, SameCommands, SameStations
  <2>8. b = IF HasPending(t, p, ac) THEN s.peers[p].bmp \cup {ac}
                                    ELSE s.peers[p].bmp \ {ac}
    BY <2>6 DEF b
  <2>9. Noted(s, t, p, ac)
    BY <1>2, <2>4, <2>5, <2>8, Sets DEF Noted
  <2>. QED
    BY <2>7, <2>9 DEF t
<1>. QED
  BY <1>1, <1>2

(* A load has a frame. *)
LEMMA LoadNotEmpty ==
    ASSUME NEW q, IsLoad(q)
    PROVE  q # <<>>
<1>1. Len(<<>>) = 0
  BY EmptySeq
<1>2. Len(q) # 0
  BY DEF IsLoad
<1>. QED
  BY <1>1, <1>2

(* The frames that leave a queue together are a load. *)
LEMMA BatchIsLoad ==
    ASSUME NEW q \in Seq(Frames), q # <<>>, NEW legacy
    PROVE  LET n == BatchLen(q, legacy)
           IN  n \in 1 .. Len(q) /\ IsLoad(SubSeq(q, 1, n))
<1> DEFINE n == BatchLen(q, legacy)
<1>1. n \in 1 .. Len(q)
  BY BatchLenTyped
<1>2. n = 1 \/ Aggregates(q, n)
  BY DEF BatchLen, IsBatch
<1>. HIDE DEF n
<1>3. Len(q) \in Nat /\ DOMAIN q = 1 .. Len(q) /\ \A i \in 1 .. Len(q) : q[i] \in Frames
  BY LenProperties
<1> DEFINE l == SubSeq(q, 1, n)
<1>4. l \in Seq(Frames) /\ Len(l) = n /\ \A i \in 1 .. n : l[i] = q[i]
  <2>1. 1 \in Int /\ n \in Int /\ \A i \in 1 .. n : q[i] \in Frames
    BY <1>1, <1>3
  <2>2. /\ SubSeq(q, 1, n) \in Seq(Frames)
        /\ Len(SubSeq(q, 1, n)) = IF 1 <= n THEN n - 1 + 1 ELSE 0
        /\ \A i \in 1 .. n - 1 + 1 : SubSeq(q, 1, n)[i] = q[1 + i - 1]
    BY <2>1, SubSeqProperties
  <2>. QED BY <1>1, <2>2
<1>5. SubSeq(l, 1, n) = l
  <2>. HIDE DEF l
  <2>. QED BY <1>4, SubSeqFull
<1>6. CASE n = 1
  BY <1>1, <1>4, <1>6 DEF IsLoad, n
<1>7. CASE Aggregates(q, n)
  <2>1. AmpduLen(l, n) = AmpduLen(q, n)
    BY <1>5 DEF AmpduLen
  <2>. HIDE DEF l
  <2>2. Aggregates(l, n)
    BY <1>1, <1>4, <1>7, <2>1 DEF Aggregates
  <2>3. n > 0
    BY <1>1
  <2>4. IsLoad(l)
    BY <1>4, <2>2, <2>3 DEF IsLoad
  <2>. QED
    BY <1>1, <2>4 DEF n, l
<1>. QED
  BY <1>2, <1>6, <1>7

(* Where the frames that moved are, and where the others are. *)
LEMMA MovesPlaces ==
    ASSUME NEW s, Typed(s), NEW t, NEW d \in Tokens, NEW c \in Acs, NEW p \in SwPeers,
           NEW n, Moves(s, t, d, p, c, n), s.pkt[d] = <<>>
    PROVE  \A f \in Frames :
             /\ n \in Nat
             /\ \A r \in SwPeers, b \in Acs, i \in Nat :
                   (r # p \/ b # c) => (InQueue(t, f, r, b, i) <=> InQueue(s, f, r, b, i))
             /\ \A i \in Nat : InQueue(t, f, p, c, i) <=> i > 0 /\ InQueue(s, f, p, c, i + n)
             /\ \A e \in Tokens \ {d}, i \in Nat : OnToken(t, f, e, i) <=> OnToken(s, f, e, i)
             /\ \A i \in Nat : OnToken(t, f, d, i) <=> i <= n /\ InQueue(s, f, p, c, i)
             /\ \A i \in Nat : ~ OnToken(s, f, d, i)
<1> DEFINE q == s.pending[p][c]
           l == SubSeq(q, 1, n)
           k == SubSeq(q, n + 1, Len(q))
<1>1. /\ s.pending \in [SwPeers -> [Acs -> Seq(Frames)]]
      /\ s.pkt \in [Tokens -> Seq(Frames)]
  BY Fields
<1>2. q \in Seq(Frames)
  BY <1>1
<1>3. /\ n \in 1 .. Len(q)
      /\ t.pending = [s.pending EXCEPT ![p] = [s.pending[p] EXCEPT ![c] = k]]
      /\ t.pkt = [s.pkt EXCEPT ![d] = l]
  BY DEF Moves
<1>4. /\ t.pending[p][c] = k
      /\ \A r \in SwPeers, b \in Acs : (r # p \/ b # c) => t.pending[r][b] = s.pending[r][b]
      /\ t.pkt[d] = l
      /\ \A e \in Tokens \ {d} : t.pkt[e] = s.pkt[e]
  <2>. HIDE DEF k, l
  <2>. QED BY <1>1, <1>3
<1>. HIDE DEF q
<1>5. Len(q) \in Nat /\ DOMAIN q = 1 .. Len(q) /\ \A i \in 1 .. Len(q) : q[i] \in Frames
  BY <1>2, LenProperties
<1>6. n \in Int /\ n + 1 \in Int /\ 1 \in Int /\ Len(q) \in Int /\ 1 <= n /\ n <= Len(q)
  BY <1>3, <1>5
<1>7. DOMAIN l = 1 .. n /\ \A i \in 1 .. n : l[i] = q[i]
  <2>1. \A i \in 1 .. n : q[i] \in Frames
    BY <1>5, <1>6
  <2>2. /\ l \in Seq(Frames)
        /\ Len(l) = IF 1 <= n THEN n - 1 + 1 ELSE 0
        /\ \A i \in 1 .. n - 1 + 1 : l[i] = q[1 + i - 1]
    BY <1>6, <2>1, SubSeqProperties
  <2>3. DOMAIN l = 1 .. Len(l)
    BY <2>2, LenProperties
  <2>. HIDE DEF l
  <2>. QED BY <1>6, <2>2, <2>3
<1>8. DOMAIN k = 1 .. Len(q) - n /\ \A i \in 1 .. Len(q) - n : k[i] = q[i + n]
  <2>1. \A i \in n + 1 .. Len(q) : q[i] \in Frames
    BY <1>5, <1>6
  <2>2. /\ k \in Seq(Frames)
        /\ Len(k) = IF n + 1 <= Len(q) THEN Len(q) - (n + 1) + 1 ELSE 0
        /\ \A i \in 1 .. Len(q) - (n + 1) + 1 : k[i] = q[(n + 1) + i - 1]
    BY <1>6, <2>1, SubSeqProperties
  <2>3. DOMAIN k = 1 .. Len(k)
    BY <2>2, LenProperties
  <2>. HIDE DEF k
  <2>4. Len(k) = Len(q) - n
    BY <1>6, <2>2
  <2>5. \A i \in 1 .. Len(q) - n : i \in 1 .. Len(q) - (n + 1) + 1 /\ (n + 1) + i - 1 = i + n
    BY <1>6
  <2>. QED BY <2>2, <2>3, <2>4, <2>5
<1>. HIDE DEF l, k
<1>. TAKE f \in Frames
<1>9. \A r \in SwPeers, b \in Acs, i \in Nat :
        (r # p \/ b # c) => (InQueue(t, f, r, b, i) <=> InQueue(s, f, r, b, i))
  BY <1>4 DEF InQueue
<1>10. \A e \in Tokens \ {d}, i \in Nat : OnToken(t, f, e, i) <=> OnToken(s, f, e, i)
  BY <1>4 DEF OnToken
<1>11. ASSUME NEW i \in Nat
       PROVE  InQueue(t, f, p, c, i) <=> i > 0 /\ InQueue(s, f, p, c, i + n)
  <2>1. InQueue(t, f, p, c, i) <=> i \in 1 .. Len(q) - n /\ k[i] = f
    BY <1>4, <1>8 DEF InQueue
  <2>2. InQueue(s, f, p, c, i + n) <=> i + n \in 1 .. Len(q) /\ q[i + n] = f
    BY <1>5 DEF InQueue, q
  <2>3. i \in 1 .. Len(q) - n <=> i > 0 /\ i + n \in 1 .. Len(q)
    BY <1>6, <1>11
  <2>. QED BY <1>8, <2>1, <2>2, <2>3
<1>12. ASSUME NEW i \in Nat
       PROVE  OnToken(t, f, d, i) <=> i <= n /\ InQueue(s, f, p, c, i)
  <2>1. OnToken(t, f, d, i) <=> i \in 1 .. n /\ l[i] = f
    BY <1>4, <1>7 DEF OnToken
  <2>2. InQueue(s, f, p, c, i) <=> i \in 1 .. Len(q) /\ q[i] = f
    BY <1>5 DEF InQueue, q
  <2>3. i \in 1 .. n <=> i <= n /\ i \in 1 .. Len(q)
    BY <1>6, <1>12
  <2>. QED BY <1>7, <2>1, <2>2, <2>3
<1>13. \A i \in Nat : ~ OnToken(s, f, d, i)
  <2>1. DOMAIN s.pkt[d] = {}
    <3>1. DOMAIN <<>> = 1 .. Len(<<>>) /\ Len(<<>>) = 0
      BY LenProperties, EmptySeq
    <3>. QED BY <3>1
  <2>. QED BY <2>1 DEF OnToken
<1>14. n \in Nat
  BY <1>6
<1>. QED
  BY <1>9, <1>10, <1>11, <1>12, <1>13, <1>14

(* Such a move keeps every frame in one place, and loses none. *)
LEMMA MovesLoads ==
    ASSUME NEW s, Typed(s), NEW t, NEW d \in Tokens, NEW c \in Acs, NEW p \in SwPeers,
           NEW n, Moves(s, t, d, p, c, n), s.pkt[d] = <<>>, Once(s)
    PROVE  Once(t) /\ Loads(s, t, d, c)
<1> DEFINE Away(f, r, b, i) == IF r = p /\ b = c THEN InQueue(s, f, r, b, i + n)
                                                 ELSE InQueue(s, f, r, b, i)
<1>0. n \in Nat
  <2>1. s.pending[p][c] \in Seq(Frames)
    BY Fields
  <2>. QED BY <2>1, LenProperties DEF Moves
<1>00. \A f \in Frames :
             /\ n \in Nat
             /\ \A r \in SwPeers, b \in Acs, i \in Nat :
                   (r # p \/ b # c) => (InQueue(t, f, r, b, i) <=> InQueue(s, f, r, b, i))
             /\ \A i \in Nat : InQueue(t, f, p, c, i) <=> i > 0 /\ InQueue(s, f, p, c, i + n)
             /\ \A e \in Tokens \ {d}, i \in Nat : OnToken(t, f, e, i) <=> OnToken(s, f, e, i)
             /\ \A i \in Nat : OnToken(t, f, d, i) <=> i <= n /\ InQueue(s, f, p, c, i)
             /\ \A i \in Nat : ~ OnToken(s, f, d, i)
  BY MovesPlaces
<1>1. ASSUME NEW f \in Frames
      PROVE  /\ \A r \in SwPeers, b \in Acs, i \in Nat :
                   (r # p \/ b # c) => (InQueue(t, f, r, b, i) <=> InQueue(s, f, r, b, i))
             /\ \A i \in Nat : InQueue(t, f, p, c, i) <=> i > 0 /\ InQueue(s, f, p, c, i + n)
             /\ \A e \in Tokens \ {d}, i \in Nat : OnToken(t, f, e, i) <=> OnToken(s, f, e, i)
             /\ \A i \in Nat : OnToken(t, f, d, i) <=> i <= n /\ InQueue(s, f, p, c, i)
             /\ \A i \in Nat : ~ OnToken(s, f, d, i)
  BY <1>00, <1>1
<1>2. \A i \in Nat : i + n \in Nat
  BY <1>0
<1>3. ASSUME NEW f \in Frames,
             NEW r \in SwPeers, NEW u \in SwPeers, NEW a \in Acs, NEW b \in Acs,
             NEW i \in Nat, NEW j \in Nat,
             InQueue(t, f, r, a, i), InQueue(t, f, u, b, j)
      PROVE  r = u /\ a = b /\ i = j
  <2>1. Away(f, r, a, i) /\ Away(f, u, b, j)
    BY <1>1, <1>3
  <2>2. i + n = j + n => i = j
    BY <1>0
  <2>3. ~ (i + n \in Nat /\ FALSE)
    OBVIOUS
  <2>4. CASE r = p /\ a = c /\ u = p /\ b = c
    BY <1>2, <2>1, <2>2, <2>4 DEF Once
  <2>5. CASE ~ (r = p /\ a = c /\ u = p /\ b = c)
    BY <1>2, <2>1, <2>5 DEF Once
  <2>. QED BY <2>4, <2>5
<1>4. ASSUME NEW f \in Frames, NEW e \in Tokens, NEW g \in Tokens,
             NEW i \in Nat, NEW j \in Nat, OnToken(t, f, e, i), OnToken(t, f, g, j)
      PROVE  e = g /\ i = j
  <2>1. CASE e = d /\ g = d
    BY <1>1, <1>4, <2>1 DEF Once
  <2>2. CASE e # d /\ g # d
    BY <1>1, <1>4, <2>2 DEF Once
  <2>3. CASE e = d /\ g # d
    BY <1>1, <1>4, <2>3 DEF Once
  <2>4. CASE e # d /\ g = d
    BY <1>1, <1>4, <2>4 DEF Once
  <2>. QED BY <2>1, <2>2, <2>3, <2>4
<1>5. ASSUME NEW f \in Frames, NEW r \in SwPeers, NEW a \in Acs, NEW e \in Tokens,
             NEW i \in Nat, NEW j \in Nat, InQueue(t, f, r, a, i), OnToken(t, f, e, j)
      PROVE  FALSE
  <2>1. Away(f, r, a, i)
    BY <1>1, <1>5
  <2>2. CASE e # d
    BY <1>1, <1>2, <1>5, <2>1, <2>2 DEF Once
  <2>3. CASE e = d
    <3>1. j <= n /\ InQueue(s, f, p, c, j)
      BY <1>1, <1>5, <2>3
    <3>2. CASE r = p /\ a = c
      <4>1. i > 0 /\ InQueue(s, f, p, c, i + n)
        BY <1>1, <1>5, <3>2
      <4>2. i + n = j
        BY <1>2, <3>1, <4>1 DEF Once
      <4>. QED BY <1>0, <3>1, <4>1, <4>2
    <3>3. CASE ~ (r = p /\ a = c)
      BY <2>1, <3>1, <3>3 DEF Once
    <3>. QED BY <3>2, <3>3
  <2>. QED BY <2>2, <2>3
<1>6. Once(t)
  BY <1>3, <1>4, <1>5 DEF Once
<1>7. ASSUME NEW f \in Frames
      PROVE  /\ \A e \in Tokens : Carries(s, f, e) => Carries(t, f, e)
             /\ \A e \in Tokens : Carries(t, f, e) =>
                    Carries(s, f, e) \/ (e = d /\ Waits(s, f, c))
  BY <1>1 DEF Carries, Waits
<1>8. ASSUME NEW f \in Frames, NEW b \in Acs, Waits(t, f, b)
      PROVE  Waits(s, f, b)
  <2>1. PICK r \in SwPeers, i \in Nat : InQueue(t, f, r, b, i)
    BY <1>8 DEF Waits
  <2>2. Away(f, r, b, i)
    BY <1>1, <2>1
  <2>. QED BY <1>2, <2>2 DEF Waits
<1>9. ASSUME NEW f \in Frames, NEW b \in Acs, Waits(s, f, b)
      PROVE  Waits(t, f, b) \/ (b = c /\ Carries(t, f, d))
  <2>1. PICK r \in SwPeers, i \in Nat : InQueue(s, f, r, b, i)
    BY <1>9 DEF Waits
  <2>2. CASE r # p \/ b # c
    BY <1>1, <2>1, <2>2 DEF Waits
  <2>3. CASE r = p /\ b = c /\ i <= n
    BY <1>1, <2>1, <2>3 DEF Carries
  <2>4. CASE r = p /\ b = c /\ ~ (i <= n)
    <3>1. i - n \in Nat /\ i - n > 0 /\ (i - n) + n = i
      BY <1>0, <2>4
    <3>2. InQueue(t, f, p, c, i - n)
      BY <1>1, <2>1, <2>4, <3>1
    <3>. QED BY <2>4, <3>1, <3>2 DEF Waits
  <2>. QED BY <2>2, <2>3, <2>4
<1>10. ASSUME NEW r \in SwPeers, NEW b \in Acs, HasPending(t, r, b)
       PROVE  HasPending(s, r, b)
  <2>1. CASE r = p /\ b = c
    <3>1. Len(s.pending[p][c]) > 0
      <4>1. s.pending[p][c] \in Seq(Frames)
        BY Fields
      <4>2. Len(s.pending[p][c]) \in Nat
        BY <4>1, LenProperties
      <4>. QED BY <4>2 DEF Moves
    <3>2. Len(<<>>) = 0
      BY EmptySeq
    <3>3. s.pending[p][c] # <<>>
      BY <3>1, <3>2
    <3>. QED BY <2>1, <3>3 DEF HasPending
  <2>2. CASE r # p \/ b # c
    <3>1. s.pending \in [SwPeers -> [Acs -> Seq(Frames)]]
      BY Fields
    <3> DEFINE h == SubSeq(s.pending[p][c], n + 1, Len(s.pending[p][c]))
    <3>2. t.pending = [s.pending EXCEPT ![p] = [s.pending[p] EXCEPT ![c] = h]]
      BY DEF Moves
    <3>. HIDE DEF h
    <3>3. t.pending[r][b] = s.pending[r][b]
      BY <2>2, <3>1, <3>2
    <3>. QED BY <1>10, <3>3 DEF HasPending
  <2>. QED BY <2>1, <2>2
<1>. QED
  BY <1>6, <1>7, <1>8, <1>9, <1>10 DEF Loads

(* t, with the frames of s in the same places, has them once as well. *)
LEMMA SameLoads ==
    ASSUME NEW s, NEW t, NEW u, SameFrames(t, u)
    PROVE  /\ Once(t) => Once(u)
           /\ \A d, c : Loads(s, t, d, c) => Loads(s, u, d, c)
           /\ \A d, c : Loads(t, s, d, c) => Loads(u, s, d, c)
           /\ \A f : Has(t, f) <=> Has(u, f)
<1>1. /\ \A f, p, q, i : InQueue(t, f, p, q, i) <=> InQueue(u, f, p, q, i)
      /\ \A f, d, i : OnToken(t, f, d, i) <=> OnToken(u, f, d, i)
  BY DEF SameFrames, InQueue, OnToken
<1>2. /\ \A f, d : Carries(t, f, d) <=> Carries(u, f, d)
      /\ \A f, q : Waits(t, f, q) <=> Waits(u, f, q)
      /\ \A p, q : HasPending(t, p, q) <=> HasPending(u, p, q)
  BY <1>1 DEF Carries, Waits, HasPending, SameFrames
<1>3. Once(t) => Once(u)
  BY <1>1 DEF Once
<1>4. \A d, c : Loads(s, t, d, c) => Loads(s, u, d, c)
  BY <1>2 DEF Loads
<1>5. \A d, c : Loads(t, s, d, c) => Loads(u, s, d, c)
  BY <1>2 DEF Loads
<1>6. \A f : Has(t, f) <=> Has(u, f)
  BY <1>2 DEF Has
<1>. QED
  BY <1>3, <1>4, <1>5, <1>6

(* No frame comes or goes. *)
LEMMA LoadsHas ==
    ASSUME NEW s, NEW t, NEW d \in Tokens, NEW c \in Acs, Loads(s, t, d, c)
    PROVE  \A f \in Frames : Has(s, f) <=> Has(t, f)
BY DEF Loads, Has

-----------------------------------------------------------------------------

(* Token d is at the RPU with a load whose frames are mapped and counted. *)
Loaded(s, d) ==
    /\ d \in s.in_rpu
    /\ IsLoad(s.pkt[d])
    /\ s.mapped[d] = Len(s.pkt[d])
    /\ s.coalesce[d] = Len(s.pkt[d])

Blank(s, d) == d \notin s.in_rpu /\ s.pkt[d] = <<>> /\ s.mapped[d] = 0

Fits(s, d) == IF d \in s.busy THEN Loaded(s, d) ELSE Blank(s, d)
AllFit(s) == \A d \in Tokens : Fits(s, d)

(* Token d has been taken from the pool, or has come back, and is empty. *)
Taken(s, d) == /\ d \in s.busy /\ Blank(s, d)
               /\ \A e \in Tokens \ {d} : Fits(s, e)

(* It has been given a load. *)
Filled(s, d) == /\ d \in s.busy /\ d \notin s.in_rpu
                /\ IsLoad(s.pkt[d]) /\ s.mapped[d] = 0
                /\ \A e \in Tokens \ {d} : Fits(s, e)

(* The RPU, and the host, know which queues of the stations are not empty. *)
Exact(s) ==
    ApVif => \A p \in Slots :
        /\ s.peers[p].bmp = {q \in Unicast : HasPending(s, p, q)}
        /\ s.rpu_bmp[p] = {q \in Unicast : HasPending(s, p, q)}

(* Only queue c of peer p has changed, and it has been noted. *)
LEMMA NotedExact ==
    ASSUME NEW s, NEW t, NEW p \in SwPeers, NEW c \in Acs, Exact(s), Noted(s, t, p, c),
           p \in Slots => c \in Unicast,
           \A r \in SwPeers, b \in Acs :
              (r # p \/ b # c) => t.pending[r][b] = s.pending[r][b]
    PROVE  Exact(t)
<1>. SUFFICES ASSUME ApVif, NEW r \in Slots
              PROVE  /\ t.peers[r].bmp = {q \in Unicast : HasPending(t, r, q)}
                     /\ t.rpu_bmp[r] = {q \in Unicast : HasPending(t, r, q)}
  BY DEF Exact
<1>1. r \in SwPeers /\ Unicast \subseteq Acs
  BY Sets
<1>2. /\ s.peers[r].bmp = {q \in Unicast : HasPending(s, r, q)}
      /\ s.rpu_bmp[r] = {q \in Unicast : HasPending(s, r, q)}
  BY DEF Exact
<1>3. \A q \in Unicast : (r # p \/ q # c) => (HasPending(t, r, q) <=> HasPending(s, r, q))
  BY <1>1 DEF HasPending
<1>4. CASE r = p
  <2> DEFINE b == IF HasPending(t, p, c) THEN s.peers[p].bmp \cup {c}
                                         ELSE s.peers[p].bmp \ {c}
  <2>1. t.peers[r].bmp = b /\ t.rpu_bmp[r] = b
    BY <1>4 DEF Noted
  <2>2. b = {q \in Unicast : HasPending(t, r, q)}
    BY <1>2, <1>3, <1>4
  <2>. QED BY <2>1, <2>2
<1>5. CASE r # p
  <2>1. t.peers[r].bmp = s.peers[r].bmp /\ t.rpu_bmp[r] = s.rpu_bmp[r]
    BY <1>1, <1>5 DEF Noted, SameBitmaps
  <2>2. {q \in Unicast : HasPending(t, r, q)} = {q \in Unicast : HasPending(s, r, q)}
    BY <1>3, <1>5
  <2>. QED BY <1>2, <2>1, <2>2
<1>. QED BY <1>4, <1>5

(* So is a state with the same queues and maps. *)
LEMMA SameExact ==
    ASSUME NEW s, NEW t, Exact(s), SameBitmaps(s, t), t.pending = s.pending
    PROVE  Exact(t)
<1>1. \A r \in Slots : r \in SwPeers
  BY Sets
<1>. QED
  BY <1>1 DEF Exact, SameBitmaps, HasPending

(* Whether _tx_pending_process finds a frame decides between its two       *)
(* outcomes.                                                               *)
LEMMA PendingProcessMoves ==
    ASSUME NEW s, Typed(s), NEW d \in Tokens, NEW ac \in Acs
    PROVE  LET t == PendingProcess(s, d, ac, TRUE)
           IN  /\ ~ Serviceable(s, ac) => t = s
               /\ Serviceable(s, ac) =>
                     \E p \in SwPeers : \E n \in Nat :
                        /\ Moves(s, t, d, p, ac, n)
                        /\ IsLoad(t.pkt[d])
                        /\ p \in Slots => ac \in Unicast
                        /\ SameCommands(s, t) /\ SameStations(s, t)
                        /\ Noted(s, t, p, ac)
<1> DEFINE o == PeerOpp(s, ac)
           t == o.tx
           p == o.peer
           q == s.pending[p][ac]
           n == BatchLen(q, IsLegacy(s, p))
           end == PendingProcess(s, d, ac, TRUE)
<1>1. CASE ~ Serviceable(s, ac)
  BY <1>1 DEF PendingProcess, Serviceable
<1>2. CASE Serviceable(s, ac)
  <2>0. p # None /\ HasPending(s, p, ac)
    BY <1>2 DEF Serviceable
  <2>1. /\ Typed(t) /\ p \in SwPeers
        /\ SameFrames(s, t) /\ SameCommands(s, t)
        /\ SameStations(s, t) /\ SameBitmaps(s, t)
    BY <2>0, PeerOppTyped, PeerOppKeeps
  <2>2. p \in Slots => ac \in Unicast
    BY Sets DEF PeerOpp
  <2>3. end =
          UpdateBmp([t EXCEPT !.pending[p][ac] = SubSeq(q, n + 1, Len(q)),
                              !.pkt[d] = SubSeq(q, 1, n),
                              !.pkt_peer[d] = p], ac, p, TRUE)
    BY <2>0 DEF PendingProcess
  <2>. HIDE DEF o, t, p, end
  <2>4. q \in Seq(Frames) /\ q # <<>>
    BY <2>0, <2>1, Fields DEF HasPending
  <2>5. n \in 1 .. Len(q) /\ IsLoad(SubSeq(q, 1, n))
    BY <2>4, BatchIsLoad
  <2>. HIDE DEF n
  <2>6. Len(q) \in Nat /\ n \in Nat /\ n <= Len(q)
    BY <2>4, <2>5, LenProperties
  <2>7. SubSeq(q, n + 1, Len(q)) \in Seq(Frames) /\ SubSeq(q, 1, n) \in Seq(Frames)
    <3>. HIDE DEF q
    <3>. QED BY <2>4, <2>6, SubSeqProperties
  <2> DEFINE l == SubSeq(q, 1, n)
             h == SubSeq(q, n + 1, Len(q))
             a == [t.pending EXCEPT ![p][ac] = h]
             k == [t.pkt EXCEPT ![d] = l]
             r == [t.pkt_peer EXCEPT ![d] = p]
  <2>8. a \in [SwPeers -> [Acs -> Seq(Frames)]]
    BY <2>1, <2>7, Fields
  <2>9. k \in [Tokens -> Seq(Frames)] /\ r \in [Tokens -> SwPeers] /\ k[d] = l
    <3>1. t.pkt \in [Tokens -> Seq(Frames)] /\ t.pkt_peer \in [Tokens -> SwPeers]
      BY <2>1, Fields
    <3>2. l \in Seq(Frames)
      BY <2>7
    <3>. HIDE DEF l
    <3>. QED BY <2>1, <3>1, <3>2
  <2> DEFINE u == [t EXCEPT !.pending = a, !.pkt = k, !.pkt_peer = r]
  <2>10. end = UpdateBmp(u, ac, p, TRUE)
    BY <2>3
  <2>11. /\ a = [s.pending EXCEPT ![p] = [s.pending[p] EXCEPT ![ac] = h]]
         /\ k = [s.pkt EXCEPT ![d] = l]
    <3>1. t.pending = s.pending /\ t.pkt = s.pkt
      BY <2>1 DEF SameFrames
    <3>. HIDE DEF h, l
    <3>. QED BY <3>1
  <2>. HIDE DEF a, k, r
  <2>12. /\ Typed(u) /\ u.pending = a /\ u.pkt = k
         /\ u.peers = t.peers /\ u.rpu_bmp = t.rpu_bmp
         /\ u.mapped = t.mapped /\ u.coalesce = t.coalesce
    <3>1. Typed(u)
      BY <2>1, <2>8, <2>9, UpdBatch
    <3>. QED
      BY <2>1, <3>1 DEF Typed, Config
  <2>. HIDE DEF u
  <2>13. /\ SameFrames(u, end) /\ SameCommands(u, end) /\ SameStations(u, end)
         /\ Noted(u, end, p, ac)
    BY <2>1, <2>2, <2>10, <2>12, UpdateBmpKeeps
  <2>14. Moves(s, end, d, p, ac, n)
    BY <2>1, <2>5, <2>11, <2>12, <2>13 DEF Moves, SameFrames, l, h, q
  <2>15. SameCommands(s, end) /\ SameStations(s, end)
    BY <2>1, <2>12, <2>13 DEF SameCommands, SameStations
  <2>16. IsLoad(end.pkt[d])
    BY <2>5, <2>9, <2>12, <2>13 DEF SameFrames
  <2>17. Noted(s, end, p, ac)
    <3>1. /\ \A x \in SwPeers : u.peers[x].bmp = s.peers[x].bmp
          /\ u.rpu_bmp = s.rpu_bmp
      BY <2>1, <2>12 DEF SameBitmaps
    <3>2. \A x \in Slots : x \in SwPeers
      BY Sets
    <3>3. CASE ApVif /\ p \in Slots
      <4>1. u.peers[p].bmp = s.peers[p].bmp
        BY <2>1, <3>1
      <4>2. /\ end.peers[p].bmp = IF HasPending(end, p, ac) THEN s.peers[p].bmp \cup {ac}
                                                            ELSE s.peers[p].bmp \ {ac}
            /\ end.rpu_bmp[p] = end.peers[p].bmp
        BY <2>13, <3>3, <4>1 DEF Noted
      <4>3. \A x \in Slots \ {p} : /\ end.peers[x].bmp = s.peers[x].bmp
                                   /\ end.rpu_bmp[x] = s.rpu_bmp[x]
        BY <2>13, <3>1, <3>2, <3>3 DEF Noted
      <4>. QED BY <3>3, <4>2, <4>3 DEF Noted
    <3>4. CASE ~ (ApVif /\ p \in Slots)
      BY <2>13, <3>1, <3>4 DEF Noted, SameBitmaps
    <3>. QED BY <3>3, <3>4
  <2>. QED
    BY <1>2, <2>1, <2>2, <2>6, <2>14, <2>15, <2>16, <2>17 DEF end
<1>. QED
  BY <1>1, <1>2

(* _tx_pending_process fills a token that is empty. *)
LEMMA PendingFits ==
    ASSUME NEW s, Typed(s), NEW d \in Tokens, NEW ac \in Acs, Taken(s, d), Once(s),
           Serviceable(s, ac)
    PROVE  LET t == PendingProcess(s, d, ac, TRUE)
           IN  /\ Typed(t) /\ SameTokens(s, t) /\ Filled(t, d)
               /\ Once(t) /\ Loads(s, t, d, ac) /\ SameStations(s, t)
               /\ Exact(s) => Exact(t)
<1> DEFINE t == PendingProcess(s, d, ac, TRUE)
<1>1. Typed(t) /\ SameTokens(s, t)
  BY PendingProcessTyped
<1>2. PICK p \in SwPeers : \E n \in Nat :
        /\ Moves(s, t, d, p, ac, n)
        /\ IsLoad(t.pkt[d])
        /\ p \in Slots => ac \in Unicast
        /\ SameCommands(s, t) /\ SameStations(s, t)
        /\ Noted(s, t, p, ac)
  BY PendingProcessMoves
<1>3. PICK n \in Nat :
        /\ Moves(s, t, d, p, ac, n)
        /\ IsLoad(t.pkt[d])
        /\ p \in Slots => ac \in Unicast
        /\ SameCommands(s, t) /\ SameStations(s, t)
        /\ Noted(s, t, p, ac)
  BY <1>2
<1>. HIDE DEF t
<1>4. Once(t) /\ Loads(s, t, d, ac)
  BY <1>3, MovesLoads DEF Taken, Blank
<1>5. \A e \in Tokens \ {d} : t.pkt[e] = s.pkt[e]
  <2>1. s.pkt \in [Tokens -> Seq(Frames)]
    BY Fields
  <2>. QED BY <1>3, <2>1 DEF Moves
<1>6. \A e \in Tokens \ {d} : Fits(t, e)
  BY <1>1, <1>3, <1>5 DEF Taken, Fits, Loaded, Blank, SameTokens, SameCommands
<1>7. Filled(t, d)
  BY <1>1, <1>3, <1>6 DEF Taken, Blank, Filled, SameTokens, SameCommands
<1>8. \A r \in SwPeers, b \in Acs :
         (r # p \/ b # ac) => t.pending[r][b] = s.pending[r][b]
  <2>1. s.pending \in [SwPeers -> [Acs -> Seq(Frames)]]
    BY Fields
  <2> DEFINE h == SubSeq(s.pending[p][ac], n + 1, Len(s.pending[p][ac]))
  <2>2. t.pending = [s.pending EXCEPT ![p] = [s.pending[p] EXCEPT ![ac] = h]]
    BY <1>3 DEF Moves
  <2>. HIDE DEF h
  <2>. QED BY <2>1, <2>2
<1>9. Exact(s) => Exact(t)
  BY <1>3, <1>8, NotedExact
<1>. QED
  BY <1>1, <1>3, <1>4, <1>7, <1>9 DEF t

(* tx_cmd_init hands a filled token to the RPU. *)
LEMMA CmdInitFits ==
    ASSUME NEW s, Typed(s), NEW d \in Tokens, Filled(s, d)
    PROVE  LET t == CmdInit(s, d, TRUE)
           IN  /\ Typed(t) /\ AllFit(t)
               /\ t.busy = s.busy /\ t.in_rpu = s.in_rpu \cup {d}
               /\ t.outstanding = s.outstanding /\ t.spare_map = s.spare_map
               /\ SameFrames(s, t) /\ SameStations(s, t) /\ SameBitmaps(s, t)
<1> DEFINE t == CmdInit(s, d, TRUE)
           l == Len(s.pkt[d])
           w == IF s.peers[s.pkt_peer[d]].tokens = 0
                THEN Remove(s.wakeup, s.pkt_peer[d]) ELSE s.wakeup
<1>1. Typed(t)
  BY CmdInitTyped
<1>2. t = [s EXCEPT !.coalesce[d] = l, !.mapped[d] = l, !.wakeup = w,
                    !.in_rpu = @ \cup {d}]
  BY DEF CmdInit, Filled
<1>. HIDE DEF l, w
<1>3. /\ t.coalesce = [s.coalesce EXCEPT ![d] = l]
      /\ t.mapped = [s.mapped EXCEPT ![d] = l]
      /\ t.in_rpu = s.in_rpu \cup {d}
      /\ t.busy = s.busy /\ t.outstanding = s.outstanding /\ t.spare_map = s.spare_map
      /\ t.pending = s.pending /\ t.pkt = s.pkt
      /\ t.peers = s.peers /\ t.rpu_bmp = s.rpu_bmp
  BY <1>2 DEF Typed, Config
<1>. HIDE DEF t
<1>4. s.coalesce \in [Tokens -> Nat] /\ s.mapped \in [Tokens -> Nat]
  BY Fields
<1>5. t.coalesce[d] = l /\ t.mapped[d] = l
  BY <1>3, <1>4
<1>6. \A e \in Tokens \ {d} : t.coalesce[e] = s.coalesce[e] /\ t.mapped[e] = s.mapped[e]
  BY <1>3, <1>4
<1>7. \A e \in Tokens \ {d} : Fits(t, e)
  BY <1>3, <1>6 DEF Filled, Fits, Loaded, Blank
<1>8. Fits(t, d)
  BY <1>3, <1>5 DEF Filled, Fits, Loaded, l
<1>. QED
  BY <1>1, <1>3, <1>7, <1>8 DEF AllFit, SameFrames, SameStations, SameBitmaps, t

(* The bookkeeping of the tokens moves no frame. *)
LEMMA DescTakeKeeps ==
    ASSUME NEW s, Typed(s), NEW d \in Tokens, NEW q \in Acs
    PROVE  LET t == DescTake(s, q, d)
           IN  /\ SameFrames(s, t) /\ SameCommands(s, t) /\ SameStations(s, t)
               /\ SameBitmaps(s, t)
               /\ t.in_rpu = s.in_rpu /\ t.busy = s.busy \cup {d}
               /\ t.peers = s.peers
BY DEF DescTake, Typed, Config, SameFrames, SameCommands, SameStations, SameBitmaps

LEMMA DescFreeKeeps ==
    ASSUME NEW s, Typed(s), NEW d \in s.busy, NEW q \in Acs
    PROVE  LET t == DescFree(s, d, q)
           IN  /\ SameFrames(s, t) /\ SameCommands(s, t) /\ SameStations(s, t)
               /\ SameBitmaps(s, t)
               /\ t.in_rpu = s.in_rpu /\ t.busy = s.busy \ {d}
BY DEF DescFree, Typed, Config, SameFrames, SameCommands, SameStations, SameBitmaps

LEMMA ReassignKeeps ==
    ASSUME NEW s, Typed(s), NEW d, NEW from \in Acs, NEW to \in Acs
    PROVE  LET t == Reassign(s, d, from, to)
           IN  /\ SameFrames(s, t) /\ SameCommands(s, t) /\ SameStations(s, t)
               /\ SameBitmaps(s, t)
               /\ t.in_rpu = s.in_rpu /\ t.busy = s.busy
BY DEF Reassign, Typed, Config, SameFrames, SameCommands, SameStations, SameBitmaps

(* A token that has been taken, and is freed again. *)
LEMMA FreeFits ==
    ASSUME NEW s, Typed(s), NEW d \in Tokens, NEW q \in Acs, Taken(s, d)
    PROVE  LET t == DescFree(s, d, q)
           IN  /\ Typed(t) /\ AllFit(t)
               /\ SameFrames(s, t) /\ SameStations(s, t) /\ SameBitmaps(s, t)
               /\ t.in_rpu = s.in_rpu /\ t.busy = s.busy \ {d}
<1> DEFINE t == DescFree(s, d, q)
<1>1. Typed(t)
  BY DescFreeTyped
<1>2. /\ SameFrames(s, t) /\ SameCommands(s, t) /\ SameStations(s, t)
      /\ SameBitmaps(s, t)
      /\ t.in_rpu = s.in_rpu /\ t.busy = s.busy \ {d}
  BY DescFreeKeeps DEF Taken
<1>. HIDE DEF t
<1>3. AllFit(t)
  BY <1>2 DEF Taken, AllFit, Fits, Loaded, Blank, SameFrames, SameCommands
<1>. QED
  BY <1>1, <1>2, <1>3 DEF t

(* A frame stays where it is when nothing is loaded. *)
LEMMA LoadsNothing ==
    ASSUME NEW s, NEW t, NEW d, NEW c, SameFrames(s, t)
    PROVE  Loads(s, t, d, c)
<1>1. Loads(s, s, d, c)
  BY DEF Loads
<1>. QED
  BY <1>1, SameLoads

(* tx_pending_process sends the next batch with a token that was taken. *)
LEMMA FillTokenFits ==
    ASSUME NEW s, Typed(s), NEW d \in Tokens, NEW ac \in Acs, Taken(s, d), Once(s)
    PROVE  LET t == FillToken(s, d, ac, TRUE)
           IN  /\ Typed(t) /\ AllFit(t) /\ Once(t) /\ Loads(s, t, d, ac)
               /\ SameStations(s, t)
               /\ Exact(s) => Exact(t)
               /\ FillStatus(s, d, ac, TRUE) = "success"
               /\ IF Serviceable(s, ac)
                  THEN t.in_rpu = s.in_rpu \cup {d} /\ t.busy = s.busy
                  ELSE /\ t.in_rpu = s.in_rpu /\ t.busy = s.busy \ {d}
                       /\ SameFrames(s, t)
<1> DEFINE u == PendingProcess(s, d, ac, TRUE)
           t == FillToken(s, d, ac, TRUE)
<1>1. t = IF u.pkt[d] # <<>> THEN CmdInit(u, d, TRUE) ELSE DescFree(u, d, ac)
  BY DEF FillToken
<1>2. FillStatus(s, d, ac, TRUE) =
         IF u.pkt[d] # <<>> /\ ~ CmdSent(u, d, TRUE) THEN "fail" ELSE "success"
  BY DEF FillStatus
<1>3. CASE Serviceable(s, ac)
  <2>1. /\ Typed(u) /\ SameTokens(s, u) /\ Filled(u, d)
        /\ Once(u) /\ Loads(s, u, d, ac) /\ SameStations(s, u)
        /\ Exact(s) => Exact(u)
    BY <1>3, PendingFits
  <2>. HIDE DEF u
  <2>2. u.pkt[d] # <<>>
    BY <2>1, LoadNotEmpty DEF Filled
  <2>3. t = CmdInit(u, d, TRUE)
    BY <1>1, <2>2
  <2>4. FillStatus(s, d, ac, TRUE) = "success"
    BY <1>2, <2>1 DEF CmdSent, Filled
  <2>. HIDE DEF t
  <2>5. /\ Typed(t) /\ AllFit(t)
        /\ t.busy = u.busy /\ t.in_rpu = u.in_rpu \cup {d}
        /\ SameFrames(u, t) /\ SameStations(u, t) /\ SameBitmaps(u, t)
    BY <2>1, <2>3, CmdInitFits
  <2>6. Once(t) /\ Loads(s, t, d, ac)
    BY <2>1, <2>5, SameLoads
  <2>7. SameStations(s, t)
    BY <2>1, <2>5 DEF SameStations
  <2>8. Exact(s) => Exact(t)
    BY <2>1, <2>5, SameExact DEF SameFrames
  <2>9. t.in_rpu = s.in_rpu \cup {d} /\ t.busy = s.busy
    BY <2>1, <2>5 DEF SameTokens
  <2>. QED
    BY <1>3, <2>4, <2>5, <2>6, <2>7, <2>8, <2>9 DEF t
<1>4. CASE ~ Serviceable(s, ac)
  <2>1. u = s
    BY <1>4, PendingProcessMoves
  <2>. HIDE DEF u
  <2>2. t = DescFree(s, d, ac)
    BY <1>1, <2>1 DEF Taken, Blank
  <2>3. FillStatus(s, d, ac, TRUE) = "success"
    BY <1>2, <2>1 DEF Taken, Blank
  <2>. HIDE DEF t
  <2>4. /\ Typed(t) /\ AllFit(t)
        /\ SameFrames(s, t) /\ SameStations(s, t) /\ SameBitmaps(s, t)
        /\ t.in_rpu = s.in_rpu /\ t.busy = s.busy \ {d}
    BY <2>2, FreeFits
  <2>5. Once(t) /\ Loads(s, t, d, ac)
    BY <2>4, SameLoads, LoadsNothing
  <2>6. Exact(s) => Exact(t)
    BY <2>4, SameExact DEF SameFrames
  <2>. QED
    BY <1>4, <2>3, <2>4, <2>5, <2>6 DEF t
<1>. QED
  BY <1>3, <1>4

-----------------------------------------------------------------------------

(* The frames of t are those of s and f, which waits in a queue of         *)
(* category c.                                                             *)
Enters(s, t, f, c) ==
    \A g \in Frames :
        /\ \A e \in Tokens : Carries(t, g, e) <=> Carries(s, g, e)
        /\ \A b \in Acs : Waits(t, g, b) <=> Waits(s, g, b) \/ (g = f /\ b = c)

(* The queue k is q with f as its frame x, and those after it moved by m. *)
Grows(q, k, f, m, x) ==
    \A g \in Frames, i \in Nat :
       /\ (i \in DOMAIN k /\ k[i] = g) <=>
              \/ i = x /\ g = f
              \/ i # x /\ i - m \in DOMAIN q /\ q[i - m] = g
       /\ i \in DOMAIN q => i + m # x

(* A frame put at one end of a queue moves the others of the queue alike. *)
LEMMA QueueGrows ==
    ASSUME NEW q \in Seq(Frames), NEW f \in Frames, NEW k,
           k = Append(q, f) \/ k = <<f>> \o q
    PROVE  /\ k \in Seq(Frames)
           /\ \E m \in {0, 1} : \E x \in 1 .. Len(q) + 1 : Grows(q, k, f, m, x)
<1>1. Len(q) \in Nat /\ DOMAIN q = 1 .. Len(q) /\ \A i \in 1 .. Len(q) : q[i] \in Frames
  BY LenProperties
<1>2. CASE k = Append(q, f)
  <2>1. k \in Seq(Frames) /\ Len(k) = Len(q) + 1
        /\ \A i \in 1 .. Len(q) + 1 : k[i] = IF i = Len(q) + 1 THEN f ELSE q[i]
    BY <1>1, <1>2
  <2>2. DOMAIN k = 1 .. Len(q) + 1
    BY <2>1, LenProperties
  <2> DEFINE n == Len(q)
  <2>. HIDE DEF n
  <2>3. \A g \in Frames, i \in Nat :
           (i \in DOMAIN k /\ k[i] = g) <=>
               \/ i = n + 1 /\ g = f
               \/ i # n + 1 /\ i - 0 \in DOMAIN q /\ q[i - 0] = g
    <3>. TAKE g \in Frames, i \in Nat
    <3>1. DOMAIN k = 1 .. n + 1 /\ DOMAIN q = 1 .. n /\ n \in Nat
      BY <1>1, <2>2 DEF n
    <3>2. \A j \in 1 .. n + 1 : k[j] = IF j = n + 1 THEN f ELSE q[j]
      BY <2>1 DEF n
    <3>3. i - 0 = i
      OBVIOUS
    <3>4. CASE i = n + 1
      BY <3>1, <3>2, <3>4
    <3>5. CASE i # n + 1
      <4>1. i \in 1 .. n + 1 <=> i \in 1 .. n
        BY <3>1, <3>5
      <4>. QED BY <3>1, <3>2, <3>3, <3>5, <4>1
    <3>. QED BY <3>4, <3>5
  <2>4. n + 1 \in 1 .. Len(q) + 1 /\ \A i \in DOMAIN q : i + 0 # n + 1
    BY <1>1 DEF n
  <2>5. Grows(q, k, f, 0, n + 1)
    BY <2>3, <2>4 DEF Grows
  <2>. QED BY <2>1, <2>4, <2>5
<1>3. CASE k = <<f>> \o q
  <2> DEFINE h == <<f>>
  <2>0. h \in Seq(Frames) /\ Len(h) = 1 /\ h[1] = f
    OBVIOUS
  <2>. HIDE DEF h
  <2>1. k \in Seq(Frames) /\ Len(k) = Len(h) + Len(q)
        /\ \A i \in 1 .. Len(h) + Len(q) : k[i] = IF i <= Len(h) THEN h[i] ELSE q[i - Len(h)]
    BY <1>3, <2>0, ConcatProperties DEF h
  <2>2. DOMAIN k = 1 .. Len(k)
    BY <2>1, LenProperties
  <2>3. \A g \in Frames, i \in Nat :
           (i \in DOMAIN k /\ k[i] = g) <=>
               \/ i = 1 /\ g = f
               \/ i # 1 /\ i - 1 \in DOMAIN q /\ q[i - 1] = g
    <3>. TAKE g \in Frames, i \in Nat
    <3>1. CASE i = 1
      BY <1>1, <2>0, <2>1, <2>2, <3>1
    <3>2. CASE i # 1
      <4>1. i \in 1 .. Len(q) + 1 <=> i - 1 \in 1 .. Len(q)
        BY <1>1, <3>2
      <4>2. i \in 1 .. Len(q) + 1 => k[i] = q[i - 1]
        BY <1>1, <2>0, <2>1, <3>2
      <4>. QED BY <1>1, <2>0, <2>1, <2>2, <3>2, <4>1, <4>2
    <3>. QED BY <3>1, <3>2
  <2>4. 1 \in 1 .. Len(q) + 1 /\ \A i \in DOMAIN q : i + 1 # 1
    BY <1>1
  <2>5. Grows(q, k, f, 1, 1)
    BY <2>3, <2>4 DEF Grows
  <2>. QED BY <2>1, <2>4, <2>5
<1>. QED
  BY <1>2, <1>3

(* Only queue c of peer p differs. *)
SameElsewhere(s, t, p, c) ==
    \A r \in SwPeers, b \in Acs :
       (r # p \/ b # c) => t.pending[r][b] = s.pending[r][b]

(* tx_enqueue puts a new frame in one place. *)
LEMMA EnqueueEnters ==
    ASSUME NEW s, Typed(s), NEW f \in Frames, NEW ac \in Acs, NEW p \in SwPeers,
           p \in Slots => ac \in Unicast, Once(s), ~ Has(s, f)
    PROVE  LET e == Enqueue(s, f, ac, p, TRUE)
           IN  /\ Typed(e) /\ SameTokens(s, e) /\ SameCommands(s, e)
               /\ SameStations(s, e) /\ e.pkt = s.pkt
               /\ Once(e) /\ Enters(s, e, f, ac)
               /\ Exact(s) => Exact(e)
               /\ HasPending(e, p, ac)
               /\ SameElsewhere(s, e, p, ac)
<1> DEFINE q == s.pending[p][ac]
           k == IF f \in Emergency THEN <<f>> \o q ELSE Append(q, f)
           a == [s.pending EXCEPT ![p][ac] = k]
           t == [s EXCEPT !.pending = a]
           e == Enqueue(s, f, ac, p, TRUE)
<1>1. e = UpdateBmp(t, ac, p, TRUE)
  BY DEF Enqueue
<1>2. q \in Seq(Frames) /\ s.pending \in [SwPeers -> [Acs -> Seq(Frames)]]
  BY Fields
<1>3. /\ k \in Seq(Frames)
      /\ \E m \in {0, 1} : \E x \in 1 .. Len(q) + 1 : Grows(q, k, f, m, x)
  <2>1. k = Append(q, f) \/ k = <<f>> \o q
    OBVIOUS
  <2>. HIDE DEF k, q
  <2>. QED BY <1>2, <2>1, QueueGrows
<1>4. a \in [SwPeers -> [Acs -> Seq(Frames)]]
      /\ a[p][ac] = k
      /\ \A r \in SwPeers, b \in Acs : (r # p \/ b # ac) => a[r][b] = s.pending[r][b]
  <2>. HIDE DEF k
  <2>. QED BY <1>2, <1>3
<1>. HIDE DEF k, a
<1>5. Typed(t) /\ SameTokens(s, t)
  BY <1>4, UpdPending
<1>6. /\ t.pending = a /\ t.pkt = s.pkt /\ t.peers = s.peers /\ t.rpu_bmp = s.rpu_bmp
      /\ t.mapped = s.mapped /\ t.coalesce = s.coalesce
  BY <1>5 DEF Typed, Config
<1>. HIDE DEF t, e
<1>7. Typed(e) /\ SameTokens(t, e)
  BY <1>1, <1>5, UpdateBmpTyped
<1>8. /\ SameFrames(t, e) /\ SameCommands(t, e) /\ SameStations(t, e)
      /\ Noted(t, e, p, ac)
  BY <1>1, <1>5, UpdateBmpKeeps
<1>9. e.pending = a /\ e.pkt = s.pkt
  BY <1>6, <1>8 DEF SameFrames
<1>10. SameTokens(s, e) /\ SameCommands(s, e) /\ SameStations(s, e)
  BY <1>5, <1>6, <1>7, <1>8 DEF SameTokens, SameCommands, SameStations
<1>11. PICK m \in {0, 1} : \E x \in 1 .. Len(q) + 1 : Grows(q, k, f, m, x)
  BY <1>3
<1>12. PICK x \in 1 .. Len(q) + 1 : Grows(q, k, f, m, x)
  BY <1>11
<1>13. x \in Nat /\ m \in Nat
  <2>1. Len(q) \in Nat
    BY <1>2, LenProperties
  <2>. QED BY <2>1
<1>14. \A g \in Frames, i \in Nat :
          InQueue(e, g, p, ac, i) <=> \/ i = x /\ g = f
                                      \/ i # x /\ InQueue(s, g, p, ac, i - m)
  BY <1>4, <1>9, <1>12 DEF InQueue, Grows
<1>15. \A g \in Frames, r \in SwPeers, b \in Acs, i \in Nat :
          (r # p \/ b # ac) => (InQueue(e, g, r, b, i) <=> InQueue(s, g, r, b, i))
  BY <1>4, <1>9 DEF InQueue
<1>16. \A g, d, i : OnToken(e, g, d, i) <=> OnToken(s, g, d, i)
  BY <1>9 DEF OnToken
<1>17. \A g, i : InQueue(s, g, p, ac, i) => i \in Nat /\ i > 0
  <2>1. DOMAIN q = 1 .. Len(q) /\ Len(q) \in Nat
    BY <1>2, LenProperties
  <2>. QED BY <2>1 DEF InQueue
<1>18. /\ \A r \in SwPeers, b \in Acs, i \in Nat : ~ InQueue(s, f, r, b, i)
       /\ \A d \in Tokens, i \in Nat : ~ OnToken(s, f, d, i)
  BY DEF Has, Carries, Waits
<1>19. ASSUME NEW g \in Frames, g # f,
              NEW r \in SwPeers, NEW b \in Acs, NEW i \in Nat, InQueue(e, g, r, b, i)
       PROVE  \E j \in Nat : /\ InQueue(s, g, r, b, j)
                             /\ j = IF r = p /\ b = ac THEN i - m ELSE i
  <2>1. CASE r = p /\ b = ac
    BY <1>14, <1>17, <1>19, <2>1
  <2>2. CASE ~ (r = p /\ b = ac)
    BY <1>15, <1>19, <2>2
  <2>. QED BY <2>1, <2>2
<1>20. \A r \in SwPeers, b \in Acs, i \in Nat :
          InQueue(e, f, r, b, i) => r = p /\ b = ac /\ i = x
  BY <1>14, <1>15, <1>17, <1>18
<1>21. Once(e)
  <2>1. ASSUME NEW g \in Frames,
               NEW r \in SwPeers, NEW u \in SwPeers, NEW b \in Acs, NEW c \in Acs,
               NEW i \in Nat, NEW j \in Nat,
               InQueue(e, g, r, b, i), InQueue(e, g, u, c, j)
        PROVE  r = u /\ b = c /\ i = j
    <3>1. CASE g = f
      BY <1>20, <2>1, <3>1
    <3>2. CASE g # f
      <4>1. PICK y \in Nat : /\ InQueue(s, g, r, b, y)
                             /\ y = IF r = p /\ b = ac THEN i - m ELSE i
        BY <1>19, <2>1, <3>2
      <4>2. PICK z \in Nat : /\ InQueue(s, g, u, c, z)
                             /\ z = IF u = p /\ c = ac THEN j - m ELSE j
        BY <1>19, <2>1, <3>2
      <4>3. r = u /\ b = c /\ y = z
        BY <4>1, <4>2 DEF Once
      <4>. QED BY <1>13, <2>1, <4>1, <4>2, <4>3
    <3>. QED BY <3>1, <3>2
  <2>2. ASSUME NEW g \in Frames, NEW d \in Tokens, NEW u \in Tokens,
               NEW i \in Nat, NEW j \in Nat, OnToken(e, g, d, i), OnToken(e, g, u, j)
        PROVE  d = u /\ i = j
    BY <1>16, <2>2 DEF Once
  <2>3. ASSUME NEW g \in Frames, NEW r \in SwPeers, NEW b \in Acs, NEW d \in Tokens,
               NEW i \in Nat, NEW j \in Nat, InQueue(e, g, r, b, i), OnToken(e, g, d, j)
        PROVE  FALSE
    <3>1. CASE g = f
      BY <1>16, <1>18, <2>3, <3>1
    <3>2. CASE g # f
      <4>1. \E y \in Nat : InQueue(s, g, r, b, y)
        BY <1>19, <2>3, <3>2
      <4>. QED BY <1>16, <2>3, <4>1 DEF Once
    <3>. QED BY <3>1, <3>2
  <2>. QED BY <2>1, <2>2, <2>3 DEF Once
<1>22. Enters(s, e, f, ac)
  <2>1. ASSUME NEW g \in Frames, NEW d \in Tokens
        PROVE  Carries(e, g, d) <=> Carries(s, g, d)
    BY <1>16 DEF Carries
  <2>2. ASSUME NEW g \in Frames, NEW b \in Acs, Waits(e, g, b)
        PROVE  Waits(s, g, b) \/ (g = f /\ b = ac)
    <3>1. PICK r \in SwPeers, i \in Nat : InQueue(e, g, r, b, i)
      BY <2>2 DEF Waits
    <3>2. CASE g = f
      BY <1>20, <3>1, <3>2
    <3>3. CASE g # f
      BY <1>19, <3>1, <3>3 DEF Waits
    <3>. QED BY <3>2, <3>3
  <2>3. Waits(e, f, ac)
    BY <1>13, <1>14 DEF Waits
  <2>4. ASSUME NEW g \in Frames, NEW b \in Acs, Waits(s, g, b)
        PROVE  Waits(e, g, b)
    <3>1. PICK r \in SwPeers, i \in Nat : InQueue(s, g, r, b, i)
      BY <2>4 DEF Waits
    <3>2. CASE ~ (r = p /\ b = ac)
      BY <1>15, <3>1, <3>2 DEF Waits
    <3>3. CASE r = p /\ b = ac
      <4>1. i + m # x
        BY <1>12, <3>1, <3>3 DEF InQueue, Grows
      <4>2. i + m \in Nat /\ (i + m) - m = i
        BY <1>13
      <4>. QED BY <1>14, <3>1, <3>3, <4>1, <4>2 DEF Waits
    <3>. QED BY <3>2, <3>3
  <2>. QED BY <2>1, <2>2, <2>3, <2>4 DEF Enters
<1>23. HasPending(e, p, ac)
  <2>1. e.pending[p][ac] \in Seq(Frames)
    BY <1>7, Fields
  <2>2. x \in DOMAIN e.pending[p][ac]
    BY <1>13, <1>14 DEF InQueue
  <2>3. DOMAIN <<>> = {}
    OBVIOUS
  <2>. QED BY <2>2, <2>3 DEF HasPending
<1>24. Exact(s) => Exact(e)
  <2>1. Noted(s, e, p, ac)
    BY <1>6, <1>8 DEF Noted, SameBitmaps
  <2>2. \A r \in SwPeers, b \in Acs :
           (r # p \/ b # ac) => e.pending[r][b] = s.pending[r][b]
    BY <1>4, <1>9
  <2>. QED BY <2>1, <2>2, NotedExact
<1>25. SameElsewhere(s, e, p, ac)
  BY <1>4, <1>9 DEF SameElsewhere
<1>. QED
  BY <1>4, <1>7, <1>9, <1>10, <1>21, <1>22, <1>23, <1>24, <1>25 DEF e

-----------------------------------------------------------------------------

(* A token from the pool is empty. *)
LEMMA PickTaken ==
    ASSUME NEW s, Typed(s), AllFit(s), NEW q \in Acs, DescPick(s, q) # NumTokens
    PROVE  LET d == DescPick(s, q)
               t == DescTake(s, q, d)
           IN  /\ d \in Tokens /\ d \notin s.busy
               /\ (d \in Spare \/ d % AC_MAX = q)
               /\ Typed(t) /\ Taken(t, d) /\ SameFrames(s, t) /\ SameStations(s, t)
               /\ SameBitmaps(s, t) /\ t.peers = s.peers
               /\ t.in_rpu = s.in_rpu /\ t.busy = s.busy \cup {d}
<1> DEFINE d == DescPick(s, q)
           t == DescTake(s, q, d)
<1>1. d \in Tokens /\ d \notin s.busy /\ (d \in Spare \/ d % AC_MAX = q)
  BY DescPickFree DEF Candidates
<1>. HIDE DEF d
<1>2. Typed(t)
  BY <1>1, DescTakeTyped
<1>3. /\ SameFrames(s, t) /\ SameCommands(s, t) /\ SameStations(s, t)
      /\ SameBitmaps(s, t)
      /\ t.in_rpu = s.in_rpu /\ t.busy = s.busy \cup {d}
      /\ t.peers = s.peers
  BY <1>1, DescTakeKeeps
<1>. HIDE DEF t
<1>4. Taken(t, d)
  BY <1>1, <1>3 DEF AllFit, Fits, Taken, Loaded, Blank, SameFrames, SameCommands
<1>. QED
  BY <1>1, <1>2, <1>3, <1>4 DEF d, t

(* What a category has for a token depends on queues, turns and stations. *)
LEMMA TakeServiceable ==
    ASSUME NEW s, Typed(s), NEW d \in Tokens, NEW q \in Acs, NEW ac
    PROVE  Serviceable(DescTake(s, q, d), ac) <=> Serviceable(s, ac)
<1> DEFINE t == DescTake(s, q, d)
<1>1. t.pending = s.pending /\ t.peers = s.peers /\ t.wakeup = s.wakeup /\ t.opp = s.opp
  BY DEF DescTake, Typed, Config
<1>. HIDE DEF t
<1>2. \A p : HasPending(t, p, ac) <=> HasPending(s, p, ac)
  BY <1>1 DEF HasPending
<1>3. \A p : CanWake(t, p, ac) <=> CanWake(s, p, ac)
  BY <1>1, <1>2 DEF CanWake
<1>4. \A p : CanServe(t, p, ac) <=> CanServe(s, p, ac)
  BY <1>1, <1>2 DEF CanServe
<1>5. \A p : IsFirstAwake(t, p, ac) <=> IsFirstAwake(s, p, ac)
  BY <1>1, <1>3 DEF IsFirstAwake
<1>6. \A p : TurnsAway(t, p, ac) = TurnsAway(s, p, ac)
  BY <1>1 DEF TurnsAway
<1>7. \A p : IsNextInTurn(t, p, ac) <=> IsNextInTurn(s, p, ac)
  BY <1>4, <1>6 DEF IsNextInTurn
<1>8. PeerOpp(t, ac).peer = PeerOpp(s, ac).peer
  BY <1>5, <1>7 DEF PeerOpp
<1>. QED
  BY <1>2, <1>8 DEF Serviceable, t

(* tx_buff_req_free sends the next batch of the highest category that has  *)
(* one, with a token that came back.                                       *)
LEMMA BuffReqFreeFits ==
    ASSUME NEW s, Typed(s), NEW d \in Tokens, Taken(s, d), Once(s)
    PROVE  LET t == BuffReqFree(s, d, TRUE)
           IN  /\ Typed(t) /\ AllFit(t) /\ Once(t) /\ SameStations(s, t)
               /\ Exact(s) => Exact(t)
               /\ \/ \E c \in Acs : /\ IsHighest(s, d, c) /\ Loads(s, t, d, c)
                                    /\ t.in_rpu = s.in_rpu \cup {d} /\ t.busy = s.busy
                  \/ /\ \A c \in Acs : ~ IsHighest(s, d, c)
                     /\ SameFrames(s, t)
                     /\ t.in_rpu = s.in_rpu /\ t.busy = s.busy \ {d}
<1> DEFINE q == TxDoneQueue(s, d)
           t == BuffReqFree(s, d, TRUE)
<1>1. q \in Acs
  BY TxDoneQueueTyped
<1>2. CASE \E c \in Acs : IsHighest(s, d, c)
  <2> DEFINE c == CHOOSE c \in Acs : IsHighest(s, d, c)
             u == PendingProcess(s, d, c, TRUE)
             w == Reassign(u, d, q, c)
  <2>1. c \in Acs /\ IsHighest(s, d, c)
    BY <1>2
  <2>2. t = CmdInit(w, d, TRUE)
    BY <1>2 DEF BuffReqFree
  <2>. HIDE DEF c, q
  <2>3. /\ Typed(u) /\ SameTokens(s, u) /\ Filled(u, d)
        /\ Once(u) /\ Loads(s, u, d, c) /\ SameStations(s, u)
        /\ Exact(s) => Exact(u)
    BY <2>1, PendingFits DEF IsHighest
  <2>. HIDE DEF u
  <2>4. /\ Typed(w)
        /\ SameFrames(u, w) /\ SameCommands(u, w) /\ SameStations(u, w)
        /\ SameBitmaps(u, w)
        /\ w.in_rpu = u.in_rpu /\ w.busy = u.busy
    BY <1>1, <2>1, <2>3, ReassignTyped, ReassignKeeps
  <2>. HIDE DEF w
  <2>5. Filled(w, d)
    BY <2>3, <2>4 DEF Filled, Fits, Loaded, Blank, SameFrames, SameCommands
  <2>. HIDE DEF t
  <2>6. /\ Typed(t) /\ AllFit(t)
        /\ t.busy = w.busy /\ t.in_rpu = w.in_rpu \cup {d}
        /\ SameFrames(w, t) /\ SameStations(w, t) /\ SameBitmaps(w, t)
    BY <2>2, <2>4, <2>5, CmdInitFits
  <2>7. SameFrames(u, t) /\ SameStations(s, t) /\ SameBitmaps(u, t)
    BY <2>3, <2>4, <2>6 DEF SameFrames, SameStations, SameBitmaps
  <2>8. Once(t) /\ Loads(s, t, d, c)
    BY <2>3, <2>7, SameLoads
  <2>9. Exact(s) => Exact(t)
    BY <2>3, <2>7, SameExact DEF SameFrames
  <2>10. t.in_rpu = s.in_rpu \cup {d} /\ t.busy = s.busy
    BY <2>3, <2>4, <2>6 DEF SameTokens
  <2>. QED
    BY <2>1, <2>6, <2>7, <2>8, <2>9, <2>10 DEF t
<1>3. CASE ~ (\E c \in Acs : IsHighest(s, d, c))
  <2>1. t = DescFree(s, d, q)
    BY <1>3 DEF BuffReqFree
  <2>. HIDE DEF q, t
  <2>2. /\ Typed(t) /\ AllFit(t)
        /\ SameFrames(s, t) /\ SameStations(s, t) /\ SameBitmaps(s, t)
        /\ t.in_rpu = s.in_rpu /\ t.busy = s.busy \ {d}
    BY <1>1, <2>1, FreeFits
  <2>3. Once(t)
    BY <2>2, SameLoads
  <2>4. Exact(s) => Exact(t)
    BY <2>2, SameExact DEF SameFrames
  <2>. QED
    BY <1>3, <2>2, <2>3, <2>4 DEF t
<1>. QED
  BY <1>2, <1>3

(* A token taken from the pool for category q, and filled. *)
LEMMA PickFits ==
    ASSUME NEW s, Typed(s), AllFit(s), Once(s), NEW q \in Acs, DescPick(s, q) # NumTokens
    PROVE  LET d == DescPick(s, q)
               u == DescTake(s, q, d)
               t == FillToken(u, d, q, TRUE)
           IN  /\ d \in Tokens /\ d \notin s.busy
               /\ (d \in Spare \/ d % AC_MAX = q)
               /\ Typed(t) /\ AllFit(t) /\ Once(t) /\ Loads(s, t, d, q)
               /\ SameStations(s, t)
               /\ Exact(s) => Exact(t)
               /\ FillStatus(u, d, q, TRUE) = "success"
               /\ IF Serviceable(s, q)
                  THEN t.in_rpu = s.in_rpu \cup {d} /\ t.busy = s.busy \cup {d}
                  ELSE /\ t.in_rpu = s.in_rpu /\ t.busy = s.busy
                       /\ SameFrames(s, t)
<1> DEFINE d == DescPick(s, q)
           u == DescTake(s, q, d)
           t == FillToken(u, d, q, TRUE)
<1>1. /\ d \in Tokens /\ d \notin s.busy
      /\ (d \in Spare \/ d % AC_MAX = q)
      /\ Typed(u) /\ Taken(u, d) /\ SameFrames(s, u) /\ SameStations(s, u)
      /\ SameBitmaps(s, u) /\ u.peers = s.peers
      /\ u.in_rpu = s.in_rpu /\ u.busy = s.busy \cup {d}
  BY PickTaken
<1>. HIDE DEF d
<1>2. Serviceable(u, q) <=> Serviceable(s, q)
  BY <1>1, TakeServiceable
<1>. HIDE DEF u
<1>3. Once(u) /\ (Exact(s) => Exact(u))
  BY <1>1, SameLoads, SameExact DEF SameFrames
<1>4. /\ Typed(t) /\ AllFit(t) /\ Once(t) /\ Loads(u, t, d, q)
      /\ SameStations(u, t)
      /\ Exact(u) => Exact(t)
      /\ FillStatus(u, d, q, TRUE) = "success"
      /\ IF Serviceable(u, q)
         THEN t.in_rpu = u.in_rpu \cup {d} /\ t.busy = u.busy
         ELSE /\ t.in_rpu = u.in_rpu /\ t.busy = u.busy \ {d}
              /\ SameFrames(u, t)
  BY <1>1, <1>3, FillTokenFits
<1>. HIDE DEF t
<1>5. SameFrames(u, s)
  BY <1>1 DEF SameFrames
<1>6. Loads(s, t, d, q)
  BY <1>4, <1>5, SameLoads
<1>7. SameStations(s, t)
  BY <1>1, <1>4 DEF SameStations
<1>8. IF Serviceable(s, q)
      THEN t.in_rpu = s.in_rpu \cup {d} /\ t.busy = s.busy \cup {d}
      ELSE /\ t.in_rpu = s.in_rpu /\ t.busy = s.busy
           /\ SameFrames(s, t)
  BY <1>1, <1>2, <1>4 DEF SameFrames
<1>. QED
  BY <1>1, <1>3, <1>4, <1>6, <1>7, <1>8 DEF t, u, d

-----------------------------------------------------------------------------

(* How a handler leaves the queues and tokens when it may send one batch   *)
(* of category q: either nothing moves, or a token that was free takes it. *)
Sends(s, t, q) ==
    \/ SameFrames(s, t) /\ t.in_rpu = s.in_rpu /\ t.busy = s.busy
    \/ \E d \in Tokens : /\ d \notin s.busy
                         /\ Loads(s, t, d, q)
                         /\ t.in_rpu = s.in_rpu \cup {d}
                         /\ t.busy = s.busy \cup {d}

(* The stations' frames of category q wait for a token that serves it.     *)
Served(s, q) ==
    \A p \in Slots : CanServe(s, p, q) => \E d \in s.in_rpu : q \in ServedAcs(d)

(* The least element of a set of numbers.                                  *)
LEMMA LeastByOrder ==
    ASSUME NEW R, IsWellFoundedOn(R, Nat),
           \A x, y \in Nat : <<y, x>> \in R <=> y < x,
           NEW T \in SUBSET Nat, T # {}
    PROVE  \E x \in T : \A y \in T : x <= y
<1>1. PICK x \in T : \A y \in T : ~ (<<y, x>> \in R)
  BY WFMin
<1>2. ASSUME NEW y \in T PROVE x <= y
  <2>1. <<y, x>> \notin R
    BY <1>1
  <2>2. x \in Nat /\ y \in Nat
    OBVIOUS
  <2>. QED BY <2>1, <2>2
<1>. QED
  BY <1>2

LEMMA LeastExists ==
    ASSUME NEW T \in SUBSET Nat, T # {}
    PROVE  \E x \in T : \A y \in T : x <= y
<1> DEFINE R == OpToRel(<, Nat)
<1>1. IsWellFoundedOn(R, Nat)
  BY NatLessThanWellFounded
<1>2. \A x, y \in Nat : <<y, x>> \in R <=> y < x
  BY DEF OpToRel
<1>. HIDE DEF R
<1>. QED
  BY <1>1, <1>2, LeastByOrder

(* A category without frames for a token has no station to serve.          *)
LEMMA NothingServed ==
    ASSUME NEW s, Typed(s), NEW q \in Unicast, ~ Serviceable(s, q)
    PROVE  \A p \in Slots : ~ CanServe(s, p, q)
<1>. SUFFICES ASSUME NEW p \in Slots, CanServe(s, p, q) PROVE FALSE
  OBVIOUS
<1>0. q # MC
  BY Sets
<1>1. \A r \in Slots : r \in SwPeers /\ r # None
  BY Sets, ConstantsOK DEF ConstantsOK
<1>2. CASE \E r \in Slots : IsFirstAwake(s, r, q)
  <2> DEFINE r == CHOOSE r \in Slots : IsFirstAwake(s, r, q)
  <2>1. r \in Slots /\ IsFirstAwake(s, r, q)
    BY <1>2
  <2>2. PeerOpp(s, q).peer = r
    BY <1>0, <1>2 DEF PeerOpp
  <2>. HIDE DEF r
  <2>3. HasPending(s, r, q)
    BY <2>1 DEF IsFirstAwake, CanWake
  <2>. QED BY <1>1, <2>1, <2>2, <2>3 DEF Serviceable
<1>3. CASE ~ (\E r \in Slots : IsFirstAwake(s, r, q)) /\ \E r \in Slots : IsNextInTurn(s, r, q)
  <2> DEFINE r == CHOOSE r \in Slots : IsNextInTurn(s, r, q)
  <2>1. r \in Slots /\ IsNextInTurn(s, r, q)
    BY <1>3
  <2>2. PeerOpp(s, q).peer = r
    BY <1>0, <1>3 DEF PeerOpp
  <2>. HIDE DEF r
  <2>3. HasPending(s, r, q)
    BY <2>1 DEF IsNextInTurn, CanServe
  <2>. QED BY <1>1, <2>1, <2>2, <2>3 DEF Serviceable
<1>4. CASE ~ (\E r \in Slots : IsNextInTurn(s, r, q))
  <2> DEFINE T == {TurnsAway(s, r, q) : r \in {r \in Slots : CanServe(s, r, q)}}
  <2>1. ASSUME NEW r \in Slots PROVE TurnsAway(s, r, q) \in Nat
    <3>1. MaxPeers \in Nat /\ MaxPeers > 0
      BY ConstantsOK DEF ConstantsOK
    <3>2. r \in Int /\ s.opp[q] \in Int
      <4>1. q \in Acs
        BY Sets
      <4>. QED BY <3>1, <4>1, Fields DEF Slots
    <3> DEFINE x == r - s.opp[q] + MaxPeers
    <3>3. x \in Int
      BY <3>1, <3>2
    <3>. HIDE DEF x
    <3>4. x % MaxPeers \in Nat
      BY <3>1, <3>3
    <3>. QED BY <3>4 DEF TurnsAway, x
  <2>2. T \in SUBSET Nat /\ T # {}
    BY <2>1
  <2>3. PICK x \in T : \A y \in T : x <= y
    <3>. HIDE DEF T
    <3>. QED BY <2>2, LeastExists
  <2>4. PICK r \in Slots : CanServe(s, r, q) /\ x = TurnsAway(s, r, q)
    BY <2>3
  <2>5. \A u \in Slots : CanServe(s, u, q) => TurnsAway(s, r, q) <= TurnsAway(s, u, q)
    BY <2>3, <2>4
  <2>6. IsNextInTurn(s, r, q)
    BY <2>4, <2>5 DEF IsNextInTurn
  <2>. QED BY <1>4, <2>6
<1>. QED
  BY <1>2, <1>3, <1>4

(* No token for category q is free: the first one of its own is out.       *)
LEMMA NoneFree ==
    ASSUME NEW s, Typed(s), AllFit(s), NEW q \in Unicast, DescPick(s, q) = NumTokens
    PROVE  Served(s, q)
<1>1. q \in Nat /\ q < NumReserved /\ NumReserved <= NumTokens /\ q % AC_MAX = q
  BY Sets, ConstantsOK DEF ConstantsOK
<1>2. q \in Tokens /\ q \notin Spare
  BY <1>1, Sets DEF Tokens, Spare
<1>3. q \in s.busy
  <2>1. SUFFICES ASSUME q \notin s.busy PROVE FALSE
    OBVIOUS
  <2> DEFINE own == {d \in Tokens : d \notin Spare /\ d % AC_MAX = q} \ s.busy
  <2>2. q \in own
    BY <1>1, <1>2, <2>1
  <2>3. Candidates(s, q) = own
    BY <2>2 DEF Candidates
  <2>4. own \in SUBSET Nat
    BY Sets
  <2>. HIDE DEF own
  <2>5. PICK d \in own : \A e \in own : d <= e
    BY <2>2, <2>4, LeastExists
  <2>6. IsFirstFree(s, q, d)
    BY <2>3, <2>5 DEF IsFirstFree
  <2>7. d \in Tokens
    BY <2>5 DEF own
  <2>8. DescPick(s, q) \in Tokens
    BY <2>6, <2>7 DEF DescPick
  <2>. QED BY <2>8, Sets DEF Tokens
<1>4. q \in s.in_rpu
  BY <1>2, <1>3 DEF AllFit, Fits, Loaded
<1>5. q \in ServedAcs(q)
  BY <1>1, <1>2 DEF ServedAcs
<1>. QED
  BY <1>4, <1>5 DEF Served

(* A category stays served while its queues only shrink.                   *)
LEMMA ServedStays ==
    ASSUME NEW s, NEW t, NEW q, Served(s, q), SameStations(s, t), s.in_rpu \subseteq t.in_rpu,
           \A p \in Slots : HasPending(t, p, q) => HasPending(s, p, q)
    PROVE  Served(t, q)
<1>1. ASSUME NEW p \in Slots, CanServe(t, p, q) PROVE CanServe(s, p, q)
  BY <1>1, Sets DEF CanServe, SameStations
<1>. QED
  BY <1>1 DEF Served

(* Filling a token from the pool serves the category it was taken for.     *)
LEMMA PickServes ==
    ASSUME NEW s, Typed(s), AllFit(s), Once(s), NEW q \in Acs, DescPick(s, q) # NumTokens
    PROVE  LET d == DescPick(s, q)
               t == FillToken(DescTake(s, q, d), d, q, TRUE)
           IN  /\ Sends(s, t, q)
               /\ q \in Unicast => Served(t, q)
<1> DEFINE d == DescPick(s, q)
           t == FillToken(DescTake(s, q, d), d, q, TRUE)
<1>1. /\ d \in Tokens /\ d \notin s.busy
      /\ (d \in Spare \/ d % AC_MAX = q)
      /\ Loads(s, t, d, q) /\ SameStations(s, t)
      /\ IF Serviceable(s, q)
         THEN t.in_rpu = s.in_rpu \cup {d} /\ t.busy = s.busy \cup {d}
         ELSE /\ t.in_rpu = s.in_rpu /\ t.busy = s.busy
              /\ SameFrames(s, t)
  BY PickFits
<1>. HIDE DEF d, t
<1>2. Sends(s, t, q)
  BY <1>1 DEF Sends
<1>3. ASSUME q \in Unicast PROVE Served(t, q)
  <2>1. CASE Serviceable(s, q)
    <3>1. q \in ServedAcs(d)
      BY <1>1, <1>3 DEF ServedAcs
    <3>. QED BY <1>1, <2>1, <3>1 DEF Served
  <2>2. CASE ~ Serviceable(s, q)
    <3>1. \A p \in Slots : ~ CanServe(s, p, q)
      BY <1>3, <2>2, NothingServed
    <3>2. \A p \in Slots : ~ CanServe(t, p, q)
      BY <1>1, <2>2, <3>1, Sets DEF CanServe, HasPending, SameFrames, SameStations
    <3>. QED BY <3>2 DEF Served
  <2>. QED BY <2>1, <2>2
<1>. QED
  BY <1>2, <1>3 DEF d, t

(* Categories other than q stay served as well.                            *)
LEMMA SendsServed ==
    ASSUME NEW s, NEW t, NEW q, Sends(s, t, q), SameStations(s, t)
    PROVE  \A b \in Unicast : Served(s, b) => Served(t, b)
<1>1. \A p \in SwPeers, b \in Acs : HasPending(t, p, b) => HasPending(s, p, b)
  BY DEF Sends, Loads, SameFrames, HasPending
<1>2. s.in_rpu \subseteq t.in_rpu
  BY DEF Sends
<1>. QED
  BY <1>1, <1>2, ServedStays, Sets

-----------------------------------------------------------------------------

(* What every handler keeps while the RPU can be reached. *)
Good(s) == Typed(s) /\ AllFit(s) /\ Once(s)

(* One turn of the loops of fmac_ap.c. *)
LEMMA ServeAcFits ==
    ASSUME NEW s, Good(s), NEW q \in Unicast
    PROVE  LET t == ServeAc(s, q, TRUE)
           IN  /\ Good(t) /\ SameStations(s, t)
               /\ Exact(s) => Exact(t)
               /\ Sends(s, t, q) /\ Served(t, q)
<1> DEFINE d == DescPick(s, q)
           t == ServeAc(s, q, TRUE)
<1>0. Typed(s) /\ AllFit(s) /\ Once(s) /\ q \in Acs
  BY Sets DEF Good
<1>1. CASE d = NumTokens
  <2>1. t = s
    <3>1. ~ (d < NumTokens)
      BY <1>1, Sets
    <3>. QED BY <3>1 DEF ServeAc
  <2>2. Served(s, q)
    BY <1>0, <1>1, NoneFree
  <2>. QED
    BY <2>1, <2>2 DEF Sends, SameFrames, SameStations
<1>2. CASE d # NumTokens
  <2>1. /\ Typed(FillToken(DescTake(s, q, d), d, q, TRUE))
        /\ AllFit(FillToken(DescTake(s, q, d), d, q, TRUE))
        /\ Once(FillToken(DescTake(s, q, d), d, q, TRUE))
        /\ SameStations(s, FillToken(DescTake(s, q, d), d, q, TRUE))
        /\ Exact(s) => Exact(FillToken(DescTake(s, q, d), d, q, TRUE))
        /\ Sends(s, FillToken(DescTake(s, q, d), d, q, TRUE), q)
        /\ Served(FillToken(DescTake(s, q, d), d, q, TRUE), q)
        /\ d \in Tokens
    BY <1>0, <1>2, PickFits, PickServes
  <2>2. d < NumTokens
    BY <2>1, Sets DEF Tokens
  <2>3. t = FillToken(DescTake(s, q, d), d, q, TRUE)
    BY <2>2 DEF ServeAc
  <2>. HIDE DEF t, d
  <2>. QED
    BY <2>1, <2>3 DEF Good, t
<1>. QED
  BY <1>1, <1>2

(* The four turns of the loops. *)
LEMMA ServeAllFits ==
    ASSUME NEW s, Good(s)
    PROVE  LET t == ServeAll(s, TRUE)
           IN  /\ Good(t) /\ SameStations(s, t)
               /\ Exact(s) => Exact(t)
               /\ \E u, v, w : /\ Good(u) /\ Good(v) /\ Good(w)
                               /\ u = ServeAc(s, VO, TRUE) /\ v = ServeAc(u, VI, TRUE)
                               /\ w = ServeAc(v, BE, TRUE) /\ t = ServeAc(w, BK, TRUE)
                               /\ Sends(s, u, VO) /\ Sends(u, v, VI)
                               /\ Sends(v, w, BE) /\ Sends(w, t, BK)
               /\ \A q \in Unicast : Served(t, q)
<1> DEFINE u == ServeAc(s, VO, TRUE)
           v == ServeAc(u, VI, TRUE)
           w == ServeAc(v, BE, TRUE)
           t == ServeAc(w, BK, TRUE)
<1>0. VO \in Unicast /\ VI \in Unicast /\ BE \in Unicast /\ BK \in Unicast
  BY Sets DEF VO, VI, BE, BK
<1>1. /\ Good(u) /\ SameStations(s, u) /\ (Exact(s) => Exact(u))
      /\ Sends(s, u, VO) /\ Served(u, VO)
  BY <1>0, ServeAcFits
<1>00. ServeAll(s, TRUE) = t
  BY DEF ServeAll
<1>. HIDE DEF u
<1>2. /\ Good(v) /\ SameStations(u, v) /\ (Exact(u) => Exact(v))
      /\ Sends(u, v, VI) /\ Served(v, VI)
  BY <1>0, <1>1, ServeAcFits
<1>. HIDE DEF v
<1>3. /\ Good(w) /\ SameStations(v, w) /\ (Exact(v) => Exact(w))
      /\ Sends(v, w, BE) /\ Served(w, BE)
  BY <1>0, <1>2, ServeAcFits
<1>. HIDE DEF w
<1>4. /\ Good(t) /\ SameStations(w, t) /\ (Exact(w) => Exact(t))
      /\ Sends(w, t, BK) /\ Served(t, BK)
  BY <1>0, <1>3, ServeAcFits
<1>. HIDE DEF t
<1>5. SameStations(s, t)
  BY <1>1, <1>2, <1>3, <1>4 DEF SameStations
<1>6. Served(v, VO) /\ Served(w, VO) /\ Served(w, VI)
  BY <1>0, <1>1, <1>2, <1>3, SendsServed
<1>7. Served(t, VO) /\ Served(t, VI) /\ Served(t, BE)
  BY <1>0, <1>3, <1>4, <1>6, SendsServed
<1>8. \A q \in Unicast : q = BK \/ q = BE \/ q = VI \/ q = VO
  BY Sets DEF BK, BE, VI, VO
<1>9. \A q \in Unicast : Served(t, q)
  BY <1>4, <1>7, <1>8
<1>10. Exact(s) => Exact(t)
  BY <1>1, <1>2, <1>3, <1>4
<1>. QED
  BY <1>00, <1>1, <1>2, <1>3, <1>4, <1>5, <1>9, <1>10 DEF u, v, w, t

(* nrf_wifi_fmac_tx either refuses the frame or queues it and may send a    *)
(* batch of its category.                                                  *)
LEMMA FmacTxFits ==
    ASSUME NEW s, Good(s), NEW f \in Frames, NEW ac \in Acs, NEW p \in SwPeers,
           p \in Slots => ac \in Unicast, ~ Has(s, f)
    PROVE  LET e == Enqueue(s, f, ac, p, TRUE)
               r == FmacTx(s, f, ac, p, TRUE)
           IN  /\ Good(r.tx) /\ SameStations(s, r.tx)
               /\ Exact(s) => Exact(r.tx)
               /\ \/ r.status = "fail" /\ r.tx = s
                  \/ /\ r.status # "fail"
                     /\ Good(e) /\ SameTokens(s, e) /\ Enters(s, e, f, ac)
                     /\ Sends(e, r.tx, ac)
                     /\ ac \in Unicast =>
                           \/ Served(r.tx, ac)
                           \/ r.tx = e /\ HoldBack(e, f, ac, p)
<1> DEFINE e == Enqueue(s, f, ac, p, TRUE)
           d == DescPick(e, ac)
           t == FillToken(DescTake(e, ac, d), d, ac, TRUE)
           r == FmacTx(s, f, ac, p, TRUE)
<1>1. CASE Len(s.pending[p][ac]) >= MaxQLen
  <2>1. r.tx = s /\ r.status = "fail"
    BY <1>1 DEF FmacTx
  <2>. QED
    BY <2>1 DEF SameStations
<1>2. CASE ~ (Len(s.pending[p][ac]) >= MaxQLen)
  <2>1. /\ Typed(e) /\ SameTokens(s, e) /\ SameCommands(s, e)
        /\ SameStations(s, e) /\ e.pkt = s.pkt
        /\ Once(e) /\ Enters(s, e, f, ac)
        /\ Exact(s) => Exact(e)
    BY EnqueueEnters DEF Good
  <2>2. AllFit(e)
    <3>. HIDE DEF e
    <3>. QED BY <2>1 DEF Good, AllFit, Fits, Loaded, Blank, SameTokens, SameCommands
  <2>3. r = IF HoldBack(e, f, ac, p) \/ d = NumTokens
            THEN [tx |-> e, status |-> "queued"]
            ELSE [tx |-> t, status |-> FillStatus(DescTake(e, ac, d), d, ac, TRUE)]
    BY <1>2 DEF FmacTx, EnqueueFails
  <2>. HIDE DEF e, r
  <2>4. CASE HoldBack(e, f, ac, p) \/ d = NumTokens
    <3>1. r.tx = e /\ r.status = "queued"
      BY <2>3, <2>4
    <3>2. Good(e) /\ Sends(e, e, ac)
      BY <2>1, <2>2 DEF Good, Sends, SameFrames
    <3>3. ac \in Unicast => Served(e, ac) \/ HoldBack(e, f, ac, p)
      BY <2>1, <2>2, <2>4, NoneFree
    <3>. QED
      BY <2>1, <3>1, <3>2, <3>3 DEF e, r
  <2>5. CASE ~ (HoldBack(e, f, ac, p) \/ d = NumTokens)
    <3>1. /\ Typed(t) /\ AllFit(t) /\ Once(t) /\ SameStations(e, t)
          /\ Exact(e) => Exact(t)
          /\ FillStatus(DescTake(e, ac, d), d, ac, TRUE) = "success"
          /\ Sends(e, t, ac)
          /\ ac \in Unicast => Served(t, ac)
      BY <2>1, <2>2, <2>5, PickFits, PickServes
    <3>. HIDE DEF t, d
    <3>2. r.tx = t /\ r.status = "success"
      BY <2>3, <2>5, <3>1
    <3>3. SameStations(s, t)
      BY <2>1, <3>1 DEF SameStations
    <3>. QED
      BY <2>1, <2>2, <3>1, <3>2, <3>3 DEF Good, e, r
  <2>. QED BY <2>4, <2>5
<1>. QED
  BY <1>1, <1>2

-----------------------------------------------------------------------------

(* The frames of the calls in progress are in no queue and on no token, and *)
(* the driver owns them and those it has queued.                           *)
CallsApart ==
    /\ \A v \in Vifs : xmit[v] # Idle => ~ Has(tx, xmit[v].frame)
    /\ \A v, w \in Vifs :
          xmit[v] # Idle /\ xmit[w] # Idle /\ xmit[v].frame = xmit[w].frame => v = w
    /\ \A f \in Frames :
          f \in live <=> Has(tx, f) \/ \E v \in Vifs : xmit[v].frame = f

(* The inductive invariant of the frames.  BatchOnToken is needed for      *)
(* FrameCustody: a batch overwrites the list of its token, which therefore *)
(* must be empty.                                                          *)
FramesInv == FieldsOK /\ Good(tx) /\ CallsApart

(* No batch of category q brings a frame or loses one.                     *)
LEMMA SendsHas ==
    ASSUME NEW s, NEW t, NEW q \in Acs, Sends(s, t, q)
    PROVE  \A f \in Frames : Has(s, f) <=> Has(t, f)
<1>1. CASE SameFrames(s, t)
  BY <1>1, SameLoads
<1>2. CASE \E d \in Tokens : Loads(s, t, d, q)
  BY <1>2, LoadsHas
<1>. QED
  BY <1>1, <1>2 DEF Sends

(* A change of the stations and the bitmaps keeps what matters.            *)
LEMMA SameGood ==
    ASSUME NEW s, NEW t, Good(s), Typed(t), SameFrames(s, t), SameTokens(s, t),
           SameCommands(s, t)
    PROVE  Good(t) /\ \A f : Has(s, f) <=> Has(t, f)
<1>1. Once(t) /\ \A f : Has(s, f) <=> Has(t, f)
  BY SameLoads DEF Good
<1>2. AllFit(t)
  BY DEF Good, AllFit, Fits, Loaded, Blank, SameFrames, SameTokens, SameCommands
<1>. QED
  BY <1>1, <1>2 DEF Good

(* The handlers of the peer table change that table only.                  *)
LEMMA PeerSteps ==
    ASSUME FieldsOK,
           \/ \E a \in Stations : Doze(a) \/ PeerAdd(a) \/ PeerRemove(a)
           \/ PeersFlush
    PROVE  /\ SameFrames(tx, tx') /\ SameTokens(tx, tx') /\ SameCommands(tx, tx')
           /\ tx'.rpu_bmp = tx.rpu_bmp
           /\ xmit' = xmit /\ live' = live
<1>1. Typed(tx)
  BY DEF FieldsOK, Typed
<1>. QED
  BY <1>1 DEF Doze, PeerAdd, PeerRemove, PeersFlush, SameFrames, SameTokens, SameCommands,
              Typed, Config

(* The state the loops of fmac_ap.c start from.                            *)
LEMMA WakeSteps ==
    ASSUME FieldsOK, NEW a \in Stations, HalMayFail = FALSE,
           (\E n \in 1 .. MaxPsTokens : GetFrames(a, n)) \/ WakeUp(a)
    PROVE  \E u : /\ tx' = ServeAll(u, TRUE)
                  /\ Typed(u)
                  /\ SameFrames(tx, u) /\ SameTokens(tx, u) /\ SameCommands(tx, u)
                  /\ SameBitmaps(tx, u)
                  /\ xmit' = xmit /\ live' = live
<1>1. Typed(tx) /\ tx.peers \in [SwPeers -> Peer]
  BY Fields DEF FieldsOK, Typed
<1> DEFINE p == PeerGetId(tx, a)
<1>2. CASE \E n \in 1 .. MaxPsTokens : GetFrames(a, n)
  <2>1. PICK n \in 1 .. MaxPsTokens : GetFrames(a, n)
    BY <1>2
  <2> DEFINE P == [tx.peers EXCEPT ![p].tokens = n]
             u == [tx EXCEPT !.peers = P, !.wakeup = Append(tx.wakeup, p)]
  <2>2. tx' = ServeAll(u, TRUE) /\ xmit' = xmit /\ live' = live
    BY <2>1 DEF GetFrames, Reachable
  <2>. HIDE DEF p
  <2>3. P \in [SwPeers -> Peer]
    <3>1. n \in Nat
      BY ConstantsOK DEF ConstantsOK
    <3>. QED BY <1>1, <3>1, PeerField
  <2>4. \A r \in SwPeers : P[r].bmp = tx.peers[r].bmp
    BY <1>1 DEF Peer
  <2>. HIDE DEF P
  <2>5. Typed(u) /\ SameTokens(tx, u)
    BY <1>1, <2>3, UpdWakeup
  <2>6. /\ u.peers = P /\ u.pending = tx.pending /\ u.pkt = tx.pkt
        /\ u.mapped = tx.mapped /\ u.coalesce = tx.coalesce /\ u.rpu_bmp = tx.rpu_bmp
    BY <1>1 DEF Typed, Config
  <2>. HIDE DEF u
  <2>. QED
    BY <2>2, <2>4, <2>5, <2>6 DEF SameFrames, SameCommands, SameBitmaps
<1>3. CASE WakeUp(a)
  <2> DEFINE P == [tx.peers EXCEPT ![p].ps = FALSE]
             u == [tx EXCEPT !.peers = P, !.wakeup = Append(tx.wakeup, p)]
  <2>2. tx' = ServeAll(u, TRUE) /\ xmit' = xmit /\ live' = live
    BY <1>3 DEF WakeUp, Reachable
  <2>. HIDE DEF p
  <2>3. P \in [SwPeers -> Peer]
    BY <1>1, PeerField
  <2>4. \A r \in SwPeers : P[r].bmp = tx.peers[r].bmp
    BY <1>1 DEF Peer
  <2>. HIDE DEF P
  <2>5. Typed(u) /\ SameTokens(tx, u)
    BY <1>1, <2>3, UpdWakeup
  <2>6. /\ u.peers = P /\ u.pending = tx.pending /\ u.pkt = tx.pkt
        /\ u.mapped = tx.mapped /\ u.coalesce = tx.coalesce /\ u.rpu_bmp = tx.rpu_bmp
    BY <1>1 DEF Typed, Config
  <2>. HIDE DEF u
  <2>. QED
    BY <2>2, <2>4, <2>5, <2>6 DEF SameFrames, SameCommands, SameBitmaps
<1>. QED
  BY <1>2, <1>3

(* A TX-done event takes the batch of its token off the RPU and the lists. *)
LEMMA DoneSteps ==
    ASSUME FieldsOK, Good(tx), NEW d \in Tokens, TxDoneEvent(d), HalMayFail = FALSE
    PROVE  \E u : /\ tx' = BuffReqFree(u, d, TRUE)
                  /\ Typed(u) /\ Taken(u, d) /\ Once(u)
                  /\ u.pending = tx.pending /\ u.pkt = [tx.pkt EXCEPT ![d] = <<>>]
                  /\ u.peers = tx.peers /\ u.rpu_bmp = tx.rpu_bmp
                  /\ u.in_rpu = tx.in_rpu \ {d} /\ u.busy = tx.busy
                  /\ u.outstanding = tx.outstanding /\ u.spare_map = tx.spare_map
                  /\ live' = live \ ToSet(tx.pkt[d])
                  /\ xmit' = xmit
                  /\ d \in tx.busy
<1>0. Typed(tx) /\ AllFit(tx) /\ Once(tx)
  BY DEF Good
<1>1. d \in tx.in_rpu
  BY DEF TxDoneEvent
<1>2. d \in tx.busy /\ tx.mapped[d] = tx.coalesce[d]
  BY <1>0, <1>1 DEF AllFit, Fits, Loaded, Blank
<1>3. tx.coalesce[d] \in Nat
  BY <1>0, Fields
<1>4. ~ (tx.mapped[d] < tx.coalesce[d])
  BY <1>2, <1>3
<1> DEFINE r == tx.in_rpu \ {d}
           m == [tx.mapped EXCEPT ![d] = 0]
           back == [tx EXCEPT !.in_rpu = r, !.mapped = m]
           k == [tx.pkt EXCEPT ![d] = <<>>]
           u == [back EXCEPT !.pkt = k]
<1>5. /\ tx' = BuffReqFree(u, d, TRUE)
      /\ live' = live \ ToSet(tx.pkt[d])
      /\ xmit' = xmit
  <2>1. back.pkt = tx.pkt
    BY <1>0 DEF Typed, Config
  <2>. QED BY <1>4, <2>1 DEF TxDoneEvent, Reachable
<1>6. r \in SUBSET Tokens /\ m \in [Tokens -> Nat] /\ m[d] = 0
      /\ (\A e \in Tokens \ {d} : m[e] = tx.mapped[e])
  BY <1>0, Fields
<1>7. k \in [Tokens -> Seq(Frames)] /\ k[d] = <<>>
      /\ (\A e \in Tokens \ {d} : k[e] = tx.pkt[e])
  BY <1>0, Fields
<1>. HIDE DEF m, k
<1>8. Typed(back)
  BY <1>0, <1>6, UpdDone
<1>9. Typed(u)
  <2>. HIDE DEF back
  <2>. QED BY <1>7, <1>8, UpdPkt
<1>10. /\ u.pending = tx.pending /\ u.pkt = k
       /\ u.peers = tx.peers /\ u.rpu_bmp = tx.rpu_bmp
       /\ u.in_rpu = r /\ u.busy = tx.busy
       /\ u.mapped = m /\ u.coalesce = tx.coalesce
       /\ u.outstanding = tx.outstanding /\ u.spare_map = tx.spare_map
  BY <1>0 DEF Typed, Config
<1>. HIDE DEF u, back
<1>11. Taken(u, d)
  BY <1>0, <1>2, <1>6, <1>7, <1>10 DEF AllFit, Taken, Fits, Loaded, Blank
<1>12. Once(u)
  <2>1. \A f, p, q, i : InQueue(u, f, p, q, i) => InQueue(tx, f, p, q, i)
    BY <1>10 DEF InQueue
  <2>2. ASSUME NEW f, NEW e \in Tokens, NEW i, OnToken(u, f, e, i)
        PROVE  OnToken(tx, f, e, i)
    <3>1. DOMAIN <<>> = {}
      OBVIOUS
    <3>2. e # d
      BY <1>7, <1>10, <2>2, <3>1 DEF OnToken
    <3>. QED BY <1>7, <1>10, <2>2, <3>2 DEF OnToken
  <2>. QED BY <1>0, <2>1, <2>2 DEF Once
<1>. QED
  BY <1>2, <1>5, <1>9, <1>10, <1>11, <1>12 DEF k

(* The invariant holds at the start, when the driver has no frame.         *)
LEMMA InitFrames == Init => FramesInv
<1>. SUFFICES ASSUME Init PROVE FramesInv
  OBVIOUS
<1>1. FieldsOK
  BY InitTyped
<1>2. Typed(tx)
  BY <1>1 DEF FieldsOK, Typed
<1>3. /\ tx.busy = {} /\ tx.in_rpu = {} /\ live = {} /\ xmit = [v \in Vifs |-> Idle]
      /\ \A p \in SwPeers, q \in Acs : tx.pending[p][q] = <<>>
      /\ \A d \in Tokens : tx.pkt[d] = <<>> /\ tx.mapped[d] = 0
  BY DEF Init
<1>4. DOMAIN <<>> = {}
  OBVIOUS
<1>5. /\ \A f, i : \A p \in SwPeers, q \in Acs : ~ InQueue(tx, f, p, q, i)
      /\ \A f, i : \A d \in Tokens : ~ OnToken(tx, f, d, i)
  BY <1>3, <1>4 DEF InQueue, OnToken
<1>6. Once(tx) /\ AllFit(tx)
  BY <1>3, <1>5 DEF Once, AllFit, Fits, Blank
<1>7. \A f : ~ Has(tx, f)
  BY <1>5 DEF Has, Carries, Waits
<1>8. \A f \in Frames, v \in Vifs : xmit[v].frame # f
  BY <1>3, ConstantsOK DEF ConstantsOK, Idle
<1>9. CallsApart
  BY <1>3, <1>7, <1>8 DEF CallsApart
<1>. QED
  BY <1>1, <1>2, <1>6, <1>9 DEF FramesInv, Good

(* A call that is over leaves the others apart.                            *)
LEMMA CallEnds ==
    ASSUME FramesInv, NEW v \in Vifs, xmit[v] # Idle, xmit' = [xmit EXCEPT ![v] = Idle]
    PROVE  /\ \A w \in Vifs : xmit'[w] = IF w = v THEN Idle ELSE xmit[w]
           /\ xmit[v].frame \in Frames
           /\ \A f \in Frames :
                 (\E w \in Vifs : xmit'[w].frame = f) <=>
                     (\E w \in Vifs : xmit[w].frame = f) /\ f # xmit[v].frame
<1>1. xmit \in [Vifs -> Calls] /\ None \notin Frames
  BY ConstantsOK DEF FramesInv, FieldsOK, ConstantsOK
<1>2. \A w \in Vifs : xmit'[w] = IF w = v THEN Idle ELSE xmit[w]
  BY <1>1
<1>3. \A w \in Vifs : xmit[w].frame \in Frames <=> xmit[w] # Idle
  BY <1>1 DEF Calls, Idle
<1>4. Idle.frame \notin Frames
  BY <1>1 DEF Idle
<1>5. \A w, y \in Vifs :
         xmit[w] # Idle /\ xmit[y] # Idle /\ xmit[w].frame = xmit[y].frame => w = y
  BY DEF FramesInv, CallsApart
<1>6. ASSUME NEW f \in Frames
      PROVE  (\E w \in Vifs : xmit'[w].frame = f) <=>
                 (\E w \in Vifs : xmit[w].frame = f) /\ f # xmit[v].frame
  <2>1. ASSUME NEW w \in Vifs, xmit'[w].frame = f
        PROVE  xmit[w].frame = f /\ f # xmit[v].frame
    <3>1. w # v
      BY <1>2, <1>4, <1>6, <2>1
    <3>2. xmit[w].frame = f
      BY <1>2, <2>1, <3>1
    <3>. QED BY <1>3, <1>5, <1>6, <3>1, <3>2
  <2>2. ASSUME NEW w \in Vifs, xmit[w].frame = f, f # xmit[v].frame
        PROVE  xmit'[w].frame = f
    BY <1>2, <2>2
  <2>. QED BY <2>1, <2>2
<1>. QED
  BY <1>2, <1>3, <1>6

(* nrf_wifi_fmac_start_xmit finds the peer.                                *)
LEMMA LookupFrames ==
    ASSUME FramesInv, NEW v \in Vifs, NEW f \in Frames, XmitLookup(v, f)
    PROVE  Good(tx') /\ CallsApart'
<1>1. /\ xmit[v] = Idle /\ f \notin live /\ live' = live \cup {f} /\ tx' = tx
  BY DEF XmitLookup
<1>2. PICK p, ac : xmit' = [xmit EXCEPT ![v] = [frame |-> f, peer |-> p, ac |-> ac]]
  BY DEF XmitLookup
<1> DEFINE c == [frame |-> f, peer |-> p, ac |-> ac]
<1>3. xmit \in [Vifs -> Calls] /\ None \notin Frames
  BY ConstantsOK DEF FramesInv, FieldsOK, ConstantsOK
<1>4. c.frame = f /\ c # Idle
  BY <1>3 DEF Idle
<1>. HIDE DEF c
<1>5. \A w \in Vifs : xmit'[w] = IF w = v THEN c ELSE xmit[w]
  BY <1>2, <1>3 DEF c
<1>6. ~ Has(tx, f) /\ \A w \in Vifs : xmit[w].frame # f
  BY <1>1 DEF FramesInv, CallsApart
<1>7. \A w \in Vifs : xmit'[w] # Idle => ~ Has(tx, xmit'[w].frame)
  BY <1>4, <1>5, <1>6 DEF FramesInv, CallsApart
<1>8. \A w, y \in Vifs :
         xmit'[w] # Idle /\ xmit'[y] # Idle /\ xmit'[w].frame = xmit'[y].frame => w = y
  BY <1>4, <1>5, <1>6 DEF FramesInv, CallsApart
<1>9. ASSUME NEW g \in Frames
      PROVE  g \in live' <=> Has(tx, g) \/ \E w \in Vifs : xmit'[w].frame = g
  <2>1. g \in live <=> Has(tx, g) \/ \E w \in Vifs : xmit[w].frame = g
    BY DEF FramesInv, CallsApart
  <2>2. xmit[v].frame \notin Frames
    BY <1>1, <1>3 DEF Idle
  <2>. QED BY <1>1, <1>4, <1>5, <1>9, <2>1, <2>2
<1>. QED
  BY <1>1, <1>7, <1>8, <1>9 DEF FramesInv, CallsApart

(* It queues the frame, or frees it.                                       *)
LEMMA XmitFrames ==
    ASSUME FramesInv, NEW v \in Vifs, XmitTx(v), HalMayFail = FALSE
    PROVE  Good(tx') /\ CallsApart'
<1> DEFINE x == xmit[v]
           e == Enqueue(tx, x.frame, x.ac, x.peer, TRUE)
           r == FmacTx(tx, x.frame, x.ac, x.peer, TRUE)
<1>0. Good(tx) /\ CallsApart /\ xmit \in [Vifs -> Calls]
  BY DEF FramesInv, FieldsOK
<1>1. /\ x # Idle /\ xmit' = [xmit EXCEPT ![v] = Idle]
      /\ tx' = r.tx
      /\ live' = IF r.status = "fail" THEN live \ {x.frame} ELSE live
  BY DEF XmitTx, Reachable
<1>2. /\ x.frame \in Frames /\ x.ac \in Acs /\ x.peer \in SwPeers
      /\ x.peer \in Slots => x.ac \in Unicast
      /\ ~ Has(tx, x.frame)
  BY <1>0, <1>1, Sets DEF Calls, CallsApart
<1>3. /\ Good(r.tx)
      /\ \/ r.status = "fail" /\ r.tx = tx
         \/ /\ r.status # "fail"
            /\ Enters(tx, e, x.frame, x.ac)
            /\ Sends(e, r.tx, x.ac)
  BY <1>0, <1>2, FmacTxFits
<1>4. /\ \A w \in Vifs : xmit'[w] = IF w = v THEN Idle ELSE xmit[w]
      /\ \A f \in Frames :
            (\E w \in Vifs : xmit'[w].frame = f) <=>
                (\E w \in Vifs : xmit[w].frame = f) /\ f # x.frame
  BY <1>1, CallEnds
<1>5. \E w \in Vifs : xmit[w].frame = x.frame
  OBVIOUS
<1>6. \A w, y \in Vifs :
         xmit'[w] # Idle /\ xmit'[y] # Idle /\ xmit'[w].frame = xmit'[y].frame => w = y
  BY <1>0, <1>4 DEF CallsApart
<1>7. \A w \in Vifs : xmit'[w] # Idle => /\ xmit'[w].frame \in Frames
                                          /\ xmit'[w].frame # x.frame
                                          /\ ~ Has(tx, xmit'[w].frame)
  <2>1. \A w \in Vifs : xmit[w] # Idle => xmit[w].frame \in Frames
    BY <1>0 DEF Calls
  <2>. QED BY <1>0, <1>1, <1>4, <2>1 DEF CallsApart
<1>. HIDE DEF x, e, r
<1>8. CASE r.status = "fail" /\ r.tx = tx
  <2>1. \A f \in Frames : f \in live' <=> Has(tx', f) \/ \E w \in Vifs : xmit'[w].frame = f
    BY <1>0, <1>1, <1>2, <1>4, <1>8 DEF CallsApart
  <2>. QED
    BY <1>1, <1>3, <1>6, <1>7, <1>8, <2>1 DEF CallsApart
<1>9. CASE r.status # "fail" /\ Enters(tx, e, x.frame, x.ac) /\ Sends(e, r.tx, x.ac)
  <2>1. \A g \in Frames : Has(e, g) <=> Has(tx, g) \/ g = x.frame
    BY <1>2, <1>9 DEF Enters, Has
  <2>2. \A g \in Frames : Has(tx', g) <=> Has(tx, g) \/ g = x.frame
    BY <1>1, <1>2, <1>9, <2>1, SendsHas
  <2>3. \A f \in Frames : f \in live' <=> Has(tx', f) \/ \E w \in Vifs : xmit'[w].frame = f
    BY <1>0, <1>1, <1>4, <1>5, <1>9, <2>2 DEF CallsApart
  <2>. QED
    BY <1>1, <1>3, <1>6, <1>7, <2>2, <2>3 DEF CallsApart
<1>. QED
  BY <1>3, <1>8, <1>9

(* The frames of a batch that is done are freed.                           *)
LEMMA DoneFrames ==
    ASSUME FramesInv, NEW d \in Tokens, TxDoneEvent(d), HalMayFail = FALSE
    PROVE  Good(tx') /\ CallsApart'
<1>0. Good(tx) /\ CallsApart /\ FieldsOK /\ xmit \in [Vifs -> Calls]
  BY DEF FramesInv, FieldsOK
<1>1. PICK u : /\ tx' = BuffReqFree(u, d, TRUE)
               /\ Typed(u) /\ Taken(u, d) /\ Once(u)
               /\ u.pending = tx.pending /\ u.pkt = [tx.pkt EXCEPT ![d] = <<>>]
               /\ live' = live \ ToSet(tx.pkt[d])
               /\ xmit' = xmit
  BY <1>0, DoneSteps
<1>2. /\ Typed(tx') /\ AllFit(tx') /\ Once(tx')
      /\ \/ SameFrames(u, tx')
         \/ \E c \in Acs : Loads(u, tx', d, c)
  BY <1>1, BuffReqFreeFits
<1>3. \A f \in Frames : Has(u, f) <=> Has(tx', f)
  BY <1>2, SameLoads, LoadsHas
<1>4. \A f \in Frames : f \in ToSet(tx.pkt[d]) <=> Carries(tx, f, d)
  <2>1. tx.pkt[d] \in Seq(Frames)
    BY <1>0, Fields DEF Good
  <2>2. DOMAIN tx.pkt[d] \subseteq Nat
    BY <2>1, LenProperties
  <2>. QED BY <2>2 DEF ToSet, Carries, OnToken
<1>5. ASSUME NEW f \in Frames
      PROVE  Has(u, f) <=> Has(tx, f) /\ ~ Carries(tx, f, d)
  <2>1. \A q \in Acs : Waits(u, f, q) <=> Waits(tx, f, q)
    BY <1>1 DEF Waits, InQueue
  <2>2. tx.pkt \in [Tokens -> Seq(Frames)]
    BY <1>0, Fields DEF Good
  <2>3. \A e \in Tokens \ {d} : Carries(u, f, e) <=> Carries(tx, f, e)
    BY <1>1, <2>2 DEF Carries, OnToken
  <2>4. ~ Carries(u, f, d)
    <3>1. DOMAIN <<>> = {}
      OBVIOUS
    <3>2. u.pkt[d] = <<>>
      BY <1>1, <2>2
    <3>. QED BY <3>1, <3>2 DEF Carries, OnToken
  <2>5. Carries(tx, f, d) => /\ \A e \in Tokens \ {d} : ~ Carries(tx, f, e)
                             /\ \A q \in Acs : ~ Waits(tx, f, q)
    BY <1>0 DEF Good, Once, Carries, Waits
  <2>. QED BY <2>1, <2>3, <2>4, <2>5 DEF Has
<1>6. \A w \in Vifs : xmit[w] # Idle => xmit[w].frame \in Frames
  BY <1>0 DEF Calls
<1>7. \A w \in Vifs : xmit[w].frame \in Frames => xmit[w] # Idle
  BY <1>0, ConstantsOK DEF Calls, Idle, ConstantsOK
<1>8. \A w \in Vifs : xmit'[w] # Idle => ~ Has(tx', xmit'[w].frame)
  BY <1>0, <1>1, <1>3, <1>5, <1>6 DEF CallsApart
<1>9. ASSUME NEW f \in Frames
      PROVE  f \in live' <=> Has(tx', f) \/ \E w \in Vifs : xmit'[w].frame = f
  <2>1. f \in live' <=> f \in live /\ ~ Carries(tx, f, d)
    BY <1>1, <1>4
  <2>2. Has(tx', f) <=> Has(tx, f) /\ ~ Carries(tx, f, d)
    BY <1>3, <1>5
  <2>3. (\E w \in Vifs : xmit[w].frame = f) => ~ Carries(tx, f, d)
    BY <1>0, <1>7 DEF CallsApart, Has
  <2>4. f \in live <=> Has(tx, f) \/ \E w \in Vifs : xmit[w].frame = f
    BY <1>0 DEF CallsApart
  <2>. QED BY <1>1, <2>1, <2>2, <2>3, <2>4
<1>. QED
  BY <1>0, <1>1, <1>2, <1>8, <1>9 DEF CallsApart, Good

(* Every action keeps the invariant.                                       *)
LEMMA NextFrames ==
    ASSUME HalMayFail = FALSE
    PROVE  FramesInv /\ [Next]_vars => FramesInv'
<1>. SUFFICES ASSUME FramesInv, [Next]_vars PROVE FramesInv'
  OBVIOUS
<1>0. FieldsOK' /\ FieldsOK /\ Good(tx) /\ CallsApart
  BY NextTyped DEF FramesInv
<1>00. Typed(tx')
  BY <1>0 DEF FieldsOK, Typed
<1>. SUFFICES Good(tx') /\ CallsApart'
  BY <1>0 DEF FramesInv
<1>1. ASSUME NEW v \in Vifs, NEW f \in Frames, XmitLookup(v, f)
      PROVE  Good(tx') /\ CallsApart'
  BY <1>1, LookupFrames
<1>2. ASSUME NEW v \in Vifs, XmitTx(v)
      PROVE  Good(tx') /\ CallsApart'
  BY <1>2, XmitFrames
<1>3. ASSUME NEW d \in Tokens, TxDoneEvent(d)
      PROVE  Good(tx') /\ CallsApart'
  BY <1>3, DoneFrames
<1>4. ASSUME NEW a \in Stations, (\E n \in 1 .. MaxPsTokens : GetFrames(a, n)) \/ WakeUp(a)
      PROVE  Good(tx') /\ CallsApart'
  <2>1. PICK s : /\ tx' = ServeAll(s, TRUE)
                 /\ Typed(s)
                 /\ SameFrames(tx, s) /\ SameTokens(tx, s) /\ SameCommands(tx, s)
                 /\ xmit' = xmit /\ live' = live
    BY <1>0, <1>4, WakeSteps
  <2>2. Good(s) /\ \A f : Has(tx, f) <=> Has(s, f)
    BY <1>0, <2>1, SameGood
  <2>3. /\ Good(tx')
        /\ \E u, v, w : /\ Sends(s, u, VO) /\ Sends(u, v, VI)
                        /\ Sends(v, w, BE) /\ Sends(w, tx', BK)
    BY <2>1, <2>2, ServeAllFits
  <2>4. VO \in Acs /\ VI \in Acs /\ BE \in Acs /\ BK \in Acs
    BY Sets DEF VO, VI, BE, BK
  <2>5. \A f \in Frames : Has(tx, f) <=> Has(tx', f)
    BY <2>2, <2>3, <2>4, SendsHas
  <2>6. \A w \in Vifs : xmit[w] # Idle => xmit[w].frame \in Frames
    BY <1>0 DEF FieldsOK, Calls
  <2>. QED
    BY <1>0, <2>1, <2>3, <2>5, <2>6 DEF CallsApart
<1>5. ASSUME \/ \E a \in Stations : Doze(a) \/ PeerAdd(a) \/ PeerRemove(a)
             \/ PeersFlush
      PROVE  Good(tx') /\ CallsApart'
  <2>1. /\ SameFrames(tx, tx') /\ SameTokens(tx, tx') /\ SameCommands(tx, tx')
        /\ xmit' = xmit /\ live' = live
    BY <1>0, <1>5, PeerSteps
  <2>2. Good(tx') /\ \A f : Has(tx, f) <=> Has(tx', f)
    BY <1>0, <1>00, <2>1, SameGood
  <2>. QED
    BY <1>0, <2>1, <2>2 DEF CallsApart
<1>6. CASE UNCHANGED vars
  BY <1>0, <1>6 DEF vars, CallsApart
<1>. QED
  BY <1>1, <1>2, <1>3, <1>4, <1>5, <1>6 DEF Next

(* The invariant is about batches ...                                      *)
LEMMA FramesInvBatches == FramesInv => BatchOnToken
<1>. SUFFICES ASSUME FramesInv, NEW d \in Tokens
              PROVE  IF d \in tx.busy
                     THEN /\ d \in tx.in_rpu
                          /\ tx.pkt[d] # <<>>
                          /\ tx.mapped[d] = Len(tx.pkt[d])
                          /\ tx.coalesce[d] = Len(tx.pkt[d])
                          /\ \/ Len(tx.pkt[d]) = 1
                             \/ Aggregates(tx.pkt[d], Len(tx.pkt[d]))
                     ELSE d \notin tx.in_rpu /\ tx.pkt[d] = <<>> /\ tx.mapped[d] = 0
  BY DEF BatchOnToken
<1>1. Fits(tx, d)
  BY DEF FramesInv, Good, AllFit
<1>2. CASE d \in tx.busy
  <2>1. Loaded(tx, d)
    BY <1>1, <1>2 DEF Fits
  <2>2. tx.pkt[d] # <<>>
    BY <2>1, LoadNotEmpty DEF Loaded
  <2>. QED
    BY <1>2, <2>1, <2>2 DEF Loaded, IsLoad
<1>3. CASE d \notin tx.busy
  BY <1>1, <1>3 DEF Fits, Blank
<1>. QED
  BY <1>2, <1>3

(* ... and about the places of the frames.                                 *)
LEMMA FramesInvCustody == FramesInv => FrameCustody
<1>. SUFFICES ASSUME FramesInv, NEW f \in Frames
              PROVE  Cardinality(Places(f)) = IF f \in live THEN 1 ELSE 0
  BY DEF FrameCustody
<1>0. Once(tx) /\ CallsApart /\ Typed(tx) /\ xmit \in [Vifs -> Calls] /\ None \notin Frames
  BY ConstantsOK DEF FramesInv, Good, FieldsOK, ConstantsOK
<1>1. \A v \in Vifs : xmit[v].frame = f => xmit[v] # Idle
  BY <1>0 DEF Idle
<1>2. \A p \in SwPeers, q \in Acs : DOMAIN tx.pending[p][q] \subseteq Nat
  <2>. TAKE p \in SwPeers, q \in Acs
  <2>1. tx.pending[p][q] \in Seq(Frames)
    BY <1>0, Fields
  <2>. QED BY <2>1, LenProperties
<1>3. \A d \in Tokens : DOMAIN tx.pkt[d] \subseteq Nat
  <2>. TAKE d \in Tokens
  <2>1. tx.pkt[d] \in Seq(Frames)
    BY <1>0, Fields
  <2>. QED BY <2>1, LenProperties
<1>4. ASSUME NEW x
      PROVE  x \in Places(f) <=>
               \/ \E v \in Vifs : x = <<"call", v>> /\ xmit[v].frame = f
               \/ \E p \in SwPeers, q \in Acs, i \in Nat :
                     x = <<"pending", p, q, i>> /\ InQueue(tx, f, p, q, i)
               \/ \E d \in Tokens, i \in Nat :
                     x = <<"token", d, i>> /\ OnToken(tx, f, d, i)
  <2> DEFINE Q(p, q) == {<<"pending", p, q, i>> :
                            i \in {i \in DOMAIN tx.pending[p][q] : tx.pending[p][q][i] = f}}
             T(d) == {<<"token", d, i>> :
                        i \in {i \in DOMAIN tx.pkt[d] : tx.pkt[d][i] = f}}
             C == {<<"call", v>> : v \in {v \in Vifs : xmit[v].frame = f}}
  <2> DEFINE QS == {Q(p, q) : p \in SwPeers, q \in Acs}
             TS == {T(d) : d \in Tokens}
  <2>1. Places(f) = C \cup (UNION QS) \cup (UNION TS)
    BY DEF Places
  <2>2. x \in C <=> \E v \in Vifs : x = <<"call", v>> /\ xmit[v].frame = f
    OBVIOUS
  <2>3. ASSUME NEW p \in SwPeers, NEW q \in Acs
        PROVE  x \in Q(p, q) <=>
                 \E i \in Nat : x = <<"pending", p, q, i>> /\ InQueue(tx, f, p, q, i)
    BY <1>2 DEF InQueue
  <2>4. ASSUME NEW d \in Tokens
        PROVE  x \in T(d) <=> \E i \in Nat : x = <<"token", d, i>> /\ OnToken(tx, f, d, i)
    BY <1>3 DEF OnToken
  <2>. HIDE DEF Q, T, C
  <2>8. /\ \A s \in QS : \E p \in SwPeers, q \in Acs : s = Q(p, q)
        /\ \A p \in SwPeers, q \in Acs : Q(p, q) \in QS
    OBVIOUS
  <2>9. /\ \A s \in TS : \E d \in Tokens : s = T(d)
        /\ \A d \in Tokens : T(d) \in TS
    OBVIOUS
  <2>. HIDE DEF QS, TS
  <2>10. x \in UNION QS <=> \E p \in SwPeers, q \in Acs : x \in Q(p, q)
    BY <2>8
  <2>11. x \in UNION TS <=> \E d \in Tokens : x \in T(d)
    BY <2>9
  <2>5. x \in Places(f) <=> \/ x \in C
                            \/ \E p \in SwPeers, q \in Acs : x \in Q(p, q)
                            \/ \E d \in Tokens : x \in T(d)
    <3>1. x \in Places(f) <=> x \in C \/ x \in UNION QS \/ x \in UNION TS
      BY <2>1
    <3>. QED
      BY <3>1, <2>10, <2>11, Zenon
  <2>6. (\E p \in SwPeers, q \in Acs : x \in Q(p, q)) <=>
           \E p \in SwPeers, q \in Acs, i \in Nat :
              x = <<"pending", p, q, i>> /\ InQueue(tx, f, p, q, i)
    BY <2>3
  <2>7. (\E d \in Tokens : x \in T(d)) <=>
           \E d \in Tokens, i \in Nat : x = <<"token", d, i>> /\ OnToken(tx, f, d, i)
    BY <2>4
  <2>. QED
    BY <2>2, <2>5, <2>6, <2>7
<1>5. ASSUME NEW x \in Places(f), NEW y \in Places(f) PROVE x = y
  <2>1. ASSUME NEW v \in Vifs, xmit[v].frame = f
        PROVE  /\ \A w \in Vifs : xmit[w].frame = f => w = v
               /\ \A p \in SwPeers, q \in Acs, i \in Nat : ~ InQueue(tx, f, p, q, i)
               /\ \A d \in Tokens, i \in Nat : ~ OnToken(tx, f, d, i)
    BY <1>0, <1>1, <2>1 DEF CallsApart, Has, Carries, Waits
  <2>2. CASE \E v \in Vifs : x = <<"call", v>> /\ xmit[v].frame = f
    BY <1>4, <2>1, <2>2
  <2>3. CASE \E v \in Vifs : y = <<"call", v>> /\ xmit[v].frame = f
    BY <1>4, <2>1, <2>3
  <2>4. CASE /\ \E p \in SwPeers, q \in Acs, i \in Nat :
                   x = <<"pending", p, q, i>> /\ InQueue(tx, f, p, q, i)
             /\ \E p \in SwPeers, q \in Acs, i \in Nat :
                   y = <<"pending", p, q, i>> /\ InQueue(tx, f, p, q, i)
    BY <1>0, <2>4 DEF Once
  <2>5. CASE /\ \E d \in Tokens, i \in Nat : x = <<"token", d, i>> /\ OnToken(tx, f, d, i)
             /\ \E d \in Tokens, i \in Nat : y = <<"token", d, i>> /\ OnToken(tx, f, d, i)
    BY <1>0, <2>5 DEF Once
  <2>6. CASE /\ \E p \in SwPeers, q \in Acs, i \in Nat : InQueue(tx, f, p, q, i)
             /\ \E d \in Tokens, i \in Nat : OnToken(tx, f, d, i)
    BY <1>0, <2>6 DEF Once
  <2>. QED
    BY <1>4, <1>5, <2>2, <2>3, <2>4, <2>5, <2>6
<1>6. f \in live <=> Places(f) # {}
  <2>1. f \in live <=> Has(tx, f) \/ \E v \in Vifs : xmit[v].frame = f
    BY <1>0 DEF CallsApart
  <2>2. Has(tx, f) <=> \/ \E p \in SwPeers, q \in Acs, i \in Nat : InQueue(tx, f, p, q, i)
                       \/ \E d \in Tokens, i \in Nat : OnToken(tx, f, d, i)
    BY DEF Has, Carries, Waits
  <2>3. ASSUME f \in live PROVE Places(f) # {}
    <3>1. CASE \E v \in Vifs : xmit[v].frame = f
      BY <1>4, <3>1
    <3>2. CASE \E p \in SwPeers, q \in Acs, i \in Nat : InQueue(tx, f, p, q, i)
      BY <1>4, <3>2
    <3>3. CASE \E d \in Tokens, i \in Nat : OnToken(tx, f, d, i)
      BY <1>4, <3>3
    <3>. QED BY <2>1, <2>2, <2>3, <3>1, <3>2, <3>3
  <2>4. ASSUME Places(f) # {} PROVE f \in live
    <3>1. PICK x : x \in Places(f)
      BY <2>4
    <3>. QED BY <1>4, <2>1, <2>2, <3>1
  <2>. QED BY <2>3, <2>4
<1>7. CASE f \in live
  <2>1. PICK x : x \in Places(f)
    BY <1>6, <1>7
  <2>2. Places(f) = {x}
    BY <1>5, <2>1
  <2>. QED BY <1>7, <2>2, FS_Singleton
<1>8. CASE f \notin live
  BY <1>6, <1>8, FS_EmptySet
<1>. QED
  BY <1>7, <1>8

(* While the RPU can be reached every token in use is at the RPU with a    *)
(* batch that is mapped, counted, alike and within the limits, and a free  *)
(* token has nothing attached: no path through tx_pending_process,         *)
(* tx_cmd_init and tx_done_process leaves a token half set up.             *)
THEOREM TokensCarryBatches ==
    ASSUME HalMayFail = FALSE
    PROVE  Spec => []BatchOnToken
<1>. QED
  BY InitFrames, NextFrames, FramesInvBatches, PTL DEF Spec

(* While the RPU can be reached no frame is leaked, none is freed while it  *)
(* is queued and none is queued twice, for any frames, stations that come   *)
(* and go, concurrent calls and group traffic.                             *)
THEOREM FramesInCustody ==
    ASSUME HalMayFail = FALSE
    PROVE  Spec => []FrameCustody
<1>. QED
  BY InitFrames, NextFrames, FramesInvCustody, PTL DEF Spec

-----------------------------------------------------------------------------
(* The bitmaps of pending traffic.                                         *)

LEMMA NextExact ==
    ASSUME HalMayFail = FALSE, PeersLeave = FALSE
    PROVE  FramesInv /\ Exact(tx) /\ [Next]_vars => Exact(tx)'
<1>. SUFFICES ASSUME FramesInv, Exact(tx), [Next]_vars PROVE Exact(tx')
  BY DEF Exact
<1>0. FieldsOK /\ Good(tx) /\ CallsApart /\ Typed(tx) /\ xmit \in [Vifs -> Calls]
  BY DEF FramesInv, Good, FieldsOK
<1>1. ASSUME NEW v \in Vifs, NEW f \in Frames, XmitLookup(v, f)
      PROVE  Exact(tx')
  BY <1>1 DEF XmitLookup
<1>2. ASSUME NEW v \in Vifs, XmitTx(v)
      PROVE  Exact(tx')
  <2> DEFINE x == xmit[v]
             r == FmacTx(tx, x.frame, x.ac, x.peer, TRUE)
  <2>1. x # Idle /\ tx' = r.tx
    BY <1>2 DEF XmitTx, Reachable
  <2>2. /\ x.frame \in Frames /\ x.ac \in Acs /\ x.peer \in SwPeers
        /\ x.peer \in Slots => x.ac \in Unicast
        /\ ~ Has(tx, x.frame)
    BY <1>0, <2>1, Sets DEF Calls, CallsApart
  <2>3. Exact(r.tx)
    BY <1>0, <2>2, FmacTxFits
  <2>. QED BY <2>1, <2>3
<1>3. ASSUME NEW d \in Tokens, TxDoneEvent(d)
      PROVE  Exact(tx')
  <2>1. PICK u : /\ tx' = BuffReqFree(u, d, TRUE)
                 /\ Typed(u) /\ Taken(u, d) /\ Once(u)
                 /\ u.pending = tx.pending
                 /\ u.peers = tx.peers /\ u.rpu_bmp = tx.rpu_bmp
    BY <1>0, <1>3, DoneSteps
  <2>2. Exact(u)
    BY <2>1, SameExact DEF SameBitmaps
  <2>. QED BY <2>1, <2>2, BuffReqFreeFits
<1>4. ASSUME NEW a \in Stations, (\E n \in 1 .. MaxPsTokens : GetFrames(a, n)) \/ WakeUp(a)
      PROVE  Exact(tx')
  <2>1. PICK u : /\ tx' = ServeAll(u, TRUE)
                 /\ Typed(u)
                 /\ SameFrames(tx, u) /\ SameTokens(tx, u) /\ SameCommands(tx, u)
                 /\ SameBitmaps(tx, u)
    BY <1>0, <1>4, WakeSteps
  <2>2. Good(u)
    BY <1>0, <2>1, SameGood
  <2>3. Exact(u)
    BY <2>1, SameExact DEF SameFrames
  <2>. QED BY <2>1, <2>2, <2>3, ServeAllFits
<1>5. ASSUME NEW a \in Stations, Doze(a) \/ PeerAdd(a)
      PROVE  Exact(tx')
  <2>1. tx.peers \in [SwPeers -> Peer] /\ \A p \in Slots : p \in SwPeers
    BY <1>0, Fields, Sets
  <2>2. \E p \in SwPeers : \/ tx' = [tx EXCEPT !.peers[p].ps = TRUE]
                           \/ tx' = [tx EXCEPT !.peers[p].sta = a]
    <3>1. CASE Doze(a)
      <4>1. PeerGetId(tx, a) \in Slots \cup {MaxPeers, None} /\ PeerGetId(tx, a) # None
        BY <3>1, PeerGetIdTyped DEF Doze
      <4>2. PeerGetId(tx, a) \in SwPeers
        BY <4>1, Sets
      <4>. QED BY <3>1, <4>2 DEF Doze
    <3>2. CASE PeerAdd(a)
      BY <2>1, <3>2 DEF PeerAdd
    <3>. QED BY <1>5, <3>1, <3>2
  <2>3. SameBitmaps(tx, tx') /\ tx'.pending = tx.pending
    <3>1. PICK p \in SwPeers : \/ tx' = [tx EXCEPT !.peers[p].ps = TRUE]
                               \/ tx' = [tx EXCEPT !.peers[p].sta = a]
      BY <2>2
    <3>2. /\ tx'.pending = tx.pending /\ tx'.rpu_bmp = tx.rpu_bmp
          /\ \/ tx'.peers = [tx.peers EXCEPT ![p].ps = TRUE]
             \/ tx'.peers = [tx.peers EXCEPT ![p].sta = a]
      BY <1>0, <3>1 DEF Typed, Config
    <3>3. \A r \in SwPeers : tx.peers[r] \in Peer
      BY <2>1
    <3>4. \A r \in SwPeers : tx'.peers[r].bmp = tx.peers[r].bmp
      BY <2>1, <3>2, <3>3 DEF Peer
    <3>. QED BY <3>2, <3>4 DEF SameBitmaps
  <2>. QED BY <2>3, SameExact
<1>6. ASSUME NEW a \in Stations, PeerRemove(a) PROVE FALSE
  BY <1>6 DEF PeerRemove
<1>7. CASE PeersFlush
  BY <1>7 DEF PeersFlush
<1>8. CASE UNCHANGED vars
  BY <1>8 DEF vars
<1>. QED
  BY <1>1, <1>2, <1>3, <1>4, <1>5, <1>6, <1>7, <1>8 DEF Next

LEMMA InitExact == Init => Exact(tx)
<1>. SUFFICES ASSUME Init PROVE Exact(tx)
  OBVIOUS
<1>1. \A p \in Slots : p \in SwPeers
  BY Sets
<1>2. \A p \in SwPeers, q \in Acs : tx.pending[p][q] = <<>>
  BY DEF Init
<1>3. \A p \in Slots : tx.peers[p].bmp = {} /\ tx.rpu_bmp[p] = {}
  BY <1>1 DEF Init, NoPeer
<1>4. \A p \in Slots, q \in Unicast : ~ HasPending(tx, p, q)
  BY <1>1, <1>2, Sets DEF HasPending
<1>. QED
  BY <1>3, <1>4 DEF Exact

(* While the stations stay and the RPU can be reached, the RPU advertises   *)
(* the pending traffic of every station exactly: no queue is filled or      *)
(* emptied, by a call, a TX-done event or a wake-up, without its bit.       *)
THEOREM TrafficIsAdvertised ==
    ASSUME HalMayFail = FALSE, PeersLeave = FALSE
    PROVE  Spec => []PendBmpAccurate
<1>1. Init => FramesInv /\ Exact(tx)
  BY InitFrames, InitExact
<1>2. FramesInv /\ Exact(tx) /\ [Next]_vars => (FramesInv /\ Exact(tx))'
  <2>1. FramesInv /\ [Next]_vars => FramesInv'
    BY NextFrames, Zenon
  <2>2. FramesInv /\ Exact(tx) /\ [Next]_vars => Exact(tx)'
    BY NextExact, Zenon
  <2>. QED BY <2>1, <2>2, PTL
<1>3. FramesInv /\ Exact(tx) => PendBmpAccurate
  BY DEF Exact, PendBmpAccurate
<1>. QED
  BY <1>1, <1>2, <1>3, PTL DEF Spec

-----------------------------------------------------------------------------
(* No frame is stranded.                                                   *)

AllServed(s) == \A q \in Unicast : Served(s, q)

(* Only the stations of an access point doze. *)
NoneDozes(s) == ApMode = FALSE => \A p \in SwPeers : ~ s.peers[p].ps

Attended == AllServed(tx) /\ NoneDozes(tx)

(* A set of categories that is not empty has a highest one. *)
LEMMA HighestExists ==
    ASSUME NEW T \in SUBSET Unicast, T # {}
    PROVE  \E c \in T : \A b \in T : b <= c
<1>1. Unicast = {0, 1, 2, 3}
  BY Sets
<1>2. \A c \in T : c \in {0, 1, 2, 3}
  BY <1>1
<1>3. PICK c \in T : \A b \in T : 3 - c <= 3 - b
  <2> DEFINE W == {3 - c : c \in T}
  <2>1. W \in SUBSET Nat /\ W # {}
    BY <1>2
  <2>2. PICK x \in W : \A y \in W : x <= y
    <3>. HIDE DEF W
    <3>. QED BY <2>1, LeastExists
  <2>. QED BY <2>2
<1>4. \A b \in T : b <= c
  BY <1>2, <1>3
<1>. QED
  BY <1>4

(* A token tx_buff_req_free gives back serves nobody. *)
LEMMA NoneHighest ==
    ASSUME NEW s, Typed(s), NEW d \in Tokens, \A c \in Acs : ~ IsHighest(s, d, c),
           NEW q \in Unicast, q \in ServedAcs(d)
    PROVE  ~ Serviceable(s, q)
<1>. SUFFICES ASSUME Serviceable(s, q) PROVE FALSE
  OBVIOUS
<1>1. CASE d \in Spare
  <2> DEFINE T == {c \in Unicast : Serviceable(s, c)}
  <2>1. PICK c \in T : \A b \in T : b <= c
    <3>1. T \in SUBSET Unicast /\ T # {}
      OBVIOUS
    <3>. HIDE DEF T
    <3>. QED BY <3>1, HighestExists
  <2>2. IsHighest(s, d, c)
    BY <1>1, <2>1 DEF IsHighest, ServedAcs
  <2>3. c \in Acs
    BY <2>1, Sets
  <2>. QED BY <2>2, <2>3
<1>2. CASE d \notin Spare
  <2>1. ServedAcs(d) = {q}
    BY <1>2 DEF ServedAcs
  <2>2. q <= q /\ q \in Acs
    BY Sets
  <2>3. IsHighest(s, d, q)
    BY <2>1, <2>2 DEF IsHighest
  <2>. QED BY <2>2, <2>3
<1>. QED
  BY <1>1, <1>2

(* tx_process holds a frame back for its dozing peer or while a token that  *)
(* serves the category is out.                                             *)
LEMMA HeldBackServed ==
    ASSUME NEW s, Good(s), Counted(s), NEW ac \in Unicast, NEW p \in SwPeers, NEW f,
           HoldBack(s, f, ac, p),
           \A r \in Slots \ {p} : CanServe(s, r, ac) => \E d \in s.in_rpu : ac \in ServedAcs(d)
    PROVE  Served(s, ac)
<1>1. CASE s.peers[p].ps
  BY <1>1 DEF Served, CanServe
<1>2. CASE s.outstanding[ac] >= PerAc
  <2>0. ac \in Acs
    BY Sets
  <2>1. s.outstanding[ac] = Cardinality(HeldBy(s, ac))
    BY <2>0 DEF Counted
  <2>2. HeldBy(s, ac) # {}
    <3>1. PerAc \in Nat /\ PerAc > 0
      BY ConstantsOK DEF ConstantsOK
    <3>2. Cardinality({}) = 0
      BY FS_EmptySet
    <3>. QED BY <1>2, <2>1, <3>1, <3>2
  <2>3. PICK d \in s.busy : TxDoneQueue(s, d) = ac
    BY <2>2 DEF HeldBy
  <2>4. d \in Tokens
    BY <2>3, Fields DEF Good
  <2>5. d \in s.in_rpu
    BY <2>3, <2>4 DEF Good, AllFit, Fits, Loaded
  <2>6. ac \in ServedAcs(d)
    BY <2>3 DEF TxDoneQueue, ServedAcs
  <2>. QED BY <2>5, <2>6 DEF Served
<1>. QED
  BY <1>1, <1>2 DEF HoldBack

LEMMA XmitAttends ==
    ASSUME FramesInv, TokenInv, Attended, NEW v \in Vifs, XmitTx(v), HalMayFail = FALSE,
           Counted(tx')
    PROVE  AllServed(tx') /\ NoneDozes(tx')
<1> DEFINE x == xmit[v]
           e == Enqueue(tx, x.frame, x.ac, x.peer, TRUE)
           r == FmacTx(tx, x.frame, x.ac, x.peer, TRUE)
<1>0. Good(tx) /\ CallsApart /\ xmit \in [Vifs -> Calls] /\ UnicastCalls
  BY DEF FramesInv, FieldsOK, TokenInv
<1>1. x # Idle /\ tx' = r.tx
  BY DEF XmitTx, Reachable
<1>2. /\ x.frame \in Frames /\ x.ac \in Acs /\ x.peer \in SwPeers
      /\ x.peer \in Slots => x.ac \in Unicast
      /\ ~ Has(tx, x.frame)
      /\ x.ac \in Unicast
  BY <1>0, <1>1, Sets DEF Calls, CallsApart, UnicastCalls
<1>3. /\ Good(r.tx) /\ SameStations(tx, r.tx)
      /\ \/ r.tx = tx
         \/ /\ SameTokens(tx, e) /\ Sends(e, r.tx, x.ac) /\ Good(e)
            /\ \/ Served(r.tx, x.ac)
               \/ r.tx = e /\ HoldBack(e, x.frame, x.ac, x.peer)
  BY <1>0, <1>2, FmacTxFits
<1>4. /\ SameStations(tx, e)
      /\ \A p \in SwPeers, b \in Acs :
            (p # x.peer \/ b # x.ac) => e.pending[p][b] = tx.pending[p][b]
  <2>1. Typed(tx) /\ Once(tx)
    BY <1>0 DEF Good
  <2>2. PICK f \in Frames, ac \in Acs, p \in SwPeers :
           /\ f = x.frame /\ ac = x.ac /\ p = x.peer
           /\ p \in Slots => ac \in Unicast
           /\ ~ Has(tx, f)
    BY <1>2
  <2>3. e = Enqueue(tx, f, ac, p, TRUE)
    BY <2>2
  <2>. HIDE DEF e, x
  <2>4. SameStations(tx, e) /\ SameElsewhere(tx, e, p, ac)
    BY <2>1, <2>2, <2>3, EnqueueEnters
  <2>. QED BY <2>2, <2>4 DEF SameElsewhere
<1>. HIDE DEF x, e, r
<1>5. NoneDozes(tx')
  BY <1>1, <1>3 DEF NoneDozes, Attended, SameStations
<1>6. CASE r.tx = tx
  BY <1>1, <1>5, <1>6 DEF Attended
<1>7. CASE /\ SameTokens(tx, e) /\ Sends(e, r.tx, x.ac) /\ Good(e)
           /\ \/ Served(r.tx, x.ac)
              \/ r.tx = e /\ HoldBack(e, x.frame, x.ac, x.peer)
  <2>0. \A p \in Slots : p \in SwPeers
    BY Sets
  <2>1. ASSUME NEW p \in Slots, NEW b \in Unicast, p # x.peer \/ b # x.ac, CanServe(e, p, b)
        PROVE  \E d \in e.in_rpu : b \in ServedAcs(d)
    <3>1. CanServe(tx, p, b)
      BY <1>4, <2>0, <2>1, Sets DEF CanServe, HasPending, SameStations
    <3>2. e.in_rpu = tx.in_rpu
      BY <1>7 DEF SameTokens
    <3>. QED BY <3>1, <3>2 DEF Attended, AllServed, Served
  <2>2. \A b \in Unicast \ {x.ac} : Served(e, b)
    BY <2>1 DEF Served
  <2>3. SameStations(e, r.tx)
    BY <1>3, <1>4 DEF SameStations
  <2>4. \A b \in Unicast \ {x.ac} : Served(r.tx, b)
    BY <1>7, <2>2, <2>3, SendsServed
  <2>5. Served(r.tx, x.ac)
    <3>1. CASE r.tx = e /\ HoldBack(e, x.frame, x.ac, x.peer)
      <4>1. \A p \in Slots \ {x.peer} :
               CanServe(e, p, x.ac) => \E d \in e.in_rpu : x.ac \in ServedAcs(d)
        BY <1>2, <2>1
      <4>2. Counted(e)
        BY <1>1, <3>1
      <4>. QED BY <1>2, <1>7, <3>1, <4>1, <4>2, HeldBackServed
    <3>. QED BY <1>7, <3>1
  <2>. QED BY <1>1, <1>5, <2>4, <2>5 DEF AllServed
<1>. QED
  BY <1>3, <1>6, <1>7

LEMMA DoneAttends ==
    ASSUME FramesInv, Attended, NEW d \in Tokens, TxDoneEvent(d), HalMayFail = FALSE
    PROVE  AllServed(tx') /\ NoneDozes(tx')
<1>0. Good(tx) /\ FieldsOK
  BY DEF FramesInv
<1>1. PICK u : /\ tx' = BuffReqFree(u, d, TRUE)
               /\ Typed(u) /\ Taken(u, d) /\ Once(u)
               /\ u.pending = tx.pending /\ u.peers = tx.peers
               /\ u.in_rpu = tx.in_rpu \ {d}
  BY <1>0, DoneSteps
<1>2. /\ Typed(tx') /\ SameStations(u, tx')
      /\ \/ \E c \in Acs : /\ IsHighest(u, d, c) /\ Loads(u, tx', d, c)
                           /\ tx'.in_rpu = u.in_rpu \cup {d}
         \/ /\ \A c \in Acs : ~ IsHighest(u, d, c)
            /\ SameFrames(u, tx') /\ tx'.in_rpu = u.in_rpu
  BY <1>1, BuffReqFreeFits
<1>3. NoneDozes(tx')
  BY <1>1, <1>2 DEF NoneDozes, Attended, SameStations
<1>4. \A p \in SwPeers, q \in Acs : HasPending(tx', p, q) => HasPending(tx, p, q)
  BY <1>1, <1>2 DEF Loads, SameFrames, HasPending
<1>5. \A p \in Slots, q \in Unicast : CanServe(tx', p, q) => CanServe(tx, p, q)
  BY <1>1, <1>2, <1>4, Sets DEF CanServe, SameStations
<1>6. \A p \in Slots, q \in Unicast :
         CanServe(tx', p, q) => \E e \in tx.in_rpu : q \in ServedAcs(e)
  BY <1>5 DEF Attended, AllServed, Served
<1>7. CASE tx'.in_rpu = u.in_rpu \cup {d}
  BY <1>1, <1>3, <1>6, <1>7 DEF AllServed, Served
<1>8. CASE /\ \A c \in Acs : ~ IsHighest(u, d, c)
           /\ SameFrames(u, tx') /\ tx'.in_rpu = u.in_rpu
  <2>1. ASSUME NEW p \in Slots, NEW q \in Unicast, CanServe(tx', p, q)
        PROVE  q \notin ServedAcs(d)
    <3>1. CanServe(u, p, q)
      BY <1>2, <1>8, <2>1, Sets DEF CanServe, HasPending, SameStations, SameFrames
    <3>2. Serviceable(u, q)
      BY <1>1, <3>1, NothingServed
    <3>. QED BY <1>1, <1>8, <3>2, NoneHighest
  <2>. QED
    BY <1>1, <1>3, <1>6, <1>8, <2>1 DEF AllServed, Served
<1>. QED
  BY <1>2, <1>3, <1>7, <1>8

LEMMA NextAttends ==
    ASSUME NoGroupTraffic, HalMayFail = FALSE, ApMode = FALSE \/ PeersLeave = FALSE
    PROVE  FramesInv /\ TokenInv /\ Attended /\ [Next]_vars => Attended'
<1>. SUFFICES ASSUME FramesInv, TokenInv, Attended, [Next]_vars
              PROVE  AllServed(tx') /\ NoneDozes(tx')
  BY DEF Attended, AllServed, NoneDozes, Served, CanServe, HasPending
<1>0. FieldsOK /\ Good(tx) /\ AllServed(tx) /\ NoneDozes(tx) /\ Typed(tx)
  BY DEF FramesInv, Good, Attended
<1>00. /\ tx.peers \in [SwPeers -> Peer]
       /\ \A p \in Slots : p \in SwPeers
       /\ \A q \in Unicast : q \in Acs
  BY <1>0, Fields, Sets
<1>1. ASSUME NEW v \in Vifs, NEW f \in Frames, XmitLookup(v, f)
      PROVE  AllServed(tx') /\ NoneDozes(tx')
  BY <1>0, <1>1 DEF XmitLookup
<1>2. ASSUME NEW v \in Vifs, XmitTx(v)
      PROVE  AllServed(tx') /\ NoneDozes(tx')
  <2>1. TokenInv /\ [Next]_vars => TokenInv'
    BY NextSound
  <2>2. Counted(tx')
    BY <2>1 DEF TokenInv, Sound, Counted, HeldBy, TxDoneQueue, SpareNibble
  <2>. QED BY <1>2, <2>2, XmitAttends
<1>3. ASSUME NEW d \in Tokens, TxDoneEvent(d)
      PROVE  AllServed(tx') /\ NoneDozes(tx')
  BY <1>3, DoneAttends
<1>4. ASSUME NEW a \in Stations, (\E n \in 1 .. MaxPsTokens : GetFrames(a, n)) \/ WakeUp(a)
      PROVE  AllServed(tx') /\ NoneDozes(tx')
  <2>1. PICK u : /\ tx' = ServeAll(u, TRUE)
                 /\ Typed(u)
                 /\ SameFrames(tx, u) /\ SameTokens(tx, u) /\ SameCommands(tx, u)
    BY <1>0, <1>4, WakeSteps
  <2>2. Good(u)
    BY <1>0, <2>1, SameGood
  <2>3. \A q \in Unicast : Served(ServeAll(u, TRUE), q)
    BY <2>2, ServeAllFits
  <2>4. ApMode # FALSE
    <3>1. ASSUME NEW n, GetFrames(a, n) PROVE ApMode # FALSE
      BY <3>1 DEF GetFrames
    <3>2. ASSUME WakeUp(a) PROVE ApMode # FALSE
      BY <3>2 DEF WakeUp
    <3>. QED BY <1>4, <3>1, <3>2
  <2>. QED BY <2>1, <2>3, <2>4 DEF AllServed, NoneDozes
<1>5. ASSUME SameFrames(tx, tx'), tx'.in_rpu = tx.in_rpu,
             \A p \in Slots : tx.peers[p].ps => tx'.peers[p].ps
      PROVE  AllServed(tx')
  <2>1. \A p \in Slots, q \in Unicast : CanServe(tx', p, q) => CanServe(tx, p, q)
    BY <1>5 DEF CanServe, HasPending, SameFrames
  <2>. QED BY <1>0, <1>5, <2>1 DEF AllServed, Served
<1>6. ASSUME NEW a \in Stations, Doze(a) \/ PeerAdd(a)
      PROVE  AllServed(tx') /\ NoneDozes(tx')
  <2>1. \E p \in SwPeers : \/ ApMode /\ tx' = [tx EXCEPT !.peers[p].ps = TRUE]
                           \/ tx' = [tx EXCEPT !.peers[p].sta = a]
    <3>1. CASE Doze(a)
      <4>1. PeerGetId(tx, a) \in Slots \cup {MaxPeers, None} /\ PeerGetId(tx, a) # None
        BY <3>1, PeerGetIdTyped DEF Doze
      <4>2. PeerGetId(tx, a) \in SwPeers
        BY <4>1, Sets
      <4>. QED BY <3>1, <4>2 DEF Doze
    <3>2. CASE PeerAdd(a)
      BY <1>00, <3>2 DEF PeerAdd
    <3>. QED BY <1>6, <3>1, <3>2
  <2>2. PICK p \in SwPeers : \/ ApMode /\ tx' = [tx EXCEPT !.peers[p].ps = TRUE]
                             \/ tx' = [tx EXCEPT !.peers[p].sta = a]
    BY <2>1
  <2>3. SameFrames(tx, tx') /\ tx'.in_rpu = tx.in_rpu
    BY <1>0, <2>2 DEF SameFrames, Typed, Config
  <2>4. \/ ApMode /\ tx'.peers = [tx.peers EXCEPT ![p].ps = TRUE]
        \/ tx'.peers = [tx.peers EXCEPT ![p].sta = a]
    BY <1>0, <2>2 DEF Typed, Config
  <2>5. \A r \in SwPeers : tx.peers[r] \in Peer
    BY <1>00
  <2>6. \A r \in SwPeers : \/ tx'.peers[r].ps = tx.peers[r].ps
                           \/ ApMode /\ tx'.peers[r].ps = TRUE
    BY <1>00, <2>4, <2>5 DEF Peer
  <2>7. AllServed(tx')
    BY <1>00, <1>5, <2>3, <2>6
  <2>. QED BY <1>0, <2>6, <2>7 DEF NoneDozes
<1>7. ASSUME (\E a \in Stations : PeerRemove(a)) \/ PeersFlush
      PROVE  AllServed(tx') /\ NoneDozes(tx')
  <2>1. PeersLeave /\ ApMode = FALSE
    BY <1>7 DEF PeerRemove, PeersFlush
  <2>2. \A p \in SwPeers : ~ tx.peers[p].ps
    BY <1>0, <2>1 DEF NoneDozes
  <2>3. SameFrames(tx, tx') /\ tx'.in_rpu = tx.in_rpu
    BY <1>0, <1>7 DEF SameFrames, Typed, Config, PeerRemove, PeersFlush
  <2>4. \A p \in SwPeers : tx'.peers[p] = tx.peers[p] \/ tx'.peers[p] = NoPeer
    BY <1>0, <1>00, <1>7 DEF Typed, Config, PeerRemove, PeersFlush
  <2>5. \A p \in SwPeers : ~ tx'.peers[p].ps
    BY <2>2, <2>4 DEF NoPeer
  <2>6. AllServed(tx')
    BY <1>00, <1>5, <2>2, <2>3
  <2>. QED BY <2>5, <2>6 DEF NoneDozes
<1>8. CASE UNCHANGED vars
  BY <1>0, <1>8 DEF vars
<1>. QED
  BY <1>1, <1>2, <1>3, <1>4, <1>6, <1>7, <1>8 DEF Next

LEMMA InitAttends == Init => Attended
<1>. SUFFICES ASSUME Init PROVE AllServed(tx) /\ NoneDozes(tx)
  BY DEF Attended
<1>1. \A p \in SwPeers : ~ tx.peers[p].ps
  BY DEF Init, NoPeer
<1>2. \A p \in SwPeers, q \in Acs : tx.pending[p][q] = <<>>
  BY DEF Init
<1>3. \A p \in Slots, q \in Unicast : ~ CanServe(tx, p, q)
  BY <1>2, Sets DEF CanServe, HasPending
<1>. QED
  BY <1>1, <1>3 DEF AllServed, Served, NoneDozes

(* Without group traffic and while the RPU can be reached, a frame that     *)
(* waits for a station that does not doze waits for a token whose TX-done   *)
(* event will find it, on a station and on an access point.  The stations   *)
(* of an access point must stay: when one leaves while it dozes, its slot   *)
(* stops dozing and its frames wait for the next token.                     *)
THEOREM NothingIsStranded ==
    ASSUME NoGroupTraffic, HalMayFail = FALSE, ApMode = FALSE \/ PeersLeave = FALSE
    PROVE  Spec => []NoStrandedFrames
<1> DEFINE Inv == FramesInv /\ TokenInv /\ Attended
<1>1. Init => Inv
  BY InitFrames, InitSound, InitAttends
<1>2. Inv /\ [Next]_vars => Inv'
  <2>1. FramesInv /\ [Next]_vars => FramesInv'
    BY NextFrames, Zenon
  <2>2. TokenInv /\ [Next]_vars => TokenInv'
    BY NextSound, Zenon
  <2>3. FramesInv /\ TokenInv /\ Attended /\ [Next]_vars => Attended'
    BY NextAttends, Zenon
  <2>. QED BY <2>1, <2>2, <2>3
<1>3. Inv => NoStrandedFrames
  BY DEF Attended, AllServed, Served, NoStrandedFrames
<1>. QED
  BY <1>1, <1>2, <1>3, PTL DEF Spec

-----------------------------------------------------------------------------
(* The token machinery implements the service.  First what a handler does  *)
(* with the frames, in terms of the service.                               *)

(* Frames that waited in s may travel on tokens of D in t, each on a token  *)
(* charged to the category it waited in; the others stay where they were.  *)
Ships(s, t, D) ==
    \A f \in Frames :
        /\ \A e \in Tokens : Carries(s, f, e) =>
               Carries(t, f, e) /\ TxDoneQueue(t, e) = TxDoneQueue(s, e)
        /\ \A e \in Tokens : Carries(t, f, e) =>
               \/ Carries(s, f, e)
               \/ e \in D /\ Waits(s, f, TxDoneQueue(t, e))
        /\ \A b \in Acs : Waits(t, f, b) => Waits(s, f, b)
        /\ \A b \in Acs : Waits(s, f, b) =>
               \/ Waits(t, f, b)
               \/ \E e \in D : Carries(t, f, e) /\ TxDoneQueue(t, e) = b

Idles(s) == Tokens \ s.busy

LEMMA ShipsTwice ==
    ASSUME NEW s, NEW u, NEW t, NEW D \in SUBSET Tokens, NEW E \in SUBSET D,
           Ships(s, u, D), Ships(u, t, E)
    PROVE  Ships(s, t, D)
<1>. SUFFICES ASSUME NEW f \in Frames
              PROVE
        /\ \A e \in Tokens : Carries(s, f, e) =>
               Carries(t, f, e) /\ TxDoneQueue(t, e) = TxDoneQueue(s, e)
        /\ \A e \in Tokens : Carries(t, f, e) =>
               \/ Carries(s, f, e)
               \/ e \in D /\ Waits(s, f, TxDoneQueue(t, e))
        /\ \A b \in Acs : Waits(t, f, b) => Waits(s, f, b)
        /\ \A b \in Acs : Waits(s, f, b) =>
               \/ Waits(t, f, b)
               \/ \E e \in D : Carries(t, f, e) /\ TxDoneQueue(t, e) = b
  BY DEF Ships
<1>1. ASSUME NEW e \in Tokens, Carries(s, f, e)
      PROVE  Carries(t, f, e) /\ TxDoneQueue(t, e) = TxDoneQueue(s, e)
  BY <1>1 DEF Ships
<1>2. ASSUME NEW e \in Tokens, Carries(t, f, e), ~ Carries(s, f, e)
      PROVE  e \in D /\ Waits(s, f, TxDoneQueue(t, e))
  <2>1. CASE Carries(u, f, e)
    BY <1>2, <2>1 DEF Ships
  <2>2. CASE e \in E /\ Waits(u, f, TxDoneQueue(t, e))
    <3>1. TxDoneQueue(t, e) \in Acs
      BY TxDoneQueueTyped
    <3>. QED BY <2>2, <3>1 DEF Ships
  <2>. QED BY <1>2, <2>1, <2>2 DEF Ships
<1>3. ASSUME NEW b \in Acs, Waits(t, f, b) PROVE Waits(s, f, b)
  BY <1>3 DEF Ships
<1>4. ASSUME NEW b \in Acs, Waits(s, f, b), ~ Waits(t, f, b)
      PROVE  \E e \in D : Carries(t, f, e) /\ TxDoneQueue(t, e) = b
  <2>1. CASE Waits(u, f, b)
    BY <1>4, <2>1 DEF Ships
  <2>2. CASE \E e \in D : Carries(u, f, e) /\ TxDoneQueue(u, e) = b
    <3>1. PICK e \in D : Carries(u, f, e) /\ TxDoneQueue(u, e) = b
      BY <2>2
    <3>2. Carries(t, f, e) /\ TxDoneQueue(t, e) = b
      BY <3>1 DEF Ships
    <3>. QED BY <3>2
  <2>. QED BY <1>4, <2>1, <2>2 DEF Ships
<1>. QED
  BY <1>1, <1>2, <1>3, <1>4

(* One token that was empty is filled. *)
LEMMA LoadsShip ==
    ASSUME NEW s, NEW t, Typed(t), AllFit(t), NEW d \in Tokens, NEW q \in Acs,
           Loads(s, t, d, q),
           s.pkt[d] = <<>>, SameHolders(s, t, d), d \in t.busy => TxDoneQueue(t, d) = q,
           NEW D, d \in D
    PROVE  Ships(s, t, D)
<1>1. \A f \in Frames : ~ Carries(s, f, d)
  <2>1. DOMAIN <<>> = {}
    OBVIOUS
  <2>. QED BY <2>1 DEF Carries, OnToken
<1>2. \A f \in Frames : Carries(t, f, d) => TxDoneQueue(t, d) = q
  <2>1. d \notin t.busy => t.pkt[d] = <<>>
    BY DEF AllFit, Fits, Blank
  <2>2. DOMAIN <<>> = {}
    OBVIOUS
  <2>. QED BY <2>1, <2>2 DEF Carries, OnToken
<1>3. ASSUME NEW f \in Frames, NEW e \in Tokens, Carries(s, f, e)
      PROVE  Carries(t, f, e) /\ TxDoneQueue(t, e) = TxDoneQueue(s, e)
  BY <1>1, <1>3 DEF Loads, SameHolders
<1>4. ASSUME NEW f \in Frames, NEW e \in Tokens, Carries(t, f, e), ~ Carries(s, f, e)
      PROVE  e \in D /\ Waits(s, f, TxDoneQueue(t, e))
  BY <1>2, <1>4 DEF Loads
<1>5. ASSUME NEW f \in Frames, NEW b \in Acs, Waits(s, f, b), ~ Waits(t, f, b)
      PROVE  \E e \in D : Carries(t, f, e) /\ TxDoneQueue(t, e) = b
  BY <1>2, <1>5 DEF Loads
<1>6. \A f \in Frames, b \in Acs : Waits(t, f, b) => Waits(s, f, b)
  BY DEF Loads
<1>. QED
  BY <1>3, <1>4, <1>5, <1>6 DEF Ships

(* Nothing has moved. *)
LEMMA SameShips ==
    ASSUME NEW s, NEW t, SameFrames(s, t),
           \A e \in Tokens : TxDoneQueue(t, e) = TxDoneQueue(s, e), NEW D
    PROVE  Ships(s, t, D)
BY DEF Ships, SameFrames, Carries, OnToken, Waits, InQueue

(* A token from the pool that is filled carries waiting frames. *)
LEMMA PickShips ==
    ASSUME NEW s, Good(s), Sound(s), NEW q \in Unicast, DescPick(s, q) # NumTokens
    PROVE  LET d == DescPick(s, q)
               t == FillToken(DescTake(s, q, d), d, q, TRUE)
           IN  Good(t) /\ Sound(t) /\ s.busy \subseteq t.busy /\ Ships(s, t, Idles(s))
<1> DEFINE d == DescPick(s, q)
           t == FillToken(DescTake(s, q, d), d, q, TRUE)
<1>0. q \in Acs /\ Typed(s) /\ AllFit(s) /\ Once(s)
  BY Sets DEF Good
<1>1. /\ d \in Tokens /\ d \notin s.busy
      /\ Typed(t) /\ AllFit(t) /\ Once(t) /\ Loads(s, t, d, q)
      /\ s.busy \subseteq t.busy
  BY <1>0, PickFits
<1>2. /\ Sound(t) /\ SameHolders(s, t, d)
      /\ d \in t.busy => TxDoneQueue(t, d) = q
  BY PickSound
<1>. HIDE DEF t, d
<1>3. s.pkt[d] = <<>>
  BY <1>0, <1>1 DEF AllFit, Fits, Blank
<1>4. Ships(s, t, Idles(s))
  BY <1>0, <1>1, <1>2, <1>3, LoadsShip DEF Idles
<1>. QED
  BY <1>1, <1>2, <1>4 DEF t, d, Good

LEMMA ServeAcShips ==
    ASSUME NEW s, Good(s), Sound(s), NEW q \in Unicast
    PROVE  LET t == ServeAc(s, q, TRUE)
           IN  Good(t) /\ Sound(t) /\ s.busy \subseteq t.busy /\ Ships(s, t, Idles(s))
<1> DEFINE d == DescPick(s, q)
           t == ServeAc(s, q, TRUE)
<1>1. CASE d < NumTokens
  <2>1. d # NumTokens
    BY <1>1, Sets
  <2>2. t = FillToken(DescTake(s, q, d), d, q, TRUE)
    BY <1>1 DEF ServeAc
  <2>. QED BY <2>1, <2>2, PickShips
<1>2. CASE ~ (d < NumTokens)
  <2>1. t = s
    BY <1>2 DEF ServeAc
  <2>. HIDE DEF t
  <2>2. Ships(s, s, Idles(s))
    BY SameShips DEF SameFrames
  <2>. QED BY <2>1, <2>2 DEF t
<1>. QED
  BY <1>1, <1>2

LEMMA ServeAllShips ==
    ASSUME NEW s, Good(s), Sound(s)
    PROVE  Ships(s, ServeAll(s, TRUE), Idles(s))
<1> DEFINE u == ServeAc(s, VO, TRUE)
           v == ServeAc(u, VI, TRUE)
           w == ServeAc(v, BE, TRUE)
           t == ServeAc(w, BK, TRUE)
<1>0. VO \in Unicast /\ VI \in Unicast /\ BE \in Unicast /\ BK \in Unicast
  BY Sets DEF VO, VI, BE, BK
<1>00. ServeAll(s, TRUE) = t
  BY DEF ServeAll
<1>1. Good(u) /\ Sound(u) /\ s.busy \subseteq u.busy /\ Ships(s, u, Idles(s))
  BY <1>0, ServeAcShips
<1>. HIDE DEF u
<1>2. Good(v) /\ Sound(v) /\ u.busy \subseteq v.busy /\ Ships(u, v, Idles(u))
  BY <1>0, <1>1, ServeAcShips
<1>. HIDE DEF v
<1>3. Good(w) /\ Sound(w) /\ v.busy \subseteq w.busy /\ Ships(v, w, Idles(v))
  BY <1>0, <1>2, ServeAcShips
<1>. HIDE DEF w
<1>4. Good(t) /\ Sound(t) /\ w.busy \subseteq t.busy /\ Ships(w, t, Idles(w))
  BY <1>0, <1>3, ServeAcShips
<1>. HIDE DEF t
<1>5. /\ Idles(s) \in SUBSET Tokens
      /\ Idles(u) \in SUBSET Idles(s)
      /\ Idles(v) \in SUBSET Idles(s)
      /\ Idles(w) \in SUBSET Idles(s)
  BY <1>1, <1>2, <1>3 DEF Idles
<1>6. Ships(s, v, Idles(s))
  BY <1>1, <1>2, <1>5, ShipsTwice
<1>7. Ships(s, w, Idles(s))
  BY <1>3, <1>5, <1>6, ShipsTwice
<1>8. Ships(s, t, Idles(s))
  BY <1>4, <1>5, <1>7, ShipsTwice
<1>. QED
  BY <1>00, <1>8, Zenon

(* What nrf_wifi_fmac_tx does after it has queued the frame. *)
LEMMA FmacTxShips ==
    ASSUME NEW s, Good(s), Sound(s), NEW f \in Frames, NEW ac \in Unicast, NEW p \in SwPeers,
           ~ Has(s, f)
    PROVE  LET e == Enqueue(s, f, ac, p, TRUE)
               r == FmacTx(s, f, ac, p, TRUE)
           IN  \/ r.status = "fail" /\ r.tx = s
               \/ r.status # "fail" /\ Ships(e, r.tx, Idles(s))
<1> DEFINE e == Enqueue(s, f, ac, p, TRUE)
           d == DescPick(e, ac)
           t == FillToken(DescTake(e, ac, d), d, ac, TRUE)
           r == FmacTx(s, f, ac, p, TRUE)
<1>0. ac \in Acs
  BY Sets
<1>1. \/ r.status = "fail" /\ r.tx = s
      \/ /\ r.status # "fail"
         /\ Good(e) /\ SameTokens(s, e)
  BY <1>0, FmacTxFits
<1>2. r.tx = s \/ r.tx = e \/ (d # NumTokens /\ r.tx = t)
  BY DEF FmacTx
<1>3. CASE r.status # "fail" /\ Good(e) /\ SameTokens(s, e)
  <2>1. Sound(e) /\ Idles(e) = Idles(s)
    BY <1>3, SameSound DEF Good, SameTokens, Idles
  <2>2. r.tx = e \/ (d # NumTokens /\ r.tx = t)
    BY <1>3 DEF FmacTx
  <2>. HIDE DEF e, r
  <2>3. CASE r.tx = e
    <3>1. Ships(e, e, Idles(s))
      BY SameShips DEF SameFrames
    <3>. QED BY <1>3, <2>3, <3>1 DEF e, r
  <2>4. CASE d # NumTokens /\ r.tx = t
    <3>1. Ships(e, t, Idles(e))
      BY <1>3, <2>1, <2>4, PickShips
    <3>. HIDE DEF t, d
    <3>. QED BY <1>3, <2>1, <2>4, <3>1 DEF e, r
  <2>. QED BY <2>2, <2>3, <2>4
<1>. QED
  BY <1>1, <1>3

(* What tx_buff_req_free does with the token it is given. *)
LEMMA BuffReqFreeShips ==
    ASSUME NEW s, Typed(s), NEW d \in Tokens, Taken(s, d), Once(s), Sound(s)
    PROVE  Ships(s, BuffReqFree(s, d, TRUE), {d})
<1> DEFINE t == BuffReqFree(s, d, TRUE)
<1>1. /\ Typed(t) /\ AllFit(t)
      /\ \/ \E c \in Acs : /\ IsHighest(s, d, c) /\ Loads(s, t, d, c)
                           /\ t.in_rpu = s.in_rpu \cup {d} /\ t.busy = s.busy
         \/ /\ \A c \in Acs : ~ IsHighest(s, d, c)
            /\ SameFrames(s, t)
            /\ t.in_rpu = s.in_rpu /\ t.busy = s.busy \ {d}
  BY BuffReqFreeFits
<1>2. d \in s.busy /\ d \notin s.in_rpu /\ s.pkt[d] = <<>>
  BY DEF Taken, Blank
<1>3. /\ SameHolders(s, t, d)
      /\ \A c \in Acs : IsHighest(s, d, c) => TxDoneQueue(t, d) = c
  BY <1>2, BuffReqFreeSound
<1>. HIDE DEF t
<1>4. CASE \E c \in Acs : IsHighest(s, d, c) /\ Loads(s, t, d, c)
  <2>1. PICK c \in Acs : IsHighest(s, d, c) /\ Loads(s, t, d, c)
    BY <1>4
  <2>2. TxDoneQueue(t, d) = c
    BY <1>3, <2>1
  <2>. QED BY <1>1, <1>2, <1>3, <2>1, <2>2, LoadsShip DEF t
<1>5. CASE SameFrames(s, t) /\ t.busy = s.busy \ {d}
  <2>1. PICK c \in Acs : TRUE
    BY Sets
  <2>2. Loads(s, t, d, c)
    BY <1>5, LoadsNothing
  <2>3. d \notin t.busy
    BY <1>5
  <2>. QED BY <1>1, <1>2, <1>3, <2>2, <2>3, LoadsShip DEF t
<1>. QED
  BY <1>1, <1>4, <1>5

(* What the service sees of each frame: where it is and in which category. *)
Seen ==
    /\ PlaceOf \in [Frames -> Tokens \cup {Waiting, AtStack}]
    /\ CatOf \in [Frames -> Acs \cup {None}]
    /\ \A f \in Frames :
        /\ \A d \in Tokens : PlaceOf[f] = d <=> Carries(tx, f, d)
        /\ PlaceOf[f] = Waiting <=> f \in live /\ \A d \in Tokens : ~ Carries(tx, f, d)
        /\ PlaceOf[f] = AtStack <=> f \notin live
        /\ \A d \in Tokens : Carries(tx, f, d) => CatOf[f] = Holder(d)
        /\ \A q \in Acs : Waits(tx, f, q) => CatOf[f] = q
        /\ \A v \in Vifs : xmit[v].frame = f => CatOf[f] = xmit[v].ac
        /\ f \notin live => CatOf[f] = None

(* A frame is carried by the token whose list it is in. *)
LEMMA CarriesIn ==
    ASSUME NEW s, Typed(s), NEW f \in Frames, NEW d \in Tokens
    PROVE  f \in ToSet(s.pkt[d]) <=> Carries(s, f, d)
<1>1. s.pkt[d] \in Seq(Frames)
  BY Fields
<1>2. DOMAIN s.pkt[d] \subseteq Nat
  BY <1>1, LenProperties
<1>. QED
  BY <1>2 DEF ToSet, Carries, OnToken

LEMMA WaitsIn ==
    ASSUME NEW s, Typed(s), NEW f \in Frames, NEW q \in Acs
    PROVE  (\E p \in SwPeers : f \in ToSet(s.pending[p][q])) <=> Waits(s, f, q)
<1>1. \A p \in SwPeers : s.pending[p][q] \in Seq(Frames)
  BY Fields
<1>2. \A p \in SwPeers : DOMAIN s.pending[p][q] \subseteq Nat
  BY <1>1, LenProperties
<1>. QED
  BY <1>2 DEF ToSet, Waits, InQueue

LEMMA FramesSeen == FramesInv => Seen
<1>. SUFFICES ASSUME FramesInv PROVE Seen
  OBVIOUS
<1>0. Typed(tx) /\ Once(tx) /\ CallsApart /\ xmit \in [Vifs -> Calls] /\ None \notin Frames
  BY ConstantsOK DEF FramesInv, Good, FieldsOK, ConstantsOK
<1>1. AtStack \notin Tokens /\ Waiting \notin Tokens /\ AtStack # Waiting
  BY Sets DEF AtStack, Waiting
<1>2. ASSUME NEW f \in Frames
      PROVE  PlaceOf[f] = IF \E d \in Tokens : Carries(tx, f, d)
                          THEN CHOOSE d \in Tokens : f \in ToSet(tx.pkt[d])
                          ELSE IF f \in live THEN Waiting ELSE AtStack
  BY <1>0, CarriesIn DEF PlaceOf
<1>3. ASSUME NEW f \in Frames, NEW d \in Tokens, Carries(tx, f, d)
      PROVE  PlaceOf[f] = d /\ f \in live
  <2>1. \A e \in Tokens : Carries(tx, f, e) => e = d
    BY <1>0, <1>3 DEF Once, Carries
  <2> DEFINE e == CHOOSE e \in Tokens : f \in ToSet(tx.pkt[e])
  <2>2. e \in Tokens /\ f \in ToSet(tx.pkt[e])
    BY <1>0, <1>3, CarriesIn
  <2>3. PlaceOf[f] = e
    BY <1>2, <1>3
  <2>. HIDE DEF e
  <2>. QED BY <1>0, <1>3, <2>1, <2>2, <2>3, CarriesIn DEF CallsApart, Has
<1>4. ASSUME NEW f \in Frames, \A d \in Tokens : ~ Carries(tx, f, d)
      PROVE  PlaceOf[f] = IF f \in live THEN Waiting ELSE AtStack
  BY <1>2, <1>4
<1>5. PlaceOf \in [Frames -> Tokens \cup {Waiting, AtStack}]
  <2>1. \A f \in Frames : PlaceOf[f] \in Tokens \cup {Waiting, AtStack}
    BY <1>3, <1>4
  <2>2. PlaceOf = [f \in Frames |-> PlaceOf[f]]
    BY DEF PlaceOf
  <2>. QED BY <2>1, <2>2
<1>6. ASSUME NEW f \in Frames
      PROVE  /\ \A d \in Tokens : PlaceOf[f] = d <=> Carries(tx, f, d)
             /\ PlaceOf[f] = Waiting <=> f \in live /\ \A d \in Tokens : ~ Carries(tx, f, d)
             /\ PlaceOf[f] = AtStack <=> f \notin live
  BY <1>1, <1>3, <1>4
<1>7. \A f \in Frames :
        CatOf[f] = IF PlaceOf[f] \in Tokens THEN Holder(PlaceOf[f])
                   ELSE IF \E v \in Vifs : xmit[v].frame = f
                   THEN xmit[CHOOSE v \in Vifs : xmit[v].frame = f].ac
                   ELSE IF PlaceOf[f] = Waiting
                   THEN CHOOSE q \in Acs : \E p \in SwPeers : f \in ToSet(tx.pending[p][q])
                   ELSE None
  BY DEF CatOf
<1>8. ASSUME NEW f \in Frames, NEW d \in Tokens, Carries(tx, f, d)
      PROVE  CatOf[f] = Holder(d)
  BY <1>3, <1>7, <1>8
<1>9. ASSUME NEW v \in Vifs, xmit[v].frame \in Frames
      PROVE  /\ xmit[v] # Idle
             /\ ~ Has(tx, xmit[v].frame)
             /\ xmit[v].frame \in live
             /\ \A w \in Vifs : xmit[w].frame = xmit[v].frame => w = v
  <2>1. \A w \in Vifs : xmit[w].frame \in Frames => xmit[w] # Idle
    BY <1>0 DEF Idle
  <2>. QED BY <1>0, <1>9, <2>1 DEF CallsApart
<1>10. ASSUME NEW f \in Frames, NEW v \in Vifs, xmit[v].frame = f
       PROVE  CatOf[f] = xmit[v].ac
  <2>1. PlaceOf[f] \notin Tokens
    BY <1>6, <1>9, <1>10 DEF Has
  <2> DEFINE w == CHOOSE w \in Vifs : xmit[w].frame = f
  <2>2. w \in Vifs /\ xmit[w].frame = f
    BY <1>10
  <2>3. CatOf[f] = xmit[w].ac
    BY <1>7, <1>10, <2>1
  <2>. HIDE DEF w
  <2>. QED BY <1>9, <1>10, <2>2, <2>3
<1>11. ASSUME NEW f \in Frames, NEW q \in Acs, Waits(tx, f, q)
       PROVE  CatOf[f] = q
  <2>1. \A d \in Tokens : ~ Carries(tx, f, d)
    BY <1>0, <1>11 DEF Once, Waits, Carries
  <2>2. f \in live
    BY <1>0, <1>11 DEF CallsApart, Has
  <2>3. PlaceOf[f] = Waiting /\ PlaceOf[f] \notin Tokens
    BY <1>1, <1>6, <2>1, <2>2
  <2>4. ~ (\E v \in Vifs : xmit[v].frame = f)
    BY <1>9, <1>11 DEF Has
  <2> DEFINE b == CHOOSE b \in Acs : \E p \in SwPeers : f \in ToSet(tx.pending[p][b])
  <2>5. b \in Acs /\ \E p \in SwPeers : f \in ToSet(tx.pending[p][b])
    BY <1>0, <1>11, WaitsIn
  <2>6. CatOf[f] = b
    BY <1>7, <2>3, <2>4
  <2>. HIDE DEF b
  <2>7. Waits(tx, f, b)
    BY <1>0, <2>5, WaitsIn
  <2>8. b = q
    BY <1>0, <1>11, <2>5, <2>7 DEF Once, Waits
  <2>. QED BY <2>6, <2>8
<1>12. ASSUME NEW f \in Frames, f \notin live
       PROVE  CatOf[f] = None
  <2>1. PlaceOf[f] = AtStack
    BY <1>6, <1>12
  <2>2. ~ (\E v \in Vifs : xmit[v].frame = f)
    BY <1>9, <1>12
  <2>. QED BY <1>1, <1>7, <2>1, <2>2
<1>13. CatOf \in [Frames -> Acs \cup {None}]
  <2>1. ASSUME NEW f \in Frames PROVE CatOf[f] \in Acs \cup {None}
    <3>1. CASE f \notin live
      BY <1>12, <3>1
    <3>2. CASE \E d \in Tokens : Carries(tx, f, d)
      BY <1>8, <3>2, TxDoneQueueTyped DEF Holder
    <3>3. CASE \E q \in Acs : Waits(tx, f, q)
      BY <1>11, <3>3
    <3>4. CASE \E v \in Vifs : xmit[v].frame = f
      <4>1. PICK v \in Vifs : xmit[v].frame = f
        BY <3>4
      <4>2. xmit[v].ac \in Acs
        BY <1>0, <1>9, <4>1, Sets DEF Calls
      <4>. QED BY <1>10, <4>1, <4>2
    <3>. QED BY <1>0, <3>1, <3>2, <3>3, <3>4 DEF CallsApart, Has
  <2>2. CatOf = [f \in Frames |-> CatOf[f]]
    BY DEF CatOf
  <2>. QED BY <2>1, <2>2
<1>. QED
  BY <1>5, <1>6, <1>8, <1>10, <1>11, <1>12, <1>13 DEF Seen

(* A load is no larger than the largest batch. *)
LEMMA LoadSmall ==
    ASSUME NEW q \in Seq(Frames), IsLoad(q)
    PROVE  IsFiniteSet(ToSet(q)) /\ Cardinality(ToSet(q)) <= MaxAggr
<1>1. Len(q) \in Nat /\ DOMAIN q = 1 .. Len(q)
  BY LenProperties
<1>2. IsFiniteSet(1 .. Len(q)) /\ Cardinality(1 .. Len(q)) <= Len(q)
  <2>1. 1 \in Int /\ Len(q) \in Int
    BY <1>1
  <2>2. /\ IsFiniteSet(1 .. Len(q))
        /\ Cardinality(1 .. Len(q)) = IF 1 > Len(q) THEN 0 ELSE Len(q) - 1 + 1
    BY <2>1, FS_Interval
  <2>. QED BY <1>1, <2>2
<1>3. [i \in 1 .. Len(q) |-> q[i]] \in Surjection(1 .. Len(q), ToSet(q))
  BY <1>1 DEF Surjection, ToSet
<1>4. IsFiniteSet(ToSet(q)) /\ Cardinality(ToSet(q)) <= Cardinality(1 .. Len(q))
  BY <1>2, <1>3, FS_Surjection
<1>5. Len(q) <= MaxAggr
  <2>1. MaxAggr \in Nat /\ MaxAggr >= 1
    BY ConstantsOK DEF ConstantsOK
  <2>. QED BY <2>1 DEF IsLoad, Aggregates
<1>6. /\ Cardinality(1 .. Len(q)) \in Nat /\ Cardinality(ToSet(q)) \in Nat
      /\ MaxAggr \in Nat
  BY <1>2, <1>4, FS_CardinalityType, ConstantsOK DEF ConstantsOK
<1>. QED
  BY <1>1, <1>2, <1>4, <1>5, <1>6

(* A token in use is charged to a category it may serve. *)
LEMMA HolderServed ==
    ASSUME NEW s, Sound(s), NEW d \in s.busy
    PROVE  TxDoneQueue(s, d) \in ServedAcs(d)
<1>1. CASE d \in Spare
  BY <1>1, NibbleQueue DEF Sound, Marked, ServedAcs
<1>2. CASE d \notin Spare
  BY <1>2 DEF TxDoneQueue, ServedAcs
<1>. QED
  BY <1>1, <1>2

LEMMA TokensNotEmpty ==
    ASSUME NEW s, AllFit(s), NEW d \in Tokens, NEW f, Carries(s, f, d)
    PROVE  d \in s.busy
<1>1. DOMAIN <<>> = {}
  OBVIOUS
<1>2. s.pkt[d] # <<>>
  BY <1>1 DEF Carries, OnToken
<1>. QED
  BY <1>2 DEF AllFit, Fits, Blank

(* The batches are as TxService promises, in every state. *)
LEMMA ServiceBatch ==
    ASSUME FramesInv, TokenInv, NEW d \in Tokens
    PROVE  /\ Cardinality(Service!Batch(d)) <= MaxAggr
           /\ \A f \in Service!Batch(d) :
                 CatOf[f] = Holder(d) /\ Holder(d) \in ServedAcs(d)
<1>0. Seen /\ Typed(tx) /\ AllFit(tx) /\ Sound(tx)
  BY FramesSeen DEF FramesInv, Good, TokenInv
<1>1. Service!Batch(d) = {f \in Frames : Carries(tx, f, d)}
  BY <1>0 DEF Service!Batch, Seen
<1>2. tx.pkt[d] \in Seq(Frames)
  BY <1>0, Fields
<1>3. Service!Batch(d) = ToSet(tx.pkt[d])
  <2>1. \A f \in ToSet(tx.pkt[d]) : f \in Frames
    <3>1. DOMAIN tx.pkt[d] = 1 .. Len(tx.pkt[d]) /\ \A i \in 1 .. Len(tx.pkt[d]) : tx.pkt[d][i] \in Frames
      BY <1>2, LenProperties
    <3>. QED BY <3>1 DEF ToSet
  <2>2. \A f \in Frames : f \in ToSet(tx.pkt[d]) <=> Carries(tx, f, d)
    BY <1>0, CarriesIn
  <2>. QED BY <1>1, <2>1, <2>2
<1>4. Cardinality(Service!Batch(d)) <= MaxAggr
  <2>1. CASE d \in tx.busy
    <3>1. IsLoad(tx.pkt[d])
      BY <1>0, <2>1 DEF AllFit, Fits, Loaded
    <3>. QED BY <1>2, <1>3, <3>1, LoadSmall
  <2>2. CASE d \notin tx.busy
    <3>1. Service!Batch(d) = {}
      BY <1>0, <1>1, <2>2, TokensNotEmpty
    <3>2. MaxAggr \in Nat /\ Cardinality({}) = 0
      BY ConstantsOK, FS_EmptySet DEF ConstantsOK
    <3>. QED BY <3>1, <3>2
  <2>. QED BY <2>1, <2>2
<1>5. ASSUME NEW f \in Service!Batch(d)
      PROVE  CatOf[f] = Holder(d) /\ Holder(d) \in ServedAcs(d)
  <2>1. f \in Frames /\ Carries(tx, f, d)
    BY <1>1
  <2>2. d \in tx.busy
    BY <1>0, <2>1, TokensNotEmpty
  <2>. QED BY <1>0, <2>1, <2>2, HolderServed DEF Seen, Holder
<1>. QED
  BY <1>4, <1>5

LEMMA ServiceBatches == FramesInv /\ TokenInv => Service!BatchesOK
<1>. SUFFICES ASSUME FramesInv, TokenInv PROVE Service!BatchesOK
  OBVIOUS
<1>1. ASSUME NEW d \in Tokens
      PROVE  /\ Cardinality(Service!Batch(d)) <= MaxAggr
             /\ \A f, g \in Service!Batch(d) :
                   CatOf[f] = CatOf[g] /\ CatOf[f] \in [e \in Tokens |-> ServedAcs(e)][d]
  BY ServiceBatch
<1>2. \A S : Service!Cardinality(S) = Cardinality(S)
  BY DEF Service!Cardinality, Cardinality
<1>. QED
  BY <1>1, <1>2 DEF Service!BatchesOK

(* A frame that is in no call, or whose call goes on, is on the token it    *)
(* was on, or where it was, or has boarded a token of D.                   *)
Boards(f, D) ==
    /\ CatOf'[f] = CatOf[f]
    /\ \/ PlaceOf'[f] = PlaceOf[f]
       \/ PlaceOf[f] = Waiting /\ PlaceOf'[f] \in D

LEMMA FrameBoards ==
    ASSUME FramesInv, FramesInv', NEW u, NEW D \in SUBSET Tokens, Ships(u, tx', D),
           NEW f \in Frames,
           \A q \in Acs : Waits(u, f, q) <=> Waits(tx, f, q),
           \A d \in Tokens : Carries(u, f, d) <=> Carries(tx, f, d),
           \A d \in Tokens : TxDoneQueue(u, d) = TxDoneQueue(tx, d),
           \A v \in Vifs : xmit[v].frame = f => xmit'[v] = xmit[v],
           f \in live <=> f \in live'
    PROVE  Boards(f, D)
<1>0. Seen /\ Seen' /\ CallsApart
  <2>1. (FramesInv => Seen) /\ (FramesInv => Seen)'
    BY FramesSeen, PTL
  <2>. QED BY <2>1 DEF FramesInv
<1>1. /\ \A d \in Tokens : PlaceOf[f] = d <=> Carries(tx, f, d)
      /\ PlaceOf[f] = Waiting <=> f \in live /\ \A d \in Tokens : ~ Carries(tx, f, d)
      /\ PlaceOf[f] = AtStack <=> f \notin live
      /\ \A d \in Tokens : Carries(tx, f, d) => CatOf[f] = TxDoneQueue(tx, d)
      /\ \A q \in Acs : Waits(tx, f, q) => CatOf[f] = q
      /\ \A v \in Vifs : xmit[v].frame = f => CatOf[f] = xmit[v].ac
      /\ f \notin live => CatOf[f] = None
  BY <1>0 DEF Seen, Holder
<1>2. /\ \A d \in Tokens : PlaceOf'[f] = d <=> Carries(tx', f, d)
      /\ PlaceOf'[f] = Waiting <=> f \in live' /\ \A d \in Tokens : ~ Carries(tx', f, d)
      /\ PlaceOf'[f] = AtStack <=> f \notin live'
      /\ \A d \in Tokens : Carries(tx', f, d) => CatOf'[f] = TxDoneQueue(tx', d)
      /\ \A q \in Acs : Waits(tx', f, q) => CatOf'[f] = q
      /\ \A v \in Vifs : xmit'[v].frame = f => CatOf'[f] = xmit'[v].ac
      /\ f \notin live' => CatOf'[f] = None
  BY <1>0 DEF Seen, Holder, Carries, OnToken, Waits, InQueue, TxDoneQueue, SpareNibble
<1>3. /\ \A e \in Tokens : Carries(tx, f, e) =>
             Carries(tx', f, e) /\ TxDoneQueue(tx', e) = TxDoneQueue(tx, e)
      /\ \A e \in Tokens : Carries(tx', f, e) =>
             \/ Carries(tx, f, e)
             \/ e \in D /\ Waits(tx, f, TxDoneQueue(tx', e))
      /\ \A b \in Acs : Waits(tx', f, b) => Waits(tx, f, b)
      /\ \A b \in Acs : Waits(tx, f, b) =>
             \/ Waits(tx', f, b)
             \/ \E e \in D : Carries(tx', f, e) /\ TxDoneQueue(tx', e) = b
  <2>1. \A e \in Tokens : TxDoneQueue(tx', e) \in Acs
    BY TxDoneQueueTyped
  <2>. QED BY <2>1 DEF Ships
<1>4. CASE f \notin live
  BY <1>1, <1>2, <1>4 DEF Boards
<1>5. CASE \E d \in Tokens : Carries(tx, f, d)
  BY <1>1, <1>2, <1>3, <1>5 DEF Boards
<1>6. CASE \E q \in Acs : Waits(tx, f, q)
  <2>1. PICK q \in Acs : Waits(tx, f, q)
    BY <1>6
  <2>2. f \in live /\ \A d \in Tokens : ~ Carries(tx, f, d)
    BY <1>0, <2>1 DEF FramesInv, Good, Once, Waits, Carries, CallsApart, Has
  <2>3. PlaceOf[f] = Waiting /\ CatOf[f] = q
    BY <1>1, <2>1, <2>2
  <2>4. CASE \E e \in D : Carries(tx', f, e) /\ TxDoneQueue(tx', e) = q
    BY <1>2, <2>3, <2>4 DEF Boards
  <2>5. CASE Waits(tx', f, q) /\ \A e \in Tokens : ~ Carries(tx', f, e)
    BY <1>2, <2>2, <2>3, <2>5 DEF Boards
  <2>6. Waits(tx', f, q) => \A e \in Tokens : ~ Carries(tx', f, e)
    <3>1. Once(tx')
      BY DEF FramesInv, Good, Once, InQueue, OnToken
    <3>. QED BY <2>1, <3>1 DEF Once, Waits, Carries
  <2>. QED BY <1>3, <2>1, <2>4, <2>5, <2>6
<1>7. CASE (\E v \in Vifs : xmit[v].frame = f) /\ ~ Has(tx, f)
  <2>1. PICK v \in Vifs : xmit[v].frame = f
    BY <1>7
  <2>2. CatOf'[f] = CatOf[f]
    BY <1>1, <1>2, <2>1
  <2>3. /\ \A d \in Tokens : ~ Carries(tx, f, d)
        /\ \A q \in Acs : ~ Waits(tx, f, q)
    BY <1>7 DEF Has
  <2>4. \A d \in Tokens : ~ Carries(tx', f, d)
    <3>1. \A e \in Tokens : TxDoneQueue(tx', e) \in Acs
      BY TxDoneQueueTyped
    <3>. QED BY <1>3, <2>3, <3>1
  <2>5. PlaceOf'[f] = PlaceOf[f]
    BY <1>1, <1>2, <2>3, <2>4
  <2>. QED BY <2>2, <2>5 DEF Boards
<1>. QED
  BY <1>0, <1>4, <1>5, <1>6, <1>7 DEF CallsApart, Has

LEMMA EmptyTokens ==
    ASSUME FramesInv
    PROVE  Idles(tx) \subseteq {d \in Tokens : Service!Batch(d) = {}}
<1>1. Seen /\ AllFit(tx)
  BY FramesSeen DEF FramesInv, Good
<1>. SUFFICES ASSUME NEW d \in Tokens, d \notin tx.busy, NEW f \in Frames, PlaceOf[f] = d
              PROVE  FALSE
  BY DEF Idles, Service!Batch
<1>. QED
  BY <1>1, TokensNotEmpty DEF Seen

(* Where no frame has boarded a token nothing has changed for the service. *)
LEMMA NoneBoards ==
    ASSUME FramesInv, FramesInv', \A f \in Frames : Boards(f, {})
    PROVE  PlaceOf' = PlaceOf /\ CatOf' = CatOf
<1>1. Seen /\ Seen'
  <2>1. (FramesInv => Seen) /\ (FramesInv => Seen)'
    BY FramesSeen, PTL
  <2>. QED BY <2>1
<1>2. /\ PlaceOf = [f \in Frames |-> PlaceOf[f]] /\ CatOf = [f \in Frames |-> CatOf[f]]
      /\ PlaceOf' = [f \in Frames |-> PlaceOf'[f]] /\ CatOf' = [f \in Frames |-> CatOf'[f]]
  BY <1>1 DEF Seen
<1>3. \A f \in Frames : PlaceOf'[f] = PlaceOf[f] /\ CatOf'[f] = CatOf[f]
  BY DEF Boards
<1>. QED
  BY <1>2, <1>3

(* One frame has moved and the others have not. *)
LEMMA OneMoves ==
    ASSUME FramesInv, FramesInv', NEW f \in Frames, \A g \in Frames \ {f} : Boards(g, {})
    PROVE  /\ PlaceOf' = [PlaceOf EXCEPT ![f] = PlaceOf'[f]]
           /\ CatOf' = [CatOf EXCEPT ![f] = CatOf'[f]]
<1>1. Seen /\ Seen'
  <2>1. (FramesInv => Seen) /\ (FramesInv => Seen)'
    BY FramesSeen, PTL
  <2>. QED BY <2>1
<1>2. /\ PlaceOf = [g \in Frames |-> PlaceOf[g]] /\ CatOf = [g \in Frames |-> CatOf[g]]
      /\ PlaceOf' = [g \in Frames |-> PlaceOf'[g]] /\ CatOf' = [g \in Frames |-> CatOf'[g]]
  BY <1>1 DEF Seen
<1>3. \A g \in Frames \ {f} : PlaceOf'[g] = PlaceOf[g] /\ CatOf'[g] = CatOf[g]
  BY DEF Boards
<1>. QED
  BY <1>2, <1>3

(* nrf_wifi_fmac_start_xmit takes a frame over.                            *)
LEMMA LookupService ==
    ASSUME FramesInv, FramesInv', NEW v \in Vifs, NEW f \in Frames, XmitLookup(v, f)
    PROVE  Service!Accept(f)
<1>0. Seen /\ Seen' /\ CallsApart /\ xmit \in [Vifs -> Calls] /\ None \notin Frames
  <2>1. (FramesInv => Seen) /\ (FramesInv => Seen)'
    BY FramesSeen, PTL
  <2>. QED BY <2>1, ConstantsOK DEF FramesInv, FieldsOK, ConstantsOK
<1>1. xmit[v] = Idle /\ f \notin live /\ live' = live \cup {f} /\ tx' = tx
  BY DEF XmitLookup
<1>2. PICK q \in Acs :
         xmit' = [xmit EXCEPT ![v] =
                     [frame |-> f, peer |-> PeerGetId(tx, Dest[f]), ac |-> q]]
  <2>1. \A q \in (IF Dest[f] = Group THEN {MC} ELSE TrafficAcs) : q \in Acs
    BY ConstantsOK, Sets DEF ConstantsOK, MC
  <2>2. PICK q \in (IF Dest[f] = Group THEN {MC} ELSE TrafficAcs) :
           xmit' = [xmit EXCEPT ![v] =
                       [frame |-> f, peer |-> PeerGetId(tx, Dest[f]), ac |-> q]]
    BY DEF XmitLookup
  <2>. QED BY <2>1, <2>2, Zenon
<1>3. xmit'[v].frame = f /\ xmit'[v].ac = q /\ \A w \in Vifs \ {v} : xmit'[w] = xmit[w]
  BY <1>0, <1>2
<1>4. /\ PlaceOf[f] = AtStack /\ PlaceOf'[f] = Waiting /\ CatOf'[f] = q
  <2>1. \A d \in Tokens : ~ Carries(tx, f, d)
    BY <1>0, <1>1 DEF CallsApart, Has
  <2>2. \A d \in Tokens : ~ Carries(tx', f, d)
    BY <1>1, <2>1
  <2>3. f \in live'
    BY <1>1
  <2>4. PlaceOf[f] = AtStack
    BY <1>0, <1>1 DEF Seen
  <2>5. PlaceOf'[f] = Waiting
    BY <1>0, <2>2, <2>3 DEF Seen, Carries, OnToken
  <2>6. CatOf'[f] = q
    BY <1>0, <1>3 DEF Seen
  <2>. QED BY <2>4, <2>5, <2>6
<1>5. ASSUME NEW g \in Frames \ {f} PROVE Boards(g, {})
  <2>1. Ships(tx, tx', {})
    BY <1>1, SameShips DEF SameFrames
  <2>2. \A w \in Vifs : xmit[w].frame = g => xmit'[w] = xmit[w]
    BY <1>0, <1>1, <1>3 DEF Idle
  <2>3. g \in live <=> g \in live'
    BY <1>1
  <2>. QED BY <2>1, <2>2, <2>3, FrameBoards
<1>6. /\ PlaceOf' = [PlaceOf EXCEPT ![f] = Waiting]
      /\ CatOf' = [CatOf EXCEPT ![f] = q]
  BY <1>4, <1>5, OneMoves
<1>. QED
  BY <1>2, <1>4, <1>6 DEF Service!Accept

(* The handlers of the peer table do nothing the service sees, and those   *)
(* of the power save of the stations send frames.                          *)
LEMMA PeerService ==
    ASSUME FramesInv, FramesInv',
           \/ \E a \in Stations : Doze(a) \/ PeerAdd(a) \/ PeerRemove(a)
           \/ PeersFlush
           \/ UNCHANGED vars
    PROVE  PlaceOf' = PlaceOf /\ CatOf' = CatOf
<1>1. SameFrames(tx, tx') /\ SameTokens(tx, tx') /\ xmit' = xmit /\ live' = live
  <2>1. CASE UNCHANGED vars
    BY <2>1 DEF vars, SameFrames, SameTokens
  <2>. QED BY <2>1, PeerSteps DEF FramesInv
<1>2. Ships(tx, tx', {})
  <2>1. \A e \in Tokens : TxDoneQueue(tx', e) = TxDoneQueue(tx, e)
    BY <1>1 DEF SameTokens, TxDoneQueue, SpareNibble
  <2>. QED BY <1>1, <2>1, SameShips
<1>3. ASSUME NEW f \in Frames PROVE Boards(f, {})
  BY <1>1, <1>2, FrameBoards
<1>. QED
  BY <1>3, NoneBoards

LEMMA NextBatches ==
    ASSUME FramesInv', TokenInv' PROVE Service!BatchesOK'
<1>1. (FramesInv /\ TokenInv => Service!BatchesOK)'
  BY ServiceBatches, PTL
<1>. QED
  BY <1>1

LEMMA WakeService ==
    ASSUME FramesInv, FramesInv', TokenInv, TokenInv', HalMayFail = FALSE, NEW a \in Stations,
           (\E n \in 1 .. MaxPsTokens : GetFrames(a, n)) \/ WakeUp(a)
    PROVE  Service!Send
<1>1. PICK u : /\ tx' = ServeAll(u, TRUE)
               /\ Typed(u)
               /\ SameFrames(tx, u) /\ SameTokens(tx, u) /\ SameCommands(tx, u)
               /\ xmit' = xmit /\ live' = live
  BY WakeSteps DEF FramesInv
<1>2. Good(u) /\ Sound(u)
  BY <1>1, SameGood, SameSound DEF FramesInv, TokenInv, SameTokens
<1>3. Ships(u, tx', Idles(u))
  BY <1>1, <1>2, ServeAllShips
<1>4. \A f \in Frames :
         /\ \A q \in Acs : Waits(u, f, q) <=> Waits(tx, f, q)
         /\ \A d \in Tokens : Carries(u, f, d) <=> Carries(tx, f, d)
  BY <1>1 DEF SameFrames, Waits, InQueue, Carries, OnToken
<1>5. \A d \in Tokens : TxDoneQueue(u, d) = TxDoneQueue(tx, d)
  BY <1>1 DEF SameTokens, TxDoneQueue, SpareNibble
<1>6. \A f \in Frames : Boards(f, Idles(u))
  <2>1. Idles(u) \in SUBSET Tokens
    BY DEF Idles
  <2>. QED BY <1>1, <1>3, <1>4, <1>5, <2>1, FrameBoards
<1>7. Idles(u) \subseteq {d \in Tokens : Service!Batch(d) = {}}
  BY <1>1, EmptyTokens DEF SameTokens, Idles
<1>. QED
  BY <1>6, <1>7, NextBatches DEF Boards, Service!Send, Service!Board

(* nrf_wifi_fmac_tx frees the frame, or sends it or leaves it to wait.     *)
LEMMA XmitService ==
    ASSUME FramesInv, FramesInv', TokenInv, TokenInv', HalMayFail = FALSE,
           NEW v \in Vifs, XmitTx(v)
    PROVE  (\E f \in Frames : Service!Refuse(f)) \/ Service!Send
<1> DEFINE x == xmit[v]
           e == Enqueue(tx, x.frame, x.ac, x.peer, TRUE)
           r == FmacTx(tx, x.frame, x.ac, x.peer, TRUE)
<1>0. Good(tx) /\ CallsApart /\ xmit \in [Vifs -> Calls] /\ Sound(tx) /\ UnicastCalls
  BY DEF FramesInv, FieldsOK, TokenInv
<1>1. /\ x # Idle /\ xmit' = [xmit EXCEPT ![v] = Idle]
      /\ tx' = r.tx
      /\ live' = IF r.status = "fail" THEN live \ {x.frame} ELSE live
  BY DEF XmitTx, Reachable
<1>2. /\ x.frame \in Frames /\ x.ac \in Unicast /\ x.ac \in Acs /\ x.peer \in SwPeers
      /\ ~ Has(tx, x.frame)
  BY <1>0, <1>1, Sets DEF Calls, CallsApart, UnicastCalls
<1>3. \/ r.status = "fail" /\ r.tx = tx
      \/ /\ r.status # "fail"
         /\ SameTokens(tx, e) /\ Enters(tx, e, x.frame, x.ac)
  BY <1>0, <1>2, FmacTxFits
<1>4. \/ r.status = "fail" /\ r.tx = tx
      \/ r.status # "fail" /\ Ships(e, r.tx, Idles(tx))
  BY <1>0, <1>2, FmacTxShips
<1>5. /\ \A w \in Vifs : xmit'[w] = IF w = v THEN Idle ELSE xmit[w]
      /\ \A f \in Frames :
            (\E w \in Vifs : xmit'[w].frame = f) <=>
                (\E w \in Vifs : xmit[w].frame = f) /\ f # x.frame
  BY <1>1, CallEnds
<1>. HIDE DEF e, r
<1>6. Seen /\ Seen'
  <2>1. (FramesInv => Seen) /\ (FramesInv => Seen)'
    BY FramesSeen, PTL
  <2>. QED BY <2>1
<1>7. x.frame \in live /\ \A d \in Tokens : ~ Carries(tx, x.frame, d)
  BY <1>0, <1>2 DEF CallsApart, Has
<1>8. PlaceOf[x.frame] = Waiting /\ CatOf[x.frame] = x.ac
  BY <1>2, <1>6, <1>7 DEF Seen
<1>9. \A g \in Frames \ {x.frame} : \A w \in Vifs : xmit[w].frame = g => xmit'[w] = xmit[w]
  BY <1>5
<1>10. CASE r.status = "fail" /\ r.tx = tx
  <2>1. tx' = tx /\ live' = live \ {x.frame}
    BY <1>1, <1>10
  <2>2. Ships(tx, tx', {})
    BY <2>1, SameShips DEF SameFrames
  <2>3. ASSUME NEW g \in Frames \ {x.frame} PROVE Boards(g, {})
    <3>1. g \in live <=> g \in live'
      BY <2>1
    <3>. QED BY <1>9, <2>1, <2>2, <3>1, FrameBoards
  <2>4. PlaceOf'[x.frame] = AtStack /\ CatOf'[x.frame] = None
    BY <1>2, <1>6, <2>1 DEF Seen
  <2>5. /\ PlaceOf' = [PlaceOf EXCEPT ![x.frame] = AtStack]
        /\ CatOf' = [CatOf EXCEPT ![x.frame] = None]
    BY <1>2, <2>3, <2>4, OneMoves
  <2>6. Service!Refuse(x.frame)
    BY <1>8, <2>5 DEF Service!Refuse
  <2>. QED BY <1>2, <2>6
<1>11. CASE /\ r.status # "fail" /\ SameTokens(tx, e) /\ Enters(tx, e, x.frame, x.ac)
            /\ Ships(e, r.tx, Idles(tx))
  <2>1. live' = live /\ Ships(e, tx', Idles(tx))
    BY <1>1, <1>11
  <2>2. ASSUME NEW g \in Frames \ {x.frame} PROVE Boards(g, Idles(tx))
    <3>1. /\ \A q \in Acs : Waits(e, g, q) <=> Waits(tx, g, q)
          /\ \A d \in Tokens : Carries(e, g, d) <=> Carries(tx, g, d)
      BY <1>11 DEF Enters
    <3>2. \A d \in Tokens : TxDoneQueue(e, d) = TxDoneQueue(tx, d)
      BY <1>11 DEF SameTokens, TxDoneQueue, SpareNibble
    <3>3. Idles(tx) \in SUBSET Tokens
      BY DEF Idles
    <3>. QED BY <1>9, <2>1, <3>1, <3>2, <3>3, FrameBoards
  <2>3. Boards(x.frame, Idles(tx))
    <3>1. Waits(e, x.frame, x.ac) /\ \A d \in Tokens : ~ Carries(e, x.frame, d)
      BY <1>2, <1>7, <1>11 DEF Enters
    <3>2. CASE \E d \in Idles(tx) : Carries(tx', x.frame, d) /\ TxDoneQueue(tx', d) = x.ac
      <4>1. PICK d \in Idles(tx) : Carries(tx', x.frame, d) /\ TxDoneQueue(tx', d) = x.ac
        BY <3>2
      <4>2. d \in Tokens
        BY DEF Idles
      <4>3. PlaceOf'[x.frame] = d /\ CatOf'[x.frame] = x.ac
        <5>1. PICK g \in Frames : g = x.frame
          BY <1>2
        <5>2. \A c \in Tokens : PlaceOf'[g] = c <=> Carries(tx', g, c)
          BY <1>6 DEF Seen, Carries, OnToken
        <5>3. \A c \in Tokens : Carries(tx', g, c) => CatOf'[g] = TxDoneQueue(tx', c)
          BY <1>6 DEF Seen, Holder, Carries, OnToken, TxDoneQueue, SpareNibble
        <5>. QED BY <4>1, <4>2, <5>1, <5>2, <5>3
      <4>. QED BY <1>8, <4>3 DEF Boards
    <3>3. CASE Waits(tx', x.frame, x.ac)
      <4>1. Once(tx')
        BY DEF FramesInv, Good, Once, InQueue, OnToken
      <4>2. \A d \in Tokens : ~ Carries(tx', x.frame, d)
        BY <1>2, <3>3, <4>1 DEF Once, Waits, Carries
      <4>3. x.frame \in live'
        BY <1>7, <2>1
      <4>4. PlaceOf'[x.frame] = Waiting
        BY <1>2, <1>6, <4>2, <4>3 DEF Seen, Carries, OnToken
      <4>5. CatOf'[x.frame] = x.ac
        BY <1>2, <1>6, <3>3 DEF Seen, Waits, InQueue
      <4>. QED BY <1>8, <4>4, <4>5 DEF Boards
    <3>. QED BY <1>2, <2>1, <3>1, <3>2, <3>3 DEF Ships
  <2>4. Idles(tx) \subseteq {d \in Tokens : Service!Batch(d) = {}}
    BY EmptyTokens
  <2>5. \A g \in Frames : Boards(g, Idles(tx))
    BY <2>2, <2>3
  <2>6. Service!Send
    BY <2>4, <2>5, NextBatches DEF Boards, Service!Send, Service!Board
  <2>. QED BY <2>6
<1>. QED
  BY <1>3, <1>4, <1>10, <1>11

(* The frames of a batch that is done are freed, and its token may leave   *)
(* with the next batch.                                                    *)
LEMMA DoneService ==
    ASSUME FramesInv, FramesInv', TokenInv, TokenInv', HalMayFail = FALSE,
           NEW d \in Tokens, TxDoneEvent(d)
    PROVE  Service!Complete(d)
<1>0. Good(tx) /\ CallsApart /\ FieldsOK /\ xmit \in [Vifs -> Calls] /\ Sound(tx)
      /\ None \notin Frames
  BY ConstantsOK DEF FramesInv, FieldsOK, TokenInv, ConstantsOK
<1>1. PICK u : /\ tx' = BuffReqFree(u, d, TRUE)
               /\ Typed(u) /\ Taken(u, d) /\ Once(u)
               /\ u.pending = tx.pending /\ u.pkt = [tx.pkt EXCEPT ![d] = <<>>]
               /\ u.in_rpu = tx.in_rpu \ {d} /\ u.busy = tx.busy
               /\ u.outstanding = tx.outstanding /\ u.spare_map = tx.spare_map
               /\ live' = live \ ToSet(tx.pkt[d])
               /\ xmit' = xmit
               /\ d \in tx.busy
  BY <1>0, DoneSteps
<1>2. \A e \in Tokens : TxDoneQueue(u, e) = TxDoneQueue(tx, e)
  BY <1>1 DEF TxDoneQueue, SpareNibble
<1>3. Sound(u)
  <2>1. \A e : SpareNibble(u, e) = SpareNibble(tx, e)
    BY <1>1 DEF SpareNibble
  <2>2. \A q : HeldBy(u, q) = HeldBy(tx, q)
    BY <1>0, <1>1, <1>2 DEF HeldBy, Sound, Typed, Config
  <2>. QED BY <1>0, <1>1, <2>1, <2>2 DEF Sound, Counted, Marked
<1>4. Ships(u, tx', {d})
  BY <1>1, <1>3, BuffReqFreeShips
<1>5. Seen /\ Seen'
  <2>1. (FramesInv => Seen) /\ (FramesInv => Seen)'
    BY FramesSeen, PTL
  <2>. QED BY <2>1
<1>6. \A f \in Frames : f \in Service!Batch(d) <=> Carries(tx, f, d)
  BY <1>5 DEF Seen, Service!Batch
<1>7. \A f \in Frames : f \in ToSet(tx.pkt[d]) <=> Carries(tx, f, d)
  BY <1>0, CarriesIn DEF Good
<1>8. Service!Batch(d) # {}
  <2>1. IsLoad(tx.pkt[d]) /\ tx.pkt[d] \in Seq(Frames)
    BY <1>0, <1>1, Fields DEF Good, AllFit, Fits, Loaded
  <2>2. Len(tx.pkt[d]) \in Nat /\ Len(tx.pkt[d]) >= 1 /\ DOMAIN tx.pkt[d] = 1 .. Len(tx.pkt[d])
    <3>1. Len(tx.pkt[d]) \in Nat /\ DOMAIN tx.pkt[d] = 1 .. Len(tx.pkt[d])
      BY <2>1, LenProperties
    <3>2. Len(tx.pkt[d]) = 1 \/ Len(tx.pkt[d]) > 0
      BY <2>1 DEF IsLoad
    <3>3. \A n \in Nat : n = 1 \/ n > 0 => n >= 1
      OBVIOUS
    <3>. QED BY <3>1, <3>2, <3>3
  <2>3. 1 \in DOMAIN tx.pkt[d] /\ tx.pkt[d][1] \in Frames
    BY <2>1, <2>2, ElementOfSeq
  <2>4. tx.pkt[d][1] \in ToSet(tx.pkt[d])
    BY <2>3 DEF ToSet
  <2>. QED BY <1>6, <1>7, <2>3, <2>4
<1>9. \A f \in Service!Batch(d) : PlaceOf'[f] = AtStack /\ CatOf'[f] = None
  <2>. SUFFICES ASSUME NEW f \in Frames, Carries(tx, f, d)
                PROVE  PlaceOf'[f] = AtStack /\ CatOf'[f] = None
    BY <1>6 DEF Service!Batch
  <2>1. f \notin live'
    BY <1>1, <1>7
  <2>. QED BY <1>5, <2>1 DEF Seen
<1>10. ASSUME NEW f \in Frames \ Service!Batch(d)
       PROVE  Boards(f, {d})
  <2>1. ~ Carries(tx, f, d)
    BY <1>6
  <2>2. \A q \in Acs : Waits(u, f, q) <=> Waits(tx, f, q)
    BY <1>1 DEF Waits, InQueue
  <2>3. tx.pkt \in [Tokens -> Seq(Frames)]
    BY <1>0, Fields DEF Good
  <2>4. \A e \in Tokens \ {d} : Carries(u, f, e) <=> Carries(tx, f, e)
    BY <1>1, <2>3 DEF Carries, OnToken
  <2>5. ~ Carries(u, f, d)
    <3>1. DOMAIN <<>> = {}
      OBVIOUS
    <3>2. u.pkt[d] = <<>>
      BY <1>1, <2>3
    <3>. QED BY <3>1, <3>2 DEF Carries, OnToken
  <2>6. \A e \in Tokens : Carries(u, f, e) <=> Carries(tx, f, e)
    BY <2>1, <2>4, <2>5
  <2>7. f \in live <=> f \in live'
    BY <1>1, <1>7, <2>1
  <2>. QED BY <1>1, <1>2, <1>4, <2>2, <2>6, <2>7, FrameBoards
<1>11. Service!Board({d}, Frames \ Service!Batch(d))
  BY <1>10, NextBatches DEF Boards, Service!Board
<1>. QED
  BY <1>8, <1>9, <1>11 DEF Service!Complete

(* Every step of the token machinery is one of the service, or none.       *)
LEMMA NextService ==
    ASSUME HalMayFail = FALSE
    PROVE  FramesInv /\ TokenInv /\ [Next]_vars /\ FramesInv' /\ TokenInv' =>
               [Service!Next]_Service!vars
<1>. SUFFICES ASSUME FramesInv, TokenInv, [Next]_vars, FramesInv', TokenInv'
              PROVE  [Service!Next]_Service!vars
  OBVIOUS
<1>1. ASSUME NEW v \in Vifs, NEW f \in Frames, XmitLookup(v, f)
      PROVE  Service!Next
  BY <1>1, LookupService DEF Service!Next
<1>2. ASSUME NEW v \in Vifs, XmitTx(v)
      PROVE  Service!Next
  BY <1>2, XmitService DEF Service!Next
<1>3. ASSUME NEW d \in Tokens, TxDoneEvent(d)
      PROVE  Service!Next
  BY <1>3, DoneService DEF Service!Next
<1>4. ASSUME NEW a \in Stations, (\E n \in 1 .. MaxPsTokens : GetFrames(a, n)) \/ WakeUp(a)
      PROVE  Service!Next
  BY <1>4, WakeService DEF Service!Next
<1>5. ASSUME \/ \E a \in Stations : Doze(a) \/ PeerAdd(a) \/ PeerRemove(a)
             \/ PeersFlush
             \/ UNCHANGED vars
      PROVE  UNCHANGED Service!vars
  BY <1>5, PeerService DEF Service!vars
<1>. QED
  BY <1>1, <1>2, <1>3, <1>4, <1>5 DEF Next

LEMMA InitService == Init => Service!Init
<1>. SUFFICES ASSUME Init PROVE Service!Init
  OBVIOUS
<1>1. Seen /\ live = {}
  BY InitFrames, FramesSeen DEF Init
<1>2. \A f \in Frames : PlaceOf[f] = AtStack /\ CatOf[f] = None
  BY <1>1 DEF Seen
<1>3. PlaceOf = [f \in Frames |-> PlaceOf[f]] /\ CatOf = [f \in Frames |-> CatOf[f]]
  BY <1>1 DEF Seen
<1>4. PlaceOf = [f \in Frames |-> AtStack] /\ CatOf = [f \in Frames |-> None]
  BY <1>2, <1>3
<1>. QED
  BY <1>4 DEF Service!Init

(* The token machinery of fmac_tx.c implements TxService: seen from the    *)
(* stack, each frame is taken over once, waits, travels with a batch of    *)
(* one category on a token that serves it, and comes back with its batch,  *)
(* whatever the queues, counters and maps do in between.                   *)
THEOREM TxPathIsService ==
    ASSUME NoGroupTraffic, HalMayFail = FALSE
    PROVE  Spec => ImplementsService
<1> DEFINE Inv == FramesInv /\ TokenInv
<1>1. Init => Inv
  BY InitFrames, InitSound
<1>2. Inv /\ [Next]_vars => Inv'
  <2>1. FramesInv /\ [Next]_vars => FramesInv'
    BY NextFrames, Zenon
  <2>2. TokenInv /\ [Next]_vars => TokenInv'
    BY NextSound, Zenon
  <2>. QED BY <2>1, <2>2
<1>3. Init => Service!Init
  BY InitService
<1>4. Inv /\ Inv' /\ [Next]_vars => [Service!Next]_Service!vars
  <2>1. FramesInv /\ TokenInv /\ [Next]_vars /\ FramesInv' /\ TokenInv' =>
            [Service!Next]_Service!vars
    BY NextService, Zenon
  <2>. QED BY <2>1
<1>. QED
  BY <1>1, <1>2, <1>3, <1>4, PTL DEF Spec, ImplementsService, Service!Spec

-----------------------------------------------------------------------------
(* Frames of dozing stations                                               *)

(* From s to t no slot gains a power-save token or changes its mode, and a *)
(* dozing one whose queues lose a frame loses a token.                     *)
Spends(s, t) ==
    \A p \in Slots :
        /\ t.peers[p].ps = s.peers[p].ps
        /\ t.peers[p].tokens <= s.peers[p].tokens
        /\ \/ ~ s.peers[p].ps
           \/ Queued(s, p) \subseteq Queued(t, p)
           \/ t.peers[p].tokens < s.peers[p].tokens

(* The slots, their modes and queues are as they were. *)
SpendsNothing(s, t) ==
    \A p \in Slots : /\ t.peers[p].ps = s.peers[p].ps
                     /\ t.peers[p].tokens = s.peers[p].tokens
                     /\ t.pending[p] = s.pending[p]

(* A step that leaves all that alone spends. *)
LEMMA NothingSpent ==
    ASSUME NEW s, Typed(s), NEW t, SpendsNothing(s, t)
    PROVE  Spends(s, t)
<1>1. \A p \in Slots : s.peers[p].tokens \in Nat
  BY Fields, Sets DEF Peer
<1>. QED BY <1>1 DEF Spends, SpendsNothing, Queued

(* Two such steps make one. *)
LEMMA SpendsTwice ==
    ASSUME NEW s, NEW t, NEW u, Typed(s), Typed(t), Typed(u), Spends(s, t), Spends(t, u)
    PROVE  Spends(s, u)
<1>. SUFFICES ASSUME NEW p \in Slots
              PROVE  /\ u.peers[p].ps = s.peers[p].ps
                     /\ u.peers[p].tokens <= s.peers[p].tokens
                     /\ \/ ~ s.peers[p].ps
                        \/ Queued(s, p) \subseteq Queued(u, p)
                        \/ u.peers[p].tokens < s.peers[p].tokens
  BY DEF Spends
<1>1. s.peers[p].tokens \in Nat /\ t.peers[p].tokens \in Nat /\ u.peers[p].tokens \in Nat
  BY Fields, Sets DEF Peer
<1>2. /\ t.peers[p].ps = s.peers[p].ps
      /\ t.peers[p].tokens <= s.peers[p].tokens
      /\ \/ ~ s.peers[p].ps
         \/ Queued(s, p) \subseteq Queued(t, p)
         \/ t.peers[p].tokens < s.peers[p].tokens
  BY DEF Spends
<1>3. /\ u.peers[p].ps = t.peers[p].ps
      /\ u.peers[p].tokens <= t.peers[p].tokens
      /\ \/ ~ t.peers[p].ps
         \/ Queued(t, p) \subseteq Queued(u, p)
         \/ u.peers[p].tokens < t.peers[p].tokens
  BY DEF Spends
<1>4. u.peers[p].tokens <= s.peers[p].tokens
  BY <1>1, <1>2, <1>3
<1>5. CASE ~ s.peers[p].ps
  BY <1>2, <1>3, <1>4, <1>5
<1>6. CASE t.peers[p].tokens < s.peers[p].tokens \/ u.peers[p].tokens < t.peers[p].tokens
  <2>1. u.peers[p].tokens < s.peers[p].tokens
    BY <1>1, <1>2, <1>3, <1>6
  <2>. QED BY <1>2, <1>3, <1>4, <2>1
<1>7. CASE Queued(s, p) \subseteq Queued(t, p) /\ Queued(t, p) \subseteq Queued(u, p)
  BY <1>2, <1>3, <1>4, <1>7
<1>. QED BY <1>2, <1>3, <1>5, <1>6, <1>7

(* A peer that is served is awake or pays with a token. *)
LEMMA PeerOppSpends ==
    ASSUME NEW s, Typed(s), NEW ac \in Acs
    PROVE  LET o == PeerOpp(s, ac)
           IN  /\ o.tx.pending = s.pending
               /\ \A r \in Slots : /\ o.tx.peers[r].ps = s.peers[r].ps
                                   /\ o.tx.peers[r].tokens <= s.peers[r].tokens
                                   /\ r = o.peer /\ s.peers[r].ps =>
                                        o.tx.peers[r].tokens < s.peers[r].tokens
<1>0. \A r \in Slots : s.peers[r] \in Peer /\ r \in SwPeers /\ s.peers[r].tokens \in Nat
  BY Fields, Sets DEF Peer
<1>1. CASE ac = MC
  <2>1. PeerOpp(s, ac) = [peer |-> MaxPeers, tx |-> s]
    BY <1>1 DEF PeerOpp
  <2>. QED BY <1>0, <2>1, Sets
<1>2. CASE ac # MC /\ \E p \in Slots : IsFirstAwake(s, p, ac)
  <2> DEFINE p == CHOOSE p \in Slots : IsFirstAwake(s, p, ac)
             t == [s EXCEPT !.peers[p].tokens = @ - 1]
  <2>1. p \in Slots
    BY <1>2
  <2>2. PeerOpp(s, ac) = [peer |-> p, tx |-> t]
    BY <1>2 DEF PeerOpp
  <2>. HIDE DEF p
  <2> DEFINE n == s.peers[p].tokens - 1
  <2>3. t.peers = [s.peers EXCEPT ![p].tokens = n] /\ t.pending = s.pending
    BY DEF Typed, Config
  <2>4. n < s.peers[p].tokens /\ n <= s.peers[p].tokens
    BY <1>0, <2>1
  <2>. HIDE DEF t, n
  <2>5. s.peers \in [SwPeers -> Peer]
    BY Fields
  <2>6. \A r \in Slots : t.peers[r] = IF r = p THEN [s.peers[p] EXCEPT !.tokens = n]
                                               ELSE s.peers[r]
    BY <1>0, <2>3, <2>5
  <2>7. [s.peers[p] EXCEPT !.tokens = n].tokens = n
        /\ [s.peers[p] EXCEPT !.tokens = n].ps = s.peers[p].ps
    BY <1>0, <2>1 DEF Peer
  <2>8. ASSUME NEW r \in Slots
        PROVE  /\ t.peers[r].ps = s.peers[r].ps
               /\ t.peers[r].tokens <= s.peers[r].tokens
               /\ r = p /\ s.peers[r].ps => t.peers[r].tokens < s.peers[r].tokens
    <3>1. CASE r = p
      <4>1. t.peers[r] = [s.peers[p] EXCEPT !.tokens = n]
        BY <2>6, <3>1
      <4>2. t.peers[r].tokens = n /\ t.peers[r].ps = s.peers[p].ps
        BY <2>7, <4>1
      <4>. QED BY <2>4, <3>1, <4>2
    <3>2. CASE r # p
      <4>1. t.peers[r] = s.peers[r] /\ s.peers[r].tokens \in Nat
        BY <1>0, <2>6, <3>2
      <4>. QED BY <3>2, <4>1
    <3>. QED BY <3>1, <3>2
  <2>9. PeerOpp(s, ac).tx = t /\ PeerOpp(s, ac).peer = p
    BY <2>2
  <2>. HIDE DEF p
  <2>. QED BY <2>3, <2>8, <2>9
<1>3. CASE ac # MC /\ ~ (\E p \in Slots : IsFirstAwake(s, p, ac))
           /\ \E p \in Slots : IsNextInTurn(s, p, ac)
  <2> DEFINE p == CHOOSE p \in Slots : IsNextInTurn(s, p, ac)
             t == [s EXCEPT !.opp[ac] = TurnAfter(p)]
  <2>1. PeerOpp(s, ac) = [peer |-> p, tx |-> t]
    BY <1>3 DEF PeerOpp
  <2>2. ~ s.peers[p].ps
    BY <1>3 DEF IsNextInTurn, CanServe
  <2>. HIDE DEF p
  <2>3. t.peers = s.peers /\ t.pending = s.pending
    BY DEF Typed, Config
  <2>. HIDE DEF t
  <2>. QED BY <1>0, <2>1, <2>2, <2>3
<1>4. CASE ac # MC /\ ~ (\E p \in Slots : IsFirstAwake(s, p, ac))
           /\ ~ (\E p \in Slots : IsNextInTurn(s, p, ac))
  <2>1. PeerOpp(s, ac) = [peer |-> None, tx |-> s]
    BY <1>4 DEF PeerOpp
  <2>2. None \notin Slots
    BY ConstantsOK, Sets DEF ConstantsOK
  <2>. QED BY <1>0, <2>1, <2>2
<1>. QED
  BY <1>1, <1>2, <1>3, <1>4

(* The bitmaps are no matter of tokens and queues. *)
LEMMA UpdateBmpSpends ==
    ASSUME NEW s, Typed(s), NEW ac, NEW p, NEW up
    PROVE  SpendsNothing(s, UpdateBmp(s, ac, p, up))
<1>1. CASE ~ (ApVif /\ p \in Slots)
  BY <1>1 DEF UpdateBmp, SpendsNothing
<1>2. CASE ApVif /\ p \in Slots
  <2> DEFINE b == IF HasPending(s, p, ac) THEN s.peers[p].bmp \cup {ac}
                                          ELSE s.peers[p].bmp \ {ac}
             t == UpdateBmp(s, ac, p, up)
  <2>1. t = [s EXCEPT !.peers[p].bmp = b, !.rpu_bmp[p] = IF up THEN b ELSE @]
    BY <1>2 DEF UpdateBmp
  <2>. HIDE DEF b
  <2>2. t.peers = [s.peers EXCEPT ![p].bmp = b] /\ t.pending = s.pending
    BY <2>1 DEF Typed, Config
  <2>. HIDE DEF t
  <2>3. \A r \in Slots : s.peers[r] \in Peer /\ r \in SwPeers
    BY Fields, Sets
  <2>4. s.peers \in [SwPeers -> Peer]
    BY Fields
  <2>5. \A r \in Slots : /\ t.peers[r].ps = s.peers[r].ps
                         /\ t.peers[r].tokens = s.peers[r].tokens
    BY <2>2, <2>3, <2>4 DEF Peer
  <2>6. SpendsNothing(s, t)
    BY <2>2, <2>5 DEF SpendsNothing
  <2>. QED BY <2>6 DEF t
<1>. QED
  BY <1>1, <1>2

(* Only the queue of the peer that is served loses frames. *)
LEMMA PendingProcessSpends ==
    ASSUME NEW s, Typed(s), NEW d \in Tokens, NEW ac \in Acs, NEW up
    PROVE  Spends(s, PendingProcess(s, d, ac, up))
<1> DEFINE o == PeerOpp(s, ac)
           t == o.tx
           p == o.peer
           q == s.pending[p][ac]
           n == BatchLen(q, IsLegacy(s, p))
           rest == SubSeq(q, n + 1, Len(q))
           first == SubSeq(q, 1, n)
           u == [t EXCEPT !.pending[p][ac] = rest, !.pkt[d] = first, !.pkt_peer[d] = p]
<1>1. CASE p = None \/ ~ HasPending(s, p, ac)
  <2>1. SpendsNothing(s, PendingProcess(s, d, ac, up))
    BY <1>1 DEF PendingProcess, SpendsNothing
  <2>. QED BY <2>1, NothingSpent
<1>2. CASE p # None /\ HasPending(s, p, ac)
  <2>1. Typed(t) /\ p \in SwPeers /\ Typed(PendingProcess(s, d, ac, up))
    BY <1>2, PeerOppTyped, PendingProcessTyped
  <2>2. PendingProcess(s, d, ac, up) = UpdateBmp(u, ac, p, up)
    BY <1>2 DEF PendingProcess
  <2>3. /\ t.pending = s.pending
        /\ \A r \in Slots : /\ t.peers[r].ps = s.peers[r].ps
                            /\ t.peers[r].tokens <= s.peers[r].tokens
                            /\ r = p /\ s.peers[r].ps =>
                                 t.peers[r].tokens < s.peers[r].tokens
    BY PeerOppSpends
  <2>. HIDE DEF o, t, p
  <2>4. q \in Seq(Frames) /\ q # <<>>
    BY <1>2, <2>1, Fields DEF HasPending
  <2>5. n \in 1 .. Len(q)
    BY <2>4, BatchLenTyped
  <2>. HIDE DEF q, n
  <2>6. Len(q) \in Nat /\ n \in Nat /\ n <= Len(q)
    BY <2>4, <2>5, LenProperties
  <2>7. rest \in Seq(Frames) /\ first \in Seq(Frames)
    BY <2>4, <2>6, SubSeqProperties
  <2>. HIDE DEF rest, first
  <2> DEFINE a == [t.pending EXCEPT ![p][ac] = rest]
             k == [t.pkt EXCEPT ![d] = first]
             v == [t.pkt_peer EXCEPT ![d] = p]
  <2>8. /\ a \in [SwPeers -> [Acs -> Seq(Frames)]]
        /\ k \in [Tokens -> Seq(Frames)] /\ v \in [Tokens -> SwPeers]
    BY <2>1, <2>7, Fields
  <2>9. \A r \in Slots : r # p => a[r] = t.pending[r]
    BY <2>1, Fields
  <2>10. u = [t EXCEPT !.pending = a, !.pkt = k, !.pkt_peer = v]
    OBVIOUS
  <2>. HIDE DEF a, k, v
  <2> DEFINE w == [t EXCEPT !.pending = a, !.pkt = k, !.pkt_peer = v]
  <2>11. Typed(w) /\ SameTokens(t, w)
    <3>1. a \in [SwPeers -> [Acs -> Seq(Frames)]]
      BY <2>8
    <3>2. k \in [Tokens -> Seq(Frames)] /\ v \in [Tokens -> SwPeers]
      BY <2>8
    <3>3. Typed(t)
      BY <2>1
    <3>. QED BY <3>1, <3>2, <3>3, UpdBatch, Zenon
  <2>12. /\ [t EXCEPT !.pending = a, !.pkt = k, !.pkt_peer = v].pending = a
         /\ [t EXCEPT !.pending = a, !.pkt = k, !.pkt_peer = v].peers = t.peers
    BY <2>1 DEF Typed, Config
  <2>13. Typed(u) /\ u.pending = a /\ u.peers = t.peers
    BY <2>10, <2>11, <2>12
  <2>. HIDE DEF u
  <2>14. \A r \in Slots : r # p => Queued(u, r) = Queued(s, r)
    BY <2>3, <2>9, <2>13 DEF Queued
  <2>15. Spends(s, u)
    BY <2>3, <2>13, <2>14 DEF Spends
  <2>16. SpendsNothing(u, UpdateBmp(u, ac, p, up))
    BY <2>13, UpdateBmpSpends
  <2>17. Spends(u, UpdateBmp(u, ac, p, up))
    BY <2>13, <2>16, NothingSpent
  <2>. QED
    BY <2>1, <2>2, <2>13, <2>15, <2>17, SpendsTwice
<1>. QED
  BY <1>1, <1>2

(* The bookkeeping of tokens and commands leaves peers and queues alone. *)
LEMMA CmdInitSpends ==
    ASSUME NEW s, Typed(s), NEW d, NEW up
    PROVE  SpendsNothing(s, CmdInit(s, d, up))
BY DEF CmdInit, Typed, Config, SpendsNothing

LEMMA TokensSpend ==
    ASSUME NEW s, Typed(s), NEW d, NEW q, NEW r
    PROVE  /\ SpendsNothing(s, DescFree(s, d, q))
           /\ SpendsNothing(s, DescTake(s, q, d))
           /\ SpendsNothing(s, Reassign(s, d, q, r))
BY DEF DescFree, DescTake, Reassign, Typed, Config, SpendsNothing

(* tx_pending_process spends as _tx_pending_process does. *)
LEMMA FillTokenSpends ==
    ASSUME NEW s, Typed(s), NEW d \in Tokens, NEW ac \in Acs, NEW up
    PROVE  Spends(s, FillToken(s, d, ac, up))
<1> DEFINE t == PendingProcess(s, d, ac, up)
<1>1. Typed(t) /\ Spends(s, t)
  BY PendingProcessTyped, PendingProcessSpends
<1>2. FillToken(s, d, ac, up) = IF t.pkt[d] # <<>> THEN CmdInit(t, d, up) ELSE DescFree(t, d, ac)
  BY DEF FillToken
<1>. HIDE DEF t
<1>3. /\ Typed(CmdInit(t, d, up)) /\ Spends(t, CmdInit(t, d, up))
      /\ Typed(DescFree(t, d, ac)) /\ Spends(t, DescFree(t, d, ac))
  BY <1>1, CmdInitTyped, DescFreeTyped, CmdInitSpends, TokensSpend, NothingSpent
<1>. QED BY <1>1, <1>2, <1>3, SpendsTwice


(* A frame that joins a queue drives none out of it. *)
LEMMA JoinsQueue ==
    ASSUME NEW q \in Seq(Frames), NEW f \in Frames
    PROVE  ToSet(q) \subseteq ToSet(Append(q, f)) /\ ToSet(q) \subseteq ToSet(<<f>> \o q)
<1>1. Len(q) \in Nat /\ DOMAIN q = 1 .. Len(q)
  BY LenProperties
<1>2. /\ DOMAIN Append(q, f) = 1 .. Len(q) + 1
      /\ \A i \in 1 .. Len(q) : Append(q, f)[i] = q[i]
  BY AppendProperties, <1>1
<1>3. <<f>> \in Seq(Frames) /\ Len(<<f>>) = 1
  OBVIOUS
<1>4. /\ DOMAIN (<<f>> \o q) = 1 .. Len(q) + 1
      /\ \A i \in 1 .. Len(q) : (<<f>> \o q)[i + 1] = q[i]
  BY <1>1, <1>3
<1>5. ASSUME NEW g \in ToSet(q)
      PROVE  g \in ToSet(Append(q, f)) /\ g \in ToSet(<<f>> \o q)
  <2>1. PICK i \in 1 .. Len(q) : q[i] = g
    BY <1>1, <1>5 DEF ToSet
  <2>2. i \in 1 .. Len(q) + 1 /\ i + 1 \in 1 .. Len(q) + 1
    BY <1>1
  <2>3. i \in DOMAIN Append(q, f) /\ i + 1 \in DOMAIN (<<f>> \o q)
    BY <1>2, <1>4, <2>2
  <2>4. Append(q, f)[i] = g /\ (<<f>> \o q)[i + 1] = g
    BY <1>2, <1>4, <2>1
  <2>. QED BY <2>3, <2>4 DEF ToSet
<1>. QED BY <1>5

(* tx_enqueue only adds to the queues. *)
LEMMA EnqueueSpends ==
    ASSUME NEW s, Typed(s), NEW f \in Frames, NEW ac \in Acs, NEW p \in SwPeers, NEW up,
           p \in Slots => ac \in Unicast
    PROVE  Spends(s, Enqueue(s, f, ac, p, up))
<1> DEFINE q == IF f \in Emergency THEN <<f>> \o s.pending[p][ac]
                                   ELSE Append(s.pending[p][ac], f)
           a == [s.pending EXCEPT ![p][ac] = q]
           t == [s EXCEPT !.pending = a]
<1>1. Enqueue(s, f, ac, p, up) = UpdateBmp(t, ac, p, up)
  BY DEF Enqueue
<1>2. s.pending[p][ac] \in Seq(Frames)
  BY Fields
<1>3. q \in Seq(Frames)
  BY <1>2, AppendProperties, ConcatProperties
<1>4. ToSet(s.pending[p][ac]) \subseteq ToSet(q)
  BY <1>2, JoinsQueue
<1>. HIDE DEF q
<1>5. a \in [SwPeers -> [Acs -> Seq(Frames)]]
  BY <1>3, Fields
<1>6. \A r \in Slots, b \in Unicast : ToSet(s.pending[r][b]) \subseteq ToSet(a[r][b])
  <2>1. s.pending \in [SwPeers -> [Acs -> Seq(Frames)]]
    BY Fields
  <2>2. ASSUME NEW r \in SwPeers, NEW b \in Acs
        PROVE  a[r][b] = IF r = p /\ b = ac THEN q ELSE s.pending[r][b]
    BY <2>1
  <2>3. Slots \subseteq SwPeers /\ Unicast \subseteq Acs
    BY Sets
  <2>. HIDE DEF a
  <2>. QED BY <1>4, <2>2, <2>3
<1>. HIDE DEF a
<1>7. Typed(t) /\ SameTokens(s, t)
  BY <1>5, UpdPending
<1>8. t.pending = a /\ t.peers = s.peers
  BY DEF Typed, Config
<1>. HIDE DEF t
<1>9. \A r \in Slots : Queued(s, r) \subseteq Queued(t, r)
  BY <1>6, <1>8 DEF Queued
<1>10. \A r \in Slots : s.peers[r].tokens \in Nat
  BY Fields, Sets DEF Peer
<1>11. Spends(s, t)
  BY <1>8, <1>9, <1>10 DEF Spends
<1>12. SpendsNothing(t, UpdateBmp(t, ac, p, up))
  BY <1>7, UpdateBmpSpends
<1>13. Typed(UpdateBmp(t, ac, p, up))
  BY <1>7, UpdateBmpTyped
<1>14. Spends(t, UpdateBmp(t, ac, p, up))
  BY <1>7, <1>12, NothingSpent
<1>. QED
  BY <1>1, <1>7, <1>11, <1>13, <1>14, SpendsTwice

(* A token taken from the pool and filled. *)
LEMMA TakeAndFillSpends ==
    ASSUME NEW s, Typed(s), NEW d \in Tokens, NEW ac \in Acs, NEW up
    PROVE  /\ Typed(FillToken(DescTake(s, ac, d), d, ac, up))
           /\ Spends(s, FillToken(DescTake(s, ac, d), d, ac, up))
<1> DEFINE t == DescTake(s, ac, d)
<1>1. Typed(t) /\ Spends(s, t)
  BY DescTakeTyped, TokensSpend, NothingSpent
<1>. HIDE DEF t
<1>2. Typed(FillToken(t, d, ac, up)) /\ Spends(t, FillToken(t, d, ac, up))
  BY <1>1, FillTokenTyped, FillTokenSpends
<1>. QED
  BY <1>1, <1>2, SpendsTwice DEF t

(* nrf_wifi_fmac_tx only moves frames of dozing peers that pay. *)
LEMMA FmacTxSpends ==
    ASSUME NEW s, Typed(s), NEW f \in Frames, NEW ac \in Acs, NEW p \in SwPeers, NEW up,
           p \in Slots => ac \in Unicast
    PROVE  Spends(s, FmacTx(s, f, ac, p, up).tx)
<1> DEFINE e == Enqueue(s, f, ac, p, up)
           d == DescPick(e, ac)
           r == FillToken(DescTake(e, ac, d), d, ac, up)
<1>1. Typed(e) /\ Spends(s, e)
  BY EnqueueTyped, EnqueueSpends
<1>2. Spends(s, s)
  BY NothingSpent DEF SpendsNothing
<1>3. FmacTx(s, f, ac, p, up).tx \in {s, e} \/
      (d # NumTokens /\ FmacTx(s, f, ac, p, up).tx = r)
  BY DEF FmacTx
<1>4. CASE d # NumTokens
  <2>1. d \in Tokens
    BY <1>4, DescPickFree
  <2>. HIDE DEF e, d
  <2>2. Typed(r) /\ Spends(e, r)
    BY <1>1, <2>1, TakeAndFillSpends
  <2>. HIDE DEF r
  <2>3. Spends(s, r)
    BY <1>1, <2>2, SpendsTwice
  <2>. QED BY <1>1, <1>2, <1>3, <2>3
<1>. QED
  BY <1>1, <1>2, <1>3, <1>4

(* So does tx_buff_req_free ... *)
LEMMA BuffReqFreeSpends ==
    ASSUME NEW s, Typed(s), NEW d \in Tokens, NEW up
    PROVE  Spends(s, BuffReqFree(s, d, up))
<1> DEFINE q == TxDoneQueue(s, d)
<1>1. q \in Acs
  BY TxDoneQueueTyped
<1>. HIDE DEF q
<1>2. CASE \E ac \in Acs : IsHighest(s, d, ac)
  <2> DEFINE ac == CHOOSE ac \in Acs : IsHighest(s, d, ac)
             t == PendingProcess(s, d, ac, up)
             u == Reassign(t, d, q, ac)
  <2>1. ac \in Acs
    BY <1>2
  <2>2. BuffReqFree(s, d, up) = CmdInit(u, d, up)
    BY <1>2 DEF BuffReqFree, q
  <2>. HIDE DEF ac
  <2>3. Typed(t) /\ Spends(s, t)
    BY <2>1, PendingProcessTyped, PendingProcessSpends
  <2>. HIDE DEF t
  <2>4. Typed(u) /\ Spends(t, u)
    BY <1>1, <2>1, <2>3, ReassignTyped, TokensSpend, NothingSpent
  <2>. HIDE DEF u
  <2>5. Typed(CmdInit(u, d, up)) /\ Spends(u, CmdInit(u, d, up))
    BY <2>4, CmdInitTyped, CmdInitSpends, NothingSpent
  <2>6. Spends(s, u)
    BY <2>3, <2>4, SpendsTwice
  <2>. QED
    BY <2>2, <2>4, <2>5, <2>6, SpendsTwice
<1>3. CASE ~ (\E ac \in Acs : IsHighest(s, d, ac))
  <2>1. BuffReqFree(s, d, up) = DescFree(s, d, q)
    BY <1>3 DEF BuffReqFree, q
  <2>. QED
    BY <1>1, <2>1, TokensSpend, DescFreeTyped, NothingSpent
<1>. QED
  BY <1>2, <1>3

(* ... and the loops of fmac_ap.c, turn by turn. *)
LEMMA ServeAcSpends ==
    ASSUME NEW s, Typed(s), NEW ac \in Acs, NEW up
    PROVE  Typed(ServeAc(s, ac, up)) /\ Spends(s, ServeAc(s, ac, up))
<1> DEFINE d == DescPick(s, ac)
<1>1. CASE d < NumTokens
  <2>1. d # NumTokens
    BY <1>1, Sets
  <2>2. d \in Tokens
    BY <2>1, DescPickFree
  <2>3. ServeAc(s, ac, up) = FillToken(DescTake(s, ac, d), d, ac, up)
    BY <1>1 DEF ServeAc
  <2>. HIDE DEF d
  <2>. QED
    BY <2>2, <2>3, TakeAndFillSpends
<1>2. CASE ~ (d < NumTokens)
  <2>1. ServeAc(s, ac, up) = s
    BY <1>2 DEF ServeAc
  <2>. QED BY <2>1, NothingSpent DEF SpendsNothing
<1>. QED
  BY <1>1, <1>2

LEMMA ServeAllSpends ==
    ASSUME NEW s, Typed(s), NEW up
    PROVE  Spends(s, ServeAll(s, up))
<1>1. VO \in Acs /\ VI \in Acs /\ BE \in Acs /\ BK \in Acs
  BY Sets DEF VO, VI, BE, BK
<1> DEFINE a == ServeAc(s, VO, up)
           b == ServeAc(a, VI, up)
           c == ServeAc(b, BE, up)
           d == ServeAc(c, BK, up)
<1>2. ServeAll(s, up) = d
  BY DEF ServeAll
<1>3. Typed(a) /\ Spends(s, a)
  BY <1>1, ServeAcSpends
<1>. HIDE DEF a
<1>4. Typed(b) /\ Spends(a, b)
  BY <1>1, <1>3, ServeAcSpends
<1>. HIDE DEF b
<1>5. Typed(c) /\ Spends(b, c)
  BY <1>1, <1>4, ServeAcSpends
<1>. HIDE DEF c
<1>6. Typed(d) /\ Spends(c, d)
  BY <1>1, <1>5, ServeAcSpends
<1>. HIDE DEF d
<1>7. Spends(s, b)
  BY <1>3, <1>4, SpendsTwice
<1>8. Spends(s, c)
  BY <1>4, <1>5, <1>7, SpendsTwice
<1>9. Spends(s, d)
  BY <1>5, <1>6, <1>8, SpendsTwice
<1>. QED BY <1>2, <1>9

(* The slots whose frames leave while they doze have paid. *)
DozingPay ==
    \A p \in Slots : Dozing(p) /\ Leaving(p) # {} =>
        tx'.peers[p].tokens < tx.peers[p].tokens

(* A step that spends makes them pay ... *)
LEMMA SpendersPay ==
    ASSUME Spends(tx, tx')
    PROVE  DozingPay
BY DEF Spends, DozingPay, Dozing, Leaving

(* ... and so does one that leaves the queues alone. *)
LEMMA QueuesKept ==
    ASSUME tx'.pending = tx.pending
    PROVE  DozingPay
<1>1. \A p \in Slots : Leaving(p) = {}
  BY DEF Leaving, Queued
<1>. QED BY <1>1 DEF DozingPay

(* Every step but the request of the station makes them pay. *)
LEMMA NextPays ==
    ASSUME FieldsOK, [Next]_vars
    PROVE  [\/ \E a \in Stations, n \in 1 .. MaxPsTokens : GetFrames(a, n)
            \/ DozingPay]_vars
<1>0. Typed(tx) /\ xmit \in [Vifs -> Calls]
  BY DEF FieldsOK, Typed
<1>typed. Typed(tx)
  BY <1>0
<1>1. ASSUME NEW v \in Vifs, NEW f \in Frames, XmitLookup(v, f)
      PROVE  DozingPay
  BY <1>1, QueuesKept DEF XmitLookup
<1>2. ASSUME NEW v \in Vifs, XmitTx(v)
      PROVE  DozingPay
  <2> DEFINE x == xmit[v]
  <2>1. /\ x.frame \in Frames /\ x.ac \in Acs /\ x.peer \in SwPeers
        /\ x.peer \in Slots => x.ac \in Unicast
    BY <1>0, <1>2, Sets DEF XmitTx, Calls
  <2>2. PICK up \in Reachable : tx' = FmacTx(tx, x.frame, x.ac, x.peer, up).tx
    BY <1>2 DEF XmitTx
  <2>3. Spends(tx, tx')
    BY <1>0, <2>1, <2>2, FmacTxSpends
  <2>. QED BY <2>3, SpendersPay
<1>3. ASSUME NEW d \in Tokens, TxDoneEvent(d)
      PROVE  DozingPay
  <2> DEFINE r == tx.in_rpu \ {d}
             m == [tx.mapped EXCEPT ![d] = 0]
             back == [tx EXCEPT !.in_rpu = r, !.mapped = m]
             k == [back.pkt EXCEPT ![d] = <<>>]
             u == [back EXCEPT !.pkt = k]
  <2>1. r \in SUBSET Tokens /\ m \in [Tokens -> Nat]
    BY <1>0, Fields
  <2>2. tx' = back \/ \E up \in Reachable : tx' = BuffReqFree(u, d, up)
    BY <1>3 DEF TxDoneEvent
  <2>. HIDE DEF r, m
  <2>3. Typed(back)
    BY <1>typed, <2>1, UpdDone, Zenon
  <2>4. back.pending = tx.pending /\ back.peers = tx.peers
    BY <1>0 DEF Typed, Config
  <2>. HIDE DEF back
  <2>5. k \in [Tokens -> Seq(Frames)]
    BY <2>3, Fields
  <2>. HIDE DEF k
  <2>6. Typed(u)
    BY <2>3, <2>5, UpdPkt
  <2>7. u.pending = tx.pending /\ u.peers = tx.peers
    BY <2>3, <2>4 DEF Typed, Config
  <2>. HIDE DEF u
  <2>8. CASE tx' = back
    BY <2>4, <2>8, QueuesKept
  <2>9. ASSUME NEW up \in Reachable, tx' = BuffReqFree(u, d, up)
        PROVE  DozingPay
    <3>1. Spends(u, tx')
      BY <2>6, <2>9, BuffReqFreeSpends
    <3>2. Spends(tx, tx')
      BY <2>7, <3>1 DEF Spends, Queued
    <3>. QED BY <3>2, SpendersPay
  <2>. QED BY <2>2, <2>8, <2>9
<1>4. ASSUME NEW a \in Stations, Doze(a)
      PROVE  DozingPay
  <2> DEFINE P == [tx.peers EXCEPT ![PeerGetId(tx, a)].ps = TRUE]
  <2>1. tx' = [tx EXCEPT !.peers = P]
    BY <1>4 DEF Doze
  <2>. HIDE DEF P
  <2>2. tx'.pending = tx.pending
    BY <1>0, <2>1 DEF Typed, Config
  <2>. QED BY <2>2, QueuesKept
<1>5. ASSUME NEW a \in Stations, WakeUp(a)
      PROVE  DozingPay
  <2> DEFINE p == PeerGetId(tx, a)
             P == [tx.peers EXCEPT ![p].ps = FALSE]
             u == [tx EXCEPT !.peers = P, !.wakeup = Append(tx.wakeup, p)]
  <2>1. PICK up \in Reachable : tx' = ServeAll(u, up)
    BY <1>5 DEF WakeUp
  <2>2. tx.peers \in [SwPeers -> Peer]
    BY <1>0, Fields
  <2>. HIDE DEF p
  <2>3. P \in [SwPeers -> Peer]
    BY <2>2, PeerField
  <2>4. \A r \in Slots : r # p => P[r] = tx.peers[r]
    BY <2>2
  <2>5. p \in Slots => ~ P[p].ps
    <3>. SUFFICES ASSUME p \in Slots PROVE ~ P[p].ps
      OBVIOUS
    <3>1. p \in SwPeers /\ tx.peers[p] \in Peer
      BY <2>2, Sets
    <3>2. P[p] = [tx.peers[p] EXCEPT !.ps = FALSE]
      BY <2>2, <3>1
    <3>. QED BY <3>1, <3>2 DEF Peer
  <2>. HIDE DEF P
  <2>6. Typed(u)
    BY <1>typed, <2>3, UpdWakeup, Zenon
  <2>7. u.pending = tx.pending /\ u.peers = P
    BY <1>0 DEF Typed, Config
  <2>. HIDE DEF u
  <2>8. Spends(u, tx')
    BY <2>1, <2>6, ServeAllSpends
  <2>. SUFFICES ASSUME NEW r \in Slots, Dozing(r), Leaving(r) # {}
                PROVE  tx'.peers[r].tokens < tx.peers[r].tokens
    BY DEF DozingPay
  <2>9. tx'.peers[r].ps = u.peers[r].ps
    BY <2>8 DEF Spends
  <2>10. r # p
    BY <2>5, <2>7, <2>9 DEF Dozing
  <2>11. u.peers[r] = tx.peers[r]
    BY <2>4, <2>7, <2>10
  <2>12. Queued(u, r) = Queued(tx, r)
    BY <2>7 DEF Queued
  <2>. QED BY <2>8, <2>11, <2>12 DEF Spends, Dozing, Leaving
<1>6. ASSUME NEW a \in Stations, PeerAdd(a) \/ PeerRemove(a)
      PROVE  DozingPay
  <2>1. tx'.pending = tx.pending
    BY <1>0, <1>6 DEF PeerAdd, PeerRemove, Typed, Config
  <2>. QED BY <2>1, QueuesKept
<1>7. ASSUME PeersFlush
      PROVE  DozingPay
  <2> DEFINE P == [p \in SwPeers |-> IF p \in Slots THEN NoPeer ELSE tx.peers[p]]
  <2>1. tx' = [tx EXCEPT !.peers = P]
    BY <1>7 DEF PeersFlush
  <2>. HIDE DEF P
  <2>2. tx'.pending = tx.pending
    BY <1>0, <2>1 DEF Typed, Config
  <2>. QED BY <2>2, QueuesKept
<1>. QED
  BY <1>1, <1>2, <1>3, <1>4, <1>5, <1>6, <1>7 DEF Next

(* The frames of a dozing station stay in the host until it asks for them, *)
(* and each batch that leaves uses up a power-save token, for any number   *)
(* of stations, tokens and frames, with group traffic, stations that come  *)
(* and go and accesses to the RPU that fail.                               *)
THEOREM DozingFramesHeld == Spec => DozingHeld
<1>1. FieldsOK /\ [Next]_vars =>
          [\/ \E a \in Stations, n \in 1 .. MaxPsTokens : GetFrames(a, n)
           \/ \A p \in Slots : Dozing(p) /\ Leaving(p) # {} =>
                  tx'.peers[p].tokens < tx.peers[p].tokens]_vars
  BY NextPays DEF DozingPay
<1>. QED
  BY <1>1, InitTyped, NextTyped, PTL DEF Spec, DozingHeld
=============================================================================
