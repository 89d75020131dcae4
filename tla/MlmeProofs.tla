----------------------------- MODULE MlmeProofs -----------------------------
(***************************************************************************)
(* Proofs about Mlme: the type invariant, that a scan is of the SSIDs      *)
(* asked for and reported done once, that a frame's status is reported     *)
(* once and under its cookie, and that cfg80211's idea of being connected  *)
(* is true when all is quiet, for any number of access points and calls.   *)
(*                                                                         *)
(* The inductive invariants say what the commands and events on their way  *)
(* will bring.  They are stated with a few operators on sequences, for     *)
(* which the first lemmas say what appending to the end and taking from    *)
(* the front does to them.                                                 *)
(***************************************************************************)
EXTENDS Mlme, FiniteSetTheorems, SequenceTheorems, TLAPS

(* There is a member of S in q; there is at most one; the last one, if      *)
(* there is one, is in T; each one has a member of T behind it.             *)
Some(q, S) == \E i \in 1..Len(q) : q[i] \in S
Once(q, S) == \A i, j \in 1..Len(q) : q[i] \in S /\ q[j] \in S => i = j
LastIn(q, S, T) == \A i \in 1..Len(q) :
  q[i] \in S /\ (\A j \in 1..Len(q) : q[j] \in S => j <= i) => q[i] \in T
Followed(q, S, T) == \A i \in 1..Len(q) :
  q[i] \in S => \E j \in 1..Len(q) : i < j /\ q[j] \in T

-----------------------------------------------------------------------------
(* Scans.                                                                   *)
ScanCmd == {c \in Commands : c.cmd = "TRIGGER_SCAN"}
OtherSsids == {c \in ScanCmd : ~(wanted \subseteq c.ssids)}
ScanEnd == {e \in Events : \/ e.event \in {"SCAN_DONE", "SCAN_ABORTED"}
                           \/ e.event = "SCAN_RESULT" /\ e.ok}

(* The request the driver works on is the one cfg80211 waits for, and none  *)
(* that was reported done.                                                  *)
RequestInv ==
  /\ n_scan_req # 0 => n_scan_req = scan_req
  /\ pc = "scan" => n_scan_req = 0 /\ scan_req = calls
  /\ scan_req <= calls
  /\ \A i \in 1..Len(scans) : /\ scans[i].req # 0 /\ scans[i].req <= calls
                              /\ scans[i].req # scan_req
  /\ \A i, j \in 1..Len(scans) : i # j => scans[i].req # scans[j].req

(* While cfg80211 waits there is at most one scan: the command, the scan    *)
(* itself, or its last event.  When it does not, there is none.             *)
OneScan ==
  /\ Once(cmdq, ScanCmd) /\ Once(evtq, ScanEnd)
  /\ Some(cmdq, ScanCmd) => rpu.scan = 0 /\ ~Some(evtq, ScanEnd)
  /\ rpu.scan # 0 => ~Some(evtq, ScanEnd)
  /\ scan_req = 0 => ~Some(cmdq, ScanCmd) /\ rpu.scan = 0 /\ ~Some(evtq, ScanEnd)
  /\ ~Some(cmdq, OtherSsids)
  /\ rpu.scan # 0 => wanted \subseteq probed

-----------------------------------------------------------------------------
(* Frames.                                                                  *)
FrameCmd(c) == {m \in Commands : m.cmd = "FRAME" /\ m.call = c}
Resp(c) == {e \in Events : e.event = "COOKIE_RESP" /\ e.call = c}
Status(c) == {e \in Events : e.event = "FRAME_TX_STATUS" /\ e.call = c}
Pair(c) == [host |-> c, rpu |-> c]
Reported(c) == \E i \in 1..Len(reports) : reports[i].frame = c
OnAir(c) == c \in rpu.frames \/ Some(evtq, Status(c))

(* A frame is with the driver's command, with the RPU, or reported, one     *)
(* after the other; a cookie used for one is neither 0 nor new; the RPU's   *)
(* cookie comes before the frame's status and is kept until then or lost.   *)
FrameOf(c) ==
  /\ Once(cmdq, FrameCmd(c)) /\ Once(evtq, Status(c)) /\ Once(evtq, Resp(c))
  /\ Some(cmdq, FrameCmd(c)) => ~OnAir(c) /\ ~Some(evtq, Resp(c)) /\ ~Reported(c)
  /\ OnAir(c) => ~Reported(c)
  /\ c \in rpu.frames => ~Some(evtq, Status(c))
  /\ Some(cmdq, FrameCmd(c)) \/ OnAir(c) \/ Reported(c) => c # 0 /\ c <= cookie_g
  /\ c \in rpu.frames \/ Followed(evtq, Resp(c), Status(c))
  /\ OnAir(c) => Some(evtq, Resp(c)) \/ Pair(c) \in cookie_list \/ c \in lostCookies
  /\ Pair(c) \in cookie_list => OnAir(c)

FrameInv == /\ \A p \in cookie_list : \E c \in Call : p = Pair(c)
            /\ \A c \in Call : FrameOf(c)

ReportInv ==
  /\ \A i \in 1..Len(reports) :
        \/ reports[i].cookie = reports[i].frame
        \/ reports[i].cookie = 0 /\ reports[i].frame \in lostCookies
  /\ \A i, j \in 1..Len(reports) : i # j => reports[i].frame # reports[j].frame

-----------------------------------------------------------------------------
(* The access point.                                                        *)
AssocCmd == {c \in Commands : c.cmd = "ASSOCIATE"}
AssocEvent == {e \in Events : e.event = "ASSOCIATE"}
Joined(b) == {e \in AssocEvent : e.ok /\ e.bss = b}
OtherCmd(b) == {c \in AssocCmd : c.bss # b}
OtherEvent(b) == {e \in AssocEvent : e.bss # b}
Goodbye(b) == {e \in Events : e.event \in {"DEAUTHENTICATE", "DISASSOCIATE"} /\ e.bss = b}
NewSta(b) == {e \in Events : e.event = "NEW_STATION" /\ e.bss = b}
DelSta(b) == {e \in Events : e.event = "DEL_STATION" /\ e.bss = b}
About(b) == NewSta(b) \cup DelSta(b)
NewAny == {e \in Events : e.event = "NEW_STATION"}
NoneAssoc == {c \in AssocCmd : c.bss = None}

(* The RPU is not asked to join no access point, and tells of none.         *)
NoneInv == /\ ~Some(cmdq, NoneAssoc)
           /\ ~Some(evtq, NewSta(None)) /\ None \notin peers

(* The last event about an access point says whether the RPU is with it.    *)
PeerOf(b) ==
  /\ ~Some(evtq, About(b)) => (b \in peers <=> rpu.bss = b)
  /\ LastIn(evtq, About(b), IF rpu.bss = b THEN NewSta(b) ELSE DelSta(b))
PeerInv == \A b \in Bss : PeerOf(b)

(* What cfg80211 is connected to is where the RPU is, or an event on its    *)
(* way will tell otherwise.                                                 *)
ConnectInv == ~overlap =>
  /\ Once(cmdq, AssocCmd) /\ Once(evtq, AssocEvent)
  /\ Some(cmdq, AssocCmd) => ~Some(evtq, AssocEvent)
  /\ ~Some(cmdq, OtherCmd(bss)) /\ ~Some(evtq, OtherEvent(bss))
  /\ connected # None => \/ Some(evtq, AssocEvent) \/ Some(evtq, Goodbye(connected))
                         \/ rpu.bss = connected
  /\ \A b \in Bss : rpu.bss = b \/ Followed(evtq, Joined(b), Goodbye(b))

(* Frames are addressed to the access point the RPU is with, or will be     *)
(* once it has told of it.                                                  *)
AddressInv ==
  rpu.bss # None =>
     /\ LastIn(evtq, NewAny, NewSta(rpu.bss))
     /\ ~badAssoc => Some(cmdq, AssocCmd) \/ Some(evtq, NewAny) \/ bssid = rpu.bss
-----------------------------------------------------------------------------
(* Sequences.                                                               *)

(* What appending e does. *)
LEMMA AppendFacts ==
  ASSUME NEW X, NEW q \in Seq(X), NEW e \in X
  PROVE /\ Append(q, e) \in Seq(X) /\ Len(Append(q, e)) = Len(q) + 1 /\ Len(q) \in Nat
        /\ \A i \in 1..Len(q) : Append(q, e)[i] = q[i]
        /\ Append(q, e)[Len(q) + 1] = e
OBVIOUS

(* What taking the head away does. *)
LEMMA TailFacts ==
  ASSUME NEW X, NEW q \in Seq(X), q # <<>>
  PROVE /\ Tail(q) \in Seq(X) /\ Len(Tail(q)) = Len(q) - 1 /\ Len(q) \in Nat /\ Len(q) > 0
        /\ \A i \in 1..(Len(q) - 1) : Tail(q)[i] = q[i + 1]
        /\ Head(q) = q[1] /\ Head(q) \in X
<1>1. Len(q) \in Nat /\ Len(q) > 0
  BY EmptySeq
<1> QED BY <1>1

LEMMA SomeAppend ==
  ASSUME NEW X, NEW q \in Seq(X), NEW e \in X, NEW S
  PROVE Some(Append(q, e), S) <=> Some(q, S) \/ e \in S
<1>1. \A i \in 1..(Len(q) + 1) : i \in 1..Len(q) \/ i = Len(q) + 1
  BY AppendFacts
<1>2. Len(q) + 1 \in 1..(Len(q) + 1) /\ 1..Len(q) \subseteq 1..(Len(q) + 1)
  BY AppendFacts
<1>3. ASSUME Some(Append(q, e), S) PROVE Some(q, S) \/ e \in S
  BY <1>1, <1>3, AppendFacts DEF Some
<1>4. ASSUME Some(q, S) PROVE Some(Append(q, e), S)
  BY <1>2, <1>4, AppendFacts DEF Some
<1>5. ASSUME e \in S PROVE Some(Append(q, e), S)
  BY <1>2, <1>5, AppendFacts DEF Some
<1> QED BY <1>3, <1>4, <1>5

LEMMA OnceAppend ==
  ASSUME NEW X, NEW q \in Seq(X), NEW e \in X, NEW S, Once(q, S), e \in S => ~Some(q, S)
  PROVE Once(Append(q, e), S)
<1>1. \A i \in 1..(Len(q) + 1) : i \in 1..Len(q) \/ i = Len(q) + 1
  BY AppendFacts
<1> QED BY <1>1, AppendFacts DEF Once, Some

LEMMA LastAppend ==
  ASSUME NEW X, NEW q \in Seq(X), NEW e \in X, NEW S, NEW T,
         e \in S => e \in T, e \notin S => LastIn(q, S, T)
  PROVE LastIn(Append(q, e), S, T)
<1> DEFINE r == Append(q, e)
<1> SUFFICES ASSUME NEW i \in 1..Len(r), r[i] \in S,
                    \A j \in 1..Len(r) : r[j] \in S => j <= i
             PROVE r[i] \in T
  BY DEF LastIn
<1>1. /\ Len(r) = Len(q) + 1 /\ r[Len(q) + 1] = e /\ Len(q) \in Nat
      /\ \A j \in 1..Len(q) : r[j] = q[j]
  BY AppendFacts
<1> HIDE DEF r
<1>2. CASE e \in S
  <2>1. i = Len(q) + 1
    BY <1>1, <1>2
  <2> QED BY <1>1, <1>2, <2>1
<1>3. CASE e \notin S
  <2>1. i \in 1..Len(q)
    BY <1>1, <1>3
  <2>2. \A j \in 1..Len(q) : q[j] \in S => j <= i
    BY <1>1
  <2> QED BY <1>1, <1>3, <2>1, <2>2 DEF LastIn
<1> QED BY <1>2, <1>3

LEMMA FollowedAppend ==
  ASSUME NEW X, NEW q \in Seq(X), NEW e \in X, NEW S, NEW T,
         e \notin S, Followed(q, S, T) \/ e \in T
  PROVE Followed(Append(q, e), S, T)
<1> DEFINE r == Append(q, e)
<1> SUFFICES ASSUME NEW i \in 1..Len(r), r[i] \in S
             PROVE \E j \in 1..Len(r) : i < j /\ r[j] \in T
  BY DEF Followed
<1>1. /\ Len(r) = Len(q) + 1 /\ r[Len(q) + 1] = e /\ Len(q) \in Nat
      /\ \A j \in 1..Len(q) : r[j] = q[j]
  BY AppendFacts
<1> HIDE DEF r
<1>2. i \in 1..Len(q)
  BY <1>1
<1>3. CASE e \in T
  BY <1>1, <1>2, <1>3
<1>4. CASE Followed(q, S, T)
  <2>1. PICK j \in 1..Len(q) : i < j /\ q[j] \in T
    BY <1>1, <1>2, <1>4 DEF Followed
  <2> QED BY <1>1, <2>1
<1> QED BY <1>3, <1>4

LEMMA SomeTail ==
  ASSUME NEW X, NEW q \in Seq(X), q # <<>>, NEW S
  PROVE Some(q, S) <=> Head(q) \in S \/ Some(Tail(q), S)
<1>1. ASSUME Some(Tail(q), S) PROVE Some(q, S)
  <2>1. PICK i \in 1..(Len(q) - 1) : q[i + 1] \in S
    BY <1>1, TailFacts DEF Some
  <2>2. i + 1 \in 1..Len(q)
    BY TailFacts
  <2> QED BY <2>1, <2>2 DEF Some
<1>2. ASSUME Some(q, S), Head(q) \notin S PROVE Some(Tail(q), S)
  <2>1. PICK i \in 1..Len(q) : q[i] \in S
    BY <1>2 DEF Some
  <2>2. i # 1
    BY <1>2, <2>1, TailFacts
  <2>3. i - 1 \in 1..(Len(q) - 1) /\ (i - 1) + 1 = i
    BY <2>2, TailFacts
  <2>4. Tail(q)[i - 1] = q[i] /\ Len(Tail(q)) = Len(q) - 1
    BY <2>3, TailFacts
  <2> QED BY <2>1, <2>3, <2>4 DEF Some
<1>3. ASSUME Head(q) \in S PROVE Some(q, S)
  <2>1. 1 \in 1..Len(q) /\ q[1] \in S
    BY <1>3, TailFacts
  <2> QED BY <2>1 DEF Some
<1> QED BY <1>1, <1>2, <1>3

LEMMA OnceTail ==
  ASSUME NEW X, NEW q \in Seq(X), q # <<>>, NEW S, Once(q, S)
  PROVE Once(Tail(q), S) /\ (Head(q) \in S => ~Some(Tail(q), S))
<1>1. \A i \in 1..(Len(q) - 1) : i + 1 \in 1..Len(q) /\ i + 1 # 1
  BY TailFacts
<1>2. ASSUME NEW i \in 1..Len(Tail(q)), NEW j \in 1..Len(Tail(q)),
             Tail(q)[i] \in S, Tail(q)[j] \in S
      PROVE i = j
  <2>1. /\ i \in 1..(Len(q) - 1) /\ j \in 1..(Len(q) - 1)
        /\ q[i + 1] \in S /\ q[j + 1] \in S
    BY <1>2, TailFacts
  <2>2. i + 1 = j + 1
    BY <1>1, <2>1 DEF Once
  <2> QED BY <2>1, <2>2
<1>3. ASSUME Head(q) \in S, Some(Tail(q), S) PROVE FALSE
  <2>1. PICK i \in 1..(Len(q) - 1) : q[i + 1] \in S
    BY <1>3, TailFacts DEF Some
  <2>2. 1 \in 1..Len(q) /\ q[1] \in S
    BY <1>3, TailFacts
  <2> QED BY <1>1, <2>1, <2>2 DEF Once
<1> QED BY <1>2, <1>3 DEF Once

LEMMA LastTail ==
  ASSUME NEW X, NEW q \in Seq(X), q # <<>>, NEW S, NEW T, LastIn(q, S, T)
  PROVE /\ LastIn(Tail(q), S, T)
        /\ Head(q) \in S /\ ~Some(Tail(q), S) => Head(q) \in T
<1> DEFINE r == Tail(q)
<1>1. /\ Len(r) = Len(q) - 1 /\ Len(q) \in Nat /\ Len(q) > 0 /\ Head(q) = q[1]
      /\ \A j \in 1..(Len(q) - 1) : r[j] = q[j + 1]
  BY TailFacts
<1> HIDE DEF r
<1>2. ASSUME NEW i \in 1..Len(r), r[i] \in S,
             \A j \in 1..Len(r) : r[j] \in S => j <= i
      PROVE r[i] \in T
  <2>1. i + 1 \in 1..Len(q) /\ q[i + 1] = r[i]
    BY <1>1
  <2>2. ASSUME NEW j \in 1..Len(q), q[j] \in S PROVE j <= i + 1
    <3>1. CASE j = 1
      BY <1>1, <3>1
    <3>2. CASE j # 1
      <4>1. j - 1 \in 1..Len(r) /\ r[j - 1] = q[(j - 1) + 1] /\ (j - 1) + 1 = j
        BY <1>1, <3>2
      <4>2. j - 1 <= i
        BY <1>2, <2>2, <4>1
      <4> QED BY <1>1, <4>2
    <3> QED BY <3>1, <3>2
  <2> QED BY <1>2, <2>1, <2>2 DEF LastIn
<1>3. ASSUME Head(q) \in S, ~Some(r, S) PROVE Head(q) \in T
  <2>1. 1 \in 1..Len(q)
    BY <1>1
  <2>2. ASSUME NEW j \in 1..Len(q), q[j] \in S PROVE j <= 1
    <3> SUFFICES ASSUME j # 1 PROVE FALSE
      BY <1>1
    <3>1. j - 1 \in 1..Len(r) /\ r[j - 1] = q[(j - 1) + 1] /\ (j - 1) + 1 = j
      BY <1>1
    <3> QED BY <1>3, <2>2, <3>1 DEF Some
  <2> QED BY <1>1, <1>3, <2>1, <2>2 DEF LastIn
<1> QED BY <1>2, <1>3 DEF LastIn, r

LEMMA FollowedTail ==
  ASSUME NEW X, NEW q \in Seq(X), q # <<>>, NEW S, NEW T, Followed(q, S, T)
  PROVE Followed(Tail(q), S, T) /\ (Head(q) \in S => Some(Tail(q), T))
<1> DEFINE r == Tail(q)
<1>1. /\ Len(r) = Len(q) - 1 /\ Len(q) \in Nat /\ Len(q) > 0 /\ Head(q) = q[1]
      /\ \A j \in 1..(Len(q) - 1) : r[j] = q[j + 1]
  BY TailFacts
<1> HIDE DEF r
<1>2. ASSUME NEW k \in 1..Len(q), q[k] \in S
      PROVE \E j \in 1..Len(r) : k - 1 < j /\ r[j] \in T
  <2>1. PICK j \in 1..Len(q) : k < j /\ q[j] \in T
    BY <1>2 DEF Followed
  <2>2. j - 1 \in 1..Len(r) /\ k - 1 < j - 1 /\ r[j - 1] = q[(j - 1) + 1] /\ (j - 1) + 1 = j
    BY <1>1, <2>1
  <2> QED BY <2>1, <2>2
<1>3. ASSUME NEW i \in 1..Len(r), r[i] \in S
      PROVE \E j \in 1..Len(r) : i < j /\ r[j] \in T
  <2>1. i + 1 \in 1..Len(q) /\ q[i + 1] \in S /\ (i + 1) - 1 = i
    BY <1>1, <1>3
  <2> QED BY <1>2, <2>1
<1>4. ASSUME Head(q) \in S PROVE Some(r, T)
  <2>1. 1 \in 1..Len(q) /\ q[1] \in S
    BY <1>1, <1>4
  <2> QED BY <1>2, <2>1 DEF Some
<1> QED BY <1>3, <1>4 DEF Followed, r

(* From q to r nothing of S comes or goes: r is q, or q without its head,   *)
(* or with something at the end, neither of them in S.                      *)
Same(q, r, S) ==
  \/ r = q
  \/ q # <<>> /\ r = Tail(q) /\ Head(q) \notin S
  \/ /\ Len(r) \in Nat /\ Len(q) \in Nat /\ Len(q) <= Len(r)
     /\ \A i \in 1..Len(q) : r[i] = q[i]
     /\ \A i \in 1..Len(r) : i \notin 1..Len(q) => r[i] \notin S

LEMMA SameSmaller ==
  ASSUME NEW q, NEW r, NEW S, NEW U, U \subseteq S, Same(q, r, S)
  PROVE Same(q, r, U)
BY DEF Same

LEMMA SameSome ==
  ASSUME NEW X, NEW q \in Seq(X), NEW r, NEW S, Same(q, r, S)
  PROVE Some(r, S) <=> Some(q, S)
<1>1. CASE q # <<>> /\ r = Tail(q) /\ Head(q) \notin S
  BY <1>1, SomeTail
<1>2. CASE /\ Len(r) \in Nat /\ Len(q) \in Nat /\ Len(q) <= Len(r)
           /\ \A i \in 1..Len(q) : r[i] = q[i]
           /\ \A i \in 1..Len(r) : i \notin 1..Len(q) => r[i] \notin S
  <2>1. 1..Len(q) \subseteq 1..Len(r)
    BY <1>2
  <2> QED BY <1>2, <2>1 DEF Some
<1> QED BY <1>1, <1>2 DEF Same

LEMMA SameOnce ==
  ASSUME NEW X, NEW q \in Seq(X), NEW r, NEW S, Same(q, r, S), Once(q, S)
  PROVE Once(r, S)
<1>1. CASE q # <<>> /\ r = Tail(q) /\ Head(q) \notin S
  BY <1>1, OnceTail
<1>2. CASE /\ Len(r) \in Nat /\ Len(q) \in Nat /\ Len(q) <= Len(r)
           /\ \A i \in 1..Len(q) : r[i] = q[i]
           /\ \A i \in 1..Len(r) : i \notin 1..Len(q) => r[i] \notin S
  BY <1>2 DEF Once
<1> QED BY <1>1, <1>2 DEF Same

LEMMA SameLast ==
  ASSUME NEW X, NEW q \in Seq(X), NEW r, NEW S, NEW T, Same(q, r, S), LastIn(q, S, T)
  PROVE LastIn(r, S, T)
<1>1. CASE q # <<>> /\ r = Tail(q) /\ Head(q) \notin S
  BY <1>1, LastTail
<1>2. CASE /\ Len(r) \in Nat /\ Len(q) \in Nat /\ Len(q) <= Len(r)
           /\ \A i \in 1..Len(q) : r[i] = q[i]
           /\ \A i \in 1..Len(r) : i \notin 1..Len(q) => r[i] \notin S
  <2>1. 1..Len(q) \subseteq 1..Len(r)
    BY <1>2
  <2> QED BY <1>2, <2>1 DEF LastIn
<1> QED BY <1>1, <1>2 DEF Same

LEMMA SameFollowed ==
  ASSUME NEW X, NEW q \in Seq(X), NEW r, NEW S, NEW T, Same(q, r, S), Followed(q, S, T)
  PROVE Followed(r, S, T)
<1>1. CASE q # <<>> /\ r = Tail(q) /\ Head(q) \notin S
  BY <1>1, FollowedTail
<1>2. CASE /\ Len(r) \in Nat /\ Len(q) \in Nat /\ Len(q) <= Len(r)
           /\ \A i \in 1..Len(q) : r[i] = q[i]
           /\ \A i \in 1..Len(r) : i \notin 1..Len(q) => r[i] \notin S
  <2>1. 1..Len(q) \subseteq 1..Len(r)
    BY <1>2
  <2> QED BY <1>2, <2>1 DEF Followed
<1> QED BY <1>1, <1>2 DEF Same

LEMMA SameAppend ==
  ASSUME NEW X, NEW q \in Seq(X), NEW e \in X, NEW S, e \notin S
  PROVE Same(q, Append(q, e), S)
<1>1. \A i \in 1..(Len(q) + 1) : i \in 1..Len(q) \/ i = Len(q) + 1
  BY AppendFacts
<1> QED BY <1>1, AppendFacts DEF Same

(* Something more that is not in S at the end of what has grown.            *)
LEMMA SameMore ==
  ASSUME NEW X, NEW q \in Seq(X), NEW r \in Seq(X), NEW e \in X, NEW S, e \notin S,
         Len(q) <= Len(r), \A i \in 1..Len(q) : r[i] = q[i],
         \A i \in 1..Len(r) : i \notin 1..Len(q) => r[i] \notin S
  PROVE Same(q, Append(r, e), S)
<1>1. \A i \in 1..(Len(r) + 1) : i \in 1..Len(r) \/ i = Len(r) + 1
  BY AppendFacts
<1>2. 1..Len(q) \subseteq 1..Len(r) /\ Len(q) \in Nat /\ Len(q) <= Len(r) + 1
  BY AppendFacts
<1> QED BY <1>1, <1>2, AppendFacts DEF Same

LEMMA SameTwo ==
  ASSUME NEW X, NEW q \in Seq(X), NEW d \in X, NEW e \in X, NEW S, d \notin S, e \notin S
  PROVE Same(q, Append(Append(q, d), e), S)
<1> DEFINE r == Append(q, d)
           s == Append(r, e)
<1>1. /\ r \in Seq(X) /\ Len(q) \in Nat /\ Len(r) = Len(q) + 1 /\ r[Len(q) + 1] = d
      /\ \A i \in 1..Len(q) : r[i] = q[i]
  BY AppendFacts
<1> HIDE DEF r
<1>2. /\ Len(s) = Len(r) + 1 /\ s[Len(r) + 1] = e
      /\ \A i \in 1..Len(r) : s[i] = r[i]
  BY <1>1, AppendFacts
<1> HIDE DEF s
<1>3. \A i \in 1..Len(q) : s[i] = q[i]
  BY <1>1, <1>2
<1>4. ASSUME NEW i \in 1..Len(s), i \notin 1..Len(q) PROVE s[i] \notin S
  <2>1. i = Len(q) + 1 \/ i = Len(q) + 2
    BY <1>1, <1>2, <1>4
  <2>2. s[Len(q) + 1] = d /\ s[Len(q) + 2] = e
    BY <1>1, <1>2
  <2> QED BY <2>1, <2>2
<1>5. Len(s) \in Nat /\ Len(q) <= Len(s)
  BY <1>1, <1>2
<1> QED BY <1>1, <1>3, <1>4, <1>5 DEF Same, r, s

(* Appending one by one. *)
LEMMA ConcatAppends ==
  ASSUME NEW X, NEW q \in Seq(X), NEW a \in X, NEW b \in X, NEW c \in X
  PROVE /\ q \o <<>> = q
        /\ q \o <<a>> = Append(q, a)
        /\ q \o <<a, b>> = Append(Append(q, a), b)
        /\ q \o <<a, b, c>> = Append(Append(Append(q, a), b), c)
<1>1. Len(q) \in Nat /\ DOMAIN q = 1..Len(q)
  OBVIOUS
<1>2. q \o <<>> = q
  BY <1>1
<1>3. q \o <<a>> = Append(q, a)
  BY <1>1
<1>4. q \o <<a, b>> = Append(Append(q, a), b)
  BY <1>1
<1>5. q \o <<a, b, c>> = Append(Append(Append(q, a), b), c)
  BY <1>1
<1> QED BY <1>2, <1>3, <1>4, <1>5

LEMMA ConcatOne ==
  ASSUME NEW X, NEW q \in Seq(X), NEW r \in Seq(X), NEW e \in X
  PROVE (q \o r) \o <<e>> = q \o (r \o <<e>>)
<1>1. <<e>> \in Seq(X)
  OBVIOUS
<1> QED BY <1>1, ConcatAssociative

LEMMA SomeEmpty == ASSUME NEW S PROVE ~Some(<<>>, S) /\ Once(<<>>, S)
BY DEF Some, Once

-----------------------------------------------------------------------------
(* Types.                                                                   *)

AnyBss == Bss \cup {None}

LEMMA CommandMade ==
  ASSUME NEW k \in CommandNames, NEW b \in AnyBss, NEW n \in Call, NEW s \in SUBSET Ssid
  PROVE [cmd |-> k, bss |-> b, ssids |-> s, call |-> n] \in Commands
BY DEF Commands, AnyBss

LEMMA CommandFields ==
  ASSUME NEW c \in Commands
  PROVE c.cmd \in CommandNames /\ c.bss \in AnyBss /\ c.call \in Call /\ c.ssids \subseteq Ssid
BY DEF Commands, AnyBss

LEMMA EventMade ==
  ASSUME NEW k \in EventNames, NEW b \in AnyBss, NEW n \in Call
  PROVE /\ [event |-> k, bss |-> b, call |-> n, ok |-> TRUE] \in Events
        /\ [event |-> k, bss |-> b, call |-> n, ok |-> FALSE] \in Events
BY DEF Events, AnyBss

LEMMA EventFields ==
  ASSUME NEW e \in Events
  PROVE e.event \in EventNames /\ e.bss \in AnyBss /\ e.call \in Call /\ e.ok \in BOOLEAN
BY DEF Events, AnyBss

LEMMA RpuFields ==
  ASSUME NEW r \in Rpu
  PROVE r.scan \in Call /\ r.bss \in AnyBss /\ r.frames \subseteq Call
BY DEF Rpu, AnyBss

LEMMA RpuScanUpdated ==
  ASSUME NEW r \in Rpu, NEW n \in Call
  PROVE /\ [r EXCEPT !.scan = n] \in Rpu /\ [r EXCEPT !.scan = n].scan = n
        /\ [r EXCEPT !.scan = n].bss = r.bss /\ [r EXCEPT !.scan = n].frames = r.frames
BY DEF Rpu

LEMMA RpuBssUpdated ==
  ASSUME NEW r \in Rpu, NEW b \in AnyBss
  PROVE /\ [r EXCEPT !.bss = b] \in Rpu /\ [r EXCEPT !.bss = b].bss = b
        /\ [r EXCEPT !.bss = b].scan = r.scan /\ [r EXCEPT !.bss = b].frames = r.frames
BY DEF Rpu, AnyBss

LEMMA RpuFramesUpdated ==
  ASSUME NEW r \in Rpu, NEW f \in SUBSET Call
  PROVE /\ [r EXCEPT !.frames = f] \in Rpu /\ [r EXCEPT !.frames = f].frames = f
        /\ [r EXCEPT !.frames = f].scan = r.scan /\ [r EXCEPT !.frames = f].bss = r.bss
BY DEF Rpu

LEMMA Names ==
  /\ "TRIGGER_SCAN" \in CommandNames /\ "AUTHENTICATE" \in CommandNames
  /\ "ASSOCIATE" \in CommandNames /\ "DEAUTHENTICATE" \in CommandNames
  /\ "FRAME" \in CommandNames /\ "REGISTER_FRAME" \in CommandNames
  /\ "TRIGGER_SCAN_START" \in EventNames /\ "SCAN_DONE" \in EventNames
  /\ "SCAN_ABORTED" \in EventNames /\ "SCAN_RESULT" \in EventNames
  /\ "AUTHENTICATE" \in EventNames /\ "ASSOCIATE" \in EventNames
  /\ "DEAUTHENTICATE" \in EventNames /\ "DISASSOCIATE" \in EventNames
  /\ "UNPROT_DEAUTHENTICATE" \in EventNames /\ "FRAME" \in EventNames
  /\ "COOKIE_RESP" \in EventNames /\ "FRAME_TX_STATUS" \in EventNames
  /\ "NEW_STATION" \in EventNames /\ "DEL_STATION" \in EventNames
BY DEF CommandNames, EventNames

LEMMA Calls == /\ Call \subseteq Nat /\ 0 \in Call
               /\ \A n \in Call : n < MaxCalls => n + 1 \in Call
               /\ MaxCalls \in Nat /\ \A n \in Call : n <= MaxCalls
BY BoundAssumption DEF Call

(* The SSIDs the RPU is told of are SSIDs.                                  *)
LEMMA SsidsTyped ==
  ASSUME NEW ssids \in SsidLists
  PROVE ScanSsids(ssids) \in SUBSET Ssid /\ {ssids[i] : i \in Named(ssids)} \in SUBSET Ssid
        /\ IsFiniteSet(Named(ssids)) /\ Cardinality(Named(ssids)) \in Nat
        /\ Cardinality(Named(ssids)) <= Len(ssids)
<1>1. ssids \in Seq(Ssid) /\ Len(ssids) \in Nat /\ DOMAIN ssids = 1..Len(ssids)
  BY SsidAssumption
<1>2. Named(ssids) \subseteq 1..Len(ssids)
  BY <1>1 DEF Named
<1>3. IsFiniteSet(1..Len(ssids)) /\ Cardinality(1..Len(ssids)) = Len(ssids)
  BY <1>1, FS_Interval
<1>4. /\ IsFiniteSet(Named(ssids)) /\ Cardinality(Named(ssids)) <= Cardinality(1..Len(ssids))
      /\ Cardinality(Named(ssids)) \in Nat
  BY <1>2, <1>3, FS_Subset, FS_CardinalityType
<1>5. 1..Cardinality(Named(ssids)) \subseteq 1..Len(ssids)
  BY <1>1, <1>3, <1>4
<1> QED BY <1>1, <1>2, <1>3, <1>4, <1>5 DEF ScanSsids

(* When the named SSIDs come first the RPU is told of all of them.          *)
LEMMA NamedTold ==
  ASSUME NEW ssids \in SsidLists
  PROVE {ssids[i] : i \in Named(ssids)} \subseteq ScanSsids(ssids)
<1>1. ssids \in Seq(Ssid) /\ Len(ssids) \in Nat /\ DOMAIN ssids = 1..Len(ssids)
  BY SsidAssumption
<1>2. \A i, j \in 1..Len(ssids) : j \in Named(ssids) /\ i < j => i \in Named(ssids)
  BY <1>1, SsidAssumption DEF Named
<1> SUFFICES ASSUME NEW j \in Named(ssids) PROVE j <= Cardinality(Named(ssids))
  BY <1>1 DEF ScanSsids, Named
<1>3. 1..j \subseteq Named(ssids) /\ j \in Nat
  BY <1>1, <1>2 DEF Named
<1>4. IsFiniteSet(Named(ssids)) /\ Cardinality(1..j) = j
  BY <1>3, SsidsTyped, FS_Interval
<1> QED BY <1>3, <1>4, FS_Subset

(* What the RPU tells when it leaves its access point, first.               *)
Gone == Ev("DEL_STATION", rpu.bss, 0, TRUE)
Left == IF rpu.bss = None THEN evtq ELSE Append(evtq, Gone)

LEMMA Typed ==
  ASSUME TypeOK
  PROVE /\ cmdq \in Seq(Commands) /\ evtq \in Seq(Events) /\ rpu \in Rpu
        /\ rpu.scan \in Call /\ rpu.bss \in AnyBss /\ rpu.frames \subseteq Call
        /\ calls \in Call /\ n_scan_req \in Call /\ scan_req \in Call
        /\ bss \in AnyBss /\ bssid \in AnyBss /\ connected \in AnyBss
        /\ wanted \in SUBSET Ssid /\ probed \in SUBSET Ssid /\ cookie_g \in Call
        /\ None \in AnyBss /\ Bss \subseteq AnyBss
BY RpuFields DEF TypeOK, AnyBss

LEMMA HeadsTyped ==
  ASSUME TypeOK
  PROVE /\ evtq # <<>> => Event \in Events /\ Tail(evtq) \in Seq(Events)
        /\ cmdq # <<>> => Command \in Commands /\ Tail(cmdq) \in Seq(Commands)
BY Typed, TailFacts DEF Event, Command

LEMMA LeaveTells ==
  ASSUME TypeOK
  PROVE /\ Gone \in Events /\ Gone.event = "DEL_STATION" /\ Gone.bss = rpu.bss
        /\ Left \in Seq(Events)
        /\ \A e \in Events : /\ evtq \o (Leave \o <<e>>) = Append(Left, e)
                            /\ evtq \o ((Leave \o <<e>>) \o <<>>) = Append(Left, e)
        /\ \A e, n \in Events :
              evtq \o ((Leave \o <<e>>) \o <<n>>) = Append(Append(Left, e), n)
<1>1. Gone \in Events /\ Gone.event = "DEL_STATION" /\ Gone.bss = rpu.bss
  <2>1. rpu.bss \in AnyBss /\ 0 \in Call /\ "DEL_STATION" \in EventNames
    BY Typed, Names, Calls
  <2> QED BY <2>1, EventMade DEF Gone, Ev
<1>2. Left \in Seq(Events)
  BY <1>1, Typed, AppendFacts DEF Left
<1>3. Leave \in Seq(Events) /\ evtq \o Leave = Left
  <2>1. CASE rpu.bss = None
    <3>1. Leave = <<>> /\ Left = evtq
      BY <2>1 DEF Leave, Left
    <3> QED BY <3>1, Typed, ConcatEmptySeq, EmptySeq
  <2>2. CASE rpu.bss # None
    <3>1. Leave = <<Gone>> /\ Left = Append(evtq, Gone)
      BY <2>2 DEF Leave, Left, Gone
    <3>2. <<Gone>> \in Seq(Events) /\ evtq \o <<Gone>> = Append(evtq, Gone)
      BY <1>1, Typed, ConcatAppends
    <3> QED BY <3>1, <3>2
  <2> QED BY <2>1, <2>2
<1> DEFINE l == Leave
<1> HIDE DEF l
<1>4. ASSUME NEW e \in Events PROVE evtq \o (l \o <<e>>) = Append(Left, e) /\ l \o <<e>> \in Seq(Events)
  <2>1. l \in Seq(Events) /\ evtq \o l = Left /\ <<e>> \in Seq(Events)
    BY <1>3 DEF l
  <2>2. (evtq \o l) \o <<e>> = evtq \o (l \o <<e>>)
    <3>1. evtq \in Seq(Events) /\ l \in Seq(Events)
      BY <2>1, Typed
    <3> QED BY <1>4, <3>1, ConcatOne
  <2>a. l \o <<e>> \in Seq(Events)
    BY <2>1
  <2>3. Left \o <<e>> = Append(Left, e)
    BY <1>2, ConcatAppends
  <2> QED BY <2>1, <2>2, <2>3, <2>a
<1>5. ASSUME NEW e \in Events PROVE evtq \o ((l \o <<e>>) \o <<>>) = Append(Left, e)
  BY <1>4, <1>5, ConcatEmptySeq
<1>6. ASSUME NEW e \in Events, NEW n \in Events
      PROVE evtq \o ((l \o <<e>>) \o <<n>>) = Append(Append(Left, e), n)
  <2>1. <<n>> \in Seq(Events)
    OBVIOUS
  <2>a. l \o <<e>> \in Seq(Events)
    BY <1>4
  <2>2. (evtq \o (l \o <<e>>)) \o <<n>> = evtq \o ((l \o <<e>>) \o <<n>>)
    BY <2>1, <2>a, Typed, ConcatAssociative
  <2>3. Append(Left, e) \in Seq(Events)
    BY <1>2, AppendFacts
  <2>4. Append(Left, e) \o <<n>> = Append(Append(Left, e), n)
    BY <2>3, ConcatAppends
  <2> QED BY <1>4, <2>2, <2>4
<1> QED BY <1>1, <1>2, <1>4, <1>5, <1>6 DEF l

(* Types, and the cookies are not more than the calls.                      *)
TypeInv == TypeOK /\ cookie_g <= calls

LEMMA TypeInit == Init => TypeInv
<1> SUFFICES ASSUME Init PROVE TypeInv
  OBVIOUS
<1>1. rpu \in Rpu
  <2>1. [scan |-> 0, bss |-> None, frames |-> {}] \in Rpu
    BY Calls DEF Rpu
  <2> QED BY <2>1 DEF Init
<1>2. /\ cmdq \in Seq(Commands) /\ evtq \in Seq(Events)
      /\ scans \in Seq([req : Call, aborted : BOOLEAN])
      /\ reports \in Seq([frame : Call, cookie : Call])
  BY DEF Init
<1>3. /\ calls \in Call /\ fails \in 0..MaxFails /\ losses \in 0..MaxLosses
      /\ n_scan_req \in Call /\ scan_req \in Call /\ cookie_g \in Call /\ cookie_g <= calls
  BY BoundAssumption, Calls DEF Init
<1> QED BY <1>1, <1>2, <1>3 DEF Init, TypeOK, TypeInv

(* Sending a command keeps the types.                                       *)
LEMMA SendTyped ==
  ASSUME TypeOK, Begin, NEW cmd \in CommandNames, NEW b \in AnyBss, NEW s \in SUBSET Ssid
  PROVE /\ calls' \in Call /\ losses' = losses
        /\ Send(cmd, b, s) => cmdq' \in Seq(Commands) /\ fails' \in 0..MaxFails
        /\ SendFails => cmdq' \in Seq(Commands) /\ fails' \in 0..MaxFails
<1>1. calls' \in Call /\ losses' = losses
  BY Calls DEF Begin, TypeOK
<1>2. ASSUME Send(cmd, b, s)
      PROVE cmdq' \in Seq(Commands) /\ fails' \in 0..MaxFails
  <2> DEFINE c == [cmd |-> cmd, bss |-> b, ssids |-> s,
                   call |-> IF cmd = "TRIGGER_SCAN" THEN calls' ELSE 0]
  <2>1. c \in Commands
    BY <1>1, CommandMade, Calls
  <2>2. cmdq' = Append(cmdq, c) /\ fails' = fails
    BY <1>2 DEF Send
  <2> HIDE DEF c
  <2> QED BY <2>1, <2>2, Typed, AppendFacts DEF TypeOK
<1>3. ASSUME SendFails PROVE cmdq' \in Seq(Commands) /\ fails' \in 0..MaxFails
  BY <1>3, BoundAssumption DEF SendFails, TypeOK
<1> QED BY <1>1, <1>2, <1>3

(* What the RPU does to the queues, its record and the SSIDs.               *)
RpuRest == UNCHANGED <<pc, calls, fails, n_scan_req, mlmeVars, cookieVars, fault, cfgVars,
                       missed, overlap, badAssoc, lostCookies>>
Takes(cmd) == /\ cmdq # <<>> /\ Command.cmd = cmd /\ cmdq' = Tail(cmdq)
              /\ Command \in Commands /\ Tail(cmdq) \in Seq(Commands)

LEMMA TakeFacts ==
  ASSUME TypeOK, NEW cmd, Take(cmd)
  PROVE Takes(cmd) /\ RpuRest /\ losses' = losses
BY HeadsTyped DEF Take, Takes, RpuRest, boundVars

LEMMA TellOne ==
  ASSUME TypeOK, NEW k \in EventNames, NEW b \in AnyBss, NEW n \in Call,
         Tell(<<[event |-> k, bss |-> b, call |-> n, ok |-> TRUE]>>)
  PROVE \E e \in Events : /\ e.event = k /\ e.bss = b /\ e.call = n
                          /\ evtq' = Append(evtq, e)
<1> DEFINE e == [event |-> k, bss |-> b, call |-> n, ok |-> TRUE]
<1>1. e \in Events /\ e.event = k /\ e.bss = b /\ e.call = n
  BY EventMade
<1>2. evtq' = evtq \o <<e>>
  BY DEF Tell
<1> HIDE DEF e
<1>3. evtq' = Append(evtq, e)
  BY <1>1, <1>2, Typed, ConcatAppends
<1> QED BY <1>1, <1>3

LEMMA RpuScanDoes ==
  ASSUME TypeOK, RpuScan
  PROVE /\ Takes("TRIGGER_SCAN") /\ RpuRest /\ losses' = losses
        /\ rpu' \in Rpu /\ rpu'.scan = Command.call /\ rpu'.bss = rpu.bss
        /\ rpu'.frames = rpu.frames /\ probed' = Command.ssids
        /\ \E e \in Events : e.event = "TRIGGER_SCAN_START" /\ evtq' = Append(evtq, e)
<1>1. Takes("TRIGGER_SCAN") /\ RpuRest /\ losses' = losses
  BY TakeFacts DEF RpuScan
<1>2. Command.call \in Call
  BY <1>1, CommandFields DEF Takes
<1>3. \E e \in Events : e.event = "TRIGGER_SCAN_START" /\ evtq' = Append(evtq, e)
  BY <1>2, TellOne, Names, Typed DEF RpuScan, Ev
<1> QED BY <1>1, <1>2, <1>3, RpuScanUpdated, Typed DEF RpuScan

LEMMA RpuScanEndsDoes ==
  ASSUME TypeOK, RpuScanEnds
  PROVE /\ RpuRest /\ cmdq' = cmdq /\ losses' = losses
        /\ rpu.scan # 0 /\ rpu' \in Rpu /\ rpu'.scan = 0 /\ rpu'.bss = rpu.bss
        /\ rpu'.frames = rpu.frames /\ probed' = {}
        /\ \/ \E e \in Events : /\ e.event \in {"SCAN_DONE", "SCAN_ABORTED"}
                               /\ evtq' = Append(evtq, e)
           \/ \E d, e \in Events : /\ d.event = "SCAN_RESULT" /\ ~d.ok
                                  /\ e.event = "SCAN_RESULT"
                                  /\ evtq' = Append(Append(evtq, d), e)
<1>1. /\ RpuRest /\ cmdq' = cmdq /\ losses' = losses /\ rpu.scan # 0 /\ probed' = {}
      /\ rpu' = [rpu EXCEPT !.scan = 0]
  BY DEF RpuScanEnds, RpuRest, boundVars
<1>2. /\ rpu' \in Rpu /\ rpu'.scan = 0 /\ rpu'.bss = rpu.bss /\ rpu'.frames = rpu.frames
  BY <1>1, RpuScanUpdated, Typed, Calls
<1>3. ASSUME Tell(<<Ev("SCAN_DONE", None, rpu.scan, TRUE)>>)
      PROVE \E e \in Events : e.event = "SCAN_DONE" /\ evtq' = Append(evtq, e)
  BY <1>3, TellOne, Names, Typed DEF Ev
<1>4. ASSUME Tell(<<Ev("SCAN_ABORTED", None, rpu.scan, TRUE)>>)
      PROVE \E e \in Events : e.event = "SCAN_ABORTED" /\ evtq' = Append(evtq, e)
  BY <1>4, TellOne, Names, Typed DEF Ev
<1>5. ASSUME Tell(<<Ev("SCAN_RESULT", None, rpu.scan, FALSE),
                    Ev("SCAN_RESULT", None, rpu.scan, TRUE)>>)
      PROVE \E d, e \in Events : /\ d.event = "SCAN_RESULT" /\ ~d.ok
                                 /\ e.event = "SCAN_RESULT"
                                 /\ evtq' = Append(Append(evtq, d), e)
  <2> DEFINE d == Ev("SCAN_RESULT", None, rpu.scan, FALSE)
             e == Ev("SCAN_RESULT", None, rpu.scan, TRUE)
  <2>1. /\ d \in Events /\ d.event = "SCAN_RESULT" /\ ~d.ok
        /\ e \in Events /\ e.event = "SCAN_RESULT"
    BY EventMade, Names, Typed DEF Ev
  <2>2. evtq' = evtq \o <<d, e>>
    BY <1>5 DEF Tell
  <2> HIDE DEF d, e
  <2>3. evtq' = Append(Append(evtq, d), e)
    BY <2>1, <2>2, Typed, ConcatAppends
  <2> QED BY <2>1, <2>3
<1> QED BY <1>1, <1>2, <1>3, <1>4, <1>5 DEF RpuScanEnds

LEMMA RpuAnswersDo ==
  ASSUME TypeOK, RpuAuth \/ RpuRegisterFrame
  PROVE /\ Takes("AUTHENTICATE") \/ Takes("REGISTER_FRAME")
        /\ RpuRest /\ losses' = losses /\ UNCHANGED <<rpu, probed>>
        /\ \E e \in Events : e.event \in {"AUTHENTICATE", "FRAME"} /\ evtq' = Append(evtq, e)
<1>1. CASE RpuAuth
  <2>1. Takes("AUTHENTICATE") /\ RpuRest /\ losses' = losses /\ UNCHANGED <<rpu, probed>>
    BY <1>1, TakeFacts DEF RpuAuth
  <2>2. Command.call \in Call /\ Command.bss \in AnyBss
    BY <2>1, CommandFields DEF Takes
  <2>3. \E e \in Events : e.event = "AUTHENTICATE" /\ evtq' = Append(evtq, e)
    BY <1>1, <2>2, TellOne, Names DEF RpuAuth, Ev
  <2> QED BY <2>1, <2>3
<1>2. CASE RpuRegisterFrame
  <2>1. Takes("REGISTER_FRAME") /\ RpuRest /\ losses' = losses /\ UNCHANGED <<rpu, probed>>
    BY <1>2, TakeFacts DEF RpuRegisterFrame
  <2>2. \E e \in Events : e.event = "FRAME" /\ evtq' = Append(evtq, e)
    BY <1>2, TellOne, Names, Typed, Calls DEF RpuRegisterFrame, Ev
  <2> QED BY <2>1, <2>2
<1> QED BY <1>1, <1>2

LEMMA RpuFrameDoes ==
  ASSUME TypeOK, RpuFrame
  PROVE /\ Takes("FRAME") /\ RpuRest /\ losses' = losses /\ probed' = probed
        /\ rpu' \in Rpu /\ rpu'.scan = rpu.scan /\ rpu'.bss = rpu.bss
        /\ rpu'.frames = rpu.frames \cup {Command.call}
        /\ \E e \in Events : /\ e.event = "COOKIE_RESP" /\ e.call = Command.call
                           /\ evtq' = Append(evtq, e)
<1>1. Takes("FRAME") /\ RpuRest /\ losses' = losses /\ probed' = probed
  BY TakeFacts DEF RpuFrame
<1>2. Command.call \in Call
  BY <1>1, CommandFields DEF Takes
<1>3. \E e \in Events : /\ e.event = "COOKIE_RESP" /\ e.call = Command.call
                       /\ evtq' = Append(evtq, e)
  BY <1>2, TellOne, Names, Typed DEF RpuFrame, Ev
<1>4. rpu.frames \cup {Command.call} \in SUBSET Call
  BY <1>2, Typed
<1>5. rpu' = [rpu EXCEPT !.frames = rpu.frames \cup {Command.call}]
  BY DEF RpuFrame
<1> QED BY <1>1, <1>3, <1>4, <1>5, RpuFramesUpdated, Typed

LEMMA RpuFrameSentDoes ==
  ASSUME TypeOK, RpuFrameSent
  PROVE /\ RpuRest /\ cmdq' = cmdq /\ losses' = losses /\ probed' = probed
        /\ rpu' \in Rpu /\ rpu'.scan = rpu.scan /\ rpu'.bss = rpu.bss
        /\ \E c \in rpu.frames, e \in Events :
              /\ rpu'.frames = rpu.frames \ {c}
              /\ e.event = "FRAME_TX_STATUS" /\ e.call = c /\ evtq' = Append(evtq, e)
<1>1. RpuRest /\ cmdq' = cmdq /\ losses' = losses /\ probed' = probed
  BY DEF RpuFrameSent, RpuRest, boundVars, history
<1>2. PICK c \in rpu.frames : /\ Tell(<<Ev("FRAME_TX_STATUS", None, c, TRUE)>>)
                             /\ rpu' = [rpu EXCEPT !.frames = rpu.frames \ {c}]
  BY DEF RpuFrameSent
<1>3. c \in Call /\ rpu.frames \ {c} \in SUBSET Call
  BY Typed
<1>4. \E e \in Events : /\ e.event = "FRAME_TX_STATUS" /\ e.call = c
                       /\ evtq' = Append(evtq, e)
  BY <1>2, <1>3, TellOne, Names, Typed DEF Ev
<1>5. /\ rpu' \in Rpu /\ rpu'.scan = rpu.scan /\ rpu'.bss = rpu.bss
      /\ rpu'.frames = rpu.frames \ {c}
  BY <1>2, <1>3, RpuFramesUpdated, Typed
<1> QED BY <1>1, <1>4, <1>5

LEMMA RpuAssocDoes ==
  ASSUME TypeOK, RpuAssoc
  PROVE /\ Takes("ASSOCIATE") /\ RpuRest /\ losses' = losses /\ probed' = probed
        /\ rpu' \in Rpu /\ rpu'.scan = rpu.scan /\ rpu'.frames = rpu.frames
        /\ \E e, n \in Events :
              /\ e.event = "ASSOCIATE" /\ e.bss = Command.bss
              /\ n.event = "NEW_STATION" /\ n.bss = Command.bss
              /\ \/ ~e.ok /\ rpu'.bss = None /\ evtq' = Append(Left, e)
                 \/ e.ok /\ rpu'.bss = Command.bss /\ evtq' = Append(Append(Left, e), n)
<1>1. Takes("ASSOCIATE") /\ RpuRest /\ losses' = losses /\ probed' = probed
  BY TakeFacts DEF RpuAssoc
<1>2. Command.call \in Call /\ Command.bss \in AnyBss
  BY <1>1, CommandFields DEF Takes
<1>3. PICK ok \in BOOLEAN :
        /\ rpu' = [rpu EXCEPT !.bss = IF ok THEN Command.bss ELSE None]
        /\ Tell(Leave \o <<Ev("ASSOCIATE", Command.bss, Command.call, ok)>>
                \o IF ok THEN <<Ev("NEW_STATION", Command.bss, 0, TRUE)>> ELSE <<>>)
  BY DEF RpuAssoc
<1> DEFINE e == Ev("ASSOCIATE", Command.bss, Command.call, ok)
           n == Ev("NEW_STATION", Command.bss, 0, TRUE)
<1>a. ok = TRUE \/ ok = FALSE
  OBVIOUS
<1>4. /\ e \in Events /\ e.event = "ASSOCIATE" /\ e.bss = Command.bss /\ (e.ok <=> ok)
      /\ n \in Events /\ n.event = "NEW_STATION" /\ n.bss = Command.bss
  BY <1>2, <1>a, EventMade, Names, Calls DEF Ev
<1>5. evtq' = evtq \o ((Leave \o <<e>>) \o IF ok THEN <<n>> ELSE <<>>)
  BY <1>3 DEF Tell
<1> HIDE DEF e, n
<1>6. IF ok THEN evtq' = Append(Append(Left, e), n) ELSE evtq' = Append(Left, e)
  BY <1>4, <1>5, LeaveTells
<1>7. /\ rpu' \in Rpu /\ rpu'.scan = rpu.scan /\ rpu'.frames = rpu.frames
      /\ rpu'.bss = IF ok THEN Command.bss ELSE None
  BY <1>2, <1>3, RpuBssUpdated, Typed
<1> QED BY <1>1, <1>4, <1>6, <1>7

LEMMA RpuDeauthDoes ==
  ASSUME TypeOK, RpuDeauth
  PROVE /\ Takes("DEAUTHENTICATE") /\ RpuRest /\ losses' = losses /\ probed' = probed
        /\ rpu' \in Rpu /\ rpu'.scan = rpu.scan /\ rpu'.frames = rpu.frames
        /\ \E e \in Events :
              /\ e.event = "DEAUTHENTICATE" /\ e.bss = Command.bss
              /\ \/ /\ rpu.bss = Command.bss /\ rpu'.bss = None
                    /\ evtq' = Append(Left, e)
                 \/ rpu.bss # Command.bss /\ rpu' = rpu /\ evtq' = Append(evtq, e)
<1>1. Takes("DEAUTHENTICATE") /\ RpuRest /\ losses' = losses /\ probed' = probed
  BY TakeFacts DEF RpuDeauth
<1>2. Command.call \in Call /\ Command.bss \in AnyBss
  BY <1>1, CommandFields DEF Takes
<1> DEFINE e == Ev("DEAUTHENTICATE", Command.bss, Command.call, TRUE)
<1>3. e \in Events /\ e.event = "DEAUTHENTICATE" /\ e.bss = Command.bss
  BY <1>2, EventMade, Names DEF Ev
<1>4. \/ /\ rpu.bss = Command.bss /\ rpu' = [rpu EXCEPT !.bss = None]
         /\ evtq' = evtq \o (Leave \o <<e>>)
      \/ rpu.bss # Command.bss /\ rpu' = rpu /\ evtq' = evtq \o <<e>>
  BY DEF RpuDeauth, Tell
<1> HIDE DEF e
<1>a. evtq \o (Leave \o <<e>>) = Append(Left, e) /\ evtq \o <<e>> = Append(evtq, e)
  BY <1>3, LeaveTells, Typed, ConcatAppends
<1>5. \/ /\ rpu.bss = Command.bss /\ rpu' = [rpu EXCEPT !.bss = None]
         /\ evtq' = Append(Left, e)
      \/ rpu.bss # Command.bss /\ rpu' = rpu /\ evtq' = Append(evtq, e)
  BY <1>4, <1>a
<1>6. /\ rpu' \in Rpu /\ rpu'.scan = rpu.scan /\ rpu'.frames = rpu.frames
      /\ rpu.bss = Command.bss => rpu'.bss = None
  <2>1. CASE rpu' = [rpu EXCEPT !.bss = None]
    BY <2>1, RpuBssUpdated, Typed
  <2>2. CASE rpu' = rpu /\ rpu.bss # Command.bss
    BY <2>2, Typed
  <2> QED BY <1>5, <2>1, <2>2
<1> QED BY <1>1, <1>3, <1>5, <1>6

LEMMA RpuLosesDoes ==
  ASSUME TypeOK, RpuLoses
  PROVE /\ RpuRest /\ cmdq' = cmdq /\ losses' \in 0..MaxLosses /\ probed' = probed
        /\ rpu.bss # None /\ rpu' \in Rpu /\ rpu'.bss = None
        /\ rpu'.scan = rpu.scan /\ rpu'.frames = rpu.frames
        /\ \E e \in Events : /\ e.event \in {"DEAUTHENTICATE", "DISASSOCIATE"}
                           /\ e.bss = rpu.bss /\ evtq' = Append(Left, e)
<1>1. RpuRest /\ cmdq' = cmdq /\ probed' = probed /\ rpu.bss # None
  BY DEF RpuLoses, RpuRest, history
<1>2. losses' \in 0..MaxLosses
  BY BoundAssumption DEF RpuLoses, TypeOK
<1>3. PICK why \in {"DEAUTHENTICATE", "DISASSOCIATE"} :
        Tell(Leave \o <<Ev(why, rpu.bss, 0, TRUE)>>)
  BY DEF RpuLoses
<1> DEFINE e == Ev(why, rpu.bss, 0, TRUE)
<1>4. e \in Events /\ e.event = why /\ e.bss = rpu.bss
  BY EventMade, Names, Typed, Calls DEF Ev
<1>5. evtq' = evtq \o (Leave \o <<e>>)
  BY <1>3 DEF Tell
<1> HIDE DEF e
<1>6. evtq' = Append(Left, e)
  BY <1>4, <1>5, LeaveTells
<1>7. /\ rpu' \in Rpu /\ rpu'.bss = None
      /\ rpu'.scan = rpu.scan /\ rpu'.frames = rpu.frames
  <2>1. rpu' = [rpu EXCEPT !.bss = None]
    BY DEF RpuLoses
  <2> QED BY <2>1, RpuBssUpdated, Typed
<1> QED BY <1>1, <1>2, <1>4, <1>6, <1>7

LEMMA RpuUnprotectedDoes ==
  ASSUME TypeOK, RpuUnprotected
  PROVE /\ RpuRest /\ cmdq' = cmdq /\ losses' \in 0..MaxLosses /\ UNCHANGED <<rpu, probed>>
        /\ \E e \in Events : /\ e.event = "UNPROT_DEAUTHENTICATE"
                           /\ evtq' = Append(evtq, e)
<1>1. RpuRest /\ cmdq' = cmdq /\ UNCHANGED <<rpu, probed>>
  BY DEF RpuUnprotected, RpuRest, history
<1>2. losses' \in 0..MaxLosses
  BY BoundAssumption DEF RpuUnprotected, TypeOK
<1>3. Tell(<<Ev("UNPROT_DEAUTHENTICATE", rpu.bss, 0, TRUE)>>)
  BY DEF RpuUnprotected
<1>4. \E e \in Events : e.event = "UNPROT_DEAUTHENTICATE" /\ evtq' = Append(evtq, e)
  BY <1>3, TellOne, Names, Typed, Calls DEF Ev
<1> QED BY <1>1, <1>2, <1>4

(* Cookies are used up only by calls.                                       *)
LEMMA CookiesBound ==
  ASSUME TypeInv, [Next]_vars
  PROVE cookie_g' \in Nat /\ cookie_g' <= calls' /\ calls' \in Call
<1>1. cookie_g \in Nat /\ calls \in Nat /\ cookie_g <= calls /\ calls \in Call
  BY Typed, Calls DEF TypeInv
<1>2. CASE Operation
  <2>1. calls' = calls + 1 /\ calls < MaxCalls
    BY <1>2 DEF Operation, Scan, ScanFails, MgmtTx, MgmtFrameReg, Auth, Disassoc, Assoc, Deauth,
                Begin
  <2>2. cookie_g' \in {cookie_g, cookie_g + 1}
    BY <1>2 DEF Operation, Scan, ScanFails, MgmtTx, MgmtFrameReg, Auth, Disassoc, Assoc, Deauth,
                cookieVars
  <2> QED BY <1>1, <2>1, <2>2, Calls
<1>3. CASE ~Operation
  <2>1. CASE EventTasklet
    BY <1>1, <2>1
    DEF EventTasklet, ScanStartCallback, ScanDoneCallback, ScanAbortCallback,
        ScanResCallback, AssocRespCallback, DeauthCallback, NewStation, DelStation,
        CookieRspCallback, TxStatusCallback, Dispatch, cookieVars, boundVars
  <2>2. CASE RpuNext \/ RpuLoses \/ RpuUnprotected
    BY <1>1, <2>2
    DEF RpuNext, RpuScan, RpuScanEnds, RpuAuth, RpuAssoc, RpuDeauth, RpuFrame, RpuFrameSent,
        RpuRegisterFrame, RpuLoses, RpuUnprotected, Take, cookieVars, boundVars
  <2>3. CASE ScanStarted \/ UNCHANGED vars
    BY <1>1, <2>3 DEF ScanStarted, vars, cookieVars, boundVars
  <2> QED BY <1>3, <2>1, <2>2, <2>3 DEF Next
<1> QED BY <1>2, <1>3

LEMMA ScanDoneTyped ==
  ASSUME TypeOK, evtq # <<>>, NEW aborted \in BOOLEAN, ScanDone(aborted)
  PROVE /\ scans' \in Seq([req : Call, aborted : BOOLEAN]) /\ n_scan_req' \in Call
        /\ scan_req' \in Call /\ wanted' \subseteq Ssid /\ missed' \subseteq Call
<1>1. Event.call \in Call
  BY HeadsTyped, EventFields
<1>2. CASE n_scan_req # 0
  <2>1. [req |-> n_scan_req, aborted |-> aborted] \in [req : Call, aborted : BOOLEAN]
    BY Typed
  <2>2. scans' = Append(scans, [req |-> n_scan_req, aborted |-> aborted])
    BY <1>2 DEF ScanDone
  <2>3. scans' \in Seq([req : Call, aborted : BOOLEAN])
    BY <2>1, <2>2, AppendFacts DEF TypeOK
  <2> QED BY <1>2, <2>3, Calls DEF ScanDone, TypeOK
<1>3. CASE n_scan_req = 0
  BY <1>1, <1>3 DEF ScanDone, TypeOK
<1> QED BY <1>2, <1>3

LEMMA TypeStep == TypeInv /\ [Next]_vars => TypeInv'
<1> SUFFICES ASSUME TypeInv, [Next]_vars PROVE TypeOK'
  BY CookiesBound DEF TypeInv
<1>0. TypeOK /\ cookie_g' \in Nat /\ cookie_g' <= calls' /\ calls' \in Call
  BY CookiesBound DEF TypeInv
<1>1. CASE Operation
  <2>1. ASSUME NEW ssids \in SsidLists, Scan(ssids) PROVE TypeOK'
    <3>1. /\ ScanSsids(ssids) \in SUBSET Ssid
          /\ {ssids[i] : i \in Named(ssids)} \in SUBSET Ssid
      BY SsidsTyped
    <3>2. /\ calls' \in Call /\ losses' = losses /\ cmdq' \in Seq(Commands)
          /\ fails' \in 0..MaxFails
      BY <1>0, <2>1, <3>1, SendTyped, Names, Typed DEF Scan, FmacScan
    <3> QED BY <1>0, <2>1, <3>1, <3>2 DEF Scan, TypeOK, mlmeVars, cookieVars, history
  <2>2. CASE ScanFails \/ Auth \/ MgmtFrameReg
    <3>1. /\ calls' \in Call /\ losses' = losses /\ cmdq' \in Seq(Commands)
          /\ fails' \in 0..MaxFails
      BY <1>0, <2>2, SendTyped, Names, Typed
      DEF ScanFails, Auth, MgmtFrameReg, FmacAuth, FmacRegisterFrame, Try
    <3>2. UNCHANGED <<pc, n_scan_req, mlmeVars, cookieVars, evtq, rpu, fault, cfgVars, history>>
      BY <1>0, <2>2 DEF ScanFails, Auth, MgmtFrameReg
    <3> QED BY <1>0, <3>1, <3>2 DEF TypeOK, mlmeVars, cookieVars, cfgVars, history
  <2>3. ASSUME NEW b \in Bss, Assoc(b) PROVE TypeOK'
    <3>1. /\ calls' \in Call /\ losses' = losses /\ cmdq' \in Seq(Commands)
          /\ fails' \in 0..MaxFails /\ bssid' \in {bssid, b} /\ badAssoc' \in BOOLEAN
      BY <1>0, <2>3, SendTyped, Names, Typed DEF Assoc, FmacAssoc
    <3>2. overlap' \in BOOLEAN
      BY <1>0, <2>3 DEF Assoc, TypeOK
    <3> QED BY <1>0, <2>3, <3>1, <3>2 DEF Assoc, TypeOK, cookieVars, cfgVars
  <2>4. ASSUME NEW b \in Bss, Deauth(b) PROVE TypeOK'
    <3>1. /\ calls' \in Call /\ losses' = losses /\ cmdq' \in Seq(Commands)
          /\ fails' \in 0..MaxFails /\ connected' \in {connected, None}
      BY <1>0, <2>4, SendTyped, Names, Typed DEF Deauth, FmacDeauth, Try
    <3> QED BY <1>0, <2>4, <3>1 DEF Deauth, TypeOK, mlmeVars, cookieVars, history
  <2>5. CASE Disassoc
    <3>1. /\ calls' \in Call /\ losses' = losses /\ cmdq' \in Seq(Commands)
          /\ fails' \in 0..MaxFails
      BY <1>0, <2>5, SendTyped, Names, Typed DEF Disassoc, FmacDisassoc, Try
    <3>2. connected' \in {connected, None} /\ bss' \in {bss, None} /\ overlap' \in BOOLEAN
      BY <1>0, <2>5 DEF Disassoc, TypeOK
    <3> QED BY <1>0, <2>5, <3>1, <3>2 DEF Disassoc, TypeOK, cookieVars
  <2>6. CASE MgmtTx
    <3>1. calls' \in Call /\ losses' = losses
      BY <2>6, SendTyped, Names, Typed, <1>0 DEF MgmtTx
    <3>2. cookie_g' \in Call
      BY <1>0, Calls DEF Call
    <3>3. cmdq' \in Seq(Commands) /\ fails' \in 0..MaxFails
      <4>1. CASE SendFails
        BY <1>0, <4>1, BoundAssumption DEF SendFails, TypeOK
      <4>2. CASE FmacMgmtTx(cookie_g')
        <5>1. [cmd |-> "FRAME", bss |-> None, ssids |-> {}, call |-> cookie_g'] \in Commands
          BY <1>0, <3>2, CommandMade, Names, Typed
        <5> QED BY <1>0, <4>2, <5>1, Typed, AppendFacts DEF FmacMgmtTx, TypeOK
      <4> QED BY <2>6, <4>1, <4>2 DEF MgmtTx
    <3>4. UNCHANGED <<pc, n_scan_req, mlmeVars, cookie_list, evtq, rpu, fault, cfgVars, history>>
      BY <2>6 DEF MgmtTx
    <3> QED BY <1>0, <3>1, <3>2, <3>3, <3>4 DEF TypeOK, mlmeVars, cfgVars, history
  <2> QED BY <1>1, <2>1, <2>2, <2>3, <2>4, <2>5, <2>6 DEF Operation
<1>2. CASE ScanStarted
  BY <1>0, <1>2 DEF ScanStarted, TypeOK, boundVars, mlmeVars, cookieVars, cfgVars, history
<1>3. CASE EventTasklet
  <2>1. /\ evtq # <<>> /\ Event \in Events /\ evtq' \in Seq(Events)
        /\ UNCHANGED <<pc, boundVars, cmdq, rpu>>
    BY <1>0, <1>3, HeadsTyped
    DEF EventTasklet, ScanStartCallback, ScanDoneCallback, ScanAbortCallback,
        ScanResCallback, AssocRespCallback, DeauthCallback, NewStation, DelStation,
        CookieRspCallback, TxStatusCallback, Dispatch
  <2>2. Event.bss \in AnyBss /\ Event.call \in Call /\ Event.ok \in BOOLEAN
    BY <2>1, EventFields
  <2>3. CASE ScanStartCallback
    BY <1>0, <2>1, <2>3
    DEF ScanStartCallback, TypeOK, boundVars, mlmeVars, cookieVars, cfgVars, history
  <2>4. CASE ScanDoneCallback \/ ScanAbortCallback \/ ScanResCallback
    <3>1. /\ scans' \in Seq([req : Call, aborted : BOOLEAN]) /\ n_scan_req' \in Call
          /\ scan_req' \in Call /\ wanted' \subseteq Ssid /\ missed' \subseteq Call
      <4>1. CASE ScanDone(FALSE)
        BY <1>0, <2>1, <4>1, ScanDoneTyped
      <4>2. CASE ScanDone(TRUE)
        BY <1>0, <2>1, <4>2, ScanDoneTyped
      <4>3. CASE UNCHANGED <<scans, n_scan_req, scan_req, wanted, missed>>
        BY <1>0, <4>3 DEF TypeOK
      <4> QED BY <2>4, <4>1, <4>2, <4>3 DEF ScanDoneCallback, ScanAbortCallback, ScanResCallback
    <3>2. UNCHANGED <<mlmeVars, cookieVars, fault, connected, reports, probed, overlap,
                      badAssoc, lostCookies>>
      BY <2>4 DEF ScanDoneCallback, ScanAbortCallback, ScanResCallback
    <3> QED BY <1>0, <2>1, <3>1, <3>2 DEF TypeOK, boundVars, mlmeVars, cookieVars
  <2>5. CASE AssocRespCallback
    <3>1. fault' \in BOOLEAN /\ connected' \in Bss \cup {None}
      BY <1>0, <2>5 DEF AssocRespCallback, TypeOK
    <3> QED BY <1>0, <2>1, <2>5, <3>1
        DEF AssocRespCallback, TypeOK, boundVars, mlmeVars, cookieVars, history
  <2>6. CASE DeauthCallback
    <3>1. connected' \in Bss \cup {None}
      BY <1>0, <2>6 DEF DeauthCallback, TypeOK
    <3> QED BY <1>0, <2>1, <2>6, <3>1
        DEF DeauthCallback, TypeOK, boundVars, mlmeVars, cookieVars, history
  <2>7. CASE NewStation
    <3>1. peers' \subseteq Bss \cup {None} /\ bssid' \in Bss \cup {None}
      BY <1>0, <2>2, <2>7 DEF NewStation, TypeOK, AnyBss
    <3> QED BY <1>0, <2>1, <2>7, <3>1
        DEF NewStation, TypeOK, boundVars, cookieVars, cfgVars, history
  <2>8. CASE DelStation
    BY <1>0, <2>1, <2>8 DEF DelStation, TypeOK, boundVars, cookieVars, cfgVars, history
  <2>9. CASE CookieRspCallback
    <3>1. cookie_list' \subseteq [host : Call, rpu : Call] /\ lostCookies' \subseteq Call
      <4>1. [host |-> Event.call, rpu |-> Event.call] \in [host : Call, rpu : Call]
        BY <2>2
      <4>2. \/ /\ cookie_list' = cookie_list \cup {[host |-> Event.call, rpu |-> Event.call]}
               /\ UNCHANGED lostCookies
            \/ lostCookies' = lostCookies \cup {Event.call} /\ UNCHANGED cookie_list
        BY <2>9 DEF CookieRspCallback
      <4>3. cookie_list \subseteq [host : Call, rpu : Call] /\ lostCookies \subseteq Call
        BY <1>0 DEF TypeOK
      <4> QED BY <2>2, <4>1, <4>2, <4>3
    <3> QED BY <1>0, <2>1, <2>9, <3>1
        DEF CookieRspCallback, TypeOK, boundVars, mlmeVars, cfgVars
  <2>10. CASE TxStatusCallback
    <3>1. \A c \in Matching : c.host \in Call
      BY <1>0 DEF Matching, TypeOK
    <3>2. PICK n \in Call : Report(n)
      BY <2>10, <3>1, Calls DEF TxStatusCallback
    <3>3. reports' \in Seq([frame : Call, cookie : Call])
      <4>1. [frame |-> Event.call, cookie |-> n] \in [frame : Call, cookie : Call]
        BY <2>2
      <4> QED BY <1>0, <3>2, <4>1, AppendFacts DEF Report, TypeOK
    <3>4. cookie_list' \subseteq [host : Call, rpu : Call]
      BY <1>0, <2>10 DEF TxStatusCallback, TypeOK
    <3> QED BY <1>0, <2>1, <2>10, <3>3, <3>4
        DEF TxStatusCallback, TypeOK, boundVars, mlmeVars, history
  <2> QED BY <1>3, <2>3, <2>4, <2>5, <2>6, <2>7, <2>8, <2>9, <2>10 DEF EventTasklet
<1>4. CASE RpuNext \/ RpuLoses \/ RpuUnprotected
  <2>1. /\ RpuRest /\ rpu' \in Rpu /\ losses' \in 0..MaxLosses /\ probed' \in SUBSET Ssid
        /\ cmdq' \in Seq(Commands)
    <3>1. losses \in 0..MaxLosses /\ {} \in SUBSET Ssid
      BY <1>0 DEF TypeOK
    <3>2. CASE RpuScan
      BY <1>0, <3>1, <3>2, RpuScanDoes, CommandFields DEF Takes
    <3>3. CASE RpuScanEnds
      BY <1>0, <3>1, <3>3, RpuScanEndsDoes, Typed
    <3>4. CASE RpuAuth \/ RpuRegisterFrame
      BY <1>0, <3>1, <3>4, RpuAnswersDo, Typed DEF Takes
    <3>5. CASE RpuAssoc
      BY <1>0, <3>1, <3>5, RpuAssocDoes, Typed DEF Takes
    <3>6. CASE RpuDeauth
      BY <1>0, <3>1, <3>6, RpuDeauthDoes, Typed DEF Takes
    <3>7. CASE RpuFrame
      BY <1>0, <3>1, <3>7, RpuFrameDoes, Typed DEF Takes
    <3>8. CASE RpuFrameSent
      BY <1>0, <3>1, <3>8, RpuFrameSentDoes, Typed
    <3>9. CASE RpuLoses
      BY <1>0, <3>1, <3>9, RpuLosesDoes, Typed
    <3>10. CASE RpuUnprotected
      BY <1>0, <3>1, <3>10, RpuUnprotectedDoes, Typed
    <3> QED BY <1>4, <3>2, <3>3, <3>4, <3>5, <3>6, <3>7, <3>8, <3>9, <3>10 DEF RpuNext
  <2>2. evtq' \in Seq(Events)
    <3>1. evtq \in Seq(Events) /\ Left \in Seq(Events)
      BY <1>0, Typed, LeaveTells
    <3>2. CASE RpuScan
      BY <1>0, <3>1, <3>2, RpuScanDoes, AppendFacts
    <3>a. \A q \in Seq(Events), e \in Events : Append(q, e) \in Seq(Events)
      BY AppendFacts
    <3>3. CASE RpuScanEnds
      BY <1>0, <3>1, <3>3, <3>a, RpuScanEndsDoes
    <3>4. CASE RpuAuth \/ RpuRegisterFrame
      BY <1>0, <3>1, <3>4, RpuAnswersDo, AppendFacts
    <3>5. CASE RpuAssoc
      BY <1>0, <3>1, <3>5, <3>a, RpuAssocDoes
    <3>6. CASE RpuDeauth
      BY <1>0, <3>1, <3>6, RpuDeauthDoes, AppendFacts
    <3>7. CASE RpuFrame
      BY <1>0, <3>1, <3>7, RpuFrameDoes, AppendFacts
    <3>8. CASE RpuFrameSent
      BY <1>0, <3>1, <3>8, RpuFrameSentDoes, AppendFacts
    <3>9. CASE RpuLoses
      BY <1>0, <3>1, <3>9, RpuLosesDoes, AppendFacts
    <3>10. CASE RpuUnprotected
      BY <1>0, <3>1, <3>10, RpuUnprotectedDoes, AppendFacts
    <3> QED BY <1>4, <3>2, <3>3, <3>4, <3>5, <3>6, <3>7, <3>8, <3>9, <3>10 DEF RpuNext
  <2> QED BY <1>0, <2>1, <2>2 DEF RpuRest, TypeOK, mlmeVars, cookieVars, cfgVars
<1>5. CASE UNCHANGED vars
  BY <1>0, <1>5 DEF vars, TypeOK, boundVars, mlmeVars, cookieVars, cfgVars, history
<1> QED BY <1>1, <1>2, <1>3, <1>4, <1>5 DEF Next

LEMMA TypeAlways == Spec => []TypeInv
BY TypeInit, TypeStep, PTL DEF Spec

(* The variables of the model keep their types (the counters their bounds,  *)
(* the queues and lists their records).                                     *)
THEOREM MlmeTypeCorrect == Spec => []TypeOK
<1>1. TypeInv => TypeOK
  BY DEF TypeInv
<1> QED BY <1>1, TypeAlways, PTL
-----------------------------------------------------------------------------
(* What the steps do to the queues.                                         *)

CmdOf(k) == {c \in Commands : c.cmd = k}
EvOf(names) == {e \in Events : e.event \in names}

(* Only its calls and the RPU's taking it change a kind of commands.        *)
LEMMA CommandsSame ==
  ASSUME TypeInv, [Next]_vars, NEW kind,
         kind = "TRIGGER_SCAN" => ~(\E ssids \in SsidLists : Scan(ssids)) /\ ~RpuScan,
         kind = "FRAME" => ~MgmtTx /\ ~RpuFrame,
         kind = "ASSOCIATE" => ~(\E b \in Bss : Assoc(b)) /\ ~RpuAssoc,
         kind \in {"TRIGGER_SCAN", "FRAME", "ASSOCIATE"}
  PROVE Same(cmdq, cmdq', CmdOf(kind))
<1>0. TypeOK /\ cmdq \in Seq(Commands) /\ cookie_g' \in Call /\ calls' \in Call
  BY TypeStep, Typed DEF TypeInv, TypeOK
<1>1. ASSUME NEW c \in Commands, c.cmd # kind, cmdq' = Append(cmdq, c)
      PROVE Same(cmdq, cmdq', CmdOf(kind))
  BY <1>0, <1>1, SameAppend DEF CmdOf
<1>2. ASSUME NEW cmd \in CommandNames, NEW b \in AnyBss, NEW s \in SUBSET Ssid, cmd # kind,
             Send(cmd, b, s)
      PROVE Same(cmdq, cmdq', CmdOf(kind))
  <2> DEFINE c == [cmd |-> cmd, bss |-> b, ssids |-> s,
                   call |-> IF cmd = "TRIGGER_SCAN" THEN calls' ELSE 0]
  <2>1. c \in Commands /\ c.cmd = cmd
    BY <1>0, CommandMade, Calls
  <2>2. cmdq' = Append(cmdq, c)
    BY <1>2 DEF Send
  <2> HIDE DEF c
  <2> QED BY <1>1, <1>2, <2>1, <2>2
<1>3. ASSUME cmdq' = cmdq PROVE Same(cmdq, cmdq', CmdOf(kind))
  BY <1>3 DEF Same
<1>4. ASSUME NEW cmd, Takes(cmd), cmd # kind PROVE Same(cmdq, cmdq', CmdOf(kind))
  BY <1>4 DEF Takes, Same, CmdOf, Command
<1>5. ASSUME SendFails PROVE cmdq' = cmdq
  BY <1>5 DEF SendFails
<1>6. None \in AnyBss /\ Bss \subseteq AnyBss /\ {} \in SUBSET Ssid /\ connected \in AnyBss
  BY <1>0, Typed
<1>7. ASSUME NEW ssids \in SsidLists, Scan(ssids) PROVE Same(cmdq, cmdq', CmdOf(kind))
  <2>1. Send("TRIGGER_SCAN", None, ScanSsids(ssids)) /\ ScanSsids(ssids) \in SUBSET Ssid
    BY <1>7, SsidsTyped DEF Scan, FmacScan
  <2> QED BY <1>2, <1>6, <1>7, <2>1, Names
<1>8. CASE ScanFails
  BY <1>3, <1>5, <1>8 DEF ScanFails
<1>9. CASE Auth
  <2>1. SendFails \/ Send("AUTHENTICATE", None, {})
    BY <1>9 DEF Auth, FmacAuth, Try
  <2> QED BY <1>2, <1>3, <1>5, <1>6, <2>1, Names
<1>10. CASE MgmtFrameReg
  <2>1. SendFails \/ Send("REGISTER_FRAME", None, {})
    BY <1>10 DEF MgmtFrameReg, FmacRegisterFrame, Try
  <2> QED BY <1>2, <1>3, <1>5, <1>6, <2>1, Names
<1>11. ASSUME NEW b \in Bss, Assoc(b) PROVE Same(cmdq, cmdq', CmdOf(kind))
  <2>1. SendFails \/ Send("ASSOCIATE", b, {})
    BY <1>11 DEF Assoc, FmacAssoc
  <2> QED BY <1>2, <1>3, <1>5, <1>6, <1>11, <2>1, Names
<1>12. ASSUME NEW b \in Bss, Deauth(b) PROVE Same(cmdq, cmdq', CmdOf(kind))
  <2>1. SendFails \/ Send("DEAUTHENTICATE", b, {})
    BY <1>12 DEF Deauth, FmacDeauth, Try
  <2> QED BY <1>2, <1>3, <1>5, <1>6, <1>12, <2>1, Names
<1>13. CASE Disassoc
  <2>1. SendFails \/ Send("DEAUTHENTICATE", connected, {})
    BY <1>13 DEF Disassoc, FmacDisassoc, Try
  <2> QED BY <1>2, <1>3, <1>5, <1>6, <2>1, Names
<1>14. CASE MgmtTx
  <2> DEFINE c == [cmd |-> "FRAME", bss |-> None, ssids |-> {}, call |-> cookie_g']
  <2>1. c \in Commands /\ c.cmd = "FRAME"
    BY <1>0, <1>6, CommandMade, Names
  <2>2. SendFails \/ cmdq' = Append(cmdq, c)
    BY <1>14 DEF MgmtTx, FmacMgmtTx
  <2> HIDE DEF c
  <2> QED BY <1>1, <1>3, <1>5, <1>14, <2>1, <2>2
<1>15. CASE ScanStarted \/ EventTasklet \/ UNCHANGED vars
  <2>1. cmdq' = cmdq
    BY <1>15
    DEF ScanStarted, EventTasklet, ScanStartCallback, ScanDoneCallback, ScanAbortCallback,
        ScanResCallback, AssocRespCallback, DeauthCallback, NewStation, DelStation,
        CookieRspCallback, TxStatusCallback, Dispatch, vars
  <2> QED BY <1>3, <2>1
<1>16. CASE RpuScan
  <2>1. Takes("TRIGGER_SCAN")
    BY <1>0, <1>16, RpuScanDoes
  <2> QED BY <1>4, <1>16, <2>1
<1>17. CASE RpuAssoc
  <2>1. Takes("ASSOCIATE")
    BY <1>0, <1>17, RpuAssocDoes
  <2> QED BY <1>4, <1>17, <2>1
<1>18. CASE RpuFrame
  <2>1. Takes("FRAME")
    BY <1>0, <1>18, RpuFrameDoes
  <2> QED BY <1>4, <1>18, <2>1
<1>19. CASE RpuAuth \/ RpuRegisterFrame
  <2>1. Takes("AUTHENTICATE") \/ Takes("REGISTER_FRAME")
    BY <1>0, <1>19, RpuAnswersDo
  <2> QED BY <1>4, <2>1
<1>20. CASE RpuDeauth
  <2>1. Takes("DEAUTHENTICATE")
    BY <1>0, <1>20, RpuDeauthDoes
  <2> QED BY <1>4, <2>1
<1>21. CASE RpuScanEnds \/ RpuFrameSent \/ RpuLoses \/ RpuUnprotected
  <2>1. cmdq' = cmdq
    BY <1>0, <1>21, RpuScanEndsDoes, RpuFrameSentDoes, RpuLosesDoes, RpuUnprotectedDoes
  <2> QED BY <1>3, <2>1
<1> QED BY <1>7, <1>8, <1>9, <1>10, <1>11, <1>12, <1>13, <1>14, <1>15, <1>16,
          <1>17, <1>18, <1>19, <1>20, <1>21
        DEF Next, Operation, RpuNext

(* What the RPU tells at once, of its access point. *)
LEMMA LeftSame ==
  ASSUME TypeOK, NEW K, "DEL_STATION" \notin K, NEW e \in Events, e.event \notin K
  PROVE Same(evtq, Append(Left, e), EvOf(K))
<1>1. evtq \in Seq(Events) /\ Gone \in Events /\ Gone \notin EvOf(K) /\ e \notin EvOf(K)
  BY Typed, LeaveTells DEF EvOf
<1>2. CASE rpu.bss = None
  <2>1. Left = evtq
    BY <1>2 DEF Left
  <2> QED BY <1>1, <2>1, SameAppend
<1>3. CASE rpu.bss # None
  <2>1. Left = Append(evtq, Gone) /\ Left \in Seq(Events)
    BY <1>3, LeaveTells DEF Left
  <2>2. Same(evtq, Append(Append(evtq, Gone), e), EvOf(K))
    BY <1>1, SameTwo
  <2> QED BY <2>1, <2>2
<1> QED BY <1>2, <1>3

(* Only the delivery of one and the RPU's telling it change a kind of       *)
(* events.                                                                  *)
LEMMA EventsSame ==
  ASSUME TypeInv, [Next]_vars, NEW K,
         EventTasklet => Event.event \notin K,
         "TRIGGER_SCAN_START" \notin K, "AUTHENTICATE" \notin K, "FRAME" \notin K,
         "UNPROT_DEAUTHENTICATE" \notin K,
         RpuScanEnds => K \cap {"SCAN_DONE", "SCAN_ABORTED", "SCAN_RESULT"} = {},
         RpuAssoc => K \cap {"ASSOCIATE", "NEW_STATION", "DEL_STATION"} = {},
         RpuDeauth => K \cap {"DEAUTHENTICATE", "DEL_STATION"} = {},
         RpuLoses => K \cap {"DEAUTHENTICATE", "DISASSOCIATE", "DEL_STATION"} = {},
         RpuFrame => "COOKIE_RESP" \notin K,
         RpuFrameSent => "FRAME_TX_STATUS" \notin K
  PROVE Same(evtq, evtq', EvOf(K))
<1>0. TypeOK /\ evtq \in Seq(Events)
  BY Typed DEF TypeInv
<1>1. ASSUME evtq' = evtq PROVE Same(evtq, evtq', EvOf(K))
  BY <1>1 DEF Same
<1>2. ASSUME NEW e \in Events, e.event \notin K, evtq' = Append(evtq, e)
      PROVE Same(evtq, evtq', EvOf(K))
  BY <1>0, <1>2, SameAppend DEF EvOf
<1>3. CASE Operation \/ ScanStarted \/ UNCHANGED vars
  <2>1. evtq' = evtq
    BY <1>3
    DEF Operation, Scan, ScanFails, MgmtTx, MgmtFrameReg, Auth, Disassoc, Assoc, Deauth,
        ScanStarted, vars
  <2> QED BY <1>1, <2>1
<1>4. CASE EventTasklet
  <2>1. evtq # <<>> /\ evtq' = Tail(evtq)
    BY <1>4
    DEF EventTasklet, ScanStartCallback, ScanDoneCallback, ScanAbortCallback,
        ScanResCallback, AssocRespCallback, DeauthCallback, NewStation, DelStation,
        CookieRspCallback, TxStatusCallback, Dispatch
  <2> QED BY <1>4, <2>1 DEF Same, EvOf, Event
<1>5. CASE RpuScan
  BY <1>0, <1>2, <1>5, RpuScanDoes
<1>6. CASE RpuScanEnds
  <2>1. \/ \E e \in Events : e.event \notin K /\ evtq' = Append(evtq, e)
        \/ \E d, e \in Events : /\ d.event \notin K /\ e.event \notin K
                                /\ evtq' = Append(Append(evtq, d), e)
    BY <1>0, <1>6, RpuScanEndsDoes
  <2> QED BY <1>0, <1>2, <2>1, SameTwo DEF EvOf
<1>7. CASE RpuAuth \/ RpuRegisterFrame
  <2>1. \E e \in Events : e.event \notin K /\ evtq' = Append(evtq, e)
    BY <1>0, <1>7, RpuAnswersDo
  <2> QED BY <1>2, <2>1
<1>8. CASE RpuAssoc
  <2>1. PICK e \in Events, n \in Events :
              /\ e.event = "ASSOCIATE" /\ n.event = "NEW_STATION"
              /\ evtq' = Append(Left, e) \/ evtq' = Append(Append(Left, e), n)
    BY <1>0, <1>8, RpuAssocDoes
  <2>2. /\ e \notin EvOf(K) /\ n \notin EvOf(K) /\ Gone \notin EvOf(K) /\ Gone \in Events
        /\ "DEL_STATION" \notin K
    BY <1>0, <1>8, <2>1, LeaveTells DEF EvOf
  <2>3. Same(evtq, Append(Left, e), EvOf(K))
    BY <1>0, <2>1, <2>2, LeftSame DEF EvOf
  <2>4. Left \in Seq(Events) /\ Append(Left, e) \in Seq(Events)
    BY <1>0, <2>1, LeaveTells, AppendFacts
  <2>5. Same(evtq, Append(Append(Left, e), n), EvOf(K))
    <3>1. CASE rpu.bss = None
      BY <1>0, <2>1, <2>2, <3>1, SameTwo DEF Left
    <3>2. CASE rpu.bss # None
      <4>1. Left = Append(evtq, Gone)
        BY <3>2 DEF Left
      <4>2. /\ Len(Append(Left, e)) = Len(evtq) + 2 /\ Len(evtq) \in Nat
            /\ \A i \in 1..Len(evtq) : Append(Left, e)[i] = evtq[i]
            /\ Append(Left, e)[Len(evtq) + 1] = Gone /\ Append(Left, e)[Len(evtq) + 2] = e
        BY <1>0, <2>1, <2>2, <2>4, <4>1
      <4>3. \A i \in 1..(Len(evtq) + 2) :
               i \in 1..Len(evtq) \/ i = Len(evtq) + 1 \/ i = Len(evtq) + 2
        BY <4>2
      <4> HIDE DEF Left
      <4> DEFINE r == Append(Left, e)
      <4>4. /\ r \in Seq(Events) /\ Len(evtq) <= Len(r)
            /\ \A i \in 1..Len(evtq) : r[i] = evtq[i]
            /\ \A i \in 1..Len(r) : i \notin 1..Len(evtq) => r[i] \notin EvOf(K)
        BY <2>2, <2>4, <4>2, <4>3
      <4> HIDE DEF r
      <4>5. Same(evtq, Append(r, n), EvOf(K))
        BY <1>0, <2>1, <2>2, <4>4, SameMore
      <4> QED BY <4>5 DEF r
    <3> QED BY <3>1, <3>2
  <2> QED BY <2>1, <2>3, <2>5
<1>9. CASE RpuDeauth
  <2>1. PICK e \in Events : /\ e.event = "DEAUTHENTICATE"
                            /\ evtq' = Append(Left, e) \/ evtq' = Append(evtq, e)
    BY <1>0, <1>9, RpuDeauthDoes
  <2>2. e.event \notin K /\ "DEL_STATION" \notin K
    BY <1>9, <2>1
  <2> QED BY <1>0, <1>2, <2>1, <2>2, LeftSame
<1>10. CASE RpuLoses
  <2>1. PICK e \in Events : /\ e.event \in {"DEAUTHENTICATE", "DISASSOCIATE"}
                            /\ evtq' = Append(Left, e)
    BY <1>0, <1>10, RpuLosesDoes
  <2>2. e.event \notin K /\ "DEL_STATION" \notin K
    BY <1>10, <2>1
  <2> QED BY <1>0, <2>1, <2>2, LeftSame
<1>11. CASE RpuFrame
  BY <1>0, <1>2, <1>11, RpuFrameDoes
<1>12. CASE RpuFrameSent
  BY <1>0, <1>2, <1>12, RpuFrameSentDoes
<1>13. CASE RpuUnprotected
  BY <1>0, <1>2, <1>13, RpuUnprotectedDoes
<1> QED BY <1>3, <1>4, <1>5, <1>6, <1>7, <1>8, <1>9, <1>10, <1>11, <1>12, <1>13
        DEF Next, RpuNext
-----------------------------------------------------------------------------
(* Scans.                                                                   *)

LEMMA ScanInit == Init => RequestInv /\ OneScan
<1> SUFFICES ASSUME Init PROVE RequestInv /\ OneScan
  OBVIOUS
<1>1. cmdq = <<>> /\ evtq = <<>> /\ scans = <<>> /\ Len(scans) = 0
  BY DEF Init
<1> QED BY <1>1, SomeEmpty DEF Init, RequestInv, OneScan

(* What the end of a scan does to the request.                              *)
LEMMA RequestDone ==
  ASSUME TypeInv, RequestInv, NEW aborted, ScanDone(aborted), UNCHANGED <<pc, calls>>
  PROVE RequestInv'
<1>1. CASE n_scan_req # 0
  <2> DEFINE d == [req |-> n_scan_req, aborted |-> aborted]
  <2>1. /\ scans' = Append(scans, d) /\ n_scan_req' = 0 /\ scan_req' = 0
        /\ n_scan_req = scan_req /\ pc # "scan"
    BY <1>1 DEF ScanDone, RequestInv
  <2>2. /\ Len(scans) \in Nat /\ Len(scans') = Len(scans) + 1
        /\ \A i \in 1..Len(scans) : scans'[i] = scans[i]
        /\ scans'[Len(scans) + 1].req = n_scan_req
    BY <2>1 DEF TypeInv, TypeOK
  <2>3. \A i \in 1..Len(scans') : i \in 1..Len(scans) \/ i = Len(scans) + 1
    BY <2>2
  <2>4. n_scan_req <= calls /\ calls \in Nat
    BY <2>1, Typed, Calls DEF RequestInv, TypeInv
  <2>5. \A i \in 1..Len(scans') : /\ scans'[i].req # 0 /\ scans'[i].req <= calls
    BY <1>1, <2>2, <2>3, <2>4 DEF RequestInv
  <2>6. \A i, j \in 1..Len(scans') : i # j => scans'[i].req # scans'[j].req
    BY <2>1, <2>2, <2>3 DEF RequestInv
  <2> QED BY <2>1, <2>4, <2>5, <2>6 DEF RequestInv
<1>2. CASE n_scan_req = 0
  BY <1>2 DEF ScanDone, RequestInv
<1> QED BY <1>1, <1>2

LEMMA RequestStep == TypeInv /\ RequestInv /\ [Next]_vars => RequestInv'
<1> SUFFICES ASSUME TypeInv, RequestInv, [Next]_vars PROVE RequestInv'
  OBVIOUS
<1>0. /\ calls \in Nat /\ scan_req \in Nat /\ n_scan_req \in Nat
      /\ scans \in Seq([req : Call, aborted : BOOLEAN])
  BY Typed, Calls DEF TypeInv, TypeOK
<1>a. \A i \in 1..Len(scans) : scans[i].req \in Nat
  <2>1. \A i \in 1..Len(scans) : scans[i] \in [req : Call, aborted : BOOLEAN]
    BY <1>0, ElementOfSeq
  <2>2. \A s \in [req : Call, aborted : BOOLEAN] : s.req \in Nat
    BY Calls
  <2> QED BY <2>1, <2>2
<1>1. ASSUME NEW ssids \in SsidLists, Scan(ssids) PROVE RequestInv'
  BY <1>0, <1>1, <1>a DEF Scan, Begin, RequestInv
<1>2. CASE ScanFails \/ MgmtTx \/ MgmtFrameReg \/ Auth \/ Disassoc
           \/ \E b \in Bss : Assoc(b) \/ Deauth(b)
  <2>1. /\ calls' = calls + 1 /\ pc = "idle" /\ pc' = pc
        /\ UNCHANGED <<n_scan_req, scan_req, scans>>
    BY <1>2 DEF ScanFails, MgmtTx, MgmtFrameReg, Auth, Disassoc, Assoc, Deauth, Begin, cfgVars
  <2> QED BY <1>0, <1>a, <2>1 DEF RequestInv
<1>3. CASE ScanStarted
  <2>1. /\ n_scan_req' = calls /\ pc' = "idle" /\ pc = "scan"
        /\ UNCHANGED <<calls, scan_req, scans>>
    BY <1>3 DEF ScanStarted, cfgVars, boundVars
  <2> QED BY <1>0, <2>1 DEF RequestInv
<1>4. CASE ScanDoneCallback \/ ScanAbortCallback \/ ScanResCallback
  <2>1. UNCHANGED <<pc, calls>>
    BY <1>4 DEF ScanDoneCallback, ScanAbortCallback, ScanResCallback, Dispatch, boundVars
  <2>2. \/ ScanDone(TRUE) \/ ScanDone(FALSE)
        \/ UNCHANGED <<scans, n_scan_req, scan_req>>
    BY <1>4 DEF ScanDoneCallback, ScanAbortCallback, ScanResCallback
  <2>3. ASSUME UNCHANGED <<scans, n_scan_req, scan_req>> PROVE RequestInv'
    BY <2>1, <2>3 DEF RequestInv
  <2> QED BY <2>1, <2>2, <2>3, RequestDone
<1>5. CASE ScanStartCallback \/ AssocRespCallback \/ DeauthCallback \/ NewStation \/ DelStation
           \/ CookieRspCallback \/ TxStatusCallback \/ UNCHANGED vars
  <2>1. UNCHANGED <<pc, calls, n_scan_req, scan_req, scans>>
    BY <1>5
    DEF ScanStartCallback, AssocRespCallback, DeauthCallback, NewStation, DelStation,
        CookieRspCallback, TxStatusCallback, Dispatch, boundVars, cfgVars, vars
  <2> QED BY <2>1 DEF RequestInv
<1>6. CASE RpuNext \/ RpuLoses \/ RpuUnprotected
  <2>1. UNCHANGED <<pc, calls, n_scan_req, scan_req, scans>>
    BY <1>6
    DEF RpuNext, RpuScan, RpuScanEnds, RpuAuth, RpuAssoc, RpuDeauth, RpuFrame, RpuFrameSent,
        RpuRegisterFrame, RpuLoses, RpuUnprotected, Take, cfgVars, boundVars
  <2> QED BY <2>1 DEF RequestInv
<1> QED BY <1>1, <1>2, <1>3, <1>4, <1>5, <1>6 DEF Next, Operation, EventTasklet

(* Steps that have nothing to do with scans.                                *)
LEMMA OneScanQuiet ==
  ASSUME TypeInv, OneScan, UNCHANGED <<scan_req, wanted, probed>>, rpu'.scan = rpu.scan,
         Same(cmdq, cmdq', ScanCmd), Same(evtq, evtq', ScanEnd)
  PROVE OneScan'
<1>1. cmdq \in Seq(Commands) /\ evtq \in Seq(Events)
  BY Typed DEF TypeInv
<1>2. OtherSsids' = OtherSsids /\ Same(cmdq, cmdq', OtherSsids)
  BY SameSmaller DEF OtherSsids
<1>3. /\ Some(cmdq', ScanCmd) <=> Some(cmdq, ScanCmd)
      /\ Some(evtq', ScanEnd) <=> Some(evtq, ScanEnd)
      /\ Some(cmdq', OtherSsids) <=> Some(cmdq, OtherSsids)
      /\ Once(cmdq', ScanCmd) /\ Once(evtq', ScanEnd)
  BY <1>1, <1>2, SameSome, SameOnce DEF OneScan
<1> QED BY <1>2, <1>3 DEF OneScan

(* The end of a scan: there is nothing of it left.                          *)
LEMMA OneScanEnds ==
  ASSUME TypeInv, OneScan, evtq # <<>>, Event \in ScanEnd, evtq' = Tail(evtq),
         UNCHANGED <<cmdq, rpu>>
  PROVE OneScan'
<1>1. cmdq \in Seq(Commands) /\ evtq \in Seq(Events)
  BY Typed DEF TypeInv
<1>2. Some(evtq, ScanEnd) /\ ~Some(evtq', ScanEnd) /\ Once(evtq', ScanEnd)
  BY <1>1, SomeTail, OnceTail DEF OneScan, Event
<1>3. ~Some(cmdq, ScanCmd) /\ rpu.scan = 0
  BY <1>2 DEF OneScan
<1>4. ~Some(cmdq', OtherSsids')
  BY <1>3 DEF Some, OtherSsids
<1> QED BY <1>2, <1>3, <1>4 DEF OneScan

LEMMA OneScanStep == TypeInv /\ OneScan /\ [Next]_vars => OneScan'
<1> SUFFICES ASSUME TypeInv, OneScan, [Next]_vars PROVE OneScan'
  OBVIOUS
<1>0. /\ TypeOK /\ cmdq \in Seq(Commands) /\ evtq \in Seq(Events) /\ calls' \in Call
  BY Typed, TypeStep DEF TypeInv, TypeOK
<1>a. ScanCmd = CmdOf("TRIGGER_SCAN")
      /\ ScanEnd \subseteq EvOf({"SCAN_DONE", "SCAN_ABORTED", "SCAN_RESULT"})
  BY DEF ScanCmd, CmdOf, ScanEnd, EvOf
<1>b. ASSUME ~(\E ssids \in SsidLists : Scan(ssids)), ~RpuScan
      PROVE Same(cmdq, cmdq', ScanCmd)
  BY <1>a, <1>b, CommandsSame
<1>c. ASSUME EventTasklet => Event.event \notin {"SCAN_DONE", "SCAN_ABORTED", "SCAN_RESULT"},
             ~RpuScanEnds
      PROVE Same(evtq, evtq', ScanEnd)
  <2>1. Same(evtq, evtq', EvOf({"SCAN_DONE", "SCAN_ABORTED", "SCAN_RESULT"}))
    BY <1>c, EventsSame
  <2> QED BY <1>a, <2>1, SameSmaller
<1>1. ASSUME NEW ssids \in SsidLists, Scan(ssids) PROVE OneScan'
  <2> DEFINE c == [cmd |-> "TRIGGER_SCAN", bss |-> None, ssids |-> ScanSsids(ssids),
                   call |-> calls']
  <2>1. c \in Commands /\ c.cmd = "TRIGGER_SCAN" /\ c.ssids = ScanSsids(ssids)
    BY <1>0, CommandMade, Names, Typed, SsidsTyped
  <2>2. cmdq' = Append(cmdq, c)
    BY <1>1 DEF Scan, FmacScan, Send
  <2> HIDE DEF c
  <2>3. /\ scan_req = 0 /\ scan_req' = calls' /\ UNCHANGED <<evtq, rpu, probed>>
        /\ wanted' = {ssids[i] : i \in Named(ssids)}
    BY <1>1 DEF Scan, history
  <2>a. calls \in Nat /\ calls' = calls + 1
    BY <1>0, <1>1, Typed, Calls DEF Scan, Begin
  <2>b. scan_req' # 0
    BY <2>3, <2>a
  <2>4. ~Some(cmdq, ScanCmd) /\ rpu.scan = 0 /\ ~Some(evtq, ScanEnd)
    BY <2>3 DEF OneScan
  <2>5. Once(cmdq', ScanCmd)
    BY <1>0, <2>1, <2>2, <2>4, OnceAppend DEF OneScan
  <2>6. c \notin OtherSsids'
    BY <2>1, <2>3, NamedTold DEF OtherSsids
  <2>7. ~Some(cmdq, OtherSsids')
    BY <2>4 DEF Some, OtherSsids
  <2>8. ~Some(cmdq', OtherSsids')
    BY <1>0, <2>1, <2>2, <2>6, <2>7, SomeAppend
  <2> QED BY <2>3, <2>4, <2>5, <2>8, <2>b DEF OneScan
<1>2. CASE RpuScan
  <2>1. /\ cmdq # <<>> /\ Command \in ScanCmd /\ cmdq' = Tail(cmdq)
        /\ rpu'.scan = Command.call /\ probed' = Command.ssids
        /\ UNCHANGED <<scan_req, wanted>>
    BY <1>0, <1>2, RpuScanDoes DEF Takes, ScanCmd, RpuRest, cfgVars
  <2>2. /\ Some(cmdq, ScanCmd) /\ ~Some(cmdq', ScanCmd) /\ Once(cmdq', ScanCmd)
    BY <1>0, <2>1, SomeTail, OnceTail DEF OneScan, Command
  <2>3. ~RpuScanEnds /\ ~EventTasklet
    <3>1. cmdq' # cmdq
      BY <1>0, <2>1, TailFacts
    <3> QED BY <3>1
        DEF RpuScanEnds, EventTasklet, ScanStartCallback, ScanDoneCallback, ScanAbortCallback,
            ScanResCallback, AssocRespCallback, DeauthCallback, NewStation, DelStation,
            CookieRspCallback, TxStatusCallback, Dispatch
  <2>4. ~Some(evtq, ScanEnd) /\ scan_req # 0 /\ Once(evtq, ScanEnd) /\ ~Some(cmdq, OtherSsids)
    BY <2>2 DEF OneScan
  <2>5. ~Some(evtq', ScanEnd) /\ Once(evtq', ScanEnd)
    BY <1>0, <1>c, <2>3, <2>4, SameSome, SameOnce
  <2>6. wanted \subseteq Command.ssids
    BY <1>0, <2>1, <2>4, SomeTail DEF OtherSsids, Command
  <2>7. ~Some(cmdq', OtherSsids')
    BY <2>2 DEF Some, OtherSsids
  <2> QED BY <2>1, <2>2, <2>4, <2>5, <2>6, <2>7 DEF OneScan
<1>3. CASE RpuScanEnds
  <2>1. /\ rpu.scan # 0 /\ rpu'.scan = 0 /\ cmdq' = cmdq /\ UNCHANGED <<scan_req, wanted>>
    BY <1>0, <1>3, RpuScanEndsDoes DEF RpuRest, cfgVars
  <2>2. ~Some(cmdq, ScanCmd) /\ ~Some(evtq, ScanEnd) /\ scan_req # 0 /\ Once(evtq, ScanEnd)
        /\ ~Some(cmdq, OtherSsids) /\ Once(cmdq, ScanCmd)
    BY <2>1 DEF OneScan
  <2>3. Once(evtq', ScanEnd)
    <3>1. CASE \E e \in Events : evtq' = Append(evtq, e)
      BY <1>0, <2>2, <3>1, OnceAppend
    <3>2. CASE \E d, e \in Events : /\ d.event = "SCAN_RESULT" /\ ~d.ok
                                    /\ evtq' = Append(Append(evtq, d), e)
      <4>1. PICK d \in Events, e \in Events : /\ d.event = "SCAN_RESULT" /\ ~d.ok
                                              /\ evtq' = Append(Append(evtq, d), e)
        BY <3>2
      <4>2. d \notin ScanEnd
        BY <4>1 DEF ScanEnd
      <4>3. /\ Append(evtq, d) \in Seq(Events) /\ ~Some(Append(evtq, d), ScanEnd)
            /\ Once(Append(evtq, d), ScanEnd)
        BY <1>0, <2>2, <4>2, AppendFacts, SomeAppend, OnceAppend
      <4> QED BY <4>1, <4>3, OnceAppend
    <3> QED BY <1>0, <1>3, <3>1, <3>2, RpuScanEndsDoes
  <2>4. ~Some(cmdq', OtherSsids')
    BY <2>1, <2>2 DEF OtherSsids
  <2> QED BY <2>1, <2>2, <2>3, <2>4 DEF OneScan
<1>4. CASE EventTasklet
  <2>1. evtq # <<>> /\ evtq' = Tail(evtq) /\ UNCHANGED <<cmdq, rpu>> /\ Event \in Events
    BY <1>0, <1>4, HeadsTyped
    DEF EventTasklet, ScanStartCallback, ScanDoneCallback, ScanAbortCallback,
        ScanResCallback, AssocRespCallback, DeauthCallback, NewStation, DelStation,
        CookieRspCallback, TxStatusCallback, Dispatch
  <2>2. CASE Event \in ScanEnd
    BY <2>1, <2>2, OneScanEnds
  <2>3. CASE Event \notin ScanEnd
    <3>1. UNCHANGED <<scan_req, wanted, probed>>
      <4>1. CASE ScanDoneCallback \/ ScanAbortCallback \/ ScanResCallback
        <5>1. ScanResCallback /\ ~Event.ok
          BY <2>1, <2>3, <4>1
          DEF ScanDoneCallback, ScanAbortCallback, ScanResCallback, Dispatch, ScanEnd
        <5> QED BY <5>1 DEF ScanResCallback
      <4>2. CASE ~(ScanDoneCallback \/ ScanAbortCallback \/ ScanResCallback)
        BY <1>4, <4>2
        DEF EventTasklet, ScanStartCallback, AssocRespCallback, DeauthCallback, NewStation,
            DelStation, CookieRspCallback, TxStatusCallback, cfgVars, history
      <4> QED BY <4>1, <4>2
    <3>2. Same(cmdq, cmdq', ScanCmd) /\ Same(evtq, evtq', ScanEnd)
      BY <2>1, <2>3 DEF Same, Event
    <3> QED BY <2>1, <3>1, <3>2, OneScanQuiet
  <2> QED BY <2>2, <2>3
<1>5. CASE ~(\E ssids \in SsidLists : Scan(ssids)) /\ ~RpuScan /\ ~RpuScanEnds /\ ~EventTasklet
  <2>1. UNCHANGED <<scan_req, wanted, probed>> /\ rpu'.scan = rpu.scan
    <3>1. CASE Operation \/ ScanStarted \/ UNCHANGED vars
      BY <1>5, <3>1
      DEF Operation, ScanFails, MgmtTx, MgmtFrameReg, Auth, Disassoc, Assoc, Deauth,
          ScanStarted, vars, cfgVars, history
    <3>2. CASE RpuAuth \/ RpuRegisterFrame
      BY <1>0, <3>2, RpuAnswersDo DEF RpuRest, cfgVars
    <3>3. CASE RpuAssoc
      BY <1>0, <3>3, RpuAssocDoes DEF RpuRest, cfgVars
    <3>4. CASE RpuDeauth
      BY <1>0, <3>4, RpuDeauthDoes DEF RpuRest, cfgVars
    <3>5. CASE RpuFrame
      BY <1>0, <3>5, RpuFrameDoes DEF RpuRest, cfgVars
    <3>6. CASE RpuFrameSent
      BY <1>0, <3>6, RpuFrameSentDoes DEF RpuRest, cfgVars
    <3>7. CASE RpuLoses
      BY <1>0, <3>7, RpuLosesDoes DEF RpuRest, cfgVars
    <3>8. CASE RpuUnprotected
      BY <1>0, <3>8, RpuUnprotectedDoes DEF RpuRest, cfgVars
    <3> QED BY <1>5, <3>1, <3>2, <3>3, <3>4, <3>5, <3>6, <3>7, <3>8 DEF Next, RpuNext
  <2> QED BY <1>5, <1>b, <1>c, <2>1, OneScanQuiet
<1> QED BY <1>1, <1>2, <1>3, <1>4, <1>5

LEMMA ScansAlways == Spec => [](TypeInv /\ RequestInv /\ OneScan)
<1>1. Init => TypeInv /\ RequestInv /\ OneScan
  BY TypeInit, ScanInit
<1>2. TypeInv /\ RequestInv /\ OneScan /\ [Next]_vars => (TypeInv /\ RequestInv /\ OneScan)'
  BY TypeStep, RequestStep, OneScanStep
<1> QED BY <1>1, <1>2, PTL DEF Spec

(* cfg80211_scan_done is called once for a scan, with the request cfg80211  *)
(* is waiting for, and the RPU scans for the SSIDs cfg80211 named.          *)
THEOREM ScansAreAsAsked == Spec => []ScansAsAsked
<1>1. TypeInv /\ RequestInv /\ OneScan => ScansAsAsked
  <2> SUFFICES ASSUME TypeInv, RequestInv, OneScan PROVE ScansAsAsked
    OBVIOUS
  <2>1. DOMAIN scans = 1..Len(scans)
    BY DEF TypeInv, TypeOK
  <2> QED BY <2>1 DEF ScansAsAsked, ScansDoneOnce, NamedSsidsScanned, RequestInv, OneScan
<1> QED BY <1>1, ScansAlways, PTL
-----------------------------------------------------------------------------
(* Frames.                                                                  *)

LEMMA FrameInit == Init => FrameInv /\ ReportInv
<1> SUFFICES ASSUME Init PROVE FrameInv /\ ReportInv
  OBVIOUS
<1>1. /\ cmdq = <<>> /\ evtq = <<>> /\ reports = <<>> /\ Len(reports) = 0
      /\ cookie_list = {} /\ rpu.frames = {}
  BY DEF Init
<1>2. \A S, T : Followed(evtq, S, T)
  BY <1>1 DEF Followed
<1>3. ASSUME NEW c \in Call PROVE FrameOf(c)
  BY <1>1, <1>2, SomeEmpty DEF FrameOf, OnAir, Reported
<1> QED BY <1>1, <1>3 DEF FrameInv, ReportInv

(* Nothing of the frame c changes, but its cookie may be lost.              *)
FrameStays(c) ==
  /\ Same(cmdq, cmdq', FrameCmd(c)) /\ Same(evtq, evtq', Resp(c)) /\ Same(evtq, evtq', Status(c))
  /\ c \in rpu'.frames <=> c \in rpu.frames
  /\ Pair(c) \in cookie_list' <=> Pair(c) \in cookie_list
  /\ Reported(c)' <=> Reported(c)
  /\ c \in lostCookies => c \in lostCookies'
  /\ cookie_g <= cookie_g'

LEMMA FrameQuiet ==
  ASSUME TypeInv, NEW c \in Call, FrameOf(c), FrameStays(c), cookie_g' \in Nat
  PROVE FrameOf(c)'
<1>1. cmdq \in Seq(Commands) /\ evtq \in Seq(Events) /\ cookie_g \in Nat /\ c \in Nat
  BY Typed, Calls DEF TypeInv
<1>2. /\ Some(cmdq', FrameCmd(c)) <=> Some(cmdq, FrameCmd(c))
      /\ Some(evtq', Resp(c)) <=> Some(evtq, Resp(c))
      /\ Some(evtq', Status(c)) <=> Some(evtq, Status(c))
  BY <1>1, SameSome DEF FrameStays
<1>3. Once(cmdq', FrameCmd(c)) /\ Once(evtq', Status(c)) /\ Once(evtq', Resp(c))
  BY <1>1, SameOnce DEF FrameStays, FrameOf
<1>4. c \in rpu'.frames \/ Followed(evtq', Resp(c), Status(c))
  BY <1>1, SameFollowed DEF FrameStays, FrameOf
<1>5. OnAir(c)' <=> OnAir(c)
  BY <1>2 DEF OnAir, FrameStays
<1>6. /\ Pair(c)' = Pair(c)
      /\ Pair(c) \in cookie_list' <=> Pair(c) \in cookie_list
      /\ Reported(c)' <=> Reported(c)
      /\ c \in lostCookies => c \in lostCookies'
      /\ cookie_g <= cookie_g' /\ (c \in rpu'.frames <=> c \in rpu.frames)
  BY DEF FrameStays, Pair
<1>7. FrameOf(c)
  OBVIOUS
<1>8. c <= cookie_g => c <= cookie_g'
  BY <1>1, <1>6
<1> HIDE DEF OnAir, Reported
<1> QED BY <1>2, <1>3, <1>4, <1>5, <1>6, <1>7, <1>8 DEF FrameOf

(* A cookie response has the status of its frame, or the RPU's sending of   *)
(* the frame, behind it.                                                    *)
LEMMA RespOnAir ==
  ASSUME NEW c \in Call, FrameOf(c), Some(evtq, Resp(c))
  PROVE OnAir(c)
<1>1. CASE c \in rpu.frames
  BY <1>1 DEF OnAir
<1>2. CASE Followed(evtq, Resp(c), Status(c))
  BY <1>2 DEF Followed, Some, OnAir
<1> QED BY <1>1, <1>2 DEF FrameOf

(* Which steps have to do with frames.                                      *)
LEMMA FramesStay ==
  ASSUME TypeInv, [Next]_vars, ~MgmtTx, ~RpuFrame, ~RpuFrameSent,
         ~CookieRspCallback, ~TxStatusCallback
  PROVE /\ \A c \in Call : FrameStays(c)
        /\ UNCHANGED <<cookie_list, reports, lostCookies, cookie_g>>
<1>0. TypeOK /\ cookie_g \in Nat
  BY Typed, Calls DEF TypeInv
<1>1. Same(cmdq, cmdq', CmdOf("FRAME"))
  BY CommandsSame
<1>2. EventTasklet => Event.event \notin {"COOKIE_RESP", "FRAME_TX_STATUS"}
  BY DEF EventTasklet, ScanStartCallback, ScanDoneCallback, ScanAbortCallback,
         ScanResCallback, AssocRespCallback, DeauthCallback, NewStation, DelStation, Dispatch
<1>3. Same(evtq, evtq', EvOf({"COOKIE_RESP", "FRAME_TX_STATUS"}))
  BY <1>2, EventsSame
<1>4. UNCHANGED <<cookie_list, reports, lostCookies, cookie_g>> /\ rpu'.frames = rpu.frames
  <2>1. CASE Operation \/ ScanStarted \/ UNCHANGED vars
    BY <2>1
    DEF Operation, Scan, ScanFails, MgmtFrameReg, Auth, Disassoc, Assoc, Deauth,
        ScanStarted, vars, cfgVars, history, cookieVars
  <2>2. CASE EventTasklet
    BY <2>2
    DEF EventTasklet, ScanStartCallback, ScanDoneCallback, ScanAbortCallback,
        ScanResCallback, AssocRespCallback, DeauthCallback, NewStation, DelStation,
        Dispatch, cfgVars, history, cookieVars
  <2>3. CASE RpuAuth \/ RpuRegisterFrame
    BY <1>0, <2>3, RpuAnswersDo DEF RpuRest, cfgVars, cookieVars
  <2>4. CASE RpuAssoc
    BY <1>0, <2>4, RpuAssocDoes DEF RpuRest, cfgVars, cookieVars
  <2>5. CASE RpuDeauth
    BY <1>0, <2>5, RpuDeauthDoes DEF RpuRest, cfgVars, cookieVars
  <2>6. CASE RpuScan \/ RpuScanEnds
    BY <1>0, <2>6, RpuScanDoes, RpuScanEndsDoes DEF RpuRest, cfgVars, cookieVars
  <2>7. CASE RpuLoses \/ RpuUnprotected
    BY <1>0, <2>7, RpuLosesDoes, RpuUnprotectedDoes DEF RpuRest, cfgVars, cookieVars
  <2> QED BY <2>1, <2>2, <2>3, <2>4, <2>5, <2>6, <2>7 DEF Next, RpuNext
<1>5. ASSUME NEW c \in Call PROVE FrameStays(c)
  <2>1. /\ FrameCmd(c) \subseteq CmdOf("FRAME")
        /\ Resp(c) \subseteq EvOf({"COOKIE_RESP", "FRAME_TX_STATUS"})
        /\ Status(c) \subseteq EvOf({"COOKIE_RESP", "FRAME_TX_STATUS"})
    BY DEF FrameCmd, CmdOf, Resp, Status, EvOf
  <2>2. /\ Same(cmdq, cmdq', FrameCmd(c)) /\ Same(evtq, evtq', Resp(c))
        /\ Same(evtq, evtq', Status(c))
    BY <1>1, <1>3, <2>1, SameSmaller
  <2>3. Reported(c)' <=> Reported(c)
    BY <1>4 DEF Reported
  <2> QED BY <1>0, <1>4, <2>2, <2>3 DEF FrameStays
<1> QED BY <1>4, <1>5

(* A frame is sent under a new cookie, or the call fails.                   *)
LEMMA MgmtTxFrames ==
  ASSUME TypeInv, FrameInv, [Next]_vars, MgmtTx, NEW c \in Call
  PROVE FrameOf(c)'
<1>0. /\ TypeOK /\ cmdq \in Seq(Commands) /\ evtq \in Seq(Events) /\ cookie_g \in Nat
      /\ cookie_g' \in Call /\ cookie_g' \in Nat /\ FrameOf(c) /\ c \in Nat
  BY Typed, TypeStep, Calls DEF TypeInv, TypeOK, FrameInv
<1>1. UNCHANGED <<evtq, rpu, cookie_list, reports, lostCookies>>
  BY DEF MgmtTx, cfgVars, history
<1>2. UNCHANGED <<Resp(c), Status(c), Pair(c)>> /\ Reported(c)' = Reported(c)
  BY <1>1 DEF Reported, Resp, Status, Pair
<1>3. Same(evtq, evtq', Resp(c)) /\ Same(evtq, evtq', Status(c))
  BY <1>1 DEF Same
<1>4. ASSUME Same(cmdq, cmdq', FrameCmd(c)), cookie_g <= cookie_g' PROVE FrameOf(c)'
  <2>1. FrameStays(c)
    BY <1>1, <1>2, <1>3, <1>4 DEF FrameStays
  <2> QED BY <1>0, <2>1, FrameQuiet
<1>5. CASE SendFails
  <2>1. cmdq' = cmdq /\ cookie_g <= cookie_g'
    <3>1. cookie_g' \in {cookie_g, cookie_g + 1} /\ cmdq' = cmdq
      BY <1>5 DEF MgmtTx, SendFails, FmacMgmtTx
    <3> QED BY <1>0, <3>1
  <2> QED BY <1>4, <2>1 DEF Same
<1>6. CASE cookie_g' = cookie_g + 1 /\ FmacMgmtTx(cookie_g')
  <2> DEFINE m == [cmd |-> "FRAME", bss |-> None, ssids |-> {}, call |-> cookie_g']
  <2>1. m \in Commands /\ m.cmd = "FRAME" /\ m.call = cookie_g'
    BY <1>0, CommandMade, Names, Typed
  <2>2. cmdq' = Append(cmdq, m)
    BY <1>6 DEF FmacMgmtTx
  <2> HIDE DEF m
  <2>3. CASE c # cookie_g'
    <3>1. m \notin FrameCmd(c)
      BY <2>1, <2>3 DEF FrameCmd
    <3> QED BY <1>0, <1>4, <1>6, <2>1, <2>2, <3>1, SameAppend
  <2>4. CASE c = cookie_g'
    <3>1. ~(c <= cookie_g)
      BY <1>0, <1>6, <2>4
    <3>2. /\ ~Some(cmdq, FrameCmd(c)) /\ ~OnAir(c) /\ ~Reported(c)
      BY <1>0, <3>1 DEF FrameOf
    <3>3. ~Some(evtq, Resp(c)) /\ Pair(c) \notin cookie_list
      BY <1>0, <3>2, RespOnAir DEF FrameOf
    <3>4. Once(cmdq', FrameCmd(c))
      BY <1>0, <2>1, <2>2, <3>2, OnceAppend DEF FrameOf
    <3>5. ~OnAir(c)' /\ ~Reported(c)' /\ Pair(c)' \notin cookie_list'
      BY <1>1, <1>2, <3>2, <3>3 DEF OnAir
    <3>6. ~Some(evtq', Resp(c)) /\ Once(evtq', Status(c)) /\ Once(evtq', Resp(c))
      BY <1>0, <1>1, <3>3 DEF FrameOf
    <3>7. c \notin rpu'.frames /\ ~Some(evtq', Status(c))
      BY <3>5 DEF OnAir
    <3>8. Followed(evtq', Resp(c), Status(c))
      BY <3>6 DEF Followed, Some
    <3>9. c # 0 /\ c <= cookie_g'
      BY <1>0, <1>6, <2>4
    <3> QED BY <3>4, <3>5, <3>6, <3>7, <3>8, <3>9 DEF FrameOf
  <2> QED BY <2>3, <2>4
<1> QED BY <1>5, <1>6 DEF MgmtTx

(* The RPU takes a frame and tells its cookie.                              *)
LEMMA RpuFrameFrames ==
  ASSUME TypeInv, FrameInv, [Next]_vars, RpuFrame, NEW c \in Call
  PROVE FrameOf(c)'
<1>0. /\ TypeOK /\ cmdq \in Seq(Commands) /\ evtq \in Seq(Events) /\ cookie_g \in Nat
      /\ FrameOf(c)
  BY Typed, Calls DEF TypeInv, TypeOK, FrameInv
<1>1. UNCHANGED <<cookie_list, reports, lostCookies, cookie_g>>
  BY <1>0, RpuFrameDoes DEF RpuRest, cfgVars, cookieVars
<1>2. /\ cmdq # <<>> /\ Command \in Commands /\ Command.cmd = "FRAME" /\ cmdq' = Tail(cmdq)
      /\ rpu'.frames = rpu.frames \cup {Command.call}
  BY <1>0, RpuFrameDoes DEF Takes
<1>3. PICK e \in Events : /\ e.event = "COOKIE_RESP" /\ e.call = Command.call
                         /\ evtq' = Append(evtq, e)
  BY <1>0, RpuFrameDoes
<1>4. /\ Reported(c)' = Reported(c) /\ Pair(c)' = Pair(c)
      /\ Pair(c) \in cookie_list' <=> Pair(c) \in cookie_list
  BY <1>1 DEF Reported, Pair
<1>5. Same(evtq, evtq', Status(c))
  <2>1. e \notin Status(c)
    BY <1>3 DEF Status
  <2> QED BY <1>0, <1>3, <2>1, SameAppend
<1>6. CASE c # Command.call
  <2>1. Command \notin FrameCmd(c) /\ e \notin Resp(c)
    BY <1>3, <1>6 DEF FrameCmd, Resp
  <2>2. Same(cmdq, cmdq', FrameCmd(c)) /\ Same(evtq, evtq', Resp(c))
    <3>1. Same(evtq, evtq', Resp(c))
      BY <1>0, <1>3, <2>1, SameAppend
    <3>2. Same(cmdq, cmdq', FrameCmd(c))
      BY <1>2, <2>1 DEF Same, Command
    <3> QED BY <3>1, <3>2
  <2>3. FrameStays(c)
    BY <1>0, <1>1, <1>2, <1>4, <1>5, <1>6, <2>2 DEF FrameStays
  <2> QED BY <1>0, <1>1, <2>3, FrameQuiet
<1>7. CASE c = Command.call
  <2>1. Command \in FrameCmd(c) /\ e \in Resp(c)
    BY <1>2, <1>3, <1>7 DEF FrameCmd, Resp
  <2>2. Some(cmdq, FrameCmd(c)) /\ ~Some(cmdq', FrameCmd(c)) /\ Once(cmdq', FrameCmd(c))
    BY <1>0, <1>2, <2>1, SomeTail, OnceTail DEF FrameOf, Command
  <2>3. /\ ~OnAir(c) /\ ~Some(evtq, Resp(c)) /\ ~Reported(c) /\ c # 0 /\ c <= cookie_g
        /\ Once(evtq, Resp(c)) /\ Once(evtq, Status(c)) /\ ~Some(evtq, Status(c))
    BY <1>0, <2>2 DEF FrameOf, OnAir
  <2>4. Once(evtq', Resp(c)) /\ Some(evtq', Resp(c))
    BY <1>0, <1>3, <2>1, <2>3, OnceAppend, SomeAppend
  <2>5. Once(evtq', Status(c)) /\ ~Some(evtq', Status(c))
    BY <1>0, <1>5, <2>3, SameOnce, SameSome
  <2>6. c \in rpu'.frames /\ ~Reported(c)'
    BY <1>2, <1>4, <1>7, <2>3
  <2>7. OnAir(c)'
    BY <2>6 DEF OnAir
  <2>8. c # 0 /\ c <= cookie_g'
    BY <1>1, <2>3
  <2> HIDE DEF OnAir
  <2> QED BY <2>2, <2>4, <2>5, <2>6, <2>7, <2>8 DEF FrameOf
<1> QED BY <1>6, <1>7

(* A frame goes out, and its status is told.                                *)
LEMMA RpuFrameSentFrames ==
  ASSUME TypeInv, FrameInv, [Next]_vars, RpuFrameSent, NEW c \in Call
  PROVE FrameOf(c)'
<1>0. /\ TypeOK /\ cmdq \in Seq(Commands) /\ evtq \in Seq(Events) /\ cookie_g \in Nat
      /\ FrameOf(c)
  BY Typed, Calls DEF TypeInv, TypeOK, FrameInv
<1>1. UNCHANGED <<cmdq, cookie_list, reports, lostCookies, cookie_g>>
  BY <1>0, RpuFrameSentDoes DEF RpuRest, cfgVars, cookieVars
<1>2. PICK d \in rpu.frames, e \in Events :
        /\ rpu'.frames = rpu.frames \ {d}
        /\ e.event = "FRAME_TX_STATUS" /\ e.call = d /\ evtq' = Append(evtq, e)
  BY <1>0, RpuFrameSentDoes
<1>3. /\ Reported(c)' = Reported(c) /\ Pair(c)' = Pair(c)
      /\ Pair(c) \in cookie_list' <=> Pair(c) \in cookie_list
  BY <1>1 DEF Reported, Pair
<1>4. e \notin Resp(c)
  BY <1>2 DEF Resp
<1>5. Same(cmdq, cmdq', FrameCmd(c)) /\ Same(evtq, evtq', Resp(c))
  BY <1>0, <1>1, <1>2, <1>4, SameAppend DEF Same
<1>6. CASE c # d
  <2>1. e \notin Status(c)
    BY <1>2, <1>6 DEF Status
  <2>2. Same(evtq, evtq', Status(c))
    BY <1>0, <1>2, <2>1, SameAppend
  <2>3. FrameStays(c)
    BY <1>0, <1>1, <1>2, <1>3, <1>5, <1>6, <2>2 DEF FrameStays
  <2> QED BY <1>0, <1>1, <2>3, FrameQuiet
<1>7. CASE c = d
  <2>1. e \in Status(c) /\ c \in rpu.frames /\ c \notin rpu'.frames
    BY <1>2, <1>7 DEF Status
  <2>2. OnAir(c)
    BY <2>1 DEF OnAir
  <2>3. /\ ~Some(evtq, Status(c)) /\ ~Reported(c) /\ c # 0 /\ c <= cookie_g
        /\ Once(evtq, Status(c)) /\ Once(evtq, Resp(c)) /\ Once(cmdq, FrameCmd(c))
        /\ Some(evtq, Resp(c)) \/ Pair(c) \in cookie_list \/ c \in lostCookies
        /\ ~Some(cmdq, FrameCmd(c))
    BY <1>0, <2>1, <2>2 DEF FrameOf
  <2>4. Once(evtq', Status(c)) /\ Some(evtq', Status(c))
    BY <1>0, <1>2, <2>1, <2>3, OnceAppend, SomeAppend
  <2>5. /\ Once(evtq', Resp(c)) /\ (Some(evtq', Resp(c)) <=> Some(evtq, Resp(c)))
        /\ Once(cmdq', FrameCmd(c)) /\ ~Some(cmdq', FrameCmd(c))
    BY <1>0, <1>1, <1>5, <2>3, SameOnce, SameSome
  <2>6. Followed(evtq', Resp(c), Status(c))
    BY <1>0, <1>2, <1>4, <2>1, FollowedAppend
  <2>7. OnAir(c)'
    BY <2>4 DEF OnAir
  <2>8. ~Reported(c)' /\ c # 0 /\ c <= cookie_g' /\ (c \in lostCookies' <=> c \in lostCookies)
    BY <1>1, <1>3, <2>3
  <2> HIDE DEF OnAir
  <2> QED BY <1>3, <2>1, <2>3, <2>4, <2>5, <2>6, <2>7, <2>8 DEF FrameOf
<1> QED BY <1>6, <1>7

(* The RPU's cookie is kept, or lost.                                       *)
LEMMA CookieRspFrames ==
  ASSUME TypeInv, FrameInv, [Next]_vars, CookieRspCallback, NEW c \in Call
  PROVE FrameOf(c)'
<1>0. /\ TypeOK /\ cmdq \in Seq(Commands) /\ evtq \in Seq(Events) /\ cookie_g \in Nat
      /\ FrameOf(c)
  BY Typed, Calls DEF TypeInv, TypeOK, FrameInv
<1>1. /\ evtq # <<>> /\ evtq' = Tail(evtq) /\ Event \in Events /\ Event.event = "COOKIE_RESP"
      /\ UNCHANGED <<cmdq, rpu, reports, cookie_g>>
  BY <1>0, HeadsTyped DEF CookieRspCallback, Dispatch, cfgVars
<1>2. \/ /\ cookie_list' = cookie_list \cup {Pair(Event.call)}
         /\ lostCookies' = lostCookies
      \/ cookie_list' = cookie_list /\ lostCookies' = lostCookies \cup {Event.call}
  BY DEF CookieRspCallback, Pair
<1>3. Reported(c)' = Reported(c) /\ Pair(c)' = Pair(c)
  BY <1>1 DEF Reported, Pair
<1>4. /\ Same(cmdq, cmdq', FrameCmd(c)) /\ Same(evtq, evtq', Status(c))
      /\ c \in rpu'.frames <=> c \in rpu.frames
  <2>1. Event \notin Status(c)
    BY <1>1 DEF Status
  <2> QED BY <1>1, <2>1 DEF Same, Event
<1>5. c \in lostCookies => c \in lostCookies'
  BY <1>2
<1>6. CASE c # Event.call
  <2>1. Event \notin Resp(c) /\ Pair(Event.call) # Pair(c)
    BY <1>6 DEF Resp, Pair
  <2>2. Same(evtq, evtq', Resp(c))
    BY <1>1, <2>1 DEF Same, Event
  <2>3. Pair(c) \in cookie_list' <=> Pair(c) \in cookie_list
    BY <1>2, <2>1
  <2>4. FrameStays(c)
    BY <1>0, <1>1, <1>3, <1>4, <1>5, <2>2, <2>3 DEF FrameStays
  <2> QED BY <1>0, <1>1, <2>4, FrameQuiet
<1>7. CASE c = Event.call
  <2>1. Event \in Resp(c)
    BY <1>1, <1>7 DEF Resp
  <2>2. /\ Some(evtq, Resp(c)) /\ ~Some(evtq', Resp(c)) /\ Once(evtq', Resp(c))
    BY <1>0, <1>1, <2>1, SomeTail, OnceTail DEF FrameOf, Event
  <2>3. OnAir(c) /\ ~Some(cmdq, FrameCmd(c)) /\ ~Reported(c) /\ c # 0 /\ c <= cookie_g
    BY <1>0, <2>2, RespOnAir DEF FrameOf
  <2>4. /\ Once(cmdq', FrameCmd(c)) /\ ~Some(cmdq', FrameCmd(c))
        /\ Once(evtq', Status(c)) /\ (Some(evtq', Status(c)) <=> Some(evtq, Status(c)))
        /\ c \in rpu'.frames => ~Some(evtq', Status(c))
    <3>1. Once(evtq, Status(c)) /\ Once(cmdq, FrameCmd(c))
          /\ (c \in rpu.frames => ~Some(evtq, Status(c)))
      BY <1>0 DEF FrameOf
    <3>2. Once(evtq', Status(c)) /\ (Some(evtq', Status(c)) <=> Some(evtq, Status(c)))
      BY <1>0, <1>4, <3>1, SameOnce, SameSome
    <3> QED BY <1>1, <2>3, <3>1, <3>2
  <2>5. OnAir(c)'
    BY <1>4, <2>3, <2>4 DEF OnAir
  <2>6. Followed(evtq', Resp(c), Status(c))
    BY <2>2 DEF Followed, Some
  <2>7. Pair(c) \in cookie_list' \/ c \in lostCookies'
    BY <1>2, <1>7
  <2>8. ~Reported(c)' /\ c # 0 /\ c <= cookie_g'
    BY <1>1, <1>3, <2>3
  <2> HIDE DEF OnAir
  <2> QED BY <1>3, <2>2, <2>4, <2>5, <2>6, <2>7, <2>8 DEF FrameOf
<1> QED BY <1>6, <1>7

(* When a frame's status is delivered, its pair of cookies is the only      *)
(* match; if there is none it was lost.                                     *)
LEMMA TxStatusDoes ==
  ASSUME TypeInv, FrameInv, TxStatusCallback
  PROVE /\ evtq # <<>> /\ evtq' = Tail(evtq) /\ Event \in Status(Event.call)
        /\ UNCHANGED <<cmdq, rpu, lostCookies, cookie_g>>
        /\ Event.call \in Call /\ ~Reported(Event.call)
        /\ ~Some(evtq, Resp(Event.call)) /\ Event.call \notin rpu.frames
        /\ ~Some(evtq', Status(Event.call))
        /\ cookie_list' = cookie_list \ {Pair(Event.call)}
        /\ \E k \in Call : /\ reports' = Append(reports, [frame |-> Event.call, cookie |-> k])
                           /\ k = Event.call \/ (k = 0 /\ Event.call \in lostCookies)
<1>0. TypeOK /\ evtq \in Seq(Events) /\ cookie_list \subseteq [host : Call, rpu : Call]
  BY Typed DEF TypeInv, TypeOK
<1>1. /\ evtq # <<>> /\ evtq' = Tail(evtq) /\ Event \in Events
      /\ Event.event = "FRAME_TX_STATUS" /\ UNCHANGED <<cmdq, rpu, lostCookies, cookie_g>>
  BY <1>0, HeadsTyped DEF TxStatusCallback, Dispatch, history
<1> DEFINE c == Event.call
<1>2. c \in Call /\ Event \in Status(c) /\ FrameOf(c)
  BY <1>1, EventFields DEF Status, FrameInv
<1> HIDE DEF c
<1>3. Some(evtq, Status(c)) /\ ~Some(evtq', Status(c))
  BY <1>0, <1>1, <1>2, SomeTail, OnceTail DEF FrameOf, Event
<1>4. c \notin rpu.frames /\ ~Reported(c) /\ OnAir(c)
  BY <1>2, <1>3 DEF FrameOf, OnAir
<1>5. ~Some(evtq, Resp(c))
  <2>1. Followed(evtq, Resp(c), Status(c))
    BY <1>2, <1>4 DEF FrameOf
  <2>2. Followed(evtq', Resp(c), Status(c))
    BY <1>0, <1>1, <2>1, FollowedTail
  <2>3. ~Some(evtq', Resp(c))
    BY <1>3, <2>2 DEF Followed, Some
  <2>4. Event \notin Resp(c)
    BY <1>1 DEF Resp
  <2> QED BY <1>0, <1>1, <2>3, <2>4, SomeTail DEF Event
<1>6. \A p \in cookie_list : p.rpu = c <=> p = Pair(c)
  BY DEF FrameInv, Pair
<1>7. Matching = cookie_list \cap {Pair(c)}
  BY <1>6 DEF Matching, c
<1>8. cookie_list' = cookie_list \ {Pair(c)}
  <2>1. cookie_list' = cookie_list \ Matching
    BY DEF TxStatusCallback
  <2> QED BY <1>7, <2>1
<1>9. \E k \in Call : /\ reports' = Append(reports, [frame |-> c, cookie |-> k])
                      /\ k = c \/ (k = 0 /\ c \in lostCookies)
  <2>1. CASE Matching = {} /\ Report(0)
    <3>1. Pair(c) \notin cookie_list
      BY <1>7, <2>1
    <3>2. c \in lostCookies
      BY <1>2, <1>4, <1>5, <3>1 DEF FrameOf
    <3>3. reports' = Append(reports, [frame |-> c, cookie |-> 0])
      BY <2>1 DEF Report, c
    <3> QED BY <3>2, <3>3, Calls
  <2>2. ASSUME NEW p \in Matching, Report(p.host)
        PROVE reports' = Append(reports, [frame |-> c, cookie |-> c])
    <3>1. p.host = c
      BY <1>7, <2>2 DEF Pair
    <3> QED BY <2>2, <3>1 DEF Report, c
  <2>3. \/ Matching = {} /\ Report(0)
        \/ \E p \in Matching : Report(p.host)
    BY DEF TxStatusCallback
  <2>4. ASSUME reports' = Append(reports, [frame |-> c, cookie |-> c])
        PROVE \E k \in Call : /\ reports' = Append(reports, [frame |-> c, cookie |-> k])
                              /\ k = c \/ (k = 0 /\ c \in lostCookies)
    BY <1>2, <2>4
  <2> QED BY <2>1, <2>2, <2>3, <2>4
<1> QED BY <1>1, <1>2, <1>3, <1>4, <1>5, <1>8, <1>9 DEF c

LEMMA TxStatusReports ==
  ASSUME TypeInv, FrameInv, TxStatusCallback, NEW c \in Call
  PROVE Reported(c)' <=> Reported(c) \/ c = Event.call
<1>1. PICK k \in Call : reports' = Append(reports, [frame |-> Event.call, cookie |-> k])
  BY TxStatusDoes
<1> DEFINE r == [frame |-> Event.call, cookie |-> k]
<1>2. r.frame = Event.call /\ reports \in Seq([frame : Call, cookie : Call])
      /\ r \in [frame : Call, cookie : Call]
  BY TxStatusDoes DEF TypeInv, TypeOK
<1>3. reports' = Append(reports, r)
  BY <1>1
<1> HIDE DEF r
<1>4. /\ Len(reports') = Len(reports) + 1 /\ Len(reports) \in Nat
      /\ \A i \in 1..Len(reports) : reports'[i] = reports[i]
      /\ reports'[Len(reports) + 1] = r
  BY <1>2, <1>3, AppendFacts
<1>5. \A i \in 1..Len(reports') : i \in 1..Len(reports) \/ i = Len(reports) + 1
  BY <1>4
<1>6. 1..Len(reports) \subseteq 1..Len(reports') /\ Len(reports) + 1 \in 1..Len(reports')
  BY <1>4
<1> QED BY <1>2, <1>4, <1>5, <1>6 DEF Reported

(* A status is reported, and the pair of cookies goes.                      *)
LEMMA TxStatusFrames ==
  ASSUME TypeInv, FrameInv, [Next]_vars, TxStatusCallback, NEW c \in Call
  PROVE FrameOf(c)'
<1>0. /\ TypeOK /\ cmdq \in Seq(Commands) /\ evtq \in Seq(Events) /\ cookie_g \in Nat
      /\ FrameOf(c)
  BY Typed, Calls DEF TypeInv, TypeOK, FrameInv
<1>1. /\ evtq # <<>> /\ evtq' = Tail(evtq) /\ Event \in Status(Event.call)
      /\ UNCHANGED <<cmdq, rpu, lostCookies, cookie_g>>
      /\ cookie_list' = cookie_list \ {Pair(Event.call)}
  BY TxStatusDoes
<1>2. Pair(c)' = Pair(c) /\ Event \notin Resp(c)
  BY <1>1 DEF Pair, Status, Resp
<1>3. /\ Same(cmdq, cmdq', FrameCmd(c)) /\ Same(evtq, evtq', Resp(c))
      /\ c \in rpu'.frames <=> c \in rpu.frames
  BY <1>1, <1>2 DEF Same, Event
<1>4. CASE c # Event.call
  <2>1. Event \notin Status(c) /\ Pair(Event.call) # Pair(c)
    BY <1>4 DEF Status, Pair
  <2>2. Same(evtq, evtq', Status(c))
    BY <1>1, <2>1 DEF Same, Event
  <2>3. Pair(c) \in cookie_list' <=> Pair(c) \in cookie_list
    BY <1>1, <2>1
  <2>4. Reported(c)' <=> Reported(c)
    BY <1>4, TxStatusReports
  <2>5. FrameStays(c)
    BY <1>0, <1>1, <1>2, <1>3, <2>2, <2>3, <2>4 DEF FrameStays
  <2> QED BY <1>0, <1>1, <2>5, FrameQuiet
<1>5. CASE c = Event.call
  <2>1. /\ ~Some(evtq', Status(c)) /\ ~Some(evtq, Resp(c)) /\ c \notin rpu'.frames
        /\ Pair(c) \notin cookie_list' /\ Reported(c)'
    BY <1>1, <1>5, TxStatusDoes, TxStatusReports
  <2>2. Some(evtq, Status(c))
    BY <1>0, <1>1, <1>5, SomeTail DEF Event
  <2>3. OnAir(c)
    BY <2>2 DEF OnAir
  <2>4. ~Some(cmdq, FrameCmd(c)) /\ c # 0 /\ c <= cookie_g
        /\ Once(evtq, Status(c)) /\ Once(evtq, Resp(c)) /\ Once(cmdq, FrameCmd(c))
    BY <1>0, <2>3 DEF FrameOf
  <2>5. Once(evtq', Status(c)) /\ Once(evtq', Resp(c)) /\ ~Some(evtq', Resp(c))
    BY <1>0, <1>1, <1>3, <2>1, <2>4, OnceTail, SameSome
  <2>6. Followed(evtq', Resp(c), Status(c))
    BY <2>5 DEF Followed, Some
  <2>7. ~OnAir(c)' /\ c <= cookie_g' /\ ~Some(cmdq', FrameCmd(c)) /\ Once(cmdq', FrameCmd(c))
    BY <1>1, <2>1, <2>4 DEF OnAir
  <2> HIDE DEF OnAir
  <2> QED BY <1>2, <2>1, <2>4, <2>5, <2>6, <2>7 DEF FrameOf
<1> QED BY <1>4, <1>5

LEMMA FrameStep == TypeInv /\ FrameInv /\ [Next]_vars => FrameInv'
<1> SUFFICES ASSUME TypeInv, FrameInv, [Next]_vars PROVE FrameInv'
  OBVIOUS
<1>1. ASSUME NEW c \in Call PROVE FrameOf(c)'
  <2>1. CASE ~MgmtTx /\ ~RpuFrame /\ ~RpuFrameSent /\ ~CookieRspCallback /\ ~TxStatusCallback
    <3>1. FrameStays(c) /\ cookie_g' \in Nat /\ FrameOf(c)
      BY <2>1, FramesStay, Typed, Calls DEF TypeInv, FrameInv
    <3> QED BY <3>1, FrameQuiet
  <2> QED BY <2>1, MgmtTxFrames, RpuFrameFrames, RpuFrameSentFrames, CookieRspFrames,
             TxStatusFrames
<1>2. \A p \in cookie_list' : p \in cookie_list \/ \E c \in Call : p = Pair(c)
  <2>1. CASE ~MgmtTx /\ ~RpuFrame /\ ~RpuFrameSent /\ ~CookieRspCallback /\ ~TxStatusCallback
    BY <2>1, FramesStay
  <2>2. CASE MgmtTx
    BY <2>2 DEF MgmtTx
  <2>3. CASE RpuFrame \/ RpuFrameSent
    BY <2>3 DEF RpuFrame, RpuFrameSent, Take, cookieVars
  <2>4. CASE CookieRspCallback
    <3>1. Event.call \in Call
      BY <2>4, HeadsTyped, EventFields DEF CookieRspCallback, Dispatch, TypeInv
    <3> QED BY <2>4, <3>1 DEF CookieRspCallback, Pair
  <2>5. CASE TxStatusCallback
    BY <2>5 DEF TxStatusCallback
  <2> QED BY <2>1, <2>2, <2>3, <2>4, <2>5
<1>3. \A p \in cookie_list' : \E c \in Call : p = Pair(c)
  BY <1>2 DEF FrameInv
<1> QED BY <1>1, <1>3 DEF FrameInv, Pair

(* A report is added with the frame's own cookie, and once for a frame.     *)
LEMMA ReportStep == TypeInv /\ FrameInv /\ ReportInv /\ [Next]_vars => ReportInv'
<1> SUFFICES ASSUME TypeInv, FrameInv, ReportInv, [Next]_vars PROVE ReportInv'
  OBVIOUS
<1>1. CASE TxStatusCallback
  <2>1. PICK k \in Call : /\ reports' = Append(reports, [frame |-> Event.call, cookie |-> k])
                          /\ k = Event.call \/ (k = 0 /\ Event.call \in lostCookies)
    BY <1>1, TxStatusDoes
  <2>2. lostCookies' = lostCookies /\ ~Reported(Event.call) /\ Event.call \in Call
    BY <1>1, TxStatusDoes
  <2> DEFINE r == [frame |-> Event.call, cookie |-> k]
  <2>3. /\ r.frame = Event.call /\ r.cookie = k
        /\ reports \in Seq([frame : Call, cookie : Call])
        /\ r \in [frame : Call, cookie : Call] /\ reports' = Append(reports, r)
    BY <2>1, <2>2 DEF TypeInv, TypeOK
  <2> HIDE DEF r
  <2>4. /\ Len(reports') = Len(reports) + 1 /\ Len(reports) \in Nat
        /\ \A i \in 1..Len(reports) : reports'[i] = reports[i]
        /\ reports'[Len(reports) + 1] = r
    BY <2>3, AppendFacts
  <2>5. \A i \in 1..Len(reports') : i \in 1..Len(reports) \/ i = Len(reports) + 1
    BY <2>4
  <2>6. \A i \in 1..Len(reports) : reports[i].frame # r.frame
    BY <2>2, <2>3 DEF Reported
  <2>7. \A i \in 1..Len(reports') :
           \/ reports'[i].cookie = reports'[i].frame
           \/ reports'[i].cookie = 0 /\ reports'[i].frame \in lostCookies'
    BY <2>1, <2>2, <2>3, <2>4, <2>5 DEF ReportInv
  <2>8. \A i, j \in 1..Len(reports') : i # j => reports'[i].frame # reports'[j].frame
    BY <2>4, <2>5, <2>6 DEF ReportInv
  <2> QED BY <2>7, <2>8 DEF ReportInv
<1>2. CASE ~TxStatusCallback
  <2>1. reports' = reports /\ lostCookies \subseteq lostCookies'
    <3>1. CASE ~MgmtTx /\ ~RpuFrame /\ ~RpuFrameSent /\ ~CookieRspCallback
      BY <1>2, <3>1, FramesStay
    <3>2. CASE MgmtTx
      BY <3>2 DEF MgmtTx, cfgVars, history
    <3>3. CASE RpuFrame \/ RpuFrameSent
      BY <3>3 DEF RpuFrame, RpuFrameSent, Take, cfgVars, history
    <3>4. CASE CookieRspCallback
      BY <3>4 DEF CookieRspCallback, cfgVars
    <3> QED BY <3>1, <3>2, <3>3, <3>4
  <2> QED BY <2>1 DEF ReportInv
<1> QED BY <1>1, <1>2

LEMMA FramesAlways == Spec => [](TypeInv /\ FrameInv /\ ReportInv)
<1>1. Init => TypeInv /\ FrameInv /\ ReportInv
  BY TypeInit, FrameInit
<1>2. TypeInv /\ FrameInv /\ ReportInv /\ [Next]_vars => (TypeInv /\ FrameInv /\ ReportInv)'
  BY TypeStep, FrameStep, ReportStep
<1> QED BY <1>1, <1>2, PTL DEF Spec

(* A frame's status is reported once and under the cookie mgmt_tx gave for  *)
(* it, or under none if there was no memory to keep the cookie; a pair of   *)
(* cookies does not outlive the report.                                     *)
THEOREM StatusesMatchCookies == Spec => []CookiesMatch
<1>1. TypeInv /\ FrameInv /\ ReportInv => CookiesMatch
  <2> SUFFICES ASSUME TypeInv, FrameInv, ReportInv PROVE CookiesMatch
    OBVIOUS
  <2>1. DOMAIN reports = 1..Len(reports)
    BY DEF TypeInv, TypeOK
  <2>2. ASSUME NEW p \in cookie_list, NEW i \in 1..Len(reports) PROVE reports[i].frame # p.rpu
    <3>1. PICK c \in Call : p = Pair(c)
      BY DEF FrameInv
    <3>2. ~Reported(c)
      BY <3>1 DEF FrameInv, FrameOf
    <3> QED BY <3>1, <3>2 DEF Reported, Pair
  <2> QED BY <2>1, <2>2 DEF CookiesMatch, ReportInv
<1> QED BY <1>1, FramesAlways, PTL
-----------------------------------------------------------------------------
(* The access point.                                                        *)

LEMMA StationInit == Init => NoneInv /\ PeerInv /\ ConnectInv /\ AddressInv
<1> SUFFICES ASSUME Init PROVE NoneInv /\ PeerInv /\ ConnectInv /\ AddressInv
  OBVIOUS
<1>1. /\ cmdq = <<>> /\ evtq = <<>> /\ peers = {} /\ rpu.bss = None /\ connected = None
  BY DEF Init
<1>2. /\ \A S, T : Followed(evtq, S, T) /\ LastIn(evtq, S, T)
      /\ \A S : ~Some(cmdq, S) /\ ~Some(evtq, S) /\ Once(cmdq, S) /\ Once(evtq, S)
  BY <1>1, SomeEmpty DEF Followed, LastIn
<1>3. NoneInv
  BY <1>1, <1>2 DEF NoneInv
<1>4. PeerInv
  BY <1>1, <1>2, BssAssumption DEF PeerInv, PeerOf
<1>5. ConnectInv
  BY <1>1, <1>2 DEF ConnectInv
<1>6. AddressInv
  BY <1>1 DEF AddressInv
<1> QED BY <1>3, <1>4, <1>5, <1>6

(* Kinds of commands and events.                                            *)
LEMMA Kinds ==
  /\ AssocCmd = CmdOf("ASSOCIATE") /\ AssocEvent = EvOf({"ASSOCIATE"})
  /\ NewAny = EvOf({"NEW_STATION"})
  /\ NoneAssoc \subseteq AssocCmd
  /\ \A b : /\ OtherCmd(b) \subseteq AssocCmd
            /\ Joined(b) \subseteq AssocEvent /\ OtherEvent(b) \subseteq AssocEvent
            /\ Goodbye(b) \subseteq EvOf({"DEAUTHENTICATE", "DISASSOCIATE"})
            /\ NewSta(b) \subseteq NewAny
            /\ About(b) \subseteq EvOf({"NEW_STATION", "DEL_STATION"})
BY DEF AssocCmd, CmdOf, AssocEvent, EvOf, NewAny, NoneAssoc, OtherCmd, Joined, OtherEvent,
       Goodbye, NewSta, DelSta, About

(* What Left has more than the queue of events.                             *)
LEMMA LeftStays ==
  ASSUME TypeOK, NEW S, rpu.bss # None => Gone \notin S
  PROVE Same(evtq, Left, S)
<1>1. CASE rpu.bss = None
  BY <1>1 DEF Left, Same
<1>2. CASE rpu.bss # None
  BY <1>2, Typed, LeaveTells, SameAppend DEF Left
<1> QED BY <1>1, <1>2

(* An assoc is the only call that sends one.                                *)
LEMMA AssocSends ==
  ASSUME TypeInv, NEW b \in Bss, Assoc(b)
  PROVE /\ UNCHANGED <<evtq, rpu, peers, connected>> /\ bss' = b
        /\ overlap' = (overlap \/ AssocPending)
        /\ \/ cmdq' = cmdq /\ badAssoc'
           \/ \E c \in AssocCmd : c.bss = b /\ cmdq' = Append(cmdq, c) /\ bssid' = b
<1>1. TypeOK /\ b \in AnyBss
  BY Typed DEF TypeInv
<1>2. /\ UNCHANGED <<evtq, rpu, peers, connected>> /\ bss' = b
      /\ overlap' = (overlap \/ AssocPending)
  BY DEF Assoc, cfgVars
<1> DEFINE c == [cmd |-> "ASSOCIATE", bss |-> b, ssids |-> {},
                 call |-> IF "ASSOCIATE" = "TRIGGER_SCAN" THEN calls' ELSE 0]
<1>3. c \in Commands /\ c.cmd = "ASSOCIATE" /\ c.bss = b
  BY <1>1, CommandMade, Names, Calls
<1>4. \/ cmdq' = cmdq /\ badAssoc'
      \/ cmdq' = Append(cmdq, c) /\ bssid' = b
  BY DEF Assoc, FmacAssoc, SendFails, Send
<1> HIDE DEF c
<1>5. c \in AssocCmd
  BY <1>3 DEF AssocCmd
<1> QED BY <1>2, <1>3, <1>4, <1>5

(* The steps that change the peer table and the address, and those that     *)
(* change cfg80211's access point.                                          *)
LEMMA PeersStay ==
  ASSUME [Next]_vars, ~NewStation, ~DelStation
  PROVE peers' = peers
<1>1. CASE Operation \/ ScanStarted \/ UNCHANGED vars
  BY <1>1
  DEF Operation, Scan, ScanFails, MgmtTx, MgmtFrameReg, Auth, Disassoc, Assoc, Deauth,
      ScanStarted, vars, mlmeVars
<1>2. CASE EventTasklet
  BY <1>2
  DEF EventTasklet, ScanStartCallback, ScanDoneCallback, ScanAbortCallback,
      ScanResCallback, AssocRespCallback, DeauthCallback, CookieRspCallback, TxStatusCallback,
      mlmeVars
<1>3. CASE RpuNext \/ RpuLoses \/ RpuUnprotected
  BY <1>3
  DEF RpuNext, RpuScan, RpuScanEnds, RpuAuth, RpuAssoc, RpuDeauth, RpuFrame, RpuFrameSent,
      RpuRegisterFrame, RpuLoses, RpuUnprotected, Take, mlmeVars
<1> QED BY <1>1, <1>2, <1>3 DEF Next

LEMMA AddressStays ==
  ASSUME [Next]_vars, ~NewStation, ~(\E b \in Bss : Assoc(b))
  PROVE UNCHANGED <<bssid, badAssoc>>
<1>1. CASE Operation \/ ScanStarted \/ UNCHANGED vars
  BY <1>1
  DEF Operation, Scan, ScanFails, MgmtTx, MgmtFrameReg, Auth, Disassoc, Deauth,
      ScanStarted, vars, mlmeVars, history
<1>2. CASE EventTasklet
  BY <1>2
  DEF EventTasklet, ScanStartCallback, ScanDoneCallback, ScanAbortCallback,
      ScanResCallback, AssocRespCallback, DeauthCallback, DelStation, CookieRspCallback,
      TxStatusCallback, mlmeVars, history
<1>3. CASE RpuNext \/ RpuLoses \/ RpuUnprotected
  BY <1>3
  DEF RpuNext, RpuScan, RpuScanEnds, RpuAuth, RpuAssoc, RpuDeauth, RpuFrame, RpuFrameSent,
      RpuRegisterFrame, RpuLoses, RpuUnprotected, Take, mlmeVars, history
<1> QED BY <1>1, <1>2, <1>3 DEF Next

LEMMA ConnectedStays ==
  ASSUME [Next]_vars, ~AssocRespCallback, ~DeauthCallback, ~(\E b \in Bss : Assoc(b)),
         ~Disassoc
  PROVE UNCHANGED <<bss, overlap>> /\ connected' \in {connected, None}
<1>1. CASE Operation \/ ScanStarted \/ UNCHANGED vars
  BY <1>1
  DEF Operation, Scan, ScanFails, MgmtTx, MgmtFrameReg, Auth, Deauth,
      ScanStarted, vars, mlmeVars, history, cfgVars
<1>2. CASE EventTasklet
  BY <1>2
  DEF EventTasklet, ScanStartCallback, ScanDoneCallback, ScanAbortCallback,
      ScanResCallback, NewStation, DelStation, CookieRspCallback,
      TxStatusCallback, mlmeVars, history, cfgVars
<1>3. CASE RpuNext \/ RpuLoses \/ RpuUnprotected
  BY <1>3
  DEF RpuNext, RpuScan, RpuScanEnds, RpuAuth, RpuAssoc, RpuDeauth, RpuFrame, RpuFrameSent,
      RpuRegisterFrame, RpuLoses, RpuUnprotected, Take, mlmeVars, history, cfgVars
<1> QED BY <1>1, <1>2, <1>3 DEF Next

(* Only an assoc, a deauthentication and the loss of it change where the    *)
(* RPU is.                                                                  *)
LEMMA RpuStays ==
  ASSUME TypeInv, [Next]_vars, ~RpuAssoc, ~RpuDeauth, ~RpuLoses
  PROVE rpu'.bss = rpu.bss
<1>0. TypeOK
  BY DEF TypeInv
<1>1. CASE Operation \/ ScanStarted \/ EventTasklet \/ UNCHANGED vars
  BY <1>1
  DEF Operation, Scan, ScanFails, MgmtTx, MgmtFrameReg, Auth, Disassoc, Assoc, Deauth,
      ScanStarted, vars, EventTasklet, ScanStartCallback, ScanDoneCallback,
      ScanAbortCallback, ScanResCallback, AssocRespCallback, DeauthCallback, NewStation,
      DelStation, CookieRspCallback, TxStatusCallback, Dispatch
<1>2. CASE RpuAuth \/ RpuRegisterFrame
  BY <1>0, <1>2, RpuAnswersDo
<1>3. CASE RpuScan \/ RpuScanEnds
  BY <1>0, <1>3, RpuScanDoes, RpuScanEndsDoes
<1>4. CASE RpuFrame
  BY <1>0, <1>4, RpuFrameDoes
<1>5. CASE RpuFrameSent
  BY <1>0, <1>5, RpuFrameSentDoes
<1>6. CASE RpuUnprotected
  BY <1>0, <1>6, RpuUnprotectedDoes
<1> QED BY <1>1, <1>2, <1>3, <1>4, <1>5, <1>6 DEF Next, RpuNext

LEMMA NoneStep == TypeInv /\ NoneInv /\ [Next]_vars => NoneInv'
<1> SUFFICES ASSUME TypeInv, NoneInv, [Next]_vars PROVE NoneInv'
  OBVIOUS
<1>0. TypeOK /\ cmdq \in Seq(Commands) /\ evtq \in Seq(Events)
  BY Typed DEF TypeInv
<1>1. ~Some(cmdq', NoneAssoc)
  <2>1. ASSUME NEW b \in Bss, Assoc(b) PROVE ~Some(cmdq', NoneAssoc)
    <3>1. CASE cmdq' = cmdq
      BY <3>1 DEF NoneInv
    <3>2. CASE \E c \in AssocCmd : c.bss = b /\ cmdq' = Append(cmdq, c)
      <4>1. PICK c \in AssocCmd : c.bss = b /\ cmdq' = Append(cmdq, c)
        BY <3>2
      <4>2. c \in Commands /\ c \notin NoneAssoc
        BY <4>1, BssAssumption DEF AssocCmd, NoneAssoc
      <4> QED BY <1>0, <4>1, <4>2, SomeAppend DEF NoneInv
    <3> QED BY <2>1, <3>1, <3>2, AssocSends
  <2>2. CASE RpuAssoc
    <3>1. cmdq # <<>> /\ cmdq' = Tail(cmdq)
      BY <1>0, <2>2, RpuAssocDoes DEF Takes
    <3> QED BY <1>0, <3>1, SomeTail DEF NoneInv
  <2>3. CASE ~(\E b \in Bss : Assoc(b)) /\ ~RpuAssoc
    <3>1. Same(cmdq, cmdq', AssocCmd)
      BY <2>3, CommandsSame, Kinds
    <3>2. Same(cmdq, cmdq', NoneAssoc)
      BY <3>1, Kinds, SameSmaller
    <3> QED BY <1>0, <3>2, SameSome DEF NoneInv
  <2> QED BY <2>1, <2>2, <2>3
<1>2. ~Some(evtq', NewSta(None))
  <2>1. CASE RpuAssoc
    <3>1. PICK e \in Events, n \in Events :
              /\ e.event = "ASSOCIATE" /\ n.bss = Command.bss
              /\ evtq' = Append(Left, e) \/ evtq' = Append(Append(Left, e), n)
      BY <1>0, <2>1, RpuAssocDoes
    <3>2. Command \notin NoneAssoc /\ cmdq # <<>> /\ Command \in AssocCmd
      <4>1. cmdq # <<>> /\ Command \in AssocCmd
        BY <1>0, <2>1, RpuAssocDoes DEF Takes, AssocCmd
      <4> QED BY <1>0, <4>1, SomeTail DEF NoneInv, Command
    <3>3. e \notin NewSta(None) /\ n \notin NewSta(None) /\ Gone \notin NewSta(None)
      BY <1>0, <3>1, <3>2, LeaveTells DEF NewSta, NoneAssoc
    <3>4. ~Some(Left, NewSta(None)) /\ Left \in Seq(Events) /\ Append(Left, e) \in Seq(Events)
      BY <1>0, <3>1, <3>3, LeftStays, SameSome, LeaveTells, AppendFacts DEF NoneInv
    <3>5. ~Some(Append(Left, e), NewSta(None))
      BY <3>1, <3>3, <3>4, SomeAppend
    <3>6. ~Some(Append(Append(Left, e), n), NewSta(None))
      BY <3>1, <3>3, <3>4, <3>5, SomeAppend
    <3> QED BY <3>1, <3>5, <3>6
  <2>2. CASE EventTasklet
    <3>1. evtq # <<>> /\ evtq' = Tail(evtq)
      BY <2>2
      DEF EventTasklet, ScanStartCallback, ScanDoneCallback, ScanAbortCallback,
          ScanResCallback, AssocRespCallback, DeauthCallback, NewStation, DelStation,
          CookieRspCallback, TxStatusCallback, Dispatch
    <3> QED BY <1>0, <3>1, SomeTail DEF NoneInv
  <2>3. CASE ~RpuAssoc /\ ~EventTasklet
    <3>1. Same(evtq, evtq', EvOf({"NEW_STATION"}))
      BY <2>3, EventsSame
    <3>2. Same(evtq, evtq', NewSta(None))
      BY <3>1, Kinds, SameSmaller
    <3> QED BY <1>0, <3>2, SameSome DEF NoneInv
  <2> QED BY <2>1, <2>2, <2>3
<1>3. None \notin peers'
  <2>1. CASE NewStation
    <3>1. evtq # <<>> /\ Event \in Events /\ Event.event = "NEW_STATION"
      BY <1>0, <2>1, HeadsTyped DEF NewStation, Dispatch
    <3>2. Event.bss # None
      BY <1>0, <3>1, SomeTail DEF NoneInv, NewSta, Event
    <3> QED BY <2>1, <3>2 DEF NewStation, NoneInv
  <2>2. CASE DelStation
    BY <2>2 DEF DelStation, NoneInv
  <2>3. CASE ~NewStation /\ ~DelStation
    BY <2>3, PeersStay DEF NoneInv
  <2> QED BY <2>1, <2>2, <2>3
<1> QED BY <1>1, <1>2, <1>3 DEF NoneInv, NoneAssoc, NewSta, AssocCmd

(* When the RPU leaves its access point, the last event about any is that   *)
(* it is gone.                                                              *)
LEMMA LeaveAbout ==
  ASSUME TypeOK, NEW b \in Bss, PeerOf(b)
  PROVE LastIn(Left, About(b), DelSta(b)) /\ (~Some(Left, About(b)) => b \notin peers)
<1>0. /\ evtq \in Seq(Events) /\ Gone \in Events /\ b # None
      /\ Gone.event = "DEL_STATION" /\ Gone.bss = rpu.bss
  BY Typed, LeaveTells, BssAssumption
<1>1. CASE rpu.bss = b
  <2>1. Gone \in DelSta(b) /\ Gone \in About(b) /\ Left = Append(evtq, Gone)
    BY <1>0, <1>1 DEF DelSta, About, Left
  <2> QED BY <1>0, <2>1, LastAppend, SomeAppend
<1>2. CASE rpu.bss # b
  <2>1. Gone \notin About(b)
    BY <1>0, <1>2 DEF NewSta, DelSta, About
  <2>2. Same(evtq, Left, About(b))
    BY <2>1, LeftStays
  <2>3. LastIn(evtq, About(b), DelSta(b)) /\ (~Some(evtq, About(b)) => b \notin peers)
    BY <1>2 DEF PeerOf
  <2> QED BY <1>0, <2>2, <2>3, SameLast, SameSome
<1> QED BY <1>1, <1>2

LEMMA PeerStep == TypeInv /\ PeerInv /\ [Next]_vars => PeerInv'
<1> SUFFICES ASSUME TypeInv, PeerInv, [Next]_vars, NEW b \in Bss PROVE PeerOf(b)'
  BY DEF PeerInv
<1>0. TypeOK /\ evtq \in Seq(Events) /\ PeerOf(b) /\ b # None
  BY Typed, BssAssumption DEF TypeInv, PeerInv
<1>1. /\ LastIn(Left, About(b), DelSta(b)) /\ (~Some(Left, About(b)) => b \notin peers)
      /\ Left \in Seq(Events)
  BY <1>0, LeaveAbout, LeaveTells
<1>a. ASSUME NEW e \in Events, e \notin About(b)
      PROVE /\ LastIn(Append(Left, e), About(b), DelSta(b))
            /\ ~Some(Append(Left, e), About(b)) => b \notin peers
  BY <1>1, <1>a, LastAppend, SomeAppend
<1>b. ASSUME NEW e \in Events, e \notin About(b), evtq' = Append(Left, e), rpu'.bss # b,
             peers' = peers
      PROVE PeerOf(b)'
  BY <1>a, <1>b DEF PeerOf, About, NewSta, DelSta
<1>c. ASSUME Same(evtq, evtq', About(b)), rpu'.bss = rpu.bss, peers' = peers
      PROVE PeerOf(b)'
  <2>1. Some(evtq', About(b)) <=> Some(evtq, About(b))
    BY <1>0, <1>c, SameSome
  <2>2. \A T : LastIn(evtq, About(b), T) => LastIn(evtq', About(b), T)
    BY <1>0, <1>c, SameLast
  <2> QED BY <1>0, <1>c, <2>1, <2>2 DEF PeerOf, About, NewSta, DelSta
<1>2. CASE RpuAssoc
  <2>1. PICK e \in Events, n \in Events :
              /\ e.event = "ASSOCIATE"
              /\ n.event = "NEW_STATION" /\ n.bss = Command.bss
              /\ \/ rpu'.bss = None /\ evtq' = Append(Left, e)
                 \/ rpu'.bss = Command.bss /\ evtq' = Append(Append(Left, e), n)
    BY <1>0, <1>2, RpuAssocDoes
  <2>2. peers' = peers /\ e \notin About(b)
    BY <1>0, <1>2, <2>1, RpuAssocDoes DEF RpuRest, mlmeVars, About, NewSta, DelSta
  <2>3. CASE rpu'.bss = None /\ evtq' = Append(Left, e)
    BY <1>0, <1>b, <2>2, <2>3
  <2>4. CASE rpu'.bss = Command.bss /\ evtq' = Append(Append(Left, e), n)
    <3> DEFINE q == Append(Left, e)
    <3>1. q \in Seq(Events) /\ LastIn(q, About(b), DelSta(b))
          /\ (~Some(q, About(b)) => b \notin peers)
      BY <1>1, <1>a, <2>2, AppendFacts
    <3>2. evtq' = Append(q, n)
      BY <2>4
    <3> HIDE DEF q
    <3>3. CASE Command.bss = b
      <4>1. n \in NewSta(b) /\ n \in About(b)
        BY <2>1, <3>3 DEF NewSta, About
      <4>2. LastIn(evtq', About(b), NewSta(b)) /\ Some(evtq', About(b))
        BY <3>1, <3>2, <4>1, LastAppend, SomeAppend
      <4> QED BY <2>4, <3>3, <4>2 DEF PeerOf, About, NewSta, DelSta
    <3>4. CASE Command.bss # b
      <4>1. n \notin About(b)
        BY <2>1, <3>4 DEF NewSta, DelSta, About
      <4>2. LastIn(evtq', About(b), DelSta(b)) /\ (~Some(evtq', About(b)) => b \notin peers)
        BY <3>1, <3>2, <4>1, LastAppend, SomeAppend
      <4> QED BY <2>2, <2>4, <3>4, <4>2 DEF PeerOf, About, NewSta, DelSta
    <3> QED BY <3>3, <3>4
  <2> QED BY <2>1, <2>3, <2>4
<1>3. CASE RpuDeauth
  <2>1. PICK e \in Events :
              /\ e.event = "DEAUTHENTICATE"
              /\ \/ rpu'.bss = None /\ evtq' = Append(Left, e)
                 \/ rpu' = rpu /\ evtq' = Append(evtq, e)
    BY <1>0, <1>3, RpuDeauthDoes
  <2>2. peers' = peers /\ e \notin About(b)
    BY <1>0, <1>3, <2>1, RpuDeauthDoes DEF RpuRest, mlmeVars, About, NewSta, DelSta
  <2>3. CASE rpu' = rpu /\ evtq' = Append(evtq, e)
    BY <1>0, <1>c, <2>2, <2>3, SameAppend
  <2> QED BY <1>0, <1>b, <2>1, <2>2, <2>3
<1>4. CASE RpuLoses
  <2>1. PICK e \in Events : /\ e.event \in {"DEAUTHENTICATE", "DISASSOCIATE"}
                            /\ rpu'.bss = None /\ evtq' = Append(Left, e)
    BY <1>0, <1>4, RpuLosesDoes
  <2>2. peers' = peers /\ e \notin About(b)
    BY <1>0, <1>4, <2>1, RpuLosesDoes DEF RpuRest, mlmeVars, About, NewSta, DelSta
  <2> QED BY <1>0, <1>b, <2>1, <2>2
<1>5. CASE NewStation \/ DelStation
  <2>1. /\ evtq # <<>> /\ evtq' = Tail(evtq) /\ rpu' = rpu /\ Event \in Events
        /\ \/ Event.event = "NEW_STATION" /\ peers' = peers \cup {Event.bss}
           \/ Event.event = "DEL_STATION" /\ peers' = peers \ {Event.bss}
    BY <1>0, <1>5, HeadsTyped DEF NewStation, DelStation, Dispatch
  <2>2. CASE Event.bss # b
    <3>1. Event \notin About(b) /\ (b \in peers' <=> b \in peers)
      BY <2>1, <2>2 DEF About, NewSta, DelSta
    <3>2. Same(evtq, evtq', About(b))
      BY <2>1, <3>1 DEF Same, Event
    <3>3. Some(evtq', About(b)) <=> Some(evtq, About(b))
      BY <1>0, <3>2, SameSome
    <3>4. \A T : LastIn(evtq, About(b), T) => LastIn(evtq', About(b), T)
      BY <1>0, <3>2, SameLast
    <3> QED BY <1>0, <2>1, <3>1, <3>3, <3>4 DEF PeerOf, About, NewSta, DelSta
  <2>3. CASE Event.bss = b
    <3>1. Event \in About(b)
      BY <2>1, <2>3 DEF About, NewSta, DelSta
    <3>2. \A T : LastIn(evtq, About(b), T) =>
              LastIn(evtq', About(b), T) /\ (~Some(evtq', About(b)) => Event \in T)
      BY <1>0, <2>1, <3>1, LastTail DEF Event
    <3>3. Event \in NewSta(b) => b \in peers' /\ Event \notin DelSta(b)
      BY <2>1, <2>3 DEF NewSta, DelSta
    <3>4. Event \in DelSta(b) => b \notin peers' /\ Event \notin NewSta(b)
      BY <2>1, <2>3 DEF NewSta, DelSta
    <3>5. ~Some(evtq', About(b)) => (b \in peers' <=> rpu'.bss = b)
      BY <1>0, <2>1, <3>2, <3>3, <3>4 DEF PeerOf
    <3>6. LastIn(evtq', About(b), IF rpu'.bss = b THEN NewSta(b) ELSE DelSta(b))
      BY <1>0, <2>1, <3>2 DEF PeerOf
    <3> QED BY <3>5, <3>6 DEF PeerOf, About, NewSta, DelSta
  <2> QED BY <2>2, <2>3
<1>6. CASE ~RpuAssoc /\ ~RpuDeauth /\ ~RpuLoses /\ ~NewStation /\ ~DelStation
  <2>1. EventTasklet => Event.event \notin {"NEW_STATION", "DEL_STATION"}
    BY <1>6
    DEF EventTasklet, ScanStartCallback, ScanDoneCallback, ScanAbortCallback,
        ScanResCallback, AssocRespCallback, DeauthCallback, CookieRspCallback,
        TxStatusCallback, Dispatch
  <2>2. Same(evtq, evtq', EvOf({"NEW_STATION", "DEL_STATION"}))
    BY <1>6, <2>1, EventsSame
  <2>3. Same(evtq, evtq', About(b))
    BY <2>2, Kinds, SameSmaller
  <2> QED BY <1>6, <1>c, <2>3, PeersStay, RpuStays
<1> QED BY <1>2, <1>3, <1>4, <1>5, <1>6

LEMMA AddressStep == TypeInv /\ AddressInv /\ [Next]_vars => AddressInv'
<1> SUFFICES ASSUME TypeInv, AddressInv, [Next]_vars, rpu'.bss # None
             PROVE /\ LastIn(evtq', NewAny, NewSta(rpu'.bss))
                   /\ ~badAssoc' => \/ Some(cmdq', AssocCmd) \/ Some(evtq', NewAny)
                                    \/ bssid' = rpu'.bss
  BY DEF AddressInv, NewAny, NewSta, AssocCmd
<1>0. TypeOK /\ evtq \in Seq(Events) /\ cmdq \in Seq(Commands)
  BY Typed DEF TypeInv
<1>1. CASE RpuAssoc
  <2>1. PICK e \in Events, n \in Events :
              /\ e.event = "ASSOCIATE"
              /\ n.event = "NEW_STATION" /\ n.bss = Command.bss
              /\ rpu'.bss = Command.bss /\ evtq' = Append(Append(Left, e), n)
    BY <1>0, <1>1, RpuAssocDoes
  <2> DEFINE q == Append(Left, e)
  <2>2. q \in Seq(Events) /\ evtq' = Append(q, n)
    BY <1>0, <2>1, LeaveTells, AppendFacts
  <2>3. n \in NewAny /\ n \in NewSta(rpu'.bss)
    BY <2>1 DEF NewAny, NewSta
  <2> HIDE DEF q
  <2> QED BY <2>2, <2>3, LastAppend, SomeAppend
<1>2. CASE ~RpuAssoc /\ ~NewStation
  <2>1. ~RpuDeauth \/ rpu'.bss = rpu.bss
    <3>1. RpuDeauth => rpu'.bss = None \/ rpu' = rpu
      BY <1>0, RpuDeauthDoes
    <3> QED BY <3>1
  <2>2. rpu'.bss = rpu.bss
    <3>1. ~RpuLoses
      BY <1>0, RpuLosesDoes
    <3> QED BY <1>2, <2>1, <3>1, RpuStays
  <2>3. EventTasklet => Event.event # "NEW_STATION"
    BY <1>2
    DEF EventTasklet, ScanStartCallback, ScanDoneCallback, ScanAbortCallback,
        ScanResCallback, AssocRespCallback, DeauthCallback, DelStation, CookieRspCallback,
        TxStatusCallback, Dispatch
  <2>4. Same(evtq, evtq', NewAny)
    <3>1. EventTasklet => Event.event \notin {"NEW_STATION"}
      BY <2>3
    <3>2. ~RpuAssoc
      BY <1>2
    <3>3. Same(evtq, evtq', EvOf({"NEW_STATION"}))
      BY <3>1, <3>2, EventsSame
    <3> QED BY <3>3, Kinds
  <2>5. LastIn(evtq', NewAny, NewSta(rpu'.bss)) /\ (Some(evtq', NewAny) <=> Some(evtq, NewAny))
    BY <1>0, <2>2, <2>4, SameLast, SameSome DEF AddressInv
  <2>6. ASSUME NEW b \in Bss, Assoc(b)
        PROVE ~badAssoc' => Some(cmdq', AssocCmd)
    <3>1. CASE badAssoc'
      BY <3>1
    <3>2. CASE \E c \in AssocCmd : cmdq' = Append(cmdq, c)
      <4>1. PICK c \in AssocCmd : cmdq' = Append(cmdq, c)
        BY <3>2
      <4>2. c \in Commands
        BY DEF AssocCmd
      <4> QED BY <1>0, <4>1, <4>2, SomeAppend
    <3> QED BY <2>6, <3>1, <3>2, AssocSends
  <2>7. CASE ~(\E b \in Bss : Assoc(b))
    <3>1. UNCHANGED <<bssid, badAssoc>>
      BY <1>2, <2>7, AddressStays
    <3>2. Some(cmdq', AssocCmd) <=> Some(cmdq, AssocCmd)
      BY <1>0, <1>2, <2>7, CommandsSame, Kinds, SameSome
    <3> QED BY <2>2, <2>5, <3>1, <3>2 DEF AddressInv
  <2> QED BY <2>5, <2>6, <2>7
<1>3. CASE NewStation
  <2>1. /\ evtq # <<>> /\ evtq' = Tail(evtq) /\ UNCHANGED <<rpu, cmdq>> /\ Event \in NewAny
        /\ bssid' = Event.bss
    BY <1>0, <1>3, HeadsTyped DEF NewStation, Dispatch, NewAny
  <2>2. LastIn(evtq, NewAny, NewSta(rpu.bss))
    BY <2>1 DEF AddressInv
  <2>3. /\ LastIn(evtq', NewAny, NewSta(rpu.bss))
        /\ ~Some(evtq', NewAny) => Event \in NewSta(rpu.bss)
    BY <1>0, <2>1, <2>2, LastTail DEF Event
  <2> QED BY <2>1, <2>3 DEF NewSta
<1> QED BY <1>1, <1>2, <1>3

LEMMA PendingAssoc ==
  ASSUME TypeOK, ~AssocPending
  PROVE ~Some(cmdq, AssocCmd) /\ ~Some(evtq, AssocEvent)
<1>1. cmdq \in Seq(Commands) /\ evtq \in Seq(Events)
  BY Typed
<1>2. DOMAIN cmdq = 1..Len(cmdq) /\ DOMAIN evtq = 1..Len(evtq)
  BY <1>1
<1> QED BY <1>2 DEF AssocPending, Some, AssocCmd, AssocEvent

(* A call of cfg80211 that leaves no assoc unanswered behind.               *)
LEMMA ConnectCalls ==
  ASSUME TypeInv, ConnectInv, [Next]_vars, ~overlap',
         (\E b \in Bss : Assoc(b)) \/ (Disassoc /\ overlap' = (overlap \/ AssocPending))
  PROVE ConnectInv'
<1>0. TypeOK /\ cmdq \in Seq(Commands) /\ evtq \in Seq(Events)
  BY Typed DEF TypeInv
<1>1. ~overlap /\ ~AssocPending /\ UNCHANGED <<evtq, rpu>> /\ connected' \in {connected, None}
  BY AssocSends DEF Disassoc
<1>2. /\ ~Some(cmdq, AssocCmd) /\ ~Some(evtq, AssocEvent)
      /\ \A b \in Bss : rpu'.bss = b \/ Followed(evtq', Joined(b), Goodbye(b))
      /\ connected' # None => \/ Some(evtq', AssocEvent) \/ Some(evtq', Goodbye(connected'))
                              \/ rpu'.bss = connected'
  BY <1>0, <1>1, PendingAssoc DEF ConnectInv
<1>3. Once(evtq', AssocEvent) /\ ~Some(evtq', AssocEvent) /\ ~Some(evtq', OtherEvent(bss'))
  BY <1>1, <1>2 DEF Once, Some, OtherEvent
<1>4. Once(cmdq', AssocCmd) /\ ~Some(cmdq', OtherCmd(bss'))
  <2>1. CASE \E b \in Bss : Assoc(b)
    <3>1. PICK b \in Bss : Assoc(b)
      BY <2>1
    <3>2. bss' = b /\ (\/ cmdq' = cmdq
                       \/ \E c \in AssocCmd : c.bss = b /\ cmdq' = Append(cmdq, c))
      BY <3>1, AssocSends
    <3>3. CASE cmdq' = cmdq
      BY <1>2, <3>3 DEF Once, Some, OtherCmd
    <3>4. CASE \E c \in AssocCmd : c.bss = b /\ cmdq' = Append(cmdq, c)
      <4>1. PICK c \in AssocCmd : c.bss = b /\ cmdq' = Append(cmdq, c)
        BY <3>4
      <4>2. c \in Commands /\ c \notin OtherCmd(b) /\ ~Some(cmdq, OtherCmd(b))
            /\ Once(cmdq, AssocCmd)
        BY <1>2, <4>1 DEF AssocCmd, OtherCmd, Some, Once
      <4>3. Once(cmdq', AssocCmd) /\ ~Some(cmdq', OtherCmd(b))
        BY <1>0, <1>2, <4>1, <4>2, OnceAppend, SomeAppend
      <4> QED BY <3>2, <4>3
    <3> QED BY <3>2, <3>3, <3>4
  <2>2. CASE ~(\E b \in Bss : Assoc(b))
    <3>1. ~RpuAssoc
      <4>1. RpuAssoc => cmdq' = Tail(cmdq) /\ cmdq # <<>>
        BY <1>0, RpuAssocDoes DEF Takes
      <4>2. Disassoc
        BY <2>2
      <4>3. Len(cmdq') >= Len(cmdq)
        <5>1. SendFails \/ Send("DEAUTHENTICATE", connected, {})
          BY <4>2 DEF Disassoc, FmacDisassoc, Try
        <5>2. cmdq' = cmdq \/ \E c : cmdq' = Append(cmdq, c)
          BY <5>1 DEF SendFails, Send
        <5> QED BY <1>0, <5>2
      <4>4. cmdq # <<>> => Len(Tail(cmdq)) < Len(cmdq)
        BY <1>0, TailFacts
      <4>5. cmdq # <<>> => Len(Tail(cmdq)) \in Nat /\ Len(cmdq) \in Nat
        BY <1>0, TailFacts
      <4> QED BY <4>1, <4>3, <4>4, <4>5
    <3>2. Same(cmdq, cmdq', AssocCmd)
      BY <2>2, <3>1, CommandsSame, Kinds
    <3>3. ~Some(cmdq', AssocCmd)
      BY <1>0, <1>2, <3>2, SameSome
    <3> QED BY <3>3 DEF Once, Some, OtherCmd
  <2> QED BY <2>1, <2>2
<1> QED BY <1>2, <1>3, <1>4 DEF ConnectInv, AssocCmd, AssocEvent, OtherCmd, OtherEvent,
                                Joined, Goodbye

(* Steps that neither join nor leave an access point, nor take an event     *)
(* about one.                                                               *)
LEMMA ConnectQuiet ==
  ASSUME TypeInv, ConnectInv, UNCHANGED <<bss, overlap>>, connected' \in {connected, None},
         rpu'.bss = rpu.bss, Same(cmdq, cmdq', AssocCmd), Same(evtq, evtq', AssocEvent),
         Some(evtq, Goodbye(connected)) => \/ Some(evtq', Goodbye(connected))
                                           \/ connected' = None
  PROVE ConnectInv'
<1> SUFFICES ASSUME ~overlap' PROVE ConnectInv'
  BY DEF ConnectInv
<1>0. TypeOK /\ cmdq \in Seq(Commands) /\ evtq \in Seq(Events) /\ ~overlap
  BY Typed DEF TypeInv
<1>1. /\ Some(cmdq', AssocCmd) <=> Some(cmdq, AssocCmd)
      /\ Some(evtq', AssocEvent) <=> Some(evtq, AssocEvent)
      /\ Once(cmdq', AssocCmd) /\ Once(evtq', AssocEvent)
  BY <1>0, SameSome, SameOnce DEF ConnectInv
<1>2. ~Some(cmdq', OtherCmd(bss')) /\ ~Some(evtq', OtherEvent(bss'))
  <2>1. Same(cmdq, cmdq', OtherCmd(bss)) /\ Same(evtq, evtq', OtherEvent(bss))
    BY Kinds, SameSmaller
  <2> QED BY <1>0, <2>1, SameSome DEF ConnectInv
<1>3. ASSUME NEW b \in Bss PROVE rpu'.bss = b \/ Followed(evtq', Joined(b), Goodbye(b))
  <2>1. Same(evtq, evtq', Joined(b))
    BY Kinds, SameSmaller
  <2> QED BY <1>0, <2>1, SameFollowed DEF ConnectInv
<1>4. connected' # None => \/ Some(evtq', AssocEvent) \/ Some(evtq', Goodbye(connected'))
                           \/ rpu'.bss = connected'
  <2> SUFFICES ASSUME connected' # None
               PROVE \/ Some(evtq', AssocEvent) \/ Some(evtq', Goodbye(connected))
                     \/ rpu'.bss = connected
    OBVIOUS
  <2> QED BY <1>0, <1>1 DEF ConnectInv
<1>5. ConnectInv
  OBVIOUS
<1> QED BY <1>0, <1>1, <1>2, <1>3, <1>4, <1>5
        DEF ConnectInv, AssocCmd, AssocEvent, OtherCmd, OtherEvent, Joined, Goodbye

(* The RPU leaves its access point, and says so.                            *)
LEMMA ConnectLeaves ==
  ASSUME TypeInv, ConnectInv, UNCHANGED <<bss, overlap, connected>>,
         rpu.bss # None, rpu'.bss = None, Same(cmdq, cmdq', AssocCmd),
         NEW e \in Goodbye(rpu.bss), evtq' = Append(Left, e)
  PROVE ConnectInv'
<1> SUFFICES ASSUME ~overlap' PROVE ConnectInv'
  BY DEF ConnectInv
<1>0. /\ TypeOK /\ cmdq \in Seq(Commands) /\ evtq \in Seq(Events) /\ ~overlap
      /\ Left \in Seq(Events) /\ e \in Events
  BY Typed, LeaveTells DEF TypeInv, Goodbye
<1>1. e \notin AssocEvent /\ Gone \notin AssocEvent
  BY <1>0, LeaveTells DEF Goodbye, AssocEvent
<1>2. Same(evtq, evtq', AssocEvent)
  <2>1. Same(evtq, Append(Left, e), EvOf({"ASSOCIATE"}))
    BY <1>0, <1>1, LeftSame DEF AssocEvent
  <2> QED BY <2>1, Kinds
<1>3. /\ Some(cmdq', AssocCmd) <=> Some(cmdq, AssocCmd)
      /\ Some(evtq', AssocEvent) <=> Some(evtq, AssocEvent)
      /\ Once(cmdq', AssocCmd) /\ Once(evtq', AssocEvent)
  BY <1>0, <1>2, SameSome, SameOnce DEF ConnectInv
<1>4. ~Some(cmdq', OtherCmd(bss')) /\ ~Some(evtq', OtherEvent(bss'))
  <2>1. Same(cmdq, cmdq', OtherCmd(bss)) /\ Same(evtq, evtq', OtherEvent(bss))
    BY <1>2, Kinds, SameSmaller
  <2> QED BY <1>0, <2>1, SameSome DEF ConnectInv
<1>5. \A S : Some(Left, S) => Some(evtq', S)
  BY <1>0, SomeAppend
<1>6. ASSUME NEW b \in Bss PROVE Followed(evtq', Joined(b), Goodbye(b))
  <2>1. e \notin Joined(b)
    BY <1>1 DEF Joined
  <2>2. CASE rpu.bss = b
    BY <1>0, <2>1, <2>2, FollowedAppend
  <2>3. CASE rpu.bss # b
    <3>1. Gone \notin Joined(b)
      BY <1>1 DEF Joined
    <3>2. Same(evtq, Left, Joined(b))
      BY <1>0, <3>1, LeftStays
    <3>3. Followed(Left, Joined(b), Goodbye(b))
      BY <1>0, <2>3, <3>2, SameFollowed DEF ConnectInv
    <3> QED BY <1>0, <2>1, <3>3, FollowedAppend
  <2> QED BY <2>2, <2>3
<1>7. connected' # None => Some(evtq', AssocEvent) \/ Some(evtq', Goodbye(connected'))
  <2>1. CASE rpu.bss = connected
    <3>1. Some(evtq', Goodbye(connected))
      BY <1>0, <2>1, SomeAppend
    <3> QED BY <3>1
  <2>2. CASE rpu.bss # connected
    <3>1. Gone \notin Goodbye(connected)
      BY <1>0, LeaveTells DEF Goodbye
    <3>2. Same(evtq, Left, Goodbye(connected))
      BY <1>0, <3>1, LeftStays
    <3>3. Some(evtq, Goodbye(connected)) => Some(evtq', Goodbye(connected))
      BY <1>0, <1>5, <3>2, SameSome
    <3> QED BY <1>0, <1>3, <2>2, <3>3 DEF ConnectInv
  <2> QED BY <2>1, <2>2
<1>8. ConnectInv
  OBVIOUS
<1> QED BY <1>0, <1>3, <1>4, <1>6, <1>7, <1>8
        DEF ConnectInv, AssocCmd, AssocEvent, OtherCmd, OtherEvent, Joined, Goodbye

(* The RPU joins an access point or not, and answers.                       *)
LEMMA ConnectJoins ==
  ASSUME TypeInv, ConnectInv, RpuAssoc
  PROVE ConnectInv'
<1> SUFFICES ASSUME ~overlap' PROVE ConnectInv'
  BY DEF ConnectInv
<1>0. /\ TypeOK /\ cmdq \in Seq(Commands) /\ evtq \in Seq(Events) /\ Left \in Seq(Events)
  BY Typed, LeaveTells DEF TypeInv
<1>1. /\ ~overlap /\ UNCHANGED <<bss, connected>>
      /\ cmdq # <<>> /\ cmdq' = Tail(cmdq) /\ Command \in AssocCmd
  BY <1>0, RpuAssocDoes DEF RpuRest, Takes, cfgVars, mlmeVars, AssocCmd
<1>2. PICK e \in Events, n \in Events :
              /\ e.event = "ASSOCIATE" /\ e.bss = Command.bss
              /\ n.event = "NEW_STATION" /\ n.bss = Command.bss
              /\ \/ ~e.ok /\ rpu'.bss = None /\ evtq' = Append(Left, e)
                 \/ e.ok /\ rpu'.bss = Command.bss /\ evtq' = Append(Append(Left, e), n)
  BY <1>0, RpuAssocDoes
<1>3. /\ Some(cmdq, AssocCmd) /\ ~Some(cmdq', AssocCmd) /\ Once(cmdq', AssocCmd)
      /\ Command \notin OtherCmd(bss) /\ ~Some(cmdq', OtherCmd(bss))
  BY <1>0, <1>1, SomeTail, OnceTail DEF ConnectInv, Command
<1>4. ~Some(evtq, AssocEvent)
  BY <1>1, <1>3 DEF ConnectInv
<1>5. /\ e \in AssocEvent /\ e \notin OtherEvent(bss)
      /\ n \notin AssocEvent /\ Gone \notin AssocEvent
  BY <1>0, <1>1, <1>2, <1>3, LeaveTells DEF AssocEvent, OtherEvent, OtherCmd
<1>6. ~Some(Left, AssocEvent)
  BY <1>0, <1>4, <1>5, LeftStays, SameSome
<1>7. /\ Once(Left, AssocEvent) /\ ~Some(Left, OtherEvent(bss))
      /\ \A b \in Bss : Followed(Left, Joined(b), Goodbye(b)) /\ ~Some(Left, Joined(b))
  BY <1>6, Kinds DEF Once, Some, Followed
<1> DEFINE q == Append(Left, e)
<1>8. /\ q \in Seq(Events) /\ Once(q, AssocEvent) /\ Some(q, AssocEvent)
      /\ ~Some(q, OtherEvent(bss))
  BY <1>0, <1>2, <1>5, <1>6, <1>7, AppendFacts, OnceAppend, SomeAppend
<1>9. ASSUME NEW b \in Bss, rpu'.bss # b
      PROVE ~Some(q, Joined(b))
  <2>1. e \notin Joined(b)
    <3>1. e.ok => rpu'.bss = Command.bss
      BY <1>2
    <3> QED BY <1>2, <1>9, <3>1 DEF Joined
  <2> QED BY <1>0, <1>2, <1>7, <2>1, SomeAppend
<1>10. evtq' = q \/ evtq' = Append(q, n)
  BY <1>2
<1> HIDE DEF q
<1>11. n \notin OtherEvent(bss) /\ \A b : n \notin Joined(b)
  BY <1>5 DEF OtherEvent, Joined
<1>12. /\ Once(evtq', AssocEvent) /\ Some(evtq', AssocEvent)
       /\ ~Some(evtq', OtherEvent(bss))
  <2>1. CASE evtq' = q
    BY <1>8, <2>1
  <2>2. CASE evtq' = Append(q, n)
    <3>1. \A S : Some(Append(q, n), S) <=> Some(q, S) \/ n \in S
      BY <1>8, SomeAppend
    <3>2. Once(Append(q, n), AssocEvent)
      BY <1>5, <1>8, OnceAppend
    <3> QED BY <1>8, <1>11, <2>2, <3>1, <3>2
  <2> QED BY <1>10, <2>1, <2>2
<1>13. ASSUME NEW b \in Bss, rpu'.bss # b PROVE Followed(evtq', Joined(b), Goodbye(b))
  <2>1. ~Some(evtq', Joined(b))
    <3>1. \A S : Some(Append(q, n), S) <=> Some(q, S) \/ n \in S
      BY <1>8, SomeAppend
    <3>2. ~Some(q, Joined(b))
      BY <1>9, <1>13
    <3> QED BY <1>10, <1>11, <3>1, <3>2
  <2> QED BY <2>1 DEF Some, Followed
<1> QED BY <1>1, <1>3, <1>12, <1>13
        DEF ConnectInv, AssocCmd, AssocEvent, OtherCmd, OtherEvent, Joined, Goodbye

(* cfg80211 is told the answer to an assoc.                                 *)
LEMMA ConnectAnswered ==
  ASSUME TypeInv, ConnectInv, AssocRespCallback
  PROVE ConnectInv'
<1> SUFFICES ASSUME ~overlap' PROVE ConnectInv'
  BY DEF ConnectInv
<1>0. /\ TypeOK /\ cmdq \in Seq(Commands) /\ evtq \in Seq(Events) /\ bss \in AnyBss
  BY Typed DEF TypeInv
<1>1. /\ ~overlap /\ UNCHANGED <<bss, cmdq, rpu>>
      /\ connected' = IF Event.ok THEN bss ELSE None
      /\ evtq # <<>> /\ evtq' = Tail(evtq) /\ Event \in AssocEvent
  BY <1>0, HeadsTyped DEF AssocRespCallback, Dispatch, mlmeVars, history, AssocEvent
<1>2. /\ Once(evtq', AssocEvent) /\ ~Some(evtq', AssocEvent)
      /\ Event \notin OtherEvent(bss) /\ ~Some(evtq', OtherEvent(bss))
  BY <1>0, <1>1, SomeTail, OnceTail DEF ConnectInv, Event
<1>3. \A b \in Bss : \/ rpu.bss = b
                     \/ /\ Followed(evtq', Joined(b), Goodbye(b))
                        /\ Event \in Joined(b) => Some(evtq', Goodbye(b))
  BY <1>0, <1>1, FollowedTail DEF ConnectInv, Event
<1>4. connected' # None => Some(evtq', Goodbye(connected')) \/ rpu'.bss = connected'
  <2> SUFFICES ASSUME Event.ok, bss # None
               PROVE Some(evtq', Goodbye(bss)) \/ rpu'.bss = bss
    BY <1>1
  <2>1. Event \in Joined(bss) /\ bss \in Bss
    BY <1>0, <1>1, <1>2 DEF OtherEvent, Joined, AnyBss
  <2> QED BY <1>1, <1>3, <2>1
<1>5. Once(cmdq', AssocCmd) /\ ~Some(cmdq', OtherCmd(bss'))
  BY <1>1 DEF ConnectInv
<1>6. \A b \in Bss : rpu'.bss = b \/ Followed(evtq', Joined(b), Goodbye(b))
  BY <1>1, <1>3
<1> QED BY <1>1, <1>2, <1>4, <1>5, <1>6
        DEF ConnectInv, AssocCmd, AssocEvent, OtherCmd, OtherEvent, Joined, Goodbye

LEMMA ConnectStep == TypeInv /\ ConnectInv /\ [Next]_vars => ConnectInv'
<1> SUFFICES ASSUME TypeInv, ConnectInv, [Next]_vars, ~overlap' PROVE ConnectInv'
  BY DEF ConnectInv
<1>0. /\ TypeOK /\ cmdq \in Seq(Commands) /\ evtq \in Seq(Events)
  BY Typed DEF TypeInv
<1>a. ASSUME ~(\E b \in Bss : Assoc(b)), ~RpuAssoc PROVE Same(cmdq, cmdq', AssocCmd)
  BY <1>a, CommandsSame, Kinds
<1>1. CASE \E b \in Bss : Assoc(b)
  BY <1>1, ConnectCalls
<1>2. CASE RpuDeauth /\ rpu.bss # None /\ rpu'.bss = None
  <2>1. PICK e \in Events :
              /\ e.event = "DEAUTHENTICATE" /\ e.bss = Command.bss
              /\ rpu.bss = Command.bss /\ evtq' = Append(Left, e)
    BY <1>0, <1>2, RpuDeauthDoes
  <2>2. e \in Goodbye(rpu.bss) /\ UNCHANGED <<bss, overlap, connected>>
    BY <1>0, <1>2, <2>1, RpuDeauthDoes DEF Goodbye, RpuRest, mlmeVars, cfgVars
  <2>3. ~(\E b \in Bss : Assoc(b)) /\ ~RpuAssoc
    BY <1>0, <1>2, AssocSends, RpuAssocDoes, RpuDeauthDoes DEF Takes
  <2> QED BY <1>2, <1>a, <2>1, <2>2, <2>3, ConnectLeaves
<1>3. CASE RpuLoses
  <2>1. PICK e \in Events : /\ e.event \in {"DEAUTHENTICATE", "DISASSOCIATE"}
                            /\ e.bss = rpu.bss /\ evtq' = Append(Left, e)
    BY <1>0, <1>3, RpuLosesDoes
  <2>2. /\ e \in Goodbye(rpu.bss) /\ UNCHANGED <<bss, overlap, connected, cmdq>>
        /\ rpu.bss # None /\ rpu'.bss = None
    BY <1>0, <1>3, <2>1, RpuLosesDoes DEF Goodbye, RpuRest, mlmeVars, cfgVars
  <2>3. Same(cmdq, cmdq', AssocCmd)
    BY <2>2 DEF Same
  <2> QED BY <2>1, <2>2, <2>3, ConnectLeaves
<1>4. CASE RpuAssoc
  BY <1>4, ConnectJoins
<1>5. CASE AssocRespCallback
  BY <1>5, ConnectAnswered
<1>6. CASE DeauthCallback
  <2>1. /\ evtq # <<>> /\ evtq' = Tail(evtq) /\ UNCHANGED <<bss, overlap, cmdq, rpu>>
        /\ connected' = IF connected = Event.bss THEN None ELSE connected
        /\ Event \in Events /\ Event.event \in {"DEAUTHENTICATE", "DISASSOCIATE"}
    BY <1>0, <1>6, HeadsTyped DEF DeauthCallback, Dispatch, mlmeVars, history
  <2>2. Event \notin AssocEvent /\ (connected' # None => Event \notin Goodbye(connected))
    BY <2>1 DEF AssocEvent, Goodbye
  <2>3. Same(evtq, evtq', AssocEvent) /\ Same(cmdq, cmdq', AssocCmd)
    BY <2>1, <2>2 DEF Same, Event
  <2>4. Some(evtq, Goodbye(connected)) => \/ Some(evtq', Goodbye(connected))
                                          \/ connected' = None
    BY <1>0, <2>1, <2>2, SomeTail DEF Event
  <2> QED BY <2>1, <2>3, <2>4, ConnectQuiet
<1>7. CASE RpuDeauth /\ ~(rpu.bss # None /\ rpu'.bss = None)
  <2>1. PICK e \in Events :
              /\ e.event = "DEAUTHENTICATE"
              /\ \/ rpu.bss = None /\ rpu'.bss = None /\ evtq' = Append(Left, e)
                 \/ rpu' = rpu /\ evtq' = Append(evtq, e)
    BY <1>0, <1>7, RpuDeauthDoes
  <2>2. evtq' = Append(evtq, e) /\ rpu'.bss = rpu.bss
    BY <2>1 DEF Left
  <2>3. UNCHANGED <<bss, overlap, connected>> /\ e \notin AssocEvent
    BY <1>0, <1>7, <2>1, RpuDeauthDoes DEF AssocEvent, RpuRest, mlmeVars, cfgVars
  <2>4. Same(evtq, evtq', AssocEvent)
    BY <1>0, <2>2, <2>3, SameAppend
  <2>5. Some(evtq, Goodbye(connected)) => Some(evtq', Goodbye(connected))
    BY <1>0, <2>2, SomeAppend
  <2>6. ~(\E b \in Bss : Assoc(b)) /\ ~RpuAssoc
    BY <1>0, <1>7, AssocSends, RpuAssocDoes, RpuDeauthDoes DEF Takes
  <2> QED BY <1>a, <2>2, <2>3, <2>4, <2>5, <2>6, ConnectQuiet
<1>8. CASE /\ ~(\E b \in Bss : Assoc(b)) /\ ~RpuDeauth /\ ~RpuLoses /\ ~RpuAssoc
           /\ ~AssocRespCallback /\ ~DeauthCallback
  <2>1. EventTasklet => Event.event \notin {"ASSOCIATE", "DEAUTHENTICATE", "DISASSOCIATE"}
    BY <1>8
    DEF EventTasklet, ScanStartCallback, ScanDoneCallback, ScanAbortCallback,
        ScanResCallback, NewStation, DelStation, CookieRspCallback, TxStatusCallback, Dispatch
  <2>2. Same(evtq, evtq', EvOf({"ASSOCIATE", "DEAUTHENTICATE", "DISASSOCIATE"}))
    BY <1>8, <2>1, EventsSame
  <2>3. Same(evtq, evtq', AssocEvent) /\ Same(evtq, evtq', Goodbye(connected))
    <3>1. /\ AssocEvent \subseteq EvOf({"ASSOCIATE", "DEAUTHENTICATE", "DISASSOCIATE"})
          /\ Goodbye(connected) \subseteq EvOf({"ASSOCIATE", "DEAUTHENTICATE", "DISASSOCIATE"})
      BY DEF AssocEvent, Goodbye, EvOf
    <3> QED BY <2>2, <3>1, SameSmaller
  <2>4. Some(evtq, Goodbye(connected)) => Some(evtq', Goodbye(connected))
    BY <1>0, <2>3, SameSome
  <2>5. rpu'.bss = rpu.bss /\ Same(cmdq, cmdq', AssocCmd)
    BY <1>8, <1>a, RpuStays
  <2>6. CASE Disassoc
    <3>1. CASE overlap' = (overlap \/ AssocPending)
      BY <2>6, <3>1, ConnectCalls
    <3>2. CASE UNCHANGED <<connected, bss, overlap>>
      BY <2>3, <2>4, <2>5, <3>2, ConnectQuiet
    <3> QED BY <2>6, <3>1, <3>2 DEF Disassoc
  <2>7. CASE ~Disassoc
    <3>1. UNCHANGED <<bss, overlap>> /\ connected' \in {connected, None}
      BY <1>8, <2>7, ConnectedStays
    <3> QED BY <2>3, <2>4, <2>5, <3>1, ConnectQuiet
  <2> QED BY <2>6, <2>7
<1> QED BY <1>1, <1>2, <1>3, <1>4, <1>5, <1>6, <1>7, <1>8

LEMMA StationAlways == Spec => [](TypeInv /\ NoneInv /\ PeerInv /\ ConnectInv /\ AddressInv)
<1>1. Init => TypeInv /\ NoneInv /\ PeerInv /\ ConnectInv /\ AddressInv
  BY TypeInit, StationInit
<1>2. TypeInv /\ NoneInv /\ PeerInv /\ ConnectInv /\ AddressInv /\ [Next]_vars =>
         (TypeInv /\ NoneInv /\ PeerInv /\ ConnectInv /\ AddressInv)'
  BY TypeStep, NoneStep, PeerStep, ConnectStep, AddressStep
<1> QED BY <1>1, <1>2, PTL DEF Spec

(* When all commands and events have been dealt with and cfg80211 holds     *)
(* the station for connected, the RPU is with that access point, the peer   *)
(* table has it and nothing else, and frames are addressed to it.           *)
THEOREM ConnectionIsTrue == Spec => []ConnectedIsTrue
<1>1. TypeInv /\ NoneInv /\ PeerInv /\ ConnectInv /\ AddressInv => ConnectedIsTrue
  <2> SUFFICES ASSUME TypeInv, NoneInv, PeerInv, ConnectInv, AddressInv,
                      cmdq = <<>>, evtq = <<>>, ~overlap, connected # None
               PROVE /\ rpu.bss = connected /\ peers = {connected}
                     /\ ~badAssoc => bssid = connected
    BY DEF ConnectedIsTrue
  <2>1. \A S : ~Some(cmdq, S) /\ ~Some(evtq, S)
    BY SomeEmpty
  <2>2. rpu.bss = connected /\ connected \in Bss
    BY <2>1, Typed DEF ConnectInv, TypeInv, AnyBss
  <2>3. \A b \in Bss : b \in peers <=> rpu.bss = b
    BY <2>1 DEF PeerInv, PeerOf
  <2>4. peers \subseteq Bss
    BY DEF TypeInv, TypeOK, NoneInv
  <2>5. peers = {connected}
    BY <2>2, <2>3, <2>4
  <2> QED BY <2>1, <2>2, <2>5 DEF AddressInv
<1> QED BY <1>1, StationAlways, PTL
=============================================================================
