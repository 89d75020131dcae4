--------------------------- MODULE SettingsProofs ---------------------------
(***************************************************************************)
(* Proofs about Settings and RadioTest as MCSettings puts them together:   *)
(* whose answers the queries and the radio commands get, and that the      *)
(* debug file shows what the RPU was told, for any number of calls and of  *)
(* failures.  The file is written by one process, and the statistics are   *)
(* read by one, at a time: the code has no lock that would order two.      *)
(*                                                                         *)
(* Both builds send numbered commands through a queue to the RPU and get   *)
(* their answers through a queue of events; the lemmas about the two       *)
(* queues are shared.                                                      *)
(***************************************************************************)
EXTENDS MCSettings, SequenceTheorems, TLAPS

OneReader == \E r : Reader = {r}
OneWriter == \E w : Writer = {w}

-----------------------------------------------------------------------------
(* Queues whose entries have an id                                           *)

Held(q) == {q[i] : i \in DOMAIN q}
Sorted(q) == \A i, j \in DOMAIN q : i < j => q[i].id < q[j].id

(* Commands q and, ahead of them, events e. *)
Line(q, e) == /\ Sorted(q) /\ Sorted(e)
              /\ \A x \in Held(e), y \in Held(q) : x.id < y.id

(* What Tail leaves. *)
LEMMA HeldTail ==
  ASSUME NEW S, NEW q \in Seq(S), q # <<>>
  PROVE  /\ Head(q) \in Held(q)
         /\ Held(Tail(q)) \subseteq Held(q)
         /\ Sorted(q) => /\ Sorted(Tail(q))
                         /\ \A x \in Held(Tail(q)) : Head(q).id < x.id
<1>1. /\ Tail(q) \in Seq(S) /\ Len(Tail(q)) = Len(q) - 1
      /\ \A i \in 1..Len(Tail(q)) : Tail(q)[i] = q[i + 1]
  BY HeadTailProperties
<1>2. DOMAIN q = 1..Len(q) /\ Len(q) \in Nat \ {0} /\ Head(q) = q[1]
  OBVIOUS
<1>3. DOMAIN Tail(q) = 1..Len(Tail(q))
  BY <1>1
<1>4. Head(q) \in Held(q)
  BY <1>2 DEF Held
<1>5. \A i \in DOMAIN Tail(q) : i + 1 \in DOMAIN q /\ 1 \in DOMAIN q /\ 1 < i + 1
  BY <1>1, <1>2, <1>3
<1>6. \A i \in DOMAIN Tail(q) : Tail(q)[i] = q[i + 1]
  BY <1>1, <1>3
<1>7. Held(Tail(q)) \subseteq Held(q)
  BY <1>5, <1>6 DEF Held
<1>8. ASSUME Sorted(q)
      PROVE  Sorted(Tail(q)) /\ \A x \in Held(Tail(q)) : Head(q).id < x.id
  <2>1. ASSUME NEW i \in DOMAIN Tail(q), NEW j \in DOMAIN Tail(q), i < j
        PROVE  Tail(q)[i].id < Tail(q)[j].id
    <3>1. i + 1 < j + 1
      BY <2>1, <1>1, <1>2, <1>3
    <3> QED BY <3>1, <1>5, <1>6, <1>8 DEF Sorted
  <2>2. ASSUME NEW i \in DOMAIN Tail(q) PROVE Head(q).id < Tail(q)[i].id
    BY <1>2, <1>5, <1>6, <1>8 DEF Sorted
  <2> QED BY <2>1, <2>2 DEF Sorted, Held
<1> QED BY <1>4, <1>7, <1>8

(* What Append adds. *)
LEMMA HeldAppend ==
  ASSUME NEW S, NEW q \in Seq(S), NEW x \in S
  PROVE  /\ Held(Append(q, x)) = Held(q) \cup {x}
         /\ Sorted(q) /\ (\A y \in Held(q) : y.id < x.id) => Sorted(Append(q, x))
<1> DEFINE r == Append(q, x)
<1>1. /\ r \in Seq(S) /\ Len(r) = Len(q) + 1
      /\ \A i \in 1..Len(q) : r[i] = q[i]
      /\ r[Len(q) + 1] = x
  BY AppendProperties
<1>2. DOMAIN q = 1..Len(q) /\ Len(q) \in Nat /\ DOMAIN r = 1..(Len(q) + 1)
  BY <1>1
<1> HIDE DEF r
<1>3. /\ \A i \in DOMAIN r : i \in DOMAIN q \/ i = Len(q) + 1
      /\ \A i \in DOMAIN q : i \in DOMAIN r /\ i < Len(q) + 1
      /\ Len(q) + 1 \in DOMAIN r
  BY <1>2
<1>4. /\ \A i \in DOMAIN q : r[i] = q[i]
      /\ r[Len(q) + 1] = x
  BY <1>1, <1>2
<1>5. Held(r) = Held(q) \cup {x}
  BY <1>3, <1>4 DEF Held
<1>6. ASSUME Sorted(q), \A y \in Held(q) : y.id < x.id PROVE Sorted(r)
  <2> SUFFICES ASSUME NEW i \in DOMAIN r, NEW j \in DOMAIN r, i < j
               PROVE  r[i].id < r[j].id
    BY DEF Sorted
  <2>1. i \in DOMAIN q
    BY <1>2
  <2>2. CASE j \in DOMAIN q
    BY <2>1, <2>2, <1>4, <1>6 DEF Sorted
  <2>3. CASE j = Len(q) + 1
    BY <2>1, <2>3, <1>4, <1>6 DEF Held
  <2> QED BY <2>2, <2>3, <1>3
<1> QED BY <1>5, <1>6 DEF r

(* A later command joins. *)
LEMMA LineGrows ==
  ASSUME NEW S, NEW q \in Seq(S), NEW e, NEW x \in S, Line(q, e),
         \A y \in Held(q) \cup Held(e) : y.id < x.id
  PROVE  Line(Append(q, x), e) /\ Held(Append(q, x)) = Held(q) \cup {x}
BY HeldAppend DEF Line

(* The first command is taken; an event with its id may be its answer. *)
LEMMA LineMoves ==
  ASSUME NEW S, NEW q \in Seq(S), q # <<>>, NEW E, NEW e \in Seq(E), NEW x \in E,
         x.id = Head(q).id, Line(q, e)
  PROVE  /\ Line(Tail(q), Append(e, x)) /\ Held(Append(e, x)) = Held(e) \cup {x}
         /\ Line(Tail(q), e)
         /\ \A y \in Held(Tail(q)) : Head(q).id < y.id
         /\ \A y \in Held(e) : y.id < Head(q).id
<1>1. /\ Head(q) \in Held(q)
      /\ Held(Tail(q)) \subseteq Held(q)
      /\ Sorted(Tail(q)) /\ \A y \in Held(Tail(q)) : Head(q).id < y.id
  BY HeldTail DEF Line
<1>2. \A y \in Held(e) : y.id < Head(q).id
  BY <1>1 DEF Line
<1>3. Held(Append(e, x)) = Held(e) \cup {x} /\ Sorted(Append(e, x))
  BY <1>2, HeldAppend DEF Line
<1> QED BY <1>1, <1>2, <1>3 DEF Line

(* The first event is taken. *)
LEMMA LineShrinks ==
  ASSUME NEW q, NEW E, NEW e \in Seq(E), e # <<>>, Line(q, e)
  PROVE  /\ Line(q, Tail(e)) /\ Held(Tail(e)) \subseteq Held(e)
         /\ Head(e) \in Held(e)
         /\ \A y \in Held(q) \cup Held(Tail(e)) : Head(e).id < y.id
<1>1. /\ Head(e) \in Held(e)
      /\ Held(Tail(e)) \subseteq Held(e)
      /\ Sorted(Tail(e)) /\ \A y \in Held(Tail(e)) : Head(e).id < y.id
  BY HeldTail DEF Line
<1> QED BY <1>1 DEF Line

-----------------------------------------------------------------------------
(* The queries: get_station and the statistics                               *)

Query == [kind : {"station", "stats"}, id : Nat]

AnswerTypes ==
  /\ asked \in Nat /\ rpuq \in Seq(Query) /\ evtq \in Seq(Query)
  /\ station \in [pc : {"idle", "wait"}, id : Nat] /\ station_info \in Nat
  /\ returned \in Seq([call : Nat, answer : Nat])
  /\ stats_req \in BOOLEAN /\ (stats_req => fw_stats \in Reader)
  /\ reader \in [Reader -> [pc : {"idle", "send", "wait"}, id : Nat, got : Nat]]

UnderWay == Held(rpuq) \cup Held(evtq)
About(kind) == {x \in UnderWay : x.kind = kind}

LineInv == /\ Line(rpuq, evtq)
           /\ \A x \in UnderWay : x \in Query /\ 0 < x.id /\ x.id <= asked

(* Answers come in the order of the calls, after the one that is stored,    *)
(* which comes after the ones that were returned.                           *)
StationInv ==
  /\ station_info <= station.id /\ station.id <= asked
  /\ \A x \in About("station") : x.id <= station.id /\ station_info < x.id
  /\ \A n \in DOMAIN returned :
       /\ returned[n].answer <= returned[n].call
       /\ returned[n].answer <= station.id
       /\ station_info # 0 => returned[n].answer < station_info
       /\ \A x \in About("station") : returned[n].answer < x.id
  /\ \A m, n \in DOMAIN returned : m < n => returned[m].answer < returned[n].answer

(* A request that is open has one query under way at most, and the reader   *)
(* who waits for it made it.                                                *)
StatsInv ==
  /\ ~stats_req => About("stats") = {}
  /\ \A x, y \in About("stats") : x.id = y.id
  /\ \A r \in Reader : reader[r].pc = "send" => ~stats_req
  /\ \A r \in Reader : reader[r].pc = "wait" /\ stats_req =>
                         \A x \in About("stats") : x.id = reader[r].id
  /\ \A r \in Reader : reader[r].pc = "wait" /\ ~stats_req => reader[r].got = reader[r].id
  /\ StatsOfThisCall

AnswerInv == AnswerTypes /\ LineInv /\ StationInv /\ StatsInv

(* The queues are empty at the start. *)
LEMMA EmptyLine == Line(<<>>, <<>>) /\ Held(<<>>) = {}
BY DEF Line, Sorted, Held

LEMMA AnswerInit == ASSUME Init PROVE AnswerInv
<1> USE DEF Init, SettingsInit
<1>1. AnswerTypes
  <2>1. reader \in [Reader -> [pc : {"idle", "send", "wait"}, id : Nat, got : Nat]]
    OBVIOUS
  <2>2. station \in [pc : {"idle", "wait"}, id : Nat]
    OBVIOUS
  <2>3. rpuq \in Seq(Query) /\ evtq \in Seq(Query)
        /\ returned \in Seq([call : Nat, answer : Nat])
    OBVIOUS
  <2>4. asked \in Nat /\ station_info \in Nat /\ stats_req = FALSE
    OBVIOUS
  <2> QED BY <2>1, <2>2, <2>3, <2>4 DEF AnswerTypes
<1>2. UnderWay = {} /\ \A kind : About(kind) = {}
  BY EmptyLine DEF UnderWay, About
<1>3. LineInv
  BY <1>2, EmptyLine DEF LineInv
<1>4. DOMAIN returned = {}
  OBVIOUS
<1>5. StationInv
  BY <1>2, <1>4 DEF StationInv
<1>6. StatsInv
  BY <1>2 DEF StatsInv, StatsOfThisCall
<1> QED BY <1>1, <1>3, <1>5, <1>6 DEF AnswerInv

(* A step that leaves all this alone. *)
LEMMA AnswerUnmoved == ASSUME AnswerInv, UNCHANGED Unmoved PROVE AnswerInv'
BY DEF AnswerInv, AnswerTypes, LineInv, StationInv, StatsInv, StatsOfThisCall, UnderWay,
       About, Unmoved

(* A query is made. *)
LEMMA AskKeeps ==
  ASSUME AnswerTypes, LineInv, NEW kind \in {"station", "stats"}, Ask(kind), UNCHANGED evtq
  PROVE  /\ rpuq' \in Seq(Query) /\ LineInv'
         /\ UnderWay' = UnderWay \cup {[kind |-> kind, id |-> asked + 1]}
<1> DEFINE x == [kind |-> kind, id |-> asked + 1]
<1>1. x \in Query /\ x.id = asked + 1
  BY DEF AnswerTypes, Query
<1>2. rpuq' = Append(rpuq, x) /\ asked' = asked + 1 /\ asked \in Nat
  BY DEF Ask, AnswerTypes
<1>3. \A y \in UnderWay : y \in Query /\ 0 < y.id /\ y.id <= asked /\ y.id \in Nat
  BY DEF LineInv, Query
<1>4. \A y \in UnderWay : y.id < x.id /\ y.id <= asked + 1
  BY <1>1, <1>2, <1>3
<1>5. rpuq \in Seq(Query) /\ Line(rpuq, evtq)
  BY DEF AnswerTypes, LineInv
<1>6. rpuq' \in Seq(Query)
  BY <1>1, <1>2, <1>5, AppendProperties
<1> HIDE DEF x
<1>7. Line(rpuq', evtq) /\ Held(rpuq') = Held(rpuq) \cup {x}
  BY <1>1, <1>2, <1>4, <1>5, LineGrows DEF UnderWay
<1>8. UnderWay' = UnderWay \cup {x}
  BY <1>7 DEF UnderWay
<1>9. 0 < x.id /\ x.id <= asked'
  BY <1>1, <1>2
<1>10. LineInv'
  BY <1>1, <1>2, <1>3, <1>4, <1>7, <1>8, <1>9 DEF LineInv
<1> QED BY <1>6, <1>8, <1>10 DEF x

(* An event is taken. *)
LEMMA TakeKeeps ==
  ASSUME AnswerTypes, LineInv, evtq # <<>>, evtq' = Tail(evtq), UNCHANGED <<rpuq, asked>>
  PROVE  /\ evtq' \in Seq(Query) /\ LineInv'
         /\ UnderWay' \subseteq UnderWay /\ Head(evtq) \in UnderWay
         /\ \A x \in UnderWay' : Head(evtq).id < x.id
<1>1. evtq \in Seq(Query) /\ Line(rpuq, evtq)
  BY DEF AnswerTypes, LineInv
<1>2. evtq' \in Seq(Query)
  BY <1>1, HeadTailProperties
<1>3. /\ Line(rpuq, Tail(evtq)) /\ Held(Tail(evtq)) \subseteq Held(evtq)
      /\ Head(evtq) \in Held(evtq)
      /\ \A y \in Held(rpuq) \cup Held(Tail(evtq)) : Head(evtq).id < y.id
  BY <1>1, LineShrinks
<1> QED BY <1>2, <1>3 DEF LineInv, UnderWay

(* A smaller set of queries needs no more. *)
LEMMA FewerWay ==
  ASSUME UnderWay' \subseteq UnderWay
  PROVE  \A kind : About(kind)' \subseteq About(kind)
BY DEF About

(* The reader and the statistics are left alone, and no query for them is   *)
(* made.                                                                    *)
LEMMA StatsUnmoved ==
  ASSUME StatsInv, About("stats")' \subseteq About("stats"),
         UNCHANGED <<stats_req, reader, statsOk>>
  PROVE  StatsInv'
BY DEF StatsInv, StatsOfThisCall

(* get_station and its answers are left alone, and no such query is made.   *)
LEMMA StationUnmoved ==
  ASSUME AnswerTypes, StationInv, asked' \in Nat, asked <= asked',
         About("station")' \subseteq About("station"),
         UNCHANGED <<station, station_info, returned>>
  PROVE  StationInv'
<1>1. station.id \in Nat
  BY DEF AnswerTypes
<1>2. station.id <= asked'
  BY <1>1 DEF StationInv, AnswerTypes
<1> QED BY <1>2 DEF StationInv

(* get_station asks. *)
LEMMA GetStationKeeps == ASSUME AnswerInv, GetStation PROVE AnswerInv'
<1> USE DEF AnswerInv
<1>1. /\ station' = [pc |-> "wait", id |-> asked + 1] /\ asked' = asked + 1
      /\ UNCHANGED <<station_info, returned, stats_req, fw_stats, reader, statsOk, evtq>>
      /\ Ask("station") \/ UNCHANGED rpuq
  BY DEF GetStation, Ask
<1>2. /\ rpuq' \in Seq(Query) /\ LineInv'
      /\ \A x \in UnderWay' : x \in UnderWay \/ x = [kind |-> "station", id |-> asked + 1]
  <2>1. CASE Ask("station")
    BY <1>1, <2>1, AskKeeps
  <2>2. CASE UNCHANGED rpuq
    <3>1. UnderWay' = UnderWay
      BY <1>1, <2>2 DEF UnderWay
    <3>2. \A x \in UnderWay : x.id \in Nat
      BY DEF LineInv, Query
    <3>3. \A x \in UnderWay : x.id <= asked'
      BY <1>1, <3>2 DEF LineInv, AnswerTypes
    <3> QED BY <1>1, <2>2, <3>1, <3>3 DEF LineInv, AnswerTypes
  <2> QED BY <1>1, <2>1, <2>2
<1>3. AnswerTypes'
  <2>1. asked' \in Nat /\ station' \in [pc : {"idle", "wait"}, id : Nat]
    BY <1>1 DEF AnswerTypes
  <2> QED BY <1>1, <1>2, <2>1 DEF AnswerTypes
<1>4. StatsInv'
  <2>1. About("stats")' \subseteq About("stats")
    BY <1>2 DEF About
  <2> QED BY <1>1, <2>1, StatsUnmoved
<1>5. StationInv'
  <2>1. /\ asked \in Nat /\ station_info \in Nat /\ station.id \in Nat
        /\ station_info <= station.id /\ station.id <= asked
        /\ \A n \in DOMAIN returned : returned[n].answer \in Nat /\ returned[n].answer <= station.id
    <3>1. returned \in Seq([call : Nat, answer : Nat])
      BY DEF AnswerTypes
    <3>2. \A n \in DOMAIN returned : returned[n] \in [call : Nat, answer : Nat]
      BY <3>1, ElementOfSeq, LenProperties
    <3>3. \A n \in DOMAIN returned : returned[n].answer \in Nat
      BY <3>2
    <3> QED BY <3>3 DEF AnswerTypes, StationInv
  <2>2. /\ station'.id = asked + 1 /\ station_info' <= station'.id /\ station'.id <= asked'
        /\ station_info' < asked + 1
        /\ \A n \in DOMAIN returned : returned[n].answer <= asked + 1 /\ returned[n].answer < asked + 1
    BY <1>1, <2>1
  <2>3. \A x \in About("station")' :
          x \in About("station") \/ (x.kind = "station" /\ x.id = asked + 1)
    BY <1>2 DEF About
  <2>4. \A x \in About("station") : x.id \in Nat /\ x.id <= asked + 1
    BY <2>1 DEF About, LineInv, Query
  <2>5. \A x \in About("station")' :
          /\ x.id <= station'.id /\ station_info' < x.id
          /\ \A n \in DOMAIN returned : returned[n].answer < x.id
    BY <1>1, <2>1, <2>2, <2>3, <2>4 DEF StationInv
  <2> QED BY <1>1, <2>2, <2>5 DEF StationInv
<1> QED BY <1>2, <1>3, <1>4, <1>5

(* get_station returns what is stored. *)
LEMMA GetStationReturnsKeeps == ASSUME AnswerInv, GetStationReturns PROVE AnswerInv'
<1> USE DEF AnswerInv
<1> DEFINE x == [call |-> station.id, answer |-> station_info]
<1>1. /\ station' = [station EXCEPT !.pc = "idle"] /\ station_info # 0
      /\ returned' = Append(returned, x) /\ station_info' = 0
      /\ UNCHANGED <<asked, stats_req, fw_stats, reader, statsOk, rpuq, evtq>>
  BY DEF GetStationReturns
<1>2. /\ returned \in Seq([call : Nat, answer : Nat])
      /\ x \in [call : Nat, answer : Nat] /\ x.answer = station_info /\ x.call = station.id
      /\ station_info \in Nat /\ station.id \in Nat
  BY DEF AnswerTypes
<1> HIDE DEF x
<1>3. /\ returned' \in Seq([call : Nat, answer : Nat])
      /\ Len(returned') = Len(returned) + 1
      /\ \A n \in 1..Len(returned) : returned'[n] = returned[n]
      /\ returned'[Len(returned) + 1] = x
  BY <1>1, <1>2, AppendProperties
<1>4. /\ DOMAIN returned = 1..Len(returned) /\ Len(returned) \in Nat
      /\ DOMAIN returned' = 1..(Len(returned) + 1)
  BY <1>2, <1>3
<1>5. UnderWay' = UnderWay /\ \A kind : About(kind)' = About(kind)
  BY <1>1 DEF UnderWay, About
<1>6. station' \in [pc : {"idle", "wait"}, id : Nat] /\ station'.id = station.id
  BY <1>1 DEF AnswerTypes
<1>7. AnswerTypes'
  BY <1>1, <1>3, <1>6 DEF AnswerTypes
<1>8. LineInv'
  BY <1>1, <1>5 DEF LineInv
<1>9. StatsInv'
  BY <1>1, <1>5, StatsUnmoved
<1>10. \A n \in DOMAIN returned' : n \in DOMAIN returned \/ n = Len(returned) + 1
  BY <1>4
<1>11. \A n \in DOMAIN returned' :
         \/ n \in DOMAIN returned /\ returned'[n] = returned[n]
         \/ n = Len(returned) + 1 /\ returned'[n] = x
  BY <1>3, <1>4, <1>10
<1>12. \A n \in DOMAIN returned' :
         /\ returned'[n].answer <= returned'[n].call
         /\ returned'[n].answer <= station.id
         /\ \A y \in About("station") : returned'[n].answer < y.id
  BY <1>1, <1>2, <1>11 DEF StationInv
<1>13. ASSUME NEW m \in DOMAIN returned', NEW n \in DOMAIN returned', m < n
       PROVE  returned'[m].answer < returned'[n].answer
  <2>1. m \in DOMAIN returned
    BY <1>4, <1>13
  <2>2. returned'[m] = returned[m]
    BY <1>3, <1>4, <2>1
  <2>3. CASE n \in DOMAIN returned /\ returned'[n] = returned[n]
    BY <1>13, <2>1, <2>2, <2>3 DEF StationInv
  <2>4. CASE returned'[n] = x
    BY <1>1, <1>2, <2>1, <2>2, <2>4 DEF StationInv
  <2> QED BY <1>11, <2>3, <2>4
<1>14. /\ 0 <= station.id /\ station.id <= asked
       /\ \A y \in About("station") : y.id <= station.id /\ 0 < y.id
  BY <1>2 DEF StationInv, LineInv, About
<1>15. StationInv'
  BY <1>1, <1>5, <1>6, <1>12, <1>13, <1>14 DEF StationInv
<1> QED BY <1>7, <1>8, <1>9, <1>15

(* get_station gives up. *)
LEMMA GetStationTimeoutKeeps == ASSUME AnswerInv, GetStationTimeout PROVE AnswerInv'
<1> USE DEF AnswerInv
<1>1. /\ station' = [station EXCEPT !.pc = "idle"]
      /\ UNCHANGED <<station_info, returned, asked, stats_req, fw_stats, reader, statsOk,
                     rpuq, evtq>>
  BY DEF GetStationTimeout
<1>2. station' \in [pc : {"idle", "wait"}, id : Nat] /\ station'.id = station.id
  BY <1>1 DEF AnswerTypes
<1>3. UnderWay' = UnderWay /\ \A kind : About(kind)' = About(kind)
  BY <1>1 DEF UnderWay, About
<1>4. AnswerTypes'
  BY <1>1, <1>2 DEF AnswerTypes
<1>5. LineInv' /\ StatsInv'
  BY <1>1, <1>3, StatsUnmoved DEF LineInv
<1>6. StationInv'
  BY <1>1, <1>2, <1>3 DEF StationInv
<1> QED BY <1>4, <1>5, <1>6

(* A read of the statistics begins. *)
LEMMA StatsGetKeeps ==
  ASSUME AnswerInv, NEW r \in Reader, StatsGet(r)
  PROVE  AnswerInv'
<1> USE DEF AnswerInv
<1>1. /\ reader' = [reader EXCEPT ![r] = [pc |-> "send", id |-> 0, got |-> 0]] /\ ~stats_req
      /\ UNCHANGED <<station, station_info, returned, asked, stats_req, fw_stats, statsOk,
                     rpuq, evtq>>
  BY DEF StatsGet
<1>2. UnderWay' = UnderWay /\ \A kind : About(kind)' = About(kind)
  BY <1>1 DEF UnderWay, About
<1>3. AnswerTypes'
  BY <1>1 DEF AnswerTypes
<1>4. LineInv' /\ StationInv'
  BY <1>1, <1>2, StationUnmoved DEF LineInv, AnswerTypes
<1>5. \A s \in Reader : reader'[s] = IF s = r THEN [pc |-> "send", id |-> 0, got |-> 0]
                                              ELSE reader[s]
  BY <1>1 DEF AnswerTypes
<1>6. StatsInv'
  BY <1>1, <1>2, <1>5 DEF StatsInv, StatsOfThisCall
<1> QED BY <1>3, <1>4, <1>6

(* A reader who has sent its query. *)
LEMMA ReaderWaits ==
  ASSUME NEW R, NEW r \in R, NEW n \in Nat,
         NEW f \in [R -> [pc : {"idle", "send", "wait"}, id : Nat, got : Nat]]
  PROVE  LET g == [f EXCEPT ![r].pc = "wait", ![r].id = n]
         IN  /\ g \in [R -> [pc : {"idle", "send", "wait"}, id : Nat, got : Nat]]
             /\ g[r].pc = "wait" /\ g[r].id = n
OBVIOUS

(* The request is sent, or stays open without one. *)
LEMMA StatsSendKeeps ==
  ASSUME OneReader, AnswerInv, NEW r \in Reader, StatsSend(r)
  PROVE  AnswerInv'
<1> USE DEF AnswerInv
<1>1. /\ reader[r].pc = "send" /\ stats_req' = TRUE /\ fw_stats' = r
      /\ UNCHANGED <<station, station_info, returned, statsOk, evtq>>
  BY DEF StatsSend
<1>2. \A s \in Reader : s = r
  BY DEF OneReader
<1>3. ~stats_req /\ About("stats") = {}
  BY <1>1 DEF StatsInv
<1>4. CASE /\ Ask("stats")
           /\ reader' = [reader EXCEPT ![r].pc = "wait", ![r].id = asked + 1]
  <2>1. /\ rpuq' \in Seq(Query) /\ LineInv'
        /\ UnderWay' = UnderWay \cup {[kind |-> "stats", id |-> asked + 1]}
    BY <1>1, <1>4, AskKeeps
  <2>2. asked' = asked + 1 /\ asked \in Nat
    BY <1>4 DEF Ask, AnswerTypes
  <2>3. /\ reader' \in [Reader -> [pc : {"idle", "send", "wait"}, id : Nat, got : Nat]]
        /\ reader'[r].pc = "wait" /\ reader'[r].id = asked + 1
    <3>1. reader \in [Reader -> [pc : {"idle", "send", "wait"}, id : Nat, got : Nat]]
      BY DEF AnswerTypes
    <3>2. asked + 1 \in Nat
      BY <2>2
    <3>3. PICK n \in Nat : n = asked + 1
      BY <3>2
    <3> QED BY <1>4, <3>1, <3>3, ReaderWaits
  <2>4. AnswerTypes'
    BY <1>1, <2>1, <2>2, <2>3 DEF AnswerTypes
  <2>5. /\ About("station")' \subseteq About("station")
        /\ \A x \in About("stats")' : x.id = asked + 1
    BY <2>1, <1>3 DEF About
  <2>6. StationInv'
    BY <1>1, <2>2, <2>5, StationUnmoved
  <2>7. StatsInv'
    BY <1>1, <1>2, <2>3, <2>5 DEF StatsInv, StatsOfThisCall
  <2> QED BY <2>1, <2>4, <2>6, <2>7
<1>5. CASE /\ reader' = [reader EXCEPT ![r].pc = "idle"]
           /\ UNCHANGED <<asked, rpuq>>
  <2>1. UnderWay' = UnderWay /\ \A kind : About(kind)' = About(kind)
    BY <1>1, <1>5 DEF UnderWay, About
  <2>2. /\ reader' \in [Reader -> [pc : {"idle", "send", "wait"}, id : Nat, got : Nat]]
        /\ reader'[r].pc = "idle"
    BY <1>5 DEF AnswerTypes
  <2>3. AnswerTypes'
    BY <1>1, <1>5, <2>2 DEF AnswerTypes
  <2>4. LineInv' /\ StationInv'
    BY <1>1, <1>5, <2>1, StationUnmoved DEF LineInv, AnswerTypes
  <2>5. StatsInv'
    BY <1>1, <1>2, <1>3, <2>1, <2>2 DEF StatsInv, StatsOfThisCall
  <2> QED BY <2>3, <2>4, <2>5
<1> QED BY <1>4, <1>5 DEF StatsSend

(* A read ends: with the answer, *)
LEMMA StatsReturnsKeeps ==
  ASSUME AnswerInv, NEW r \in Reader, StatsReturns(r)
  PROVE  AnswerInv'
<1> USE DEF AnswerInv
<1>1. /\ reader[r].pc = "wait" /\ ~stats_req
      /\ statsOk' = statsOk \cup {[id |-> reader[r].id, got |-> reader[r].got]}
      /\ reader' = [reader EXCEPT ![r] = [pc |-> "idle", id |-> 0, got |-> 0]]
      /\ UNCHANGED <<station, station_info, returned, asked, stats_req, fw_stats, rpuq, evtq>>
  BY DEF StatsReturns
<1>2. UnderWay' = UnderWay /\ \A kind : About(kind)' = About(kind)
  BY <1>1 DEF UnderWay, About
<1>3. AnswerTypes'
  BY <1>1 DEF AnswerTypes
<1>4. LineInv' /\ StationInv'
  BY <1>1, <1>2, StationUnmoved DEF LineInv, AnswerTypes
<1>5. \A s \in Reader : reader'[s] = IF s = r THEN [pc |-> "idle", id |-> 0, got |-> 0]
                                              ELSE reader[s]
  BY <1>1 DEF AnswerTypes
<1>6. reader[r].got = reader[r].id
  BY <1>1 DEF StatsInv
<1>7. StatsOfThisCall'
  BY <1>1, <1>6 DEF StatsInv, StatsOfThisCall
<1>8. StatsInv'
  BY <1>1, <1>2, <1>5, <1>7 DEF StatsInv
<1> QED BY <1>3, <1>4, <1>8

(* or without. *)
LEMMA StatsTimeoutKeeps ==
  ASSUME AnswerInv, NEW r \in Reader, StatsTimeout(r)
  PROVE  AnswerInv'
<1> USE DEF AnswerInv
<1>1. /\ reader' = [reader EXCEPT ![r] = [pc |-> "idle", id |-> 0, got |-> 0]]
      /\ UNCHANGED <<station, station_info, returned, asked, stats_req, fw_stats, statsOk,
                     rpuq, evtq>>
  BY DEF StatsTimeout
<1>2. UnderWay' = UnderWay /\ \A kind : About(kind)' = About(kind)
  BY <1>1 DEF UnderWay, About
<1>3. AnswerTypes'
  BY <1>1 DEF AnswerTypes
<1>4. LineInv' /\ StationInv'
  BY <1>1, <1>2, StationUnmoved DEF LineInv, AnswerTypes
<1>5. \A s \in Reader : reader'[s] = IF s = r THEN [pc |-> "idle", id |-> 0, got |-> 0]
                                              ELSE reader[s]
  BY <1>1 DEF AnswerTypes
<1>6. StatsInv'
  BY <1>1, <1>2, <1>5 DEF StatsInv, StatsOfThisCall
<1> QED BY <1>3, <1>4, <1>6

(* The RPU works off a query. *)
LEMMA RpuAnswersKeeps == ASSUME AnswerInv, RpuAnswers PROVE AnswerInv'
<1> USE DEF AnswerInv
<1>1. /\ rpuq # <<>> /\ rpuq' = Tail(rpuq)
      /\ evtq' = Append(evtq, Head(rpuq)) \/ evtq' = evtq
      /\ UNCHANGED <<station, station_info, returned, asked, stats_req, fw_stats, reader,
                     statsOk>>
  BY DEF RpuAnswers
<1>2. rpuq \in Seq(Query) /\ evtq \in Seq(Query) /\ Line(rpuq, evtq)
  BY DEF AnswerTypes, LineInv
<1>3. rpuq' \in Seq(Query) /\ Head(rpuq) \in Query /\ Head(rpuq) \in Held(rpuq)
      /\ Held(rpuq') \subseteq Held(rpuq)
  BY <1>1, <1>2, HeadTailProperties, HeldTail
<1>4. evtq' \in Seq(Query)
  BY <1>1, <1>2, <1>3, AppendProperties
<1>5. /\ Line(Tail(rpuq), Append(evtq, Head(rpuq))) /\ Line(Tail(rpuq), evtq)
      /\ Held(Append(evtq, Head(rpuq))) = Held(evtq) \cup {Head(rpuq)}
  BY <1>1, <1>2, <1>3, LineMoves
<1>6. Line(rpuq', evtq')
  BY <1>1, <1>5
<1>7. UnderWay' \subseteq UnderWay
  BY <1>1, <1>3, <1>5 DEF UnderWay
<1>8. AnswerTypes'
  BY <1>1, <1>3, <1>4 DEF AnswerTypes
<1>9. LineInv'
  BY <1>1, <1>6, <1>7 DEF LineInv
<1>10. \A kind : About(kind)' \subseteq About(kind)
  BY <1>7, FewerWay
<1>11. asked' \in Nat /\ asked <= asked'
  BY <1>1 DEF AnswerTypes
<1>12. StationInv' /\ StatsInv'
  BY <1>1, <1>10, <1>11, StationUnmoved, StatsUnmoved
<1> QED BY <1>8, <1>9, <1>12

(* The tasklet stores an answer for get_station. *)
LEMMA GetStationCallbackKeeps == ASSUME AnswerInv, GetStationCallback PROVE AnswerInv'
<1> USE DEF AnswerInv
<1> DEFINE x == Head(evtq)
<1>1. /\ evtq # <<>> /\ x.kind = "station" /\ evtq' = Tail(evtq) /\ station_info' = x.id
      /\ UNCHANGED <<station, returned, asked, stats_req, fw_stats, reader, statsOk, rpuq>>
  BY DEF GetStationCallback
<1>2. /\ evtq' \in Seq(Query) /\ LineInv' /\ UnderWay' \subseteq UnderWay /\ x \in UnderWay
      /\ \A y \in UnderWay' : x.id < y.id
  BY <1>1, TakeKeeps
<1> HIDE DEF x
<1>3. x \in Query /\ x \in About("station") /\ x.id \in Nat /\ 0 < x.id
  BY <1>1, <1>2 DEF LineInv, About, Query
<1>4. AnswerTypes'
  BY <1>1, <1>2, <1>3 DEF AnswerTypes
<1>5. \A kind : About(kind)' \subseteq About(kind)
  BY <1>2, FewerWay
<1>6. StatsInv'
  BY <1>1, <1>5, StatsUnmoved
<1>7. \A y \in About("station")' : y \in About("station") /\ x.id < y.id
  BY <1>2, <1>5 DEF About
<1>8. StationInv'
  BY <1>1, <1>3, <1>7 DEF StationInv
<1> QED BY <1>2, <1>4, <1>6, <1>8

(* It takes the statistics to the buffer, if a request is open. *)
LEMMA StatsProcessKeeps ==
  ASSUME OneReader, AnswerInv, StatsProcess
  PROVE  AnswerInv'
<1> USE DEF AnswerInv
<1> DEFINE x == Head(evtq)
<1>1. /\ evtq # <<>> /\ x.kind = "stats" /\ evtq' = Tail(evtq) /\ stats_req' = FALSE
      /\ UNCHANGED <<station, station_info, returned, asked, fw_stats, statsOk, rpuq>>
      /\ IF stats_req /\ reader[fw_stats].pc = "wait"
         THEN reader' = [reader EXCEPT ![fw_stats].got = x.id]
         ELSE reader' = reader
  BY DEF StatsProcess
<1>2. /\ evtq' \in Seq(Query) /\ LineInv' /\ UnderWay' \subseteq UnderWay /\ x \in UnderWay
      /\ \A y \in UnderWay' : x.id < y.id
  BY <1>1, TakeKeeps
<1> HIDE DEF x
<1>3. x \in Query /\ x \in About("stats") /\ x.id \in Nat
  BY <1>1, <1>2 DEF LineInv, About, Query
<1>4. stats_req /\ fw_stats \in Reader
  BY <1>3 DEF StatsInv, AnswerTypes
<1>5. \A kind : About(kind)' \subseteq About(kind)
  BY <1>2, FewerWay
<1>6. asked' \in Nat /\ asked <= asked'
  BY <1>1 DEF AnswerTypes
<1>7. StationInv'
  BY <1>1, <1>5, <1>6, StationUnmoved
<1>8. About("stats")' = {}
  <2>1. ASSUME NEW y \in About("stats")' PROVE FALSE
    <3>1. y \in About("stats") /\ x.id < y.id
      BY <1>2, <1>5, <2>1 DEF About
    <3>2. x.id = y.id
      BY <1>3, <3>1 DEF StatsInv
    <3> QED BY <3>1, <3>2, <1>3
  <2> QED BY <2>1
<1>9. \A r \in Reader : r = fw_stats
  BY <1>4 DEF OneReader
<1>10. CASE reader[fw_stats].pc = "wait"
  <2>1. reader[fw_stats].id = x.id
    BY <1>3, <1>4, <1>10 DEF StatsInv
  <2>2. /\ reader' \in [Reader -> [pc : {"idle", "send", "wait"}, id : Nat, got : Nat]]
        /\ reader'[fw_stats].pc = "wait" /\ reader'[fw_stats].got = x.id
        /\ reader'[fw_stats].id = reader[fw_stats].id
    <3> DEFINE R == [pc : {"idle", "send", "wait"}, id : Nat, got : Nat]
               v == [reader[fw_stats] EXCEPT !.got = x.id]
    <3>1. reader \in [Reader -> R] /\ reader[fw_stats] \in R
      BY <1>4 DEF AnswerTypes
    <3>2. v \in R /\ v.pc = "wait" /\ v.got = x.id /\ v.id = reader[fw_stats].id
      BY <1>3, <1>10, <3>1
    <3>3. reader' = [reader EXCEPT ![fw_stats] = v]
      BY <1>1, <1>4, <1>10
    <3> HIDE DEF v, R
    <3>4. reader' \in [Reader -> R] /\ reader'[fw_stats] = v
      BY <1>4, <3>1, <3>2, <3>3
    <3> QED BY <3>2, <3>4 DEF R
  <2>3. AnswerTypes'
    BY <1>1, <1>2, <2>2 DEF AnswerTypes
  <2>4. StatsInv'
    BY <1>1, <1>8, <1>9, <2>1, <2>2 DEF StatsInv, StatsOfThisCall
  <2> QED BY <1>2, <1>7, <2>3, <2>4
<1>11. CASE reader[fw_stats].pc # "wait"
  <2>1. reader' = reader
    BY <1>1, <1>11
  <2>2. AnswerTypes'
    BY <1>1, <1>2, <2>1 DEF AnswerTypes
  <2>3. StatsInv'
    BY <1>1, <1>8, <1>9, <1>11, <2>1 DEF StatsInv, StatsOfThisCall
  <2> QED BY <1>2, <1>7, <2>2, <2>3
<1> QED BY <1>10, <1>11

(* All other steps leave the queries alone. *)
LEMMA OthersUnmoved ==
  ASSUME \/ \E w \in Writer :
              \/ ConfStore(w) /\ UNCHANGED settingsVars
              \/ SetHeLtfGi(w) \/ PowerSave(w) \/ RtsThreshold(w) \/ UapsdQueue(w)
              \/ TxPktMcs(w) \/ TxPktRate(w) \/ StoreProgrammed(w)
              \/ PsTimeout(w) \/ PsListenInterval(w) \/ PsWakeupMode(w)
         \/ SetPowerMgmt \/ CfgSetWiphyParams \/ SetQosMap
  PROVE  UNCHANGED Unmoved
<1>1. ASSUME NEW w \in Writer, ConfStore(w) /\ UNCHANGED settingsVars PROVE UNCHANGED Unmoved
  BY <1>1 DEF settingsVars, Unmoved
<1>3. ASSUME NEW w \in Writer,
             SetHeLtfGi(w) \/ PowerSave(w) \/ RtsThreshold(w) \/ UapsdQueue(w)
      PROVE  UNCHANGED Unmoved
  BY <1>3 DEF Program, SetHeLtfGi, PowerSave, RtsThreshold, UapsdQueue
<1>4. ASSUME NEW w \in Writer, TxPktMcs(w) \/ TxPktRate(w) PROVE UNCHANGED Unmoved
  BY <1>4 DEF TxPktMcs, TxPktRate, FixedRate
<1>5. ASSUME NEW w \in Writer, StoreProgrammed(w) PROVE UNCHANGED Unmoved
  BY <1>5 DEF StoreProgrammed, settingsVars, Unmoved
<1>6. ASSUME NEW w \in Writer, PsTimeout(w) \/ PsListenInterval(w) \/ PsWakeupMode(w)
      PROVE  UNCHANGED Unmoved
  BY <1>6 DEF PsTimeout, PsListenInterval, PsWakeupMode, StoreFirst
<1>7. ASSUME SetPowerMgmt \/ CfgSetWiphyParams \/ SetQosMap PROVE UNCHANGED Unmoved
  BY <1>7 DEF SetPowerMgmt, CfgSetWiphyParams, SetQosMap, Cfg80211
<1> QED BY <1>1, <1>3, <1>4, <1>5, <1>6, <1>7

LEMMA AnswerNext ==
  ASSUME OneReader, AnswerInv, [Next]_<<confVars, settingsVars, rtVars>>
  PROVE  AnswerInv'
<1>1. CASE UNCHANGED settingsVars
  BY <1>1, AnswerUnmoved DEF settingsVars, Unmoved
<1>2. CASE SettingsNext
  BY <1>2, OthersUnmoved, AnswerUnmoved, GetStationKeeps, GetStationReturnsKeeps,
     GetStationTimeoutKeeps, StatsGetKeeps, StatsSendKeeps, StatsReturnsKeeps,
     StatsTimeoutKeeps, RpuAnswersKeeps, GetStationCallbackKeeps, StatsProcessKeeps
  DEF SettingsNext
<1> QED BY <1>1, <1>2 DEF Next

(* Every answer is that of a call, and of its own: get_station returns each *)
(* answer once, in order, and none before its question; a successful read   *)
(* of the statistics has the RPU's answer to it, whatever was late before.  *)
THEOREM AnswersBelong ==
  ASSUME OneReader
  PROVE  Spec => []AnswersAreOwn
<1>1. Init => AnswerInv
  BY AnswerInit
<1>2. AnswerInv /\ [Next]_<<confVars, settingsVars, rtVars>> => AnswerInv'
  BY AnswerNext
<1>3. AnswerInv => AnswersAreOwn
  BY DEF AnswerInv, StationInv, StatsInv, AnswersAreOwn
<1> QED BY <1>1, <1>2, <1>3, PTL DEF Spec

-----------------------------------------------------------------------------
(* The writes that only store                                                *)

(* Writer w stores val and does nothing else. *)
Stores(w, field, val) == /\ CanCall(w) /\ conf' = [conf EXCEPT ![field] = val]
                         /\ UNCHANGED <<build, job, fails>>

Stored == {"phy_threshold", "phy_calib", "nss", "antenna_sel", "he_ltf", "he_gi",
           "rf_params", "tx_pkt_chnl_bw", "tx_pkt_tput_mode", "tx_pkt_sgi",
           "tx_pkt_preamble", "tx_pkt_stbc", "tx_pkt_fec_coding"}

LEMMA StoreStores ==
  ASSUME NEW w, NEW field, NEW val, Store(w, field, val)
  PROVE  Stores(w, field, val)
BY DEF Store, Stores

(* A write of these leaves all other parameters, and comes while nothing is *)
(* on, unless its parameter is an unguarded one.                            *)
LEMMA ConfStoreStores ==
  ASSUME NEW w, ConfStore(w)
  PROVE  \E f \in Stored : \E val : Stores(w, f, val) /\ (f \in Unguarded \/ Disabled)
<1>1. ASSUME NEW f \in Stored, NEW inputs, NEW legal, StoreOneOf(w, f, inputs, legal)
      PROVE  \E val : Stores(w, f, val) /\ Disabled
  BY <1>1, StoreStores DEF StoreOneOf
<1>2. ASSUME NEW flag, PhyCalib(w, flag)
      PROVE  \E val : Stores(w, "phy_calib", val) /\ Disabled
  BY <1>2, StoreStores DEF PhyCalib
<1>3. CASE RfParams(w)
  BY <1>3, StoreStores DEF RfParams, Disabled, Stored
<1>4. CASE AntennaSel(w) \/ HeLtf(w) \/ HeGi(w)
  BY <1>4, StoreStores DEF AntennaSel, HeLtf, HeGi, Stored, Unguarded
<1>5. CASE PhyCalibRxdc(w) \/ PhyCalibTxdc(w) \/ PhyCalibTxpow(w) \/ PhyCalibRxiq(w)
           \/ PhyCalibTxiq(w) \/ PhyCalibDpd(w)
  BY <1>2, <1>5 DEF PhyCalibRxdc, PhyCalibTxdc, PhyCalibTxpow, PhyCalibRxiq, PhyCalibTxiq,
     PhyCalibDpd, Stored
<1>6. CASE PhyThreshold(w) \/ Nss(w) \/ TxPktChnlBw(w) \/ TxPktTputMode(w) \/ TxPktSgi(w)
           \/ TxPktPreamble(w) \/ TxPktStbc(w) \/ TxPktFecCoding(w)
  BY <1>1, <1>6 DEF PhyThreshold, Nss, TxPktChnlBw, TxPktTputMode, TxPktSgi, TxPktPreamble,
     TxPktStbc, TxPktFecCoding, Stored
<1> QED BY <1>3, <1>4, <1>5, <1>6 DEF ConfStore

(* The build is chosen once. *)
LEMMA BuildStays ==
  ASSUME [Next]_<<confVars, settingsVars, rtVars>>
  PROVE  build' = build
<1>1. ASSUME NEW w \in Writer, ConfStore(w) PROVE build' = build
  BY <1>1, ConfStoreStores DEF Stores
<1>2. CASE SettingsNext
  <2>1. ASSUME NEW w \in Writer,
               SetHeLtfGi(w) \/ PowerSave(w) \/ RtsThreshold(w) \/ UapsdQueue(w)
        PROVE  build' = build
    BY <2>1 DEF SetHeLtfGi, PowerSave, RtsThreshold, UapsdQueue, Program
  <2>2. ASSUME NEW w \in Writer,
               \/ TxPktMcs(w) \/ TxPktRate(w) \/ StoreProgrammed(w)
               \/ PsTimeout(w) \/ PsListenInterval(w) \/ PsWakeupMode(w)
        PROVE  build' = build
    BY <2>2 DEF TxPktMcs, TxPktRate, FixedRate, StoreProgrammed, PsTimeout,
       PsListenInterval, PsWakeupMode, StoreFirst
  <2>3. CASE SetPowerMgmt \/ CfgSetWiphyParams \/ SetQosMap
    BY <2>3 DEF SetPowerMgmt, CfgSetWiphyParams, SetQosMap, Cfg80211
  <2>4. CASE GetStation \/ GetStationReturns \/ GetStationTimeout \/ RpuAnswers
             \/ GetStationCallback \/ StatsProcess
    BY <2>4 DEF GetStation, GetStationReturns, GetStationTimeout, RpuAnswers,
       GetStationCallback, StatsProcess
  <2>5. ASSUME NEW r \in Reader,
               StatsGet(r) \/ StatsSend(r) \/ StatsReturns(r) \/ StatsTimeout(r)
        PROVE  build' = build
    BY <2>5 DEF StatsGet, StatsSend, StatsReturns, StatsTimeout
  <2> QED BY <1>1, <1>2, <2>1, <2>2, <2>3, <2>4, <2>5 DEF SettingsNext
<1>3. CASE RtNext
  <2>1. ASSUME NEW w \in Writer, RtStores(w) PROVE build' = build
    BY <2>1 DEF RtStores, OpMode, ChnlPrimary, ChnlBw, ChnlSec20Offset, TxMode, TxPktNum,
       TxPktLen, TxPower, RtTxPktMcs, RtTxPktRate, AuxAdcInputChainId, RtStore, Store
  <2>2. ASSUME NEW w \in Writer, Tx(w) \/ Rx(w) \/ RadioTestInit(w) PROVE build' = build
    BY <2>2 DEF Tx, Rx, RadioTestInit, RadioCmd
  <2>3. CASE RfTestRxCap \/ RfTestTxTone \/ RfTestDpd \/ RfGetTemp \/ RfGetRfRssi \/ SetXoVal
             \/ RfTestComputeXo \/ RfTestDone \/ RfTestTimeout
    BY <2>3 DEF RfTestRxCap, RfTestTxTone, RfTestDpd, RfGetTemp, RfGetRfRssi, SetXoVal,
       RfTestComputeXo, RfTest, RfTestDone, RfTestTimeout
  <2>4. CASE (\E w \in Writer : RadioDone(w) \/ RadioTimeout(w))
             \/ RtRpuStep \/ RadioCmdStatus \/ RfTestProcess
    BY <2>4 DEF RadioDone, RadioTimeout, RtRpuStep, RadioCmdStatus, RfTestProcess
  <2> QED BY <1>1, <1>3, <2>1, <2>2, <2>3, <2>4 DEF RtNext
<1> QED BY <1>2, <1>3 DEF Next, confVars

-----------------------------------------------------------------------------
(* The regular build: what the file shows                                    *)

(* File c shows what the RPU was told, t, where fl says whether a command   *)
(* failed.                                                                  *)
Shows(t, fl, c) ==
  /\ SignedChar(t.rate) = IF t.flag = HE_TB THEN -1
                          ELSE IF c.tx_pkt_mcs # -1 THEN c.tx_pkt_mcs ELSE c.tx_pkt_rate
  /\ t.uapsd_queue = c.uapsd_queue
  /\ t.ltf_gi = c.set_he_ltf_gi
  /\ t.by.power_save = "cfg80211" \/ t.power_save = c.power_save
  /\ t.by.rts_threshold = "cfg80211" \/ t.rts_threshold = c.rts_threshold
  /\ fl \/ /\ t.ps_timeout = c.ps_timeout
           /\ t.ps_listen_interval = c.ps_listen_interval
           /\ t.ps_wakeup_mode = c.ps_wakeup_mode

Watched == {"tx_pkt_mcs", "tx_pkt_rate", "uapsd_queue", "set_he_ltf_gi", "power_save",
            "rts_threshold", "ps_timeout", "ps_listen_interval", "ps_wakeup_mode"}
ToldFields == {"rate", "flag", "uapsd_queue", "ltf_gi", "ltf", "gi", "power_save",
               "rts_threshold", "ps_timeout", "ps_listen_interval", "ps_wakeup_mode",
               "qos_map", "by"}
ToldShape(t) == ToldFields \subseteq DOMAIN t
                /\ {"power_save", "rts_threshold"} \subseteq DOMAIN t.by

(* "conf" once the write in progress is through. *)
After(w) == IF job[w] = Idle THEN conf ELSE [conf EXCEPT ![job[w].field] = job[w].val]

JobInv == /\ DOMAIN job = Writer
          /\ \A w \in Writer : job[w] = Idle \/ job[w].pc # "idle"
ShownInv == build = "regular" =>
  /\ JobInv /\ ToldShape(told) /\ Watched \subseteq DOMAIN conf
  /\ \A w \in Writer : Shows(told, failed, After(w))

(* The parameters that only are stored are not shown here. *)
LEMMA ShowsStored ==
  ASSUME NEW t, NEW fl, NEW c, Watched \subseteq DOMAIN c, Shows(t, fl, c),
         NEW f, f \notin Watched, NEW val
  PROVE  Shows(t, fl, [c EXCEPT ![f] = val])
BY DEF Shows, Watched

(* Commands and their stores. *)
LEMMA ShowsProgrammed ==
  ASSUME NEW t, NEW fl, NEW c, Watched \subseteq DOMAIN c, ToldShape(t), Shows(t, fl, c),
         NEW val, NEW who
  PROVE  /\ Shows([t EXCEPT !.power_save = val, !.by.power_save = who], fl,
                  [c EXCEPT !["power_save"] = val])
         /\ Shows([t EXCEPT !.rts_threshold = val, !.by.rts_threshold = who], fl,
                  [c EXCEPT !["rts_threshold"] = val])
         /\ Shows([t EXCEPT !.uapsd_queue = val], fl, [c EXCEPT !["uapsd_queue"] = val])
         /\ \A ltf, gi :
              Shows([t EXCEPT !.ltf_gi = val, !.ltf = ltf, !.gi = gi], fl,
                    [c EXCEPT !["set_he_ltf_gi"] = val])
BY DEF Shows, Watched, ToldShape, ToldFields

(* cfg80211's commands. *)
LEMMA ShowsCfg80211 ==
  ASSUME NEW t, NEW fl, NEW c, Watched \subseteq DOMAIN c, ToldShape(t), Shows(t, fl, c),
         NEW val
  PROVE  /\ Shows([t EXCEPT !.power_save = val, !.by.power_save = "cfg80211"], fl, c)
         /\ Shows([t EXCEPT !.rts_threshold = val, !.by.rts_threshold = "cfg80211"], fl, c)
         /\ Shows([t EXCEPT !.qos_map = val], fl, c)
BY DEF Shows, Watched, ToldShape, ToldFields

(* What is stored first. *)
LEMMA ShowsFirst ==
  ASSUME NEW t, NEW fl, NEW c, Watched \subseteq DOMAIN c, ToldShape(t), Shows(t, fl, c),
         NEW val
  PROVE  /\ Shows([t EXCEPT !.ps_timeout = val], fl, [c EXCEPT !["ps_timeout"] = val])
         /\ Shows([t EXCEPT !.ps_listen_interval = val], fl,
                  [c EXCEPT !["ps_listen_interval"] = val])
         /\ Shows([t EXCEPT !.ps_wakeup_mode = val], fl, [c EXCEPT !["ps_wakeup_mode"] = val])
         /\ \A f \in {"ps_timeout", "ps_listen_interval", "ps_wakeup_mode"} :
              Shows(t, TRUE, [c EXCEPT ![f] = val])
BY DEF Shows, Watched, ToldShape, ToldFields

(* The rate, when the other parameter is unset. *)
LEMMA ShowsRate ==
  ASSUME NEW t, NEW fl, NEW c, Watched \subseteq DOMAIN c, ToldShape(t), Shows(t, fl, c),
         NEW val, NEW mode, NEW rate, rate = IF mode = HE_TB THEN -1 ELSE val
  PROVE  /\ c.tx_pkt_rate = -1 =>
              Shows([t EXCEPT !.flag = mode, !.rate = rate], fl,
                    [c EXCEPT !["tx_pkt_mcs"] = SignedChar(val)])
         /\ c.tx_pkt_mcs = -1 =>
              Shows([t EXCEPT !.flag = mode, !.rate = rate], fl,
                    [c EXCEPT !["tx_pkt_rate"] = SignedChar(val)])
<1> DEFINE n == [t EXCEPT !.flag = mode, !.rate = rate]
<1>1. /\ n.flag = mode /\ n.rate = rate /\ n.by = t.by
      /\ \A f \in ToldFields \ {"flag", "rate"} : n[f] = t[f]
  BY DEF ToldShape, ToldFields
<1> HIDE DEF n
<1>2. SignedChar(-1) = -1
  BY DEF SignedChar
<1>3. SignedChar(n.rate) = IF n.flag = HE_TB THEN -1 ELSE SignedChar(val)
  BY <1>1, <1>2
<1>4. ASSUME NEW s, s = SignedChar(val), c.tx_pkt_rate = -1
      PROVE  Shows(n, fl, [c EXCEPT !["tx_pkt_mcs"] = s])
  BY <1>1, <1>3, <1>4 DEF Shows, Watched, ToldFields
<1>5. ASSUME NEW s, s = SignedChar(val), c.tx_pkt_mcs = -1
      PROVE  Shows(n, fl, [c EXCEPT !["tx_pkt_rate"] = s])
  BY <1>1, <1>3, <1>5 DEF Shows, Watched, ToldFields
<1> QED BY <1>4, <1>5 DEF n

(* Commands keep the shape of what was told. *)
LEMMA ShapeKept ==
  ASSUME NEW t, ToldShape(t), NEW val, NEW who
  PROVE  /\ ToldShape([t EXCEPT !.power_save = val, !.by.power_save = who])
         /\ ToldShape([t EXCEPT !.rts_threshold = val, !.by.rts_threshold = who])
         /\ ToldShape([t EXCEPT !.uapsd_queue = val])
         /\ ToldShape([t EXCEPT !.ps_timeout = val])
         /\ ToldShape([t EXCEPT !.ps_listen_interval = val])
         /\ ToldShape([t EXCEPT !.ps_wakeup_mode = val])
         /\ ToldShape([t EXCEPT !.qos_map = val])
         /\ \A ltf, gi : ToldShape([t EXCEPT !.ltf_gi = val, !.ltf = ltf, !.gi = gi])
         /\ \A mode : ToldShape([t EXCEPT !.flag = mode, !.rate = val])
BY DEF ToldShape, ToldFields

(* What has to be shown of a step: the shapes, and the file to come. *)
LEMMA ShownStep ==
  ASSUME JobInv', ToldShape(told'), Watched \subseteq DOMAIN conf', NEW w, Writer = {w},
         build' = "regular" => Shows(told', failed', After(w)')
  PROVE  ShownInv'
BY DEF ShownInv

LEMMA ShownInit == ASSUME Init PROVE ShownInv
<1> USE DEF Init, ConfInit, SettingsInit
<1>1. JobInv /\ \A w \in Writer : job[w] = Idle
  BY DEF JobInv
<1>2. ToldShape(told)
  BY DEF ToldShape, ToldFields
<1>3. Watched \subseteq DOMAIN conf
  BY DEF Watched, Defaults
<1>4. /\ conf.tx_pkt_mcs = -1 /\ conf.tx_pkt_rate = -1 /\ conf.uapsd_queue = 0
      /\ conf.set_he_ltf_gi = 0 /\ conf.power_save = 0 /\ conf.rts_threshold = 0
      /\ conf.ps_timeout = 100 /\ conf.ps_listen_interval = 10 /\ conf.ps_wakeup_mode = 0
  BY DEF Defaults
<1>5. /\ told.rate = -1 /\ told.uapsd_queue = 0 /\ told.ltf_gi = 0 /\ told.power_save = 0
      /\ told.rts_threshold = 0 /\ told.ps_timeout = 100 /\ told.ps_listen_interval = 10
      /\ told.ps_wakeup_mode = 0
  OBVIOUS
<1>6. SignedChar(-1) = -1
  BY DEF SignedChar
<1>7. Shows(told, failed, conf)
  BY <1>4, <1>5, <1>6 DEF Shows
<1> QED BY <1>1, <1>2, <1>3, <1>7 DEF ShownInv, After

(* A writer without a job shows what is stored. *)
LEMMA IdleShows ==
  ASSUME ShownInv, build = "regular", NEW w \in Writer, job[w] = Idle
  PROVE  Shows(told, failed, conf)
BY DEF ShownInv, After

(* A write that only stores. *)
LEMMA StoresKeepsShown ==
  ASSUME OneWriter, ShownInv, build = "regular", NEW w \in Writer, NEW f \in Stored, NEW val,
         Stores(w, f, val), UNCHANGED <<told, failed>>
  PROVE  ShownInv'
<1>1. f \notin Watched
  BY DEF Stored, Watched
<1>2. job[w] = Idle /\ job' = job /\ conf' = [conf EXCEPT ![f] = val]
  BY DEF Stores, CanCall
<1>3. Shows(told', failed', conf')
  BY <1>1, <1>2, IdleShows, ShowsStored DEF ShownInv
<1>4. After(w)' = conf'
  BY <1>2 DEF After
<1>5. Watched \subseteq DOMAIN conf' /\ JobInv' /\ ToldShape(told')
  BY <1>2 DEF ShownInv, JobInv
<1> QED BY <1>3, <1>4, <1>5, ShownStep DEF OneWriter

(* A command was sent, and its value waits to be stored. *)
LEMMA SentKeepsShown ==
  ASSUME OneWriter, ShownInv, build = "regular", UNCHANGED <<build, conf, failed>>,
         NEW w \in Writer, NEW f, NEW val, job[w] = Idle,
         job' = [job EXCEPT ![w] = [pc |-> "store", field |-> f, val |-> val]],
         ToldShape(told'), Shows(told', failed, [conf EXCEPT ![f] = val])
  PROVE  ShownInv'
<1>1. job'[w] = [pc |-> "store", field |-> f, val |-> val] /\ DOMAIN job' = Writer
  BY DEF ShownInv, JobInv
<1>2. /\ job'[w] # Idle /\ job'[w].pc # "idle" /\ job'[w].field = f /\ job'[w].val = val
  <2>1. job'[w].pc = "store" /\ Idle.pc = "idle"
    BY <1>1 DEF Idle
  <2> QED BY <1>1, <2>1
<1>3. After(w)' = [conf EXCEPT ![f] = val]
  BY <1>2 DEF After
<1>4. Writer = {w}
  BY DEF OneWriter
<1>5. JobInv'
  BY <1>1, <1>2, <1>4 DEF JobInv
<1> QED BY <1>3, <1>4, <1>5, ShownStep DEF ShownInv

(* It failed, and the writer is through. *)
LEMMA NotSentKeepsShown ==
  ASSUME OneWriter, ShownInv, build = "regular", UNCHANGED <<build, conf, told, job>>,
         failed' = TRUE, NEW w \in Writer, job[w] = Idle
  PROVE  ShownInv'
<1>1. Shows(told, failed, conf)
  BY IdleShows
<1>2. Shows(told', failed', conf')
  BY <1>1 DEF Shows
<1>3. After(w)' = conf'
  BY DEF After
<1> QED BY <1>2, <1>3, ShownStep DEF ShownInv, JobInv, OneWriter

(* The value is stored. *)
LEMMA StoreProgrammedKeepsShown ==
  ASSUME OneWriter, ShownInv, build = "regular", NEW w \in Writer, StoreProgrammed(w)
  PROVE  ShownInv'
<1>1. /\ job[w].pc = "store" /\ conf' = [conf EXCEPT ![job[w].field] = job[w].val]
      /\ job' = [job EXCEPT ![w] = Idle] /\ UNCHANGED <<told, failed>>
  BY DEF StoreProgrammed, settingsVars
<1>2. job[w] # Idle
  BY <1>1 DEF Idle
<1>3. conf' = After(w) /\ Shows(told, failed, After(w))
  BY <1>1, <1>2 DEF After, ShownInv
<1>4. job'[w] = Idle /\ JobInv'
  BY <1>1 DEF ShownInv, JobInv
<1>5. After(w)' = conf'
  BY <1>4 DEF After
<1>6. Watched \subseteq DOMAIN conf' /\ ToldShape(told')
  BY <1>1 DEF ShownInv
<1>7. Shows(told', failed', After(w)')
  BY <1>1, <1>3, <1>5
<1> QED BY <1>4, <1>6, <1>7, ShownStep DEF OneWriter

(* The switches and thresholds. *)
LEMMA ProgramKeepsShown ==
  ASSUME OneWriter, ShownInv, build = "regular", NEW w \in Writer,
         SetHeLtfGi(w) \/ PowerSave(w) \/ RtsThreshold(w) \/ UapsdQueue(w)
  PROVE  ShownInv'
<1>1. ASSUME NEW f, NEW val, CanCall(w), UNCHANGED <<build, conf>>,
             \/ /\ ToldShape(told') /\ Shows(told', failed, [conf EXCEPT ![f] = val])
                /\ job' = [job EXCEPT ![w] = [pc |-> "store", field |-> f, val |-> val]]
                /\ UNCHANGED failed
             \/ NotSent /\ failed' = TRUE /\ UNCHANGED job
      PROVE  ShownInv'
  <2>1. job[w] = Idle
    BY <1>1 DEF CanCall
  <2> QED BY <1>1, <2>1, SentKeepsShown, NotSentKeepsShown DEF NotSent
<1>2. ASSUME CanCall(w)
      PROVE  /\ Shows(told, failed, conf) /\ Watched \subseteq DOMAIN conf /\ ToldShape(told)
  BY <1>2, IdleShows DEF CanCall, ShownInv
<1>3. CASE PowerSave(w)
  <2>1. PICK val : Program(w, "power_save", val, SetPowerSave(val, w))
    BY <1>3 DEF PowerSave
  <2>2. ASSUME SetPowerSave(val, w), CanCall(w)
        PROVE  ToldShape(told') /\ Shows(told', failed, [conf EXCEPT !["power_save"] = val])
    <3>1. told' = [told EXCEPT !.power_save = val, !.by.power_save = w]
      BY <2>2 DEF SetPowerSave, Sent
    <3>2. ToldShape([told EXCEPT !.power_save = val, !.by.power_save = w])
      BY <1>2, <2>2, ShapeKept
    <3>3. Shows([told EXCEPT !.power_save = val, !.by.power_save = w], failed, [conf EXCEPT !["power_save"] = val])
      BY <1>2, <2>2, ShowsProgrammed
    <3> QED BY <3>1, <3>2, <3>3
  <2> QED BY <1>1, <2>1, <2>2 DEF Program
<1>4. CASE RtsThreshold(w)
  <2>1. PICK val : val # 0 /\ Program(w, "rts_threshold", val, SetWiphyParams(val, w))
    BY <1>4 DEF RtsThreshold
  <2>2. ASSUME SetWiphyParams(val, w), CanCall(w)
        PROVE  ToldShape(told') /\ Shows(told', failed, [conf EXCEPT !["rts_threshold"] = val])
    <3>1. told' = [told EXCEPT !.rts_threshold = val, !.by.rts_threshold = w]
      BY <2>1, <2>2 DEF SetWiphyParams, Sent
    <3>2. ToldShape([told EXCEPT !.rts_threshold = val, !.by.rts_threshold = w])
      BY <1>2, <2>2, ShapeKept
    <3>3. Shows([told EXCEPT !.rts_threshold = val, !.by.rts_threshold = w], failed, [conf EXCEPT !["rts_threshold"] = val])
      BY <1>2, <2>2, ShowsProgrammed
    <3> QED BY <3>1, <3>2, <3>3
  <2> QED BY <1>1, <2>1, <2>2 DEF Program
<1>5. CASE UapsdQueue(w)
  <2>1. PICK val : Program(w, "uapsd_queue", val, SetUapsdQueue(val))
    BY <1>5 DEF UapsdQueue
  <2>2. ASSUME SetUapsdQueue(val), CanCall(w)
        PROVE  ToldShape(told') /\ Shows(told', failed, [conf EXCEPT !["uapsd_queue"] = val])
    <3>1. told' = [told EXCEPT !.uapsd_queue = val]
      BY <2>2 DEF SetUapsdQueue, Sent
    <3>2. ToldShape([told EXCEPT !.uapsd_queue = val])
      BY <1>2, <2>2, ShapeKept
    <3>3. Shows([told EXCEPT !.uapsd_queue = val], failed, [conf EXCEPT !["uapsd_queue"] = val])
      BY <1>2, <2>2, ShowsProgrammed
    <3> QED BY <3>1, <3>2, <3>3
  <2> QED BY <1>1, <2>1, <2>2 DEF Program
<1>6. CASE SetHeLtfGi(w)
  <2>1. PICK val : Program(w, "set_he_ltf_gi", val, ConfLtfGi(conf.he_ltf, conf.he_gi, val))
    BY <1>6 DEF SetHeLtfGi
  <2>2. ASSUME ConfLtfGi(conf.he_ltf, conf.he_gi, val), CanCall(w)
        PROVE  ToldShape(told') /\ Shows(told', failed, [conf EXCEPT !["set_he_ltf_gi"] = val])
    <3>1. PICK ltf, gi : told' = [told EXCEPT !.ltf_gi = val, !.ltf = ltf, !.gi = gi]
      BY <2>2 DEF ConfLtfGi, CmdHeLtfGi, Sent
    <3>2. ToldShape([told EXCEPT !.ltf_gi = val, !.ltf = ltf, !.gi = gi])
      BY <1>2, <2>2, ShapeKept
    <3>3. Shows([told EXCEPT !.ltf_gi = val, !.ltf = ltf, !.gi = gi], failed, [conf EXCEPT !["set_he_ltf_gi"] = val])
      BY <1>2, <2>2, ShowsProgrammed
    <3> QED BY <3>1, <3>2, <3>3
  <2> QED BY <1>1, <2>1, <2>2 DEF Program
<1> QED BY <1>3, <1>4, <1>5, <1>6

(* The rates. *)
LEMMA FixedRateKeepsShown ==
  ASSUME OneWriter, ShownInv, build = "regular", NEW w \in Writer, TxPktMcs(w) \/ TxPktRate(w)
  PROVE  ShownInv'
<1>1. PICK f, val : /\ FixedRate(w, f, val)
                    /\ \/ f = "tx_pkt_mcs" /\ conf.tx_pkt_rate = -1
                       \/ f = "tx_pkt_rate" /\ conf.tx_pkt_mcs = -1
  BY DEF TxPktMcs, TxPktRate, McsAllowed, RateAllowed
<1>2. job[w] = Idle /\ UNCHANGED <<build, conf>>
  BY <1>1 DEF FixedRate, CanCall
<1>3. Shows(told, failed, conf) /\ Watched \subseteq DOMAIN conf /\ ToldShape(told)
  BY <1>2, IdleShows DEF ShownInv
<1>4. CASE NotSent /\ failed' = TRUE /\ UNCHANGED job
  BY <1>2, <1>4, NotSentKeepsShown DEF NotSent
<1>5. CASE /\ SetTxRate(conf.tx_pkt_tput_mode,
                        IF conf.tx_pkt_tput_mode = HE_TB THEN -1 ELSE val)
           /\ job' = [job EXCEPT ![w] = [pc |-> "store", field |-> f,
                                         val |-> SignedChar(val)]]
           /\ UNCHANGED failed
  <2>1. PICK mode, rate : /\ rate = IF mode = HE_TB THEN -1 ELSE val
                          /\ told' = [told EXCEPT !.flag = mode, !.rate = rate]
    BY <1>5 DEF SetTxRate, Sent
  <2>2. ToldShape(told') /\ Shows(told', failed, [conf EXCEPT ![f] = SignedChar(val)])
    BY <1>1, <1>3, <2>1, ShowsRate, ShapeKept
  <2>3. PICK s : s = SignedChar(val)
    OBVIOUS
  <2> QED BY <1>2, <1>5, <2>2, <2>3, SentKeepsShown
<1> QED BY <1>1, <1>4, <1>5 DEF FixedRate

(* The three values that are stored first. *)
LEMMA StoreFirstKeepsShown ==
  ASSUME OneWriter, ShownInv, build = "regular", NEW w \in Writer,
         PsTimeout(w) \/ PsListenInterval(w) \/ PsWakeupMode(w)
  PROVE  ShownInv'
<1>1. ASSUME NEW f \in {"ps_timeout", "ps_listen_interval", "ps_wakeup_mode"}, NEW val,
             CanCall(w), conf' = [conf EXCEPT ![f] = val], UNCHANGED <<build, job>>,
             \/ /\ ToldShape(told') /\ Shows(told', failed, [conf EXCEPT ![f] = val])
                /\ UNCHANGED failed
             \/ NotSent /\ failed' = TRUE
      PROVE  ShownInv'
  <2>1. job[w] = Idle /\ Shows(told, failed, conf)
    BY <1>1, IdleShows DEF CanCall
  <2>2. After(w)' = conf' /\ Watched \subseteq DOMAIN conf' /\ JobInv'
    BY <1>1, <2>1 DEF After, ShownInv, JobInv
  <2>3. ToldShape(told') /\ Shows(told', failed', conf')
    BY <1>1, <2>1, ShowsFirst DEF NotSent, ShownInv
  <2> QED BY <1>1, <2>2, <2>3, ShownStep DEF OneWriter
<1>2. ASSUME CanCall(w)
      PROVE  /\ Shows(told, failed, conf) /\ Watched \subseteq DOMAIN conf /\ ToldShape(told)
  BY <1>2, IdleShows DEF CanCall, ShownInv
<1>3. CASE PsTimeout(w)
  <2>1. PICK val : StoreFirst(w, "ps_timeout", val, SetPowerSaveTimeout(val))
    BY <1>3 DEF PsTimeout
  <2>2. ASSUME SetPowerSaveTimeout(val), CanCall(w)
        PROVE  ToldShape(told') /\ Shows(told', failed, [conf EXCEPT !["ps_timeout"] = val])
    <3>1. told' = [told EXCEPT !.ps_timeout = val]
      BY <2>2 DEF SetPowerSaveTimeout, Sent
    <3>2. ToldShape([told EXCEPT !.ps_timeout = val])
      BY <1>2, <2>2, ShapeKept
    <3>3. Shows([told EXCEPT !.ps_timeout = val], failed, [conf EXCEPT !["ps_timeout"] = val])
      BY <1>2, <2>2, ShowsFirst
    <3> QED BY <3>1, <3>2, <3>3
  <2> QED BY <1>1, <2>1, <2>2 DEF StoreFirst
<1>4. CASE PsListenInterval(w)
  <2>1. PICK val : StoreFirst(w, "ps_listen_interval", val, SetListenInterval(val))
    BY <1>4 DEF PsListenInterval
  <2>2. ASSUME SetListenInterval(val), CanCall(w)
        PROVE  ToldShape(told') /\ Shows(told', failed, [conf EXCEPT !["ps_listen_interval"] = val])
    <3>1. told' = [told EXCEPT !.ps_listen_interval = val]
      BY <2>2 DEF SetListenInterval, Sent
    <3>2. ToldShape([told EXCEPT !.ps_listen_interval = val])
      BY <1>2, <2>2, ShapeKept
    <3>3. Shows([told EXCEPT !.ps_listen_interval = val], failed, [conf EXCEPT !["ps_listen_interval"] = val])
      BY <1>2, <2>2, ShowsFirst
    <3> QED BY <3>1, <3>2, <3>3
  <2> QED BY <1>1, <2>1, <2>2 DEF StoreFirst
<1>5. CASE PsWakeupMode(w)
  <2>1. PICK val : StoreFirst(w, "ps_wakeup_mode", val, SetPsWakeupMode(val))
    BY <1>5 DEF PsWakeupMode
  <2>2. ASSUME SetPsWakeupMode(val), CanCall(w)
        PROVE  ToldShape(told') /\ Shows(told', failed, [conf EXCEPT !["ps_wakeup_mode"] = val])
    <3>1. told' = [told EXCEPT !.ps_wakeup_mode = val]
      BY <2>2 DEF SetPsWakeupMode, Sent
    <3>2. ToldShape([told EXCEPT !.ps_wakeup_mode = val])
      BY <1>2, <2>2, ShapeKept
    <3>3. Shows([told EXCEPT !.ps_wakeup_mode = val], failed, [conf EXCEPT !["ps_wakeup_mode"] = val])
      BY <1>2, <2>2, ShowsFirst
    <3> QED BY <3>1, <3>2, <3>3
  <2> QED BY <1>1, <2>1, <2>2 DEF StoreFirst
<1> QED BY <1>3, <1>4, <1>5

(* cfg80211's commands. *)
LEMMA Cfg80211KeepsShown ==
  ASSUME OneWriter, ShownInv, build = "regular", SetPowerMgmt \/ CfgSetWiphyParams \/ SetQosMap
  PROVE  ShownInv'
<1>1. UNCHANGED <<build, conf, job, failed>>
  BY DEF SetPowerMgmt, CfgSetWiphyParams, SetQosMap, Cfg80211
<1>2. PICK w : Writer = {w}
  BY DEF OneWriter
<1>3. Shows(told, failed, After(w)) /\ ToldShape(told) /\ Watched \subseteq DOMAIN After(w)
  BY <1>2 DEF ShownInv, After
<1>4. PICK c : c = After(w)
  OBVIOUS
<1>5. Shows(told, failed, c) /\ ToldShape(told) /\ Watched \subseteq DOMAIN c
  BY <1>3, <1>4
<1>6. \/ told' = told
      \/ \E val : told' = [told EXCEPT !.power_save = val, !.by.power_save = "cfg80211"]
      \/ \E val : told' = [told EXCEPT !.rts_threshold = val, !.by.rts_threshold = "cfg80211"]
      \/ \E val : told' = [told EXCEPT !.qos_map = val]
  BY DEF SetPowerMgmt, CfgSetWiphyParams, SetQosMap, Cfg80211, SetPowerSave, SetWiphyParams,
         Sent, NotSent
<1>7. Shows(told', failed, c) /\ ToldShape(told')
  <2>1. CASE told' = told
    BY <1>5, <2>1
  <2>2. ASSUME NEW val, told' = [told EXCEPT !.power_save = val, !.by.power_save = "cfg80211"]
        PROVE  Shows(told', failed, c) /\ ToldShape(told')
    <3>1. Shows([told EXCEPT !.power_save = val, !.by.power_save = "cfg80211"], failed, c)
      BY <1>5, ShowsCfg80211
    <3>2. ToldShape([told EXCEPT !.power_save = val, !.by.power_save = "cfg80211"])
      BY <1>5, ShapeKept
    <3> QED BY <2>2, <3>1, <3>2
  <2>3. ASSUME NEW val,
               told' = [told EXCEPT !.rts_threshold = val, !.by.rts_threshold = "cfg80211"]
        PROVE  Shows(told', failed, c) /\ ToldShape(told')
    <3>1. Shows([told EXCEPT !.rts_threshold = val, !.by.rts_threshold = "cfg80211"], failed, c)
      BY <1>5, ShowsCfg80211
    <3>2. ToldShape([told EXCEPT !.rts_threshold = val, !.by.rts_threshold = "cfg80211"])
      BY <1>5, ShapeKept
    <3> QED BY <2>3, <3>1, <3>2
  <2>4. ASSUME NEW val, told' = [told EXCEPT !.qos_map = val]
        PROVE  Shows(told', failed, c) /\ ToldShape(told')
    <3>1. Shows([told EXCEPT !.qos_map = val], failed, c)
      BY <1>5, ShowsCfg80211
    <3>2. ToldShape([told EXCEPT !.qos_map = val])
      BY <1>5, ShapeKept
    <3> QED BY <2>4, <3>1, <3>2
  <2> QED BY <1>6, <2>1, <2>2, <2>3, <2>4
<1>8. After(w)' = c
  BY <1>1, <1>4 DEF After
<1> QED BY <1>1, <1>2, <1>7, <1>8, ShownStep DEF ShownInv, JobInv

(* The queries. *)
LEMMA QueriesKeepShown ==
  ASSUME ShownInv, UNCHANGED <<build, conf, job, told, failed>>
  PROVE  ShownInv'
BY DEF ShownInv, JobInv, After

LEMMA ShownNext ==
  ASSUME OneWriter, ShownInv, [Next]_<<confVars, settingsVars, rtVars>>
  PROVE  ShownInv'
<1>1. CASE UNCHANGED <<confVars, settingsVars, rtVars>>
  BY <1>1, QueriesKeepShown DEF confVars, settingsVars
<1>2. CASE build # "regular" /\ RtNext
  BY <1>2, BuildStays DEF ShownInv
<1>3. CASE build = "regular" /\ SettingsNext
  <2>1. ASSUME NEW w \in Writer, ConfStore(w) /\ UNCHANGED settingsVars PROVE ShownInv'
    BY <1>3, <2>1, ConfStoreStores, StoresKeepsShown DEF settingsVars
  <2>2. ASSUME NEW w \in Writer,
               \/ SetHeLtfGi(w) \/ PowerSave(w) \/ RtsThreshold(w) \/ UapsdQueue(w)
               \/ TxPktMcs(w) \/ TxPktRate(w) \/ StoreProgrammed(w)
               \/ PsTimeout(w) \/ PsListenInterval(w) \/ PsWakeupMode(w)
        PROVE  ShownInv'
    BY <1>3, <2>2, ProgramKeepsShown, FixedRateKeepsShown, StoreProgrammedKeepsShown,
       StoreFirstKeepsShown
  <2>3. CASE SetPowerMgmt \/ CfgSetWiphyParams \/ SetQosMap
    BY <1>3, <2>3, Cfg80211KeepsShown
  <2>4. CASE GetStation \/ GetStationReturns \/ GetStationTimeout \/ RpuAnswers
             \/ GetStationCallback \/ StatsProcess
    BY <2>4, QueriesKeepShown DEF GetStation, GetStationReturns, GetStationTimeout,
       RpuAnswers, GetStationCallback, StatsProcess
  <2>5. ASSUME NEW r \in Reader, StatsGet(r) \/ StatsSend(r) \/ StatsReturns(r) \/ StatsTimeout(r)
        PROVE  ShownInv'
    BY <2>5, QueriesKeepShown DEF StatsGet, StatsSend, StatsReturns, StatsTimeout
  <2> QED BY <1>3, <2>1, <2>2, <2>3, <2>4, <2>5 DEF SettingsNext
<1> QED BY <1>1, <1>2, <1>3 DEF Next

(* "conf" shows what the RPU was told, once no write is under way: with one *)
(* writer of the file, and cfg80211 changing the same settings in between.  *)
THEOREM FileIsTruthful ==
  ASSUME OneWriter
  PROVE  Spec => []ShownIsTold
<1>1. Init => ShownInv
  BY ShownInit
<1>2. ShownInv /\ [Next]_<<confVars, settingsVars, rtVars>> => ShownInv'
  BY ShownNext
<1>3. ShownInv => ShownIsTold
  <2> SUFFICES ASSUME ShownInv, build = "regular", Quiescent PROVE ShownIsTold
    BY DEF ShownIsTold
  <2>1. Shows(told, failed, conf)
    BY IdleShows DEF Quiescent, OneWriter
  <2> QED BY <2>1 DEF Shows, ShownIsTold, ShownRate
<1> QED BY <1>1, <1>2, <1>3, PTL DEF Spec

-----------------------------------------------------------------------------
(* The radio test: whose status it is                                        *)

RadioKinds == {"tx", "rx", "init"}
Tests == {"RX_ADC_CAP", "RX_STAT_PKT_CAP", "RX_DYN_PKT_CAP", "TX_TONE", "DPD",
          "GET_TEMPERATURE", "RF_RSSI", "XO_CALIB", "XO_TUNE"}
Kinds == RadioKinds \cup Tests
RtEvent == [kind : Kinds, id : Nat, ok : BOOLEAN]

RtTypes ==
  /\ issued \in Nat
  /\ \E S : rtq \in Seq(S)
  /\ rtevq \in Seq(RtEvent)
  /\ cmd_done \in [done : BOOLEAN, ok : BOOLEAN]
  /\ rf \in [pc : {"idle", "wait"}, id : Nat, test : Tests \cup {Max}, cap : Nat,
             filled : SUBSET Nat]
  /\ DOMAIN job = Writer
  /\ \A w \in Writer : job[w] = Idle \/ (job[w].pc = "radio" /\ job[w].kind \in RadioKinds)

Entries == Held(rtq) \cup Held(rtevq)
Radios == {x \in Entries : IsRadio(x.kind)}
RfTests == {x \in Entries : ~IsRadio(x.kind)}

NumberInv ==
  /\ Line(rtq, rtevq)
  /\ \A x \in Entries : x.kind \in Kinds /\ x.id \in Nat /\ x.id <= issued
  /\ rf.id <= issued
  /\ \A w \in Writer : job[w].pc = "radio" => job[w].id \in Nat /\ job[w].id <= issued

(* What is under way is what somebody waits for.                            *)
CmdInv == \A w \in Writer, x \in Radios :
            /\ job[w].pc = "radio" /\ x.id = job[w].id /\ x.kind = job[w].kind
            /\ ~cmd_done.done
TestInv == \A x \in RfTests : rf.pc = "wait" /\ x.id = rf.id /\ x.kind = rf.test
ApartInv == \A w \in Writer : job[w].pc = "radio" /\ rf.pc = "wait" => job[w].id # rf.id

(* An event that reports success is about a command that was executed.      *)
DoneInv == \A x \in Held(rtevq) : /\ x.ok => x.id \in executed
                                  /\ ~IsRadio(x.kind) => x.ok

OwnInv == CmdInv /\ TestInv /\ ApartInv /\ DoneInv /\ SuccessIsOwn

StatusInv == IF build = "regular" THEN ~cmd_done.done /\ rf.pc = "idle"
             ELSE RtTypes /\ NumberInv /\ (late \/ OwnInv)

(* The tests are not radio commands, nor is the end of the types. *)
LEMMA TestKinds ==
  /\ \A k \in Tests : ~IsRadio(k) /\ k # Max
  /\ \A k \in RadioKinds : IsRadio(k)
  /\ \A k \in Kinds : IsRadio(k) => k \in RadioKinds
  /\ \A k \in Kinds : ~IsRadio(k) => k \in Tests
BY DEF Tests, IsRadio, Max, RadioKinds, Kinds

LEMMA StatusInit == ASSUME Init PROVE StatusInv
<1> USE DEF Init, RtInit, ConfInit
<1>1. ~cmd_done.done /\ rf.pc = "idle" /\ rf.id = 0
  BY DEF NoTest
<1>2. Entries = {} /\ Held(rtevq) = {} /\ Line(rtq, rtevq)
  BY EmptyLine DEF Entries
<1>3. \A w \in Writer : job[w].pc = "idle" /\ job[w] = Idle
  BY DEF Idle
<1>4. RtTypes
  <2>1. rf \in [pc : {"idle", "wait"}, id : Nat, test : Tests \cup {Max}, cap : Nat,
                filled : SUBSET Nat]
    BY DEF NoTest, Null
  <2>2. cmd_done \in [done : BOOLEAN, ok : BOOLEAN] /\ DOMAIN job = Writer /\ issued \in Nat
    OBVIOUS
  <2>3. rtq \in Seq({}) /\ rtevq \in Seq(RtEvent)
    OBVIOUS
  <2>4. \E S : rtq \in Seq(S)
    BY <2>3
  <2> HIDE DEF Init, RtInit, ConfInit
  <2>5. \A w \in Writer :
          job[w] = Idle \/ (job[w].pc = "radio" /\ job[w].kind \in RadioKinds)
    BY <1>3
  <2> QED BY <2>1, <2>2, <2>3, <2>4, <2>5 DEF RtTypes
<1>5. NumberInv
  BY <1>1, <1>2, <1>3 DEF NumberInv
<1>6. OwnInv
  BY <1>1, <1>2, <1>3 DEF OwnInv, CmdInv, TestInv, ApartInv, DoneInv, SuccessIsOwn, Radios, RfTests
<1> QED BY <1>1, <1>4, <1>5, <1>6 DEF StatusInv

(* A step that leaves all this alone. *)
LEMMA StatusUnmoved ==
  ASSUME StatusInv, UNCHANGED <<build, job>>, UNCHANGED rtVars
  PROVE  StatusInv'
BY DEF StatusInv, RtTypes, NumberInv, OwnInv, CmdInv, TestInv, ApartInv, DoneInv, SuccessIsOwn,
       Radios, RfTests, Entries, rtVars

(* The regular build sends nothing of this kind. *)
LEMMA StatusRegular ==
  ASSUME StatusInv, build = "regular", UNCHANGED build, UNCHANGED rtVars
  PROVE  StatusInv'
BY DEF StatusInv, rtVars

(* A command is issued. *)
LEMMA IssueKeeps ==
  ASSUME RtTypes, NumberInv, NEW kind \in Kinds, NEW params, issued' = issued + 1,
         rtq' = Append(rtq, [kind |-> kind, id |-> issued + 1, params |-> params]),
         rtevq' = rtevq
  PROVE  /\ \E S : rtq' \in Seq(S)
         /\ Line(rtq', rtevq') /\ Held(rtevq') = Held(rtevq)
         /\ Held(rtq') =
              Held(rtq) \cup {[kind |-> kind, id |-> issued + 1, params |-> params]}
         /\ \A x \in Entries' : x.kind \in Kinds /\ x.id \in Nat /\ x.id <= issued'
<1> DEFINE x == [kind |-> kind, id |-> issued + 1, params |-> params]
<1>1. issued \in Nat /\ x.id = issued + 1 /\ x.kind = kind
  BY DEF RtTypes
<1> HIDE DEF x
<1>2. PICK S : rtq \in Seq(S)
  BY DEF RtTypes
<1>3. rtq \in Seq(S \cup {x})
  BY <1>2
<1>4. \A y \in Entries : y.kind \in Kinds /\ y.id \in Nat /\ y.id <= issued
  BY DEF NumberInv
<1>5. \A y \in Held(rtq) \cup Held(rtevq) : y.id < x.id
  BY <1>1, <1>4 DEF Entries
<1>6. rtq' = Append(rtq, x)
  BY DEF x
<1>7. Append(rtq, x) \in Seq(S \cup {x})
  BY <1>3, AppendProperties
<1>8. Line(Append(rtq, x), rtevq) /\ Held(Append(rtq, x)) = Held(rtq) \cup {x}
  BY <1>3, <1>5, LineGrows DEF NumberInv
<1>9. Entries' = Entries \cup {x}
  BY <1>6, <1>8 DEF Entries
<1>10. x.kind \in Kinds /\ x.id \in Nat /\ x.id <= issued'
  BY <1>1
<1>11. \A y \in Entries : y.id <= issued'
  BY <1>1, <1>4
<1> QED BY <1>4, <1>6, <1>7, <1>8, <1>9, <1>10, <1>11 DEF x

(* The first event is taken. *)
LEMMA EventKeeps ==
  ASSUME RtTypes, NumberInv, rtevq # <<>>, rtevq' = Tail(rtevq), rtq' = rtq, issued' = issued
  PROVE  /\ rtevq' \in Seq(RtEvent) /\ Line(rtq', rtevq')
         /\ Head(rtevq) \in Held(rtevq) /\ Head(rtevq) \in RtEvent
         /\ Entries' \subseteq Entries /\ Held(rtevq') \subseteq Held(rtevq)
         /\ \A x \in Entries' : x.kind \in Kinds /\ x.id \in Nat /\ x.id <= issued'
         /\ \A x \in Entries' : Head(rtevq).id < x.id
<1>1. rtevq \in Seq(RtEvent) /\ Line(rtq, rtevq)
  BY DEF RtTypes, NumberInv
<1>2. /\ Line(rtq, Tail(rtevq)) /\ Held(Tail(rtevq)) \subseteq Held(rtevq)
      /\ Head(rtevq) \in Held(rtevq)
      /\ \A y \in Held(rtq) \cup Held(Tail(rtevq)) : Head(rtevq).id < y.id
  BY <1>1, LineShrinks
<1>3. Tail(rtevq) \in Seq(RtEvent) /\ Head(rtevq) \in RtEvent
  BY <1>1, HeadTailProperties
<1> QED BY <1>1, <1>2, <1>3 DEF Entries, NumberInv

(* An entry with the number of the first event is that event. *)
LEMMA FirstIsAlone ==
  ASSUME NEW S, NEW e, e.id \in Nat, \A x \in S : e.id < x.id
  PROVE  \A x \in S : x.id # e.id
OBVIOUS

(* Somebody's command is issued; the writer waits for it, and the flag is   *)
(* reset.                                                                   *)
LEMMA RadioCmdKeeps ==
  ASSUME OneWriter, StatusInv, build # "regular", NEW w \in Writer, CanCall(w),
         NEW kind \in RadioKinds, NEW params, RadioCmd(w, kind, params)
  PROVE  StatusInv'
<1> USE DEF StatusInv
<1>1. /\ job[w] = Idle /\ issued' = issued + 1
      /\ cmd_done' = [cmd_done EXCEPT !.done = FALSE]
      /\ UNCHANGED <<build, rf, rtevq, executed, late>>
  BY DEF CanCall, RadioCmd, Settled
<1>2. \A v \in Writer : v = w
  BY DEF OneWriter
<1>3. cmd_done' \in [done : BOOLEAN, ok : BOOLEAN] /\ cmd_done'.done = FALSE
  BY <1>1 DEF RtTypes
<1>4. job[w].pc = "idle" /\ issued \in Nat /\ issued' \in Nat
  BY <1>1 DEF Idle, RtTypes
<1>5. ASSUME OwnInv PROVE Radios = {}
  BY <1>4, <1>5 DEF OwnInv, CmdInv
<1>6. rf.id \in Nat /\ rf.id <= issued /\ rf'.id <= issued' /\ rf.id < issued + 1
  BY <1>1, <1>4 DEF RtTypes, NumberInv
<1>7. CASE UNCHANGED <<rtq, job>>
  <2>1. Entries' = Entries /\ Radios' = Radios /\ RfTests' = RfTests
    BY <1>1, <1>7 DEF Entries, Radios, RfTests
  <2>2. RtTypes'
    BY <1>1, <1>3, <1>4, <1>7 DEF RtTypes
  <2>3. \A x \in Entries : x.id \in Nat /\ x.id <= issued'
    BY <1>1, <1>4 DEF NumberInv
  <2>4. NumberInv'
    BY <1>1, <1>2, <1>4, <1>6, <1>7, <2>1, <2>3 DEF NumberInv
  <2>5. ASSUME OwnInv PROVE OwnInv'
    BY <1>1, <1>2, <1>3, <1>4, <1>5, <1>7, <2>1, <2>5
    DEF OwnInv, CmdInv, TestInv, ApartInv, DoneInv, SuccessIsOwn
  <2> QED BY <1>1, <2>2, <2>4, <2>5
<1>8. CASE /\ rtq' = Append(rtq, [kind |-> kind, id |-> issued + 1, params |-> params])
           /\ job' = [job EXCEPT ![w] = [pc |-> "radio", kind |-> kind, id |-> issued + 1]]
  <2> DEFINE x == [kind |-> kind, id |-> issued + 1, params |-> params]
  <2>1. kind \in Kinds /\ IsRadio(kind)
    BY TestKinds DEF Kinds
  <2>2. /\ \E S : rtq' \in Seq(S)
        /\ Line(rtq', rtevq') /\ Held(rtevq') = Held(rtevq)
        /\ Held(rtq') = Held(rtq) \cup {x}
        /\ \A y \in Entries' : y.kind \in Kinds /\ y.id \in Nat /\ y.id <= issued'
    BY <1>1, <1>8, <2>1, IssueKeeps
  <2>3. x.kind = kind /\ x.id = issued + 1
    OBVIOUS
  <2> HIDE DEF x
  <2>4. /\ DOMAIN job' = Writer /\ job'[w].pc = "radio" /\ job'[w].kind = kind
        /\ job'[w].id = issued + 1
    BY <1>8 DEF RtTypes
  <2>5. Radios' = Radios \cup {x} /\ RfTests' = RfTests
    BY <2>1, <2>2, <2>3 DEF Radios, RfTests, Entries
  <2>6. RtTypes'
    BY <1>1, <1>2, <1>3, <1>4, <2>2, <2>4 DEF RtTypes
  <2>7. NumberInv'
    BY <1>1, <1>2, <1>4, <1>6, <2>2, <2>4 DEF NumberInv
  <2>8. ASSUME OwnInv PROVE OwnInv'
    <3>1. CmdInv'
      BY <1>2, <1>3, <1>5, <2>3, <2>4, <2>5, <2>8 DEF CmdInv
    <3>2. TestInv' /\ DoneInv'
      BY <1>1, <2>2, <2>5, <2>8 DEF OwnInv, TestInv, DoneInv
    <3>3. ApartInv'
      BY <1>1, <1>2, <1>6, <2>4 DEF ApartInv
    <3>4. SuccessIsOwn'
      BY <1>1, <1>3, <2>8 DEF OwnInv, SuccessIsOwn
    <3> QED BY <3>1, <3>2, <3>3, <3>4 DEF OwnInv
  <2> QED BY <1>1, <2>6, <2>7, <2>8
<1> QED BY <1>7, <1>8 DEF RadioCmd

(* The wait ends with a status, which is the last thing under way. *)
LEMMA RadioDoneKeeps ==
  ASSUME OneWriter, StatusInv, build # "regular", NEW w \in Writer, RadioDone(w)
  PROVE  StatusInv'
<1> USE DEF StatusInv
<1>1. /\ job[w].pc = "radio" /\ cmd_done.done /\ executed' = executed \ {job[w].id}
      /\ job' = [job EXCEPT ![w] = Idle]
      /\ UNCHANGED <<build, cmd_done, rf, rtq, rtevq, issued, late>>
  BY DEF RadioDone
<1>2. \A v \in Writer : v = w
  BY DEF OneWriter
<1>3. DOMAIN job' = Writer /\ job'[w] = Idle /\ job'[w].pc = "idle"
  BY <1>1 DEF RtTypes, Idle
<1>4. Entries' = Entries /\ Radios' = Radios /\ RfTests' = RfTests
  BY <1>1 DEF Entries, Radios, RfTests
<1>5. RtTypes' /\ NumberInv'
  <2>1. \E S : rtq' \in Seq(S)
    BY <1>1 DEF RtTypes
  <2>2. \A v \in Writer : job'[v] = Idle /\ job'[v].pc = "idle"
    BY <1>2, <1>3
  <2>3. RtTypes'
    BY <1>1, <1>3, <2>1, <2>2 DEF RtTypes
  <2>4. NumberInv'
    BY <1>1, <1>4, <2>2 DEF NumberInv
  <2> QED BY <2>3, <2>4
<1>6. ASSUME OwnInv PROVE OwnInv'
  <2>1. Radios = {} /\ (rf.pc = "wait" => job[w].id # rf.id)
    BY <1>1, <1>6 DEF OwnInv, CmdInv, ApartInv
  <2>2. CmdInv' /\ TestInv' /\ ApartInv'
    BY <1>1, <1>2, <1>3, <1>4, <1>6, <2>1 DEF OwnInv, CmdInv, TestInv, ApartInv
  <2>3. \A x \in Held(rtevq) : x \in RfTests
    BY <2>1 DEF Radios, RfTests, Entries
  <2>4. DoneInv'
    BY <1>1, <1>6, <2>1, <2>3 DEF OwnInv, DoneInv, TestInv
  <2>5. SuccessIsOwn'
    BY <1>1, <1>2, <1>3, <1>6, <2>1 DEF OwnInv, SuccessIsOwn
  <2> QED BY <2>2, <2>4, <2>5 DEF OwnInv
<1> QED BY <1>1, <1>5, <1>6

(* Two waits that give up. *)
LEMMA RadioTimeoutKeeps ==
  ASSUME OneWriter, StatusInv, build # "regular", NEW w \in Writer, RadioTimeout(w)
  PROVE  StatusInv'
<1> USE DEF StatusInv
<1>1. /\ job' = [job EXCEPT ![w] = Idle] /\ late' = TRUE
      /\ UNCHANGED <<build, cmd_done, rf, rtq, rtevq, issued>>
  BY DEF RadioTimeout
<1>2. \A v \in Writer : v = w
  BY DEF OneWriter
<1>3. DOMAIN job' = Writer /\ job'[w] = Idle /\ job'[w].pc = "idle"
  BY <1>1 DEF RtTypes, Idle
<1>4. Entries' = Entries
  BY <1>1 DEF Entries
<1>5. RtTypes' /\ NumberInv'
  <2>1. \E S : rtq' \in Seq(S)
    BY <1>1 DEF RtTypes
  <2>2. \A v \in Writer : job'[v] = Idle /\ job'[v].pc = "idle"
    BY <1>2, <1>3
  <2>3. RtTypes'
    BY <1>1, <1>3, <2>1, <2>2 DEF RtTypes
  <2>4. NumberInv'
    BY <1>1, <1>4, <2>2 DEF NumberInv
  <2> QED BY <2>3, <2>4
<1> QED BY <1>1, <1>5

LEMMA RfTestTimeoutKeeps ==
  ASSUME StatusInv, build # "regular", RfTestTimeout
  PROVE  StatusInv'
<1> USE DEF StatusInv
<1>1. /\ rf' = NoTest /\ late' = TRUE
      /\ UNCHANGED <<build, job, cmd_done, rtq, rtevq, issued>>
  BY DEF RfTestTimeout
<1>2. /\ NoTest \in [pc : {"idle", "wait"}, id : Nat, test : Tests \cup {Max}, cap : Nat,
                     filled : SUBSET Nat]
      /\ NoTest.id = 0
  BY DEF NoTest, Null
<1>3. Entries' = Entries
  BY <1>1 DEF Entries
<1>4. RtTypes'
  BY <1>1, <1>2 DEF RtTypes
<1>5. NumberInv'
  <2>1. rf'.id <= issued'
    BY <1>1, <1>2 DEF RtTypes
  <2> QED BY <1>1, <1>3, <2>1 DEF NumberInv
<1> QED BY <1>1, <1>4, <1>5

(* An RF test is set up and sent, or not sent. *)
LEMMA RfTestKeeps ==
  ASSUME StatusInv, build # "regular", NEW test \in Tests, NEW cap \in Nat, RfTest(test, cap)
  PROVE  StatusInv'
<1> USE DEF StatusInv
<1> DEFINE set == [pc |-> "wait", id |-> issued + 1, test |-> test, cap |-> cap, filled |-> {}]
           type == [pc : {"idle", "wait"}, id : Nat, test : Tests \cup {Max}, cap : Nat,
                    filled : SUBSET Nat]
           x == [kind |-> test, id |-> issued + 1, params |-> Off]
<1>1. /\ rf.pc = "idle" /\ issued' = issued + 1
      /\ UNCHANGED <<build, job, cmd_done, rtevq, executed, late>>
      /\ \/ rtq' = Append(rtq, x) /\ rf' = set
         \/ rf' = [set EXCEPT !.pc = "idle"] /\ rtq' = rtq
  BY DEF RfTest, Settled
<1>2. issued \in Nat /\ issued' \in Nat
  BY <1>1 DEF RtTypes
<1>3. /\ set \in type /\ [set EXCEPT !.pc = "idle"] \in type
      /\ set.id = issued + 1 /\ set.pc = "wait" /\ set.test = test
      /\ [set EXCEPT !.pc = "idle"].id = issued + 1
      /\ [set EXCEPT !.pc = "idle"].pc = "idle"
  BY <1>2
<1>4. x.kind = test /\ x.id = issued + 1 /\ ~IsRadio(test) /\ test \in Kinds /\ test # Max
  BY TestKinds DEF Kinds
<1>5. \A w \in Writer : job[w].pc = "radio" =>
        job[w].id \in Nat /\ job[w].id <= issued /\ job[w].id <= issued' /\ job[w].id # issued + 1
  BY <1>1, <1>2 DEF NumberInv
<1>6. ASSUME OwnInv PROVE RfTests = {}
  BY <1>1, <1>6 DEF OwnInv, TestInv
<1>7. CASE rf' = [set EXCEPT !.pc = "idle"] /\ rtq' = rtq
  <2>1. Entries' = Entries /\ Radios' = Radios /\ RfTests' = RfTests
    BY <1>1, <1>7 DEF Entries, Radios, RfTests
  <2>2. rf' \in type /\ rf'.id <= issued' /\ rf'.pc = "idle"
    BY <1>1, <1>2, <1>3, <1>7
  <2> HIDE DEF set, x
  <2>3. RtTypes'
    BY <1>1, <1>2, <1>7, <2>2 DEF RtTypes
  <2>4. \A y \in Entries : y.id \in Nat /\ y.id <= issued'
    BY <1>1, <1>2 DEF NumberInv
  <2>5. NumberInv'
    BY <1>1, <1>5, <1>7, <2>1, <2>2, <2>4 DEF NumberInv
  <2>6. ASSUME OwnInv PROVE OwnInv'
    BY <1>1, <1>6, <2>1, <2>2, <2>6
    DEF OwnInv, CmdInv, TestInv, ApartInv, DoneInv, SuccessIsOwn
  <2> QED BY <1>1, <2>3, <2>5, <2>6
<1>8. CASE rtq' = Append(rtq, x) /\ rf' = set
  <2>1. /\ \E S : rtq' \in Seq(S)
        /\ Line(rtq', rtevq') /\ Held(rtevq') = Held(rtevq)
        /\ Held(rtq') = Held(rtq) \cup {x}
        /\ \A y \in Entries' : y.kind \in Kinds /\ y.id \in Nat /\ y.id <= issued'
    BY <1>1, <1>4, <1>8, IssueKeeps
  <2>2. rf' \in type /\ rf'.id = issued + 1 /\ rf'.id <= issued' /\ rf'.test = test
        /\ rf'.pc = "wait"
    BY <1>1, <1>2, <1>3, <1>8
  <2> HIDE DEF set, x
  <2>3. Radios' = Radios /\ RfTests' = RfTests \cup {x}
    BY <1>4, <2>1 DEF Radios, RfTests, Entries
  <2>4. RtTypes'
    BY <1>1, <1>2, <2>1, <2>2 DEF RtTypes
  <2>5. NumberInv'
    BY <1>1, <1>5, <2>1, <2>2 DEF NumberInv
  <2>6. ASSUME OwnInv PROVE OwnInv'
    <3>1. CmdInv' /\ TestInv'
      BY <1>1, <1>4, <1>6, <2>2, <2>3, <2>6 DEF OwnInv, CmdInv, TestInv
    <3>2. ApartInv' /\ DoneInv'
      BY <1>1, <1>5, <2>1, <2>2, <2>6 DEF OwnInv, ApartInv, DoneInv
    <3>3. SuccessIsOwn'
      BY <1>1, <1>4, <2>2, <2>6 DEF OwnInv, SuccessIsOwn
    <3> QED BY <3>1, <3>2, <3>3 DEF OwnInv
  <2> QED BY <1>1, <2>4, <2>5, <2>6
<1> QED BY <1>1, <1>7, <1>8

(* An RF test ends. *)
LEMMA RfTestDoneKeeps ==
  ASSUME OneWriter, StatusInv, build # "regular", RfTestDone
  PROVE  StatusInv'
<1> USE DEF StatusInv
<1>1. /\ rf.pc = "wait" /\ rf.test = Max /\ executed' = executed \ {rf.id} /\ rf' = NoTest
      /\ UNCHANGED <<build, job, cmd_done, rtq, rtevq, issued, late>>
  BY DEF RfTestDone
<1>2. /\ NoTest \in [pc : {"idle", "wait"}, id : Nat, test : Tests \cup {Max}, cap : Nat,
                     filled : SUBSET Nat]
      /\ NoTest.id = 0 /\ NoTest.pc = "idle"
  BY DEF NoTest, Null
<1>3. Entries' = Entries /\ Radios' = Radios /\ RfTests' = RfTests
  BY <1>1 DEF Entries, Radios, RfTests
<1>4. RtTypes'
  BY <1>1, <1>2 DEF RtTypes
<1>5. NumberInv'
  <2>1. rf'.id <= issued'
    BY <1>1, <1>2 DEF RtTypes
  <2> QED BY <1>1, <1>3, <2>1 DEF NumberInv
<1>6. ASSUME OwnInv PROVE OwnInv'
  <2>1. RfTests = {}
    <3>1. ASSUME NEW x \in RfTests PROVE FALSE
      <4>1. x.kind \in Tests
        BY TestKinds DEF RfTests, NumberInv
      <4>2. x.kind = Max
        BY <1>1, <1>6 DEF OwnInv, TestInv
      <4> QED BY <4>1, <4>2, TestKinds
    <3> QED BY <3>1
  <2>2. \A w \in Writer : job[w].pc = "radio" => job[w].id # rf.id
    BY <1>1, <1>6 DEF OwnInv, ApartInv
  <2>3. CmdInv' /\ TestInv' /\ ApartInv'
    BY <1>1, <1>2, <1>3, <1>6, <2>1 DEF OwnInv, CmdInv, TestInv, ApartInv
  <2>4. DoneInv'
    <3>1. ASSUME NEW x \in Held(rtevq)' PROVE (x.ok => x.id \in executed') /\ IsRadio(x.kind)
      <4>1. x \in Held(rtevq) /\ x \in Radios
        BY <1>1, <2>1, <3>1 DEF Radios, RfTests, Entries
      <4>2. x.ok => x.id \in executed
        BY <1>6, <4>1 DEF OwnInv, DoneInv
      <4>3. x.id # rf.id
        <5>1. PICK w \in Writer : TRUE
          BY DEF OneWriter
        <5>2. job[w].pc = "radio" /\ x.id = job[w].id
          BY <1>6, <4>1 DEF OwnInv, CmdInv
        <5> QED BY <2>2, <5>2
      <4> QED BY <1>1, <4>1, <4>2, <4>3 DEF Radios
    <3> QED BY <3>1 DEF DoneInv
  <2>5. SuccessIsOwn'
    BY <1>1, <1>2, <1>6, <2>2 DEF OwnInv, SuccessIsOwn
  <2> QED BY <2>3, <2>4, <2>5 DEF OwnInv
<1> QED BY <1>1, <1>4, <1>5, <1>6

(* The RPU executes a command, or refuses it, and answers or does not. *)
LEMMA RpuStepKeeps ==
  ASSUME OneWriter, StatusInv, build # "regular", RtRpuStep
  PROVE  StatusInv'
<1> USE DEF StatusInv
<1>1. PICK w : Writer = {w}
  BY DEF OneWriter
<1>2. PICK S : rtq \in Seq(S)
  BY DEF RtTypes
<1> DEFINE c == Head(rtq)
<1>3. PICK ok \in BOOLEAN, lost \in BOOLEAN :
        /\ IsRadio(c.kind) \/ ok
        /\ executed' = IF ok /\ Awaited(c.id) THEN executed \cup {c.id} ELSE executed
        /\ rtevq' = IF lost THEN rtevq
                    ELSE Append(rtevq, [kind |-> c.kind, id |-> c.id, ok |-> ok])
  BY DEF RtRpuStep
<1>4. /\ rtq # <<>> /\ rtq' = Tail(rtq)
      /\ UNCHANGED <<build, job, cmd_done, rf, issued, late>>
  BY DEF RtRpuStep
<1> DEFINE y == [kind |-> c.kind, id |-> c.id, ok |-> ok]
<1>5. c \in Held(rtq) /\ Held(Tail(rtq)) \subseteq Held(rtq) /\ Tail(rtq) \in Seq(S)
  BY <1>2, <1>4, HeldTail, HeadTailProperties
<1>6. c.kind \in Kinds /\ c.id \in Nat /\ c.id <= issued /\ c \in Entries
  BY <1>5 DEF NumberInv, Entries
<1> HIDE DEF c
<1>7. y \in RtEvent /\ y.kind = c.kind /\ y.id = c.id /\ y.ok = ok
  BY <1>6 DEF RtEvent
<1> HIDE DEF y
<1>8. rtevq' = IF lost THEN rtevq ELSE Append(rtevq, y)
  BY <1>3 DEF y
<1>9. rtevq \in Seq(RtEvent) /\ Line(rtq, rtevq)
  BY DEF RtTypes, NumberInv
<1>10. /\ Line(Tail(rtq), Append(rtevq, y)) /\ Held(Append(rtevq, y)) = Held(rtevq) \cup {y}
       /\ Line(Tail(rtq), rtevq)
  BY <1>2, <1>4, <1>7, <1>9, LineMoves DEF c
<1>11. rtevq' \in Seq(RtEvent)
  BY <1>7, <1>8, <1>9, AppendProperties
<1>12. /\ Held(rtq') \subseteq Held(rtq)
       /\ \A x \in Held(rtevq)' : x \in Held(rtevq) \/ x = y
       /\ Line(rtq', rtevq')
  BY <1>4, <1>5, <1>8, <1>10
<1>13. \A x \in Entries' : x \in Entries \/ x = y
  BY <1>12 DEF Entries
<1>14. RtTypes'
  <2>1. \E T : rtq' \in Seq(T)
    BY <1>4, <1>5
  <2> QED BY <1>4, <1>11, <2>1 DEF RtTypes
<1>15. NumberInv'
  BY <1>4, <1>6, <1>7, <1>12, <1>13 DEF NumberInv
<1>16. ASSUME OwnInv PROVE OwnInv'
  <2>1. \A x \in Radios' : \E z \in Radios : z.id = x.id /\ z.kind = x.kind
    BY <1>6, <1>7, <1>13 DEF Radios
  <2>2. \A x \in RfTests' : \E z \in RfTests : z.id = x.id /\ z.kind = x.kind
    BY <1>6, <1>7, <1>13 DEF RfTests
  <2>3. CmdInv'
    BY <1>4, <1>16, <2>1 DEF OwnInv, CmdInv
  <2>4. TestInv'
    BY <1>4, <1>16, <2>2 DEF OwnInv, TestInv
  <2>5. ApartInv' /\ SuccessIsOwn'
    BY <1>3, <1>4, <1>16 DEF OwnInv, ApartInv, SuccessIsOwn
  <2>6. Awaited(c.id)
    <3>1. CASE c \in Radios
      BY <1>1, <1>16, <3>1 DEF OwnInv, CmdInv, Awaited
    <3>2. CASE c \in RfTests
      BY <1>16, <3>2 DEF OwnInv, TestInv, Awaited
    <3> QED BY <1>6, <3>1, <3>2 DEF Radios, RfTests
  <2>7. DoneInv'
    <3>1. ASSUME NEW x \in Held(rtevq)'
          PROVE  (x.ok => x.id \in executed') /\ (~IsRadio(x.kind) => x.ok)
      <4>1. CASE x \in Held(rtevq)
        BY <1>3, <1>16, <4>1 DEF OwnInv, DoneInv
      <4>2. CASE x = y
        BY <1>3, <1>7, <2>6, <4>2
      <4> QED BY <1>12, <3>1, <4>1, <4>2
    <3> QED BY <3>1 DEF DoneInv
  <2> QED BY <2>3, <2>4, <2>5, <2>7 DEF OwnInv
<1> QED BY <1>4, <1>14, <1>15, <1>16

(* The tasklet notes the status of a radio command. *)
LEMMA RadioCmdStatusKeeps ==
  ASSUME OneWriter, StatusInv, build # "regular", RadioCmdStatus
  PROVE  StatusInv'
<1> USE DEF StatusInv
<1>1. PICK w : Writer = {w}
  BY DEF OneWriter
<1> DEFINE e == Head(rtevq)
<1>2. /\ rtevq # <<>> /\ IsRadio(e.kind) /\ rtevq' = Tail(rtevq)
      /\ cmd_done' = [done |-> TRUE, ok |-> e.ok]
      /\ UNCHANGED <<build, job, rf, rtq, issued, executed, late>>
  BY DEF RadioCmdStatus
<1>3. /\ rtevq' \in Seq(RtEvent) /\ Line(rtq', rtevq')
      /\ e \in Held(rtevq) /\ e \in RtEvent
      /\ Entries' \subseteq Entries /\ Held(rtevq') \subseteq Held(rtevq)
      /\ \A x \in Entries' : x.kind \in Kinds /\ x.id \in Nat /\ x.id <= issued'
      /\ \A x \in Entries' : e.id < x.id
  BY <1>2, EventKeeps
<1> HIDE DEF e
<1>4. e.ok \in BOOLEAN /\ e.id \in Nat
  BY <1>3 DEF RtEvent
<1>5. RtTypes'
  BY <1>2, <1>3, <1>4 DEF RtTypes
<1>6. NumberInv'
  BY <1>2, <1>3 DEF NumberInv
<1>7. ASSUME OwnInv PROVE OwnInv'
  <2>1. e \in Radios
    BY <1>2, <1>3 DEF Radios, Entries
  <2>2. job[w].pc = "radio" /\ job[w].id = e.id
    BY <1>1, <1>7, <2>1 DEF OwnInv, CmdInv
  <2>3. Radios' = {}
    <3>1. ASSUME NEW x \in Radios' PROVE FALSE
      <4>1. x \in Radios /\ e.id < x.id
        BY <1>3, <3>1 DEF Radios
      <4>2. x.id = e.id
        BY <1>1, <1>7, <2>2, <4>1 DEF OwnInv, CmdInv
      <4> QED BY <1>4, <4>1, <4>2
    <3> QED BY <3>1
  <2>4. RfTests' \subseteq RfTests
    BY <1>3 DEF RfTests
  <2>5. CmdInv' /\ TestInv' /\ ApartInv'
    BY <1>2, <1>7, <2>3, <2>4 DEF OwnInv, CmdInv, TestInv, ApartInv
  <2>6. DoneInv'
    BY <1>2, <1>3, <1>7 DEF OwnInv, DoneInv
  <2>7. e.ok => e.id \in executed
    BY <1>3, <1>7 DEF OwnInv, DoneInv
  <2>8. SuccessIsOwn'
    BY <1>1, <1>2, <1>7, <2>2, <2>7 DEF OwnInv, SuccessIsOwn
  <2> QED BY <2>5, <2>6, <2>8 DEF OwnInv
<1> QED BY <1>2, <1>5, <1>6, <1>7

(* It ends the RF test of the type that is set. *)
LEMMA RfTestProcessKeeps ==
  ASSUME StatusInv, build # "regular", RfTestProcess
  PROVE  StatusInv'
<1> USE DEF StatusInv
<1> DEFINE e == Head(rtevq)
           type == [pc : {"idle", "wait"}, id : Nat, test : Tests \cup {Max}, cap : Nat,
                    filled : SUBSET Nat]
           filled == IF rf.cap = Null THEN {} ELSE {e.id}
<1>2. /\ rtevq # <<>> /\ ~IsRadio(e.kind) /\ rtevq' = Tail(rtevq)
      /\ rf' = IF e.kind # rf.test THEN rf ELSE [rf EXCEPT !.test = Max, !.filled = filled]
      /\ UNCHANGED <<build, job, cmd_done, rtq, issued, executed, late>>
  BY DEF RfTestProcess
<1>3. /\ rtevq' \in Seq(RtEvent) /\ Line(rtq', rtevq')
      /\ e \in Held(rtevq) /\ e \in RtEvent
      /\ Entries' \subseteq Entries /\ Held(rtevq') \subseteq Held(rtevq)
      /\ \A x \in Entries' : x.kind \in Kinds /\ x.id \in Nat /\ x.id <= issued'
      /\ \A x \in Entries' : e.id < x.id
  BY <1>2, EventKeeps
<1> HIDE DEF e
<1>4. e.id \in Nat /\ e.kind \in Kinds
  BY <1>3 DEF RtEvent
<1>5. rf \in type
  BY DEF RtTypes
<1>6. rf' \in type /\ rf'.id = rf.id /\ rf'.pc = rf.pc
  <2>1. filled \in SUBSET Nat
    BY <1>4
  <2> HIDE DEF filled
  <2> QED BY <1>2, <1>5, <2>1
<1>7. RtTypes'
  <2> HIDE DEF filled
  <2> QED BY <1>2, <1>3, <1>6 DEF RtTypes
<1>8. NumberInv'
  BY <1>2, <1>3, <1>6 DEF NumberInv
<1>9. ASSUME OwnInv PROVE OwnInv'
  <2>1. e \in RfTests
    BY <1>2, <1>3 DEF RfTests, Entries
  <2>2. rf.pc = "wait" /\ rf.id = e.id /\ e.kind = rf.test
    BY <1>9, <2>1 DEF OwnInv, TestInv
  <2>3. RfTests' = {}
    <3>1. ASSUME NEW x \in RfTests' PROVE FALSE
      <4>1. x \in RfTests /\ e.id < x.id
        BY <1>3, <3>1 DEF RfTests
      <4>2. x.id = e.id
        BY <1>9, <2>2, <4>1 DEF OwnInv, TestInv
      <4> QED BY <1>4, <4>1, <4>2
    <3> QED BY <3>1
  <2>4. Radios' \subseteq Radios
    BY <1>3 DEF Radios
  <2>5. CmdInv' /\ TestInv' /\ ApartInv'
    BY <1>2, <1>6, <1>9, <2>3, <2>4 DEF OwnInv, CmdInv, TestInv, ApartInv
  <2>6. DoneInv'
    BY <1>2, <1>3, <1>9 DEF OwnInv, DoneInv
  <2>7. e.id \in executed
    BY <1>2, <1>3, <1>9 DEF OwnInv, DoneInv
  <2>8. rf'.cap # Null => rf'.filled = {rf.id}
    BY <1>2, <1>5, <2>2
  <2>9. SuccessIsOwn'
    BY <1>2, <1>6, <1>9, <2>2, <2>7, <2>8 DEF OwnInv, SuccessIsOwn
  <2> QED BY <2>5, <2>6, <2>9 DEF OwnInv
<1> QED BY <1>2, <1>7, <1>8, <1>9

(* The parameters that only the radio test has. *)
RtStored == {"op_mode", "primary", "bw", "sec_20", "tx_mode", "tx_pkt_num", "tx_pkt_len",
             "tx_power", "tx_pkt_mcs", "tx_pkt_rate", "aux_adc"}

LEMMA RtStoresStores ==
  ASSUME NEW w, RtStores(w)
  PROVE  \E f \in RtStored : \E val : Stores(w, f, val)
BY StoreStores DEF RtStores, RtStored, OpMode, ChnlPrimary, ChnlBw, ChnlSec20Offset, TxMode,
   TxPktNum, TxPktLen, TxPower, RtTxPktMcs, RtTxPktRate, AuxAdcInputChainId, RtStore

LEMMA StatusNext ==
  ASSUME OneWriter, StatusInv, [Next]_<<confVars, settingsVars, rtVars>>
  PROVE  StatusInv'
<1>1. CASE UNCHANGED <<confVars, settingsVars, rtVars>>
  BY <1>1, StatusUnmoved DEF confVars
<1>2. CASE build = "regular" /\ SettingsNext /\ UNCHANGED rtVars
  BY <1>2, BuildStays, StatusRegular
<1>3. CASE build # "regular" /\ RtNext
  <2>1. ASSUME NEW w \in Writer, ConfStore(w) \/ RtStores(w), UNCHANGED rtVars PROVE StatusInv'
    BY <2>1, ConfStoreStores, RtStoresStores, StatusUnmoved DEF Stores
  <2>2. ASSUME NEW w \in Writer, Tx(w) \/ Rx(w) \/ RadioTestInit(w) PROVE StatusInv'
    <3>1. PICK kind \in RadioKinds : \E params : CanCall(w) /\ RadioCmd(w, kind, params)
      BY <2>2 DEF Tx, Rx, RadioTestInit, RadioKinds
    <3> QED BY <1>3, <3>1, RadioCmdKeeps
  <2>3. CASE RfTestRxCap \/ RfTestTxTone \/ RfTestDpd \/ RfGetTemp \/ RfGetRfRssi \/ SetXoVal
             \/ RfTestComputeXo
    <3>1. PICK test \in Tests, cap \in Nat : RfTest(test, cap)
      <4>1. issued + 1 \in Nat /\ Null \in Nat
        BY <1>3 DEF StatusInv, RtTypes, Null
      <4> QED BY <2>3, <4>1 DEF RfTestRxCap, RfTestTxTone, RfTestDpd, RfGetTemp, RfGetRfRssi,
                 SetXoVal, RfTestComputeXo, Tests
    <3> QED BY <1>3, <3>1, RfTestKeeps
  <2>4. CASE RfTestDone \/ RfTestTimeout \/ RtRpuStep \/ RadioCmdStatus \/ RfTestProcess
    BY <1>3, <2>4, RfTestDoneKeeps, RfTestTimeoutKeeps, RpuStepKeeps, RadioCmdStatusKeeps,
       RfTestProcessKeeps
  <2>5. ASSUME NEW w \in Writer, RadioDone(w) \/ RadioTimeout(w) PROVE StatusInv'
    BY <1>3, <2>5, RadioDoneKeeps, RadioTimeoutKeeps
  <2> QED BY <1>3, <2>1, <2>2, <2>3, <2>4, <2>5 DEF RtNext
<1> QED BY <1>1, <1>2, <1>3 DEF Next

(* A radio command or an RF test that reports success was executed by the   *)
(* RPU, and a capture holds its own samples, for as long as no wait gave up *)
(* before its answer: one writer of the file, any number of tests.          *)
THEOREM SuccessIsEarned ==
  ASSUME OneWriter
  PROVE  Spec => []SuccessIsOwn
<1>1. Init => StatusInv
  BY StatusInit
<1>2. StatusInv /\ [Next]_<<confVars, settingsVars, rtVars>> => StatusInv'
  BY StatusNext
<1>3. StatusInv => SuccessIsOwn
  BY DEF StatusInv, OwnInv, SuccessIsOwn
<1> QED BY <1>1, <1>2, <1>3, PTL DEF Spec

-----------------------------------------------------------------------------
(* The radio test: what the radio does                                       *)

Directions == {"tx", "rx"}
Other(d) == IF d = "tx" THEN "rx" ELSE "tx"

(* The parameters p are those of file c, for direction d. *)
AgreesWith(p, c) == \A f \in DOMAIN p \ ({"on", "tx", "rx"} \cup Unguarded) :
                      f \in DOMAIN c /\ p[f] = c[f]
IsToldOf(p, c, d) == p.on = c[d] /\ (p.on = 1 => AgreesWith(p, c))

(* The channels that TxChannelPaired asks for. *)
Paired(r) ==
  r.on = 1 =>
    LET p == r.primary
        s == p + 4 * r.sec_20
    IN \/ r.bw = 0 /\ r.sec_20 = 0
       \/ /\ r.bw = 1 /\ r.sec_20 # 0
          /\ \/ p \in 1..13 /\ s \in 1..13
             \/ <<p, s>> \in PairsOf40 \/ <<s, p>> \in PairsOf40
             \/ p \in NoPrimary /\ (p = 14 => r.sec_20 = -1)
             \/ p > 255 /\ CheckValidChannel(p % 256)

(* A number that a write of chnl_primary stores. *)
Checked(p) == p \in Nat /\ CheckValidChannel(p % 256)

RtShown == {"tx", "rx", "bw", "sec_20", "primary", "op_mode", "nss", "rf_params",
            "phy_threshold", "phy_calib"}
FileInv ==
  /\ RtShown \subseteq DOMAIN conf /\ "on" \notin DOMAIN conf
  /\ conf.tx \in {0, 1} /\ conf.rx \in {0, 1} /\ conf.bw \in 0..1 /\ conf.sec_20 \in -1..1
  /\ Checked(conf.primary)
  /\ conf.rx = 1 => conf.op_mode = "RADIO_TEST" /\ conf.tx = 0

(* What is on was told to be, on channels that were let through. *)
OnInv ==
  /\ DOMAIN rpu = Directions
  /\ \A d \in Directions : rpu[d] = Off \/ rpu[d].on = 1
  /\ Paired(rpu.tx)
  /\ \A x \in Held(rtq) : x.kind = "tx" => Paired(x.params)

(* Commands under way carry what the file shows, executed ones made it so, *)
(* and a direction is not switched while the other one is on.               *)
Match(d) == IsToldOf(rpu[d], conf, d)
MatchInv ==
  /\ \A d \in Directions : healthy[d] /\ ~Waiting(d) => Match(d)
  /\ \A d \in Directions : Waiting(d) => conf[Other(d)] = 0
  /\ \A x \in Held(rtq) : x.kind \in Directions => IsToldOf(x.params, conf, x.kind)
  /\ \A x \in Held(rtevq) : x.kind \in Directions /\ x.ok => Match(x.kind)
  /\ \A w \in Writer : job[w].pc = "radio" /\ job[w].kind \in Directions
                       /\ cmd_done.done /\ cmd_done.ok => Match(job[w].kind)

HealthyInv == DOMAIN healthy = Directions /\ \A d \in Directions : healthy[d] \in BOOLEAN

RadioInv ==
  build = "radio_test" => FileInv /\ OnInv /\ HealthyInv /\ (late \/ MatchInv)

(* What the commands hand over. *)
LEMMA TxParamsOf ==
  ASSUME NEW c, RtShown \subseteq DOMAIN c, "on" \notin DOMAIN c
  PROVE  /\ TxParams(c).on = c.tx /\ AgreesWith(TxParams(c), c)
         /\ TxParams(c).primary = c.primary /\ TxParams(c).sec_20 = c.sec_20
         /\ TxParams(c).bw = c.bw
BY DEF TxParams, AgreesWith, RtShown

LEMMA RxParamsOf ==
  ASSUME NEW c, RtShown \subseteq DOMAIN c
  PROVE  RxParams(c).on = c.rx /\ AgreesWith(RxParams(c), c)
BY DEF RxParams, AgreesWith, RtShown

(* The check of the channel suffices for transmission. *)
LEMMA CheckedIsPaired ==
  ASSUME NEW bw \in 0..1, NEW sec \in -1..1, NEW p, Checked(p), NEW c, c.bw = bw, c.sec_20 = sec,
         c.primary = p, CheckChannelSettings(c), NEW r, r.bw = bw, r.sec_20 = sec, r.primary = p
  PROVE  Paired(r)
<1>1. p \in Nat /\ (p <= 255 => CheckValidChannel(p))
  <2>1. p \in Nat /\ CheckValidChannel(p % 256)
    BY DEF Checked
  <2>2. p <= 255 => p % 256 = p
    BY <2>1
  <2> QED BY <2>1, <2>2
<1>2. \/ bw = 0 /\ sec = 0
      \/ bw = 1 /\ sec # 0 /\ IF p \in 1..14 THEN Offset24GOk(c) ELSE Offset5GOk(c)
  BY DEF CheckChannelSettings, LegacyChannelOk, HtChannelOk, VhtChannelOk, HeChannelOk
<1>3. CASE bw = 0 /\ sec = 0
  BY <1>3 DEF Paired
<1>4. CASE bw = 1 /\ sec # 0 /\ p \in 1..13 /\ Offset24GOk(c)
  <2>1. p + 4 * sec \in 1..13
    BY <1>4 DEF Offset24GOk
  <2> QED BY <1>4, <2>1 DEF Paired
<1>5. CASE bw = 1 /\ sec # 0 /\ p = 14 /\ Offset24GOk(c)
  <2>1. p \in NoPrimary /\ sec = -1
    BY <1>5 DEF NoPrimary, Offset24GOk
  <2> QED BY <1>5, <2>1 DEF Paired
<1>6. CASE bw = 1 /\ sec # 0 /\ p > 255
  <2>1. CheckValidChannel(p % 256)
    BY DEF Checked
  <2> QED BY <1>6, <2>1 DEF Paired
<1>7. CASE bw = 1 /\ sec # 0 /\ p <= 255 /\ p \notin 1..14 /\ Offset5GOk(c)
  <2>1. sec = 1 \/ sec = -1
    BY <1>7
  <2>2. p \in LowerOf40 => <<p, p + 4>> \in PairsOf40
    BY DEF LowerOf40, PairsOf40
  <2>3. p \in UpperOf40 => <<p - 4, p>> \in PairsOf40
    BY DEF UpperOf40, PairsOf40
  <2>4. sec = 1 => p \notin UpperOf40 /\ p + 4 * sec = p + 4
    BY <1>1, <1>7 DEF Offset5GOk
  <2>5. sec = -1 => p \notin LowerOf40 /\ p + 4 * sec = p - 4
    BY <1>1, <1>7 DEF Offset5GOk
  <2>6. p \in UpperOf40 \cup LowerOf40 =>
          <<p, p + 4 * sec>> \in PairsOf40 \/ <<p + 4 * sec, p>> \in PairsOf40
    BY <2>1, <2>2, <2>3, <2>4, <2>5
  <2>7. p \in UpperOf40 \cup LowerOf40 \/ (p \in NoPrimary /\ p # 14)
    BY <1>1, <1>7 DEF CheckValidChannel, UpperOf40, LowerOf40, NoPrimary
  <2> QED BY <1>7, <2>6, <2>7 DEF Paired
<1> QED BY <1>1, <1>2, <1>3, <1>4, <1>5, <1>6, <1>7

LEMMA RadioInit == ASSUME Init PROVE RadioInv
<1> SUFFICES ASSUME build = "radio_test" PROVE RadioInv
  BY DEF RadioInv
<1>1. /\ rtq = <<>> /\ rtevq = <<>> /\ ~cmd_done.done
      /\ rpu = [tx |-> Off, rx |-> Off] /\ healthy = [tx |-> TRUE, rx |-> TRUE]
      /\ conf = Defaults(build) /\ job = [w \in Writer |-> Idle]
  BY DEF Init, RtInit, ConfInit
<1>2. FileInv
  <2>1. Checked(1)
    BY DEF Checked, CheckValidChannel
  <2> QED BY <1>1, <2>1 DEF FileInv, Defaults, RtShown
<1>3. Held(rtq) = {} /\ Held(rtevq) = {}
  BY <1>1, EmptyLine
<1>4. \A w \in Writer : job[w].pc = "idle"
  BY <1>1 DEF Idle
<1>5. Directions = {"tx", "rx"} /\ rpu.tx = Off /\ rpu.rx = Off /\ Off.on = 0
      /\ conf.tx = 0 /\ conf.rx = 0
  BY <1>1 DEF Directions, Off, Defaults
<1>6. OnInv
  BY <1>1, <1>3, <1>5 DEF OnInv, Paired
<1>7. MatchInv
  BY <1>1, <1>3, <1>4, <1>5 DEF MatchInv, Match, IsToldOf, Waiting
<1>8. HealthyInv
  BY <1>1, <1>5 DEF HealthyInv
<1> QED BY <1>2, <1>6, <1>7, <1>8 DEF RadioInv

(* While nothing is awaited no radio command is under way. *)
LEMMA NothingUnderWay ==
  ASSUME OneWriter, OwnInv, NEW w \in Writer, job[w].pc # "radio"
  PROVE  /\ \A x \in Held(rtq) : x.kind \notin Directions
         /\ \A x \in Held(rtevq) : x.kind \notin Directions
         /\ \A d \in Directions : ~Waiting(d)
<1>1. Radios = {}
  BY DEF OwnInv, CmdInv
<1>2. \A d \in Directions : IsRadio(d)
  BY DEF Directions, IsRadio
<1> QED BY <1>1, <1>2 DEF Radios, Entries, OneWriter, Waiting

(* Writes that only store: RadioTest's own, with their values. *)
LEMMA RtStoresValues ==
  ASSUME NEW w, RtStores(w), FileInv
  PROVE  \E f \in RtStored : \E val :
           /\ Stores(w, f, val) /\ Disabled
           /\ f = "bw" => val \in 0..1
           /\ f = "sec_20" => val \in -1..1
           /\ f = "primary" => Checked(val)
<1>1. ASSUME NEW f \in RtStored, NEW inputs, RtStore(w, f, inputs)
      PROVE  \E val \in inputs : Stores(w, f, val) /\ Disabled
  BY <1>1, StoreStores DEF RtStore
<1>2. CASE OpMode(w)
  <2>1. PICK val : Stores(w, "op_mode", val) /\ Disabled
    BY <1>1, <1>2 DEF OpMode, RtStored
  <2> QED BY <2>1 DEF RtStored
<1>3. CASE ChnlPrimary(w)
  <2>1. PICK val : Checked(val) /\ Stores(w, "primary", val) /\ Disabled
    BY <1>3, StoreStores, PrimariesAssumption DEF ChnlPrimary, Checked
  <2> QED BY <2>1 DEF RtStored
<1>4. CASE ChnlBw(w)
  <2>1. PICK val \in 0..1 : Stores(w, "bw", val) /\ Disabled
    BY <1>1, <1>4 DEF ChnlBw, RtStored
  <2> QED BY <2>1 DEF RtStored
<1>5. CASE ChnlSec20Offset(w)
  <2>1. PICK val \in -1..1 : Stores(w, "sec_20", val) /\ Disabled
    BY <1>1, <1>5 DEF ChnlSec20Offset, RtStored
  <2> QED BY <2>1 DEF RtStored
<1>6. CASE TxMode(w) \/ TxPktNum(w) \/ TxPktLen(w) \/ TxPower(w)
  <2>1. PICK f \in {"tx_mode", "tx_pkt_num", "tx_pkt_len", "tx_power"} :
          \E val : Stores(w, f, val) /\ Disabled
    BY <1>1, <1>6 DEF TxMode, TxPktNum, TxPktLen, TxPower, RtStored
  <2> QED BY <2>1 DEF RtStored
<1>7. CASE RtTxPktMcs(w) \/ RtTxPktRate(w)
  <2>1. PICK f \in {"tx_pkt_mcs", "tx_pkt_rate"} : \E val : Stores(w, f, val) /\ Disabled
    BY <1>7, StoreStores DEF RtTxPktMcs, RtTxPktRate
  <2> QED BY <2>1 DEF RtStored
<1>8. CASE AuxAdcInputChainId(w)
  <2>1. PICK val : Stores(w, "aux_adc", val)
    BY <1>8, StoreStores DEF AuxAdcInputChainId
  <2>2. Disabled
    BY <1>8 DEF AuxAdcInputChainId, Disabled
  <2> QED BY <2>1, <2>2 DEF RtStored
<1> QED BY <1>2, <1>3, <1>4, <1>5, <1>6, <1>7, <1>8 DEF RtStores

(* A stored parameter is unguarded, or nothing is on. *)
LEMMA StoresKeepsRadio ==
  ASSUME OneWriter, StatusInv, RadioInv, build = "radio_test", NEW w \in Writer,
         NEW f \in Stored \cup RtStored, NEW val, Stores(w, f, val), UNCHANGED rtVars,
         f \in Unguarded \/ Disabled,
         f = "bw" => val \in 0..1, f = "sec_20" => val \in -1..1,
         f = "primary" => Checked(val)
  PROVE  RadioInv'
<1>1. /\ job[w] = Idle /\ conf' = [conf EXCEPT ![f] = val] /\ UNCHANGED <<build, job>>
      /\ UNCHANGED <<cmd_done, rpu, rtq, rtevq, healthy, late>>
  BY DEF Stores, CanCall, rtVars
<1>2. FileInv /\ OnInv /\ HealthyInv /\ (late \/ MatchInv)
  BY DEF RadioInv
<1>3. f \notin {"tx", "rx", "on"} /\ f \notin {"bw", "sec_20", "primary", "op_mode"} \cap Unguarded
  BY DEF Stored, RtStored, Unguarded
<1>4. /\ DOMAIN conf' = DOMAIN conf
      /\ \A g \in DOMAIN conf : g # f => conf'[g] = conf[g]
      /\ f \in DOMAIN conf => conf'[f] = val
  BY <1>1
<1>5. RtShown \subseteq DOMAIN conf /\ {"tx", "rx", "bw", "sec_20", "primary", "op_mode"} \subseteq RtShown
  BY <1>2 DEF FileInv, RtShown
<1>6. conf'.tx = conf.tx /\ conf'.rx = conf.rx
  BY <1>3, <1>4, <1>5
<1>7. conf'.bw \in 0..1 /\ conf'.sec_20 \in -1..1 /\ Checked(conf'.primary)
  <2>1. conf'.bw \in 0..1
    BY <1>2, <1>4, <1>5 DEF FileInv
  <2>2. conf'.sec_20 \in -1..1
    BY <1>2, <1>4, <1>5 DEF FileInv
  <2>3. Checked(conf'.primary)
    <3>1. CASE f = "primary"
      BY <1>4, <1>5, <3>1
    <3>2. CASE f # "primary"
      <4>1. conf'.primary = conf.primary
        BY <1>4, <1>5, <3>2
      <4> QED BY <1>2, <4>1 DEF FileInv
    <3> QED BY <3>1, <3>2
  <2> QED BY <2>1, <2>2, <2>3
<1>8. conf.rx = 1 => f # "op_mode"
  BY <1>2, <1>3 DEF FileInv, Disabled, Unguarded
<1>9. FileInv'
  BY <1>2, <1>4, <1>5, <1>6, <1>7, <1>8 DEF FileInv
<1>10. OnInv'
  BY <1>1, <1>2 DEF OnInv
<1>11. ASSUME OwnInv, MatchInv PROVE MatchInv'
  <2>1. job[w].pc # "radio"
    BY <1>1 DEF Idle
  <2>2. /\ \A x \in Held(rtq) : x.kind \notin Directions
        /\ \A x \in Held(rtevq) : x.kind \notin Directions
        /\ \A d \in Directions : ~Waiting(d)
    BY <1>11, <2>1, NothingUnderWay
  <2>3. \A d \in Directions : ~Waiting(d)'
    BY <1>1, <2>2 DEF Waiting
  <2>4. ASSUME NEW d \in Directions, Match(d) PROVE Match(d)'
    <3>1. conf'[d] = conf[d] /\ rpu' = rpu
      BY <1>1, <1>6 DEF Directions
    <3>2. ASSUME rpu[d].on = 1 PROVE AgreesWith(rpu[d], conf')
      <4>1. conf[d] = 1
        BY <2>4, <3>2 DEF Match, IsToldOf
      <4>2. ~Disabled
        BY <1>2, <4>1 DEF FileInv, Disabled, Directions
      <4>3. AgreesWith(rpu[d], conf) /\ f \in Unguarded
        BY <2>4, <3>2, <4>2 DEF Match, IsToldOf
      <4> QED BY <1>4, <4>3 DEF AgreesWith
    <3> QED BY <2>4, <3>1, <3>2 DEF Match, IsToldOf
  <2>5. \A d \in Directions : healthy'[d] => Match(d)'
    BY <1>1, <1>11, <2>2, <2>4 DEF MatchInv
  <2>6. \A v \in Writer : job'[v].pc # "radio"
    BY <1>1, <2>1 DEF OneWriter
  <2> QED BY <1>1, <2>2, <2>3, <2>5, <2>6 DEF MatchInv
<1>12. late' \/ MatchInv'
  BY <1>1, <1>2, <1>11 DEF StatusInv
<1> QED BY <1>1, <1>2, <1>9, <1>10, <1>12 DEF RadioInv, HealthyInv

(* tx= and rx=: stored, then sent or not. *)
LEMMA RadioCmdTold ==
  ASSUME OneWriter, StatusInv, RadioInv, build = "radio_test", NEW w \in Writer, CanCall(w),
         NEW kind \in Directions, NEW params, RadioCmd(w, kind, params), NEW val \in {0, 1},
         conf' = [conf EXCEPT ![kind] = val], IsToldOf(params, conf', kind),
         kind = "tx" => Paired(params), conf[Other(kind)] = 0,
         kind = "rx" => conf.op_mode = "RADIO_TEST"
  PROVE  RadioInv'
<1> DEFINE x == [kind |-> kind, id |-> issued + 1, params |-> params]
<1>1. /\ job[w] = Idle /\ UNCHANGED <<build, rtevq, rpu, late>>
      /\ cmd_done' = [cmd_done EXCEPT !.done = FALSE]
      /\ \/ /\ rtq' = Append(rtq, x) /\ healthy' = healthy
            /\ job' = [job EXCEPT ![w] = [pc |-> "radio", kind |-> kind, id |-> issued + 1]]
         \/ /\ healthy' = IF kind = "init" THEN healthy ELSE [healthy EXCEPT ![kind] = FALSE]
            /\ UNCHANGED <<rtq, job>>
  BY DEF CanCall, RadioCmd, Settled
<1>2. FileInv /\ OnInv /\ HealthyInv /\ (late \/ MatchInv)
  BY DEF RadioInv
<1>3. RtTypes /\ NumberInv /\ (late \/ OwnInv)
  BY DEF StatusInv
<1>4. Directions = {"tx", "rx"} /\ kind # "init" /\ kind \in RadioKinds /\ kind \in Kinds
  BY DEF Directions, RadioKinds, Kinds
<1>5. x.kind = kind /\ x.params = params
  OBVIOUS
<1> HIDE DEF x
<1>6. /\ DOMAIN conf' = DOMAIN conf /\ conf'[kind] = val
      /\ \A g \in DOMAIN conf : g # kind => conf'[g] = conf[g]
      /\ RtShown \subseteq DOMAIN conf
      /\ {"tx", "rx", "bw", "sec_20", "primary", "op_mode"} \subseteq DOMAIN conf
  BY <1>2, <1>4 DEF FileInv, RtShown
<1>7. FileInv'
  <2>1. /\ conf'.bw = conf.bw /\ conf'.sec_20 = conf.sec_20 /\ conf'.primary = conf.primary
        /\ conf'.op_mode = conf.op_mode
    BY <1>4, <1>6
  <2>2. conf'.tx \in {0, 1} /\ conf'.rx \in {0, 1}
    BY <1>2, <1>4, <1>6 DEF FileInv
  <2>3. conf'.rx = 1 => conf'.op_mode = "RADIO_TEST" /\ conf'.tx = 0
    BY <1>2, <1>4, <1>6, <2>1 DEF FileInv, Other
  <2> QED BY <1>2, <1>6, <2>1, <2>2, <2>3 DEF FileInv
<1>8. Held(rtq') \subseteq Held(rtq) \cup {x} /\ (rtq' = rtq \/ rtq' = Append(rtq, x))
  <2>1. CASE rtq' = rtq
    BY <2>1
  <2>2. CASE rtq' = Append(rtq, x)
    <3>1. PICK S : rtq \in Seq(S)
      BY <1>3 DEF RtTypes
    <3>2. rtq \in Seq(S \cup {x})
      BY <3>1
    <3> QED BY <2>2, <3>2, HeldAppend
  <2> QED BY <1>1, <2>1, <2>2
<1>9. OnInv'
  BY <1>1, <1>2, <1>5, <1>8 DEF OnInv
<1>10. HealthyInv'
  BY <1>1, <1>2 DEF HealthyInv
<1>11. ASSUME OwnInv, MatchInv PROVE MatchInv'
  <2>1. job[w].pc # "radio" /\ DOMAIN job = Writer
    BY <1>1, <1>3 DEF Idle, RtTypes
  <2>2. /\ \A y \in Held(rtq) : y.kind \notin Directions
        /\ \A y \in Held(rtevq) : y.kind \notin Directions
        /\ \A d \in Directions : ~Waiting(d)
    BY <1>11, <2>1, NothingUnderWay
  <2>3. ASSUME NEW d \in Directions, d # kind, Match(d) PROVE Match(d)'
    <3>1. conf'[d] = conf[d] /\ rpu' = rpu
      BY <1>1, <1>4, <1>6, <2>3
    <3>2. AgreesWith(rpu[d], conf) => AgreesWith(rpu[d], conf')
      BY <1>4, <1>6 DEF AgreesWith
    <3> QED BY <2>3, <3>1, <3>2 DEF Match, IsToldOf
  <2>4. cmd_done'.done = FALSE
    BY <1>1, <1>3 DEF RtTypes
  <2>5. ASSUME NEW d \in Directions, healthy'[d], ~Waiting(d)' PROVE Match(d)'
    <3>1. d # kind
      <4>1. CASE UNCHANGED <<rtq, job>>
                 /\ healthy' = IF kind = "init" THEN healthy ELSE [healthy EXCEPT ![kind] = FALSE]
        BY <1>2, <1>4, <2>5, <4>1 DEF HealthyInv
      <4>2. CASE job' = [job EXCEPT ![w] = [pc |-> "radio", kind |-> kind, id |-> issued + 1]]
        <5>1. job'[w].pc = "radio" /\ job'[w].kind = kind
          BY <2>1, <4>2
        <5> QED BY <2>5, <5>1 DEF Waiting
      <4> QED BY <1>1, <4>1, <4>2
    <3>2. healthy[d]
      BY <1>1, <1>2, <2>5, <3>1 DEF HealthyInv
    <3> QED BY <1>11, <2>2, <2>3, <3>1, <3>2 DEF MatchInv
  <2>6. ASSUME NEW d \in Directions, Waiting(d)' PROVE conf'[Other(d)] = 0
    <3>1. d = kind
      <4>1. CASE job' = job
        BY <2>2, <2>6, <4>1 DEF Waiting
      <4>2. CASE job' = [job EXCEPT ![w] = [pc |-> "radio", kind |-> kind, id |-> issued + 1]]
        <5>1. \A v \in Writer : job'[v].kind = kind
          BY <2>1, <4>2 DEF OneWriter
        <5> QED BY <2>6, <5>1 DEF Waiting
      <4> QED BY <1>1, <4>1, <4>2
    <3>2. Other(kind) # kind /\ Other(kind) \in DOMAIN conf
      BY <1>4, <1>6 DEF Other
    <3> QED BY <1>6, <3>1, <3>2
  <2>7. \A y \in Held(rtq)' : y.kind \in Directions => IsToldOf(y.params, conf', y.kind)
    BY <1>5, <1>8, <2>2
  <2> QED BY <1>1, <2>2, <2>4, <2>5, <2>6, <2>7 DEF MatchInv
<1> QED BY <1>1, <1>2, <1>3, <1>7, <1>9, <1>10, <1>11 DEF RadioInv

LEMMA TxKeepsRadio ==
  ASSUME OneWriter, StatusInv, RadioInv, build = "radio_test", NEW w \in Writer, Tx(w)
  PROVE  RadioInv'
<1>1. PICK val \in {0, 1} :
        /\ CanCall(w) /\ conf.tx # val
        /\ val = 1 => /\ conf.op_mode = "RADIO_TEST" => conf.rx = 0
                      /\ CheckChannelSettings(conf)
        /\ conf' = [conf EXCEPT !.tx = val]
        /\ RadioCmd(w, "tx", TxParams(conf'))
  BY DEF Tx
<1>2. FileInv
  BY DEF RadioInv
<1>3. /\ RtShown \subseteq DOMAIN conf' /\ "on" \notin DOMAIN conf' /\ conf'.tx = val
      /\ conf'.primary = conf.primary /\ conf'.sec_20 = conf.sec_20 /\ conf'.bw = conf.bw
  BY <1>1, <1>2 DEF FileInv, RtShown
<1>4. PICK c : c = conf'
  OBVIOUS
<1>5. /\ TxParams(c).on = c.tx /\ AgreesWith(TxParams(c), c)
      /\ TxParams(c).primary = c.primary /\ TxParams(c).sec_20 = c.sec_20
      /\ TxParams(c).bw = c.bw
  BY <1>3, <1>4, TxParamsOf
<1>6. IsToldOf(TxParams(c), c, "tx")
  BY <1>5 DEF IsToldOf
<1>7. conf.rx = 0
  BY <1>1, <1>2 DEF FileInv
<1>8. Paired(TxParams(c))
  <2>1. CASE val = 0
    BY <1>3, <1>4, <1>5, <2>1 DEF Paired
  <2>2. CASE val = 1
    BY <1>1, <1>2, <1>3, <1>4, <1>5, <2>2, CheckedIsPaired DEF FileInv
  <2> QED BY <2>1, <2>2
<1>9. "tx" \in Directions /\ Other("tx") = "rx"
  BY DEF Directions, Other
<1> QED BY <1>1, <1>4, <1>6, <1>7, <1>8, <1>9, RadioCmdTold

LEMMA RxKeepsRadio ==
  ASSUME OneWriter, StatusInv, RadioInv, build = "radio_test", NEW w \in Writer, Rx(w)
  PROVE  RadioInv'
<1>1. PICK val \in {0, 1} :
        /\ CanCall(w) /\ conf.op_mode = "RADIO_TEST" /\ conf.rx # val
        /\ val = 1 => conf.tx = 0
        /\ conf' = [conf EXCEPT !.rx = val]
        /\ RadioCmd(w, "rx", RxParams(conf'))
  BY DEF Rx
<1>2. FileInv
  BY DEF RadioInv
<1>3. RtShown \subseteq DOMAIN conf' /\ conf'.rx = val
  BY <1>1, <1>2 DEF FileInv, RtShown
<1>4. PICK c : c = conf'
  OBVIOUS
<1>5. IsToldOf(RxParams(c), c, "rx")
  BY <1>3, <1>4, RxParamsOf DEF IsToldOf
<1>6. conf.tx = 0
  BY <1>1, <1>2 DEF FileInv
<1>7. "rx" \in Directions /\ Other("rx") = "tx"
  BY DEF Directions, Other
<1> QED BY <1>1, <1>4, <1>5, <1>6, <1>7, RadioCmdTold

(* The wait ends with the status of the command. *)
LEMMA RadioDoneTold ==
  ASSUME OneWriter, StatusInv, RadioInv, build = "radio_test", NEW w \in Writer, RadioDone(w)
  PROVE  RadioInv'
<1>1. /\ job[w].pc = "radio" /\ cmd_done.done /\ job' = [job EXCEPT ![w] = Idle]
      /\ healthy' = IF job[w].kind = "init" THEN healthy
                    ELSE [healthy EXCEPT ![job[w].kind] = cmd_done.ok]
      /\ UNCHANGED <<build, conf, rpu, rtq, rtevq, late>>
  BY DEF RadioDone
<1>2. FileInv /\ OnInv /\ HealthyInv /\ (late \/ MatchInv)
  BY DEF RadioInv
<1>3. DOMAIN job = Writer /\ job[w].kind \in RadioKinds /\ cmd_done.ok \in BOOLEAN
  BY <1>1 DEF StatusInv, RtTypes, Idle
<1>4. \A v \in Writer : v = w
  BY DEF OneWriter
<1>5. \A v \in Writer : job'[v].pc # "radio"
  BY <1>1, <1>3, <1>4 DEF Idle
<1>6. FileInv' /\ OnInv'
  BY <1>1, <1>2 DEF FileInv, OnInv
<1>7. HealthyInv'
  BY <1>1, <1>2, <1>3 DEF HealthyInv
<1>8. ASSUME MatchInv PROVE MatchInv'
  <2>1. ASSUME NEW d \in Directions, healthy'[d] PROVE Match(d)
    <3>1. CASE d = job[w].kind
      <4>1. d # "init"
        BY DEF Directions
      <4>2. healthy'[d] = cmd_done.ok
        BY <1>1, <1>2, <3>1, <4>1 DEF HealthyInv
      <4> QED BY <1>1, <1>8, <2>1, <3>1, <4>2 DEF MatchInv
    <3>2. CASE d # job[w].kind
      <4>1. healthy[d]
        BY <1>1, <1>2, <2>1, <3>2 DEF HealthyInv
      <4>2. ~Waiting(d)
        BY <1>4, <3>2 DEF Waiting
      <4> QED BY <1>8, <4>1, <4>2 DEF MatchInv
    <3> QED BY <3>1, <3>2
  <2>2. \A d \in Directions : Match(d)' = Match(d)
    BY <1>1 DEF Match
  <2>3. \A d \in Directions : ~Waiting(d)'
    BY <1>5 DEF Waiting
  <2>4. \A x \in Held(rtevq) : x.kind \in Directions /\ x.ok => Match(x.kind)'
    BY <1>1, <1>8 DEF MatchInv, Match
  <2> QED BY <1>1, <1>5, <1>8, <2>1, <2>2, <2>3, <2>4 DEF MatchInv
<1> QED BY <1>1, <1>2, <1>6, <1>7, <1>8 DEF RadioInv

LEMMA RadioTimeoutTold ==
  ASSUME StatusInv, RadioInv, build = "radio_test", NEW w \in Writer, RadioTimeout(w)
  PROVE  RadioInv'
<1>1. /\ job[w].pc = "radio" /\ late'
      /\ healthy' = IF job[w].kind = "init" THEN healthy
                    ELSE [healthy EXCEPT ![job[w].kind] = FALSE]
      /\ UNCHANGED <<build, conf, rpu, rtq>>
  BY DEF RadioTimeout
<1>2. FileInv /\ OnInv /\ HealthyInv
  BY DEF RadioInv
<1>3. FileInv' /\ OnInv'
  BY <1>1, <1>2 DEF FileInv, OnInv
<1>4. HealthyInv'
  BY <1>1, <1>2 DEF HealthyInv
<1> QED BY <1>1, <1>3, <1>4 DEF RadioInv

(* The RPU does what the command says, or nothing. *)
LEMMA RpuStepTold ==
  ASSUME OneWriter, StatusInv, RadioInv, build = "radio_test", RtRpuStep
  PROVE  RadioInv'
<1> DEFINE c == Head(rtq)
           done == IF c.params.on = 1 THEN c.params ELSE Off
<1>1. PICK ok \in BOOLEAN, lost \in BOOLEAN :
        /\ rpu' = IF ok /\ c.kind \in {"tx", "rx"} THEN [rpu EXCEPT ![c.kind] = done] ELSE rpu
        /\ rtevq' = IF lost THEN rtevq
                    ELSE Append(rtevq, [kind |-> c.kind, id |-> c.id, ok |-> ok])
  BY DEF RtRpuStep
<1>2. /\ rtq # <<>> /\ rtq' = Tail(rtq)
      /\ UNCHANGED <<build, conf, job, cmd_done, healthy, late>>
  BY DEF RtRpuStep
<1> DEFINE y == [kind |-> c.kind, id |-> c.id, ok |-> ok]
<1>3. FileInv /\ OnInv /\ HealthyInv /\ (late \/ MatchInv)
  BY DEF RadioInv
<1>4. RtTypes /\ NumberInv /\ (late \/ OwnInv)
  BY DEF StatusInv
<1>5. PICK S : rtq \in Seq(S)
  BY <1>4 DEF RtTypes
<1>6. c \in Held(rtq) /\ Held(rtq') \subseteq Held(rtq)
  BY <1>2, <1>5, HeldTail
<1>7. c.kind \in Kinds /\ c.id \in Nat
  BY <1>4, <1>6 DEF NumberInv, Entries
<1> HIDE DEF c
<1>8. y \in RtEvent /\ y.kind = c.kind /\ y.ok = ok
  BY <1>7 DEF RtEvent
<1> HIDE DEF y
<1>9. \A x \in Held(rtevq)' : x \in Held(rtevq) \/ x = y
  <2>1. rtevq \in Seq(RtEvent)
    BY <1>4 DEF RtTypes
  <2>2. Held(Append(rtevq, y)) = Held(rtevq) \cup {y}
    BY <1>8, <2>1, HeldAppend
  <2>3. rtevq' = IF lost THEN rtevq ELSE Append(rtevq, y)
    BY <1>1 DEF y
  <2> QED BY <2>2, <2>3
<1>10. done = Off \/ (done.on = 1 /\ done = c.params)
  OBVIOUS
<1>11. \A x \in Held(rtq) : x.kind = "tx" => Paired(x.params)
  BY <1>3 DEF OnInv
<1>12. Paired(Off)
  BY DEF Paired, Off
<1>13. ASSUME c.kind \in Directions, IsToldOf(c.params, conf, c.kind)
       PROVE  IsToldOf(done, conf, c.kind)
  <2>1. CASE c.params.on = 1
    BY <1>13, <2>1
  <2>2. CASE c.params.on # 1
    <3>1. c.params.on = conf[c.kind] /\ conf[c.kind] \in {0, 1}
      BY <1>3, <1>13 DEF IsToldOf, FileInv, Directions
    <3>2. done = Off /\ Off.on = 0
      BY <2>2 DEF Off
    <3> HIDE DEF done
    <3> QED BY <2>2, <3>1, <3>2 DEF IsToldOf
  <2> QED BY <2>1, <2>2
<1> HIDE DEF done
<1>14. /\ DOMAIN rpu' = Directions
       /\ \A d \in Directions : rpu'[d] = rpu[d] \/ (d = c.kind /\ rpu'[d] = done)
       /\ ok /\ c.kind \in Directions => rpu'[c.kind] = done
  BY <1>1, <1>3 DEF OnInv, Directions
<1>15. OnInv'
  <2>1. \A d \in Directions : rpu'[d] = Off \/ rpu'[d].on = 1
    BY <1>3, <1>10, <1>14 DEF OnInv
  <2>2. Paired(rpu'.tx)
    <3>1. "tx" \in Directions /\ Paired(rpu.tx)
      BY <1>3 DEF OnInv, Directions
    <3>2. c.kind = "tx" => Paired(done)
      BY <1>6, <1>10, <1>11, <1>12
    <3>3. rpu'.tx = rpu.tx \/ (c.kind = "tx" /\ rpu'.tx = done)
      BY <1>14, <3>1
    <3> QED BY <3>1, <3>2, <3>3
  <2> QED BY <1>6, <1>11, <1>14, <2>1, <2>2 DEF OnInv
<1>16. ASSUME MatchInv PROVE MatchInv'
  <2>1. c.kind \in Directions => IsToldOf(done, conf, c.kind)
    BY <1>6, <1>13, <1>16 DEF MatchInv
  <2>2. \A d \in Directions : Match(d) => Match(d)'
    BY <1>2, <1>14, <2>1 DEF Match
  <2>3. \A d \in Directions : ok /\ d = c.kind => Match(d)'
    BY <1>2, <1>14, <2>1 DEF Match
  <2>4. \A d \in Directions : Waiting(d)' = Waiting(d)
    BY <1>2 DEF Waiting
  <2>5. ASSUME NEW x \in Held(rtevq)', NEW d \in Directions, x.kind = d, x.ok
        PROVE  Match(d)'
    BY <1>8, <1>9, <1>16, <2>2, <2>3, <2>5 DEF MatchInv
  <2>6. ASSUME NEW w \in Writer, NEW d \in Directions, job[w].pc = "radio", job[w].kind = d,
               cmd_done.done, cmd_done.ok
        PROVE  Match(d)'
    BY <1>16, <2>2, <2>6 DEF MatchInv
  <2> QED BY <1>2, <1>6, <1>16, <2>2, <2>4, <2>5, <2>6 DEF MatchInv
<1> QED BY <1>2, <1>3, <1>15, <1>16 DEF RadioInv, FileInv, HealthyInv

(* A status comes from the command that is waited for. *)
LEMMA StatusTold ==
  ASSUME OneWriter, StatusInv, RadioInv, build = "radio_test", RadioCmdStatus \/ RfTestProcess
  PROVE  RadioInv'
<1> DEFINE e == Head(rtevq)
<1>1. /\ rtevq # <<>> /\ rtevq' = Tail(rtevq)
      /\ UNCHANGED <<build, conf, job, rpu, rtq, issued, healthy, late>>
      /\ \/ IsRadio(e.kind) /\ cmd_done' = [done |-> TRUE, ok |-> e.ok]
         \/ cmd_done' = cmd_done
  BY DEF RadioCmdStatus, RfTestProcess
<1>2. FileInv /\ OnInv /\ HealthyInv /\ (late \/ MatchInv)
  BY DEF RadioInv
<1>3. RtTypes /\ NumberInv /\ (late \/ OwnInv)
  BY DEF StatusInv
<1>4. e \in Held(rtevq) /\ Held(rtevq') \subseteq Held(rtevq)
  BY <1>1, <1>3, EventKeeps
<1> HIDE DEF e
<1>5. FileInv' /\ OnInv' /\ HealthyInv'
  BY <1>1, <1>2 DEF FileInv, OnInv, HealthyInv
<1>6. ASSUME OwnInv, MatchInv PROVE MatchInv'
  <2>1. \A d : Match(d)' = Match(d) /\ Waiting(d)' = Waiting(d)
    BY <1>1 DEF Match, Waiting
  <2>2. IsRadio(e.kind) => \A w \in Writer : job[w].kind = e.kind
    BY <1>4, <1>6 DEF OwnInv, CmdInv, Radios, Entries
  <2>3. \A w \in Writer : job'[w].pc = "radio" /\ job'[w].kind \in Directions
                            /\ cmd_done'.done /\ cmd_done'.ok => Match(job'[w].kind)
    <3>1. CASE cmd_done' = cmd_done
      BY <1>1, <1>6, <3>1 DEF MatchInv
    <3>2. CASE IsRadio(e.kind) /\ cmd_done' = [done |-> TRUE, ok |-> e.ok]
      <4>1. cmd_done'.ok = e.ok
        BY <3>2
      <4>2. e.kind \in Directions /\ e.ok => Match(e.kind)
        BY <1>4, <1>6 DEF MatchInv
      <4> QED BY <1>1, <2>2, <3>2, <4>1, <4>2
    <3> QED BY <1>1, <3>1, <3>2
  <2> QED BY <1>1, <1>4, <1>6, <2>1, <2>3 DEF MatchInv
<1> QED BY <1>1, <1>2, <1>3, <1>5, <1>6 DEF RadioInv

LEMMA RadioNext ==
  ASSUME OneWriter, StatusInv, RadioInv, [Next]_<<confVars, settingsVars, rtVars>>
  PROVE  RadioInv'
<1>1. CASE build # "radio_test"
  BY <1>1, BuildStays DEF RadioInv
<1>2. CASE UNCHANGED <<confVars, settingsVars, rtVars>>
  BY <1>2 DEF RadioInv, FileInv, OnInv, HealthyInv, MatchInv, Match, Waiting, confVars, rtVars
<1>3. CASE build = "radio_test" /\ RtNext
  <2>1. ASSUME NEW w \in Writer, ConfStore(w), UNCHANGED rtVars PROVE RadioInv'
    <3>1. PICK f \in Stored : \E val : Stores(w, f, val) /\ (f \in Unguarded \/ Disabled)
      BY <2>1, ConfStoreStores
    <3>2. f \notin {"bw", "sec_20", "primary"}
      BY DEF Stored
    <3> QED BY <1>3, <2>1, <3>1, <3>2, StoresKeepsRadio
  <2>2. ASSUME NEW w \in Writer, RtStores(w), UNCHANGED rtVars PROVE RadioInv'
    <3>1. FileInv
      BY <1>3 DEF RadioInv
    <3> QED BY <1>3, <2>2, <3>1, RtStoresValues, StoresKeepsRadio
  <2>3. ASSUME NEW w \in Writer, Tx(w) \/ Rx(w) \/ RadioDone(w) \/ RadioTimeout(w)
        PROVE  RadioInv'
    BY <1>3, <2>3, TxKeepsRadio, RxKeepsRadio, RadioDoneTold, RadioTimeoutTold
  <2>4. CASE RtRpuStep \/ RadioCmdStatus \/ RfTestProcess
    BY <1>3, <2>4, RpuStepTold, StatusTold
  <2> QED BY <1>3, <2>1, <2>2, <2>3, <2>4 DEF RtNext
<1> QED BY <1>1, <1>2, <1>3 DEF Next

(* The radio does what the file of the radio test shows, unless an answer   *)
(* was late: a direction whose last command succeeded is on exactly when    *)
(* its parameter is 1, with the parameters of the file, and never both; and *)
(* what it transmits on is a channel without a secondary, a pair of the     *)
(* band, or one of the two things that tx=1 does not refuse: a primary      *)
(* channel that is the primary of no pair, and a number above 255.  One     *)
(* writer.                                                                  *)
THEOREM RadioIsAsTold ==
  ASSUME OneWriter
  PROVE  Spec => []RadioTold
<1>1. Init => StatusInv /\ RadioInv
  BY StatusInit, RadioInit
<1>2. StatusInv /\ RadioInv /\ [Next]_<<confVars, settingsVars, rtVars>>
        => StatusInv' /\ RadioInv'
  BY StatusNext, RadioNext
<1>3. RadioInv => RadioTold
  <2> SUFFICES ASSUME RadioInv, build = "radio_test" PROVE RadioTold
    BY DEF RadioTold, RadioAsShown, TxChannelPaired
  <2>1. FileInv /\ OnInv /\ (late \/ MatchInv)
    BY DEF RadioInv
  <2>2. TxChannelPaired
    BY <2>1 DEF OnInv, Paired, TxChannelPaired
  <2>3. ASSUME MatchInv PROVE RadioAsShown
    <3>1. \A d \in Directions : healthy[d] /\ ~Waiting(d) => Match(d)
      BY <2>3 DEF MatchInv
    <3>2. ASSUME NEW d \in Directions, Match(d)
          PROVE  rpu[d].on = conf[d] /\ (rpu[d].on = 1 => Agrees(rpu[d]))
      BY <3>2 DEF Match, IsToldOf, AgreesWith, Agrees
    <3>3. ASSUME healthy.tx, healthy.rx PROVE rpu.tx = Off \/ rpu.rx = Off
      <4>1. \A d \in Directions : Match(d) /\ conf[d] = 0 => rpu[d] = Off
        BY <2>1 DEF OnInv, Match, IsToldOf
      <4>2. ~Waiting("tx") => Match("tx")
        BY <3>1, <3>3 DEF Directions
      <4>3. ~Waiting("rx") => Match("rx")
        BY <3>1, <3>3 DEF Directions
      <4>4. Waiting("tx") => conf.rx = 0
        BY <2>3 DEF MatchInv, Directions, Other
      <4>5. Waiting("rx") => conf.tx = 0
        BY <2>3 DEF MatchInv, Directions, Other
      <4>6. conf.tx = 0 \/ conf.rx = 0
        BY <2>1 DEF FileInv
      <4>7. Waiting("tx") => ~Waiting("rx")
        BY OneWriter DEF OneWriter, Waiting
      <4>8. "tx" \in Directions /\ "rx" \in Directions
        BY DEF Directions
      <4>9. CASE Waiting("tx")
        BY <4>1, <4>3, <4>4, <4>7, <4>8, <4>9
      <4>10. CASE Waiting("rx")
        BY <4>1, <4>2, <4>5, <4>7, <4>8, <4>10
      <4>11. CASE ~Waiting("tx") /\ ~Waiting("rx")
        BY <4>1, <4>2, <4>3, <4>6, <4>8, <4>11
      <4> QED BY <4>9, <4>10, <4>11
    <3>4. ASSUME NEW d \in {"tx", "rx"}, healthy[d], ~Waiting(d)
          PROVE  rpu[d].on = conf[d] /\ (rpu[d].on = 1 => Agrees(rpu[d]))
      <4>1. Match(d)
        BY <3>1, <3>4 DEF Directions
      <4> QED BY <3>2, <4>1 DEF Directions
    <3>5. healthy.tx /\ healthy.rx => rpu.tx = Off \/ rpu.rx = Off
      BY <3>3
    <3> QED BY <3>4, <3>5, Zenon DEF RadioAsShown
  <2>4. late => RadioAsShown
    BY DEF RadioAsShown
  <2> QED BY <2>1, <2>2, <2>3, <2>4 DEF RadioTold
<1> QED BY <1>1, <1>2, <1>3, PTL DEF Spec
=============================================================================
