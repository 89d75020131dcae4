--------------------------- MODULE RxPathProofs ---------------------------
(***************************************************************************)
(* Proofs about RxPath, for every value of the constants: the types of its  *)
(* state, that no descriptor is at two places or lost, that the two maps    *)
(* agree, whose each network buffer is, the order of the frames the stack   *)
(* gets, that a removal leaves nothing behind, and that the RX path does    *)
(* what OrderedChannel promises, step by step (that every frame arrives in  *)
(* the end stays with TLC).                                                 *)
(*                                                                          *)
(* A descriptor goes from the queue of its pool into the pipe: what is      *)
(* filled and not reported, the events on their way, and the event the      *)
(* tasklet works on.  The pipe is sorted: later frames are behind.          *)
(***************************************************************************)
EXTENDS RxPath, FiniteSetTheorems, SequenceTheorems, WellFoundedInduction, TLAPS

(* The frame in the slot of d, and the buffer the HAL has mapped to it. *)
Frame(d) == slot[MapDescToPool(d)]
Hal(d) == hal_map[MapDescToPool(d)]

(* The pipe, from the event the tasklet works on (0) to what is filled. *)
End == Len(event_q) + 1
Stage(i) == IF i = 0 THEN todo.descs
            ELSE IF i < End THEN event_q[i].descs ELSE filled
Type(i) == IF i = 0 THEN todo.type ELSE event_q[i].type

InPipe == {d \in Desc : \E i \in 0..End : \E n \in 1..Len(Stage(i)) : Stage(i)[n] = d}
InPosted == {d \in Desc : \E p \in Pool : \E n \in 1..Len(posted[p]) : posted[p][n] = d}
Around == InPosted \cup InPipe

(* The tasklet is between taking a descriptor's buffer and posting it.      *)
Working == {"clear", "deliver", "check", "map", "set"}
Done == {"check", "map", "set", "post"}

(* What is filled has a frame, events have descriptors and not too many,    *)
(* and the tasklet is off when it has none.                                 *)
BoundInv ==
  /\ \A d \in Desc : rx_buf_info[d].nwb <= nwbs
  /\ \A s \in Slot : hal_map[s] <= nwbs
  /\ \A s \in Slot : slot[s] <= frames
  /\ \A n \in 1..Len(filled) : Frame(filled[n]) > 0
  /\ \A i \in 1..Len(event_q) : event_q[i].descs # <<>> /\ Len(event_q[i].descs) <= MaxPkts
  /\ Len(todo.descs) <= MaxPkts
  /\ (tpc = "off") = (todo.descs = <<>>)
  /\ dev \in {"unmap", "free"} => di < num_rx_bufs

TypeInv == TypeOK /\ BoundInv

(* Until the RPU is on it receives nothing, and it is not told to be on     *)
(* before all descriptors are posted.                                       *)
QuietInv ==
  /\ rpu # "on" => /\ frames = 0 /\ filled = <<>> /\ event_q = <<>> /\ tpc = "off"
                   /\ reported = <<>> /\ delivered = <<>> /\ stack = {}
                   /\ unknown = 0
  /\ dev \in Starting \ {"wait"} => rpu = "off"
  /\ dev \in Starting \cup {"up"} => ~late
  /\ dev \in Stopping /\ ~late => tpc = "off"
  /\ dev \in {"init", "wait", "up", "check", "unmap", "free"} => info = "allocated"
  /\ dev = "down" => di = 0

Precedes(i, a, j, b) == i < j \/ (i = j /\ a < b)

(* The pipe is sorted, no descriptor is posted twice and none that is in    *)
(* the pipe; init_rx posts one after the other.                             *)
PipeInv ==
  /\ \A i, j \in 0..End : \A a \in 1..Len(Stage(i)), b \in 1..Len(Stage(j)) :
        Precedes(i, a, j, b) => Frame(Stage(i)[a]) < Frame(Stage(j)[b])
  /\ \A p \in Pool : \A m, n \in 1..Len(posted[p]) : posted[p][m] = posted[p][n] => m = n
  /\ InPosted \cap InPipe = {}
  /\ dev \in {"down", "init"} => \A d \in InPosted : d < di
  /\ dev = "init" => \A d \in Desc : d < di => d \in InPosted

(* The events of unknown type still to be handled, and those that were.     *)
Unknowns == {i \in 1..Len(event_q) : event_q[i].type = "unknown"}
Coming == Cardinality(Unknowns) + (IF tpc # "off" /\ todo.type = "unknown" THEN 1 ELSE 0)
Handled == unknown - Coming
UnknownInv ==
  /\ Handled \in Nat
  /\ tpc \in Done => todo.type # "unknown"

(* The HAL's map never names another buffer than rx.c's, except for the     *)
(* buffer the tasklet is about to enter there, and what the tasklet has     *)
(* taken or is about to take is the buffer with the frame of its            *)
(* descriptor, even beside the removal of the driver.                       *)
MapInv ==
  /\ tpc \in {"clear", "deliver", "check", "map"} => Hal(cur) = NoBuf
  /\ tpc = "set" => Hal(cur) \in {NoBuf, nwb}
  /\ \A d \in Desc : Hal(d) # NoBuf /\ ~(tpc = "set" /\ d = cur)
                       => rx_buf_info[d] = [nwb |-> Hal(d), mapped |-> TRUE]
  /\ tpc = "clear" => /\ rx_buf_info[cur].nwb # NoBuf
                      /\ data[rx_buf_info[cur].nwb] = Frame(cur)
  /\ tpc = "deliver" => data[nwb] = Frame(cur)
  /\ (nwb = NoBuf) = (tpc \notin {"deliver", "map", "set"})
  /\ dev = "free" => /\ Hal(di) = NoBuf
                     /\ tpc \in {"clear", "deliver", "check", "map"} => cur # di
  /\ dev \in {"down", "init"} => \A d \in Desc : d >= di => Hal(d) = NoBuf

(* While the tasklet does not run beside the removal, the maps agree; what  *)
(* goes round is mapped until then.                                         *)
AgreeInv ==
  /\ ~late =>
       /\ \A d \in Desc : rx_buf_info[d].mapped = (rx_buf_info[d].nwb # NoBuf)
       /\ \A d \in Settled : (dev = "free" /\ d = di) \/ rx_buf_info[d].nwb = Hal(d)
       /\ tpc \in {"deliver", "check", "map", "set"} => rx_buf_info[cur].nwb = NoBuf
       /\ tpc = "set" => Hal(cur) = nwb
  /\ dev \in Starting \cup {"up"} =>
        \A d \in Around : d \in Settled => rx_buf_info[d].mapped

(* Descriptors are lost with a failed allocation or an unknown event only.  *)
LostInv ==
  dev \in {"wait", "up"} =>
     Cardinality(Desc \ Around) <= (allocFails + Handled) * MaxPkts

(* Whose the buffers are, and which are nobody's. *)
Owning ==
  /\ \A d, e \in Desc : rx_buf_info[d].nwb = rx_buf_info[e].nwb
                          => d = e \/ rx_buf_info[d].nwb = NoBuf
  /\ \A d \in Desc : rx_buf_info[d].nwb = nwb => nwb = NoBuf
  /\ Owned \ {NoBuf} \subseteq live
  /\ Owned \cap stack = {}
  /\ stack \subseteq live
Leaked == live \ (Owned \cup stack)
OwnInv == ~late => Owning /\ Cardinality(Leaked) <= Handled

(* A removal that nothing disturbs frees one descriptor after the other.    *)
CleanInv ==
  ~late /\ allocFails = 0 /\ unknown = 0 =>
     /\ dev \in {"check", "unmap", "free"} =>
           \A d \in Desc : rx_buf_info[d].mapped = (d >= di)
     /\ dev \in {"rem", "kill", "gone"} =>
           info = "freed" /\ \A d \in Desc : rx_buf_info[d] = Unmapped

(* Frames are reported in order, and so they are delivered: every frame in  *)
(* the pipe is later than the ones the stack has.                           *)
ReportOrder ==
  /\ \A m, n \in 1..Len(reported) : m < n => reported[m] < reported[n]
  /\ \A n \in 1..Len(reported), a \in 1..Len(filled) : reported[n] < Frame(filled[a])
  /\ \A n \in 1..Len(reported) : reported[n] <= frames
FrameInv ==
  /\ ReportOrder
  /\ \A i \in 0..Len(event_q) : Type(i) = "data" =>
        \A a \in 1..Len(Stage(i)) : \E n \in 1..Len(reported) : reported[n] = Frame(Stage(i)[a])
  /\ \A m, n \in 1..Len(delivered) : m < n => delivered[m] < delivered[n]
  /\ \A m \in 1..Len(delivered) : \E n \in 1..Len(reported) : reported[n] = delivered[m]
  /\ \A i \in 0..End : \A a \in 1..Len(Stage(i)), m \in 1..Len(delivered) :
        \/ delivered[m] < Frame(Stage(i)[a])
        \/ i = 0 /\ a = 1 /\ tpc \in Done /\ delivered[m] = Frame(Stage(i)[a])

(* While nothing fails, the stack has the first of the frames reported, and *)
(* the others are in the events still to be handled.                        *)
Waits(i, a, f) == /\ Type(i) = "data" /\ Frame(Stage(i)[a]) = f
                  /\ ~(i = 0 /\ a = 1 /\ tpc \in Done)
Waiting(f) == \E i \in 0..Len(event_q) : \E a \in 1..Len(Stage(i)) : Waits(i, a, f)
Complete ==
  /\ Len(delivered) <= Len(reported)
  /\ \A n \in 1..Len(delivered) : delivered[n] = reported[n]
  /\ \A n \in (Len(delivered) + 1)..Len(reported) : Waiting(reported[n])
UnfailedInv == ~Failed => Complete

RxInv == /\ TypeInv /\ QuietInv /\ PipeInv /\ UnknownInv /\ MapInv /\ AgreeInv
         /\ LostInv /\ OwnInv /\ CleanInv /\ FrameInv /\ UnfailedInv
-----------------------------------------------------------------------------
(* Every set of numbers has a least one. *)
LEMMA MinByOrder ==
  ASSUME NEW R, IsWellFoundedOn(R, Nat),
         \A x, y \in Nat : <<y, x>> \in R <=> y < x,
         NEW T \in SUBSET Nat, T # {}
  PROVE \E x \in T : \A y \in T : x <= y
<1>1. PICK x \in T : \A y \in T : ~(<<y, x>> \in R)
  BY WFMin
<1>2. ASSUME NEW y \in T PROVE x <= y
  <2>1. <<y, x>> \notin R
    BY <1>1
  <2>2. x \in Nat /\ y \in Nat
    OBVIOUS
  <2> QED BY <2>1, <2>2
<1> QED BY <1>2

LEMMA LeastExists ==
  ASSUME NEW T \in SUBSET Nat, T # {}
  PROVE \E x \in T : \A y \in T : x <= y
<1> DEFINE R == OpToRel(<, Nat)
<1>1. IsWellFoundedOn(R, Nat)
  BY NatLessThanWellFounded
<1>2. \A x, y \in Nat : <<y, x>> \in R <=> y < x
  BY DEF OpToRel
<1> HIDE DEF R
<1> QED BY <1>1, <1>2, MinByOrder

(* The slots are numbers in their pools, and there are finitely many.       *)
LEMMA SlotIs == \A s : s \in Slot <=> \E p \in Pool : \E b \in 0..(NumBufs[p] - 1) : s = <<p, b>>
BY DEF Slot

LEMMA Interval0 ==
  ASSUME NEW n \in Nat
  PROVE  IsFiniteSet(0..(n - 1)) /\ Cardinality(0..(n - 1)) = n
<1>1. 0 \in Int /\ n - 1 \in Int
  OBVIOUS
<1>2. /\ IsFiniteSet(0..(n - 1))
      /\ Cardinality(0..(n - 1)) = IF 0 > n - 1 THEN 0 ELSE (n - 1) - 0 + 1
  BY <1>1, FS_Interval
<1>3. (IF 0 > n - 1 THEN 0 ELSE (n - 1) - 0 + 1) = n
  OBVIOUS
<1> QED BY <1>2, <1>3

LEMMA PoolSlots ==
  ASSUME NEW p \in Pool
  PROVE /\ IsFiniteSet({p} \X (0..(NumBufs[p] - 1)))
        /\ Cardinality({p} \X (0..(NumBufs[p] - 1))) = NumBufs[p]
<1>1. NumBufs[p] \in Nat
  BY PoolAssumption DEF Pool
<1> DEFINE B == 0..(NumBufs[p] - 1)
<1>2. IsFiniteSet(B) /\ Cardinality(B) = NumBufs[p]
  BY <1>1, Interval0
<1> HIDE DEF B
<1>3. IsFiniteSet({p}) /\ Cardinality({p}) = 1
  BY FS_Singleton
<1>4. IsFiniteSet({p} \X B) /\ Cardinality({p} \X B) = 1 * Cardinality(B)
  BY <1>2, <1>3, FS_Product
<1> QED BY <1>1, <1>2, <1>4 DEF B

LEMMA SlotFinite == IsFiniteSet(Slot)
<1> DEFINE F == [p \in Pool |-> {p} \X (0..(NumBufs[p] - 1))]
           T == {{p} \X (0..(NumBufs[p] - 1)) : p \in Pool}
<1>1. IsFiniteSet(Pool)
  BY FS_Interval, PoolAssumption DEF Pool
<1>2. F \in Surjection(Pool, T)
  BY DEF Surjection
<1>3. \A X \in T : IsFiniteSet(X)
  BY PoolSlots
<1> HIDE DEF F, T
<1>4. IsFiniteSet(T)
  BY <1>1, <1>2, FS_Surjection
<1>5. IsFiniteSet(UNION T)
  BY <1>3, <1>4, FS_UNION
<1> QED BY <1>5 DEF Slot, T

(* rx_desc counts the buffers of the pools before one.                      *)
LEMMA FirstDesc ==
  /\ \A p \in 0..NumPools : rx_desc[p] \in Nat
  /\ rx_desc[0] = 0
  /\ \A p \in Pool : NumBufs[p] \in Nat /\ rx_desc[p + 1] = rx_desc[p] + NumBufs[p]
  /\ \A p, q \in 0..NumPools : p <= q => rx_desc[p] <= rx_desc[q]
<1> DEFINE Before(p) == {s \in Slot : s[1] < p}
<1>0. NumPools \in Nat
  BY PoolAssumption
<1>1. \A p \in 0..NumPools : rx_desc[p] = Cardinality(Before(p))
  BY DEF rx_desc
<1>2. \A p \in 0..NumPools : IsFiniteSet(Before(p)) /\ Cardinality(Before(p)) \in Nat
  <2> TAKE p \in 0..NumPools
  <2>1. Before(p) \in SUBSET Slot
    OBVIOUS
  <2>2. IsFiniteSet(Before(p))
    BY <2>1, SlotFinite, FS_Subset
  <2> QED BY <2>2, FS_CardinalityType
<1>3. Before(0) = {}
  BY SlotIs DEF Pool
<1>4. \A p, q \in 0..NumPools : p <= q => Cardinality(Before(p)) <= Cardinality(Before(q))
  <2> SUFFICES ASSUME NEW p \in 0..NumPools, NEW q \in 0..NumPools, p <= q
               PROVE Cardinality(Before(p)) <= Cardinality(Before(q))
    OBVIOUS
  <2>1. Before(p) \in SUBSET Before(q)
    <3> SUFFICES ASSUME NEW s \in Slot, s[1] < p PROVE s[1] < q
      OBVIOUS
    <3>1. s[1] \in Nat
      BY SlotIs, <1>0 DEF Pool
    <3> QED BY <3>1, <1>0
  <2>2. IsFiniteSet(Before(q))
    BY <1>2
  <2> HIDE DEF Before
  <2> QED BY <2>1, <2>2, FS_Subset
<1>5. \A p \in Pool : NumBufs[p] \in Nat /\ Cardinality(Before(p + 1)) = Cardinality(Before(p)) + NumBufs[p]
  <2> TAKE p \in Pool
  <2> DEFINE P == {p} \X (0..(NumBufs[p] - 1))
  <2>1. NumBufs[p] \in Nat
    BY PoolAssumption DEF Pool
  <2>2. p \in 0..NumPools /\ p + 1 \in 0..NumPools /\ p \in Nat
    BY <1>0 DEF Pool
  <2>3. Before(p + 1) = Before(p) \cup P
    <3>1. ASSUME NEW s \in Slot PROVE s[1] \in Nat /\ (s[1] = p <=> s \in P)
      BY SlotIs DEF Pool
    <3>2. \A s \in P : s \in Slot
      BY SlotIs
    <3>3. \A x \in Nat : x < p + 1 <=> x < p \/ x = p
      BY <2>2
    <3> QED BY <3>1, <3>2, <3>3
  <2>4. Before(p) \cap P = {}
    BY <2>2
  <2>5. IsFiniteSet(P) /\ Cardinality(P) = NumBufs[p]
    BY PoolSlots
  <2>6. IsFiniteSet(Before(p)) /\ Cardinality(Before(p)) \in Nat
    BY <1>2, <2>2
  <2> HIDE DEF Before, P
  <2>7. Cardinality(Before(p) \cup P) = Cardinality(Before(p)) + Cardinality(P) - Cardinality(Before(p) \cap P)
    BY <2>5, <2>6, FS_Union
  <2>8. Cardinality(Before(p) \cap P) = 0
    BY <2>4, FS_EmptySet
  <2> QED BY <2>1, <2>3, <2>5, <2>6, <2>7, <2>8
<1> HIDE DEF Before
<1>6. Cardinality(Before(0)) = 0
  BY <1>3, FS_EmptySet
<1>7. \A p \in Pool : p \in 0..NumPools /\ p + 1 \in 0..NumPools
  BY <1>0 DEF Pool
<1>8. 0 \in 0..NumPools
  BY <1>0
<1> QED BY <1>1, <1>2, <1>4, <1>5, <1>6, <1>7, <1>8

(* Every descriptor is in a pool, has a slot there, and no other has it.    *)
LEMMA DescFacts == num_rx_bufs \in Nat /\ \A d \in Desc : d \in Nat /\ d < num_rx_bufs
<1>1. NumPools \in 0..NumPools
  BY PoolAssumption
<1> QED BY <1>1, FirstDesc DEF Desc, num_rx_bufs

LEMMA PoolOfDesc ==
  ASSUME NEW d \in Desc
  PROVE \E p \in Pool : InPool(d, p)
<1> DEFINE T == {q \in 0..NumPools : d < rx_desc[q]}
<1>0. NumPools \in Nat /\ d \in Nat /\ d < rx_desc[NumPools]
  BY PoolAssumption, DescFacts DEF num_rx_bufs
<1>1. T \in SUBSET Nat /\ T # {}
  BY <1>0
<1>2. PICK q \in T : \A r \in T : q <= r
  BY <1>1, LeastExists
<1>3. q # 0
  BY <1>0, FirstDesc
<1>4. q - 1 \in Pool /\ q - 1 \in 0..NumPools /\ (q - 1) + 1 = q
  BY <1>0, <1>3 DEF Pool
<1>5. ~ (d < rx_desc[q - 1])
  BY <1>0, <1>2, <1>4
<1>6. rx_desc[q] = rx_desc[q - 1] + NumBufs[q - 1] /\ rx_desc[q - 1] \in Nat
  BY <1>4, FirstDesc
<1>7. InPool(d, q - 1)
  BY <1>0, <1>5, <1>6 DEF InPool
<1> QED BY <1>4, <1>7

LEMMA MapFacts ==
  ASSUME NEW d \in Desc
  PROVE /\ MapDescToPool(d) \in Slot
        /\ MapDescToPool(d)[1] \in Pool
        /\ InPool(d, MapDescToPool(d)[1])
        /\ MapDescToPool(d)[2] = d - rx_desc[MapDescToPool(d)[1]]
<1> DEFINE p == CHOOSE q \in Pool : InPool(d, q)
<1>1. p \in Pool /\ InPool(d, p)
  BY PoolOfDesc
<1>2. MapDescToPool(d) = <<p, d - rx_desc[p]>>
  BY DEF MapDescToPool
<1> HIDE DEF p
<1>3. p \in 0..NumPools /\ d \in Nat /\ rx_desc[p] \in Nat /\ NumBufs[p] \in Nat
  BY <1>1, FirstDesc, DescFacts, PoolAssumption DEF Pool
<1>4. d - rx_desc[p] \in 0..(NumBufs[p] - 1)
  BY <1>1, <1>3 DEF InPool
<1> QED BY <1>1, <1>2, <1>4, SlotIs

LEMMA MapInjective ==
  ASSUME NEW d \in Desc, NEW e \in Desc, MapDescToPool(d) = MapDescToPool(e)
  PROVE d = e
<1> DEFINE m == MapDescToPool(d)
<1>1. /\ m[1] \in Pool /\ m[2] = d - rx_desc[m[1]] /\ m[2] = e - rx_desc[m[1]]
  BY MapFacts
<1> HIDE DEF m
<1>2. rx_desc[m[1]] \in Nat /\ d \in Nat /\ e \in Nat
  BY <1>1, FirstDesc, DescFacts, PoolAssumption DEF Pool
<1> QED BY <1>1, <1>2

(* A descriptor is in one pool only.                                        *)
LEMMA OnePool ==
  ASSUME NEW d \in Desc, NEW p \in Pool, NEW q \in Pool, InPool(d, p), InPool(d, q)
  PROVE p = q
<1>0. NumPools \in Nat /\ d \in Nat
  BY PoolAssumption, DescFacts
<1>1. /\ p \in 0..NumPools /\ q \in 0..NumPools /\ p + 1 \in 0..NumPools /\ q + 1 \in 0..NumPools
      /\ p \in Nat /\ q \in Nat
  BY <1>0 DEF Pool
<1>2. /\ rx_desc[p] \in Nat /\ rx_desc[q] \in Nat
      /\ rx_desc[p + 1] = rx_desc[p] + NumBufs[p] /\ rx_desc[q + 1] = rx_desc[q] + NumBufs[q]
      /\ NumBufs[p] \in Nat /\ NumBufs[q] \in Nat
  BY <1>1, FirstDesc
<1>3. ASSUME p < q PROVE FALSE
  <2>1. rx_desc[p + 1] <= rx_desc[q]
    BY <1>1, <1>3, FirstDesc
  <2> QED BY <1>0, <1>2, <2>1 DEF InPool
<1>4. ASSUME q < p PROVE FALSE
  <2>1. rx_desc[q + 1] <= rx_desc[p]
    BY <1>1, <1>4, FirstDesc
  <2> QED BY <1>0, <1>2, <2>1 DEF InPool
<1> QED BY <1>1, <1>3, <1>4
-----------------------------------------------------------------------------
(* Sequences: what appending e does, and what taking the head away does.    *)
LEMMA AppendFacts ==
  ASSUME NEW X, NEW q \in Seq(X), NEW e \in X
  PROVE /\ Append(q, e) \in Seq(X) /\ Len(Append(q, e)) = Len(q) + 1 /\ Len(q) \in Nat
        /\ \A i \in 1..Len(q) : Append(q, e)[i] = q[i]
        /\ Append(q, e)[Len(q) + 1] = e
OBVIOUS

LEMMA TailFacts ==
  ASSUME NEW X, NEW q \in Seq(X), q # <<>>
  PROVE /\ Len(q) \in Nat /\ Len(q) > 0
        /\ Head(q) = q[1] /\ q[1] \in X
        /\ Tail(q) \in Seq(X) /\ Len(Tail(q)) = Len(q) - 1
        /\ \A i \in 1..(Len(q) - 1) : Tail(q)[i] = q[i + 1]
<1>1. Len(q) \in Nat /\ Len(q) > 0
  OBVIOUS
<1>2. Head(q) = q[1] /\ q[1] \in X
  BY <1>1, ElementOfSeq
<1> QED BY <1>1, <1>2

LEMMA SubSeqFacts ==
  ASSUME NEW X, NEW q \in Seq(X), NEW n \in 1..Len(q)
  PROVE /\ SubSeq(q, 1, n) \in Seq(X) /\ Len(SubSeq(q, 1, n)) = n
        /\ \A i \in 1..n : SubSeq(q, 1, n)[i] = q[i]
        /\ SubSeq(q, n + 1, Len(q)) \in Seq(X) /\ Len(SubSeq(q, n + 1, Len(q))) = Len(q) - n
        /\ \A i \in 1..(Len(q) - n) : SubSeq(q, n + 1, Len(q))[i] = q[n + i]
<1>1. Len(q) \in Nat /\ n \in Nat /\ n <= Len(q)
  OBVIOUS
<1>2. /\ SubSeq(q, 1, n) \in Seq(X) /\ Len(SubSeq(q, 1, n)) = n
      /\ \A i \in 1..n : SubSeq(q, 1, n)[i] = q[i]
  BY <1>1
<1>3. CASE n = Len(q)
  <2>1. SubSeq(q, n + 1, Len(q)) = <<>>
    BY <1>1, <1>3
  <2> QED BY <1>1, <1>2, <1>3, <2>1
<1>4. CASE n < Len(q)
  BY <1>1, <1>2, <1>4
<1> QED BY <1>1, <1>3, <1>4

LEMMA EmptyIs ==
  ASSUME NEW X, NEW q \in Seq(X)
  PROVE q = <<>> <=> Len(q) = 0
OBVIOUS

LEMMA ConcatFacts ==
  ASSUME NEW X, NEW q \in Seq(X), NEW r \in Seq(X)
  PROVE /\ q \o r \in Seq(X) /\ Len(q \o r) = Len(q) + Len(r)
        /\ Len(q) \in Nat /\ Len(r) \in Nat
        /\ \A i \in 1..Len(q) : (q \o r)[i] = q[i]
        /\ \A i \in 1..Len(r) : (q \o r)[Len(q) + i] = r[i]
OBVIOUS

(* The records and the constants are of their types.                        *)
Events == [type : {"data", "beacon", "unknown"}, descs : Seq(Desc)]

LEMMA ConstantFacts ==
  /\ NumPools \in Nat /\ MaxPkts \in Nat /\ MaxFrames \in Nat
  /\ MaxAllocFails \in Nat /\ MaxUnknown \in Nat
BY PoolAssumption, BoundAssumption

LEMMA CurFacts ==
  ASSUME TypeInv, tpc # "off"
  PROVE /\ todo \in Events /\ todo.descs \in Seq(Desc) /\ todo.descs # <<>>
        /\ Len(todo.descs) \in Nat /\ Len(todo.descs) > 0
        /\ cur \in Desc /\ cur = todo.descs[1]
        /\ Tail(todo.descs) \in Seq(Desc) /\ Len(Tail(todo.descs)) = Len(todo.descs) - 1
        /\ \A i \in 1..(Len(todo.descs) - 1) : Tail(todo.descs)[i] = todo.descs[i + 1]
<1>1. todo \in Events /\ todo.descs \in Seq(Desc) /\ todo.descs # <<>>
  BY DEF TypeInv, TypeOK, BoundInv, Events
<1> QED BY <1>1, TailFacts DEF cur

LEMMA QueueFacts ==
  ASSUME TypeInv
  PROVE /\ event_q \in Seq(Events) /\ Len(event_q) \in Nat
        /\ \A i \in 1..Len(event_q) : event_q[i] \in Events
        /\ filled \in Seq(Desc) /\ Len(filled) \in Nat
        /\ \A i \in 1..Len(filled) : filled[i] \in Desc
        /\ todo.descs \in Seq(Desc)
        /\ \A p \in Pool : posted[p] \in Seq(Desc)
        /\ \A p \in Pool : \A n \in 1..Len(posted[p]) : posted[p][n] \in Desc /\ InPool(posted[p][n], p)
<1>1. event_q \in Seq(Events) /\ filled \in Seq(Desc) /\ todo \in Events
  BY DEF TypeInv, TypeOK, Events
<1>2. \A p \in Pool : posted[p] \in Seq(Desc)
  BY DEF TypeInv, TypeOK
<1>3. \A i \in 1..Len(event_q) : event_q[i] \in Events
  BY <1>1, ElementOfSeq
<1>4. \A i \in 1..Len(filled) : filled[i] \in Desc
  BY <1>1, ElementOfSeq
<1>5. ASSUME NEW p \in Pool, NEW n \in 1..Len(posted[p])
      PROVE posted[p][n] \in Desc /\ InPool(posted[p][n], p)
  <2>1. posted[p][n] \in Desc
    BY <1>2, ElementOfSeq
  <2>2. posted[p][n] \in ToSet(posted[p])
    BY <1>2 DEF ToSet
  <2> QED BY <2>1, <2>2 DEF TypeInv, TypeOK
<1> QED BY <1>1, <1>2, <1>3, <1>4, <1>5 DEF Events

(* The types in four parts. *)
DevTypes ==
  /\ dev \in Starting \cup {"up"} \cup Stopping
  /\ di \in 0..num_rx_bufs
  /\ dev \in {"unmap", "free"} => di < num_rx_bufs
  /\ rpu \in {"off", "told", "on"}
  /\ allocFails \in 0..MaxAllocFails
  /\ unknown \in 0..MaxUnknown
  /\ late \in BOOLEAN
MapTypes ==
  /\ rx_buf_info \in [Desc -> Info]
  /\ \A d \in Desc : rx_buf_info[d].nwb <= nwbs
  /\ info \in {"none", "allocated", "freed"}
  /\ hal_map \in [Slot -> Nat]
  /\ \A s \in Slot : hal_map[s] <= nwbs
  /\ hal \in BOOLEAN
  /\ data \in Seq(0..MaxFrames)
  /\ nwbs = Len(data) /\ nwbs \in Nat
  /\ live \subseteq 1..nwbs
  /\ stack \subseteq 1..nwbs
  /\ nwb \in 0..nwbs
RpuTypes ==
  /\ slot \in [Slot -> 0..MaxFrames]
  /\ \A s \in Slot : slot[s] <= frames
  /\ posted \in [Pool -> Seq(Desc)]
  /\ \A p \in Pool : \A d \in ToSet(posted[p]) : InPool(d, p)
  /\ filled \in Seq(Desc)
  /\ \A n \in 1..Len(filled) : Frame(filled[n]) > 0
  /\ event_q \in Seq(Events)
  /\ \A i \in 1..Len(event_q) : event_q[i].descs # <<>> /\ Len(event_q[i].descs) <= MaxPkts
  /\ frames \in 0..MaxFrames
  /\ reported \in Seq(1..MaxFrames)
TaskletTypes ==
  /\ tpc \in {"off", "unmap", "clear", "deliver", "check", "map", "set", "post"}
  /\ todo \in Events
  /\ Len(todo.descs) <= MaxPkts
  /\ (tpc = "off") = (todo.descs = <<>>)
  /\ delivered \in Seq(0..MaxFrames)

LEMMA TypeParts == TypeInv <=> DevTypes /\ MapTypes /\ RpuTypes /\ TaskletTypes
<1>1. TypeInv => DevTypes
  BY DEF TypeInv, TypeOK, BoundInv, DevTypes
<1>2. TypeInv => MapTypes
  BY DEF TypeInv, TypeOK, BoundInv, MapTypes
<1>3. TypeInv => RpuTypes
  BY DEF TypeInv, TypeOK, BoundInv, RpuTypes, Events
<1>4. TypeInv => TaskletTypes
  BY DEF TypeInv, TypeOK, BoundInv, TaskletTypes, Events
<1>5. DevTypes /\ MapTypes /\ RpuTypes /\ TaskletTypes => TypeOK
  BY DEF TypeOK, DevTypes, MapTypes, RpuTypes, TaskletTypes, Events
<1>6. DevTypes /\ MapTypes /\ RpuTypes /\ TaskletTypes => BoundInv
  BY DEF BoundInv, DevTypes, MapTypes, RpuTypes, TaskletTypes
<1> QED BY <1>1, <1>2, <1>3, <1>4, <1>5, <1>6 DEF TypeInv

LEMMA TypePartsNext ==
  DevTypes' /\ MapTypes' /\ RpuTypes' /\ TaskletTypes' => TypeInv'
BY TypeParts, PTL

LEMMA TypesKept ==
  /\ DevTypes /\ UNCHANGED <<dev, di, rpu, allocFails, unknown, late>> => DevTypes'
  /\ MapTypes /\ UNCHANGED <<mapVars, bufVars, nwb>> => MapTypes'
  /\ RpuTypes /\ UNCHANGED <<slot, posted, filled, event_q, frames, reported>> => RpuTypes'
  /\ TaskletTypes /\ UNCHANGED <<tpc, todo, delivered>> => TaskletTypes'
<1>1. DevTypes /\ UNCHANGED <<dev, di, rpu, allocFails, unknown, late>> => DevTypes'
  BY DEF DevTypes
<1>2. MapTypes /\ UNCHANGED <<mapVars, bufVars, nwb>> => MapTypes'
  BY DEF MapTypes, mapVars, bufVars
<1>3. RpuTypes /\ UNCHANGED <<slot, posted, filled, event_q, frames, reported>> => RpuTypes'
  BY DEF RpuTypes, Frame
<1>4. TaskletTypes /\ UNCHANGED <<tpc, todo, delivered>> => TaskletTypes'
  BY DEF TaskletTypes
<1> QED BY <1>1, <1>2, <1>3, <1>4

LEMMA TypeInit == Init => TypeInv
<1> SUFFICES ASSUME Init PROVE TypeInv
  OBVIOUS
<1> USE ConstantFacts, DescFacts
<1>1. DevTypes
  <2>1. 0 \in 0..num_rx_bufs /\ 0 \in 0..MaxAllocFails /\ 0 \in 0..MaxUnknown
    OBVIOUS
  <2> HIDE ConstantFacts, DescFacts
  <2> QED BY <2>1 DEF Init, DevTypes, Starting, Stopping
<1>2. MapTypes
  BY DEF Init, MapTypes, Info, Unmapped, NoBuf
<1>3. RpuTypes
  <2>1. \A p \in Pool : posted[p] = <<>>
    BY DEF Init
  <2>2. posted \in [Pool -> Seq(Desc)]
    BY DEF Init
  <2>3. \A p \in Pool : ToSet(posted[p]) = {}
    BY <2>1 DEF ToSet
  <2> QED BY <2>2, <2>3 DEF Init, RpuTypes
<1>4. TaskletTypes
  BY DEF Init, TaskletTypes, Events
<1> QED BY <1>1, <1>2, <1>3, <1>4, TypeParts

(* The descriptors in a pool's queue are the pool's.                        *)
LEMMA PostTypes ==
  ASSUME TypeInv, NEW d \in Desc, Post(d)
  PROVE /\ posted' \in [Pool -> Seq(Desc)]
        /\ \A p \in Pool : \A e \in ToSet(posted'[p]) : InPool(e, p)
<1> DEFINE r == MapDescToPool(d)[1]
<1>1. r \in Pool /\ InPool(d, r)
  BY MapFacts
<1> HIDE DEF r
<1>2. posted \in [Pool -> Seq(Desc)] /\ \A p \in Pool : \A e \in ToSet(posted[p]) : InPool(e, p)
  BY DEF TypeInv, TypeOK
<1>3. posted' = [posted EXCEPT ![r] = Append(posted[r], d)]
  BY DEF Post, r
<1>4. posted[r] \in Seq(Desc)
  BY <1>1, <1>2
<1>5. /\ Append(posted[r], d) \in Seq(Desc) /\ Len(Append(posted[r], d)) = Len(posted[r]) + 1
      /\ Len(posted[r]) \in Nat
      /\ \A i \in 1..Len(posted[r]) : Append(posted[r], d)[i] = posted[r][i]
      /\ Append(posted[r], d)[Len(posted[r]) + 1] = d
  BY <1>4, AppendFacts
<1>6. \A e \in ToSet(Append(posted[r], d)) : InPool(e, r)
  <2> TAKE e \in ToSet(Append(posted[r], d))
  <2>1. PICK i \in 1..(Len(posted[r]) + 1) : Append(posted[r], d)[i] = e
    BY <1>4, <1>5 DEF ToSet
  <2>2. CASE i = Len(posted[r]) + 1
    BY <1>1, <1>5, <2>1, <2>2
  <2>3. CASE i \in 1..Len(posted[r])
    <3>1. e = posted[r][i]
      BY <1>5, <2>1, <2>3
    <3>2. e \in ToSet(posted[r])
      BY <1>4, <2>3, <3>1 DEF ToSet
    <3> QED BY <1>1, <1>2, <3>2
  <2> QED BY <1>5, <2>2, <2>3
<1> QED BY <1>1, <1>2, <1>3, <1>5, <1>6

LEMMA MappedTypes ==
  ASSUME NEW d \in Desc, NEW b, hal_map \in [Slot -> Nat], NEW hm, hm = Mapped(d, b)
  PROVE /\ b \in Nat => hm \in [Slot -> Nat]
        /\ \A s \in Slot : s # MapDescToPool(d) => hm[s] = hal_map[s]
        /\ hm[MapDescToPool(d)] = IF Hal(d) = NoBuf THEN b ELSE Hal(d)
BY MapFacts DEF Mapped, Hal

LEMMA TypeStart ==
  TypeInv /\ (InitRx \/ InitRxDone \/ InitRxFail \/ InitDone \/ Stop \/ RpuInit
              \/ DeinitCheck \/ DeinitRxDone \/ HalMapFree \/ TaskletKill) => TypeInv'
<1> USE ConstantFacts, DescFacts DEF Starting, Stopping
<1> SUFFICES ASSUME TypeInv,
                    InitRx \/ InitRxDone \/ InitRxFail \/ InitDone \/ Stop \/ RpuInit
                      \/ DeinitCheck \/ DeinitRxDone \/ HalMapFree \/ TaskletKill
             PROVE TypeInv'
  OBVIOUS
<1>0. DevTypes /\ MapTypes /\ RpuTypes /\ TaskletTypes
  BY TypeParts
<1>1. CASE InitRx
  <2>1. DevTypes'
    BY <1>0, <1>1 DEF InitRx, DevTypes, rpuVars
  <2>2. MapTypes'
    BY <1>0, <1>1 DEF InitRx, MapTypes, bufVars, taskletVars, Unmapped, Info, NoBuf
  <2>3. RpuTypes' /\ TaskletTypes'
    BY <1>0, <1>1, TypesKept DEF InitRx, rpuVars, taskletVars
  <2> QED BY <2>1, <2>2, <2>3, TypePartsNext
<1>2. CASE InitRxDone \/ InitRxFail \/ InitDone \/ RpuInit \/ Stop
  <2>1. UNCHANGED <<mapVars, slot, bufVars, posted, event_q, filled, frames, reported, taskletVars>>
    BY <1>2 DEF InitRxDone, InitRxFail, InitDone, RpuInit, Stop, rpuVars
  <2>2. MapTypes' /\ RpuTypes' /\ TaskletTypes'
    BY <1>0, <2>1, TypesKept DEF taskletVars
  <2>3. /\ \/ dev' = dev /\ di' = di
           \/ dev' \in {"wait", "rem", "up", "check"} /\ di' \in {di, 0}
        /\ rpu' \in {rpu, "told", "on"}
        /\ unknown' = unknown
    BY <1>2 DEF InitRxDone, InitRxFail, InitDone, RpuInit, Stop, devVars, rpuVars
  <2>4. allocFails' = allocFails \/ Fail
    BY <1>2 DEF InitRxDone, InitRxFail, InitDone, RpuInit, Stop
  <2>5. late' = late \/ late' = (late \/ tpc # "off")
    BY <1>2 DEF InitRxDone, InitRxFail, InitDone, RpuInit, Stop
  <2>6. allocFails' \in 0..MaxAllocFails
    BY <1>0, <2>4 DEF Fail, DevTypes
  <2>7. late' \in BOOLEAN
    BY <1>0, <2>5 DEF DevTypes
  <2>8. di' \in 0..num_rx_bufs
    BY <1>0, <2>3 DEF DevTypes
  <2>9. dev' \in Starting \cup {"up"} \cup Stopping /\ (dev' \in {"unmap", "free"} => di' < num_rx_bufs)
    BY <1>0, <2>3 DEF DevTypes
  <2>10. rpu' \in {"off", "told", "on"} /\ unknown' \in 0..MaxUnknown
    BY <1>0, <2>3 DEF DevTypes
  <2>11. DevTypes'
    BY <2>6, <2>7, <2>8, <2>9, <2>10 DEF DevTypes
  <2> QED BY <2>2, <2>11, TypePartsNext
<1>3. CASE DeinitCheck \/ TaskletKill
  <2>1. UNCHANGED <<mapVars, slot, bufVars, posted, event_q, rpuVars, taskletVars>>
    BY <1>3 DEF DeinitCheck, TaskletKill
  <2>2. MapTypes' /\ RpuTypes' /\ TaskletTypes'
    BY <1>0, <2>1, TypesKept DEF taskletVars, rpuVars
  <2>3. DevTypes'
    BY <1>0, <1>3 DEF DeinitCheck, TaskletKill, DevTypes, rpuVars
  <2> QED BY <2>2, <2>3, TypePartsNext
<1>4. CASE DeinitRxDone \/ HalMapFree
  <2>1. UNCHANGED <<slot, bufVars, posted, event_q, rpuVars, taskletVars>>
    BY <1>4 DEF DeinitRxDone, HalMapFree
  <2>2. RpuTypes' /\ TaskletTypes'
    BY <1>0, <2>1, TypesKept DEF taskletVars, rpuVars
  <2>3. DevTypes'
    BY <1>0, <1>4 DEF DeinitRxDone, HalMapFree, DevTypes, rpuVars
  <2>4. MapTypes'
    BY <1>0, <1>4 DEF DeinitRxDone, HalMapFree, MapTypes, bufVars, taskletVars
  <2> QED BY <2>2, <2>3, <2>4, TypePartsNext
<1> QED BY <1>1, <1>2, <1>3, <1>4

LEMMA TypeDeinit == TypeInv /\ (DeinitUnmap \/ DeinitFree) => TypeInv'
<1> USE ConstantFacts, DescFacts
<1> SUFFICES ASSUME TypeInv, DeinitUnmap \/ DeinitFree PROVE TypeInv'
  OBVIOUS
<1>0. DevTypes /\ MapTypes /\ RpuTypes /\ TaskletTypes
  BY TypeParts
<1>1. di \in Desc
  BY <1>0 DEF DeinitUnmap, DeinitFree, DevTypes, Desc
<1>2. MapDescToPool(di) \in Slot
  BY <1>1, MapFacts
<1>3. UNCHANGED <<slot, posted, event_q, rpuVars, taskletVars>>
  BY DEF DeinitUnmap, DeinitFree
<1>4. RpuTypes' /\ TaskletTypes'
  BY <1>0, <1>3, TypesKept DEF taskletVars, rpuVars
<1>5. DevTypes'
  <2>1. /\ dev' \in {"check", "free"} /\ di' \in {di, di + 1} /\ (dev' = "free" => di' = di)
        /\ UNCHANGED <<rpu, unknown, allocFails, late>>
    BY DEF DeinitUnmap, DeinitFree, rpuVars
  <2> QED BY <1>0, <1>1, <2>1 DEF DevTypes, Stopping
<1>6. CASE DeinitUnmap
  <2>1. hal_map' = [hal_map EXCEPT ![MapDescToPool(di)] = NoBuf]
        /\ UNCHANGED <<rx_buf_info, info, hal, bufVars, nwb>>
    BY <1>6 DEF DeinitUnmap, taskletVars
  <2>2. hal_map' \in [Slot -> Nat] /\ \A s \in Slot : hal_map'[s] <= nwbs
    BY <1>0, <1>2, <2>1 DEF MapTypes, NoBuf
  <2>3. MapTypes'
    BY <1>0, <2>1, <2>2 DEF MapTypes, bufVars
  <2> QED BY <1>4, <1>5, <2>3, TypePartsNext
<1>7. CASE DeinitFree
  <2>1. /\ rx_buf_info' = [rx_buf_info EXCEPT ![di] = Unmapped]
        /\ live' \subseteq live
        /\ UNCHANGED <<info, hal_map, hal, data, stack, nwbs, nwb>>
    BY <1>7 DEF DeinitFree, taskletVars
  <2>2. rx_buf_info' \in [Desc -> Info] /\ \A d \in Desc : rx_buf_info'[d].nwb <= nwbs
    BY <1>0, <1>1, <2>1 DEF MapTypes, Unmapped, Info, NoBuf
  <2>3. MapTypes'
    BY <1>0, <2>1, <2>2 DEF MapTypes
  <2> QED BY <1>4, <1>5, <2>3, TypePartsNext
<1> QED BY <1>6, <1>7

(* A new buffer. *)
LEMMA AllocTypes ==
  ASSUME MapTypes, AllocBuf
  PROVE /\ nwbs' = nwbs + 1 /\ nwbs \in Nat /\ nwbs' \in Nat /\ live' = live \cup {nwbs + 1}
        /\ live' \subseteq 1..nwbs'
        /\ data' \in Seq(0..MaxFrames) /\ Len(data') = nwbs'
        /\ \A b \in 1..nwbs : data'[b] = data[b]
<1> USE ConstantFacts
<1>1. /\ data \in Seq(0..MaxFrames) /\ 0 \in 0..MaxFrames /\ data' = Append(data, 0)
      /\ nwbs = Len(data) /\ nwbs' = nwbs + 1 /\ live' = live \cup {nwbs + 1} /\ nwbs \in Nat
      /\ live \subseteq 1..nwbs
  BY DEF AllocBuf, MapTypes
<1>2. /\ Append(data, 0) \in Seq(0..MaxFrames) /\ Len(Append(data, 0)) = Len(data) + 1
      /\ \A i \in 1..Len(data) : Append(data, 0)[i] = data[i]
  BY <1>1, AppendFacts
<1>3. ASSUME NEW b \in live' PROVE b \in 1..nwbs'
  <2>1. b \in 1..nwbs \/ b = nwbs + 1
    BY <1>1, <1>3
  <2> QED BY <1>1, <2>1
<1>4. live' \subseteq 1..nwbs'
  BY <1>3
<1>5. \A b \in 1..nwbs : data'[b] = data[b]
  BY <1>1, <1>2
<1>6. data' \in Seq(0..MaxFrames) /\ Len(data') = nwbs'
  BY <1>1, <1>2
<1> QED BY <1>1, <1>4, <1>5, <1>6

LEMMA TypeInitDesc == TypeInv /\ InitDesc => TypeInv'
<1> SUFFICES ASSUME TypeInv, InitDesc PROVE TypeInv'
  OBVIOUS
<1> USE ConstantFacts, DescFacts
<1>0. DevTypes /\ MapTypes /\ RpuTypes /\ TaskletTypes
  BY TypeParts
<1>1. di \in Desc
  BY <1>0 DEF InitDesc, DevTypes, Desc
<1>2. /\ posted' \in [Pool -> Seq(Desc)]
      /\ \A p \in Pool : \A e \in ToSet(posted'[p]) : InPool(e, p)
  BY <1>1, PostTypes DEF InitDesc
<1>3. /\ nwbs' = nwbs + 1 /\ nwbs \in Nat /\ live' \subseteq 1..nwbs' /\ data' \in Seq(0..MaxFrames)
      /\ Len(data') = nwbs'
  BY <1>0, AllocTypes DEF InitDesc
<1>4. hal_map' \in [Slot -> Nat] /\ \A s \in Slot : hal_map'[s] <= nwbs + 1
  <2>1. MapDescToPool(di) \in Slot /\ hal_map' = Mapped(di, nwbs + 1)
    BY <1>1, MapFacts DEF InitDesc
  <2> QED BY <1>0, <1>3, <2>1 DEF Mapped, MapTypes
<1>5. rx_buf_info' \in [Desc -> Info] /\ \A d \in Desc : rx_buf_info'[d].nwb <= nwbs + 1
  <2>1. rx_buf_info' = [rx_buf_info EXCEPT ![di] = [nwb |-> nwbs + 1, mapped |-> TRUE]]
    BY DEF InitDesc
  <2>2. [nwb |-> nwbs + 1, mapped |-> TRUE] \in Info
    BY <1>3 DEF Info
  <2>3. rx_buf_info \in [Desc -> Info]
    BY <1>0 DEF MapTypes
  <2>4. \A d \in Desc : rx_buf_info[d].nwb \in Nat /\ rx_buf_info[d].nwb <= nwbs
    BY <1>0, <2>3 DEF MapTypes, Info
  <2> HIDE ConstantFacts, DescFacts
  <2>5. rx_buf_info' \in [Desc -> Info]
    BY <1>1, <2>1, <2>2, <2>3
  <2>6. ASSUME NEW d \in Desc PROVE rx_buf_info'[d].nwb <= nwbs + 1
    <3>1. rx_buf_info'[d].nwb = IF d = di THEN nwbs + 1 ELSE rx_buf_info[d].nwb
      BY <1>1, <2>1, <2>3
    <3> QED BY <1>3, <2>4, <3>1
  <2> QED BY <2>5, <2>6
<1>6. MapTypes'
  <2>1. UNCHANGED <<info, hal, stack, nwb>> /\ nwb \in 0..nwbs'
    BY <1>0, <1>3 DEF InitDesc, taskletVars, MapTypes
  <2>2. stack \subseteq 1..nwbs'
    BY <1>0, <1>3 DEF MapTypes
  <2> QED BY <1>0, <1>3, <1>4, <1>5, <2>1, <2>2 DEF MapTypes
<1>7. RpuTypes'
  BY <1>0, <1>2 DEF InitDesc, RpuTypes, rpuVars, Frame
<1>8. DevTypes'
  BY <1>0, <1>1 DEF InitDesc, DevTypes, rpuVars, Starting
<1>9. TaskletTypes'
  BY <1>0, TypesKept DEF InitDesc, taskletVars
<1> QED BY <1>6, <1>7, <1>8, <1>9, TypePartsNext

(* Reception: the head d of pool p's queue is filled.                       *)
Receives(p, d) ==
  /\ posted[p] # <<>> /\ d = posted[p][1] /\ d \in Desc /\ InPool(d, p)
  /\ frames < MaxFrames /\ frames' = frames + 1
  /\ slot' = [slot EXCEPT ![MapDescToPool(d)] = frames + 1]
  /\ \A e \in Desc : Frame(e)' = IF e = d THEN frames + 1 ELSE Frame(e)
  /\ filled' \in Seq(Desc) /\ Len(filled') = Len(filled) + 1
  /\ \A i \in 1..Len(filled) : filled'[i] = filled[i]
  /\ filled'[Len(filled) + 1] = d
  /\ Len(posted[p]) \in Nat /\ Len(posted[p]) > 0
  /\ posted' = [posted EXCEPT ![p] = Tail(posted[p])]
  /\ posted'[p] \in Seq(Desc) /\ Len(posted'[p]) = Len(posted[p]) - 1
  /\ \A n \in 1..(Len(posted[p]) - 1) : posted'[p][n] = posted[p][n + 1]
  /\ \A q \in Pool : q # p => posted'[q] = posted[q]

LEMMA RpuRxDoes ==
  ASSUME TypeInv, NEW p \in Pool, RpuRx(p)
  PROVE \E d : Receives(p, d)
<1>0. PICK d : d = posted[p][1]
  OBVIOUS
<1>1. posted[p] \in Seq(Desc) /\ posted[p] # <<>>
  BY QueueFacts DEF RpuRx
<1>2. /\ Len(posted[p]) \in Nat /\ Len(posted[p]) > 0
      /\ Head(posted[p]) = d /\ d \in Desc
      /\ Tail(posted[p]) \in Seq(Desc) /\ Len(Tail(posted[p])) = Len(posted[p]) - 1
      /\ \A i \in 1..(Len(posted[p]) - 1) : Tail(posted[p])[i] = posted[p][i + 1]
  BY <1>0, <1>1, TailFacts
<1>3. InPool(d, p)
  BY <1>0, <1>2, QueueFacts
<1>4. /\ frames < MaxFrames /\ frames' = frames + 1
      /\ slot' = [slot EXCEPT ![MapDescToPool(d)] = frames + 1]
      /\ filled' = Append(filled, d)
  BY <1>2 DEF RpuRx
<1>5. filled \in Seq(Desc)
  BY QueueFacts
<1>6. /\ filled' \in Seq(Desc) /\ Len(filled') = Len(filled) + 1
      /\ \A i \in 1..Len(filled) : filled'[i] = filled[i]
      /\ filled'[Len(filled) + 1] = d
  BY <1>2, <1>4, <1>5, AppendFacts
<1>7. slot \in [Slot -> 0..MaxFrames] /\ posted \in [Pool -> Seq(Desc)]
  BY DEF TypeInv, TypeOK
<1>8. posted' = [posted EXCEPT ![p] = Tail(posted[p])]
  BY DEF RpuRx
<1>9. \A e \in Desc : MapDescToPool(e) \in Slot /\ (e # d => MapDescToPool(e) # MapDescToPool(d))
  BY <1>2, MapFacts, MapInjective
<1>10. \A e \in Desc : slot'[MapDescToPool(e)] = IF e = d THEN frames + 1 ELSE slot[MapDescToPool(e)]
  BY <1>2, <1>4, <1>7, <1>9
<1>11. posted'[p] = Tail(posted[p]) /\ \A q \in Pool : q # p => posted'[q] = posted[q]
  BY <1>7, <1>8
<1>12. Receives(p, d)
  BY <1>0, <1>1, <1>2, <1>3, <1>4, <1>6, <1>8, <1>10, <1>11 DEF Receives, Frame
<1> QED BY <1>12

LEMMA TypeRx == ASSUME TypeInv, NEW p \in Pool, RpuRx(p) PROVE TypeInv'
<1> USE ConstantFacts
<1>0. PICK d : Receives(p, d)
  BY RpuRxDoes
<1>1. /\ d \in Desc /\ InPool(d, p)
      /\ frames < MaxFrames /\ frames' = frames + 1
      /\ slot' = [slot EXCEPT ![MapDescToPool(d)] = frames + 1]
      /\ \A e \in Desc : slot'[MapDescToPool(e)] = IF e = d THEN frames + 1 ELSE Frame(e)
      /\ filled' \in Seq(Desc) /\ Len(filled') = Len(filled) + 1
      /\ \A i \in 1..Len(filled) : filled'[i] = filled[i]
      /\ filled'[Len(filled) + 1] = d
      /\ Len(posted[p]) \in Nat /\ Len(posted[p]) > 0
      /\ posted' = [posted EXCEPT ![p] = Tail(posted[p])]
      /\ posted'[p] \in Seq(Desc) /\ Len(posted'[p]) = Len(posted[p]) - 1
      /\ \A n \in 1..(Len(posted[p]) - 1) : posted'[p][n] = posted[p][n + 1]
      /\ \A q \in Pool : q # p => posted'[q] = posted[q]
  BY <1>0 DEF Receives, Frame
<1>2. posted \in [Pool -> Seq(Desc)] /\ frames \in Nat
  BY DEF TypeInv, TypeOK
<1>3. posted' \in [Pool -> Seq(Desc)]
  BY <1>1, <1>2
<1>4. ASSUME NEW q \in Pool, NEW e \in ToSet(posted'[q]) PROVE InPool(e, q)
  <2>1. CASE q = p
    <3> DEFINE l == posted'[p]
    <3>0. l \in Seq(Desc) /\ Len(l) = Len(posted[p]) - 1 /\ e \in ToSet(l)
      BY <1>1, <1>4, <2>1
    <3>1. PICK n \in 1..(Len(posted[p]) - 1) : posted'[p][n] = e
      <4> HIDE DEF l
      <4>1. DOMAIN l = 1..Len(l)
        BY <3>0, LenProperties
      <4>2. \E n \in DOMAIN l : l[n] = e
        BY <3>0 DEF ToSet
      <4> QED BY <3>0, <4>1, <4>2 DEF l
    <3>2. e = posted[p][n + 1] /\ n + 1 \in 1..Len(posted[p])
      BY <1>1, <3>1
    <3> QED BY <2>1, <3>2, QueueFacts
  <2>2. CASE q # p
    BY <1>1, <1>4, <2>2 DEF TypeInv, TypeOK
  <2> QED BY <2>1, <2>2
<1>5. slot' \in [Slot -> 0..MaxFrames] /\ \A s \in Slot : slot'[s] <= frames + 1
  <2>1. slot \in [Slot -> 0..MaxFrames] /\ \A s \in Slot : slot[s] <= frames
    BY DEF TypeInv, TypeOK, BoundInv
  <2>2. \A s \in Slot : slot'[s] = IF s = MapDescToPool(d) THEN frames + 1 ELSE slot[s]
    BY <1>1, <2>1
  <2>3. slot' \in [Slot -> 0..MaxFrames]
    <3>1. frames + 1 \in 0..MaxFrames
      BY <1>1, <1>2
    <3>2. slot' = [slot EXCEPT ![MapDescToPool(d)] = frames + 1]
      BY <1>1
    <3> QED BY <2>1, <3>1, <3>2
  <2>4. \A s \in Slot : slot[s] \in Nat
    BY <2>1
  <2> QED BY <1>2, <2>1, <2>2, <2>3, <2>4
<1>6. ASSUME NEW n \in 1..Len(filled') PROVE slot'[MapDescToPool(filled'[n])] > 0
  <2>0. Len(filled) \in Nat /\ \A m \in 1..Len(filled) : filled[m] \in Desc /\ Frame(filled[m]) > 0
    BY QueueFacts DEF TypeInv, BoundInv
  <2>1. CASE n \in 1..Len(filled)
    <3>1. filled'[n] = filled[n] /\ filled[n] \in Desc /\ Frame(filled[n]) > 0
      BY <1>1, <2>0, <2>1
    <3> QED BY <1>1, <1>2, <3>1
  <2>2. CASE n = Len(filled) + 1
    BY <1>1, <1>2, <2>2
  <2> QED BY <1>1, <1>6, <2>0, <2>1, <2>2
<1>7. DevTypes /\ MapTypes /\ RpuTypes /\ TaskletTypes
  BY TypeParts
<1>8. RpuTypes'
  <2>1. event_q' = event_q /\ reported' = reported
    BY DEF RpuRx
  <2> QED BY <1>1, <1>2, <1>3, <1>4, <1>5, <1>6, <1>7, <2>1 DEF RpuTypes, Frame
<1>9. DevTypes' /\ MapTypes' /\ TaskletTypes'
  BY <1>7, TypesKept DEF RpuRx, devVars, taskletVars
<1> QED BY <1>8, <1>9, TypePartsNext

(* A report: the n oldest descriptors filled go into an event of type t.    *)
Reports(n, t) ==
  /\ n \in 1..Len(filled) /\ n <= MaxPkts
  /\ t \in {"data", "beacon", "unknown"}
  /\ t = "unknown" => unknown < MaxUnknown
  /\ unknown' = IF t = "unknown" THEN unknown + 1 ELSE unknown
  /\ event_q' = Append(event_q, [type |-> t, descs |-> SubSeq(filled, 1, n)])
  /\ event_q' \in Seq(Events) /\ Len(event_q') = Len(event_q) + 1
  /\ \A i \in 1..Len(event_q) : event_q'[i] = event_q[i]
  /\ event_q'[Len(event_q) + 1] = [type |-> t, descs |-> SubSeq(filled, 1, n)]
  /\ event_q'[Len(event_q) + 1].type = t
  /\ Len(event_q'[Len(event_q) + 1].descs) = n
  /\ \A i \in 1..n : event_q'[Len(event_q) + 1].descs[i] = filled[i]
  /\ filled' \in Seq(Desc) /\ Len(filled') = Len(filled) - n
  /\ \A i \in 1..(Len(filled) - n) : filled'[i] = filled[n + i]
  /\ t # "data" => reported' = reported
  /\ t = "data" => reported' = reported \o [i \in 1..n |-> Frame(filled[i])]

LEMMA RpuReportDoes ==
  ASSUME TypeInv, RpuReport
  PROVE \E n, t : Reports(n, t)
<1> USE ConstantFacts
<1>0. /\ filled \in Seq(Desc) /\ Len(filled) \in Nat
      /\ event_q \in Seq(Events) /\ Len(event_q) \in Nat
  BY QueueFacts
<1>1. PICK n \in 1..(IF Len(filled) < MaxPkts THEN Len(filled) ELSE MaxPkts) :
           \E t \in {"data", "beacon", "unknown"} :
              /\ t = "unknown" => unknown < MaxUnknown
              /\ unknown' = IF t = "unknown" THEN unknown + 1 ELSE unknown
              /\ event_q' = Append(event_q, [type |-> t, descs |-> SubSeq(filled, 1, n)])
              /\ filled' = SubSeq(filled, n + 1, Len(filled))
              /\ reported' = IF t # "data" THEN reported
                  ELSE reported \o [i \in 1..n |-> slot[MapDescToPool(SubSeq(filled, 1, n)[i])]]
  BY DEF RpuReport
<1>2. PICK t \in {"data", "beacon", "unknown"} :
              /\ t = "unknown" => unknown < MaxUnknown
              /\ unknown' = IF t = "unknown" THEN unknown + 1 ELSE unknown
              /\ event_q' = Append(event_q, [type |-> t, descs |-> SubSeq(filled, 1, n)])
              /\ filled' = SubSeq(filled, n + 1, Len(filled))
              /\ reported' = IF t # "data" THEN reported
                  ELSE reported \o [i \in 1..n |-> slot[MapDescToPool(SubSeq(filled, 1, n)[i])]]
  BY <1>1
<1>3. n \in 1..Len(filled) /\ n <= MaxPkts
  BY <1>0
<1>4. /\ SubSeq(filled, 1, n) \in Seq(Desc) /\ Len(SubSeq(filled, 1, n)) = n
      /\ \A i \in 1..n : SubSeq(filled, 1, n)[i] = filled[i]
      /\ SubSeq(filled, n + 1, Len(filled)) \in Seq(Desc)
      /\ Len(SubSeq(filled, n + 1, Len(filled))) = Len(filled) - n
      /\ \A i \in 1..(Len(filled) - n) : SubSeq(filled, n + 1, Len(filled))[i] = filled[n + i]
  BY <1>0, <1>3, SubSeqFacts
<1>5. PICK e : e = [type |-> t, descs |-> SubSeq(filled, 1, n)]
  OBVIOUS
<1>6. e \in Events /\ e.type = t /\ e.descs = SubSeq(filled, 1, n)
  BY <1>4, <1>5 DEF Events
<1>7. /\ event_q' = Append(event_q, e)
      /\ Append(event_q, e) \in Seq(Events) /\ Len(Append(event_q, e)) = Len(event_q) + 1
      /\ \A i \in 1..Len(event_q) : Append(event_q, e)[i] = event_q[i]
      /\ Append(event_q, e)[Len(event_q) + 1] = e
  BY <1>0, <1>2, <1>5, <1>6, AppendFacts
<1>8. [i \in 1..n |-> slot[MapDescToPool(SubSeq(filled, 1, n)[i])]] = [i \in 1..n |-> Frame(filled[i])]
  BY <1>4 DEF Frame
<1>9. Reports(n, t)
  BY <1>2, <1>3, <1>4, <1>5, <1>6, <1>7, <1>8 DEF Reports
<1> QED BY <1>9

(* What reported is after a report of data. *)
LEMMA ReportedIs ==
  ASSUME TypeInv, NEW n, Reports(n, "data")
  PROVE /\ reported' \in Seq(Nat) /\ Len(reported') = Len(reported) + n /\ n \in Nat
        /\ Len(reported) \in Nat
        /\ \A i \in 1..Len(reported) : reported'[i] = reported[i]
        /\ \A i \in 1..n : reported'[Len(reported) + i] = Frame(filled[i])
        /\ reported' \in Seq(1..MaxFrames)
<1> USE ConstantFacts
<1>1. n \in 1..Len(filled) /\ reported' = reported \o [i \in 1..n |-> Frame(filled[i])] /\ Len(filled) \in Nat
  BY QueueFacts DEF Reports
<1>2. PICK s : s = [i \in 1..n |-> Frame(filled[i])]
  OBVIOUS
<1>3. ASSUME NEW i \in 1..Len(filled) PROVE Frame(filled[i]) \in 1..MaxFrames
  <2>1. filled[i] \in Desc /\ Frame(filled[i]) > 0
    BY QueueFacts DEF TypeInv, BoundInv
  <2>2. Frame(filled[i]) \in 0..MaxFrames
    BY <2>1, MapFacts DEF TypeInv, TypeOK, Frame
  <2> QED BY <2>1, <2>2
<1>4. s \in Seq(1..MaxFrames) /\ Len(s) = n /\ \A i \in 1..n : s[i] = Frame(filled[i])
  BY <1>1, <1>2, <1>3
<1>5. reported \in Seq(1..MaxFrames)
  BY DEF TypeInv, TypeOK
<1>6. reported' = reported \o s
  BY <1>1, <1>2
<1>7. /\ reported \o s \in Seq(1..MaxFrames) /\ Len(reported \o s) = Len(reported) + Len(s)
      /\ Len(reported) \in Nat
      /\ \A i \in 1..Len(reported) : (reported \o s)[i] = reported[i]
      /\ \A i \in 1..Len(s) : (reported \o s)[Len(reported) + i] = s[i]
  <2>1. s \in Seq(1..MaxFrames)
    BY <1>4
  <2> QED BY <1>5, <2>1, ConcatFacts
<1> QED BY <1>1, <1>4, <1>6, <1>7

LEMMA TypeReport == TypeInv /\ RpuReport => TypeInv'
<1> SUFFICES ASSUME TypeInv, RpuReport PROVE TypeInv'
  OBVIOUS
<1> USE ConstantFacts
<1>1. PICK n, t : Reports(n, t)
  BY RpuReportDoes
<1>2. reported' \in Seq(1..MaxFrames)
  <2>1. CASE t = "data"
    BY <1>1, <2>1, ReportedIs
  <2>2. CASE t # "data"
    BY <1>1, <2>2 DEF Reports, TypeInv, TypeOK
  <2> QED BY <2>1, <2>2
<1>3. /\ Len(event_q) \in Nat /\ Len(filled) \in Nat
      /\ \A m \in 1..Len(filled) : filled[m] \in Desc /\ Frame(filled[m]) > 0
      /\ \A i \in 1..Len(event_q) : event_q[i].descs # <<>> /\ Len(event_q[i].descs) <= MaxPkts
  BY QueueFacts DEF TypeInv, BoundInv
<1>4. ASSUME NEW i \in 1..Len(event_q')
      PROVE event_q'[i].descs # <<>> /\ Len(event_q'[i].descs) <= MaxPkts
  <2>1. CASE i \in 1..Len(event_q)
    BY <1>1, <1>3, <2>1 DEF Reports
  <2>2. CASE i = Len(event_q) + 1
    <3>1. Len(event_q'[i].descs) = n /\ n > 0 /\ n <= MaxPkts
      BY <1>1, <2>2 DEF Reports
    <3> QED BY <3>1
  <2>3. Len(event_q') = Len(event_q) + 1
    BY <1>1 DEF Reports
  <2> QED BY <1>3, <1>4, <2>1, <2>2, <2>3
<1>5. ASSUME NEW m \in 1..Len(filled') PROVE slot'[MapDescToPool(filled'[m])] > 0
  <2>1. filled'[m] = filled[n + m] /\ n + m \in 1..Len(filled)
    BY <1>1, <1>3 DEF Reports
  <2>2. Frame(filled[n + m]) > 0 /\ slot' = slot
    BY <1>3, <2>1 DEF RpuReport
  <2> QED BY <2>1, <2>2 DEF Frame
<1>6. DevTypes /\ MapTypes /\ RpuTypes /\ TaskletTypes
  BY TypeParts
<1>7. RpuTypes'
  <2>1. event_q' \in Seq(Events) /\ filled' \in Seq(Desc)
    BY <1>1 DEF Reports
  <2>2. UNCHANGED <<slot, posted, frames>>
    BY DEF RpuReport
  <2> QED BY <1>2, <1>4, <1>5, <1>6, <2>1, <2>2 DEF RpuTypes, Frame
<1>8. unknown' \in 0..MaxUnknown
  BY <1>1, <1>6 DEF Reports, DevTypes
<1>9. DevTypes'
  BY <1>6, <1>8 DEF DevTypes, RpuReport, devVars
<1>10. MapTypes' /\ TaskletTypes'
  BY <1>6, TypesKept DEF RpuReport, taskletVars
<1> QED BY <1>7, <1>9, <1>10, TypePartsNext

(* The tasklet takes the oldest event.                                      *)
LEMMA RxEventDoes ==
  ASSUME TypeInv, RxEvent
  PROVE /\ todo' \in Events /\ todo' = event_q[1] /\ todo.descs = <<>>
        /\ todo'.descs # <<>> /\ Len(todo'.descs) <= MaxPkts
        /\ Len(event_q) \in Nat /\ Len(event_q) > 0
        /\ event_q' \in Seq(Events) /\ Len(event_q') = Len(event_q) - 1
        /\ \A i \in 1..(Len(event_q) - 1) : event_q'[i] = event_q[i + 1]
        /\ tpc = "off" /\ tpc' = "unmap" /\ dev # "gone"
        /\ late' = (late \/ dev \in Stopping)
        /\ UNCHANGED <<devVars, mapVars, slot, bufVars, posted, rpuVars, nwb,
                       delivered, allocFails>>
<1>1. event_q \in Seq(Events) /\ event_q # <<>>
  BY QueueFacts DEF RxEvent
<1>2. /\ Len(event_q) \in Nat /\ Len(event_q) > 0
      /\ Head(event_q) = event_q[1] /\ event_q[1] \in Events
      /\ Tail(event_q) \in Seq(Events) /\ Len(Tail(event_q)) = Len(event_q) - 1
      /\ \A i \in 1..(Len(event_q) - 1) : Tail(event_q)[i] = event_q[i + 1]
  BY <1>1, TailFacts
<1>3. 1 \in 1..Len(event_q)
  BY <1>2
<1>4. event_q[1].descs # <<>> /\ Len(event_q[1].descs) <= MaxPkts
  BY <1>3 DEF TypeInv, BoundInv
<1>5. tpc = "off" /\ todo.descs = <<>>
  BY DEF RxEvent, TypeInv, BoundInv
<1> QED BY <1>2, <1>4, <1>5 DEF RxEvent

LEMMA TypeEvent == TypeInv /\ RxEvent => TypeInv'
<1> SUFFICES ASSUME TypeInv, RxEvent PROVE TypeInv'
  OBVIOUS
<1>1. /\ todo' \in Events /\ todo'.descs # <<>> /\ Len(todo'.descs) <= MaxPkts
      /\ Len(event_q) \in Nat
      /\ event_q' \in Seq(Events) /\ Len(event_q') = Len(event_q) - 1
      /\ \A i \in 1..(Len(event_q) - 1) : event_q'[i] = event_q[i + 1]
      /\ tpc' = "unmap" /\ late' = (late \/ dev \in Stopping)
      /\ UNCHANGED <<devVars, mapVars, slot, bufVars, posted, rpuVars, nwb, delivered, allocFails>>
  BY RxEventDoes
<1>2. BoundInv'
  BY <1>1 DEF TypeInv, BoundInv, devVars, mapVars, bufVars, rpuVars, Frame
<1>3. TypeOK'
  BY <1>1 DEF Events, TypeInv, TypeOK, devVars, mapVars, bufVars, rpuVars
<1> QED BY <1>2, <1>3 DEF TypeInv

(* What the tasklet's steps do to the event it works on: nothing, take the  *)
(* descriptor that is posted, or give up.                                   *)
Posts == /\ tpc = "post" /\ Post(cur)
         /\ todo' = [todo EXCEPT !.descs = Tail(todo.descs)]
         /\ tpc' = IF Len(todo.descs) = 1 THEN "off" ELSE "unmap"
GivesUp == tpc # "off" /\ Leave /\ posted' = posted

LEMMA TodoTypes ==
  ASSUME TypeInv, tpc # "off",
         (todo' = todo /\ tpc' # "off") \/ Posts \/ GivesUp
  PROVE /\ todo' \in Events /\ Len(todo'.descs) <= MaxPkts
        /\ (tpc' = "off") = (todo'.descs = <<>>)
        /\ todo'.type = todo.type
        /\ Posts => /\ todo'.descs = Tail(todo.descs)
                    /\ Len(todo'.descs) = Len(todo.descs) - 1
                    /\ \A i \in 1..(Len(todo.descs) - 1) : todo'.descs[i] = todo.descs[i + 1]
        /\ GivesUp => todo'.descs = <<>> /\ tpc' = "off"
<1>1. /\ todo \in Events /\ todo.descs \in Seq(Desc) /\ todo.descs # <<>>
      /\ Len(todo.descs) \in Nat /\ Len(todo.descs) > 0
      /\ Tail(todo.descs) \in Seq(Desc) /\ Len(Tail(todo.descs)) = Len(todo.descs) - 1
      /\ \A i \in 1..(Len(todo.descs) - 1) : Tail(todo.descs)[i] = todo.descs[i + 1]
  BY CurFacts
<1>2. Len(todo.descs) <= MaxPkts
  BY DEF TypeInv, BoundInv
<1>3. Posts => /\ todo' \in Events /\ todo'.descs = Tail(todo.descs) /\ todo'.type = todo.type
  BY <1>1 DEF Posts, Events
<1>4. GivesUp => /\ todo' \in Events /\ todo'.descs = <<>> /\ todo'.type = todo.type /\ tpc' = "off"
  <2>1. <<>> \in Seq(Desc)
    OBVIOUS
  <2> QED BY <1>1, <2>1 DEF GivesUp, Leave, Events
<1>5. Posts => (tpc' = "off") = (todo'.descs = <<>>)
  <2> SUFFICES ASSUME Posts PROVE (tpc' = "off") = (todo'.descs = <<>>)
    OBVIOUS
  <2>1. CASE Len(todo.descs) = 1
    <3>1. Len(Tail(todo.descs)) = 0
      BY <1>1, <2>1
    <3>2. Tail(todo.descs) = <<>>
      BY <1>1, <3>1, EmptyIs
    <3> QED BY <1>3, <2>1, <3>2 DEF Posts
  <2>2. CASE Len(todo.descs) # 1
    <3>1. Len(Tail(todo.descs)) # 0
      BY <1>1, <2>2
    <3>2. Tail(todo.descs) # <<>>
      BY <1>1, <3>1, EmptyIs
    <3> QED BY <1>3, <2>2, <3>2 DEF Posts
  <2> QED BY <2>1, <2>2
<1>6. Len(todo'.descs) <= MaxPkts
  <2>1. CASE todo' = todo
    BY <1>2, <2>1
  <2>2. CASE Posts
    <3>1. Len(todo'.descs) = Len(todo.descs) - 1 /\ Len(todo.descs) \in Nat
      BY <1>1, <1>3, <2>2
    <3> QED BY <1>2, <3>1, ConstantFacts
  <2>3. CASE GivesUp
    BY <1>4, <2>3, ConstantFacts
  <2> QED BY <2>1, <2>2, <2>3
<1>7. (tpc' = "off") = (todo'.descs = <<>>)
  <2>1. CASE todo' = todo /\ tpc' # "off"
    BY <1>1, <2>1
  <2>2. CASE GivesUp
    BY <1>4, <2>2
  <2> QED BY <1>5, <2>1, <2>2
<1>8. todo' \in Events /\ todo'.type = todo.type
  BY <1>1, <1>3, <1>4
<1>9. Posts => /\ todo'.descs = Tail(todo.descs)
               /\ Len(todo'.descs) = Len(todo.descs) - 1
               /\ \A i \in 1..(Len(todo.descs) - 1) : todo'.descs[i] = todo.descs[i + 1]
  BY <1>1, <1>3
<1> QED BY <1>4, <1>6, <1>7, <1>8, <1>9

LEMMA TypeSteps ==
  ASSUME TypeInv, RxStep \/ RxAllocFail
  PROVE /\ tpc # "off"
        /\ (todo' = todo /\ tpc' # "off") \/ Posts \/ GivesUp
        /\ UNCHANGED <<devVars, event_q, rpuVars, late, slot, info, hal>>
<1>1. RxUnmap => /\ tpc # "off" /\ ((todo' = todo /\ tpc' # "off") \/ GivesUp)
                 /\ UNCHANGED <<devVars, event_q, rpuVars, late, slot, info, hal>>
  BY DEF RxUnmap, GivesUp, Tasklet
<1>2. RxClear \/ RxDeliver \/ RxBeacon \/ RxAlloc \/ RxMap \/ RxSet
        => /\ tpc # "off" /\ todo' = todo /\ tpc' # "off"
           /\ UNCHANGED <<devVars, event_q, rpuVars, late, slot, info, hal>>
  BY DEF RxClear, RxDeliver, RxBeacon, RxAlloc, RxMap, RxSet, Tasklet, mapVars
<1>3. RxUnknown \/ RxAllocFail => /\ tpc # "off" /\ GivesUp
           /\ UNCHANGED <<devVars, event_q, rpuVars, late, slot, info, hal>>
  BY DEF RxUnknown, RxAllocFail, GivesUp, Tasklet, mapVars
<1>4. RxPost => /\ tpc # "off" /\ Posts
           /\ UNCHANGED <<devVars, event_q, rpuVars, late, slot, info, hal>>
  BY DEF RxPost, Posts, Tasklet, mapVars
<1> QED BY <1>1, <1>2, <1>3, <1>4 DEF RxStep

LEMMA TypeStep == TypeInv /\ (RxStep \/ RxAllocFail) => TypeInv'
<1> SUFFICES ASSUME TypeInv, RxStep \/ RxAllocFail PROVE TypeInv'
  OBVIOUS
<1> USE ConstantFacts
<1>1. /\ tpc # "off"
      /\ (todo' = todo /\ tpc' # "off") \/ Posts \/ GivesUp
      /\ UNCHANGED <<devVars, event_q, rpuVars, late, slot, info, hal>>
  BY TypeSteps
<1>2. /\ todo' \in Events /\ Len(todo'.descs) <= MaxPkts
      /\ (tpc' = "off") = (todo'.descs = <<>>)
  BY <1>1, TodoTypes
<1>3. cur \in Desc /\ MapDescToPool(cur) \in Slot
  BY <1>1, CurFacts, MapFacts
<1>4. /\ rx_buf_info \in [Desc -> Info] /\ hal_map \in [Slot -> Nat] /\ data \in Seq(0..MaxFrames)
      /\ live \subseteq 1..nwbs /\ stack \subseteq 1..nwbs /\ nwbs = Len(data) /\ nwbs \in Nat
      /\ nwb \in 0..nwbs /\ delivered \in Seq(0..MaxFrames) /\ allocFails \in 0..MaxAllocFails
      /\ posted \in [Pool -> Seq(Desc)] /\ \A p \in Pool : \A e \in ToSet(posted[p]) : InPool(e, p)
      /\ slot \in [Slot -> 0..MaxFrames]
      /\ \A d \in Desc : rx_buf_info[d].nwb <= nwbs
      /\ \A s \in Slot : hal_map[s] <= nwbs
  BY DEF TypeInv, TypeOK, BoundInv
<1> DEFINE Kept ==
      /\ rx_buf_info' \in [Desc -> Info] /\ hal_map' \in [Slot -> Nat] /\ data' \in Seq(0..MaxFrames)
      /\ live' \subseteq 1..nwbs' /\ stack' \subseteq 1..nwbs' /\ nwbs' = Len(data')
      /\ nwb' \in 0..nwbs' /\ delivered' \in Seq(0..MaxFrames) /\ allocFails' \in 0..MaxAllocFails
      /\ posted' \in [Pool -> Seq(Desc)] /\ \A p \in Pool : \A e \in ToSet(posted'[p]) : InPool(e, p)
      /\ \A d \in Desc : rx_buf_info'[d].nwb <= nwbs'
      /\ \A s \in Slot : hal_map'[s] <= nwbs'
      /\ tpc' \in {"off", "unmap", "clear", "deliver", "check", "map", "set", "post"}
<1>5. RxUnmap => Kept
  <2> SUFFICES ASSUME RxUnmap PROVE Kept
    OBVIOUS
  <2>1. UNCHANGED <<rx_buf_info, live, stack, nwbs, posted, nwb, delivered, allocFails>>
    BY DEF RxUnmap
  <2>2. slot[MapDescToPool(cur)] \in 0..MaxFrames
    BY <1>3, <1>4
  <2>3. data' \in Seq(0..MaxFrames) /\ Len(data') = Len(data)
    <3>1. CASE data' = data
      BY <1>4, <3>1
    <3>2. CASE data' # data
      <4>1. PICK b : b = hal_map[MapDescToPool(cur)]
        OBVIOUS
      <4>2. b # NoBuf /\ data' = [data EXCEPT ![b] = slot[MapDescToPool(cur)]]
        BY <3>2, <4>1 DEF RxUnmap
      <4>3. b \in 1..Len(data)
        BY <1>3, <1>4, <4>1, <4>2 DEF NoBuf
      <4> QED BY <1>4, <2>2, <4>2, <4>3, ExceptSeq
    <3> QED BY <3>1, <3>2
  <2>4. hal_map' = hal_map \/ hal_map' = [hal_map EXCEPT ![MapDescToPool(cur)] = NoBuf]
    BY DEF RxUnmap
  <2>5. hal_map' \in [Slot -> Nat] /\ \A s \in Slot : hal_map'[s] <= nwbs
    <3>1. hal_map' \in [Slot -> Nat] /\ \A s \in Slot : hal_map'[s] \in {hal_map[s], 0}
      BY <1>3, <1>4, <2>4 DEF NoBuf
    <3>2. \A s \in Slot : hal_map[s] \in Nat /\ hal_map[s] <= nwbs
      BY <1>4
    <3>3. ASSUME NEW s \in Slot PROVE hal_map'[s] <= nwbs
      <4>1. CASE hal_map'[s] = 0
        BY <1>4, <4>1
      <4>2. CASE hal_map'[s] = hal_map[s]
        BY <3>2, <4>2
      <4> QED BY <3>1, <4>1, <4>2
    <3> QED BY <3>1, <3>3
  <2>6. tpc' \in {"off", "clear"}
    BY DEF RxUnmap, Leave
  <2> QED BY <1>4, <2>1, <2>3, <2>5, <2>6
<1>6. RxClear => Kept
  BY <1>3, <1>4 DEF RxClear, bufVars, NoBuf, Unmapped, Info
<1>7. RxDeliver => Kept
  <2> SUFFICES ASSUME RxDeliver PROVE Kept
    OBVIOUS
  <2>1. nwb \in 1..Len(data)
    BY <1>4 DEF RxDeliver, NoBuf
  <2>2. data[nwb] \in 0..MaxFrames
    BY <1>4, <2>1, ElementOfSeq
  <2> QED BY <1>3, <1>4, <2>1, <2>2 DEF RxDeliver, mapVars, NoBuf
<1>8. RxBeacon \/ RxUnknown \/ RxAllocFail => Kept
  <2> SUFFICES ASSUME RxBeacon \/ RxUnknown \/ RxAllocFail PROVE Kept
    OBVIOUS
  <2>1. UNCHANGED <<mapVars, data, stack, nwbs, posted, delivered>>
    BY DEF RxBeacon, RxUnknown, RxAllocFail, bufVars
  <2>2. live' \subseteq live /\ nwb' \in {nwb, NoBuf} /\ (allocFails' = allocFails \/ Fail)
    BY DEF RxBeacon, RxUnknown, RxAllocFail, bufVars
  <2>3. allocFails' \in 0..MaxAllocFails
    BY <1>4, <2>2 DEF Fail
  <2>4. nwb' \in 0..nwbs
    BY <1>4, <2>2 DEF NoBuf
  <2>5. tpc' \in {"off", "check"}
    BY DEF RxBeacon, RxUnknown, RxAllocFail, Leave
  <2> QED BY <1>4, <2>1, <2>2, <2>3, <2>4, <2>5 DEF mapVars
<1>9. RxAlloc => Kept
  <2> SUFFICES ASSUME RxAlloc PROVE Kept
    OBVIOUS
  <2>1. MapTypes
    BY TypeParts
  <2>2. /\ nwbs' = nwbs + 1 /\ nwbs \in Nat /\ live' \subseteq 1..nwbs'
        /\ data' \in Seq(0..MaxFrames) /\ Len(data') = nwbs'
    BY <2>1, AllocTypes DEF RxAlloc
  <2>3. UNCHANGED <<mapVars, stack, posted, delivered, allocFails>> /\ nwb' = nwbs + 1 /\ tpc' = "map"
    BY DEF RxAlloc
  <2>4. \A d \in Desc : rx_buf_info'[d].nwb <= nwbs'
    <3>1. \A d \in Desc : rx_buf_info[d].nwb \in Nat
      BY <1>4 DEF Info
    <3> QED BY <1>4, <2>2, <2>3, <3>1 DEF mapVars
  <2>5. \A s \in Slot : hal_map'[s] <= nwbs'
    <3>1. \A s \in Slot : hal_map[s] \in Nat
      BY <1>4
    <3> QED BY <1>4, <2>2, <2>3, <3>1 DEF mapVars
  <2>6. stack' \subseteq 1..nwbs' /\ nwb' \in 0..nwbs'
    BY <1>4, <2>2, <2>3
  <2> QED BY <1>4, <2>2, <2>3, <2>4, <2>5, <2>6 DEF mapVars
<1>10. RxMap => Kept
  BY <1>3, <1>4 DEF RxMap, Mapped, bufVars
<1>11. RxSet => Kept
  BY <1>3, <1>4 DEF RxSet, bufVars, Info, NoBuf
<1>12. RxPost => Kept
  BY <1>3, <1>4, PostTypes DEF RxPost, mapVars, bufVars
<1>13. Kept
  BY <1>5, <1>6, <1>7, <1>8, <1>9, <1>10, <1>11, <1>12 DEF RxStep
<1>14. TypeOK'
  BY <1>1, <1>2, <1>4, <1>13 DEF Events, TypeInv, TypeOK, devVars, rpuVars
<1>15. BoundInv'
  BY <1>1, <1>2, <1>13 DEF TypeInv, BoundInv, devVars, rpuVars, Frame
<1> QED BY <1>14, <1>15 DEF TypeInv

LEMMA TypeNext == TypeInv /\ [Next]_vars => TypeInv'
<1> SUFFICES ASSUME TypeInv, [Next]_vars PROVE TypeInv'
  OBVIOUS
<1>1. CASE UNCHANGED vars
  BY <1>1 DEF TypeInv, TypeOK, BoundInv, Frame, vars, devVars, mapVars, bufVars, rpuVars, taskletVars
<1> QED BY <1>1, TypeStart, TypeDeinit, TypeInitDesc, TypeRx, TypeReport, TypeEvent, TypeStep
        DEF Next, DevNext, RpuNext
-----------------------------------------------------------------------------
(* What a step of the driver's start and removal leaves alone.              *)
LEMMA DevKeeps ==
  DevNext => /\ UNCHANGED <<slot, event_q, filled, frames, reported, unknown, tpc, todo, nwb, delivered, stack>>
             /\ (rpu' = rpu \/ InitRxDone) /\ (posted' = posted \/ InitDesc)
             /\ (late' = late \/ Stop)
<1>1. InitRx \/ InitDesc => /\ UNCHANGED <<slot, event_q, filled, frames, reported, unknown, tpc, todo, nwb, delivered, stack>>
        /\ rpu' = rpu /\ (posted' = posted \/ InitDesc) /\ late' = late
  BY DEF InitRx, InitDesc, bufVars, rpuVars, taskletVars
<1>2. InitRxDone \/ InitRxFail \/ InitDone \/ Stop
        => /\ UNCHANGED <<slot, event_q, filled, frames, reported, unknown, tpc, todo, nwb, delivered, stack>>
           /\ (rpu' = rpu \/ InitRxDone) /\ posted' = posted /\ (late' = late \/ Stop)
  BY DEF InitRxDone, InitRxFail, InitDone, Stop, bufVars, rpuVars, taskletVars
<1>3. DeinitCheck \/ DeinitUnmap \/ DeinitFree \/ DeinitRxDone \/ HalMapFree \/ TaskletKill
        => /\ UNCHANGED <<slot, event_q, filled, frames, reported, unknown, tpc, todo, nwb, delivered, stack>>
           /\ rpu' = rpu /\ posted' = posted /\ late' = late
  BY DEF DeinitCheck, DeinitUnmap, DeinitFree, DeinitRxDone, HalMapFree, TaskletKill, bufVars, rpuVars, taskletVars
<1> QED BY <1>1, <1>2, <1>3 DEF DevNext

LEMMA QuietDev ==
  ASSUME TypeInv, QuietInv, DevNext PROVE QuietInv'
<1>1. UNCHANGED <<slot, event_q, filled, frames, reported, unknown, tpc, delivered, stack>>
      /\ (rpu' = rpu \/ InitRxDone) /\ (late' = late \/ Stop)
  BY DevKeeps
<1> USE DEF Starting, Stopping, QuietInv
<1>2. dev \in Starting \cup {"up"} \cup Stopping
  BY DEF TypeInv, TypeOK
<1>3. CASE InitRx
  BY <1>1, <1>3 DEF InitRx, rpuVars
<1>4. CASE InitDesc \/ InitRxDone
  BY <1>1, <1>4 DEF InitDesc, InitRxDone, rpuVars, mapVars
<1>5. CASE InitRxFail
  BY <1>1, <1>5 DEF InitRxFail, rpuVars, mapVars
<1>6. CASE InitDone \/ Stop
  <2>1. /\ dev \in {"wait", "up"} /\ UNCHANGED <<info, rpu>>
        /\ (InitDone => dev' = "up" /\ late' = late /\ di' = di)
        /\ (Stop => dev' = "check" /\ late' = (late \/ tpc # "off"))
    BY <1>6 DEF InitDone, Stop, rpuVars, mapVars
  <2>2. CASE InitDone
    BY <1>1, <2>1, <2>2
  <2>3. CASE Stop
    BY <1>1, <2>1, <2>3
  <2> QED BY <1>6, <2>2, <2>3
<1>7. CASE DeinitCheck \/ DeinitUnmap \/ DeinitFree
  BY <1>1, <1>2, <1>7 DEF DeinitCheck, DeinitUnmap, DeinitFree, rpuVars, mapVars
<1>8. CASE DeinitRxDone \/ HalMapFree \/ TaskletKill
  BY <1>1, <1>8 DEF DeinitRxDone, HalMapFree, TaskletKill, rpuVars, mapVars
<1> QED BY <1>3, <1>4, <1>5, <1>6, <1>7, <1>8 DEF DevNext

LEMMA QuietNext == TypeInv /\ QuietInv /\ [Next]_vars => QuietInv'
<1> SUFFICES ASSUME TypeInv, QuietInv, [Next]_vars PROVE QuietInv'
  OBVIOUS
<1>1. CASE UNCHANGED vars
  BY <1>1 DEF QuietInv, vars, devVars, mapVars, bufVars, rpuVars, taskletVars
<1>2. CASE RpuInit
  BY <1>2 DEF RpuInit, QuietInv, devVars, mapVars, bufVars, taskletVars
<1>3. CASE \E p \in Pool : RpuRx(p)
  BY <1>3 DEF RpuRx, QuietInv, devVars, mapVars, bufVars, taskletVars
<1>4. CASE RpuReport
  BY <1>4 DEF RpuReport, QuietInv, devVars, mapVars, bufVars, taskletVars
<1>5. CASE RxEvent
  <2>1. event_q # <<>> /\ UNCHANGED <<devVars, mapVars, rpuVars>> /\ late' = (late \/ dev \in Stopping)
    BY <1>5 DEF RxEvent
  <2>2. rpu = "on" /\ rpu' = "on"
    BY <2>1 DEF QuietInv, rpuVars
  <2> QED BY <2>1, <2>2 DEF QuietInv, devVars, mapVars, Starting, Stopping
<1>6. CASE RxStep \/ RxAllocFail
  <2>1. tpc # "off" /\ UNCHANGED <<devVars, event_q, rpuVars, late, slot, info, hal>>
    BY <1>6, TypeSteps
  <2> QED BY <2>1 DEF QuietInv, devVars, rpuVars
<1> QED BY <1>1, <1>2, <1>3, <1>4, <1>5, <1>6, QuietDev DEF Next, RpuNext
-----------------------------------------------------------------------------
(* The stages of the pipe are sequences of descriptors.                     *)
LEMMA StageTypes ==
  ASSUME TypeInv, NEW i \in 0..End
  PROVE /\ Stage(i) \in Seq(Desc) /\ Len(Stage(i)) \in Nat
        /\ \A n \in 1..Len(Stage(i)) : Stage(i)[n] \in Desc /\ Stage(i)[n] \in InPipe
<1>1. End = Len(event_q) + 1 /\ Len(event_q) \in Nat
  BY QueueFacts DEF End
<1>2. Stage(i) \in Seq(Desc)
  <2>1. CASE i = 0
    BY <2>1, QueueFacts DEF Stage
  <2>2. CASE i # 0 /\ i < End
    <3>1. event_q[i] \in Events
      BY <1>1, <2>2, QueueFacts
    <3> QED BY <2>2, <3>1 DEF Stage, Events
  <2>3. CASE i # 0 /\ ~(i < End)
    BY <2>3, QueueFacts DEF Stage
  <2> QED BY <2>1, <2>2, <2>3
<1>3. ASSUME NEW n \in 1..Len(Stage(i)) PROVE Stage(i)[n] \in Desc
  BY <1>2, ElementOfSeq
<1> QED BY <1>2, <1>3 DEF InPipe

(* The pipe is unchanged. *)
PipeKept == /\ End' = End /\ \A i \in 0..End : Stage(i)' = Stage(i)
            /\ \A i \in 0..Len(event_q) : Type(i)' = Type(i)
LEMMA PipeSame ==
  UNCHANGED <<todo, event_q, filled>> => PipeKept
BY DEF PipeKept, End, Stage, Type

(* The tasklet takes the next event: every stage moves up.                  *)
LEMMA PipeTake ==
  ASSUME TypeInv, RxEvent
  PROVE /\ End \in Nat /\ End > 1 /\ End' = End - 1 /\ Stage(0) = <<>>
        /\ \A i \in 0..(End - 1) : Stage(i)' = Stage(i + 1)
        /\ \A i \in 0..(End - 2) : Type(i)' = Type(i + 1)
<1>1. /\ todo' = event_q[1] /\ todo.descs = <<>>
      /\ Len(event_q) \in Nat /\ Len(event_q) > 0
      /\ Len(event_q') = Len(event_q) - 1
      /\ \A i \in 1..(Len(event_q) - 1) : event_q'[i] = event_q[i + 1]
      /\ filled' = filled
  BY RxEventDoes DEF rpuVars
<1>2. End \in Nat /\ End > 1 /\ End' = End - 1 /\ End = Len(event_q) + 1
  BY <1>1 DEF End
<1>3. ASSUME NEW i \in 0..(End - 1) PROVE Stage(i)' = Stage(i + 1)
  BY <1>1, <1>2, <1>3 DEF Stage
<1>4. ASSUME NEW i \in 0..(End - 2) PROVE Type(i)' = Type(i + 1)
  BY <1>1, <1>2, <1>4 DEF Type
<1> QED BY <1>1, <1>2, <1>3, <1>4 DEF Stage

(* A report: what was filled is in the last event and behind it.            *)
LEMMA PipeReport ==
  ASSUME TypeInv, RpuReport, NEW n, NEW t, Reports(n, t)
  PROVE /\ End \in Nat /\ End > 0 /\ End' = End + 1
        /\ n \in Nat /\ n > 0 /\ n <= Len(Stage(End)) /\ Len(Stage(End)) \in Nat
        /\ \A i \in 0..(End - 1) : Stage(i)' = Stage(i) /\ Type(i)' = Type(i)
        /\ Stage(End) = filled
        /\ Len(event_q'[End].descs) = n
        /\ \A a \in 1..n : event_q'[End].descs[a] = Stage(End)[a]
        /\ Len(filled') = Len(Stage(End)) - n
        /\ \A a \in 1..Len(filled') : filled'[a] = Stage(End)[n + a]
        /\ \A i \in 0..(End + 1) : i = End => Stage(i)' = event_q'[End].descs /\ Type(i)' = t
        /\ \A i \in 0..(End + 1) : i = End + 1 => Stage(i)' = filled'
<1>1. /\ Len(event_q) \in Nat /\ Len(event_q') = Len(event_q) + 1
      /\ \A i \in 1..Len(event_q) : event_q'[i] = event_q[i]
      /\ event_q'[Len(event_q) + 1].type = t
      /\ Len(event_q'[Len(event_q) + 1].descs) = n
      /\ \A i \in 1..n : event_q'[Len(event_q) + 1].descs[i] = filled[i]
      /\ Len(filled') = Len(filled) - n
      /\ \A i \in 1..(Len(filled) - n) : filled'[i] = filled[n + i]
      /\ n \in 1..Len(filled) /\ Len(filled) \in Nat
      /\ todo' = todo
  BY QueueFacts DEF Reports, RpuReport, taskletVars
<1>2. End \in Nat /\ End > 0 /\ End' = End + 1 /\ End = Len(event_q) + 1
  BY <1>1 DEF End
<1>3. Stage(End) = filled
  BY <1>2 DEF Stage
<1>4. ASSUME NEW i \in 0..(End - 1) PROVE Stage(i)' = Stage(i) /\ Type(i)' = Type(i)
  BY <1>1, <1>2, <1>4 DEF Stage, Type
<1>5. ASSUME NEW i \in 0..(End + 1), i = End PROVE Stage(i)' = event_q'[End].descs /\ Type(i)' = t
  BY <1>1, <1>2, <1>5 DEF Stage, Type
<1>6. ASSUME NEW i \in 0..(End + 1), i = End + 1 PROVE Stage(i)' = filled'
  BY <1>1, <1>2, <1>6 DEF Stage
<1>7. event_q'[End].type = t
  BY <1>1, <1>2
<1> QED BY <1>1, <1>2, <1>3, <1>4, <1>5, <1>6, <1>7

(* The tasklet posts the descriptor it works on, or gives the event up.     *)
LEMMA PipePost ==
  ASSUME TypeInv, tpc # "off", Posts \/ GivesUp, event_q' = event_q, filled' = filled
  PROVE /\ End' = End /\ End \in Nat /\ End > 0
        /\ \A i \in 1..End : Stage(i)' = Stage(i)
        /\ \A i \in 0..(End - 1) : Type(i)' = Type(i)
        /\ Len(Stage(0)) \in Nat /\ Len(Stage(0)) > 0 /\ cur = Stage(0)[1]
        /\ Stage(0)' = todo'.descs
        /\ Posts => /\ Len(todo'.descs) = Len(Stage(0)) - 1
                    /\ \A n \in 1..Len(todo'.descs) : todo'.descs[n] = Stage(0)[n + 1]
        /\ GivesUp => todo'.descs = <<>>
<1>1. /\ todo'.type = todo.type
      /\ Posts => /\ Len(todo'.descs) = Len(todo.descs) - 1
                  /\ \A i \in 1..(Len(todo.descs) - 1) : todo'.descs[i] = todo.descs[i + 1]
      /\ GivesUp => todo'.descs = <<>>
  BY TodoTypes
<1>2. Len(todo.descs) \in Nat /\ Len(todo.descs) > 0 /\ cur = todo.descs[1]
  BY CurFacts
<1>3. Len(event_q) \in Nat /\ End = Len(event_q) + 1 /\ End' = End
  BY QueueFacts DEF End
<1>4. \A i \in 1..End : Stage(i)' = Stage(i)
  BY <1>3 DEF Stage
<1>5. \A i \in 0..(End - 1) : Type(i)' = Type(i)
  BY <1>1, <1>3 DEF Type
<1>6. Stage(0) = todo.descs /\ Stage(0)' = todo'.descs
  BY DEF Stage
<1>7. End \in Nat /\ End > 0
  BY <1>3
<1>8. Len(Stage(0)) \in Nat /\ Len(Stage(0)) > 0 /\ cur = Stage(0)[1]
  BY <1>2, <1>6
<1>9. Posts => /\ Len(todo'.descs) = Len(Stage(0)) - 1
               /\ \A n \in 1..Len(todo'.descs) : todo'.descs[n] = Stage(0)[n + 1]
  BY <1>1, <1>2, <1>6
<1> QED BY <1>1, <1>3, <1>4, <1>5, <1>6, <1>7, <1>8, <1>9

(* Reception: the filled descriptor is the last of the pipe.                *)
LEMMA PipeRx ==
  ASSUME TypeInv, NEW p \in Pool, RpuRx(p), NEW d, Receives(p, d)
  PROVE /\ End' = End /\ End \in Nat /\ End > 0
        /\ \A i \in 0..(End - 1) : Stage(i)' = Stage(i) /\ Type(i)' = Type(i)
        /\ Stage(End) = filled /\ Len(filled) \in Nat
        /\ \A i \in 0..End : i = End => Stage(i)' = filled'
        /\ Len(filled') = Len(filled) + 1
        /\ \A n \in 1..Len(filled) : filled'[n] = filled[n]
        /\ filled'[Len(filled) + 1] = d
<1>1. todo' = todo /\ event_q' = event_q
  BY DEF RpuRx, taskletVars
<1>2. Len(event_q) \in Nat /\ End = Len(event_q) + 1 /\ End' = End
  BY <1>1, QueueFacts DEF End
<1>3. \A i \in 0..(End - 1) : Stage(i)' = Stage(i) /\ Type(i)' = Type(i)
  BY <1>1, <1>2 DEF Stage, Type
<1>4. Stage(End) = filled /\ \A i \in 0..End : i = End => Stage(i)' = filled'
  BY <1>2 DEF Stage
<1>5. Len(filled) \in Nat
  BY QueueFacts
<1> QED BY <1>2, <1>3, <1>4, <1>5 DEF Receives

(* Where a descriptor is in the pipe, before and after a step.              *)
LEMMA InPipeTake ==
  ASSUME TypeInv, RxEvent
  PROVE InPipe' = InPipe
<1>1. /\ End \in Nat /\ End > 1 /\ End' = End - 1 /\ Stage(0) = <<>>
      /\ \A i \in 0..(End - 1) : Stage(i)' = Stage(i + 1)
  BY PipeTake
<1>2. ASSUME NEW d \in Desc, NEW i \in 0..End, NEW n \in 1..Len(Stage(i)), Stage(i)[n] = d
      PROVE d \in InPipe'
  <2>1. i # 0
    BY <1>1, <1>2
  <2>2. i - 1 \in 0..End' /\ i - 1 \in 0..(End - 1) /\ (i - 1) + 1 = i
    BY <1>1, <2>1
  <2>3. PICK j : j = i - 1
    OBVIOUS
  <2>4. j \in 0..End' /\ Stage(j)' = Stage(i)
    BY <1>1, <2>2, <2>3
  <2> QED BY <1>2, <2>4 DEF InPipe
<1>3. ASSUME NEW d \in Desc, NEW i \in 0..End', NEW n \in 1..Len(Stage(i)'), Stage(i)'[n] = d
      PROVE d \in InPipe
  <2>1. i \in 0..(End - 1) /\ i + 1 \in 0..End
    BY <1>1
  <2>2. PICK j : j = i + 1
    OBVIOUS
  <2>3. j \in 0..End /\ Stage(i)' = Stage(j)
    BY <1>1, <2>1, <2>2
  <2> QED BY <1>3, <2>3 DEF InPipe
<1> QED BY <1>2, <1>3 DEF InPipe

LEMMA InPipeReport ==
  ASSUME TypeInv, RpuReport
  PROVE InPipe' = InPipe
<1>0. PICK n, t : Reports(n, t)
  BY RpuReportDoes
<1>1. /\ End \in Nat /\ End > 0 /\ End' = End + 1
      /\ n \in Nat /\ n > 0 /\ n <= Len(Stage(End)) /\ Len(Stage(End)) \in Nat
      /\ \A i \in 0..(End - 1) : Stage(i)' = Stage(i)
      /\ Len(event_q'[End].descs) = n
      /\ \A a \in 1..n : event_q'[End].descs[a] = Stage(End)[a]
      /\ Len(filled') = Len(Stage(End)) - n
      /\ \A a \in 1..Len(filled') : filled'[a] = Stage(End)[n + a]
      /\ \A i \in 0..(End + 1) : i = End => Stage(i)' = event_q'[End].descs
      /\ \A i \in 0..(End + 1) : i = End + 1 => Stage(i)' = filled'
  BY <1>0, PipeReport
<1>2. ASSUME NEW d \in Desc, NEW i \in 0..End, NEW m \in 1..Len(Stage(i)), Stage(i)[m] = d
      PROVE d \in InPipe'
  <2>1. CASE i # End
    <3>1. i \in 0..(End - 1) /\ i \in 0..End'
      BY <1>1, <2>1
    <3> QED BY <1>1, <1>2, <3>1 DEF InPipe
  <2>2. CASE i = End /\ m <= n
    <3>1. Stage(i)' = event_q'[End].descs /\ i \in 0..End' /\ m \in 1..n
      BY <1>1, <2>2
    <3>2. Stage(i)'[m] = d /\ m \in 1..Len(Stage(i)')
      BY <1>1, <1>2, <2>2, <3>1
    <3> QED BY <3>1, <3>2 DEF InPipe
  <2>3. CASE i = End /\ ~(m <= n)
    <3>1. PICK j : j = End + 1
      OBVIOUS
    <3>2. j \in 0..End' /\ Stage(j)' = filled'
      BY <1>1, <3>1
    <3>3. m - n \in 1..Len(filled') /\ n + (m - n) = m
      BY <1>1, <1>2, <2>3
    <3>4. PICK k : k = m - n
      OBVIOUS
    <3>5. k \in 1..Len(Stage(j)') /\ Stage(j)'[k] = d
      BY <1>1, <1>2, <2>3, <3>2, <3>3, <3>4
    <3> QED BY <3>2, <3>5 DEF InPipe
  <2> QED BY <2>1, <2>2, <2>3
<1>3. ASSUME NEW d \in Desc, NEW i \in 0..End', NEW m \in 1..Len(Stage(i)'), Stage(i)'[m] = d
      PROVE d \in InPipe
  <2>1. CASE i \in 0..(End - 1)
    <3>1. i \in 0..End /\ Stage(i)' = Stage(i)
      BY <1>1, <2>1
    <3> QED BY <1>3, <3>1 DEF InPipe
  <2>2. CASE i = End
    <3>1. Stage(i)' = event_q'[End].descs /\ m \in 1..n /\ i \in 0..End
      BY <1>1, <1>3, <2>2
    <3>2. Stage(i)[m] = d /\ m \in 1..Len(Stage(i))
      BY <1>1, <1>3, <2>2, <3>1
    <3> QED BY <3>1, <3>2 DEF InPipe
  <2>3. CASE i = End + 1
    <3>1. Stage(i)' = filled' /\ m \in 1..Len(filled') /\ filled'[m] = d
      BY <1>1, <1>3, <2>3
    <3>2. n + m \in 1..Len(Stage(End)) /\ Stage(End)[n + m] = d /\ End \in 0..End
      BY <1>1, <3>1
    <3> QED BY <3>2 DEF InPipe
  <2> QED BY <1>1, <2>1, <2>2, <2>3
<1> QED BY <1>2, <1>3 DEF InPipe

(* Posting d adds it to what is posted.                                     *)
LEMMA PostDoes ==
  ASSUME TypeInv, NEW d \in Desc, Post(d)
  PROVE /\ InPosted' = InPosted \cup {d}
        /\ d \notin InPosted /\ (\A p \in Pool : \A m, n \in 1..Len(posted[p]) : posted[p][m] = posted[p][n] => m = n)
             => \A p \in Pool : \A m, n \in 1..Len(posted'[p]) : posted'[p][m] = posted'[p][n] => m = n
<1>0. PICK r : r = MapDescToPool(d)[1]
  OBVIOUS
<1>1. r \in Pool
  BY <1>0, MapFacts
<1>2. posted \in [Pool -> Seq(Desc)] /\ posted' = [posted EXCEPT ![r] = Append(posted[r], d)]
  BY <1>0 DEF TypeInv, TypeOK, Post
<1>3. posted'[r] = Append(posted[r], d) /\ \A q \in Pool : q # r => posted'[q] = posted[q]
  BY <1>1, <1>2
<1>4. posted[r] \in Seq(Desc)
  BY <1>1, <1>2
<1>5. /\ Len(posted'[r]) = Len(posted[r]) + 1 /\ Len(posted[r]) \in Nat
      /\ \A i \in 1..Len(posted[r]) : posted'[r][i] = posted[r][i]
      /\ posted'[r][Len(posted[r]) + 1] = d
  BY <1>3, <1>4, AppendFacts
<1> HIDE <1>2, <1>4
<1>6. ASSUME NEW e \in Desc, NEW p \in Pool, NEW n \in 1..Len(posted[p]), posted[p][n] = e
      PROVE e \in InPosted'
  <2>1. CASE p = r
    <3>1. n \in 1..Len(posted'[p]) /\ posted'[p][n] = e
      BY <1>5, <1>6, <2>1
    <3> QED BY <3>1 DEF InPosted
  <2>2. CASE p # r
    BY <1>3, <1>6, <2>2 DEF InPosted
  <2> QED BY <2>1, <2>2
<1>7. d \in InPosted'
  <2>1. Len(posted[r]) + 1 \in 1..Len(posted'[r])
    BY <1>5
  <2> QED BY <1>1, <1>5, <2>1 DEF InPosted
<1>8. ASSUME NEW e \in Desc, NEW p \in Pool, NEW n \in 1..Len(posted'[p]), posted'[p][n] = e
      PROVE e = d \/ e \in InPosted
  <2>1. CASE p = r /\ n = Len(posted[r]) + 1
    BY <1>5, <1>8, <2>1
  <2>2. CASE p = r /\ n # Len(posted[r]) + 1
    <3>1. n \in 1..Len(posted[p]) /\ posted[p][n] = e
      BY <1>5, <1>8, <2>2
    <3> QED BY <3>1 DEF InPosted
  <2>3. CASE p # r
    BY <1>3, <1>8, <2>3 DEF InPosted
  <2> QED BY <2>1, <2>2, <2>3
<1>9. InPosted' = InPosted \cup {d}
  <2>1. ASSUME NEW e \in InPosted PROVE e \in InPosted'
    BY <1>6 DEF InPosted
  <2>2. ASSUME NEW e \in InPosted' PROVE e \in InPosted \cup {d}
    BY <1>8 DEF InPosted
  <2> QED BY <1>7, <2>1, <2>2
<1>10. ASSUME d \notin InPosted,
              \A p \in Pool : \A m, n \in 1..Len(posted[p]) : posted[p][m] = posted[p][n] => m = n,
              NEW p \in Pool, NEW m \in 1..Len(posted'[p]), NEW n \in 1..Len(posted'[p]),
              posted'[p][m] = posted'[p][n]
       PROVE m = n
  <2>1. CASE p # r
    BY <1>3, <1>10, <2>1
  <2>2. CASE p = r
    <3>1. ASSUME NEW k \in 1..Len(posted'[r]), k # Len(posted[r]) + 1
          PROVE k \in 1..Len(posted[r]) /\ posted'[r][k] = posted[r][k] /\ posted[r][k] # d
      <4>1. k \in 1..Len(posted[r]) /\ posted'[r][k] = posted[r][k]
        BY <1>5, <3>1
      <4>2. posted[r][k] # d
        BY <1>1, <1>10, <4>1 DEF InPosted
      <4> QED BY <4>1, <4>2
    <3> QED BY <1>1, <1>5, <1>10, <2>2, <3>1
  <2> QED BY <2>1, <2>2
<1> QED BY <1>9, <1>10

(* What the RPU fills is no longer posted.                                  *)
LEMMA RxTakes ==
  ASSUME TypeInv, PipeInv, NEW p \in Pool, NEW d, Receives(p, d)
  PROVE /\ InPosted' = InPosted \ {d} /\ d \in InPosted
        /\ \A q \in Pool : \A m, n \in 1..Len(posted'[q]) : posted'[q][m] = posted'[q][n] => m = n
<1>1. /\ d = posted[p][1] /\ d \in Desc /\ InPool(d, p)
      /\ Len(posted[p]) \in Nat /\ Len(posted[p]) > 0
      /\ Len(posted'[p]) = Len(posted[p]) - 1
      /\ \A n \in 1..(Len(posted[p]) - 1) : posted'[p][n] = posted[p][n + 1]
      /\ \A q \in Pool : q # p => posted'[q] = posted[q]
  BY DEF Receives
<1>2. \A q \in Pool : \A m, n \in 1..Len(posted[q]) : posted[q][m] = posted[q][n] => m = n
  BY DEF PipeInv
<1>3. 1 \in 1..Len(posted[p])
  BY <1>1
<1>4. d \in InPosted
  BY <1>1, <1>3 DEF InPosted
<1>5. ASSUME NEW q \in Pool, NEW n \in 1..Len(posted'[q])
      PROVE \E m \in 1..Len(posted[q]) : posted[q][m] = posted'[q][n] /\ m = (IF q = p THEN n + 1 ELSE n)
  <2>1. CASE q = p
    <3>1. n + 1 \in 1..Len(posted[q]) /\ posted[q][n + 1] = posted'[q][n]
      BY <1>1, <2>1
    <3> QED BY <2>1, <3>1
  <2>2. CASE q # p
    BY <1>1, <2>2
  <2> QED BY <2>1, <2>2
<1>6. ASSUME NEW q \in Pool, NEW n \in 1..Len(posted'[q])
      PROVE posted'[q][n] # d /\ posted'[q][n] \in InPosted
  <2>1. PICK m \in 1..Len(posted[q]) : posted[q][m] = posted'[q][n] /\ m = (IF q = p THEN n + 1 ELSE n)
    BY <1>5
  <2>2. posted[q][m] \in Desc /\ InPool(posted[q][m], q)
    BY QueueFacts
  <2>3. posted'[q][n] \in InPosted
    BY <2>1, <2>2 DEF InPosted
  <2>4. CASE q = p
    <3>1. m # 1
      BY <2>1, <2>4
    <3> QED BY <1>1, <1>2, <1>3, <2>1, <2>3, <2>4, <3>1
  <2>5. CASE q # p
    BY <1>1, <2>1, <2>2, <2>3, <2>5, OnePool
  <2> QED BY <2>4, <2>5
<1>7. ASSUME NEW e \in Desc, NEW q \in Pool, NEW n \in 1..Len(posted[q]), posted[q][n] = e, e # d
      PROVE e \in InPosted'
  <2>1. CASE q = p
    <3>1. n # 1
      BY <1>1, <1>7, <2>1
    <3>2. n - 1 \in 1..(Len(posted[p]) - 1) /\ (n - 1) + 1 = n
      BY <1>1, <1>7, <2>1, <3>1
    <3>3. posted'[p][n - 1] = e /\ n - 1 \in 1..Len(posted'[p])
      BY <1>1, <1>7, <2>1, <3>2
    <3> QED BY <3>3 DEF InPosted
  <2>2. CASE q # p
    BY <1>1, <1>7, <2>2 DEF InPosted
  <2> QED BY <2>1, <2>2
<1>8. InPosted' = InPosted \ {d}
  <2>1. ASSUME NEW e \in InPosted, e # d PROVE e \in InPosted'
    BY <1>7, <2>1 DEF InPosted
  <2>2. ASSUME NEW e \in InPosted' PROVE e \in InPosted \ {d}
    BY <1>6 DEF InPosted
  <2> QED BY <2>1, <2>2
<1>9. ASSUME NEW q \in Pool, NEW m \in 1..Len(posted'[q]), NEW n \in 1..Len(posted'[q]),
             posted'[q][m] = posted'[q][n]
      PROVE m = n
  <2>1. PICK k \in 1..Len(posted[q]) : posted[q][k] = posted'[q][m] /\ k = (IF q = p THEN m + 1 ELSE m)
    BY <1>5
  <2>2. PICK l \in 1..Len(posted[q]) : posted[q][l] = posted'[q][n] /\ l = (IF q = p THEN n + 1 ELSE n)
    BY <1>5
  <2>3. k = l
    BY <1>2, <1>9, <2>1, <2>2
  <2> QED BY <2>1, <2>2, <2>3
<1> QED BY <1>4, <1>8, <1>9

(* What the tasklet posts leaves the pipe, and is at one place in it.       *)
LEMMA PipeOnce ==
  ASSUME TypeInv, PipeInv,
         NEW i \in 0..End, NEW a \in 1..Len(Stage(i)),
         NEW j \in 0..End, NEW b \in 1..Len(Stage(j)), Stage(i)[a] = Stage(j)[b]
  PROVE i = j /\ a = b
<1>0. End \in Nat /\ Len(Stage(i)) \in Nat /\ Len(Stage(j)) \in Nat
  BY StageTypes, QueueFacts DEF End
<1>1. Stage(i)[a] \in Desc
  BY StageTypes
<1>2. Frame(Stage(i)[a]) \in Nat
  BY <1>1, MapFacts, ConstantFacts DEF Frame, TypeInv, TypeOK
<1>3. ~Precedes(i, a, j, b)
  BY <1>2 DEF PipeInv
<1>4. ~Precedes(j, b, i, a)
  BY <1>2 DEF PipeInv
<1> QED BY <1>0, <1>3, <1>4 DEF Precedes

LEMMA InPipePost ==
  ASSUME TypeInv, PipeInv, tpc # "off", Posts, event_q' = event_q, filled' = filled
  PROVE InPipe' = InPipe \ {cur} /\ cur \in InPipe
<1>1. /\ End' = End /\ End \in Nat /\ End > 0
      /\ \A i \in 1..End : Stage(i)' = Stage(i)
      /\ Len(Stage(0)) \in Nat /\ Len(Stage(0)) > 0 /\ cur = Stage(0)[1]
      /\ Len(Stage(0)') = Len(Stage(0)) - 1
      /\ \A n \in 1..Len(Stage(0)') : Stage(0)'[n] = Stage(0)[n + 1]
  BY PipePost
<1>2. 0 \in 0..End /\ 1 \in 1..Len(Stage(0))
  BY <1>1
<1>3. cur \in InPipe /\ cur \in Desc
  BY <1>1, <1>2, StageTypes
<1>4. ASSUME NEW e \in InPipe, e # cur PROVE e \in InPipe'
  <2>0. e \in Desc
    BY DEF InPipe
  <2>1. PICK i \in 0..End : \E n \in 1..Len(Stage(i)) : Stage(i)[n] = e
    BY DEF InPipe
  <2>2. PICK n \in 1..Len(Stage(i)) : Stage(i)[n] = e
    BY <2>1
  <2>3. CASE i = 0
    <3>1. n # 1
      BY <1>1, <1>4, <2>2, <2>3
    <3>2. n - 1 \in 1..Len(Stage(0)') /\ Stage(0)'[n - 1] = e
      BY <1>1, <2>2, <2>3, <3>1
    <3>3. PICK m : m = n - 1
      OBVIOUS
    <3>4. 0 \in 0..End' /\ m \in 1..Len(Stage(0)') /\ Stage(0)'[m] = e
      BY <1>1, <3>2, <3>3
    <3> QED BY <2>0, <3>4 DEF InPipe
  <2>4. CASE i # 0
    <3>1. i \in 0..End' /\ Stage(i)' = Stage(i)
      BY <1>1, <2>4
    <3> QED BY <2>0, <2>2, <3>1 DEF InPipe
  <2> QED BY <2>3, <2>4
<1>5. ASSUME NEW e \in InPipe' PROVE e \in InPipe /\ e # cur
  <2>0. e \in Desc
    BY DEF InPipe
  <2>1. PICK i \in 0..End' : \E n \in 1..Len(Stage(i)') : Stage(i)'[n] = e
    BY DEF InPipe
  <2>2. PICK n \in 1..Len(Stage(i)') : Stage(i)'[n] = e
    BY <2>1
  <2>3. \E j \in 0..End : \E m \in 1..Len(Stage(j)) : Stage(j)[m] = e /\ ~(j = 0 /\ m = 1)
    <3>1. CASE i = 0
      <4>1. n + 1 \in 1..Len(Stage(0)) /\ Stage(0)[n + 1] = e /\ n + 1 # 1
        BY <1>1, <2>2, <3>1
      <4> QED BY <1>2, <4>1
    <3>2. CASE i # 0
      BY <1>1, <2>2, <3>2
    <3> QED BY <3>1, <3>2
  <2>4. PICK j \in 0..End : \E m \in 1..Len(Stage(j)) : Stage(j)[m] = e /\ ~(j = 0 /\ m = 1)
    BY <2>3
  <2>5. PICK m \in 1..Len(Stage(j)) : Stage(j)[m] = e /\ ~(j = 0 /\ m = 1)
    BY <2>4
  <2>6. e \in InPipe
    BY <2>5, StageTypes
  <2>7. e # cur
    BY <1>1, <1>2, <2>5, PipeOnce
  <2> QED BY <2>6, <2>7
<1> QED BY <1>3, <1>4, <1>5

(* An event given up takes no more than its descriptors out of the pipe.    *)
LEMMA InPipeGiveUp ==
  ASSUME TypeInv, tpc # "off", GivesUp, event_q' = event_q, filled' = filled
  PROVE /\ InPipe' \subseteq InPipe
        /\ InPipe \subseteq InPipe' \cup {todo.descs[n] : n \in 1..Len(todo.descs)}
<1>1. /\ End' = End /\ End \in Nat /\ End > 0
      /\ \A i \in 1..End : Stage(i)' = Stage(i)
      /\ Stage(0)' = <<>>
  BY PipePost
<1>2. Stage(0) = todo.descs
  BY DEF Stage
<1>3. ASSUME NEW e \in InPipe, e \notin {todo.descs[n] : n \in 1..Len(todo.descs)} PROVE e \in InPipe'
  <2>0. e \in Desc
    BY DEF InPipe
  <2>1. PICK i \in 0..End : \E n \in 1..Len(Stage(i)) : Stage(i)[n] = e
    BY DEF InPipe
  <2>2. i # 0
    BY <1>2, <1>3, <2>1
  <2>3. i \in 0..End' /\ Stage(i)' = Stage(i)
    BY <1>1, <2>2
  <2> QED BY <2>0, <2>1, <2>3 DEF InPipe
<1>4. ASSUME NEW e \in InPipe' PROVE e \in InPipe
  <2>0. e \in Desc
    BY DEF InPipe
  <2>1. PICK i \in 0..End' : \E n \in 1..Len(Stage(i)') : Stage(i)'[n] = e
    BY DEF InPipe
  <2>2. i # 0
    BY <1>1, <2>1
  <2>3. i \in 0..End /\ Stage(i)' = Stage(i)
    BY <1>1, <2>2
  <2> QED BY <2>0, <2>1, <2>3 DEF InPipe
<1> QED BY <1>3, <1>4

LEMMA InPipeRx ==
  ASSUME TypeInv, NEW p \in Pool, RpuRx(p), NEW d, Receives(p, d)
  PROVE InPipe' = InPipe \cup {d}
<1>1. /\ End' = End /\ End \in Nat /\ End > 0
      /\ \A i \in 0..(End - 1) : Stage(i)' = Stage(i)
      /\ Stage(End) = filled /\ Len(filled) \in Nat
      /\ \A i \in 0..End : i = End => Stage(i)' = filled'
      /\ Len(filled') = Len(filled) + 1
      /\ \A n \in 1..Len(filled) : filled'[n] = filled[n]
      /\ filled'[Len(filled) + 1] = d
  BY PipeRx
<1>0. d \in Desc
  BY DEF Receives
<1>2. d \in InPipe'
  <2>1. PICK i : i = End
    OBVIOUS
  <2>2. i \in 0..End' /\ Stage(i)' = filled'
    BY <1>1, <2>1
  <2>3. PICK n : n = Len(filled) + 1
    OBVIOUS
  <2>4. n \in 1..Len(Stage(i)') /\ Stage(i)'[n] = d
    BY <1>1, <2>2, <2>3
  <2> QED BY <1>0, <2>2, <2>4 DEF InPipe
<1>3. ASSUME NEW e \in InPipe PROVE e \in InPipe'
  <2>0. e \in Desc
    BY DEF InPipe
  <2>1. PICK i \in 0..End : \E n \in 1..Len(Stage(i)) : Stage(i)[n] = e
    BY DEF InPipe
  <2>2. PICK n \in 1..Len(Stage(i)) : Stage(i)[n] = e
    BY <2>1
  <2>3. i \in 0..End' /\ n \in 1..Len(Stage(i)') /\ Stage(i)'[n] = e
    <3>1. CASE i = End
      <4>1. Stage(i)' = filled' /\ n \in 1..Len(filled)
        BY <1>1, <2>2, <3>1
      <4> QED BY <1>1, <2>2, <3>1, <4>1
    <3>2. CASE i # End
      BY <1>1, <2>2, <3>2
    <3> QED BY <3>1, <3>2
  <2> QED BY <2>0, <2>3 DEF InPipe
<1>4. ASSUME NEW e \in InPipe', e # d PROVE e \in InPipe
  <2>0. e \in Desc
    BY DEF InPipe
  <2>1. PICK i \in 0..End' : \E n \in 1..Len(Stage(i)') : Stage(i)'[n] = e
    BY DEF InPipe
  <2>2. PICK n \in 1..Len(Stage(i)') : Stage(i)'[n] = e
    BY <2>1
  <2>3. i \in 0..End /\ n \in 1..Len(Stage(i)) /\ Stage(i)[n] = e
    <3>1. CASE i = End
      <4>1. Stage(i)' = filled' /\ n \in 1..(Len(filled) + 1)
        BY <1>1, <2>2, <3>1
      <4>2. n # Len(filled) + 1
        BY <1>1, <1>4, <2>2, <4>1
      <4>3. n \in 1..Len(filled)
        BY <1>1, <4>1, <4>2
      <4> QED BY <1>1, <2>2, <3>1, <4>1, <4>3
    <3>2. CASE i # End
      BY <1>1, <2>2, <3>2
    <3> QED BY <3>1, <3>2
  <2> QED BY <2>0, <2>3 DEF InPipe
<1> QED BY <1>2, <1>3, <1>4

(* What a step does to the way round of the descriptors.                    *)
Keeps == UNCHANGED <<todo, event_q, filled, slot, posted, frames, reported, unknown>>
LEMMA StepKinds ==
  ASSUME TypeInv, [Next]_vars
  PROVE \/ Keeps
        \/ InitDesc
        \/ \E p \in Pool : RpuRx(p)
        \/ RpuReport
        \/ RxEvent
        \/ RxPost /\ Posts /\ UNCHANGED <<event_q, filled, slot, frames, reported, unknown, devVars>>
        \/ /\ RxUnmap \/ RxUnknown \/ RxAllocFail
           /\ GivesUp /\ UNCHANGED <<event_q, filled, slot, posted, frames, reported, unknown, devVars>>
<1>1. CASE UNCHANGED vars
  BY <1>1 DEF vars, taskletVars, rpuVars, Keeps
<1>2. CASE DevNext
  BY <1>2, DevKeeps DEF Keeps
<1>3. CASE RpuInit
  BY <1>3 DEF RpuInit, taskletVars, Keeps
<1>4. CASE RxUnmap \/ RxUnknown \/ RxAllocFail
  BY <1>4 DEF RxUnmap, RxUnknown, RxAllocFail, GivesUp, Tasklet, rpuVars, Keeps
<1>5. CASE RxClear \/ RxDeliver \/ RxBeacon \/ RxAlloc \/ RxMap \/ RxSet
  BY <1>5 DEF RxClear, RxDeliver, RxBeacon, RxAlloc, RxMap, RxSet, Tasklet, rpuVars, Keeps
<1>6. CASE RxPost
  BY <1>6 DEF RxPost, Posts, Tasklet, rpuVars
<1> QED BY <1>1, <1>2, <1>3, <1>4, <1>5, <1>6 DEF Next, RpuNext, RxStep

(* The pipe stays sorted. *)
LEMMA OrderNext ==
  ASSUME TypeInv, PipeInv, [Next]_vars,
         NEW i \in 0..End', NEW a \in 1..Len(Stage(i)'),
         NEW j \in 0..End', NEW b \in 1..Len(Stage(j)'), Precedes(i, a, j, b)
  PROVE Frame(Stage(i)[a])' < Frame(Stage(j)[b])'
<1>0. \A k, l \in 0..End : \A m \in 1..Len(Stage(k)), n \in 1..Len(Stage(l)) :
        Precedes(k, m, l, n) => Frame(Stage(k)[m]) < Frame(Stage(l)[n])
  BY DEF PipeInv
<1>1. CASE Keeps \/ InitDesc
  <2>1. UNCHANGED <<todo, event_q, filled, slot>>
    BY <1>1 DEF Keeps, InitDesc, rpuVars, taskletVars
  <2>2. End' = End /\ \A k \in 0..End : Stage(k)' = Stage(k)
    BY <2>1, PipeSame DEF PipeKept
  <2>3. Stage(i)' = Stage(i) /\ Stage(j)' = Stage(j) /\ i \in 0..End /\ j \in 0..End
    BY <2>2
  <2>4. Frame(Stage(i)[a]) < Frame(Stage(j)[b])
    BY <1>0, <2>3
  <2> QED BY <2>1, <2>3, <2>4 DEF Frame
<1>2. CASE RxEvent
  <2>1. /\ End \in Nat /\ End > 1 /\ End' = End - 1
        /\ \A k \in 0..(End - 1) : Stage(k)' = Stage(k + 1)
    BY <1>2, PipeTake
  <2>2. Stage(i)' = Stage(i + 1) /\ Stage(j)' = Stage(j + 1) /\ i + 1 \in 0..End /\ j + 1 \in 0..End
        /\ Precedes(i + 1, a, j + 1, b)
    BY <2>1 DEF Precedes
  <2>3. Frame(Stage(i + 1)[a]) < Frame(Stage(j + 1)[b])
    BY <1>0, <2>2
  <2>4. slot' = slot
    BY <1>2 DEF RxEvent
  <2> QED BY <2>2, <2>3, <2>4 DEF Frame
<1>3. CASE RpuReport
  <2>0. PICK n, t : Reports(n, t)
    BY <1>3, RpuReportDoes
  <2>1. /\ End \in Nat /\ End > 0 /\ End' = End + 1
        /\ n \in Nat /\ n > 0 /\ n <= Len(Stage(End)) /\ Len(Stage(End)) \in Nat
        /\ \A k \in 0..(End - 1) : Stage(k)' = Stage(k)
        /\ Len(event_q'[End].descs) = n
        /\ \A c \in 1..n : event_q'[End].descs[c] = Stage(End)[c]
        /\ Len(filled') = Len(Stage(End)) - n
        /\ \A c \in 1..Len(filled') : filled'[c] = Stage(End)[n + c]
        /\ \A k \in 0..(End + 1) : k = End => Stage(k)' = event_q'[End].descs
        /\ \A k \in 0..(End + 1) : k = End + 1 => Stage(k)' = filled'
    BY <1>3, <2>0, PipeReport
  <2>2. ASSUME NEW k \in 0..End', NEW c \in 1..Len(Stage(k)')
        PROVE \E l \in 0..End : \E m \in 1..Len(Stage(l)) :
                 /\ Stage(l)[m] = Stage(k)'[c]
                 /\ l = (IF k = End + 1 THEN End ELSE k)
                 /\ m = (IF k = End + 1 THEN n + c ELSE c)
                 /\ k = End => c <= n
    <3>1. CASE k \in 0..(End - 1)
      BY <2>1, <3>1
    <3>2. CASE k = End
      <4>1. Stage(k)' = event_q'[End].descs /\ c \in 1..n /\ k \in 0..End
        BY <2>1, <2>2, <3>2
      <4>2. Stage(k)[c] = Stage(k)'[c] /\ c \in 1..Len(Stage(k)) /\ c <= n
        BY <2>1, <2>2, <3>2, <4>1
      <4>3. k # End + 1
        BY <2>1, <3>2
      <4> QED BY <4>1, <4>2, <4>3
    <3>3. CASE k = End + 1
      <4>1. Stage(k)' = filled' /\ c \in 1..Len(filled')
        BY <2>1, <2>2, <3>3
      <4>2. n + c \in 1..Len(Stage(End)) /\ Stage(End)[n + c] = Stage(k)'[c] /\ End \in 0..End /\ k # End
        BY <2>1, <3>3, <4>1
      <4> QED BY <3>3, <4>2
    <3> QED BY <2>1, <3>1, <3>2, <3>3
  <2>3. PICK l \in 0..End : \E m \in 1..Len(Stage(l)) :
                 /\ Stage(l)[m] = Stage(i)'[a]
                 /\ l = (IF i = End + 1 THEN End ELSE i)
                 /\ m = (IF i = End + 1 THEN n + a ELSE a)
                 /\ i = End => a <= n
    BY <2>2
  <2>4. PICK m \in 1..Len(Stage(l)) :
                 /\ Stage(l)[m] = Stage(i)'[a]
                 /\ l = (IF i = End + 1 THEN End ELSE i)
                 /\ m = (IF i = End + 1 THEN n + a ELSE a)
                 /\ i = End => a <= n
    BY <2>3
  <2>5. PICK u \in 0..End : \E v \in 1..Len(Stage(u)) :
                 /\ Stage(u)[v] = Stage(j)'[b]
                 /\ u = (IF j = End + 1 THEN End ELSE j)
                 /\ v = (IF j = End + 1 THEN n + b ELSE b)
                 /\ j = End => b <= n
    BY <2>2
  <2>6. PICK v \in 1..Len(Stage(u)) :
                 /\ Stage(u)[v] = Stage(j)'[b]
                 /\ u = (IF j = End + 1 THEN End ELSE j)
                 /\ v = (IF j = End + 1 THEN n + b ELSE b)
                 /\ j = End => b <= n
    BY <2>5
  <2>7. a \in Nat /\ b \in Nat /\ b > 0 /\ i \in Nat /\ j \in Nat /\ i <= End + 1 /\ j <= End + 1
    BY <2>1
  <2>8. Precedes(l, m, u, v)
    <3>1. CASE i < j /\ j < End + 1
      BY <2>1, <2>4, <2>6, <2>7, <3>1 DEF Precedes
    <3>2. CASE i < j /\ j = End + 1 /\ i < End
      BY <2>1, <2>4, <2>6, <2>7, <3>2 DEF Precedes
    <3>3. CASE i = End /\ j = End + 1
      <4>1. l = End /\ m = a /\ a <= n /\ u = End /\ v = n + b
        BY <2>1, <2>4, <2>6, <3>3
      <4> QED BY <2>1, <2>7, <4>1 DEF Precedes
    <3>4. CASE i = j /\ a < b
      BY <2>1, <2>4, <2>6, <2>7, <3>4 DEF Precedes
    <3> QED BY <2>1, <2>7, <3>1, <3>2, <3>3, <3>4 DEF Precedes
  <2>9. Frame(Stage(l)[m]) < Frame(Stage(u)[v])
    BY <1>0, <2>8
  <2>10. slot' = slot
    BY <1>3 DEF RpuReport
  <2> QED BY <2>4, <2>6, <2>9, <2>10 DEF Frame
<1>4. CASE \E p \in Pool : RpuRx(p)
  <2>1. PICK p \in Pool : RpuRx(p)
    BY <1>4
  <2>2. PICK d : Receives(p, d)
    BY <2>1, RpuRxDoes
  <2>3. /\ End' = End /\ End \in Nat /\ End > 0
        /\ \A k \in 0..(End - 1) : Stage(k)' = Stage(k)
        /\ Stage(End) = filled /\ Len(filled) \in Nat
        /\ \A k \in 0..End : k = End => Stage(k)' = filled'
        /\ Len(filled') = Len(filled) + 1
        /\ \A n \in 1..Len(filled) : filled'[n] = filled[n]
        /\ filled'[Len(filled) + 1] = d
    BY <2>1, <2>2, PipeRx
  <2>4. d \in InPosted
    BY <2>2, RxTakes
  <2>5. \A e \in Desc : Frame(e)' = (IF e = d THEN frames + 1 ELSE Frame(e))
    BY <2>2 DEF Receives
  <2>6. ASSUME NEW k \in 0..End', NEW c \in 1..Len(Stage(k)')
        PROVE \/ /\ k \in 0..End /\ c \in 1..Len(Stage(k)) /\ Stage(k)'[c] = Stage(k)[c]
                 /\ Frame(Stage(k)[c])' = Frame(Stage(k)[c])
                 /\ Frame(Stage(k)[c]) \in Nat /\ Frame(Stage(k)[c]) <= frames
              \/ /\ k = End /\ c = Len(filled) + 1
                 /\ Frame(Stage(k)[c])' = frames + 1
    <3>1. CASE k = End /\ c = Len(filled) + 1
      <4>1. Stage(k)'[c] = d /\ d \in Desc
        BY <2>2, <2>3, <3>1 DEF Receives
      <4>2. Frame(Stage(k)[c])' = slot'[MapDescToPool(d)]
        BY <4>1 DEF Frame
      <4>3. Frame(d)' = frames + 1
        BY <2>5, <4>1
      <4> QED BY <3>1, <4>2, <4>3 DEF Frame
    <3>2. CASE ~(k = End /\ c = Len(filled) + 1)
      <4>1. k \in 0..End /\ c \in 1..Len(Stage(k)) /\ Stage(k)'[c] = Stage(k)[c]
        <5>1. CASE k = End
          <6>1. Stage(k)' = filled' /\ c \in 1..(Len(filled) + 1) /\ c # Len(filled) + 1
            BY <2>3, <2>6, <3>2, <5>1
          <6>2. c \in 1..Len(filled)
            BY <2>3, <6>1
          <6> QED BY <2>3, <5>1, <6>1, <6>2
        <5>2. CASE k # End
          BY <2>3, <2>6, <5>2
        <5> QED BY <5>1, <5>2
      <4>2. PICK e : e = Stage(k)[c]
        OBVIOUS
      <4>3. e \in Desc /\ e \in InPipe
        BY <4>1, <4>2, StageTypes
      <4>4. e # d
        BY <2>4, <4>3 DEF PipeInv
      <4>5. Frame(e)' = Frame(e)
        BY <2>5, <4>3, <4>4
      <4>6. Frame(e) \in Nat /\ Frame(e) <= frames
        BY <4>3, MapFacts, ConstantFacts DEF Frame, TypeInv, TypeOK, BoundInv
      <4> QED BY <4>1, <4>2, <4>5, <4>6 DEF Frame
    <3> QED BY <3>1, <3>2
  <2>7. frames \in Nat
    BY ConstantFacts DEF TypeInv, TypeOK
  <2>8. CASE j = End /\ b = Len(filled) + 1
    <3>1. ~(i = End /\ a = Len(filled) + 1)
      BY <2>3, <2>8 DEF Precedes
    <3>2. Frame(Stage(i)[a])' \in Nat /\ Frame(Stage(i)[a])' <= frames
      BY <2>6, <3>1
    <3>3. Frame(Stage(j)[b])' = frames + 1
      <4>1. ~(b \in 1..Len(Stage(j)))
        BY <2>3, <2>8
      <4> QED BY <2>6, <4>1
    <3> QED BY <2>7, <3>2, <3>3
  <2>9. CASE ~(j = End /\ b = Len(filled) + 1)
    <3>0. j \in 0..End /\ b \in 1..Len(Stage(j)) /\ Stage(j)'[b] = Stage(j)[b]
                 /\ Frame(Stage(j)[b])' = Frame(Stage(j)[b])
      BY <2>6, <2>9
    <3>1. ~(i = End /\ a = Len(filled) + 1)
      <4> SUFFICES ASSUME i = End, a = Len(filled) + 1 PROVE FALSE
        OBVIOUS
      <4>1. j = End /\ a < b
        BY <2>3, <3>0 DEF Precedes
      <4>2. b <= Len(filled) /\ b \in Nat
        BY <2>3, <3>0, <4>1
      <4> QED BY <2>3, <4>1, <4>2
    <3>2. i \in 0..End /\ a \in 1..Len(Stage(i)) /\ Frame(Stage(i)[a])' = Frame(Stage(i)[a])
      BY <2>6, <3>1
    <3> QED BY <1>0, <3>0, <3>2
  <2> QED BY <2>8, <2>9
<1>5. CASE (Posts \/ GivesUp) /\ event_q' = event_q /\ filled' = filled /\ slot' = slot
  <2>1. /\ End' = End /\ End \in Nat /\ End > 0
        /\ \A k \in 1..End : Stage(k)' = Stage(k)
        /\ Len(Stage(0)) \in Nat /\ Len(Stage(0)) > 0
        /\ Posts => /\ Len(Stage(0)') = Len(Stage(0)) - 1
                    /\ \A n \in 1..Len(Stage(0)') : Stage(0)'[n] = Stage(0)[n + 1]
        /\ GivesUp => Stage(0)' = <<>>
    <3>1. tpc # "off"
      BY <1>5 DEF Posts, GivesUp
    <3> QED BY <1>5, <3>1, PipePost
  <2>2. ASSUME NEW k \in 0..End', NEW c \in 1..Len(Stage(k)')
        PROVE \E m \in 1..Len(Stage(k)) :
                 /\ Stage(k)[m] = Stage(k)'[c] /\ m = (IF k = 0 THEN c + 1 ELSE c)
    <3>1. CASE k = 0
      <4>1. Posts
        BY <1>5, <2>1, <2>2, <3>1
      <4>2. c + 1 \in 1..Len(Stage(k)) /\ Stage(k)[c + 1] = Stage(k)'[c]
        BY <2>1, <2>2, <3>1, <4>1
      <4> QED BY <3>1, <4>2
    <3>2. CASE k # 0
      BY <2>1, <3>2
    <3> QED BY <3>1, <3>2
  <2>3. PICK m \in 1..Len(Stage(i)) : Stage(i)[m] = Stage(i)'[a] /\ m = (IF i = 0 THEN a + 1 ELSE a)
    BY <2>2
  <2>4. PICK n \in 1..Len(Stage(j)) : Stage(j)[n] = Stage(j)'[b] /\ n = (IF j = 0 THEN b + 1 ELSE b)
    BY <2>2
  <2>5. Precedes(i, m, j, n) /\ i \in 0..End /\ j \in 0..End
    BY <2>1, <2>3, <2>4 DEF Precedes
  <2>6. Frame(Stage(i)[m]) < Frame(Stage(j)[n])
    BY <1>0, <2>5
  <2> QED BY <1>5, <2>3, <2>4, <2>6 DEF Frame
<1> QED BY <1>1, <1>2, <1>3, <1>4, <1>5, StepKinds

(* While the RPU is off the pipe is empty. *)
LEMMA QuietPipe ==
  ASSUME TypeInv, QuietInv, rpu # "on"
  PROVE InPipe = {}
<1>1. Len(event_q) = 0 /\ End = 1 /\ todo.descs = <<>> /\ filled = <<>>
  BY DEF QuietInv, TypeInv, BoundInv, End
<1>2. ASSUME NEW i \in 0..End PROVE Stage(i) = <<>>
  BY <1>1 DEF Stage
<1> QED BY <1>2 DEF InPipe

LEMMA PipeKeeps ==
  ASSUME Keeps PROVE InPipe' = InPipe /\ InPosted' = InPosted
<1>1. UNCHANGED <<todo, event_q, filled, posted>>
  BY DEF Keeps
<1>2. End' = End /\ \A k \in 0..End : Stage(k)' = Stage(k)
  BY <1>1, PipeSame DEF PipeKept
<1>3. InPipe' = InPipe
  BY <1>2 DEF InPipe
<1>4. InPosted' = InPosted
  BY <1>1 DEF InPosted
<1> QED BY <1>3, <1>4

(* init_rx posts the next descriptor. *)
LEMMA InitDescDoes ==
  ASSUME TypeInv, QuietInv, PipeInv, InitDesc
  PROVE /\ di \in Desc /\ di \notin InPosted /\ InPosted' = InPosted \cup {di}
        /\ InPipe = {} /\ InPipe' = {}
        /\ \A p \in Pool : \A m, n \in 1..Len(posted'[p]) : posted'[p][m] = posted'[p][n] => m = n
<1>1. di \in Desc
  BY DescFacts DEF InitDesc, TypeInv, TypeOK, Desc
<1>2. Post(di)
  BY DEF InitDesc
<1>3. di \notin InPosted
  BY <1>1, DescFacts DEF PipeInv, InitDesc
<1>4. \A p \in Pool : \A m, n \in 1..Len(posted[p]) : posted[p][m] = posted[p][n] => m = n
  BY DEF PipeInv
<1>5. rpu # "on" /\ UNCHANGED <<todo, event_q, filled>>
  BY DEF InitDesc, QuietInv, Starting, rpuVars, taskletVars
<1>6. InPipe = {}
  BY <1>5, QuietPipe
<1>7. InPipe' = InPipe
  BY <1>5, PipeSame DEF PipeKept, InPipe
<1> QED BY <1>1, <1>2, <1>3, <1>4, <1>6, <1>7, PostDoes

(* No descriptor is at two places. *)
LEMMA PlaceNext ==
  ASSUME TypeInv, QuietInv, PipeInv, [Next]_vars
  PROVE /\ \A p \in Pool : \A m, n \in 1..Len(posted'[p]) : posted'[p][m] = posted'[p][n] => m = n
        /\ InPosted' \cap InPipe' = {}
<1>0. /\ \A p \in Pool : \A m, n \in 1..Len(posted[p]) : posted[p][m] = posted[p][n] => m = n
      /\ InPosted \cap InPipe = {}
  BY DEF PipeInv
<1>1. CASE Keeps
  <2>1. posted' = posted
    BY <1>1 DEF Keeps
  <2> QED BY <1>0, <1>1, <2>1, PipeKeeps
<1>2. CASE InitDesc
  <2>1. /\ InPipe' = {}
        /\ \A p \in Pool : \A m, n \in 1..Len(posted'[p]) : posted'[p][m] = posted'[p][n] => m = n
    BY <1>2, InitDescDoes
  <2> QED BY <2>1
<1>3. CASE \E p \in Pool : RpuRx(p)
  <2>1. PICK p \in Pool : RpuRx(p)
    BY <1>3
  <2>2. PICK d : Receives(p, d)
    BY <2>1, RpuRxDoes
  <2>3. InPipe' = InPipe \cup {d}
    BY <2>1, <2>2, InPipeRx
  <2>4. /\ InPosted' = InPosted \ {d}
        /\ \A q \in Pool : \A m, n \in 1..Len(posted'[q]) : posted'[q][m] = posted'[q][n] => m = n
    BY <2>1, <2>2, RxTakes
  <2> QED BY <1>0, <2>3, <2>4
<1>4. CASE RpuReport \/ RxEvent
  <2>1. posted' = posted
    BY <1>4 DEF RpuReport, RxEvent
  <2>2. InPipe' = InPipe
    BY <1>4, InPipeReport, InPipeTake
  <2>3. InPosted' = InPosted
    BY <2>1 DEF InPosted
  <2> QED BY <1>0, <2>1, <2>2, <2>3
<1>5. CASE Posts /\ UNCHANGED <<event_q, filled>>
  <2>1. tpc # "off" /\ Post(cur)
    BY <1>5 DEF Posts
  <2>2. cur \in Desc
    BY <2>1, CurFacts
  <2>3. InPipe' = InPipe \ {cur} /\ cur \in InPipe
    BY <1>5, <2>1, InPipePost
  <2>4. PICK d : d = cur
    OBVIOUS
  <2>5. d \in Desc /\ Post(d) /\ d \notin InPosted
    BY <1>0, <2>1, <2>2, <2>3, <2>4 DEF Post
  <2>6. /\ InPosted' = InPosted \cup {d}
        /\ \A p \in Pool : \A m, n \in 1..Len(posted'[p]) : posted'[p][m] = posted'[p][n] => m = n
    BY <1>0, <2>5, PostDoes
  <2> QED BY <1>0, <2>3, <2>4, <2>6
<1>6. CASE GivesUp /\ UNCHANGED <<event_q, filled>>
  <2>1. tpc # "off" /\ posted' = posted
    BY <1>6 DEF GivesUp
  <2>2. InPipe' \subseteq InPipe
    BY <1>6, <2>1, InPipeGiveUp
  <2>3. InPosted' = InPosted
    BY <2>1 DEF InPosted
  <2> QED BY <1>0, <2>1, <2>2, <2>3
<1> QED BY <1>1, <1>2, <1>3, <1>4, <1>5, <1>6, StepKinds

LEMMA PipeNext == TypeInv /\ QuietInv /\ PipeInv /\ [Next]_vars => PipeInv'
<1> SUFFICES ASSUME TypeInv, QuietInv, PipeInv, [Next]_vars PROVE PipeInv'
  OBVIOUS
<1>1. (\A i, j \in 0..End : \A a \in 1..Len(Stage(i)), b \in 1..Len(Stage(j)) :
         Precedes(i, a, j, b) => Frame(Stage(i)[a]) < Frame(Stage(j)[b]))'
  <2>1. ASSUME NEW i \in 0..End', NEW j \in 0..End',
               NEW a \in 1..Len(Stage(i)'), NEW b \in 1..Len(Stage(j)'), Precedes(i, a, j, b)
        PROVE Frame(Stage(i)[a])' < Frame(Stage(j)[b])'
    BY <2>1, OrderNext
  <2> QED BY <2>1 DEF Precedes
<1>2. /\ \A p \in Pool : \A m, n \in 1..Len(posted'[p]) : posted'[p][m] = posted'[p][n] => m = n
      /\ InPosted' \cap InPipe' = {}
  BY PlaceNext
<1>3. dev' \in {"down", "init"} => \A d \in InPosted' : d < di'
  <2> SUFFICES ASSUME dev' \in {"down", "init"} PROVE \A d \in InPosted' : d < di'
    OBVIOUS
  <2>0. dev \in {"down", "init"} => \A d \in InPosted : d < di
    BY DEF PipeInv
  <2>1. CASE InitDesc
    <3>1. InPosted' = InPosted \cup {di} /\ di \in Desc /\ di' = di + 1 /\ dev = "init"
      BY <2>1, InitDescDoes DEF InitDesc
    <3>2. \A d \in InPosted : d \in Desc
      BY DEF InPosted
    <3> QED BY <2>0, <3>1, <3>2, DescFacts
  <2>2. CASE InitRx
    <3>1. di = 0 /\ di' = 0 /\ posted' = posted /\ dev = "down"
      BY <2>2 DEF InitRx, QuietInv
    <3> QED BY <2>0, <3>1 DEF InPosted
  <2>3. CASE ~InitRx /\ ~InitDesc
    <3>1. dev \in {"down", "init"} /\ di' = di
      <4>1. CASE UNCHANGED devVars
        BY <4>1 DEF devVars
      <4>2. CASE DevNext
        BY <2>3, <4>2 DEF DevNext, InitRxDone, InitRxFail, InitDone, Stop, DeinitCheck, DeinitUnmap,
                         DeinitFree, DeinitRxDone, HalMapFree, TaskletKill
      <4> QED BY <4>1, <4>2 DEF Next, RpuNext, RpuInit, RpuRx, RpuReport, RxEvent, RxStep, RxAllocFail,
                RxUnmap, RxClear, RxDeliver, RxBeacon, RxUnknown, RxAlloc, RxMap, RxSet, RxPost, Tasklet, vars
    <3>2. rpu # "on"
      BY <3>1 DEF QuietInv, Starting
    <3>3. tpc = "off" /\ event_q = <<>> /\ filled = <<>>
      BY <3>2 DEF QuietInv
    <3>4. posted' = posted
      <4>1. ~RxEvent /\ ~Posts /\ ~GivesUp /\ ~RpuReport /\ ~\E p \in Pool : RpuRx(p)
        BY <3>2, <3>3 DEF RxEvent, Posts, GivesUp, RpuReport, RpuRx
      <4> QED BY <2>3, <4>1, StepKinds DEF Keeps
    <3> QED BY <2>0, <3>1, <3>4 DEF InPosted
  <2> QED BY <2>1, <2>2, <2>3
<1>4. dev' = "init" => \A d \in Desc : d < di' => d \in InPosted'
  <2> SUFFICES ASSUME dev' = "init" PROVE \A d \in Desc : d < di' => d \in InPosted'
    OBVIOUS
  <2>0. dev = "init" => \A d \in Desc : d < di => d \in InPosted
    BY DEF PipeInv
  <2>1. CASE InitDesc
    <3>1. InPosted' = InPosted \cup {di} /\ di \in Desc /\ di' = di + 1 /\ dev = "init"
      BY <2>1, InitDescDoes DEF InitDesc
    <3> QED BY <2>0, <3>1, DescFacts
  <2>2. CASE InitRx
    <3>1. di' = 0
      BY <2>2 DEF InitRx
    <3> QED BY <3>1, DescFacts
  <2>3. CASE ~InitRx /\ ~InitDesc
    <3>1. dev = "init" /\ di' = di
      <4>1. CASE UNCHANGED devVars
        BY <4>1 DEF devVars
      <4>2. CASE DevNext
        BY <2>3, <4>2 DEF DevNext, InitRxDone, InitRxFail, InitDone, Stop, DeinitCheck, DeinitUnmap,
                         DeinitFree, DeinitRxDone, HalMapFree, TaskletKill
      <4> QED BY <4>1, <4>2 DEF Next, RpuNext, RpuInit, RpuRx, RpuReport, RxEvent, RxStep, RxAllocFail,
                RxUnmap, RxClear, RxDeliver, RxBeacon, RxUnknown, RxAlloc, RxMap, RxSet, RxPost, Tasklet, vars
    <3>2. rpu # "on"
      BY <3>1 DEF QuietInv, Starting
    <3>3. tpc = "off" /\ event_q = <<>> /\ filled = <<>>
      BY <3>2 DEF QuietInv
    <3>4. posted' = posted
      <4>1. ~RxEvent /\ ~Posts /\ ~GivesUp /\ ~RpuReport /\ ~\E p \in Pool : RpuRx(p)
        BY <3>2, <3>3 DEF RxEvent, Posts, GivesUp, RpuReport, RpuRx
      <4> QED BY <2>3, <4>1, StepKinds DEF Keeps
    <3> QED BY <2>0, <3>1, <3>4 DEF InPosted
  <2> QED BY <2>1, <2>2, <2>3
<1> QED BY <1>1, <1>2, <1>3, <1>4 DEF PipeInv
-----------------------------------------------------------------------------
LEMMA ShiftCount ==
  ASSUME NEW S \in SUBSET Nat, IsFiniteSet(S), NEW T, T = {i + 1 : i \in S}
  PROVE IsFiniteSet(T) /\ Cardinality(T) = Cardinality(S)
<1> DEFINE f == [i \in S |-> i + 1]
<1>1. f \in [S -> T] /\ \A i \in S : f[i] = i + 1
  OBVIOUS
<1>2. \A i, j \in S : f[i] = f[j] => i = j
  <2> SUFFICES ASSUME NEW i \in S, NEW j \in S, f[i] = f[j] PROVE i = j
    OBVIOUS
  <2>1. i \in Nat /\ j \in Nat /\ i + 1 = j + 1
    BY <1>1
  <2> QED BY <2>1
<1>3. \A t \in T : \E i \in S : t = i + 1
  OBVIOUS
<1> HIDE DEF f
<1>4. f \in Injection(S, T)
  BY <1>1, <1>2 DEF Injection, IsInjective
<1>5. f \in Surjection(S, T)
  BY <1>1, <1>3 DEF Surjection
<1>6. f \in Surjection(S, T) /\ IsFiniteSet(S)
  BY <1>5
<1> QED BY <1>4, <1>6, FS_Surjection

LEMMA UnknownCount ==
  ASSUME TypeInv
  PROVE /\ IsFiniteSet(Unknowns) /\ Cardinality(Unknowns) \in Nat
        /\ Coming \in Nat /\ unknown \in Nat /\ Handled \in Int /\ Handled <= unknown
<1>1. Len(event_q) \in Nat
  BY QueueFacts
<1>2. IsFiniteSet(1..Len(event_q))
  BY <1>1, FS_Interval
<1>3. Unknowns \in SUBSET (1..Len(event_q))
  BY DEF Unknowns
<1>4. IsFiniteSet(Unknowns)
  BY <1>2, <1>3, FS_Subset
<1>5. Cardinality(Unknowns) \in Nat
  BY <1>4, FS_CardinalityType
<1>6. Coming \in Nat
  BY <1>5 DEF Coming
<1>7. unknown \in Nat
  BY ConstantFacts DEF TypeInv, TypeOK
<1> QED BY <1>4, <1>5, <1>6, <1>7 DEF Handled

Countable == IsFiniteSet(Unknowns) /\ Cardinality(Unknowns) \in Nat
LEMMA UnknownsFinite == TypeInv => Countable
BY UnknownCount DEF Countable

(* An event of unknown type counts from its report until it is handled.     *)
LEMMA HandledNext ==
  ASSUME TypeInv, UnknownInv, [Next]_vars
  PROVE /\ Handled \in Nat /\ Handled' \in Nat /\ Handled <= Handled'
        /\ RxUnknown => Handled' = Handled + 1
<1>0. TypeInv'
  BY TypeNext
<1>1. /\ IsFiniteSet(Unknowns) /\ Cardinality(Unknowns) \in Nat /\ unknown \in Nat /\ Handled \in Nat
      /\ Coming \in Nat
  BY UnknownCount DEF UnknownInv
<1>2. (tpc = "off") = (todo.descs = <<>>) /\ (tpc' = "off") = (todo'.descs = <<>>)
  BY <1>0 DEF TypeInv, BoundInv
<1>3. CASE Keeps \/ InitDesc \/ \E p \in Pool : RpuRx(p)
  <2>1. UNCHANGED <<todo, event_q, unknown>>
    BY <1>3 DEF Keeps, InitDesc, RpuRx, rpuVars, taskletVars
  <2>2. Unknowns' = Unknowns /\ (tpc' = "off") = (tpc = "off")
    BY <1>2, <2>1 DEF Unknowns
  <2>3. Handled' = Handled
    BY <2>1, <2>2 DEF Handled, Coming
  <2>4. ~RxUnknown
    <3>1. CASE RxUnknown
      <4>1. tpc # "off" /\ tpc' = "off"
        BY <3>1 DEF RxUnknown, Leave
      <4> QED BY <2>2, <4>1
    <3> QED BY <3>1
  <2> QED BY <1>1, <2>3, <2>4
<1>4. CASE RpuReport
  <2>1. PICK n, t : Reports(n, t)
    BY <1>4, RpuReportDoes
  <2>2. /\ unknown' = IF t = "unknown" THEN unknown + 1 ELSE unknown
        /\ Len(event_q') = Len(event_q) + 1 /\ Len(event_q) \in Nat
        /\ \A i \in 1..Len(event_q) : event_q'[i] = event_q[i]
        /\ event_q'[Len(event_q) + 1].type = t
    BY <2>1, QueueFacts DEF Reports
  <2>3. tpc' = tpc /\ todo' = todo /\ ~RxUnknown
    BY <1>4 DEF RpuReport, taskletVars, RxUnknown, Tasklet, rpuVars
  <2>4. CASE t = "unknown"
    <3>1. Unknowns' = Unknowns \cup {Len(event_q) + 1}
      BY <2>2, <2>4 DEF Unknowns
    <3>2. Len(event_q) + 1 \notin Unknowns
      BY <2>2 DEF Unknowns
    <3>3. Cardinality(Unknowns') = Cardinality(Unknowns) + 1
      BY <1>1, <3>1, <3>2, FS_AddElement
    <3>4. Coming' = Coming + 1
      BY <1>1, <2>3, <3>3 DEF Coming
    <3>5. Handled' = Handled
      BY <1>1, <2>2, <2>4, <3>4 DEF Handled
    <3> QED BY <1>1, <2>3, <3>5
  <2>5. CASE t # "unknown"
    <3>1. Unknowns' = Unknowns
      BY <2>2, <2>5 DEF Unknowns
    <3>2. Handled' = Handled
      BY <2>2, <2>3, <2>5, <3>1 DEF Coming, Handled
    <3> QED BY <1>1, <2>3, <3>2
  <2> QED BY <2>4, <2>5
<1>5. CASE RxEvent
  <2>1. /\ todo' = event_q[1] /\ Len(event_q) \in Nat /\ Len(event_q) > 0
        /\ Len(event_q') = Len(event_q) - 1
        /\ \A i \in 1..(Len(event_q) - 1) : event_q'[i] = event_q[i + 1]
        /\ tpc = "off" /\ tpc' = "unmap" /\ unknown' = unknown
    BY <1>5, RxEventDoes DEF rpuVars
  <2>2. IsFiniteSet(Unknowns') /\ Cardinality(Unknowns') \in Nat
    <3>1. Countable'
      BY <1>0, UnknownsFinite, PTL
    <3> QED BY <3>1 DEF Countable
  <2>3. Unknowns \ {1} = {i + 1 : i \in Unknowns'}
    <3>1. ASSUME NEW i \in Unknowns, i # 1 PROVE \E j \in Unknowns' : i = j + 1
      <4>1. i \in 1..Len(event_q) /\ event_q[i].type = "unknown"
        BY DEF Unknowns
      <4>2. i - 1 \in 1..Len(event_q') /\ event_q'[i - 1] = event_q[i] /\ i = (i - 1) + 1
        BY <2>1, <3>1, <4>1
      <4>3. i - 1 \in Unknowns'
        BY <4>1, <4>2 DEF Unknowns
      <4> QED BY <4>2, <4>3
    <3>2. ASSUME NEW i \in Unknowns' PROVE i + 1 \in Unknowns /\ i + 1 # 1
      <4>1. i \in 1..Len(event_q') /\ event_q'[i].type = "unknown"
        BY DEF Unknowns
      <4>2. i + 1 \in 1..Len(event_q) /\ event_q[i + 1].type = "unknown" /\ i + 1 # 1
        BY <2>1, <4>1
      <4> QED BY <4>2 DEF Unknowns
    <3> QED BY <3>1, <3>2
  <2>4. Unknowns' \in SUBSET Nat
    BY <2>1 DEF Unknowns
  <2>5. Cardinality(Unknowns \ {1}) = Cardinality(Unknowns')
    <3>1. PICK S : S = Unknowns'
      OBVIOUS
    <3>2. S \in SUBSET Nat /\ IsFiniteSet(S) /\ Unknowns \ {1} = {i + 1 : i \in S}
      BY <2>2, <2>3, <2>4, <3>1
    <3>3. Cardinality(Unknowns \ {1}) = Cardinality(S)
      BY <3>2, ShiftCount
    <3> QED BY <3>1, <3>3
  <2>6. 1 \in Unknowns <=> todo'.type = "unknown"
    BY <2>1 DEF Unknowns
  <2>7. Cardinality(Unknowns \ {1}) = IF 1 \in Unknowns THEN Cardinality(Unknowns) - 1 ELSE Cardinality(Unknowns)
    BY <1>1, FS_RemoveElement
  <2>8. Coming' = Coming
    BY <1>1, <2>1, <2>2, <2>5, <2>6, <2>7 DEF Coming
  <2>9. Handled' = Handled /\ ~RxUnknown
    BY <2>1, <2>8 DEF Handled, RxUnknown
  <2> QED BY <1>1, <2>9
<1>6. CASE RxPost /\ Posts /\ UNCHANGED <<event_q, unknown>>
  <2>1. tpc = "post" /\ todo.type # "unknown" /\ ~RxUnknown
    BY <1>6 DEF Posts, UnknownInv, Done, RxUnknown
  <2>2. todo'.type = todo.type
    BY <1>6, <2>1, TodoTypes
  <2>3. Unknowns' = Unknowns
    BY <1>6 DEF Unknowns
  <2>4. Handled' = Handled
    BY <1>6, <2>1, <2>2, <2>3 DEF Handled, Coming
  <2> QED BY <1>1, <2>1, <2>4
<1>7. CASE (RxUnmap \/ RxUnknown \/ RxAllocFail) /\ GivesUp /\ UNCHANGED <<event_q, unknown>>
  <2>1. tpc # "off" /\ tpc' = "off"
    BY <1>7 DEF GivesUp, Leave
  <2>2. Unknowns' = Unknowns
    BY <1>7 DEF Unknowns
  <2>3. Coming' = Cardinality(Unknowns)
    BY <1>1, <2>1, <2>2 DEF Coming
  <2>4. Handled' = Handled + (IF todo.type = "unknown" THEN 1 ELSE 0)
    BY <1>1, <1>7, <2>1, <2>3 DEF Handled, Coming
  <2>5. RxUnknown => todo.type = "unknown"
    BY DEF RxUnknown
  <2> QED BY <1>1, <2>4, <2>5
<1> QED BY <1>3, <1>4, <1>5, <1>6, <1>7, StepKinds

LEMMA UnknownNext == TypeInv /\ UnknownInv /\ [Next]_vars => UnknownInv'
<1> SUFFICES ASSUME TypeInv, UnknownInv, [Next]_vars PROVE UnknownInv'
  OBVIOUS
<1>1. Handled' \in Nat
  BY HandledNext
<1>2. tpc' \in Done => todo'.type # "unknown"
  <2>0. tpc \in Done => todo.type # "unknown"
    BY DEF UnknownInv
  <2>1. CASE UNCHANGED <<tpc, todo>>
    BY <2>0, <2>1
  <2>2. CASE RxEvent \/ RxUnmap \/ RxClear \/ RxUnknown \/ RxAllocFail
    BY <2>2 DEF RxEvent, RxUnmap, RxClear, RxUnknown, RxAllocFail, Leave, Done
  <2>3. CASE RxDeliver \/ RxBeacon
    BY <2>3 DEF RxDeliver, RxBeacon
  <2>4. CASE RxAlloc \/ RxMap \/ RxSet
    BY <2>0, <2>4 DEF RxAlloc, RxMap, RxSet, Done
  <2>5. CASE RxPost
    BY <2>5 DEF RxPost, Done
  <2> QED BY <2>1, <2>2, <2>3, <2>4, <2>5, DevKeeps
        DEF Next, RpuNext, RxStep, RpuInit, RpuRx, RpuReport, taskletVars, vars
<1> QED BY <1>1, <1>2 DEF UnknownInv
-----------------------------------------------------------------------------
(* The HAL's map of each descriptor after a change for one of them.         *)
LEMMA HalClears ==
  ASSUME TypeInv, NEW d \in Desc, hal_map' = [hal_map EXCEPT ![MapDescToPool(d)] = NoBuf]
  PROVE \A e \in Desc : hal_map'[MapDescToPool(e)] = IF e = d THEN NoBuf ELSE hal_map[MapDescToPool(e)]
<1>1. hal_map \in [Slot -> Nat]
  BY DEF TypeInv, TypeOK
<1>2. \A e \in Desc : MapDescToPool(e) \in Slot /\ (e # d => MapDescToPool(e) # MapDescToPool(d))
  BY MapFacts, MapInjective
<1> QED BY <1>1, <1>2

LEMMA HalMaps ==
  ASSUME TypeInv, NEW d \in Desc, NEW b, hal_map' = Mapped(d, b)
  PROVE \A e \in Desc : hal_map'[MapDescToPool(e)] =
           IF e = d /\ hal_map[MapDescToPool(d)] = NoBuf THEN b ELSE hal_map[MapDescToPool(e)]
<1>1. hal_map \in [Slot -> Nat]
  BY DEF TypeInv, TypeOK
<1>2. \A e \in Desc : MapDescToPool(e) \in Slot /\ (e # d => MapDescToPool(e) # MapDescToPool(d))
  BY MapFacts, MapInjective
<1>3. hal_map' = IF hal_map[MapDescToPool(d)] = NoBuf THEN [hal_map EXCEPT ![MapDescToPool(d)] = b] ELSE hal_map
  BY DEF Mapped
<1> QED BY <1>1, <1>2, <1>3

(* The entry of one descriptor in rx_buf_info changes. *)
LEMMA InfoSet ==
  ASSUME TypeInv, NEW d \in Desc, NEW r, rx_buf_info' = [rx_buf_info EXCEPT ![d] = r]
  PROVE \A e \in Desc : rx_buf_info'[e] = IF e = d THEN r ELSE rx_buf_info[e]
BY DEF TypeInv, TypeOK

LEMMA InfoIs ==
  ASSUME TypeInv, NEW d \in Desc
  PROVE /\ rx_buf_info[d] = [nwb |-> rx_buf_info[d].nwb, mapped |-> rx_buf_info[d].mapped]
        /\ rx_buf_info[d].nwb \in 0..nwbs /\ rx_buf_info[d].mapped \in BOOLEAN
        /\ hal_map[MapDescToPool(d)] \in 0..nwbs /\ nwbs \in Nat
        /\ slot[MapDescToPool(d)] \in 0..MaxFrames
<1>1. rx_buf_info[d] \in Info
  BY DEF TypeInv, TypeOK
<1>2. MapDescToPool(d) \in Slot
  BY MapFacts
<1>3. hal_map[MapDescToPool(d)] \in Nat /\ slot[MapDescToPool(d)] \in 0..MaxFrames /\ nwbs \in Nat
  BY <1>2 DEF TypeInv, TypeOK
<1>4. rx_buf_info[d].nwb <= nwbs /\ hal_map[MapDescToPool(d)] <= nwbs
  BY <1>2 DEF TypeInv, BoundInv
<1> QED BY <1>1, <1>3, <1>4 DEF Info

(* The tasklet's steps keep the descriptor, unless they post it or give up. *)
LEMMA CurKept ==
  todo' = todo => cur' = cur
BY DEF cur

(* The slot of the descriptor the tasklet works on is not written.          *)
LEMMA CurNotFilled ==
  ASSUME TypeInv, PipeInv, tpc # "off", NEW p \in Pool, RpuRx(p)
  PROVE Frame(cur)' = Frame(cur) /\ cur' = cur
<1>1. PICK d : Receives(p, d)
  BY RpuRxDoes
<1>2. d \in InPosted
  BY <1>1, RxTakes
<1>3. PICK c : c = cur
  OBVIOUS
<1>4. c \in Desc /\ c = todo.descs[1] /\ Len(todo.descs) \in Nat /\ Len(todo.descs) > 0
  BY <1>3, CurFacts
<1>5. c \in InPipe
  <2>1. 0 \in 0..End /\ 1 \in 1..Len(Stage(0)) /\ Stage(0)[1] = c
    BY <1>4, QueueFacts DEF End, Stage
  <2> QED BY <2>1, StageTypes
<1>6. c # d
  BY <1>2, <1>5 DEF PipeInv
<1>7. Frame(c)' = Frame(c)
  BY <1>1, <1>4, <1>6 DEF Receives
<1>8. todo' = todo
  BY DEF RpuRx, taskletVars
<1>9. cur' = cur
  BY <1>8, CurKept
<1> QED BY <1>3, <1>7, <1>9 DEF Frame

LEMMA MapDev ==
  ASSUME TypeInv, QuietInv, MapInv, DevNext PROVE MapInv'
<1> USE DEF NoBuf
<1>0. UNCHANGED <<slot, tpc, todo, nwb>> /\ cur' = cur
  BY DevKeeps, CurKept
<1>1. CASE InitRx
  <2>1. dev' = "init" /\ di' = 0 /\ dev = "down" /\ di = 0 /\ hal_map' = hal_map /\ tpc = "off" /\ tpc' = "off"
    BY <1>0, <1>1 DEF InitRx, QuietInv, Starting
  <2>2. \A d \in Desc : hal_map[MapDescToPool(d)] = 0
    BY <2>1, DescFacts DEF MapInv, Hal
  <2> QED BY <1>0, <2>1, <2>2 DEF MapInv, Hal
<1>2. CASE InitDesc
  <2>1. dev = "init" /\ dev' = "init" /\ di' = di + 1 /\ tpc = "off" /\ tpc' = "off"
    BY <1>0, <1>2 DEF InitDesc, QuietInv, Starting
  <2>2. di \in Desc
    BY <1>2, DescFacts DEF InitDesc, TypeInv, TypeOK, Desc
  <2>3. \A d \in Desc : d >= di => hal_map[MapDescToPool(d)] = 0
    BY <2>1 DEF MapInv, Hal
  <2>4. PICK b : b = nwbs + 1
    OBVIOUS
  <2>5. hal_map' = Mapped(di, b) /\ rx_buf_info' = [rx_buf_info EXCEPT ![di] = [nwb |-> b, mapped |-> TRUE]]
    BY <1>2, <2>4 DEF InitDesc
  <2>6. \A e \in Desc : hal_map'[MapDescToPool(e)] = IF e = di THEN b ELSE hal_map[MapDescToPool(e)]
    BY <2>2, <2>3, <2>5, DescFacts, HalMaps
  <2>7. \A e \in Desc : rx_buf_info'[e] = IF e = di THEN [nwb |-> b, mapped |-> TRUE] ELSE rx_buf_info[e]
    BY <2>2, <2>5, InfoSet
  <2>8. \A d \in Desc : d >= di' => hal_map'[MapDescToPool(d)] = 0
    BY <2>1, <2>2, <2>3, <2>6, DescFacts
  <2>9. \A d \in Desc : hal_map'[MapDescToPool(d)] # 0
           => rx_buf_info'[d] = [nwb |-> hal_map'[MapDescToPool(d)], mapped |-> TRUE]
    BY <2>1, <2>6, <2>7 DEF MapInv, Hal
  <2> QED BY <1>0, <2>1, <2>8, <2>9 DEF MapInv, Hal
<1>3. CASE InitRxDone \/ InitRxFail \/ InitDone \/ Stop
  <2>1. UNCHANGED <<rx_buf_info, hal_map, data>> /\ dev' \notin {"free", "down", "init"}
    BY <1>3 DEF InitRxDone, InitRxFail, InitDone, Stop, mapVars, bufVars
  <2> QED BY <1>0, <2>1 DEF MapInv, Hal, Frame
<1>4. CASE DeinitCheck \/ DeinitRxDone \/ HalMapFree \/ TaskletKill
  <2>1. UNCHANGED <<rx_buf_info, hal_map, data>> /\ dev' \notin {"free", "down", "init"}
    BY <1>4 DEF DeinitCheck, DeinitRxDone, HalMapFree, TaskletKill, mapVars, bufVars
  <2> QED BY <1>0, <2>1 DEF MapInv, Hal, Frame
<1>5. CASE DeinitUnmap
  <2>1. di \in Desc
    BY <1>5, DescFacts DEF DeinitUnmap, TypeInv, TypeOK, BoundInv, Desc
  <2>2. UNCHANGED <<rx_buf_info, data>> /\ dev' \in {"check", "free"}
        /\ (dev' = "free" => di' = di /\ hal_map[MapDescToPool(di)] # 0)
        /\ hal_map' = [hal_map EXCEPT ![MapDescToPool(di)] = 0]
    BY <1>5 DEF DeinitUnmap, bufVars
  <2>3. \A e \in Desc : hal_map'[MapDescToPool(e)] = IF e = di THEN 0 ELSE hal_map[MapDescToPool(e)]
    BY <2>1, <2>2, HalClears
  <2>4. tpc # "off" => cur \in Desc
    BY CurFacts
  <2> QED BY <1>0, <2>1, <2>2, <2>3, <2>4 DEF MapInv, Hal, Frame
<1>6. CASE DeinitFree
  <2>1. di \in Desc
    BY <1>6, DescFacts DEF DeinitFree, TypeInv, TypeOK, BoundInv, Desc
  <2>2. UNCHANGED <<hal_map, data>> /\ dev' = "check" /\ dev = "free"
        /\ rx_buf_info' = [rx_buf_info EXCEPT ![di] = Unmapped]
    BY <1>6 DEF DeinitFree
  <2>3. \A e \in Desc : rx_buf_info'[e] = IF e = di THEN Unmapped ELSE rx_buf_info[e]
    BY <2>1, <2>2, InfoSet
  <2>4. tpc # "off" => cur \in Desc
    BY CurFacts
  <2>5. hal_map[MapDescToPool(di)] = 0 /\ (tpc = "clear" => cur # di)
    BY <2>2 DEF MapInv, Hal
  <2> QED BY <1>0, <2>1, <2>2, <2>3, <2>4, <2>5 DEF MapInv, Hal, Frame
<1> QED BY <1>1, <1>2, <1>3, <1>4, <1>5, <1>6 DEF DevNext

LEMMA MapStep ==
  ASSUME TypeInv, QuietInv, MapInv, RxStep \/ RxAllocFail PROVE MapInv'
<1> USE DEF NoBuf
<1>0. UNCHANGED <<dev, di, slot>> /\ tpc # "off"
  BY TypeSteps DEF devVars
<1>c. PICK c : c = cur
  OBVIOUS
<1>1. c \in Desc /\ (todo' = todo => cur' = c)
  BY <1>0, <1>c, CurFacts, CurKept
<1>k. ASSUME hal_map' = hal_map, rx_buf_info' = rx_buf_info, tpc # "set",
             tpc' \in {"off", "unmap", "check"}, nwb' = 0,
             tpc' = "check" => tpc = "deliver" /\ todo' = todo
      PROVE MapInv'
  BY <1>0, <1>c, <1>1, <1>k DEF MapInv, Hal, Frame
<1>2. CASE RxUnmap
  <2>1. tpc = "unmap" /\ nwb' = nwb /\ rx_buf_info' = rx_buf_info /\ nwb = 0
    BY <1>2 DEF RxUnmap, MapInv
  <2>2. CASE hal_map[MapDescToPool(c)] = 0
    <3>1. hal_map' = hal_map /\ tpc' = "off"
      BY <1>2, <1>c, <2>2 DEF RxUnmap, Leave
    <3> QED BY <1>k, <2>1, <3>1
  <2>3. CASE hal_map[MapDescToPool(c)] # 0
    <3>0. PICK b : b = hal_map[MapDescToPool(c)]
      OBVIOUS
    <3>1. /\ data' = [data EXCEPT ![b] = slot[MapDescToPool(c)]]
          /\ hal_map' = [hal_map EXCEPT ![MapDescToPool(c)] = 0]
          /\ tpc' = "clear" /\ todo' = todo
      BY <1>2, <1>c, <2>3, <3>0 DEF RxUnmap
    <3>2. b \in 1..Len(data) /\ data \in Seq(0..MaxFrames)
      BY <1>1, <2>3, <3>0, InfoIs DEF TypeInv, TypeOK
    <3>3. data'[b] = slot[MapDescToPool(c)]
      BY <3>1, <3>2
    <3>4. \A e \in Desc : hal_map'[MapDescToPool(e)] = IF e = c THEN 0 ELSE hal_map[MapDescToPool(e)]
      BY <1>1, <3>1, HalClears
    <3>5. rx_buf_info[c].nwb = b
      <4>1. rx_buf_info[c] = [nwb |-> hal_map[MapDescToPool(c)], mapped |-> TRUE]
        BY <1>1, <2>1, <2>3 DEF MapInv, Hal
      <4> QED BY <3>0, <4>1
    <3>6. dev = "free" => c # di
      BY <1>1, <2>3 DEF MapInv, Hal
    <3> QED BY <1>0, <1>1, <2>1, <2>3, <3>0, <3>1, <3>3, <3>4, <3>5, <3>6 DEF MapInv, Hal, Frame
  <2> QED BY <2>2, <2>3
<1>3. CASE RxClear
  <2>1. /\ tpc = "clear" /\ tpc' = "deliver" /\ hal_map' = hal_map /\ data' = data /\ cur' = c
        /\ nwb' = rx_buf_info[c].nwb /\ rx_buf_info' = [rx_buf_info EXCEPT ![c] = Unmapped]
    BY <1>1, <1>3, <1>c DEF RxClear, bufVars
  <2>2. \A e \in Desc : rx_buf_info'[e] = IF e = c THEN Unmapped ELSE rx_buf_info[e]
    BY <1>1, <2>1, InfoSet
  <2>3. hal_map[MapDescToPool(c)] = 0 /\ nwb' # 0 /\ data'[nwb'] = slot[MapDescToPool(c)]
    BY <1>c, <2>1 DEF MapInv, Hal, Frame
  <2>4. dev = "free" => c # di
    BY <1>c, <2>1 DEF MapInv
  <2> QED BY <1>0, <1>1, <2>1, <2>2, <2>3, <2>4 DEF MapInv, Hal, Frame
<1>4. CASE RxDeliver \/ RxBeacon
  <2>1. hal_map' = hal_map /\ rx_buf_info' = rx_buf_info /\ tpc = "deliver" /\ tpc' = "check" /\ todo' = todo /\ nwb' = 0
    BY <1>4 DEF RxDeliver, RxBeacon, mapVars
  <2> QED BY <1>k, <2>1
<1>5. CASE RxUnknown
  <2>1. hal_map' = hal_map /\ rx_buf_info' = rx_buf_info /\ tpc = "deliver" /\ tpc' = "off" /\ nwb' = 0
    BY <1>5 DEF RxUnknown, mapVars, Leave
  <2> QED BY <1>k, <2>1
<1>6. CASE RxAllocFail
  <2>1. hal_map' = hal_map /\ rx_buf_info' = rx_buf_info /\ tpc = "check" /\ tpc' = "off" /\ nwb' = nwb /\ nwb = 0
    BY <1>6 DEF RxAllocFail, mapVars, Leave, MapInv
  <2> QED BY <1>k, <2>1
<1>7. CASE RxPost
  <2>1. hal_map' = hal_map /\ rx_buf_info' = rx_buf_info /\ tpc = "post" /\ tpc' \in {"off", "unmap"} /\ nwb' = nwb /\ nwb = 0
    BY <1>7 DEF RxPost, mapVars, MapInv
  <2> QED BY <1>k, <2>1
<1>8. CASE RxAlloc
  <2>1. hal_map' = hal_map /\ rx_buf_info' = rx_buf_info /\ tpc = "check" /\ tpc' = "map" /\ cur' = c /\ nwb' = nwbs + 1
    BY <1>1, <1>8 DEF RxAlloc, mapVars
  <2>2. nwb' # 0
    BY <2>1 DEF TypeInv, TypeOK
  <2> QED BY <1>0, <1>1, <1>c, <2>1, <2>2 DEF MapInv, Hal, Frame
<1>9. CASE RxMap
  <2>1. hal_map' = Mapped(c, nwb) /\ rx_buf_info' = rx_buf_info /\ tpc = "map" /\ tpc' = "set" /\ cur' = c /\ nwb' = nwb
    BY <1>1, <1>9, <1>c DEF RxMap
  <2>2. hal_map[MapDescToPool(c)] = 0 /\ nwb # 0 /\ (dev = "free" => c # di)
    BY <1>c, <2>1 DEF MapInv, Hal
  <2>3. PICK b : b = nwb
    OBVIOUS
  <2>4. \A e \in Desc : hal_map'[MapDescToPool(e)] = IF e = c THEN b ELSE hal_map[MapDescToPool(e)]
    BY <1>1, <2>1, <2>2, <2>3, HalMaps
  <2>5. dev = "free" => di \in Desc
    BY DescFacts DEF TypeInv, TypeOK, BoundInv, Desc
  <2>6. dev' = "free" => hal_map'[MapDescToPool(di')] = 0
    BY <1>0, <2>2, <2>4, <2>5 DEF MapInv, Hal
  <2>7. hal_map'[MapDescToPool(cur')] = nwb' /\ nwb' # 0
    BY <1>1, <2>1, <2>2, <2>3, <2>4
  <2>8. \A d \in Desc : hal_map'[MapDescToPool(d)] # 0 /\ d # c
           => rx_buf_info'[d] = [nwb |-> hal_map'[MapDescToPool(d)], mapped |-> TRUE]
    BY <2>1, <2>4 DEF MapInv, Hal
  <2>9. dev' \in {"down", "init"} => \A d \in Desc : d >= di' => hal_map'[MapDescToPool(d)] = 0
    <3>1. dev \in {"down", "init"} => FALSE
      BY <1>0 DEF QuietInv, Starting
    <3> QED BY <1>0, <3>1
  <2> QED BY <1>0, <2>1, <2>6, <2>7, <2>8, <2>9 DEF MapInv, Hal, Frame
<1>10. CASE RxSet
  <2>1. /\ tpc = "set" /\ tpc' = "post" /\ hal_map' = hal_map /\ nwb' = 0
        /\ rx_buf_info' = [rx_buf_info EXCEPT ![c] = [nwb |-> nwb, mapped |-> TRUE]]
    BY <1>10, <1>c DEF RxSet
  <2>2. PICK b : b = nwb
    OBVIOUS
  <2>3. \A e \in Desc : rx_buf_info'[e] = IF e = c THEN [nwb |-> b, mapped |-> TRUE] ELSE rx_buf_info[e]
    BY <1>1, <2>1, <2>2, InfoSet
  <2>4. hal_map[MapDescToPool(c)] \in {0, b}
    BY <1>c, <2>1, <2>2 DEF MapInv, Hal
  <2> QED BY <1>0, <1>1, <1>c, <2>1, <2>3, <2>4 DEF MapInv, Hal, Frame
<1> QED BY <1>2, <1>3, <1>4, <1>5, <1>6, <1>7, <1>8, <1>9, <1>10 DEF RxStep

LEMMA MapNext == TypeInv /\ QuietInv /\ PipeInv /\ MapInv /\ [Next]_vars => MapInv'
<1> SUFFICES ASSUME TypeInv, QuietInv, PipeInv, MapInv, [Next]_vars PROVE MapInv'
  OBVIOUS
<1>1. CASE UNCHANGED vars \/ RpuInit \/ RpuReport
  <2>1. UNCHANGED <<dev, di, rx_buf_info, hal_map, data, slot, tpc, todo, nwb>>
    BY <1>1 DEF vars, RpuInit, RpuReport, devVars, mapVars, bufVars, taskletVars
  <2>2. cur' = cur
    BY <2>1, CurKept
  <2> QED BY <2>1, <2>2 DEF MapInv, Hal, Frame
<1>2. CASE \E p \in Pool : RpuRx(p)
  <2>1. UNCHANGED <<dev, di, rx_buf_info, hal_map, data, tpc, todo, nwb>>
    BY <1>2 DEF RpuRx, devVars, mapVars, bufVars, taskletVars
  <2>2. cur' = cur
    BY <2>1, CurKept
  <2>3. tpc # "off" => Frame(cur)' = Frame(cur)
    BY <1>2, CurNotFilled
  <2> QED BY <2>1, <2>2, <2>3 DEF MapInv, Hal, Frame
<1>3. CASE RxEvent
  <2>1. UNCHANGED <<dev, di, rx_buf_info, hal_map, nwb>> /\ tpc = "off" /\ tpc' = "unmap"
    BY <1>3 DEF RxEvent, devVars, mapVars
  <2> QED BY <2>1 DEF MapInv, Hal, Frame
<1> QED BY <1>1, <1>2, <1>3, MapDev, MapStep DEF Next, RpuNext
-----------------------------------------------------------------------------
(* What goes round: nothing is added once init_rx is done, and only an      *)
(* event that is given up takes something away.                             *)
LEMMA AroundNext ==
  ASSUME TypeInv, QuietInv, PipeInv, [Next]_vars
  PROVE /\ IF InitDesc THEN Around' = Around \cup {di} ELSE Around' \subseteq Around
        /\ RxUnknown \/ RxAllocFail => cur \notin Around'
        /\ ~(RxUnmap \/ RxUnknown \/ RxAllocFail) => Around \subseteq Around'
        /\ tpc # "off" => Around \subseteq Around' \cup {todo.descs[n] : n \in 1..Len(todo.descs)}
<1>1. CASE Keeps
  <2>1. Around' = Around
    BY <1>1, PipeKeeps DEF Around
  <2>2. ~RxUnknown /\ ~RxAllocFail
    <3>1. (tpc = "off") = (todo.descs = <<>>)
      BY DEF TypeInv, BoundInv
    <3>2. CASE RxUnknown \/ RxAllocFail
      <4>1. tpc # "off" /\ todo' = [todo EXCEPT !.descs = <<>>] /\ todo' = todo
        BY <1>1, <3>2 DEF Keeps, RxUnknown, RxAllocFail, Leave
      <4>2. todo \in Events
        BY <4>1, CurFacts
      <4>3. todo.descs = <<>>
        BY <4>1, <4>2 DEF Events
      <4> QED BY <3>1, <4>1, <4>3
    <3> QED BY <3>2
  <2>3. ~InitDesc
    <3>1. CASE InitDesc
      <4>1. /\ di \in Desc /\ di \notin InPosted /\ InPosted' = InPosted \cup {di}
        BY <3>1, InitDescDoes
      <4>2. InPosted' = InPosted
        BY <1>1, PipeKeeps
      <4> QED BY <4>1, <4>2
    <3> QED BY <3>1
  <2> QED BY <2>1, <2>2, <2>3
<1>2. CASE InitDesc
  <2>1. Around' = Around \cup {di} /\ tpc = "off"
    BY <1>2, InitDescDoes DEF Around, InitDesc, QuietInv, Starting
  <2> QED BY <1>2, <2>1 DEF RxUnknown, RxAllocFail
<1>3. CASE \E p \in Pool : RpuRx(p)
  <2>1. PICK p \in Pool : RpuRx(p)
    BY <1>3
  <2>2. PICK d : Receives(p, d)
    BY <2>1, RpuRxDoes
  <2>3. InPipe' = InPipe \cup {d} /\ InPosted' = InPosted \ {d} /\ d \in InPosted
    BY <2>1, <2>2, InPipeRx, RxTakes
  <2>4. ~InitDesc /\ ~RxUnknown /\ ~RxAllocFail
    <3>1. frames' # frames
      BY <2>1, ConstantFacts DEF RpuRx, TypeInv, TypeOK
    <3> QED BY <3>1 DEF InitDesc, RxUnknown, RxAllocFail, Tasklet, rpuVars
  <2> QED BY <2>3, <2>4 DEF Around
<1>4. CASE RpuReport \/ RxEvent
  <2>1. InPipe' = InPipe
    BY <1>4, InPipeReport, InPipeTake
  <2>2. posted' = posted
    BY <1>4 DEF RpuReport, RxEvent
  <2>3. event_q' # event_q
    <3>1. CASE RpuReport
      <4>1. PICK n, t : Reports(n, t)
        BY <3>1, RpuReportDoes
      <4>2. Len(event_q') = Len(event_q) + 1 /\ Len(event_q) \in Nat
        BY <4>1, QueueFacts DEF Reports
      <4> QED BY <4>2
    <3>2. CASE RxEvent
      <4>1. Len(event_q') = Len(event_q) - 1 /\ Len(event_q) \in Nat
        BY <3>2, RxEventDoes
      <4> QED BY <4>1
    <3> QED BY <1>4, <3>1, <3>2
  <2>4. ~InitDesc /\ ~RxUnknown /\ ~RxAllocFail
    BY <2>3 DEF InitDesc, RxUnknown, RxAllocFail, Tasklet
  <2>5. InPosted' = InPosted
    BY <2>2 DEF InPosted
  <2> QED BY <2>1, <2>4, <2>5 DEF Around
<1>5. CASE RxPost /\ Posts /\ UNCHANGED <<event_q, filled, devVars>>
  <2>1. tpc # "off" /\ Post(cur) /\ tpc = "post"
    BY <1>5 DEF Posts
  <2>2. PICK d : d = cur
    OBVIOUS
  <2>3. d \in Desc /\ Post(d)
    BY <2>1, <2>2, CurFacts DEF Post
  <2>4. InPipe' = InPipe \ {d} /\ d \in InPipe
    BY <1>5, <2>1, <2>2, InPipePost
  <2>5. InPosted' = InPosted \cup {d}
    BY <2>3, PostDoes
  <2>6. ~InitDesc /\ ~RxUnknown /\ ~RxAllocFail
    <3>1. ~InitDesc
      BY <2>1 DEF InitDesc, QuietInv, Starting
    <3> QED BY <2>1, <3>1 DEF RxUnknown, RxAllocFail
  <2> QED BY <2>4, <2>5, <2>6 DEF Around
<1>6. CASE (RxUnmap \/ RxUnknown \/ RxAllocFail) /\ GivesUp /\ UNCHANGED <<event_q, filled, posted, devVars>>
  <2>1. tpc # "off"
    BY <1>6 DEF GivesUp
  <2>2. /\ InPipe' \subseteq InPipe
        /\ InPipe \subseteq InPipe' \cup {todo.descs[n] : n \in 1..Len(todo.descs)}
    BY <1>6, <2>1, InPipeGiveUp
  <2>3. InPosted' = InPosted
    BY <1>6 DEF InPosted
  <2>4. ~InitDesc
    BY <2>1 DEF InitDesc, QuietInv, Starting
  <2>5. cur \notin Around'
    <3>1. /\ End' = End /\ End \in Nat /\ End > 0
          /\ \A i \in 1..End : Stage(i)' = Stage(i)
          /\ Len(Stage(0)) \in Nat /\ Len(Stage(0)) > 0 /\ cur = Stage(0)[1]
          /\ Stage(0)' = <<>>
      BY <1>6, <2>1, PipePost
    <3>2. 0 \in 0..End /\ 1 \in 1..Len(Stage(0))
      BY <3>1
    <3>3. cur \in InPipe
      BY <3>1, <3>2, StageTypes
    <3>4. cur \notin InPosted
      BY <3>3 DEF PipeInv
    <3>5. ASSUME cur \in InPipe' PROVE FALSE
      <4>1. PICK i \in 0..End' : \E n \in 1..Len(Stage(i)') : Stage(i)'[n] = cur
        BY <3>5 DEF InPipe
      <4>2. i # 0
        BY <3>1, <4>1
      <4>3. i \in 0..End /\ Stage(i)' = Stage(i)
        BY <3>1, <4>2
      <4>4. PICK n \in 1..Len(Stage(i)) : Stage(i)[n] = cur
        BY <4>1, <4>3
      <4> QED BY <3>1, <3>2, <4>2, <4>3, <4>4, PipeOnce
    <3> QED BY <2>3, <3>4, <3>5 DEF Around
  <2> QED BY <1>6, <2>1, <2>2, <2>3, <2>4, <2>5 DEF Around
<1> QED BY <1>1, <1>2, <1>3, <1>4, <1>5, <1>6, StepKinds

(* Beside its removal a tasklet that runs makes the driver late. *)
LEMMA NotLate ==
  ASSUME TypeInv, QuietInv, tpc # "off", ~late
  PROVE dev \in {"wait", "up"} /\ dev \notin Stopping
<1>1. rpu = "on"
  BY DEF QuietInv
<1>2. dev \notin Starting \ {"wait"}
  BY <1>1 DEF QuietInv
<1>3. dev \notin Stopping
  BY DEF QuietInv
<1>4. dev \in Starting \cup {"up"} \cup Stopping
  BY DEF TypeInv, TypeOK
<1> QED BY <1>2, <1>3, <1>4 DEF Starting, Stopping

LEMMA AgreeDev ==
  ASSUME TypeInv, QuietInv, PipeInv, MapInv, AgreeInv, DevNext, [Next]_vars PROVE AgreeInv'
<1> USE DEF NoBuf
<1>0. UNCHANGED <<slot, tpc, todo, nwb>> /\ cur' = cur /\ (late' = late \/ Stop)
  BY DevKeeps, CurKept
<1>1. Settled' = Settled
  BY <1>0 DEF Settled
<1>2. ~late' => ~late
  BY <1>0 DEF Stop
<1>3. Settled \subseteq Desc
  BY DEF Settled
<1>4. IF InitDesc THEN Around' = Around \cup {di} ELSE Around' \subseteq Around
  BY AroundNext
<1>5. CASE InitRx
  <2>1. dev' = "init" /\ di' = 0 /\ dev = "down" /\ di = 0 /\ hal_map' = hal_map /\ tpc = "off"
        /\ rx_buf_info' = [d \in Desc |-> Unmapped]
    BY <1>0, <1>5 DEF InitRx, QuietInv, Starting
  <2>2. \A d \in Desc : hal_map[MapDescToPool(d)] = 0
    BY <2>1, DescFacts DEF MapInv, Hal
  <2>3. \A d \in Desc : rx_buf_info'[d].nwb = 0 /\ rx_buf_info'[d].mapped = FALSE
    BY <2>1 DEF Unmapped
  <2>4. Around' = {}
    <3>1. InPipe = {}
      BY <2>1, QuietPipe DEF QuietInv, Starting
    <3>2. InPosted = {}
      <4>1. \A d \in InPosted : d \in Desc /\ d < 0
        BY <2>1 DEF PipeInv, InPosted
      <4> QED BY <4>1, DescFacts
    <3>3. ~InitDesc
      BY <2>1 DEF InitDesc
    <3> QED BY <1>4, <3>1, <3>2, <3>3 DEF Around
  <2> QED BY <1>0, <1>1, <1>3, <2>1, <2>2, <2>3, <2>4 DEF AgreeInv, Hal
<1>6. CASE InitDesc
  <2>1. dev = "init" /\ dev' = "init" /\ tpc = "off" /\ ~late
    BY <1>0, <1>6 DEF InitDesc, QuietInv, Starting
  <2>2. di \in Desc
    BY <1>6, DescFacts DEF InitDesc, TypeInv, TypeOK, Desc
  <2>3. hal_map[MapDescToPool(di)] = 0
    BY <2>1, <2>2, DescFacts DEF MapInv, Hal
  <2>4. PICK b : b = nwbs + 1
    OBVIOUS
  <2>5. hal_map' = Mapped(di, b) /\ rx_buf_info' = [rx_buf_info EXCEPT ![di] = [nwb |-> b, mapped |-> TRUE]]
        /\ b # 0
    BY <1>6, <2>4 DEF InitDesc, TypeInv, TypeOK
  <2>6. \A e \in Desc : hal_map'[MapDescToPool(e)] = IF e = di THEN b ELSE hal_map[MapDescToPool(e)]
    BY <2>2, <2>3, <2>5, HalMaps
  <2>7. \A e \in Desc : rx_buf_info'[e] = IF e = di THEN [nwb |-> b, mapped |-> TRUE] ELSE rx_buf_info[e]
    BY <2>2, <2>5, InfoSet
  <2>8. /\ rx_buf_info'[di].nwb = b /\ rx_buf_info'[di].mapped = TRUE
        /\ \A e \in Desc : e # di => rx_buf_info'[e] = rx_buf_info[e]
    BY <2>2, <2>7
  <2>9. Around' = Around \cup {di}
    BY <1>4, <1>6
  <2>10. ASSUME NEW d \in Desc PROVE rx_buf_info'[d].mapped = (rx_buf_info'[d].nwb # 0)
    <3>1. CASE d = di
      <4>1. (rx_buf_info'[d].nwb # 0) = TRUE
        BY <2>5, <2>8, <3>1
      <4> QED BY <2>8, <3>1, <4>1
    <3>2. CASE d # di
      <4>1. rx_buf_info[d].mapped = (rx_buf_info[d].nwb # 0)
        BY <2>1 DEF AgreeInv
      <4> QED BY <2>8, <3>2, <4>1
    <3> QED BY <3>1, <3>2
  <2>11. \A d \in Settled : rx_buf_info'[d].nwb = hal_map'[MapDescToPool(d)]
    BY <1>3, <2>1, <2>6, <2>8 DEF AgreeInv, Hal
  <2>12. \A d \in Around' : d \in Settled => rx_buf_info'[d].mapped
    BY <1>3, <2>1, <2>8, <2>9 DEF AgreeInv, Starting
  <2> QED BY <1>0, <1>1, <2>1, <2>10, <2>11, <2>12 DEF AgreeInv, Hal
<1>7. CASE InitRxDone \/ InitRxFail \/ InitDone \/ Stop
  <2>1. /\ UNCHANGED <<rx_buf_info, hal_map>> /\ dev' \in {"wait", "rem", "up", "check"}
        /\ dev \in Starting \cup {"up"} /\ ~InitDesc
    BY <1>7 DEF InitRxDone, InitRxFail, InitDone, Stop, mapVars, Starting, InitDesc
  <2> QED BY <1>0, <1>1, <1>2, <1>4, <2>1 DEF AgreeInv, Hal, Starting
<1>8. CASE DeinitCheck \/ DeinitRxDone \/ HalMapFree \/ TaskletKill
  <2>1. UNCHANGED <<rx_buf_info, hal_map>> /\ dev' \notin Starting \cup {"up", "free"} /\ dev # "free"
    BY <1>8 DEF DeinitCheck, DeinitRxDone, HalMapFree, TaskletKill, mapVars, Starting
  <2> QED BY <1>0, <1>1, <1>2, <2>1 DEF AgreeInv, Hal
<1>9. CASE DeinitUnmap
  <2>1. di \in Desc
    BY <1>9, DescFacts DEF DeinitUnmap, TypeInv, TypeOK, BoundInv, Desc
  <2>2. rx_buf_info' = rx_buf_info /\ dev' \in {"check", "free"} /\ dev = "unmap"
        /\ (dev' = "free" => di' = di)
        /\ (dev' = "check" => hal_map[MapDescToPool(di)] = 0)
        /\ hal_map' = [hal_map EXCEPT ![MapDescToPool(di)] = 0]
    BY <1>9 DEF DeinitUnmap
  <2>3. \A e \in Desc : hal_map'[MapDescToPool(e)] = IF e = di THEN 0 ELSE hal_map[MapDescToPool(e)]
    BY <2>1, <2>2, HalClears
  <2>4. ~late => tpc = "off"
    BY <2>2, NotLate DEF Stopping
  <2>5. ~late' => \A d \in Settled : (dev' = "free" /\ d = di') \/ rx_buf_info'[d].nwb = hal_map'[MapDescToPool(d)]
    BY <1>2, <1>3, <2>1, <2>2, <2>3 DEF AgreeInv, Hal
  <2> QED BY <1>0, <1>1, <1>2, <2>2, <2>4, <2>5 DEF AgreeInv, Hal, Starting
<1>10. CASE DeinitFree
  <2>1. di \in Desc
    BY <1>10, DescFacts DEF DeinitFree, TypeInv, TypeOK, BoundInv, Desc
  <2>2. hal_map' = hal_map /\ dev' = "check" /\ dev = "free"
        /\ rx_buf_info' = [rx_buf_info EXCEPT ![di] = Unmapped]
    BY <1>10 DEF DeinitFree
  <2>3. \A e \in Desc : rx_buf_info'[e] = IF e = di THEN Unmapped ELSE rx_buf_info[e]
    BY <2>1, <2>2, InfoSet
  <2>4. /\ rx_buf_info'[di].nwb = 0 /\ rx_buf_info'[di].mapped = FALSE
        /\ \A e \in Desc : e # di => rx_buf_info'[e] = rx_buf_info[e]
    BY <2>1, <2>3 DEF Unmapped
  <2>5. ~late => tpc = "off"
    BY <2>2, NotLate DEF Stopping
  <2>6. hal_map[MapDescToPool(di)] = 0
    BY <2>2 DEF MapInv, Hal
  <2>7. ~late' => \A d \in Desc : rx_buf_info'[d].mapped = (rx_buf_info'[d].nwb # 0)
    BY <1>2, <2>4 DEF AgreeInv
  <2>8. ~late' => \A d \in Settled : rx_buf_info'[d].nwb = hal_map'[MapDescToPool(d)]
    BY <1>2, <1>3, <2>2, <2>4, <2>6 DEF AgreeInv, Hal
  <2> QED BY <1>0, <1>1, <1>2, <2>2, <2>5, <2>7, <2>8 DEF AgreeInv, Hal, Starting
<1> QED BY <1>5, <1>6, <1>7, <1>8, <1>9, <1>10 DEF DevNext

LEMMA AgreeStep ==
  ASSUME TypeInv, QuietInv, PipeInv, MapInv, AgreeInv, RxStep \/ RxAllocFail, [Next]_vars
  PROVE AgreeInv'
<1> USE DEF NoBuf
<1>0. UNCHANGED <<dev, di, late>> /\ tpc # "off" /\ dev # "init"
  BY TypeSteps DEF devVars, QuietInv, Starting
<1>c. PICK c : c = cur
  OBVIOUS
<1>1. c \in Desc /\ (todo' = todo => cur' = c)
  BY <1>0, <1>c, CurFacts, CurKept
<1>2. /\ Around' \subseteq Around
      /\ RxUnknown \/ RxAllocFail => c \notin Around'
  BY <1>0, <1>c, AroundNext DEF InitDesc
<1>3. ~late => dev # "free"
  BY <1>0, NotLate DEF Stopping
<1>4. Around \subseteq Desc
  BY DEF Around, InPosted, InPipe
<1>k. ASSUME hal_map' = hal_map, rx_buf_info' = rx_buf_info,
             tpc \in {"deliver", "check", "map"}, tpc' \in {"check", "map"}, cur' = c
      PROVE AgreeInv'
  <2>1. Settled = Desc \ {c} /\ Settled' = Settled
    BY <1>c, <1>k DEF Settled
  <2> QED BY <1>0, <1>2, <1>3, <1>c, <1>k, <2>1 DEF AgreeInv, Hal
<1>l. ASSUME hal_map' = hal_map, rx_buf_info' = rx_buf_info,
             tpc \in {"deliver", "check"}, tpc' = "off", c \notin Around'
      PROVE AgreeInv'
  <2>1. Settled = Desc \ {c} /\ Settled' = Desc
    BY <1>c, <1>l DEF Settled
  <2>2. hal_map[MapDescToPool(c)] = 0
    BY <1>c, <1>l DEF MapInv, Hal
  <2>3. ~late => rx_buf_info[c].nwb = 0
    BY <1>c, <1>l DEF AgreeInv
  <2>4. ~late => \A d \in Desc : rx_buf_info[d].nwb = hal_map[MapDescToPool(d)]
    BY <1>3, <2>1, <2>2, <2>3 DEF AgreeInv, Hal
  <2>5. dev \in Starting \cup {"up"} => \A d \in Around' : rx_buf_info[d].mapped
    BY <1>2, <1>4, <1>l, <2>1 DEF AgreeInv
  <2> QED BY <1>0, <1>l, <2>1, <2>4, <2>5 DEF AgreeInv, Hal
<1>m. ASSUME hal_map' = hal_map, rx_buf_info' = rx_buf_info,
             tpc \in {"unmap", "post"}, tpc' \in {"off", "unmap"}
      PROVE AgreeInv'
  <2>1. Settled = Desc /\ Settled' = Desc
    BY <1>m DEF Settled
  <2> QED BY <1>0, <1>2, <1>m, <2>1 DEF AgreeInv, Hal
<1>5. CASE RxUnmap
  <2>1. tpc = "unmap" /\ rx_buf_info' = rx_buf_info /\ Settled = Desc
    BY <1>5 DEF RxUnmap, Settled
  <2>2. CASE hal_map[MapDescToPool(c)] = 0
    <3>1. hal_map' = hal_map /\ tpc' = "off"
      BY <1>5, <1>c, <2>2 DEF RxUnmap, Leave
    <3> QED BY <1>m, <2>1, <3>1
  <2>3. CASE hal_map[MapDescToPool(c)] # 0
    <3>1. /\ hal_map' = [hal_map EXCEPT ![MapDescToPool(c)] = 0]
          /\ tpc' = "clear" /\ cur' = c
      BY <1>1, <1>5, <1>c, <2>3 DEF RxUnmap
    <3>2. \A e \in Desc : hal_map'[MapDescToPool(e)] = IF e = c THEN 0 ELSE hal_map[MapDescToPool(e)]
      BY <1>1, <3>1, HalClears
    <3>3. Settled' = Desc \ {c}
      BY <3>1 DEF Settled
    <3> QED BY <1>0, <1>2, <1>3, <2>1, <3>1, <3>2, <3>3 DEF AgreeInv, Hal
  <2> QED BY <2>2, <2>3
<1>6. CASE RxClear
  <2>1. /\ tpc = "clear" /\ tpc' = "deliver" /\ hal_map' = hal_map /\ cur' = c
        /\ rx_buf_info' = [rx_buf_info EXCEPT ![c] = Unmapped]
    BY <1>1, <1>6, <1>c DEF RxClear
  <2>2. \A e \in Desc : rx_buf_info'[e] = IF e = c THEN Unmapped ELSE rx_buf_info[e]
    BY <1>1, <2>1, InfoSet
  <2>3. Settled = Desc \ {c} /\ Settled' = Desc \ {c}
    BY <1>c, <2>1 DEF Settled
  <2>4. /\ rx_buf_info'[c].nwb = 0 /\ rx_buf_info'[c].mapped = FALSE
        /\ \A e \in Desc : e # c => rx_buf_info'[e] = rx_buf_info[e]
    BY <1>1, <2>2 DEF Unmapped
  <2>5. ~late => \A d \in Desc : rx_buf_info'[d].mapped = (rx_buf_info'[d].nwb # 0)
    BY <2>4 DEF AgreeInv
  <2>6. ~late => \A d \in Settled' : rx_buf_info'[d].nwb = hal_map'[MapDescToPool(d)]
    BY <1>3, <2>1, <2>3, <2>4 DEF AgreeInv, Hal
  <2>7. dev \in Starting \cup {"up"} => \A d \in Around' : d \in Settled' => rx_buf_info'[d].mapped
    BY <1>2, <2>3, <2>4 DEF AgreeInv
  <2> QED BY <1>0, <2>1, <2>4, <2>5, <2>6, <2>7 DEF AgreeInv, Hal
<1>7. CASE RxDeliver \/ RxBeacon \/ RxAlloc
  <2>1. /\ hal_map' = hal_map /\ rx_buf_info' = rx_buf_info /\ todo' = todo
        /\ tpc \in {"deliver", "check"} /\ tpc' \in {"check", "map"}
    BY <1>7 DEF RxDeliver, RxBeacon, RxAlloc, mapVars
  <2> QED BY <1>1, <1>k, <2>1
<1>8. CASE RxUnknown \/ RxAllocFail
  <2>1. hal_map' = hal_map /\ rx_buf_info' = rx_buf_info /\ tpc \in {"deliver", "check"} /\ tpc' = "off"
    BY <1>8 DEF RxUnknown, RxAllocFail, mapVars, Leave
  <2> QED BY <1>2, <1>8, <1>l, <2>1
<1>9. CASE RxPost
  <2>1. hal_map' = hal_map /\ rx_buf_info' = rx_buf_info /\ tpc = "post" /\ tpc' \in {"off", "unmap"}
    BY <1>9 DEF RxPost, mapVars
  <2> QED BY <1>m, <2>1
<1>10. CASE RxMap
  <2>1. hal_map' = Mapped(c, nwb) /\ rx_buf_info' = rx_buf_info /\ tpc = "map" /\ tpc' = "set" /\ cur' = c /\ nwb' = nwb
    BY <1>1, <1>10, <1>c DEF RxMap
  <2>2. hal_map[MapDescToPool(c)] = 0
    BY <1>c, <2>1 DEF MapInv, Hal
  <2>3. PICK b : b = nwb
    OBVIOUS
  <2>4. \A e \in Desc : hal_map'[MapDescToPool(e)] = IF e = c THEN b ELSE hal_map[MapDescToPool(e)]
    BY <1>1, <2>1, <2>2, <2>3, HalMaps
  <2>5. Settled = Desc \ {c} /\ Settled' = Settled
    BY <1>c, <2>1 DEF Settled
  <2>6. hal_map'[MapDescToPool(cur')] = nwb'
    BY <1>1, <2>1, <2>3, <2>4
  <2>7. ~late => \A d \in Settled' : rx_buf_info'[d].nwb = hal_map'[MapDescToPool(d)]
    BY <1>3, <2>1, <2>4, <2>5 DEF AgreeInv, Hal
  <2>8. ~late => rx_buf_info'[c].nwb = 0
    BY <1>c, <2>1 DEF AgreeInv
  <2> QED BY <1>0, <1>2, <2>1, <2>5, <2>6, <2>7, <2>8 DEF AgreeInv, Hal
<1>11. CASE RxSet
  <2>1. /\ tpc = "set" /\ tpc' = "post" /\ hal_map' = hal_map /\ nwb' = 0
        /\ rx_buf_info' = [rx_buf_info EXCEPT ![c] = [nwb |-> nwb, mapped |-> TRUE]]
    BY <1>11, <1>c DEF RxSet
  <2>2. PICK b : b = nwb
    OBVIOUS
  <2>3. \A e \in Desc : rx_buf_info'[e] = IF e = c THEN [nwb |-> b, mapped |-> TRUE] ELSE rx_buf_info[e]
    BY <1>1, <2>1, <2>2, InfoSet
  <2>4. b # 0 /\ (~late => hal_map[MapDescToPool(c)] = b)
    BY <1>c, <2>1, <2>2 DEF MapInv, AgreeInv, Hal
  <2>5. /\ rx_buf_info'[c].nwb = b /\ rx_buf_info'[c].mapped = TRUE
        /\ \A e \in Desc : e # c => rx_buf_info'[e] = rx_buf_info[e]
    BY <1>1, <2>3
  <2>6. Settled = Desc \ {c} /\ Settled' = Desc
    BY <1>c, <2>1 DEF Settled
  <2>7. ASSUME ~late, NEW d \in Desc PROVE rx_buf_info'[d].mapped = (rx_buf_info'[d].nwb # 0)
    <3>1. CASE d = c
      <4>1. (rx_buf_info'[d].nwb # 0) = TRUE
        BY <2>4, <2>5, <3>1
      <4> QED BY <2>5, <3>1, <4>1
    <3>2. CASE d # c
      <4>1. rx_buf_info[d].mapped = (rx_buf_info[d].nwb # 0)
        BY <2>7 DEF AgreeInv
      <4> QED BY <2>5, <3>2, <4>1
    <3> QED BY <3>1, <3>2
  <2>8. ~late => \A d \in Settled' : rx_buf_info'[d].nwb = hal_map'[MapDescToPool(d)]
    BY <1>3, <2>1, <2>4, <2>5, <2>6 DEF AgreeInv, Hal
  <2>9. dev \in Starting \cup {"up"} => \A d \in Around' : d \in Settled' => rx_buf_info'[d].mapped
    BY <1>2, <1>4, <2>5, <2>6 DEF AgreeInv
  <2> QED BY <1>0, <2>1, <2>7, <2>8, <2>9 DEF AgreeInv, Hal
<1> QED BY <1>5, <1>6, <1>7, <1>8, <1>9, <1>10, <1>11 DEF RxStep

LEMMA AgreeNext == TypeInv /\ QuietInv /\ PipeInv /\ MapInv /\ AgreeInv /\ [Next]_vars => AgreeInv'
<1> SUFFICES ASSUME TypeInv, QuietInv, PipeInv, MapInv, AgreeInv, [Next]_vars PROVE AgreeInv'
  OBVIOUS
<1>1. CASE UNCHANGED vars \/ RpuInit \/ RpuReport \/ \E p \in Pool : RpuRx(p)
  <2>1. UNCHANGED <<dev, di, rx_buf_info, hal_map, tpc, todo, nwb, late>>
    BY <1>1 DEF vars, RpuInit, RpuReport, RpuRx, devVars, mapVars, taskletVars
  <2>2. cur' = cur /\ Settled' = Settled
    BY <2>1, CurKept DEF Settled
  <2>3. Around' \subseteq Around
    <3>1. CASE InitDesc
      <4>1. di' = di + 1 /\ di \in Nat
        BY <3>1, DescFacts DEF InitDesc, TypeInv, TypeOK
      <4> QED BY <2>1, <4>1
    <3> QED BY <3>1, AroundNext
  <2> QED BY <2>1, <2>2, <2>3 DEF AgreeInv, Hal
<1>2. CASE RxEvent
  <2>1. UNCHANGED <<dev, di, rx_buf_info, hal_map, nwb>> /\ tpc = "off" /\ tpc' = "unmap" /\ (~late' => ~late)
    BY <1>2 DEF RxEvent, devVars, mapVars
  <2>2. Settled' = Settled
    BY <2>1 DEF Settled
  <2>3. Around' \subseteq Around
    <3>1. ~InitDesc
      BY <2>1 DEF InitDesc, taskletVars
    <3> QED BY <3>1, AroundNext
  <2> QED BY <2>1, <2>2, <2>3 DEF AgreeInv, Hal
<1> QED BY <1>1, <1>2, AgreeDev, AgreeStep DEF Next, RpuNext
-----------------------------------------------------------------------------
(* Arithmetic of the bound. *)
LEMMA Times ==
  ASSUME NEW a \in Nat, NEW b \in Nat, a <= b, NEW m \in Nat
  PROVE a * m \in Nat /\ a * m <= b * m /\ (a + 1) * m = a * m + m
<1>1. PICK k \in Nat : b = a + k
  <2>1. b - a \in Nat /\ b = a + (b - a)
    OBVIOUS
  <2> QED BY <2>1
<1>2. k * m \in Nat /\ a * m \in Nat
  OBVIOUS
<1>3. (a + k) * m = a * m + k * m
  OBVIOUS
<1>4. (a + 1) * m = a * m + m
  OBVIOUS
<1> QED BY <1>1, <1>2, <1>3, <1>4

(* An event has at most MaxPkts descriptors. *)
LEMMA EventCount ==
  ASSUME TypeInv
  PROVE /\ IsFiniteSet({todo.descs[n] : n \in 1..Len(todo.descs)})
        /\ Cardinality({todo.descs[n] : n \in 1..Len(todo.descs)}) \in Nat
        /\ Cardinality({todo.descs[n] : n \in 1..Len(todo.descs)}) <= MaxPkts
<1>1. PICK q : q = todo.descs
  OBVIOUS
<1>2. q \in Seq(Desc) /\ Len(q) \in Nat /\ Len(q) <= MaxPkts
  BY <1>1, QueueFacts DEF TypeInv, BoundInv
<1> DEFINE T == {q[n] : n \in 1..Len(q)}
           f == [n \in 1..Len(q) |-> q[n]]
<1>3. f \in Surjection(1..Len(q), T)
  BY DEF Surjection
<1>4. IsFiniteSet(1..Len(q)) /\ Cardinality(1..Len(q)) = Len(q)
  BY <1>2, FS_Interval
<1> HIDE DEF f, T
<1>5. IsFiniteSet(T) /\ Cardinality(T) <= Len(q)
  BY <1>3, <1>4, FS_Surjection
<1>6. Cardinality(T) \in Nat
  BY <1>5, FS_CardinalityType
<1> QED BY <1>1, <1>2, <1>5, <1>6, ConstantFacts DEF T

LEMMA DescFinite == ASSUME NEW S \in SUBSET Desc PROVE IsFiniteSet(S) /\ Cardinality(S) \in Nat
<1>1. IsFiniteSet(Desc)
  BY DescFacts, FS_Interval DEF Desc
<1>2. IsFiniteSet(S)
  BY <1>1, FS_Subset
<1> QED BY <1>2, FS_CardinalityType

(* Until the driver is removed, what the tasklet looks at is mapped.        *)
LEMMA UnmapFinds ==
  ASSUME TypeInv, QuietInv, AgreeInv, tpc = "unmap", dev \in {"wait", "up"}
  PROVE Hal(cur) # NoBuf
<1>1. PICK c : c = cur
  OBVIOUS
<1>2. c \in Desc /\ c = todo.descs[1] /\ Len(todo.descs) \in Nat /\ Len(todo.descs) > 0
  BY <1>1, CurFacts
<1>3. c \in Around
  <2>1. 0 \in 0..End /\ 1 \in 1..Len(Stage(0)) /\ Stage(0)[1] = c
    BY <1>2, QueueFacts DEF End, Stage
  <2> QED BY <2>1, StageTypes DEF Around
<1>4. c \in Settled
  BY <1>2 DEF Settled
<1>5. ~late /\ dev # "free"
  BY DEF QuietInv, Starting
<1>6. rx_buf_info[c].mapped /\ rx_buf_info[c].nwb = Hal(c)
  BY <1>3, <1>4, <1>5 DEF AgreeInv, Starting
<1>7. rx_buf_info[c].nwb # NoBuf
  BY <1>2, <1>5, <1>6 DEF AgreeInv
<1> QED BY <1>1, <1>6, <1>7

LEMMA LostNext ==
  TypeInv /\ QuietInv /\ PipeInv /\ UnknownInv /\ MapInv /\ AgreeInv /\ LostInv /\ [Next]_vars => LostInv'
<1> SUFFICES ASSUME TypeInv, QuietInv, PipeInv, UnknownInv, MapInv, AgreeInv, LostInv, [Next]_vars,
                    dev' \in {"wait", "up"}
             PROVE Cardinality(Desc \ Around') <= (allocFails' + Handled') * MaxPkts
  BY DEF LostInv
<1>0. TypeInv'
  BY TypeNext
<1>1. /\ Handled \in Nat /\ Handled' \in Nat /\ Handled <= Handled'
      /\ RxUnknown => Handled' = Handled + 1
  BY HandledNext
<1>2. allocFails \in Nat /\ allocFails' \in Nat /\ MaxPkts \in Nat
  BY <1>0, ConstantFacts DEF TypeInv, TypeOK
<1>3. /\ allocFails' = allocFails \/ allocFails' = allocFails + 1
      /\ RxAllocFail => allocFails' = allocFails + 1
  <2>1. CASE UNCHANGED vars
    BY <2>1, <1>2 DEF vars, RxAllocFail, Fail
  <2>2. CASE DevNext
    BY <2>2, <1>2 DEF DevNext, InitRx, InitDesc, InitRxDone, InitRxFail, InitDone, Stop, DeinitCheck,
           DeinitUnmap, DeinitFree, DeinitRxDone, HalMapFree, TaskletKill, RxAllocFail, Fail
  <2>3. CASE RpuNext
    BY <2>3, <1>2 DEF RpuNext, RpuInit, RpuRx, RpuReport, RxAllocFail, Fail
  <2>4. CASE RxEvent \/ RxStep \/ RxAllocFail
    BY <2>4, <1>2 DEF RxEvent, RxStep, RxUnmap, RxClear, RxDeliver, RxBeacon, RxUnknown, RxAlloc,
           RxMap, RxSet, RxPost, RxAllocFail, Fail
  <2> QED BY <2>1, <2>2, <2>3, <2>4 DEF Next
<1>4. dev \in {"wait", "up"} \/ InitRxDone
  <2>1. CASE UNCHANGED devVars
    BY <2>1 DEF devVars
  <2>2. CASE DevNext
    BY <2>2 DEF DevNext, InitRx, InitDesc, InitRxDone, InitRxFail, InitDone, Stop, DeinitCheck,
           DeinitUnmap, DeinitFree, DeinitRxDone, HalMapFree, TaskletKill
  <2> QED BY <2>1, <2>2 DEF Next, RpuNext, RpuInit, RpuRx, RpuReport, RxEvent, RxStep, RxAllocFail,
          RxUnmap, RxClear, RxDeliver, RxBeacon, RxUnknown, RxAlloc, RxMap, RxSet, RxPost, Tasklet, vars
<1>5. PICK a, b : a = allocFails + Handled /\ b = allocFails' + Handled'
  OBVIOUS
<1>h. PICK h, k, r, q : h = Handled /\ k = Handled' /\ r = allocFails /\ q = allocFails'
  OBVIOUS
<1>g. /\ h \in Nat /\ k \in Nat /\ r \in Nat /\ q \in Nat /\ h <= k /\ (q = r \/ q = r + 1)
      /\ a = r + h /\ b = q + k
  BY <1>1, <1>2, <1>3, <1>5, <1>h
<1>f. RxUnknown \/ RxAllocFail => k = h + 1 \/ q = r + 1
  BY <1>1, <1>3, <1>h
<1>6. a \in Nat /\ b \in Nat /\ a <= b
  BY <1>g
<1>7. CASE InitRxDone
  <2>1. dev = "init" /\ di = num_rx_bufs
    BY <1>7 DEF InitRxDone
  <2>2. \A d \in Desc : d \in InPosted
    BY <2>1, DescFacts DEF PipeInv
  <2>3. posted' = posted
    BY <1>7 DEF InitRxDone
  <2>4. Desc \ Around' = {}
    BY <2>2, <2>3 DEF Around, InPosted
  <2>5. Cardinality(Desc \ Around') = 0
    BY <2>4, FS_EmptySet
  <2>6. b * MaxPkts \in Nat
    BY <1>2, <1>6, Times
  <2> QED BY <1>5, <2>5, <2>6
<1>8. CASE dev \in {"wait", "up"}
  <2>0. Cardinality(Desc \ Around) <= a * MaxPkts
    BY <1>5, <1>8 DEF LostInv
  <2>1. IsFiniteSet(Desc \ Around) /\ Cardinality(Desc \ Around) \in Nat
        /\ IsFiniteSet(Desc \ Around') /\ Cardinality(Desc \ Around') \in Nat
    <3>1. Desc \ Around \in SUBSET Desc /\ Desc \ Around' \in SUBSET Desc
      OBVIOUS
    <3> QED BY <3>1, DescFinite
  <2>2. CASE Around \subseteq Around'
    <3>1. Desc \ Around' \in SUBSET (Desc \ Around)
      BY <2>2
    <3>2. Cardinality(Desc \ Around') <= Cardinality(Desc \ Around)
      BY <2>1, <3>1, FS_Subset
    <3>3. a * MaxPkts \in Nat /\ a * MaxPkts <= b * MaxPkts /\ b * MaxPkts \in Nat
      BY <1>2, <1>6, Times
    <3> QED BY <1>5, <2>0, <2>1, <3>2, <3>3
  <2>3. CASE RxUnknown \/ RxAllocFail
    <3>1. tpc # "off"
      BY <2>3 DEF RxUnknown, RxAllocFail
    <3> DEFINE E == {todo.descs[n] : n \in 1..Len(todo.descs)}
    <3>2. IsFiniteSet(E) /\ Cardinality(E) \in Nat /\ Cardinality(E) <= MaxPkts
      BY EventCount
    <3>3. Around \subseteq Around' \cup E
      BY <3>1, AroundNext
    <3> HIDE DEF E
    <3>4. Desc \ Around' \in SUBSET ((Desc \ Around) \cup E)
      BY <3>3
    <3>5. /\ IsFiniteSet((Desc \ Around) \cup E)
          /\ Cardinality((Desc \ Around) \cup E) = Cardinality(Desc \ Around) + Cardinality(E) - Cardinality((Desc \ Around) \cap E)
      BY <2>1, <3>2, FS_Union
    <3>6. Cardinality((Desc \ Around) \cap E) \in Nat
      <4>1. (Desc \ Around) \cap E \in SUBSET Desc
        OBVIOUS
      <4> QED BY <4>1, DescFinite
    <3>7. Cardinality(Desc \ Around') <= Cardinality((Desc \ Around) \cup E)
      BY <3>4, <3>5, FS_Subset
    <3>8. a + 1 <= b
      <4>1. k = h + 1 \/ q = r + 1
        BY <1>f, <2>3
      <4> QED BY <1>g, <4>1
    <3>9. a * MaxPkts \in Nat /\ (a + 1) * MaxPkts = a * MaxPkts + MaxPkts
      BY <1>2, <1>6, Times
    <3>10. (a + 1) * MaxPkts <= b * MaxPkts /\ b * MaxPkts \in Nat
      BY <1>2, <1>6, <3>8, Times
    <3> QED BY <1>2, <1>5, <2>0, <2>1, <3>2, <3>5, <3>6, <3>7, <3>9, <3>10
  <2>4. CASE RxUnmap
    <3>1. Hal(cur) # NoBuf
      BY <1>8, <2>4, UnmapFinds DEF RxUnmap
    <3>2. Keeps
      BY <2>4, <3>1 DEF RxUnmap, Hal, Keeps, Tasklet, rpuVars
    <3>3. Around' = Around
      BY <3>2, PipeKeeps DEF Around
    <3> QED BY <2>2, <3>3
  <2> QED BY <2>2, <2>3, <2>4, AroundNext
<1> QED BY <1>4, <1>7, <1>8
-----------------------------------------------------------------------------
(* No more buffers are leaked than events of unknown type were handled.     *)
LEMMA LeakCount ==
  ASSUME TypeInv, UnknownInv, [Next]_vars, Cardinality(Leaked) <= Handled,
         NEW x, Leaked' \subseteq Leaked \/ (RxUnknown /\ Leaked' \subseteq Leaked \cup {x})
  PROVE Cardinality(Leaked') <= Handled'
<1>1. /\ Handled \in Nat /\ Handled' \in Nat /\ Handled <= Handled'
      /\ RxUnknown => Handled' = Handled + 1
  BY HandledNext
<1>2. live \subseteq 1..nwbs /\ nwbs \in Nat
  BY DEF TypeInv, TypeOK
<1>3. IsFiniteSet(1..nwbs)
  BY <1>2, FS_Interval
<1>4. Leaked \in SUBSET (1..nwbs)
  BY <1>2 DEF Leaked
<1>5. IsFiniteSet(Leaked)
  BY <1>3, <1>4, FS_Subset
<1>6. Cardinality(Leaked) \in Nat
  BY <1>5, FS_CardinalityType
<1>7. CASE Leaked' \subseteq Leaked
  <2>1. Leaked' \in SUBSET Leaked
    BY <1>7
  <2>2. Cardinality(Leaked') <= Cardinality(Leaked) /\ IsFiniteSet(Leaked')
    BY <1>5, <2>1, FS_Subset
  <2>3. Cardinality(Leaked') \in Nat
    BY <2>2, FS_CardinalityType
  <2> QED BY <1>1, <1>6, <2>2, <2>3
<1>8. CASE RxUnknown /\ Leaked' \subseteq Leaked \cup {x}
  <2>1. Leaked' \in SUBSET (Leaked \cup {x})
    BY <1>8
  <2>2. /\ IsFiniteSet(Leaked \cup {x})
        /\ Cardinality(Leaked \cup {x}) \in {Cardinality(Leaked), Cardinality(Leaked) + 1}
    BY <1>5, FS_AddElement
  <2>3. Cardinality(Leaked') <= Cardinality(Leaked \cup {x}) /\ IsFiniteSet(Leaked')
    BY <2>1, <2>2, FS_Subset
  <2>4. Cardinality(Leaked') \in Nat
    BY <2>3, FS_CardinalityType
  <2> QED BY <1>1, <1>6, <1>8, <2>2, <2>3, <2>4
<1> QED BY <1>7, <1>8

(* Nothing about the buffers changes, or only which entries are flagged.    *)
LEMMA OwnSame ==
  ASSUME Owning, UNCHANGED <<nwb, live, stack>>, \A d \in Desc : rx_buf_info'[d].nwb = rx_buf_info[d].nwb
  PROVE Owning' /\ Leaked' = Leaked
<1>1. Owned' = Owned
  BY DEF Owned
<1>2. Owning'
  BY <1>1 DEF Owning
<1> QED BY <1>1, <1>2 DEF Leaked

LEMMA OwnDev ==
  ASSUME TypeInv, QuietInv, MapInv, AgreeInv, Owning, ~late, DevNext
  PROVE Owning' /\ Leaked' \subseteq Leaked
<1> USE DEF NoBuf
<1>0. UNCHANGED <<tpc, todo, nwb, stack>>
  BY DevKeeps
<1>1. CASE InitRx
  <2>1. dev = "down" /\ di = 0 /\ tpc = "off" /\ live' = live /\ rx_buf_info' = [d \in Desc |-> Unmapped]
    BY <1>1 DEF InitRx, QuietInv, Starting, bufVars
  <2>2. \A d \in Desc : hal_map[MapDescToPool(d)] = 0
    BY <2>1, DescFacts DEF MapInv, Hal
  <2>3. \A d \in Desc : d \in Settled
    BY <2>1 DEF Settled
  <2>4. \A d \in Desc : rx_buf_info[d].nwb = 0
    BY <2>1, <2>2, <2>3 DEF AgreeInv, Hal
  <2>5. \A d \in Desc : rx_buf_info'[d].nwb = rx_buf_info[d].nwb
    BY <2>1, <2>4 DEF Unmapped
  <2> QED BY <1>0, <2>1, <2>5, OwnSame
<1>2. CASE InitDesc
  <2>1. dev = "init" /\ tpc = "off"
    BY <1>2 DEF InitDesc, QuietInv, Starting
  <2>2. di \in Desc
    BY <1>2, DescFacts DEF InitDesc, TypeInv, TypeOK, Desc
  <2>3. hal_map[MapDescToPool(di)] = 0 /\ di \in Settled
    BY <2>1, <2>2, DescFacts DEF MapInv, Hal, Settled
  <2>4. rx_buf_info[di].nwb = 0 /\ nwb = 0
    BY <2>1, <2>2, <2>3 DEF AgreeInv, Hal, MapInv
  <2>5. PICK b : b = nwbs + 1
    OBVIOUS
  <2>6. live' = live \cup {b} /\ rx_buf_info' = [rx_buf_info EXCEPT ![di] = [nwb |-> b, mapped |-> TRUE]]
    BY <1>2, <2>5 DEF InitDesc, AllocBuf
  <2>7. \A e \in Desc : rx_buf_info'[e] = IF e = di THEN [nwb |-> b, mapped |-> TRUE] ELSE rx_buf_info[e]
    BY <2>2, <2>6, InfoSet
  <2>8. \A e \in Desc : rx_buf_info'[e].nwb = IF e = di THEN b ELSE rx_buf_info[e].nwb
    BY <2>7
  <2>9. /\ b # 0 /\ b \notin live /\ b \notin stack /\ 0 \notin stack
        /\ \A e \in Desc : rx_buf_info[e].nwb # b
    <3>1. live \subseteq 1..nwbs /\ stack \subseteq 1..nwbs /\ nwbs \in Nat
      BY DEF TypeInv, TypeOK
    <3>2. \A e \in Desc : rx_buf_info[e].nwb \in 0..nwbs
      BY InfoIs
    <3> QED BY <2>5, <3>1, <3>2
  <2>10. Owned' = Owned \cup {b}
    BY <1>0, <2>2, <2>4, <2>8 DEF Owned
  <2>11. Owning'
    BY <1>0, <2>4, <2>6, <2>8, <2>9, <2>10 DEF Owning
  <2>12. Leaked' \subseteq Leaked
    BY <1>0, <2>6, <2>10 DEF Leaked
  <2> QED BY <2>11, <2>12
<1>3. CASE DeinitFree
  <2>1. di \in Desc
    BY <1>3, DescFacts DEF DeinitFree, TypeInv, TypeOK, BoundInv, Desc
  <2>2. tpc = "off" /\ nwb = 0
    <3>1. tpc = "off"
      BY <1>3, NotLate DEF DeinitFree, Stopping
    <3> QED BY <3>1 DEF MapInv
  <2>3. PICK b : b = rx_buf_info[di].nwb
    OBVIOUS
  <2>4. live' = live \ {b} /\ rx_buf_info' = [rx_buf_info EXCEPT ![di] = Unmapped]
    BY <1>3, <2>3 DEF DeinitFree
  <2>5. \A e \in Desc : rx_buf_info'[e] = IF e = di THEN Unmapped ELSE rx_buf_info[e]
    BY <2>1, <2>4, InfoSet
  <2>6. \A e \in Desc : rx_buf_info'[e].nwb = IF e = di THEN 0 ELSE rx_buf_info[e].nwb
    BY <2>5 DEF Unmapped
  <2>7. b \notin stack /\ 0 \notin stack
    BY <2>1, <2>2, <2>3 DEF Owning, Owned
  <2>8. \A e \in Desc : e # di /\ rx_buf_info[e].nwb # 0 => rx_buf_info[e].nwb # b
    BY <2>1, <2>3 DEF Owning
  <2>9. \A x : x \in Owned' => x = 0 \/ (x \in Owned /\ x # b)
    BY <1>0, <2>2, <2>6, <2>8 DEF Owned
  <2>10. \A x : x \in Owned /\ x # b => x \in Owned'
    BY <1>0, <2>1, <2>3, <2>6 DEF Owned
  <2>11. Owning'
    <3>1. \A d, e \in Desc : rx_buf_info'[d].nwb = rx_buf_info'[e].nwb
                          => d = e \/ rx_buf_info'[d].nwb = 0
      BY <2>6 DEF Owning
    <3>2. \A d \in Desc : rx_buf_info'[d].nwb = nwb' => nwb' = 0
      BY <1>0, <2>2
    <3>3. Owned' \ {0} \subseteq live'
      BY <2>4, <2>9 DEF Owning
    <3>4. Owned' \cap stack' = {}
      BY <1>0, <2>7, <2>9 DEF Owning
    <3>5. stack' \subseteq live'
      BY <1>0, <2>4, <2>7 DEF Owning
    <3> QED BY <3>1, <3>2, <3>3, <3>4, <3>5 DEF Owning
  <2>12. Leaked' \subseteq Leaked
    BY <1>0, <2>4, <2>10 DEF Leaked
  <2> QED BY <2>11, <2>12
<1>4. CASE ~InitRx /\ ~InitDesc /\ ~DeinitFree
  <2>1. UNCHANGED <<live, rx_buf_info>>
    BY <1>4 DEF DevNext, InitRxDone, InitRxFail, InitDone, Stop, DeinitCheck, DeinitUnmap,
               DeinitRxDone, HalMapFree, TaskletKill, bufVars, mapVars
  <2> QED BY <1>0, <2>1, OwnSame
<1> QED BY <1>1, <1>2, <1>3, <1>4

LEMMA OwnStep ==
  ASSUME TypeInv, MapInv, AgreeInv, Owning, ~late, RxStep \/ RxAllocFail
  PROVE Owning' /\ (Leaked' \subseteq Leaked \/ (RxUnknown /\ Leaked' \subseteq Leaked \cup {nwb}))
<1> USE DEF NoBuf
<1>0. tpc # "off"
  BY TypeSteps
<1>c. PICK c : c = cur
  OBVIOUS
<1>1. c \in Desc
  BY <1>0, <1>c, CurFacts
<1>b. PICK b : b = nwb
  OBVIOUS
<1>2. live \subseteq 1..nwbs /\ stack \subseteq 1..nwbs /\ nwbs \in Nat /\ 0 \notin stack /\ 0 \notin live
  BY DEF TypeInv, TypeOK
<1>3. CASE RxUnmap \/ RxMap \/ RxPost \/ RxAllocFail
  <2>1. UNCHANGED <<nwb, live, stack, rx_buf_info>>
    BY <1>3 DEF RxUnmap, RxMap, RxPost, RxAllocFail, bufVars, mapVars
  <2> QED BY <2>1, OwnSame
<1>4. CASE RxClear
  <2>1. PICK r : r = rx_buf_info[c].nwb
    OBVIOUS
  <2>2. /\ tpc = "clear" /\ nwb = 0 /\ nwb' = r /\ live' = live /\ stack' = stack
        /\ rx_buf_info' = [rx_buf_info EXCEPT ![c] = Unmapped]
    BY <1>4, <1>c, <2>1 DEF RxClear, MapInv, bufVars
  <2>3. \A e \in Desc : rx_buf_info'[e] = IF e = c THEN Unmapped ELSE rx_buf_info[e]
    BY <1>1, <2>2, InfoSet
  <2>4. \A e \in Desc : rx_buf_info'[e].nwb = IF e = c THEN 0 ELSE rx_buf_info[e].nwb
    BY <2>3 DEF Unmapped
  <2>5. \A x : x \in Owned' => x = 0 \/ x \in Owned
    BY <1>1, <2>1, <2>2, <2>4 DEF Owned
  <2>6. \A x : x \in Owned => x = 0 \/ x \in Owned'
    BY <1>1, <2>1, <2>2, <2>4 DEF Owned
  <2>7. \A d, e \in Desc : rx_buf_info'[d].nwb = rx_buf_info'[e].nwb
                          => d = e \/ rx_buf_info'[d].nwb = 0
    BY <2>4 DEF Owning
  <2>8. \A d \in Desc : rx_buf_info'[d].nwb = nwb' => nwb' = 0
    BY <1>1, <2>1, <2>2, <2>4 DEF Owning
  <2>9. Owning'
    BY <1>2, <2>2, <2>5, <2>7, <2>8 DEF Owning
  <2>10. Leaked' \subseteq Leaked
    BY <1>2, <2>2, <2>6 DEF Leaked
  <2> QED BY <2>9, <2>10
<1>5. CASE RxDeliver \/ RxBeacon \/ RxUnknown
  <2>1. rx_buf_info' = rx_buf_info /\ nwb' = 0 /\ tpc = "deliver" /\ b # 0
    BY <1>5, <1>b DEF RxDeliver, RxBeacon, RxUnknown, mapVars, MapInv
  <2>2. /\ RxDeliver => live' = live /\ stack' = stack \cup {b}
        /\ RxBeacon => live' = live \ {b} /\ stack' = stack
        /\ RxUnknown => live' = live /\ stack' = stack
    BY <1>b DEF RxDeliver, RxBeacon, RxUnknown, bufVars
  <2>3. \A d \in Desc : rx_buf_info[d].nwb # b
    BY <1>b, <2>1 DEF Owning
  <2>4. \A x : x \in Owned' => x # b /\ (x = 0 \/ x \in Owned)
    BY <2>1, <2>3 DEF Owned
  <2>5. \A x : x \in Owned => x = b \/ x \in Owned'
    BY <1>b, <2>1 DEF Owned
  <2>6. b \in live /\ b \notin stack
    BY <1>b, <2>1 DEF Owning, Owned
  <2>7. \A d, e \in Desc : rx_buf_info'[d].nwb = rx_buf_info'[e].nwb
                          => d = e \/ rx_buf_info'[d].nwb = 0
    BY <2>1 DEF Owning
  <2>8. Owned' \ {0} \subseteq live'
    BY <1>5, <2>2, <2>4 DEF Owning
  <2>9. Owned' \cap stack' = {}
    BY <1>2, <1>5, <2>2, <2>4 DEF Owning
  <2>10. stack' \subseteq live'
    BY <1>5, <2>2, <2>6 DEF Owning
  <2>11. Owning'
    BY <2>1, <2>7, <2>8, <2>9, <2>10 DEF Owning
  <2>12. RxDeliver \/ RxBeacon => Leaked' \subseteq Leaked
    BY <2>2, <2>5 DEF Leaked
  <2>13. RxUnknown => Leaked' \subseteq Leaked \cup {b}
    BY <2>2, <2>5 DEF Leaked
  <2> QED BY <1>5, <1>b, <2>11, <2>12, <2>13
<1>6. CASE RxAlloc
  <2>1. PICK r : r = nwbs + 1
    OBVIOUS
  <2>2. tpc = "check" /\ nwb = 0 /\ nwb' = r /\ live' = live \cup {r} /\ stack' = stack /\ rx_buf_info' = rx_buf_info
    BY <1>6, <2>1 DEF RxAlloc, AllocBuf, MapInv, mapVars
  <2>3. r # 0 /\ r \notin live /\ r \notin stack /\ \A e \in Desc : rx_buf_info[e].nwb # r
    <3>1. \A e \in Desc : rx_buf_info[e].nwb \in 0..nwbs
      BY InfoIs
    <3> QED BY <1>2, <2>1, <3>1
  <2>4. \A x : x \in Owned' => x = r \/ x \in Owned
    BY <2>2 DEF Owned
  <2>5. \A x : x \in Owned => x = 0 \/ x \in Owned'
    BY <2>2 DEF Owned
  <2>6. r \in Owned'
    BY <2>2 DEF Owned
  <2>7. Owning'
    BY <2>2, <2>3, <2>4 DEF Owning
  <2>8. Leaked' \subseteq Leaked
    BY <1>2, <2>2, <2>5, <2>6 DEF Leaked
  <2> QED BY <2>7, <2>8
<1>7. CASE RxSet
  <2>1. /\ tpc = "set" /\ nwb' = 0 /\ live' = live /\ stack' = stack
        /\ rx_buf_info' = [rx_buf_info EXCEPT ![c] = [nwb |-> b, mapped |-> TRUE]]
    BY <1>7, <1>b, <1>c DEF RxSet, bufVars
  <2>2. \A e \in Desc : rx_buf_info'[e] = IF e = c THEN [nwb |-> b, mapped |-> TRUE] ELSE rx_buf_info[e]
    BY <1>1, <2>1, InfoSet
  <2>3. \A e \in Desc : rx_buf_info'[e].nwb = IF e = c THEN b ELSE rx_buf_info[e].nwb
    BY <2>2
  <2>4. rx_buf_info[c].nwb = 0 /\ b # 0
    BY <1>b, <1>c, <2>1 DEF AgreeInv, MapInv
  <2>5. \A x : x \in Owned' => x = 0 \/ x \in Owned
    BY <1>b, <2>1, <2>3 DEF Owned
  <2>6. \A x : x \in Owned => x \in Owned'
    BY <1>1, <1>b, <2>1, <2>3, <2>4 DEF Owned
  <2>7. \A d \in Desc : rx_buf_info[d].nwb # b
    BY <1>b, <2>4 DEF Owning
  <2>8. \A d, e \in Desc : rx_buf_info'[d].nwb = rx_buf_info'[e].nwb
                          => d = e \/ rx_buf_info'[d].nwb = 0
    BY <2>3, <2>7 DEF Owning
  <2>9. Owning'
    BY <1>2, <2>1, <2>5, <2>8 DEF Owning
  <2>10. Leaked' \subseteq Leaked
    BY <2>1, <2>6 DEF Leaked
  <2> QED BY <2>9, <2>10
<1> QED BY <1>3, <1>4, <1>5, <1>6, <1>7 DEF RxStep

LEMMA OwnNext ==
  TypeInv /\ QuietInv /\ UnknownInv /\ MapInv /\ AgreeInv /\ OwnInv /\ [Next]_vars => OwnInv'
<1> SUFFICES ASSUME TypeInv, QuietInv, UnknownInv, MapInv, AgreeInv, OwnInv, [Next]_vars, ~late'
             PROVE Owning' /\ Cardinality(Leaked') <= Handled'
  BY DEF OwnInv
<1>1. ~late
  <2>1. late' = late \/ Stop \/ RxEvent
    <3>1. DevNext => late' = late \/ Stop
      BY DevKeeps
    <3>2. RxStep \/ RxAllocFail => late' = late
      BY TypeSteps
    <3> QED BY <3>1, <3>2 DEF Next, RpuNext, RpuInit, RpuReport, RpuRx, vars
  <2> QED BY <2>1 DEF Stop, RxEvent
<1>2. Owning /\ Cardinality(Leaked) <= Handled
  BY <1>1 DEF OwnInv
<1>3. Owning' /\ (Leaked' \subseteq Leaked \/ (RxUnknown /\ Leaked' \subseteq Leaked \cup {nwb}))
  <2>1. CASE UNCHANGED vars \/ RpuNext \/ RxEvent
    <3>1. UNCHANGED <<nwb, live, stack, rx_buf_info>>
      BY <2>1 DEF vars, RpuNext, RpuInit, RpuReport, RpuRx, RxEvent, taskletVars, bufVars, mapVars
    <3> QED BY <1>2, <3>1, OwnSame
  <2>2. CASE DevNext
    BY <1>1, <1>2, <2>2, OwnDev
  <2>3. CASE RxStep \/ RxAllocFail
    BY <1>1, <1>2, <2>3, OwnStep
  <2> QED BY <2>1, <2>2, <2>3 DEF Next
<1>4. PICK x : x = nwb
  OBVIOUS
<1> QED BY <1>2, <1>3, <1>4, LeakCount
-----------------------------------------------------------------------------
(* What has failed stays so. *)
LEMMA CountsGrow ==
  ASSUME TypeInv, [Next]_vars
  PROVE /\ allocFails' = allocFails \/ allocFails' = allocFails + 1
        /\ unknown' = unknown \/ unknown' = unknown + 1
        /\ allocFails \in Nat /\ unknown \in Nat /\ allocFails' \in Nat /\ unknown' \in Nat
        /\ ~late' => ~late
        /\ dev \in Stopping => dev' \in Stopping
<1>1. allocFails \in Nat /\ unknown \in Nat
  BY ConstantFacts DEF TypeInv, TypeOK
<1>2. CASE UNCHANGED vars
  BY <1>1, <1>2 DEF vars, devVars, rpuVars
<1>3. CASE DevNext
  <2>1. unknown' = unknown /\ (late' = late \/ Stop)
    BY <1>3, DevKeeps
  <2>2. CASE InitRx \/ InitDesc \/ InitRxDone \/ InitDone
    <3>1. dev \notin Stopping /\ allocFails' = allocFails /\ late' = late
      BY <2>2 DEF InitRx, InitDesc, InitRxDone, InitDone, Stopping
    <3> QED BY <1>1, <2>1, <3>1
  <2>5. CASE Stop
    <3>1. dev \notin Stopping /\ allocFails' = allocFails /\ late' = (late \/ tpc # "off")
      BY <2>5 DEF Stop, Stopping
    <3> QED BY <1>1, <2>1, <3>1
  <2>3. CASE InitRxFail
    BY <1>1, <2>1, <2>3 DEF InitRxFail, Fail, Stopping
  <2>4. CASE DeinitCheck \/ DeinitUnmap \/ DeinitFree \/ DeinitRxDone \/ HalMapFree \/ TaskletKill
    BY <1>1, <2>1, <2>4 DEF DeinitCheck, DeinitUnmap, DeinitFree, DeinitRxDone, HalMapFree, TaskletKill, Stopping
  <2> QED BY <1>3, <2>2, <2>3, <2>4, <2>5 DEF DevNext
<1>4. CASE RpuInit \/ \E p \in Pool : RpuRx(p)
  BY <1>1, <1>4 DEF RpuInit, RpuRx, devVars
<1>5. CASE RpuReport
  <2>1. PICK n, t : Reports(n, t)
    BY <1>5, RpuReportDoes
  <2> QED BY <1>1, <1>5, <2>1 DEF RpuReport, Reports, devVars
<1>6. CASE RxEvent
  BY <1>1, <1>6 DEF RxEvent, devVars, rpuVars
<1>7. CASE RxStep \/ RxAllocFail
  <2>1. UNCHANGED <<devVars, rpuVars, late>>
    BY <1>7, TypeSteps
  <2>2. allocFails' = allocFails \/ allocFails' = allocFails + 1
    BY <1>7 DEF RxStep, RxUnmap, RxClear, RxDeliver, RxBeacon, RxUnknown, RxAlloc,
           RxMap, RxSet, RxPost, RxAllocFail, Fail
  <2> QED BY <1>1, <2>1, <2>2 DEF devVars, rpuVars
<1> QED BY <1>2, <1>3, <1>4, <1>5, <1>6, <1>7 DEF Next, RpuNext

(* When nothing has failed every descriptor is mapped at the removal.       *)
LEMMA AllMapped ==
  ASSUME TypeInv, QuietInv, UnknownInv, AgreeInv, LostInv, dev \in {"wait", "up"},
         allocFails = 0, unknown = 0, tpc = "off"
  PROVE \A d \in Desc : rx_buf_info[d].mapped
<1>1. Handled = 0
  BY UnknownCount DEF UnknownInv
<1>2. (allocFails + Handled) * MaxPkts = 0
  BY <1>1, ConstantFacts
<1>3. Cardinality(Desc \ Around) <= 0
  BY <1>2 DEF LostInv
<1>4. IsFiniteSet(Desc \ Around) /\ Cardinality(Desc \ Around) \in Nat
  <2>1. Desc \ Around \in SUBSET Desc
    OBVIOUS
  <2> QED BY <2>1, DescFinite
<1>5. Cardinality(Desc \ Around) = 0
  BY <1>3, <1>4
<1>6. Desc \ Around = {}
  BY <1>4, <1>5, FS_EmptySet
<1>7. \A d \in Desc : d \in Around /\ d \in Settled
  BY <1>6 DEF Settled
<1> QED BY <1>7 DEF AgreeInv, Starting

LEMMA CleanNext ==
  TypeInv /\ QuietInv /\ UnknownInv /\ MapInv /\ AgreeInv /\ LostInv /\ CleanInv /\ [Next]_vars => CleanInv'
<1> SUFFICES ASSUME TypeInv, QuietInv, UnknownInv, MapInv, AgreeInv, LostInv, CleanInv, [Next]_vars,
                    ~late', allocFails' = 0, unknown' = 0
             PROVE /\ dev' \in {"check", "unmap", "free"} =>
                        \A d \in Desc : rx_buf_info'[d].mapped = (d >= di')
                   /\ dev' \in {"rem", "kill", "gone"} =>
                        info' = "freed" /\ \A d \in Desc : rx_buf_info'[d] = Unmapped
  BY DEF CleanInv
<1>0. ~late /\ allocFails = 0 /\ unknown = 0
  BY CountsGrow
<1>1. /\ dev \in {"check", "unmap", "free"} =>
            \A d \in Desc : rx_buf_info[d].mapped = (d >= di)
      /\ dev \in {"rem", "kill", "gone"} =>
            info = "freed" /\ \A d \in Desc : rx_buf_info[d] = Unmapped
  BY <1>0 DEF CleanInv
<1>2. dev \in Stopping => tpc = "off"
  BY <1>0 DEF QuietInv
<1>3. CASE UNCHANGED <<dev, di, info, rx_buf_info>>
  BY <1>1, <1>3
<1>4. CASE dev \notin Stopping /\ dev' = dev
  BY <1>4 DEF Stopping
<1>5. CASE InitRx \/ InitDesc \/ InitRxDone \/ InitDone
  <2>1. dev' \notin Stopping
    BY <1>5 DEF InitRx, InitDesc, InitRxDone, InitDone, Stopping
  <2> QED BY <2>1 DEF Stopping
<1>6. CASE InitRxFail
  BY <1>0, <1>6 DEF InitRxFail, Fail
<1>7. CASE Stop
  <2>1. tpc = "off" /\ dev \in {"wait", "up"} /\ dev' = "check" /\ di' = 0 /\ rx_buf_info' = rx_buf_info
    BY <1>7 DEF Stop, mapVars
  <2>2. \A d \in Desc : rx_buf_info[d].mapped = TRUE
    <3>1. \A d \in Desc : rx_buf_info[d].mapped
      BY <1>0, <2>1, AllMapped
    <3>2. \A d \in Desc : rx_buf_info[d].mapped \in BOOLEAN
      BY InfoIs
    <3> QED BY <3>1, <3>2
  <2>3. \A d \in Desc : (d >= di') = TRUE
    BY <2>1, DescFacts
  <2> QED BY <2>1, <2>2, <2>3
<1>8. CASE DeinitCheck
  <2>1. dev = "check" /\ di < num_rx_bufs /\ UNCHANGED <<di, rx_buf_info>>
        /\ dev' = IF rx_buf_info[di].mapped THEN "unmap" ELSE "rem"
    BY <1>8 DEF DeinitCheck, mapVars
  <2>2. di \in Desc /\ (di >= di) = TRUE
    BY <2>1, DescFacts DEF TypeInv, TypeOK, Desc
  <2>3. rx_buf_info[di].mapped = TRUE
    BY <1>1, <2>1, <2>2
  <2> QED BY <1>1, <2>1, <2>3
<1>9. CASE DeinitUnmap
  <2>1. di \in Desc
    BY <1>9, DescFacts DEF DeinitUnmap, TypeInv, TypeOK, BoundInv, Desc
  <2>2. dev = "unmap" /\ rx_buf_info' = rx_buf_info
        /\ IF Hal(di) = NoBuf THEN dev' = "check" /\ di' = di + 1 ELSE dev' = "free" /\ di' = di
    BY <1>9 DEF DeinitUnmap, Hal
  <2>3. rx_buf_info[di].mapped
    <3>1. (di >= di) = TRUE
      BY <2>1, DescFacts
    <3> QED BY <1>1, <2>1, <2>2, <3>1
  <2>4. tpc = "off" /\ di \in Settled
    BY <1>2, <2>1, <2>2 DEF Settled, Stopping
  <2>5. rx_buf_info[di].nwb # NoBuf /\ rx_buf_info[di].nwb = Hal(di)
    BY <1>0, <2>1, <2>2, <2>3, <2>4 DEF AgreeInv
  <2> QED BY <1>1, <2>2, <2>5
<1>10. CASE DeinitFree
  <2>1. di \in Desc
    BY <1>10, DescFacts DEF DeinitFree, TypeInv, TypeOK, BoundInv, Desc
  <2>2. dev = "free" /\ dev' = "check" /\ di' = di + 1 /\ rx_buf_info' = [rx_buf_info EXCEPT ![di] = Unmapped]
    BY <1>10 DEF DeinitFree
  <2>3. \A e \in Desc : rx_buf_info'[e] = IF e = di THEN Unmapped ELSE rx_buf_info[e]
    BY <2>1, <2>2, InfoSet
  <2>4. ASSUME NEW d \in Desc PROVE rx_buf_info'[d].mapped = (d >= di')
    <3>0. d \in Nat /\ di \in Nat
      BY <2>1, DescFacts
    <3>1. CASE d = di
      <4>1. rx_buf_info'[d].mapped = FALSE
        BY <2>3, <3>1 DEF Unmapped
      <4>2. (d >= di') = FALSE
        BY <2>2, <3>0, <3>1
      <4> QED BY <4>1, <4>2
    <3>2. CASE d # di
      <4>1. rx_buf_info'[d].mapped = (d >= di)
        BY <1>1, <2>2, <2>3, <3>2
      <4>2. (d >= di') = (d >= di)
        BY <2>2, <3>0, <3>2
      <4> QED BY <4>1, <4>2
    <3> QED BY <3>1, <3>2
  <2> QED BY <2>2, <2>4
<1>11. CASE DeinitRxDone
  <2>1. dev = "check" /\ di = num_rx_bufs /\ info' = "freed" /\ dev' = "rem" /\ rx_buf_info' = rx_buf_info
    BY <1>11 DEF DeinitRxDone
  <2>2. ASSUME NEW d \in Desc PROVE rx_buf_info[d] = Unmapped
    <3>1. (d >= di) = FALSE
      BY <2>1, DescFacts
    <3>2. rx_buf_info[d].mapped = FALSE
      BY <1>1, <2>1, <3>1
    <3>3. rx_buf_info[d].nwb = NoBuf
      BY <1>0, <3>2 DEF AgreeInv
    <3> QED BY <3>2, <3>3, InfoIs DEF Unmapped
  <2> QED BY <2>1, <2>2
<1>12. CASE HalMapFree \/ TaskletKill
  <2>1. dev \in {"rem", "kill"} /\ info' = info /\ rx_buf_info' = rx_buf_info /\ dev' \in {"kill", "gone"}
    BY <1>12 DEF HalMapFree, TaskletKill, mapVars
  <2> QED BY <1>1, <2>1
<1>13. CASE UNCHANGED vars \/ RpuNext
  <2>1. UNCHANGED <<dev, di, info, rx_buf_info>>
    BY <1>13 DEF vars, RpuNext, RpuInit, RpuReport, RpuRx, devVars, mapVars
  <2> QED BY <1>3, <2>1
<1>14. CASE RxEvent
  <2>1. UNCHANGED <<dev, di, info, rx_buf_info>>
    BY <1>14 DEF RxEvent, devVars, mapVars
  <2> QED BY <1>3, <2>1
<1>15. CASE RxStep \/ RxAllocFail
  <2>1. tpc # "off" /\ dev' = dev
    BY <1>15, TypeSteps DEF devVars
  <2> QED BY <1>2, <1>4, <2>1
<1> QED BY <1>5, <1>6, <1>7, <1>8, <1>9, <1>10, <1>11, <1>12, <1>13, <1>14, <1>15 DEF Next, DevNext
-----------------------------------------------------------------------------
(* Where a frame in the pipe was before the step: the position it is at     *)
(* now, k and c, comes from l and m.                                        *)
Origin(k, c, l, m) ==
  /\ Frame(Stage(k)[c])' = Frame(Stage(l)[m])
  /\ k = End' => l = End
  /\ k # End' => \/ l # End /\ Type(k)' = Type(l)
                 \/ l = End /\ k = End /\ m = c /\ RpuReport
  /\ l = 0 /\ m = 1 => k = 0 /\ c = 1 /\ todo' = todo
  /\ k = 0 /\ c = 1 /\ tpc' \in Done => l = 0 /\ m = 1 /\ todo' = todo

(* The tasklet stays in Done until it goes on to the next descriptor or     *)
(* leaves, and comes there with a delivery or a beacon.                     *)
LEMMA DoneNext ==
  ASSUME TypeInv, [Next]_vars
  PROVE /\ tpc \in Done /\ todo' = todo => tpc' \in Done
        /\ tpc' \in Done => tpc \in Done \/ RxDeliver \/ RxBeacon
<1>1. CASE UNCHANGED vars
  BY <1>1 DEF vars, taskletVars
<1>2. CASE DevNext
  BY <1>2, DevKeeps
<1>3. CASE RpuNext
  BY <1>3 DEF RpuNext, RpuInit, RpuReport, RpuRx, taskletVars
<1>4. CASE RxEvent
  BY <1>4 DEF RxEvent, Done
<1>5. CASE RxStep \/ RxAllocFail
  <2>1. CASE RxUnmap \/ RxClear \/ RxDeliver \/ RxBeacon \/ RxAlloc \/ RxMap \/ RxSet
    BY <2>1 DEF RxUnmap, RxClear, RxDeliver, RxBeacon, RxAlloc, RxMap, RxSet, Leave, Done
  <2>2. CASE RxUnknown \/ RxAllocFail
    <3>1. tpc' = "off" /\ todo'.descs = <<>> /\ todo.descs # <<>>
      <4>1. tpc # "off" /\ Leave /\ posted' = posted
        BY <2>2 DEF RxUnknown, RxAllocFail
      <4>2. GivesUp
        BY <4>1 DEF GivesUp
      <4> QED BY <4>1, <4>2, TodoTypes, CurFacts DEF Leave
    <3> QED BY <3>1 DEF Done
  <2>3. CASE RxPost
    <3>1. tpc # "off" /\ Posts
      BY <2>3 DEF RxPost, Posts
    <3>2. Len(todo'.descs) = Len(todo.descs) - 1 /\ Len(todo.descs) \in Nat
      BY <3>1, TodoTypes, CurFacts
    <3>3. todo' # todo
      BY <3>2
    <3>4. tpc' \notin Done
      BY <2>3 DEF RxPost, Done
    <3> QED BY <3>3, <3>4
  <2> QED BY <1>5, <2>1, <2>2, <2>3 DEF RxStep
<1> QED BY <1>1, <1>2, <1>3, <1>4, <1>5 DEF Next

(* The new frame of RpuRx is the last one of the pipe, all others are where *)
(* they were or move on.                                                    *)
LEMMA OriginExists ==
  ASSUME TypeInv, PipeInv, [Next]_vars,
         NEW k \in 0..End', NEW c \in 1..Len(Stage(k)')
  PROVE \/ /\ \E p \in Pool : RpuRx(p)
           /\ k = End' /\ Frame(Stage(k)[c])' = frames + 1
        \/ \E l \in 0..End : \E m \in 1..Len(Stage(l)) : Origin(k, c, l, m)
<1>0. End \in Nat /\ End = Len(event_q) + 1 /\ End > 0
  BY QueueFacts DEF End
<1>1. CASE Keeps \/ InitDesc
  <2>1. UNCHANGED <<todo, event_q, filled, slot>>
    BY <1>1 DEF Keeps, InitDesc, rpuVars, taskletVars
  <2>2. End' = End /\ (\A i \in 0..End : Stage(i)' = Stage(i)) /\ \A i \in 0..Len(event_q) : Type(i)' = Type(i)
    BY <2>1, PipeSame DEF PipeKept
  <2>3. Stage(k)' = Stage(k) /\ k \in 0..End /\ c \in 1..Len(Stage(k))
    BY <2>2
  <2>4. k # End => Type(k)' = Type(k)
    BY <1>0, <2>2, <2>3
  <2>5. Frame(Stage(k)[c])' = Frame(Stage(k)[c])
    BY <2>1, <2>3 DEF Frame
  <2>6. Origin(k, c, k, c)
    BY <2>1, <2>2, <2>4, <2>5 DEF Origin
  <2> QED BY <2>3, <2>6
<1>2. CASE RxEvent
  <2>1. /\ End > 1 /\ End' = End - 1
        /\ \A i \in 0..(End - 1) : Stage(i)' = Stage(i + 1)
        /\ \A i \in 0..(End - 2) : Type(i)' = Type(i + 1)
    BY <1>2, PipeTake
  <2>2. Stage(k)' = Stage(k + 1) /\ k + 1 \in 0..End /\ c \in 1..Len(Stage(k + 1)) /\ k + 1 # 0
    BY <1>0, <2>1
  <2>3. slot' = slot /\ tpc' = "unmap"
    BY <1>2 DEF RxEvent
  <2>4. Frame(Stage(k)[c])' = Frame(Stage(k + 1)[c])
    BY <2>2, <2>3 DEF Frame
  <2>5. k # End' => k + 1 # End /\ Type(k)' = Type(k + 1)
    BY <1>0, <2>1, <2>2
  <2>6. Origin(k, c, k + 1, c)
    BY <1>0, <2>1, <2>2, <2>3, <2>4, <2>5 DEF Origin, Done
  <2> QED BY <2>2, <2>6
<1>3. CASE RpuReport
  <2>0. PICK n, t : Reports(n, t)
    BY <1>3, RpuReportDoes
  <2>1. /\ End' = End + 1
        /\ n \in Nat /\ n > 0 /\ n <= Len(Stage(End)) /\ Len(Stage(End)) \in Nat
        /\ \A i \in 0..(End - 1) : Stage(i)' = Stage(i) /\ Type(i)' = Type(i)
        /\ Len(event_q'[End].descs) = n
        /\ \A a \in 1..n : event_q'[End].descs[a] = Stage(End)[a]
        /\ Len(filled') = Len(Stage(End)) - n
        /\ \A a \in 1..Len(filled') : filled'[a] = Stage(End)[n + a]
        /\ \A i \in 0..(End + 1) : i = End => Stage(i)' = event_q'[End].descs
        /\ \A i \in 0..(End + 1) : i = End + 1 => Stage(i)' = filled'
    BY <1>3, <2>0, PipeReport
  <2>2. slot' = slot /\ todo' = todo
    BY <1>3 DEF RpuReport, taskletVars
  <2>3. CASE k \in 0..(End - 1)
    <3>1. Stage(k)' = Stage(k) /\ Type(k)' = Type(k) /\ k \in 0..End /\ k # End /\ k # End'
      BY <1>0, <2>1, <2>3
    <3>2. Frame(Stage(k)[c])' = Frame(Stage(k)[c])
      BY <2>2, <3>1 DEF Frame
    <3>3. Origin(k, c, k, c)
      BY <2>2, <3>1, <3>2 DEF Origin
    <3> QED BY <3>1, <3>3
  <2>4. CASE k = End
    <3>1. Stage(k)' = event_q'[End].descs /\ k \in 0..End /\ k # End' /\ k # 0
      BY <1>0, <2>1, <2>4
    <3>2. c \in 1..n
      BY <2>1, <3>1
    <3>3. c \in 1..Len(Stage(k)) /\ Stage(k)'[c] = Stage(k)[c]
      BY <2>1, <2>4, <3>1, <3>2
    <3>4. Frame(Stage(k)[c])' = Frame(Stage(k)[c])
      BY <2>2, <3>3 DEF Frame
    <3>5. Origin(k, c, k, c)
      BY <1>3, <2>4, <3>1, <3>4 DEF Origin
    <3> QED BY <3>1, <3>3, <3>5
  <2>5. CASE k = End + 1
    <3>1. Stage(k)' = filled' /\ k # 0 /\ End \in 0..End /\ End # 0 /\ k = End'
      BY <1>0, <2>1, <2>5
    <3>2. c \in 1..Len(filled')
      BY <3>1
    <3>3. n + c \in 1..Len(Stage(End)) /\ Stage(k)'[c] = Stage(End)[n + c]
      BY <2>1, <3>1, <3>2
    <3>4. Frame(Stage(k)[c])' = Frame(Stage(End)[n + c])
      BY <2>2, <3>3 DEF Frame
    <3>5. Origin(k, c, End, n + c)
      BY <3>1, <3>4 DEF Origin
    <3> QED BY <3>1, <3>3, <3>5
  <2> QED BY <1>0, <2>1, <2>3, <2>4, <2>5
<1>4. CASE \E p \in Pool : RpuRx(p)
  <2>1. PICK p \in Pool : RpuRx(p)
    BY <1>4
  <2>2. PICK d : Receives(p, d)
    BY <2>1, RpuRxDoes
  <2>3. /\ End' = End
        /\ \A i \in 0..(End - 1) : Stage(i)' = Stage(i) /\ Type(i)' = Type(i)
        /\ Stage(End) = filled /\ Len(filled) \in Nat
        /\ \A i \in 0..End : i = End => Stage(i)' = filled'
        /\ Len(filled') = Len(filled) + 1
        /\ \A n \in 1..Len(filled) : filled'[n] = filled[n]
        /\ filled'[Len(filled) + 1] = d
    BY <2>1, <2>2, PipeRx
  <2>4. \A e \in Desc : Frame(e)' = (IF e = d THEN frames + 1 ELSE Frame(e))
    BY <2>2 DEF Receives
  <2>5. CASE k = End /\ c = Len(filled) + 1
    <3>1. Stage(k)'[c] = d /\ d \in Desc /\ k = End'
      BY <2>2, <2>3, <2>5 DEF Receives
    <3>2. Frame(d)' = frames + 1
      BY <2>4, <3>1
    <3> QED BY <1>4, <3>1, <3>2 DEF Frame
  <2>6. CASE ~(k = End /\ c = Len(filled) + 1)
    <3>1. k \in 0..End /\ c \in 1..Len(Stage(k)) /\ Stage(k)'[c] = Stage(k)[c] /\ (k # End => Type(k)' = Type(k))
      <4>1. CASE k = End
        <5>1. Stage(k)' = filled' /\ c \in 1..(Len(filled) + 1) /\ c # Len(filled) + 1
          BY <2>3, <2>6, <4>1
        <5>2. c \in 1..Len(filled)
          BY <2>3, <5>1
        <5> QED BY <2>3, <4>1, <5>1, <5>2
      <4>2. CASE k # End
        BY <1>0, <2>3, <4>2
      <4> QED BY <4>1, <4>2
    <3>2. Stage(k)[c] \in Desc /\ Stage(k)[c] \in InPipe
      BY <3>1, StageTypes
    <3>3. Stage(k)[c] # d
      <4>1. d \in InPosted
        BY <2>2, RxTakes
      <4> QED BY <3>2, <4>1 DEF PipeInv
    <3>4. PICK e : e = Stage(k)[c]
      OBVIOUS
    <3>5. Frame(e)' = Frame(e)
      BY <2>4, <3>2, <3>3, <3>4
    <3>6. Frame(Stage(k)[c])' = Frame(Stage(k)[c])
      BY <3>1, <3>4, <3>5 DEF Frame
    <3>7. todo' = todo
      BY <2>1 DEF RpuRx, taskletVars
    <3>8. Origin(k, c, k, c)
      BY <2>3, <3>1, <3>6, <3>7 DEF Origin
    <3> QED BY <3>1, <3>8
  <2> QED BY <2>5, <2>6
<1>5. CASE (Posts \/ GivesUp) /\ event_q' = event_q /\ filled' = filled /\ slot' = slot
  <2>0. tpc # "off"
    BY <1>5 DEF Posts, GivesUp
  <2>1. /\ End' = End
        /\ \A i \in 1..End : Stage(i)' = Stage(i)
        /\ \A i \in 0..(End - 1) : Type(i)' = Type(i)
        /\ Len(Stage(0)) \in Nat /\ Len(Stage(0)) > 0
        /\ Posts => /\ Len(Stage(0)') = Len(Stage(0)) - 1
                    /\ \A n \in 1..Len(Stage(0)') : Stage(0)'[n] = Stage(0)[n + 1]
        /\ GivesUp => Stage(0)' = <<>>
    BY <1>5, <2>0, PipePost
  <2>2. k # End => Type(k)' = Type(k)
    BY <1>0, <2>1
  <2>3. CASE k # 0
    <3>1. Stage(k)' = Stage(k) /\ k \in 0..End /\ c \in 1..Len(Stage(k))
      BY <2>1, <2>3
    <3>2. Frame(Stage(k)[c])' = Frame(Stage(k)[c])
      BY <1>5, <3>1 DEF Frame
    <3>3. Origin(k, c, k, c)
      BY <2>1, <2>2, <2>3, <3>2 DEF Origin
    <3> QED BY <3>1, <3>3
  <2>4. CASE k = 0
    <3>1. Posts
      BY <1>5, <2>1, <2>4
    <3>2. c + 1 \in 1..Len(Stage(0)) /\ Stage(0)'[c] = Stage(0)[c + 1] /\ c + 1 # 1
      BY <2>1, <2>4, <3>1
    <3>3. Frame(Stage(k)[c])' = Frame(Stage(0)[c + 1])
      BY <1>5, <2>4, <3>2 DEF Frame
    <3>4. tpc' \notin Done
      BY <3>1 DEF Posts, Done
    <3>5. Origin(k, c, 0, c + 1)
      BY <2>1, <2>2, <2>4, <3>2, <3>3, <3>4 DEF Origin
    <3> QED BY <1>0, <3>2, <3>5
  <2> QED BY <2>3, <2>4
<1> QED BY <1>1, <1>2, <1>3, <1>4, <1>5, StepKinds

(* Every descriptor has a frame in its slot: a number up to frames.         *)
LEMMA FrameOfDesc ==
  ASSUME TypeInv, NEW d \in Desc
  PROVE Frame(d) \in 0..MaxFrames /\ Frame(d) \in Nat /\ Frame(d) <= frames
<1>1. MapDescToPool(d) \in Slot
  BY MapFacts
<1>2. PICK s \in Slot : s = MapDescToPool(d)
  BY <1>1
<1>3. slot[s] \in 0..MaxFrames /\ slot[s] <= frames
  BY DEF TypeInv, TypeOK, BoundInv
<1> QED BY <1>2, <1>3, ConstantFacts DEF Frame

(* Frames are reported by RpuReport and delivered by RxDeliver only.        *)
LEMMA ReportedNext ==
  ASSUME TypeInv, [Next]_vars
  PROVE /\ \/ reported' = reported
           \/ RpuReport /\ \E n : Reports(n, "data")
        /\ Len(reported) \in Nat /\ Len(reported') \in Nat /\ Len(reported) <= Len(reported')
        /\ \A n \in 1..Len(reported) : reported'[n] = reported[n] /\ reported[n] \in Nat
        /\ frames \in Nat /\ (frames' = frames \/ \E p \in Pool : RpuRx(p))
<1>1. Len(reported) \in Nat /\ frames \in Nat /\ \A n \in 1..Len(reported) : reported[n] \in Nat
  BY ConstantFacts, ElementOfSeq DEF TypeInv, TypeOK
<1>2. CASE RpuReport
  <2>1. PICK n, t : Reports(n, t)
    BY <1>2, RpuReportDoes
  <2>2. frames' = frames
    BY <1>2 DEF RpuReport
  <2>3. CASE t # "data"
    BY <1>1, <2>1, <2>2, <2>3 DEF Reports
  <2>4. CASE t = "data"
    BY <1>1, <1>2, <2>1, <2>2, <2>4, ReportedIs
  <2> QED BY <2>3, <2>4
<1>3. CASE \E p \in Pool : RpuRx(p)
  <2>1. reported' = reported
    BY <1>3 DEF RpuRx
  <2> QED BY <1>1, <1>3, <2>1
<1>4. CASE ~RpuReport /\ ~ \E p \in Pool : RpuRx(p)
  <2>1. reported' = reported /\ frames' = frames
    BY <1>4, StepKinds DEF Keeps, InitDesc, RxEvent, rpuVars
  <2> QED BY <1>1, <2>1
<1> QED BY <1>2, <1>3, <1>4

LEMMA DeliveredNext ==
  ASSUME TypeInv, MapInv, [Next]_vars
  PROVE \/ delivered' = delivered
        \/ /\ RxDeliver /\ tpc = "deliver" /\ tpc' = "check" /\ todo' = todo /\ reported' = reported
           /\ 0 \in 0..End /\ 1 \in 1..Len(Stage(0)) /\ Stage(0)[1] = cur /\ Type(0) = "data" /\ 0 # End
           /\ Frame(cur)' = Frame(cur) /\ Frame(cur) \in Nat
           /\ Len(delivered') = Len(delivered) + 1 /\ Len(delivered) \in Nat
           /\ \A n \in 1..Len(delivered) : delivered'[n] = delivered[n]
           /\ delivered'[Len(delivered) + 1] = Frame(cur)
<1>1. CASE RxDeliver
  <2>1. tpc = "deliver" /\ tpc' = "check" /\ todo' = todo /\ reported' = reported /\ todo.type = "data"
        /\ delivered' = Append(delivered, data[nwb]) /\ slot' = slot
    BY <1>1 DEF RxDeliver, Tasklet, rpuVars
  <2>2. data[nwb] = Frame(cur)
    BY <2>1 DEF MapInv
  <2>3. cur \in Desc /\ Len(todo.descs) \in Nat /\ Len(todo.descs) > 0 /\ cur = todo.descs[1]
    BY <2>1, CurFacts
  <2>4. Frame(cur) \in 0..MaxFrames /\ Frame(cur) \in Nat
    BY <2>3, FrameOfDesc
  <2>5. delivered \in Seq(0..MaxFrames)
    BY DEF TypeInv, TypeOK
  <2>6. PICK f : f = Frame(cur)
    OBVIOUS
  <2>7. /\ Len(delivered') = Len(delivered) + 1 /\ Len(delivered) \in Nat
        /\ \A n \in 1..Len(delivered) : delivered'[n] = delivered[n]
        /\ delivered'[Len(delivered) + 1] = f
    BY <2>1, <2>2, <2>4, <2>5, <2>6, AppendFacts
  <2>8. Stage(0) = todo.descs /\ Type(0) = "data" /\ 0 \in 0..End /\ 0 # End
    BY <2>1, QueueFacts DEF Stage, Type, End
  <2>9. Frame(cur)' = Frame(cur)
    BY <2>1 DEF Frame, cur
  <2> QED BY <1>1, <2>1, <2>3, <2>4, <2>6, <2>7, <2>8, <2>9
<1>2. CASE ~RxDeliver
  <2>1. CASE UNCHANGED vars
    BY <2>1 DEF vars, taskletVars
  <2>2. CASE DevNext
    BY <2>2, DevKeeps
  <2>3. CASE RpuNext \/ RxEvent
    BY <2>3 DEF RpuNext, RpuInit, RpuReport, RpuRx, RxEvent, taskletVars
  <2>4. CASE RxStep \/ RxAllocFail
    BY <1>2, <2>4 DEF RxStep, RxUnmap, RxClear, RxBeacon, RxUnknown, RxAlloc, RxMap, RxSet, RxPost, RxAllocFail
  <2> QED BY <2>1, <2>2, <2>3, <2>4 DEF Next
<1> QED BY <1>1, <1>2

(* So has every place of the pipe.                                          *)
LEMMA FrameTypes ==
  ASSUME TypeInv, NEW i \in 0..End, NEW a \in 1..Len(Stage(i))
  PROVE Frame(Stage(i)[a]) \in Nat /\ Frame(Stage(i)[a]) <= frames
<1>1. Stage(i)[a] \in Desc
  BY StageTypes
<1> QED BY <1>1, FrameOfDesc

LEMMA FilledStage ==
  ASSUME TypeInv PROVE End \in Nat /\ End > 0 /\ Stage(End) = filled /\ End \in 0..End
BY QueueFacts DEF End, Stage

(* What is reported stays in order and before what is filled.               *)
LEMMA ReportOrderNext ==
  ASSUME TypeInv, PipeInv, ReportOrder, [Next]_vars
  PROVE ReportOrder'
<1>0. Len(reported) \in Nat /\ frames \in Nat /\ \A n \in 1..Len(reported) : reported[n] \in Nat
  BY ReportedNext
<1>1. TypeInv'
  BY TypeNext
<1>2. End' \in Nat /\ End' > 0 /\ End' \in 0..End' /\ \A k \in 0..End' : k = End' => Stage(k)' = filled'
  <2>1. Len(event_q') \in Nat
    BY <1>1 DEF TypeInv, TypeOK
  <2>2. \A k \in 0..End' : k = End' => Stage(k)' = filled'
    BY <2>1 DEF Stage, End
  <2> QED BY <2>1, <2>2 DEF End
<1>3. CASE reported' = reported
  <2>1. \A n \in 1..Len(reported) : reported[n] <= frames'
    <3>1. frames' = frames \/ frames' = frames + 1
      BY ReportedNext DEF RpuRx
    <3> QED BY <1>0, <3>1 DEF ReportOrder
  <2>2. ASSUME NEW n \in 1..Len(reported), NEW a \in 1..Len(filled') PROVE reported[n] < Frame(filled[a])'
    <3>1. PICK k : k = End'
      OBVIOUS
    <3>2. k \in 0..End' /\ Stage(k)' = filled' /\ a \in 1..Len(Stage(k)')
      BY <1>2, <3>1
    <3>3. Frame(Stage(k)[a])' = Frame(filled[a])'
      BY <3>2 DEF Frame
    <3>4. CASE Frame(Stage(k)[a])' = frames + 1
      <4>1. reported[n] <= frames
        BY DEF ReportOrder
      <4> QED BY <1>0, <3>3, <3>4, <4>1
    <3>5. CASE \E l \in 0..End : \E m \in 1..Len(Stage(l)) : Origin(k, a, l, m)
      <4>1. PICK l \in 0..End : \E m \in 1..Len(Stage(l)) : Origin(k, a, l, m)
        BY <3>5
      <4>2. PICK m \in 1..Len(Stage(l)) : Origin(k, a, l, m)
        BY <4>1
      <4>3. l = End /\ Frame(Stage(k)[a])' = Frame(Stage(l)[m])
        BY <3>1, <4>2 DEF Origin
      <4>4. Stage(l) = filled
        BY <4>3, FilledStage
      <4>5. reported[n] < Frame(filled[m])
        BY <4>4 DEF ReportOrder
      <4> QED BY <3>3, <4>3, <4>4, <4>5
    <3> QED BY <3>2, <3>4, <3>5, OriginExists
  <2>3. \A m, n \in 1..Len(reported) : m < n => reported[m] < reported[n]
    BY DEF ReportOrder
  <2> QED BY <1>3, <2>1, <2>2, <2>3 DEF ReportOrder
<1>4. CASE RpuReport /\ \E n : Reports(n, "data")
  <2>0. PICK n : Reports(n, "data")
    BY <1>4
  <2>1. /\ Len(reported') = Len(reported) + n /\ n \in Nat
        /\ \A i \in 1..Len(reported) : reported'[i] = reported[i]
        /\ \A i \in 1..n : reported'[Len(reported) + i] = Frame(filled[i])
    BY <2>0, ReportedIs
  <2>2. /\ n \in 1..Len(filled) /\ Len(filled) \in Nat
        /\ Len(filled') = Len(filled) - n
        /\ \A i \in 1..(Len(filled) - n) : filled'[i] = filled[n + i]
    BY <2>0, QueueFacts DEF Reports
  <2>3. \A a, b \in 1..Len(filled) : a < b => Frame(filled[a]) < Frame(filled[b])
    BY FilledStage DEF PipeInv, Precedes
  <2>4. slot' = slot /\ frames' = frames
    BY <1>4 DEF RpuReport
  <2>5. \A a \in 1..Len(filled) : Frame(filled[a]) \in Nat /\ Frame(filled[a]) <= frames
    BY FilledStage, FrameTypes
  <2>6. ASSUME NEW x \in 1..Len(reported')
        PROVE \/ x \in 1..Len(reported) /\ reported'[x] = reported[x]
              \/ \E i \in 1..n : x = Len(reported) + i /\ reported'[x] = Frame(filled[i])
    <3>1. CASE x <= Len(reported)
      BY <1>0, <2>1, <3>1
    <3>2. CASE x > Len(reported)
      <4>1. x - Len(reported) \in 1..n /\ x = Len(reported) + (x - Len(reported))
        BY <1>0, <2>1, <3>2
      <4> QED BY <2>1, <4>1
    <3> QED BY <1>0, <2>1, <3>1, <3>2
  <2>7. ASSUME NEW x \in 1..Len(reported') PROVE reported'[x] <= frames'
    <3>1. CASE x \in 1..Len(reported) /\ reported'[x] = reported[x]
      BY <2>4, <3>1 DEF ReportOrder
    <3>2. CASE \E i \in 1..n : x = Len(reported) + i /\ reported'[x] = Frame(filled[i])
      <4>1. PICK i \in 1..n : reported'[x] = Frame(filled[i])
        BY <3>2
      <4>2. i \in 1..Len(filled)
        BY <2>2
      <4> QED BY <2>4, <2>5, <4>1, <4>2
    <3> QED BY <2>6, <3>1, <3>2
  <2>8. ASSUME NEW x \in 1..Len(reported'), NEW y \in 1..Len(reported'), x < y
        PROVE reported'[x] < reported'[y]
    <3>1. CASE x \in 1..Len(reported) /\ y \in 1..Len(reported)
      BY <2>1, <2>8, <3>1 DEF ReportOrder
    <3>2. CASE \E i \in 1..n : y = Len(reported) + i /\ reported'[y] = Frame(filled[i])
      <4>1. PICK i \in 1..n : y = Len(reported) + i /\ reported'[y] = Frame(filled[i])
        BY <3>2
      <4>2. i \in 1..Len(filled)
        BY <2>2, <4>1
      <4>3. CASE x \in 1..Len(reported) /\ reported'[x] = reported[x]
        BY <4>1, <4>2, <4>3 DEF ReportOrder
      <4>4. CASE \E j \in 1..n : x = Len(reported) + j /\ reported'[x] = Frame(filled[j])
        <5>1. PICK j \in 1..n : x = Len(reported) + j /\ reported'[x] = Frame(filled[j])
          BY <4>4
        <5>2. j \in 1..Len(filled) /\ j < i
          BY <1>0, <2>2, <2>8, <4>1, <5>1
        <5> QED BY <2>3, <4>1, <4>2, <5>1, <5>2
      <4> QED BY <2>6, <4>3, <4>4
    <3>3. CASE y \in 1..Len(reported)
      BY <1>0, <2>1, <2>8, <3>1, <3>3
    <3> QED BY <2>6, <3>2, <3>3
  <2>9. ASSUME NEW x \in 1..Len(reported'), NEW a \in 1..Len(filled')
        PROVE reported'[x] < Frame(filled'[a])
    <3>1. n + a \in 1..Len(filled) /\ filled'[a] = filled[n + a] /\ a \in Nat /\ a > 0
      BY <2>2
    <3>2. CASE x \in 1..Len(reported) /\ reported'[x] = reported[x]
      <4>1. reported[x] < Frame(filled[n + a])
        BY <3>1, <3>2 DEF ReportOrder
      <4> QED BY <3>1, <3>2, <4>1
    <3>3. CASE \E j \in 1..n : x = Len(reported) + j /\ reported'[x] = Frame(filled[j])
      <4>1. PICK j \in 1..n : reported'[x] = Frame(filled[j])
        BY <3>3
      <4>2. j \in 1..Len(filled) /\ j < n + a
        BY <2>2, <3>1
      <4>3. Frame(filled[j]) < Frame(filled[n + a])
        BY <2>3, <3>1, <4>2
      <4> QED BY <3>1, <4>1, <4>3
    <3> QED BY <2>6, <3>2, <3>3
  <2>10. \A x \in 1..Len(reported'), a \in 1..Len(filled') : reported'[x] < Frame(filled[a])'
    BY <2>4, <2>9 DEF Frame
  <2> QED BY <2>7, <2>8, <2>10 DEF ReportOrder
<1> QED BY <1>3, <1>4, ReportedNext

(* The frames of a data event are reported ones. *)
LEMMA DataReported ==
  ASSUME TypeInv, PipeInv, FrameInv, [Next]_vars,
         NEW k \in 0..Len(event_q'), Type(k)' = "data", NEW c \in 1..Len(Stage(k)')
  PROVE \E n \in 1..Len(reported') : reported'[n] = Frame(Stage(k)[c])'
<1>0. Len(reported) \in Nat /\ Len(reported') \in Nat /\ Len(reported) <= Len(reported')
      /\ \A n \in 1..Len(reported) : reported'[n] = reported[n]
  BY ReportedNext
<1>1. k \in 0..End' /\ k # End'
  <2>1. Len(event_q') \in Nat
    BY TypeNext DEF TypeInv, TypeOK
  <2> QED BY <2>1 DEF End
<1>2. CASE \E l \in 0..End : \E m \in 1..Len(Stage(l)) : Origin(k, c, l, m)
  <2>1. PICK l \in 0..End : \E m \in 1..Len(Stage(l)) : Origin(k, c, l, m)
    BY <1>2
  <2>2. PICK m \in 1..Len(Stage(l)) : Origin(k, c, l, m)
    BY <2>1
  <2>3. CASE l # End /\ Type(k)' = Type(l)
    <3>1. l \in 0..Len(event_q)
      BY <2>3, QueueFacts DEF End
    <3>2. PICK n \in 1..Len(reported) : reported[n] = Frame(Stage(l)[m])
      BY <2>3, <3>1 DEF FrameInv
    <3>3. n \in 1..Len(reported') /\ reported'[n] = Frame(Stage(l)[m])
      BY <1>0, <3>2
    <3>4. Frame(Stage(k)[c])' = Frame(Stage(l)[m])
      BY <2>2 DEF Origin
    <3> QED BY <3>3, <3>4
  <2>4. CASE l = End /\ k = End /\ m = c /\ RpuReport
    <3>1. PICK n, t : Reports(n, t)
      BY <2>4, RpuReportDoes
    <3>2. /\ End \in Nat /\ \A i \in 0..(End + 1) : i = End => Stage(i)' = event_q'[End].descs /\ Type(i)' = t
          /\ Len(event_q'[End].descs) = n
          /\ Stage(End) = filled
      BY <2>4, <3>1, PipeReport
    <3>3. t = "data" /\ c \in 1..n
      BY <2>4, <3>2
    <3>4. /\ Len(reported') = Len(reported) + n /\ n \in Nat
          /\ reported'[Len(reported) + c] = Frame(filled[c])
      BY <3>1, <3>3, ReportedIs
    <3>5. Len(reported) + c \in 1..Len(reported')
      BY <1>0, <3>3, <3>4
    <3>6. Frame(Stage(k)[c])' = Frame(Stage(l)[m])
      BY <2>2 DEF Origin
    <3>7. Frame(Stage(l)[m]) = Frame(filled[c])
      BY <2>4, <3>2
    <3> QED BY <3>4, <3>5, <3>6, <3>7
  <2> QED BY <1>1, <2>2, <2>3, <2>4 DEF Origin
<1> QED BY <1>1, <1>2, OriginExists

(* What the stack has is before what is in the pipe.                        *)
LEMMA LaterFrames ==
  ASSUME TypeInv, PipeInv, MapInv, FrameInv, [Next]_vars,
         NEW k \in 0..End', NEW c \in 1..Len(Stage(k)'), NEW x \in 1..Len(delivered')
  PROVE \/ delivered'[x] < Frame(Stage(k)[c])'
        \/ k = 0 /\ c = 1 /\ tpc' \in Done /\ delivered'[x] = Frame(Stage(k)[c])'
<1>0. ASSUME NEW y \in 1..Len(delivered) PROVE delivered[y] \in Nat /\ delivered[y] <= frames
  <2>1. PICK n \in 1..Len(reported) : reported[n] = delivered[y]
    BY DEF FrameInv
  <2>2. reported[n] <= frames
    BY DEF FrameInv, ReportOrder
  <2>3. reported[n] \in Nat
    BY ReportedNext
  <2> QED BY <2>1, <2>2, <2>3
<1>1. CASE (\E p \in Pool : RpuRx(p)) /\ Frame(Stage(k)[c])' = frames + 1
  <2>1. delivered' = delivered
    BY <1>1 DEF RpuRx, taskletVars
  <2>2. frames \in Nat
    BY ReportedNext
  <2> QED BY <1>0, <1>1, <2>1, <2>2
<1>2. CASE \E l \in 0..End : \E m \in 1..Len(Stage(l)) : Origin(k, c, l, m)
  <2>1. PICK l \in 0..End : \E m \in 1..Len(Stage(l)) : Origin(k, c, l, m)
    BY <1>2
  <2>2. PICK m \in 1..Len(Stage(l)) : Origin(k, c, l, m)
    BY <2>1
  <2>3. Frame(Stage(k)[c])' = Frame(Stage(l)[m])
    BY <2>2 DEF Origin
  <2>4. ASSUME NEW y \in 1..Len(delivered)
        PROVE \/ delivered[y] < Frame(Stage(l)[m])
              \/ l = 0 /\ m = 1 /\ tpc \in Done /\ delivered[y] = Frame(Stage(l)[m])
    BY DEF FrameInv
  <2>5. l = 0 /\ m = 1 => k = 0 /\ c = 1 /\ todo' = todo
    BY <2>2 DEF Origin
  <2>6. CASE delivered' = delivered
    <3>1. CASE delivered[x] < Frame(Stage(l)[m])
      BY <2>3, <2>6, <3>1
    <3>2. CASE l = 0 /\ m = 1 /\ tpc \in Done /\ delivered[x] = Frame(Stage(l)[m])
      BY <2>3, <2>5, <2>6, <3>2, DoneNext
    <3> QED BY <2>4, <2>6, <3>1, <3>2
  <2>7. CASE /\ RxDeliver /\ tpc = "deliver" /\ tpc' = "check"
             /\ 0 \in 0..End /\ 1 \in 1..Len(Stage(0)) /\ Stage(0)[1] = cur
             /\ Len(delivered') = Len(delivered) + 1 /\ Len(delivered) \in Nat
             /\ \A n \in 1..Len(delivered) : delivered'[n] = delivered[n]
             /\ delivered'[Len(delivered) + 1] = Frame(cur)
    <3>1. tpc \notin Done /\ tpc' \in Done
      BY <2>7 DEF Done
    <3>2. CASE x \in 1..Len(delivered)
      BY <2>3, <2>4, <2>7, <3>1, <3>2
    <3>3. CASE x = Len(delivered) + 1
      <4>1. CASE l = 0 /\ m = 1
        BY <2>3, <2>5, <2>7, <3>1, <3>3, <4>1
      <4>2. CASE ~(l = 0 /\ m = 1)
        <5>1. Precedes(0, 1, l, m)
          BY <4>2, QueueFacts DEF Precedes, End
        <5>2. Frame(Stage(0)[1]) < Frame(Stage(l)[m])
          BY <2>7, <5>1 DEF PipeInv
        <5> QED BY <2>3, <2>7, <3>3, <5>2
      <4> QED BY <4>1, <4>2
    <3> QED BY <2>7, <3>2, <3>3
  <2> QED BY <2>6, <2>7, DeliveredNext
<1> QED BY <1>1, <1>2, OriginExists

LEMMA FrameNext ==
  TypeInv /\ PipeInv /\ MapInv /\ FrameInv /\ [Next]_vars => FrameInv'
<1> SUFFICES ASSUME TypeInv, PipeInv, MapInv, FrameInv, [Next]_vars PROVE FrameInv'
  OBVIOUS
<1>0. Len(reported) \in Nat /\ Len(reported') \in Nat /\ Len(reported) <= Len(reported')
      /\ \A n \in 1..Len(reported) : reported'[n] = reported[n]
  BY ReportedNext
<1>1. ReportOrder'
  BY ReportOrderNext DEF FrameInv
<1>2. \A i \in 0..Len(event_q') : Type(i)' = "data" =>
        \A a \in 1..Len(Stage(i)') : \E n \in 1..Len(reported') : reported'[n] = Frame(Stage(i)[a])'
  BY DataReported
<1>3. \A i \in 0..End' : \A a \in 1..Len(Stage(i)'), m \in 1..Len(delivered') :
        \/ delivered'[m] < Frame(Stage(i)[a])'
        \/ i = 0 /\ a = 1 /\ tpc' \in Done /\ delivered'[m] = Frame(Stage(i)[a])'
  BY LaterFrames
<1>4. /\ \A m, n \in 1..Len(delivered') : m < n => delivered'[m] < delivered'[n]
      /\ \A m \in 1..Len(delivered') : \E n \in 1..Len(reported') : reported'[n] = delivered'[m]
  <2>1. CASE delivered' = delivered
    <3>1. \A m \in 1..Len(delivered) : \E n \in 1..Len(reported') : reported'[n] = delivered[m]
      <4> TAKE m \in 1..Len(delivered)
      <4>1. PICK n \in 1..Len(reported) : reported[n] = delivered[m]
        BY DEF FrameInv
      <4>2. n \in 1..Len(reported') /\ reported'[n] = delivered[m]
        BY <1>0, <4>1
      <4> QED BY <4>2
    <3>2. \A m, n \in 1..Len(delivered) : m < n => delivered[m] < delivered[n]
      BY DEF FrameInv
    <3> QED BY <2>1, <3>1, <3>2
  <2>2. CASE /\ tpc = "deliver" /\ reported' = reported
             /\ 0 \in 0..End /\ 1 \in 1..Len(Stage(0)) /\ Stage(0)[1] = cur /\ Type(0) = "data"
             /\ Len(delivered') = Len(delivered) + 1 /\ Len(delivered) \in Nat
             /\ \A n \in 1..Len(delivered) : delivered'[n] = delivered[n]
             /\ delivered'[Len(delivered) + 1] = Frame(cur)
    <3>1. \A m \in 1..Len(delivered) : delivered[m] < Frame(cur)
      <4>1. tpc \notin Done
        BY <2>2 DEF Done
      <4>2. \A m \in 1..Len(delivered) : delivered[m] < Frame(Stage(0)[1])
        BY <2>2, <4>1 DEF FrameInv
      <4> QED BY <2>2, <4>2
    <3>2. \E n \in 1..Len(reported) : reported[n] = Frame(cur)
      <4>1. 0 \in 0..Len(event_q)
        BY QueueFacts
      <4>2. \E n \in 1..Len(reported) : reported[n] = Frame(Stage(0)[1])
        BY <2>2, <4>1 DEF FrameInv
      <4> QED BY <2>2, <4>2
    <3>3. \A m \in 1..Len(delivered') : m \in 1..Len(delivered) \/ m = Len(delivered) + 1
      BY <2>2
    <3>4. \A m, n \in 1..Len(delivered) : m < n => delivered[m] < delivered[n]
      BY DEF FrameInv
    <3>5. \A m \in 1..Len(delivered) : \E n \in 1..Len(reported) : reported[n] = delivered[m]
      BY DEF FrameInv
    <3>6. \A m, n \in 1..Len(delivered') : m < n => delivered'[m] < delivered'[n]
      BY <2>2, <3>1, <3>3, <3>4
    <3>7. \A m \in 1..Len(delivered') : \E n \in 1..Len(reported') : reported'[n] = delivered'[m]
      BY <2>2, <3>2, <3>3, <3>5
    <3> QED BY <3>6, <3>7
  <2> QED BY <2>1, <2>2, DeliveredNext
<1> QED BY <1>1, <1>2, <1>3, <1>4 DEF FrameInv
-----------------------------------------------------------------------------
(* What has failed stays so, and no event is left while nothing has.        *)
LEMMA FailedStays ==
  ASSUME TypeInv, [Next]_vars, ~Failed'
  PROVE ~Failed /\ allocFails' = 0 /\ unknown' = 0
<1>1. /\ allocFails' = allocFails \/ allocFails' = allocFails + 1
      /\ unknown' = unknown \/ unknown' = unknown + 1
      /\ allocFails \in Nat /\ unknown \in Nat /\ allocFails' \in Nat /\ unknown' \in Nat
      /\ dev \in Stopping => dev' \in Stopping
  BY CountsGrow
<1>2. ~(allocFails' + unknown' > 0) /\ dev' \notin Stopping
  BY DEF Failed
<1>3. allocFails' = 0 /\ unknown' = 0
  <2>1. allocFails' \in Nat /\ unknown' \in Nat /\ ~(allocFails' + unknown' > 0)
    BY <1>1, <1>2
  <2>2. \A a, b \in Nat : ~(a + b > 0) => a = 0 /\ b = 0
    OBVIOUS
  <2> QED BY <2>1, <2>2
<1>4. allocFails = 0 /\ unknown = 0
  BY <1>1, <1>3
<1>5. dev \notin Stopping
  BY <1>1, <1>2
<1> QED BY <1>3, <1>4, <1>5 DEF Failed

FewHandled == Handled <= unknown
LEMMA HandledFew == TypeInv => FewHandled
BY UnknownCount DEF FewHandled

LEMMA NoneLeft ==
  ASSUME TypeInv, QuietInv, UnknownInv, AgreeInv, [Next]_vars, ~Failed'
  PROVE ~(RxUnmap /\ GivesUp) /\ ~RxUnknown /\ ~RxAllocFail
<1>1. ~Failed /\ allocFails' = 0 /\ unknown' = 0
  BY FailedStays
<1>2. ASSUME RxUnmap, GivesUp PROVE FALSE
  <2>1. tpc = "unmap" /\ tpc' = "off"
    BY <1>2 DEF RxUnmap, GivesUp, Leave
  <2>2. dev \in {"wait", "up"}
    <3>1. rpu = "on" /\ dev \notin Stopping
      BY <1>1, <2>1 DEF QuietInv, Failed
    <3> QED BY <3>1 DEF QuietInv, TypeInv, TypeOK, Starting
  <2>3. hal_map[MapDescToPool(cur)] # NoBuf
    BY <2>1, <2>2, UnmapFinds DEF Hal
  <2>4. tpc' = "clear"
    BY <1>2, <2>3 DEF RxUnmap
  <2> QED BY <2>1, <2>4
<1>3. ASSUME RxUnknown PROVE FALSE
  <2>1. Handled \in Nat /\ Handled' \in Nat /\ Handled' = Handled + 1
    BY <1>3, HandledNext
  <2>2. Handled' <= unknown'
    <3>1. TypeInv'
      BY TypeNext
    <3>2. FewHandled'
      BY <3>1, HandledFew, PTL
    <3> QED BY <3>2 DEF FewHandled
  <2>3. PICK h : h = Handled
    OBVIOUS
  <2>4. PICK g : g = Handled'
    OBVIOUS
  <2> QED BY <1>1, <2>1, <2>2, <2>3, <2>4
<1>4. ASSUME RxAllocFail PROVE FALSE
  <2>1. allocFails' = allocFails + 1
    BY <1>4 DEF RxAllocFail, Fail
  <2> QED BY <1>1, <2>1, CountsGrow
<1> QED BY <1>2, <1>3, <1>4

(* While nothing fails a data frame stays in the pipe until it is given to  *)
(* the stack.                                                               *)
WaitsNow(i, a, f) == /\ Type(i)' = "data" /\ Frame(Stage(i)[a])' = f
                     /\ ~(i = 0 /\ a = 1 /\ tpc' \in Done)
LEMMA WaitsNext ==
  ASSUME TypeInv, QuietInv, PipeInv, UnknownInv, AgreeInv, [Next]_vars, ~Failed',
         NEW i \in 0..Len(event_q), NEW a \in 1..Len(Stage(i)), NEW f, Waits(i, a, f)
  PROVE \/ \E k \in 0..Len(event_q') : \E c \in 1..Len(Stage(k)') : WaitsNow(k, c, f)
        \/ i = 0 /\ a = 1 /\ RxDeliver
<1>0. End = Len(event_q) + 1 /\ Len(event_q) \in Nat /\ i \in 0..End /\ i # End /\ End \in Nat
  BY QueueFacts DEF End
<1>1. ASSUME event_q' = event_q \/ Len(event_q') = Len(event_q) + 1,
             Type(i)' = Type(i), Stage(i)' = Stage(i), Frame(Stage(i)[a])' = Frame(Stage(i)[a]),
             i # 0 \/ todo' = todo
      PROVE \/ \E k \in 0..Len(event_q') : \E c \in 1..Len(Stage(k)') : WaitsNow(k, c, f)
            \/ i = 0 /\ a = 1 /\ RxDeliver
  <2>1. i \in 0..Len(event_q') /\ a \in 1..Len(Stage(i)')
    BY <1>0, <1>1
  <2>2. CASE i = 0 /\ a = 1 /\ tpc' \in Done
    <3>1. tpc \notin Done /\ todo.type = "data"
      BY <2>2 DEF Waits, Type
    <3>2. RxDeliver
      BY <2>2, <3>1, DoneNext DEF RxBeacon
    <3> QED BY <2>2, <3>2
  <2>3. CASE ~(i = 0 /\ a = 1 /\ tpc' \in Done)
    <3>1. WaitsNow(i, a, f)
      BY <1>1, <2>3 DEF Waits, WaitsNow
    <3> QED BY <2>1, <3>1
  <2> QED BY <2>2, <2>3
<1>2. CASE Keeps \/ InitDesc
  <2>1. UNCHANGED <<todo, event_q, filled, slot>>
    BY <1>2 DEF Keeps, InitDesc, rpuVars, taskletVars
  <2>2. Stage(i)' = Stage(i) /\ Type(i)' = Type(i)
    BY <1>0, <2>1, PipeSame DEF PipeKept
  <2>3. Frame(Stage(i)[a])' = Frame(Stage(i)[a])
    BY <2>1, <2>2 DEF Frame
  <2> QED BY <1>1, <2>1, <2>2, <2>3
<1>3. CASE \E p \in Pool : RpuRx(p)
  <2>1. PICK p \in Pool : RpuRx(p)
    BY <1>3
  <2>2. PICK d : Receives(p, d)
    BY <2>1, RpuRxDoes
  <2>3. Stage(i)' = Stage(i) /\ Type(i)' = Type(i)
    <3>1. i \in 0..(End - 1)
      BY <1>0
    <3> QED BY <2>1, <2>2, <3>1, PipeRx
  <2>4. Stage(i)[a] \in Desc /\ Stage(i)[a] # d
    <3>1. d \in InPosted
      BY <2>2, RxTakes
    <3> QED BY <1>0, <3>1, StageTypes DEF PipeInv
  <2>5. PICK e : e = Stage(i)[a]
    OBVIOUS
  <2>6. Frame(e)' = Frame(e)
    BY <2>2, <2>4, <2>5 DEF Receives
  <2>7. Frame(Stage(i)[a])' = Frame(Stage(i)[a])
    BY <2>3, <2>5, <2>6 DEF Frame
  <2>8. event_q' = event_q /\ todo' = todo
    BY <2>1 DEF RpuRx, taskletVars
  <2> QED BY <1>1, <2>3, <2>7, <2>8
<1>4. CASE RpuReport
  <2>1. PICK n, t : Reports(n, t)
    BY <1>4, RpuReportDoes
  <2>2. Stage(i)' = Stage(i) /\ Type(i)' = Type(i)
    <3>1. i \in 0..(End - 1)
      BY <1>0
    <3> QED BY <1>4, <2>1, <3>1, PipeReport
  <2>3. Len(event_q') = Len(event_q) + 1
    BY <2>1 DEF Reports
  <2>4. slot' = slot /\ todo' = todo
    BY <1>4 DEF RpuReport, taskletVars
  <2>5. Frame(Stage(i)[a])' = Frame(Stage(i)[a])
    BY <2>2, <2>4 DEF Frame
  <2> QED BY <1>1, <2>2, <2>3, <2>4, <2>5
<1>5. CASE RxEvent
  <2>1. /\ End > 1 /\ Stage(0) = <<>>
        /\ \A k \in 0..(End - 1) : Stage(k)' = Stage(k + 1)
        /\ \A k \in 0..(End - 2) : Type(k)' = Type(k + 1)
    BY <1>5, PipeTake
  <2>2. Len(event_q') = Len(event_q) - 1 /\ tpc' = "unmap"
    BY <1>5, RxEventDoes
  <2>3. slot' = slot
    BY <1>5 DEF RxEvent
  <2>4. i # 0
    <3>1. Len(Stage(0)) = 0
      BY <2>1
    <3> QED BY <3>1
  <2>5. PICK k : k = i - 1
    OBVIOUS
  <2>6. k \in 0..(End - 2) /\ k \in 0..(End - 1) /\ k + 1 = i /\ k \in 0..Len(event_q')
    BY <1>0, <2>2, <2>4, <2>5
  <2>7. Stage(k)' = Stage(i) /\ Type(k)' = Type(i)
    BY <2>1, <2>6
  <2>8. Frame(Stage(k)[a])' = Frame(Stage(i)[a])
    BY <2>3, <2>7 DEF Frame
  <2>9. WaitsNow(k, a, f)
    BY <2>2, <2>7, <2>8 DEF Waits, WaitsNow, Done
  <2> QED BY <2>6, <2>7, <2>9
<1>6. CASE RxPost /\ Posts /\ UNCHANGED <<event_q, filled, slot>>
  <2>1. tpc = "post" /\ tpc # "off" /\ tpc' \notin Done
    BY <1>6 DEF Posts, Done
  <2>2. /\ \A k \in 1..End : Stage(k)' = Stage(k)
        /\ \A k \in 0..(End - 1) : Type(k)' = Type(k)
        /\ Len(Stage(0)) \in Nat
        /\ Len(Stage(0)') = Len(Stage(0)) - 1
        /\ \A n \in 1..Len(Stage(0)') : Stage(0)'[n] = Stage(0)[n + 1]
    BY <1>6, <2>1, PipePost
  <2>3. Type(i)' = Type(i)
    BY <1>0, <2>2
  <2>4. CASE i # 0
    <3>1. Stage(i)' = Stage(i)
      BY <1>0, <2>2, <2>4
    <3>2. Frame(Stage(i)[a])' = Frame(Stage(i)[a])
      BY <1>6, <3>1 DEF Frame
    <3> QED BY <1>1, <1>6, <2>3, <2>4, <3>1, <3>2
  <2>5. CASE i = 0
    <3>1. a # 1
      BY <2>1, <2>5 DEF Waits, Done
    <3>2. PICK c : c = a - 1
      OBVIOUS
    <3>3. c \in 1..Len(Stage(0)') /\ Stage(0)'[c] = Stage(0)[a]
      BY <2>2, <2>5, <3>1, <3>2
    <3>4. Frame(Stage(0)[c])' = Frame(Stage(0)[a])
      BY <1>6, <3>3 DEF Frame
    <3>5. WaitsNow(0, c, f)
      BY <2>1, <2>3, <2>5, <3>4 DEF Waits, WaitsNow
    <3>6. 0 \in 0..Len(event_q')
      BY <1>0, <1>6
    <3> QED BY <3>3, <3>5, <3>6
  <2> QED BY <2>4, <2>5
<1>7. CASE (RxUnmap \/ RxUnknown \/ RxAllocFail) /\ GivesUp
  BY <1>7, NoneLeft
<1> QED BY <1>2, <1>3, <1>4, <1>5, <1>6, <1>7, StepKinds

(* A frame just reported waits for the tasklet. *)
LEMMA NewWaits ==
  ASSUME TypeInv, QuietInv, PipeInv, UnknownInv, AgreeInv, [Next]_vars, ~Failed',
         NEW n, RpuReport, Reports(n, "data"), NEW c \in 1..n
  PROVE \E k \in 0..Len(event_q') : \E b \in 1..Len(Stage(k)') : WaitsNow(k, b, Frame(filled[c]))
<1>1. /\ End \in Nat /\ End > 0 /\ Stage(End) = filled
      /\ n \in Nat /\ n <= Len(Stage(End))
      /\ Len(event_q'[End].descs) = n
      /\ \A a \in 1..n : event_q'[End].descs[a] = Stage(End)[a]
      /\ \A i \in 0..(End + 1) : i = End => Stage(i)' = event_q'[End].descs /\ Type(i)' = "data"
  BY PipeReport
<1>2. PICK k : k = End
  OBVIOUS
<1>3. k \in 0..(End + 1) /\ k # 0 /\ k \in 0..Len(event_q')
  BY <1>1, <1>2, QueueFacts DEF Reports, End
<1>4. c \in 1..Len(Stage(k)') /\ Stage(k)'[c] = filled[c] /\ Type(k)' = "data"
  BY <1>1, <1>2, <1>3
<1>5. slot' = slot
  BY DEF RpuReport
<1>6. Frame(Stage(k)[c])' = Frame(filled[c])
  BY <1>4, <1>5 DEF Frame
<1>7. WaitsNow(k, c, Frame(filled[c]))
  BY <1>3, <1>4, <1>6 DEF WaitsNow
<1> QED BY <1>3, <1>4, <1>7

(* The frame delivered is the first of the reported ones the stack does not *)
(* have.                                                                    *)
LEMMA NextFrame ==
  ASSUME TypeInv, PipeInv, FrameInv, Complete, tpc = "deliver", Type(0) = "data",
         1 \in 1..Len(Stage(0)), Stage(0)[1] = cur, Len(delivered) \in Nat
  PROVE Len(delivered) < Len(reported) /\ reported[Len(delivered) + 1] = Frame(cur)
<1>0. Len(reported) \in Nat /\ \A n \in 1..Len(reported) : reported[n] \in Nat
  BY ElementOfSeq, ConstantFacts DEF TypeInv, TypeOK
<1>1. 0 \in 0..Len(event_q) /\ 0 \in 0..End
  BY QueueFacts DEF End
<1>2. PICK n \in 1..Len(reported) : reported[n] = Frame(cur)
  BY <1>1 DEF FrameInv
<1>3. ~(n <= Len(delivered))
  <2> SUFFICES ASSUME n <= Len(delivered) PROVE FALSE
    OBVIOUS
  <2>1. n \in 1..Len(delivered)
    BY <1>0
  <2>2. delivered[n] = reported[n]
    BY <2>1 DEF Complete
  <2>3. delivered[n] < Frame(cur)
    BY <1>1, <2>1 DEF FrameInv, Done
  <2> QED BY <1>0, <1>2, <2>2, <2>3
<1>4. ~(n > Len(delivered) + 1)
  <2> SUFFICES ASSUME n > Len(delivered) + 1 PROVE FALSE
    OBVIOUS
  <2>1. PICK f : f = Len(delivered) + 1
    OBVIOUS
  <2>2. f \in 1..Len(reported) /\ f < n /\ f \in (Len(delivered) + 1)..Len(reported)
    BY <1>0, <2>1
  <2>3. reported[f] < Frame(cur)
    BY <1>2, <2>2 DEF FrameInv, ReportOrder
  <2>4. Waiting(reported[f])
    BY <2>2 DEF Complete
  <2>5. PICK i \in 0..Len(event_q) : \E a \in 1..Len(Stage(i)) : Waits(i, a, reported[f])
    BY <2>4 DEF Waiting
  <2>6. PICK a \in 1..Len(Stage(i)) : Waits(i, a, reported[f])
    BY <2>5
  <2>7. Frame(Stage(i)[a]) = reported[f] /\ i \in 0..End
    BY <2>6, QueueFacts DEF Waits, End
  <2>8. CASE i = 0 /\ a = 1
    BY <1>0, <2>2, <2>3, <2>7, <2>8
  <2>9. CASE ~(i = 0 /\ a = 1)
    <3>1. Precedes(0, 1, i, a)
      BY <2>9 DEF Precedes
    <3>2. Frame(Stage(0)[1]) < Frame(Stage(i)[a])
      BY <1>1, <2>7, <3>1 DEF PipeInv
    <3>3. Frame(cur) < reported[f] /\ Frame(cur) \in Nat /\ reported[f] \in Nat
      BY <1>0, <1>2, <2>2, <2>7, <3>2
    <3> QED BY <2>3, <3>3
  <2> QED BY <2>8, <2>9
<1>5. n = Len(delivered) + 1
  BY <1>0, <1>3, <1>4
<1> QED BY <1>0, <1>2, <1>5

LEMMA UnfailedNext ==
  TypeInv /\ QuietInv /\ PipeInv /\ UnknownInv /\ MapInv /\ AgreeInv /\ FrameInv /\ UnfailedInv
    /\ [Next]_vars => UnfailedInv'
<1> SUFFICES ASSUME TypeInv, QuietInv, PipeInv, UnknownInv, MapInv, AgreeInv, FrameInv, UnfailedInv,
                    [Next]_vars, ~Failed'
             PROVE Complete'
  BY DEF UnfailedInv
<1>0. Len(reported) \in Nat /\ Len(reported') \in Nat /\ Len(reported) <= Len(reported')
      /\ \A n \in 1..Len(reported) : reported'[n] = reported[n] /\ reported[n] \in Nat
  BY ReportedNext
<1>1. Complete
  BY FailedStays DEF UnfailedInv
<1>2. Len(delivered) \in Nat
  BY DEF TypeInv, TypeOK
<1>3. ASSUME NEW f, Waiting(f), ~(RxDeliver /\ f = Frame(Stage(0)[1])) PROVE Waiting(f)'
  <2>1. PICK i \in 0..Len(event_q) : \E a \in 1..Len(Stage(i)) : Waits(i, a, f)
    BY <1>3 DEF Waiting
  <2>2. PICK a \in 1..Len(Stage(i)) : Waits(i, a, f)
    BY <2>1
  <2>3. ~(i = 0 /\ a = 1 /\ RxDeliver)
    BY <1>3, <2>2 DEF Waits
  <2>4. \E k \in 0..Len(event_q') : \E c \in 1..Len(Stage(k)') : WaitsNow(k, c, f)
    BY <2>2, <2>3, WaitsNext
  <2> QED BY <2>4 DEF Waiting, Waits, WaitsNow
<1>4. CASE delivered' = delivered /\ ~RxDeliver
  <2>1. /\ Len(delivered') <= Len(reported')
        /\ \A n \in 1..Len(delivered') : delivered'[n] = reported'[n]
    BY <1>0, <1>1, <1>2, <1>4 DEF Complete
  <2>2. ASSUME NEW n \in (Len(delivered') + 1)..Len(reported') PROVE Waiting(reported[n])'
    <3>1. PICK f : f = reported'[n]
      OBVIOUS
    <3>2. CASE n \in 1..Len(reported)
      <4>1. n \in (Len(delivered) + 1)..Len(reported) /\ f = reported[n]
        BY <1>0, <1>2, <1>4, <3>1, <3>2
      <4>2. Waiting(f)
        BY <1>1, <4>1 DEF Complete
      <4>3. Waiting(f)'
        BY <1>3, <1>4, <4>2
      <4> QED BY <3>1, <4>3 DEF Waiting, Waits
    <3>3. CASE n \notin 1..Len(reported)
      <4>1. n \in Nat /\ n > Len(reported)
        BY <1>0, <1>2, <1>4, <3>3
      <4>2. RpuReport /\ \E m : Reports(m, "data")
        BY <1>0, <4>1, ReportedNext
      <4>3. PICK m : Reports(m, "data")
        BY <4>2
      <4>4. /\ Len(reported') = Len(reported) + m /\ m \in Nat
            /\ \A c \in 1..m : reported'[Len(reported) + c] = Frame(filled[c])
        BY <4>3, ReportedIs
      <4>5. PICK c \in 1..m : n = Len(reported) + c
        <5>1. n - Len(reported) \in 1..m /\ n = Len(reported) + (n - Len(reported))
          BY <1>0, <4>1, <4>4
        <5> QED BY <5>1
      <4>6. f = Frame(filled[c])
        BY <3>1, <4>4, <4>5
      <4>7. \E k \in 0..Len(event_q') : \E b \in 1..Len(Stage(k)') : WaitsNow(k, b, f)
        BY <4>2, <4>3, <4>6, NewWaits
      <4> QED BY <3>1, <4>7 DEF Waiting, Waits, WaitsNow
    <3> QED BY <3>2, <3>3
  <2> QED BY <2>1, <2>2 DEF Complete
<1>5. CASE /\ RxDeliver /\ tpc = "deliver" /\ reported' = reported
           /\ 1 \in 1..Len(Stage(0)) /\ Stage(0)[1] = cur /\ Type(0) = "data"
           /\ Len(delivered') = Len(delivered) + 1
           /\ \A n \in 1..Len(delivered) : delivered'[n] = delivered[n]
           /\ delivered'[Len(delivered) + 1] = Frame(cur)
  <2>1. Len(delivered) < Len(reported) /\ reported[Len(delivered) + 1] = Frame(cur)
    BY <1>1, <1>2, <1>5, NextFrame
  <2>2. Len(delivered') <= Len(reported')
    BY <1>0, <1>2, <1>5, <2>1
  <2>3. ASSUME NEW n \in 1..Len(delivered') PROVE delivered'[n] = reported'[n]
    <3>1. CASE n \in 1..Len(delivered)
      BY <1>1, <1>5, <3>1 DEF Complete
    <3>2. CASE n = Len(delivered) + 1
      BY <1>5, <2>1, <3>2
    <3> QED BY <1>2, <1>5, <3>1, <3>2
  <2>4. ASSUME NEW n \in (Len(delivered') + 1)..Len(reported') PROVE Waiting(reported[n])'
    <3>1. PICK f : f = reported'[n]
      OBVIOUS
    <3>2. n \in (Len(delivered) + 1)..Len(reported) /\ f = reported[n]
          /\ n \in 1..Len(reported) /\ Len(delivered) + 1 \in 1..Len(reported) /\ Len(delivered) + 1 < n
      BY <1>0, <1>2, <1>5, <3>1
    <3>3. Waiting(f)
      BY <1>1, <3>2 DEF Complete
    <3>4. reported[Len(delivered) + 1] < reported[n]
      BY <3>2 DEF FrameInv, ReportOrder
    <3>5. f # Frame(Stage(0)[1])
      BY <1>0, <1>5, <2>1, <3>2, <3>4
    <3>6. Waiting(f)'
      BY <1>3, <3>3, <3>5
    <3> QED BY <3>1, <3>6 DEF Waiting, Waits
  <2> QED BY <2>2, <2>3, <2>4 DEF Complete
<1> QED
  <2>1. RxDeliver => delivered' # delivered
    <3> SUFFICES ASSUME RxDeliver PROVE delivered' # delivered
      OBVIOUS
    <3>1. delivered' = Append(delivered, data[nwb]) /\ tpc = "deliver"
      BY DEF RxDeliver
    <3>2. data[nwb] = Frame(cur) /\ Frame(cur) \in 0..MaxFrames
      BY <3>1, CurFacts, FrameOfDesc DEF MapInv
    <3>3. Len(delivered') = Len(delivered) + 1
      BY <3>1, <3>2, AppendFacts DEF TypeInv, TypeOK
    <3> QED BY <1>2, <3>3
  <2> QED BY <1>4, <1>5, <2>1, DeliveredNext
-----------------------------------------------------------------------------
LEMMA RxInit == Init => RxInv
<1> SUFFICES ASSUME Init PROVE RxInv
  OBVIOUS
<1>0. TypeInv
  BY TypeInit
<1>1. /\ event_q = <<>> /\ todo.descs = <<>> /\ todo.type = "data" /\ filled = <<>>
      /\ tpc = "off" /\ dev = "down" /\ di = 0 /\ rpu = "off"
      /\ reported = <<>> /\ delivered = <<>> /\ unknown = 0 /\ allocFails = 0 /\ late = FALSE
      /\ nwb = NoBuf /\ live = {} /\ stack = {} /\ nwbs = 0 /\ frames = 0
      /\ rx_buf_info = [d \in Desc |-> Unmapped] /\ hal_map = [s \in Slot |-> NoBuf]
      /\ posted = [p \in Pool |-> <<>>]
  BY DEF Init
<1>2. Len(event_q) = 0 /\ Len(reported) = 0 /\ Len(delivered) = 0 /\ End = 1
  BY <1>1 DEF End
<1>3. \A i \in 0..End : Stage(i) = <<>> /\ Len(Stage(i)) = 0
  BY <1>1, <1>2 DEF Stage
<1>4. \A p \in Pool : Len(posted[p]) = 0
  BY <1>1
<1>5. InPipe = {} /\ InPosted = {}
  BY <1>3, <1>4 DEF InPipe, InPosted
<1>6. \A d \in Desc : Hal(d) = NoBuf
  BY <1>1, MapFacts DEF Hal
<1>7. \A d \in Desc : rx_buf_info[d].nwb = NoBuf /\ rx_buf_info[d].mapped = FALSE
  BY <1>1 DEF Unmapped
<1>8. QuietInv
  BY <1>1 DEF QuietInv, Starting, Stopping
<1>9. PipeInv
  <2>1. \A i, j \in 0..End : \A a \in 1..Len(Stage(i)), b \in 1..Len(Stage(j)) :
        Precedes(i, a, j, b) => Frame(Stage(i)[a]) < Frame(Stage(j)[b])
    BY <1>3
  <2>2. \A d \in Desc : ~(d < di)
    BY <1>1, DescFacts
  <2> QED BY <1>1, <1>4, <1>5, <2>1, <2>2 DEF PipeInv
<1>10. UnknownInv
  <2>1. Unknowns = {}
    BY <1>2 DEF Unknowns
  <2>2. Cardinality(Unknowns) = 0
    BY <2>1, FS_EmptySet
  <2>3. Handled = 0
    BY <1>1, <2>2 DEF Handled, Coming
  <2> QED BY <1>1, <2>3 DEF UnknownInv, Done
<1>11. MapInv
  BY <1>1, <1>6 DEF MapInv
<1>12. AgreeInv
  <2>1. \A d \in Settled : d \in Desc
    BY DEF Settled
  <2> QED BY <1>1, <1>5, <1>6, <1>7, <2>1 DEF AgreeInv, Around
<1>13. LostInv
  BY <1>1 DEF LostInv
<1>14. OwnInv
  <2>1. \A x \in Owned : x = NoBuf
    BY <1>1, <1>7 DEF Owned
  <2>2. Owning
    BY <1>1, <1>7, <2>1 DEF Owning
  <2>3. Cardinality(Leaked) = 0
    <3>1. Leaked = {}
      BY <1>1 DEF Leaked
    <3> QED BY <3>1, FS_EmptySet
  <2>4. Handled \in Nat
    BY <1>10 DEF UnknownInv
  <2> QED BY <2>2, <2>3, <2>4 DEF OwnInv
<1>15. CleanInv
  BY <1>1 DEF CleanInv
<1>16. FrameInv
  <2>1. ReportOrder
    BY <1>2 DEF ReportOrder
  <2> QED BY <1>2, <1>3, <2>1 DEF FrameInv
<1>17. UnfailedInv
  BY <1>2 DEF UnfailedInv, Complete
<1> QED BY <1>0, <1>8, <1>9, <1>10, <1>11, <1>12, <1>13, <1>14, <1>15, <1>16, <1>17 DEF RxInv

(* The inductive invariant of the RX path, for every number of pools and    *)
(* buffers, every size of events and every number of frames.                *)
THEOREM RxInductive == Spec => []RxInv
<1>1. RxInv /\ [Next]_vars => RxInv'
  <2> SUFFICES ASSUME RxInv, [Next]_vars PROVE RxInv'
    OBVIOUS
  <2>0. /\ TypeInv /\ QuietInv /\ PipeInv /\ UnknownInv /\ MapInv /\ AgreeInv
        /\ LostInv /\ OwnInv /\ CleanInv /\ FrameInv /\ UnfailedInv
    BY DEF RxInv
  <2>1. TypeInv' /\ QuietInv' /\ PipeInv'
    BY <2>0, TypeNext, QuietNext, PipeNext
  <2>2. UnknownInv' /\ MapInv' /\ AgreeInv'
    BY <2>0, UnknownNext, MapNext, AgreeNext
  <2>3. LostInv' /\ OwnInv' /\ CleanInv'
    BY <2>0, LostNext, OwnNext, CleanNext
  <2>4. FrameInv' /\ UnfailedInv'
    BY <2>0, FrameNext, UnfailedNext
  <2> QED BY <2>1, <2>2, <2>3, <2>4 DEF RxInv
<1> QED BY RxInit, <1>1, PTL DEF Spec

(* Every reachable state is well formed. *)
THEOREM RxTypeCorrect == Spec => []TypeOK
<1>1. RxInv => TypeOK
  BY DEF RxInv, TypeInv
<1> QED BY <1>1, RxInductive, PTL
-----------------------------------------------------------------------------
(* The stack gets the data frames in the order received and none twice.     *)
THEOREM FramesStayInOrder == Spec => []FramesInOrder
<1>1. RxInv => FramesInOrder
  <2> SUFFICES ASSUME RxInv PROVE FramesInOrder
    OBVIOUS
  <2>1. FrameInv /\ TypeInv
    BY DEF RxInv
  <2>2. ToSet(delivered) \subseteq ToSet(reported)
    <3> SUFFICES ASSUME NEW f \in ToSet(delivered) PROVE f \in ToSet(reported)
      OBVIOUS
    <3>1. Len(delivered) \in Nat /\ Len(reported) \in Nat
          /\ DOMAIN delivered = 1..Len(delivered) /\ DOMAIN reported = 1..Len(reported)
      BY <2>1 DEF TypeInv, TypeOK
    <3>2. PICK m \in 1..Len(delivered) : f = delivered[m]
      BY <3>1 DEF ToSet
    <3>3. PICK n \in 1..Len(reported) : reported[n] = delivered[m]
      BY <2>1 DEF FrameInv
    <3> QED BY <3>1, <3>2, <3>3 DEF ToSet
  <2>3. \A i, j \in 1..Len(delivered) : i < j => delivered[i] < delivered[j]
    BY <2>1 DEF FrameInv
  <2> QED BY <2>2, <2>3 DEF FramesInOrder
<1> QED BY <1>1, RxInductive, PTL

(* Every network buffer is the driver's or the stack's, and one is leaked   *)
(* at most for an event of unknown type.                                    *)
THEOREM BuffersAreOwned == Spec => []BuffersOwned
<1>1. RxInv => BuffersOwned
  <2> SUFFICES ASSUME RxInv, ~late PROVE
        /\ (Owned \ {NoBuf}) \subseteq live
        /\ Owned \cap stack = {}
        /\ stack \subseteq live
        /\ Cardinality(live \ (Owned \cup stack)) <= unknown
    BY DEF BuffersOwned
  <2>1. Owning /\ Cardinality(Leaked) <= Handled /\ TypeInv
    BY DEF RxInv, OwnInv
  <2>2. Handled <= unknown /\ Handled \in Int /\ unknown \in Nat
    BY <2>1, UnknownCount
  <2>3. IsFiniteSet(Leaked) /\ Cardinality(Leaked) \in Nat
    <3>1. live \subseteq 1..nwbs /\ nwbs \in Nat
      BY <2>1 DEF TypeInv, TypeOK
    <3>2. IsFiniteSet(1..nwbs)
      BY <3>1, FS_Interval
    <3>3. Leaked \in SUBSET (1..nwbs)
      BY <3>1 DEF Leaked
    <3>4. IsFiniteSet(Leaked)
      BY <3>2, <3>3, FS_Subset
    <3> QED BY <3>4, FS_CardinalityType
  <2>4. PICK h : h = Handled
    OBVIOUS
  <2>5. Cardinality(Leaked) <= unknown
    BY <2>1, <2>2, <2>3, <2>4
  <2> QED BY <2>1, <2>5 DEF Owning, Leaked
<1> QED BY <1>1, RxInductive, PTL

(* A removal that nothing disturbs leaves no buffer behind. *)
THEOREM StopsClean == Spec => []CleanStop
<1>1. RxInv => CleanStop
  <2> SUFFICES ASSUME RxInv, dev = "gone", ~late, allocFails = 0, unknown = 0
               PROVE live = stack /\ info = "freed"
    BY DEF CleanStop
  <2>1. info = "freed" /\ \A d \in Desc : rx_buf_info[d] = Unmapped
    BY DEF RxInv, CleanInv
  <2>2. tpc = "off"
    BY DEF RxInv, QuietInv, Stopping
  <2>3. nwb = NoBuf
    BY <2>2 DEF RxInv, MapInv
  <2>4. \A x \in Owned : x = NoBuf
    BY <2>1, <2>3 DEF Owned, Unmapped
  <2>5. Owning /\ Cardinality(Leaked) <= Handled /\ TypeInv
    BY DEF RxInv, OwnInv
  <2>6. live \subseteq 1..nwbs /\ nwbs \in Nat
    BY <2>5 DEF TypeInv, TypeOK
  <2>7. IsFiniteSet(Leaked) /\ Cardinality(Leaked) \in Nat
    <3>1. IsFiniteSet(1..nwbs)
      BY <2>6, FS_Interval
    <3>2. Leaked \in SUBSET (1..nwbs)
      BY <2>6 DEF Leaked
    <3>3. IsFiniteSet(Leaked)
      BY <3>1, <3>2, FS_Subset
    <3> QED BY <3>3, FS_CardinalityType
  <2>8. Handled <= unknown /\ Handled \in Int
    BY <2>5, UnknownCount
  <2>9. PICK h : h = Handled
    OBVIOUS
  <2>10. Cardinality(Leaked) = 0
    BY <2>5, <2>7, <2>8, <2>9
  <2>11. Leaked = {}
    BY <2>7, <2>10, FS_EmptySet
  <2>12. \A x \in live : x # NoBuf
    BY <2>6 DEF NoBuf
  <2>13. \A x \in live : x \in stack
    BY <2>4, <2>11, <2>12 DEF Leaked
  <2>14. stack \subseteq live
    BY <2>5 DEF Owning
  <2> QED BY <2>1, <2>13, <2>14
<1> QED BY <1>1, RxInductive, PTL
-----------------------------------------------------------------------------
(* The queues of DescriptorsKept are those of the pools and the stages of   *)
(* the pipe.                                                                *)
LEMMA QueueIs ==
  ASSUME TypeInv
  PROVE /\ DOMAIN Queues = 0..(NumPools + Len(event_q) + 1)
        /\ \A k \in Pool : k \in DOMAIN Queues /\ Queues[k] = posted[k]
        /\ \A i \in 0..End : NumPools + i \in DOMAIN Queues /\ Queues[NumPools + i] = Stage(i)
        /\ \A k \in DOMAIN Queues : k \in Pool \/ \E i \in 0..End : k = NumPools + i
<1>0. Len(event_q) \in Nat /\ NumPools \in Nat /\ NumPools > 0 /\ End = Len(event_q) + 1
  BY QueueFacts, PoolAssumption DEF End
<1>1. DOMAIN Queues = 0..(NumPools + Len(event_q) + 1)
  BY DEF Queues
<1>2. ASSUME NEW k \in Pool PROVE k \in DOMAIN Queues /\ Queues[k] = posted[k]
  <2>1. k \in 0..(NumPools + Len(event_q) + 1) /\ k < NumPools
    BY <1>0 DEF Pool
  <2>2. Queues[k] = CASE k < NumPools -> posted[k]
                      [] k = NumPools -> todo.descs
                      [] k > NumPools + Len(event_q) -> filled
                      [] OTHER -> event_q[k - NumPools].descs
    BY <2>1 DEF Queues
  <2>3. k # NumPools /\ ~(k > NumPools + Len(event_q))
    BY <1>0, <2>1
  <2>4. Queues[k] = posted[k]
    BY <2>1, <2>2, <2>3
  <2> QED BY <1>1, <2>1, <2>4
<1>3. ASSUME NEW i \in 0..End PROVE NumPools + i \in DOMAIN Queues /\ Queues[NumPools + i] = Stage(i)
  <2>1. NumPools + i \in 0..(NumPools + Len(event_q) + 1) /\ ~(NumPools + i < NumPools)
    BY <1>0
  <2>2. CASE i = 0
    <3>1. NumPools + i = NumPools
      BY <1>0, <2>2
    <3> QED BY <2>1, <2>2, <3>1 DEF Queues, Stage
  <2>3. CASE i = End
    <3>1. NumPools + i > NumPools + Len(event_q) /\ NumPools + i # NumPools /\ i # 0 /\ ~(i < End)
      BY <1>0, <2>3
    <3>2. Queues[NumPools + i] = filled
      BY <2>1, <3>1 DEF Queues
    <3> QED BY <2>1, <3>1, <3>2 DEF Queues, Stage
  <2>4. CASE i # 0 /\ i < End
    <3>1. ~(NumPools + i > NumPools + Len(event_q)) /\ NumPools + i # NumPools
          /\ (NumPools + i) - NumPools = i
      BY <1>0, <2>4
    <3>2. Queues[NumPools + i] = event_q[(NumPools + i) - NumPools].descs
      BY <2>1, <3>1 DEF Queues
    <3>3. Queues[NumPools + i] = event_q[i].descs
      BY <3>1, <3>2
    <3> QED BY <2>1, <2>4, <3>3 DEF Queues, Stage
  <2> QED BY <1>0, <2>2, <2>3, <2>4
<1>4. ASSUME NEW k \in DOMAIN Queues, k \notin Pool PROVE \E i \in 0..End : k = NumPools + i
  <2>1. k - NumPools \in 0..End /\ k = NumPools + (k - NumPools)
    BY <1>0, <1>1, <1>4 DEF Pool
  <2> QED BY <2>1
<1> QED BY <1>1, <1>2, <1>3, <1>4

LEMMA CirculatingIs == ASSUME TypeInv PROVE Circulating = Around
<1>0. ASSUME NEW q \in Seq(Desc), NEW d PROVE d \in ToSet(q) <=> \E n \in 1..Len(q) : q[n] = d
  BY DEF ToSet
<1>1. ASSUME NEW d \in Circulating PROVE d \in Around
  <2>1. PICK k \in DOMAIN Queues : d \in ToSet(Queues[k])
    BY DEF Circulating
  <2>2. CASE k \in Pool
    <3>1. posted[k] \in Seq(Desc) /\ Queues[k] = posted[k]
      BY <2>2, QueueIs, QueueFacts
    <3>2. PICK n \in 1..Len(posted[k]) : posted[k][n] = d
      BY <1>0, <2>1, <3>1
    <3>3. d \in Desc
      BY <2>2, <3>2, QueueFacts
    <3> QED BY <2>2, <3>2, <3>3 DEF Around, InPosted
  <2>3. CASE \E i \in 0..End : k = NumPools + i
    <3>1. PICK i \in 0..End : k = NumPools + i
      BY <2>3
    <3>2. Queues[k] = Stage(i) /\ Stage(i) \in Seq(Desc)
      BY <3>1, QueueIs, StageTypes
    <3>3. PICK n \in 1..Len(Stage(i)) : Stage(i)[n] = d
      BY <1>0, <2>1, <3>2
    <3>4. d \in InPipe
      BY <3>3, StageTypes
    <3> QED BY <3>4 DEF Around
  <2> QED BY <2>2, <2>3, QueueIs
<1>2. ASSUME NEW d \in Around PROVE d \in Circulating
  <2>1. CASE d \in InPosted
    <3>1. PICK p \in Pool : \E n \in 1..Len(posted[p]) : posted[p][n] = d
      BY <2>1 DEF InPosted
    <3>2. p \in DOMAIN Queues /\ Queues[p] = posted[p] /\ posted[p] \in Seq(Desc)
      BY QueueIs, QueueFacts
    <3>3. d \in ToSet(Queues[p])
      BY <1>0, <3>1, <3>2
    <3> QED BY <3>2, <3>3 DEF Circulating
  <2>2. CASE d \in InPipe
    <3>1. PICK i \in 0..End : \E n \in 1..Len(Stage(i)) : Stage(i)[n] = d
      BY <2>2 DEF InPipe
    <3>2. NumPools + i \in DOMAIN Queues /\ Queues[NumPools + i] = Stage(i) /\ Stage(i) \in Seq(Desc)
      BY QueueIs, StageTypes
    <3>3. d \in ToSet(Queues[NumPools + i])
      BY <1>0, <3>1, <3>2
    <3> QED BY <3>2, <3>3 DEF Circulating
  <2> QED BY <2>1, <2>2 DEF Around
<1> QED BY <1>1, <1>2

LEMMA OnceInQueues == ASSUME TypeInv, PipeInv PROVE NoneTwice
<1> SUFFICES ASSUME NEW k \in DOMAIN Queues, NEW l \in DOMAIN Queues,
                    NEW m \in DOMAIN Queues[k], NEW n \in DOMAIN Queues[l],
                    Queues[k][m] = Queues[l][n]
             PROVE k = l /\ m = n
  BY DEF NoneTwice
<1>1. ASSUME NEW j \in DOMAIN Queues, NEW a \in DOMAIN Queues[j]
      PROVE \/ j \in Pool /\ a \in 1..Len(posted[j]) /\ Queues[j][a] = posted[j][a]
               /\ posted[j][a] \in InPosted
            \/ \E i \in 0..End : /\ j = NumPools + i /\ a \in 1..Len(Stage(i))
                                 /\ Queues[j][a] = Stage(i)[a] /\ Stage(i)[a] \in InPipe
  <2>1. CASE j \in Pool
    <3>1. posted[j] \in Seq(Desc) /\ Queues[j] = posted[j]
      BY <2>1, QueueIs, QueueFacts
    <3>2. a \in 1..Len(posted[j])
      BY <3>1
    <3>3. posted[j][a] \in Desc
      BY <2>1, <3>2, QueueFacts
    <3> QED BY <2>1, <3>1, <3>2, <3>3 DEF InPosted
  <2>2. CASE \E i \in 0..End : j = NumPools + i
    <3>1. PICK i \in 0..End : j = NumPools + i
      BY <2>2
    <3>2. Queues[j] = Stage(i) /\ Stage(i) \in Seq(Desc)
      BY <3>1, QueueIs, StageTypes
    <3>3. a \in 1..Len(Stage(i))
      BY <3>2
    <3>4. Stage(i)[a] \in InPipe
      BY <3>3, StageTypes
    <3> QED BY <3>1, <3>2, <3>3, <3>4
  <2> QED BY <2>1, <2>2, QueueIs
<1>2. CASE k \in Pool /\ m \in 1..Len(posted[k]) /\ Queues[k][m] = posted[k][m] /\ posted[k][m] \in InPosted
  <2>1. CASE l \in Pool /\ n \in 1..Len(posted[l]) /\ Queues[l][n] = posted[l][n]
    <3>1. posted[k][m] \in Desc /\ InPool(posted[k][m], k) /\ InPool(posted[k][m], l)
      BY <1>2, <2>1, QueueFacts
    <3>2. k = l
      BY <1>2, <2>1, <3>1, OnePool
    <3> QED BY <1>2, <2>1, <3>2 DEF PipeInv
  <2>2. CASE \E i \in 0..End : Queues[l][n] = Stage(i)[n] /\ Stage(i)[n] \in InPipe
    BY <1>2, <2>2 DEF PipeInv
  <2> QED BY <1>1, <2>1, <2>2
<1>3. CASE \E i \in 0..End : /\ k = NumPools + i /\ m \in 1..Len(Stage(i))
                             /\ Queues[k][m] = Stage(i)[m] /\ Stage(i)[m] \in InPipe
  <2>1. PICK i \in 0..End : /\ k = NumPools + i /\ m \in 1..Len(Stage(i))
                             /\ Queues[k][m] = Stage(i)[m] /\ Stage(i)[m] \in InPipe
    BY <1>3
  <2>2. CASE posted[l][n] \in InPosted /\ Queues[l][n] = posted[l][n]
    BY <2>1, <2>2 DEF PipeInv
  <2>3. CASE \E j \in 0..End : /\ l = NumPools + j /\ n \in 1..Len(Stage(j))
                               /\ Queues[l][n] = Stage(j)[n]
    <3>1. PICK j \in 0..End : l = NumPools + j /\ n \in 1..Len(Stage(j)) /\ Queues[l][n] = Stage(j)[n]
      BY <2>3
    <3>2. i = j /\ m = n
      BY <2>1, <3>1, PipeOnce
    <3> QED BY <2>1, <3>1, <3>2
  <2> QED BY <1>1, <2>2, <2>3
<1> QED BY <1>1, <1>2, <1>3

(* No descriptor is at two places or lost, and the two maps agree.          *)
THEOREM DescriptorsAreKept == Spec => []DescriptorsKept
<1>1. RxInv => DescriptorsKept
  <2> SUFFICES ASSUME RxInv PROVE DescriptorsKept
    OBVIOUS
  <2>0. TypeInv /\ QuietInv /\ PipeInv /\ UnknownInv /\ AgreeInv /\ LostInv
    BY DEF RxInv
  <2>1. NoneTwice
    BY <2>0, OnceInQueues
  <2>2. dev \in {"wait", "up"} => Cardinality(Desc \ Circulating) <= (allocFails + unknown) * MaxPkts
    <3> SUFFICES ASSUME dev \in {"wait", "up"}
                 PROVE Cardinality(Desc \ Around) <= (allocFails + unknown) * MaxPkts
      BY <2>0, CirculatingIs
    <3>1. PICK h : h = Handled
      OBVIOUS
    <3>2. h \in Nat /\ h <= unknown /\ unknown \in Nat /\ allocFails \in Nat /\ MaxPkts \in Nat
      <4>1. h \in Nat
        BY <2>0, <3>1 DEF UnknownInv
      <4>2. h <= unknown /\ unknown \in Nat
        BY <2>0, <3>1, UnknownCount
      <4>3. allocFails \in Nat /\ MaxPkts \in Nat
        BY <2>0, ConstantFacts DEF TypeInv, TypeOK
      <4> QED BY <4>1, <4>2, <4>3
    <3>3. PICK x : x = allocFails + h
      OBVIOUS
    <3>4. PICK y : y = allocFails + unknown
      OBVIOUS
    <3>5. x \in Nat /\ y \in Nat /\ x <= y
      BY <3>2, <3>3, <3>4
    <3>6. x * MaxPkts \in Nat /\ x * MaxPkts <= y * MaxPkts
      BY <3>2, <3>5, Times
    <3>7. y * MaxPkts \in Nat
      BY <3>2, <3>5, Times
    <3>8. Cardinality(Desc \ Around) <= x * MaxPkts
      BY <2>0, <3>1, <3>3 DEF LostInv
    <3>9. Cardinality(Desc \ Around) \in Nat
      <4>1. Desc \ Around \in SUBSET Desc
        OBVIOUS
      <4> QED BY <4>1, DescFinite
    <3> QED BY <3>4, <3>6, <3>7, <3>8, <3>9
  <2>3. MapsAgree
    <3> SUFFICES ASSUME dev \in {"wait", "up"}, NEW d \in Settled
                 PROVE /\ rx_buf_info[d].nwb = hal_map[MapDescToPool(d)]
                       /\ rx_buf_info[d].mapped = (rx_buf_info[d].nwb # NoBuf)
                       /\ d \in Around => rx_buf_info[d].mapped
      BY <2>0, CirculatingIs DEF MapsAgree
    <3>1. ~late /\ dev # "free" /\ dev \in Starting \cup {"up"}
      BY <2>0 DEF QuietInv, Starting
    <3>2. d \in Desc
      BY DEF Settled
    <3>3. rx_buf_info[d].nwb = hal_map[MapDescToPool(d)]
      BY <2>0, <3>1 DEF AgreeInv, Hal
    <3>4. rx_buf_info[d].mapped = (rx_buf_info[d].nwb # NoBuf)
      BY <2>0, <3>1, <3>2 DEF AgreeInv
    <3>5. d \in Around => rx_buf_info[d].mapped
      BY <2>0, <3>1 DEF AgreeInv
    <3> QED BY <3>3, <3>4, <3>5
  <2> QED BY <2>1, <2>2, <2>3 DEF DescriptorsKept
<1> QED BY <1>1, RxInductive, PTL
-----------------------------------------------------------------------------
(* The refinement: a report of data frames accepts them ...                 *)
LEMMA ReportAccepts ==
  ASSUME TypeInv, NEW n, Reports(n, "data")
  PROVE reported' \in Seq(1..MaxFrames) /\ IsStrictPrefix(reported, reported')
<1>1. /\ reported' \in Seq(1..MaxFrames) /\ Len(reported') = Len(reported) + n /\ n \in Nat
      /\ Len(reported) \in Nat
      /\ \A i \in 1..Len(reported) : reported'[i] = reported[i]
  BY ReportedIs
<1>2. n > 0 /\ reported \in Seq(1..MaxFrames)
  BY <1>1 DEF Reports, TypeInv, TypeOK
<1>3. SubSeq(reported, 1, Len(reported)) = SubSeq(reported', 1, Len(reported))
  BY <1>1, <1>2
<1>4. reported # reported'
  BY <1>1, <1>2
<1> QED BY <1>1, <1>2, <1>3, <1>4 DEF IsStrictPrefix, IsPrefix

(* ... and one handed to the stack comes out.                               *)
LEMMA FrameComesOut ==
  ASSUME RxInv, RxDeliver, [Next]_vars, ~Failed
  PROVE /\ Len(delivered) < Len(reported)
        /\ delivered' = Append(delivered, reported[Len(delivered) + 1])
        /\ reported' = reported
<1>1. TypeInv /\ PipeInv /\ MapInv /\ FrameInv /\ Complete
  BY DEF RxInv, UnfailedInv
<1>2. tpc = "deliver" /\ todo.type = "data" /\ delivered' = Append(delivered, data[nwb]) /\ reported' = reported
  BY DEF RxDeliver, Tasklet, rpuVars
<1>3. data[nwb] = Frame(cur)
  BY <1>1, <1>2 DEF MapInv
<1>4. Type(0) = "data" /\ 1 \in 1..Len(Stage(0)) /\ Stage(0)[1] = cur /\ Len(delivered) \in Nat
  <2>1. Stage(0) = todo.descs /\ Type(0) = todo.type
    BY DEF Stage, Type
  <2>2. Len(todo.descs) \in Nat /\ Len(todo.descs) > 0 /\ cur = todo.descs[1]
    BY <1>1, <1>2, CurFacts
  <2>3. Len(delivered) \in Nat
    BY <1>1 DEF TypeInv, TypeOK
  <2> QED BY <1>2, <2>1, <2>2, <2>3
<1>5. Len(delivered) < Len(reported) /\ reported[Len(delivered) + 1] = Frame(cur)
  BY <1>1, <1>2, <1>4, NextFrame
<1> QED BY <1>2, <1>3, <1>5

LEMMA ChannelStep ==
  ASSUME RxInv, [Next]_vars
  PROVE Channel!Next \/ UNCHANGED Channel!vars
<1>0. TypeInv /\ MapInv
  BY DEF RxInv
<1>1. CASE Failed'
  BY <1>1 DEF Channel!Next, Channel!Break
<1>2. CASE ~Failed'
  <2>1. ~Failed /\ Failed' = Failed
    <3>1. ~Failed
      BY <1>0, <1>2, FailedStays
    <3>2. Failed \in BOOLEAN /\ Failed' \in BOOLEAN
      BY DEF Failed
    <3> QED BY <1>2, <3>1, <3>2
  <2>2. CASE RxDeliver
    <3>1. /\ Len(delivered) < Len(reported)
          /\ delivered' = Append(delivered, reported[Len(delivered) + 1])
          /\ reported' = reported
      BY <2>1, <2>2, FrameComesOut
    <3>2. Channel!Deliver
      BY <2>1, <3>1, Zenon DEF Channel!Deliver
    <3> QED BY <3>2 DEF Channel!Next
  <2>3. CASE ~RxDeliver
    <3>0. delivered' = delivered
      BY <1>0, <2>3, DeliveredNext
    <3>1. CASE reported' = reported
      BY <2>1, <3>0, <3>1 DEF Channel!vars
    <3>2. CASE \E n : Reports(n, "data")
      <4>1. reported' \in Seq(1..MaxFrames) /\ IsStrictPrefix(reported, reported')
        BY <1>0, <3>2, ReportAccepts
      <4>2. Channel!Accept
        BY <2>1, <3>0, <4>1 DEF Channel!Accept, IsStrictPrefix, IsPrefix,
           Channel!IsStrictPrefix, Channel!IsPrefix
      <4> QED BY <4>2 DEF Channel!Next
    <3> QED BY <1>0, <3>1, <3>2, ReportedNext
  <2> QED BY <2>2, <2>3
<1> QED BY <1>1, <1>2

LEMMA ChannelInit == Init => Channel!Init
<1> SUFFICES ASSUME Init PROVE Channel!Init
  OBVIOUS
<1>1. reported = <<>> /\ delivered = <<>>
  BY DEF Init
<1>2. ~Failed
  <2>1. ~(allocFails + unknown > 0)
    BY DEF Init
  <2>2. dev \notin Stopping
    BY DEF Init, Stopping
  <2> QED BY <2>1, <2>2 DEF Failed
<1> QED BY <1>1, <1>2 DEF Channel!Init

(* The way of a data frame from its report through RX event, tasklet and    *)
(* buffer to the network stack is an ordered channel: until an allocation   *)
(* fails, an event is unknown or the driver is removed, every frame handed  *)
(* to the stack is the oldest one reported that it does not have.           *)
THEOREM RxPathIsChannel == Spec => Channel!Init /\ [][Channel!Next]_(Channel!vars)
BY ChannelInit, ChannelStep, RxInductive, PTL DEF Spec
=============================================================================
