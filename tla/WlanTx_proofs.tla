---------------------------- MODULE WlanTx_proofs ----------------------------
(***************************************************************************)
(* Proofs about WlanTx, for any pools, any length of the retry queue and   *)
(* any number of retries: typing, and under QuietSpec where every frame    *)
(* is, and what the tasklet remembers between its sections.                *)
(***************************************************************************)
EXTENDS WlanTx, FiniteSetTheorems, TLAPS

-----------------------------------------------------------------------------
(* The inductive invariant.                                                *)

Data == InQueue(data_que)
Kepts == InQueue(retry_que)
Mngs == InQueue(mng_que)

\* The frame of the tasklet, the one on its way, the one that was sent.
Hands == {tx.m, sending_msdu, sent.m}

\* Frames taken from a queue that are about to be released.
Dropped == (IF sent.at = "drop" THEN {sent.old} ELSE {})
             \cup (IF worker.at = "drop" THEN {worker.m} ELSE {})

Once(q) == \A i, j \in 1..Len(q) : q[i] = q[j] => i = j

\* One frame is in hand at a time, unless the tasklet is about to move its
\* index past the one it has just recorded as being sent.
HandsOK ==
    /\ tx.m = None <=> tx.at \in {"idle", "find", "clear", "data"}
    /\ tx.at # "idle" => sent = NoSent
    /\ tx_busy_sending <=> sending_msdu # None
    /\ tx_busy_sending => tx.at \in {"idle", "advance"} /\ sent = NoSent
    /\ tx.at = "advance" => tx.m = sending_msdu /\ tx.m \in Kepts

\* Every data frame has one home, or is in hand.
HomesOK ==
    /\ node_free = Cardinality(free)
    /\ Once(data_que) /\ Once(retry_que) /\ Once(mng_que)
    /\ free \cap Data = {} /\ free \cap Kepts = {} /\ Data \cap Kepts = {}
    /\ (free \cup Data) \cap Hands = {}
    /\ Msdu \subseteq free \cup Data \cup Kepts \cup Hands \cup Dropped
    /\ free_mng \cap Mngs = {} /\ (free_mng \cup Mngs) \cap Hands = {}

\* A frame that is to be released is nowhere else.
DropsOK ==
    /\ Dropped \cap (free \cup Data \cup Kepts \cup Hands) = {}
    /\ sent.at = "drop" /\ worker.at = "drop" => sent.old # worker.m

\* A kept frame is only touched while the queue is being sent again, and the
\* index is then within the queue, or past it by nothing.
RetryOK ==
    /\ Hands \cap Kepts # {} => tx_retry_valid
    /\ tx.at \in {"find", "clear"} => tx_retry_valid
    /\ tx_retry_valid => tx_retry_index <= Len(retry_que)
    /\ tx.m \in Kepts => tx_retry_index < Len(retry_que)
    /\ \A p \in Part : urb[p] \in Kepts =>
          /\ tx_retry_valid /\ tx.at # "clear"
          /\ ~tx_busy_sending => tx_retry_index < Len(retry_que)

\* What is in the pipes.  A frame that is on its way counts its transfers; one
\* whose body was refused has its head there and counts one more.
PipesOK ==
    /\ \A p \in Part : /\ p \in done => urb[p] # None
                       /\ urb[p] # None => urb[p] \in Data \cup Kepts \cup Mngs \cup {tx.m, sending_msdu}
                       /\ sent # NoSent => urb[p] = None
                       /\ tx_busy_sending => urb[p] \in {sending_msdu, None}
    /\ tx_busy_sending =>
          \/ /\ urb["head"] # None /\ urb["body"] # None
             /\ DspSendOkFlag[sending_msdu] = 2
          \/ /\ urb["head"] # None <=> urb["body"] = None
             /\ DspSendOkFlag[sending_msdu] = 1
    /\ ~tx_busy_sending =>
          /\ urb["head"] # None => DspSendOkFlag[urb["head"]] = 2
          /\ tx.at # "record" => urb["body"] = None
          /\ tx.at \in {"body", "record"} => urb["head"] = tx.m
          /\ tx.at = "record" => urb["body"] = tx.m

Owned == HandsOK /\ HomesOK /\ DropsOK /\ RetryOK /\ PipesOK

\* What was read of the pool and of the queues is so when it is used.
Steady ==
    /\ taking # NotTaking => /\ taking.m \in free /\ taking.node = node_free
                             /\ taking.only <=> free = {taking.m}
                             /\ tx.at = "idle" /\ sent = NoSent
    /\ sent.at = "room" => sent.old = None \/ sent.old \in Kepts
    /\ sent.at = "full" => retry_que # << >> /\ sent.old = Head(retry_que)
    /\ sent.at \in {"room", "full"} => sent.m \notin Kepts
    /\ worker.at \in {"pop", "init"} => SoftirqIdle
    /\ worker.at = "pop" => Emptied # << >> /\ worker.m = Head(Emptied)
    /\ worker.at = "init" => Emptied = << >>

\* What typing rests on, whoever disturbs whom: who is at work has a frame.
Holding ==
    /\ tx.at \notin {"idle", "find", "clear", "data"} => tx.m \in Frame
    /\ \A p \in done : urb[p] \in Frame
    /\ taking # NotTaking => taking.m \in Msdu
    /\ sent.at = "none" => sent = NoSent
    /\ sent.at = "done" => sent.m \in Frame
    /\ sent.at \in {"room", "full"} => sent.m \in Msdu
    /\ sent.at = "drop" => sent.m = None
    /\ sent.at \in {"full", "drop"} => sent.old \in Msdu
    /\ worker.at \in {"pop", "drop"} => worker.m \in Msdu

IInv == TypeOK /\ Holding /\ Owned /\ Steady /\ (Cancelling => Quiet)

-----------------------------------------------------------------------------
(* Facts about queues.                                                     *)

\* A frame is put at the end of a queue that does not hold it.
LEMMA PutLast ==
    ASSUME NEW S, NEW q \in Seq(S), NEW m \in S
    PROVE  /\ Append(q, m) \in Seq(S) /\ Len(Append(q, m)) = Len(q) + 1
           /\ InQueue(Append(q, m)) = InQueue(q) \cup {m}
           /\ Once(q) /\ m \notin InQueue(q) => Once(Append(q, m))
<1> DEFINE r == Append(q, m)
<1>1. /\ r \in Seq(S) /\ Len(r) = Len(q) + 1 /\ r[Len(q) + 1] = m
      /\ \A i \in 1..Len(q) : r[i] = q[i]
  OBVIOUS
<1>2. InQueue(q) = {q[i] : i \in 1..Len(q)} /\ InQueue(r) = {r[i] : i \in 1..Len(r)}
  BY <1>1 DEF InQueue
<1> HIDE DEF r
<1>3. \A x : x \in InQueue(r) => x \in InQueue(q) \/ x = m
  <2> SUFFICES ASSUME NEW i \in 1..Len(r) PROVE r[i] \in InQueue(q) \/ r[i] = m
    BY <1>2
  <2>1. i \in 1..Len(q) \/ i = Len(q) + 1
    BY <1>1
  <2> QED BY <2>1, <1>1, <1>2
<1>4. \A x : x \in InQueue(q) => x \in InQueue(r)
  <2> SUFFICES ASSUME NEW i \in 1..Len(q) PROVE q[i] \in InQueue(r)
    BY <1>2
  <2>1. i \in 1..Len(r) /\ r[i] = q[i]
    BY <1>1
  <2> QED BY <2>1, <1>2
<1>5. m \in InQueue(r)
  <2>1. Len(q) + 1 \in 1..Len(r)
    BY <1>1
  <2> QED BY <2>1, <1>1, <1>2
<1>6. InQueue(r) = InQueue(q) \cup {m}
  BY <1>3, <1>4, <1>5
<1>7. ASSUME Once(q), m \notin InQueue(q) PROVE Once(r)
  <2> SUFFICES ASSUME NEW i \in 1..Len(r), NEW j \in 1..Len(r), r[i] = r[j] PROVE i = j
    BY DEF Once
  <2>1. \A k \in 1..Len(q) : q[k] # m
    BY <1>2, <1>7
  <2>2. \A x, y \in 1..Len(q) : q[x] = q[y] => x = y
    BY <1>7 DEF Once
  <2> QED BY <2>1, <2>2, <1>1
<1> QED BY <1>1, <1>6, <1>7 DEF r

\* The rest of a queue from place i on holds some of its frames.
LEMMA RestOf ==
    ASSUME NEW S, NEW q \in Seq(S), NEW k \in 0..Len(q)
    PROVE  /\ SubSeq(q, k + 1, Len(q)) \in Seq(S)
           /\ Len(SubSeq(q, k + 1, Len(q))) = Len(q) - k
           /\ InQueue(SubSeq(q, k + 1, Len(q))) \subseteq InQueue(q)
           /\ Once(q) => Once(SubSeq(q, k + 1, Len(q)))
<1> DEFINE r == SubSeq(q, k + 1, Len(q))
<1>1. /\ r \in Seq(S) /\ Len(r) = Len(q) - k
      /\ \A i \in 1..Len(r) : r[i] = q[i + k]
  <2>1. k + 1 \in 1..Len(q)+1 /\ Len(q) \in Nat /\ k \in Nat
    OBVIOUS
  <2>2. Len(r) = Len(q) - k /\ DOMAIN r = 1..Len(q) - k
    BY <2>1
  <2>3. \A i \in 1..Len(r) : r[i] = q[i + k] /\ i + k \in 1..Len(q)
    BY <2>1, <2>2
  <2>4. \A i \in 1..Len(q) : q[i] \in S
    OBVIOUS
  <2>5. r \in Seq(S)
    BY <2>1, <2>2, <2>3, <2>4
  <2> QED BY <2>2, <2>3, <2>5
<1> HIDE DEF r
<1>2. InQueue(q) = {q[i] : i \in 1..Len(q)} /\ InQueue(r) = {r[i] : i \in 1..Len(r)}
  BY SMTT(15), <1>1 DEF InQueue
<1>3. \A i \in 1..Len(r) : i + k \in 1..Len(q)
  BY <1>1
<1>4. \A i \in 1..Len(r) : r[i] \in InQueue(q)
  BY <1>1, <1>2, <1>3
<1>5. ASSUME Once(q) PROVE Once(r)
  <2> SUFFICES ASSUME NEW i \in 1..Len(r), NEW j \in 1..Len(r), r[i] = r[j] PROVE i = j
    BY DEF Once
  <2>1. \A x, y \in 1..Len(q) : q[x] = q[y] => x = y
    BY <1>5 DEF Once
  <2>2. q[i + k] = q[j + k] /\ i + k \in 1..Len(q) /\ j + k \in 1..Len(q)
    BY <1>1, <1>3
  <2>3. i + k = j + k
    BY <2>1, <2>2
  <2> QED BY <2>3
<1> QED BY <1>1, <1>2, <1>4, <1>5 DEF r

\* The head is taken from a queue.
LEMMA TakeHead ==
    ASSUME NEW S, NEW q \in Seq(S), q # << >>
    PROVE  /\ Head(q) \in InQueue(q) /\ Head(q) \in S
           /\ Tail(q) \in Seq(S) /\ Len(Tail(q)) = Len(q) - 1
           /\ Once(q) => /\ InQueue(Tail(q)) = InQueue(q) \ {Head(q)}
                         /\ Once(Tail(q))
<1>1. /\ Len(q) \in Nat /\ Len(q) >= 1 /\ 1 \in 1..Len(q) /\ q[1] = Head(q)
      /\ Tail(q) \in Seq(S) /\ Len(Tail(q)) = Len(q) - 1
      /\ \A i \in 1..Len(Tail(q)) : Tail(q)[i] = q[i + 1]
  OBVIOUS
<1> DEFINE r == Tail(q)
           h == Head(q)
<1>2. /\ Len(q) \in Nat /\ 1 \in 1..Len(q) /\ q[1] = h /\ r \in Seq(S) /\ Len(r) = Len(q) - 1
      /\ \A i \in 1..Len(r) : r[i] = q[i + 1] /\ i + 1 \in 1..Len(q)
  BY <1>1
<1> HIDE DEF r, h
<1>3. InQueue(q) = {q[i] : i \in 1..Len(q)} /\ InQueue(r) = {r[i] : i \in 1..Len(r)}
  <2>1. DOMAIN q = 1..Len(q)
    OBVIOUS
  <2>2. DOMAIN r = 1..Len(r)
    BY <1>2
  <2> QED BY <2>1, <2>2 DEF InQueue
<1>4. h \in InQueue(q) /\ h \in S
  BY <1>3, <1>2
<1>5. ASSUME Once(q) PROVE InQueue(r) = InQueue(q) \ {h} /\ Once(r)
  <2>1. \A x, y \in 1..Len(q) : q[x] = q[y] => x = y
    BY <1>5 DEF Once
  <2>2. \A i \in 1..Len(r) : r[i] \in InQueue(q) /\ r[i] # h
    BY <2>1, <1>3, <1>2
  <2>3. \A i \in 1..Len(q) : q[i] # h => q[i] \in InQueue(r)
    <3> SUFFICES ASSUME NEW i \in 1..Len(q), q[i] # h PROVE q[i] \in InQueue(r)
      OBVIOUS
    <3>1. i # 1
      BY <1>2
    <3>2. i - 1 \in 1..Len(r) /\ r[i - 1] = q[i]
      BY <3>1, <1>2
    <3> QED BY <3>2, <1>3
  <2>4. InQueue(r) = InQueue(q) \ {h}
    BY <2>2, <2>3, <1>3
  <2>5. ASSUME NEW i \in 1..Len(r), NEW j \in 1..Len(r), r[i] = r[j] PROVE i = j
    <3>1. q[i + 1] = q[j + 1] /\ i + 1 \in 1..Len(q) /\ j + 1 \in 1..Len(q)
      BY <1>2, <2>5
    <3>2. i + 1 = j + 1
      BY <2>1, <3>1
    <3> QED BY <3>2
  <2> QED BY <2>4, <2>5 DEF Once
<1> QED BY <1>2, <1>4, <1>5 DEF r, h

\* A frame is put back at the head of a queue that does not hold it.
LEMMA PutFirst ==
    ASSUME NEW S, NEW q \in Seq(S), NEW m \in S
    PROVE  /\ << m >> \o q \in Seq(S)
           /\ InQueue(<< m >> \o q) = InQueue(q) \cup {m}
           /\ Once(q) /\ m \notin InQueue(q) => Once(<< m >> \o q)
<1> DEFINE r == << m >> \o q
<1>1. /\ Len(q) \in Nat /\ r \in Seq(S) /\ Len(r) = Len(q) + 1 /\ r[1] = m
      /\ \A i \in 1..Len(q) : r[i + 1] = q[i]
  OBVIOUS
<1> HIDE DEF r
<1>2. InQueue(q) = {q[i] : i \in 1..Len(q)} /\ InQueue(r) = {r[i] : i \in 1..Len(r)}
  BY <1>1 DEF InQueue
<1>3. \A i \in 1..Len(r) : i = 1 \/ (i - 1 \in 1..Len(q) /\ r[i] = q[i - 1])
  BY <1>1
<1>4. \A x : x \in InQueue(r) => x \in InQueue(q) \/ x = m
  <2> SUFFICES ASSUME NEW i \in 1..Len(r) PROVE r[i] \in InQueue(q) \/ r[i] = m
    BY <1>2
  <2> QED BY <1>1, <1>2, <1>3
<1>5. \A x : x \in InQueue(q) => x \in InQueue(r)
  <2> SUFFICES ASSUME NEW i \in 1..Len(q) PROVE q[i] \in InQueue(r)
    BY <1>2
  <2>1. i + 1 \in 1..Len(r) /\ r[i + 1] = q[i]
    BY <1>1
  <2> QED BY <2>1, <1>2
<1>6. m \in InQueue(r)
  <2>1. 1 \in 1..Len(r)
    BY <1>1
  <2> QED BY <2>1, <1>1, <1>2
<1>7. InQueue(r) = InQueue(q) \cup {m}
  BY <1>4, <1>5, <1>6
<1>8. ASSUME Once(q), m \notin InQueue(q) PROVE Once(r)
  <2> SUFFICES ASSUME NEW i \in 1..Len(r), NEW j \in 1..Len(r), r[i] = r[j] PROVE i = j
    BY DEF Once
  <2>1. \A k \in 1..Len(q) : q[k] # m
    BY <1>2, <1>8
  <2>2. \A x, y \in 1..Len(q) : q[x] = q[y] => x = y
    BY <1>8 DEF Once
  <2>3. i = 1 \/ (i - 1 \in 1..Len(q) /\ r[i] = q[i - 1])
    BY <1>3
  <2>4. j = 1 \/ (j - 1 \in 1..Len(q) /\ r[j] = q[j - 1])
    BY <1>3
  <2>5. CASE i = 1 \/ j = 1
    BY <2>1, <2>3, <2>4, <2>5, <1>1
  <2>6. CASE i # 1 /\ j # 1
    <3>1. i - 1 = j - 1
      BY <2>2, <2>3, <2>4, <2>6
    <3> QED BY <3>1
  <2> QED BY <2>5, <2>6
<1> QED BY <1>1, <1>7, <1>8 DEF r

\* Frames are counted in a queue that holds none twice.
LEMMA OccursOnce ==
    ASSUME NEW S, NEW q \in Seq(S), NEW m, Once(q)
    PROVE  Occurs(m, q) = Count(m \in InQueue(q))
<1> DEFINE places == {i \in DOMAIN q : q[i] = m}
<1>1. DOMAIN q = 1..Len(q)
  OBVIOUS
<1>2. CASE m \in InQueue(q)
  <2>1. PICK k \in 1..Len(q) : q[k] = m
    BY <1>1, <1>2 DEF InQueue
  <2>2. \A i \in 1..Len(q) : q[i] = m => i = k
    BY <2>1 DEF Once
  <2>3. places = {k}
    BY <2>1, <2>2, <1>1
  <2> QED BY <2>3, <1>2, FS_Singleton DEF Occurs, Count
<1>3. CASE m \notin InQueue(q)
  <2>1. places = {}
    BY <1>3 DEF InQueue
  <2> QED BY <2>1, <1>3, FS_EmptySet DEF Occurs, Count
<1> QED BY <1>2, <1>3

\* The frames tried too often at the head of a queue are some of its frames.
LEMMA WornRange ==
    ASSUME NEW S, NEW q \in Seq(S) PROVE Worn(q) \in 0..Len(q)
<1> DEFINE W == {k \in DOMAIN q : \A i \in 1..k : retry_count[q[i]] >= RetryMax}
<1>1. DOMAIN q = 1..Len(q) /\ Len(q) \in Nat
  OBVIOUS
<1>2. IsFiniteSet(1..Len(q)) /\ Cardinality(1..Len(q)) = Len(q)
  BY SMTT(60), <1>1, FS_Interval
<1>3. W \subseteq 1..Len(q)
  BY <1>1
<1>4. Cardinality(W) <= Len(q) /\ Cardinality(W) \in Nat
  BY <1>2, <1>3, FS_Subset, FS_CardinalityType
<1> QED BY <1>1, <1>4 DEF Worn

-----------------------------------------------------------------------------
(* Typing.                                                                 *)

\* Frames that are released are typed, and the free ones counted right.
LEMMA Released ==
    ASSUME TypeOK, NEW M \in SUBSET Msdu, Release(M)
    PROVE  /\ free' \subseteq Msdu /\ node_free' \in Int
           /\ retry_count' \in [Msdu -> 0..RetryMax]
           /\ DspSendOkFlag' \in [Frame -> 0..2] /\ in_working' \in [Frame -> SUBSET Part]
           /\ node_free = Cardinality(free) /\ M \cap free = {} => node_free' = Cardinality(free')
<1>1. IsFiniteSet(free) /\ IsFiniteSet(M)
  BY TxAssumption, FS_Subset DEF TypeOK
<1>2. Cardinality(M) \in Nat /\ Cardinality(free) \in Nat
  BY <1>1, FS_CardinalityType
<1>3. free' \subseteq Msdu /\ node_free' \in Int
  BY <1>2 DEF TypeOK, Release
<1>4. retry_count' \in [Msdu -> 0..RetryMax]
  <2>1. 0 \in 0..RetryMax
    BY TxAssumption
  <2> QED BY <2>1 DEF TypeOK, Release
<1>5. DspSendOkFlag' \in [Frame -> 0..2] /\ in_working' \in [Frame -> SUBSET Part]
  BY DEF TypeOK, Release
<1>6. ASSUME node_free = Cardinality(free), M \cap free = {}
      PROVE  node_free' = Cardinality(free')
  <2>1. Cardinality(free \cup M) = Cardinality(free) + Cardinality(M) - Cardinality(free \cap M)
    BY <1>1, FS_Union
  <2>2. Cardinality(free \cap M) = 0
    <3>1. free \cap M = {}
      BY <1>6
    <3> QED BY <3>1, FS_EmptySet
  <2> QED BY <1>2, <1>6, <2>1, <2>2 DEF Release
<1> QED BY <1>3, <1>4, <1>5, <1>6

\* The queue that is started again is made of frames of the old one.
LEMMA Restarted ==
    ASSUME TypeOK, NEW n \in 1..MaxReturned
    PROVE  LET q == Kept(n)
               run == SubSeq(q, Worn(q) + 1, Len(q))
           IN  /\ run \in Seq(Msdu) /\ InQueue(run) \subseteq Kepts
               /\ Once(retry_que) => Once(run)
<1> DEFINE k == Larger(0, Len(retry_que) - n)
           q == Kept(n)
           run == SubSeq(q, Worn(q) + 1, Len(q))
<1>1. retry_que \in Seq(Msdu) /\ k \in 0..Len(retry_que)
  <2>1. retry_que \in Seq(Msdu) /\ Len(retry_que) \in Nat /\ n \in Nat
    BY TxAssumption DEF TypeOK
  <2> QED BY <2>1 DEF Larger
<1>2. /\ q \in Seq(Msdu) /\ InQueue(q) \subseteq Kepts
      /\ Once(retry_que) => Once(q)
  <2> HIDE DEF k
  <2>1. /\ SubSeq(retry_que, k + 1, Len(retry_que)) \in Seq(Msdu)
        /\ InQueue(SubSeq(retry_que, k + 1, Len(retry_que))) \subseteq InQueue(retry_que)
        /\ Once(retry_que) => Once(SubSeq(retry_que, k + 1, Len(retry_que)))
    BY <1>1, RestOf
  <2>2. q = SubSeq(retry_que, k + 1, Len(retry_que))
    BY DEF Kept, k
  <2> QED BY <2>1, <2>2 DEF Kepts
<1> HIDE DEF q
<1>3. Worn(q) \in 0..Len(q)
  BY <1>2, WornRange
<1>4. /\ run \in Seq(Msdu) /\ InQueue(run) \subseteq InQueue(q)
      /\ Once(q) => Once(run)
  BY <1>2, <1>3, RestOf
<1> QED BY <1>2, <1>4 DEF q

\* Each frame of the retry queue is one of the pool.
LEMMA QueueTypes ==
    ASSUME TypeOK
    PROVE  /\ Data \subseteq Msdu /\ Kepts \subseteq Msdu /\ Mngs \subseteq Mmpdu
           /\ Len(data_que) \in Nat /\ Len(retry_que) \in Nat /\ Len(mng_que) \in Nat
<1>1. \A S : \A q \in Seq(S) : InQueue(q) \subseteq S /\ Len(q) \in Nat
  BY DEF InQueue
<1>2. data_que \in Seq(Msdu) /\ retry_que \in Seq(Msdu) /\ mng_que \in Seq(Mmpdu)
  BY DEF TypeOK
<1> QED BY <1>1, <1>2 DEF Data, Kepts, Mngs

\* A budget that is spent stays a budget.
LEMMA SpendTyped ==
    ASSUME left \in [Bounded -> Nat], NEW what \in Bounded, Spend(what)
    PROVE  left' \in [Bounded -> Nat]
<1>1. left[what] \in Nat /\ left[what] > 0
  BY DEF Spend
<1>2. left[what] - 1 \in Nat
  BY <1>1
<1> QED BY <1>2 DEF Spend

Routine ==
    [at : {"idle", "find", "clear", "data", "head", "body", "record", "advance", "back"},
     m : Frame \cup {None}]
Taker == [m : Msdu \cup {None}, node : Int, only : BOOLEAN]
Sender == [at : {"none", "done", "room", "full", "drop"}, m : Frame \cup {None},
           old : Msdu \cup {None}]
WorkAt == {"idle", "wait_head", "wait_body", "restore", "load", "pop", "drop", "init", "end"}
Work == [at : WorkAt, m : Frame \cup {None}, stop : BOOLEAN, returned : BOOLEAN,
         q : {"data", "retry"}]

\* A transfer that is submitted, or refused, leaves everything typed.
LEMMA SubmitTyped ==
    ASSUME TypeOK, NEW p \in Part, tx.m \in Frame, Submit(p)
    PROVE  urb' \in [Part -> Frame \cup {None}] /\ left' \in [Bounded -> Nat]
           /\ tx' \in Routine
<1>1. left' \in [Bounded -> Nat]
  <2>1. "fail" \in Bounded /\ left \in [Bounded -> Nat]
    BY DEF Bounded, TypeOK
  <2> QED BY <2>1, SpendTyped DEF Submit
<1>2. urb' \in [Part -> Frame \cup {None}]
  BY DEF Submit, TypeOK
<1>3. \E at \in {"body", "record", "back"} : tx' = [at |-> at, m |-> tx.m]
  BY DEF Submit, Resume
<1>4. tx' \in Routine
  BY <1>3 DEF Routine
<1> QED BY <1>1, <1>2, <1>4

\* Typing in parts, of which most steps touch one or two.
PoolTypeOK ==
    /\ free \subseteq Msdu /\ node_free \in Int /\ free_mng \subseteq Mmpdu
    /\ data_que \in Seq(Msdu) /\ retry_que \in Seq(Msdu) /\ mng_que \in Seq(Mmpdu)
    /\ taking \in Taker
FieldTypeOK ==
    /\ retry_count \in [Msdu -> 0..RetryMax]
    /\ DspSendOkFlag \in [Frame -> 0..2] /\ in_working \in [Frame -> SUBSET Part]
RetryTypeOK == tx_retry_valid \in BOOLEAN /\ tx_retry_index \in Nat
FlowTypeOK ==
    /\ sending_msdu \in Frame \cup {None} /\ tx_busy_sending \in BOOLEAN
    /\ urb \in [Part -> Frame \cup {None}] /\ done \subseteq Part
    /\ sent \in Sender
TaskletTypeOK ==
    /\ scheduled \in BOOLEAN
    /\ tx \in Routine
ThreadTypeOK ==
    /\ watching \in BOOLEAN /\ driver_state \in {"WORK", "STOP_TX"} /\ task \in BOOLEAN
    /\ worker \in Work
Parts == /\ PoolTypeOK /\ FieldTypeOK /\ RetryTypeOK /\ FlowTypeOK /\ TaskletTypeOK
         /\ ThreadTypeOK /\ left \in [Bounded -> Nat]

\* They make up the type invariant, before and after a step.
LEMMA TypeParts == (TypeOK <=> Parts) /\ (TypeOK' <=> Parts')
BY DEF TypeOK, Parts, PoolTypeOK, FieldTypeOK, RetryTypeOK, FlowTypeOK, TaskletTypeOK,
       ThreadTypeOK, Routine, Taker, Sender, WorkAt, Work

\* What the task thread holds moves on.
LEMMA WorkerMoves ==
    ASSUME worker \in Work, NEW a \in WorkAt, NEW m \in Frame \cup {None},
           NEW q \in {"data", "retry"}
    PROVE  /\ [worker EXCEPT !.at = a] \in Work
           /\ [worker EXCEPT !.at = a, !.m = m] \in Work
           /\ [worker EXCEPT !.at = a, !.q = q] \in Work
           /\ [worker EXCEPT !.at = a, !.returned = ~worker.stop] \in Work
<1>1. \A b \in BOOLEAN : (~b) \in BOOLEAN
  BY Zenon
<1>2. worker.stop \in BOOLEAN
  BY DEF Work
<1>3. (~worker.stop) \in BOOLEAN
  BY <1>1, <1>2, Zenon
<1>4. \A r \in BOOLEAN : [worker EXCEPT !.at = a, !.returned = r] \in Work
  BY DEF Work
<1>5. /\ [worker EXCEPT !.at = a] \in Work
      /\ [worker EXCEPT !.at = a, !.m = m] \in Work
      /\ [worker EXCEPT !.at = a, !.q = q] \in Work
  BY DEF Work
<1> QED BY <1>3, <1>4, <1>5

\* An idle task thread holds nothing.
LEMMA NoWorkTyped == NoWork \in Work
<1>1. TRUE \in BOOLEAN /\ FALSE \in BOOLEAN /\ None \in Frame \cup {None}
  BY Zenon
<1> QED BY <1>1 DEF NoWork, WorkAt, Work

\* A frame is noted as being taken, or as sent.
LEMMA NotesTyped ==
    /\ NotTaking \in Taker /\ NoSent \in Sender
    /\ \A m \in Msdu, n \in Int, b \in BOOLEAN : [m |-> m, node |-> n, only |-> b] \in Taker
<1>1. FALSE \in BOOLEAN
  BY Zenon
<1> QED BY <1>1 DEF NotTaking, NoSent, Taker, Sender

\* The rest of a queue is one.
LEMMA RestTyped ==
    ASSUME NEW S, NEW q \in Seq(S) PROVE Rest(q) \in Seq(S)
<1>1. << >> \in Seq(S)
  OBVIOUS
<1> QED BY <1>1, TakeHead DEF Rest

\* Typing is kept by every step; the tasklet only acts on a frame it has.
LEMMA TypeStep ==
    ASSUME TypeOK, Holding, Next PROVE TypeOK'
<1> USE TxAssumption
<1>0. Parts
  BY TypeParts
<1>1. CASE Adap_Send
  <2>1. PICK m \in free : taking' = [m |-> m, node |-> node_free, only |-> free = {m}]
    BY <1>1 DEF Adap_Send
  <2>2. (free = {m}) \in BOOLEAN
    BY Zenon
  <2>3. m \in Msdu /\ node_free \in Int
    BY DEF TypeOK
  <2>4. taking' \in Taker
    BY <2>1, <2>2, <2>3, NotesTyped
  <2>5. PoolTypeOK'
    BY <1>0, <1>1, <2>4 DEF Adap_Send, Parts, PoolTypeOK, queues
  <2>6. FieldTypeOK' /\ RetryTypeOK' /\ FlowTypeOK' /\ TaskletTypeOK' /\ ThreadTypeOK'
    BY <1>0, <1>1 DEF Adap_Send, Parts, FieldTypeOK, RetryTypeOK, FlowTypeOK, TaskletTypeOK,
         ThreadTypeOK, frames, retry, sending, usb, threads
  <2> QED BY <1>0, <1>1, <2>5, <2>6, TypeParts DEF Adap_Send, Parts
<1>26. CASE Alloc_Take
  <2>1. taking.m \in Msdu /\ taking.node \in Int /\ data_que \in Seq(Msdu)
    BY <1>26 DEF Alloc_Take, Holding, TypeOK
  <2>2. data_que' \in Seq(Msdu)
    BY <1>26, <2>1, PutLast DEF Alloc_Take
  <2>3. free' \subseteq Msdu /\ node_free' \in Int /\ taking' \in Taker
    BY <1>26, <2>1, NotesTyped DEF Alloc_Take, TypeOK
  <2>4. PoolTypeOK'
    BY <1>0, <1>26, <2>2, <2>3 DEF Alloc_Take, Parts, PoolTypeOK
  <2>5. scheduled' \in BOOLEAN
    BY <1>26, Zenon DEF Alloc_Take
  <2>6. FieldTypeOK' /\ RetryTypeOK' /\ FlowTypeOK' /\ TaskletTypeOK' /\ ThreadTypeOK'
    BY <1>0, <1>26, <2>5 DEF Alloc_Take, Parts, FieldTypeOK, RetryTypeOK, FlowTypeOK, TaskletTypeOK,
         ThreadTypeOK, frames, retry, sending, usb, threads
  <2> QED BY <1>0, <1>26, <2>4, <2>6, TypeParts DEF Alloc_Take, Parts
<1>2. CASE Tx_Transmit_mng_frame
  <2>1. left' \in [Bounded -> Nat]
    BY <1>2, SpendTyped DEF Tx_Transmit_mng_frame, TypeOK, Bounded
  <2>2. PICK m \in free_mng : free_mng' = free_mng \ {m} /\ mng_que' = Append(mng_que, m)
    BY <1>2 DEF Tx_Transmit_mng_frame
  <2>3. mng_que' \in Seq(Mmpdu) /\ free_mng' \subseteq Mmpdu
    BY <2>2, PutLast DEF TypeOK
  <2>4. PoolTypeOK'
    BY <1>0, <1>2, <2>3 DEF Tx_Transmit_mng_frame, Parts, PoolTypeOK
  <2>5. scheduled' \in BOOLEAN
    BY <1>2, Zenon DEF Tx_Transmit_mng_frame
  <2>6. FieldTypeOK' /\ RetryTypeOK' /\ FlowTypeOK' /\ TaskletTypeOK' /\ ThreadTypeOK'
    BY <1>0, <1>2, <2>5 DEF Tx_Transmit_mng_frame, Parts, FieldTypeOK, RetryTypeOK, FlowTypeOK,
         TaskletTypeOK, ThreadTypeOK, frames, retry, sending, usb, threads
  <2> QED BY <2>1, <2>4, <2>6, TypeParts DEF Parts
<1>3. CASE Routine_Return
  <2>1. scheduled' \in BOOLEAN
    BY <1>3, Zenon DEF Routine_Return
  <2>2. TaskletTypeOK' /\ ThreadTypeOK' /\ PoolTypeOK' /\ FieldTypeOK' /\ RetryTypeOK' /\ FlowTypeOK'
    BY <1>0, <1>3, <2>1 DEF Routine_Return, Parts, PoolTypeOK, FieldTypeOK, RetryTypeOK, FlowTypeOK,
         TaskletTypeOK, ThreadTypeOK, pools, queues, frames, retry, sending, usb, threads
  <2> QED BY <1>0, <1>3, <2>2, TypeParts DEF Routine_Return, Parts
<1>4. CASE Routine_Start
  <2>1. mng_que # << >> => Head(mng_que) \in Mmpdu /\ Tail(mng_que) \in Seq(Mmpdu)
    BY TakeHead DEF TypeOK
  <2>2. scheduled' \in BOOLEAN
    BY <1>4, Zenon DEF Routine_Start
  <2>3. PoolTypeOK' /\ FieldTypeOK' /\ RetryTypeOK' /\ FlowTypeOK'
    BY <1>0, <1>4, <2>1 DEF Routine_Start, Parts, PoolTypeOK, FieldTypeOK, RetryTypeOK, FlowTypeOK,
         pools, frames, retry, sending, usb
  <2>4. TaskletTypeOK'
    BY <1>0, <1>4, <2>1, <2>2 DEF Routine_Start, Resume, Parts, TaskletTypeOK, Routine, Frame
  <2>5. ThreadTypeOK'
    BY <1>0, <1>4 DEF Routine_Start, Parts, ThreadTypeOK, threads
  <2> QED BY <1>0, <1>4, <2>3, <2>4, <2>5, TypeParts DEF Routine_Start, Parts
<1>5. CASE Routine_Find
  <2>1. tx_retry_index < Len(retry_que) => retry_que[tx_retry_index + 1] \in Msdu
    BY DEF TypeOK
  <2> QED BY SMTT(60), <1>5, <2>1 DEF Routine_Find, TypeOK, Resume, Frame, pools, queues, frames, retry, sending, usb, threads
<1>6. CASE Routine_Clear
  <2>1. tx_retry_valid' = FALSE /\ tx_retry_index' = 0
    BY <1>6 DEF Routine_Clear
  <2>2. tx_retry_valid' \in BOOLEAN
    BY <2>1, Zenon
  <2>3. PoolTypeOK' /\ FieldTypeOK' /\ RetryTypeOK' /\ FlowTypeOK'
    BY <1>0, <1>6, <2>1, <2>2 DEF Routine_Clear, Parts, PoolTypeOK, FieldTypeOK, RetryTypeOK,
         FlowTypeOK, pools, queues, frames, sending, usb
  <2>4. TaskletTypeOK' /\ ThreadTypeOK'
    BY <1>0, <1>6 DEF Routine_Clear, Resume, Parts, TaskletTypeOK, Routine, ThreadTypeOK, threads
  <2> QED BY <1>0, <1>6, <2>3, <2>4, TypeParts DEF Routine_Clear, Parts
<1>7. CASE Routine_Data
  <2>1. data_que # << >> => Head(data_que) \in Msdu /\ Tail(data_que) \in Seq(Msdu)
    BY TakeHead DEF TypeOK
  <2>2. PoolTypeOK' /\ FieldTypeOK' /\ RetryTypeOK' /\ FlowTypeOK'
    BY <1>0, <1>7, <2>1 DEF Routine_Data, Parts, PoolTypeOK, FieldTypeOK, RetryTypeOK, FlowTypeOK,
         pools, frames, retry, sending, usb
  <2>3. TaskletTypeOK'
    BY <1>0, <1>7, <2>1 DEF Routine_Data, Resume, Parts, TaskletTypeOK, Routine, Frame
  <2>4. ThreadTypeOK'
    BY <1>0, <1>7 DEF Routine_Data, Parts, ThreadTypeOK, threads
  <2> QED BY <1>0, <1>7, <2>2, <2>3, <2>4, TypeParts DEF Routine_Data, Parts
<1>8. CASE Submit_Head
  <2>1. tx.m \in Frame
    BY <1>8 DEF Submit_Head, Holding
  <2>2. "head" \in Part
    BY DEF Part
  <2>3. Submit("head")
    BY <1>8 DEF Submit_Head
  <2>4. retry_count' \in [Msdu -> 0..RetryMax]
    <3>1. RetryMax \in 0..RetryMax
      OBVIOUS
    <3> QED BY <1>8, <3>1 DEF Submit_Head, TypeOK
  <2>5. DspSendOkFlag' \in [Frame -> 0..2] /\ in_working' \in [Frame -> SUBSET Part]
    <3>1. 2 \in 0..2 /\ Part \in SUBSET Part
      OBVIOUS
    <3> QED BY <1>8, <3>1 DEF Submit_Head, TypeOK
  <2>6. /\ urb' \in [Part -> Frame \cup {None}] /\ left' \in [Bounded -> Nat]
        /\ tx' \in Routine
    BY <2>1, <2>2, <2>3, SubmitTyped
  <2> QED BY <1>8, <2>4, <2>5, <2>6
        DEF Submit_Head, TypeOK, Routine, pools, queues, retry, sending, threads
<1>9. CASE Submit_Body
  <2>1. tx.m \in Frame
    BY <1>9 DEF Submit_Body, Holding
  <2>2. "body" \in Part
    BY DEF Part
  <2>3. Submit("body")
    BY <1>9 DEF Submit_Body
  <2>4. /\ urb' \in [Part -> Frame \cup {None}] /\ left' \in [Bounded -> Nat]
        /\ tx' \in Routine
    BY <2>1, <2>2, <2>3, SubmitTyped
  <2> QED BY <1>9, <2>4 DEF Submit_Body, TypeOK, Routine, pools, queues, frames, retry, sending, threads
<1>10. CASE Submit_Record
  BY <1>10 DEF Submit_Record, TypeOK, Resume, pools, queues, frames, retry, usb, threads
<1>11. CASE Routine_Advance
  BY <1>11 DEF Routine_Advance, TypeOK, Resume, pools, queues, frames, sending, usb, threads
<1>12. CASE Routine_Back
  <2>1. tx.m \in Frame
    BY <1>12 DEF Routine_Back, Holding
  <2>2. tx.m \in Mmpdu => << tx.m >> \o mng_que \in Seq(Mmpdu)
    BY PutFirst DEF TypeOK
  <2>3. tx.m \in Msdu => << tx.m >> \o data_que \in Seq(Msdu)
    BY PutFirst DEF TypeOK
  <2>4. mng_que' \in Seq(Mmpdu) /\ data_que' \in Seq(Msdu)
    BY <1>12, <2>1, <2>2, <2>3 DEF Routine_Back, TypeOK, Frame
  <2> QED BY <1>12, <2>4
        DEF Routine_Back, TypeOK, Resume, pools, frames, retry, sending, usb, threads
<1>13. ASSUME NEW p \in Part, Usb_Completion(p) PROVE TypeOK'
  BY <1>13 DEF Usb_Completion, TypeOK, pools, queues, frames, retry, sending, threads
<1>14. ASSUME NEW p \in Part, TransferDone(p) PROVE TypeOK'
  <2>1. urb[p] \in Frame
    BY <1>14 DEF TransferDone, Holding
  <2> DEFINE n == IF DspSendOkFlag[urb[p]] > 0 THEN DspSendOkFlag[urb[p]] - 1 ELSE 0
  <2>2. n \in 0..2
    <3>1. DspSendOkFlag[urb[p]] \in 0..2
      BY <2>1 DEF TypeOK
    <3> QED BY <3>1
  <2>3. DspSendOkFlag' = [DspSendOkFlag EXCEPT ![urb[p]] = n]
    BY <1>14 DEF TransferDone
  <2> HIDE DEF n
  <2>4. DspSendOkFlag' \in [Frame -> 0..2]
    BY <2>2, <2>3 DEF TypeOK
  <2>5. in_working' \in [Frame -> SUBSET Part] /\ urb' \in [Part -> Frame \cup {None}]
        /\ done' \subseteq Part
    BY <1>14 DEF TransferDone, TypeOK
  <2>6. watching' \in BOOLEAN /\ tx_busy_sending' \in BOOLEAN
    BY <1>14 DEF TransferDone, TypeOK, sending
  <2>7. sending_msdu' \in Frame \cup {None} /\ sent' \in Sender
    <3>1. [NoSent EXCEPT !.at = "done", !.m = urb[p]] \in Sender
      BY <2>1 DEF NoSent, Sender
    <3>2. sent \in Sender
      BY <1>0 DEF Parts, FlowTypeOK
    <3> QED BY <1>14, <3>1, <3>2 DEF TransferDone, TypeOK, sending
  <2>8. FlowTypeOK'
    BY <2>5, <2>6, <2>7 DEF FlowTypeOK
  <2>9. PoolTypeOK' /\ RetryTypeOK' /\ TaskletTypeOK'
    BY <1>0, <1>14 DEF TransferDone, Parts, PoolTypeOK, RetryTypeOK, TaskletTypeOK, pools, queues, retry
  <2>10. FieldTypeOK'
    BY <1>0, <1>14, <2>4, <2>5 DEF TransferDone, Parts, FieldTypeOK
  <2>11. ThreadTypeOK'
    BY <1>0, <1>14, <2>6 DEF TransferDone, Parts, ThreadTypeOK, threads
  <2> QED BY <1>0, <1>14, <2>8, <2>9, <2>10, <2>11, TypeParts DEF TransferDone, Parts
<1>15. CASE Process_Sent
  <2>1. sent.m \in Frame /\ sent \in Sender
    BY <1>0, <1>15 DEF Process_Sent, Holding, Parts, FlowTypeOK
  <2>2. sent' \in Sender
    <3>1. retry_que \in Seq(Msdu) /\ RetryList - 1 > 0
      BY TxAssumption DEF TypeOK
    <3>2. LastOf(retry_que) \in Msdu \cup {None}
      BY <3>1 DEF LastOf
    <3>3. ~(Len(retry_que) < RetryList - 1) => Head(retry_que) \in Msdu
      <4>1. ~(Len(retry_que) < RetryList - 1) => retry_que # << >>
        BY <3>1
      <4> QED BY <3>1, <4>1, TakeHead
    <3>4. [sent EXCEPT !.at = "room", !.old = LastOf(retry_que)] \in Sender
      BY <2>1, <3>2 DEF Sender
    <3>5. \A h \in Msdu : [sent EXCEPT !.at = "full", !.old = h] \in Sender
      BY <2>1 DEF Sender
    <3>6. \/ sent' = NoSent
          \/ sent' = [sent EXCEPT !.at = "room", !.old = LastOf(retry_que)]
          \/ ~(Len(retry_que) < RetryList - 1) /\ sent' = [sent EXCEPT !.at = "full", !.old = Head(retry_que)]
      BY <1>15 DEF Process_Sent, Sent_Finish
    <3> QED BY <3>3, <3>4, <3>5, <3>6, NotesTyped
  <2>3. retry_count' \in [Msdu -> 0..RetryMax]
    <3>1. CASE IsRetry(sent.m) /\ retry_count' = [retry_count EXCEPT
                  ![sent.m] = IF @ < RetryMax THEN @ + 1 ELSE @]
      <4>1. sent.m \in Msdu
        BY <3>1, QueueTypes DEF IsRetry, Kepts
      <4> DEFINE c == IF retry_count[sent.m] < RetryMax THEN retry_count[sent.m] + 1
                      ELSE retry_count[sent.m]
      <4>2. c \in 0..RetryMax
        <5>1. retry_count[sent.m] \in 0..RetryMax
          BY <4>1 DEF TypeOK
        <5> QED BY <5>1
      <4>3. retry_count' = [retry_count EXCEPT ![sent.m] = c]
        BY <3>1
      <4> HIDE DEF c
      <4> QED BY <4>2, <4>3 DEF TypeOK
    <3> QED BY <1>15, <3>1 DEF Process_Sent, TypeOK
  <2>4. free_mng' \subseteq Mmpdu
    BY <1>15 DEF Process_Sent, TypeOK
  <2>5. scheduled' \in BOOLEAN
    <3>1. scheduled' = scheduled \/ scheduled' = TRUE
      BY <1>15 DEF Process_Sent, Sent_Finish, SentSchedules
    <3>2. scheduled \in BOOLEAN
      BY DEF TypeOK
    <3> QED BY <3>1, <3>2, Zenon
  <2>6. PoolTypeOK' /\ FieldTypeOK'
    BY <1>0, <1>15, <2>3, <2>4 DEF Process_Sent, Parts, PoolTypeOK, FieldTypeOK, queues
  <2>7. FlowTypeOK' /\ RetryTypeOK'
    BY <1>0, <1>15, <2>2 DEF Process_Sent, Parts, FlowTypeOK, RetryTypeOK, retry, sending, usb
  <2>8. TaskletTypeOK' /\ ThreadTypeOK'
    BY <1>0, <1>15, <2>5 DEF Process_Sent, Parts, TaskletTypeOK, ThreadTypeOK, threads
  <2> QED BY <1>0, <1>15, <2>6, <2>7, <2>8, TypeParts DEF Process_Sent, Parts
<1>27. CASE KeepSent_Room \/ KeepSent_Full
  <2>1. sent.m \in Msdu /\ retry_que \in Seq(Msdu) /\ << >> \in Seq(Msdu) /\ sent \in Sender
    BY <1>0, <1>27 DEF KeepSent_Room, KeepSent_Full, Holding, Parts, PoolTypeOK, FlowTypeOK
  <2>2. /\ Append(retry_que, sent.m) \in Seq(Msdu)
        /\ Append(Rest(retry_que), sent.m) \in Seq(Msdu)
    <3>1. Rest(retry_que) \in Seq(Msdu)
      BY <2>1, RestTyped
    <3> QED BY <2>1, <3>1, PutLast
  <2>3. retry_que' \in Seq(Msdu)
    BY <1>27, <2>1, <2>2 DEF KeepSent_Room, KeepSent_Full
  <2>4. sent' \in Sender
    <3>1. [sent EXCEPT !.at = "drop", !.m = None] \in Sender
      BY <2>1 DEF Sender
    <3> QED BY <1>27, <3>1, NotesTyped DEF KeepSent_Room, KeepSent_Full, Sent_Finish
  <2>5. scheduled' \in BOOLEAN
    <3>1. scheduled' = scheduled \/ scheduled' = TRUE
      BY <1>27 DEF KeepSent_Room, KeepSent_Full, Sent_Finish, SentSchedules
    <3>2. scheduled \in BOOLEAN
      BY DEF TypeOK
    <3> QED BY <3>1, <3>2, Zenon
  <2>6. PoolTypeOK'
    BY <1>0, <1>27, <2>3 DEF KeepSent_Room, KeepSent_Full, Parts, PoolTypeOK, pools
  <2>7. FieldTypeOK' /\ RetryTypeOK' /\ FlowTypeOK'
    BY <1>0, <1>27, <2>4 DEF KeepSent_Room, KeepSent_Full, Parts, FieldTypeOK, RetryTypeOK,
         FlowTypeOK, frames, retry, sending, usb
  <2>8. TaskletTypeOK' /\ ThreadTypeOK'
    BY <1>0, <1>27, <2>5 DEF KeepSent_Room, KeepSent_Full, Parts, TaskletTypeOK, ThreadTypeOK,
         threads
  <2> QED BY <1>0, <1>27, <2>6, <2>7, <2>8, TypeParts DEF KeepSent_Room, KeepSent_Full, Parts
<1>28. CASE KeepSent_Drop
  <2>1. {sent.old} \in SUBSET Msdu /\ Release({sent.old})
    BY <1>28 DEF KeepSent_Drop, Holding
  <2>2. /\ free' \subseteq Msdu /\ node_free' \in Int
        /\ retry_count' \in [Msdu -> 0..RetryMax]
        /\ DspSendOkFlag' \in [Frame -> 0..2] /\ in_working' \in [Frame -> SUBSET Part]
    BY <2>1, Released
  <2>3. PoolTypeOK' /\ FieldTypeOK'
    BY <1>0, <1>28, <2>2 DEF KeepSent_Drop, Parts, PoolTypeOK, FieldTypeOK, queues
  <2>4. sent' \in Sender
    BY <1>28, NotesTyped DEF KeepSent_Drop, Sent_Finish
  <2>5. scheduled' \in BOOLEAN
    BY <1>28, Zenon DEF KeepSent_Drop, Sent_Finish, SentSchedules
  <2>6. FlowTypeOK' /\ RetryTypeOK' /\ TaskletTypeOK' /\ ThreadTypeOK'
    BY <1>0, <1>28, <2>4, <2>5 DEF KeepSent_Drop, Parts, FlowTypeOK, RetryTypeOK, TaskletTypeOK,
         ThreadTypeOK, retry, sending, usb, threads
  <2> QED BY <1>0, <1>28, <2>3, <2>6, TypeParts DEF KeepSent_Drop, Parts
<1>16. ASSUME NEW n \in 1..MaxReturned, Tx_Process_Retry_Int(n) PROVE TypeOK'
  <2>1. left' \in [Bounded -> Nat]
    BY <1>16, SpendTyped DEF Tx_Process_Retry_Int, TypeOK, Bounded
  <2>2. FlowTypeOK' /\ ThreadTypeOK'
    BY <1>0, <1>16 DEF Tx_Process_Retry_Int, Parts, FlowTypeOK, ThreadTypeOK, sending, usb, threads
  <2>3. scheduled' \in BOOLEAN
    <3>1. scheduled' = scheduled \/ scheduled' = TRUE
      BY <1>16 DEF Tx_Process_Retry_Int
    <3>2. scheduled \in BOOLEAN
      BY DEF TypeOK
    <3> QED BY <3>1, <3>2, Zenon
  <2>4. TaskletTypeOK'
    BY <1>0, <1>16, <2>3 DEF Tx_Process_Retry_Int, Parts, TaskletTypeOK
  <2>5. CASE tx_retry_valid
    <3>1. tx_retry_index' \in Nat
      BY <1>16, <2>5 DEF Tx_Process_Retry_Int, StepBack, TypeOK
    <3>2. PoolTypeOK' /\ FieldTypeOK' /\ RetryTypeOK'
      BY <1>0, <1>16, <2>5, <3>1 DEF Tx_Process_Retry_Int, Parts, PoolTypeOK, FieldTypeOK,
           RetryTypeOK, frames
    <3> QED BY <2>1, <2>2, <2>4, <3>2, TypeParts DEF Parts
  <2>6. CASE ~tx_retry_valid
    <3> DEFINE q == Kept(n)
               run == SubSeq(q, Worn(q) + 1, Len(q))
               M == Kepts \ InQueue(run)
    <3>1. StartRetry(n)
      BY <1>16, <2>6 DEF Tx_Process_Retry_Int
    <3>2. run \in Seq(Msdu)
      BY Restarted
    <3>3. M \in SUBSET Msdu
      BY QueueTypes
    <3>4. Release(M) /\ retry_que' = run
      BY <3>1 DEF StartRetry, Kepts
    <3>5. \/ tx_retry_valid' = TRUE /\ tx_retry_index' = 0
          \/ tx_retry_valid' = tx_retry_valid /\ tx_retry_index' = tx_retry_index
      BY <3>1 DEF StartRetry, retry
    <3> HIDE DEF run, M
    <3>6. tx_retry_valid' \in BOOLEAN
      BY <1>0, <3>5, Zenon DEF Parts, RetryTypeOK
    <3>7. RetryTypeOK'
      BY <1>0, <3>5, <3>6 DEF Parts, RetryTypeOK
    <3>8. /\ free' \subseteq Msdu /\ node_free' \in Int
          /\ retry_count' \in [Msdu -> 0..RetryMax]
          /\ DspSendOkFlag' \in [Frame -> 0..2] /\ in_working' \in [Frame -> SUBSET Part]
      BY <3>3, <3>4, Released
    <3>9. PoolTypeOK' /\ FieldTypeOK'
      BY <1>0, <1>16, <3>2, <3>4, <3>8 DEF Tx_Process_Retry_Int, Parts, PoolTypeOK, FieldTypeOK
    <3> QED BY <2>1, <2>2, <2>4, <3>7, <3>9, TypeParts DEF Parts
  <2> QED BY <2>5, <2>6
<1>17. CASE Tx_watch_timeout
  <2>1. left' \in [Bounded -> Nat]
    BY <1>17, SpendTyped DEF Tx_watch_timeout, TypeOK, Bounded
  <2>2. PoolTypeOK' /\ FieldTypeOK' /\ RetryTypeOK' /\ FlowTypeOK' /\ TaskletTypeOK'
    BY <1>0, <1>17 DEF Tx_watch_timeout, Parts, PoolTypeOK, FieldTypeOK, RetryTypeOK, FlowTypeOK,
         TaskletTypeOK, pools, queues, frames, retry, sending, usb
  <2>3. watching' \in BOOLEAN /\ task' \in BOOLEAN
    BY <1>17, Zenon DEF Tx_watch_timeout
  <2>4. ThreadTypeOK'
    BY <1>0, <1>17, <2>3 DEF Tx_watch_timeout, Parts, ThreadTypeOK
  <2> QED BY <2>1, <2>2, <2>4, TypeParts DEF Parts
<1>18. CASE TimeOut_Begin
  <2>1. PoolTypeOK' /\ FieldTypeOK' /\ RetryTypeOK' /\ FlowTypeOK' /\ TaskletTypeOK'
    BY <1>0, <1>18 DEF TimeOut_Begin, Parts, PoolTypeOK, FieldTypeOK, RetryTypeOK, FlowTypeOK,
         TaskletTypeOK, pools, queues, frames, retry, sending, usb
  <2>2. task' \in BOOLEAN
    BY <1>18, Zenon DEF TimeOut_Begin
  <2>3. worker' \in Work
    <3>1. CASE worker' = NoWork
      BY <3>1, NoWorkTyped
    <3>2. ASSUME NEW stop \in BOOLEAN,
                 worker' = [NoWork EXCEPT !.at = "wait_head", !.m = sending_msdu, !.stop = stop]
          PROVE  worker' \in Work
      <4>1. sending_msdu \in Frame \cup {None}
        BY DEF TypeOK
      <4> QED BY <3>2, <4>1, NoWorkTyped DEF WorkAt, Work
    <3> QED BY <1>18, <3>1, <3>2 DEF TimeOut_Begin
  <2>4. driver_state' \in {"WORK", "STOP_TX"}
    BY <1>18 DEF TimeOut_Begin, TypeOK
  <2>5. ThreadTypeOK'
    BY <1>0, <1>18, <2>2, <2>3, <2>4 DEF TimeOut_Begin, Parts, ThreadTypeOK
  <2> QED BY <1>0, <1>18, <2>1, <2>5, TypeParts DEF TimeOut_Begin, Parts
<1>19. CASE TimeOut_Restore
  <2>1. watching' \in BOOLEAN
    BY <1>19, Zenon DEF TimeOut_Restore
  <2>2. ThreadTypeOK'
    BY <1>0, <1>19, <2>1, NoWorkTyped DEF TimeOut_Restore, Parts, ThreadTypeOK
  <2>3. PoolTypeOK' /\ FieldTypeOK' /\ RetryTypeOK' /\ FlowTypeOK' /\ TaskletTypeOK'
    BY <1>0, <1>19 DEF TimeOut_Restore, Parts, PoolTypeOK, FieldTypeOK, RetryTypeOK, FlowTypeOK,
         TaskletTypeOK, pools, queues, frames, retry, sending, usb
  <2> QED BY <1>0, <1>19, <2>2, <2>3, TypeParts DEF TimeOut_Restore, Parts
<1>20. ASSUME NEW p \in Part, TimeOut_Idle(p) PROVE TypeOK'
  <2>1. PoolTypeOK' /\ FieldTypeOK' /\ RetryTypeOK' /\ FlowTypeOK' /\ TaskletTypeOK'
    BY <1>0, <1>20 DEF TimeOut_Idle, Parts, PoolTypeOK, FieldTypeOK, RetryTypeOK, FlowTypeOK,
         TaskletTypeOK, pools, queues, frames, retry, sending, usb
  <2>2. After(p) \in WorkAt
    BY DEF After, WorkAt
  <2>3. worker \in Work /\ None \in Frame \cup {None} /\ "data" \in {"data", "retry"}
    BY <1>0 DEF Parts, ThreadTypeOK
  <2>4. [worker EXCEPT !.at = After(p)] \in Work
    BY <2>2, <2>3, WorkerMoves
  <2>5. ThreadTypeOK'
    BY <1>0, <1>20, <2>4 DEF TimeOut_Idle, Parts, ThreadTypeOK
  <2> QED BY <1>0, <1>20, <2>1, <2>5, TypeParts DEF TimeOut_Idle, Parts
<1>21. ASSUME NEW p \in Part, TimeOut_Cancel(p) PROVE TypeOK'
  <2>1. PoolTypeOK' /\ FieldTypeOK' /\ RetryTypeOK' /\ FlowTypeOK' /\ TaskletTypeOK'
    BY <1>0, <1>21 DEF TimeOut_Cancel, Parts, PoolTypeOK, FieldTypeOK, RetryTypeOK, FlowTypeOK,
         TaskletTypeOK, pools, queues, frames, retry, sending, usb
  <2>2. After(p) \in WorkAt
    BY DEF After, WorkAt
  <2>3. worker \in Work /\ None \in Frame \cup {None} /\ "data" \in {"data", "retry"}
    BY <1>0 DEF Parts, ThreadTypeOK
  <2>4. [worker EXCEPT !.at = After(p), !.returned = ~worker.stop] \in Work
    BY <2>2, <2>3, WorkerMoves
  <2>5. ThreadTypeOK'
    BY <1>0, <1>21, <2>4 DEF TimeOut_Cancel, Parts, ThreadTypeOK
  <2> QED BY <1>0, <1>21, <2>1, <2>5, TypeParts DEF TimeOut_Cancel, Parts
<1>22. CASE Cancel_Begin
  <2>1. left' \in [Bounded -> Nat]
    BY <1>22, SpendTyped DEF Cancel_Begin, TypeOK, Bounded
  <2>2. PoolTypeOK' /\ FieldTypeOK' /\ RetryTypeOK' /\ FlowTypeOK' /\ TaskletTypeOK'
    BY <1>0, <1>22 DEF Cancel_Begin, Parts, PoolTypeOK, FieldTypeOK, RetryTypeOK, FlowTypeOK,
         TaskletTypeOK, pools, queues, frames, retry, sending, usb
  <2>3. worker' = [NoWork EXCEPT !.at = "load"]
    BY <1>22 DEF Cancel_Begin
  <2>4. NoWork \in Work
    BY NoWorkTyped
  <2>5. worker' \in Work
    BY <2>3, <2>4 DEF WorkAt, Work
  <2>6. ThreadTypeOK'
    BY <1>0, <1>22, <2>5 DEF Cancel_Begin, Parts, ThreadTypeOK
  <2> QED BY <2>1, <2>2, <2>6, TypeParts DEF Parts
<1>23. CASE Cancel_Load
  <2>1. worker \in Work /\ "init" \in WorkAt /\ "pop" \in WorkAt
        /\ None \in Frame \cup {None} /\ "data" \in {"data", "retry"}
    BY <1>0 DEF Parts, ThreadTypeOK, WorkAt
  <2>2. Emptied # << >> => Head(Emptied) \in Frame \cup {None}
    <3>1. Emptied \in Seq(Msdu)
      BY DEF Emptied, TypeOK
    <3> QED BY <3>1, TakeHead DEF Frame
  <2>3. worker' \in Work
    BY <1>23, <2>1, <2>2, WorkerMoves DEF Cancel_Load
  <2>4. ThreadTypeOK'
    BY <1>0, <1>23, <2>3 DEF Cancel_Load, Parts, ThreadTypeOK
  <2>5. PoolTypeOK' /\ FieldTypeOK' /\ RetryTypeOK' /\ FlowTypeOK' /\ TaskletTypeOK'
    BY <1>0, <1>23 DEF Cancel_Load, Parts, PoolTypeOK, FieldTypeOK, RetryTypeOK, FlowTypeOK,
         TaskletTypeOK, pools, queues, frames, retry, sending, usb
  <2> QED BY <1>0, <1>23, <2>4, <2>5, TypeParts DEF Cancel_Load, Parts
<1>24. CASE Cancel_Pop \/ Cancel_Init
  <2>1. /\ worker \in Work /\ "drop" \in WorkAt /\ "load" \in WorkAt /\ "end" \in WorkAt
        /\ None \in Frame \cup {None} /\ "retry" \in {"data", "retry"}
    BY <1>0 DEF Parts, ThreadTypeOK, WorkAt
  <2>2. worker' \in Work
    BY <1>24, <2>1, WorkerMoves DEF Cancel_Pop, Cancel_Init
  <2>3. Rest(Emptied) \in Seq(Msdu) /\ << >> \in Seq(Msdu)
    <3>1. Emptied \in Seq(Msdu) /\ << >> \in Seq(Msdu)
      BY DEF Emptied, TypeOK
    <3> QED BY <3>1, RestTyped
  <2>4. data_que' \in Seq(Msdu) /\ retry_que' \in Seq(Msdu)
    BY <1>24, <2>3 DEF Cancel_Pop, Cancel_Init, Leave, TypeOK
  <2>5. PoolTypeOK'
    BY <1>0, <1>24, <2>4 DEF Cancel_Pop, Cancel_Init, Parts, PoolTypeOK, pools
  <2>6. ThreadTypeOK'
    BY <1>0, <1>24, <2>2 DEF Cancel_Pop, Cancel_Init, Parts, ThreadTypeOK
  <2>7. FieldTypeOK' /\ RetryTypeOK' /\ FlowTypeOK' /\ TaskletTypeOK'
    BY <1>0, <1>24 DEF Cancel_Pop, Cancel_Init, Parts, FieldTypeOK, RetryTypeOK, FlowTypeOK,
         TaskletTypeOK, frames, retry, sending, usb
  <2> QED BY <1>0, <1>24, <2>5, <2>6, <2>7, TypeParts DEF Cancel_Pop, Cancel_Init, Parts
<1>29. CASE Cancel_Drop
  <2>1. {worker.m} \in SUBSET Msdu /\ Release({worker.m})
    BY <1>29 DEF Cancel_Drop, Holding
  <2>2. /\ free' \subseteq Msdu /\ node_free' \in Int
        /\ retry_count' \in [Msdu -> 0..RetryMax]
        /\ DspSendOkFlag' \in [Frame -> 0..2] /\ in_working' \in [Frame -> SUBSET Part]
    BY <2>1, Released
  <2>3. PoolTypeOK' /\ FieldTypeOK'
    BY <1>0, <1>29, <2>2 DEF Cancel_Drop, Parts, PoolTypeOK, FieldTypeOK, queues
  <2>4. worker' \in Work
    <3>1. worker \in Work /\ "load" \in WorkAt /\ None \in Frame \cup {None}
          /\ "data" \in {"data", "retry"}
      BY <1>0 DEF Parts, ThreadTypeOK, WorkAt
    <3> QED BY <1>29, <3>1, WorkerMoves DEF Cancel_Drop
  <2>5. FlowTypeOK' /\ RetryTypeOK' /\ TaskletTypeOK' /\ ThreadTypeOK'
    BY <1>0, <1>29, <2>4 DEF Cancel_Drop, Parts, FlowTypeOK, RetryTypeOK, TaskletTypeOK,
         ThreadTypeOK, retry, sending, usb
  <2> QED BY <1>0, <1>29, <2>3, <2>5, TypeParts DEF Cancel_Drop, Parts
<1>25. CASE Cancel_End
  <2>1. PoolTypeOK' /\ FieldTypeOK' /\ RetryTypeOK' /\ FlowTypeOK' /\ TaskletTypeOK'
    BY <1>0, <1>25 DEF Cancel_End, Parts, PoolTypeOK, FieldTypeOK, RetryTypeOK, FlowTypeOK,
         TaskletTypeOK, pools, queues, frames, retry, sending, usb
  <2>2. watching' \in BOOLEAN
    BY <1>25, Zenon DEF Cancel_End
  <2>3. ThreadTypeOK'
    BY <1>0, <1>25, <2>2, NoWorkTyped DEF Cancel_End, Parts, ThreadTypeOK
  <2> QED BY <1>0, <1>25, <2>1, <2>3, TypeParts DEF Cancel_End, Parts
<1> QED BY <1>1, <1>2, <1>3, <1>4, <1>5, <1>6, <1>7, <1>8, <1>9, <1>10, <1>11, <1>12, <1>13,
           <1>14, <1>15, <1>16, <1>17, <1>18, <1>19, <1>20, <1>21, <1>22, <1>23, <1>24, <1>25,
           <1>26, <1>27, <1>28, <1>29
        DEF Next, Tasklet, Interrupt, Thread, Others

\* Who is at work has a frame, after every step.
LEMMA HoldStep ==
    ASSUME TypeOK, Holding, Next PROVE Holding'
<1> USE TxAssumption
<1>1. ASSUME UNCHANGED << urb, done, sent >>,
             \/ tx' = tx
             \/ tx'.at \in {"idle", "find", "clear", "data"}
             \/ tx'.m \in Frame,
             taking' = taking \/ taking' = NotTaking \/ taking'.m \in Msdu,
             worker' = worker \/ worker'.at \notin {"pop", "drop"} \/ worker'.m \in Msdu
      PROVE  Holding'
  BY <1>1 DEF Holding
<1>2. CASE Adap_Send
  <2>1. PICK m \in free : taking' = [m |-> m, node |-> node_free, only |-> free = {m}]
    BY <1>2 DEF Adap_Send
  <2>2. taking'.m \in Msdu
    BY <2>1 DEF TypeOK
  <2> QED BY <1>1, <1>2, <2>2 DEF Adap_Send, usb, threads
<1>3. CASE Alloc_Take \/ Tx_Transmit_mng_frame
  BY <1>1, <1>3 DEF Alloc_Take, Tx_Transmit_mng_frame, usb, threads
<1>4. CASE Routine_Start
  <2>1. mng_que # << >> => Head(mng_que) \in Frame
    BY TakeHead DEF TypeOK, Frame
  <2>2. \/ tx'.at \in {"find", "data"}
        \/ mng_que # << >> /\ tx'.m = Head(mng_que)
    BY <1>4 DEF Routine_Start, Resume
  <2> QED BY <1>1, <1>4, <2>1, <2>2 DEF Routine_Start, pools, usb, threads
<1>5. CASE Routine_Find
  <2>1. tx_retry_index < Len(retry_que) => retry_que[tx_retry_index + 1] \in Frame
    BY DEF TypeOK, Frame
  <2>2. \/ tx'.at = "clear"
        \/ tx_retry_index < Len(retry_que) /\ tx'.m = retry_que[tx_retry_index + 1]
    BY <1>5 DEF Routine_Find, Resume
  <2> QED BY <1>1, <1>5, <2>1, <2>2 DEF Routine_Find, pools, usb, threads
<1>6. CASE Routine_Data
  <2>1. data_que # << >> => Head(data_que) \in Frame
    BY TakeHead DEF TypeOK, Frame
  <2>2. \/ tx'.at = "idle"
        \/ data_que # << >> /\ tx'.m = Head(data_que)
    BY <1>6 DEF Routine_Data, Resume
  <2> QED BY <1>1, <1>6, <2>1, <2>2 DEF Routine_Data, pools, usb, threads
<1>7. CASE Routine_Return \/ Routine_Clear \/ Submit_Record \/ Routine_Advance \/ Routine_Back
  <2>1. tx' = tx \/ tx'.at \in {"idle", "data"} \/ (tx.at = "record" /\ tx'.m = tx.m)
    BY <1>7 DEF Routine_Return, Routine_Clear, Submit_Record, Routine_Advance, Routine_Back, Resume
  <2>2. tx.at = "record" => tx.m \in Frame
    BY DEF Holding
  <2>3. UNCHANGED << urb, done, sent, taking, worker >>
    BY <1>7 DEF Routine_Return, Routine_Clear, Submit_Record, Routine_Advance, Routine_Back, pools,
       usb, threads
  <2> QED BY <1>1, <2>1, <2>2, <2>3
<1>8. CASE Submit_Head \/ Submit_Body
  <2>1. PICK p \in Part : Submit(p) /\ tx.m \in Frame
    BY <1>8 DEF Submit_Head, Submit_Body, Holding, Part
  <2>2. UNCHANGED << done, sent, taking, worker >>
    BY <1>8 DEF Submit_Head, Submit_Body, pools, threads
  <2>3. tx'.m = tx.m
    BY <2>1 DEF Submit, Resume
  <2>4. \A o \in done : urb'[o] \in Frame
    <3>1. urb' = urb \/ urb' = [urb EXCEPT ![p] = tx.m]
      BY <2>1 DEF Submit
    <3>2. done \subseteq Part /\ DOMAIN urb = Part
      BY DEF TypeOK
    <3> QED BY <2>1, <3>1, <3>2 DEF Holding
  <2> QED BY <2>1, <2>2, <2>3, <2>4 DEF Holding
<1>9. ASSUME NEW p \in Part, Usb_Completion(p) \/ TimeOut_Cancel(p) PROVE Holding'
  <2>1. /\ UNCHANGED << tx, urb, sent, taking >> /\ done' = done \cup {p} /\ urb[p] # None
        /\ worker' = worker \/ worker'.at \in {"wait_body", "restore"}
    <3>1. CASE Usb_Completion(p)
      BY <3>1 DEF Usb_Completion, pools, threads
    <3>2. CASE TimeOut_Cancel(p)
      <4>1. worker' = [worker EXCEPT !.at = After(p), !.returned = ~worker.stop]
        BY <3>2 DEF TimeOut_Cancel
      <4>2. worker'.at = After(p)
        BY <4>1 DEF TypeOK
      <4> QED BY <3>2, <4>2 DEF TimeOut_Cancel, After, pools
    <3> QED BY <1>9, <3>1, <3>2
  <2>2. urb[p] \in Frame
    BY <2>1 DEF TypeOK
  <2> QED BY <2>1, <2>2 DEF Holding
<1>10. ASSUME NEW p \in Part, TransferDone(p) PROVE Holding'
  <2>1. UNCHANGED << tx, taking, worker >> /\ done' = done \ {p} /\ urb' = [urb EXCEPT ![p] = None]
        /\ urb[p] \in Frame
    BY <1>10 DEF TransferDone, Holding, pools, threads
  <2>2. \A o \in done' : urb'[o] \in Frame
    BY <2>1 DEF Holding, TypeOK
  <2>3. sent' = sent \/ (sent'.at = "done" /\ sent'.m = urb[p])
    BY <1>10 DEF TransferDone, NoSent
  <2> QED BY <2>1, <2>2, <2>3 DEF Holding
<1>11. CASE Process_Sent
  <2>1. UNCHANGED << tx, taking, worker, urb, done >>
    BY <1>11 DEF Process_Sent, usb, threads
  <2>2. \/ sent' = NoSent
        \/ sent'.at = "room" /\ sent'.m = sent.m /\ sent.m \in Msdu
        \/ /\ sent'.at = "full" /\ sent'.m = sent.m /\ sent.m \in Msdu
           /\ sent'.old = Head(retry_que) /\ ~(Len(retry_que) < RetryList - 1)
    <3>1. sent \in Sender
      BY TypeParts DEF Parts, FlowTypeOK
    <3>2. ASSUME sent' = [sent EXCEPT !.at = "room", !.old = LastOf(retry_que)]
          PROVE  sent'.at = "room" /\ sent'.m = sent.m
      BY <3>1, <3>2 DEF Sender
    <3>4. ASSUME sent' = [sent EXCEPT !.at = "full", !.old = Head(retry_que)]
          PROVE  sent'.at = "full" /\ sent'.m = sent.m /\ sent'.old = Head(retry_que)
      BY <3>1, <3>4 DEF Sender
    <3>3. \/ sent' = NoSent
          \/ sent.m \in Msdu /\ sent' = [sent EXCEPT !.at = "room", !.old = LastOf(retry_que)]
          \/ /\ sent.m \in Msdu /\ ~(Len(retry_que) < RetryList - 1)
             /\ sent' = [sent EXCEPT !.at = "full", !.old = Head(retry_que)]
      BY <1>11 DEF Process_Sent, Sent_Finish
    <3> QED BY <3>2, <3>3, <3>4
  <2>3. ~(Len(retry_que) < RetryList - 1) => Head(retry_que) \in Msdu
    <3>1. retry_que \in Seq(Msdu) /\ RetryList - 1 > 0
      BY DEF TypeOK
    <3>2. ~(Len(retry_que) < RetryList - 1) => retry_que # << >>
      BY <3>1
    <3> QED BY <3>1, <3>2, TakeHead
  <2>4. NoSent.at = "none"
    BY DEF NoSent
  <2> QED BY <2>1, <2>2, <2>3, <2>4 DEF Holding
<1>12. CASE KeepSent_Room \/ KeepSent_Full \/ KeepSent_Drop
  <2>1. UNCHANGED << tx, taking, worker, urb, done >>
    BY <1>12 DEF KeepSent_Room, KeepSent_Full, KeepSent_Drop, pools, usb, threads
  <2>2. \/ sent' = NoSent
        \/ sent.at = "full" /\ sent'.at = "drop" /\ sent'.m = None /\ sent'.old = sent.old
    BY ZenonT(60), <1>12 DEF KeepSent_Room, KeepSent_Full, KeepSent_Drop, Sent_Finish, TypeOK
  <2>3. NoSent.at = "none"
    BY DEF NoSent
  <2> QED BY <2>1, <2>2, <2>3 DEF Holding
<1>13. ASSUME NEW n \in 1..MaxReturned, Tx_Process_Retry_Int(n) PROVE Holding'
  BY <1>1, <1>13 DEF Tx_Process_Retry_Int, usb, threads
<1>14. CASE Tx_watch_timeout \/ TimeOut_Begin \/ TimeOut_Restore \/ Cancel_Begin \/ Cancel_End
  <2>1. worker' = worker \/ worker'.at \in {"idle", "wait_head", "load"}
    <3>1. CASE worker' \in {worker, NoWork, [NoWork EXCEPT !.at = "load"]}
      BY <3>1 DEF NoWork
    <3>2. ASSUME NEW stop, worker' = [NoWork EXCEPT !.at = "wait_head", !.m = sending_msdu, !.stop = stop]
          PROVE  worker'.at = "wait_head"
      BY <3>2 DEF NoWork
    <3> QED BY <1>14, <3>1, <3>2
            DEF Tx_watch_timeout, TimeOut_Begin, TimeOut_Restore, Cancel_Begin, Cancel_End
  <2>2. UNCHANGED << tx, taking, urb, done, sent >>
    BY <1>14 DEF Tx_watch_timeout, TimeOut_Begin, TimeOut_Restore, Cancel_Begin, Cancel_End, pools, usb
  <2> QED BY <1>1, <2>1, <2>2
<1>15. ASSUME NEW p \in Part, TimeOut_Idle(p) PROVE Holding'
  <2>1. worker' = [worker EXCEPT !.at = After(p)]
    BY <1>15 DEF TimeOut_Idle
  <2>2. worker'.at = After(p)
    BY <2>1 DEF TypeOK
  <2> QED BY <1>1, <1>15, <2>2 DEF TimeOut_Idle, After, pools, usb
<1>16. CASE Cancel_Load \/ Cancel_Pop \/ Cancel_Drop \/ Cancel_Init
  <2>1. UNCHANGED << tx, taking, urb, done, sent >>
    BY <1>16 DEF Cancel_Load, Cancel_Pop, Cancel_Drop, Cancel_Init, pools, usb
  <2>2. Emptied # << >> => Head(Emptied) \in Msdu
    <3>1. Emptied \in Seq(Msdu)
      BY DEF Emptied, TypeOK
    <3> QED BY <3>1, TakeHead
  <2>3. worker \in Work
    BY TypeParts DEF Parts, ThreadTypeOK
  <2>4. CASE Cancel_Load
    BY <1>1, <2>1, <2>2, <2>3, <2>4 DEF Cancel_Load, Work
  <2>5. CASE Cancel_Pop
    <3>1. worker.m \in Msdu /\ worker' = [worker EXCEPT !.at = "drop"]
      BY <2>5 DEF Cancel_Pop, Holding
    <3>2. worker'.m \in Msdu
      BY <2>3, <3>1 DEF Work
    <3> QED BY <1>1, <2>1, <3>2
  <2>6. CASE Cancel_Drop \/ Cancel_Init
    <3>1. worker'.at \in {"load", "end"}
      BY <2>3, <2>6 DEF Cancel_Drop, Cancel_Init, Work
    <3> QED BY <1>1, <2>1, <3>1
  <2> QED BY <1>16, <2>4, <2>5, <2>6
<1> QED BY <1>2, <1>3, <1>4, <1>5, <1>6, <1>7, <1>8, <1>9, <1>10, <1>11, <1>12, <1>13, <1>14,
           <1>15, <1>16
        DEF Next, Tasklet, Interrupt, Thread, Others

-----------------------------------------------------------------------------
(* Where the frames are.                                                   *)

related == << free, node_free, free_mng, queues, DspSendOkFlag, retry, sending, tx, urb, sent >>

\* A frame that is to be released stays so, and is nowhere else, unless a
\* frame comes from nowhere.
LEMMA DropsStay ==
    ASSUME Holding, DropsOK,
           sent' = sent \/ (sent.at # "drop" /\ sent'.at # "drop"),
           worker' = worker \/ (worker.at # "drop" /\ worker'.at # "drop"),
           \A m \in Msdu : m \in (free \cup Data \cup Kepts \cup Hands)'
                             => m \in free \cup Data \cup Kepts \cup Hands
    PROVE  DropsOK' /\ Dropped' = Dropped
<1>1. Dropped' = Dropped
  BY DEF Dropped
<1>2. Dropped \subseteq Msdu
  BY DEF Dropped, Holding
<1>3. sent'.at = "drop" /\ worker'.at = "drop" => sent'.old # worker'.m
  BY DEF DropsOK
<1> QED BY <1>1, <1>2, <1>3 DEF DropsOK

\* Steps that move no frame.
LEMMA OwnedStays ==
    ASSUME Holding, Owned, UNCHANGED related, \A p \in Part : p \in done' => p \in done \/ urb[p] # None,
           worker' = worker \/ (worker.at # "drop" /\ worker'.at # "drop")
    PROVE  Owned'
<1>1. UNCHANGED << free, node_free, free_mng, data_que, mng_que, retry_que, DspSendOkFlag,
                   tx_retry_valid, tx_retry_index, sending_msdu, tx_busy_sending, tx, urb, sent >>
  BY DEF related, queues, retry, sending
<1>2. HandsOK' /\ RetryOK'
  BY <1>1 DEF Owned, HandsOK, RetryOK, Hands, Kepts
<1>3. DropsOK' /\ Dropped' = Dropped
  BY <1>1, DropsStay DEF Owned, Hands, Data, Kepts
<1>4. HomesOK'
  BY <1>1, <1>3 DEF Owned, HomesOK, Hands, Data, Kepts, Mngs
<1>5. PipesOK'
  BY <1>1 DEF Owned, PipesOK, Data, Kepts, Mngs
<1> QED BY <1>2, <1>3, <1>4, <1>5 DEF Owned

\* What is known of the frames in hand and of the queues.
LEMMA FrameFacts ==
    ASSUME TypeOK
    PROVE  /\ None \notin Msdu /\ None \notin Mmpdu /\ Msdu \cap Mmpdu = {}
           /\ Frame = Msdu \cup Mmpdu
           /\ InQueue(data_que) \subseteq Msdu /\ InQueue(retry_que) \subseteq Msdu
           /\ InQueue(mng_que) \subseteq Mmpdu /\ free \subseteq Msdu /\ free_mng \subseteq Mmpdu
           /\ tx.m \in Frame \cup {None} /\ sending_msdu \in Frame \cup {None}
           /\ sent.m \in Frame \cup {None}
           /\ Len(data_que) \in Nat /\ Len(retry_que) \in Nat /\ tx_retry_index \in Nat
<1>1. /\ Data \subseteq Msdu /\ Kepts \subseteq Msdu /\ Mngs \subseteq Mmpdu
      /\ Len(data_que) \in Nat /\ Len(retry_que) \in Nat
  BY QueueTypes
<1>2. tx.m \in Frame \cup {None} /\ sent.m \in Frame \cup {None}
  BY DEF TypeOK
<1> QED BY <1>1, <1>2, TxAssumption DEF TypeOK, Frame, Data, Kepts, Mngs

\* A data frame handed over leaves the pool for the queue.
LEMMA TakeOwned ==
    ASSUME TypeOK, Holding, Owned, Steady, Alloc_Take PROVE Owned'
<1> DEFINE m == taking.m
<1>1. /\ m \in free /\ free' = free \ {m} /\ node_free' = node_free - 1
      /\ data_que' = Append(data_que, m)
  <2>1. /\ m \in free /\ taking.node = node_free
        /\ taking.only => free = {m}
    BY DEF Alloc_Take, Steady
  <2>2. free' = IF taking.only THEN {} ELSE free \ {m}
    BY DEF Alloc_Take
  <2>3. free' = free \ {m}
    <3>1. CASE taking.only
      BY <2>1, <2>2, <3>1
    <3>2. CASE ~taking.only
      BY <2>2, <3>2
    <3> QED BY <3>1, <3>2
  <2> QED BY <2>1, <2>3 DEF Alloc_Take
<1> HIDE DEF m
<1>2. /\ UNCHANGED << free_mng, mng_que, retry_que, DspSendOkFlag, tx_retry_valid, tx_retry_index,
                      sending_msdu, tx_busy_sending, tx, urb, done, sent, worker >>
  BY DEF Alloc_Take, frames, retry, sending, usb, threads
<1>3. m \notin InQueue(data_que) /\ m \notin InQueue(retry_que) /\ m \notin Hands
  BY <1>1 DEF Owned, HomesOK, Data, Kepts
<1>4. InQueue(data_que') = InQueue(data_que) \cup {m} /\ Once(data_que')
  <2>1. data_que \in Seq(Msdu) /\ m \in Msdu /\ Once(data_que)
    BY <1>1 DEF TypeOK, Owned, HomesOK
  <2> QED BY <1>1, <1>3, <2>1, PutLast
<1>5. node_free' = Cardinality(free')
  <2>1. IsFiniteSet(free)
    BY TxAssumption, FS_Subset DEF TypeOK
  <2>2. Cardinality(free \ {m}) = Cardinality(free) - 1
    BY <1>1, <2>1, FS_RemoveElement
  <2> QED BY <1>1, <2>2 DEF Owned, HomesOK
<1>6. HandsOK' /\ RetryOK'
  BY <1>2 DEF Owned, HandsOK, RetryOK, Hands, Kepts
<1>7. HomesOK' /\ DropsOK'
  <2>1. DropsOK' /\ Dropped' = Dropped
    BY <1>1, <1>2, <1>3, <1>4, <1>5, FrameFacts, DropsStay DEF Owned, Hands, Data, Kepts
  <2>2. HomesOK'
    BY <1>1, <1>2, <1>3, <1>4, <1>5, <2>1 DEF Owned, HomesOK, Hands, Data, Kepts, Mngs
  <2> QED BY <2>1, <2>2
<1>8. PipesOK'
  BY <1>2, <1>4 DEF Owned, PipesOK, Data, Kepts, Mngs
<1> QED BY <1>6, <1>7, <1>8 DEF Owned

\* A management frame likewise.
LEMMA MngOwned ==
    ASSUME TypeOK, Holding, Owned, Tx_Transmit_mng_frame PROVE Owned'
<1>1. PICK m \in free_mng : free_mng' = free_mng \ {m} /\ mng_que' = Append(mng_que, m)
  BY DEF Tx_Transmit_mng_frame
<1>2. /\ UNCHANGED << free, node_free, data_que, retry_que, DspSendOkFlag, tx_retry_valid,
                      tx_retry_index, sending_msdu, tx_busy_sending, tx, urb, done, sent, worker >>
  BY DEF Tx_Transmit_mng_frame, frames, retry, sending, usb, threads
<1>3. m \notin InQueue(mng_que) /\ m \notin Hands
  BY DEF Owned, HomesOK, Mngs
<1>4. InQueue(mng_que') = InQueue(mng_que) \cup {m} /\ Once(mng_que')
  <2>1. mng_que \in Seq(Mmpdu) /\ m \in Mmpdu /\ Once(mng_que)
    BY DEF TypeOK, Owned, HomesOK
  <2> QED BY <1>1, <1>3, <2>1, PutLast
<1>5. HandsOK' /\ RetryOK'
  BY <1>2 DEF Owned, HandsOK, RetryOK, Hands, Kepts
<1>6. HomesOK' /\ DropsOK'
  <2>1. DropsOK' /\ Dropped' = Dropped
    BY <1>1, <1>2, <1>3, <1>4, FrameFacts, DropsStay DEF Owned, Hands, Data, Kepts
  <2>2. HomesOK'
    BY <1>1, <1>2, <1>3, <1>4, <2>1 DEF Owned, HomesOK, Hands, Data, Kepts, Mngs
  <2> QED BY <2>1, <2>2
<1>7. PipesOK'
  BY <1>2, <1>4 DEF Owned, PipesOK, Data, Kepts, Mngs
<1> QED BY <1>5, <1>6, <1>7 DEF Owned

\* The tasklet starts: it holds a management frame, or looks for a data frame.
LEMMA StartOwned ==
    ASSUME TypeOK, Holding, Owned, Routine_Start PROVE Owned'
<1>1. /\ UNCHANGED << free, node_free, free_mng, data_que, retry_que, DspSendOkFlag,
                      tx_retry_valid, tx_retry_index, sending_msdu, tx_busy_sending, urb, done, sent, worker >>
      /\ tx.at = "idle" /\ sent = NoSent /\ ~tx_busy_sending
  BY DEF Routine_Start, SoftirqIdle, pools, frames, retry, sending, usb, threads
<1>2. tx.m = None /\ sending_msdu = None
  BY <1>1 DEF Owned, HandsOK
<1>3. CASE mng_que # << >>
  <2> DEFINE h == Head(mng_que)
  <2>1. tx' = [at |-> "head", m |-> h] /\ mng_que' = Tail(mng_que)
    BY <1>3 DEF Routine_Start, Resume
  <2>2. /\ h \in InQueue(mng_que) /\ h \in Mmpdu
        /\ InQueue(mng_que') = InQueue(mng_que) \ {h} /\ Once(mng_que')
    <3>1. mng_que \in Seq(Mmpdu) /\ Once(mng_que)
      BY DEF TypeOK, Owned, HomesOK
    <3> QED BY <1>3, <2>1, <3>1, TakeHead
  <2> HIDE DEF h
  <2>3. tx'.at = "head" /\ tx'.m = h
    BY <2>1
  <2>4. HandsOK' /\ RetryOK'
    BY <1>1, <1>2, <2>2, <2>3, FrameFacts DEF Owned, HandsOK, RetryOK, Hands, Kepts
  <2>5. HomesOK' /\ DropsOK'
    <3>1. DropsOK' /\ Dropped' = Dropped
      BY <1>1, <1>2, <2>2, <2>3, FrameFacts, DropsStay DEF Owned, Hands, Data, Kepts
    <3>2. HomesOK'
      BY <1>1, <1>2, <2>2, <2>3, FrameFacts, <3>1 DEF Owned, HomesOK, Hands, Data, Kepts, Mngs
    <3> QED BY <3>1, <3>2
  <2>6. PipesOK'
    BY <1>1, <1>2, <2>2, <2>3 DEF Owned, PipesOK, Data, Kepts, Mngs
  <2> QED BY <2>4, <2>5, <2>6 DEF Owned
<1>4. CASE mng_que = << >>
  <2>1. /\ mng_que' = mng_que /\ tx'.m = None
        /\ tx'.at = IF tx_retry_valid THEN "find" ELSE "data"
    BY <1>4 DEF Routine_Start, Resume
  <2>2. HandsOK'
    BY <1>1, <1>2, <2>1 DEF Owned, HandsOK, Kepts
  <2>3. RetryOK'
    BY <1>1, <1>2, <2>1, FrameFacts DEF Owned, RetryOK, Hands, Kepts
  <2>4. HomesOK' /\ DropsOK'
    <3>1. DropsOK' /\ Dropped' = Dropped
      BY <1>1, <1>2, <2>1, FrameFacts, DropsStay DEF Owned, Hands, Data, Kepts
    <3>2. HomesOK'
      BY <1>1, <1>2, <2>1, <3>1 DEF Owned, HomesOK, Hands, Data, Kepts, Mngs
    <3> QED BY <3>1, <3>2
  <2>5. PipesOK'
    BY <1>1, <1>2, <2>1 DEF Owned, PipesOK, Data, Kepts, Mngs
  <2> QED BY <2>2, <2>3, <2>4, <2>5 DEF Owned
<1> QED BY <1>3, <1>4

\* It finds the next frame to send again, or that there is none.
LEMMA FindOwned ==
    ASSUME TypeOK, Holding, Owned, Routine_Find PROVE Owned'
<1>1. /\ UNCHANGED << free, node_free, free_mng, data_que, mng_que, retry_que, DspSendOkFlag,
                      tx_retry_valid, tx_retry_index, sending_msdu, tx_busy_sending, urb, done, sent, worker >>
      /\ tx.at = "find"
  BY DEF Routine_Find, pools, queues, frames, retry, sending, usb, threads
<1>2. tx.m = None /\ sending_msdu = None /\ ~tx_busy_sending /\ sent = NoSent /\ tx_retry_valid
  BY <1>1 DEF Owned, HandsOK, RetryOK
<1>3. CASE tx_retry_index < Len(retry_que)
  <2> DEFINE m == retry_que[tx_retry_index + 1]
  <2>1. tx' = [at |-> "head", m |-> m]
    BY <1>3 DEF Routine_Find, Resume
  <2>2. m \in InQueue(retry_que)
    <3>1. retry_que \in Seq(Msdu) /\ tx_retry_index + 1 \in 1..Len(retry_que)
      BY <1>3 DEF TypeOK
    <3> QED BY <3>1 DEF InQueue
  <2> HIDE DEF m
  <2>3. tx'.at = "head" /\ tx'.m = m
    BY <2>1
  <2>4. HandsOK' /\ RetryOK'
    BY <1>1, <1>2, <1>3, <2>2, <2>3, FrameFacts DEF Owned, HandsOK, RetryOK, Hands, Kepts
  <2>5. HomesOK' /\ DropsOK'
    <3>1. DropsOK' /\ Dropped' = Dropped
      BY <1>1, <1>2, <2>2, <2>3, FrameFacts, DropsStay DEF Owned, Hands, Data, Kepts
    <3>2. HomesOK'
      BY <1>1, <1>2, <2>2, <2>3, FrameFacts, <3>1 DEF Owned, HomesOK, Hands, Data, Kepts, Mngs
    <3> QED BY <3>1, <3>2
  <2>6. PipesOK'
    BY <1>1, <1>2, <2>2, <2>3 DEF Owned, PipesOK, Data, Kepts, Mngs
  <2> QED BY <2>4, <2>5, <2>6 DEF Owned
<1>4. CASE ~(tx_retry_index < Len(retry_que))
  <2>1. tx'.at = "clear" /\ tx'.m = None
    BY <1>4 DEF Routine_Find, Resume
  <2>2. HandsOK' /\ RetryOK'
    BY <1>1, <1>2, <1>4, <2>1, FrameFacts DEF Owned, HandsOK, RetryOK, Hands, Kepts
  <2>3. HomesOK' /\ DropsOK'
    <3>1. DropsOK' /\ Dropped' = Dropped
      BY <1>1, <1>2, <2>1, FrameFacts, DropsStay DEF Owned, Hands, Data, Kepts
    <3>2. HomesOK'
      BY <1>1, <1>2, <2>1, <3>1 DEF Owned, HomesOK, Hands, Data, Kepts, Mngs
    <3> QED BY <3>1, <3>2
  <2>4. PipesOK'
    BY <1>1, <1>2, <2>1 DEF Owned, PipesOK, Data, Kepts, Mngs
  <2> QED BY <2>2, <2>3, <2>4 DEF Owned
<1> QED BY <1>3, <1>4

\* The queue is sent: no frame of it is in a pipe any more.
LEMMA ClearOwned ==
    ASSUME TypeOK, Holding, Owned, Routine_Clear PROVE Owned'
<1>1. /\ UNCHANGED << free, node_free, free_mng, data_que, mng_que, retry_que, DspSendOkFlag,
                      sending_msdu, tx_busy_sending, urb, done, sent, worker >>
      /\ tx.at = "clear" /\ tx'.at = "data" /\ tx'.m = None /\ ~tx_retry_valid'
  BY DEF Routine_Clear, Resume, pools, queues, frames, sending, usb, threads
<1>2. tx.m = None /\ sending_msdu = None /\ ~tx_busy_sending /\ sent = NoSent
  BY <1>1 DEF Owned, HandsOK
<1>6. sent.m = None /\ Hands' = {None}
  BY <1>1, <1>2 DEF NoSent, Hands
<1>3. HandsOK' /\ RetryOK'
  <2>1. HandsOK'
    BY <1>1, <1>2 DEF HandsOK
  <2>2. RetryOK'
    <3>1. tx.at = "clear" /\ (\A p \in Part : urb[p] \notin Kepts) /\ Kepts' = Kepts
      BY <1>1 DEF Owned, RetryOK, Kepts
    <3>2. None \notin Kepts
      BY FrameFacts DEF Kepts
    <3> QED BY <1>1, <1>6, <3>1, <3>2 DEF RetryOK
  <2> QED BY <2>1, <2>2
<1>4. HomesOK' /\ DropsOK'
  <2>1. DropsOK' /\ Dropped' = Dropped
    BY <1>1, <1>2, FrameFacts, DropsStay DEF Owned, Hands, Data, Kepts
  <2>2. HomesOK'
    BY <1>1, <1>2, <2>1 DEF Owned, HomesOK, Hands, Data, Kepts, Mngs
  <2> QED BY <2>1, <2>2
<1>5. PipesOK'
  BY <1>1, <1>2 DEF Owned, PipesOK, Data, Kepts, Mngs
<1> QED BY <1>3, <1>4, <1>5 DEF Owned

\* It takes the next new data frame.
LEMMA DataOwned ==
    ASSUME TypeOK, Holding, Owned, Routine_Data PROVE Owned'
<1>1. /\ UNCHANGED << free, node_free, free_mng, mng_que, retry_que, DspSendOkFlag,
                      tx_retry_valid, tx_retry_index, sending_msdu, tx_busy_sending, urb, done, sent, worker >>
      /\ tx.at = "data"
  BY DEF Routine_Data, pools, frames, retry, sending, usb, threads
<1>2. tx.m = None /\ sending_msdu = None /\ ~tx_busy_sending /\ sent = NoSent
  BY <1>1 DEF Owned, HandsOK
<1>3. CASE data_que # << >>
  <2> DEFINE h == Head(data_que)
  <2>1. tx' = [at |-> "head", m |-> h] /\ data_que' = Tail(data_que)
    BY <1>3 DEF Routine_Data, Resume
  <2>2. /\ h \in InQueue(data_que) /\ h \in Msdu
        /\ InQueue(data_que') = InQueue(data_que) \ {h} /\ Once(data_que')
    <3>1. data_que \in Seq(Msdu) /\ Once(data_que)
      BY DEF TypeOK, Owned, HomesOK
    <3> QED BY <1>3, <2>1, <3>1, TakeHead
  <2> HIDE DEF h
  <2>3. tx'.at = "head" /\ tx'.m = h
    BY <2>1
  <2>4. h \notin InQueue(retry_que)
    BY <2>2 DEF Owned, HomesOK, Data, Kepts
  <2>5. HandsOK' /\ RetryOK'
    BY <1>1, <1>2, <2>2, <2>3, <2>4, FrameFacts DEF Owned, HandsOK, RetryOK, Hands, Kepts
  <2>6. HomesOK' /\ DropsOK'
    <3>1. DropsOK' /\ Dropped' = Dropped
      BY <1>1, <1>2, <2>2, <2>3, <2>4, FrameFacts, DropsStay DEF Owned, Hands, Data, Kepts
    <3>2. HomesOK'
      BY <1>1, <1>2, <2>2, <2>3, <2>4, FrameFacts, <3>1 DEF Owned, HomesOK, Hands, Data, Kepts, Mngs
    <3> QED BY <3>1, <3>2
  <2>7. PipesOK'
    BY <1>1, <1>2, <2>2, <2>3 DEF Owned, PipesOK, Data, Kepts, Mngs
  <2> QED BY <2>5, <2>6, <2>7 DEF Owned
<1>4. CASE data_que = << >>
  <2>1. data_que' = data_que /\ tx'.m = None /\ tx'.at = "idle"
    BY <1>4 DEF Routine_Data, Resume
  <2>2. HandsOK' /\ RetryOK'
    BY <1>1, <1>2, <2>1, FrameFacts DEF Owned, HandsOK, RetryOK, Hands, Kepts
  <2>3. HomesOK' /\ DropsOK'
    <3>1. DropsOK' /\ Dropped' = Dropped
      BY <1>1, <1>2, <2>1, FrameFacts, DropsStay DEF Owned, Hands, Data, Kepts
    <3>2. HomesOK'
      BY <1>1, <1>2, <2>1, <3>1 DEF Owned, HomesOK, Hands, Data, Kepts, Mngs
    <3> QED BY <3>1, <3>2
  <2>4. PipesOK'
    BY <1>1, <1>2, <2>1 DEF Owned, PipesOK, Data, Kepts, Mngs
  <2> QED BY <2>2, <2>3, <2>4 DEF Owned
<1> QED BY <1>3, <1>4

\* The head of a frame is submitted: now it counts two transfers.
LEMMA HeadOwned ==
    ASSUME TypeOK, Holding, Owned, Submit_Head PROVE Owned'
<1>1. /\ UNCHANGED << free, node_free, free_mng, data_que, mng_que, retry_que, tx_retry_valid,
                      tx_retry_index, sending_msdu, tx_busy_sending, done, sent, worker >>
      /\ tx.at = "head" /\ DspSendOkFlag' = [DspSendOkFlag EXCEPT ![tx.m] = 2]
      /\ Submit("head")
  BY DEF Submit_Head, pools, queues, retry, sending, threads
<1>2. tx.m # None /\ sending_msdu = None /\ ~tx_busy_sending /\ sent = NoSent
  BY <1>1 DEF Owned, HandsOK
<1>3. tx'.m = tx.m /\ tx'.at \in {"body", "back"}
      /\ \/ urb["head"] = None /\ urb' = [urb EXCEPT !["head"] = tx.m]
         \/ tx'.at = "back" /\ urb' = urb
  BY <1>1 DEF Submit, Resume
<1>4. /\ urb'["body"] = urb["body"]
      /\ urb'["head"] = urb["head"] \/ (urb["head"] = None /\ urb'["head"] = tx.m)
      /\ tx'.at = "body" => urb'["head"] = tx.m
  BY <1>1, <1>3 DEF TypeOK, Part, Submit, Resume
<1>5. HandsOK'
  BY <1>1, <1>2, <1>3 DEF Owned, HandsOK, Kepts
<1>6. RetryOK'
  BY <1>1, <1>2, <1>3, <1>4, FrameFacts DEF Owned, RetryOK, Hands, Kepts, Part
<1>7. HomesOK' /\ DropsOK'
  <2>1. DropsOK' /\ Dropped' = Dropped
    BY <1>1, <1>2, <1>3, FrameFacts, DropsStay DEF Owned, Hands, Data, Kepts
  <2>2. HomesOK'
    BY <1>1, <1>2, <1>3, <2>1 DEF Owned, HomesOK, Hands, Data, Kepts, Mngs
  <2> QED BY <2>1, <2>2
<1>8. \A f \in Frame : DspSendOkFlag[f] = 2 => DspSendOkFlag'[f] = 2
  BY <1>1 DEF TypeOK
<1>9. tx.m \in Frame /\ DspSendOkFlag'[tx.m] = 2
  BY <1>1, <1>2, FrameFacts DEF TypeOK
<1>10. urb'["head"] # None => DspSendOkFlag'[urb'["head"]] = 2
  <2>1. CASE urb'["head"] = tx.m
    BY <2>1, <1>9
  <2>2. CASE urb'["head"] = urb["head"] /\ urb["head"] # None
    <3>1. urb["head"] \in Frame
      BY <2>2 DEF TypeOK, Part
    <3>2. DspSendOkFlag[urb["head"]] = 2
      BY <1>2, <2>2 DEF Owned, PipesOK
    <3> QED BY <1>8, <2>2, <3>1, <3>2
  <2> QED BY <1>4, <2>1, <2>2
<1>11. \A p \in Part : /\ p \in done' => urb'[p] # None
                       /\ urb'[p] # None
                            => urb'[p] \in Data \cup Kepts \cup Mngs \cup {tx.m, sending_msdu}
  BY <1>1, <1>2, <1>4 DEF Owned, PipesOK, Part
<1>12. urb'["body"] = None
  BY <1>1, <1>2, <1>4 DEF Owned, PipesOK
<1>13. PipesOK'
  BY <1>1, <1>2, <1>3, <1>4, <1>10, <1>11, <1>12 DEF PipesOK, Data, Kepts, Mngs
<1> QED BY <1>5, <1>6, <1>7, <1>13 DEF Owned

\* Its body is submitted, or the frame goes back.
LEMMA BodyOwned ==
    ASSUME TypeOK, Holding, Owned, Submit_Body PROVE Owned'
<1>1. /\ UNCHANGED << free, node_free, free_mng, data_que, mng_que, retry_que, DspSendOkFlag,
                      tx_retry_valid, tx_retry_index, sending_msdu, tx_busy_sending, done, sent, worker >>
      /\ tx.at = "body" /\ Submit("body")
  BY DEF Submit_Body, pools, queues, frames, retry, sending, threads
<1>2. tx.m # None /\ sending_msdu = None /\ ~tx_busy_sending /\ sent = NoSent
  BY <1>1 DEF Owned, HandsOK
<1>3. tx'.m = tx.m /\ tx'.at \in {"record", "back"}
  BY <1>1 DEF Submit, Resume
<1>4. /\ urb'["head"] = urb["head"]
      /\ tx'.at = "record" => urb'["body"] = tx.m
      /\ tx'.at = "back" => urb'["body"] = urb["body"]
  BY <1>1 DEF TypeOK, Part, Submit, Resume
<1>5. HandsOK'
  BY <1>1, <1>2, <1>3 DEF Owned, HandsOK, Kepts
<1>6. RetryOK'
  BY <1>1, <1>2, <1>3, <1>4, FrameFacts DEF Owned, RetryOK, Hands, Kepts, Part
<1>7. HomesOK' /\ DropsOK'
  <2>1. DropsOK' /\ Dropped' = Dropped
    BY <1>1, <1>2, <1>3, FrameFacts, DropsStay DEF Owned, Hands, Data, Kepts
  <2>2. HomesOK'
    BY <1>1, <1>2, <1>3, <2>1 DEF Owned, HomesOK, Hands, Data, Kepts, Mngs
  <2> QED BY <2>1, <2>2
<1>8. \A p \in Part : /\ p \in done' => urb'[p] # None
                      /\ urb'[p] # None
                           => urb'[p] \in Data \cup Kepts \cup Mngs \cup {tx.m, sending_msdu}
  BY <1>1, <1>2, <1>3, <1>4 DEF Owned, PipesOK, Part
<1>9. PipesOK'
  BY <1>1, <1>2, <1>3, <1>4, <1>8 DEF Owned, PipesOK, Data, Kepts, Mngs
<1> QED BY <1>5, <1>6, <1>7, <1>9 DEF Owned

\* The frame is recorded as the one that is being sent.
LEMMA RecordOwned ==
    ASSUME TypeOK, Holding, Owned, Submit_Record PROVE Owned'
<1>1. /\ UNCHANGED << free, node_free, free_mng, data_que, mng_que, retry_que, DspSendOkFlag,
                      tx_retry_valid, tx_retry_index, urb, done, sent, worker >>
      /\ tx.at = "record" /\ sending_msdu' = tx.m /\ tx_busy_sending'
  BY DEF Submit_Record, pools, queues, frames, retry, usb, threads
<1>2. tx.m # None /\ sending_msdu = None /\ ~tx_busy_sending /\ sent = NoSent
  BY <1>1 DEF Owned, HandsOK
<1>3. IF tx.m \in InQueue(retry_que) THEN tx'.at = "advance" /\ tx'.m = tx.m
                                     ELSE tx'.at = "idle" /\ tx'.m = None
  BY DEF Submit_Record, IsRetry, Resume
<1>4. urb["head"] = tx.m /\ urb["body"] = tx.m /\ DspSendOkFlag[tx.m] = 2
  BY <1>1, <1>2 DEF Owned, PipesOK
<1>5. HandsOK'
  BY <1>1, <1>2, <1>3 DEF Owned, HandsOK, Kepts
<1>6. RetryOK'
  BY <1>1, <1>2, <1>3, FrameFacts DEF Owned, RetryOK, Hands, Kepts
<1>7. HomesOK' /\ DropsOK'
  <2>1. DropsOK' /\ Dropped' = Dropped
    BY <1>1, <1>2, <1>3, FrameFacts, DropsStay DEF Owned, Hands, Data, Kepts
  <2>2. Hands' = Hands
    BY <1>1, <1>2, <1>3 DEF Hands, NoSent
  <2>3. HomesOK'
    BY <1>1, <2>1, <2>2 DEF Owned, HomesOK, Data, Kepts, Mngs
  <2> QED BY <2>1, <2>3
<1>8. PipesOK'
  BY <1>1, <1>2, <1>3, <1>4 DEF Owned, PipesOK, Data, Kepts, Mngs, Part
<1> QED BY <1>5, <1>6, <1>7, <1>8 DEF Owned

\* The index moves past it.
LEMMA AdvanceOwned ==
    ASSUME TypeOK, Holding, Owned, Routine_Advance PROVE Owned'
<1>1. /\ UNCHANGED << free, node_free, free_mng, data_que, mng_que, retry_que, DspSendOkFlag,
                      tx_retry_valid, sending_msdu, tx_busy_sending, urb, done, sent, worker >>
      /\ tx.at = "advance" /\ tx'.at = "idle" /\ tx'.m = None
      /\ tx_retry_index' = tx_retry_index + 1
  BY DEF Routine_Advance, Resume, pools, queues, frames, sending, usb, threads
<1>2. /\ tx.m # None /\ sending_msdu = tx.m /\ tx_busy_sending /\ sent = NoSent
      /\ tx.m \in InQueue(retry_que)
  BY <1>1 DEF Owned, HandsOK, Kepts
<1>3. HandsOK'
  BY <1>1, <1>2 DEF Owned, HandsOK
<1>4. RetryOK'
  BY <1>1, <1>2, FrameFacts DEF Owned, RetryOK, Hands, Kepts
<1>5. HomesOK' /\ DropsOK'
  <2>1. DropsOK' /\ Dropped' = Dropped
    BY <1>1, <1>2, FrameFacts, DropsStay DEF Owned, Hands, Data, Kepts
  <2>2. Hands' = Hands
    BY <1>1, <1>2 DEF Hands, NoSent
  <2>3. HomesOK'
    BY <1>1, <2>1, <2>2 DEF Owned, HomesOK, Data, Kepts, Mngs
  <2> QED BY <2>1, <2>3
<1>6. PipesOK'
  BY <1>1, <1>2 DEF Owned, PipesOK, Data, Kepts, Mngs
<1> QED BY <1>3, <1>4, <1>5, <1>6 DEF Owned

\* A frame that could not be submitted goes back to the head of its queue.
LEMMA BackOwned ==
    ASSUME TypeOK, Holding, Owned, Routine_Back PROVE Owned'
<1>1. /\ UNCHANGED << free, node_free, free_mng, retry_que, DspSendOkFlag, tx_retry_valid,
                      tx_retry_index, sending_msdu, tx_busy_sending, urb, done, sent, worker >>
      /\ tx.at = "back" /\ tx'.at = "idle" /\ tx'.m = None
  BY DEF Routine_Back, Resume, pools, frames, retry, sending, usb, threads
<1>2. /\ tx.m # None /\ sending_msdu = None /\ ~tx_busy_sending /\ sent = NoSent
      /\ tx.m \in Frame
  BY <1>1, FrameFacts DEF Owned, HandsOK
<1>3. HandsOK'
  BY <1>1, <1>2 DEF Owned, HandsOK
<1>4. RetryOK'
  BY <1>1, <1>2, FrameFacts DEF Owned, RetryOK, Hands, Kepts
<1>5. /\ Once(data_que') /\ Once(mng_que')
      /\ \/ /\ tx.m \in Mmpdu /\ InQueue(mng_que') = InQueue(mng_que) \cup {tx.m}
            /\ InQueue(data_que') = InQueue(data_que)
         \/ /\ tx.m \in InQueue(retry_que) /\ InQueue(mng_que') = InQueue(mng_que)
            /\ InQueue(data_que') = InQueue(data_que)
         \/ /\ tx.m \in Msdu /\ InQueue(mng_que') = InQueue(mng_que)
            /\ InQueue(data_que') = InQueue(data_que) \cup {tx.m}
  <2>1. /\ data_que \in Seq(Msdu) /\ mng_que \in Seq(Mmpdu)
        /\ Once(data_que) /\ Once(mng_que)
        /\ tx.m \notin InQueue(data_que) /\ tx.m \notin InQueue(mng_que)
    BY DEF TypeOK, Owned, HomesOK, Hands, Data, Mngs
  <2>2. CASE tx.m \in Mmpdu
    <3>1. mng_que' = << tx.m >> \o mng_que /\ data_que' = data_que
      BY <2>2 DEF Routine_Back
    <3>2. Once(mng_que') /\ InQueue(mng_que') = InQueue(mng_que) \cup {tx.m}
      BY <2>1, <2>2, <3>1, PutFirst
    <3> QED BY <2>1, <2>2, <3>1, <3>2
  <2>3. CASE tx.m \notin Mmpdu /\ tx.m \in InQueue(retry_que)
    <3>1. mng_que' = mng_que /\ data_que' = data_que
      BY <2>3 DEF Routine_Back, IsRetry
    <3> QED BY <2>1, <2>3, <3>1
  <2>4. CASE tx.m \notin Mmpdu /\ tx.m \notin InQueue(retry_que)
    <3>1. mng_que' = mng_que /\ data_que' = << tx.m >> \o data_que /\ tx.m \in Msdu
      BY <1>2, <2>4 DEF Routine_Back, IsRetry, Frame
    <3>2. Once(data_que') /\ InQueue(data_que') = InQueue(data_que) \cup {tx.m}
      BY <2>1, <3>1, PutFirst
    <3> QED BY <2>1, <3>1, <3>2
  <2> QED BY <2>2, <2>3, <2>4
<1>6. tx.m \notin InQueue(retry_que) \/ InQueue(data_que') = InQueue(data_que)
  BY <1>2, <1>5, FrameFacts, <1>1 DEF Routine_Back, IsRetry
<1>7. HomesOK' /\ DropsOK'
  <2>1. DropsOK' /\ Dropped' = Dropped
    BY <1>1, <1>2, <1>5, <1>6, FrameFacts, DropsStay DEF Owned, Hands, Data, Kepts
  <2>2. Hands = {tx.m, None} /\ Hands' = {None}
    BY <1>1, <1>2 DEF Hands, NoSent
  <2>3. /\ node_free' = Cardinality(free') /\ Once(data_que') /\ Once(retry_que') /\ Once(mng_que')
        /\ free' = free /\ Kepts' = Kepts /\ free_mng' = free_mng
    BY <1>1, <1>5 DEF Owned, HomesOK, Kepts
  <2>4. /\ None \notin free /\ None \notin Data' /\ None \notin free_mng /\ None \notin Mngs'
        /\ tx.m # None
    BY <1>1, <1>2, <1>5, FrameFacts DEF Data, Mngs
  <2>6. /\ free \cap Data' = {} /\ Data' \cap Kepts = {} /\ free_mng \cap Mngs' = {}
    BY <1>5, <2>2, <1>6 DEF Owned, HomesOK, Kepts, Data, Mngs
  <2>7. Msdu \subseteq free \cup Data' \cup Kepts \cup {None} \cup Dropped
    BY <1>5, <2>2, FrameFacts DEF Owned, HomesOK, Kepts, Data
  <2> QED BY <2>1, <2>2, <2>3, <2>4, <2>6, <2>7 DEF Owned, HomesOK
<1>8. PipesOK'
  BY <1>1, <1>2, <1>5 DEF Owned, PipesOK, Data, Kepts, Mngs
<1> QED BY <1>3, <1>4, <1>7, <1>8 DEF Owned

\* A transfer completes; with the last one the frame was sent.
LEMMA DoneOwned ==
    ASSUME TypeOK, Holding, Owned, NEW p \in Part, TransferDone(p) PROVE Owned'
<1> DEFINE m == urb[p]
           n == IF DspSendOkFlag[m] > 0 THEN DspSendOkFlag[m] - 1 ELSE 0
<1>1. /\ UNCHANGED << free, node_free, free_mng, data_que, mng_que, retry_que, tx_retry_valid,
                      tx_retry_index, tx, worker >>
      /\ tx.at = "idle" /\ sent = NoSent /\ p \in done /\ done' = done \ {p}
      /\ urb' = [urb EXCEPT ![p] = None]
      /\ DspSendOkFlag' = [DspSendOkFlag EXCEPT ![m] = n]
  BY DEF TransferDone, SoftirqIdle, pools, queues, retry, threads
<1>2. tx.m = None /\ m # None /\ m \in Frame
  BY <1>1 DEF Owned, HandsOK, PipesOK, TypeOK
<1>3. IF n = 0 THEN /\ sending_msdu' = None /\ ~tx_busy_sending'
                    /\ sent'.at = "done" /\ sent'.m = m
               ELSE UNCHANGED << sending_msdu, tx_busy_sending, sent >>
  BY DEF TransferDone, Whole, sending, NoSent
<1>7. sent.at = "none" /\ sent.m = None
  BY <1>1 DEF NoSent
<1>4. urb'[p] = None /\ (\A o \in Part : o # p => urb'[o] = urb[o])
  BY <1>1 DEF TypeOK
<1>5. DspSendOkFlag'[m] = n /\ (\A f \in Frame : f # m => DspSendOkFlag'[f] = DspSendOkFlag[f])
  BY <1>1, <1>2 DEF TypeOK
<1>6. HomesOK' /\ DropsOK' /\ HandsOK' /\ RetryOK' /\ PipesOK'
  <2>1. CASE ~tx_busy_sending
    <3>1. p = "head" /\ sending_msdu = None /\ urb["body"] = None
      BY <1>1, <1>2, <2>1 DEF Owned, HandsOK, PipesOK, Part
    <3>2. n # 0
      BY <1>2, <2>1, <3>1 DEF Owned, PipesOK
    <3>3. UNCHANGED << sending_msdu, tx_busy_sending, sent >>
      BY <1>3, <3>2
    <3>4. urb'["head"] = None /\ urb'["body"] = None
      BY <1>4, <3>1 DEF Part
    <3> HIDE DEF m, n
    <3>5. HandsOK' /\ HomesOK' /\ DropsOK'
      <4>1. DropsOK' /\ Dropped' = Dropped
        BY <1>1, <3>3, FrameFacts, DropsStay DEF Owned, Hands, Data, Kepts
      <4>2. HandsOK' /\ HomesOK'
        BY <1>1, <3>3, <4>1 DEF Owned, HandsOK, HomesOK, Hands, Data, Kepts, Mngs
      <4> QED BY <4>1, <4>2
    <3>6. RetryOK'
      BY <1>1, <3>3, <3>4, FrameFacts DEF Owned, RetryOK, Hands, Kepts, Part
    <3>7. \A o \in Part : o \notin done'
      BY <1>1, <3>1 DEF Owned, PipesOK, Part
    <3>8. PipesOK'
      BY <1>1, <2>1, <3>3, <3>4, <3>7 DEF PipesOK, Part
    <3> QED BY <3>5, <3>6, <3>8
  <2>2. CASE tx_busy_sending
    <3>1. sending_msdu = m /\ sending_msdu # None
      BY <1>2, <2>2 DEF Owned, HandsOK, PipesOK
    <3>2. DspSendOkFlag[m] \in {1, 2} /\ n = DspSendOkFlag[m] - 1
      BY <2>2, <3>1 DEF Owned, PipesOK
    <3> HIDE DEF m, n
    <3>3. CASE n = 0
      <4>1. sending_msdu' = None /\ ~tx_busy_sending' /\ sent'.at = "done" /\ sent'.m = m
        BY <1>3, <3>3
      <4>2. urb["head"] # None <=> urb["body"] = None
        BY <2>2, <3>1, <3>2, <3>3 DEF Owned, PipesOK
      <4>3. urb'["head"] = None /\ urb'["body"] = None
        BY <1>2, <1>4, <4>2 DEF Part, m
      <4>4. HandsOK'
        BY <1>1, <1>2, <4>1 DEF Owned, HandsOK, Kepts
      <4>5. HomesOK' /\ DropsOK'
        <5>1. DropsOK' /\ Dropped' = Dropped
          BY <1>1, <1>2, <1>7, <3>1, <4>1, FrameFacts, DropsStay DEF Owned, Hands, Data, Kepts
        <5>2. HomesOK'
          BY <1>1, <1>2, <1>7, <3>1, <4>1, <5>1 DEF Owned, HomesOK, Hands, Data, Kepts, Mngs
        <5> QED BY <5>1, <5>2
      <4>6. RetryOK'
        BY <1>1, <1>2, <3>1, <4>1, <4>3, FrameFacts DEF Owned, RetryOK, Hands, Kepts, Part
      <4>7. \A o \in Part : o \notin done'
        BY <1>1, <1>2, <4>2 DEF Owned, PipesOK, Part, m
      <4>8. PipesOK'
        BY <1>1, <1>2, <4>1, <4>3, <4>7 DEF PipesOK, Part
      <4> QED BY <4>4, <4>5, <4>6, <4>8
    <3>4. CASE n # 0
      <4>1. UNCHANGED << sending_msdu, tx_busy_sending, sent >>
        BY <1>3, <3>4
      <4>2. n = 1 /\ urb["head"] # None /\ urb["body"] # None
        BY <2>2, <3>1, <3>2, <3>4 DEF Owned, PipesOK
      <4>3. HandsOK' /\ HomesOK' /\ DropsOK'
        <5>1. DropsOK' /\ Dropped' = Dropped
          BY <1>1, <4>1, FrameFacts, DropsStay DEF Owned, Hands, Data, Kepts
        <5>2. HandsOK' /\ HomesOK'
          BY <1>1, <4>1, <5>1 DEF Owned, HandsOK, HomesOK, Hands, Data, Kepts, Mngs
        <5> QED BY <5>1, <5>2
      <4>4. \A o \in Part : urb'[o] = None \/ urb'[o] = urb[o]
        BY <1>4
      <4>5. RetryOK'
        BY <1>1, <4>1, <4>4, <2>2, FrameFacts DEF Owned, RetryOK, Hands, Kepts
      <4>6. \A o \in Part : o \in done' => urb'[o] # None
        BY <1>1, <1>4 DEF Owned, PipesOK
      <4>7. urb'["head"] # None <=> urb'["body"] = None
        BY <1>4, <4>2 DEF Part
      <4>8. DspSendOkFlag'[sending_msdu'] = 1
        BY <1>5, <3>1, <4>1, <4>2
      <4>9. PipesOK'
        BY <1>1, <2>2, <4>1, <4>4, <4>6, <4>7, <4>8 DEF Owned, PipesOK, Data, Kepts, Mngs
      <4> QED BY <4>3, <4>5, <4>9
    <3> QED BY <3>3, <3>4
  <2> QED BY <2>1, <2>2
<1> QED BY <1>6 DEF Owned

\* Frames of the queues that are given back: no pipe holds one of them.
LEMMA ReleaseOwned ==
    ASSUME TypeOK, Holding, Owned, NEW M \in SUBSET Msdu, Release(M),
           M \cap (free \cup Hands) = {}, \A p \in Part : urb[p] \notin M
    PROVE  /\ free' = free \cup M /\ node_free' = Cardinality(free')
           /\ \A p \in Part : urb[p] # None => DspSendOkFlag'[urb[p]] = DspSendOkFlag[urb[p]]
           /\ sending_msdu # None => DspSendOkFlag'[sending_msdu] = DspSendOkFlag[sending_msdu]
<1>1. free' = free \cup M
  BY DEF Release
<1>2. node_free = Cardinality(free) /\ M \cap free = {}
  BY DEF Owned, HomesOK
<1>3. node_free' = Cardinality(free')
  BY <1>2, Released
<1>4. \A f \in Frame : f \notin M => DspSendOkFlag'[f] = DspSendOkFlag[f]
  BY DEF Release
<1>5. \A p \in Part : urb[p] # None => urb[p] \in Frame
  BY DEF TypeOK
<1>6. sending_msdu # None => sending_msdu \in Frame /\ sending_msdu \notin M
  BY FrameFacts DEF Hands
<1> QED BY <1>1, <1>3, <1>4, <1>5, <1>6

\* A management frame that was sent is given back; a data frame stays where
\* it is, or in hand until it is kept.
LEMMA SentOwned ==
    ASSUME TypeOK, Holding, Owned, Process_Sent PROVE Owned'
<1>1. /\ UNCHANGED << free, node_free, data_que, mng_que, retry_que, DspSendOkFlag, tx_retry_valid,
                      tx_retry_index, sending_msdu, tx_busy_sending, tx, urb, done, worker >>
      /\ sent.at = "done" /\ sent # NoSent
  BY DEF Process_Sent, queues, retry, sending, usb, threads, NoSent
<1>2. /\ tx.at = "idle" /\ tx.m = None /\ sending_msdu = None /\ ~tx_busy_sending
      /\ \A p \in Part : urb[p] = None
      /\ sent.m \in Frame /\ sent \in Sender
  BY <1>1, FrameFacts, TypeParts DEF Owned, HandsOK, PipesOK, Holding, Parts, FlowTypeOK
<1>3. /\ \/ sent.m \in Mmpdu /\ sent'.m = None /\ free_mng' = free_mng \cup {sent.m}
         \/ sent.m \in Kepts /\ sent'.m = None /\ free_mng' = free_mng
         \/ sent'.m = sent.m /\ free_mng' = free_mng
      /\ sent'.at # "drop"
  <2>1. NoSent.at = "none" /\ NoSent.m = None
    BY DEF NoSent
  <2>2. ASSUME sent' = [sent EXCEPT !.at = "room", !.old = LastOf(retry_que)]
        PROVE  sent'.at = "room" /\ sent'.m = sent.m
    BY <1>2, <2>2 DEF Sender
  <2>3. ASSUME sent' = [sent EXCEPT !.at = "full", !.old = Head(retry_que)]
        PROVE  sent'.at = "full" /\ sent'.m = sent.m
    BY <1>2, <2>3 DEF Sender
  <2>4. \/ sent.m \in Mmpdu /\ sent' = NoSent /\ free_mng' = free_mng \cup {sent.m}
        \/ sent.m \in Kepts /\ sent' = NoSent /\ free_mng' = free_mng
        \/ /\ free_mng' = free_mng
           /\ \/ sent' = [sent EXCEPT !.at = "room", !.old = LastOf(retry_que)]
              \/ sent' = [sent EXCEPT !.at = "full", !.old = Head(retry_que)]
    BY DEF Process_Sent, Sent_Finish, IsRetry, Kepts
  <2> QED BY <2>1, <2>2, <2>3, <2>4
<1>4. HandsOK' /\ PipesOK'
  BY <1>1, <1>2 DEF Owned, HandsOK, PipesOK, Part
<1>5. DropsOK' /\ Dropped' = Dropped
  BY <1>1, <1>2, <1>3, FrameFacts, DropsStay DEF Owned, HomesOK, Hands, Data, Kepts
<1>6. HomesOK'
  BY <1>1, <1>2, <1>3, <1>5, FrameFacts DEF Owned, HomesOK, Hands, Data, Kepts, Mngs
<1>7. RetryOK'
  BY <1>1, <1>2, <1>3, FrameFacts DEF Owned, RetryOK, Hands, Kepts
<1> QED BY <1>4, <1>5, <1>6, <1>7 DEF Owned

\* No one else has a frame in hand while one that was sent is being kept.
LEMMA KeepFacts ==
    ASSUME TypeOK, Holding, Owned, sent # NoSent
    PROVE  /\ tx.at = "idle" /\ tx.m = None /\ sending_msdu = None /\ ~tx_busy_sending
           /\ \A p \in Part : urb[p] = None
           /\ sent \in Sender
BY TypeParts DEF Owned, HandsOK, PipesOK, Parts, FlowTypeOK

\* It is put at the end of the queue, whose last frame is still there.
LEMMA RoomOwned ==
    ASSUME TypeOK, Holding, Owned, Steady, KeepSent_Room PROVE Owned'
<1> DEFINE m == sent.m
<1>1. /\ UNCHANGED << free, node_free, free_mng, data_que, mng_que, DspSendOkFlag, tx_retry_valid,
                      tx_retry_index, sending_msdu, tx_busy_sending, tx, urb, done, worker >>
      /\ sent.at = "room" /\ sent # NoSent /\ sent'.at = "none" /\ sent'.m = None
  BY DEF KeepSent_Room, pools, frames, retry, sending, usb, threads, NoSent, Sent_Finish
<1>2. /\ tx.at = "idle" /\ tx.m = None /\ sending_msdu = None /\ ~tx_busy_sending
      /\ \A p \in Part : urb[p] = None
  BY <1>1, KeepFacts
<1>3. /\ m \in Msdu /\ m \notin InQueue(retry_que)
      /\ retry_que \in Seq(Msdu) /\ Once(retry_que)
  BY <1>1 DEF Holding, Steady, Kepts, TypeOK, Owned, HomesOK
<1>4. retry_que' = Append(retry_que, m)
  <2>1. sent.old = None \/ IsRetry(sent.old)
    BY <1>1 DEF Steady, Kepts, IsRetry
  <2> QED BY <2>1 DEF KeepSent_Room
<1>5. /\ InQueue(retry_que') = InQueue(retry_que) \cup {m} /\ Once(retry_que')
      /\ Len(retry_que') = Len(retry_que) + 1
  BY <1>3, <1>4, PutLast
<1>6. HandsOK' /\ PipesOK'
  BY <1>1, <1>2 DEF Owned, HandsOK, PipesOK, Part
<1>7. DropsOK' /\ Dropped' = Dropped
  BY <1>1, <1>2, <1>5, FrameFacts, DropsStay DEF Owned, Hands, Data, Kepts
<1>8. HomesOK'
  BY <1>1, <1>2, <1>3, <1>5, <1>7, FrameFacts DEF Owned, HomesOK, Hands, Data, Kepts, Mngs
<1>9. RetryOK'
  <2>1. Hands' = {None} /\ None \notin Kepts'
    BY <1>1, <1>2, <1>3, <1>5, FrameFacts DEF Hands, Kepts
  <2>2. \A p \in Part : urb'[p] \notin Kepts'
    BY <1>1, <1>2, <2>1
  <2>3. tx_retry_valid' => tx_retry_index' <= Len(retry_que')
    BY <1>1, <1>5, FrameFacts DEF Owned, RetryOK
  <2>4. tx'.m \notin Kepts' /\ tx'.at = "idle"
    BY <1>1, <1>2, <2>1
  <2> QED BY <2>1, <2>2, <2>3, <2>4 DEF RetryOK
<1> QED BY <1>6, <1>7, <1>8, <1>9 DEF Owned

\* The oldest frame makes room, and is then to be released.
LEMMA FullOwned ==
    ASSUME TypeOK, Holding, Owned, Steady, KeepSent_Full PROVE Owned'
<1> DEFINE m == sent.m
           h == Head(retry_que)
           r == Tail(retry_que)
<1>1. /\ UNCHANGED << free, node_free, free_mng, data_que, mng_que, DspSendOkFlag, tx_retry_valid,
                      tx_retry_index, sending_msdu, tx_busy_sending, tx, urb, done, worker >>
      /\ sent.at = "full" /\ sent # NoSent
  BY DEF KeepSent_Full, pools, frames, retry, sending, usb, threads, NoSent
<1>2. /\ tx.at = "idle" /\ tx.m = None /\ sending_msdu = None /\ ~tx_busy_sending
      /\ \A p \in Part : urb[p] = None
      /\ sent \in Sender
  BY <1>1, KeepFacts
<1>3. /\ m \in Msdu /\ m \notin InQueue(retry_que) /\ retry_que # << >> /\ sent.old = h
      /\ retry_que \in Seq(Msdu) /\ Once(retry_que)
  BY <1>1 DEF Holding, Steady, Kepts, TypeOK, Owned, HomesOK
<1>4. sent' = [sent EXCEPT !.at = "drop", !.m = None] /\ retry_que' = Append(r, m)
  BY <1>3 DEF KeepSent_Full, Rest
<1>5. sent'.at = "drop" /\ sent'.m = None /\ sent'.old = h
  BY <1>2, <1>3, <1>4 DEF Sender
<1>6. /\ h \in InQueue(retry_que) /\ h \in Msdu /\ r \in Seq(Msdu)
      /\ InQueue(r) = InQueue(retry_que) \ {h} /\ Once(r) /\ Len(r) = Len(retry_que) - 1
  BY <1>3, TakeHead
<1> HIDE DEF m, h, r
<1>7. /\ InQueue(retry_que') = InQueue(r) \cup {m} /\ Once(retry_que')
      /\ Len(retry_que') = Len(retry_que)
  <2>1. m \notin InQueue(r)
    BY <1>3, <1>6
  <2>2. /\ InQueue(retry_que') = InQueue(r) \cup {m} /\ Once(retry_que')
        /\ Len(retry_que') = Len(r) + 1
    BY <1>3, <1>4, <1>6, <2>1, PutLast
  <2>3. Len(retry_que) \in Nat
    BY <1>3
  <2> QED BY <1>6, <2>2, <2>3
<1>8. Hands = {None, m} /\ Hands' = {None} /\ h \notin Hands
  BY <1>1, <1>2, <1>3, <1>5, <1>6, FrameFacts DEF Hands, m
<1>9. Dropped' = Dropped \cup {h} /\ h \notin Dropped
  <2>1. Dropped' = Dropped \cup {h}
    BY <1>1, <1>5 DEF Dropped
  <2> QED BY <1>6, <2>1 DEF Owned, DropsOK, Kepts
<1>10. /\ h \notin free /\ h \notin InQueue(data_que)
  BY <1>6 DEF Owned, HomesOK, Data, Kepts
<1>11. m \notin free /\ m \notin InQueue(data_que) /\ m \notin Dropped
  BY <1>8 DEF Owned, HomesOK, DropsOK, Data
<1>12. HandsOK' /\ PipesOK'
  BY <1>1, <1>2, <1>5 DEF Owned, HandsOK, PipesOK, Part
<1>13. DropsOK'
  <2>1. worker'.at = "drop" => h # worker'.m
    BY <1>1, <1>9 DEF Dropped
  <2>2. Dropped' \cap (free \cup InQueue(data_que) \cup InQueue(retry_que') \cup {None}) = {}
    <3>1. None \notin Dropped /\ None # h
      BY <1>6, FrameFacts DEF Dropped, Holding
    <3>2. h # m /\ h \notin InQueue(r)
      BY <1>3, <1>6
    <3>3. h \notin free \cup InQueue(data_que) \cup InQueue(retry_que') \cup {None}
      BY <1>7, <1>10, <3>1, <3>2
    <3>4. Dropped \cap (free \cup InQueue(data_que) \cup InQueue(retry_que)) = {}
      BY DEF Owned, DropsOK, Data, Kepts
    <3>5. Dropped \cap InQueue(retry_que') = {}
      BY <1>6, <1>7, <1>11, <3>4
    <3> QED BY <1>9, <3>1, <3>3, <3>4, <3>5
  <2> QED BY <1>1, <1>5, <1>8, <2>1, <2>2 DEF DropsOK, Data, Kepts
<1>14. HomesOK'
  <2>1. node_free' = Cardinality(free') /\ Once(data_que') /\ Once(retry_que') /\ Once(mng_que')
    BY <1>1, <1>7 DEF Owned, HomesOK
  <2>2. Msdu \subseteq free \cup Data \cup Kepts' \cup Hands' \cup Dropped'
    BY <1>6, <1>7, <1>8, <1>9, FrameFacts DEF Owned, HomesOK, Kepts
  <2>3. /\ free \cap Kepts' = {} /\ Data \cap Kepts' = {}
        /\ (free \cup Data) \cap Hands' = {} /\ (free_mng \cup Mngs) \cap Hands' = {}
    BY <1>6, <1>7, <1>8, <1>11 DEF Owned, HomesOK, Kepts, Data
  <2> QED BY <1>1, <2>1, <2>2, <2>3 DEF Owned, HomesOK, Data, Mngs
<1>15. RetryOK'
  <2>1. Hands' \cap Kepts' = {}
    <3>1. InQueue(retry_que') \subseteq Msdu
      BY <1>3, <1>6, <1>7, FrameFacts
    <3> QED BY <1>8, <3>1, FrameFacts DEF Kepts
  <2> QED BY <1>1, <1>2, <1>7, <2>1, FrameFacts DEF Owned, RetryOK, Hands, Kepts
<1> QED BY <1>12, <1>13, <1>14, <1>15 DEF Owned

\* A frame taken from a queue is released: the completion's, or the thread's.
LEMMA DropOwned ==
    ASSUME TypeOK, Holding, Owned, Quiet \/ sent # NoSent, NEW h \in Dropped, Release({h}),
           Dropped' = Dropped \ {h},
           ~(sent'.at = "drop" /\ worker'.at = "drop"),
           UNCHANGED << free_mng, data_que, mng_que, retry_que, tx_retry_valid, tx_retry_index,
                        sending_msdu, tx_busy_sending, tx, urb, done >>,
           sent' = sent \/ (sent.m = None /\ sent' = NoSent)
    PROVE  Owned'
<1>1. h \in Msdu /\ h \notin Hands /\ h \notin free /\ h \notin InQueue(data_que)
      /\ h \notin InQueue(retry_que)
  BY DEF Dropped, Holding, Owned, DropsOK, Data, Kepts
<1>2. \A p \in Part : urb[p] # h
  <2>1. \A p \in Part : urb[p] # None =>
           urb[p] \in InQueue(data_que) \cup InQueue(retry_que) \cup InQueue(mng_que) \cup Hands
    BY DEF Owned, PipesOK, Data, Kepts, Mngs, Hands
  <2> QED BY <1>1, <2>1, FrameFacts
<1>3. {h} \in SUBSET Msdu /\ {h} \cap (free \cup Hands) = {} /\ (\A p \in Part : urb[p] \notin {h})
  BY <1>1, <1>2
<1>4. /\ free' = free \cup {h} /\ node_free' = Cardinality(free')
      /\ \A p \in Part : urb[p] # None => DspSendOkFlag'[urb[p]] = DspSendOkFlag[urb[p]]
      /\ sending_msdu # None => DspSendOkFlag'[sending_msdu] = DspSendOkFlag[sending_msdu]
  BY <1>3, ReleaseOwned
<1>5. Hands' = Hands /\ (sent' = NoSent \/ sent' = sent)
  BY DEF Hands, NoSent
<1>6. HandsOK'
  BY <1>5 DEF Owned, HandsOK, Kepts
<1>7. DropsOK'
  BY <1>1, <1>4, <1>5 DEF Owned, DropsOK, Data, Kepts
<1>8. HomesOK'
  BY <1>1, <1>4, <1>5 DEF Owned, HomesOK, Data, Kepts, Mngs
<1>9. RetryOK'
  BY <1>5 DEF Owned, RetryOK, Kepts
<1>10. PipesOK'
  <2>1. /\ tx_busy_sending => DspSendOkFlag'[sending_msdu] = DspSendOkFlag[sending_msdu]
        /\ urb["head"] # None => DspSendOkFlag'[urb["head"]] = DspSendOkFlag[urb["head"]]
    BY <1>4 DEF Owned, HandsOK, Part
  <2> QED BY <1>5, <2>1 DEF Owned, PipesOK, Data, Kepts, Mngs
<1> QED BY <1>6, <1>7, <1>8, <1>9, <1>10 DEF Owned

\* The completion releases the frame that made room.
LEMMA KeptDropOwned ==
    ASSUME TypeOK, Holding, Owned, KeepSent_Drop PROVE Owned'
<1>1. /\ UNCHANGED << free_mng, data_que, mng_que, retry_que, tx_retry_valid, tx_retry_index,
                      sending_msdu, tx_busy_sending, tx, urb, done, worker >>
      /\ sent.at = "drop" /\ sent # NoSent /\ sent' = NoSent /\ Release({sent.old})
  BY DEF KeepSent_Drop, queues, retry, sending, usb, threads, NoSent, Sent_Finish
<1>2. sent.old \in Dropped /\ Dropped' = Dropped \ {sent.old} /\ sent'.at # "drop"
  BY <1>1 DEF Dropped, NoSent, Owned, DropsOK
<1>3. sent.m = None
  BY <1>1 DEF Holding
<1>4. PICK h \in Dropped : h = sent.old
  BY <1>2
<1> QED BY <1>1, <1>2, <1>3, <1>4, DropOwned

\* The card asks for frames again: while the queue is being sent the index
\* steps back, otherwise the queue is cut down and started.
LEMMA RetryOwned ==
    ASSUME TypeOK, Holding, Owned, NEW n \in 1..MaxReturned, Tx_Process_Retry_Int(n) PROVE Owned'
<1>1. UNCHANGED << free_mng, data_que, mng_que, sending_msdu, tx_busy_sending, tx, urb, done, sent, worker >>
  BY DEF Tx_Process_Retry_Int, sending, usb, threads
<1>2. CASE tx_retry_valid
  <2>1. UNCHANGED << retry_que, free, node_free, DspSendOkFlag, tx_retry_valid >>
    BY <1>2 DEF Tx_Process_Retry_Int, frames
  <2>2. tx_retry_index' <= tx_retry_index /\ tx_retry_index' \in Nat
    <3>1. tx_retry_index \in Nat /\ n \in Nat
      BY TxAssumption DEF TypeOK
    <3> QED BY <1>2, <3>1 DEF Tx_Process_Retry_Int, StepBack
  <2>3. HandsOK' /\ HomesOK' /\ DropsOK'
    <3>1. DropsOK' /\ Dropped' = Dropped
      BY <1>1, <2>1, FrameFacts, DropsStay DEF Owned, Hands, Data, Kepts
    <3>2. HandsOK' /\ HomesOK'
      BY <1>1, <2>1, <3>1 DEF Owned, HandsOK, HomesOK, Hands, Data, Kepts, Mngs
    <3> QED BY <3>1, <3>2
  <2>4. RetryOK'
    BY <1>1, <2>1, <2>2, FrameFacts DEF Owned, RetryOK, Hands, Kepts
  <2>5. PipesOK'
    BY <1>1, <2>1 DEF Owned, PipesOK, Data, Kepts, Mngs
  <2> QED BY <2>3, <2>4, <2>5 DEF Owned
<1>3. CASE ~tx_retry_valid
  <2> DEFINE q == Kept(n)
             run == SubSeq(q, Worn(q) + 1, Len(q))
             M == Kepts \ InQueue(run)
  <2>1. StartRetry(n)
    BY <1>3 DEF Tx_Process_Retry_Int
  <2>2. run \in Seq(Msdu) /\ InQueue(run) \subseteq Kepts /\ Once(run)
    BY Restarted DEF Owned, HomesOK
  <2>3. Release(M) /\ retry_que' = run
    BY <2>1 DEF StartRetry, Kepts
  <2>4. \/ tx_retry_valid' /\ tx_retry_index' = 0
        \/ tx_retry_valid' = tx_retry_valid /\ tx_retry_index' = tx_retry_index
    BY <2>1 DEF StartRetry, retry
  <2> HIDE DEF run
  <2>5. Hands \cap Kepts = {} /\ (\A p \in Part : urb[p] \notin Kepts) /\ tx.at \notin {"find", "clear"}
    BY <1>3 DEF Owned, RetryOK
  <2>6. M \in SUBSET Msdu /\ M \cap (free \cup Hands) = {} /\ (\A p \in Part : urb[p] \notin M)
    BY <2>5, QueueTypes DEF Owned, HomesOK
  <2> HIDE DEF M
  <2>7. /\ free' = free \cup M /\ node_free' = Cardinality(free')
        /\ \A p \in Part : urb[p] # None => DspSendOkFlag'[urb[p]] = DspSendOkFlag[urb[p]]
        /\ sending_msdu # None => DspSendOkFlag'[sending_msdu] = DspSendOkFlag[sending_msdu]
    BY <2>3, <2>6, ReleaseOwned
  <2>8. Len(retry_que') \in Nat /\ InQueue(retry_que') \subseteq InQueue(retry_que)
        /\ Once(retry_que')
        /\ InQueue(retry_que) = InQueue(retry_que') \cup M /\ M \cap InQueue(retry_que') = {}
    BY <2>2, <2>3 DEF Kepts, M
  <2>9. HandsOK'
    BY <1>1, <2>5 DEF Owned, HandsOK, Hands, Kepts
  <2>10. HomesOK' /\ DropsOK'
    <3>1. DropsOK' /\ Dropped' = Dropped
      BY <1>1, <2>6, <2>7, <2>8, FrameFacts, DropsStay DEF Owned, Hands, Data, Kepts
    <3>2. HomesOK'
      BY <1>1, <2>6, <2>7, <2>8, <3>1 DEF Owned, HomesOK, Hands, Data, Kepts, Mngs
    <3> QED BY <3>1, <3>2
  <2>11. RetryOK'
    BY <1>1, <1>3, <2>4, <2>5, <2>8, FrameFacts DEF Owned, RetryOK, Hands, Kepts
  <2>12. PipesOK'
    <3>1. \A p \in Part : urb[p] # None
             => urb[p] \in InQueue(data_que) \cup InQueue(mng_que) \cup {tx.m, sending_msdu}
      BY <2>5 DEF Owned, PipesOK, Data, Kepts, Mngs
    <3>2. /\ tx_busy_sending => DspSendOkFlag'[sending_msdu] = DspSendOkFlag[sending_msdu]
          /\ urb["head"] # None => DspSendOkFlag'[urb["head"]] = DspSendOkFlag[urb["head"]]
      BY <2>7 DEF Owned, HandsOK, Part
    <3> QED BY <1>1, <3>1, <3>2 DEF Owned, PipesOK, Data, Kepts, Mngs
  <2> QED BY <2>9, <2>10, <2>11, <2>12 DEF Owned
<1> QED BY <1>2, <1>3

\* The thread takes the head of a queue, of which nothing is in a pipe.
LEMMA PopOwned ==
    ASSUME TypeOK, Holding, Owned, Steady, Quiet, Cancel_Pop PROVE Owned'
<1> DEFINE h == worker.m
<1>1. /\ UNCHANGED << free, node_free, free_mng, mng_que, DspSendOkFlag, tx_retry_valid,
                      tx_retry_index, sending_msdu, tx_busy_sending, tx, urb, done, sent >>
      /\ tx.at = "idle" /\ sent = NoSent /\ worker.at = "pop"
      /\ worker' = [worker EXCEPT !.at = "drop"]
  BY DEF Cancel_Pop, SoftirqIdle, pools, frames, retry, sending, usb
<1>2. worker'.at = "drop" /\ worker'.m = h
  <2>1. worker \in Work
    BY TypeParts DEF Parts, ThreadTypeOK
  <2> QED BY <1>1, <2>1 DEF Work
<1>3. /\ ~tx_retry_valid
      /\ \A p \in Part : urb[p] \notin InQueue(data_que) /\ urb[p] \notin InQueue(retry_que)
  BY DEF Quiet
<1>4. Hands \cap InQueue(retry_que) = {} /\ Hands \cap InQueue(data_que) = {}
  BY <1>3 DEF Owned, RetryOK, HomesOK, Kepts, Data
<1>5. /\ data_que \in Seq(Msdu) /\ retry_que \in Seq(Msdu)
      /\ Once(data_que) /\ Once(retry_que)
  BY DEF TypeOK, Owned, HomesOK
<1>6. /\ Once(data_que') /\ Once(retry_que')
      /\ \/ /\ h \in InQueue(data_que) /\ InQueue(data_que') = InQueue(data_que) \ {h}
            /\ retry_que' = retry_que
         \/ /\ h \in InQueue(retry_que) /\ InQueue(retry_que') = InQueue(retry_que) \ {h}
            /\ data_que' = data_que
  <2>1. Emptied # << >> /\ h = Head(Emptied)
    BY <1>1 DEF Steady
  <2>2. Leave(Tail(Emptied))
    BY <2>1 DEF Cancel_Pop, Rest
  <2>3. Emptied \in Seq(Msdu) /\ Once(Emptied)
    BY <1>5 DEF Emptied
  <2>4. /\ h \in InQueue(Emptied) /\ InQueue(Tail(Emptied)) = InQueue(Emptied) \ {h}
        /\ Once(Tail(Emptied))
    BY <2>1, <2>3, TakeHead
  <2>5. \/ Emptied = data_que /\ data_que' = Tail(Emptied) /\ retry_que' = retry_que
        \/ Emptied = retry_que /\ retry_que' = Tail(Emptied) /\ data_que' = data_que
    BY <2>2 DEF Emptied, Leave
  <2> QED BY <1>5, <2>4, <2>5
<1> HIDE DEF h
<1>7. h \in Msdu /\ h \notin free /\ h \notin Hands /\ h \notin Dropped
  BY <1>4, <1>6, FrameFacts DEF Owned, HomesOK, DropsOK, Data, Kepts
<1>8. Dropped' = Dropped \cup {h} /\ sent'.at # "drop" /\ Hands' = Hands
  BY <1>1, <1>2 DEF Dropped, NoSent, Hands
<1>9. HandsOK'
  <2>1. tx.at # "advance"
    BY <1>1
  <2> QED BY <1>1, <2>1 DEF Owned, HandsOK
<1>10. DropsOK'
  BY <1>1, <1>6, <1>7, <1>8 DEF Owned, DropsOK, HomesOK, Data, Kepts
<1>11. HomesOK'
  BY <1>1, <1>6, <1>7, <1>8 DEF Owned, HomesOK, Data, Kepts, Mngs
<1>12. RetryOK'
  BY <1>1, <1>3, <1>4, <1>6, <1>8 DEF Owned, RetryOK, Hands, Kepts
<1>13. PipesOK'
  <2>1. \A p \in Part : urb[p] # None => urb[p] \in InQueue(mng_que) \cup {tx.m, sending_msdu}
    BY <1>3 DEF Owned, PipesOK, Data, Kepts, Mngs
  <2> QED BY <1>1, <2>1 DEF Owned, PipesOK, Mngs
<1> QED BY <1>9, <1>10, <1>11, <1>12, <1>13 DEF Owned

\* The thread releases it.
LEMMA CancelDropOwned ==
    ASSUME TypeOK, Holding, Owned, Quiet, Cancel_Drop PROVE Owned'
<1>1. /\ UNCHANGED << free_mng, data_que, mng_que, retry_que, tx_retry_valid, tx_retry_index,
                      sending_msdu, tx_busy_sending, tx, urb, done, sent >>
      /\ sent.at = "none" /\ worker.at = "drop" /\ Release({worker.m})
      /\ worker' = [worker EXCEPT !.at = "load", !.m = None]
  BY DEF Cancel_Drop, SoftirqIdle, NoSent, queues, retry, sending, usb
<1>2. worker'.at = "load"
  <2>1. worker \in Work
    BY TypeParts DEF Parts, ThreadTypeOK
  <2> QED BY <1>1, <2>1 DEF Work
<1>3. worker.m \in Dropped /\ Dropped' = Dropped \ {worker.m}
  BY <1>1, <1>2 DEF Dropped
<1>4. PICK h \in Dropped : h = worker.m
  BY <1>3
<1> QED BY <1>1, <1>2, <1>3, <1>4, DropOwned

\* A queue that was read empty is empty when it is initialised.
LEMMA InitOwned ==
    ASSUME TypeOK, Holding, Owned, Steady, Cancel_Init PROVE Owned'
<1>1. Emptied = << >> /\ Leave(<< >>)
  BY DEF Cancel_Init, Steady
<1>2. UNCHANGED << data_que, retry_que >>
  BY <1>1 DEF Emptied, Leave
<1>3. UNCHANGED related /\ done' = done
  BY <1>2 DEF Cancel_Init, related, pools, queues, frames, usb
<1>4. worker.at # "drop" /\ worker'.at # "drop"
  <2>1. worker \in Work
    BY TypeParts DEF Parts, ThreadTypeOK
  <2> QED BY <2>1 DEF Cancel_Init, Work
<1> QED BY <1>3, <1>4, OwnedStays

\* No step of the driver puts a frame where it must not be.
LEMMA OwnedStep ==
    ASSUME TypeOK, Holding, Owned, Steady, Cancelling => Quiet, Next PROVE Owned'
<1>0. worker \in Work
  BY TypeParts DEF Parts, ThreadTypeOK
<1>1. CASE Routine_Return \/ Tx_watch_timeout \/ Adap_Send
  <2>1. UNCHANGED related /\ done' = done /\ worker' = worker
    BY <1>1 DEF Routine_Return, Tx_watch_timeout, Adap_Send, related, pools, frames, usb, threads
  <2> QED BY <2>1, OwnedStays
<1>2. CASE TimeOut_Begin \/ TimeOut_Restore \/ Cancel_Begin \/ Cancel_End \/ Cancel_Load
           \/ (\E p \in Part : TimeOut_Idle(p))
  <2>1. UNCHANGED related /\ done' = done
    BY <1>2 DEF TimeOut_Begin, TimeOut_Restore, Cancel_Begin, Cancel_End, Cancel_Load, TimeOut_Idle,
         related, pools, frames, usb
  <2>2. worker.at # "drop"
    BY <1>2 DEF TimeOut_Begin, TimeOut_Restore, Cancel_Begin, Cancel_End, Cancel_Load, TimeOut_Idle, WaitAt
  <2>3. worker'.at # "drop"
    <3>1. CASE worker' = NoWork \/ worker' = [NoWork EXCEPT !.at = "load"]
      BY <3>1 DEF NoWork
    <3>4. CASE worker' = [worker EXCEPT !.at = "init"]
      BY <1>0, <3>4 DEF Work
    <3>5. CASE worker' = [worker EXCEPT !.at = "pop", !.m = Head(Emptied)]
      BY <1>0, <3>5 DEF Work
    <3>2. ASSUME NEW stop, worker' = [NoWork EXCEPT !.at = "wait_head", !.m = sending_msdu, !.stop = stop]
          PROVE  worker'.at # "drop"
      BY <3>2 DEF NoWork
    <3>3. ASSUME NEW p \in Part, worker' = [worker EXCEPT !.at = After(p)]
          PROVE  worker'.at # "drop"
      BY <1>0, <3>3 DEF Work, After
    <3> QED BY <1>2, <3>1, <3>2, <3>3, <3>4, <3>5
            DEF TimeOut_Begin, TimeOut_Restore, Cancel_Begin, Cancel_End, Cancel_Load, TimeOut_Idle
  <2> QED BY <2>1, <2>2, <2>3, OwnedStays
<1>3. ASSUME NEW p \in Part, Usb_Completion(p) \/ TimeOut_Cancel(p) PROVE Owned'
  <2>1. UNCHANGED related /\ done' = done \cup {p} /\ urb[p] # None
    BY <1>3 DEF Usb_Completion, TimeOut_Cancel, related, pools, frames
  <2>2. worker' = worker \/ (worker.at # "drop" /\ worker'.at # "drop")
    <3>1. CASE Usb_Completion(p)
      BY <3>1 DEF Usb_Completion, threads
    <3>2. CASE TimeOut_Cancel(p)
      BY <1>0, <3>2 DEF TimeOut_Cancel, WaitAt, After, Work
    <3> QED BY <1>3, <3>1, <3>2
  <2> QED BY <2>1, <2>2, OwnedStays
<1>4. CASE Cancel_Pop \/ Cancel_Drop \/ Cancel_Init
  <2>1. Cancelling
    BY <1>4 DEF Cancel_Pop, Cancel_Drop, Cancel_Init, Cancelling
  <2> QED BY <1>4, <2>1, PopOwned, CancelDropOwned, InitOwned
<1>5. CASE Alloc_Take \/ Tx_Transmit_mng_frame \/ Routine_Start \/ Routine_Find \/ Routine_Clear
           \/ Routine_Data \/ Submit_Head \/ Submit_Body \/ Submit_Record \/ Routine_Advance
           \/ Routine_Back
  BY <1>5, TakeOwned, MngOwned, StartOwned, FindOwned, ClearOwned, DataOwned, HeadOwned, BodyOwned,
     RecordOwned, AdvanceOwned, BackOwned
<1>6. CASE Process_Sent \/ KeepSent_Room \/ KeepSent_Full \/ KeepSent_Drop
           \/ (\E p \in Part : TransferDone(p))
           \/ (\E n \in 1..MaxReturned : Tx_Process_Retry_Int(n))
  BY <1>6, SentOwned, RoomOwned, FullOwned, KeptDropOwned, DoneOwned, RetryOwned
<1> QED BY <1>1, <1>2, <1>3, <1>4, <1>5, <1>6 DEF Next, Tasklet, Interrupt, Thread, Others

\* What was read stays so: who reads is the softirq or the thread that is at
\* work, and what others may change meanwhile is excluded.
LEMMA SteadyStep ==
    ASSUME TypeOK, Holding, Owned, Steady, QuietNext PROVE Steady'
<1>1. Next /\ Undisturbed
  BY DEF QuietNext
<1>2. /\ taking' # NotTaking => /\ taking'.m \in free' /\ taking'.node = node_free'
                                /\ taking'.only <=> free' = {taking'.m}
                                /\ tx'.at = "idle" /\ sent' = NoSent
  <2>1. taking' = taking \/ Adap_Send \/ taking' = NotTaking
    BY <1>1 DEF Next, Tasklet, Interrupt, Thread, Others, pools, Adap_Send, Alloc_Take,
       Tx_Transmit_mng_frame, Routine_Return, Routine_Start, Routine_Find, Routine_Clear,
       Routine_Data, Submit_Head, Submit_Body, Submit_Record, Routine_Advance, Routine_Back,
       Usb_Completion, TransferDone, Process_Sent, KeepSent_Room, KeepSent_Full, KeepSent_Drop,
       Tx_Process_Retry_Int, Tx_watch_timeout, TimeOut_Begin, TimeOut_Idle, TimeOut_Cancel,
       TimeOut_Restore, Cancel_Begin, Cancel_Load, Cancel_Pop, Cancel_Drop, Cancel_Init, Cancel_End
  <2>2. ASSUME Adap_Send
        PROVE  /\ taking'.m \in free' /\ taking'.node = node_free'
               /\ taking'.only <=> free' = {taking'.m}
               /\ tx'.at = "idle" /\ sent' = NoSent
    <3>1. PICK m \in free : taking' = [m |-> m, node |-> node_free, only |-> free = {m}]
      BY <2>2 DEF Adap_Send
    <3>2. taking'.m = m /\ taking'.node = node_free /\ taking'.only = (free = {m})
      BY <3>1
    <3>3. UNCHANGED << free, node_free, tx, sent >> /\ tx.at = "idle" /\ sent = NoSent
      BY <2>2 DEF Adap_Send, SoftirqIdle
    <3> QED BY <3>2, <3>3
  <2>3. ASSUME taking' = taking, taking # NotTaking
        PROVE  /\ taking.m \in free' /\ taking.node = node_free'
               /\ taking.only <=> free' = {taking.m}
               /\ tx'.at = "idle" /\ sent' = NoSent
    <3>1. UNCHANGED << free, node_free >>
      BY <1>1, <2>3 DEF Undisturbed
    <3>2. tx.at = "idle" /\ sent = NoSent /\ sent.at = "none" /\ ~SoftirqIdle
      BY <2>3 DEF Steady, SoftirqIdle, NoSent
    <3>3. UNCHANGED << tx, sent >>
      BY <1>1, <2>3, <3>2 DEF Next, Tasklet, Interrupt, Thread, Others, Adap_Send, Alloc_Take,
         Tx_Transmit_mng_frame, Routine_Return, Routine_Start, Routine_Find, Routine_Clear,
         Routine_Data, Submit_Head, Submit_Body, Submit_Record, Routine_Advance, Routine_Back,
         Usb_Completion, TransferDone, Process_Sent, KeepSent_Room, KeepSent_Full, KeepSent_Drop,
         Tx_Process_Retry_Int, Tx_watch_timeout, TimeOut_Begin, TimeOut_Idle, TimeOut_Cancel,
         TimeOut_Restore, Cancel_Begin, Cancel_Load, Cancel_Pop, Cancel_Drop, Cancel_Init, Cancel_End
    <3> QED BY <2>3, <3>1, <3>2, <3>3 DEF Steady
  <2> QED BY <2>1, <2>2, <2>3
<1>3. /\ sent'.at = "room" => sent'.old = None \/ sent'.old \in Kepts'
      /\ sent'.at = "full" => retry_que' # << >> /\ sent'.old = Head(retry_que')
      /\ sent'.at \in {"room", "full"} => sent'.m \notin Kepts'
  <2>1. sent' = sent \/ sent'.at \in {"none", "done", "drop"} \/ Process_Sent
    <3>1. NoSent.at = "none" /\ (\A m : [NoSent EXCEPT !.at = "done", !.m = m].at = "done")
      BY DEF NoSent
    <3>2. [sent EXCEPT !.at = "drop", !.m = None].at = "drop"
      BY DEF TypeOK
    <3>3. ASSUME NEW p \in Part, TransferDone(p) PROVE sent' = sent \/ sent'.at = "done"
      BY <3>1, <3>3 DEF TransferDone
    <3> QED BY <1>1, <3>1, <3>2, <3>3 DEF Next, Tasklet, Interrupt, Thread, Others, Sent_Finish,
         Adap_Send, Alloc_Take,
         Tx_Transmit_mng_frame, Routine_Return, Routine_Start, Routine_Find, Routine_Clear,
         Routine_Data, Submit_Head, Submit_Body, Submit_Record, Routine_Advance, Routine_Back,
         Usb_Completion, KeepSent_Room, KeepSent_Full, KeepSent_Drop,
         Tx_Process_Retry_Int, Tx_watch_timeout, TimeOut_Begin, TimeOut_Idle, TimeOut_Cancel,
         TimeOut_Restore, Cancel_Begin, Cancel_Load, Cancel_Pop, Cancel_Drop, Cancel_Init, Cancel_End
  <2>2. CASE sent' = sent
    <3>1. sent.at \in {"room", "full"} => retry_que' = retry_que
      BY <1>1, <2>2 DEF Undisturbed
    <3> QED BY <2>2, <3>1 DEF Steady, Kepts
  <2>3. CASE Process_Sent
    <3>1. sent \in Sender /\ retry_que \in Seq(Msdu) /\ RetryList - 1 > 0
      BY SMTT(60), TypeParts, TxAssumption DEF Parts, FlowTypeOK, TypeOK
    <3>2. retry_que' = retry_que
      BY <2>3 DEF Process_Sent, queues
    <3>3. ASSUME sent' = [sent EXCEPT !.at = "room", !.old = LastOf(retry_que)], ~IsRetry(sent.m)
          PROVE  /\ sent'.at = "room" /\ sent'.m \notin Kepts
                 /\ sent'.old = None \/ sent'.old \in Kepts
      <4>1. sent'.at = "room" /\ sent'.m = sent.m /\ sent'.old = LastOf(retry_que)
        BY <3>1, <3>3 DEF Sender
      <4>2. retry_que # << >> => retry_que[Len(retry_que)] \in InQueue(retry_que)
        BY <3>1 DEF InQueue
      <4> QED BY <3>3, <4>1, <4>2 DEF LastOf, IsRetry, Kepts
    <3>4. ASSUME sent' = [sent EXCEPT !.at = "full", !.old = Head(retry_que)], ~IsRetry(sent.m),
                 ~(Len(retry_que) < RetryList - 1)
          PROVE  /\ sent'.at = "full" /\ sent'.m \notin Kepts
                 /\ retry_que # << >> /\ sent'.old = Head(retry_que)
      <4>1. sent'.at = "full" /\ sent'.m = sent.m /\ sent'.old = Head(retry_que)
        BY <3>1, <3>4 DEF Sender
      <4>2. retry_que # << >>
        BY <3>1, <3>4
      <4> QED BY <3>4, <4>1, <4>2 DEF IsRetry, Kepts
    <3>5. NoSent.at = "none"
      BY DEF NoSent
    <3>6. \/ sent' = NoSent
          \/ /\ ~IsRetry(sent.m)
             /\ sent' = [sent EXCEPT !.at = "room", !.old = LastOf(retry_que)]
          \/ /\ ~IsRetry(sent.m) /\ ~(Len(retry_que) < RetryList - 1)
             /\ sent' = [sent EXCEPT !.at = "full", !.old = Head(retry_que)]
      BY <2>3 DEF Process_Sent, Sent_Finish
    <3> QED BY <3>2, <3>3, <3>4, <3>5, <3>6 DEF Kepts
  <2> QED BY <2>1, <2>2, <2>3
<1>4. /\ worker'.at \in {"pop", "init"} => SoftirqIdle'
      /\ worker'.at = "pop" => Emptied' # << >> /\ worker'.m = Head(Emptied')
      /\ worker'.at = "init" => Emptied' = << >>
  <2>0. worker \in Work
    BY TypeParts DEF Parts, ThreadTypeOK
  <2>1. worker' = worker \/ worker'.at \notin {"pop", "init"} \/ Cancel_Load
    <3>1. NoWork.at = "idle" /\ [NoWork EXCEPT !.at = "load"].at = "load"
      BY DEF NoWork
    <3>2. ASSUME NEW stop, worker' = [NoWork EXCEPT !.at = "wait_head", !.m = sending_msdu, !.stop = stop]
          PROVE  worker'.at = "wait_head"
      BY <3>2 DEF NoWork
    <3>3. CASE TimeOut_Begin
      BY <3>1, <3>2, <3>3 DEF TimeOut_Begin
    <3>4. ASSUME NEW p \in Part, TimeOut_Idle(p) \/ TimeOut_Cancel(p)
          PROVE  worker'.at \in {"wait_body", "restore"}
      <4>1. \/ worker' = [worker EXCEPT !.at = After(p)]
            \/ worker' = [worker EXCEPT !.at = After(p), !.returned = ~worker.stop]
        BY <3>4 DEF TimeOut_Idle, TimeOut_Cancel
      <4>2. worker'.at = After(p)
        BY <2>0, <4>1 DEF Work
      <4> QED BY <4>2 DEF After
    <3>5. CASE Cancel_Pop
      BY <2>0, <3>5 DEF Cancel_Pop, Work
    <3>6. CASE Cancel_Drop
      BY <2>0, <3>6 DEF Cancel_Drop, Work
    <3>7. CASE Cancel_Init
      BY <2>0, <3>7 DEF Cancel_Init, Work
    <3>8. CASE Cancel_Begin \/ Cancel_End \/ TimeOut_Restore
      BY <3>1, <3>8 DEF Cancel_Begin, Cancel_End, TimeOut_Restore
    <3> QED BY <1>1, <3>3, <3>4, <3>5, <3>6, <3>7, <3>8
         DEF Next, Tasklet, Interrupt, Thread, Others, threads, Adap_Send, Alloc_Take,
         Tx_Transmit_mng_frame, Routine_Return, Routine_Start, Routine_Find, Routine_Clear,
         Routine_Data, Submit_Head, Submit_Body, Submit_Record, Routine_Advance, Routine_Back,
         Usb_Completion, TransferDone, Process_Sent, KeepSent_Room, KeepSent_Full, KeepSent_Drop,
         Tx_Process_Retry_Int, Tx_watch_timeout
  <2>2. ASSUME worker' = worker, worker.at \in {"pop", "init"}
        PROVE  SoftirqIdle' /\ Emptied' = Emptied
    BY <1>1, <2>2 DEF Undisturbed, Emptied
  <2>3. CASE Cancel_Load
    <3>1. /\ SoftirqIdle /\ UNCHANGED << tx, sent, taking, data_que, retry_que >>
          /\ worker' = IF Emptied = << >> THEN [worker EXCEPT !.at = "init"]
                       ELSE [worker EXCEPT !.at = "pop", !.m = Head(Emptied)]
      BY <2>3 DEF Cancel_Load, pools, queues
    <3>2. SoftirqIdle'
      BY <3>1 DEF SoftirqIdle
    <3>3. CASE Emptied = << >>
      <4>1. worker'.at = "init" /\ worker'.q = worker.q
        BY <2>0, <3>1, <3>3 DEF Work
      <4> QED BY <3>1, <3>2, <3>3, <4>1 DEF Emptied
    <3>4. CASE Emptied # << >>
      <4>1. worker'.at = "pop" /\ worker'.m = Head(Emptied) /\ worker'.q = worker.q
        BY <2>0, <3>1, <3>4 DEF Work
      <4>2. Emptied' = Emptied
        BY <3>1, <4>1 DEF Emptied
      <4> QED BY <3>2, <3>4, <4>1, <4>2
    <3> QED BY <3>3, <3>4
  <2> QED BY <2>1, <2>2, <2>3 DEF Steady
<1> QED BY <1>2, <1>3, <1>4 DEF Steady

-----------------------------------------------------------------------------
(* The theorems.                                                           *)

\* Everything is in the pool at first, and nobody at work.
LEMMA TxInit == ASSUME Init PROVE IInv
<1> USE TxAssumption
<1>1. \A S : << >> \in Seq(S) /\ InQueue(<< >>) = {} /\ Once(<< >>) /\ Len(<< >>) = 0
  BY DEF InQueue, Once
<1>2. Parts
  <2>1. PoolTypeOK
    <3>1. Cardinality(Msdu) \in Nat
      BY FS_CardinalityType
    <3> QED BY <1>1, <3>1, NotesTyped DEF Init, PoolTypeOK
  <2>2. FieldTypeOK
    <3>1. 0 \in 0..RetryMax /\ 0 \in 0..2 /\ {} \in SUBSET Part
      OBVIOUS
    <3> QED BY <3>1 DEF Init, FieldTypeOK
  <2>3. FALSE \in BOOLEAN
    BY Zenon
  <2>4. tx_retry_valid \in BOOLEAN /\ tx_busy_sending \in BOOLEAN /\ scheduled \in BOOLEAN
        /\ watching \in BOOLEAN /\ task \in BOOLEAN
    BY <2>3, Zenon DEF Init
  <2>5. RetryTypeOK /\ FlowTypeOK /\ TaskletTypeOK
    BY <2>4, NotesTyped DEF Init, RetryTypeOK, FlowTypeOK, TaskletTypeOK, Routine, NoRoutine
  <2>6. ThreadTypeOK
    BY <2>4, NoWorkTyped DEF Init, ThreadTypeOK
  <2> QED BY <2>1, <2>2, <2>5, <2>6 DEF Parts, Init
<1>9. sent = NoSent /\ sent.at = "none" /\ sent.m = None /\ worker.at = "idle"
  BY DEF Init, NoSent, NoWork
<1>3. /\ Data = {} /\ Kepts = {} /\ Mngs = {} /\ Hands = {None} /\ tx.at = "idle"
      /\ Len(retry_que) = 0 /\ Dropped = {}
  BY <1>1, <1>9 DEF Init, Data, Kepts, Mngs, Hands, NoRoutine, Dropped
<1>4. HandsOK
  BY <1>3 DEF Init, HandsOK, NoRoutine
<1>5. HomesOK /\ DropsOK
  BY <1>1, <1>3, <1>9 DEF Init, HomesOK, DropsOK, Frame
<1>6. RetryOK
  BY <1>3 DEF Init, RetryOK, NoRoutine
<1>7. PipesOK
  BY <1>3 DEF Init, PipesOK, Part
<1>8. ~Cancelling
  BY <1>9 DEF Cancelling
<1>10. Holding /\ Steady
  BY <1>3, <1>9 DEF Init, Holding, Steady
<1> QED BY <1>2, <1>4, <1>5, <1>6, <1>7, <1>8, <1>10, TypeParts DEF IInv, Owned

\* Standing still changes nothing that was typed, or held.
LEMMA TypeStays ==
    ASSUME TypeOK, Holding, UNCHANGED vars PROVE TypeOK' /\ Holding'
<1>1. UNCHANGED << free, node_free, free_mng, data_que, mng_que, retry_que, retry_count,
                   DspSendOkFlag, in_working, tx_retry_valid, tx_retry_index, sending_msdu,
                   tx_busy_sending, scheduled, tx, urb, done, taking, sent, watching,
                   driver_state, task, worker, left >>
  BY DEF vars, pools, queues, frames, retry, sending, usb, threads
<1>2. Parts'
  BY <1>1, TypeParts DEF Parts, PoolTypeOK, FieldTypeOK, RetryTypeOK, FlowTypeOK,
     TaskletTypeOK, ThreadTypeOK
<1>3. Holding'
  BY <1>1 DEF Holding
<1> QED BY <1>2, <1>3, TypeParts

\* Every step, and standing still, keeps the invariant.
LEMMA TxStep == ASSUME IInv, [QuietNext]_vars PROVE IInv'
<1>1. CASE QuietNext
  <2>1. TypeOK' /\ Holding'
    BY <1>1, TypeStep, HoldStep DEF IInv, QuietNext
  <2>2. Owned'
    BY <1>1, OwnedStep DEF IInv, QuietNext
  <2>3. Steady'
    BY <1>1, SteadyStep DEF IInv
  <2>4. (Cancelling => Quiet)'
    BY <1>1 DEF QuietNext
  <2> QED BY <2>1, <2>2, <2>3, <2>4 DEF IInv
<1>2. CASE UNCHANGED vars
  <2>1. UNCHANGED << free, node_free, free_mng, data_que, mng_que, retry_que, DspSendOkFlag,
                     tx_retry_valid, tx_retry_index, sending_msdu, tx_busy_sending, tx, urb,
                     done, taking, sent, worker >>
    BY <1>2 DEF vars, pools, queues, frames, retry, sending, usb, threads
  <2>2. TypeOK' /\ Holding'
    BY <1>2, TypeStays DEF IInv
  <2>3. UNCHANGED related /\ done' = done
    BY <2>1 DEF related, queues, retry, sending
  <2>4. Owned'
    BY <2>1, <2>3, OwnedStays DEF IInv
  <2>5. Steady'
    BY <2>1 DEF IInv, Steady, Kepts, Emptied, SoftirqIdle
  <2>6. (Cancelling => Quiet)'
    BY <2>1 DEF IInv, Cancelling, Quiet
  <2> QED BY <2>2, <2>4, <2>5, <2>6 DEF IInv
<1> QED BY <1>1, <1>2

\* The invariant: types, who is at work has a frame, one home for every data
\* frame, kept frames and pipes as the tasklet expects them, and what was read
\* of a queue still so.
THEOREM TxInvariant == QuietSpec => []IInv
<1> QED BY TxInit, TxStep, PTL DEF QuietSpec

\* The queues hold frames of their pools, a frame counts at most two
\* transfers and is tried at most RetryMax times (wlan/usbwlan_tx.c), for any
\* pools and any card, and whoever comes between another's reading of a queue
\* and its writing.
THEOREM TxTyped == Spec => []TypeOK
<1> DEFINE Inv == TypeOK /\ Holding
<1>1. Init => Inv
  BY TxInit DEF IInv
<1>2. Inv /\ [Next]_vars => Inv'
  BY TypeStep, HoldStep, TypeStays
<1>3. Inv => TypeOK
  OBVIOUS
<1> QED BY <1>1, <1>2, <1>3, PTL DEF Spec

\* No data frame is lost, shared or kept twice, the free ones are counted
\* right, and no frame is given back while a transfer reads it, whatever the
\* tasklet, the completions, the retry interrupt and the cancellation do.
THEOREM FramesConserved == QuietSpec => []PoolConserved
<1>1. ASSUME IInv PROVE PoolConserved
  <2>1. node_free = Cardinality(free)
    BY <1>1 DEF IInv, Owned, HomesOK
  <2>2. ASSUME NEW m \in Msdu
        PROVE  Count(m \in free) + Occurs(m, data_que) + Occurs(m, retry_que)
                 + Count(~IsRetry(m) /\ m \in {tx.m, sending_msdu, sent.m})
                 + Count(sent.at = "drop" /\ m = sent.old)
                 + Count(worker.at = "drop" /\ m = worker.m) = 1
    <3>1. /\ data_que \in Seq(Msdu) /\ retry_que \in Seq(Msdu)
          /\ Once(data_que) /\ Once(retry_que)
      BY <1>1 DEF IInv, TypeOK, Owned, HomesOK
    <3>2. Occurs(m, data_que) = Count(m \in Data) /\ Occurs(m, retry_que) = Count(m \in Kepts)
      BY <3>1, OccursOnce DEF Data, Kepts
    <3>3. Count(~IsRetry(m) /\ m \in {tx.m, sending_msdu, sent.m}) = Count(m \notin Kepts /\ m \in Hands)
      BY DEF IsRetry, Kepts, Hands
    <3>4. /\ free \cap Data = {} /\ free \cap Kepts = {} /\ Data \cap Kepts = {}
          /\ (free \cup Data) \cap Hands = {}
          /\ m \in free \cup Data \cup Kepts \cup Hands \cup Dropped
          /\ Dropped \cap (free \cup Data \cup Kepts \cup Hands) = {}
      BY <1>1 DEF IInv, Owned, HomesOK, DropsOK
    <3>5. Count(sent.at = "drop" /\ m = sent.old) + Count(worker.at = "drop" /\ m = worker.m)
            = Count(m \in Dropped)
      <4>1. ~(sent.at = "drop" /\ m = sent.old /\ worker.at = "drop" /\ m = worker.m)
        BY <1>1 DEF IInv, Owned, DropsOK
      <4>2. m \in Dropped <=> (sent.at = "drop" /\ m = sent.old) \/ (worker.at = "drop" /\ m = worker.m)
        BY DEF Dropped
      <4> QED BY <4>1, <4>2 DEF Count
    <3>6. Count(m \in free) + Count(m \in Data) + Count(m \in Kepts)
            + Count(m \notin Kepts /\ m \in Hands) + Count(m \in Dropped) = 1
      BY <3>4 DEF Count
    <3>7. /\ Count(m \in free) \in Int /\ Count(m \in Data) \in Int /\ Count(m \in Kepts) \in Int
          /\ Count(m \notin Kepts /\ m \in Hands) \in Int
          /\ Count(sent.at = "drop" /\ m = sent.old) \in Int
          /\ Count(worker.at = "drop" /\ m = worker.m) \in Int
      BY DEF Count
    <3> QED BY <3>2, <3>3, <3>5, <3>6, <3>7
  <2>3. ASSUME NEW p \in Part PROVE urb[p] \notin free \cup free_mng
    <3>1. CASE urb[p] = None
      BY <1>1, <3>1, FrameFacts DEF IInv
    <3>2. CASE urb[p] # None
      <4>1. urb[p] \in Data \cup Kepts \cup Mngs \cup {tx.m, sending_msdu}
        BY <1>1, <3>2 DEF IInv, Owned, PipesOK
      <4>2. CASE urb[p] \in {tx.m, sending_msdu}
        BY <1>1, <4>2 DEF IInv, Owned, HomesOK, Hands
      <4>3. CASE urb[p] \in Data \cup Kepts
        <5>1. urb[p] \in Msdu /\ urb[p] \notin free
          BY <1>1, <4>3, FrameFacts DEF IInv, Owned, HomesOK, Data, Kepts
        <5> QED BY <1>1, <5>1, FrameFacts DEF IInv
      <4>4. CASE urb[p] \in Mngs
        <5>1. urb[p] \in Mmpdu /\ urb[p] \notin free_mng
          BY <1>1, <4>4, FrameFacts DEF IInv, Owned, HomesOK, Mngs
        <5> QED BY <1>1, <5>1, FrameFacts DEF IInv
      <4> QED BY <4>1, <4>2, <4>3, <4>4
    <3> QED BY <3>1, <3>2
  <2> QED BY <2>1, <2>2, <2>3 DEF PoolConserved
<1> QED BY <1>1, TxInvariant, PTL

\* While a frame is being sent one of its transfers is still to complete, so
\* that tx_busy_sending is taken down in the end; and the retry queue is never
\* read past its end, which the source only asserts.
THEOREM TaskletStaysRight == QuietSpec => []TaskletIsRight
<1>1. ASSUME IInv PROVE TaskletIsRight
  <2>1. ASSUME tx_busy_sending PROVE \E p \in Part : urb[p] = sending_msdu
    <3>1. urb["head"] # None \/ urb["body"] # None
      BY <1>1, <2>1 DEF IInv, Owned, PipesOK
    <3>2. \A p \in Part : urb[p] \in {sending_msdu, None}
      BY <1>1, <2>1 DEF IInv, Owned, PipesOK
    <3> QED BY <3>1, <3>2 DEF Part
  <2>2. tx.at = "find" => tx_retry_index <= Len(retry_que)
    BY <1>1 DEF IInv, Owned, RetryOK
  <2> QED BY <2>1, <2>2 DEF TaskletIsRight
<1> QED BY <1>1, TxInvariant, PTL
=============================================================================
