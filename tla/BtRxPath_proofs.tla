--------------------------- MODULE BtRxPath_proofs ---------------------------
(***************************************************************************)
(* Proofs about BtRxPath, for any number of devices, any size of the ring  *)
(* and of the transfers: the typing of the state, that the count of the    *)
(* frames kept for the worker is exact, and that data stay behind the set- *)
(* up of their link and in order.                                          *)
(***************************************************************************)
EXTENDS BtRxPath, FiniteSetTheorems, TLAPS

(***************************************************************************)
(* How often a sequence has an element of a given set, and how that number *)
(* changes when elements are added or taken.                               *)
(***************************************************************************)
At(q, X) == { i \in 1..Len(q) : q[i] \in X }
Times(q, X) == Cardinality(At(q, X))
One(e, X) == IF e \in X THEN 1 ELSE 0

\* The positions counted are finitely many.
LEMMA TimesType ==
    ASSUME NEW S, NEW q \in Seq(S), NEW X
    PROVE  IsFiniteSet(At(q, X)) /\ Times(q, X) \in Nat
<1>1. Len(q) \in Nat
  OBVIOUS
<1>2. IsFiniteSet(1..Len(q))
  BY <1>1, FS_Interval
<1>3. At(q, X) \in SUBSET (1..Len(q))
  BY DEF At
<1>4. IsFiniteSet(At(q, X))
  BY <1>2, <1>3, FS_Subset
<1> QED BY <1>4, FS_CardinalityType DEF Times

\* Nothing is found in the empty sequence.
LEMMA TimesEmpty == ASSUME NEW X PROVE Times(<< >>, X) = 0
<1>1. At(<< >>, X) = {}
  BY DEF At
<1> QED BY <1>1, FS_EmptySet DEF Times

\* An element put at the tail.
LEMMA TimesAppend ==
    ASSUME NEW S, NEW q \in Seq(S), NEW e \in S, NEW X
    PROVE  Times(Append(q, e), X) = Times(q, X) + One(e, X)
<1>1. IsFiniteSet(At(q, X)) /\ Times(q, X) \in Nat
  BY TimesType
<1>2. /\ Len(q) \in Nat /\ Len(Append(q, e)) = Len(q) + 1
      /\ \A i \in 1..Len(q) : Append(q, e)[i] = q[i]
      /\ Append(q, e)[Len(q) + 1] = e
  OBVIOUS
<1>3. CASE e \in X
  <2>1. At(Append(q, e), X) = At(q, X) \cup {Len(q) + 1}
    BY <1>2, <1>3 DEF At
  <2>2. Len(q) + 1 \notin At(q, X)
    BY <1>2 DEF At
  <2> QED BY <1>1, <1>3, <2>1, <2>2, FS_AddElement DEF Times, One
<1>4. CASE e \notin X
  <2>1. At(Append(q, e), X) = At(q, X)
    BY <1>2, <1>4 DEF At
  <2> QED BY <1>1, <1>4, <2>1 DEF Times, One
<1> QED BY <1>3, <1>4

\* An element put at the head.
LEMMA TimesCons ==
    ASSUME NEW S, NEW q \in Seq(S), NEW e \in S, NEW X
    PROVE  Times(<< e >> \o q, X) = Times(q, X) + One(e, X)
<1> DEFINE r == << e >> \o q
           T == { i \in 2..Len(r) : r[i] \in X }
           f == [i \in At(q, X) |-> i + 1]
<1>1. IsFiniteSet(At(q, X)) /\ Times(q, X) \in Nat
  BY TimesType
<1>2. /\ Len(q) \in Nat /\ Len(r) = Len(q) + 1 /\ r[1] = e
      /\ \A i \in 1..Len(q) : r[i + 1] = q[i]
  OBVIOUS
<1>3. f \in Bijection(At(q, X), T)
  <2> HIDE DEF r
  <2>1. f \in [At(q, X) -> T]
    BY <1>2 DEF At
  <2>2. \A i, j \in At(q, X) : f[i] = f[j] => i = j
    BY <1>2 DEF At
  <2>3. \A j \in T : \E i \in At(q, X) : f[i] = j
    <3> SUFFICES ASSUME NEW j \in T PROVE \E i \in At(q, X) : f[i] = j
      OBVIOUS
    <3>1. j - 1 \in 1..Len(q) /\ r[(j - 1) + 1] = q[j - 1] /\ (j - 1) + 1 = j
      BY <1>2
    <3>2. j - 1 \in At(q, X)
      BY <3>1 DEF At
    <3> QED BY <3>1, <3>2
  <2> QED BY <2>1, <2>2, <2>3 DEF Bijection, Injection, Surjection, IsInjective
<1>4. IsFiniteSet(T) /\ Cardinality(T) = Times(q, X)
  <2> HIDE DEF f, T
  <2> QED BY <1>1, <1>3, FS_Bijection DEF ExistsBijection, Times
<1>5. CASE e \in X
  <2>1. At(r, X) = T \cup {1} /\ 1 \notin T
    <3> HIDE DEF r
    <3> QED BY <1>2, <1>5 DEF At
  <2> HIDE DEF T, r
  <2> QED BY <1>1, <1>4, <1>5, <2>1, FS_AddElement DEF Times, One, r
<1>6. CASE e \notin X
  <2>1. At(r, X) = T
    <3> HIDE DEF r
    <3> QED BY <1>2, <1>6 DEF At
  <2> HIDE DEF T, r
  <2> QED BY <1>1, <1>4, <1>6, <2>1 DEF Times, One, r
<1> QED BY <1>5, <1>6

\* The head taken off.
LEMMA TimesTail ==
    ASSUME NEW S, NEW q \in Seq(S), q # << >>, NEW X
    PROVE  Times(q, X) = Times(Tail(q), X) + One(Head(q), X)
<1>1. q = << Head(q) >> \o Tail(q)
  OBVIOUS
<1>2. Head(q) \in S /\ Tail(q) \in Seq(S)
  OBVIOUS
<1> HIDE DEF Times
<1>3. Times(<< Head(q) >> \o Tail(q), X) = Times(Tail(q), X) + One(Head(q), X)
  BY <1>2, TimesCons
<1> QED BY <1>1, <1>3

Fields(T, A, C) == [there : BOOLEAN, call : C, setup : BOOLEAN, timer : T, state : 0..1,
                    allowed : A, flow : BOOLEAN]

Short == [event : {"STOP", "CONTINUE"}, link : Link]
Entry == [there : BOOLEAN, call : 1..MaxCalls, setup : BOOLEAN,
          timer : 0..SetupTicks+ConnectedTicks, state : 0..1,
          allowed : 0..HidLimit+1, flow : BOOLEAN]

(***************************************************************************)
(* Typing.                                                                 *)
(***************************************************************************)

\* Fields of an entry changed: SMT is told nothing of the sets they range over.
LEMMA FieldsChanged ==
    ASSUME NEW T, NEW A, NEW C, NEW s \in Fields(T, A, C)
    PROVE  /\ \A a \in BOOLEAN, t \in T, n \in 0..1 :
                [s EXCEPT !.setup = a, !.timer = t, !.state = n] \in Fields(T, A, C)
           /\ \A t \in T, n \in 0..1 : [s EXCEPT !.timer = t, !.state = n] \in Fields(T, A, C)
           /\ \A a \in BOOLEAN, c \in C, t \in T :
                [s EXCEPT !.there = a, !.call = c, !.timer = t] \in Fields(T, A, C)
           /\ \A a \in BOOLEAN, w \in BOOLEAN, n \in 0..1 :
                [s EXCEPT !.there = a, !.setup = w, !.state = n] \in Fields(T, A, C)
           /\ \A a \in BOOLEAN : [s EXCEPT !.flow = a] \in Fields(T, A, C)
  BY DEF Fields

\* The same of an entry of the list of slave links.
LEMMA EntryChanged ==
    ASSUME NEW s \in Entry
    PROVE  /\ \A a \in BOOLEAN, t \in 0..SetupTicks+ConnectedTicks, n \in 0..1 :
                [s EXCEPT !.setup = a, !.timer = t, !.state = n] \in Entry
           /\ \A t \in 0..SetupTicks+ConnectedTicks, n \in 0..1 : [s EXCEPT !.timer = t, !.state = n] \in Entry
           /\ \A a \in BOOLEAN, c \in 1..MaxCalls, t \in 0..SetupTicks+ConnectedTicks :
                [s EXCEPT !.there = a, !.call = c, !.timer = t] \in Entry
           /\ \A a \in BOOLEAN, w \in BOOLEAN, n \in 0..1 :
                [s EXCEPT !.there = a, !.setup = w, !.state = n] \in Entry
           /\ \A a \in BOOLEAN : [s EXCEPT !.flow = a] \in Entry
<1>1. Entry = Fields(0..SetupTicks+ConnectedTicks, 0..HidLimit+1, 1..MaxCalls)
  BY DEF Entry, Fields
<1> QED BY <1>1, FieldsChanged

\* The fields of an entry.
LEMMA EntryFields ==
    ASSUME NEW s \in Entry
    PROVE  s.timer \in 0..SetupTicks+ConnectedTicks /\ s.state \in 0..1
  BY DEF Entry

\* A frame asked for is put at the tail of the scheduler's list, or there already.
LEMMA AskedType ==
    ASSUME TypeOK, NEW event \in {"STOP", "CONTINUE"}, NEW l \in Link
    PROVE  Asked(sched_list, event, l) \in Seq(Short)
<1>1. sched_list \in Seq(Short)
  BY DEF TypeOK, Short
<1>2. [event |-> event, link |-> l] \in Short
  BY DEF Short
<1> DEFINE block == [event |-> event, link |-> l]
<1>3. Asked(sched_list, event, l) = sched_list \/ Asked(sched_list, event, l) = Append(sched_list, block)
  BY DEF Asked
<1> HIDE DEF block
<1>4. block \in Short
  BY <1>2 DEF block
<1> QED BY <1>1, <1>3, <1>4

\* Data put into the ring leave it a ring.
LEMMA PutDataType ==
    ASSUME TypeOK, NEW f \in Frame, f.kind = "DATA", PutData(f)
    PROVE  /\ RxCach' \in Seq(Element) /\ Len(RxCach') < MAX_RX_CACH_COUNT
           /\ sched_list' \in Seq(Short)
<1>1. f.link \in Link /\ f.call \in 1..MaxCalls /\ f.n \in Nat
  BY DEF Frame
<1>2. [what |-> "DATA", link |-> f.link, call |-> f.call, n |-> f.n] \in Element
  BY <1>1 DEF Element
<1>3. Asked(sched_list, "STOP", f.link) \in Seq(Short)
  BY <1>1, AskedType
<1>4. sched_list \in Seq(Short)
  BY DEF TypeOK, Short
<1>5. sched_list' \in Seq(Short)
  BY <1>3, <1>4 DEF PutData, Sched_SendAclNullStopFrame
<1>6. /\ RxCach \in Seq(Element) /\ Len(RxCach) < MAX_RX_CACH_COUNT
      /\ MAX_RX_CACH_COUNT \in Nat
  BY RxPathAssumption DEF TypeOK
<1>7. RxCach' \in Seq(Element) /\ Len(RxCach') < MAX_RX_CACH_COUNT
  <2>1. CASE BtIsRxCachFull
    BY <1>6, <2>1 DEF PutData
  <2>2. CASE ~BtIsRxCachFull
    BY <1>2, <1>6, <2>2 DEF PutData, BtIsRxCachFull
  <2> QED BY <2>1, <2>2
<1> QED BY <1>5, <1>7

\* An event put into the ring, or kept for later.
LEMMA PutEventType ==
    ASSUME TypeOK, NEW e \in Element, PutEvent(e)
    PROVE  /\ RxCach' \in Seq(Element) /\ Len(RxCach') < MAX_RX_CACH_COUNT
           /\ delayed' \subseteq Element /\ taskletRcv' \in BOOLEAN
           /\ late' \in [Link -> BOOLEAN]
<1>1. /\ RxCach \in Seq(Element) /\ Len(RxCach) < MAX_RX_CACH_COUNT
      /\ MAX_RX_CACH_COUNT \in Nat
      /\ delayed \subseteq Element /\ taskletRcv \in BOOLEAN /\ late \in [Link -> BOOLEAN]
  BY RxPathAssumption DEF TypeOK
<1>2. CASE BtIsRxCachFull
  BY <1>1, <1>2 DEF PutEvent
<1>3. CASE ~BtIsRxCachFull
  BY <1>1, <1>3 DEF PutEvent, BtIsRxCachFull
<1> QED BY <1>2, <1>3

\* A frame becomes a task.
LEMMA CreateType ==
    ASSUME TypeOK, NEW f \in Frame, NEW event \in {"RX_INT", "RX_LMP", "RX_FHS"},
           Task_CreateTask(event, f)
    PROVE  tasks' \in Seq(Task)
<1>1. [event |-> event, frame |-> f] \in Task
  BY DEF Task
<1> QED BY <1>1 DEF TypeOK, Task_CreateTask

\* What is left of a transfer.
LEMMA RoomType == ASSUME TypeOK, usb.room > 0 PROVE usb.room - 1 \in 0..MaxBurst
<1>1. usb.room \in 0..MaxBurst
  BY DEF TypeOK
<1> QED BY <1>1, RxPathAssumption

\* What the devices do.
LEMMA CardType ==
    ASSUME TypeOK, NEW f \in Frame, CardSends(f)
    PROVE  /\ air' \in [Link -> [phase : {"away", "paging", "paged", "open", "closed"},
                                 call : 0..MaxCalls, polls : 0..MaxPolls]]
           /\ sent' \in [Link -> Nat]
<1>1. f.link \in Link /\ f.n \in Nat
  BY DEF Frame
<1>2. /\ air[f.link] \in [phase : {"away", "paging", "paged", "open", "closed"},
                          call : 0..MaxCalls, polls : 0..MaxPolls]
      /\ MaxPolls \in Nat
  BY <1>1, RxPathAssumption DEF TypeOK
<1>3. CASE f.kind = "POLL"
  <2>1. air[f.link].polls + 1 \in 0..MaxPolls
    BY <1>2, <1>3 DEF CardSends
  <2>2. [phase |-> "paged", call |-> air[f.link].call, polls |-> air[f.link].polls + 1]
          \in [phase : {"away", "paging", "paged", "open", "closed"},
               call : 0..MaxCalls, polls : 0..MaxPolls]
    BY <1>2, <2>1
  <2>3. /\ air' = [air EXCEPT ![f.link] = [phase |-> "paged", call |-> air[f.link].call,
                                           polls |-> air[f.link].polls + 1]]
        /\ UNCHANGED sent
    BY <1>3 DEF CardSends
  <2> QED BY <1>1, <2>2, <2>3 DEF TypeOK
<1>4. CASE f.kind = "SETUP"
  <2>1. air' = [air EXCEPT ![f.link].phase = "open"] /\ UNCHANGED sent
    BY <1>4 DEF CardSends
  <2> QED BY <1>1, <1>2, <2>1 DEF TypeOK
<1>5. CASE f.kind = "DATA"
  BY <1>1, <1>5 DEF TypeOK, CardSends
<1> QED BY <1>3, <1>4, <1>5 DEF CardSends

\* A device pages.
LEMMA PageType == ASSUME TypeOK, NEW l \in Link, Page(l) PROVE TypeOK'
<1>1. air[l].call \in 0..MaxCalls /\ MaxCalls \in Nat /\ MaxPolls \in Nat
  BY RxPathAssumption DEF TypeOK
<1>2. [phase |-> "paging", call |-> air[l].call + 1, polls |-> 0]
        \in [phase : {"away", "paging", "paged", "open", "closed"},
             call : 0..MaxCalls, polls : 0..MaxPolls]
  BY <1>1 DEF Page
<1>3. air' \in [Link -> [phase : {"away", "paging", "paged", "open", "closed"},
                        call : 0..MaxCalls, polls : 0..MaxPolls]]
  BY <1>2 DEF TypeOK, Page
<1> QED BY <1>3 DEF TypeOK, Page

\* A frame of a transfer that came in the state CONNECTED.
LEMMA NewType ==
    ASSUME TypeOK, NEW f \in Frame, BtProcessRx_New(f) PROVE TypeOK'
<1>1. /\ air' \in [Link -> [phase : {"away", "paging", "paged", "open", "closed"},
                            call : 0..MaxCalls, polls : 0..MaxPolls]]
      /\ sent' \in [Link -> Nat]
  BY CardType DEF BtProcessRx_New
<1>2. usb.room - 1 \in 0..MaxBurst
  BY RoomType DEF BtProcessRx_New
<1>3. CASE f.kind = "POLL"
  <2>1. BtProcessRxPoolFrame(f) /\ UNCHANGED << RxCach, sched_list >>
    BY <1>3 DEF BtProcessRx_New
  <2>2. CASE slave[f.link].there
    BY <1>1, <1>2, <2>1, <2>2 DEF TypeOK, BtProcessRx_New, BtProcessRxPoolFrame
  <2>3. CASE ~slave[f.link].there
    <3>1. tasks' \in Seq(Task)
      BY <2>1, <2>3, CreateType DEF BtProcessRxPoolFrame
    <3>2. /\ usb' = [usb EXCEPT !.room = @ - 1, !.polled = TRUE]
          /\ RxState' = "CONNECTING" /\ RxPacketNum' = 1
      BY <2>1, <2>3 DEF BtProcessRxPoolFrame
    <3>3. usb' \in [mode : {"none", "CONNECTED", "CONNECTING"}, room : 0..MaxBurst,
                    stop : BOOLEAN, polled : BOOLEAN, submit : BOOLEAN]
      BY <1>2, <3>2 DEF TypeOK
    <3> QED BY <1>1, <2>1, <3>1, <3>2, <3>3 DEF TypeOK, BtProcessRx_New
  <2> QED BY <2>2, <2>3
<1>4. CASE f.kind = "SETUP"
  <2>1. tasks' \in Seq(Task)
    BY <1>4, CreateType DEF BtProcessRx_New
  <2> QED BY <1>1, <1>2, <1>4, <2>1 DEF TypeOK, BtProcessRx_New
<1>5. CASE f.kind = "DATA"
  <2>1. /\ RxCach' \in Seq(Element) /\ Len(RxCach') < MAX_RX_CACH_COUNT
        /\ sched_list' \in Seq(Short)
    BY <1>5, PutDataType DEF BtProcessRx_New
  <2> QED BY <1>1, <1>2, <1>5, <2>1 DEF TypeOK, BtProcessRx_New, Short
<1> QED BY <1>3, <1>4, <1>5 DEF BtProcessRx_New

\* A frame of a transfer that came in the state CONNECTING.
LEMMA PreType ==
    ASSUME TypeOK, NEW f \in Frame, BtPreProcessPacket(f) PROVE TypeOK'
<1>1. /\ air' \in [Link -> [phase : {"away", "paging", "paged", "open", "closed"},
                            call : 0..MaxCalls, polls : 0..MaxPolls]]
      /\ sent' \in [Link -> Nat]
  BY CardType DEF BtPreProcessPacket
<1>2. usb.room - 1 \in 0..MaxBurst
  BY RoomType DEF BtPreProcessPacket
<1>3. f.link \in Link /\ RxPacketNum + 1 \in Nat
  BY DEF Frame, TypeOK
<1>4. CASE f.kind # "DATA"
  <2>1. tasks' \in Seq(Task)
    BY <1>4, CreateType DEF BtPreProcessPacket
  <2> QED BY <1>1, <1>2, <1>3, <1>4, <2>1 DEF TypeOK, BtPreProcessPacket
<1>5. CASE f.kind = "DATA" /\ slave[f.link].there /\ ~TooManyHidData(f)
  <2>1. tasks' \in Seq(Task)
    BY <1>5, CreateType DEF BtPreProcessPacket
  <2>2. sched_list' \in Seq(Short)
    <3>1. Asked(sched_list, "STOP", f.link) \in Seq(Short)
      BY <1>3, AskedType
    <3>2. sched_list \in Seq(Short)
      BY DEF TypeOK, Short
    <3> QED BY <1>5, <3>1, <3>2 DEF BtPreProcessPacket, Sched_SendAclNullStopFrame
  <2>3. slave' \in [Link -> Entry]
    <3>1. slave \in [Link -> Entry] /\ slave[f.link] \in Entry
      BY <1>3 DEF TypeOK, Entry
    <3>2. f.link \in Hid /\ slave[f.link].state = 0 => slave[f.link].allowed + 1 \in 0..HidLimit+1
      BY <1>5, <3>1, RxPathAssumption DEF TooManyHidData, Entry
    <3> QED BY <1>3, <1>5, <3>1, <3>2 DEF BtPreProcessPacket, CountHidData, Entry
  <2> QED BY <1>1, <1>2, <1>3, <1>5, <2>1, <2>2, <2>3 DEF TypeOK, BtPreProcessPacket, Short, Entry
<1>6. CASE f.kind = "DATA" /\ (~slave[f.link].there \/ TooManyHidData(f))
  BY <1>1, <1>2, <1>3, <1>6 DEF TypeOK, BtPreProcessPacket
<1> QED BY <1>4, <1>5, <1>6 DEF BtPreProcessPacket

\* The frame the card delivers, as Receive names it.
LEMMA ReceiveFrame ==
    ASSUME TypeOK, NEW l \in Link, NEW kind \in {"POLL", "SETUP", "DATA"}, air[l].call > 0
    PROVE  [kind |-> kind, link |-> l, call |-> air[l].call,
            n |-> IF kind = "DATA" THEN sent[l] + 1 ELSE 0] \in Frame
<1>1. air[l].call \in 0..MaxCalls /\ sent[l] \in Nat
  BY DEF TypeOK
<1>2. air[l].call \in 1..MaxCalls
  BY <1>1, RxPathAssumption
<1> QED BY <1>1, <1>2 DEF Frame

\* What the worker does with a frame that adds a link.
LEMMA PoolType ==
    ASSUME TypeOK, NEW f \in Frame, BtTaskProcessRxPoolFrame(f)
    PROVE  slave' \in [Link -> Entry] /\ late' \in [Link -> BOOLEAN]
<1>1. f.link \in Link /\ f.call \in 1..MaxCalls
  BY DEF Frame
<1>2. slave \in [Link -> Entry] /\ late \in [Link -> BOOLEAN]
  BY DEF TypeOK, Entry
<1>3. [Absent EXCEPT !.there = TRUE, !.call = f.call, !.timer = SetupTicks] \in Entry
  <2>1. Absent \in Entry /\ SetupTicks \in 0..SetupTicks+ConnectedTicks
    BY RxPathAssumption DEF Absent, Entry
  <2> QED BY <1>1, <2>1, EntryChanged
<1>4. CASE slave[f.link].there
  BY <1>2, <1>4 DEF BtTaskProcessRxPoolFrame
<1>5. CASE ~slave[f.link].there
  BY <1>1, <1>2, <1>3, <1>5 DEF BtTaskProcessRxPoolFrame
<1> QED BY <1>4, <1>5

\* What the worker does with the PDU that completes a set-up.
LEMMA SetupType ==
    ASSUME TypeOK, NEW f \in Frame, LMP_setup_complete(f)
    PROVE  /\ slave' \in [Link -> Entry]
           /\ RxCach' \in Seq(Element) /\ Len(RxCach') < MAX_RX_CACH_COUNT
           /\ delayed' \subseteq Element /\ taskletRcv' \in BOOLEAN
           /\ late' \in [Link -> BOOLEAN]
<1>1. f.link \in Link
  BY DEF Frame
<1>2. slave \in [Link -> Entry] /\ slave[f.link] \in Entry
  BY <1>1 DEF TypeOK, Entry
<1>3. CASE slave[f.link].there /\ ~slave[f.link].setup
  <2> DEFINE e == [what |-> "COMPLETE", link |-> f.link, call |-> slave[f.link].call, n |-> 0]
  <2>1. e \in Element
    BY <1>1, <1>2 DEF Element, Entry
  <2>2. PutEvent(e) /\ Hci_SlaveConnected(f.link)
    BY <1>3 DEF LMP_setup_complete
  <2> HIDE DEF e
  <2>3. slave' \in [Link -> Entry]
    <3>1. ConnectedTicks \in 0..SetupTicks+ConnectedTicks /\ 0 \in 0..SetupTicks+ConnectedTicks
      BY RxPathAssumption
    <3> DEFINE t == IF slave[f.link].timer > 0 THEN ConnectedTicks ELSE 0
               n == IF slave[f.link].timer > 0 THEN 0 ELSE slave[f.link].state
    <3>2. slave' = [slave EXCEPT ![f.link] = [slave[f.link] EXCEPT !.setup = TRUE,
                      !.timer = t, !.state = n]]
      BY <2>2, <1>2 DEF Hci_SlaveConnected
    <3>3. t \in 0..SetupTicks+ConnectedTicks /\ n \in 0..1
      BY <1>2, <3>1, EntryFields
    <3> HIDE DEF t, n
    <3>4. [slave[f.link] EXCEPT !.setup = TRUE, !.timer = t, !.state = n] \in Entry
      BY <1>2, <3>3, EntryChanged
    <3> QED BY <1>1, <1>2, <3>2, <3>4
  <2> QED BY <2>1, <2>2, <2>3, PutEventType
<1>4. CASE ~(slave[f.link].there /\ ~slave[f.link].setup)
  BY <1>2, <1>4 DEF LMP_setup_complete, TypeOK
<1> QED BY <1>3, <1>4

\* The worker takes a task.
LEMMA TaskType == ASSUME TypeOK, Task_ThreadRoutine PROVE TypeOK'
<1> DEFINE t == Head(tasks)
<1>1. t \in Task /\ tasks' \in Seq(Task)
  BY DEF TypeOK, Task_ThreadRoutine
<1>2. worker' \in [pc : {"idle", "count", "check", "change", "delete"}, link : Link]
  BY DEF TypeOK, Task_ThreadRoutine
<1>3. UNCHANGED << air, sent, usb, RxState, RxPacketNum, host >>
  BY DEF Task_ThreadRoutine
<1>4. \/ t.event = "RX_INT" /\ BtTaskProcessRx(t.frame)
      \/ t.event = "RX_FHS" /\ BtTaskProcessRxPoolFrame(t.frame)
      \/ t.event = "RX_LMP" /\ LMP_setup_complete(t.frame)
      \/ t.event = "SEND" /\ PutEvent(t.frame) /\ UNCHANGED << slave, sched_list >>
  BY DEF Task_ThreadRoutine
<1> HIDE DEF t
<1>5. t.event = "SEND" => t.frame \in Element
  BY <1>1 DEF Task
<1>6. t.event # "SEND" => t.frame \in Frame
  BY <1>1 DEF Task
<1>7. /\ slave' \in [Link -> Entry] /\ late' \in [Link -> BOOLEAN]
      /\ RxCach' \in Seq(Element) /\ Len(RxCach') < MAX_RX_CACH_COUNT
      /\ delayed' \subseteq Element /\ taskletRcv' \in BOOLEAN
      /\ sched_list' \in Seq(Short)
  <2>1. CASE t.event # "SEND" /\ BtTaskProcessRxPoolFrame(t.frame)
    BY <1>6, <2>1, PoolType DEF BtTaskProcessRxPoolFrame, TypeOK, Short
  <2>2. CASE t.event # "SEND" /\ LMP_setup_complete(t.frame)
    BY <1>6, <2>2, SetupType DEF LMP_setup_complete, TypeOK, Short
  <2>3. CASE /\ t.event # "SEND" /\ t.frame.kind = "DATA" /\ PutData(t.frame)
             /\ taskletRcv' = TRUE /\ UNCHANGED << delayed, late, slave >>
    BY <1>6, <2>3, PutDataType DEF TypeOK, Entry
  <2>4. CASE t.event = "SEND" /\ PutEvent(t.frame) /\ UNCHANGED << slave, sched_list >>
    BY <1>5, <2>4, PutEventType DEF TypeOK, Entry, Short
  <2> QED BY <1>4, <2>1, <2>2, <2>3, <2>4 DEF BtTaskProcessRx
<1> QED BY <1>1, <1>2, <1>3, <1>7 DEF TypeOK, Entry, Short

\* A link is deleted.
LEMMA DeleteType == ASSUME TypeOK, Hci_Del_Slave_Connect_Device PROVE TypeOK'
<1>1. worker.link \in Link /\ Absent \in Entry
  BY RxPathAssumption DEF TypeOK, Absent, Entry
<1>2. slave' \in [Link -> Entry]
  BY <1>1 DEF TypeOK, Hci_Del_Slave_Connect_Device, Entry
<1>3. air' \in [Link -> [phase : {"away", "paging", "paged", "open", "closed"},
                        call : 0..MaxCalls, polls : 0..MaxPolls]]
  <2> DEFINE p == IF air[worker.link].phase = "open" THEN "closed" ELSE "away"
  <2>1. air' = [air EXCEPT ![worker.link].phase = p]
    BY DEF Hci_Del_Slave_Connect_Device
  <2>2. p \in {"away", "paging", "paged", "open", "closed"}
    OBVIOUS
  <2> HIDE DEF p
  <2>3. [air[worker.link] EXCEPT !.phase = p]
          \in [phase : {"away", "paging", "paged", "open", "closed"},
               call : 0..MaxCalls, polls : 0..MaxPolls]
    <3>1. air[worker.link] \in [phase : {"away", "paging", "paged", "open", "closed"},
                                call : 0..MaxCalls, polls : 0..MaxPolls]
      BY <1>1 DEF TypeOK
    <3> QED BY <2>2, <3>1
  <2>4. air' = [air EXCEPT ![worker.link] = [air[worker.link] EXCEPT !.phase = p]]
    BY <2>1
  <2> QED BY <1>1, <2>3, <2>4 DEF TypeOK
<1> QED BY <1>2, <1>3 DEF TypeOK, Hci_Del_Slave_Connect_Device, Entry

\* A link is to be deleted, and the host told.
LEMMA DisconnectType == ASSUME TypeOK, NEW l \in Link, SendDisconnection(l) PROVE TypeOK'
<1>1. slave[l] \in Entry
  BY DEF TypeOK, Entry
<1>2. [what |-> "GONE", link |-> l, call |-> slave[l].call, n |-> 0] \in Element
  BY <1>1 DEF Entry, Element
<1>3. /\ RxCach' \in Seq(Element) /\ Len(RxCach') < MAX_RX_CACH_COUNT
      /\ delayed' \subseteq Element /\ taskletRcv' \in BOOLEAN
      /\ late' \in [Link -> BOOLEAN]
  <2>1. CASE slave[l].setup
    BY <1>2, <2>1, PutEventType DEF SendDisconnection
  <2>2. CASE ~slave[l].setup
    BY <2>2 DEF SendDisconnection, TypeOK
  <2> QED BY <2>1, <2>2
<1> QED BY <1>3 DEF TypeOK, SendDisconnection

\* A delayed task comes back.
LEMMA DelayType == ASSUME TypeOK, DelayOver PROVE TypeOK'
<1>1. PICK e \in delayed : /\ delayed' = delayed \ {e}
                           /\ tasks' = Append(tasks, [event |-> "SEND", frame |-> e])
  BY DEF DelayOver
<1>2. [event |-> "SEND", frame |-> e] \in Task
  BY <1>1 DEF TypeOK, Task
<1>3. tasks' \in Seq(Task)
  BY <1>1, <1>2 DEF TypeOK
<1> QED BY <1>1, <1>3 DEF TypeOK, DelayOver

\* The timers of the slave links.
LEMMA TimeOutType == ASSUME TypeOK, Hci_SlaveConnectionTimeOut PROVE TypeOK'
<1>1. slave \in [Link -> Entry]
  BY DEF TypeOK, Entry
<1>2. ASSUME NEW l \in Link, slave[l].timer # 0
      PROVE  [slave[l] EXCEPT !.timer = @ - 1,
                              !.state = IF slave[l].timer = 1 THEN 1 ELSE @] \in Entry
  <2>1. slave[l] \in Entry /\ slave[l].timer \in 0..SetupTicks+ConnectedTicks
    BY <1>1 DEF Entry
  <2>2. slave[l].timer - 1 \in 0..SetupTicks+ConnectedTicks
    BY <1>2, <2>1, RxPathAssumption
  <2> DEFINE n == IF slave[l].timer = 1 THEN 1 ELSE slave[l].state
             k == slave[l].timer - 1
  <2>3. n \in 0..1 /\ k \in 0..SetupTicks+ConnectedTicks
    BY <2>1, <2>2, EntryFields
  <2>4. [slave[l] EXCEPT !.timer = @ - 1,
                         !.state = IF slave[l].timer = 1 THEN 1 ELSE @]
          = [slave[l] EXCEPT !.timer = k, !.state = n]
    OBVIOUS
  <2> HIDE DEF n, k
  <2> QED BY <2>1, <2>3, <2>4, EntryChanged
<1>3. slave' \in [Link -> Entry]
  BY <1>1, <1>2 DEF Hci_SlaveConnectionTimeOut
<1>4. late' \in [Link -> BOOLEAN]
  BY DEF TypeOK, Hci_SlaveConnectionTimeOut
<1> QED BY <1>3, <1>4 DEF TypeOK, Hci_SlaveConnectionTimeOut, Entry

\* The scheduler sends a STOP or a CONTINUE.
LEMMA ExcuteType == ASSUME TypeOK, Sched_Excute PROVE TypeOK'
<1>1. sched_list \in Seq(Short) /\ slave \in [Link -> Entry]
  BY DEF TypeOK, Short, Entry
<1>2. Head(sched_list) \in Short /\ sched_list' \in Seq(Short)
  BY <1>1 DEF Sched_Excute
<1> DEFINE b == Head(sched_list)
<1>3. b.link \in Link
  BY <1>2 DEF Short
<1> DEFINE a == b.event = "STOP"
<1>4. slave' = [slave EXCEPT ![b.link] = [slave[b.link] EXCEPT !.flow = a]] \/ slave' = slave
  BY DEF Sched_Excute
<1>5. a \in BOOLEAN
  OBVIOUS
<1> HIDE DEF b, a
<1>6. [slave[b.link] EXCEPT !.flow = a] \in Entry
  <2>1. slave[b.link] \in Entry
    BY <1>1, <1>3
  <2> QED BY <1>5, <2>1, EntryChanged
<1>7. slave' \in [Link -> Entry]
  BY <1>1, <1>3, <1>4, <1>6
<1> QED BY <1>2, <1>7 DEF TypeOK, Sched_Excute, Short, Entry

\* The tasklet takes an element of the ring.
LEMMA RcvType == ASSUME TypeOK, BtProcessRx_skb PROVE TypeOK'
<1>1. CASE RxCach = << >>
  BY <1>1 DEF TypeOK, BtProcessRx_skb
<1>2. CASE RxCach # << >>
  <2> DEFINE e == Head(RxCach)
  <2>1. e \in Element /\ RxCach' \in Seq(Element) /\ Len(RxCach') < MAX_RX_CACH_COUNT
    <3>1. RxCach \in Seq(Element) /\ Len(RxCach) < MAX_RX_CACH_COUNT /\ RxCach' = Tail(RxCach)
      BY <1>2 DEF TypeOK, BtProcessRx_skb
    <3>2. Len(Tail(RxCach)) < MAX_RX_CACH_COUNT
      BY <1>2, <3>1, RxPathAssumption
    <3> QED BY <1>2, <3>1, <3>2
  <2>2. \/ UNCHANGED << host, sched_list >>
        \/ HandUp(e) /\ sched_list' = IF slave[e.link].flow
                                      THEN Asked(sched_list, "CONTINUE", e.link)
                                      ELSE sched_list
        \/ HandUp(e) /\ UNCHANGED sched_list
    BY <1>2 DEF BtProcessRx_skb
  <2> HIDE DEF e
  <2>3. e.link \in Link /\ e.call \in 0..MaxCalls /\ e.n \in Nat
        /\ e.what \in {"DATA", "COMPLETE", "GONE"}
    BY <2>1, RxPathAssumption DEF Element
  <2>4. sched_list' \in Seq(Short)
    <3>1. sched_list \in Seq(Short)
      BY DEF TypeOK, Short
    <3>2. Asked(sched_list, "CONTINUE", e.link) \in Seq(Short)
      BY <2>3, AskedType
    <3> QED BY <2>2, <3>1, <3>2
  <2>5. host' \in [Link -> [open : BOOLEAN, call : 0..MaxCalls, n : Nat]]
    <3>1. host \in [Link -> [open : BOOLEAN, call : 0..MaxCalls, n : Nat]]
      BY DEF TypeOK
    <3>2. CASE HandUp(e)
      BY <2>3, <3>1, <3>2 DEF HandUp
    <3> QED BY <2>2, <3>1, <3>2
  <2> QED BY <1>2, <2>1, <2>4, <2>5 DEF TypeOK, BtProcessRx_skb, Short
<1> QED BY <1>1, <1>2

\* The initial state is well typed.
LEMMA InitType == Init => TypeOK
<1> SUFFICES ASSUME Init PROVE TypeOK
  OBVIOUS
<1>1. (CHOOSE l \in Link : TRUE) \in Link
  BY RxPathAssumption
<1>2. Absent \in Entry
  BY RxPathAssumption DEF Absent, Entry
<1>3. [Absent EXCEPT !.there = TRUE, !.setup = TRUE, !.state = 1] \in Entry
  <2>1. \A a \in BOOLEAN, w \in BOOLEAN, n \in 0..1 :
          [Absent EXCEPT !.there = a, !.setup = w, !.state = n] \in Entry
    BY <1>2, EntryChanged
  <2>2. TRUE \in BOOLEAN /\ 1 \in 0..1
    OBVIOUS
  <2> QED BY <2>1, <2>2, Zenon
<1>4. slave \in [Link -> Entry]
  BY <1>2, <1>3 DEF Init
<1>5. worker \in [pc : {"idle", "count", "check", "change", "delete"}, link : Link]
  BY <1>1 DEF Init
<1>6. air \in [Link -> [phase : {"away", "paging", "paged", "open", "closed"},
                        call : 0..MaxCalls, polls : 0..MaxPolls]]
  BY RxPathAssumption DEF Init
<1>7. host \in [Link -> [open : BOOLEAN, call : 0..MaxCalls, n : Nat]]
  BY RxPathAssumption DEF Init
<1>8. /\ usb \in [mode : {"none", "CONNECTED", "CONNECTING"}, room : 0..MaxBurst,
                  stop : BOOLEAN, polled : BOOLEAN, submit : BOOLEAN]
      /\ Len(RxCach) < MAX_RX_CACH_COUNT
  BY RxPathAssumption DEF Init, NoTransfer
<1>9. /\ sent \in [Link -> Nat] /\ late \in [Link -> BOOLEAN]
      /\ tasks \in Seq(Task) /\ RxCach \in Seq(Element)
      /\ sched_list \in Seq([event : {"STOP", "CONTINUE"}, link : Link])
  BY DEF Init
<1> QED BY <1>4, <1>5, <1>6, <1>7, <1>8, <1>9 DEF Init, TypeOK, Entry

(***************************************************************************)
(* The count.  A transfer that came in the state CONNECTED may find the    *)
(* state changed only by a poll of its own, and it has one such poll.      *)
(***************************************************************************)
Counting == { t \in Task : t.event \in {"RX_INT", "RX_FHS"} }
Busy == IF worker.pc = "count" THEN 1 ELSE 0
Exact == RxPacketNum = Times(tasks, Counting) + Busy
Modes == /\ usb.mode = "CONNECTING" => RxState = "CONNECTING"
         /\ usb.mode = "CONNECTED" => RxState = "CONNECTED" \/ usb.polled
         /\ RxState = "CONNECTED" => RxPacketNum = 0

\* The tasks counted are those of the sequence lemmas.
LEMMA ExactCount == ASSUME TypeOK, Exact, Modes PROVE CountIsExact
<1>1. {i \in 1..Len(tasks) : tasks[i].event \in {"RX_INT", "RX_FHS"}} = At(tasks, Counting)
  BY DEF At, Counting, TypeOK
<1> QED BY <1>1 DEF Exact, Modes, CountIsExact, Unfinished, Times, Busy

\* A task created is counted, or not.
LEMMA Created ==
    ASSUME TypeOK, NEW f \in Frame, NEW event \in {"RX_INT", "RX_LMP", "RX_FHS"},
           Task_CreateTask(event, f)
    PROVE  /\ Times(tasks, Counting) \in Nat
           /\ Times(tasks', Counting)
                = Times(tasks, Counting) + (IF event = "RX_LMP" THEN 0 ELSE 1)
<1> DEFINE t == [event |-> event, frame |-> f]
<1>1. tasks \in Seq(Task) /\ t \in Task /\ tasks' = Append(tasks, t)
  BY DEF TypeOK, Task, Task_CreateTask
<1>2. One(t, Counting) = IF event = "RX_LMP" THEN 0 ELSE 1
  BY <1>1 DEF One, Counting
<1> HIDE DEF t
<1>3. Times(tasks', Counting) = Times(tasks, Counting) + One(t, Counting)
  BY <1>1, TimesAppend
<1> QED BY <1>1, <1>2, <1>3, TimesType

\* A frame of a transfer that came in the state CONNECTED: only its poll is counted.
LEMMA NewCount ==
    ASSUME TypeOK, Exact, Modes, NEW f \in Frame, BtProcessRx_New(f) PROVE Exact' /\ Modes'
<1>1. usb.mode = "CONNECTED" /\ worker' = worker /\ Busy' = Busy /\ Busy \in Nat
  BY DEF BtProcessRx_New, Busy
<1>2. usb'.mode = usb.mode /\ (usb'.polled = usb.polled \/ usb'.polled)
  BY DEF BtProcessRx_New, BtProcessRxPoolFrame, TypeOK
<1>3. CASE f.kind = "POLL"
  <2>1. BtProcessRxPoolFrame(f) /\ ~usb.polled
    BY <1>3 DEF BtProcessRx_New, CardSends
  <2>2. CASE slave[f.link].there
    BY <1>1, <1>2, <2>1, <2>2 DEF BtProcessRxPoolFrame, Exact, Modes
  <2>3. CASE ~slave[f.link].there
    <3>1. /\ Task_CreateTask("RX_FHS", f) /\ RxState' = "CONNECTING" /\ RxPacketNum' = 1
          /\ usb'.polled
      BY <2>1, <2>3 DEF BtProcessRxPoolFrame, TypeOK
    <3>2. RxPacketNum = 0
      BY <1>1, <2>1 DEF Modes
    <3>3. Times(tasks, Counting) \in Nat /\ Times(tasks', Counting) = Times(tasks, Counting) + 1
      BY <3>1, Created
    <3> QED BY <1>1, <1>2, <3>1, <3>2, <3>3 DEF Exact, Modes
  <2> QED BY <2>2, <2>3
<1>4. CASE f.kind = "SETUP"
  <2>1. Task_CreateTask("RX_LMP", f) /\ UNCHANGED << RxState, RxPacketNum >>
    BY <1>4 DEF BtProcessRx_New
  <2>2. Times(tasks', Counting) = Times(tasks, Counting)
    BY <2>1, Created
  <2> QED BY <1>1, <1>2, <2>1, <2>2 DEF Exact, Modes
<1>5. CASE f.kind = "DATA"
  BY <1>1, <1>2, <1>5 DEF BtProcessRx_New, Exact, Modes
<1> QED BY <1>3, <1>4, <1>5 DEF BtProcessRx_New

\* A frame of a transfer that came in the state CONNECTING is counted, or dropped.
LEMMA PreCount ==
    ASSUME TypeOK, Exact, Modes, NEW f \in Frame, BtPreProcessPacket(f) PROVE Exact' /\ Modes'
<1>1. /\ usb.mode = "CONNECTING" /\ Busy' = Busy /\ Busy \in Nat /\ RxState' = RxState
      /\ RxState = "CONNECTING"
  BY DEF BtPreProcessPacket, Busy, Modes
<1>2. usb'.mode = usb.mode
  BY DEF BtPreProcessPacket, TypeOK
<1>3. CASE UNCHANGED << tasks, RxPacketNum >>
  BY <1>1, <1>2, <1>3 DEF Exact, Modes
<1>4. CASE Task_CreateTask("RX_INT", f) /\ RxPacketNum' = RxPacketNum + 1
  <2>1. Times(tasks, Counting) \in Nat /\ Times(tasks', Counting) = Times(tasks, Counting) + 1
    BY <1>4, Created
  <2> QED BY <1>1, <1>2, <1>4, <2>1 DEF Exact, Modes
<1> QED BY <1>3, <1>4 DEF BtPreProcessPacket

\* The task taken is counted off later.
LEMMA TaskCount ==
    ASSUME TypeOK, Exact, Modes, Task_ThreadRoutine PROVE Exact' /\ Modes'
<1> DEFINE t == Head(tasks)
<1>1. /\ tasks \in Seq(Task) /\ tasks # << >> /\ tasks' = Tail(tasks) /\ t \in Task
      /\ Busy = 0 /\ UNCHANGED << usb, RxState, RxPacketNum >>
  BY DEF TypeOK, Task_ThreadRoutine, WorkerFree, Busy
<1>2. worker' = [worker EXCEPT !.pc = IF t.event \in {"RX_INT", "RX_FHS"} THEN "count" ELSE "idle"]
  BY DEF Task_ThreadRoutine
<1>3. Busy' = One(t, Counting)
  BY <1>1, <1>2 DEF TypeOK, Busy, One, Counting
<1>4. Times(tasks, Counting) = Times(Tail(tasks), Counting) + One(t, Counting)
  BY <1>1, TimesTail
<1>5. Times(Tail(tasks), Counting) \in Nat /\ One(t, Counting) \in Nat
  <2>1. Tail(tasks) \in Seq(Task)
    BY <1>1
  <2>2. Times(Tail(tasks), Counting) \in Nat
    BY <2>1, TimesType
  <2> QED BY <2>2 DEF One
<1> HIDE DEF t
<1> QED BY <1>1, <1>3, <1>4, <1>5 DEF Exact, Modes

\* A task counted is one less.
LEMMA CountedOff == ASSUME TypeOK, Exact, Modes, CountTask PROVE TypeOK' /\ Exact' /\ Modes'
<1>1. Times(tasks, Counting) \in Nat
  BY TimesType DEF TypeOK
<1>2. Busy = 1 /\ Busy' = 0
  BY DEF CountTask, Busy, TypeOK
<1>3. RxPacketNum' \in Nat
  BY <1>1, <1>2 DEF Exact, CountTask
<1>4. Exact'
  BY <1>1, <1>2 DEF Exact, CountTask
<1>5. Modes'
  BY <1>1, <1>2 DEF Exact, Modes, CountTask
<1>6. worker' \in [pc : {"idle", "count", "check", "change", "delete"}, link : Link]
  BY DEF TypeOK, CountTask
<1> QED BY <1>3, <1>4, <1>5, <1>6 DEF TypeOK, CountTask

\* A delayed task is not counted.
LEMMA DelayCount == ASSUME TypeOK, Exact, Modes, DelayOver PROVE Exact' /\ Modes'
<1>1. PICK e \in delayed : tasks' = Append(tasks, [event |-> "SEND", frame |-> e])
  BY DEF DelayOver
<1> DEFINE t == [event |-> "SEND", frame |-> e]
<1>2. tasks \in Seq(Task) /\ t \in Task
  BY <1>1 DEF TypeOK, Task
<1>3. One(t, Counting) = 0
  BY DEF One, Counting
<1> HIDE DEF t
<1>4. Times(Append(tasks, t), Counting) = Times(tasks, Counting) + One(t, Counting)
  BY <1>2, TimesAppend
<1>5. Times(tasks, Counting) \in Nat
  BY <1>2, TimesType
<1>6. Times(tasks', Counting) = Times(tasks, Counting)
  BY <1>1, <1>3, <1>4, <1>5 DEF t
<1> QED BY <1>6 DEF DelayOver, Exact, Modes, Busy

\* Every step keeps the typing; the count of the worker needs that the counter is exact.
LEMMA NextType == TypeOK /\ Exact /\ Modes /\ [Next]_vars => TypeOK'
<1> SUFFICES ASSUME TypeOK, Exact, Modes, [Next]_vars PROVE TypeOK'
  OBVIOUS
<1>1. ASSUME usb' = NoTransfer \/ Usb_ReadCompletion
      PROVE  usb' \in [mode : {"none", "CONNECTED", "CONNECTING"}, room : 0..MaxBurst,
                       stop : BOOLEAN, polled : BOOLEAN, submit : BOOLEAN]
  <2>1. MaxBurst \in 0..MaxBurst
    BY RxPathAssumption
  <2>2. RxState \in {"none", "CONNECTED", "CONNECTING"}
    BY DEF TypeOK
  <2>3. NoTransfer \in [mode : {"none", "CONNECTED", "CONNECTING"}, room : 0..MaxBurst,
                        stop : BOOLEAN, polled : BOOLEAN, submit : BOOLEAN]
    BY <2>1 DEF NoTransfer
  <2>4. \A a \in {"none", "CONNECTED", "CONNECTING"}, b \in BOOLEAN :
          [NoTransfer EXCEPT !.mode = a, !.stop = b]
            \in [mode : {"none", "CONNECTED", "CONNECTING"}, room : 0..MaxBurst,
                 stop : BOOLEAN, polled : BOOLEAN, submit : BOOLEAN]
    BY <2>3
  <2> DEFINE b == RxState = "CONNECTING" /\ (BtIsRxCachToBeFull \/ RxPacketNum >= PendingLimit)
  <2>5. b \in BOOLEAN
    OBVIOUS
  <2>6. CASE Usb_ReadCompletion
    <3>1. usb' = [NoTransfer EXCEPT !.mode = RxState, !.stop = b]
      BY <2>6 DEF Usb_ReadCompletion
    <3> HIDE DEF b
    <3> QED BY <2>2, <2>4, <2>5, <3>1
  <2> QED BY <1>1, <2>3, <2>6
<1>2. CASE Usb_ReadCompletion
  BY <1>1, <1>2 DEF TypeOK, Usb_ReadCompletion
<1>3. CASE BtUsbSubmitReadIrp
  BY <1>1, <1>3 DEF TypeOK, BtUsbSubmitReadIrp
<1>4. ASSUME NEW l \in Link, NEW kind \in {"POLL", "SETUP", "DATA"}, air[l].call > 0,
             LET f == [kind |-> kind, link |-> l, call |-> air[l].call,
                       n |-> IF kind = "DATA" THEN sent[l] + 1 ELSE 0]
             IN  BtProcessRx_New(f) \/ BtPreProcessPacket(f)
      PROVE  TypeOK'
  BY <1>4, ReceiveFrame, NewType, PreType
<1>5. CASE Receive
  BY <1>2, <1>3, <1>4, <1>5 DEF Receive
<1>6. CASE BtCheckAndChangeRxState
  BY <1>6 DEF TypeOK, BtCheckAndChangeRxState
<1>7. CASE ChangeRxState
  BY <1>7 DEF TypeOK, ChangeRxState
<1>8. CASE Worker
  BY <1>6, <1>7, <1>8, TaskType, CountedOff, DeleteType DEF Worker
<1>9. CASE UNCHANGED vars
  BY <1>9 DEF TypeOK, vars
<1> QED
  BY <1>5, <1>8, <1>9, PageType, DisconnectType, DelayType, TimeOutType, ExcuteType, RcvType
     DEF Next

\* Every step keeps the count.
LEMMA NextCount == TypeOK /\ Exact /\ Modes /\ [Next]_vars => (Exact /\ Modes)'
<1> SUFFICES ASSUME TypeOK, Exact, Modes, [Next]_vars PROVE (Exact /\ Modes)'
  OBVIOUS
<1>1. CASE Usb_ReadCompletion
  BY <1>1 DEF TypeOK, Exact, Modes, Busy, Usb_ReadCompletion, NoTransfer
<1>2. CASE BtUsbSubmitReadIrp
  BY <1>2 DEF TypeOK, Exact, Modes, Busy, BtUsbSubmitReadIrp, NoTransfer
<1>3. ASSUME NEW l \in Link, NEW kind \in {"POLL", "SETUP", "DATA"}, air[l].call > 0,
             LET f == [kind |-> kind, link |-> l, call |-> air[l].call,
                       n |-> IF kind = "DATA" THEN sent[l] + 1 ELSE 0]
             IN  BtProcessRx_New(f) \/ BtPreProcessPacket(f)
      PROVE  (Exact /\ Modes)'
  BY <1>3, ReceiveFrame, NewCount, PreCount
<1>4. CASE Receive
  BY <1>1, <1>2, <1>3, <1>4 DEF Receive
<1>5. CASE BtCheckAndChangeRxState
  BY <1>5 DEF TypeOK, BtCheckAndChangeRxState, Exact, Modes, Busy
<1>6. CASE ChangeRxState
  BY <1>6 DEF TypeOK, ChangeRxState, Exact, Modes, Busy
<1>7. CASE Hci_Del_Slave_Connect_Device
  BY <1>7 DEF TypeOK, Hci_Del_Slave_Connect_Device, Exact, Modes, Busy
<1>8. CASE Worker
  BY <1>5, <1>6, <1>7, <1>8, TaskCount, CountedOff DEF Worker
<1>9. ASSUME NEW l \in Link, SendDisconnection(l) PROVE (Exact /\ Modes)'
  BY <1>9 DEF TypeOK, SendDisconnection, WorkerFree, Exact, Modes, Busy
<1>10. ASSUME NEW l \in Link, Page(l) PROVE (Exact /\ Modes)'
  BY <1>10 DEF Page, Exact, Modes, Busy
<1>11. CASE Hci_SlaveConnectionTimeOut \/ Sched_Excute \/ BtProcessRx_skb \/ UNCHANGED vars
  <2>1. UNCHANGED << usb, RxState, RxPacketNum, tasks, worker >>
    BY <1>11 DEF Hci_SlaveConnectionTimeOut, Sched_Excute, BtProcessRx_skb, vars
  <2> QED BY <2>1 DEF Exact, Modes, Busy
<1> QED BY <1>4, <1>8, <1>9, <1>10, <1>11, DelayCount DEF Next

\* Nothing is received yet, and nothing counted.
LEMMA InitCount == Init => Exact /\ Modes
<1> SUFFICES ASSUME Init PROVE Exact /\ Modes
  OBVIOUS
<1>1. Times(tasks, Counting) = 0
  BY TimesEmpty DEF Init
<1> QED BY <1>1 DEF Init, Exact, Modes, Busy, NoTransfer

\* Every variable of the receive path keeps its type.
THEOREM RxPathTyped == Spec => []TypeOK
<1>1. (TypeOK /\ Exact /\ Modes) /\ [Next]_vars => (TypeOK /\ Exact /\ Modes)'
  BY NextType, NextCount
<1> QED BY <1>1, InitType, InitCount, PTL DEF Spec

\* RxPacketNum is the number of counted tasks that are not finished, and in the
\* state CONNECTED there is none: data put into the ring at once overtake nothing.
THEOREM CountStaysExact == Spec => []CountIsExact
<1>1. (TypeOK /\ Exact /\ Modes) /\ [Next]_vars => (TypeOK /\ Exact /\ Modes)'
  BY NextType, NextCount
<1>2. TypeOK /\ Exact /\ Modes => CountIsExact
  BY ExactCount
<1> QED BY <1>1, <1>2, InitType, InitCount, PTL DEF Spec

(***************************************************************************)
(* The order.  The frames of a device go through the tasks and the ring,   *)
(* or at once into the ring; either way none overtakes another.            *)
(***************************************************************************)

\* What the worker does with a task of l.
IsPoll(t, l) == /\ t.frame.link = l
                /\ t.event = "RX_FHS" \/ (t.event = "RX_INT" /\ t.frame.kind = "POLL")
IsSetup(t, l) == /\ t.frame.link = l
                 /\ t.event = "RX_LMP" \/ (t.event = "RX_INT" /\ t.frame.kind = "SETUP")
IsData(t, l) == t.frame.link = l /\ t.event = "RX_INT" /\ t.frame.kind = "DATA"
Counted(t) == t.event \in {"RX_INT", "RX_FHS"}

\* What an element of the ring is for l.
IsGiven(e, l) == e.link = l /\ e.what = "DATA"
IsComplete(e, l) == e.link = l /\ e.what = "COMPLETE"

\* Whatever is under way is of the current connection, and only events are
\* put off.
CurrentOK ==
    /\ \A i \in 1..Len(RxCach) : RxCach[i].call = air[RxCach[i].link].call
    /\ \A i \in 1..Len(tasks) : /\ tasks[i].frame.call = air[tasks[i].frame.link].call
                                /\ tasks[i].event = "SEND" => tasks[i].frame.what # "DATA"
    /\ \A e \in delayed : e.call = air[e.link].call /\ e.what # "DATA"
    /\ \A l \in Link : slave[l].there => slave[l].call = air[l].call

\* The data of a device: handed up, in the ring, kept for the worker.
OrderOK ==
    \A l \in Link :
      /\ host[l].n <= sent[l]
      /\ \A i \in 1..Len(RxCach) : IsGiven(RxCach[i], l) =>
           /\ host[l].n < RxCach[i].n /\ RxCach[i].n <= sent[l]
           /\ \A j \in 1..Len(RxCach) : i < j /\ IsGiven(RxCach[j], l) => RxCach[i].n < RxCach[j].n
           /\ \A j \in 1..Len(tasks) : IsData(tasks[j], l) => RxCach[i].n < tasks[j].frame.n
      /\ \A i \in 1..Len(tasks) : IsData(tasks[i], l) =>
           /\ host[l].n < tasks[i].frame.n /\ tasks[i].frame.n <= sent[l]
           /\ \A j \in 1..Len(tasks) : i < j /\ IsData(tasks[j], l)
                                           => tasks[i].frame.n < tasks[j].frame.n

\* Set up means announced; and while data are put into the ring at once, every
\* listed link is set up, or out of time.
Announced(l, i) ==
    host[l].call = slave[l].call \/ \E k \in 1..i : IsComplete(RxCach[k], l)
AtOnce == usb.mode = "CONNECTED" \/ RxState = "CONNECTED" \/ worker.pc = "change"
LinkOK ==
    \A l \in Link : slave[l].there /\ ~late[l] =>
      /\ slave[l].state = 1 \/ AtOnce => slave[l].setup
      /\ slave[l].setup => Announced(l, Len(RxCach))
      /\ \A i \in 1..Len(RxCach) : IsGiven(RxCach[i], l) => slave[l].setup /\ Announced(l, i - 1)

\* The tasks of a device are polls, then its set-up, then data.
Passed(l) ==
    /\ slave[l].there => slave[l].setup
    /\ \A i \in 1..Len(tasks) : ~IsPoll(tasks[i], l) /\ ~IsSetup(tasks[i], l)
TaskOK ==
    \A l \in Link :
      /\ \A i \in 1..Len(tasks) : IsData(tasks[i], l) =>
           Passed(l) \/ \E k \in 1..i-1 : IsSetup(tasks[k], l)
      /\ \A i, k \in 1..Len(tasks) : i < k /\ IsSetup(tasks[i], l) =>
           ~IsPoll(tasks[k], l) /\ ~IsSetup(tasks[k], l)
      /\ air[l].phase \in {"paging", "paged"} =>
           /\ \A i \in 1..Len(tasks) : ~IsSetup(tasks[i], l) /\ ~IsData(tasks[i], l)
           /\ \A i \in 1..Len(RxCach) : ~IsGiven(RxCach[i], l)
      /\ air[l].phase \in {"open", "closed"} =>
           Passed(l) \/ \E k \in 1..Len(tasks) : IsSetup(tasks[k], l)
      /\ \A i \in 1..Len(tasks), k \in 1..Len(RxCach) :
           IsPoll(tasks[i], l) => ~IsGiven(RxCach[k], l)

\* A transfer that came in the state CONNECTED finds no task that is counted but
\* its own polls.
PollsOnly ==
    usb.mode = "CONNECTED" => \A i \in 1..Len(tasks) : Counted(tasks[i]) =>
      LET l == tasks[i].frame.link
      IN  IsPoll(tasks[i], l) /\ ~slave[l].there /\ air[l].phase = "paged"

FollowOK == CurrentOK /\ OrderOK /\ LinkOK /\ TaskOK /\ PollsOnly

\* One element more at the end, one less at the head.
Longer(q, r, x) ==
    Len(r) = Len(q) + 1 /\ r[Len(r)] = x /\ \A i \in 1..Len(q) : r[i] = q[i]
Shorter(q, r) == Len(q) = Len(r) + 1 /\ \A i \in 1..Len(r) : r[i] = q[i + 1]

LEMMA AppendLonger ==
    ASSUME NEW S, NEW q \in Seq(S), NEW x \in S
    PROVE  Longer(q, Append(q, x), x)
BY DEF Longer

LEMMA TailShorter ==
    ASSUME NEW S, NEW q \in Seq(S), q # << >>
    PROVE  Shorter(q, Tail(q)) /\ Head(q) = q[1] /\ 1 \in 1..Len(q)
BY DEF Shorter

\* The types these proofs use.
LEMMA Types ==
    ASSUME TypeOK
    PROVE  /\ tasks \in Seq(Task) /\ RxCach \in Seq(Element) /\ delayed \subseteq Element
           /\ Len(tasks) \in Nat /\ Len(RxCach) \in Nat
           /\ \A i \in 1..Len(tasks) : tasks[i] \in Task /\ tasks[i].frame.link \in Link
           /\ \A i \in 1..Len(RxCach) : RxCach[i] \in Element /\ RxCach[i].link \in Link
                                        /\ RxCach[i].n \in Nat
           /\ \A l \in Link : host[l].n \in Nat /\ sent[l] \in Nat
<1>1. /\ tasks \in Seq(Task) /\ RxCach \in Seq(Element) /\ delayed \subseteq Element
      /\ Len(tasks) \in Nat /\ Len(RxCach) \in Nat
      /\ \A l \in Link : host[l].n \in Nat /\ sent[l] \in Nat
  BY DEF TypeOK
<1>2. \A t \in Task : t.frame.link \in Link
  BY DEF Task, Frame, Element
<1>3. \A e \in Element : e.link \in Link /\ e.n \in Nat
  BY DEF Element
<1> QED BY <1>1, <1>2, <1>3

LEMMA NextLengths == ASSUME TypeOK' PROVE Len(tasks') \in Nat /\ Len(RxCach') \in Nat
<1>1. tasks' \in Seq(Task) /\ RxCach' \in Seq(Element)
  BY DEF TypeOK
<1> QED BY <1>1

\* A task with data has a number.
LEMMA DataNumber ==
    ASSUME TypeOK, NEW i \in 1..Len(tasks), NEW l, IsData(tasks[i], l)
    PROVE  tasks[i].frame.n \in Nat
<1>1. \A t \in Task : t.event = "RX_INT" => t.frame.n \in Nat
  BY DEF Task, Frame
<1> QED BY <1>1, Types DEF IsData

\* Nothing moves, and no link loses its set-up.
LEMMA RelatedOK ==
    ASSUME TypeOK, FollowOK, UNCHANGED << air, sent, tasks, RxCach, delayed, host >>,
           \A l \in Link : /\ slave'[l].there = slave[l].there /\ slave'[l].call = slave[l].call
                           /\ slave'[l].setup = slave[l].setup
                           /\ late[l] => late'[l]
                           /\ slave'[l].there /\ ~late'[l] /\ (slave'[l].state = 1 \/ AtOnce')
                                => slave'[l].setup,
           usb'.mode = "CONNECTED" => usb.mode = "CONNECTED"
                                      \/ \A i \in 1..Len(tasks) : ~Counted(tasks[i])
    PROVE  FollowOK'
<1>1. CurrentOK'
  BY DEF FollowOK, CurrentOK
<1>2. OrderOK'
  BY DEF FollowOK, OrderOK
<1>3. LinkOK'
  <2> SUFFICES ASSUME NEW l \in Link, slave'[l].there, ~late'[l]
               PROVE  /\ slave'[l].setup => Announced(l, Len(RxCach))'
                      /\ \A i \in 1..Len(RxCach) : IsGiven(RxCach[i], l)
                              => slave'[l].setup /\ Announced(l, i - 1)'
    BY DEF LinkOK
  <2>1. \A i : Announced(l, i)' <=> Announced(l, i)
    BY DEF Announced
  <2>2. slave[l].there /\ ~late[l] /\ slave'[l].setup = slave[l].setup
    OBVIOUS
  <2> QED BY <2>1, <2>2 DEF FollowOK, LinkOK
<1>4. TaskOK'
  <2>1. \A l \in Link : Passed(l)' <=> Passed(l)
    BY DEF Passed
  <2> QED BY <2>1 DEF FollowOK, TaskOK
<1>5. PollsOnly'
  BY Types DEF FollowOK, PollsOnly
<1> QED BY <1>1, <1>2, <1>3, <1>4, <1>5 DEF FollowOK

\* An event is put into the ring or put off, which makes its link late.
LEMMA EventEffect ==
    ASSUME TypeOK, NEW e \in Element, PutEvent(e)
    PROVE  \/ Longer(RxCach, RxCach', e) /\ delayed' = delayed /\ late' = late
           \/ /\ RxCach' = RxCach /\ delayed' = delayed \cup {e} /\ late'[e.link]
              /\ \A l \in Link \ {e.link} : late'[l] = late[l]
<1>1. e.link \in Link
  BY DEF Element
<1>2. CASE BtIsRxCachFull
  BY <1>1, <1>2 DEF PutEvent, TypeOK
<1>3. CASE ~BtIsRxCachFull
  <2>1. RxCach' = Append(RxCach, e) /\ delayed' = delayed /\ late' = late
    BY <1>3 DEF PutEvent
  <2>2. RxCach \in Seq(Element)
    BY DEF TypeOK
  <2>3. Longer(RxCach, Append(RxCach, e), e)
    BY <2>2, AppendLonger
  <2> QED BY <2>1, <2>3
<1> QED BY <1>2, <1>3

\* An event does not disturb the order, nor does a task that is taken.
LEMMA EventOrder ==
    ASSUME TypeOK, CurrentOK, OrderOK, UNCHANGED << air, sent, host >>,
           tasks' = tasks \/ Shorter(tasks, tasks'), TypeOK',
           NEW e \in Element, e.what # "DATA", e.call = air[e.link].call,
           PutEvent(e) \/ UNCHANGED << RxCach, delayed >>,
           \A l \in Link : slave'[l].there => slave'[l].call = air[l].call
    PROVE  CurrentOK' /\ OrderOK'
<1>1. /\ Longer(RxCach, RxCach', e) \/ RxCach' = RxCach
      /\ delayed' = delayed \/ delayed' = delayed \cup {e}
  BY EventEffect
<1>2. Len(tasks) \in Nat /\ Len(tasks') \in Nat /\ Len(RxCach) \in Nat /\ Len(RxCach') \in Nat
  BY Types, NextLengths
<1>3. \A i \in 1..Len(tasks') : \E k \in 1..Len(tasks) :
         tasks'[i] = tasks[k] /\ k = IF tasks' = tasks THEN i ELSE i + 1
  BY <1>2 DEF Shorter
<1>4. \A i \in 1..Len(RxCach') : \/ i \in 1..Len(RxCach) /\ RxCach'[i] = RxCach[i]
                                \/ RxCach'[i] = e
  BY <1>1, <1>2 DEF Longer
<1>5. CurrentOK'
  BY <1>1, <1>3, <1>4 DEF CurrentOK
<1>6. OrderOK'
  <2> SUFFICES ASSUME NEW l \in Link
               PROVE  /\ \A i \in 1..Len(RxCach') : IsGiven(RxCach'[i], l) =>
                           /\ host[l].n < RxCach'[i].n /\ RxCach'[i].n <= sent[l]
                           /\ \A j \in 1..Len(RxCach') : i < j /\ IsGiven(RxCach'[j], l)
                                                         => RxCach'[i].n < RxCach'[j].n
                           /\ \A j \in 1..Len(tasks') : IsData(tasks'[j], l)
                                                         => RxCach'[i].n < tasks'[j].frame.n
                      /\ \A i \in 1..Len(tasks') : IsData(tasks'[i], l) =>
                           /\ host[l].n < tasks'[i].frame.n /\ tasks'[i].frame.n <= sent[l]
                           /\ \A j \in 1..Len(tasks') : i < j /\ IsData(tasks'[j], l)
                                                         => tasks'[i].frame.n < tasks'[j].frame.n
    BY DEF OrderOK
  <2>1. ~IsGiven(e, l)
    BY DEF IsGiven
  <2>2. ASSUME NEW i \in 1..Len(RxCach'), IsGiven(RxCach'[i], l)
        PROVE  i \in 1..Len(RxCach) /\ RxCach'[i] = RxCach[i]
    BY <2>1, <2>2, <1>4
  <2>3. ASSUME NEW i \in 1..Len(RxCach'), IsGiven(RxCach'[i], l)
        PROVE  /\ host[l].n < RxCach'[i].n /\ RxCach'[i].n <= sent[l]
               /\ \A j \in 1..Len(RxCach') : i < j /\ IsGiven(RxCach'[j], l)
                                                         => RxCach'[i].n < RxCach'[j].n
               /\ \A j \in 1..Len(tasks') : IsData(tasks'[j], l)
                                                         => RxCach'[i].n < tasks'[j].frame.n
    BY <2>2, <2>3, <1>3 DEF OrderOK
  <2>4. ASSUME NEW i \in 1..Len(tasks'), IsData(tasks'[i], l)
        PROVE  /\ host[l].n < tasks'[i].frame.n /\ tasks'[i].frame.n <= sent[l]
               /\ \A j \in 1..Len(tasks') : i < j /\ IsData(tasks'[j], l)
                                                         => tasks'[i].frame.n < tasks'[j].frame.n
    BY <2>4, <1>2, <1>3 DEF OrderOK
  <2> QED BY <2>3, <2>4
<1> QED BY <1>5, <1>6

\* An event that does not come from the tasks.
LEMMA DisconnectOK ==
    ASSUME TypeOK, FollowOK, TypeOK', NEW l \in Link, SendDisconnection(l)
    PROVE  FollowOK'
<1>1. /\ UNCHANGED << air, sent, usb, RxState, tasks, slave, host >> /\ usb.mode = "none"
      /\ worker'.pc = "delete" /\ slave[l].there
  BY DEF SendDisconnection, WorkerFree
<1>2. AtOnce' => AtOnce
  BY <1>1 DEF AtOnce
<1>3. CASE ~slave[l].setup
  <2>1. UNCHANGED << RxCach, delayed, late >>
    BY <1>3 DEF SendDisconnection
  <2> QED BY <1>1, <1>2, <2>1, RelatedOK DEF FollowOK, LinkOK
<1>4. CASE slave[l].setup
  <2> DEFINE e == [what |-> "GONE", link |-> l, call |-> slave[l].call, n |-> 0]
  <2>1. PutEvent(e)
    BY <1>4 DEF SendDisconnection
  <2>2. slave[l].call \in 1..MaxCalls
    BY DEF TypeOK
  <2>3. e \in Element /\ e.what = "GONE" /\ e.link = l /\ e.call = slave[l].call
    BY <2>2 DEF Element
  <2> HIDE DEF e
  <2>4. e.call = air[e.link].call
    BY <1>1, <2>3 DEF FollowOK, CurrentOK
  <2>5. \A m \in Link : slave'[m].there => slave'[m].call = air[m].call
    BY <1>1 DEF FollowOK, CurrentOK
  <2>6. e.what # "DATA"
    BY <2>3
  <2>7. CurrentOK' /\ OrderOK'
    BY <1>1, <2>1, <2>3, <2>4, <2>5, <2>6, EventOrder DEF FollowOK
  <2>8. Len(RxCach) \in Nat /\ Len(RxCach') \in Nat
    BY Types, NextLengths
  <2>9. /\ \/ Longer(RxCach, RxCach', e)
           \/ RxCach' = RxCach
        /\ \A m \in Link : late[m] => late'[m]
    BY <2>1, <2>3, EventEffect
  <2>10. /\ Len(RxCach) <= Len(RxCach')
         /\ \A i \in 1..Len(RxCach) : i \in 1..Len(RxCach') /\ RxCach'[i] = RxCach[i]
         /\ \A m \in Link, i \in 1..Len(RxCach') : IsGiven(RxCach'[i], m) =>
               i \in 1..Len(RxCach) /\ RxCach'[i] = RxCach[i]
    BY <2>3, <2>8, <2>9 DEF Longer, IsGiven
  <2>11. LinkOK'
    <3> SUFFICES ASSUME NEW m \in Link, slave[m].there, ~late'[m]
                 PROVE  /\ slave[m].state = 1 \/ AtOnce' => slave[m].setup
                        /\ slave[m].setup => Announced(m, Len(RxCach))'
                        /\ \A i \in 1..Len(RxCach') : IsGiven(RxCach'[i], m)
                                => slave[m].setup /\ Announced(m, i - 1)'
      BY <1>1 DEF LinkOK
    <3>1. ~late[m]
      BY <2>9
    <3>2. \A i \in 0..Len(RxCach) : Announced(m, i) => Announced(m, i)' /\ Announced(m, Len(RxCach))'
      BY <1>1, <2>8, <2>10 DEF Announced
    <3>3. \A i \in 1..Len(RxCach) : i - 1 \in 0..Len(RxCach)
      BY <2>8
    <3>4. Len(RxCach) \in 0..Len(RxCach)
      BY <2>8
    <3> QED BY <1>2, <2>10, <3>1, <3>2, <3>3, <3>4 DEF FollowOK, LinkOK
  <2>12. TaskOK'
    <3>1. \A m \in Link : Passed(m)' <=> Passed(m)
      BY <1>1 DEF Passed
    <3> QED BY <1>1, <2>10, <3>1 DEF FollowOK, TaskOK
  <2>13. PollsOnly'
    BY <1>1 DEF PollsOnly
  <2> QED BY <2>7, <2>11, <2>12, <2>13 DEF FollowOK
<1> QED BY <1>3, <1>4

\* When the count is nought no task waits that is counted.
LEMMA NoneCounted ==
    ASSUME TypeOK, Exact, RxPacketNum = 0
    PROVE  \A i \in 1..Len(tasks) : ~Counted(tasks[i])
<1>1. tasks \in Seq(Task)
  BY DEF TypeOK
<1>2. IsFiniteSet(At(tasks, Counting)) /\ Cardinality(At(tasks, Counting)) \in Nat
  BY <1>1, TimesType, FS_CardinalityType
<1>3. Cardinality(At(tasks, Counting)) = 0
  BY <1>2 DEF Exact, Times, Busy
<1>4. At(tasks, Counting) = {}
  BY <1>2, <1>3, FS_EmptySet
<1> QED BY <1>1, <1>4 DEF At, Counting, Counted

\* The steps that move nothing.
LEMMA StillOK ==
    ASSUME TypeOK, Exact, Modes, FollowOK,
           \/ Usb_ReadCompletion \/ BtUsbSubmitReadIrp \/ CountTask
           \/ BtCheckAndChangeRxState \/ ChangeRxState
           \/ Hci_SlaveConnectionTimeOut \/ Sched_Excute \/ UNCHANGED vars
    PROVE  FollowOK'
<1>1. UNCHANGED << air, sent, tasks, RxCach, delayed, host >>
  BY DEF Usb_ReadCompletion, BtUsbSubmitReadIrp, CountTask, BtCheckAndChangeRxState, ChangeRxState,
         Hci_SlaveConnectionTimeOut, Sched_Excute, vars
<1>2. usb'.mode = "CONNECTED" => \/ usb.mode = "CONNECTED"
                                 \/ \A i \in 1..Len(tasks) : ~Counted(tasks[i])
  <2>1. CASE Usb_ReadCompletion
    <3>1. usb'.mode = RxState
      BY <2>1 DEF Usb_ReadCompletion, NoTransfer
    <3>2. RxState = "CONNECTED" => RxPacketNum = 0
      BY DEF Modes
    <3> QED BY <3>1, <3>2, NoneCounted
  <2>2. CASE BtUsbSubmitReadIrp
    BY <2>2 DEF BtUsbSubmitReadIrp, NoTransfer
  <2>3. CASE ~Usb_ReadCompletion /\ ~BtUsbSubmitReadIrp
    BY <2>3 DEF CountTask, BtCheckAndChangeRxState, ChangeRxState,
         Hci_SlaveConnectionTimeOut, Sched_Excute, vars
  <2> QED BY <2>1, <2>2, <2>3
<1>3. worker \in [pc : {"idle", "count", "check", "change", "delete"}, link : Link]
  BY DEF TypeOK
<1>4. LinkOK
  BY DEF FollowOK
<1>5. CASE slave' = slave /\ late' = late
  <2>1. /\ AtOnce' => AtOnce \/ \A l \in Link : slave[l].there => slave[l].state = 1
    <3>1. CASE Usb_ReadCompletion
      BY <3>1 DEF Usb_ReadCompletion, AtOnce, NoTransfer
    <3>2. CASE BtUsbSubmitReadIrp
      BY <3>2 DEF BtUsbSubmitReadIrp, AtOnce, NoTransfer
    <3>3. CASE CountTask
      BY <1>3, <3>3 DEF CountTask, AtOnce
    <3>4. CASE BtCheckAndChangeRxState
      BY <1>3, <3>4 DEF BtCheckAndChangeRxState, AtOnce
    <3>5. CASE ChangeRxState
      BY <1>3, <3>5 DEF ChangeRxState, AtOnce
    <3>6. CASE Hci_SlaveConnectionTimeOut \/ Sched_Excute \/ UNCHANGED vars
      BY <3>6 DEF Hci_SlaveConnectionTimeOut, Sched_Excute, vars, AtOnce
    <3> QED BY <3>1, <3>2, <3>3, <3>4, <3>5, <3>6
  <2> QED BY <1>1, <1>2, <1>4, <1>5, <2>1, RelatedOK DEF LinkOK
<1>6. CASE Hci_SlaveConnectionTimeOut
  <2>1. AtOnce' => AtOnce
    BY <1>6 DEF Hci_SlaveConnectionTimeOut, AtOnce
  <2>2. slave \in [Link -> Entry] /\ late \in [Link -> BOOLEAN]
    BY DEF TypeOK, Entry
  <2>3. ASSUME NEW l \in Link
        PROVE  /\ slave'[l].there = slave[l].there /\ slave'[l].call = slave[l].call
               /\ slave'[l].setup = slave[l].setup
               /\ late[l] => late'[l]
               /\ slave'[l].state = 1 => slave[l].state = 1 \/ slave[l].setup \/ late'[l]
    <3>1. slave[l] \in Entry
      BY <2>2
    <3>2. CASE slave[l].timer = 0
      BY <1>6, <2>2, <3>2 DEF Hci_SlaveConnectionTimeOut
    <3>3. CASE slave[l].timer # 0
      <4>1. slave'[l] = [slave[l] EXCEPT !.timer = @ - 1,
                                         !.state = IF slave[l].timer = 1 THEN 1 ELSE @]
        BY <1>6, <3>3 DEF Hci_SlaveConnectionTimeOut
      <4>2. late'[l] = (late[l] \/ (slave[l].timer = 1 /\ ~slave[l].setup))
        BY <1>6 DEF Hci_SlaveConnectionTimeOut
      <4> QED BY <3>1, <4>1, <4>2 DEF Entry
    <3> QED BY <3>2, <3>3
  <2> QED BY <1>1, <1>2, <1>4, <2>1, <2>3, RelatedOK DEF LinkOK
<1>7. CASE Sched_Excute
  <2>1. AtOnce' => AtOnce
    BY <1>7 DEF Sched_Excute, AtOnce
  <2>2. slave \in [Link -> Entry] /\ late' = late
    BY <1>7 DEF TypeOK, Entry, Sched_Excute
  <2>3. ASSUME NEW l \in Link
        PROVE  /\ slave'[l].there = slave[l].there /\ slave'[l].call = slave[l].call
               /\ slave'[l].setup = slave[l].setup /\ slave'[l].state = slave[l].state
    <3>1. slave[l] \in Entry
      BY <2>2
    <3> QED BY <1>7, <2>2, <3>1 DEF Sched_Excute, Entry
  <2> QED BY <1>1, <1>2, <1>4, <2>1, <2>2, <2>3, RelatedOK DEF LinkOK
<1> QED BY <1>5, <1>6, <1>7 DEF Usb_ReadCompletion, BtUsbSubmitReadIrp, CountTask,
           BtCheckAndChangeRxState, ChangeRxState, vars

\* A device pages: nothing of it is under way.
LEMMA PageOK ==
    ASSUME TypeOK, FollowOK, NEW l \in Link, Page(l)
    PROVE  FollowOK'
<1>1. /\ UNCHANGED << sent, usb, RxState, tasks, delayed, worker, slave, RxCach, host, late >>
      /\ ~slave[l].there
      /\ \A i \in 1..Len(RxCach) : RxCach[i].link # l
      /\ \A i \in 1..Len(tasks) : tasks[i].frame.link # l
      /\ \A e \in delayed : e.link # l
  BY DEF Page
<1>2. /\ air'[l].phase = "paging"
      /\ \A m \in Link : m # l => air'[m] = air[m]
  BY DEF Page, TypeOK
<1>3. CurrentOK'
  <2>1. \A e \in delayed : e.link \in Link
    BY DEF TypeOK, Element
  <2> QED BY <1>1, <1>2, <2>1, Types DEF FollowOK, CurrentOK
<1>4. OrderOK'
  BY <1>1 DEF FollowOK, OrderOK
<1>5. LinkOK'
  <2>1. \A m, i : Announced(m, i)' <=> Announced(m, i)
    BY <1>1 DEF Announced
  <2> QED BY <1>1, <2>1 DEF FollowOK, LinkOK, AtOnce
<1>6. TaskOK'
  <2>1. \A m : Passed(m)' <=> Passed(m)
    BY <1>1 DEF Passed
  <2>2. /\ \A i \in 1..Len(tasks) : ~IsSetup(tasks[i], l) /\ ~IsData(tasks[i], l) /\ ~IsPoll(tasks[i], l)
        /\ \A i \in 1..Len(RxCach) : ~IsGiven(RxCach[i], l)
    BY <1>1 DEF IsSetup, IsData, IsPoll, IsGiven
  <2> QED BY <1>1, <1>2, <2>1, <2>2 DEF FollowOK, TaskOK
<1>7. PollsOnly'
  BY <1>1, <1>2, Types DEF FollowOK, PollsOnly
<1> QED BY <1>3, <1>4, <1>5, <1>6, <1>7 DEF FollowOK

\* A link is deleted.
LEMMA DeleteOK ==
    ASSUME TypeOK, FollowOK, Hci_Del_Slave_Connect_Device
    PROVE  FollowOK'
<1> DEFINE w == worker.link
<1>1. /\ UNCHANGED << sent, usb, RxState, tasks, delayed, RxCach, host, late >>
      /\ usb.mode = "none" /\ worker'.pc = "idle" /\ w \in Link
  BY DEF Hci_Del_Slave_Connect_Device, TypeOK
<1>2. /\ ~slave'[w].there /\ \A m \in Link : m # w => slave'[m] = slave[m]
      /\ slave' = [slave EXCEPT ![w] = Absent]
  BY <1>1 DEF Hci_Del_Slave_Connect_Device, TypeOK, Absent
<1>3. /\ \A m \in Link : air'[m].call = air[m].call
      /\ \A m \in Link : m # w => air'[m].phase = air[m].phase
      /\ air'[w].phase = IF air[w].phase = "open" THEN "closed" ELSE "away"
  BY <1>1 DEF Hci_Del_Slave_Connect_Device, TypeOK
<1> HIDE DEF w
<1>4. CurrentOK'
  <2>1. \A e \in delayed : e.link \in Link
    BY DEF TypeOK, Element
  <2> QED BY SMTT(15), <1>1, <1>2, <1>3, <2>1, Types DEF FollowOK, CurrentOK
<1>5. OrderOK'
  BY <1>1 DEF FollowOK, OrderOK
<1>6. LinkOK'
  <2>1. \A m \in Link : \A i : m # w => (Announced(m, i)' <=> Announced(m, i))
    BY <1>1, <1>2 DEF Announced
  <2>2. AtOnce' => AtOnce
    BY <1>1 DEF AtOnce
  <2> QED BY <1>1, <1>2, <2>1, <2>2 DEF FollowOK, LinkOK
<1>7. TaskOK'
  <2>1. \A m \in Link : Passed(m) => Passed(m)'
    BY <1>1, <1>2 DEF Passed
  <2> QED BY <1>1, <1>3, <2>1 DEF FollowOK, TaskOK
<1>8. PollsOnly'
  BY <1>1 DEF PollsOnly
<1> QED BY <1>4, <1>5, <1>6, <1>7, <1>8 DEF FollowOK

\* What is announced stays so when the ring only grows.
LEMMA AnnouncedStays ==
    ASSUME TypeOK, TypeOK', NEW m \in Link, host' = host, slave'[m].call = slave[m].call,
           RxCach' = RxCach \/ \E e : Longer(RxCach, RxCach', e)
    PROVE  \A i \in 0..Len(RxCach), j \in 0..Len(RxCach') :
              i <= j /\ Announced(m, i) => Announced(m, j)'
<1>1. Len(RxCach) \in Nat /\ Len(RxCach') \in Nat
  BY Types, NextLengths
<1>2. \A i \in 1..Len(RxCach) : RxCach'[i] = RxCach[i]
  BY DEF Longer
<1> QED BY <1>1, <1>2 DEF Announced

\* What becomes a task: a poll, the PDU that completes a set-up, data, or an
\* event whose delay is over.
AddedPoll(t, l) ==
    /\ IsPoll(t, l) /\ sent'[l] = sent[l]
    /\ air[l].phase \in {"paging", "paged"} /\ air'[l].phase = "paged"
AddedSetup(t, l) ==
    /\ IsSetup(t, l) /\ sent'[l] = sent[l]
    /\ air[l].phase = "paged" /\ air'[l].phase = "open"
AddedData(t, l) ==
    /\ IsData(t, l) /\ sent'[l] = t.frame.n /\ t.frame.n = sent[l] + 1
    /\ air[l].phase \in {"open", "closed"} /\ air'[l].phase = air[l].phase
AddedEvent(t, l) ==
    /\ t.event = "SEND" /\ t.frame.what # "DATA" /\ sent'[l] = sent[l]
    /\ air'[l].phase = air[l].phase

\* A task is added.
LEMMA AddedOK ==
    ASSUME TypeOK, TypeOK', FollowOK, NEW t \in Task, NEW l \in Link, Longer(tasks, tasks', t),
           t.frame.link = l, t.frame.call = air[l].call,
           AddedPoll(t, l) \/ AddedSetup(t, l) \/ AddedData(t, l) \/ AddedEvent(t, l),
           UNCHANGED << RxCach, host, late >>, delayed' \subseteq delayed,
           \A m \in Link : /\ slave'[m].there = slave[m].there /\ slave'[m].call = slave[m].call
                           /\ slave'[m].setup = slave[m].setup /\ slave'[m].state = slave[m].state
                           /\ air'[m].call = air[m].call,
           \A m \in Link \ {l} : sent'[m] = sent[m] /\ air'[m].phase = air[m].phase,
           AtOnce' => AtOnce
    PROVE  CurrentOK' /\ OrderOK' /\ LinkOK' /\ TaskOK'
<1>1. Len(tasks) \in Nat /\ Len(tasks') = Len(tasks) + 1 /\ Len(RxCach) \in Nat
  BY Types DEF Longer
<1>2. \A i \in 1..Len(tasks') : \/ i \in 1..Len(tasks) /\ tasks'[i] = tasks[i]
                                \/ i = Len(tasks) + 1 /\ tasks'[i] = t
  BY <1>1 DEF Longer
<1>3. \A i \in 1..Len(tasks) : i \in 1..Len(tasks') /\ tasks'[i] = tasks[i]
  BY <1>1 DEF Longer
<1>4. CurrentOK'
  <2>1. t.event = "SEND" => t.frame.what # "DATA"
    BY DEF AddedPoll, AddedSetup, AddedData, AddedEvent, IsPoll, IsSetup, IsData
  <2>2. \A e \in delayed : e.link \in Link
    BY DEF TypeOK, Element
  <2>3. ASSUME NEW i \in 1..Len(tasks')
        PROVE  /\ tasks'[i].frame.call = air'[tasks'[i].frame.link].call
               /\ tasks'[i].event = "SEND" => tasks'[i].frame.what # "DATA"
    <3>1. CASE i \in 1..Len(tasks) /\ tasks'[i] = tasks[i]
      <4>1. tasks[i].frame.link \in Link
        BY <3>1, Types
      <4> QED BY <3>1, <4>1 DEF FollowOK, CurrentOK
    <3>2. CASE tasks'[i] = t
      BY <2>1, <3>2
    <3> QED BY <1>2, <3>1, <3>2
  <2>4. /\ \A i \in 1..Len(RxCach) : RxCach[i].call = air'[RxCach[i].link].call
        /\ \A e \in delayed' : e.call = air'[e.link].call /\ e.what # "DATA"
        /\ \A m \in Link : slave'[m].there => slave'[m].call = air'[m].call
    BY <2>2, Types DEF FollowOK, CurrentOK
  <2> QED BY <2>3, <2>4 DEF CurrentOK
<1>5. OrderOK'
  <2> SUFFICES ASSUME NEW m \in Link
               PROVE  /\ host[m].n <= sent'[m]
                      /\ \A i \in 1..Len(RxCach) : IsGiven(RxCach[i], m) =>
                           /\ host[m].n < RxCach[i].n /\ RxCach[i].n <= sent'[m]
                           /\ \A j \in 1..Len(RxCach) : i < j /\ IsGiven(RxCach[j], m)
                                                         => RxCach[i].n < RxCach[j].n
                           /\ \A j \in 1..Len(tasks') : IsData(tasks'[j], m)
                                                         => RxCach[i].n < tasks'[j].frame.n
                      /\ \A i \in 1..Len(tasks') : IsData(tasks'[i], m) =>
                           /\ host[m].n < tasks'[i].frame.n /\ tasks'[i].frame.n <= sent'[m]
                           /\ \A j \in 1..Len(tasks') : i < j /\ IsData(tasks'[j], m)
                                                         => tasks'[i].frame.n < tasks'[j].frame.n
    BY DEF OrderOK
  <2>1. sent[m] \in Nat /\ host[m].n \in Nat
    BY Types
  <2>2. CASE IsData(t, m)
    <3>1. m = l /\ AddedData(t, l)
      BY <2>2 DEF IsData, AddedPoll, AddedSetup, AddedEvent, IsPoll, IsSetup
    <3>2. sent'[m] = sent[m] + 1 /\ t.frame.n = sent[m] + 1
      BY <3>1 DEF AddedData
    <3>3. /\ host[m].n <= sent'[m]
          /\ \A i \in 1..Len(RxCach) : IsGiven(RxCach[i], m) =>
               /\ host[m].n < RxCach[i].n /\ RxCach[i].n <= sent'[m]
               /\ \A j \in 1..Len(RxCach) : i < j /\ IsGiven(RxCach[j], m)
                                             => RxCach[i].n < RxCach[j].n
               /\ \A j \in 1..Len(tasks') : IsData(tasks'[j], m)
                                             => RxCach[i].n < tasks'[j].frame.n
      <4>1. /\ host[m].n <= sent[m]
            /\ \A i \in 1..Len(RxCach) : IsGiven(RxCach[i], m) =>
                 /\ host[m].n < RxCach[i].n /\ RxCach[i].n <= sent[m] /\ RxCach[i].n \in Nat
                 /\ \A j \in 1..Len(RxCach) : i < j /\ IsGiven(RxCach[j], m)
                                               => RxCach[i].n < RxCach[j].n
                 /\ \A j \in 1..Len(tasks) : IsData(tasks[j], m)
                                               => RxCach[i].n < tasks[j].frame.n
        BY Types DEF FollowOK, OrderOK
      <4>2. host[m].n <= sent'[m]
        BY <2>1, <3>2, <4>1
      <4>3. ASSUME NEW i \in 1..Len(RxCach), IsGiven(RxCach[i], m)
            PROVE  /\ host[m].n < RxCach[i].n /\ RxCach[i].n <= sent'[m]
                   /\ \A j \in 1..Len(RxCach) : i < j /\ IsGiven(RxCach[j], m)
                                               => RxCach[i].n < RxCach[j].n
        BY <2>1, <3>2, <4>1, <4>3
      <4>4. ASSUME NEW i \in 1..Len(RxCach), IsGiven(RxCach[i], m),
                   NEW j \in 1..Len(tasks'), IsData(tasks'[j], m)
            PROVE  RxCach[i].n < tasks'[j].frame.n
        <5>1. RxCach[i].n <= sent[m] /\ RxCach[i].n \in Nat
          BY <4>1, <4>4
        <5>2. CASE tasks'[j] = t
          BY <2>1, <3>2, <5>1, <5>2
        <5>3. CASE j \in 1..Len(tasks) /\ tasks'[j] = tasks[j]
          BY <4>1, <4>4, <5>3
        <5> QED BY <1>2, <5>2, <5>3
      <4> QED BY <4>2, <4>3, <4>4
    <3>4. \A i \in 1..Len(tasks) : IsData(tasks[i], m) =>
             /\ tasks[i].frame.n \in Nat
             /\ host[m].n < tasks[i].frame.n /\ tasks[i].frame.n <= sent[m]
             /\ \A j \in 1..Len(tasks) : i < j /\ IsData(tasks[j], m)
                                           => tasks[i].frame.n < tasks[j].frame.n
      BY DataNumber DEF FollowOK, OrderOK
    <3>5. host[m].n <= sent[m]
      BY DEF FollowOK, OrderOK
    <3>6. ASSUME NEW i \in 1..Len(tasks'), IsData(tasks'[i], m)
          PROVE  /\ host[m].n < tasks'[i].frame.n /\ tasks'[i].frame.n <= sent'[m]
                 /\ \A j \in 1..Len(tasks') : i < j /\ IsData(tasks'[j], m)
                                               => tasks'[i].frame.n < tasks'[j].frame.n
      <4>1. CASE i = Len(tasks) + 1 /\ tasks'[i] = t
        BY <1>1, <2>1, <3>2, <3>5, <4>1
      <4>2. CASE i \in 1..Len(tasks) /\ tasks'[i] = tasks[i]
        <5>1. /\ tasks[i].frame.n \in Nat
              /\ host[m].n < tasks[i].frame.n /\ tasks[i].frame.n <= sent[m]
              /\ \A j \in 1..Len(tasks) : i < j /\ IsData(tasks[j], m)
                                           => tasks[i].frame.n < tasks[j].frame.n
          BY <3>4, <3>6, <4>2
        <5>2. tasks[i].frame.n <= sent'[m] /\ tasks[i].frame.n < t.frame.n
          BY <2>1, <3>2, <5>1
        <5> QED BY <1>2, <4>2, <5>1, <5>2
      <4> QED BY <1>2, <4>1, <4>2
    <3> QED BY <3>3, <3>6
  <2>3. CASE ~IsData(t, m)
    <3>1. sent'[m] = sent[m]
      BY <2>3 DEF IsData, AddedPoll, AddedSetup, AddedData, AddedEvent
    <3> QED BY <1>2, <2>3, <3>1 DEF FollowOK, OrderOK
  <2> QED BY <2>2, <2>3
<1>6. LinkOK'
  <2>1. \A m \in Link : \A i : Announced(m, i)' <=> Announced(m, i)
    BY DEF Announced
  <2> QED BY <2>1 DEF FollowOK, LinkOK
<1>7. TaskOK'
  <2>1. \A m \in Link : ~IsPoll(t, m) /\ ~IsSetup(t, m) /\ Passed(m) => Passed(m)'
    BY <1>2 DEF Passed
  <2>2. \A m \in Link \ {l} : ~IsPoll(t, m) /\ ~IsSetup(t, m) /\ ~IsData(t, m)
    BY DEF IsPoll, IsSetup, IsData
  <2>3. TaskOK
    BY DEF FollowOK
  <2> SUFFICES ASSUME NEW m \in Link
               PROVE  /\ \A i \in 1..Len(tasks') : IsData(tasks'[i], m) =>
                           Passed(m)' \/ \E k \in 1..i-1 : IsSetup(tasks'[k], m)
                      /\ \A i, k \in 1..Len(tasks') : i < k /\ IsSetup(tasks'[i], m) =>
                           ~IsPoll(tasks'[k], m) /\ ~IsSetup(tasks'[k], m)
                      /\ air'[m].phase \in {"paging", "paged"} =>
                           /\ \A i \in 1..Len(tasks') : ~IsSetup(tasks'[i], m) /\ ~IsData(tasks'[i], m)
                           /\ \A i \in 1..Len(RxCach) : ~IsGiven(RxCach[i], m)
                      /\ air'[m].phase \in {"open", "closed"} =>
                           Passed(m)' \/ \E k \in 1..Len(tasks') : IsSetup(tasks'[k], m)
                      /\ \A i \in 1..Len(tasks'), k \in 1..Len(RxCach) :
                           IsPoll(tasks'[i], m) => ~IsGiven(RxCach[k], m)
    BY DEF TaskOK
  <2>4. CASE ~IsPoll(t, m) /\ ~IsSetup(t, m) /\ ~IsData(t, m)
    <3>1. m = l => AddedEvent(t, l)
      BY <2>4 DEF AddedPoll, AddedSetup, AddedData
    <3>2. air'[m].phase = air[m].phase
      BY <3>1 DEF AddedEvent
    <3>3. Passed(m) => Passed(m)'
      BY <2>1, <2>4
    <3>4. \A i \in 1..Len(tasks') : \/ i \in 1..Len(tasks) /\ tasks'[i] = tasks[i]
                                    \/ ~IsPoll(tasks'[i], m) /\ ~IsSetup(tasks'[i], m)
                                       /\ ~IsData(tasks'[i], m)
      BY <1>2, <2>4
    <3> QED BY <1>1, <1>3, <2>3, <3>2, <3>3, <3>4 DEF TaskOK
  <2>5. CASE m = l /\ AddedPoll(t, l)
    <3>1. IsPoll(t, l) /\ ~IsSetup(t, l) /\ ~IsData(t, l) /\ air[l].phase \in {"paging", "paged"}
          /\ air'[l].phase = "paged"
      BY <2>5 DEF AddedPoll, IsPoll, IsSetup, IsData
    <3>2. /\ \A i \in 1..Len(tasks) : ~IsSetup(tasks[i], l) /\ ~IsData(tasks[i], l)
          /\ \A i \in 1..Len(RxCach) : ~IsGiven(RxCach[i], l)
      BY <2>3, <3>1 DEF TaskOK
    <3>3. \A i \in 1..Len(tasks') : ~IsSetup(tasks'[i], l) /\ ~IsData(tasks'[i], l)
      BY <1>2, <3>1, <3>2
    <3> QED BY <2>5, <3>1, <3>2, <3>3
  <2>6. CASE m = l /\ AddedSetup(t, l)
    <3>1. IsSetup(t, l) /\ ~IsPoll(t, l) /\ ~IsData(t, l) /\ air[l].phase = "paged"
          /\ air'[l].phase = "open"
      BY <2>6 DEF AddedSetup, IsPoll, IsSetup, IsData
    <3>2. /\ \A i \in 1..Len(tasks) : ~IsSetup(tasks[i], l) /\ ~IsData(tasks[i], l)
          /\ \A i \in 1..Len(RxCach) : ~IsGiven(RxCach[i], l)
      BY <2>3, <3>1 DEF TaskOK
    <3>3. Len(tasks') \in 1..Len(tasks') /\ tasks'[Len(tasks')] = t
      BY <1>1 DEF Longer
    <3>4. \A i \in 1..Len(tasks') : ~IsData(tasks'[i], l)
      BY <1>2, <3>1, <3>2
    <3>5. \A i, k \in 1..Len(tasks') : i < k => ~IsSetup(tasks'[i], l)
      BY <1>1, <1>2, <3>2
    <3> QED BY <2>6, <3>1, <3>2, <3>3, <3>4, <3>5
  <2>7. CASE m = l /\ AddedData(t, l)
    <3>1. IsData(t, l) /\ ~IsPoll(t, l) /\ ~IsSetup(t, l) /\ air[l].phase \in {"open", "closed"}
          /\ air'[l].phase = air[l].phase
      BY <2>7 DEF AddedData, IsPoll, IsSetup, IsData
    <3>2. Passed(l) => Passed(l)'
      BY <2>1, <3>1
    <3>3. Passed(l) \/ \E k \in 1..Len(tasks) : IsSetup(tasks[k], l)
      BY <2>3, <3>1 DEF TaskOK
    <3>4. \A k \in 1..Len(tasks) : k \in 1..Len(tasks') /\ k \in 1..(Len(tasks) + 1) - 1
                                 /\ tasks'[k] = tasks[k]
      BY <1>1, <1>3
    <3>5. \A i \in 1..Len(tasks') : IsData(tasks'[i], l) =>
                           Passed(l)' \/ \E k \in 1..i-1 : IsSetup(tasks'[k], l)
      <4> SUFFICES ASSUME NEW i \in 1..Len(tasks'), IsData(tasks'[i], l), ~Passed(l)'
                   PROVE  \E k \in 1..i-1 : IsSetup(tasks'[k], l)
        OBVIOUS
      <4>1. CASE i = Len(tasks) + 1
        BY <3>2, <3>3, <3>4, <4>1
      <4>2. CASE i \in 1..Len(tasks) /\ tasks'[i] = tasks[i]
        <5>1. PICK k \in 1..i-1 : IsSetup(tasks[k], l)
          BY <2>3, <3>2, <4>2 DEF TaskOK
        <5>2. k \in 1..Len(tasks)
          BY <1>1, <4>2
        <5> QED BY <1>3, <5>1, <5>2
      <4> QED BY <1>2, <4>1, <4>2
    <3>6. \A i \in 1..Len(tasks') : \/ i \in 1..Len(tasks) /\ tasks'[i] = tasks[i]
                                    \/ ~IsPoll(tasks'[i], l) /\ ~IsSetup(tasks'[i], l)
      BY <1>2, <3>1
    <3>7. \A i, k \in 1..Len(tasks') : i < k /\ IsSetup(tasks'[i], l) =>
                           ~IsPoll(tasks'[k], l) /\ ~IsSetup(tasks'[k], l)
      BY <2>3, <3>6 DEF TaskOK
    <3>8. \A i \in 1..Len(tasks'), k \in 1..Len(RxCach) :
                           IsPoll(tasks'[i], l) => ~IsGiven(RxCach[k], l)
      BY <2>3, <3>6 DEF TaskOK
    <3>9. Passed(l)' \/ \E k \in 1..Len(tasks') : IsSetup(tasks'[k], l)
      BY <3>2, <3>3, <3>4
    <3> QED BY <2>7, <3>1, <3>5, <3>7, <3>8, <3>9
  <2>8. m = l \/ (~IsPoll(t, m) /\ ~IsSetup(t, m) /\ ~IsData(t, m))
    BY <2>2
  <2>9. AddedEvent(t, l) => ~IsPoll(t, l) /\ ~IsSetup(t, l) /\ ~IsData(t, l)
    BY DEF AddedEvent, IsPoll, IsSetup, IsData
  <2> QED BY <2>4, <2>5, <2>6, <2>7, <2>8, <2>9
<1> QED BY <1>4, <1>5, <1>6, <1>7

\* The delay of an event is over.
LEMMA DelayOK ==
    ASSUME TypeOK, TypeOK', FollowOK, DelayOver
    PROVE  FollowOK'
<1>1. PICK e \in delayed : /\ delayed' = delayed \ {e}
                           /\ tasks' = Append(tasks, [event |-> "SEND", frame |-> e])
  BY DEF DelayOver
<1> DEFINE t == [event |-> "SEND", frame |-> e]
<1>2. UNCHANGED << air, sent, usb, RxState, worker, slave, RxCach, host, late >>
  BY DEF DelayOver
<1>3. t \in Task /\ t.event = "SEND" /\ t.frame = e /\ tasks' = Append(tasks, t) /\ e \in Element
  BY <1>1 DEF TypeOK, Task
<1>4. e.link \in Link /\ e.call = air[e.link].call /\ e.what # "DATA"
  BY <1>3 DEF Element, FollowOK, CurrentOK
<1> HIDE DEF t
<1>5. Longer(tasks, tasks', t)
  BY <1>3, AppendLonger DEF TypeOK
<1>6. AddedEvent(t, e.link)
  BY <1>2, <1>3, <1>4 DEF AddedEvent
<1>7. AtOnce' => AtOnce
  BY <1>2 DEF AtOnce
<1>8. delayed' \subseteq delayed
  BY <1>1
<1>9. CurrentOK' /\ OrderOK' /\ LinkOK' /\ TaskOK'
  BY <1>2, <1>3, <1>4, <1>5, <1>6, <1>7, <1>8, AddedOK
<1>10. PollsOnly'
  <2>1. Len(tasks) \in Nat
    BY Types
  <2>2. ~Counted(t)
    BY <1>3 DEF Counted
  <2>3. \A i \in 1..Len(tasks') : \/ i \in 1..Len(tasks) /\ tasks'[i] = tasks[i]
                                  \/ tasks'[i] = t
    BY <1>5, <2>1 DEF Longer
  <2> QED BY <1>2, <2>2, <2>3 DEF FollowOK, PollsOnly
<1> QED BY <1>9, <1>10 DEF FollowOK

\* What the card's frame changes of its device.
LEMMA CardEffect ==
    ASSUME TypeOK, NEW f \in Frame, CardSends(f),
           f.kind = "DATA" => f.n = sent[f.link] + 1
    PROVE  /\ f.link \in Link
           /\ \A m \in Link : air'[m].call = air[m].call
           /\ \A m \in Link \ {f.link} : sent'[m] = sent[m] /\ air'[m].phase = air[m].phase
           /\ f.kind = "POLL" => /\ air[f.link].phase \in {"paging", "paged"}
                                 /\ air'[f.link].phase = "paged" /\ sent' = sent
           /\ f.kind = "SETUP" => /\ air[f.link].phase = "paged" /\ slave[f.link].there
                                  /\ air'[f.link].phase = "open" /\ sent' = sent
           /\ f.kind = "DATA" => /\ air[f.link].phase \in {"open", "closed"}
                                 /\ air' = air /\ sent'[f.link] = sent[f.link] + 1
<1>1. f.link \in Link
  BY DEF Frame
<1>2. CASE f.kind = "POLL"
  <2>1. /\ air' = [air EXCEPT ![f.link] = [phase |-> "paged", call |-> air[f.link].call,
                                           polls |-> air[f.link].polls + 1]]
        /\ air[f.link].phase \in {"paging", "paged"} /\ sent' = sent
    BY <1>2 DEF CardSends
  <2>2. DOMAIN air = Link
    BY DEF TypeOK
  <2> QED BY <1>1, <1>2, <2>1, <2>2
<1>3. CASE f.kind = "SETUP"
  <2>1. /\ air' = [air EXCEPT ![f.link] = [air[f.link] EXCEPT !.phase = "open"]]
        /\ air[f.link].phase = "paged" /\ slave[f.link].there /\ sent' = sent
    BY <1>3 DEF CardSends
  <2>2. DOMAIN air = Link
    BY DEF TypeOK
  <2>3. air[f.link] \in [phase : {"away", "paging", "paged", "open", "closed"},
                        call : 0..MaxCalls, polls : 0..MaxPolls]
    BY <1>1 DEF TypeOK
  <2>4. air'[f.link] = [air[f.link] EXCEPT !.phase = "open"]
    BY <1>1, <2>1, <2>2
  <2>5. air'[f.link].phase = "open" /\ air'[f.link].call = air[f.link].call
    BY <2>3, <2>4
  <2>6. \A m \in Link \ {f.link} : air'[m] = air[m]
    BY <2>1, <2>2
  <2> QED BY <1>1, <1>3, <2>1, <2>5, <2>6
<1>4. CASE f.kind = "DATA"
  BY <1>1, <1>4 DEF CardSends, TypeOK
<1> QED BY <1>1, <1>2, <1>3, <1>4 DEF CardSends

\* The transfer's frames that become tasks.
LEMMA CreatedOK ==
    ASSUME TypeOK, TypeOK', FollowOK, NEW f \in Frame, CardSends(f), f.call = air[f.link].call,
           f.kind = "DATA" => f.n = sent[f.link] + 1,
           NEW event \in {"RX_INT", "RX_LMP", "RX_FHS"}, Task_CreateTask(event, f),
           event = "RX_LMP" => f.kind = "SETUP", event = "RX_FHS" => f.kind = "POLL",
           UNCHANGED << RxCach, host, late, delayed >>,
           \A m \in Link : /\ slave'[m].there = slave[m].there /\ slave'[m].call = slave[m].call
                           /\ slave'[m].setup = slave[m].setup /\ slave'[m].state = slave[m].state,
           AtOnce' => AtOnce
    PROVE  CurrentOK' /\ OrderOK' /\ LinkOK' /\ TaskOK'
<1> DEFINE t == [event |-> event, frame |-> f]
<1>1. t \in Task /\ tasks' = Append(tasks, t) /\ t.frame = f /\ t.event = event
  BY DEF Task, Task_CreateTask
<1> HIDE DEF t
<1>2. Longer(tasks, tasks', t)
  BY <1>1, AppendLonger DEF TypeOK
<1>3. /\ f.link \in Link
      /\ \A m \in Link : air'[m].call = air[m].call
      /\ \A m \in Link \ {f.link} : sent'[m] = sent[m] /\ air'[m].phase = air[m].phase
  BY CardEffect
<1>4. AddedPoll(t, f.link) \/ AddedSetup(t, f.link) \/ AddedData(t, f.link)
  <2>1. CASE f.kind = "POLL"
    BY <1>1, <1>3, <2>1, CardEffect DEF AddedPoll, IsPoll
  <2>2. CASE f.kind = "SETUP"
    BY <1>1, <1>3, <2>2, CardEffect DEF AddedSetup, IsSetup
  <2>3. CASE f.kind = "DATA"
    BY <1>1, <1>3, <2>3, CardEffect DEF AddedData, IsData
  <2> QED BY <2>1, <2>2, <2>3 DEF Frame
<1> QED BY <1>1, <1>2, <1>3, <1>4, AddedOK

\* A frame of a transfer that came in the state CONNECTING.
LEMMA PreOK ==
    ASSUME TypeOK, TypeOK', FollowOK, NEW f \in Frame, f.call = air[f.link].call,
           f.kind = "DATA" => f.n = sent[f.link] + 1, BtPreProcessPacket(f)
    PROVE  FollowOK'
<1>1. /\ usb.mode = "CONNECTING" /\ usb' = [usb EXCEPT !.room = @ - 1] /\ CardSends(f)
      /\ UNCHANGED << RxState, delayed, worker, RxCach, taskletRcv, host, late >>
  BY DEF BtPreProcessPacket
<1>2. usb'.mode = "CONNECTING"
  BY <1>1 DEF TypeOK
<1>3. PollsOnly'
  BY <1>2 DEF PollsOnly
<1>4. AtOnce' => AtOnce
  BY <1>1, <1>2 DEF AtOnce
<1>5. \A m \in Link : /\ slave'[m].there = slave[m].there /\ slave'[m].call = slave[m].call
                      /\ slave'[m].setup = slave[m].setup /\ slave'[m].state = slave[m].state
  <2>1. slave' = slave \/ slave' = [slave EXCEPT ![f.link].allowed = @ + 1]
    BY DEF BtPreProcessPacket, CountHidData
  <2>2. slave \in [Link -> Entry]
    BY DEF TypeOK, Entry
  <2>3. ASSUME NEW m \in Link, slave' = [slave EXCEPT ![f.link].allowed = @ + 1]
        PROVE  /\ slave'[m].there = slave[m].there /\ slave'[m].call = slave[m].call
               /\ slave'[m].setup = slave[m].setup /\ slave'[m].state = slave[m].state
    <3>1. slave[m] \in Entry
      BY <2>2
    <3> QED BY <2>2, <2>3, <3>1 DEF Entry
  <2> QED BY <2>1, <2>3
<1>6. CASE Task_CreateTask("RX_INT", f)
  <2>1. CurrentOK' /\ OrderOK' /\ LinkOK' /\ TaskOK'
    BY <1>1, <1>4, <1>5, <1>6, CreatedOK
  <2> QED BY <1>3, <2>1 DEF FollowOK
<1>7. CASE f.kind = "DATA" /\ UNCHANGED << slave, tasks >>
  <2>1. /\ f.link \in Link /\ air' = air /\ sent'[f.link] = sent[f.link] + 1
        /\ \A m \in Link \ {f.link} : sent'[m] = sent[m]
    BY <1>1, <1>7, CardEffect
  <2>2. CurrentOK'
    BY <1>1, <1>7, <2>1 DEF FollowOK, CurrentOK
  <2>3. \A m \in Link : sent[m] <= sent'[m] /\ sent[m] \in Nat /\ sent'[m] \in Nat
    BY <2>1, Types
  <2>4. OrderOK'
    <3> SUFFICES ASSUME NEW m \in Link
                 PROVE  /\ host[m].n <= sent'[m]
                        /\ \A i \in 1..Len(RxCach) : IsGiven(RxCach[i], m) => RxCach[i].n <= sent'[m]
                        /\ \A i \in 1..Len(tasks) : IsData(tasks[i], m) => tasks[i].frame.n <= sent'[m]
      BY <1>1, <1>7 DEF FollowOK, OrderOK
    <3>1. \A n \in Nat : n <= sent[m] => n <= sent'[m]
      BY <2>3
    <3>2. /\ host[m].n \in Nat
          /\ \A i \in 1..Len(RxCach) : RxCach[i].n \in Nat
          /\ \A i \in 1..Len(tasks) : IsData(tasks[i], m) => tasks[i].frame.n \in Nat
      BY Types, DataNumber
    <3> QED BY <3>1, <3>2 DEF FollowOK, OrderOK
  <2>5. LinkOK'
    <3>1. \A m, i : Announced(m, i)' <=> Announced(m, i)
      BY <1>1, <1>7 DEF Announced
    <3> QED BY <1>1, <1>4, <1>7, <3>1 DEF FollowOK, LinkOK
  <2>6. TaskOK'
    <3>1. \A m : Passed(m)' <=> Passed(m)
      BY <1>7 DEF Passed
    <3> QED BY <1>1, <1>7, <2>1, <3>1 DEF FollowOK, TaskOK
  <2> QED BY <1>3, <2>2, <2>4, <2>5, <2>6 DEF FollowOK
<1> QED BY <1>6, <1>7 DEF BtPreProcessPacket

\* A frame of a transfer that came in the state CONNECTED.
LEMMA NewOK ==
    ASSUME TypeOK, TypeOK', FollowOK, NEW f \in Frame, f.call = air[f.link].call,
           f.kind = "DATA" => f.n = sent[f.link] + 1, BtProcessRx_New(f)
    PROVE  FollowOK'
<1> DEFINE l == f.link
<1>1. /\ usb.mode = "CONNECTED" /\ CardSends(f)
      /\ UNCHANGED << delayed, worker, slave, taskletRcv, host, late >>
  BY DEF BtProcessRx_New
<1>2. usb'.mode = "CONNECTED" /\ AtOnce /\ AtOnce'
  BY <1>1 DEF BtProcessRx_New, BtProcessRxPoolFrame, TypeOK, AtOnce
<1>3. /\ l \in Link
      /\ \A m \in Link : air'[m].call = air[m].call
      /\ \A m \in Link \ {l} : sent'[m] = sent[m] /\ air'[m].phase = air[m].phase
  BY <1>1, CardEffect
<1>4. \A i \in 1..Len(tasks) : Counted(tasks[i]) /\ tasks[i].frame.link = l =>
         IsPoll(tasks[i], l) /\ ~slave[l].there /\ air[l].phase = "paged"
  BY <1>1 DEF FollowOK, PollsOnly
<1>5. ASSUME NEW t, Longer(tasks, tasks', t), t.frame.link = l,
             Counted(t) => IsPoll(t, l) /\ ~slave[l].there /\ air'[l].phase = "paged",
             air'[l].phase = "paged" \/ slave[l].there
      PROVE  PollsOnly'
  <2>1. Len(tasks) \in Nat
    BY Types
  <2>2. \A i \in 1..Len(tasks') : tasks'[i] = t \/ (i \in 1..Len(tasks) /\ tasks'[i] = tasks[i])
    BY <1>5, <2>1 DEF Longer
  <2>3. ASSUME NEW i \in 1..Len(tasks), Counted(tasks[i])
        PROVE  LET m == tasks[i].frame.link
               IN  IsPoll(tasks[i], m) /\ ~slave[m].there /\ air'[m].phase = "paged"
    <3>1. tasks[i].frame.link \in Link
      BY Types
    <3>2. LET m == tasks[i].frame.link
          IN  IsPoll(tasks[i], m) /\ ~slave[m].there /\ air[m].phase = "paged"
      BY <1>1, <2>3 DEF FollowOK, PollsOnly
    <3> QED BY <1>3, <1>5, <3>1, <3>2
  <2> QED BY <1>1, <1>5, <2>2, <2>3 DEF PollsOnly
<1>6. \A event \in {"RX_LMP", "RX_FHS"} : Task_CreateTask(event, f) =>
         Longer(tasks, tasks', [event |-> event, frame |-> f])
  <2>1. \A event \in {"RX_LMP", "RX_FHS"} : [event |-> event, frame |-> f] \in Task
    BY DEF Task
  <2> QED BY <2>1, AppendLonger DEF TypeOK, Task_CreateTask
<1>7. CASE f.kind = "POLL"
  <2>1. air[l].phase \in {"paging", "paged"} /\ air'[l].phase = "paged" /\ sent' = sent
    BY <1>1, <1>7, CardEffect
  <2>2. BtProcessRxPoolFrame(f) /\ UNCHANGED << RxCach, sched_list >>
    BY <1>7 DEF BtProcessRx_New
  <2>3. CASE slave[l].there
    <3>1. tasks' = tasks
      BY <2>2, <2>3 DEF BtProcessRxPoolFrame
    <3>2. CurrentOK'
      <4>1. \A e \in delayed : e.link \in Link
        BY DEF TypeOK, Element
      <4> QED BY <1>1, <1>3, <2>2, <3>1, <4>1, Types DEF FollowOK, CurrentOK
    <3>3. OrderOK'
      BY <1>1, <2>1, <2>2, <3>1 DEF FollowOK, OrderOK
    <3>4. LinkOK'
      <4>1. \A m, i : Announced(m, i)' <=> Announced(m, i)
        BY <1>1, <2>2 DEF Announced
      <4> QED BY <1>1, <1>2, <2>2, <4>1 DEF FollowOK, LinkOK
    <3>5. TaskOK'
      <4>1. \A m : Passed(m)' <=> Passed(m)
        BY <1>1, <3>1 DEF Passed
      <4> QED BY <1>3, <2>1, <2>2, <3>1, <4>1 DEF FollowOK, TaskOK
    <3>6. PollsOnly'
      <4>1. ASSUME NEW i \in 1..Len(tasks), Counted(tasks[i])
            PROVE  LET m == tasks[i].frame.link
                   IN  IsPoll(tasks[i], m) /\ ~slave[m].there /\ air'[m].phase = "paged"
        <5>1. tasks[i].frame.link \in Link
          BY Types
        <5>2. LET m == tasks[i].frame.link
              IN  IsPoll(tasks[i], m) /\ ~slave[m].there /\ air[m].phase = "paged"
          BY <1>1, <4>1 DEF FollowOK, PollsOnly
        <5> QED BY <1>3, <2>1, <5>1, <5>2
      <4> QED BY <1>1, <3>1, <4>1 DEF PollsOnly
    <3> QED BY <3>2, <3>3, <3>4, <3>5, <3>6 DEF FollowOK
  <2>4. CASE ~slave[l].there
    <3>1. Task_CreateTask("RX_FHS", f)
      BY <2>2, <2>4 DEF BtProcessRxPoolFrame
    <3>2. CurrentOK' /\ OrderOK' /\ LinkOK' /\ TaskOK'
      BY <1>1, <1>2, <1>7, <2>2, <3>1, CreatedOK
    <3> DEFINE t == [event |-> "RX_FHS", frame |-> f]
    <3>3. t.event = "RX_FHS" /\ t.frame = f /\ IsPoll(t, l)
      BY DEF IsPoll
    <3>4. Longer(tasks, tasks', t)
      BY <1>6, <3>1
    <3> HIDE DEF t
    <3>5. PollsOnly'
      BY <1>5, <2>1, <2>4, <3>3, <3>4
    <3> QED BY <3>2, <3>5 DEF FollowOK
  <2> QED BY <2>3, <2>4
<1>8. CASE f.kind = "SETUP"
  <2>1. slave[l].there
    BY <1>1, <1>8, CardEffect
  <2>2. Task_CreateTask("RX_LMP", f) /\ UNCHANGED << RxCach, sched_list >>
    BY <1>8 DEF BtProcessRx_New
  <2>3. CurrentOK' /\ OrderOK' /\ LinkOK' /\ TaskOK'
    BY <1>1, <1>2, <1>8, <2>2, CreatedOK
  <2> DEFINE t == [event |-> "RX_LMP", frame |-> f]
  <2>4. t.frame = f /\ ~Counted(t)
    BY DEF Counted
  <2>5. Longer(tasks, tasks', t)
    BY <1>6, <2>2
  <2> HIDE DEF t
  <2>6. PollsOnly'
    BY <1>5, <2>1, <2>4, <2>5
  <2> QED BY <2>3, <2>6 DEF FollowOK
<1>9. CASE f.kind = "DATA"
  <2>1. /\ air[l].phase \in {"open", "closed"} /\ air' = air /\ sent'[l] = sent[l] + 1
        /\ f.n = sent[l] + 1 /\ sent[l] \in Nat /\ host[l].n \in Nat
    BY <1>1, <1>3, <1>9, CardEffect, Types
  <2>2. PutData(f) /\ tasks' = tasks
    BY <1>9 DEF BtProcessRx_New
  <2>3. \A i \in 1..Len(tasks) : ~IsData(tasks[i], l) /\ ~IsPoll(tasks[i], l)
    BY <1>4, <2>1 DEF IsData, IsPoll, Counted
  <2> DEFINE e == [what |-> "DATA", link |-> l, call |-> f.call, n |-> f.n]
  <2>4. e.what = "DATA" /\ e.link = l /\ e.call = air[l].call /\ e.n = sent[l] + 1
    BY <2>1
  <2>5. RxCach' = RxCach \/ Longer(RxCach, RxCach', e)
    <3>1. e \in Element
      BY <1>3, <2>1 DEF Element, Frame
    <3>2. RxCach' = RxCach \/ RxCach' = Append(RxCach, e)
      BY <2>2 DEF PutData
    <3>3. RxCach \in Seq(Element)
      BY DEF TypeOK
    <3> HIDE DEF e
    <3> QED BY <3>1, <3>2, <3>3, AppendLonger
  <2> HIDE DEF e
  <2>6. Len(RxCach) \in Nat /\ Len(RxCach') \in Nat
    BY Types, NextLengths
  <2>7. \A i \in 1..Len(RxCach') : \/ i \in 1..Len(RxCach) /\ RxCach'[i] = RxCach[i]
                                   \/ i = Len(RxCach) + 1 /\ RxCach'[i] = e
    BY <2>5, <2>6 DEF Longer
  <2>8. CurrentOK'
    <3>1. \A i \in 1..Len(RxCach') : RxCach'[i].call = air[RxCach'[i].link].call
      BY <2>4, <2>7 DEF FollowOK, CurrentOK
    <3> QED BY <1>1, <2>1, <2>2, <3>1 DEF FollowOK, CurrentOK
  <2>9. OrderOK'
    <3> SUFFICES ASSUME NEW m \in Link
                 PROVE  /\ host[m].n <= sent'[m]
                        /\ \A i \in 1..Len(RxCach') : IsGiven(RxCach'[i], m) =>
                             /\ host[m].n < RxCach'[i].n /\ RxCach'[i].n <= sent'[m]
                             /\ \A j \in 1..Len(RxCach') : i < j /\ IsGiven(RxCach'[j], m)
                                                           => RxCach'[i].n < RxCach'[j].n
                             /\ \A j \in 1..Len(tasks) : IsData(tasks[j], m)
                                                           => RxCach'[i].n < tasks[j].frame.n
                        /\ \A i \in 1..Len(tasks) : IsData(tasks[i], m) =>
                             /\ host[m].n < tasks[i].frame.n /\ tasks[i].frame.n <= sent'[m]
                             /\ \A j \in 1..Len(tasks) : i < j /\ IsData(tasks[j], m)
                                                           => tasks[i].frame.n < tasks[j].frame.n
      BY <1>1, <2>2 DEF OrderOK
    <3>1. CASE m = l
      <4>1. /\ host[l].n <= sent[l]
            /\ \A i \in 1..Len(RxCach) : IsGiven(RxCach[i], l) =>
                 /\ host[l].n < RxCach[i].n /\ RxCach[i].n <= sent[l] /\ RxCach[i].n \in Nat
                 /\ \A j \in 1..Len(RxCach) : i < j /\ IsGiven(RxCach[j], l)
                                               => RxCach[i].n < RxCach[j].n
        BY <1>3, Types DEF FollowOK, OrderOK
      <4>2. host[l].n <= sent'[l] /\ host[l].n < e.n /\ e.n <= sent'[l]
        BY <2>1, <2>4, <4>1
      <4>3. \A i \in 1..Len(RxCach) : IsGiven(RxCach[i], l) => RxCach[i].n < e.n /\ RxCach[i].n <= sent'[l]
        BY <2>1, <2>4, <4>1
      <4>4. ASSUME NEW i \in 1..Len(RxCach'), IsGiven(RxCach'[i], l)
            PROVE  /\ host[l].n < RxCach'[i].n /\ RxCach'[i].n <= sent'[l]
                   /\ \A j \in 1..Len(RxCach') : i < j /\ IsGiven(RxCach'[j], l)
                                                 => RxCach'[i].n < RxCach'[j].n
        <5>1. CASE i = Len(RxCach) + 1 /\ RxCach'[i] = e
          BY <2>6, <2>7, <4>2, <5>1
        <5>2. CASE i \in 1..Len(RxCach) /\ RxCach'[i] = RxCach[i]
          BY <2>7, <4>1, <4>3, <4>4, <5>2
        <5> QED BY <2>7, <5>1, <5>2
      <4> QED BY <2>3, <3>1, <4>2, <4>4
    <3>2. CASE m # l
      <4>1. ~IsGiven(e, m) /\ sent'[m] = sent[m]
        BY <1>3, <2>4, <3>2 DEF IsGiven
      <4>2. \A i \in 1..Len(RxCach') : IsGiven(RxCach'[i], m)
                                          => i \in 1..Len(RxCach) /\ RxCach'[i] = RxCach[i]
        BY <2>7, <4>1
      <4> QED BY <4>1, <4>2 DEF FollowOK, OrderOK
    <3> QED BY <3>1, <3>2
  <2>10. LinkOK'
    <3> SUFFICES ASSUME NEW m \in Link, slave[m].there, ~late[m]
                 PROVE  /\ slave[m].setup
                        /\ Announced(m, Len(RxCach))'
                        /\ \A i \in 1..Len(RxCach') : IsGiven(RxCach'[i], m) => Announced(m, i - 1)'
      BY <1>1 DEF LinkOK
    <3>1. /\ slave[m].setup /\ Announced(m, Len(RxCach))
          /\ \A i \in 1..Len(RxCach) : IsGiven(RxCach[i], m) => Announced(m, i - 1)
      BY <1>2 DEF FollowOK, LinkOK
    <3>2. \A i \in 0..Len(RxCach), j \in 0..Len(RxCach') : i <= j /\ Announced(m, i) => Announced(m, j)'
      BY <1>1, <2>5, AnnouncedStays
    <3>3. /\ Len(RxCach) \in 0..Len(RxCach) /\ Len(RxCach') \in 0..Len(RxCach')
          /\ Len(RxCach) <= Len(RxCach')
      BY <2>5, <2>6 DEF Longer
    <3>4. Announced(m, Len(RxCach))'
      BY <3>1, <3>2, <3>3
    <3> QED BY <2>6, <2>7, <3>1, <3>2, <3>3, <3>4
  <2>11. TaskOK'
    <3>1. \A m : Passed(m)' <=> Passed(m)
      BY <1>1, <2>2 DEF Passed
    <3>2. \A m \in Link, i \in 1..Len(RxCach') : IsGiven(RxCach'[i], m) =>
             m = l \/ (i \in 1..Len(RxCach) /\ RxCach'[i] = RxCach[i])
      BY <2>4, <2>7 DEF IsGiven
    <3> QED BY <2>1, <2>2, <2>3, <3>1, <3>2 DEF FollowOK, TaskOK
  <2>12. PollsOnly'
    BY <1>1, <2>1, <2>2 DEF FollowOK, PollsOnly
  <2> QED BY <2>8, <2>9, <2>10, <2>11, <2>12 DEF FollowOK
<1> QED BY <1>7, <1>8, <1>9 DEF Frame

\* The worker takes the first task, t.
LEMMA TakenOK ==
    ASSUME TypeOK, TypeOK', TaskOK, Shorter(tasks, tasks'), 1 \in 1..Len(tasks), UNCHANGED air,
           \A m \in Link, i \in 1..Len(RxCach') : IsGiven(RxCach'[i], m) =>
              \/ i \in 1..Len(RxCach) /\ RxCach'[i] = RxCach[i]
              \/ IsData(tasks[1], m),
           \A m \in Link : /\ slave'[m].there => slave'[m].setup \/ IsPoll(tasks[1], m)
                                                 \/ (slave[m].there /\ ~slave[m].setup)
                           /\ IsSetup(tasks[1], m) /\ slave'[m].there => slave'[m].setup
    PROVE  TaskOK'
<1>1. Len(tasks) \in Nat /\ Len(tasks') \in Nat /\ Len(tasks) = Len(tasks') + 1
  BY Types, NextLengths DEF Shorter
<1>2. \A i \in 1..Len(tasks') : i + 1 \in 1..Len(tasks) /\ tasks'[i] = tasks[i + 1]
  BY <1>1 DEF Shorter
<1> SUFFICES ASSUME NEW m \in Link
             PROVE  /\ \A i \in 1..Len(tasks') : IsData(tasks'[i], m) =>
                         Passed(m)' \/ \E k \in 1..i-1 : IsSetup(tasks'[k], m)
                    /\ \A i, k \in 1..Len(tasks') : i < k /\ IsSetup(tasks'[i], m) =>
                         ~IsPoll(tasks'[k], m) /\ ~IsSetup(tasks'[k], m)
                    /\ air[m].phase \in {"paging", "paged"} =>
                         /\ \A i \in 1..Len(tasks') : ~IsSetup(tasks'[i], m) /\ ~IsData(tasks'[i], m)
                         /\ \A i \in 1..Len(RxCach') : ~IsGiven(RxCach'[i], m)
                    /\ air[m].phase \in {"open", "closed"} =>
                         Passed(m)' \/ \E k \in 1..Len(tasks') : IsSetup(tasks'[k], m)
                    /\ \A i \in 1..Len(tasks'), k \in 1..Len(RxCach') :
                         IsPoll(tasks'[i], m) => ~IsGiven(RxCach'[k], m)
  BY DEF TaskOK
<1>3. IsPoll(tasks[1], m) => ~IsSetup(tasks[1], m) /\ ~IsData(tasks[1], m)
  BY DEF IsPoll, IsSetup, IsData
<1>4. Passed(m) => Passed(m)'
  <2> SUFFICES ASSUME Passed(m) PROVE Passed(m)'
    OBVIOUS
  <2>1. ~IsPoll(tasks[1], m) /\ (slave[m].there => slave[m].setup)
    BY DEF Passed
  <2> QED BY <1>2, <2>1 DEF Passed
<1>5. IsSetup(tasks[1], m) => Passed(m)'
  <2> SUFFICES ASSUME IsSetup(tasks[1], m) PROVE Passed(m)'
    OBVIOUS
  <2>1. \A i \in 1..Len(tasks') : 1 < i + 1
    BY <1>1
  <2>2. \A i \in 1..Len(tasks') : ~IsPoll(tasks'[i], m) /\ ~IsSetup(tasks'[i], m)
    BY <1>2, <2>1 DEF TaskOK
  <2> QED BY <2>2 DEF Passed
<1>6. \A i \in 1..Len(tasks') : IsData(tasks'[i], m) =>
         Passed(m)' \/ \E k \in 1..i-1 : IsSetup(tasks'[k], m)
  <2> SUFFICES ASSUME NEW i \in 1..Len(tasks'), IsData(tasks'[i], m), ~Passed(m)'
               PROVE  \E k \in 1..i-1 : IsSetup(tasks'[k], m)
    OBVIOUS
  <2>1. IsData(tasks[i + 1], m) /\ ~Passed(m) /\ ~IsSetup(tasks[1], m)
    BY <1>2, <1>4, <1>5
  <2>2. PICK k \in 1..(i + 1) - 1 : IsSetup(tasks[k], m)
    BY <1>2, <2>1 DEF TaskOK
  <2>3. k # 1
    BY <2>1, <2>2
  <2>4. k - 1 \in 1..i-1 /\ k - 1 \in 1..Len(tasks') /\ (k - 1) + 1 = k
    BY <1>1, <2>2, <2>3
  <2> QED BY <1>2, <2>2, <2>4
<1>7. \A i, k \in 1..Len(tasks') : i < k /\ IsSetup(tasks'[i], m) =>
                         ~IsPoll(tasks'[k], m) /\ ~IsSetup(tasks'[k], m)
  <2>1. \A i, k \in 1..Len(tasks') : i < k => i + 1 < k + 1
    BY <1>1
  <2> QED BY <1>2, <2>1 DEF TaskOK
<1>8. air[m].phase \in {"paging", "paged"} =>
                         /\ \A i \in 1..Len(tasks') : ~IsSetup(tasks'[i], m) /\ ~IsData(tasks'[i], m)
                         /\ \A i \in 1..Len(RxCach') : ~IsGiven(RxCach'[i], m)
  BY <1>2 DEF TaskOK
<1>9. air[m].phase \in {"open", "closed"} =>
                         Passed(m)' \/ \E k \in 1..Len(tasks') : IsSetup(tasks'[k], m)
  <2> SUFFICES ASSUME air[m].phase \in {"open", "closed"}, ~Passed(m)'
               PROVE  \E k \in 1..Len(tasks') : IsSetup(tasks'[k], m)
    OBVIOUS
  <2>1. ~Passed(m) /\ ~IsSetup(tasks[1], m)
    BY <1>4, <1>5
  <2>2. PICK k \in 1..Len(tasks) : IsSetup(tasks[k], m)
    BY <2>1 DEF TaskOK
  <2>3. k - 1 \in 1..Len(tasks') /\ (k - 1) + 1 = k
    BY <1>1, <2>1, <2>2
  <2> QED BY <1>2, <2>2, <2>3
<1>10. ASSUME NEW i \in 1..Len(tasks'), NEW k \in 1..Len(RxCach'), IsPoll(tasks'[i], m),
              IsGiven(RxCach'[k], m)
       PROVE  FALSE
  <2>1. IsPoll(tasks[i + 1], m) /\ i + 1 \in 1..Len(tasks)
    BY <1>2, <1>10
  <2>2. CASE k \in 1..Len(RxCach) /\ RxCach'[k] = RxCach[k]
    BY <1>10, <2>1, <2>2 DEF TaskOK
  <2>3. CASE IsData(tasks[1], m)
    <3>1. ~\E j \in 1..0 : IsSetup(tasks[j], m)
      OBVIOUS
    <3>2. Passed(m)
      BY <2>3, <3>1 DEF TaskOK
    <3> QED BY <2>1, <3>2 DEF Passed
  <2> QED BY <1>10, <2>2, <2>3
<1> QED BY <1>6, <1>7, <1>8, <1>9, <1>10

\* What every task leaves: the transfer is over, the state is kept.
LEMMA TaskStep ==
    ASSUME TypeOK, Exact, Modes, Task_ThreadRoutine
    PROVE  /\ UNCHANGED << air, sent, usb, RxState, host >> /\ usb.mode = "none"
           /\ Shorter(tasks, tasks') /\ Head(tasks) = tasks[1] /\ 1 \in 1..Len(tasks)
           /\ tasks[1] \in Task /\ tasks[1].frame.link \in Link
           /\ tasks[1].event # "SEND" => tasks[1].frame \in Frame
           /\ tasks[1].event = "SEND" => tasks[1].frame \in Element
           /\ AtOnce' => AtOnce /\ ~Counted(tasks[1])
<1>1. /\ UNCHANGED << air, sent, usb, RxState, host >> /\ usb.mode = "none"
      /\ tasks # << >> /\ tasks' = Tail(tasks) /\ worker.pc = "idle"
      /\ worker' = [worker EXCEPT !.pc = IF Head(tasks).event \in {"RX_INT", "RX_FHS"}
                                         THEN "count" ELSE "idle"]
  BY DEF Task_ThreadRoutine, WorkerFree
<1>2. tasks \in Seq(Task)
  BY DEF TypeOK
<1>3. Shorter(tasks, tasks') /\ Head(tasks) = tasks[1] /\ 1 \in 1..Len(tasks)
  BY <1>1, <1>2, TailShorter
<1>4. tasks[1] \in Task /\ tasks[1].frame.link \in Link
  BY <1>3, Types
<1>5. /\ tasks[1].event # "SEND" => tasks[1].frame \in Frame
      /\ tasks[1].event = "SEND" => tasks[1].frame \in Element
  BY <1>4 DEF Task
<1>6. worker'.pc \in {"count", "idle"}
  BY <1>1 DEF TypeOK
<1>7. AtOnce' => RxState = "CONNECTED"
  BY <1>1, <1>6 DEF AtOnce
<1>8. RxState = "CONNECTED" => ~Counted(tasks[1])
  BY <1>3, NoneCounted DEF Modes
<1> QED BY <1>1, <1>3, <1>4, <1>5, <1>7, <1>8 DEF AtOnce

\* A poll of the worker's: the device is added, if it is not listed.
LEMMA TaskPollOK ==
    ASSUME TypeOK, TypeOK', Exact, Modes, FollowOK, Task_ThreadRoutine,
           IsPoll(tasks[1], tasks[1].frame.link), BtTaskProcessRxPoolFrame(tasks[1].frame)
    PROVE  FollowOK'
<1> DEFINE l == tasks[1].frame.link
           e == [what |-> "GONE", link |-> l, call |-> tasks[1].frame.call, n |-> 0]
<1>1. /\ UNCHANGED << air, sent, usb, RxState, host >> /\ usb.mode = "none"
      /\ Shorter(tasks, tasks') /\ 1 \in 1..Len(tasks) /\ l \in Link
      /\ tasks[1].frame \in Frame /\ ~AtOnce'
  BY TaskStep DEF IsPoll, Counted
<1>2. UNCHANGED << RxCach, delayed >>
  BY DEF BtTaskProcessRxPoolFrame
<1>3. tasks[1].frame.call = air[l].call /\ tasks[1].frame.call \in 1..MaxCalls
  BY <1>1 DEF FollowOK, CurrentOK, Frame
<1>4. ~IsSetup(tasks[1], l) /\ ~IsData(tasks[1], l)
  BY DEF IsPoll, IsSetup, IsData
<1>5. \A m \in Link : m # l => ~IsSetup(tasks[1], m)
  BY DEF IsSetup
<1>6. \/ slave' = slave /\ late' = late
      \/ /\ ~slave[l].there /\ slave'[l].there /\ ~slave'[l].setup /\ slave'[l].state = 0
         /\ slave'[l].call = tasks[1].frame.call
         /\ \A m \in Link : m # l => slave'[m] = slave[m] /\ late'[m] = late[m]
  <2>1. CASE slave[l].there
    BY <2>1 DEF BtTaskProcessRxPoolFrame
  <2>2. CASE ~slave[l].there
    <3> DEFINE a == [Absent EXCEPT !.there = TRUE, !.call = tasks[1].frame.call,
                                   !.timer = SetupTicks]
    <3>1. a.there /\ ~a.setup /\ a.state = 0 /\ a.call = tasks[1].frame.call
      BY DEF Absent
    <3>2. /\ slave' = [slave EXCEPT ![l] = a] /\ late' = [late EXCEPT ![l] = FALSE]
      BY <2>2 DEF BtTaskProcessRxPoolFrame
    <3>3. DOMAIN slave = Link /\ DOMAIN late = Link
      BY DEF TypeOK
    <3> HIDE DEF a
    <3> QED BY <1>1, <2>2, <3>1, <3>2, <3>3
  <2> QED BY <2>1, <2>2
<1>7. CurrentOK' /\ OrderOK'
  <2>1. e \in Element /\ e.what # "DATA" /\ e.call = air[e.link].call
    BY <1>1, <1>3 DEF Element
  <2>2. \A m \in Link : slave'[m].there => slave'[m].call = air[m].call
    BY <1>3, <1>6 DEF FollowOK, CurrentOK
  <2> HIDE DEF e
  <2> QED BY <1>1, <1>2, <2>1, <2>2, EventOrder DEF FollowOK
<1>8. LinkOK'
  <2> SUFFICES ASSUME NEW m \in Link, slave'[m].there, ~late'[m]
               PROVE  /\ slave'[m].state = 1 => slave'[m].setup
                      /\ slave'[m].setup => Announced(m, Len(RxCach))'
                      /\ \A i \in 1..Len(RxCach) : IsGiven(RxCach[i], m)
                              => slave'[m].setup /\ Announced(m, i - 1)'
    BY <1>1, <1>2 DEF LinkOK
  <2>1. CASE slave'[m] = slave[m] /\ late'[m] = late[m]
    <3>1. \A i : Announced(m, i)' <=> Announced(m, i)
      BY <1>1, <1>2, <2>1 DEF Announced
    <3> QED BY <1>2, <2>1, <3>1 DEF FollowOK, LinkOK
  <2>2. CASE m = l /\ slave'[l].state = 0 /\ ~slave'[l].setup
    BY <1>1, <2>2 DEF FollowOK, TaskOK
  <2> QED BY <1>6, <2>1, <2>2
<1>9. TaskOK'
  <2>1. \A m \in Link : slave'[m].there => slave'[m].setup \/ IsPoll(tasks[1], m)
                                                 \/ (slave[m].there /\ ~slave[m].setup)
    BY <1>6
  <2> QED BY <1>1, <1>2, <1>4, <1>5, <2>1, TakenOK DEF FollowOK
<1>10. PollsOnly'
  BY <1>1 DEF PollsOnly
<1> QED BY <1>7, <1>8, <1>9, <1>10 DEF FollowOK

\* An event of the worker's, put into the ring or put off; the links that
\* become set up with it are announced by it, or late.
LEMMA TaskEventOK ==
    ASSUME TypeOK, TypeOK', Exact, Modes, FollowOK, Task_ThreadRoutine,
           NEW e \in Element, e.what # "DATA", e.call = air[e.link].call, PutEvent(e),
           ~IsPoll(tasks[1], tasks[1].frame.link), ~IsData(tasks[1], tasks[1].frame.link),
           \A m \in Link : /\ slave'[m].there = slave[m].there /\ slave'[m].call = slave[m].call
                           /\ \/ /\ slave'[m].setup = slave[m].setup
                                 /\ slave'[m].state = slave[m].state
                              \/ /\ slave[m].there /\ ~slave[m].setup /\ slave'[m].setup
                                 /\ IsComplete(e, m)
                           /\ IsSetup(tasks[1], m) /\ slave[m].there => slave'[m].setup
    PROVE  FollowOK'
<1> DEFINE l == tasks[1].frame.link
<1>1. /\ UNCHANGED << air, sent, usb, RxState, host >> /\ usb.mode = "none"
      /\ Shorter(tasks, tasks') /\ 1 \in 1..Len(tasks) /\ l \in Link /\ (AtOnce' => AtOnce)
  BY TaskStep
<1>2. \A m \in Link : ~IsData(tasks[1], m)
  BY DEF IsData
<1>3. CurrentOK' /\ OrderOK'
  <2>1. \A m \in Link : slave'[m].there => slave'[m].call = air[m].call
    BY DEF FollowOK, CurrentOK
  <2> QED BY <1>1, <2>1, EventOrder DEF FollowOK
<1>4. Len(RxCach) \in Nat /\ Len(RxCach') \in Nat
  BY Types, NextLengths
<1>5. \/ Longer(RxCach, RxCach', e) /\ late' = late
      \/ /\ RxCach' = RxCach /\ late'[e.link]
         /\ \A m \in Link \ {e.link} : late'[m] = late[m]
  BY EventEffect
<1>6. \A i \in 1..Len(RxCach') : \/ i \in 1..Len(RxCach) /\ RxCach'[i] = RxCach[i]
                                 \/ i = Len(RxCach) + 1 /\ RxCach'[i] = e
  BY <1>4, <1>5 DEF Longer
<1>7. \A m \in Link, i \in 1..Len(RxCach') : IsGiven(RxCach'[i], m) =>
         i \in 1..Len(RxCach) /\ RxCach'[i] = RxCach[i]
  BY <1>6 DEF IsGiven
<1>8. LinkOK'
  <2> SUFFICES ASSUME NEW m \in Link, slave'[m].there, ~late'[m]
               PROVE  /\ slave'[m].state = 1 \/ AtOnce' => slave'[m].setup
                      /\ slave'[m].setup => Announced(m, Len(RxCach))'
                      /\ \A i \in 1..Len(RxCach') : IsGiven(RxCach'[i], m)
                              => slave'[m].setup /\ Announced(m, i - 1)'
    BY DEF LinkOK
  <2>1. slave[m].there /\ ~late[m]
    BY <1>5
  <2>2. /\ slave[m].state = 1 \/ AtOnce => slave[m].setup
        /\ slave[m].setup => Announced(m, Len(RxCach))
        /\ \A i \in 1..Len(RxCach) : IsGiven(RxCach[i], m) => slave[m].setup /\ Announced(m, i - 1)
    BY <2>1 DEF FollowOK, LinkOK
  <2>3. \A i \in 0..Len(RxCach), j \in 0..Len(RxCach') : i <= j /\ Announced(m, i) => Announced(m, j)'
    BY <1>1, <1>5, AnnouncedStays
  <2>4. /\ Len(RxCach) \in 0..Len(RxCach) /\ Len(RxCach') \in 0..Len(RxCach')
        /\ Len(RxCach) <= Len(RxCach')
        /\ \A i \in 1..Len(RxCach) : i - 1 \in 0..Len(RxCach) /\ i - 1 \in 0..Len(RxCach')
    BY <1>4, <1>5 DEF Longer
  <2>5. \A i \in 1..Len(RxCach) : Announced(m, i - 1) => Announced(m, i - 1)'
    BY <2>3, <2>4
  <2>6. Announced(m, Len(RxCach)) => Announced(m, Len(RxCach))'
    BY <2>3, <2>4
  <2>7. CASE slave'[m].setup = slave[m].setup /\ slave'[m].state = slave[m].state
    BY <1>1, <1>7, <2>2, <2>5, <2>6, <2>7
  <2>8. CASE ~slave[m].setup /\ slave'[m].setup /\ IsComplete(e, m)
    <3>1. \A i \in 1..Len(RxCach') : ~IsGiven(RxCach'[i], m)
      BY <1>7, <2>2, <2>8
    <3>2. Longer(RxCach, RxCach', e)
      BY <1>5, <2>8 DEF IsComplete
    <3>3. Len(RxCach') \in 1..Len(RxCach') /\ RxCach'[Len(RxCach')] = e
      BY <1>4, <3>2 DEF Longer
    <3>4. Announced(m, Len(RxCach))'
      BY <2>8, <3>3 DEF Announced
    <3> QED BY <2>8, <3>1, <3>4
  <2> QED BY <2>7, <2>8
<1>9. TaskOK'
  BY <1>1, <1>7, TakenOK DEF FollowOK
<1>10. PollsOnly'
  BY <1>1 DEF PollsOnly
<1> QED BY <1>3, <1>8, <1>9, <1>10 DEF FollowOK

\* Data of the worker's, put into the ring or lost.
LEMMA TaskDataOK ==
    ASSUME TypeOK, TypeOK', Exact, Modes, FollowOK, Task_ThreadRoutine,
           IsData(tasks[1], tasks[1].frame.link), PutData(tasks[1].frame),
           UNCHANGED << delayed, late, slave >>
    PROVE  FollowOK'
<1> DEFINE l == tasks[1].frame.link
           e == [what |-> "DATA", link |-> l, call |-> tasks[1].frame.call, n |-> tasks[1].frame.n]
<1>1. /\ UNCHANGED << air, sent, usb, RxState, host >> /\ usb.mode = "none"
      /\ Shorter(tasks, tasks') /\ 1 \in 1..Len(tasks) /\ l \in Link
      /\ tasks[1].frame \in Frame /\ (AtOnce' => AtOnce)
  BY TaskStep DEF IsData
<1>2. e.what = "DATA" /\ e.link = l /\ e.call = tasks[1].frame.call /\ e.n = tasks[1].frame.n
  OBVIOUS
<1>3. RxCach' = RxCach \/ Longer(RxCach, RxCach', e)
  <2>1. e \in Element
    BY <1>1 DEF Element, Frame
  <2>2. RxCach' = RxCach \/ RxCach' = Append(RxCach, e)
    BY DEF PutData
  <2>3. RxCach \in Seq(Element)
    BY DEF TypeOK
  <2> HIDE DEF e
  <2> QED BY <2>1, <2>2, <2>3, AppendLonger
<1> HIDE DEF e
<1>4. /\ Len(RxCach) \in Nat /\ Len(RxCach') \in Nat /\ Len(tasks) \in Nat /\ Len(tasks') \in Nat
      /\ Len(tasks) = Len(tasks') + 1
  BY <1>1, Types, NextLengths DEF Shorter
<1>5. \A i \in 1..Len(RxCach') : \/ i \in 1..Len(RxCach) /\ RxCach'[i] = RxCach[i]
                                 \/ i = Len(RxCach) + 1 /\ RxCach'[i] = e
  BY <1>3, <1>4 DEF Longer
<1>6. \A i \in 1..Len(tasks') : i + 1 \in 1..Len(tasks) /\ tasks'[i] = tasks[i + 1] /\ 1 < i + 1
  BY <1>1, <1>4 DEF Shorter
<1>7. Passed(l)
  <2>1. ~\E j \in 1..0 : IsSetup(tasks[j], l)
    OBVIOUS
  <2> QED BY <1>1, <2>1 DEF FollowOK, TaskOK
<1>8. CurrentOK'
  <2>1. \A i \in 1..Len(RxCach') : RxCach'[i].call = air[RxCach'[i].link].call
    BY <1>1, <1>2, <1>5 DEF FollowOK, CurrentOK
  <2> QED BY <1>1, <1>6, <2>1 DEF FollowOK, CurrentOK
<1>9. OrderOK'
  <2> SUFFICES ASSUME NEW m \in Link
               PROVE  /\ host[m].n <= sent[m]
                      /\ \A i \in 1..Len(RxCach') : IsGiven(RxCach'[i], m) =>
                           /\ host[m].n < RxCach'[i].n /\ RxCach'[i].n <= sent[m]
                           /\ \A j \in 1..Len(RxCach') : i < j /\ IsGiven(RxCach'[j], m)
                                                         => RxCach'[i].n < RxCach'[j].n
                           /\ \A j \in 1..Len(tasks') : IsData(tasks'[j], m)
                                                         => RxCach'[i].n < tasks'[j].frame.n
                      /\ \A i \in 1..Len(tasks') : IsData(tasks'[i], m) =>
                           /\ host[m].n < tasks'[i].frame.n /\ tasks'[i].frame.n <= sent[m]
                           /\ \A j \in 1..Len(tasks') : i < j /\ IsData(tasks'[j], m)
                                                         => tasks'[i].frame.n < tasks'[j].frame.n
    BY <1>1 DEF OrderOK
  <2>1. \A i, j \in 1..Len(tasks') : i < j => i + 1 < j + 1
    BY <1>4
  <2>2. ASSUME NEW i \in 1..Len(tasks'), IsData(tasks'[i], m)
        PROVE  /\ host[m].n < tasks'[i].frame.n /\ tasks'[i].frame.n <= sent[m]
               /\ \A j \in 1..Len(tasks') : i < j /\ IsData(tasks'[j], m)
                                                         => tasks'[i].frame.n < tasks'[j].frame.n
    BY <1>6, <2>1, <2>2 DEF FollowOK, OrderOK
  <2>3. IsGiven(e, m) => m = l /\ IsData(tasks[1], m)
    BY <1>2 DEF IsGiven
  <2>4. IsGiven(e, m) => /\ host[m].n < e.n /\ e.n <= sent[m]
                         /\ \A j \in 1..Len(tasks') : IsData(tasks'[j], m) => e.n < tasks'[j].frame.n
                         /\ \A j \in 1..Len(RxCach) : IsGiven(RxCach[j], m) => RxCach[j].n < e.n
    BY <1>1, <1>2, <1>6, <2>3 DEF FollowOK, OrderOK
  <2>5. ASSUME NEW i \in 1..Len(RxCach'), IsGiven(RxCach'[i], m)
        PROVE  /\ host[m].n < RxCach'[i].n /\ RxCach'[i].n <= sent[m]
               /\ \A j \in 1..Len(RxCach') : i < j /\ IsGiven(RxCach'[j], m)
                                                         => RxCach'[i].n < RxCach'[j].n
               /\ \A j \in 1..Len(tasks') : IsData(tasks'[j], m)
                                                         => RxCach'[i].n < tasks'[j].frame.n
    <3>1. CASE i \in 1..Len(RxCach) /\ RxCach'[i] = RxCach[i]
      <4>1. /\ host[m].n < RxCach[i].n /\ RxCach[i].n <= sent[m]
            /\ \A j \in 1..Len(RxCach) : i < j /\ IsGiven(RxCach[j], m)
                                               => RxCach[i].n < RxCach[j].n
            /\ \A j \in 1..Len(tasks) : IsData(tasks[j], m) => RxCach[i].n < tasks[j].frame.n
        BY <2>5, <3>1 DEF FollowOK, OrderOK
      <4> QED BY <1>5, <1>6, <2>4, <2>5, <3>1, <4>1
    <3>2. CASE i = Len(RxCach) + 1 /\ RxCach'[i] = e
      <4>1. \A j \in 1..Len(RxCach') : ~(i < j)
        BY <1>3, <1>4, <3>2 DEF Longer
      <4> QED BY <2>4, <2>5, <3>2, <4>1
    <3> QED BY <1>5, <3>1, <3>2
  <2>6. host[m].n <= sent[m]
    BY DEF FollowOK, OrderOK
  <2> QED BY <2>2, <2>5, <2>6
<1>10. LinkOK'
  <2> SUFFICES ASSUME NEW m \in Link, slave[m].there, ~late[m]
               PROVE  /\ slave[m].state = 1 \/ AtOnce' => slave[m].setup
                      /\ slave[m].setup => Announced(m, Len(RxCach))'
                      /\ \A i \in 1..Len(RxCach') : IsGiven(RxCach'[i], m)
                              => slave[m].setup /\ Announced(m, i - 1)'
    BY DEF LinkOK
  <2>1. /\ slave[m].state = 1 \/ AtOnce => slave[m].setup
        /\ slave[m].setup => Announced(m, Len(RxCach))
        /\ \A i \in 1..Len(RxCach) : IsGiven(RxCach[i], m) => slave[m].setup /\ Announced(m, i - 1)
    BY DEF FollowOK, LinkOK
  <2>2. \A i \in 0..Len(RxCach), j \in 0..Len(RxCach') : i <= j /\ Announced(m, i) => Announced(m, j)'
    BY <1>1, <1>3, AnnouncedStays
  <2>3. /\ Len(RxCach) \in 0..Len(RxCach) /\ Len(RxCach') \in 0..Len(RxCach')
        /\ Len(RxCach) <= Len(RxCach') /\ Len(RxCach) \in 0..Len(RxCach')
        /\ \A i \in 1..Len(RxCach) : i - 1 \in 0..Len(RxCach) /\ i - 1 \in 0..Len(RxCach')
    BY <1>3, <1>4 DEF Longer
  <2>4. Announced(m, Len(RxCach)) => Announced(m, Len(RxCach))'
    BY <2>2, <2>3
  <2>5. ASSUME NEW i \in 1..Len(RxCach'), IsGiven(RxCach'[i], m)
        PROVE  slave[m].setup /\ Announced(m, i - 1)'
    <3>1. CASE i \in 1..Len(RxCach) /\ RxCach'[i] = RxCach[i]
      BY <2>1, <2>2, <2>3, <2>5, <3>1
    <3>2. CASE i = Len(RxCach) + 1 /\ RxCach'[i] = e
      <4>1. m = l
        BY <1>2, <2>5, <3>2 DEF IsGiven
      <4>2. slave[m].setup /\ Announced(m, Len(RxCach))
        BY <1>7, <2>1, <4>1 DEF Passed
      <4>3. i - 1 \in 0..Len(RxCach') /\ Len(RxCach) <= i - 1
        BY <1>4, <3>2
      <4> QED BY <2>2, <2>3, <4>2, <4>3
    <3> QED BY <1>5, <3>1, <3>2
  <2> QED BY <1>1, <2>1, <2>4, <2>5
<1>11. TaskOK'
  <2>1. \A m \in Link, i \in 1..Len(RxCach') : IsGiven(RxCach'[i], m) =>
              \/ i \in 1..Len(RxCach) /\ RxCach'[i] = RxCach[i]
              \/ IsData(tasks[1], m)
    BY <1>2, <1>5 DEF IsGiven
  <2>2. \A m \in Link : IsSetup(tasks[1], m) => FALSE
    BY DEF IsSetup, IsData
  <2> QED BY <1>1, <2>1, <2>2, TakenOK DEF FollowOK
<1>12. PollsOnly'
  BY <1>1 DEF PollsOnly
<1> QED BY <1>8, <1>9, <1>10, <1>11, <1>12 DEF FollowOK

\* The PDU that completes a set-up: nothing, or the event and the new state of the link.
LEMMA TaskSetupOK ==
    ASSUME TypeOK, TypeOK', Exact, Modes, FollowOK, Task_ThreadRoutine,
           IsSetup(tasks[1], tasks[1].frame.link), LMP_setup_complete(tasks[1].frame)
    PROVE  FollowOK'
<1> DEFINE l == tasks[1].frame.link
           e == [what |-> "COMPLETE", link |-> l, call |-> slave[l].call, n |-> 0]
           g == [what |-> "GONE", link |-> l, call |-> tasks[1].frame.call, n |-> 0]
<1>1. /\ UNCHANGED << air, sent, usb, RxState, host >> /\ usb.mode = "none"
      /\ Shorter(tasks, tasks') /\ 1 \in 1..Len(tasks) /\ l \in Link
      /\ tasks[1].frame \in Frame /\ (AtOnce' => AtOnce)
  BY TaskStep DEF IsSetup
<1>2. ~IsPoll(tasks[1], l) /\ ~IsData(tasks[1], l) /\ \A m \in Link : IsSetup(tasks[1], m) => m = l
  BY DEF IsPoll, IsSetup, IsData
<1>3. CASE slave[l].there /\ ~slave[l].setup
  <2>1. PutEvent(e) /\ Hci_SlaveConnected(l)
    BY <1>3 DEF LMP_setup_complete
  <2>2. e \in Element
    <3>1. slave[l].call \in 1..MaxCalls
      BY <1>1 DEF TypeOK
    <3> QED BY <1>1, <3>1 DEF Element
  <2>3. e.what # "DATA" /\ e.call = air[e.link].call /\ IsComplete(e, l)
    BY <1>1, <1>3 DEF FollowOK, CurrentOK, IsComplete
  <2> HIDE DEF e
  <2>4. \A m \in Link : /\ slave'[m].there = slave[m].there /\ slave'[m].call = slave[m].call
                        /\ \/ /\ slave'[m].setup = slave[m].setup
                              /\ slave'[m].state = slave[m].state
                           \/ m = l /\ slave'[m].setup
                        /\ m = l => slave'[m].setup
    <3> DEFINE k == IF slave[l].timer > 0 THEN ConnectedTicks ELSE 0
               n == IF slave[l].timer > 0 THEN 0 ELSE slave[l].state
    <3>1. slave' = [slave EXCEPT ![l] = [slave[l] EXCEPT !.setup = TRUE, !.timer = k, !.state = n]]
      BY ZenonT(20), <2>1, <1>1 DEF Hci_SlaveConnected, TypeOK
    <3> HIDE DEF k, n
    <3>2. DOMAIN slave = Link /\ slave[l] \in Entry
      BY <1>1 DEF TypeOK, Entry
    <3>3. \A m \in Link : m # l => slave'[m] = slave[m]
      BY <3>1, <3>2
    <3>4. slave'[l] = [slave[l] EXCEPT !.setup = TRUE, !.timer = k, !.state = n]
      BY <1>1, <3>1, <3>2
    <3>5. slave'[l].setup /\ slave'[l].there = slave[l].there /\ slave'[l].call = slave[l].call
      BY <3>2, <3>4 DEF Entry
    <3> QED BY <3>3, <3>5
  <2> QED BY <1>2, <1>3, <2>1, <2>2, <2>3, <2>4, TaskEventOK
<1>4. CASE ~(slave[l].there /\ ~slave[l].setup)
  <2>1. UNCHANGED << RxCach, taskletRcv, delayed, late, slave >>
    BY <1>4 DEF LMP_setup_complete
  <2>2. CurrentOK' /\ OrderOK'
    <3>1. g \in Element /\ g.what # "DATA" /\ g.call = air[g.link].call
      BY <1>1 DEF Element, Frame, FollowOK, CurrentOK
    <3>2. \A m \in Link : slave'[m].there => slave'[m].call = air[m].call
      BY <2>1 DEF FollowOK, CurrentOK
    <3> HIDE DEF g
    <3> QED BY <1>1, <2>1, <3>1, <3>2, EventOrder DEF FollowOK
  <2>3. LinkOK'
    <3>1. \A m, i : Announced(m, i)' <=> Announced(m, i)
      BY <1>1, <2>1 DEF Announced
    <3> QED BY <1>1, <2>1, <3>1 DEF FollowOK, LinkOK
  <2>4. TaskOK'
    <3>1. \A m \in Link : IsSetup(tasks[1], m) /\ slave'[m].there => slave'[m].setup
      BY <1>2, <1>4, <2>1
    <3> QED BY <1>1, <2>1, <3>1, TakenOK DEF FollowOK
  <2>5. PollsOnly'
    BY <1>1 DEF PollsOnly
  <2> QED BY <2>2, <2>3, <2>4, <2>5 DEF FollowOK
<1> QED BY <1>3, <1>4

\* The worker takes a task.
LEMMA WorkerOK ==
    ASSUME TypeOK, TypeOK', Exact, Modes, FollowOK, Task_ThreadRoutine
    PROVE  FollowOK'
<1> DEFINE t == tasks[1]
<1>1. /\ 1 \in 1..Len(tasks) /\ t \in Task /\ Head(tasks) = t
      /\ t.event # "SEND" => t.frame \in Frame
      /\ t.event = "SEND" => t.frame \in Element
  BY TaskStep
<1>2. \/ t.event = "RX_INT" /\ BtTaskProcessRx(t.frame)
      \/ t.event = "RX_FHS" /\ BtTaskProcessRxPoolFrame(t.frame)
      \/ t.event = "RX_LMP" /\ LMP_setup_complete(t.frame)
      \/ t.event = "SEND" /\ PutEvent(t.frame) /\ UNCHANGED << slave, sched_list >>
  BY <1>1 DEF Task_ThreadRoutine
<1>3. CASE IsPoll(t, t.frame.link) /\ BtTaskProcessRxPoolFrame(t.frame)
  BY <1>3, TaskPollOK
<1>4. CASE IsSetup(t, t.frame.link) /\ LMP_setup_complete(t.frame)
  BY <1>4, TaskSetupOK
<1>5. CASE IsData(t, t.frame.link) /\ PutData(t.frame) /\ UNCHANGED << delayed, late, slave >>
  BY <1>5, TaskDataOK
<1>6. CASE t.event = "SEND" /\ PutEvent(t.frame) /\ UNCHANGED << slave, sched_list >>
  <2>1. /\ t.frame \in Element /\ t.frame.what # "DATA" /\ t.frame.call = air[t.frame.link].call
    BY <1>1, <1>6 DEF FollowOK, CurrentOK
  <2>2. ~IsPoll(t, t.frame.link) /\ ~IsData(t, t.frame.link)
        /\ \A m \in Link : ~IsSetup(t, m)
    BY <1>6 DEF IsPoll, IsData, IsSetup
  <2> QED BY <1>6, <2>1, <2>2, TaskEventOK
<1> QED BY <1>2, <1>3, <1>4, <1>5, <1>6 DEF BtTaskProcessRx, IsPoll, IsSetup, IsData

\* What the host learns from the first element of the ring.
LEMMA HandEffect ==
    ASSUME TypeOK, NEW e \in Element, HandUp(e)
    PROVE  /\ \A m \in Link \ {e.link} : host'[m] = host[m]
           /\ host'[e.link].n = IF e.what = "DATA" THEN e.n ELSE host[e.link].n
           /\ host'[e.link].call = IF e.what = "COMPLETE" THEN e.call ELSE host[e.link].call
<1>1. e.link \in Link /\ e.what \in {"DATA", "COMPLETE", "GONE"}
  BY DEF Element
<1>2. /\ host[e.link] \in [open : BOOLEAN, call : 0..MaxCalls, n : Nat]
      /\ DOMAIN host = Link
  BY <1>1 DEF TypeOK
<1>3. CASE e.what = "COMPLETE"
  <2>1. host' = [host EXCEPT ![e.link] = [open |-> TRUE, call |-> e.call, n |-> host[e.link].n]]
    BY <1>3 DEF HandUp
  <2> QED BY <1>1, <1>2, <1>3, <2>1
<1>4. CASE e.what = "GONE"
  <2>1. host' = [host EXCEPT ![e.link] = [host[e.link] EXCEPT !.open = FALSE]]
    BY <1>4 DEF HandUp
  <2>2. LET h == [host[e.link] EXCEPT !.open = FALSE]
        IN  h.n = host[e.link].n /\ h.call = host[e.link].call
    BY <1>2
  <2> QED BY <1>1, <1>2, <1>4, <2>1, <2>2
<1>5. CASE e.what = "DATA"
  <2>1. host' = [host EXCEPT ![e.link] = [host[e.link] EXCEPT !.n = e.n]]
    BY <1>5 DEF HandUp
  <2>2. LET h == [host[e.link] EXCEPT !.n = e.n]
        IN  h.n = e.n /\ h.call = host[e.link].call
    BY <1>2
  <2> QED BY <1>1, <1>2, <1>5, <2>1, <2>2
<1> QED BY <1>1, <1>3, <1>4, <1>5

\* The tasklet takes the first element of the ring.
LEMMA RcvEffect ==
    ASSUME TypeOK, BtProcessRx_skb, RxCach # << >>
    PROVE  /\ Shorter(RxCach, RxCach') /\ 1 \in 1..Len(RxCach)
           /\ RxCach[1] \in Element /\ RxCach[1].link \in Link
           /\ \A m \in Link \ {RxCach[1].link} : host'[m] = host[m]
           /\ LET m == RxCach[1].link
              IN  /\ host'[m].n = host[m].n \/ (host'[m].n = RxCach[1].n /\ IsGiven(RxCach[1], m)
                                                /\ slave[m].there)
                  /\ host'[m].call = host[m].call \/ host'[m].call = RxCach[1].call
                  /\ IsComplete(RxCach[1], m) => host'[m].call = RxCach[1].call
<1>1. RxCach \in Seq(Element) /\ RxCach' = Tail(RxCach)
  BY DEF TypeOK, BtProcessRx_skb
<1>2. Shorter(RxCach, RxCach') /\ 1 \in 1..Len(RxCach) /\ Head(RxCach) = RxCach[1]
  BY <1>1, TailShorter
<1>3. RxCach[1] \in Element /\ RxCach[1].link \in Link
  BY <1>2, Types
<1> DEFINE e == RxCach[1]
<1>4. \/ e.what = "DATA" /\ host' = host
      \/ e.what = "DATA" /\ slave[e.link].there /\ HandUp(e)
      \/ e.what # "DATA" /\ HandUp(e)
  BY <1>2 DEF BtProcessRx_skb
<1>5. IsGiven(e, e.link) <=> e.what = "DATA"
  BY DEF IsGiven
<1>6. IsComplete(e, e.link) <=> e.what = "COMPLETE"
  BY DEF IsComplete
<1>7. HandUp(e) => /\ \A m \in Link \ {e.link} : host'[m] = host[m]
                   /\ host'[e.link].n = IF e.what = "DATA" THEN e.n ELSE host[e.link].n
                   /\ host'[e.link].call = IF e.what = "COMPLETE" THEN e.call
                                                                  ELSE host[e.link].call
  BY <1>3, HandEffect
<1> HIDE DEF e
<1>8. /\ \A m \in Link \ {e.link} : host'[m] = host[m]
      /\ \/ host'[e.link].n = host[e.link].n
         \/ host'[e.link].n = e.n /\ IsGiven(e, e.link) /\ slave[e.link].there
      /\ host'[e.link].call = host[e.link].call \/ host'[e.link].call = e.call
      /\ IsComplete(e, e.link) => host'[e.link].call = e.call
  BY <1>4, <1>5, <1>6, <1>7
<1> QED BY <1>2, <1>3, <1>8 DEF e

\* The ring shifts by one.
LEMMA RcvOK ==
    ASSUME TypeOK, TypeOK', FollowOK, BtProcessRx_skb
    PROVE  FollowOK'
<1>1. UNCHANGED << air, sent, usb, RxState, tasks, delayed, worker, slave, late >>
  BY DEF BtProcessRx_skb
<1>2. CASE RxCach = << >>
  <2>1. UNCHANGED << RxCach, host >>
    BY <1>2 DEF BtProcessRx_skb
  <2> QED BY <1>1, <2>1, RelatedOK DEF FollowOK, LinkOK, AtOnce
<1>3. CASE RxCach # << >>
  <2> DEFINE l == RxCach[1].link
  <2>1. /\ Shorter(RxCach, RxCach') /\ 1 \in 1..Len(RxCach) /\ l \in Link
        /\ \A m \in Link \ {l} : host'[m] = host[m]
        /\ host'[l].n = host[l].n \/ (host'[l].n = RxCach[1].n /\ IsGiven(RxCach[1], l))
        /\ host'[l].call = host[l].call \/ host'[l].call = RxCach[1].call
        /\ IsComplete(RxCach[1], l) => host'[l].call = RxCach[1].call
    BY <1>3, RcvEffect
  <2>2. /\ Len(RxCach) \in Nat /\ Len(RxCach') \in Nat /\ Len(RxCach) = Len(RxCach') + 1
    BY <2>1, Types, NextLengths DEF Shorter
  <2>3. \A i \in 1..Len(RxCach') : i + 1 \in 1..Len(RxCach) /\ RxCach'[i] = RxCach[i + 1] /\ 1 < i + 1
    BY <2>1, <2>2 DEF Shorter
  <2>4. CurrentOK'
    BY <1>1, <2>3 DEF FollowOK, CurrentOK
  <2>5. OrderOK'
    <3> SUFFICES ASSUME NEW m \in Link
                 PROVE  /\ host'[m].n <= sent[m]
                        /\ \A i \in 1..Len(RxCach') : IsGiven(RxCach'[i], m) =>
                             /\ host'[m].n < RxCach'[i].n /\ RxCach'[i].n <= sent[m]
                             /\ \A j \in 1..Len(RxCach') : i < j /\ IsGiven(RxCach'[j], m)
                                                           => RxCach'[i].n < RxCach'[j].n
                             /\ \A j \in 1..Len(tasks) : IsData(tasks[j], m)
                                                           => RxCach'[i].n < tasks[j].frame.n
                        /\ \A i \in 1..Len(tasks) : IsData(tasks[i], m) =>
                             /\ host'[m].n < tasks[i].frame.n /\ tasks[i].frame.n <= sent[m]
                             /\ \A j \in 1..Len(tasks) : i < j /\ IsData(tasks[j], m)
                                                           => tasks[i].frame.n < tasks[j].frame.n
      BY <1>1 DEF OrderOK
    <3>1. \A i, j \in 1..Len(RxCach') : i < j => i + 1 < j + 1
      BY <2>2
    <3>2. host'[m].n = host[m].n \/ (host'[m].n = RxCach[1].n /\ IsGiven(RxCach[1], m))
      BY <2>1
    <3>3. CASE host'[m].n = host[m].n
      BY <2>3, <3>1, <3>3 DEF FollowOK, OrderOK
    <3>4. CASE host'[m].n = RxCach[1].n /\ IsGiven(RxCach[1], m)
      BY <2>1, <2>3, <3>1, <3>4 DEF FollowOK, OrderOK
    <3> QED BY <3>2, <3>3, <3>4
  <2>6. LinkOK'
    <3> SUFFICES ASSUME NEW m \in Link, slave[m].there, ~late[m]
                 PROVE  /\ slave[m].state = 1 \/ AtOnce' => slave[m].setup
                        /\ slave[m].setup => Announced(m, Len(RxCach))'
                        /\ \A i \in 1..Len(RxCach') : IsGiven(RxCach'[i], m)
                                => slave[m].setup /\ Announced(m, i - 1)'
      BY <1>1 DEF LinkOK
    <3>1. /\ slave[m].state = 1 \/ AtOnce => slave[m].setup
          /\ slave[m].setup => Announced(m, Len(RxCach))
          /\ \A i \in 1..Len(RxCach) : IsGiven(RxCach[i], m) => slave[m].setup /\ Announced(m, i - 1)
      BY DEF FollowOK, LinkOK
    <3>2. AtOnce' => AtOnce
      BY <1>1 DEF AtOnce
    <3>3. RxCach[1].call = air[l].call /\ slave[m].call = air[m].call
      BY <2>1 DEF FollowOK, CurrentOK
    <3>4. host[m].call = slave[m].call => host'[m].call = slave[m].call
      BY <2>1, <3>3
    <3>5. ASSUME NEW i \in 0..Len(RxCach'), Announced(m, i + 1) PROVE Announced(m, i)'
      <4>1. CASE host[m].call = slave[m].call
        BY <1>1, <3>4, <4>1 DEF Announced
      <4>2. ASSUME NEW k \in 1..i+1, IsComplete(RxCach[k], m) PROVE Announced(m, i)'
        <5>1. CASE k = 1
          <6>1. m = l /\ host'[m].call = slave[m].call
            BY <2>1, <3>3, <4>2, <5>1 DEF IsComplete
          <6> QED BY <1>1, <6>1 DEF Announced
        <5>2. CASE k # 1
          <6>1. k - 1 \in 1..i /\ k - 1 \in 1..Len(RxCach') /\ (k - 1) + 1 = k
            BY <2>2, <4>2, <5>2
          <6>2. IsComplete(RxCach'[k - 1], m)
            BY <2>3, <4>2, <6>1
          <6> QED BY <6>1, <6>2 DEF Announced
        <5> QED BY <5>1, <5>2
      <4> QED BY <3>5, <4>1, <4>2 DEF Announced
    <3>6. slave[m].setup => Announced(m, Len(RxCach))'
      <4>1. Len(RxCach') \in 0..Len(RxCach') /\ Len(RxCach') + 1 = Len(RxCach)
        BY <2>2
      <4>2. slave[m].setup => Announced(m, Len(RxCach') + 1)
        BY <3>1, <4>1
      <4> DEFINE k == Len(RxCach')
      <4> QED BY <3>5, <4>1, <4>2
    <3>7. ASSUME NEW i \in 1..Len(RxCach'), IsGiven(RxCach'[i], m)
          PROVE  slave[m].setup /\ Announced(m, i - 1)'
      <4>1. i - 1 \in 0..Len(RxCach') /\ (i + 1) - 1 = (i - 1) + 1
        BY <2>2
      <4>2. slave[m].setup /\ Announced(m, (i + 1) - 1)
        BY <2>3, <3>1, <3>7
      <4> QED BY <3>5, <4>1, <4>2
    <3> QED BY <3>1, <3>2, <3>6, <3>7
  <2>7. TaskOK'
    <3>1. \A m : Passed(m)' <=> Passed(m)
      BY <1>1 DEF Passed
    <3> QED BY <1>1, <2>3, <3>1 DEF FollowOK, TaskOK
  <2>8. PollsOnly'
    BY <1>1 DEF FollowOK, PollsOnly
  <2> QED BY <2>4, <2>5, <2>6, <2>7, <2>8 DEF FollowOK
<1> QED BY <1>2, <1>3

\* Every step keeps the order.
LEMMA NextFollow ==
    TypeOK /\ TypeOK' /\ Exact /\ Modes /\ FollowOK /\ [Next]_vars => FollowOK'
<1> SUFFICES ASSUME TypeOK, TypeOK', Exact, Modes, FollowOK, [Next]_vars PROVE FollowOK'
  OBVIOUS
<1>1. ASSUME NEW l \in Link, NEW kind \in {"POLL", "SETUP", "DATA"}, air[l].call > 0,
             LET f == [kind |-> kind, link |-> l, call |-> air[l].call,
                       n |-> IF kind = "DATA" THEN sent[l] + 1 ELSE 0]
             IN  BtProcessRx_New(f) \/ BtPreProcessPacket(f)
      PROVE  FollowOK'
  <2> DEFINE f == [kind |-> kind, link |-> l, call |-> air[l].call,
                   n |-> IF kind = "DATA" THEN sent[l] + 1 ELSE 0]
  <2>1. f \in Frame
    BY <1>1, ReceiveFrame
  <2>2. f.call = air[f.link].call /\ (f.kind = "DATA" => f.n = sent[f.link] + 1)
    OBVIOUS
  <2>3. BtProcessRx_New(f) \/ BtPreProcessPacket(f)
    BY <1>1
  <2> HIDE DEF f
  <2> QED BY <2>1, <2>2, <2>3, NewOK, PreOK
<1>2. CASE Receive
  BY <1>1, <1>2, StillOK DEF Receive
<1>3. CASE Worker
  BY <1>3, WorkerOK, StillOK, DeleteOK DEF Worker
<1>4. CASE UNCHANGED vars
  BY <1>4, StillOK
<1> QED BY <1>2, <1>3, <1>4, PageOK, DisconnectOK, DelayOK, RcvOK, StillOK DEF Next

\* Nothing is under way in the beginning; the links known are set up and announced.
LEMMA InitFollow == Init => FollowOK
<1> SUFFICES ASSUME Init PROVE FollowOK
  OBVIOUS
<1>1. tasks = << >> /\ RxCach = << >> /\ delayed = {} /\ usb.mode = "none"
  BY DEF Init, NoTransfer
<1>2. \A l \in Link : /\ slave[l].there => /\ l \in Known /\ slave[l].call = 1 /\ slave[l].setup
                      /\ l \in Known => air[l].call = 1 /\ host[l].call = 1
                      /\ host[l].n = 0 /\ sent[l] = 0
                      /\ air[l].phase \in {"open", "away"}
  BY DEF Init, Absent
<1>3. Len(tasks) = 0 /\ Len(RxCach) = 0
  BY <1>1
<1>4. CurrentOK
  BY <1>1, <1>2, <1>3 DEF CurrentOK
<1>5. OrderOK
  BY <1>2, <1>3 DEF OrderOK
<1>6. LinkOK
  BY <1>2, <1>3 DEF LinkOK, Announced
<1>7. TaskOK
  BY <1>2, <1>3 DEF TaskOK, Passed
<1>8. PollsOnly
  BY <1>1 DEF PollsOnly
<1> QED BY <1>4, <1>5, <1>6, <1>7, <1>8 DEF FollowOK

\* Data handed to the host carry on the order they came in, and belong to the connection
\* the host was told of, unless its set-up or its event was late.
LEMMA HandedOK ==
    ASSUME TypeOK, FollowOK, [Next]_vars, NEW l \in Link, host'[l].n # host[l].n
    PROVE  host'[l].n > host[l].n /\ (slave[l].call = host[l].call \/ late[l])
<1>1. BtProcessRx_skb /\ RxCach # << >>
  <2>1. Receive => host' = host
    <3>1. \A f : BtProcessRx_New(f) \/ BtPreProcessPacket(f) => host' = host
      BY DEF BtProcessRx_New, BtPreProcessPacket
    <3>2. Usb_ReadCompletion \/ BtUsbSubmitReadIrp => host' = host
      BY DEF Usb_ReadCompletion, BtUsbSubmitReadIrp
    <3> QED BY <3>1, <3>2 DEF Receive
  <2>2. Worker => host' = host
    BY DEF Worker, Task_ThreadRoutine, CountTask, BtCheckAndChangeRxState, ChangeRxState,
           Hci_Del_Slave_Connect_Device
  <2>3. \A m \in Link : Page(m) \/ SendDisconnection(m) => host' = host
    BY DEF Page, SendDisconnection
  <2>4. DelayOver \/ Hci_SlaveConnectionTimeOut \/ Sched_Excute \/ UNCHANGED vars => host' = host
    BY DEF DelayOver, Hci_SlaveConnectionTimeOut, Sched_Excute, vars
  <2>5. BtProcessRx_skb /\ RxCach = << >> => host' = host
    BY DEF BtProcessRx_skb
  <2> QED BY <2>1, <2>2, <2>3, <2>4, <2>5 DEF Next
<1>2. /\ 1 \in 1..Len(RxCach) /\ l = RxCach[1].link /\ IsGiven(RxCach[1], l)
      /\ host'[l].n = RxCach[1].n /\ slave[l].there
  BY <1>1, RcvEffect
<1>3. host[l].n < RxCach[1].n /\ host[l].n \in Nat /\ RxCach[1].n \in Nat
  BY <1>2, Types DEF FollowOK, OrderOK
<1>4. ~late[l] => Announced(l, 0)
  <2>1. 1 - 1 = 0
    OBVIOUS
  <2>2. ~late[l] => Announced(l, 1 - 1)
    BY <1>2 DEF FollowOK, LinkOK
  <2> QED BY <2>1, <2>2
<1>5. Announced(l, 0) => host[l].call = slave[l].call
  BY DEF Announced
<1> QED BY <1>2, <1>3, <1>4, <1>5

\* Data of a connection are handed to the host after its Connection Complete event and in
\* the order they came.
THEOREM DataStayBehind == Spec => DataFollowConnection
<1> DEFINE IInv == TypeOK /\ Exact /\ Modes /\ FollowOK
           Follow == \A l \in Link : host'[l].n # host[l].n =>
                       /\ host'[l].n > host[l].n
                       /\ slave[l].call = host[l].call \/ late[l]
<1>1. Init => IInv
  BY InitType, InitCount, InitFollow
<1>2. IInv /\ [Next]_vars => IInv'
  BY NextType, NextCount, NextFollow
<1>3. IInv /\ [Next]_vars => [Follow]_vars
  BY HandedOK
<1>4. (Spec => [][Follow]_vars) <=> (Spec => DataFollowConnection)
  BY DEF DataFollowConnection
<1> HIDE DEF IInv, Follow
<1>5. Spec => [][Follow]_vars
  BY <1>1, <1>2, <1>3, PTL DEF Spec
<1> QED BY <1>4, <1>5
=============================================================================
