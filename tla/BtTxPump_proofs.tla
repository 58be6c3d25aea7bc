--------------------------- MODULE BtTxPump_proofs ---------------------------
(***************************************************************************)
(* Proofs about BtTxPump, for any number of packets, connections, lists    *)
(* and queries under way, and for either specification: the transmit       *)
(* buffer follows its transfer, and the card is never given more than it   *)
(* can hold; neither depends on the elements, which come after: typing,    *)
(* that an element is in one place, and that the packets of a connection   *)
(* are sent in order.                                                      *)
(***************************************************************************)
EXTENDS BtTxPump, FiniteSetTheorems, TLAPS

-----------------------------------------------------------------------------
(* The inductive invariant.                                                *)

CardTypeOK ==
    /\ pump.pc \in PumpPC /\ pump.i \in 0..Len(Lists)
    /\ AclProcCounter \in 0..Len(Lists)-1
    /\ TxPool \in BOOLEAN /\ urb \in List \cup {None}
    /\ IdleSpace \in [List -> 0..MaxSpace]
    /\ complete_q \in Seq(Space \cup {Written})
    /\ fill \in [List -> Nat]

\* A write completion waits at place i.
WrittenAt(i) == i \in 1..Len(complete_q) /\ complete_q[i] = Written

Round == {"take", "write", "put", "back"}

\* A round only goes on with a free buffer, at a list that is there.
RoundOK ==
    /\ pump.pc \in {"find", "take", "write", "back"} => ~TxPool
    /\ pump.pc \in Round => pump.i < Len(Lists)

\* There is one transfer at most: with the USB stack or completed.
OneTransfer ==
    /\ TxPool <=> urb # None \/ \E i \in 1..Len(complete_q) : WrittenAt(i)
    /\ urb # None => \A i \in 1..Len(complete_q) : ~WrittenAt(i)
    /\ \A i, j \in 1..Len(complete_q) : WrittenAt(i) /\ WrittenAt(j) => i = j

\* What the card reports may be relied on unless a write completion comes
\* after the report in complete_q.
ReportsOK ==
    \A i \in 1..Len(complete_q) :
       /\ complete_q[i] \in Space
       /\ \A j \in i..Len(complete_q) : ~WrittenAt(j)
       => \A l \in List : complete_q[i].room[l] + fill[l] <= MaxSpace

\* So may the driver's view in a round with a free buffer.
ViewOK == pump.pc \in {"check", "find", "take", "write", "back"} /\ ~TxPool
            => \A l \in List : IdleSpace[l] + fill[l] <= MaxSpace

RoomOK == /\ \A l \in List : fill[l] <= MaxSpace
          /\ urb # None => fill[urb] + 1 <= MaxSpace

CInv == CardTypeOK /\ RoundOK /\ OneTransfer /\ ReportsOK /\ ViewOK /\ RoomOK

related == << pumping, TxPool, urb, IdleSpace, complete_q, fill >>

-----------------------------------------------------------------------------
(* Facts about lists, records and sequences.                               *)

LEMMA ListsFacts ==
    /\ Len(Lists) \in Nat /\ Len(Lists) >= 1
    /\ None \notin List /\ MaxSpace \in Nat \ {0}
<1>1. Lists \in Seq(List) /\ MasterList \in List
  BY PumpAssumption
<1>2. PICK i \in 1..Len(Lists) : MasterList = Lists[i]
  BY <1>1 DEF List
<1> QED BY <1>1, <1>2, PumpAssumption

LEMMA ModRange ==
    ASSUME NEW a \in Nat, NEW n \in Nat, n >= 1
    PROVE  a % n \in 0..n-1
  OBVIOUS

\* The list a round looks at is one of the lists.
LEMMA ThisListType ==
    ASSUME CardTypeOK
    PROVE  ThisList \in List
<1>1. /\ Len(Lists) \in Nat /\ Len(Lists) >= 1
      /\ pump.i + AclProcCounter \in Nat
  BY ListsFacts DEF CardTypeOK
<1>2. (pump.i + AclProcCounter) % Len(Lists) \in 0..Len(Lists)-1
  BY <1>1, ModRange
<1>3. ((pump.i + AclProcCounter) % Len(Lists)) + 1 \in 1..Len(Lists)
  BY <1>1, <1>2
<1> QED BY <1>3 DEF ThisList, List

LEMMA SpaceIsNotWritten == \A s \in Space : s # Written /\ s.type = "space"
<1>1. \A s \in Space : s.type = "space"
  BY DEF Space
<1>2. Written.type = "write"
  BY DEF Written
<1> QED BY <1>1, <1>2

LEMMA TailFacts ==
    ASSUME NEW S, NEW s \in Seq(S), s # << >>
    PROVE  /\ Head(s) = s[1] /\ Head(s) \in S /\ Tail(s) \in Seq(S)
           /\ Len(s) \in Nat /\ Len(s) >= 1 /\ Len(Tail(s)) = Len(s) - 1
           /\ \A i \in 1..Len(Tail(s)) : Tail(s)[i] = s[i + 1]
  OBVIOUS

LEMMA AppendFacts ==
    ASSUME NEW S, NEW s \in Seq(S), NEW e \in S
    PROVE  /\ Append(s, e) \in Seq(S)
           /\ Len(s) \in Nat /\ Len(Append(s, e)) = Len(s) + 1
           /\ \A i \in 1..Len(s) : Append(s, e)[i] = s[i]
           /\ Append(s, e)[Len(s) + 1] = e
  OBVIOUS

-----------------------------------------------------------------------------
LEMMA InitCInv == Init => CInv
<1> SUFFICES ASSUME Init PROVE CInv
  OBVIOUS
<1> USE ListsFacts
<1>1. complete_q \in Seq(Space \cup {Written}) /\ Len(complete_q) = 0
  BY DEF Init
<1>2. IdleSpace \in [List -> 0..MaxSpace] /\ fill \in [List -> Nat]
  BY DEF Init
<1>3. /\ pump.pc = "idle" /\ pump.i = 0 /\ AclProcCounter = 0
      /\ TxPool = FALSE /\ urb = None
  BY DEF Init
<1>4. CardTypeOK
  <2>1. pump.pc \in PumpPC /\ pump.i \in 0..Len(Lists) /\ AclProcCounter \in 0..Len(Lists)-1
    BY <1>3 DEF PumpPC
  <2>2. TxPool \in BOOLEAN /\ urb \in List \cup {None}
    BY <1>3
  <2> QED BY <1>1, <1>2, <2>1, <2>2 DEF CardTypeOK
<1> QED BY <1>1, <1>3, <1>4 DEF Init, CInv, RoundOK, OneTransfer, ReportsOK, ViewOK, RoomOK, Round

\* Steps of other parts.
LEMMA KeepUnrelated ==
    ASSUME CInv, UNCHANGED related
    PROVE  CInv'
  BY DEF CInv, related, pumping, CardTypeOK, RoundOK, OneTransfer, ReportsOK, ViewOK, RoomOK, WrittenAt

\* Steps of the pump that submit nothing.
LEMMA KeepPump ==
    ASSUME CInv, UNCHANGED << TxPool, urb, IdleSpace, complete_q, fill >>,
           pump'.pc \in PumpPC, pump'.i \in 0..Len(Lists),
           AclProcCounter' \in 0..Len(Lists)-1,
           pump'.pc \in {"find", "take", "write", "back"} =>
              ~TxPool /\ pump.pc \in {"check", "find", "take", "write", "back"},
           pump'.pc # "check",
           pump'.pc \in Round => pump'.i < Len(Lists)
    PROVE  CInv'
  BY DEF CInv, CardTypeOK, RoundOK, OneTransfer, ReportsOK, ViewOK, RoomOK, WrittenAt

\* A report becomes the driver's view.
LEMMA KeepSpaceInt ==
    ASSUME CInv, Frag_ProcessSpaceInt
    PROVE  CInv'
<1> USE DEF CInv
<1>1. complete_q # << >> /\ complete_q \in Seq(Space \cup {Written})
  BY DEF Frag_ProcessSpaceInt, CardTypeOK
<1>2. /\ Head(complete_q) = complete_q[1] /\ Head(complete_q) \in Space \cup {Written}
      /\ complete_q' = Tail(complete_q) /\ complete_q' \in Seq(Space \cup {Written})
      /\ Len(complete_q) \in Nat /\ Len(complete_q) >= 1
      /\ Len(complete_q') = Len(complete_q) - 1
      /\ \A i \in 1..Len(complete_q') : complete_q'[i] = complete_q[i + 1]
  BY <1>1, TailFacts DEF Frag_ProcessSpaceInt
<1>3. /\ complete_q[1] \in Space /\ ~WrittenAt(1)
      /\ complete_q[1].room \in [List -> 0..MaxSpace]
      /\ IdleSpace' = complete_q[1].room
  <2>1. complete_q[1] # Written
    BY <1>2 DEF Frag_ProcessSpaceInt, Written
  <2> QED BY <2>1, <1>2 DEF Frag_ProcessSpaceInt, WrittenAt, Space
<1>4. /\ pump'.pc = "check" /\ pump'.i = 0
      /\ UNCHANGED << AclProcCounter, TxPool, urb, fill >>
  BY DEF Frag_ProcessSpaceInt, ResumePump, bulk
<1>5. \A i \in 1..Len(complete_q') : WrittenAt(i)' <=> WrittenAt(i + 1)
  BY <1>2 DEF WrittenAt
<1>6. (\E i \in 1..Len(complete_q') : WrittenAt(i)')
        <=> \E i \in 1..Len(complete_q) : WrittenAt(i)
  <2>1. ASSUME NEW i \in 1..Len(complete_q), WrittenAt(i)
        PROVE  i - 1 \in 1..Len(complete_q') /\ WrittenAt(i - 1)'
    <3>1. i # 1
      BY <1>3, <2>1
    <3>2. i - 1 \in 1..Len(complete_q')
      BY <3>1, <1>2
    <3> QED BY <3>2, <1>5, <2>1, <1>2
  <2> QED BY <2>1, <1>2, <1>5
<1>7. CardTypeOK'
  BY <1>2, <1>3, <1>4 DEF CardTypeOK, PumpPC
<1>8. RoundOK'
  BY <1>4 DEF RoundOK, Round
<1>9. OneTransfer'
  BY <1>2, <1>4, <1>5, <1>6 DEF OneTransfer
<1>10. ReportsOK'
  <2> SUFFICES ASSUME NEW i \in 1..Len(complete_q'), complete_q'[i] \in Space,
                      \A j \in i..Len(complete_q') : ~WrittenAt(j)',
                      NEW l \in List
               PROVE  complete_q'[i].room[l] + fill'[l] <= MaxSpace
    BY <1>4 DEF ReportsOK
  <2>1. ASSUME NEW j \in (i + 1)..Len(complete_q) PROVE ~WrittenAt(j)
    <3>1. /\ j - 1 \in i..Len(complete_q') /\ j - 1 \in 1..Len(complete_q')
          /\ (j - 1) + 1 = j
      BY <1>2
    <3>2. WrittenAt(j - 1)' <=> WrittenAt((j - 1) + 1)
      BY <3>1, <1>5
    <3> QED BY <3>1, <3>2
  <2> QED BY <2>1, <1>2, <1>4 DEF ReportsOK
<1>11. ViewOK'
  <2> SUFFICES ASSUME ~TxPool, NEW l \in List
               PROVE  IdleSpace'[l] + fill'[l] <= MaxSpace
    BY <1>4 DEF ViewOK
  <2>1. \A j \in 1..Len(complete_q) : ~WrittenAt(j)
    BY DEF OneTransfer
  <2> QED BY <2>1, <1>2, <1>3, <1>4 DEF ReportsOK
<1>12. RoomOK'
  BY <1>4 DEF RoomOK
<1> QED BY <1>7, <1>8, <1>9, <1>10, <1>11, <1>12

\* One write is submitted: it was known to fit.
LEMMA KeepSubmit ==
    ASSUME CInv, NEW l \in List, Submit(l), ~TxPool, IdleSpace[l] > 1,
           pump.pc \in {"check", "write"},
           UNCHANGED << complete_q, fill, AclProcCounter >>,
           pump'.pc \in {"done", "put"}, pump'.i \in 0..Len(Lists),
           pump'.pc = "put" => pump'.i < Len(Lists)
    PROVE  CInv'
<1> USE DEF CInv
<1>1. /\ TxPool' = TRUE /\ urb' = l /\ urb' # None
      /\ IdleSpace' = [IdleSpace EXCEPT ![l] = @ - 1]
  BY ListsFacts DEF Submit
<1>2. \A i \in 1..Len(complete_q) : ~WrittenAt(i)
  BY DEF OneTransfer
<1>3. /\ \A i \in 1..Len(complete_q') : ~WrittenAt(i)'
      /\ \A i \in 1..Len(complete_q) : WrittenAt(i)' <=> WrittenAt(i)
  BY <1>2 DEF WrittenAt
<1>4. IdleSpace' \in [List -> 0..MaxSpace]
  BY <1>1, ListsFacts DEF CardTypeOK
<1>5. CardTypeOK'
  BY <1>1, <1>4, ListsFacts DEF CardTypeOK, PumpPC
<1>6. RoundOK'
  BY <1>1 DEF RoundOK, Round
<1>7. OneTransfer'
  BY <1>1, <1>3 DEF OneTransfer
<1>8. ReportsOK' /\ ViewOK'
  BY <1>1, <1>3 DEF ReportsOK, ViewOK
<1>9. RoomOK'
  <2>1. IdleSpace[l] + fill[l] <= MaxSpace
    BY DEF ViewOK
  <2> QED BY <1>1, <2>1, ListsFacts DEF RoomOK, CardTypeOK
<1> QED BY <1>5, <1>6, <1>7, <1>8, <1>9

\* Nothing is submitted although the space was taken off.
LEMMA KeepSubmitFails ==
    ASSUME CInv, NEW l \in List, SubmitFails(l), ~TxPool, IdleSpace[l] > 1,
           pump.pc \in {"check", "write"},
           UNCHANGED << complete_q, fill, AclProcCounter >>,
           pump'.pc \in {"find", "back"}, pump'.i \in 0..Len(Lists),
           pump'.pc = "back" => pump'.i < Len(Lists)
    PROVE  CInv'
<1> USE DEF CInv
<1>1. /\ UNCHANGED << TxPool, urb >>
      /\ IdleSpace' = [IdleSpace EXCEPT ![l] = @ - 1]
  BY DEF SubmitFails, bulk
<1>2. IdleSpace' \in [List -> 0..MaxSpace]
  BY <1>1, ListsFacts DEF CardTypeOK
<1>3. CardTypeOK'
  BY <1>1, <1>2 DEF CardTypeOK, PumpPC
<1>4. RoundOK' /\ OneTransfer' /\ ReportsOK' /\ RoomOK'
  BY <1>1 DEF RoundOK, Round, OneTransfer, ReportsOK, RoomOK, WrittenAt
<1>5. ViewOK'
  BY <1>1, ListsFacts DEF ViewOK, CardTypeOK
<1> QED BY <1>3, <1>4, <1>5

\* A write completion is handled: the buffer is free.
LEMMA KeepWriteCompletion ==
    ASSUME CInv, Usb_WriteCompletion
    PROVE  CInv'
<1> USE DEF CInv
<1>1. complete_q # << >> /\ complete_q \in Seq(Space \cup {Written})
  BY DEF Usb_WriteCompletion, CardTypeOK
<1>2. /\ Head(complete_q) = complete_q[1] /\ Head(complete_q) \in Space \cup {Written}
      /\ complete_q' = Tail(complete_q) /\ complete_q' \in Seq(Space \cup {Written})
      /\ Len(complete_q) \in Nat /\ Len(complete_q) >= 1
      /\ Len(complete_q') = Len(complete_q) - 1
      /\ \A i \in 1..Len(complete_q') : complete_q'[i] = complete_q[i + 1]
  BY <1>1, TailFacts DEF Usb_WriteCompletion
<1>3. WrittenAt(1)
  <2>1. complete_q[1] \notin Space
    BY <1>2, SpaceIsNotWritten DEF Usb_WriteCompletion
  <2> QED BY <2>1, <1>2 DEF WrittenAt
<1>4. /\ pump.pc = "idle" /\ TxPool' = FALSE
      /\ UNCHANGED << pump, AclProcCounter, urb, IdleSpace, fill >>
  BY DEF Usb_WriteCompletion, pumping
<1>5. urb = None
  BY <1>2, <1>3 DEF OneTransfer
<1>6. \A i \in 1..Len(complete_q') : ~WrittenAt(i)'
  <2> SUFFICES ASSUME NEW i \in 1..Len(complete_q'), WrittenAt(i)' PROVE FALSE
    OBVIOUS
  <2>1. WrittenAt(i + 1) /\ i + 1 \in 1..Len(complete_q) /\ i + 1 # 1
    BY <1>2 DEF WrittenAt
  <2> QED BY <2>1, <1>2, <1>3 DEF OneTransfer
<1>7. CardTypeOK' /\ RoundOK'
  BY <1>2, <1>4 DEF CardTypeOK, RoundOK, Round
<1>8. OneTransfer'
  BY <1>4, <1>5, <1>6 DEF OneTransfer
<1>9. ReportsOK'
  <2> SUFFICES ASSUME NEW i \in 1..Len(complete_q'), complete_q'[i] \in Space,
                      NEW l \in List
               PROVE  complete_q'[i].room[l] + fill'[l] <= MaxSpace
    BY <1>4 DEF ReportsOK
  <2>1. ASSUME NEW j \in (i + 1)..Len(complete_q) PROVE ~WrittenAt(j)
    BY <1>2, <1>3 DEF OneTransfer
  <2> QED BY <2>1, <1>2, <1>4 DEF ReportsOK
<1>10. ViewOK' /\ RoomOK'
  BY <1>4 DEF ViewOK, RoomOK
<1> QED BY <1>7, <1>8, <1>9, <1>10

\* The transfer ends, with or without the card taking it.
LEMMA KeepTransferEnds ==
    ASSUME CInv, urb # None, urb' = None,
           complete_q' = Append(complete_q, Written),
           \/ UNCHANGED fill
           \/ fill' = [fill EXCEPT ![urb] = @ + 1],
           UNCHANGED << pumping, TxPool, IdleSpace >>
    PROVE  CInv'
<1> USE DEF CInv
<1>1. complete_q \in Seq(Space \cup {Written}) /\ Written \in Space \cup {Written}
  BY DEF CardTypeOK
<1>2. /\ complete_q' \in Seq(Space \cup {Written})
      /\ Len(complete_q) \in Nat /\ Len(complete_q') = Len(complete_q) + 1
      /\ \A i \in 1..Len(complete_q) : complete_q'[i] = complete_q[i]
      /\ complete_q'[Len(complete_q) + 1] = Written
  BY <1>1, AppendFacts
<1>3. \A i \in 1..Len(complete_q') : WrittenAt(i)' <=> i = Len(complete_q) + 1
  <2>1. \A i \in 1..Len(complete_q) : ~WrittenAt(i)
    BY DEF OneTransfer
  <2> QED BY <2>1, <1>2 DEF WrittenAt
<1>4. urb \in List /\ TxPool = TRUE
  BY DEF CardTypeOK, OneTransfer
<1>5. fill' \in [List -> Nat]
  BY <1>4 DEF CardTypeOK
<1>6. CardTypeOK' /\ RoundOK'
  BY <1>2, <1>5 DEF pumping, CardTypeOK, RoundOK, Round
<1>7. OneTransfer'
  BY <1>2, <1>3, <1>4 DEF OneTransfer
<1>8. ReportsOK'
  <2> SUFFICES ASSUME NEW i \in 1..Len(complete_q'), complete_q'[i] \in Space
               PROVE  \E j \in i..Len(complete_q') : WrittenAt(j)'
    BY DEF ReportsOK
  <2>1. /\ Len(complete_q) + 1 \in 1..Len(complete_q')
        /\ Len(complete_q) + 1 \in i..Len(complete_q')
    BY <1>2
  <2> QED BY <2>1, <1>3
<1>9. ViewOK'
  BY <1>4 DEF ViewOK
<1>10. RoomOK'
  BY <1>4, <1>5, ListsFacts DEF RoomOK, CardTypeOK
<1> QED BY <1>6, <1>7, <1>8, <1>9, <1>10

\* The card sends a frame over the air: there is more room.
LEMMA KeepCardSend ==
    ASSUME CInv, NEW l \in List, Card_Send(l)
    PROVE  CInv'
<1> USE DEF CInv
<1>1. /\ fill[l] > 0 /\ fill' = [fill EXCEPT ![l] = @ - 1]
      /\ UNCHANGED << pump, AclProcCounter, TxPool, urb, IdleSpace, complete_q >>
  BY DEF Card_Send, pumping, bulk
<1>2. fill' \in [List -> Nat] /\ \A k \in List : fill'[k] <= fill[k] /\ fill[k] \in Nat
  BY <1>1 DEF CardTypeOK
<1>3. CardTypeOK' /\ RoundOK' /\ OneTransfer'
  BY <1>1, <1>2 DEF CardTypeOK, RoundOK, OneTransfer, WrittenAt
<1>4. ReportsOK'
  <2> SUFFICES ASSUME NEW i \in 1..Len(complete_q), complete_q[i] \in Space,
                      \A j \in i..Len(complete_q) : ~WrittenAt(j),
                      NEW k \in List
               PROVE  complete_q[i].room[k] + fill'[k] <= MaxSpace
    BY <1>1 DEF ReportsOK, WrittenAt
  <2>1. complete_q[i].room[k] + fill[k] <= MaxSpace
    BY DEF ReportsOK
  <2>2. complete_q[i].room[k] \in 0..MaxSpace
    BY DEF Space
  <2> QED BY <2>1, <2>2, <1>2, ListsFacts
<1>5. ViewOK' /\ RoomOK'
  BY <1>1, <1>2, ListsFacts DEF ViewOK, RoomOK, CardTypeOK
<1> QED BY <1>3, <1>4, <1>5

\* The card reports its room.
LEMMA KeepCardAnswer ==
    ASSUME CInv, Card_Answer
    PROVE  CInv'
<1> USE DEF CInv
<1> DEFINE a == [type |-> "space", room |-> [l \in List |-> MaxSpace - fill[l]]]
<1>1. /\ complete_q' = Append(complete_q, a)
      /\ UNCHANGED << pump, AclProcCounter, TxPool, urb, IdleSpace, fill >>
  BY DEF Card_Answer, pumping, bulk
<1>2. a \in Space /\ \A l \in List : a.room[l] + fill[l] <= MaxSpace
  <2>1. \A l \in List : fill[l] \in Nat /\ fill[l] <= MaxSpace
    BY DEF CardTypeOK, RoomOK
  <2>2. [l \in List |-> MaxSpace - fill[l]] \in [List -> 0..MaxSpace]
    BY <2>1, ListsFacts
  <2> QED BY <2>1, <2>2, ListsFacts DEF Space
<1> HIDE DEF a
<1>3. /\ complete_q' \in Seq(Space \cup {Written})
      /\ Len(complete_q) \in Nat /\ Len(complete_q') = Len(complete_q) + 1
      /\ \A i \in 1..Len(complete_q) : complete_q'[i] = complete_q[i]
      /\ complete_q'[Len(complete_q) + 1] = a
  BY <1>1, <1>2, AppendFacts DEF CardTypeOK
<1>4. \A i \in 1..Len(complete_q') :
        WrittenAt(i)' <=> i \in 1..Len(complete_q) /\ WrittenAt(i)
  BY <1>2, <1>3, SpaceIsNotWritten DEF WrittenAt
<1>5. CardTypeOK' /\ RoundOK' /\ ViewOK' /\ RoomOK'
  BY <1>1, <1>3 DEF CardTypeOK, RoundOK, ViewOK, RoomOK
<1>6. OneTransfer'
  <2>1. 1..Len(complete_q) \subseteq 1..Len(complete_q')
    BY <1>3
  <2> QED BY <1>1, <1>4, <2>1 DEF OneTransfer
<1>7. ReportsOK'
  <2> SUFFICES ASSUME NEW i \in 1..Len(complete_q'), complete_q'[i] \in Space,
                      \A j \in i..Len(complete_q') : ~WrittenAt(j)',
                      NEW l \in List
               PROVE  complete_q'[i].room[l] + fill[l] <= MaxSpace
    BY <1>1 DEF ReportsOK
  <2>1. CASE i = Len(complete_q')
    BY <2>1, <1>2, <1>3
  <2>2. CASE i # Len(complete_q')
    <3>1. i \in 1..Len(complete_q) /\ complete_q'[i] = complete_q[i]
      BY <2>2, <1>3
    <3>2. \A j \in i..Len(complete_q) : ~WrittenAt(j)
      BY <1>3, <1>4, <3>1
    <3> QED BY <3>1, <3>2 DEF ReportsOK
  <2> QED BY <2>1, <2>2
<1> QED BY <1>5, <1>6, <1>7

-----------------------------------------------------------------------------
(* Every step preserves the invariant.                                     *)

LEMMA KeepControl ==
    ASSUME CInv, NEW l \in List, CheckTxQueue_Control(l)
    PROVE  CInv'
<1>1. /\ pump.pc = "check" /\ ~TxPool
      /\ UNCHANGED << AclProcCounter, complete_q, fill >>
  BY DEF CheckTxQueue_Control, NoRound
<1>2. Len(Lists) \in Nat /\ 0 \in 0..Len(Lists)
  BY ListsFacts
<1>3. CASE UNCHANGED << pump, bulk, IdleSpace >>
  BY <1>1, <1>3, KeepUnrelated DEF related, pumping, bulk
<1>4. CASE IdleSpace[l] <= 1 /\ ResumePump("find", 0, None) /\ UNCHANGED << bulk, IdleSpace >>
  BY <1>1, <1>2, <1>4, KeepPump DEF ResumePump, PumpPC, Round, bulk, CInv, CardTypeOK
<1>5. CASE IdleSpace[l] > 1 /\ Submit(l) /\ ResumePump("done", 0, None)
  BY <1>1, <1>2, <1>5, KeepSubmit DEF ResumePump
<1>6. CASE IdleSpace[l] > 1 /\ SubmitFails(l) /\ ResumePump("find", 0, None)
  BY <1>1, <1>2, <1>6, KeepSubmitFails DEF ResumePump
<1> QED BY <1>3, <1>4, <1>5, <1>6 DEF CheckTxQueue_Control

\* The turn of the lists wraps around.
LEMMA KeepEndRound ==
    ASSUME CInv, EndRound, UNCHANGED << TxPool, urb, IdleSpace, complete_q, fill >>
    PROVE  CInv'
<1>1. AclProcCounter' \in 0..Len(Lists)-1
  <2>1. AclProcCounter + 1 \in Nat /\ Len(Lists) \in Nat /\ Len(Lists) >= 1
    BY ListsFacts DEF CInv, CardTypeOK
  <2> QED BY <2>1, ModRange DEF EndRound
<1>2. pump'.pc = "done" /\ pump'.i = 0 /\ 0 \in 0..Len(Lists)
  BY ListsFacts DEF EndRound, ResumePump
<1> QED BY <1>1, <1>2, KeepPump DEF PumpPC, Round

LEMMA KeepFind ==
    ASSUME CInv, ProcessAclFrag_Find
    PROVE  CInv'
<1> USE DEF CInv
<1>1. /\ pump.pc = "find" /\ ~TxPool /\ pump.i \in 0..Len(Lists)
      /\ UNCHANGED << TxPool, urb, IdleSpace, complete_q, fill >>
  BY DEF ProcessAclFrag_Find, RoundOK, CardTypeOK, bulk
<1>2. CASE pump.i = Len(Lists)
  BY <1>1, <1>2, KeepEndRound DEF ProcessAclFrag_Find
<1>3. CASE pump.i # Len(Lists)
  <2>1. AclProcCounter' \in 0..Len(Lists)-1
    BY <1>3 DEF ProcessAclFrag_Find, CardTypeOK
  <2>2. /\ pump'.pc \in {"find", "take"} /\ pump'.i \in 0..Len(Lists)
        /\ pump'.pc = "take" => pump'.i < Len(Lists)
    BY <1>1, <1>3, ListsFacts DEF ProcessAclFrag_Find, ResumePump
  <2> QED BY <1>1, <2>1, <2>2, KeepPump DEF PumpPC, Round
<1> QED BY <1>2, <1>3

LEMMA KeepTasklet ==
    ASSUME CInv, Tasklet
    PROVE  CInv'
<1>1. CASE Frag_ProcessSpaceInt
  BY <1>1, KeepSpaceInt
<1>2. CASE CheckTxQueue_Return
  BY <1>2, ListsFacts, KeepPump
     DEF CheckTxQueue_Return, ResumePump, PumpPC, Round, bulk, CInv, CardTypeOK
<1>3. CASE \E l \in List : CheckTxQueue_Control(l)
  BY <1>3, KeepControl
<1>4. CASE CheckTxQueue_Acl
  BY <1>4, ListsFacts, KeepPump
     DEF CheckTxQueue_Acl, NoRound, ResumePump, PumpPC, Round, bulk, CInv, CardTypeOK
<1>5. CASE ProcessAclFrag_Find
  BY <1>5, KeepFind
<1>6. CASE ProcessAclFrag_Take
  BY <1>6, KeepPump
     DEF ProcessAclFrag_Take, ResumePump, PumpPC, Round, bulk, CInv, CardTypeOK, RoundOK
<1>7. CASE ProcessAclFrag_NoSpace
  BY <1>7, KeepPump
     DEF ProcessAclFrag_NoSpace, ResumePump, PumpPC, Round, bulk, CInv, CardTypeOK, RoundOK
<1>8. CASE ProcessAclFrag_Write
  BY <1>8, KeepSubmit, ThisListType
     DEF ProcessAclFrag_Write, ResumePump, Round, CInv, CardTypeOK, RoundOK
<1>9. CASE ProcessAclFrag_WriteFails
  BY <1>9, KeepSubmitFails, ThisListType
     DEF ProcessAclFrag_WriteFails, ResumePump, Round, CInv, CardTypeOK, RoundOK
<1>10. CASE ProcessAclFrag_Put
  BY <1>10, KeepEndRound DEF ProcessAclFrag_Put, bulk
<1>11. CASE ProcessAclFrag_Back
  <2>1. pump.i + 1 \in 0..Len(Lists)
    BY <1>11, ListsFacts DEF ProcessAclFrag_Back, CInv, CardTypeOK, RoundOK, Round
  <2> QED BY <1>11, <2>1, KeepPump
          DEF ProcessAclFrag_Back, ResumePump, PumpPC, Round, bulk, CInv, CardTypeOK, RoundOK
<1>12. CASE ProcessSpaceInt_End
  BY <1>12, ListsFacts, KeepPump
     DEF ProcessSpaceInt_End, ResumePump, PumpPC, Round, bulk, CInv, CardTypeOK
<1>13. CASE Usb_WriteCompletion
  BY <1>13, KeepWriteCompletion
<1> QED BY <1>1, <1>2, <1>3, <1>4, <1>5, <1>6, <1>7, <1>8, <1>9, <1>10, <1>11,
           <1>12, <1>13 DEF Tasklet

LEMMA KeepTimers ==
    ASSUME CInv, Timers
    PROVE  CInv'
<1>1. CASE DataSendingTimer_Test \/ DataSendingTimer_Set
  BY <1>1, KeepUnrelated
     DEF DataSendingTimer_Test, DataSendingTimer_Set, related, pumping, bulk
<1>2. CASE BtWatchdogTimer
  <2>1. UNCHANGED << pumping, TxPool, IdleSpace, fill >> /\ CancelAt(1)
    BY <1>2 DEF BtWatchdogTimer, pumping
  <2>2. CASE UNCHANGED << urb, complete_q >>
    BY <2>1, <2>2, KeepUnrelated DEF related
  <2>3. CASE urb # None /\ urb' = None /\ complete_q' = Append(complete_q, Written)
    BY <2>1, <2>3, KeepTransferEnds
  <2> QED BY <2>1, <2>2, <2>3 DEF CancelAt
<1> QED BY <1>1, <1>2 DEF Timers

LEMMA KeepCard ==
    ASSUME CInv, Card
    PROVE  CInv'
<1>1. CASE Card_Take
  BY <1>1, KeepTransferEnds DEF Card_Take, pumping
<1>2. CASE Card_Answer
  BY <1>2, KeepCardAnswer
<1>3. CASE Card_Loses
  BY <1>3, KeepUnrelated DEF Card_Loses, related, pumping, bulk
<1>4. CASE \E l \in List : Card_Send(l)
  BY <1>4, KeepCardSend
<1> QED BY <1>1, <1>2, <1>3, <1>4 DEF Card

\* The stack and what other parts do to the queues.
LEMMA KeepRest ==
    ASSUME CInv, Host \/ Rest \/ \E c \in Conn : Frag_InitTxForConnDev(c)
    PROVE  CInv'
<1>1. UNCHANGED related
  <2>1. CASE Host
    BY <2>1 DEF Host, BuildFrag_Put, BuildFrag_Take, related, pumping, bulk
  <2>2. CASE Rest
    BY <2>2 DEF Rest, Connect, Hci_Del_Connect_Device, Bar, Hci_StopL2capFlowTimer,
         ControlFrame, Frag_StopQueue, Frag_StartQueueForSco, FlushInt, FlushDone,
         related, pumping, bulk
  <2>3. CASE \E c \in Conn : Frag_InitTxForConnDev(c)
    BY <2>3 DEF Frag_InitTxForConnDev, related, pumping, bulk
  <2> QED BY <2>1, <2>2, <2>3
<1> QED BY <1>1, KeepUnrelated

SmpNext == Step \/ \E c \in Conn : Frag_InitTxForConnDev(c)

LEMMA KeepCInv == CInv /\ [SmpNext]_vars => CInv'
<1> SUFFICES ASSUME CInv, [SmpNext]_vars PROVE CInv'
  OBVIOUS
<1>1. CASE UNCHANGED vars
  BY <1>1, KeepUnrelated DEF vars, related, pumping, bulk
<1>2. CASE SmpNext
  BY <1>2, KeepTasklet, KeepTimers, KeepCard, KeepRest DEF SmpNext, Step
<1> QED BY <1>1, <1>2

\* The invariant holds in every behaviour on any number of processors, and
\* the behaviours on one processor are among them.
LEMMA SmpInvariant == SmpSpec => []CInv
<1>1. Init => CInv
  BY InitCInv
<1>2. CInv /\ [SmpNext]_vars => CInv'
  BY KeepCInv
<1> QED BY <1>1, <1>2, PTL DEF SmpSpec, SmpNext

LEMMA OneProcessor == Spec => SmpSpec
<1>1. [Next]_vars => [SmpNext]_vars
  BY DEF Next, SmpNext
<1> QED BY <1>1, PTL DEF Spec, SmpSpec, SmpNext

\* The card is never given more than it can hold, however many queries
\* overlap, are lost or answered late (Frag_ProcessSpaceInt sets IdleSpace from
\* reports that may be older than a transfer).
THEOREM CardNeverOverfull == (Spec => []CardFits) /\ (SmpSpec => []CardFits)
<1>1. CInv => CardFits
  BY DEF CInv, RoomOK, CardFits
<1> QED BY <1>1, SmpInvariant, OneProcessor, PTL

\* The transmit buffer is taken exactly as long as its transfer is with the
\* USB stack or its completion waits for the tasklet, also when the watchdog
\* cancels it (BtUsbWriteIrpTimeOut, Usb_WriteCompletion).
THEOREM BufferCorrect ==
    (Spec => []BufferFollowsTransfer) /\ (SmpSpec => []BufferFollowsTransfer)
<1>1. CInv => BufferFollowsTransfer
  BY DEF CInv, OneTransfer, WrittenAt, BufferFollowsTransfer, CardTypeOK
<1> QED BY <1>1, SmpInvariant, OneProcessor, PTL

-----------------------------------------------------------------------------
(* Types.  They do not depend on which elements the pump meets where.      *)

\* The parts of TypeOK that are about the elements, and what the pump and the
\* stack know of the one they are at.
ElementTypeOK ==
    /\ FragList \in [List -> Seq(Element)]
    /\ Free_FragList \subseteq Element
    /\ ele \in [Element -> [dev : Conn \cup {None}, ppid : 0..MaxWrites, fpid : 0..MaxWrites]]
    /\ built \in Element \cup {None}
    /\ pump \in [pc : PumpPC, i : 0..Len(Lists), ele : Element \cup {None}]
    /\ pump.pc \in Round => pump.ele \in Element
    /\ built # None => ele[built].dev \in Conn

SwitchTypeOK ==
    /\ conn \in [Conn -> {"up", "closing", "free"}]
    /\ barred \in [Conn -> BOOLEAN]
    /\ list_stop_flag \in [List -> BOOLEAN] /\ TxDisable_Flag \in BOOLEAN
    /\ ctl \in [List -> 0..MaxCtl]
    /\ BulkoutAcl_TimerCount \in 0..AclTicks
    /\ SpaceQueryFlag \in BOOLEAN /\ QueryFailCount \in 0..2
    /\ TxTimer \in BOOLEAN /\ tested \in BOOLEAN
    /\ queries \in 0..MaxPending

\* The fields of a record of three that are not changed stay what they are.
LEMMA WriteCounted ==
    ASSUME NEW D, NEW A, NEW B, NEW r \in [dev : D, ppid : A, fpid : B], NEW v \in A
    PROVE  /\ [r EXCEPT !.ppid = v] \in [dev : D, ppid : A, fpid : B]
           /\ [r EXCEPT !.ppid = v].dev = r.dev
           /\ [r EXCEPT !.ppid = v].ppid = v
           /\ [r EXCEPT !.ppid = v].fpid = r.fpid
  OBVIOUS

\* One more write of the element the pump has in hand.
LEMMA WrittenElement ==
    ASSUME ElementTypeOK, NEW e \in Element, ele[e].ppid < ele[e].fpid,
           ele' = [ele EXCEPT ![e].ppid = @ + 1]
    PROVE  /\ ele' \in [Element -> [dev : Conn \cup {None}, ppid : 0..MaxWrites, fpid : 0..MaxWrites]]
           /\ \A x \in Element : x # e => ele'[x] = ele[x]
           /\ ele'[e].dev = ele[e].dev /\ ele'[e].fpid = ele[e].fpid
           /\ ele'[e].ppid = ele[e].ppid + 1
<1> DEFINE D == Conn \cup {None}
           W == 0..MaxWrites
<1>1. ele \in [Element -> [dev : D, ppid : W, fpid : W]]
  BY DEF ElementTypeOK
<1>2. ele[e] \in [dev : D, ppid : W, fpid : W]
  BY <1>1
<1>3. ele[e].ppid + 1 \in W
  <2>1. ele[e].ppid \in W /\ ele[e].fpid \in W /\ MaxWrites \in Nat
    BY <1>2, PumpAssumption
  <2> QED BY <2>1
<1> HIDE DEF D, W
<1>4. /\ [ele[e] EXCEPT !.ppid = ele[e].ppid + 1] \in [dev : D, ppid : W, fpid : W]
      /\ [ele[e] EXCEPT !.ppid = ele[e].ppid + 1].dev = ele[e].dev
      /\ [ele[e] EXCEPT !.ppid = ele[e].ppid + 1].ppid = ele[e].ppid + 1
      /\ [ele[e] EXCEPT !.ppid = ele[e].ppid + 1].fpid = ele[e].fpid
  BY <1>2, <1>3, WriteCounted
<1>5. ele' = [ele EXCEPT ![e] = [ele[e] EXCEPT !.ppid = ele[e].ppid + 1]]
  BY <1>1
<1>6. ele' \in [Element -> [dev : D, ppid : W, fpid : W]]
  BY <1>1, <1>4, <1>5
<1>7. ele'[e] = [ele[e] EXCEPT !.ppid = ele[e].ppid + 1]
  BY <1>1, <1>5
<1>8. \A x \in Element : x # e => ele'[x] = ele[x]
  BY <1>1, <1>5
<1> QED BY <1>4, <1>6, <1>7, <1>8 DEF D, W

\* What leaves a list: the places that stay are numbered anew by f.
LEMMA LeaveFacts ==
    ASSUME FragList \in [List -> Seq(Element)], NEW l \in List, NEW E, Leave(l, E)
    PROVE  /\ FragList' \in [List -> Seq(Element)]
           /\ \A k \in List : k # l => FragList'[k] = FragList[k]
           /\ \E f \in [1..Len(FragList'[l]) -> 1..Len(FragList[l])] :
                /\ \A i, j \in 1..Len(FragList'[l]) : i < j => f[i] < f[j]
                /\ \A i \in 1..Len(FragList'[l]) :
                     /\ FragList'[l][i] = FragList[l][f[i]]
                     /\ FragList[l][f[i]] \notin E
                /\ \A p \in 1..Len(FragList[l]) :
                     FragList[l][p] \notin E => \E i \in 1..Len(FragList'[l]) : f[i] = p
<1> DEFINE q == FragList[l]
           Stay == {i \in DOMAIN q : q[i] \notin E}
<1>1. q \in Seq(Element) /\ Len(q) \in Nat /\ DOMAIN q = 1..Len(q)
  OBVIOUS
<1>2. PICK n \in 0..Len(q) : \E f \in [1..n -> Stay] :
        /\ Enumerates(f, Stay)
        /\ FragList' = [FragList EXCEPT ![l] = [i \in 1..n |-> q[f[i]]]]
  BY DEF Leave
<1>3. PICK f \in [1..n -> Stay] :
        /\ Enumerates(f, Stay)
        /\ FragList' = [FragList EXCEPT ![l] = [i \in 1..n |-> q[f[i]]]]
  BY <1>2
<1> DEFINE r == [i \in 1..n |-> q[f[i]]]
<1>4. n \in Nat /\ r \in [1..n -> Element]
  BY <1>1, <1>3
<1>5. r \in Seq(Element) /\ Len(r) = n
  BY <1>4
<1>6. /\ FragList' \in [List -> Seq(Element)] /\ FragList'[l] = r
      /\ \A k \in List : k # l => FragList'[k] = FragList[k]
  BY <1>3, <1>5
<1>7. /\ f \in [1..Len(r) -> 1..Len(q)]
      /\ \A i, j \in 1..Len(r) : i < j => f[i] < f[j]
      /\ \A i \in 1..Len(r) : r[i] = q[f[i]] /\ q[f[i]] \notin E
      /\ \A p \in 1..Len(q) : q[p] \notin E => \E i \in 1..Len(r) : f[i] = p
  BY <1>1, <1>5, <1>3 DEF Enumerates
<1> HIDE DEF r
<1>8. /\ f \in [1..Len(FragList'[l]) -> 1..Len(FragList[l])]
      /\ \A i, j \in 1..Len(FragList'[l]) : i < j => f[i] < f[j]
      /\ \A i \in 1..Len(FragList'[l]) :
           /\ FragList'[l][i] = FragList[l][f[i]]
           /\ FragList[l][f[i]] \notin E
      /\ \A p \in 1..Len(FragList[l]) :
           FragList[l][p] \notin E => \E i \in 1..Len(FragList'[l]) : f[i] = p
  BY <1>6, <1>7
<1>9. \E g \in [1..Len(FragList'[l]) -> 1..Len(FragList[l])] :
        /\ \A i, j \in 1..Len(FragList'[l]) : i < j => g[i] < g[j]
        /\ \A i \in 1..Len(FragList'[l]) :
             /\ FragList'[l][i] = FragList[l][g[i]]
             /\ FragList[l][g[i]] \notin E
        /\ \A p \in 1..Len(FragList[l]) :
             FragList[l][p] \notin E => \E i \in 1..Len(FragList'[l]) : g[i] = p
  <2> f \in [1..Len(FragList'[l]) -> 1..Len(FragList[l])]
    BY <1>8
  <2> WITNESS f \in [1..Len(FragList'[l]) -> 1..Len(FragList[l])]
  <2> QED BY <1>8
<1> QED BY <1>6, <1>9

\* Putting an element into a list, before or behind the others.
LEMMA PutFacts ==
    ASSUME FragList \in [List -> Seq(Element)], NEW l \in List, NEW e \in Element,
           NEW new, new \in {Append(FragList[l], e), << e >> \o FragList[l]},
           FragList' = [FragList EXCEPT ![l] = new]
    PROVE  /\ FragList' \in [List -> Seq(Element)]
           /\ FragList'[l] = new
           /\ \A k \in List : k # l => FragList'[k] = FragList[k]
<1>1. FragList[l] \in Seq(Element)
  OBVIOUS
<1>2. Append(FragList[l], e) \in Seq(Element) /\ << e >> \o FragList[l] \in Seq(Element)
  BY <1>1
<1> QED BY <1>2

\* The elements keep their type in the steps of the pump.
LEMMA TaskletElementType ==
    ASSUME CardTypeOK, CardTypeOK', RoundOK, ElementTypeOK, Tasklet
    PROVE  ElementTypeOK'
<1> USE DEF ElementTypeOK
<1>1. ThisList \in List /\ None \notin Element
  BY ThisListType, PumpAssumption
<1>2. \A pc, i, e : ResumePump(pc, i, e) => pump' = [pc |-> pc, i |-> i, ele |-> e]
  BY DEF ResumePump
<1>3. pump'.pc \in PumpPC /\ pump'.i \in 0..Len(Lists)
  BY DEF CardTypeOK
<1>4. CASE Frag_ProcessSpaceInt
  BY <1>3, <1>4 DEF Frag_ProcessSpaceInt, ResumePump, elements, Round
<1>5. CASE CheckTxQueue_Return
  BY <1>3, <1>5 DEF CheckTxQueue_Return, ResumePump, elements, Round
<1>6. CASE \E l \in List : CheckTxQueue_Control(l)
  BY <1>3, <1>6 DEF CheckTxQueue_Control, ResumePump, elements, Round
<1>7. CASE CheckTxQueue_Acl
  BY <1>3, <1>7 DEF CheckTxQueue_Acl, ResumePump, elements, Round
<1>8. CASE ProcessAclFrag_Find
  <2>1. UNCHANGED elements
    BY <1>8 DEF ProcessAclFrag_Find
  <2>2. CASE ResumePump("done", 0, None) \/ ResumePump("find", pump.i + 1, None)
    BY <1>3, <2>1, <2>2 DEF ResumePump, elements, Round
  <2>3. CASE \E i \in Servable(ThisList) : ResumePump("take", pump.i, FragList[ThisList][i])
    <3>1. PICK i \in DOMAIN FragList[ThisList] : ResumePump("take", pump.i, FragList[ThisList][i])
      BY <2>3 DEF Servable
    <3>2. FragList[ThisList][i] \in Element
      BY <1>1, <3>1
    <3> QED BY <1>3, <2>1, <3>1, <3>2 DEF ResumePump, elements
  <2> QED BY <1>8, <2>2, <2>3 DEF ProcessAclFrag_Find, EndRound
<1>9. CASE ProcessAclFrag_Take
  <2>1. FragList' \in [List -> Seq(Element)]
    BY <1>1, <1>9, LeaveFacts DEF ProcessAclFrag_Take
  <2> QED BY <1>3, <1>9, <2>1 DEF ProcessAclFrag_Take, ResumePump, Round
<1>10. CASE ProcessAclFrag_NoSpace
  BY <1>3, <1>10 DEF ProcessAclFrag_NoSpace, ResumePump, elements, Round
<1>11. CASE ProcessAclFrag_Write
  <2>1. /\ pump.ele \in Element /\ ele[pump.ele].ppid < ele[pump.ele].fpid
        /\ ele' = [ele EXCEPT ![pump.ele].ppid = @ + 1]
        /\ UNCHANGED << FragList, Free_FragList, built >>
        /\ pump' = [pc |-> "put", i |-> pump.i, ele |-> pump.ele]
    BY <1>11 DEF ProcessAclFrag_Write, ResumePump, Round
  <2>2. /\ ele' \in [Element -> [dev : Conn \cup {None}, ppid : 0..MaxWrites, fpid : 0..MaxWrites]]
        /\ \A x \in Element : ele'[x].dev = ele[x].dev
    BY <2>1, WrittenElement
  <2> QED BY <1>3, <2>1, <2>2
<1>12. CASE ProcessAclFrag_WriteFails
  BY <1>3, <1>12 DEF ProcessAclFrag_WriteFails, ResumePump, elements, Round
<1>13. CASE ProcessAclFrag_Put
  <2>1. pump.ele \in Element
    BY <1>13 DEF ProcessAclFrag_Put, Round
  <2>2. FragList' \in [List -> Seq(Element)] /\ Free_FragList' \subseteq Element
    BY ZenonT(20), <1>1, <1>13, <2>1, PutFacts DEF ProcessAclFrag_Put, PushHead
  <2> QED BY <1>3, <1>13, <2>2 DEF ProcessAclFrag_Put, EndRound, ResumePump, Round
<1>14. CASE ProcessAclFrag_Back
  <2>1. pump.ele \in Element
    BY <1>14 DEF ProcessAclFrag_Back, Round
  <2>2. FragList' \in [List -> Seq(Element)]
    BY <1>1, <1>14, <2>1, PutFacts DEF ProcessAclFrag_Back, PushHead
  <2> QED BY <1>3, <1>14, <2>2 DEF ProcessAclFrag_Back, ResumePump, Round
<1>15. CASE ProcessSpaceInt_End
  BY <1>3, <1>15 DEF ProcessSpaceInt_End, ResumePump, elements, Round
<1>16. CASE Usb_WriteCompletion
  BY <1>16 DEF Usb_WriteCompletion, elements, pumping
<1> QED BY <1>4, <1>5, <1>6, <1>7, <1>8, <1>9, <1>10, <1>11, <1>12, <1>13, <1>14,
           <1>15, <1>16 DEF Tasklet

\* And in those of the stack and of the thread that closes a connection.
LEMMA OtherElementType ==
    ASSUME ElementTypeOK, UNCHANGED pump,
           \/ UNCHANGED elements
           \/ Host
           \/ \E c \in Conn : Frag_InitTxForConnDev(c)
    PROVE  ElementTypeOK'
<1> USE DEF ElementTypeOK
<1>1. ListOf \in [Conn -> List] /\ None \notin Element /\ MaxWrites \in Nat
  BY PumpAssumption
<1>2. CASE UNCHANGED elements
  BY <1>2 DEF elements
<1>3. ASSUME NEW c \in Conn, BuildFrag_Take(c) PROVE ElementTypeOK'
  <2>1. PICK e \in Free_FragList, n \in 1..MaxWrites :
           /\ Free_FragList' = Free_FragList \ {e}
           /\ ele' = [ele EXCEPT ![e] = [dev |-> c, ppid |-> 0, fpid |-> n]]
           /\ built' = e
    BY <1>3 DEF BuildFrag_Take
  <2>2. [dev |-> c, ppid |-> 0, fpid |-> n]
           \in [dev : Conn \cup {None}, ppid : 0..MaxWrites, fpid : 0..MaxWrites]
    BY <1>1
  <2> QED BY <1>3, <2>1, <2>2 DEF BuildFrag_Take
<1>4. CASE BuildFrag_Put
  <2>1. built \in Element /\ ele[built].dev \in Conn /\ ListOf[ele[built].dev] \in List
    BY <1>1, <1>4 DEF BuildFrag_Put
  <2>2. FragList' \in [List -> Seq(Element)]
    BY <1>4, <2>1, PutFacts DEF BuildFrag_Put
  <2> QED BY <1>4, <2>2 DEF BuildFrag_Put
<1>5. ASSUME NEW c \in Conn, Frag_InitTxForConnDev(c) PROVE ElementTypeOK'
  <2>1. ListOf[c] \in List
    BY <1>1
  <2>2. FragList' \in [List -> Seq(Element)]
    BY <1>5, <2>1, LeaveFacts DEF Frag_InitTxForConnDev
  <2>3. Free_FragList' \subseteq Element
    BY <1>5, <2>1 DEF Frag_InitTxForConnDev, On
  <2> QED BY <1>5, <2>2, <2>3 DEF Frag_InitTxForConnDev
<1> QED BY <1>2, <1>3, <1>4, <1>5 DEF Host

\* A query is only made while fewer than MaxPending are under way.
LEMMA QueryCounted ==
    ASSUME queries \in 0..MaxPending, complete_q \in Seq(Space \cup {Written})
    PROVE  /\ SendQuery => queries' \in 0..MaxPending /\ SpaceQueryFlag' = TRUE
           /\ UsbQueryDMASpace /\ SpaceQueryFlag \in BOOLEAN
                => queries' \in 0..MaxPending /\ SpaceQueryFlag' \in BOOLEAN
<1>1. IsFiniteSet(Answers)
  <2>1. Answers \subseteq 1..Len(complete_q) /\ Len(complete_q) \in Nat
    BY DEF Answers
  <2>2. IsFiniteSet(1..Len(complete_q))
    BY <2>1, FS_Interval
  <2> QED BY <2>1, <2>2, FS_Subset
<1>2. Cardinality(Answers) \in Nat /\ MaxPending \in Nat
  BY <1>1, FS_CardinalityType, PumpAssumption
<1>3. SendQuery => queries' \in 0..MaxPending /\ SpaceQueryFlag' = TRUE
  BY <1>2 DEF SendQuery, Pending
<1> QED BY <1>3 DEF UsbQueryDMASpace

LEMMA TaskletSwitchType ==
    ASSUME SwitchTypeOK, CardTypeOK, Tasklet
    PROVE  SwitchTypeOK'
<1> USE DEF SwitchTypeOK
<1>1. AclTicks \in Nat \ {0} /\ MaxCtl \in Nat
  BY PumpAssumption
<1>2. CASE \E l \in List : CheckTxQueue_Control(l)
  <2>1. PICK l \in List : CheckTxQueue_Control(l)
    BY <1>2
  <2>2. UNCHANGED << links, query, tested >> /\ TxTimer' \in BOOLEAN
    BY <2>1 DEF CheckTxQueue_Control
  <2>3. BulkoutAcl_TimerCount' \in 0..AclTicks
    BY <1>1, <2>1 DEF CheckTxQueue_Control, Submit, SubmitFails, bulk
  <2>4. ctl' \in [List -> 0..MaxCtl]
    <3>1. CASE UNCHANGED ctl
      BY <3>1
    <3>2. CASE ctl' = [ctl EXCEPT ![l] = @ - 1] /\ ctl[l] > 0
      <4>1. ctl[l] - 1 \in 0..MaxCtl
        BY <1>1, <3>2
      <4> QED BY <3>2, <4>1
    <3> QED BY <2>1, <3>1, <3>2 DEF CheckTxQueue_Control
  <2> QED BY <2>2, <2>3, <2>4 DEF links, query
<1>3. CASE Usb_WriteCompletion
  <2>1. queries' \in 0..MaxPending /\ SpaceQueryFlag' \in BOOLEAN
    BY <1>3, QueryCounted DEF Usb_WriteCompletion, CardTypeOK
  <2> QED BY <1>1, <1>3, <2>1 DEF Usb_WriteCompletion, links, timer
<1>4. CASE ProcessAclFrag_Write
  BY <1>1, <1>4 DEF ProcessAclFrag_Write, Submit, links, query, timer
<1>5. CASE ProcessSpaceInt_End
  <2>1. UNCHANGED << links, ctl, BulkoutAcl_TimerCount, queries, timer >>
    BY <1>5 DEF ProcessSpaceInt_End, bulk
  <2>2. SpaceQueryFlag' = FALSE /\ QueryFailCount' = 0
    BY <1>5, Zenon DEF ProcessSpaceInt_End
  <2>3. SpaceQueryFlag' \in BOOLEAN
    BY <2>2, Zenon
  <2>4. QueryFailCount' \in 0..2
    BY <2>2
  <2> QED BY <2>1, <2>3, <2>4 DEF links, timer
<1>6. CASE Frag_ProcessSpaceInt \/ CheckTxQueue_Return \/ CheckTxQueue_Acl
           \/ ProcessAclFrag_Find \/ ProcessAclFrag_Take \/ ProcessAclFrag_Put
           \/ ProcessAclFrag_Back
  <2>1. UNCHANGED << links, ctl, BulkoutAcl_TimerCount, query, timer >>
    BY <1>6 DEF Frag_ProcessSpaceInt, CheckTxQueue_Return, CheckTxQueue_Acl,
         ProcessAclFrag_Find, ProcessAclFrag_Take, ProcessAclFrag_Put, ProcessAclFrag_Back, bulk
  <2> QED BY <2>1 DEF links, query, timer
<1>7. CASE ProcessAclFrag_NoSpace \/ ProcessAclFrag_WriteFails
  BY <1>7 DEF ProcessAclFrag_NoSpace, ProcessAclFrag_WriteFails, SubmitFails, links, bulk,
       query, timer
<1> QED BY <1>2, <1>3, <1>4, <1>5, <1>6, <1>7 DEF Tasklet

LEMMA OtherSwitchType ==
    ASSUME SwitchTypeOK, CardTypeOK,
           Timers \/ Card \/ Host \/ Rest \/ \E c \in Conn : Frag_InitTxForConnDev(c)
    PROVE  SwitchTypeOK'
<1> USE DEF SwitchTypeOK
<1>1. AclTicks \in Nat \ {0} /\ MaxCtl \in Nat /\ MaxPending \in Nat
  BY PumpAssumption
<1>2. CASE DataSendingTimer_Test
  BY <1>2 DEF DataSendingTimer_Test, links, bulk, query
<1>3. CASE DataSendingTimer_Set
  BY <1>3, QueryCounted DEF DataSendingTimer_Set, links, bulk, CardTypeOK, SendQuery
<1>4. CASE BtWatchdogTimer
  <2>1. BulkoutAcl_TimerCount' \in 0..AclTicks
    BY <1>1, <1>4 DEF BtWatchdogTimer, CancelAt
  <2>2. /\ queries' \in 0..MaxPending /\ SpaceQueryFlag' \in BOOLEAN
        /\ QueryFailCount' \in 0..2
    <3>1. CASE SendQuery /\ QueryFailCount' \in {0, 2}
      BY <3>1, QueryCounted DEF CardTypeOK
    <3>2. CASE /\ QueryFailCount + 1 < 2 /\ QueryFailCount' = QueryFailCount + 1
               /\ UNCHANGED << SpaceQueryFlag, queries >>
      BY <3>2
    <3> QED BY <1>4, <3>1, <3>2 DEF BtWatchdogTimer, QueryOrGiveUp
  <2> QED BY <1>4, <2>1, <2>2 DEF BtWatchdogTimer, links, timer
<1>5. CASE Card
  <2>1. queries' \in 0..MaxPending
    BY <1>1, <1>5 DEF Card, Card_Take, Card_Answer, Card_Loses, Card_Send, query
  <2>2. UNCHANGED << links, ctl, BulkoutAcl_TimerCount, SpaceQueryFlag, QueryFailCount, timer >>
    BY <1>5 DEF Card, Card_Take, Card_Answer, Card_Loses, Card_Send, query, bulk
  <2> QED BY <2>1, <2>2 DEF links, timer
<1>6. CASE Host
  BY <1>6 DEF Host, BuildFrag_Put, BuildFrag_Take, links, bulk, query, timer
<1>7. ASSUME NEW c \in Conn, Frag_InitTxForConnDev(c) PROVE SwitchTypeOK'
  BY <1>7 DEF Frag_InitTxForConnDev, bulk, query, timer
<1>8. ASSUME NEW c \in Conn,
             Connect(c) \/ Hci_Del_Connect_Device(c) \/ Bar(c) \/ Hci_StopL2capFlowTimer(c)
      PROVE  SwitchTypeOK'
  BY <1>8 DEF Connect, Hci_Del_Connect_Device, Bar, Hci_StopL2capFlowTimer, bulk, query, timer
<1>9. ASSUME NEW l \in List, ControlFrame(l) PROVE SwitchTypeOK'
  <2>1. queries' \in 0..MaxPending /\ SpaceQueryFlag' \in BOOLEAN
    BY <1>9, QueryCounted DEF ControlFrame, CardTypeOK
  <2>2. ctl' \in [List -> 0..MaxCtl]
    <3>1. ctl[l] + 1 \in 0..MaxCtl
      BY <1>1, <1>9 DEF ControlFrame
    <3> QED BY <1>9, <3>1 DEF ControlFrame
  <2> QED BY <1>9, <2>1, <2>2 DEF ControlFrame, links, bulk, timer
<1>10. ASSUME NEW l \in List, Frag_StopQueue(l) PROVE SwitchTypeOK'
  BY <1>10 DEF Frag_StopQueue, bulk, query, timer
<1>11. CASE Frag_StartQueueForSco \/ FlushInt
  BY <1>11 DEF Frag_StartQueueForSco, FlushInt, bulk, query, timer
<1>12. CASE FlushDone
  BY <1>12, QueryCounted DEF FlushDone, CardTypeOK, bulk, timer
<1> QED BY <1>2, <1>3, <1>4, <1>5, <1>6, <1>7, <1>8, <1>9, <1>10, <1>11, <1>12 DEF Timers, Rest

-----------------------------------------------------------------------------
(* Every variable keeps its type in both specifications.                   *)

TypeInv == CInv /\ ElementTypeOK /\ SwitchTypeOK

LEMMA InitTypeInv == Init => TypeInv
<1> SUFFICES ASSUME Init PROVE TypeInv
  OBVIOUS
<1>1. None \notin Element /\ MaxCtl \in Nat /\ AclTicks \in Nat /\ MaxPending \in Nat /\ MaxWrites \in Nat
  BY PumpAssumption
<1>2. Unused \in [dev : Conn \cup {None}, ppid : 0..MaxWrites, fpid : 0..MaxWrites]
  BY <1>1 DEF Unused
<1>3. FragList \in [List -> Seq(Element)]
  BY DEF Init
<1>4. pump = [pc |-> "idle", i |-> 0, ele |-> None] /\ 0 \in 0..Len(Lists) /\ "idle" \in PumpPC
  BY ListsFacts DEF Init, PumpPC
<1>5. ElementTypeOK
  BY <1>1, <1>2, <1>3, <1>4 DEF Init, ElementTypeOK, Round
<1>6. SwitchTypeOK
  <2>1. /\ conn \in [Conn -> {"up", "closing", "free"}] /\ barred \in [Conn -> BOOLEAN]
        /\ list_stop_flag \in [List -> BOOLEAN] /\ ctl \in [List -> 0..MaxCtl]
    BY <1>1 DEF Init
  <2>2. /\ TxDisable_Flag \in BOOLEAN /\ SpaceQueryFlag \in BOOLEAN
        /\ TxTimer \in BOOLEAN /\ tested \in BOOLEAN
    BY DEF Init
  <2>3. BulkoutAcl_TimerCount \in 0..AclTicks /\ QueryFailCount \in 0..2 /\ queries \in 0..MaxPending
    BY <1>1 DEF Init
  <2> QED BY <2>1, <2>2, <2>3 DEF SwitchTypeOK
<1> QED BY <1>5, <1>6, InitCInv DEF TypeInv

LEMMA KeepTypeInv == TypeInv /\ [SmpNext]_vars => TypeInv'
<1> SUFFICES ASSUME TypeInv, [SmpNext]_vars PROVE TypeInv'
  OBVIOUS
<1>1. CInv'
  BY KeepCInv DEF TypeInv
<1>2. CASE UNCHANGED vars
  <2>1. ElementTypeOK'
    BY <1>2, OtherElementType DEF TypeInv, vars, pumping
  <2>2. SwitchTypeOK'
    BY <1>2 DEF TypeInv, SwitchTypeOK, vars, links, bulk, query, timer
  <2> QED BY <1>1, <2>1, <2>2 DEF TypeInv
<1>3. CASE Tasklet
  BY <1>1, <1>3, TaskletElementType, TaskletSwitchType DEF TypeInv, CInv
<1>4. CASE Timers \/ Card \/ Host \/ Rest \/ \E c \in Conn : Frag_InitTxForConnDev(c)
  <2>1. SwitchTypeOK'
    BY <1>4, OtherSwitchType DEF TypeInv, CInv
  <2>2. UNCHANGED pump
    BY <1>4 DEF Timers, DataSendingTimer_Test, DataSendingTimer_Set, BtWatchdogTimer, Card,
         Card_Take, Card_Answer, Card_Loses, Card_Send, Host, BuildFrag_Put, BuildFrag_Take,
         Rest, Connect, Hci_Del_Connect_Device, Bar, Hci_StopL2capFlowTimer, ControlFrame,
         Frag_StopQueue, Frag_StartQueueForSco, FlushInt, FlushDone, Frag_InitTxForConnDev,
         pumping
  <2>3. UNCHANGED elements \/ Host \/ \E c \in Conn : Frag_InitTxForConnDev(c)
    BY <1>4 DEF Timers, DataSendingTimer_Test, DataSendingTimer_Set, BtWatchdogTimer, Card,
         Card_Take, Card_Answer, Card_Loses, Card_Send,
         Rest, Connect, Hci_Del_Connect_Device, Bar, Hci_StopL2capFlowTimer, ControlFrame,
         Frag_StopQueue, Frag_StartQueueForSco, FlushInt, FlushDone
  <2> QED BY <1>1, <2>1, <2>2, <2>3, OtherElementType DEF TypeInv
<1> QED BY <1>2, <1>3, <1>4 DEF SmpNext, Step

LEMMA TypesHold == SmpSpec => []TypeInv
<1>1. Init => TypeInv
  BY InitTypeInv
<1>2. TypeInv /\ [SmpNext]_vars => TypeInv'
  BY KeepTypeInv
<1> QED BY <1>1, <1>2, PTL DEF SmpSpec, SmpNext

\* The variables keep their types.  That a report of the card is never negative,
\* and the driver's view of the space neither, rests on CardFits and on the test
\* before each write; that the turn of the lists is one, on its wrapping around.
THEOREM PumpTyped == (Spec => []TypeOK) /\ (SmpSpec => []TypeOK)
<1>1. TypeInv => TypeOK
  BY DEF TypeInv, CInv, CardTypeOK, ElementTypeOK, SwitchTypeOK, TypeOK
<1> QED BY <1>1, TypesHold, OneProcessor, PTL

-----------------------------------------------------------------------------
(* Where each element is, while connections are only taken down between    *)
(* two rounds of the pump.                                                 *)

Listed(e) == \E l \in List : \E i \in 1..Len(FragList[l]) : FragList[l][i] = e

\* No element is twice in the lists,
Once == \A k, l \in List : \A i \in 1..Len(FragList[k]), j \in 1..Len(FragList[l]) :
          FragList[k][i] = FragList[l][j] => k = l /\ i = j

\* each is somewhere, and in one place only.
Somewhere == \A e \in Element : Listed(e) \/ e \in Free_FragList \/ built = e \/ InHand(e)
Apart == \A e \in Element :
           /\ Listed(e) => e \notin Free_FragList /\ built # e /\ ~InHand(e)
           /\ e \in Free_FragList => built # e /\ ~InHand(e)
           /\ built = e => ~InHand(e)

\* What waits, or is about to, has something left to send.
Unsent ==
    /\ \A e \in Element : Listed(e) \/ built = e => ele[e].ppid < ele[e].fpid
    /\ pump.pc \in {"write", "back"} => ele[pump.ele].ppid < ele[pump.ele].fpid
    /\ pump.pc = "put" => ele[pump.ele].ppid <= ele[pump.ele].fpid

\* The element the pump has seen is still where it saw it.
Seen == pump.pc = "take"
          => \E i \in 1..Len(FragList[ThisList]) : FragList[ThisList][i] = pump.ele

OwnInv == Once /\ Somewhere /\ Apart /\ Unsent /\ Seen

\* In r the element e is at p, and those of q follow from d places further on.
Inserted(q, e, r, p, d) ==
    /\ r[p] = e
    /\ \A i \in 1..Len(r) : i # p => i - d \in 1..Len(q) /\ r[i] = q[i - d]
    /\ \A j \in 1..Len(q) : j + d \in 1..Len(r) /\ r[j + d] = q[j]

\* An element put before or behind the others: where the others are then.
LEMMA InsertedAt ==
    ASSUME NEW S, NEW q \in Seq(S), NEW e \in S,
           NEW r, r = Append(q, e) \/ r = << e >> \o q
    PROVE  \E p \in 1..Len(r), d \in {0, 1} : Inserted(q, e, r, p, d)
<1>1. Len(q) \in Nat
  OBVIOUS
<1>2. CASE r = Append(q, e)
  <2>1. /\ Len(r) = Len(q) + 1 /\ r[Len(q) + 1] = e
        /\ \A i \in 1..Len(q) : r[i] = q[i]
    BY <1>2, AppendFacts
  <2>2. Len(q) + 1 \in 1..Len(r) /\ 0 \in {0, 1}
    BY <1>1, <2>1
  <2>3. /\ \A i \in 1..Len(r) : i # Len(q) + 1 => i - 0 \in 1..Len(q) /\ r[i] = q[i - 0]
        /\ \A j \in 1..Len(q) : j + 0 \in 1..Len(r) /\ r[j + 0] = q[j]
    BY <1>1, <2>1
  <2>4. Inserted(q, e, r, Len(q) + 1, 0)
    BY <2>1, <2>3 DEF Inserted
  <2> QED BY <2>2, <2>4
<1>3. CASE r = << e >> \o q
  <2>1. /\ Len(r) = Len(q) + 1 /\ r[1] = e
        /\ \A i \in 1..Len(q) : r[i + 1] = q[i]
    BY <1>1, <1>3
  <2>2. 1 \in 1..Len(r)
    BY <1>1, <2>1
  <2>3. /\ \A i \in 1..Len(r) : i # 1 => i - 1 \in 1..Len(q) /\ r[i] = q[i - 1]
        /\ \A j \in 1..Len(q) : j + 1 \in 1..Len(r) /\ r[j + 1] = q[j]
    <3>1. ASSUME NEW i \in 1..Len(r), i # 1 PROVE i - 1 \in 1..Len(q) /\ r[i] = q[i - 1]
      <4>1. i - 1 \in 1..Len(q) /\ (i - 1) + 1 = i
        BY <1>1, <2>1, <3>1
      <4> QED BY <2>1, <4>1
    <3> QED BY <1>1, <2>1, <3>1
  <2>4. Inserted(q, e, r, 1, 1)
    BY <2>1, <2>3 DEF Inserted
  <2> QED BY <2>2, <2>4
<1> QED BY <1>2, <1>3

\* An element that was in no list is put into one.
LEMMA PutListed ==
    ASSUME ElementTypeOK, Once, NEW l \in List, NEW e \in Element, ~Listed(e),
           NEW new, new \in {Append(FragList[l], e), << e >> \o FragList[l]},
           FragList' = [FragList EXCEPT ![l] = new]
    PROVE  /\ Once'
           /\ \A x \in Element : Listed(x)' <=> Listed(x) \/ x = e
<1>1. /\ FragList \in [List -> Seq(Element)] /\ FragList[l] \in Seq(Element)
      /\ FragList' \in [List -> Seq(Element)] /\ FragList'[l] = new
      /\ \A k \in List : k # l => FragList'[k] = FragList[k]
      /\ new = Append(FragList[l], e) \/ new = << e >> \o FragList[l]
  BY PutFacts DEF ElementTypeOK
<1>2. PICK p \in 1..Len(new), d \in {0, 1} : Inserted(FragList[l], e, new, p, d)
  <2>1. FragList[l] \in Seq(Element)
    BY <1>1
  <2>2. new = Append(FragList[l], e) \/ new = << e >> \o FragList[l]
    BY <1>1
  <2> QED BY <2>1, <2>2, InsertedAt
<1>3. /\ new[p] = e
      /\ \A i \in 1..Len(new) : i # p => i - d \in 1..Len(FragList[l]) /\ new[i] = FragList[l][i - d]
      /\ \A j \in 1..Len(FragList[l]) : j + d \in 1..Len(new) /\ new[j + d] = FragList[l][j]
  BY <1>2 DEF Inserted
<1>4. Once'
  <2> SUFFICES ASSUME NEW k \in List, NEW m \in List,
                      NEW i \in 1..Len(FragList'[k]), NEW j \in 1..Len(FragList'[m]),
                      FragList'[k][i] = FragList'[m][j]
               PROVE  k = m /\ i = j
    BY DEF Once
  <2>1. CASE k # l /\ m # l
    BY <1>1, <2>1 DEF Once
  <2>2. CASE k = l /\ m # l
    <3>1. FragList'[m] = FragList[m] /\ j \in 1..Len(FragList[m]) /\ i \in 1..Len(new)
      BY <1>1, <2>2
    <3>2. i # p
      BY <1>1, <1>3, <2>2, <3>1 DEF Listed
    <3>3. i - d \in 1..Len(FragList[l]) /\ FragList[l][i - d] = FragList[m][j]
      BY <1>1, <1>3, <2>2, <3>1, <3>2
    <3> QED BY <2>2, <3>1, <3>3 DEF Once
  <2>3. CASE k # l /\ m = l
    <3>1. FragList'[k] = FragList[k] /\ i \in 1..Len(FragList[k]) /\ j \in 1..Len(new)
      BY <1>1, <2>3
    <3>2. j # p
      BY <1>1, <1>3, <2>3, <3>1 DEF Listed
    <3>3. j - d \in 1..Len(FragList[l]) /\ FragList[l][j - d] = FragList[k][i]
      BY <1>1, <1>3, <2>3, <3>1, <3>2
    <3> QED BY <2>3, <3>1, <3>3 DEF Once
  <2>4. CASE k = l /\ m = l
    <3>1. i \in 1..Len(new) /\ j \in 1..Len(new) /\ new[i] = new[j]
      BY <1>1, <2>4
    <3>2. CASE i # p /\ j # p
      <4>1. PICK a, b \in 1..Len(FragList[l]) :
              a = i - d /\ b = j - d /\ FragList[l][a] = FragList[l][b]
        BY SMTT(15), <1>3, <3>1, <3>2
      <4>2. \A x, y \in 1..Len(FragList[l]) : FragList[l][x] = FragList[l][y] => x = y
        BY DEF Once
      <4>3. i \in Int /\ j \in Int /\ d \in Int
        BY <3>1
      <4> QED BY <4>1, <4>2, <4>3, <2>4
    <3>3. CASE i = p \/ j = p
      <4>1. \A n \in 1..Len(new) : n # p => new[n] # e
        BY <1>3 DEF Listed
      <4> QED BY <1>3, <2>4, <3>1, <3>3, <4>1
    <3> QED BY <3>2, <3>3
  <2> QED BY <2>1, <2>2, <2>3, <2>4
<1>5. ASSUME NEW x \in Element PROVE Listed(x)' <=> Listed(x) \/ x = e
  <2>1. ASSUME Listed(x)' PROVE Listed(x) \/ x = e
    <3>1. PICK k \in List : \E i \in 1..Len(FragList'[k]) : FragList'[k][i] = x
      BY <2>1 DEF Listed
    <3>2. CASE k = l
      <4>1. PICK i \in 1..Len(new) : new[i] = x
        BY <1>1, <3>1, <3>2
      <4>2. CASE i # p
        <5>1. i - d \in 1..Len(FragList[l]) /\ FragList[l][i - d] = x
          BY <1>3, <4>1, <4>2
        <5> QED BY <5>1 DEF Listed
      <4> QED BY <1>3, <4>1, <4>2
    <3>3. CASE k # l
      BY <1>1, <3>1, <3>3 DEF Listed
    <3> QED BY <3>2, <3>3
  <2>2. ASSUME Listed(x) PROVE Listed(x)'
    <3>1. PICK k \in List : \E i \in 1..Len(FragList[k]) : FragList[k][i] = x
      BY <2>2 DEF Listed
    <3>2. CASE k = l
      <4>1. PICK j \in 1..Len(FragList[l]) : FragList[l][j] = x
        BY <3>1, <3>2
      <4>2. j + d \in 1..Len(FragList'[l]) /\ FragList'[l][j + d] = x
        BY <1>1, <1>3, <4>1
      <4> QED BY <4>2 DEF Listed
    <3>3. CASE k # l
      BY <1>1, <3>1, <3>3 DEF Listed
    <3> QED BY <3>2, <3>3
  <2>3. ASSUME x = e PROVE Listed(x)'
    BY <1>1, <1>3, <2>3 DEF Listed
  <2> QED BY <2>1, <2>2, <2>3
<1> QED BY <1>4, <1>5

\* Elements leave a list.
LEMMA LeaveListed ==
    ASSUME ElementTypeOK, Once, NEW l \in List, NEW E, Leave(l, E)
    PROVE  /\ Once'
           /\ \A x \in Element : Listed(x)' <=> Listed(x) /\ ~(x \in E /\ x \in On(l))
<1>1. /\ FragList \in [List -> Seq(Element)] /\ FragList[l] \in Seq(Element)
      /\ FragList' \in [List -> Seq(Element)]
      /\ \A k \in List : k # l => FragList'[k] = FragList[k]
  BY LeaveFacts DEF ElementTypeOK
<1>2. PICK f \in [1..Len(FragList'[l]) -> 1..Len(FragList[l])] :
        /\ \A i, j \in 1..Len(FragList'[l]) : i < j => f[i] < f[j]
        /\ \A i \in 1..Len(FragList'[l]) :
             /\ FragList'[l][i] = FragList[l][f[i]]
             /\ FragList[l][f[i]] \notin E
        /\ \A p \in 1..Len(FragList[l]) :
             FragList[l][p] \notin E => \E i \in 1..Len(FragList'[l]) : f[i] = p
  <2>1. FragList \in [List -> Seq(Element)]
    BY <1>1
  <2> QED BY <2>1, LeaveFacts
<1>3. \A i, j \in 1..Len(FragList'[l]) : f[i] = f[j] => i = j
  <2> SUFFICES ASSUME NEW i \in 1..Len(FragList'[l]), NEW j \in 1..Len(FragList'[l]), i # j
               PROVE  f[i] # f[j]
    OBVIOUS
  <2>1. i < j \/ j < i
    OBVIOUS
  <2>2. f[i] \in Int /\ f[j] \in Int
    OBVIOUS
  <2> QED BY <1>2, <2>1, <2>2
<1>4. Once'
  <2> SUFFICES ASSUME NEW k \in List, NEW m \in List,
                      NEW i \in 1..Len(FragList'[k]), NEW j \in 1..Len(FragList'[m]),
                      FragList'[k][i] = FragList'[m][j]
               PROVE  k = m /\ i = j
    BY DEF Once
  <2>1. CASE k # l /\ m # l
    BY <1>1, <2>1 DEF Once
  <2>2. CASE k = l /\ m # l
    <3>1. FragList'[m] = FragList[m] /\ j \in 1..Len(FragList[m])
      BY <1>1, <2>2
    <3>2. f[i] \in 1..Len(FragList[l]) /\ FragList[l][f[i]] = FragList[m][j]
      BY <1>2, <2>2, <3>1
    <3> QED BY <2>2, <3>1, <3>2 DEF Once
  <2>3. CASE k # l /\ m = l
    <3>1. FragList'[k] = FragList[k] /\ i \in 1..Len(FragList[k])
      BY <1>1, <2>3
    <3>2. f[j] \in 1..Len(FragList[l]) /\ FragList[l][f[j]] = FragList[k][i]
      BY <1>2, <2>3, <3>1
    <3> QED BY <2>3, <3>1, <3>2 DEF Once
  <2>4. CASE k = l /\ m = l
    <3>1. f[i] = f[j]
      BY <1>2, <2>4 DEF Once
    <3> QED BY <1>3, <2>4, <3>1
  <2> QED BY <2>1, <2>2, <2>3, <2>4
<1>5. ASSUME NEW x \in Element
      PROVE  Listed(x)' <=> Listed(x) /\ ~(x \in E /\ x \in On(l))
  <2>1. ASSUME Listed(x)' PROVE Listed(x) /\ ~(x \in E /\ x \in On(l))
    <3>1. PICK k \in List : \E i \in 1..Len(FragList'[k]) : FragList'[k][i] = x
      BY <2>1 DEF Listed
    <3>2. CASE k = l
      BY <1>2, <3>1, <3>2 DEF Listed
    <3>3. CASE k # l
      <4>1. FragList'[k] = FragList[k]
        BY <1>1, <3>3
      <4>2. x \notin On(l)
        BY <1>1, <3>1, <3>3, <4>1 DEF On, Once
      <4> QED BY <3>1, <4>1, <4>2 DEF Listed
    <3> QED BY <3>2, <3>3
  <2>2. ASSUME Listed(x), ~(x \in E /\ x \in On(l)) PROVE Listed(x)'
    <3>1. PICK k \in List : \E i \in 1..Len(FragList[k]) : FragList[k][i] = x
      BY <2>2 DEF Listed
    <3>2. CASE k = l
      <4>1. x \in On(l)
        BY <1>1, <3>1, <3>2 DEF On
      <4> QED BY <1>2, <2>2, <3>1, <3>2, <4>1 DEF Listed
    <3>3. CASE k # l
      BY <1>1, <3>1, <3>3 DEF Listed
    <3> QED BY <3>2, <3>3
  <2> QED BY <2>1, <2>2
<1> QED BY <1>4, <1>5

LEMMA InitOwnInv == Init => OwnInv
<1> SUFFICES ASSUME Init PROVE OwnInv
  OBVIOUS
<1>1. /\ \A l \in List : FragList[l] = << >>
      /\ Free_FragList = Element /\ built = None /\ pump.pc = "idle"
      /\ None \notin Element
  BY PumpAssumption DEF Init
<1>2. \A l \in List : Len(FragList[l]) = 0
  BY <1>1
<1>3. \A e : ~Listed(e)
  BY <1>2 DEF Listed
<1>4. Once
  BY <1>2 DEF Once
<1>5. Somewhere /\ Seen
  BY <1>1 DEF Somewhere, Seen
<1>6. Apart /\ Unsent
  BY <1>1, <1>3 DEF Apart, Unsent, InHand
<1> QED BY <1>4, <1>5, <1>6 DEF OwnInv

\* Steps in which no element moves, outside of the lists of the pump.
LEMMA KeepOwnIdle ==
    ASSUME OwnInv, UNCHANGED elements,
           pump.pc \notin {"write", "put", "back"}, pump'.pc \notin Round
    PROVE  OwnInv'
<1>1. /\ UNCHANGED << FragList, Free_FragList, ele, built >>
      /\ \A e : ~InHand(e) /\ ~InHand(e)'
  BY DEF elements, InHand, Round
<1> QED BY <1>1 DEF OwnInv, Once, Somewhere, Apart, Unsent, Seen, Listed, Round

\* Nothing that the invariant speaks of changes.
LEMMA KeepOwnUnchanged ==
    ASSUME OwnInv, UNCHANGED << elements, pumping >>
    PROVE  OwnInv'
  BY DEF OwnInv, Once, Somewhere, Apart, Unsent, Seen, Listed, InHand, ThisList, elements, pumping

\* The pump sees an element.
LEMMA KeepOwnFind ==
    ASSUME OwnInv, CardTypeOK, ElementTypeOK, ProcessAclFrag_Find
    PROVE  OwnInv'
<1>1. UNCHANGED elements /\ pump.pc = "find"
  BY DEF ProcessAclFrag_Find
<1>2. CASE ResumePump("done", 0, None) \/ ResumePump("find", pump.i + 1, None)
  BY <1>1, <1>2, KeepOwnIdle DEF ResumePump, Round
<1>3. CASE /\ UNCHANGED AclProcCounter
           /\ \E i \in Servable(ThisList) : ResumePump("take", pump.i, FragList[ThisList][i])
  <2>1. PICK i \in DOMAIN FragList[ThisList] : ResumePump("take", pump.i, FragList[ThisList][i])
    BY <1>3 DEF Servable
  <2>2. /\ UNCHANGED << FragList, Free_FragList, ele, built >>
        /\ \A e : ~InHand(e) /\ ~InHand(e)'
        /\ pump'.pc = "take" /\ pump'.i = pump.i /\ pump'.ele = FragList[ThisList][i]
    BY <1>1, <2>1 DEF elements, InHand, ResumePump
  <2>3. ThisList' = ThisList
    BY <1>3, <2>2 DEF ThisList
  <2>4. i \in 1..Len(FragList[ThisList])
    BY ThisListType DEF ElementTypeOK
  <2>5. Seen'
    BY <2>2, <2>3, <2>4 DEF Seen
  <2> QED BY <2>2, <2>5 DEF OwnInv, Once, Somewhere, Apart, Unsent, Listed
<1> QED BY <1>2, <1>3 DEF ProcessAclFrag_Find, EndRound

\* It takes the element off its list.
LEMMA KeepOwnTake ==
    ASSUME OwnInv, CardTypeOK, ElementTypeOK, ProcessAclFrag_Take
    PROVE  OwnInv'
<1>1. /\ pump.pc = "take" /\ Leave(ThisList, {pump.ele})
      /\ UNCHANGED << Free_FragList, ele, built >>
      /\ pump'.pc = "write" /\ pump'.ele = pump.ele
      /\ pump.ele \in Element
  BY DEF ProcessAclFrag_Take, ResumePump, ElementTypeOK, Round
<1>2. ThisList \in List
  BY ThisListType
<1>3. /\ Once'
      /\ \A x \in Element : Listed(x)' <=> Listed(x) /\ ~(x \in {pump.ele} /\ x \in On(ThisList))
  BY <1>1, <1>2, LeaveListed DEF OwnInv
<1>4. pump.ele \in On(ThisList) /\ Listed(pump.ele)
  <2>1. PICK i \in 1..Len(FragList[ThisList]) : FragList[ThisList][i] = pump.ele
    BY <1>1 DEF OwnInv, Seen
  <2>2. i \in DOMAIN FragList[ThisList]
    BY <1>2 DEF ElementTypeOK
  <2> QED BY <1>2, <2>1, <2>2 DEF On, Listed
<1>5. \A x \in Element : Listed(x)' <=> Listed(x) /\ x # pump.ele
  BY <1>3, <1>4
<1>6. \A x : ~InHand(x) /\ (InHand(x)' <=> x = pump.ele)
  BY <1>1 DEF InHand
<1>7. Somewhere' /\ Apart'
  BY <1>1, <1>4, <1>5, <1>6 DEF OwnInv, Somewhere, Apart
<1>8. Unsent' /\ Seen'
  BY <1>1, <1>4, <1>5 DEF OwnInv, Unsent, Seen
<1> QED BY <1>3, <1>7, <1>8 DEF OwnInv

\* It cannot write it.
LEMMA KeepOwnRefused ==
    ASSUME OwnInv, ProcessAclFrag_NoSpace \/ ProcessAclFrag_WriteFails
    PROVE  OwnInv'
<1>1. /\ UNCHANGED << FragList, Free_FragList, ele, built >>
      /\ pump.pc = "write" /\ pump'.pc = "back" /\ pump'.ele = pump.ele
  BY DEF ProcessAclFrag_NoSpace, ProcessAclFrag_WriteFails, ResumePump, elements
<1>2. \A e : InHand(e)' <=> InHand(e)
  BY <1>1 DEF InHand
<1> QED BY <1>1, <1>2 DEF OwnInv, Once, Somewhere, Apart, Unsent, Seen, Listed

\* It writes a part of it.
LEMMA KeepOwnWrite ==
    ASSUME OwnInv, ElementTypeOK, ProcessAclFrag_Write
    PROVE  OwnInv'
<1>1. /\ UNCHANGED << FragList, Free_FragList, built >>
      /\ ele' = [ele EXCEPT ![pump.ele].ppid = @ + 1]
      /\ pump.pc = "write" /\ pump'.pc = "put" /\ pump'.ele = pump.ele
      /\ pump.ele \in Element
      /\ ele[pump.ele].ppid < ele[pump.ele].fpid
  BY DEF ProcessAclFrag_Write, ResumePump, ElementTypeOK, Round
<1>2. \A x \in Element : x # pump.ele => ele'[x] = ele[x]
  BY <1>1, WrittenElement
<1>3. \A e : (InHand(e)' <=> InHand(e)) /\ (Listed(e)' <=> Listed(e))
  BY <1>1 DEF InHand, Listed
<1>4. InHand(pump.ele)
  BY <1>1 DEF InHand
<1>5. Unsent'
  <2>1. ~Listed(pump.ele) /\ built # pump.ele
    BY <1>1, <1>4 DEF OwnInv, Apart
  <2>2. \A e \in Element : Listed(e)' \/ built' = e => ele'[e].ppid < ele'[e].fpid
    BY <1>1, <1>2, <1>3, <2>1 DEF OwnInv, Unsent
  <2>3. ele'[pump.ele].ppid <= ele'[pump.ele].fpid
    <3>1. /\ ele'[pump.ele].fpid = ele[pump.ele].fpid
          /\ ele'[pump.ele].ppid = ele[pump.ele].ppid + 1
      BY <1>1, WrittenElement
    <3>2. ele[pump.ele].ppid \in Nat /\ ele[pump.ele].fpid \in Nat
      BY <1>1, PumpAssumption DEF ElementTypeOK
    <3> QED BY <1>1, <3>1, <3>2
  <2> QED BY <1>1, <2>2, <2>3 DEF Unsent
<1> QED BY <1>1, <1>3, <1>5 DEF OwnInv, Once, Somewhere, Apart, Seen

\* The element goes back to the head of its list, or to the free list when all
\* of it was written.
LEMMA KeepOwnReturn ==
    ASSUME OwnInv, CardTypeOK, ElementTypeOK, ProcessAclFrag_Put \/ ProcessAclFrag_Back
    PROVE  OwnInv'
<1>1. /\ pump.pc \in {"put", "back"} /\ pump'.pc \in {"done", "find"}
      /\ pump.ele \in Element /\ UNCHANGED << ele, built >>
  BY DEF ProcessAclFrag_Put, ProcessAclFrag_Back, EndRound, ResumePump, ElementTypeOK, Round
<1>2. \A x : (InHand(x) <=> x = pump.ele) /\ ~InHand(x)'
  BY <1>1 DEF InHand
<1>3. ~Listed(pump.ele) /\ pump.ele \notin Free_FragList /\ built # pump.ele
  BY <1>1, <1>2 DEF OwnInv, Apart
<1>4. Seen'
  BY <1>1 DEF Seen
<1>5. CASE /\ Free_FragList' = Free_FragList \cup {pump.ele} /\ UNCHANGED FragList
  <2>1. Once' /\ \A x : Listed(x)' <=> Listed(x)
    BY <1>5 DEF OwnInv, Once, Listed
  <2>2. Somewhere' /\ Apart' /\ Unsent'
    BY <1>1, <1>2, <1>3, <1>5, <2>1 DEF OwnInv, Somewhere, Apart, Unsent
  <2> QED BY <1>4, <2>1, <2>2 DEF OwnInv
<1>6. CASE /\ UNCHANGED Free_FragList /\ PushHead(ThisList, pump.ele)
           /\ ele[pump.ele].ppid < ele[pump.ele].fpid
  <2>1. ThisList \in List
    BY ThisListType
  <2>2. Once' /\ \A x \in Element : Listed(x)' <=> Listed(x) \/ x = pump.ele
    BY <1>1, <1>3, <1>6, <2>1, PutListed DEF PushHead, OwnInv
  <2>3. Somewhere' /\ Apart'
    BY <1>1, <1>2, <1>3, <1>6, <2>2 DEF OwnInv, Somewhere, Apart
  <2>4. Unsent'
    BY <1>1, <1>3, <1>6, <2>2 DEF OwnInv, Unsent
  <2> QED BY <1>4, <2>2, <2>3, <2>4 DEF OwnInv
<1>7. CASE ProcessAclFrag_Put
  <2>1. ele[pump.ele].ppid \in Nat /\ ele[pump.ele].fpid \in Nat
    BY <1>1, PumpAssumption DEF ElementTypeOK
  <2>2. ele[pump.ele].ppid <= ele[pump.ele].fpid
    BY <1>7 DEF ProcessAclFrag_Put, OwnInv, Unsent
  <2>3. ele[pump.ele].ppid # ele[pump.ele].fpid => ele[pump.ele].ppid < ele[pump.ele].fpid
    BY <2>1, <2>2
  <2> QED BY <1>5, <1>6, <1>7, <2>3 DEF ProcessAclFrag_Put
<1>8. CASE ProcessAclFrag_Back
  <2>1. ele[pump.ele].ppid < ele[pump.ele].fpid
    BY <1>8 DEF ProcessAclFrag_Back, OwnInv, Unsent
  <2> QED BY <1>6, <1>8, <2>1 DEF ProcessAclFrag_Back
<1> QED BY <1>7, <1>8

\* The stack takes a free element and fills it,
LEMMA KeepOwnBuildTake ==
    ASSUME OwnInv, ElementTypeOK, NEW c \in Conn, BuildFrag_Take(c)
    PROVE  OwnInv'
<1>1. PICK e \in Free_FragList, n \in 1..MaxWrites :
        /\ Free_FragList' = Free_FragList \ {e}
        /\ ele' = [ele EXCEPT ![e] = [dev |-> c, ppid |-> 0, fpid |-> n]]
        /\ built' = e
  BY DEF BuildFrag_Take
<1>2. e \in Element /\ built = None /\ None \notin Element /\ UNCHANGED << FragList, pump, AclProcCounter >>
  BY PumpAssumption DEF ElementTypeOK, BuildFrag_Take, pumping
<1>3. ~Listed(e) /\ ~InHand(e)
  BY <1>2 DEF OwnInv, Apart
<1>4. \A x : (Listed(x)' <=> Listed(x)) /\ (InHand(x)' <=> InHand(x))
  BY <1>2 DEF Listed, InHand
<1>5. /\ ele'[e].ppid < ele'[e].fpid
      /\ \A x \in Element : x # e => ele'[x] = ele[x]
  <2>1. ele \in [Element -> [dev : Conn \cup {None}, ppid : 0..MaxWrites, fpid : 0..MaxWrites]]
    BY DEF ElementTypeOK
  <2>2. ele'[e] = [dev |-> c, ppid |-> 0, fpid |-> n] /\ \A x \in Element : x # e => ele'[x] = ele[x]
    BY <1>1, <1>2, <2>1
  <2> QED BY <2>2
<1>6. Once' /\ Seen'
  BY <1>2 DEF OwnInv, Once, Seen, ThisList
<1>7. Somewhere' /\ Apart'
  BY <1>1, <1>2, <1>3, <1>4 DEF OwnInv, Somewhere, Apart
<1>8. Unsent'
  <2>1. \A x \in Element : Listed(x)' \/ built' = x => ele'[x].ppid < ele'[x].fpid
    BY <1>1, <1>3, <1>4, <1>5 DEF OwnInv, Unsent
  <2>2. pump.pc \in {"write", "put", "back"} => pump.ele \in Element /\ pump.ele # e
    BY <1>3 DEF InHand, ElementTypeOK, Round
  <2>3. pump.pc \in {"write", "put", "back"} => ele'[pump.ele] = ele[pump.ele]
    BY <2>2, <1>5
  <2> QED BY <1>2, <2>1, <2>3 DEF OwnInv, Unsent
<1> QED BY <1>6, <1>7, <1>8 DEF OwnInv

\* and puts it behind the others of its list.
LEMMA KeepOwnBuildPut ==
    ASSUME OwnInv, CardTypeOK, ElementTypeOK, BuildFrag_Put
    PROVE  OwnInv'
<1> DEFINE l == ListOf[ele[built].dev]
<1>1. /\ built \in Element /\ l \in List /\ built' = None /\ None \notin Element
      /\ FragList' = [FragList EXCEPT ![l] = Append(FragList[l], built)]
      /\ UNCHANGED << Free_FragList, ele, pump, AclProcCounter >>
  <2>1. built \in Element /\ ele[built].dev \in Conn
    BY DEF BuildFrag_Put, ElementTypeOK
  <2> QED BY <2>1, PumpAssumption DEF BuildFrag_Put, ElementTypeOK, pumping
<1> HIDE DEF l
<1>2. ~Listed(built) /\ built \notin Free_FragList /\ ~InHand(built)
  BY <1>1 DEF OwnInv, Apart
<1>3. Once' /\ \A x \in Element : Listed(x)' <=> Listed(x) \/ x = built
  BY <1>1, <1>2, PutListed DEF OwnInv
<1>4. \A x : InHand(x)' <=> InHand(x)
  BY <1>1 DEF InHand
<1>5. Somewhere' /\ Apart'
  BY <1>1, <1>2, <1>3, <1>4 DEF OwnInv, Somewhere, Apart
<1>6. Unsent'
  BY <1>1, <1>3 DEF OwnInv, Unsent
<1>7. Seen'
  <2> SUFFICES ASSUME pump.pc = "take"
               PROVE  \E i \in 1..Len(FragList'[ThisList]) : FragList'[ThisList][i] = pump.ele
    BY <1>1 DEF Seen, ThisList
  <2>1. ThisList \in List
    BY ThisListType
  <2>2. PICK i \in 1..Len(FragList[ThisList]) : FragList[ThisList][i] = pump.ele
    BY DEF OwnInv, Seen
  <2>3. CASE ThisList = l
    <3>1. FragList[l] \in Seq(Element)
      BY <1>1 DEF ElementTypeOK
    <3>2. FragList'[l] = Append(FragList[l], built)
      BY <1>1 DEF ElementTypeOK
    <3>3. i \in 1..Len(FragList'[l]) /\ FragList'[l][i] = FragList[l][i]
      BY <1>1, <2>2, <2>3, <3>1, <3>2, AppendFacts
    <3> QED BY <2>2, <2>3, <3>3
  <2>4. CASE ThisList # l
    BY <1>1, <2>1, <2>2, <2>4 DEF ElementTypeOK
  <2> QED BY <2>3, <2>4
<1> QED BY <1>3, <1>5, <1>6, <1>7 DEF OwnInv

\* The elements of a connection that is closed are freed, while the pump rests.
LEMMA KeepOwnClose ==
    ASSUME OwnInv, ElementTypeOK, NEW c \in Conn, Frag_InitTxForConnDev(c), pump.pc = "idle"
    PROVE  OwnInv'
<1> DEFINE l == ListOf[c]
           Dropped == {e \in On(l) : ele[e].dev = c}
<1>1. /\ Leave(l, Dropped) /\ Free_FragList' = Free_FragList \cup Dropped
      /\ l \in List /\ UNCHANGED << ele, built, pump, AclProcCounter >>
  BY PumpAssumption DEF Frag_InitTxForConnDev, pumping
<1>2. Dropped \subseteq On(l)
  OBVIOUS
<1>3. \A x \in On(l) : x \in Element /\ Listed(x)
  <2> SUFFICES ASSUME NEW x \in On(l) PROVE x \in Element /\ Listed(x)
    OBVIOUS
  <2>1. FragList[l] \in Seq(Element) /\ DOMAIN FragList[l] = 1..Len(FragList[l])
    BY <1>1 DEF ElementTypeOK
  <2>2. PICK i \in DOMAIN FragList[l] : FragList[l][i] = x
    BY DEF On
  <2> QED BY <1>1, <2>1, <2>2 DEF Listed
<1> HIDE DEF l, Dropped
<1>4. Once' /\ \A x \in Element : Listed(x)' <=> Listed(x) /\ x \notin Dropped
  BY <1>1, <1>2, LeaveListed DEF OwnInv
<1>5. \A x : ~InHand(x) /\ ~InHand(x)'
  BY <1>1 DEF InHand
<1>6. Somewhere' /\ Apart'
  BY <1>1, <1>2, <1>3, <1>4, <1>5 DEF OwnInv, Somewhere, Apart
<1>7. Unsent' /\ Seen'
  BY <1>1, <1>4 DEF OwnInv, Unsent, Seen
<1> QED BY <1>4, <1>6, <1>7 DEF OwnInv

LEMMA KeepOwn == OwnInv /\ TypeInv /\ [Next]_vars => OwnInv'
<1> SUFFICES ASSUME OwnInv, TypeInv, [Next]_vars PROVE OwnInv'
  OBVIOUS
<1> USE DEF TypeInv, CInv
<1>1. CASE UNCHANGED vars
  BY <1>1, KeepOwnUnchanged DEF vars
<1>2. CASE Tasklet
  <2>1. CASE ProcessAclFrag_Find
    BY <2>1, KeepOwnFind
  <2>2. CASE ProcessAclFrag_Take
    BY <2>2, KeepOwnTake
  <2>3. CASE ProcessAclFrag_NoSpace \/ ProcessAclFrag_WriteFails
    BY <2>3, KeepOwnRefused
  <2>4. CASE ProcessAclFrag_Write
    BY <2>4, KeepOwnWrite
  <2>5. CASE ProcessAclFrag_Put \/ ProcessAclFrag_Back
    BY <2>5, KeepOwnReturn
  <2>6. CASE \E l \in List : CheckTxQueue_Control(l)
    <3>1. /\ UNCHANGED elements /\ pump.pc = "check"
          /\ UNCHANGED pump \/ pump'.pc \in {"find", "done"}
      BY <2>6 DEF CheckTxQueue_Control, ResumePump
    <3> QED BY <3>1, KeepOwnIdle DEF Round
  <2>7. CASE Frag_ProcessSpaceInt \/ CheckTxQueue_Return \/ CheckTxQueue_Acl \/ ProcessSpaceInt_End
    <3>1. /\ UNCHANGED elements /\ pump.pc \in {"idle", "check", "done"}
          /\ pump'.pc \in {"check", "done", "find", "idle"}
      BY <2>7 DEF Frag_ProcessSpaceInt, CheckTxQueue_Return, CheckTxQueue_Acl,
                  ProcessSpaceInt_End, ResumePump
    <3> QED BY <3>1, KeepOwnIdle DEF Round
  <2>8. CASE Usb_WriteCompletion
    BY <2>8, KeepOwnUnchanged DEF Usb_WriteCompletion
  <2> QED BY <1>2, <2>1, <2>2, <2>3, <2>4, <2>5, <2>6, <2>7, <2>8 DEF Tasklet
<1>3. CASE Timers \/ Card \/ Rest
  <2>1. UNCHANGED << elements, pumping >>
    BY <1>3 DEF Timers, DataSendingTimer_Test, DataSendingTimer_Set, BtWatchdogTimer, Card,
         Card_Take, Card_Answer, Card_Loses, Card_Send,
         Rest, Connect, Hci_Del_Connect_Device, Bar, Hci_StopL2capFlowTimer, ControlFrame,
         Frag_StopQueue, Frag_StartQueueForSco, FlushInt, FlushDone
  <2> QED BY <2>1, KeepOwnUnchanged
<1>4. CASE Host
  BY <1>4, KeepOwnBuildTake, KeepOwnBuildPut DEF Host
<1>5. CASE \E c \in Conn : pump.pc = "idle" /\ Frag_InitTxForConnDev(c)
  BY <1>5, KeepOwnClose
<1> QED BY <1>1, <1>2, <1>3, <1>4, <1>5 DEF Next, Step

\* One place for each element, as a sum.
LEMMA OnePlace ==
    ASSUME OwnInv, ElementTypeOK, NEW e \in Element
    PROVE  Cardinality(Places(e)) + Count(e \in Free_FragList) + Count(built = e)
             + Count(InHand(e)) = 1
<1>1. \A l \in List : DOMAIN FragList[l] = 1..Len(FragList[l])
  BY DEF ElementTypeOK
<1>2. CASE Listed(e)
  <2>1. PICK l \in List : \E i \in 1..Len(FragList[l]) : FragList[l][i] = e
    BY <1>2 DEF Listed
  <2>2. PICK i \in 1..Len(FragList[l]) : FragList[l][i] = e
    BY <2>1
  <2>3. << l, i >> \in Places(e)
    BY <1>1, <2>2 DEF Places
  <2>4. \A p \in Places(e) : p = << l, i >>
    <3> SUFFICES ASSUME NEW k \in List, NEW j \in DOMAIN FragList[k], FragList[k][j] = e
                 PROVE  << k, j >> = << l, i >>
      BY DEF Places
    <3> QED BY <1>1, <2>2 DEF OwnInv, Once
  <2>5. Places(e) = {<< l, i >>}
    BY <2>3, <2>4
  <2>6. Cardinality(Places(e)) = 1
    BY <2>5, FS_Singleton
  <2>7. e \notin Free_FragList /\ built # e /\ ~InHand(e)
    BY <1>2 DEF OwnInv, Apart
  <2> QED BY <2>6, <2>7 DEF Count
<1>3. CASE ~Listed(e)
  <2>1. Places(e) = {}
    BY <1>1, <1>3 DEF Places, Listed
  <2>2. Cardinality(Places(e)) = 0
    BY <2>1, FS_EmptySet
  <2>3. CASE e \in Free_FragList
    BY <2>2, <2>3 DEF OwnInv, Apart, Count
  <2>4. CASE e \notin Free_FragList /\ built = e
    BY <2>2, <2>4 DEF OwnInv, Apart, Count
  <2>5. CASE e \notin Free_FragList /\ built # e
    <3>1. InHand(e)
      BY <1>3, <2>5 DEF OwnInv, Somewhere
    <3> QED BY <2>2, <2>5, <3>1 DEF Count
  <2> QED BY <2>3, <2>4, <2>5
<1> QED BY <1>2, <1>3

\* An element is in one place whatever is refused, put back or dropped: once in
\* one list with something left to send, free, being filled, or in the hands of
\* the pump, which takes an element off its list under another section of
\* FragTxLock than the one it saw it in (Frag_ProcessAclFrag, Frag_BuildFrag,
\* Frag_InitTxForConnDev).
THEOREM ElementsOwned == Spec => []ElementOwned
<1>1. Init => OwnInv
  BY InitOwnInv
<1>2. OwnInv /\ TypeInv /\ [Next]_vars => OwnInv'
  BY KeepOwn
<1>3. OwnInv /\ TypeInv => ElementOwned
  <2> SUFFICES ASSUME OwnInv, TypeInv, NEW e \in Element, Places(e) # {}
               PROVE  ele[e].ppid < ele[e].fpid
    BY OnePlace DEF ElementOwned, TypeInv
  <2>1. Listed(e)
    BY DEF Places, Listed, TypeInv, ElementTypeOK
  <2> QED BY <2>1 DEF OwnInv, Unsent
<1> QED BY <1>1, <1>2, <1>3, TypesHold, OneProcessor, PTL DEF Spec

-----------------------------------------------------------------------------
(* Selecting the elements of a sequence at some places, in their order.    *)

\* The ranks of the places are the numbers from 1 on, in the order of the places.
LEMMA RankFacts ==
    ASSUME NEW n \in Nat, NEW P \in SUBSET (1..n)
    PROVE  /\ IsFiniteSet(P) /\ Cardinality(P) \in Nat
           /\ \A i \in P : Rank(i, P) \in 1..Cardinality(P)
           /\ \A i, j \in P : i < j => Rank(i, P) < Rank(j, P)
           /\ \A k \in 1..Cardinality(P) : \E i \in P : Rank(i, P) = k
<1> DEFINE Upto(i) == {j \in P : j <= i}
<1>1. IsFiniteSet(P) /\ Cardinality(P) \in Nat
  <2>1. IsFiniteSet(1..n)
    BY FS_Interval
  <2> QED BY <2>1, FS_Subset, FS_CardinalityType
<1>2. \A i \in P : /\ IsFiniteSet(Upto(i)) /\ Cardinality(Upto(i)) \in Nat
                   /\ Cardinality(Upto(i)) <= Cardinality(P)
                   /\ Cardinality(Upto(i)) # 0
  <2> SUFFICES ASSUME NEW i \in P
               PROVE  /\ IsFiniteSet(Upto(i)) /\ Cardinality(Upto(i)) \in Nat
                      /\ Cardinality(Upto(i)) <= Cardinality(P)
                      /\ Cardinality(Upto(i)) # 0
    OBVIOUS
  <2>1. Upto(i) \in SUBSET P /\ i \in Upto(i)
    OBVIOUS
  <2>2. Upto(i) # {}
    BY <2>1
  <2> HIDE DEF Upto
  <2> QED BY <1>1, <2>1, <2>2, FS_Subset, FS_CardinalityType, FS_EmptySet
<1>3. \A i \in P : Rank(i, P) \in 1..Cardinality(P)
  BY <1>1, <1>2 DEF Rank
<1>4. \A i, j \in P : i < j => Rank(i, P) < Rank(j, P)
  <2> SUFFICES ASSUME NEW i \in P, NEW j \in P, i < j PROVE Rank(i, P) < Rank(j, P)
    OBVIOUS
  <2>0. \A x \in P : x \in Int
    OBVIOUS
  <2>1. Upto(i) \in SUBSET Upto(j) /\ j \in Upto(j) /\ j \notin Upto(i)
    <3>1. \A x \in P : x <= i => x <= j
      BY <2>0
    <3>2. ~(j <= i) /\ j <= j
      BY <2>0
    <3> QED BY <3>1, <3>2
  <2>2. /\ IsFiniteSet(Upto(j)) /\ Cardinality(Upto(j)) \in Nat /\ Cardinality(Upto(i)) \in Nat
    BY <1>2
  <2>3. /\ Rank(i, P) = Cardinality(Upto(i)) /\ Rank(j, P) = Cardinality(Upto(j))
    BY DEF Rank
  <2> HIDE DEF Upto
  <2>4. /\ Cardinality(Upto(i)) <= Cardinality(Upto(j))
        /\ Cardinality(Upto(i)) = Cardinality(Upto(j)) => Upto(i) = Upto(j)
    BY <2>1, <2>2, FS_Subset
  <2> QED BY <2>1, <2>2, <2>3, <2>4
<1>5. \A k \in 1..Cardinality(P) : \E i \in P : Rank(i, P) = k
  <2> DEFINE R == {Rank(i, P) : i \in P}
             f == [i \in P |-> Rank(i, P)]
             N == Cardinality(P)
  <2>1. R \in SUBSET (1..N)
    BY <1>3
  <2>2. \A i, j \in P : Rank(i, P) = Rank(j, P) => i = j
    <3> SUFFICES ASSUME NEW i \in P, NEW j \in P, i # j PROVE Rank(i, P) # Rank(j, P)
      OBVIOUS
    <3>1. i < j \/ j < i
      OBVIOUS
    <3>2. Rank(i, P) \in Int /\ Rank(j, P) \in Int
      BY <1>3
    <3> QED BY <1>4, <3>1, <3>2
  <2>3. f \in Bijection(P, R)
    <3> HIDE DEF N
    <3>1. f \in [P -> R] /\ \A i, j \in P : f[i] = f[j] => i = j
      BY <2>2
    <3>2. \A y \in R : \E i \in P : f[i] = y
      OBVIOUS
    <3> QED BY <3>1, <3>2 DEF Bijection, Injection, Surjection, IsInjective
  <2>4. IsFiniteSet(R) /\ Cardinality(R) = N
    <3> HIDE DEF f, R
    <3> QED BY <1>1, <2>3, FS_Bijection DEF ExistsBijection
  <2>5. IsFiniteSet(1..N) /\ Cardinality(1..N) = N
    BY <1>1, FS_Interval
  <2>6. R = 1..N
    <3> HIDE DEF R, N
    <3> QED BY <2>1, <2>4, <2>5, FS_Subset
  <2> QED BY <2>6
<1> QED BY <1>1, <1>3, <1>4, <1>5

\* The element at a place is found at its rank.
LEMMA InOrderFacts ==
    ASSUME NEW S, NEW q \in Seq(S), NEW P \in SUBSET (1..Len(q))
    PROVE  /\ InOrder(q, P) \in Seq(S) /\ Len(InOrder(q, P)) = Cardinality(P)
           /\ \A i \in P : InOrder(q, P)[Rank(i, P)] = q[i]
<1> DEFINE at(k) == CHOOSE i \in P : Rank(i, P) = k
<1>1. /\ Len(q) \in Nat /\ \A i \in 1..Len(q) : q[i] \in S
  OBVIOUS
<1>2. /\ Cardinality(P) \in Nat
      /\ \A i \in P : Rank(i, P) \in 1..Cardinality(P)
      /\ \A i, j \in P : i < j => Rank(i, P) < Rank(j, P)
      /\ \A k \in 1..Cardinality(P) : \E i \in P : Rank(i, P) = k
  BY <1>1, RankFacts
<1>3. \A k \in 1..Cardinality(P) : at(k) \in P /\ Rank(at(k), P) = k
  BY <1>2
<1>4. \A i, j \in P : Rank(i, P) = Rank(j, P) => i = j
  <2> SUFFICES ASSUME NEW i \in P, NEW j \in P, i # j PROVE Rank(i, P) # Rank(j, P)
    OBVIOUS
  <2>1. i < j \/ j < i
    OBVIOUS
  <2>2. Rank(i, P) \in Int /\ Rank(j, P) \in Int
    BY <1>2
  <2> QED BY <1>2, <2>1, <2>2
<1>5. InOrder(q, P) = [k \in 1..Cardinality(P) |-> q[at(k)]]
  BY DEF InOrder
<1> HIDE DEF at
<1>6. InOrder(q, P) \in [1..Cardinality(P) -> S]
  <2>1. \A k \in 1..Cardinality(P) : q[at(k)] \in S
    BY <1>1, <1>3
  <2> QED BY <1>5, <2>1
<1>7. \A i \in P : InOrder(q, P)[Rank(i, P)] = q[i]
  <2> SUFFICES ASSUME NEW i \in P PROVE InOrder(q, P)[Rank(i, P)] = q[i]
    OBVIOUS
  <2>1. at(Rank(i, P)) = i
    BY <1>2, <1>3, <1>4
  <2> QED BY <1>2, <1>5, <2>1
<1> QED BY <1>2, <1>6, <1>7

\* Places that correspond, in their order, select the same elements.
LEMMA SameOrder ==
    ASSUME NEW S, NEW q \in Seq(S), NEW r \in Seq(S),
           NEW P \in SUBSET (1..Len(q)), NEW R \in SUBSET (1..Len(r)),
           NEW g \in [P -> R],
           \A i, j \in P : i < j => g[i] < g[j],
           \A m \in R : \E i \in P : g[i] = m,
           \A i \in P : r[g[i]] = q[i]
    PROVE  InOrder(r, R) = InOrder(q, P)
<1>1. /\ Len(q) \in Nat /\ Len(r) \in Nat
      /\ \A i \in P : i \in Int /\ g[i] \in R /\ g[i] \in Int
  <2>1. \A i \in P : i \in Int
    OBVIOUS
  <2>2. \A m \in R : m \in Int
    OBVIOUS
  <2>3. \A i \in P : g[i] \in R
    OBVIOUS
  <2>4. Len(q) \in Nat /\ Len(r) \in Nat
    OBVIOUS
  <2> QED BY <2>1, <2>2, <2>3, <2>4
<1>2. \A i, j \in P : (i <= j <=> g[i] <= g[j]) /\ (g[i] = g[j] => i = j)
  <2> SUFFICES ASSUME NEW i \in P, NEW j \in P
               PROVE  (i <= j <=> g[i] <= g[j]) /\ (g[i] = g[j] => i = j)
    OBVIOUS
  <2>1. CASE i < j
    BY <1>1, <2>1
  <2>2. CASE j < i
    BY <1>1, <2>2
  <2>3. CASE i = j
    BY <1>1, <2>3
  <2> QED BY <1>1, <2>1, <2>2, <2>3
<1>3. /\ IsFiniteSet(P) /\ Cardinality(P) \in Nat
      /\ \A k \in 1..Cardinality(P) : \E i \in P : Rank(i, P) = k
  BY <1>1, RankFacts
<1>4. g \in Bijection(P, R)
  BY <1>2 DEF Bijection, Injection, Surjection, IsInjective
<1>5. Cardinality(R) = Cardinality(P)
  BY <1>3, <1>4, FS_Bijection DEF ExistsBijection
<1>6. \A i \in P : Rank(g[i], R) = Rank(i, P)
  <2> SUFFICES ASSUME NEW i \in P PROVE Rank(g[i], R) = Rank(i, P)
    OBVIOUS
  <2> DEFINE A == {j \in P : j <= i}
             B == {m \in R : m <= g[i]}
             h == [j \in A |-> g[j]]
  <2>1. IsFiniteSet(A)
    <3>1. A \in SUBSET P
      OBVIOUS
    <3> QED BY <1>3, <3>1, FS_Subset
  <2>2. h \in Bijection(A, B)
    <3>1. h \in [A -> B]
      BY <1>1, <1>2
    <3>2. \A j, k \in A : h[j] = h[k] => j = k
      BY <1>2
    <3>3. \A m \in B : \E j \in A : h[j] = m
      <4> SUFFICES ASSUME NEW m \in B PROVE \E j \in A : h[j] = m
        OBVIOUS
      <4>1. PICK j \in P : g[j] = m
        OBVIOUS
      <4>2. j \in A
        BY <1>2, <4>1
      <4> QED BY <4>1, <4>2
    <3> HIDE DEF A, B, h
    <3> QED BY <3>1, <3>2, <3>3 DEF Bijection, Injection, Surjection, IsInjective
  <2>3. Rank(g[i], R) = Cardinality(B) /\ Rank(i, P) = Cardinality(A)
    BY DEF Rank
  <2> HIDE DEF A, B, h
  <2>4. Cardinality(A) = Cardinality(B)
    BY <2>1, <2>2, FS_Bijection DEF ExistsBijection
  <2> QED BY <2>3, <2>4
<1>7. /\ InOrder(q, P) \in Seq(S) /\ Len(InOrder(q, P)) = Cardinality(P)
      /\ \A i \in P : InOrder(q, P)[Rank(i, P)] = q[i]
  BY InOrderFacts
<1>8. /\ InOrder(r, R) \in Seq(S) /\ Len(InOrder(r, R)) = Cardinality(R)
      /\ \A m \in R : InOrder(r, R)[Rank(m, R)] = r[m]
  BY InOrderFacts
<1> DEFINE a == InOrder(q, P)
           b == InOrder(r, R)
<1>9. \A k \in 1..Cardinality(P) : b[k] = a[k]
  <2> SUFFICES ASSUME NEW k \in 1..Cardinality(P) PROVE b[k] = a[k]
    OBVIOUS
  <2>1. PICK i \in P : Rank(i, P) = k
    BY <1>3
  <2>2. a[k] = q[i]
    BY <1>7, <2>1
  <2>3. b[k] = r[g[i]]
    BY <1>1, <1>6, <1>8, <2>1
  <2> QED BY <2>2, <2>3
<1>10. a \in Seq(S) /\ b \in Seq(S) /\ Len(a) = Len(b) /\ \A k \in 1..Len(a) : b[k] = a[k]
  BY <1>5, <1>7, <1>8, <1>9
<1> HIDE DEF a, b
<1>11. a = b
  BY <1>10
<1> QED BY <1>11 DEF a, b

\* An element put before a sequence.
LEMMA PushFacts ==
    ASSUME NEW S, NEW s \in Seq(S), NEW e \in S
    PROVE  /\ << e >> \o s \in Seq(S)
           /\ Len(s) \in Nat /\ Len(<< e >> \o s) = Len(s) + 1
           /\ (<< e >> \o s)[1] = e
           /\ \A i \in 1..Len(s) : (<< e >> \o s)[i + 1] = s[i]
  OBVIOUS

\* The first place gives the first element,
LEMMA FirstInOrder ==
    ASSUME NEW S, NEW q \in Seq(S), NEW P \in SUBSET (1..Len(q)), NEW p \in P,
           \A j \in P : p <= j
    PROVE  InOrder(q, P) = << q[p] >> \o InOrder(q, P \ {p})
<1> DEFINE R == P \ {p}
           a == InOrder(q, P)
           b == InOrder(q, R)
<1>1. /\ Len(q) \in Nat /\ \A i \in P : i \in Int
      /\ R \in SUBSET (1..Len(q)) /\ q[p] \in S
  OBVIOUS
<1>2. /\ IsFiniteSet(P) /\ Cardinality(P) \in Nat
      /\ \A i \in P : Rank(i, P) \in 1..Cardinality(P)
      /\ \A k \in 1..Cardinality(P) : \E i \in P : Rank(i, P) = k
  BY <1>1, RankFacts
<1>3. /\ a \in Seq(S) /\ Len(a) = Cardinality(P)
      /\ \A i \in P : a[Rank(i, P)] = q[i]
  BY InOrderFacts
<1>4. /\ b \in Seq(S) /\ Len(b) = Cardinality(R)
      /\ \A i \in R : b[Rank(i, R)] = q[i]
  BY <1>1, InOrderFacts
<1>5. Cardinality(R) = Cardinality(P) - 1
  BY <1>2, FS_RemoveElement
<1>6. Rank(p, P) = 1
  <2>1. \A j \in P : j <= p => j = p
    BY <1>1
  <2>2. p <= p
    BY <1>1
  <2>3. {j \in P : j <= p} = {p}
    BY <2>1, <2>2
  <2> QED BY <2>3, FS_Singleton DEF Rank
<1>7. \A i \in R : Rank(i, P) = Rank(i, R) + 1
  <2> SUFFICES ASSUME NEW i \in R PROVE Rank(i, P) = Rank(i, R) + 1
    OBVIOUS
  <2> DEFINE A == {j \in R : j <= i}
  <2>1. {j \in P : j <= i} = A \cup {p} /\ p \notin A
    OBVIOUS
  <2>2. IsFiniteSet(A)
    <3>1. A \in SUBSET P
      OBVIOUS
    <3> QED BY <1>2, <3>1, FS_Subset
  <2>3. Rank(i, P) = Cardinality(A \cup {p}) /\ Rank(i, R) = Cardinality(A)
    BY <2>1 DEF Rank
  <2> HIDE DEF A
  <2> QED BY <2>1, <2>2, <2>3, FS_AddElement
<1> DEFINE c == << q[p] >> \o b
<1>8. /\ c \in Seq(S) /\ Len(c) = Len(b) + 1 /\ c[1] = q[p]
      /\ \A k \in 1..Len(b) : c[k + 1] = b[k]
  <2>1. b \in Seq(S) /\ q[p] \in S
    BY <1>1, <1>4
  <2> HIDE DEF b
  <2> QED BY <2>1, PushFacts
<1>9. \A k \in 1..Cardinality(P) : a[k] = c[k]
  <2> SUFFICES ASSUME NEW k \in 1..Cardinality(P) PROVE a[k] = c[k]
    OBVIOUS
  <2>1. PICK i \in P : Rank(i, P) = k
    BY <1>2
  <2>2. a[k] = q[i]
    BY <1>3, <2>1
  <2>3. CASE i = p
    BY <1>6, <1>8, <2>1, <2>2, <2>3
  <2>4. CASE i # p
    <3>1. i \in R /\ k = Rank(i, R) + 1
      BY <1>7, <2>1, <2>4
    <3>2. Rank(i, R) \in 1..Len(b)
      BY <1>1, <1>4, <3>1, RankFacts
    <3>3. c[Rank(i, R) + 1] = b[Rank(i, R)]
      BY <1>8, <3>2
    <3> QED BY <1>4, <2>2, <3>1, <3>3
  <2> QED BY <2>3, <2>4
<1>10. a \in Seq(S) /\ c \in Seq(S) /\ Len(a) = Len(c) /\ \A k \in 1..Len(a) : a[k] = c[k]
  <2>1. Len(a) = Cardinality(P)
    BY <1>3
  <2>2. Len(c) = Cardinality(P)
    BY <1>2, <1>4, <1>5, <1>8
  <2> QED BY <1>3, <1>8, <1>9, <2>1, <2>2
<1> HIDE DEF a, c
<1>11. a = c
  BY <1>10
<1> QED BY <1>11 DEF a, c

\* and the last place the last.
LEMMA LastInOrder ==
    ASSUME NEW S, NEW q \in Seq(S), NEW P \in SUBSET (1..Len(q)), NEW p \in P,
           \A j \in P : j <= p
    PROVE  InOrder(q, P) = Append(InOrder(q, P \ {p}), q[p])
<1> DEFINE R == P \ {p}
           a == InOrder(q, P)
           b == InOrder(q, R)
<1>1. /\ Len(q) \in Nat /\ \A i \in P : i \in Int
      /\ R \in SUBSET (1..Len(q)) /\ q[p] \in S
  OBVIOUS
<1>2. /\ IsFiniteSet(P) /\ Cardinality(P) \in Nat
      /\ \A i \in P : Rank(i, P) \in 1..Cardinality(P)
      /\ \A k \in 1..Cardinality(P) : \E i \in P : Rank(i, P) = k
  BY <1>1, RankFacts
<1>3. /\ a \in Seq(S) /\ Len(a) = Cardinality(P)
      /\ \A i \in P : a[Rank(i, P)] = q[i]
  BY InOrderFacts
<1>4. /\ b \in Seq(S) /\ Len(b) = Cardinality(R)
      /\ \A i \in R : b[Rank(i, R)] = q[i]
  BY <1>1, InOrderFacts
<1>5. Cardinality(R) = Cardinality(P) - 1
  BY <1>2, FS_RemoveElement
<1>6. Rank(p, P) = Cardinality(P)
  <2>1. {j \in P : j <= p} = P
    OBVIOUS
  <2> QED BY <2>1 DEF Rank
<1>7. \A i \in R : Rank(i, P) = Rank(i, R)
  <2> SUFFICES ASSUME NEW i \in R PROVE Rank(i, P) = Rank(i, R)
    OBVIOUS
  <2>1. ~(p <= i)
    BY <1>1
  <2>2. {j \in P : j <= i} = {j \in R : j <= i}
    BY <2>1
  <2> QED BY <2>2 DEF Rank
<1> DEFINE c == Append(b, q[p])
<1>8. /\ c \in Seq(S) /\ Len(c) = Len(b) + 1 /\ c[Len(b) + 1] = q[p]
      /\ \A k \in 1..Len(b) : c[k] = b[k]
  <2>1. b \in Seq(S) /\ q[p] \in S
    BY <1>1, <1>4
  <2> HIDE DEF b
  <2> QED BY <2>1, AppendFacts
<1>9. \A k \in 1..Cardinality(P) : a[k] = c[k]
  <2> SUFFICES ASSUME NEW k \in 1..Cardinality(P) PROVE a[k] = c[k]
    OBVIOUS
  <2>1. PICK i \in P : Rank(i, P) = k
    BY <1>2
  <2>2. a[k] = q[i]
    BY <1>3, <2>1
  <2>3. CASE i = p
    <3>1. k = Len(b) + 1
      BY <1>2, <1>4, <1>5, <1>6, <2>1, <2>3
    <3> QED BY <1>8, <2>2, <2>3, <3>1
  <2>4. CASE i # p
    <3>1. i \in R /\ k = Rank(i, R)
      BY <1>7, <2>1, <2>4
    <3>2. Rank(i, R) \in 1..Len(b)
      BY <1>1, <1>4, <3>1, RankFacts
    <3>3. c[Rank(i, R)] = b[Rank(i, R)]
      BY <1>8, <3>2
    <3> QED BY <1>4, <2>2, <3>1, <3>3
  <2> QED BY <2>3, <2>4
<1>10. a \in Seq(S) /\ c \in Seq(S) /\ Len(a) = Len(c) /\ \A k \in 1..Len(a) : a[k] = c[k]
  <2>1. Len(a) = Cardinality(P)
    BY <1>3
  <2>2. Len(c) = Cardinality(P)
    BY <1>2, <1>4, <1>5, <1>8
  <2> QED BY <1>3, <1>8, <1>9, <2>1, <2>2
<1> HIDE DEF a, c
<1>11. a = c
  BY <1>10
<1> QED BY <1>11 DEF a, c

\* No places, no elements.
LEMMA NoneInOrder == ASSUME NEW q PROVE InOrder(q, {}) = << >>
<1>1. Cardinality({}) = 0
  BY FS_EmptySet
<1> QED BY <1>1 DEF InOrder

-----------------------------------------------------------------------------
(* The packets of a connection.  An element is in the list of its own      *)
(* connection, and the one the pump takes is the first of its connection.  *)

PlacesOf(c) == {i \in 1..Len(FragList[ListOf[c]]) : Mine(FragList[ListOf[c]][i], c)}

Sorted == \A l \in List : \A i \in 1..Len(FragList[l]) :
            /\ ele[FragList[l][i]].dev \in Conn
            /\ ListOf[ele[FragList[l][i]].dev] = l

Carried == pump.pc \in {"write", "put", "back"}
             => /\ ele[pump.ele].dev \in Conn
                /\ ListOf[ele[pump.ele].dev] = ThisList

Foremost ==
    pump.pc = "take" =>
      \E i \in 1..Len(FragList[ThisList]) :
        /\ FragList[ThisList][i] = pump.ele
        /\ \A j \in 1..Len(FragList[ThisList]) :
             j < i => ele[FragList[ThisList][j]].dev # ele[pump.ele].dev

OrderInv == Sorted /\ Carried /\ Foremost

\* What the list of a connection holds of it.
ListIs(c) ==
    /\ FragList[ListOf[c]] \in Seq(Element)
    /\ PlacesOf(c) \in SUBSET (1..Len(FragList[ListOf[c]]))
    /\ InList(c) = InOrder(FragList[ListOf[c]], PlacesOf(c))
    /\ InList(c) \in Seq(Element)
    /\ \A k \in 1..Len(InList(c)) : Listed(InList(c)[k]) /\ Mine(InList(c)[k], c)

LEMMA InListFacts == ASSUME ElementTypeOK, NEW c \in Conn PROVE ListIs(c)
<1> DEFINE q == FragList[ListOf[c]]
           P == PlacesOf(c)
<1>1. ListOf[c] \in List /\ q \in Seq(Element)
  BY PumpAssumption DEF ElementTypeOK
<1>2. DOMAIN q = 1..Len(q) /\ Len(q) \in Nat
  BY <1>1
<1>3. P \in SUBSET (1..Len(q))
  BY DEF PlacesOf
<1>4. InList(c) = InOrder(q, P)
  BY <1>2 DEF InList, PlacesOf
<1>5. \A i \in P : Listed(q[i]) /\ Mine(q[i], c)
  BY <1>1 DEF PlacesOf, Listed
<1> HIDE DEF P
<1>6. /\ InOrder(q, P) \in Seq(Element) /\ Len(InOrder(q, P)) = Cardinality(P)
      /\ \A i \in P : InOrder(q, P)[Rank(i, P)] = q[i]
  BY <1>1, <1>3, InOrderFacts
<1>7. \A k \in 1..Cardinality(P) : \E i \in P : Rank(i, P) = k
  BY <1>2, <1>3, RankFacts
<1>8. \A k \in 1..Len(InList(c)) : Listed(InList(c)[k]) /\ Mine(InList(c)[k], c)
  <2> SUFFICES ASSUME NEW k \in 1..Cardinality(P)
               PROVE  Listed(InOrder(q, P)[k]) /\ Mine(InOrder(q, P)[k], c)
    BY <1>4, <1>6
  <2>1. PICK i \in P : Rank(i, P) = k
    BY <1>7
  <2>2. InOrder(q, P)[k] = q[i]
    BY <1>6, <2>1
  <2> QED BY <1>5, <2>2
<1> QED BY <1>1, <1>3, <1>4, <1>6, <1>8 DEF P, ListIs

\* The same after a step.
LEMMA InListNext == ASSUME NEW c \in Conn PROVE ElementTypeOK' => ListIs(c)'
<1>1. ElementTypeOK => ListIs(c)
  BY InListFacts
<1> QED BY <1>1, PTL

\* The places P of q are those of R d places before.
Moved(P, R, q, d) == \A j \in 1..Len(q) : j \in P <=> j + d \in R

\* After an insertion, the places of the others select the same elements.
LEMMA InsertedInOrder ==
    ASSUME NEW S, NEW q \in Seq(S), NEW r \in Seq(S), NEW e, NEW p, NEW d \in {0, 1},
           Inserted(q, e, r, p, d),
           NEW P \in SUBSET (1..Len(q)), NEW R \in SUBSET (1..Len(r)), p \notin R, Moved(P, R, q, d)
    PROVE  InOrder(r, R) = InOrder(q, P)
<1> DEFINE g == [i \in P |-> i + d]
<1>1. /\ \A i \in 1..Len(r) : i # p => i - d \in 1..Len(q) /\ r[i] = q[i - d]
      /\ \A j \in 1..Len(q) : j + d \in 1..Len(r) /\ r[j + d] = q[j]
  BY DEF Inserted
<1>2. \A i \in P : i + d \in R /\ r[i + d] = q[i]
  BY <1>1 DEF Moved
<1>3. g \in [P -> R]
  BY <1>2
<1>4. \A i, j \in P : i < j => g[i] < g[j]
  <2>1. \A i \in P : i \in Int
    OBVIOUS
  <2> QED BY <2>1
<1>5. \A m \in R : \E i \in P : g[i] = m
  <2> SUFFICES ASSUME NEW m \in R PROVE \E i \in P : g[i] = m
    OBVIOUS
  <2>1. m - d \in 1..Len(q) /\ m \in Int
    BY <1>1
  <2>2. (m - d) + d = m
    BY <2>1
  <2>3. m - d \in P
    BY <2>1, <2>2 DEF Moved
  <2> QED BY <2>2, <2>3
<1>6. \A i \in P : r[g[i]] = q[i]
  BY <1>2
<1>7. /\ q \in Seq(S) /\ r \in Seq(S)
      /\ P \in SUBSET (1..Len(q)) /\ R \in SUBSET (1..Len(r))
  OBVIOUS
<1> HIDE DEF g
<1> QED BY <1>3, <1>4, <1>5, <1>6, <1>7, SameOrder

InsertOf(o, new, p) ==
    /\ \A c \in Conn \ {o} : InList(c)' = InList(c)
    /\ p \in PlacesOf(o)'
    /\ PlacesOf(o)' \in SUBSET (1..Len(new)) /\ InList(o)' = InOrder(new, PlacesOf(o)')
    /\ InOrder(new, PlacesOf(o)' \ {p}) = InList(o)

\* An element put into its list at place p: the others keep their order.
LEMMA InsertInList ==
    ASSUME ElementTypeOK, ElementTypeOK', UNCHANGED ele, NEW e \in Element, NEW o \in Conn,
           ele[e].dev = o, ~Listed(e), NEW new \in Seq(Element), NEW p \in 1..Len(new), NEW d \in {0, 1},
           Inserted(FragList[ListOf[o]], e, new, p, d),
           FragList' = [FragList EXCEPT ![ListOf[o]] = new]
    PROVE  InsertOf(o, new, p)
<1> DEFINE l == ListOf[o]
           q == FragList[l]
<1>1. /\ l \in List /\ q \in Seq(Element) /\ Len(q) \in Nat /\ Len(new) \in Nat
      /\ FragList'[l] = new
      /\ \A k \in List : k # l => FragList'[k] = FragList[k]
  <2>1. l \in List /\ FragList \in [List -> Seq(Element)] /\ q \in Seq(Element)
    BY PumpAssumption DEF ElementTypeOK
  <2>2. Len(q) \in Nat /\ Len(new) \in Nat
    BY <2>1
  <2> QED BY <2>1, <2>2
<1>2. /\ new[p] = e
      /\ \A i \in 1..Len(new) : i # p => i - d \in 1..Len(q) /\ new[i] = q[i - d]
      /\ \A j \in 1..Len(q) : j + d \in 1..Len(new) /\ new[j + d] = q[j] /\ q[j] # e
  <2>1. \A j \in 1..Len(q) : q[j] # e
    BY <1>1 DEF Listed
  <2> QED BY <2>1 DEF Inserted
<1>3. ASSUME NEW c \in Conn, ListOf[c] = l
      PROVE  InOrder(new, PlacesOf(c)' \ {p}) = InList(c)
  <2> DEFINE P == PlacesOf(c)
             R == PlacesOf(c)' \ {p}
  <2>1. /\ P \in SUBSET (1..Len(q)) /\ InList(c) = InOrder(q, P)
    BY <1>3, InListFacts DEF ListIs
  <2>2. /\ P = {i \in 1..Len(q) : Mine(q[i], c)}
        /\ R = {i \in 1..Len(new) : Mine(new[i], c)} \ {p}
    BY <1>1, <1>3 DEF PlacesOf, Mine
  <2> HIDE DEF P, R
  <2>3. R \in SUBSET (1..Len(new)) /\ p \notin R
    BY <2>2
  <2>4. Moved(P, R, q, d)
    <3>1. \A j \in 1..Len(q) : j + d \in 1..Len(new) /\ new[j + d] = q[j] /\ j + d # p
      BY <1>2
    <3>2. \A j \in 1..Len(q) : j \in P <=> j + d \in R
      BY <2>2, <3>1
    <3> QED BY <3>2 DEF Moved
  <2>5. /\ q \in Seq(Element) /\ new \in Seq(Element) /\ d \in {0, 1}
        /\ Inserted(q, e, new, p, d)
    BY <1>1
  <2> HIDE DEF q
  <2>6. InOrder(new, R) = InOrder(q, P)
    BY SMTT(15), <2>1, <2>3, <2>4, <2>5, InsertedInOrder
  <2> QED BY <2>1, <2>6 DEF R
<1>4. \A c \in Conn \ {o} : InList(c)' = InList(c)
  <2> SUFFICES ASSUME NEW c \in Conn \ {o} PROVE InList(c)' = InList(c)
    OBVIOUS
  <2>1. CASE ListOf[c] = l
    <3>1. InList(c)' = InOrder(new, PlacesOf(c)')
      BY <1>1, <2>1, InListNext DEF ListIs
    <3>2. p \notin PlacesOf(c)'
      BY <1>1, <1>2, <2>1 DEF PlacesOf, Mine
    <3>3. PlacesOf(c)' \ {p} = PlacesOf(c)'
      BY <3>2
    <3> QED BY <1>3, <2>1, <3>1, <3>3
  <2>2. CASE ListOf[c] # l
    <3>1. ListOf[c] \in List
      BY PumpAssumption
    <3>2. FragList'[ListOf[c]] = FragList[ListOf[c]]
      BY <1>1, <2>2, <3>1
    <3> QED BY <3>2 DEF InList, Mine
  <2> QED BY <2>1, <2>2
<1>5. /\ PlacesOf(o)' \in SUBSET (1..Len(new)) /\ InList(o)' = InOrder(new, PlacesOf(o)')
      /\ p \in PlacesOf(o)'
  <2>1. PlacesOf(o)' \in SUBSET (1..Len(new)) /\ InList(o)' = InOrder(new, PlacesOf(o)')
    BY <1>1, InListNext DEF ListIs
  <2>2. p \in PlacesOf(o)'
    BY <1>1, <1>2 DEF PlacesOf, Mine
  <2> QED BY <2>1, <2>2
<1> QED BY <1>3, <1>4, <1>5 DEF InsertOf

\* Behind the others of its list, an element is behind those of its connection.
LEMMA AppendInList ==
    ASSUME ElementTypeOK, ElementTypeOK', UNCHANGED ele, NEW e \in Element, NEW o \in Conn,
           ele[e].dev = o, ~Listed(e),
           FragList' = [FragList EXCEPT ![ListOf[o]] = Append(FragList[ListOf[o]], e)]
    PROVE  /\ \A c \in Conn \ {o} : InList(c)' = InList(c)
           /\ InList(o)' = Append(InList(o), e)
<1> DEFINE q == FragList[ListOf[o]]
           new == Append(q, e)
<1>1. q \in Seq(Element)
  BY InListFacts DEF ListIs
<1> HIDE DEF q
<1>2. /\ new \in Seq(Element) /\ Len(q) \in Nat /\ Len(new) = Len(q) + 1
      /\ new[Len(q) + 1] = e /\ \A i \in 1..Len(q) : new[i] = q[i]
  BY <1>1, AppendFacts
<1> HIDE DEF new
<1>3. Inserted(q, e, new, Len(new), 0) /\ Len(new) \in 1..Len(new) /\ 0 \in {0, 1}
  BY <1>2 DEF Inserted
<1> DEFINE R == PlacesOf(o)'
<1>4. /\ \A c \in Conn \ {o} : InList(c)' = InList(c)
      /\ Len(new) \in R /\ R \in SUBSET (1..Len(new)) /\ InList(o)' = InOrder(new, R)
      /\ InOrder(new, R \ {Len(new)}) = InList(o)
  <2>1. Inserted(FragList[ListOf[o]], e, new, Len(new), 0)
    BY <1>3 DEF q
  <2>2. FragList' = [FragList EXCEPT ![ListOf[o]] = new]
    BY DEF new, q
  <2>3. InsertOf(o, new, Len(new))
    BY <1>2, <1>3, <2>1, <2>2, InsertInList
  <2> QED BY <2>3 DEF InsertOf
<1> HIDE DEF R
<1>5. InOrder(new, R) = Append(InOrder(new, R \ {Len(new)}), new[Len(new)])
  <2>1. \A j \in R : j <= Len(new)
    BY <1>2, <1>4
  <2> QED BY <1>2, <1>4, <2>1, LastInOrder
<1> QED BY <1>2, <1>4, <1>5

\* Before the others of its list, it is before those of its connection.
LEMMA PushInList ==
    ASSUME ElementTypeOK, ElementTypeOK', UNCHANGED ele, NEW e \in Element, NEW o \in Conn,
           ele[e].dev = o, ~Listed(e),
           FragList' = [FragList EXCEPT ![ListOf[o]] = << e >> \o FragList[ListOf[o]]]
    PROVE  /\ \A c \in Conn \ {o} : InList(c)' = InList(c)
           /\ InList(o)' = << e >> \o InList(o)
<1> DEFINE q == FragList[ListOf[o]]
           new == << e >> \o q
<1>1. q \in Seq(Element)
  BY InListFacts DEF ListIs
<1> HIDE DEF q
<1>2. /\ new \in Seq(Element) /\ Len(q) \in Nat /\ Len(new) = Len(q) + 1
      /\ new[1] = e /\ \A i \in 1..Len(q) : new[i + 1] = q[i]
  BY <1>1, PushFacts
<1> HIDE DEF new
<1>3. Inserted(q, e, new, 1, 1) /\ 1 \in 1..Len(new) /\ 1 \in {0, 1}
  <2>1. \A i \in 1..Len(new) : i # 1 => i - 1 \in 1..Len(q) /\ new[i] = q[i - 1]
    <3> SUFFICES ASSUME NEW i \in 1..Len(new), i # 1
                 PROVE  i - 1 \in 1..Len(q) /\ new[i] = q[i - 1]
      OBVIOUS
    <3>1. i - 1 \in 1..Len(q) /\ (i - 1) + 1 = i
      BY <1>2
    <3> QED BY <1>2, <3>1
  <2>2. \A j \in 1..Len(q) : j + 1 \in 1..Len(new) /\ new[j + 1] = q[j]
    BY <1>2
  <2> QED BY <1>2, <2>1, <2>2 DEF Inserted
<1> DEFINE R == PlacesOf(o)'
<1>4. /\ \A c \in Conn \ {o} : InList(c)' = InList(c)
      /\ 1 \in R /\ R \in SUBSET (1..Len(new)) /\ InList(o)' = InOrder(new, R)
      /\ InOrder(new, R \ {1}) = InList(o)
  <2>1. Inserted(FragList[ListOf[o]], e, new, 1, 1)
    BY <1>3 DEF q
  <2>2. FragList' = [FragList EXCEPT ![ListOf[o]] = new]
    BY DEF new, q
  <2>3. InsertOf(o, new, 1)
    BY <1>2, <1>3, <2>1, <2>2, InsertInList
  <2> QED BY <2>3 DEF InsertOf
<1> HIDE DEF R
<1>5. InOrder(new, R) = << new[1] >> \o InOrder(new, R \ {1})
  <2>1. \A j \in R : j \in 1..Len(new)
    BY <1>4
  <2>2. \A j \in R : 1 <= j
    BY <2>1
  <2>3. new \in Seq(Element) /\ R \in SUBSET (1..Len(new)) /\ 1 \in R
    BY <1>2, <1>4
  <2> HIDE DEF R
  <2> QED BY ZenonT(20), <2>2, <2>3, FirstInOrder
<1> QED BY <1>2, <1>4, <1>5

\* Elements leave a list: of each connection those that stay keep their order.
LEMMA LeaveInList ==
    ASSUME ElementTypeOK, ElementTypeOK', UNCHANGED ele, NEW l \in List, NEW E, Leave(l, E),
           NEW c \in Conn
    PROVE  /\ ListOf[c] # l => InList(c)' = InList(c)
           /\ ListOf[c] = l =>
                InList(c)' = InOrder(FragList[l], {i \in PlacesOf(c) : FragList[l][i] \notin E})
<1> DEFINE q == FragList[l]
           r == FragList'[l]
<1>1. /\ \A k \in List : k # l => FragList'[k] = FragList[k]
      /\ \E f \in [1..Len(r) -> 1..Len(q)] :
           /\ \A i, j \in 1..Len(r) : i < j => f[i] < f[j]
           /\ \A i \in 1..Len(r) : r[i] = q[f[i]] /\ q[f[i]] \notin E
           /\ \A p \in 1..Len(q) : q[p] \notin E => \E i \in 1..Len(r) : f[i] = p
  <2>1. FragList \in [List -> Seq(Element)]
    BY DEF ElementTypeOK
  <2>2. PICK f \in [1..Len(r) -> 1..Len(q)] :
           /\ \A i, j \in 1..Len(r) : i < j => f[i] < f[j]
           /\ \A i \in 1..Len(r) : r[i] = q[f[i]] /\ q[f[i]] \notin E
           /\ \A p \in 1..Len(q) : q[p] \notin E => \E i \in 1..Len(r) : f[i] = p
    BY <2>1, LeaveFacts
  <2>3. \A k \in List : k # l => FragList'[k] = FragList[k]
    BY <2>1, LeaveFacts
  <2> QED BY <2>2, <2>3
<1>2. CASE ListOf[c] # l
  <2>1. ListOf[c] \in List
    BY PumpAssumption
  <2>2. FragList'[ListOf[c]] = FragList[ListOf[c]]
    BY <1>1, <1>2, <2>1
  <2> QED BY <1>2, <2>2 DEF InList, Mine
<1>3. CASE ListOf[c] = l
  <2>1. PICK f \in [1..Len(r) -> 1..Len(q)] :
           /\ \A i, j \in 1..Len(r) : i < j => f[i] < f[j]
           /\ \A i \in 1..Len(r) : r[i] = q[f[i]] /\ q[f[i]] \notin E
           /\ \A p \in 1..Len(q) : q[p] \notin E => \E i \in 1..Len(r) : f[i] = p
    BY <1>1
  <2> DEFINE P == PlacesOf(c)'
             R == {i \in PlacesOf(c) : q[i] \notin E}
             g == [i \in P |-> f[i]]
  <2>2. /\ q \in Seq(Element) /\ r \in Seq(Element)
        /\ P \in SUBSET (1..Len(r)) /\ R \in SUBSET (1..Len(q))
        /\ InList(c)' = InOrder(r, P)
    BY <1>3, InListFacts, InListNext DEF ListIs
  <2>3. /\ P = {i \in 1..Len(r) : Mine(r[i], c)}
        /\ R = {i \in 1..Len(q) : Mine(q[i], c) /\ q[i] \notin E}
    BY <1>3 DEF PlacesOf, Mine
  <2> HIDE DEF P, R, q, r
  <2>4. \A i \in P : f[i] \in R /\ q[f[i]] = r[i]
    BY <2>1, <2>3
  <2>5. g \in [P -> R]
    BY <2>4
  <2>6. \A i, j \in P : i < j => g[i] < g[j]
    BY <2>1, <2>3
  <2>7. \A m \in R : \E i \in P : g[i] = m
    <3> SUFFICES ASSUME NEW m \in R PROVE \E i \in P : g[i] = m
      OBVIOUS
    <3>1. PICK i \in 1..Len(r) : f[i] = m
      BY <2>1, <2>3
    <3>2. i \in P
      BY <2>1, <2>3, <3>1
    <3> QED BY <3>1, <3>2
  <2>8. \A i \in P : q[g[i]] = r[i]
    BY <2>4
  <2> HIDE DEF g
  <2>9. InOrder(q, R) = InOrder(r, P)
    BY SMTT(15), <2>2, <2>5, <2>6, <2>7, <2>8, SameOrder
  <2> QED BY <1>3, <2>2, <2>9 DEF q, R
<1> QED BY <1>2, <1>3

-----------------------------------------------------------------------------
(* The order is kept.                                                      *)

\* Steps of the pump without an element, and steps of others.
LEMMA KeepOrderIdle ==
    ASSUME OrderInv, UNCHANGED << FragList, ele >>,
           pump'.pc \notin Round \/ UNCHANGED pumping
    PROVE  OrderInv'
<1>1. Sorted'
  BY DEF OrderInv, Sorted
<1>2. CASE pump'.pc \notin Round
  BY <1>1, <1>2 DEF OrderInv, Carried, Foremost, Round
<1>3. CASE UNCHANGED pumping
  <2>1. UNCHANGED << pump, AclProcCounter, ThisList >>
    BY <1>3 DEF pumping, ThisList
  <2> QED BY <1>1, <2>1 DEF OrderInv, Carried, Foremost
<1> QED BY <1>2, <1>3

\* The element that is seen is the first of its connection, because it is the
\* first that may be served and all of a connection are barred or none.
LEMMA KeepOrderFind ==
    ASSUME OrderInv, CardTypeOK, ElementTypeOK, ProcessAclFrag_Find
    PROVE  OrderInv'
<1>1. UNCHANGED << FragList, ele >>
  BY DEF ProcessAclFrag_Find, elements
<1>2. CASE ResumePump("done", 0, None) \/ ResumePump("find", pump.i + 1, None)
  BY <1>1, <1>2, KeepOrderIdle DEF ResumePump, Round
<1>3. CASE /\ UNCHANGED AclProcCounter
           /\ \E i \in Servable(ThisList) :
                /\ \A j \in Servable(ThisList) : i <= j
                /\ ResumePump("take", pump.i, FragList[ThisList][i])
  <2> DEFINE q == FragList[ThisList]
  <2>1. PICK i \in Servable(ThisList) :
          /\ \A j \in Servable(ThisList) : i <= j
          /\ ResumePump("take", pump.i, q[i])
    BY <1>3
  <2>2. q \in Seq(Element)
    BY ThisListType DEF ElementTypeOK
  <2>3. DOMAIN q = 1..Len(q) /\ Len(q) \in Nat
    BY <2>2
  <2>4. \A k : k \in Servable(ThisList)
                <=> k \in 1..Len(q) /\ ~barred[ele[q[k]].dev] /\ (ThisList # MasterList => k = 1)
    <3>1. \A k : k \in Servable(ThisList)
                <=> k \in DOMAIN q /\ ~barred[ele[q[k]].dev] /\ (ThisList # MasterList => k = 1)
      BY DEF Servable
    <3> QED BY <2>3, <3>1
  <2>5. /\ pump'.pc = "take" /\ pump'.i = pump.i /\ pump'.ele = q[i] /\ ThisList' = ThisList
    BY <1>3, <2>1 DEF ResumePump, ThisList
  <2>6. ASSUME NEW j \in 1..Len(q), j < i PROVE ele[q[j]].dev # ele[q[i]].dev
    <3>1. ~(i <= j) /\ (ThisList # MasterList => i = 1) /\ i \in 1..Len(q) /\ ~barred[ele[q[i]].dev]
      BY <2>1, <2>4, <2>6
    <3>2. j \notin Servable(ThisList)
      BY <2>1, <3>1
    <3>3. ThisList = MasterList
      BY <2>6, <3>1
    <3> QED BY <2>4, <3>1, <3>2, <3>3
  <2>7. i \in 1..Len(q)
    BY <2>4
  <2> HIDE DEF q
  <2>8. \E k \in 1..Len(q) : /\ q[k] = pump'.ele
                             /\ \A j \in 1..Len(q) : j < k => ele[q[j]].dev # ele[pump'.ele].dev
    BY <2>5, <2>6, <2>7
  <2>9. Foremost'
    BY <1>1, <2>5, <2>8 DEF Foremost, q
  <2>10. Sorted' /\ Carried'
    BY <1>1, <2>5 DEF OrderInv, Sorted, Carried
  <2> QED BY <2>9, <2>10 DEF OrderInv
<1> QED BY <1>2, <1>3 DEF ProcessAclFrag_Find, EndRound

\* What stays in a list was there.
LEMMA SortedLeave ==
    ASSUME Sorted, ElementTypeOK, UNCHANGED ele, NEW l \in List, NEW E, Leave(l, E)
    PROVE  Sorted'
<1>1. FragList \in [List -> Seq(Element)]
  BY DEF ElementTypeOK
<1>2. \A k \in List : k # l => FragList'[k] = FragList[k]
  BY <1>1, LeaveFacts
<1>3. \A i \in 1..Len(FragList'[l]) : \E j \in 1..Len(FragList[l]) : FragList'[l][i] = FragList[l][j]
  <2>1. PICK f \in [1..Len(FragList'[l]) -> 1..Len(FragList[l])] :
          /\ \A i, j \in 1..Len(FragList'[l]) : i < j => f[i] < f[j]
          /\ \A i \in 1..Len(FragList'[l]) :
               /\ FragList'[l][i] = FragList[l][f[i]]
               /\ FragList[l][f[i]] \notin E
          /\ \A p \in 1..Len(FragList[l]) :
               FragList[l][p] \notin E => \E i \in 1..Len(FragList'[l]) : f[i] = p
    BY <1>1, LeaveFacts
  <2> QED BY <2>1
<1> SUFFICES ASSUME NEW k \in List, NEW i \in 1..Len(FragList'[k])
             PROVE  /\ ele[FragList'[k][i]].dev \in Conn
                    /\ ListOf[ele[FragList'[k][i]].dev] = k
  BY DEF Sorted
<1>4. CASE k = l
  BY <1>3, <1>4 DEF Sorted
<1>5. CASE k # l
  BY <1>2, <1>5 DEF Sorted
<1> QED BY <1>4, <1>5

\* What is put into its list belongs there.
LEMMA SortedPut ==
    ASSUME Sorted, ElementTypeOK, UNCHANGED ele, NEW l \in List, NEW e \in Element,
           ele[e].dev \in Conn, ListOf[ele[e].dev] = l,
           NEW new, new \in {Append(FragList[l], e), << e >> \o FragList[l]},
           FragList' = [FragList EXCEPT ![l] = new]
    PROVE  Sorted'
<1>1. /\ FragList[l] \in Seq(Element) /\ FragList'[l] = new
      /\ \A k \in List : k # l => FragList'[k] = FragList[k]
      /\ new = Append(FragList[l], e) \/ new = << e >> \o FragList[l]
  BY PutFacts DEF ElementTypeOK
<1>2. PICK p \in 1..Len(new), d \in {0, 1} : Inserted(FragList[l], e, new, p, d)
  <2>1. FragList[l] \in Seq(Element)
    BY <1>1
  <2>2. new = Append(FragList[l], e) \/ new = << e >> \o FragList[l]
    BY <1>1
  <2> QED BY <2>1, <2>2, InsertedAt
<1>3. \A i \in 1..Len(new) : new[i] = e \/ \E j \in 1..Len(FragList[l]) : new[i] = FragList[l][j]
  BY <1>2 DEF Inserted
<1> SUFFICES ASSUME NEW k \in List, NEW i \in 1..Len(FragList'[k])
             PROVE  /\ ele[FragList'[k][i]].dev \in Conn
                    /\ ListOf[ele[FragList'[k][i]].dev] = k
  BY DEF Sorted
<1>4. CASE k = l
  <2>1. i \in 1..Len(new) /\ FragList'[k][i] = new[i]
    BY <1>1, <1>4
  <2>2. CASE new[i] = e
    BY <1>4, <2>1, <2>2
  <2>3. CASE \E j \in 1..Len(FragList[l]) : new[i] = FragList[l][j]
    BY <1>4, <2>1, <2>3 DEF Sorted
  <2> QED BY <1>3, <2>1, <2>2, <2>3
<1>5. CASE k # l
  BY <1>1, <1>5 DEF Sorted
<1> QED BY <1>4, <1>5

LEMMA KeepOrderTake ==
    ASSUME OrderInv, OwnInv, CardTypeOK, ElementTypeOK, ProcessAclFrag_Take
    PROVE  OrderInv'
<1>1. /\ pump.pc = "take" /\ Leave(ThisList, {pump.ele})
      /\ UNCHANGED << ele, AclProcCounter >>
      /\ pump'.pc = "write" /\ pump'.ele = pump.ele /\ pump'.i = pump.i
  BY DEF ProcessAclFrag_Take, ResumePump
<1>2. ThisList \in List /\ ThisList' = ThisList
  BY <1>1, ThisListType DEF ThisList
<1>3. Sorted'
  BY <1>1, <1>2, SortedLeave DEF OrderInv
<1>4. PICK i \in 1..Len(FragList[ThisList]) : FragList[ThisList][i] = pump.ele
  BY <1>1 DEF OwnInv, Seen
<1>5. ele[pump.ele].dev \in Conn /\ ListOf[ele[pump.ele].dev] = ThisList
  BY <1>2, <1>4 DEF OrderInv, Sorted
<1> QED BY <1>1, <1>2, <1>3, <1>5 DEF OrderInv, Carried, Foremost

LEMMA KeepOrderRefused ==
    ASSUME OrderInv, ProcessAclFrag_NoSpace \/ ProcessAclFrag_WriteFails
    PROVE  OrderInv'
<1>1. /\ UNCHANGED << FragList, ele, AclProcCounter >>
      /\ pump.pc = "write" /\ pump'.pc = "back" /\ pump'.ele = pump.ele /\ pump'.i = pump.i
  BY DEF ProcessAclFrag_NoSpace, ProcessAclFrag_WriteFails, ResumePump, elements
<1>2. ThisList' = ThisList
  BY <1>1 DEF ThisList
<1> QED BY <1>1, <1>2 DEF OrderInv, Sorted, Carried, Foremost

LEMMA KeepOrderWrite ==
    ASSUME OrderInv, ElementTypeOK, ProcessAclFrag_Write
    PROVE  OrderInv' /\ \A x \in Element : ele'[x].dev = ele[x].dev
<1>1. /\ UNCHANGED << FragList, AclProcCounter >>
      /\ ele' = [ele EXCEPT ![pump.ele].ppid = @ + 1]
      /\ pump.pc = "write" /\ pump'.pc = "put" /\ pump'.ele = pump.ele /\ pump'.i = pump.i
      /\ pump.ele \in Element
      /\ ele[pump.ele].ppid < ele[pump.ele].fpid
  BY DEF ProcessAclFrag_Write, ResumePump, ElementTypeOK, Round
<1>2. \A x \in Element : ele'[x].dev = ele[x].dev
  BY <1>1, WrittenElement
<1>3. ThisList' = ThisList
  BY <1>1 DEF ThisList
<1>4. \A l \in List : \A i \in 1..Len(FragList[l]) : FragList[l][i] \in Element
  BY DEF ElementTypeOK
<1>5. Sorted'
  BY <1>1, <1>2, <1>4 DEF OrderInv, Sorted
<1> QED BY <1>1, <1>2, <1>3, <1>5 DEF OrderInv, Carried, Foremost

LEMMA KeepOrderReturn ==
    ASSUME OrderInv, CardTypeOK, ElementTypeOK, ProcessAclFrag_Put \/ ProcessAclFrag_Back
    PROVE  OrderInv'
<1>1. /\ pump.pc \in {"put", "back"} /\ pump'.pc \in {"done", "find"}
      /\ pump.ele \in Element /\ UNCHANGED ele
      /\ UNCHANGED FragList \/ PushHead(ThisList, pump.ele)
  BY DEF ProcessAclFrag_Put, ProcessAclFrag_Back, EndRound, ResumePump, ElementTypeOK, Round
<1>2. CASE UNCHANGED FragList
  BY <1>1, <1>2, KeepOrderIdle DEF Round
<1>3. CASE PushHead(ThisList, pump.ele)
  <2>1. ThisList \in List /\ ele[pump.ele].dev \in Conn /\ ListOf[ele[pump.ele].dev] = ThisList
    BY <1>1, ThisListType DEF OrderInv, Carried
  <2>2. Sorted'
    BY <1>1, <1>3, <2>1, SortedPut DEF OrderInv, PushHead
  <2> QED BY <1>1, <2>2 DEF OrderInv, Carried, Foremost
<1> QED BY <1>1, <1>2, <1>3

LEMMA KeepOrderBuildTake ==
    ASSUME OrderInv, OwnInv, ElementTypeOK, CardTypeOK, NEW c \in Conn, BuildFrag_Take(c)
    PROVE  /\ OrderInv'
           /\ \A x \in Element : Listed(x) \/ InHand(x) => ele'[x] = ele[x]
<1>1. PICK e \in Free_FragList, n \in 1..MaxWrites :
        ele' = [ele EXCEPT ![e] = [dev |-> c, ppid |-> 0, fpid |-> n]]
  BY DEF BuildFrag_Take
<1>2. e \in Element /\ UNCHANGED << FragList, pump, AclProcCounter >>
  BY DEF ElementTypeOK, BuildFrag_Take, pumping
<1>3. \A x \in Element : Listed(x) \/ InHand(x) => x # e /\ ele'[x] = ele[x]
  <2>1. \A x \in Element : x # e => ele'[x] = ele[x]
    BY <1>1, <1>2 DEF ElementTypeOK
  <2> QED BY <1>2, <2>1 DEF OwnInv, Apart
<1>4. ThisList' = ThisList /\ ThisList \in List
  BY <1>2, ThisListType DEF ThisList
<1>5. \A l \in List : \A i \in 1..Len(FragList[l]) : ele'[FragList[l][i]] = ele[FragList[l][i]]
  <2>1. \A l \in List : \A i \in 1..Len(FragList[l]) : FragList[l][i] \in Element /\ Listed(FragList[l][i])
    BY DEF ElementTypeOK, Listed
  <2> QED BY <1>3, <2>1
<1>6. Sorted'
  BY <1>2, <1>5 DEF OrderInv, Sorted
<1>7. Carried'
  <2>1. pump.pc \in {"write", "put", "back"} => pump.ele \in Element /\ InHand(pump.ele)
    BY DEF ElementTypeOK, Round, InHand
  <2> QED BY <1>2, <1>3, <1>4, <2>1 DEF OrderInv, Carried
<1>8. Foremost'
  BY <1>2, <1>4, <1>5 DEF OrderInv, Foremost
<1> QED BY <1>3, <1>6, <1>7, <1>8 DEF OrderInv

LEMMA KeepOrderBuildPut ==
    ASSUME OrderInv, ElementTypeOK, CardTypeOK, BuildFrag_Put
    PROVE  OrderInv'
<1> DEFINE l == ListOf[ele[built].dev]
<1>1. /\ built \in Element /\ ele[built].dev \in Conn /\ l \in List
      /\ FragList' = [FragList EXCEPT ![l] = Append(FragList[l], built)]
      /\ UNCHANGED << ele, pump, AclProcCounter >>
  <2>1. built \in Element /\ ele[built].dev \in Conn
    BY DEF BuildFrag_Put, ElementTypeOK
  <2> QED BY <2>1, PumpAssumption DEF BuildFrag_Put, ElementTypeOK, pumping
<1>2. Sorted'
  BY <1>1, SortedPut DEF OrderInv
<1>3. ThisList' = ThisList /\ ThisList \in List
  BY <1>1, ThisListType DEF ThisList
<1> HIDE DEF l
<1>4. /\ FragList[l] \in Seq(Element) /\ FragList'[l] = Append(FragList[l], built)
      /\ \A k \in List : k # l => FragList'[k] = FragList[k]
  BY <1>1 DEF ElementTypeOK
<1>5. /\ Len(FragList[l]) \in Nat /\ Len(FragList'[l]) = Len(FragList[l]) + 1
      /\ \A i \in 1..Len(FragList[l]) : FragList'[l][i] = FragList[l][i]
  BY <1>1, <1>4, AppendFacts
<1>6. ASSUME pump.pc = "take"
      PROVE  \E i \in 1..Len(FragList'[ThisList]) :
               /\ FragList'[ThisList][i] = pump.ele
               /\ \A j \in 1..Len(FragList'[ThisList]) :
                    j < i => ele[FragList'[ThisList][j]].dev # ele[pump.ele].dev
  <2>1. CASE ThisList = l
    <3>1. PICK i \in 1..Len(FragList[l]) :
            /\ FragList[l][i] = pump.ele
            /\ \A j \in 1..Len(FragList[l]) : j < i => ele[FragList[l][j]].dev # ele[pump.ele].dev
      BY <1>6, <2>1 DEF OrderInv, Foremost
    <3>2. i \in 1..Len(FragList'[l]) /\ FragList'[l][i] = pump.ele
      BY <1>5, <3>1
    <3>3. ASSUME NEW j \in 1..Len(FragList'[l]), j < i
          PROVE  ele[FragList'[l][j]].dev # ele[pump.ele].dev
      <4>1. j \in 1..Len(FragList[l])
        BY <1>5, <3>3
      <4> QED BY <1>5, <3>1, <3>3, <4>1
    <3> QED BY <2>1, <3>2, <3>3
  <2>2. CASE ThisList # l
    <3>1. FragList'[ThisList] = FragList[ThisList]
      BY <1>3, <1>4, <2>2
    <3> QED BY <1>6, <3>1 DEF OrderInv, Foremost
  <2> QED BY <2>1, <2>2
<1>7. Foremost'
  BY <1>1, <1>3, <1>6 DEF Foremost
<1>8. Carried'
  BY <1>1, <1>3 DEF OrderInv, Carried
<1> QED BY <1>2, <1>7, <1>8 DEF OrderInv

LEMMA KeepOrderClose ==
    ASSUME OrderInv, ElementTypeOK, NEW c \in Conn, Frag_InitTxForConnDev(c), pump.pc = "idle"
    PROVE  OrderInv'
<1> DEFINE Dropped == {e \in On(ListOf[c]) : ele[e].dev = c}
<1>1. /\ Leave(ListOf[c], Dropped) /\ ListOf[c] \in List /\ UNCHANGED << ele, pump >>
  BY PumpAssumption DEF Frag_InitTxForConnDev, pumping
<1> HIDE DEF Dropped
<1>2. Sorted'
  BY <1>1, SortedLeave DEF OrderInv
<1> QED BY <1>1, <1>2 DEF OrderInv, Carried, Foremost

LEMMA InitOrderInv == Init => OrderInv
<1> SUFFICES ASSUME Init PROVE OrderInv
  OBVIOUS
<1>1. /\ \A l \in List : FragList[l] = << >>
      /\ pump.pc = "idle"
  BY DEF Init
<1>2. \A l \in List : Len(FragList[l]) = 0
  BY <1>1
<1> QED BY <1>1, <1>2 DEF OrderInv, Sorted, Carried, Foremost

-----------------------------------------------------------------------------
(* The steps of the pump are steps of BtDataLink.                          *)

\* What is under way of a connection, and that it has something left to send.
ChainIs(c) ==
    /\ InList(c) \in Seq(Element)
    /\ OfConn(c) \in Seq(Element)
    /\ ~Holds(c) => OfConn(c) = InList(c)
    /\ Holds(c) => /\ pump.ele \in Element /\ InHand(pump.ele) /\ Mine(pump.ele, c)
                   /\ ele[pump.ele].ppid < ele[pump.ele].fpid
                   /\ OfConn(c) = << pump.ele >> \o InList(c)
    /\ \A k \in 1..Len(OfConn(c)) :
         /\ Listed(OfConn(c)[k]) \/ InHand(OfConn(c)[k])
         /\ Mine(OfConn(c)[k], c)
         /\ ele[OfConn(c)[k]].ppid < ele[OfConn(c)[k]].fpid
    /\ Underway[c] = [i \in 1..Len(OfConn(c)) |-> Part(OfConn(c)[i])]

LEMMA ChainFacts == ASSUME OwnInv, ElementTypeOK, NEW c \in Conn PROVE ChainIs(c)
<1> DEFINE s == InList(c)
<1>1. s \in Seq(Element) /\ \A k \in 1..Len(s) : Listed(s[k]) /\ Mine(s[k], c)
  BY InListFacts DEF ListIs
<1>2. \A k \in 1..Len(s) : s[k] \in Element
  BY <1>1
<1>3. \A k \in 1..Len(s) : ele[s[k]].ppid < ele[s[k]].fpid
  BY <1>1, <1>2 DEF OwnInv, Unsent
<1>4. Underway[c] = LET q == OfConn(c) IN [i \in DOMAIN q |-> Part(q[i])]
  BY DEF Underway
<1> HIDE DEF s
<1>5. CASE ~Holds(c)
  <2>1. OfConn(c) = << >> \o s
    BY <1>5 DEF OfConn, s
  <2>2. OfConn(c) = s
    BY <1>1, <2>1
  <2>3. DOMAIN s = 1..Len(s)
    BY <1>1
  <2> QED BY <1>1, <1>3, <1>4, <1>5, <2>2, <2>3 DEF s, ChainIs
<1>6. CASE Holds(c)
  <2>1. /\ pump.ele \in Element /\ InHand(pump.ele) /\ Mine(pump.ele, c)
        /\ ele[pump.ele].ppid < ele[pump.ele].fpid
    BY <1>6 DEF Holds, InHand
  <2> DEFINE t == << pump.ele >> \o s
  <2>2. OfConn(c) = t
    BY <1>6 DEF OfConn, s
  <2>3. /\ t \in Seq(Element) /\ Len(s) \in Nat /\ Len(t) = Len(s) + 1 /\ t[1] = pump.ele
        /\ \A i \in 1..Len(s) : t[i + 1] = s[i]
    BY <1>1, <2>1, PushFacts
  <2> HIDE DEF t
  <2>4. \A k \in 1..Len(t) : t[k] = pump.ele \/ \E i \in 1..Len(s) : t[k] = s[i]
    <3> SUFFICES ASSUME NEW k \in 1..Len(t), k # 1 PROVE \E i \in 1..Len(s) : t[k] = s[i]
      BY <2>3
    <3>1. k - 1 \in 1..Len(s) /\ (k - 1) + 1 = k
      BY <2>3
    <3> QED BY <2>3, <3>1
  <2>5. \A k \in 1..Len(t) : /\ Listed(t[k]) \/ InHand(t[k])
                             /\ Mine(t[k], c)
                             /\ ele[t[k]].ppid < ele[t[k]].fpid
    BY <1>1, <1>3, <2>1, <2>4
  <2>6. DOMAIN t = 1..Len(t)
    BY <2>3
  <2> QED BY <1>1, <1>4, <1>6, <2>1, <2>2, <2>3, <2>5, <2>6 DEF s, t, ChainIs
<1> QED BY <1>5, <1>6

LEMMA ChainNext == ASSUME NEW c \in Conn PROVE OwnInv' /\ ElementTypeOK' => ChainIs(c)'
<1>1. OwnInv /\ ElementTypeOK => ChainIs(c)
  BY ChainFacts
<1> QED BY <1>1, PTL

\* The invariants before and after a step.
Around == OwnInv /\ ElementTypeOK /\ OwnInv' /\ ElementTypeOK'

\* A connection of which nothing is moved or written.
LEMMA KeepChain ==
    ASSUME Around, NEW c \in Conn, OfConn(c)' = OfConn(c),
           \A x \in Element : Mine(x, c) /\ (Listed(x) \/ InHand(x)) => ele'[x] = ele[x]
    PROVE  Underway'[c] = Underway[c]
<1> DEFINE q == OfConn(c)
<1>1. /\ q \in Seq(Element)
      /\ \A k \in 1..Len(q) : (Listed(q[k]) \/ InHand(q[k])) /\ Mine(q[k], c)
      /\ Underway[c] = [i \in 1..Len(q) |-> Part(q[i])]
  BY ChainFacts DEF ChainIs, Around
<1>2. Underway'[c] = [i \in 1..Len(q) |-> Part(q[i])']
  BY ChainNext DEF ChainIs, Around, Part
<1> HIDE DEF q
<1>3. \A k \in 1..Len(q) : q[k] \in Element
  BY <1>1
<1>4. \A k \in 1..Len(q) : ele'[q[k]] = ele[q[k]]
  BY <1>1, <1>3
<1>5. \A k \in 1..Len(q) : Part(q[k])' = Part(q[k])
  BY <1>4 DEF Part, q
<1> QED BY <1>1, <1>2, <1>5

\* No connection is touched.
LEMMA KeepUnderway ==
    ASSUME Around, \A c \in Conn : OfConn(c)' = OfConn(c),
           \A x \in Element : Listed(x) \/ InHand(x) => ele'[x] = ele[x]
    PROVE  Link!LinkNext
<1>1. \A c \in Conn : Underway'[c] = Underway[c]
  BY KeepChain
<1>2. Underway' = [c \in Conn |-> Underway'[c]] /\ Underway = [c \in Conn |-> Underway[c]]
  BY DEF Underway
<1> HIDE DEF Underway
<1>3. Underway' = Underway
  BY <1>1, <1>2
<1> QED BY <1>3 DEF Link!LinkNext

\* Only one connection is.
LEMMA OneChain ==
    ASSUME NEW o \in Conn, NEW v, Underway'[o] = v,
           \A c \in Conn \ {o} : Underway'[c] = Underway[c]
    PROVE  Underway' = [Underway EXCEPT ![o] = v]
<1>1. Underway' = [c \in Conn |-> Underway'[c]] /\ Underway = [c \in Conn |-> Underway[c]]
  BY DEF Underway
<1> HIDE DEF Underway
<1>2. [Underway EXCEPT ![o] = v] = [c \in Conn |-> IF c = o THEN v ELSE Underway[c]]
  BY <1>1
<1>3. \A c \in Conn : Underway'[c] = IF c = o THEN v ELSE Underway[c]
  OBVIOUS
<1> QED BY <1>1, <1>2, <1>3

\* The same elements in the list, and the same in the hands of the pump.
LEMMA SameChain ==
    ASSUME NEW c \in Conn, InList(c)' = InList(c), Holds(c)' <=> Holds(c),
           Holds(c) => pump'.ele = pump.ele
    PROVE  OfConn(c)' = OfConn(c)
  BY DEF OfConn

\* Nothing moves in the lists.
LEMMA SameList ==
    ASSUME ElementTypeOK, NEW c \in Conn, UNCHANGED FragList,
           \A x \in Element : Listed(x) => ele'[x].dev = ele[x].dev
    PROVE  InList(c)' = InList(c)
<1>1. ListOf[c] \in List /\ FragList[ListOf[c]] \in Seq(Element)
  BY PumpAssumption DEF ElementTypeOK
<1>2. \A i \in DOMAIN FragList[ListOf[c]] : Mine(FragList[ListOf[c]][i], c)' <=> Mine(FragList[ListOf[c]][i], c)
  BY <1>1 DEF Mine, Listed
<1> QED BY <1>2 DEF InList

\* Steps that move and write no element.
LEMMA LinkIdle ==
    ASSUME Around, UNCHANGED << FragList, ele >>,
           \A x : InHand(x)' <=> InHand(x)
    PROVE  Link!LinkNext
<1>1. ASSUME NEW c \in Conn PROVE OfConn(c)' = OfConn(c)
  <2>1. InList(c)' = InList(c)
    BY SameList DEF Around
  <2>2. Holds(c)' <=> Holds(c)
    BY DEF Holds, Mine
  <2>3. Holds(c) => pump'.ele = pump.ele
    BY DEF Holds, InHand
  <2> QED BY <2>1, <2>2, <2>3, SameChain
<1> QED BY <1>1, KeepUnderway

\* A packet is accepted when it is in its list.
LEMMA LinkAccept ==
    ASSUME Around, BuildFrag_Put
    PROVE  Link!LinkNext
<1>0. built \in Element /\ ele[built].dev \in Conn
  BY DEF BuildFrag_Put, ElementTypeOK, Around
<1> SUFFICES ASSUME NEW e \in Element, NEW o \in Conn, e = built, o = ele[e].dev
             PROVE  Link!LinkNext
  BY <1>0
<1>1. /\ e \in Element /\ o \in Conn /\ UNCHANGED << ele, pump >>
      /\ FragList' = [FragList EXCEPT ![ListOf[o]] = Append(FragList[ListOf[o]], e)]
      /\ ~Listed(e) /\ ~InHand(e) /\ ele[e].ppid < ele[e].fpid
  <2>1. ~Listed(e) /\ ~InHand(e) /\ ele[e].ppid < ele[e].fpid
    BY DEF Around, OwnInv, Apart, Unsent
  <2> QED BY <2>1 DEF BuildFrag_Put, pumping
<1>2. /\ \A c \in Conn \ {o} : InList(c)' = InList(c)
      /\ InList(o)' = Append(InList(o), e)
  BY <1>1, AppendInList DEF Around
<1>3. \A c \in Conn : Holds(c)' <=> Holds(c)
  BY <1>1 DEF Holds, Mine, InHand
<1>4. ASSUME NEW c \in Conn \ {o} PROVE Underway'[c] = Underway[c]
  <2>1. OfConn(c)' = OfConn(c)
    BY <1>1, <1>2, <1>3, SameChain
  <2> QED BY <1>1, <2>1, KeepChain
<1>5. /\ OfConn(o) \in Seq(Element)
      /\ Underway[o] = [i \in 1..Len(OfConn(o)) |-> Part(OfConn(o)[i])]
  BY <1>1, ChainFacts DEF Around, ChainIs
<1>6. OfConn(o)' = Append(OfConn(o), e)
  <2>1. CASE ~Holds(o)
    BY <1>1, <1>2, <1>3, <2>1, ChainFacts, ChainNext DEF Around, ChainIs
  <2>2. CASE Holds(o)
    <3>1. /\ InList(o) \in Seq(Element) /\ pump.ele \in Element
          /\ OfConn(o) = << pump.ele >> \o InList(o)
      BY <1>1, <2>2, ChainFacts DEF Around, ChainIs
    <3>2. OfConn(o)' = << pump.ele >> \o Append(InList(o), e)
      BY <1>1, <1>2, <1>3, <2>2, ChainNext DEF Around, ChainIs
    <3>3. << pump.ele >> \o Append(InList(o), e) = Append(<< pump.ele >> \o InList(o), e)
      BY <1>1, <3>1
    <3> QED BY <3>1, <3>2, <3>3
  <2> QED BY <2>1, <2>2
<1> DEFINE q == OfConn(o)
           it == Part(e)
<1>7. Underway'[o] = [i \in 1..Len(OfConn(o)') |-> Part(OfConn(o)'[i])]
  <2>1. Underway'[o] = [i \in 1..Len(OfConn(o)') |->
             [packet |-> OfConn(o)'[i],
              left |-> ele'[OfConn(o)'[i]].fpid - ele'[OfConn(o)'[i]].ppid]]
    BY <1>1, ChainNext DEF Around, ChainIs, Part
  <2> QED BY <1>1, <2>1 DEF Part
<1>8. Underway'[o] = Append(Underway[o], it)
  <2>1. /\ q \in Seq(Element) /\ Len(q) \in Nat /\ Len(Append(q, e)) = Len(q) + 1
        /\ \A i \in 1..Len(q) : Append(q, e)[i] = q[i]
        /\ Append(q, e)[Len(q) + 1] = e
    BY <1>1, <1>5, AppendFacts
  <2>2. Underway'[o] = [i \in 1..Len(q) + 1 |-> Part(Append(q, e)[i])]
    BY <1>5, <1>6, <1>7, <2>1
  <2> HIDE DEF q, it
  <2> DEFINE a == [i \in 1..Len(q) |-> Part(q[i])]
  <2>3. a \in Seq({Part(x) : x \in Element \cup {e}}) /\ Len(a) = Len(q)
    <3>1. \A i \in 1..Len(q) : Part(q[i]) \in {Part(x) : x \in Element \cup {e}}
      BY <2>1
    <3> QED BY <2>1, <3>1
  <2>4. Append(a, it) = [i \in 1..Len(q) + 1 |-> IF i = Len(q) + 1 THEN it ELSE a[i]]
    BY <2>3
  <2>5. \A i \in 1..Len(q) + 1 : Part(Append(q, e)[i]) = IF i = Len(q) + 1 THEN it ELSE a[i]
    BY <2>1 DEF it
  <2> QED BY ZenonT(20), <1>5, <2>2, <2>4, <2>5 DEF q
<1>9. it \in Link!Item
  <2>1. /\ ele[e].ppid \in 0..MaxWrites /\ ele[e].fpid \in 0..MaxWrites /\ MaxWrites \in Nat
    BY <1>1, PumpAssumption DEF Around, ElementTypeOK
  <2>2. ele[e].fpid - ele[e].ppid \in 1..MaxWrites
    BY <1>1, <2>1
  <2> QED BY <1>1, <2>2 DEF Part, Link!Item
<1>10. \A c \in Conn : \A i \in DOMAIN Underway[c] : Underway[c][i].packet # it.packet
  <2> SUFFICES ASSUME NEW c \in Conn, NEW i \in DOMAIN Underway[c]
               PROVE  Underway[c][i].packet # it.packet
    OBVIOUS
  <2>1. /\ Underway[c] = [k \in 1..Len(OfConn(c)) |-> Part(OfConn(c)[k])]
        /\ \A k \in 1..Len(OfConn(c)) : Listed(OfConn(c)[k]) \/ InHand(OfConn(c)[k])
    BY ChainFacts DEF Around, ChainIs
  <2>2. i \in 1..Len(OfConn(c)) /\ Underway[c][i] = Part(OfConn(c)[i])
    BY <2>1
  <2>3. OfConn(c)[i] # e
    BY <1>1, <2>1, <2>2
  <2> QED BY <2>2, <2>3 DEF Part
<1> HIDE DEF it
<1>11. Underway' = [Underway EXCEPT ![o] = Append(@, it)]
  <2>1. Underway' = [Underway EXCEPT ![o] = Append(Underway[o], it)]
    BY <1>1, <1>4, <1>8, OneChain
  <2> QED BY <2>1
<1>12. Link!Accept(o)
  BY <1>9, <1>10, <1>11 DEF Link!Accept
<1> QED BY <1>1, <1>12 DEF Link!LinkNext

\* The stack only fills a free element.
LEMMA LinkBuildTake ==
    ASSUME Around, OrderInv, CardTypeOK, NEW o \in Conn, BuildFrag_Take(o)
    PROVE  Link!LinkNext
<1>1. UNCHANGED << FragList, pump >>
  BY DEF BuildFrag_Take, pumping
<1>2. \A x \in Element : Listed(x) \/ InHand(x) => ele'[x] = ele[x]
  BY KeepOrderBuildTake DEF Around
<1>3. ASSUME NEW c \in Conn PROVE OfConn(c)' = OfConn(c)
  <2>1. InList(c)' = InList(c)
    BY <1>1, <1>2, SameList DEF Around
  <2>2. Holds(c)' <=> Holds(c)
    BY <1>1, <1>2 DEF Holds, Mine, InHand
  <2> QED BY <1>1, <2>1, <2>2, SameChain
<1> QED BY <1>2, <1>3, KeepUnderway

\* The element taken off the list is the first of its connection.
LEMMA LinkTake ==
    ASSUME Around, OrderInv, CardTypeOK, ProcessAclFrag_Take
    PROVE  Link!LinkNext
<1> DEFINE q == FragList[ThisList]
           e == pump.ele
           o == ele[pump.ele].dev
<1>1. /\ pump.pc = "take" /\ Leave(ThisList, {e}) /\ UNCHANGED ele
      /\ pump'.pc = "write" /\ pump'.ele = e /\ e \in Element
  BY DEF ProcessAclFrag_Take, ResumePump, ElementTypeOK, Round, Around
<1>2. ThisList \in List /\ q \in Seq(Element)
  BY ThisListType DEF Around, ElementTypeOK
<1>3. PICK p \in 1..Len(q) : q[p] = e /\ \A j \in 1..Len(q) : j < p => ele[q[j]].dev # o
  BY <1>1 DEF OrderInv, Foremost
<1>4. o \in Conn /\ ListOf[o] = ThisList
  BY <1>2, <1>3 DEF OrderInv, Sorted
<1>5. \A j \in 1..Len(q) : q[j] = e => j = p
  BY <1>2, <1>3 DEF Around, OwnInv, Once
<1>6. \A c : ~Holds(c)
  BY <1>1 DEF Holds, InHand
<1>7. Listed(e) /\ ele[e].ppid < ele[e].fpid
  BY <1>1, <1>2, <1>3 DEF Listed, Around, OwnInv, Unsent
<1>8. \A c \in Conn : Holds(c)' <=> c = o
  BY <1>1, <1>7 DEF Holds, InHand, Mine
<1>9. ASSUME NEW c \in Conn PROVE OfConn(c)' = OfConn(c)
  <2>1. /\ ListOf[c] # ThisList => InList(c)' = InList(c)
        /\ ListOf[c] = ThisList =>
             InList(c)' = InOrder(q, {i \in PlacesOf(c) : q[i] \notin {e}})
    BY <1>1, <1>2, LeaveInList DEF Around
  <2>2. ListIs(c)
    BY InListFacts DEF Around
  <2>3. ~Holds(c) /\ OfConn(c) = InList(c)
    BY <1>6, ChainFacts DEF Around, ChainIs
  <2>4. CASE c # o
    <3>1. InList(c)' = InList(c)
      <4>1. CASE ListOf[c] = ThisList
        <5>1. {i \in PlacesOf(c) : q[i] \notin {e}} = PlacesOf(c)
          BY <2>4, <4>1 DEF PlacesOf, Mine
        <5> QED BY <2>1, <2>2, <4>1, <5>1 DEF ListIs
      <4> QED BY <2>1, <4>1
    <3> QED BY <1>8, <2>3, <2>4, <3>1, SameChain
  <2>5. CASE c = o
    <3> DEFINE R == PlacesOf(c)
    <3>1. InList(c) = InOrder(q, R) /\ R \in SUBSET (1..Len(q))
      BY <1>4, <2>2, <2>5 DEF ListIs
    <3>2. R = {i \in 1..Len(q) : ele[q[i]].dev = o}
      BY <1>4, <2>5 DEF PlacesOf, Mine
    <3>3. {i \in PlacesOf(c) : q[i] \notin {e}} = R \ {p}
      BY <1>3, <1>5, <3>1
    <3>4. InList(c)' = InOrder(q, R \ {p})
      BY <1>4, <2>1, <2>5, <3>3
    <3>5. p \in R /\ \A j \in R : p <= j
      <4>1. p \in R
        BY <1>3, <3>2
      <4>2. ASSUME NEW j \in R PROVE p <= j
        <5>1. j \in 1..Len(q) /\ ~(j < p)
          BY <1>3, <3>2
        <5> QED BY <5>1
      <4> QED BY <4>1, <4>2
    <3> HIDE DEF R, q, e, o
    <3>6. InOrder(q, R) = << q[p] >> \o InOrder(q, R \ {p})
      BY <1>2, <3>1, <3>5, FirstInOrder
    <3>7. OfConn(c) = << e >> \o InList(c)'
      BY <1>3, <2>3, <3>1, <3>4, <3>6
    <3>8. OfConn(c)' = << pump'.ele >> \o InList(c)'
      BY <1>8, <2>5, ChainNext DEF Around, ChainIs
    <3> QED BY <1>1, <3>7, <3>8
  <2> QED BY <2>4, <2>5
<1> QED BY <1>1, <1>9, KeepUnderway

LEMMA Counted ==
    ASSUME ElementTypeOK, NEW e \in Element
    PROVE  ele[e].ppid \in Nat /\ ele[e].fpid \in Nat
  BY PumpAssumption DEF ElementTypeOK

\* One part of the first packet is sent.
LEMMA LinkWrite ==
    ASSUME Around, OrderInv, ProcessAclFrag_Write
    PROVE  Link!LinkNext
<1>0. pump.ele \in Element /\ ele[pump.ele].dev \in Conn /\ pump.pc = "write"
  BY DEF ProcessAclFrag_Write, ElementTypeOK, Round, Around, OrderInv, Carried
<1> SUFFICES ASSUME NEW e \in Element, NEW o \in Conn, e = pump.ele, o = ele[e].dev
             PROVE  Link!LinkNext
  BY <1>0
<1>1. /\ UNCHANGED FragList /\ ele' = [ele EXCEPT ![e].ppid = @ + 1]
      /\ pump'.pc = "put" /\ pump'.ele = e /\ ele[e].ppid < ele[e].fpid
  BY DEF ProcessAclFrag_Write, ResumePump
<1>2. /\ ele'[e].dev = ele[e].dev /\ ele'[e].fpid = ele[e].fpid
      /\ ele'[e].ppid = ele[e].ppid + 1
      /\ \A x \in Element : x # e => ele'[x] = ele[x]
  BY <1>1, WrittenElement DEF Around
<1>3. \A c \in Conn : InList(c)' = InList(c)
  BY <1>1, <1>2, SameList DEF Around
<1>4. \A x : (InHand(x) <=> x = e) /\ (InHand(x)' <=> x = e)
  BY <1>0, <1>1 DEF InHand
<1>5. \A c \in Conn : (Holds(c) <=> c = o) /\ (c # o => ~Holds(c)')
  BY <1>1, <1>2, <1>4 DEF Holds, Mine
<1>6. ASSUME NEW c \in Conn \ {o} PROVE Underway'[c] = Underway[c]
  <2>1. OfConn(c)' = OfConn(c)
    BY <1>3, <1>5, SameChain
  <2>2. \A x \in Element : Mine(x, c) => ele'[x] = ele[x]
    BY <1>2 DEF Mine
  <2> QED BY <2>1, <2>2, KeepChain
<1> DEFINE s == InList(o)
           q == << e >> \o s
           left == ele[e].fpid - ele[e].ppid
<1>7. /\ s \in Seq(Element) /\ OfConn(o) = q
      /\ Underway[o] = [i \in 1..Len(OfConn(o)) |-> Part(OfConn(o)[i])]
  BY <1>5, ChainFacts DEF Around, ChainIs
<1>8. /\ ~Holds(o)' => OfConn(o)' = s
      /\ Holds(o)' => OfConn(o)' = q
  BY <1>1, <1>3, ChainNext DEF Around, ChainIs
<1>9. Holds(o)' <=> left # 1
  <2>1. ele[e].ppid \in Nat /\ ele[e].fpid \in Nat
    BY Counted DEF Around
  <2>2. ele'[e].ppid < ele'[e].fpid <=> left # 1
    BY <1>1, <1>2, <2>1
  <2> QED BY <1>2, <1>4, <2>2 DEF Holds, Mine
<1>10. \A k \in 1..Len(s) : s[k] \in Element /\ s[k] # e
  <2>1. \A k \in 1..Len(s) : Listed(s[k])
    BY InListFacts DEF ListIs, Around
  <2>2. ~Listed(e)
    BY <1>4 DEF Around, OwnInv, Apart
  <2> QED BY <1>7, <2>1, <2>2
<1>11. Underway'[o] = [i \in 1..Len(OfConn(o)') |->
                        [packet |-> OfConn(o)'[i],
                         left |-> ele'[OfConn(o)'[i]].fpid - ele'[OfConn(o)'[i]].ppid]]
  BY ChainNext DEF Around, ChainIs, Part
<1>12. /\ q \in Seq(Element) /\ Len(s) \in Nat /\ Len(q) = Len(s) + 1 /\ q[1] = e
       /\ \A i \in 1..Len(s) : q[i + 1] = s[i]
  BY <1>7, PushFacts
<1> HIDE DEF s, q, left
<1> DEFINE a == [i \in 1..Len(q) |-> Part(q[i])]
           Item == {Part(x) : x \in Element}
<1>13. Underway[o] = a
  BY <1>7
<1>14. a \in Seq(Item) /\ Len(a) = Len(q) /\ a # << >> /\ Head(a) = Part(e)
  <2>1. \A i \in 1..Len(q) : q[i] \in Element
    BY <1>12
  <2>2. \A i \in 1..Len(q) : Part(q[i]) \in Item
    BY <2>1
  <2> HIDE DEF Item
  <2>3. a \in Seq(Item) /\ Len(a) = Len(q)
    BY <1>12, <2>2
  <2>4. a[1] = Part(e) /\ Len(a) >= 1
    BY <1>12, <2>3
  <2> HIDE DEF a
  <2> QED BY <2>3, <2>4
<1> DEFINE t == Tail(a)
           u == [i \in 1..Len(s) |-> Part(s[i])]
           rest == [packet |-> e, left |-> left - 1]
           v == IF left = 1 THEN t ELSE << rest >> \o t
<1>15. u \in Seq(Item) /\ Len(u) = Len(s) /\ \A i \in 1..Len(s) : u[i] = Part(s[i])
  <2>1. \A i \in 1..Len(s) : Part(s[i]) \in Item
    BY <1>10
  <2> HIDE DEF Item
  <2> QED BY <1>12, <2>1
<1>16. t = u
  <2>1. \A i \in 1..Len(s) : a[i + 1] = Part(s[i])
    BY <1>12
  <2> HIDE DEF a, Item
  <2>2. /\ t \in Seq(Item) /\ Len(t) = Len(a) - 1
        /\ \A i \in 1..Len(t) : t[i] = a[i + 1]
    BY <1>14, TailFacts
  <2> HIDE DEF t, u
  <2>3. Len(t) = Len(s)
    BY <1>12, <1>14, <2>2
  <2>4. \A i \in 1..Len(t) : t[i] = u[i]
    BY <1>15, <2>1, <2>2, <2>3
  <2> QED BY <1>15, <2>2, <2>3, <2>4
<1>17. ASSUME left = 1 PROVE Underway'[o] = v
  <2>1. OfConn(o)' = s
    BY <1>8, <1>9, <1>17
  <2>2. Underway'[o] = u
    BY <1>2, <1>10, <1>11, <2>1 DEF Part
  <2> HIDE DEF t, u
  <2> QED BY <1>16, <1>17, <2>2
<1>18. ASSUME left # 1 PROVE Underway'[o] = v
  <2> DEFINE w == << rest >> \o u
             n == [i \in 1..Len(q) |->
                     [packet |-> q[i], left |-> ele'[q[i]].fpid - ele'[q[i]].ppid]]
             Any == Item \cup {rest}
  <2>1. OfConn(o)' = q
    BY <1>8, <1>9, <1>18
  <2>2. Underway'[o] = n
    BY <1>11, <2>1
  <2>3. ele'[e].fpid - ele'[e].ppid = left - 1
    <3>1. ele[e].ppid \in Nat /\ ele[e].fpid \in Nat
      BY Counted DEF Around
    <3> QED BY <1>2, <3>1 DEF left
  <2>4. n[1] = rest /\ \A i \in 1..Len(s) : n[i + 1] = u[i]
    <3>1. n[1] = rest
      BY <1>12, <2>3
    <3>2. ASSUME NEW i \in 1..Len(s) PROVE n[i + 1] = u[i]
      <4>1. i + 1 \in 1..Len(q) /\ q[i + 1] = s[i]
        BY <1>12
      <4>2. ele'[s[i]] = ele[s[i]]
        BY <1>2, <1>10
      <4> QED BY <4>1, <4>2 DEF Part
    <3> QED BY <3>1, <3>2
  <2>5. /\ w \in Seq(Any) /\ Len(w) = Len(s) + 1 /\ w[1] = rest
        /\ \A i \in 1..Len(s) : w[i + 1] = u[i]
    <3>1. rest \in Any /\ Item \subseteq Any
      OBVIOUS
    <3> HIDE DEF u, rest, Item, Any
    <3>2. u \in Seq(Any)
      BY <1>15, <3>1
    <3> QED BY <1>15, <3>1, <3>2, PushFacts
  <2>6. \A k \in 1..Len(q) : n[k] = w[k]
    <3> SUFFICES ASSUME NEW k \in 1..Len(q), k # 1 PROVE n[k] = w[k]
      BY <2>4, <2>5
    <3>1. k - 1 \in 1..Len(s) /\ (k - 1) + 1 = k
      BY <1>12
    <3> HIDE DEF n, w, u, rest
    <3> QED BY <2>4, <2>5, <3>1
  <2>7. n = [k \in 1..Len(q) |-> n[k]] /\ w = [k \in 1..Len(q) |-> w[k]]
    <3>1. n = [k \in 1..Len(q) |-> n[k]]
      OBVIOUS
    <3> HIDE DEF n, w, Any
    <3>2. DOMAIN w = 1..Len(q)
      BY <1>12, <2>5
    <3> QED BY <2>5, <3>1, <3>2
  <2> HIDE DEF n, w
  <2>8. n = w
    BY <2>6, <2>7
  <2> HIDE DEF t, u
  <2> QED BY <1>16, <1>18, <2>2, <2>8 DEF w
<1>19. Underway'[o] = v
  BY <1>17, <1>18
<1>20. Underway' = [Underway EXCEPT ![o] = v]
  <2> HIDE DEF v
  <2> QED BY <1>6, <1>19, OneChain
<1>21. Head(a).left = left /\ Head(a).packet = e
  BY <1>14 DEF Part, left
<1> HIDE DEF a
<1>22. Link!SendPart(o)
  <2>1. Underway[o] # << >>
    BY <1>13, <1>14
  <2>2. v = IF Head(Underway[o]).left = 1 THEN Tail(Underway[o])
            ELSE << [packet |-> Head(Underway[o]).packet, left |-> Head(Underway[o]).left - 1] >>
                   \o Tail(Underway[o])
    BY <1>13, <1>21
  <2> HIDE DEF v
  <2> QED BY <1>20, <2>1, <2>2 DEF Link!SendPart
<1> QED BY <1>22 DEF Link!LinkNext

\* What is left of an element goes back before the others of its connection;
\* one that is all sent was not under way any more.
LEMMA LinkReturn ==
    ASSUME Around, OrderInv, CardTypeOK, ProcessAclFrag_Put \/ ProcessAclFrag_Back
    PROVE  Link!LinkNext
<1>0. pump.ele \in Element /\ ele[pump.ele].dev \in Conn /\ pump.pc \in {"put", "back"}
  BY DEF ProcessAclFrag_Put, ProcessAclFrag_Back, ElementTypeOK, Round, Around, OrderInv, Carried
<1> SUFFICES ASSUME NEW e \in Element, NEW o \in Conn, e = pump.ele, o = ele[e].dev
             PROVE  Link!LinkNext
  BY <1>0
<1>1. /\ pump'.pc \in {"done", "find"} /\ UNCHANGED ele
      /\ \/ UNCHANGED FragList /\ ~(ele[e].ppid < ele[e].fpid)
         \/ PushHead(ThisList, e) /\ ele[e].ppid < ele[e].fpid
  <2>1. ele[e].ppid \in Nat /\ ele[e].fpid \in Nat
    BY Counted DEF Around
  <2>2. pump.pc = "put" => ele[e].ppid <= ele[e].fpid
    BY DEF Around, OwnInv, Unsent
  <2>3. pump.pc = "back" => ele[e].ppid < ele[e].fpid
    BY DEF Around, OwnInv, Unsent
  <2>4. CASE ProcessAclFrag_Put
    BY <2>1, <2>2, <2>4 DEF ProcessAclFrag_Put, EndRound, ResumePump
  <2>5. CASE ProcessAclFrag_Back
    BY <2>3, <2>5 DEF ProcessAclFrag_Back, ResumePump
  <2> QED BY <2>4, <2>5
<1>2. \A x : (InHand(x) <=> x = e) /\ ~InHand(x)'
  BY <1>0, <1>1 DEF InHand
<1>3. \A c \in Conn : /\ ~Holds(c)'
                      /\ Holds(c) <=> c = o /\ ele[e].ppid < ele[e].fpid
  BY <1>2 DEF Holds, Mine
<1>4. CASE UNCHANGED FragList /\ ~(ele[e].ppid < ele[e].fpid)
  <2>1. \A c \in Conn : InList(c)' = InList(c)
    BY <1>1, <1>4, SameList DEF Around
  <2>2. \A c \in Conn : OfConn(c)' = OfConn(c)
    BY <1>3, <1>4, <2>1, SameChain
  <2> QED BY <1>1, <2>2, KeepUnderway
<1>5. CASE PushHead(ThisList, e) /\ ele[e].ppid < ele[e].fpid
  <2>1. ListOf[o] = ThisList /\ ~Listed(e)
    BY <1>0, <1>2 DEF OrderInv, Carried, Around, OwnInv, Apart
  <2>2. FragList' = [FragList EXCEPT ![ListOf[o]] = << e >> \o FragList[ListOf[o]]]
    BY <1>5, <2>1 DEF PushHead
  <2>3. /\ \A c \in Conn \ {o} : InList(c)' = InList(c)
        /\ InList(o)' = << e >> \o InList(o)
    BY <1>1, <2>1, <2>2, PushInList DEF Around
  <2>4. ASSUME NEW c \in Conn PROVE OfConn(c)' = OfConn(c)
    <3>1. CASE c # o
      BY <1>3, <2>3, <3>1, SameChain
    <3>2. CASE c = o
      <4>1. OfConn(o) = << e >> \o InList(o)
        BY <1>3, <1>5, ChainFacts DEF Around, ChainIs
      <4>2. OfConn(o)' = InList(o)'
        BY <1>3, ChainNext DEF Around, ChainIs
      <4> QED BY <2>3, <3>2, <4>1, <4>2
    <3> QED BY <3>1, <3>2
  <2> QED BY <1>1, <2>4, KeepUnderway
<1> QED BY <1>1, <1>4, <1>5

\* A connection that is closed gives up its packets, and no other.
LEMMA LinkClose ==
    ASSUME Around, NEW o \in Conn, Frag_InitTxForConnDev(o), pump.pc = "idle"
    PROVE  Link!LinkNext
<1> DEFINE l == ListOf[o]
           q == FragList[l]
           Dropped == {e \in On(l) : ele[e].dev = o}
<1>1. Leave(l, Dropped) /\ l \in List /\ UNCHANGED << ele, pump >>
  BY PumpAssumption DEF Frag_InitTxForConnDev, pumping
<1>2. q \in Seq(Element) /\ DOMAIN q = 1..Len(q)
  <2>1. q \in Seq(Element)
    BY <1>1 DEF Around, ElementTypeOK
  <2> QED BY <2>1
<1>3. \A i \in 1..Len(q) : q[i] \in Dropped <=> ele[q[i]].dev = o
  BY <1>2 DEF On
<1> HIDE DEF Dropped
<1>4. \A c : ~Holds(c) /\ ~Holds(c)'
  BY <1>1 DEF Holds, InHand
<1>5. ASSUME NEW c \in Conn
      PROVE  /\ ListOf[c] # l => InList(c)' = InList(c)
             /\ ListOf[c] = l =>
                  InList(c)' = InOrder(q, {i \in PlacesOf(c) : q[i] \notin Dropped})
  BY <1>1, LeaveInList DEF Around
<1>6. ASSUME NEW c \in Conn \ {o} PROVE Underway'[c] = Underway[c]
  <2>1. InList(c)' = InList(c)
    <3>1. CASE ListOf[c] = l
      <4>1. {i \in PlacesOf(c) : q[i] \notin Dropped} = PlacesOf(c)
        BY <1>3, <3>1 DEF PlacesOf, Mine
      <4>2. InList(c) = InOrder(q, PlacesOf(c))
        BY <3>1, InListFacts DEF ListIs, Around
      <4> QED BY <1>5, <3>1, <4>1, <4>2
    <3> QED BY <1>5, <3>1
  <2>2. OfConn(c)' = OfConn(c)
    BY <1>4, <2>1, SameChain
  <2> QED BY <1>1, <2>2, KeepChain
<1>7. Underway'[o] = << >>
  <2>1. {i \in PlacesOf(o) : q[i] \notin Dropped} = {}
    BY <1>3 DEF PlacesOf, Mine
  <2>2. InList(o)' = << >>
    BY <1>5, <2>1, NoneInOrder
  <2>3. /\ OfConn(o)' = << >>
        /\ Underway'[o] = [i \in 1..Len(OfConn(o)') |->
                            [packet |-> OfConn(o)'[i],
                             left |-> ele'[OfConn(o)'[i]].fpid - ele'[OfConn(o)'[i]].ppid]]
    BY <1>4, <2>2, ChainNext DEF Around, ChainIs, Part
  <2>4. Len(OfConn(o)') = 0
    BY <2>3
  <2> QED BY <2>3, <2>4
<1>8. Underway' = [Underway EXCEPT ![o] = << >>]
  BY <1>6, <1>7, OneChain
<1> QED BY <1>8 DEF Link!GiveUp, Link!LinkNext

-----------------------------------------------------------------------------
\* Steps in which no element moves.
LEMMA Still ==
    /\ Timers \/ Card \/ Rest \/ UNCHANGED vars \/ Usb_WriteCompletion
         => UNCHANGED << elements, pumping >>
    /\ \/ Frag_ProcessSpaceInt \/ CheckTxQueue_Return \/ CheckTxQueue_Acl
       \/ ProcessSpaceInt_End \/ \E l \in List : CheckTxQueue_Control(l)
       => /\ UNCHANGED elements /\ pump.pc \in {"idle", "check", "done"}
          /\ UNCHANGED pumping \/ pump'.pc \in {"check", "done", "find", "idle"}
<1>1. Timers \/ Card \/ Rest \/ UNCHANGED vars \/ Usb_WriteCompletion
        => UNCHANGED << elements, pumping >>
  BY DEF Timers, DataSendingTimer_Test, DataSendingTimer_Set, BtWatchdogTimer, Card,
         Card_Take, Card_Answer, Card_Loses, Card_Send, vars, Usb_WriteCompletion,
         Rest, Connect, Hci_Del_Connect_Device, Bar, Hci_StopL2capFlowTimer, ControlFrame,
         Frag_StopQueue, Frag_StartQueueForSco, FlushInt, FlushDone
<1>2. \A l \in List : CheckTxQueue_Control(l)
        => /\ UNCHANGED elements /\ pump.pc = "check"
           /\ UNCHANGED pumping \/ pump'.pc \in {"find", "done"}
  BY DEF CheckTxQueue_Control, ResumePump, pumping
<1>3. Frag_ProcessSpaceInt \/ CheckTxQueue_Return \/ CheckTxQueue_Acl \/ ProcessSpaceInt_End
        => /\ UNCHANGED elements /\ pump.pc \in {"idle", "check", "done"}
           /\ pump'.pc \in {"check", "done", "find", "idle"}
  BY DEF Frag_ProcessSpaceInt, CheckTxQueue_Return, CheckTxQueue_Acl,
         ProcessSpaceInt_End, ResumePump
<1> QED BY <1>1, <1>2, <1>3

LEMMA KeepOrder == OrderInv /\ OwnInv /\ TypeInv /\ [Next]_vars => OrderInv'
<1> SUFFICES ASSUME OrderInv, OwnInv, TypeInv, [Next]_vars PROVE OrderInv'
  OBVIOUS
<1> USE DEF TypeInv, CInv
<1>1. CASE Timers \/ Card \/ Rest \/ UNCHANGED vars \/ Usb_WriteCompletion
  BY <1>1, Still, KeepOrderIdle DEF elements
<1>2. CASE \/ Frag_ProcessSpaceInt \/ CheckTxQueue_Return \/ CheckTxQueue_Acl
           \/ ProcessSpaceInt_End \/ \E l \in List : CheckTxQueue_Control(l)
  BY <1>2, Still, KeepOrderIdle DEF elements, Round
<1>3. CASE ProcessAclFrag_Find
  BY <1>3, KeepOrderFind
<1>4. CASE ProcessAclFrag_Take
  BY <1>4, KeepOrderTake
<1>5. CASE ProcessAclFrag_NoSpace \/ ProcessAclFrag_WriteFails
  BY <1>5, KeepOrderRefused
<1>6. CASE ProcessAclFrag_Write
  BY <1>6, KeepOrderWrite
<1>7. CASE ProcessAclFrag_Put \/ ProcessAclFrag_Back
  BY <1>7, KeepOrderReturn
<1>8. CASE Host
  BY <1>8, KeepOrderBuildTake, KeepOrderBuildPut DEF Host
<1>9. CASE \E c \in Conn : pump.pc = "idle" /\ Frag_InitTxForConnDev(c)
  BY <1>9, KeepOrderClose
<1> QED BY <1>1, <1>2, <1>3, <1>4, <1>5, <1>6, <1>7, <1>8, <1>9 DEF Next, Step, Tasklet

LEMMA StepOfLink ==
    ASSUME Around, OrderInv, CardTypeOK, [Next]_vars
    PROVE  Link!LinkNext
<1>1. CASE Timers \/ Card \/ Rest \/ UNCHANGED vars \/ Usb_WriteCompletion
  <2>1. UNCHANGED << FragList, ele, pump >>
    BY <1>1, Still DEF elements, pumping
  <2> QED BY <2>1, LinkIdle DEF InHand
<1>2. CASE \/ Frag_ProcessSpaceInt \/ CheckTxQueue_Return \/ CheckTxQueue_Acl
           \/ ProcessSpaceInt_End \/ \E l \in List : CheckTxQueue_Control(l)
  <2>1. /\ UNCHANGED << FragList, ele >> /\ pump.pc \in {"idle", "check", "done"}
        /\ UNCHANGED pumping \/ pump'.pc \in {"check", "done", "find", "idle"}
    BY <1>2, Still DEF elements
  <2>2. \A x : ~InHand(x) /\ ~InHand(x)'
    BY <2>1 DEF InHand, pumping
  <2> QED BY <2>1, <2>2, LinkIdle
<1>3. CASE ProcessAclFrag_Find
  <2>1. /\ UNCHANGED << FragList, ele >> /\ pump.pc = "find"
        /\ pump'.pc \in {"done", "find", "take"}
    BY <1>3 DEF ProcessAclFrag_Find, EndRound, ResumePump, elements
  <2>2. \A x : ~InHand(x) /\ ~InHand(x)'
    BY <2>1 DEF InHand
  <2> QED BY <2>1, <2>2, LinkIdle
<1>4. CASE ProcessAclFrag_Take
  BY <1>4, LinkTake
<1>5. CASE ProcessAclFrag_NoSpace \/ ProcessAclFrag_WriteFails
  <2>1. /\ UNCHANGED << FragList, ele >>
        /\ pump.pc = "write" /\ pump'.pc = "back" /\ pump'.ele = pump.ele
    BY <1>5 DEF ProcessAclFrag_NoSpace, ProcessAclFrag_WriteFails, ResumePump, elements
  <2>2. \A x : InHand(x)' <=> InHand(x)
    BY <2>1 DEF InHand
  <2> QED BY <2>1, <2>2, LinkIdle
<1>6. CASE ProcessAclFrag_Write
  BY <1>6, LinkWrite
<1>7. CASE ProcessAclFrag_Put \/ ProcessAclFrag_Back
  BY <1>7, LinkReturn
<1>8. CASE Host
  BY <1>8, LinkBuildTake, LinkAccept DEF Host
<1>9. CASE \E c \in Conn : pump.pc = "idle" /\ Frag_InitTxForConnDev(c)
  BY <1>9, LinkClose
<1> QED BY <1>1, <1>2, <1>3, <1>4, <1>5, <1>6, <1>7, <1>8, <1>9 DEF Next, Step, Tasklet

\* At first nothing is under way.
LEMMA InitLink == Init => Link!LinkInit
<1> SUFFICES ASSUME Init PROVE Link!LinkInit
  OBVIOUS
<1>1. ASSUME NEW c \in Conn PROVE OfConn(c) = << >>
  <2>1. FragList[ListOf[c]] = << >>
    BY PumpAssumption DEF Init
  <2>2. {i \in DOMAIN FragList[ListOf[c]] : Mine(FragList[ListOf[c]][i], c)} = {}
    BY <2>1
  <2>3. InList(c) = << >>
    BY <2>2, NoneInOrder DEF InList
  <2>4. ~Holds(c)
    BY DEF Init, Holds, InHand
  <2> QED BY <2>3, <2>4 DEF OfConn
<1>2. \A c \in Conn : [i \in DOMAIN OfConn(c) |-> Part(OfConn(c)[i])] = << >>
  BY <1>1
<1> QED BY <1>2 DEF Underway, Link!LinkInit

\* The pump implements BtDataLink: whatever is refused, not submitted or put
\* back, and whatever the other connections of a list do, the packets of a
\* connection leave in the order in which the stack handed them over, and the
\* writes of one follow each other.  It rests on the pump taking the first
\* element of a connection, on what is left of it going back before the others,
\* and on no connection being closed while the pump has an element in hand
\* (Frag_ProcessAclFrag, Frag_BuildFrag, Frag_InitTxForConnDev).
THEOREM DataInOrder == Spec => PacketsInOrder
<1>1. Init => OwnInv /\ OrderInv /\ Link!LinkInit
  BY InitOwnInv, InitOrderInv, InitLink
<1>2. OwnInv /\ TypeInv /\ [Next]_vars => OwnInv'
  BY KeepOwn
<1>3. OrderInv /\ OwnInv /\ TypeInv /\ [Next]_vars => OrderInv'
  BY KeepOrder
<1>4. TypeInv /\ TypeInv' /\ OwnInv /\ OwnInv' /\ OrderInv /\ [Next]_vars
        => [Link!LinkNext]_Underway
  BY StepOfLink DEF TypeInv, CInv, Around
<1>5. Spec => []TypeInv
  BY TypesHold, OneProcessor, PTL
<1> QED BY <1>1, <1>2, <1>3, <1>4, <1>5, PTL DEF Spec, PacketsInOrder, Link!LinkSpec
=============================================================================
