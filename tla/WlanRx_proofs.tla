--------------------------- MODULE WlanRx_proofs ---------------------------
(***************************************************************************)
(* Proofs about WlanRx, for any number of stations, elements, fragments    *)
(* and entries of the filter, on one processor: types, whole frames,       *)
(* running timers, and that no frame is given twice.  The filter plays no  *)
(* part in the others.                                                     *)
(***************************************************************************)
EXTENDS WlanRx, TLAPS

-----------------------------------------------------------------------------
(* The inductive invariant.                                                *)

\* More fragments follow only where the bound allows them.
AirOK == \A s \in Station : air[s].more => air[s].frag + 1 < MaxFragments

\* An element holds the first fragments of its frame, none of them the last.
ElementsOK ==
    \A e \in Element :
       /\ ~r_RecFrag[e].busy => r_RecFrag[e].data = << >>
       /\ \A i \in 1..Len(r_RecFrag[e].data) :
            /\ r_RecFrag[e].data[i].frag = i - 1 /\ r_RecFrag[e].data[i].more
            /\ r_RecFrag[e].data[i].saddr = r_RecFrag[e].saddr
            /\ r_RecFrag[e].data[i].seq = r_RecFrag[e].seq

\* The tasklet works on the element of its fragment; where it has just taken
\* it, the fragment is the first.
HandlerOK ==
    /\ rx.pc # "idle" => rx.frame \in Fragment
    /\ rx.pc \in {"test", "copy", "again"} =>
         /\ r_RecFrag[rx.e].busy
         /\ r_RecFrag[rx.e].saddr = rx.frame.saddr /\ r_RecFrag[rx.e].seq = rx.frame.seq
    /\ rx.pc = "copy" => Len(r_RecFrag[rx.e].data) = rx.frame.frag
    /\ rx.pc \in {"test", "copy"} /\ r_RecFrag[rx.e].timer = 0 =>
         r_RecFrag[rx.e].data = << >> /\ rx.frame.frag = 0

RInv == TypeOK /\ AirOK /\ ElementsOK /\ HandlerOK /\ WholeFrames /\ BusyIsTimed

-----------------------------------------------------------------------------
(* Lemmas.                                                                 *)

\* The element a search returns is one of those it looks for.
LEMMA OneOfIn ==
    ASSUME NEW S, S # {}
    PROVE  OneOf(S) \in S
BY DEF OneOf

\* The invariant holds at the start.
LEMMA InitRInv == Init => RInv
<1>1. SUFFICES ASSUME Init PROVE RInv
  OBVIOUS
<1>2. Idle \in [pc : {"idle", "find", "test", "copy", "again", "check", "add", "deliver"},
                frame : Fragment \cup {None}, e : Element, got : Seq(Fragment)]
  BY RxAssumption DEF Idle, Element
<1>3. TypeOK
  BY <1>1, <1>2, RxAssumption DEF Init, TypeOK, Empty, First, Element
<1>4. QED
  BY <1>1, <1>3, RxAssumption DEF Init, RInv, AirOK, ElementsOK, HandlerOK, WholeFrames,
     BusyIsTimed, Idle, Empty, First, InOrder

-----------------------------------------------------------------------------
(* The stations.                                                           *)

AirType == [seq : 1..MaxMsdu+1, frag : 0..MaxFragments-1, more : BOOLEAN,
            tries : 0..MaxTries-1, since : 0..MAXFILTERLEN]

\* What a station does next keeps the types of air.
LEMMA AirStep ==
    ASSUME TypeOK, AirOK, NEW s \in Station, MaySend(s) \/ air[s].seq <= MaxMsdu,
           Acknowledged(s) \/ Unacknowledged(s) \/ NextMsdu(s)
    PROVE  air' \in [Station -> AirType] /\ AirOK'
<1>1. air \in [Station -> AirType] /\ air[s].seq \in 1..MaxMsdu
  BY DEF TypeOK, MaySend, AirType
<1> SUFFICES \E a \in AirType : /\ air' = [air EXCEPT ![s] = a]
                                /\ a.more => a.frag + 1 < MaxFragments
  BY <1>1 DEF AirOK
<1>2. CASE NextMsdu(s)
  <2>1. PICK more \in MoreAfter(0) : air' = [air EXCEPT ![s] = First(air[s].seq + 1, more)]
    BY <1>2 DEF NextMsdu
  <2>2. more \in BOOLEAN /\ (more => 0 + 1 < MaxFragments)
    BY <2>1 DEF MoreAfter
  <2>3. First(air[s].seq + 1, more) \in AirType
    BY <1>1, <2>2, RxAssumption DEF First, AirType
  <2>4. QED
    BY <2>1, <2>2, <2>3 DEF First
<1>3. CASE Acknowledged(s) /\ air[s].more
  <2>1. PICK more \in MoreAfter(air[s].frag + 1) :
           air' = [air EXCEPT ![s] = [seq |-> air[s].seq, frag |-> air[s].frag + 1, more |-> more,
                                      tries |-> 0, since |-> air[s].since]]
    BY <1>3 DEF Acknowledged
  <2> DEFINE a == [seq |-> air[s].seq, frag |-> air[s].frag + 1, more |-> more,
                   tries |-> 0, since |-> air[s].since]
  <2>2. more \in BOOLEAN /\ (more => (air[s].frag + 1) + 1 < MaxFragments)
    BY <2>1 DEF MoreAfter
  <2>3. air[s].frag + 1 < MaxFragments
    BY <1>3 DEF AirOK
  <2>4. air[s] \in AirType
    BY <1>1
  <2>5. a \in AirType /\ a.more = more /\ a.frag = air[s].frag + 1
    BY <1>1, <2>2, <2>3, <2>4, RxAssumption DEF AirType
  <2>6. QED
    BY <2>1, <2>2, <2>5
<1>4. CASE Acknowledged(s) /\ ~air[s].more
  BY <1>2, <1>4 DEF Acknowledged
<1>5. CASE Unacknowledged(s) /\ air[s].tries + 1 < MaxTries
  <2> DEFINE a == [air[s] EXCEPT !.tries = @ + 1]
  <2>1. air' = [air EXCEPT ![s] = a]
    BY <1>1, <1>5 DEF Unacknowledged, AirType
  <2>2. a \in AirType /\ a.more = air[s].more /\ a.frag = air[s].frag
    BY <1>1, <1>5, RxAssumption DEF AirType
  <2>3. QED
    BY <2>1, <2>2 DEF AirOK
<1>6. CASE Unacknowledged(s) /\ ~(air[s].tries + 1 < MaxTries)
  BY <1>2, <1>6 DEF Unacknowledged
<1>7. QED
  BY <1>2, <1>3, <1>4, <1>5, <1>6

\* A fragment reaches the tasklet.
LEMMA ReceiveRInv == ASSUME RInv, NEW s \in Station, Receive(s) PROVE RInv'
<1> DEFINE f == [saddr |-> s, seq |-> air[s].seq, frag |-> air[s].frag, more |-> air[s].more]
<1>1. f \in Fragment
  BY DEF RInv, TypeOK, Receive, MaySend, Fragment
<1>2. AirOK' /\ air' \in [Station -> AirType]
  BY AirStep DEF RInv, Receive
<1>3. TypeOK'
  <2>1. rx' \in [pc : {"idle", "find", "test", "copy", "again", "check", "add", "deliver"},
                 frame : Fragment \cup {None}, e : Element, got : Seq(Fragment)]
    <3>1. \/ rx' = [pc |-> "find", frame |-> f, e |-> 1, got |-> << >>]
          \/ rx' = [pc |-> "check", frame |-> f, e |-> 1, got |-> << f >>]
      BY DEF Receive
    <3>2. << >> \in Seq(Fragment) /\ << f >> \in Seq(Fragment)
      BY <1>1
    <3>3. 1 \in Element
      BY RxAssumption DEF Element
    <3> HIDE DEF f
    <3>4. CASE rx' = [pc |-> "find", frame |-> f, e |-> 1, got |-> << >>]
      BY <1>1, <3>2, <3>3, <3>4
    <3>5. CASE rx' = [pc |-> "check", frame |-> f, e |-> 1, got |-> << f >>]
      BY <1>1, <3>2, <3>3, <3>5
    <3>6. QED
      BY <3>1, <3>4, <3>5
  <2>2. given' \subseteq Station \X (1..MaxMsdu)
    BY DEF RInv, TypeOK, Receive
  <2>3. QED
    BY <1>2, <2>1, <2>2 DEF RInv, TypeOK, Receive, AirType
<1>4. HandlerOK' /\ WholeFrames' /\ BusyIsTimed'
  BY <1>1 DEF RInv, TypeOK, HandlerOK, WholeFrames, BusyIsTimed, Receive, Idle, InOrder, Msdu
<1>5. ElementsOK'
  BY DEF RInv, ElementsOK, Receive
<1>6. QED
  BY <1>2, <1>3, <1>4, <1>5 DEF RInv

\* A fragment is lost, or its frame given up.
LEMMA LoseRInv == ASSUME RInv, NEW s \in Station, Lose(s) \/ GiveUp(s) PROVE RInv'
<1>1. AirOK' /\ air' \in [Station -> AirType]
  BY AirStep DEF RInv, Lose, GiveUp
<1>2. UNCHANGED << r_RecFrag, FilterOption, FilterPoint, rx, given >>
  BY DEF Lose, GiveUp
<1>3. TypeOK'
  BY <1>1, <1>2 DEF RInv, TypeOK, AirType
<1>4. ElementsOK' /\ HandlerOK' /\ WholeFrames' /\ BusyIsTimed'
  BY <1>2 DEF RInv, ElementsOK, HandlerOK, WholeFrames, BusyIsTimed
<1>5. QED
  BY <1>1, <1>3, <1>4 DEF RInv

-----------------------------------------------------------------------------
(* The tasklet.                                                            *)

Pcs == {"idle", "find", "test", "copy", "again", "check", "add", "deliver"}
RxType == [pc : Pcs, frame : Fragment \cup {None}, e : Element, got : Seq(Fragment)]
ElementType == [busy : BOOLEAN, timer : 0..MAXFRAGTIMEOUT, saddr : Station \cup {None},
                seq : 0..MaxMsdu, data : Seq(Fragment)]

LEMMA RxTypes ==
    ASSUME TypeOK
    PROVE  /\ rx \in RxType /\ r_RecFrag \in [Element -> ElementType]
           /\ Idle \in RxType /\ Empty \in ElementType /\ Empty.data = << >>
BY RxAssumption DEF TypeOK, RxType, Pcs, ElementType, Idle, Empty, Element

\* A step that changes no more than rx and the elements keeps the other types.
LEMMA TypesKept ==
    ASSUME TypeOK, rx' \in RxType, r_RecFrag' \in [Element -> ElementType],
           UNCHANGED << FilterOption, FilterPoint, air, given >>
    PROVE  TypeOK'
BY DEF TypeOK, RxType, Pcs, ElementType

\* An element is taken for a first fragment.
LEMMA GetRInv ==
    ASSUME RInv, NEW e \in Element, rx.pc = "find", rx.frame.frag = 0, Get(e),
           UNCHANGED << FilterOption, FilterPoint, air, given >>
    PROVE  RInv'
<1>1. rx.frame \in Fragment /\ rx \in RxType /\ r_RecFrag \in [Element -> ElementType]
  BY RxTypes DEF RInv, HandlerOK
<1> DEFINE r == [busy |-> TRUE, timer |-> r_RecFrag[e].timer, saddr |-> rx.frame.saddr,
                 seq |-> rx.frame.seq, data |-> << >>]
<1>2. r_RecFrag' = [r_RecFrag EXCEPT ![e] = r] /\ rx' = [rx EXCEPT !.pc = "test", !.e = e]
  BY DEF Get
<1>3. r \in ElementType
  <2>1. r_RecFrag[e].timer \in 0..MAXFRAGTIMEOUT
    BY <1>1 DEF ElementType
  <2>2. rx.frame.saddr \in Station /\ rx.frame.seq \in 0..MaxMsdu
    BY <1>1 DEF Fragment
  <2>3. << >> \in Seq(Fragment)
    OBVIOUS
  <2>4. QED
    BY <2>1, <2>2, <2>3 DEF ElementType
<1>4. TypeOK'
  <2>1. rx' \in RxType
    BY <1>1, <1>2 DEF RxType, Pcs
  <2>2. QED
    BY <1>1, <1>2, <1>3, <2>1, TypesKept DEF RInv
<1>5. ElementsOK'
  BY <1>1, <1>2 DEF RInv, ElementsOK
<1>6. HandlerOK' /\ WholeFrames' /\ BusyIsTimed'
  BY <1>1, <1>2 DEF RInv, HandlerOK, WholeFrames, BusyIsTimed, RxType
<1>7. QED
  BY <1>4, <1>5, <1>6 DEF RInv, AirOK

\* An element is found, taken, or there is none.
LEMMA FindRInv == ASSUME RInv, FindElement PROVE RInv'
<1>1. rx.frame \in Fragment /\ rx \in RxType /\ r_RecFrag \in [Element -> ElementType]
  BY RxTypes DEF RInv, HandlerOK, FindElement
<1>2. CASE Found # {} /\ rx' = [rx EXCEPT !.pc = "test", !.e = OneOf(Found)] /\ UNCHANGED r_RecFrag
  <2> DEFINE d == OneOf(Found)
  <2>1. d \in Found
    BY <1>2, OneOfIn
  <2>2. d \in Element /\ r_RecFrag[d].busy
        /\ r_RecFrag[d].saddr = rx.frame.saddr /\ r_RecFrag[d].seq = rx.frame.seq
    BY <2>1 DEF Found, Msdu
  <2>3. r_RecFrag[d].timer > 0
    BY <2>2 DEF RInv, BusyIsTimed, FindElement
  <2> HIDE DEF d
  <2>4. rx' \in RxType
    BY <1>1, <1>2, <2>2 DEF RxType, Pcs, d
  <2>5. TypeOK'
    BY <1>1, <1>2, <2>4, TypesKept DEF RInv, FindElement
  <2>6. rx'.pc = "test" /\ rx'.e = d /\ rx'.frame = rx.frame
    BY <1>1, <1>2 DEF RxType, d
  <2>7. ElementsOK' /\ HandlerOK' /\ WholeFrames' /\ BusyIsTimed' /\ AirOK'
    BY <1>1, <1>2, <2>2, <2>3, <2>6
       DEF RInv, ElementsOK, HandlerOK, WholeFrames, BusyIsTimed, FindElement, AirOK
  <2>8. QED
    BY <2>5, <2>7 DEF RInv
<1>3. CASE rx.frame.frag = 0 /\ NotBusy # {} /\ Get(OneOf(NotBusy))
  BY <1>3, GetRInv, OneOfIn DEF FindElement, NotBusy
<1>4. CASE rx.frame.frag = 0 /\ OfSender # {} /\ Get(OneOf(OfSender))
  BY <1>4, GetRInv, OneOfIn DEF FindElement, OfSender
<1>5. CASE rx' = Idle /\ UNCHANGED r_RecFrag
  <2>1. TypeOK'
    BY <1>1, <1>5, RxTypes, TypesKept DEF RInv, FindElement
  <2>2. QED
    BY <1>5, <2>1 DEF RInv, ElementsOK, HandlerOK, WholeFrames, BusyIsTimed, FindElement, AirOK, Idle
<1>6. QED
  BY <1>2, <1>3, <1>4, <1>5 DEF FindElement

\* The fragment is the next, the same again, or another.
LEMMA TestRInv == ASSUME RInv, TestFragment PROVE RInv'
<1>1. rx.frame \in Fragment /\ rx \in RxType /\ r_RecFrag \in [Element -> ElementType]
  BY RxTypes DEF RInv, HandlerOK, TestFragment
<1>2. rx' \in RxType
  BY <1>1, RxTypes DEF RInv, TestFragment, RxType, Pcs
<1>3. TypeOK'
  BY <1>1, <1>2, TypesKept DEF RInv, TestFragment
<1>4. /\ rx'.pc \in {"copy", "again", "idle"} /\ UNCHANGED r_RecFrag
      /\ rx'.pc # "idle" => rx'.e = rx.e /\ rx'.frame = rx.frame
      /\ rx'.pc = "copy" => Len(r_RecFrag[rx.e].data) = rx.frame.frag
      /\ rx'.pc # "copy" => Len(r_RecFrag[rx.e].data) # rx.frame.frag
  BY <1>1 DEF TestFragment, Idle, RxType
<1>5. r_RecFrag[rx.e].timer \in 0..MAXFRAGTIMEOUT /\ rx.pc = "test" /\ rx.e \in Element
  BY <1>1 DEF RxType, ElementType, TestFragment
<1>6. rx'.pc # "copy" => r_RecFrag[rx.e].timer > 0
  BY <1>4, <1>5, RxAssumption DEF RInv, HandlerOK
<1>7. ElementsOK' /\ HandlerOK' /\ WholeFrames' /\ BusyIsTimed' /\ AirOK'
  BY <1>1, <1>4, <1>5, <1>6
     DEF RInv, ElementsOK, HandlerOK, WholeFrames, BusyIsTimed, TestFragment, AirOK
<1>8. QED
  BY <1>3, <1>7 DEF RInv

\* The timer of a fragment received again starts anew.
LEMMA RestartRInv == ASSUME RInv, RestartTimer PROVE RInv'
<1>1. rx \in RxType /\ r_RecFrag \in [Element -> ElementType]
  BY RxTypes DEF RInv
<1>2. rx.e \in Element /\ MAXFRAGTIMEOUT \in 0..MAXFRAGTIMEOUT /\ MAXFRAGTIMEOUT > 0
  BY <1>1, RxAssumption DEF RxType
<1>3. r_RecFrag' = [r_RecFrag EXCEPT ![rx.e] = [r_RecFrag[rx.e] EXCEPT !.timer = MAXFRAGTIMEOUT]]
  BY <1>1, <1>2 DEF RestartTimer, ElementType
<1>4. r_RecFrag' \in [Element -> ElementType]
  BY <1>1, <1>2, <1>3 DEF ElementType
<1>5. TypeOK'
  BY <1>4, RxTypes, TypesKept DEF RInv, RestartTimer
<1>6. ElementsOK' /\ HandlerOK' /\ WholeFrames' /\ BusyIsTimed' /\ AirOK'
  BY <1>1, <1>2, <1>3
     DEF RInv, ElementsOK, HandlerOK, WholeFrames, BusyIsTimed, RestartTimer, AirOK, Idle, ElementType
<1>7. QED
  BY <1>5, <1>6 DEF RInv

\* A fragment that follows those an element holds, and is not the last, leaves
\* it holding the first fragments of its frame.
LEMMA DataGrows ==
    ASSUME NEW d \in Seq(Fragment), NEW f \in Fragment, Len(d) = f.frag,
           \A i \in 1..Len(d) : d[i].frag = i - 1 /\ d[i].more /\ d[i].saddr = f.saddr /\ d[i].seq = f.seq
    PROVE  /\ Append(d, f) \in Seq(Fragment) /\ Len(Append(d, f)) = Len(d) + 1
           /\ \A i \in 1..Len(Append(d, f)) :
                /\ Append(d, f)[i].frag = i - 1 /\ Append(d, f)[i].saddr = f.saddr
                /\ Append(d, f)[i].seq = f.seq
                /\ i # Len(Append(d, f)) => Append(d, f)[i].more
                /\ i = Len(Append(d, f)) => Append(d, f)[i] = f
OBVIOUS

\* The fragment is copied, or does not fit; the last one ends the frame.
LEMMA CopyRInv == ASSUME RInv, CopyData PROVE RInv'
<1>1. rx.frame \in Fragment /\ rx \in RxType /\ r_RecFrag \in [Element -> ElementType]
  BY RxTypes DEF RInv, HandlerOK, CopyData
<1> DEFINE d == r_RecFrag[rx.e].data
           dd == Append(d, rx.frame)
<1>2. rx.e \in Element /\ rx.pc = "copy" /\ r_RecFrag[rx.e].busy
      /\ d \in Seq(Fragment) /\ Len(d) = rx.frame.frag
  BY <1>1 DEF RxType, ElementType, RInv, HandlerOK, CopyData
<1>3. \A i \in 1..Len(d) : d[i].frag = i - 1 /\ d[i].more
                           /\ d[i].saddr = rx.frame.saddr /\ d[i].seq = rx.frame.seq
  BY <1>2 DEF RInv, ElementsOK, HandlerOK
<1>4. /\ dd \in Seq(Fragment) /\ Len(dd) = Len(d) + 1
      /\ \A i \in 1..Len(dd) : /\ dd[i].frag = i - 1 /\ dd[i].saddr = rx.frame.saddr
                               /\ dd[i].seq = rx.frame.seq
                               /\ i # Len(dd) => dd[i].more
                               /\ i = Len(dd) => dd[i] = rx.frame
  BY <1>1, <1>2, <1>3, DataGrows
<1>5. CASE Len(dd) > Fits /\ rx' = Idle /\ UNCHANGED r_RecFrag
  <2>1. TypeOK'
    BY <1>1, <1>5, RxTypes, TypesKept DEF RInv, CopyData
  <2>2. r_RecFrag[rx.e].timer > 0
    <3>1. r_RecFrag[rx.e].timer \in 0..MAXFRAGTIMEOUT
      BY <1>1, <1>2 DEF ElementType
    <3>2. r_RecFrag[rx.e].timer = 0 => d = << >>
      BY <1>2 DEF RInv, HandlerOK
    <3>3. Len(d) # 0
      BY <1>2, <1>4, <1>5, RxAssumption
    <3>4. QED
      BY <3>1, <3>2, <3>3, RxAssumption
  <2>3. QED
    BY <1>2, <1>5, <2>1, <2>2
       DEF RInv, ElementsOK, HandlerOK, WholeFrames, BusyIsTimed, CopyData, AirOK, Idle
<1>6. CASE /\ rx.frame.more /\ rx' = Idle
           /\ r_RecFrag' = [r_RecFrag EXCEPT ![rx.e] =
                              [r_RecFrag[rx.e] EXCEPT !.data = dd, !.timer = MAXFRAGTIMEOUT]]
  <2> DEFINE r == [r_RecFrag[rx.e] EXCEPT !.data = dd, !.timer = MAXFRAGTIMEOUT]
  <2>1. r_RecFrag[rx.e] \in ElementType
    BY <1>1, <1>2
  <2> HIDE DEF dd
  <2>2. r \in ElementType /\ r.data = dd /\ r.timer > 0 /\ r.busy
        /\ r.saddr = rx.frame.saddr /\ r.seq = rx.frame.seq
    <3>1. r \in ElementType /\ r.data = dd /\ r.timer = MAXFRAGTIMEOUT
          /\ r.busy = r_RecFrag[rx.e].busy /\ r.saddr = r_RecFrag[rx.e].saddr
          /\ r.seq = r_RecFrag[rx.e].seq
      <4>1. MAXFRAGTIMEOUT \in 0..MAXFRAGTIMEOUT
        BY RxAssumption
      <4>2. dd \in Seq(Fragment)
        BY <1>4
      <4>3. QED
        BY <2>1, <4>1, <4>2 DEF ElementType
    <3>2. QED
      BY <1>2, <3>1, RxAssumption DEF RInv, HandlerOK
  <2> HIDE DEF r
  <2>3. r_RecFrag' = [r_RecFrag EXCEPT ![rx.e] = r]
    BY <1>6 DEF r
  <2>4. r_RecFrag' \in [Element -> ElementType]
    BY <1>1, <1>2, <2>2, <2>3
  <2>5. TypeOK'
    BY <1>6, <2>4, RxTypes, TypesKept DEF RInv, CopyData
  <2>6. \A i \in 1..Len(dd) : dd[i].more
    BY <1>4, <1>6
  <2>7. ElementsOK'
    BY <1>1, <1>2, <1>4, <2>2, <2>3, <2>6 DEF RInv, ElementsOK
  <2>8. HandlerOK' /\ WholeFrames' /\ BusyIsTimed' /\ AirOK'
    BY <1>1, <1>2, <1>6, <2>2, <2>3
       DEF RInv, HandlerOK, WholeFrames, BusyIsTimed, CopyData, AirOK, Idle
  <2>9. QED
    BY <2>5, <2>7, <2>8 DEF RInv
<1>7. CASE /\ ~rx.frame.more /\ r_RecFrag' = [r_RecFrag EXCEPT ![rx.e] = Empty]
           /\ rx' = [rx EXCEPT !.pc = "check", !.e = 1, !.got = dd]
  <2> HIDE DEF dd
  <2>1. rx'.pc = "check" /\ rx'.frame = rx.frame /\ rx'.got = dd /\ rx' \in RxType
    <3>1. 1 \in Element
      BY RxAssumption DEF Element
    <3>2. QED
      BY <1>1, <1>4, <1>7, <3>1 DEF RxType, Pcs
  <2>2. r_RecFrag' \in [Element -> ElementType]
    BY <1>1, <1>2, <1>7, RxTypes DEF RInv
  <2>3. TypeOK'
    BY <2>1, <2>2, TypesKept DEF RInv, CopyData
  <2>4. WholeFrames'
    <3>1. DOMAIN dd = 1..Len(dd) /\ Len(dd) \in Nat \ {0} /\ dd # << >>
      BY <1>2, <1>4
    <3>2. \A i \in 1..Len(dd) : dd[i].more <=> i # Len(dd)
      BY <1>4, <1>7
    <3>3. InOrder(dd)
      BY <1>4, <3>1 DEF InOrder, Msdu
    <3>4. QED
      BY <2>1, <3>1, <3>2, <3>3 DEF WholeFrames, InOrder
  <2>5. ElementsOK' /\ HandlerOK' /\ BusyIsTimed' /\ AirOK'
    BY <1>1, <1>2, <1>7, <2>1
       DEF RInv, ElementsOK, HandlerOK, BusyIsTimed, CopyData, AirOK, Empty
  <2>6. QED
    BY <2>3, <2>4, <2>5 DEF RInv
<1>8. QED
  BY <1>5, <1>6, <1>7 DEF CopyData

\* The filter lets a frame pass or not, and the stack takes it or not.
LEMMA FilterRInv ==
    ASSUME RInv, CheckFilter \/ AddFilterOption \/ Submit PROVE RInv'
<1>1. rx.frame \in Fragment /\ rx \in RxType
  BY RxTypes DEF RInv, HandlerOK, CheckFilter, AddFilterOption, Submit
<1>2. rx' \in RxType /\ (rx' = Idle \/ (rx' = [rx EXCEPT !.pc = rx'.pc] /\ rx'.pc \in {"add", "deliver"}))
  BY <1>1, RxTypes DEF RInv, CheckFilter, AddFilterOption, Submit, RxType, Pcs
<1>3. Msdu(rx.frame) \in Station \X (1..MaxMsdu)
  BY <1>1 DEF Msdu, Fragment
<1>4. air' \in [Station -> AirType] /\ AirOK'
  <2>1. CASE AddFilterOption
    <3>1. ASSUME NEW s \in Station, Waiting(s)
          PROVE  /\ [air[s] EXCEPT !.since = @ + 1] \in AirType
                 /\ [air[s] EXCEPT !.since = @ + 1].more = air[s].more
                 /\ [air[s] EXCEPT !.since = @ + 1].frag = air[s].frag
      <4>1. air[s] \in AirType
        BY DEF RInv, TypeOK, AirType
      <4>2. air[s].since + 1 \in 0..MAXFILTERLEN
        BY <3>1, <4>1, RxAssumption DEF Waiting, AirType
      <4>3. QED
        BY <4>1, <4>2 DEF AirType
    <3>2. QED
      BY <2>1, <3>1 DEF RInv, TypeOK, AirOK, AddFilterOption, AirType
  <2>2. QED
    BY <2>1 DEF RInv, TypeOK, AirOK, CheckFilter, Submit, AirType
<1>5. TypeOK'
  <2>1. FilterPoint' \in 0..MAXFILTERLEN /\ AddPoint + 1 \in 1..MAXFILTERLEN
    <3>1. FilterPoint \in 0..MAXFILTERLEN
      BY DEF RInv, TypeOK
    <3>2. AddPoint \in 0..MAXFILTERLEN-1
      BY <3>1, RxAssumption DEF AddPoint
    <3>3. FilterPoint' \in {FilterPoint, AddPoint + 1}
      BY DEF CheckFilter, AddFilterOption, Submit
    <3>4. QED
      BY <3>1, <3>2, <3>3, RxAssumption
  <2>2. FilterOption' \in [1..MAXFILTERLEN -> (Station \X (1..MaxMsdu)) \cup {None}]
    BY <1>3, <2>1 DEF RInv, TypeOK, CheckFilter, AddFilterOption, Submit
  <2>3. given' \subseteq Station \X (1..MaxMsdu)
    BY <1>3 DEF RInv, TypeOK, CheckFilter, AddFilterOption, Submit
  <2>4. UNCHANGED r_RecFrag
    BY DEF CheckFilter, AddFilterOption, Submit
  <2>5. QED
    BY <1>2, <1>4, <2>1, <2>2, <2>3, <2>4 DEF RInv, TypeOK, RxType, Pcs, AirType
<1>6. ElementsOK' /\ HandlerOK' /\ WholeFrames' /\ BusyIsTimed'
  BY <1>1, <1>2
     DEF RInv, ElementsOK, HandlerOK, WholeFrames, BusyIsTimed, CheckFilter, AddFilterOption, Submit,
         Idle, RxType
<1>7. QED
  BY <1>4, <1>5, <1>6 DEF RInv

-----------------------------------------------------------------------------
(* The other contexts, while the tasklet is idle.                          *)

LEMMA TimeoutRInv == ASSUME RInv, rx.pc = "idle", Rx_defragment_timeout PROVE RInv'
<1>1. r_RecFrag \in [Element -> ElementType] /\ Empty \in ElementType /\ rx \in RxType
  BY RxTypes DEF RInv
<1>2. ASSUME NEW e \in Element
      PROVE  /\ r_RecFrag'[e] \in ElementType
             /\ r_RecFrag'[e] = Empty \/ /\ r_RecFrag'[e].busy = r_RecFrag[e].busy
                                         /\ r_RecFrag'[e].data = r_RecFrag[e].data
                                         /\ r_RecFrag'[e].saddr = r_RecFrag[e].saddr
                                         /\ r_RecFrag'[e].seq = r_RecFrag[e].seq
                                         /\ r_RecFrag'[e].busy => r_RecFrag'[e].timer > 0
  <2>1. r_RecFrag[e] \in ElementType /\ (r_RecFrag[e].busy => r_RecFrag[e].timer > 0)
    BY <1>1 DEF RInv, BusyIsTimed
  <2>2. CASE ~Expiring(e)
    BY <2>1, <2>2 DEF Rx_defragment_timeout, Expiring
  <2>3. CASE Expiring(e) /\ r_RecFrag[e].timer = 1
    BY <1>1, <2>3 DEF Rx_defragment_timeout
  <2>4. CASE Expiring(e) /\ r_RecFrag[e].timer # 1
    <3>1. r_RecFrag'[e] = [r_RecFrag[e] EXCEPT !.timer = @ - 1]
      BY <2>4 DEF Rx_defragment_timeout
    <3>2. r_RecFrag[e].timer - 1 \in 0..MAXFRAGTIMEOUT /\ r_RecFrag[e].timer - 1 > 0
      BY <2>1, <2>4, RxAssumption DEF Expiring, ElementType
    <3>3. QED
      BY <2>1, <3>1, <3>2 DEF ElementType
  <2>5. QED
    BY <2>2, <2>3, <2>4
<1>3. r_RecFrag' \in [Element -> ElementType]
  BY <1>1, <1>2 DEF Rx_defragment_timeout
<1>4. TypeOK'
  BY <1>1, <1>3, TypesKept DEF RInv, Rx_defragment_timeout
<1>5. ElementsOK'
  BY <1>2 DEF RInv, ElementsOK, Empty
<1>6. HandlerOK' /\ WholeFrames' /\ BusyIsTimed' /\ AirOK'
  BY <1>2 DEF RInv, HandlerOK, WholeFrames, BusyIsTimed, Rx_defragment_timeout, AirOK, Empty
<1>7. QED
  BY <1>4, <1>5, <1>6 DEF RInv

LEMMA ClearRInv == ASSUME RInv, Frag_ClearInfo PROVE RInv'
BY DEF RInv, TypeOK, AirOK, ElementsOK, HandlerOK, WholeFrames, BusyIsTimed, Frag_ClearInfo

-----------------------------------------------------------------------------
(* The theorems.                                                           *)

LEMMA NextRInv == RInv /\ [Next]_vars => RInv'
<1>1. SUFFICES ASSUME RInv, [Next]_vars PROVE RInv'
  OBVIOUS
<1>2. CASE Handler
  BY <1>1, <1>2, FindRInv, TestRInv, RestartRInv, CopyRInv, FilterRInv DEF Handler
<1>3. CASE Air
  BY <1>1, <1>3, ReceiveRInv, LoseRInv DEF Air
<1>4. CASE rx.pc = "idle" /\ Others
  BY <1>1, <1>4, TimeoutRInv, ClearRInv DEF Others
<1>5. CASE UNCHANGED vars
  BY <1>1, <1>5 DEF vars, RInv, TypeOK, AirOK, ElementsOK, HandlerOK, WholeFrames, BusyIsTimed
<1>6. QED
  BY <1>1, <1>2, <1>3, <1>4, <1>5 DEF Next

\* The invariant holds in every state.
THEOREM RxInvariant == Spec => []RInv
BY InitRInv, NextRInv, PTL DEF Spec

\* Every variable keeps its type, for any number of stations and elements
\* (usbwlan_rx.c).
THEOREM RxTypesHold == Spec => []TypeOK
BY RxInvariant, PTL DEF RInv

\* Whatever is lost, repeated or timed out, for any number of fragments and
\* elements, the stack is given whole frames only (Rx_recfrag_defragment).
THEOREM OnlyWholeFrames == Spec => []WholeFrames
BY RxInvariant, PTL DEF RInv

\* No element is left busy without a timer that will free it
\* (recfrag_get_free_element, recfrag_set_timer).
THEOREM ElementsAreTimed == Spec => []BusyIsTimed
BY RxInvariant, PTL DEF RInv

-----------------------------------------------------------------------------
(* The filter.  A frame that was handed up and may come again is still in  *)
(* the ring: its sender gives it up before the ring has gone round.        *)

\* How many entries were made after entry i.
Since(i) == IF i <= FilterPoint THEN FilterPoint - i ELSE FilterPoint + MAXFILTERLEN - i

Remembered(m, n) == \E i \in 1..MAXFILTERLEN : FilterOption[i] = m /\ Since(i) <= n

\* Something of the frame n of s has been sent.
Begun(s, n) == \/ n < air[s].seq
               \/ n = air[s].seq /\ (air[s].frag > 0 \/ air[s].tries > 0)

\* The frames handed up: begun, and as long as they may come again remembered.
GivenOK ==
    \A s \in Station, n \in 1..MaxMsdu : << s, n >> \in given =>
       /\ Begun(s, n)
       /\ n = air[s].seq /\ air[s].since < MAXFILTERLEN => Remembered(<< s, n >>, air[s].since)

\* The frame of the tasklet: no other of its sender may come again, and if it was
\* handed up before, the filter knows it.
FrameOK ==
    rx.pc # "idle" =>
       /\ Begun(rx.frame.saddr, rx.frame.seq)
       /\ \A n \in 1..MaxMsdu : << rx.frame.saddr, n >> \in given => n = rx.frame.seq
       /\ rx.pc \notin {"add", "deliver"} /\ Msdu(rx.frame) \in given =>
             \E i \in 1..MAXFILTERLEN : FilterOption[i] = Msdu(rx.frame)
       /\ rx.pc \in {"add", "deliver"} => Msdu(rx.frame) \notin given
       /\ rx.pc = "deliver" =>
             FilterPoint \in 1..MAXFILTERLEN /\ FilterOption[FilterPoint] = Msdu(rx.frame)

OInv == GivenOK /\ FrameOK

\* The filter holds nothing at the start, and nothing was handed up.
LEMMA InitOInv == Init => OInv
BY DEF Init, OInv, GivenOK, FrameOK, Idle

\* A station goes on with its frame, or to the next one.
LEMMA AirForward ==
    ASSUME RInv, NEW s \in Station, air[s].seq <= MaxMsdu,
           Acknowledged(s) \/ Unacknowledged(s) \/ NextMsdu(s)
    PROVE  /\ \A t \in Station \ {s} : air'[t] = air[t]
           /\ \/ air'[s].seq = air[s].seq + 1
              \/ /\ air'[s].seq = air[s].seq /\ air'[s].since = air[s].since
                 /\ air'[s].frag > 0 \/ air'[s].tries > 0
<1>1. air \in [Station -> AirType] /\ air[s] \in AirType
  BY DEF RInv, TypeOK, AirType
<1>2. /\ air[s].seq \in Nat /\ air[s].frag \in Nat /\ air[s].tries \in Nat
      /\ air[s].more \in BOOLEAN
  BY <1>1, RxAssumption DEF AirType
<1>3. CASE NextMsdu(s)
  BY <1>1, <1>3 DEF NextMsdu, First
<1>4. CASE Unacknowledged(s) /\ ~NextMsdu(s)
  <2>1. air' = [air EXCEPT ![s].tries = @ + 1]
    BY <1>4 DEF Unacknowledged
  <2>2. air'[s] = [air[s] EXCEPT !.tries = @ + 1] /\ \A t \in Station \ {s} : air'[t] = air[t]
    BY <2>1, <1>1
  <2>3. air'[s].seq = air[s].seq /\ air'[s].since = air[s].since /\ air'[s].tries = air[s].tries + 1
    BY <2>2, <1>1 DEF AirType
  <2> QED BY <2>2, <2>3, <1>2
<1>5. CASE Acknowledged(s) /\ ~NextMsdu(s)
  <2>1. PICK more \in MoreAfter(air[s].frag + 1) :
           air' = [air EXCEPT ![s] = [seq |-> air[s].seq, frag |-> air[s].frag + 1, more |-> more,
                                      tries |-> 0, since |-> air[s].since]]
    BY <1>5 DEF Acknowledged
  <2>2. air'[s].seq = air[s].seq /\ air'[s].since = air[s].since /\ air'[s].frag = air[s].frag + 1
    BY <2>1, <1>1
  <2> QED BY <2>1, <2>2, <1>1, <1>2
<1> QED BY <1>3, <1>4, <1>5

\* What was begun remains so.
LEMMA BegunStays ==
    ASSUME RInv, NEW s \in Station, air[s].seq <= MaxMsdu,
           Acknowledged(s) \/ Unacknowledged(s) \/ NextMsdu(s),
           NEW t \in Station, NEW n \in 1..MaxMsdu
    PROVE  /\ Begun(t, n) \/ (t = s /\ n = air[s].seq) => Begun(t, n)'
           /\ n = air'[t].seq /\ Begun(t, n) => n = air[t].seq /\ air'[t].since = air[t].since
<1>1. air[t].seq \in Nat /\ air[s].seq \in Nat
  BY DEF RInv, TypeOK
<1>2. CASE t # s
  BY <1>2, AirForward DEF Begun
<1>3. CASE t = s
  BY <1>1, <1>3, AirForward DEF Begun
<1> QED BY <1>2, <1>3

\* A fragment is lost, or its frame given up.
LEMMA LoseOInv == ASSUME RInv, OInv, NEW s \in Station, Lose(s) \/ GiveUp(s) PROVE OInv'
<1>1. /\ air[s].seq <= MaxMsdu
      /\ Acknowledged(s) \/ Unacknowledged(s) \/ NextMsdu(s)
      /\ UNCHANGED << FilterOption, FilterPoint, rx, given >>
  BY DEF Lose, GiveUp, MaySend
<1>2. GivenOK'
  <2> SUFFICES ASSUME NEW t \in Station, NEW n \in 1..MaxMsdu, << t, n >> \in given
               PROVE  /\ Begun(t, n)'
                      /\ n = air'[t].seq /\ air'[t].since < MAXFILTERLEN
                           => Remembered(<< t, n >>, air[t].since)' /\ air'[t].since = air[t].since
    BY <1>1 DEF GivenOK
  <2>1. /\ Begun(t, n)
        /\ n = air[t].seq /\ air[t].since < MAXFILTERLEN => Remembered(<< t, n >>, air[t].since)
    BY DEF OInv, GivenOK
  <2>2. /\ Begun(t, n)'
        /\ n = air'[t].seq => n = air[t].seq /\ air'[t].since = air[t].since
    BY <1>1, <2>1, BegunStays
  <2> QED BY <1>1, <2>1, <2>2 DEF Remembered, Since
<1>3. FrameOK'
  <2>1. ASSUME rx.pc # "idle"
        PROVE  Begun(rx.frame.saddr, rx.frame.seq)'
    <3>1. rx.frame.saddr \in Station /\ rx.frame.seq \in 1..MaxMsdu
      BY <2>1 DEF RInv, HandlerOK, Fragment
    <3>2. Begun(rx.frame.saddr, rx.frame.seq)
      BY <2>1 DEF OInv, FrameOK
    <3>3. \A t \in Station, n \in 1..MaxMsdu : Begun(t, n) => Begun(t, n)'
      BY <1>1, BegunStays
    <3> QED BY <1>1, <3>1, <3>2, <3>3 DEF Begun
  <2> QED BY <1>1, <2>1 DEF OInv, FrameOK
<1> QED BY <1>2, <1>3 DEF OInv

\* A fragment reaches the tasklet: the frames of its sender before it do not
\* come again.
LEMMA ReceiveOInv == ASSUME RInv, OInv, NEW s \in Station, Receive(s) PROVE OInv'
<1>1. /\ air[s].seq <= MaxMsdu /\ air[s].since < MAXFILTERLEN
      /\ Acknowledged(s) \/ Unacknowledged(s) \/ NextMsdu(s)
      /\ UNCHANGED << FilterOption, FilterPoint >>
      /\ given' = {m \in given : m[1] = s => m[2] = air[s].seq}
  BY DEF Receive, MaySend
<1>2. rx'.pc \in {"check", "find"} /\ rx'.frame.saddr = s /\ rx'.frame.seq = air[s].seq
  BY DEF Receive
<1>3. s \in Station /\ air[s].seq \in 1..MaxMsdu
  BY <1>1 DEF RInv, TypeOK
<1>4. GivenOK'
  <2> SUFFICES ASSUME NEW t \in Station, NEW n \in 1..MaxMsdu, << t, n >> \in given
               PROVE  /\ Begun(t, n)'
                      /\ n = air'[t].seq /\ air'[t].since < MAXFILTERLEN
                           => Remembered(<< t, n >>, air[t].since)' /\ air'[t].since = air[t].since
    BY <1>1 DEF GivenOK
  <2>1. /\ Begun(t, n)
        /\ n = air[t].seq /\ air[t].since < MAXFILTERLEN => Remembered(<< t, n >>, air[t].since)
    BY DEF OInv, GivenOK
  <2>2. /\ Begun(t, n)'
        /\ n = air'[t].seq => n = air[t].seq /\ air'[t].since = air[t].since
    BY <1>1, <2>1, BegunStays
  <2> QED BY <1>1, <2>1, <2>2 DEF Remembered, Since
<1>5. FrameOK'
  <2>1. Begun(rx.frame.saddr, rx.frame.seq)'
    <3>1. \A n \in 1..MaxMsdu : n = air[s].seq => Begun(s, n)'
      BY <1>1, BegunStays
    <3> QED BY <1>2, <1>3, <3>1 DEF Begun
  <2>2. \A n \in 1..MaxMsdu : << s, n >> \in given' => n = air[s].seq
    BY <1>1
  <2>3. << s, air[s].seq >> \in given' =>
           \E i \in 1..MAXFILTERLEN : FilterOption[i] = << s, air[s].seq >>
    BY <1>1, <1>3 DEF OInv, GivenOK, Remembered
  <2> QED BY <1>1, <1>2, <2>1, <2>2, <2>3 DEF FrameOK, Msdu
<1> QED BY <1>4, <1>5 DEF OInv

\* The sections before the filter, and the timer, leave frames and filter alone.
LEMMA RelatedOInv ==
    ASSUME RInv, OInv, UNCHANGED << FilterOption, FilterPoint, air, given >>,
           \/ rx'.pc = "idle"
           \/ /\ rx'.frame = rx.frame /\ rx.pc \in {"find", "test", "copy"}
              /\ rx'.pc \notin {"add", "deliver"}
           \/ rx' = rx
    PROVE  OInv'
<1>1. GivenOK'
  BY DEF OInv, GivenOK, Begun, Remembered, Since
<1>2. FrameOK'
  BY DEF OInv, FrameOK, Begun
<1> QED BY <1>1, <1>2 DEF OInv

\* A frame the filter knows is dropped.
LEMMA FilterOInv == ASSUME RInv, OInv, CheckFilter PROVE OInv'
<1>1. CASE rx' = Idle
  BY <1>1, RelatedOInv DEF CheckFilter, Idle
<1>2. CASE rx' # Idle
  <2>1. /\ \A i \in 1..MAXFILTERLEN : FilterOption[i] # Msdu(rx.frame)
        /\ rx' = [rx EXCEPT !.pc = "add"] /\ rx.pc = "check"
        /\ UNCHANGED << FilterOption, FilterPoint, air, given >>
    BY <1>2 DEF CheckFilter
  <2>2. rx'.frame = rx.frame /\ rx'.pc = "add"
    BY <2>1 DEF RInv, TypeOK
  <2>3. GivenOK'
    BY <2>1 DEF OInv, GivenOK, Begun, Remembered, Since
  <2>4. FrameOK'
    BY <2>1, <2>2 DEF OInv, FrameOK, Begun
  <2> QED BY <2>3, <2>4 DEF OInv
<1> QED BY <1>1, <1>2

\* A new entry is one more after every other; the one it replaces was made when
\* the ring was full, and its frame does not come again.
LEMMA AddOInv == ASSUME RInv, OInv, AddFilterOption PROVE OInv'
<1> DEFINE f == rx.frame  p == AddPoint + 1
<1>1. /\ MAXFILTERLEN \in Nat \ {0} /\ FilterPoint \in 0..MAXFILTERLEN
      /\ f \in Fragment /\ rx.pc = "add"
  BY RxAssumption DEF RInv, TypeOK, HandlerOK, AddFilterOption
<1>2. p \in 1..MAXFILTERLEN /\ p = IF FilterPoint = MAXFILTERLEN THEN 1 ELSE FilterPoint + 1
  BY <1>1 DEF AddPoint
<1>3. /\ FilterOption' = [FilterOption EXCEPT ![p] = Msdu(f)] /\ FilterPoint' = p
      /\ rx' = [rx EXCEPT !.pc = "deliver"] /\ given' = given
      /\ DOMAIN FilterOption = 1..MAXFILTERLEN
  BY DEF AddFilterOption, RInv, TypeOK
<1>4. /\ rx'.pc = "deliver" /\ rx'.frame = f
      /\ FilterOption'[p] = Msdu(f)
      /\ \A i \in 1..MAXFILTERLEN \ {p} : FilterOption'[i] = FilterOption[i]
  BY <1>2, <1>3 DEF RInv, TypeOK
<1> HIDE DEF p
<1>5. \A i \in 1..MAXFILTERLEN : /\ Since(i) \in 0..MAXFILTERLEN-1 \/ FilterPoint = 0
                                 /\ i # p => Since(i)' = Since(i) + 1
                                 /\ i = p => Since(i) >= MAXFILTERLEN - 1
  BY <1>1, <1>2, <1>3 DEF Since
<1>6. \A t \in Station : /\ air'[t] = IF Waiting(t) THEN [air[t] EXCEPT !.since = @ + 1] ELSE air[t]
                         /\ air[t] \in AirType
  BY DEF AddFilterOption, RInv, TypeOK, AirType
<1>7. \A t \in Station :
         /\ air'[t].seq = air[t].seq /\ air'[t].frag = air[t].frag /\ air'[t].tries = air[t].tries
         /\ air'[t].since = IF Waiting(t) THEN air[t].since + 1 ELSE air[t].since
  BY <1>6 DEF AirType
<1>8. \A t \in Station, n \in 1..MaxMsdu : Begun(t, n)' <=> Begun(t, n)
  BY <1>7 DEF Begun
<1>9. GivenOK'
  <2> SUFFICES ASSUME NEW t \in Station, NEW n \in 1..MaxMsdu, << t, n >> \in given
               PROVE  /\ Begun(t, n)
                      /\ n = air[t].seq /\ air'[t].since < MAXFILTERLEN
                           => \E i \in 1..MAXFILTERLEN : /\ FilterOption'[i] = << t, n >>
                                                          /\ Since(i)' <= air'[t].since
    <3>1. \A s \in Station : air'[s].seq = air[s].seq
      BY <1>7
    <3>2. \A s \in Station, n \in 1..MaxMsdu : Begun(s, n) => Begun(s, n)'
      BY <1>8
    <3> QED BY <1>3, <3>1, <3>2 DEF GivenOK, Remembered
  <2>1. Begun(t, n)
    BY DEF OInv, GivenOK
  <2>2. ASSUME n = air[t].seq, air'[t].since < MAXFILTERLEN
        PROVE  \E i \in 1..MAXFILTERLEN : FilterOption'[i] = << t, n >> /\ Since(i)' <= air'[t].since
    <3> air[t] \in AirType
      BY <1>6
    <3>1. air[t].since \in Nat /\ air[t].seq \in Nat /\ air[t].frag \in Nat /\ air[t].tries \in Nat
      BY RxAssumption DEF AirType
    <3>2. t # f.saddr
      BY <1>1 DEF OInv, FrameOK, Msdu
    <3>3. air[t].since < MAXFILTERLEN
      BY <1>1, <1>7, <2>2, <3>1
    <3>4. Waiting(t)
      BY <2>1, <2>2, <3>1, <3>2, <3>3 DEF Begun, Waiting
    <3>5. air'[t].since = air[t].since + 1
      BY <1>7, <3>4
    <3>6. PICK i \in 1..MAXFILTERLEN : FilterOption[i] = << t, n >> /\ Since(i) <= air[t].since
      BY <2>2, <3>3 DEF OInv, GivenOK, Remembered
    <3>7. Since(i) \in Int
      BY <1>1 DEF Since
    <3>8. i # p
      BY <1>1, <1>5, <2>2, <3>1, <3>5, <3>6, <3>7
    <3>9. FilterOption'[i] = << t, n >> /\ Since(i)' <= air'[t].since
      BY <1>4, <1>5, <3>1, <3>5, <3>6, <3>7, <3>8
    <3> QED BY <3>9
  <2> QED BY <2>1, <2>2
<1>10. FrameOK'
  <2> f.saddr \in Station /\ f.seq \in 1..MaxMsdu
    BY <1>1 DEF Fragment
  <2> Begun(f.saddr, f.seq)
    BY <1>1 DEF OInv, FrameOK
  <2>1. \A t \in Station, n \in 1..MaxMsdu : t = f.saddr /\ n = f.seq => Begun(t, n)'
    BY <1>8
  <2>2. Begun(rx.frame.saddr, rx.frame.seq)'
    BY <1>4, <2>1 DEF Begun
  <2> QED BY <1>1, <1>2, <1>3, <1>4, <2>2 DEF OInv, FrameOK
<1> QED BY <1>9, <1>10 DEF OInv

\* A frame that is handed up has just been entered.
LEMMA SubmitOInv == ASSUME RInv, OInv, Submit PROVE OInv'
<1> DEFINE f == rx.frame
<1>1. /\ f \in Fragment /\ rx.pc = "deliver" /\ rx'.pc = "idle"
      /\ UNCHANGED << FilterOption, FilterPoint, air >>
      /\ given' = given \/ given' = given \cup {Msdu(f)}
  BY DEF RInv, HandlerOK, Submit, Idle
<1>2. f.saddr \in Station /\ f.seq \in 1..MaxMsdu
  BY <1>1 DEF Fragment
<1>3. air[f.saddr].since \in Nat
  BY <1>2 DEF RInv, TypeOK
<1>4. Begun(f.saddr, f.seq) /\ Remembered(<< f.saddr, f.seq >>, air[f.saddr].since)
  <2>1. FilterPoint \in 1..MAXFILTERLEN /\ FilterOption[FilterPoint] = << f.saddr, f.seq >>
    BY <1>1 DEF OInv, FrameOK, Msdu
  <2>2. Since(FilterPoint) = 0
    BY <2>1 DEF Since
  <2> QED BY <1>1, <1>3, <2>1, <2>2 DEF OInv, FrameOK, Remembered
<1>5. GivenOK'
  <2> SUFFICES ASSUME NEW t \in Station, NEW n \in 1..MaxMsdu, << t, n >> \in given'
               PROVE  /\ Begun(t, n)
                      /\ n = air[t].seq /\ air[t].since < MAXFILTERLEN
                           => Remembered(<< t, n >>, air[t].since)
    BY <1>1 DEF GivenOK, Begun, Remembered, Since
  <2>1. CASE << t, n >> \in given
    BY <2>1 DEF OInv, GivenOK
  <2>2. CASE << t, n >> \notin given
    BY <1>1, <1>4, <2>2 DEF Msdu
  <2> QED BY <2>1, <2>2
<1>6. FrameOK'
  BY <1>1 DEF FrameOK
<1> QED BY <1>5, <1>6 DEF OInv

\* Every step keeps it.
LEMMA NextOInv == RInv /\ OInv /\ [Next]_vars => OInv'
<1>1. SUFFICES ASSUME RInv, OInv, [Next]_vars PROVE OInv'
  OBVIOUS
<1>2. CASE FindElement \/ TestFragment \/ RestartTimer \/ CopyData
  <2>1. UNCHANGED << FilterOption, FilterPoint, air, given >> /\ rx.pc \in {"find", "test", "copy", "again"}
    BY <1>2 DEF FindElement, TestFragment, RestartTimer, CopyData
  <2>2. rx \in RxType
    BY <1>1, RxTypes DEF RInv
  <2>3. \/ rx'.pc = "idle"
        \/ /\ rx'.frame = rx.frame /\ rx.pc \in {"find", "test", "copy"}
           /\ rx'.pc \notin {"add", "deliver"}
    <3>1. CASE FindElement
      <4>1. rx' = Idle \/ \E e : rx' = [rx EXCEPT !.pc = "test", !.e = e]
        BY <3>1 DEF FindElement, Get
      <4>2. ASSUME NEW e, rx' = [rx EXCEPT !.pc = "test", !.e = e]
            PROVE  rx'.frame = rx.frame /\ rx'.pc = "test"
        BY <4>2, <2>2 DEF RxType
      <4>3. rx.pc = "find" /\ Idle.pc = "idle"
        BY <3>1 DEF FindElement, Idle
      <4> QED BY <4>1, <4>2, <4>3
    <3>2. CASE TestFragment
      BY <3>2, <2>2 DEF TestFragment, Idle, RxType
    <3>3. CASE RestartTimer
      BY <3>3 DEF RestartTimer, Idle
    <3>4. CASE CopyData
      <4>1. rx' = Idle \/ \E d : rx' = [rx EXCEPT !.pc = "check", !.e = 1, !.got = d]
        BY <3>4 DEF CopyData
      <4>2. ASSUME NEW d, rx' = [rx EXCEPT !.pc = "check", !.e = 1, !.got = d]
            PROVE  rx'.frame = rx.frame /\ rx'.pc = "check"
        BY <4>2, <2>2 DEF RxType
      <4>3. rx.pc = "copy" /\ Idle.pc = "idle"
        BY <3>4 DEF CopyData, Idle
      <4> QED BY <4>1, <4>2, <4>3
    <3> QED BY <1>2, <3>1, <3>2, <3>3, <3>4
  <2> QED BY <1>1, <2>1, <2>3, RelatedOInv
<1>3. CASE CheckFilter \/ AddFilterOption \/ Submit
  BY <1>1, <1>3, FilterOInv, AddOInv, SubmitOInv
<1>4. CASE Air
  BY <1>1, <1>4, ReceiveOInv, LoseOInv DEF Air
<1>5. CASE rx.pc = "idle" /\ Rx_defragment_timeout
  BY <1>1, <1>5, RelatedOInv DEF Rx_defragment_timeout
<1>6. CASE rx.pc = "idle" /\ Frag_ClearInfo
  BY <1>6 DEF Frag_ClearInfo, OInv, GivenOK, FrameOK
<1>7. CASE UNCHANGED vars
  BY <1>1, <1>7, RelatedOInv DEF vars
<1> QED BY <1>1, <1>2, <1>3, <1>4, <1>5, <1>6, <1>7 DEF Next, Handler, Others

\* However often a frame is sent again, and whatever the other stations send
\* between, for any length of the filter the stack is given it once
\* (recfrag_CheckRepeatFilterOption, recfrag_AddRepeatFilterOption).
THEOREM GivenOnce == Spec => []DeliveredOnce
<1>1. RInv /\ OInv => DeliveredOnce
  BY DEF OInv, FrameOK, DeliveredOnce
<1> QED BY <1>1, RxInvariant, InitOInv, NextOInv, PTL DEF Spec

=============================================================================
