------------------------------- MODULE WlanRx -------------------------------
(***************************************************************************)
(* The receive path of the WLAN driver (wlan/usbwlan_rx.c): fragments are  *)
(* collected until their frame is complete, and frames received twice are  *)
(* dropped.                                                                *)
(*                                                                         *)
(* The completion tasklet takes the fragments of a bulk transfer one after *)
(* the other (Rx_recfrag_defragment).  It holds adaptor->lock only in      *)
(* sections: the element of the frame is found in one, tested in none and  *)
(* filled in another.  A timer (Rx_defragment_timeout) frees the elements  *)
(* of frames that are not completed; a request for another network clears  *)
(* the filter (Frag_ClearInfo).                                            *)
(*                                                                         *)
(* r_CurrentPoint and r_CurrentFrag grow together, so that data stands for *)
(* both; r_RecFragMap is a copy of the busy flags.  The finished frame is  *)
(* read from the buffer of an element that is free again, which is sound   *)
(* as only the tasklet writes to buffers: it is copied to rx here.         *)
(***************************************************************************)
EXTENDS Integers, Sequences, FiniteSets

CONSTANTS Station,         \* the stations that send
          None,
          MAXFRAGCLASS,    \* elements
          MAXFILTERLEN,    \* entries of the filter
          MAXFRAGTIMEOUT,  \* periods of the timer an element may wait
          Fits,            \* fragments that fit into MAXRECDATALEN bytes
          MaxFragments,    \* bound: fragments of one frame
          MaxMsdu,         \* bound: frames of one station
          MaxTries         \* times a station sends the same fragment

VARIABLES r_RecFrag,       \* the elements
          FilterOption, FilterPoint,
          rx,              \* the tasklet inside Rx_recfrag_defragment
          air,             \* what each station is about to send
          given            \* history: the frames handed up that may come again

vars == << r_RecFrag, FilterOption, FilterPoint, rx, air, given >>

ASSUME RxAssumption ==
    /\ None \notin Station
    /\ MAXFRAGCLASS \in Nat \ {0} /\ MAXFILTERLEN \in Nat \ {0}
    /\ MAXFRAGTIMEOUT \in Nat \ {0} /\ Fits \in Nat \ {0}
    /\ MaxFragments \in 1..15 /\ MaxMsdu \in Nat /\ MaxTries \in Nat \ {0}

Element == 1..MAXFRAGCLASS
Fragment == [saddr : Station, seq : 1..MaxMsdu, frag : 0..MaxFragments-1, more : BOOLEAN]
Msdu(f) == << f.saddr, f.seq >>

Empty == [busy |-> FALSE, timer |-> 0, saddr |-> None, seq |-> 0, data |-> << >>]
Idle == [pc |-> "idle", frame |-> None, e |-> 1, got |-> << >>]

TypeOK ==
    /\ r_RecFrag \in [Element -> [busy : BOOLEAN, timer : 0..MAXFRAGTIMEOUT,
                                  saddr : Station \cup {None}, seq : 0..MaxMsdu,
                                  data : Seq(Fragment)]]
    /\ FilterOption \in [1..MAXFILTERLEN -> (Station \X (1..MaxMsdu)) \cup {None}]
    /\ FilterPoint \in 0..MAXFILTERLEN
    /\ rx \in [pc : {"idle", "find", "test", "copy", "again", "check", "add", "deliver"},
               frame : Fragment \cup {None}, e : Element, got : Seq(Fragment)]
    /\ air \in [Station -> [seq : 1..MaxMsdu+1, frag : 0..MaxFragments-1, more : BOOLEAN,
                            tries : 0..MaxTries-1, since : 0..MAXFILTERLEN]]
    /\ given \subseteq Station \X (1..MaxMsdu)

\* The first fragment of the n-th frame of a station.
First(n, more) == [seq |-> n, frag |-> 0, more |-> more, tries |-> 0, since |-> 0]

Init ==
    /\ r_RecFrag = [e \in Element |-> Empty]
    /\ FilterOption = [i \in 1..MAXFILTERLEN |-> None] /\ FilterPoint = 0
    /\ rx = Idle
    /\ \E more \in [Station -> BOOLEAN] :
         /\ MaxFragments = 1 => \A s \in Station : ~more[s]
         /\ air = [s \in Station |-> First(1, more[s])]
    /\ given = {}

-----------------------------------------------------------------------------
(* The stations.  Each sends a fragment until it is acknowledged, then the *)
(* next one.  It gives a frame up after MaxTries tries, or when            *)
(* MAXFILTERLEN frames of others have been received since it began it.     *)

MoreAfter(frag) == IF frag + 1 < MaxFragments THEN BOOLEAN ELSE {FALSE}

NextMsdu(s) == \E more \in MoreAfter(0) :
    air' = [air EXCEPT ![s] = First(@.seq + 1, more)]

Acknowledged(s) ==
    IF air[s].more
    THEN \E more \in MoreAfter(air[s].frag + 1) :
           air' = [air EXCEPT ![s] = [seq |-> @.seq, frag |-> @.frag + 1, more |-> more,
                                      tries |-> 0, since |-> @.since]]
    ELSE NextMsdu(s)

Unacknowledged(s) ==
    IF air[s].tries + 1 < MaxTries
    THEN air' = [air EXCEPT ![s].tries = @ + 1]
    ELSE NextMsdu(s)

MaySend(s) == air[s].seq <= MaxMsdu /\ air[s].since < MAXFILTERLEN

Receive(s) ==
    LET f == [saddr |-> s, seq |-> air[s].seq, frag |-> air[s].frag, more |-> air[s].more]
        whole == ~f.more /\ f.frag = 0
    IN /\ MaySend(s) /\ rx.pc = "idle"
       /\ rx' = [pc |-> IF whole THEN "check" ELSE "find", frame |-> f, e |-> 1,
                 got |-> IF whole THEN << f >> ELSE << >>]
       /\ Acknowledged(s) \/ Unacknowledged(s)
       /\ given' = {m \in given : m[1] = s => m[2] = f.seq}
       /\ UNCHANGED << r_RecFrag, FilterOption, FilterPoint >>

\* The fragment is not received, or Rx_check_packet or Rx_process drop it.
Lose(s) ==
    /\ MaySend(s) /\ Unacknowledged(s)
    /\ UNCHANGED << r_RecFrag, FilterOption, FilterPoint, rx, given >>

GiveUp(s) ==
    /\ air[s].seq <= MaxMsdu /\ ~MaySend(s) /\ NextMsdu(s)
    /\ UNCHANGED << r_RecFrag, FilterOption, FilterPoint, rx, given >>

-----------------------------------------------------------------------------
(* Rx_recfrag_defragment, one action per section.                          *)

\* The searches take the first element that fits; the elements are alike.
OneOf(S) == CHOOSE e \in S : TRUE

Found == {e \in Element : r_RecFrag[e].busy /\ << r_RecFrag[e].saddr, r_RecFrag[e].seq >> = Msdu(rx.frame)}
NotBusy == {e \in Element : ~r_RecFrag[e].busy}
OfSender == {e \in Element : r_RecFrag[e].saddr = rx.frame.saddr}

\* Faulty variant: what the element held before is not dropped.
GetKeepsData(e) ==
    /\ r_RecFrag' = [r_RecFrag EXCEPT ![e] = [@ EXCEPT !.busy = TRUE, !.seq = rx.frame.seq,
                                                       !.saddr = rx.frame.saddr]]
    /\ rx' = [rx EXCEPT !.pc = "test", !.e = e]

\* recfrag_get_free_element: when all are busy, an older frame of the sender
\* makes room.  The timer of that element goes on.
Get(e) ==
    /\ r_RecFrag' = [r_RecFrag EXCEPT ![e] =
          [busy |-> TRUE, timer |-> @.timer, saddr |-> rx.frame.saddr, seq |-> rx.frame.seq, data |-> << >>]]
    /\ rx' = [rx EXCEPT !.pc = "test", !.e = e]

FindElement ==
    /\ rx.pc = "find"
    /\ IF Found # {} THEN rx' = [rx EXCEPT !.pc = "test", !.e = OneOf(Found)] /\ UNCHANGED r_RecFrag
       ELSE IF rx.frame.frag = 0 /\ NotBusy # {} THEN Get(OneOf(NotBusy))
       ELSE IF rx.frame.frag = 0 /\ OfSender # {} THEN Get(OneOf(OfSender))
       ELSE rx' = Idle /\ UNCHANGED r_RecFrag
    /\ UNCHANGED << FilterOption, FilterPoint, air, given >>

\* r_CurrentFrag is read without the lock.
TestFragment ==
    LET CurrentFrag == Len(r_RecFrag[rx.e].data) IN
    /\ rx.pc = "test"
    /\ rx' = IF CurrentFrag = rx.frame.frag THEN [rx EXCEPT !.pc = "copy"]
             ELSE IF CurrentFrag = rx.frame.frag + 1 THEN [rx EXCEPT !.pc = "again"]
             ELSE Idle
    /\ UNCHANGED << r_RecFrag, FilterOption, FilterPoint, air, given >>

\* The same fragment again.
RestartTimer ==
    /\ rx.pc = "again" /\ rx' = Idle
    /\ r_RecFrag' = [r_RecFrag EXCEPT ![rx.e].timer = MAXFRAGTIMEOUT]
    /\ UNCHANGED << FilterOption, FilterPoint, air, given >>

\* Faulty variant: a fragment that is not the last does not start the timer.
CopyUntimed ==
    LET data == Append(r_RecFrag[rx.e].data, rx.frame) IN
    /\ rx.pc = "copy"
    /\ r_RecFrag' = [r_RecFrag EXCEPT ![rx.e] = IF rx.frame.more THEN [@ EXCEPT !.data = data] ELSE Empty]
    /\ rx' = IF rx.frame.more THEN Idle ELSE [rx EXCEPT !.pc = "check", !.e = 1, !.got = data]
    /\ UNCHANGED << FilterOption, FilterPoint, air, given >>

\* recfrag_copy_data, and the end of a frame.
CopyData ==
    LET data == Append(r_RecFrag[rx.e].data, rx.frame) IN
    /\ rx.pc = "copy"
    /\ \/ /\ Len(data) > Fits
          /\ rx' = Idle /\ UNCHANGED r_RecFrag
       \/ /\ Len(data) <= Fits /\ rx.frame.more
          /\ r_RecFrag' = [r_RecFrag EXCEPT ![rx.e] = [@ EXCEPT !.data = data, !.timer = MAXFRAGTIMEOUT]]
          /\ rx' = Idle
       \/ /\ Len(data) <= Fits /\ ~rx.frame.more
          /\ r_RecFrag' = [r_RecFrag EXCEPT ![rx.e] = Empty]
          /\ rx' = [rx EXCEPT !.pc = "check", !.e = 1, !.got = data]
    /\ UNCHANGED << FilterOption, FilterPoint, air, given >>

\* The keys and the MIC are checked, then the filter.
CheckFilter ==
    /\ rx.pc = "check"
    /\ \/ rx' = Idle
       \/ /\ \A i \in 1..MAXFILTERLEN : FilterOption[i] # Msdu(rx.frame)
          /\ rx' = [rx EXCEPT !.pc = "add"]
    /\ UNCHANGED << r_RecFrag, FilterOption, FilterPoint, air, given >>

\* Faulty variant: each entry takes the place of the one before.
AddPointStuck == 0

\* Faulty variant: the wrap is missed by one.
AddPointLate == IF FilterPoint > MAXFILTERLEN THEN 0 ELSE FilterPoint

\* The filter is a ring.
AddPoint == IF FilterPoint >= MAXFILTERLEN THEN 0 ELSE FilterPoint

\* A station that has begun a frame and may send it again.
Waiting(s) == /\ s # rx.frame.saddr /\ air[s].since < MAXFILTERLEN
              /\ air[s].frag > 0 \/ air[s].tries > 0

AddFilterOption ==
    /\ rx.pc = "add" /\ rx' = [rx EXCEPT !.pc = "deliver"]
    /\ FilterOption' = [FilterOption EXCEPT ![AddPoint + 1] = Msdu(rx.frame)]
    /\ FilterPoint' = AddPoint + 1
    /\ air' = [s \in Station |-> IF Waiting(s) THEN [air[s] EXCEPT !.since = @ + 1] ELSE air[s]]
    /\ UNCHANGED << r_RecFrag, given >>

\* The translation and Rx_data_filter may still drop the frame.
Submit ==
    /\ rx.pc = "deliver" /\ rx' = Idle
    /\ given' \in {given, given \cup {Msdu(rx.frame)}}
    /\ UNCHANGED << r_RecFrag, FilterOption, FilterPoint, air >>

-----------------------------------------------------------------------------
(* The other contexts.                                                     *)

Expiring(e) == r_RecFrag[e].busy /\ r_RecFrag[e].timer > 0

Rx_defragment_timeout ==
    /\ \E e \in Element : Expiring(e)
    /\ r_RecFrag' = [e \in Element |->
                       IF ~Expiring(e) THEN r_RecFrag[e]
                       ELSE IF r_RecFrag[e].timer = 1 THEN Empty
                       ELSE [r_RecFrag[e] EXCEPT !.timer = @ - 1]]
    /\ UNCHANGED << FilterOption, FilterPoint, rx, air, given >>

\* What was given to the stack from the network before may come again.
Frag_ClearInfo ==
    /\ FilterOption' = [i \in 1..MAXFILTERLEN |-> None]
    /\ given' = {}
    /\ UNCHANGED << r_RecFrag, FilterPoint, rx, air >>

Handler == \/ FindElement \/ TestFragment \/ RestartTimer \/ CopyData
           \/ CheckFilter \/ AddFilterOption \/ Submit
Air == \E s \in Station : Receive(s) \/ Lose(s) \/ GiveUp(s)
Others == Rx_defragment_timeout \/ Frag_ClearInfo

\* On one processor the timer and the requests do not interrupt the tasklet.
Next == Handler \/ Air \/ (rx.pc = "idle" /\ Others)
Spec == Init /\ [][Next]_vars

\* On several processors they do.
SmpSpec == Init /\ [][Handler \/ Air \/ Others]_vars

-----------------------------------------------------------------------------
(* Properties.                                                             *)

InOrder(d) == \A i \in DOMAIN d : d[i].frag = i - 1 /\ Msdu(d[i]) = Msdu(d[1])

\* What is given to the stack is all the fragments of one frame, each once and
\* in their order, whatever was lost, sent again or timed out
\* (Rx_recfrag_defragment).
WholeFrames ==
    rx.pc \in {"check", "add", "deliver"} =>
        /\ rx.got # << >> /\ InOrder(rx.got)
        /\ \A i \in DOMAIN rx.got : rx.got[i].more <=> i # Len(rx.got)

\* No frame is given to the stack twice, though its sender repeats it when the
\* acknowledgement is lost (recfrag_CheckRepeatFilterOption).
DeliveredOnce == rx.pc = "deliver" => Msdu(rx.frame) \notin given

\* The elements never run out: whatever fails or is left unfinished, an element
\* that was taken for a frame has its timer running as soon as the tasklet is
\* done with it (recfrag_set_timer, Rx_defragment_timeout).
BusyIsTimed ==
    \A e \in Element : r_RecFrag[e].busy =>
        r_RecFrag[e].timer > 0 \/ (rx.pc \in {"test", "copy"} /\ rx.e = e)
=============================================================================
