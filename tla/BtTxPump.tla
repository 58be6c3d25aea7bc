------------------------------ MODULE BtTxPump ------------------------------
(***************************************************************************)
(* The transmit pump (bluetooth/bt_frag.c, btusb.c, bt_cancel.c).          *)
(*                                                                         *)
(* The stack's packets wait as elements in one list per queue of the card. *)
(* Nothing is sent because it is there: the driver asks the card how much  *)
(* space its queues have (UsbQueryDMASpace), and the card's answer, an     *)
(* interrupt, makes the tasklet fill the one transmit buffer and submit    *)
(* it.  One flag, SpaceQueryFlag, is set from the query to the end of the  *)
(* processing of its answer, and a query made meanwhile is refused.  The   *)
(* TxTimer asks again after each packet, the watchdog each second; it also *)
(* cancels a transfer that does not complete.                              *)
(*                                                                         *)
(* Contexts: the stack (Frag_BuildFrag), the completion tasklet (the pump  *)
(* and the write completion, in the order of complete_q), two timers and   *)
(* the thread that takes a connection down.  One write, of up to four      *)
(* fragments, is the unit of space.  FreeFrag_Count is only ever printed   *)
(* and is left out, as are the SCO list and the backup of sent frames.     *)
(***************************************************************************)
EXTENDS Integers, Sequences, FiniteSets

CONSTANTS Element,     \* TxFragElement[]
          Conn,        \* connection blocks
          None,
          Lists,       \* the lists, in the order of their index
          MasterList,  \* FRAG_MASTER_LIST
          ListOf,      \* Frag_GetQueueHead: the list of each connection
          MaxWrites,   \* writes one element can take
          MaxSpace,    \* BT_MAX_..._IDLE_SPACE_SIZE, in writes
          MaxPending,  \* bound: queries and answers under way
          MaxCtl,      \* bound: control frames waiting for one list
          AclTicks,    \* BulkoutAcl_TimerCount of a new transfer
          Hindrances   \* bound: what of "bar", "stop", "flush", "close" happens

VARIABLES FragList, Free_FragList,
          ele,                    \* the fields of each element
          built,                  \* the element Frag_BuildFrag is filling
          conn, barred,           \* the connection blocks
          list_stop_flag, TxDisable_Flag,
          ctl,                    \* LMP PDUs, polls and nulls waiting, per list
          pump, AclProcCounter,   \* the tasklet inside Frag_CheckTxQueue
          TxPool,                 \* the transmit buffer is in use
          urb,                    \* list of the transfer the card has not taken
          BulkoutAcl_TimerCount,
          IdleSpace,              \* the space of the card as the driver sees it
          SpaceQueryFlag, QueryFailCount,
          TxTimer, tested,        \* armed; its handler has read SpaceQueryFlag
          complete_q,             \* completions the tasklet has not seen
          queries, fill           \* the card: queries to answer, frames it holds

elements == << FragList, Free_FragList, ele, built >>
links    == << conn, barred, list_stop_flag, TxDisable_Flag >>
bulk     == << TxPool, urb, BulkoutAcl_TimerCount >>
query    == << SpaceQueryFlag, QueryFailCount, queries >>
timer    == << TxTimer, tested >>
pumping  == << pump, AclProcCounter >>
vars == << elements, links, ctl, pumping, bulk, IdleSpace, query, timer,
           complete_q, fill >>

List == {Lists[i] : i \in 1..Len(Lists)}

ASSUME PumpAssumption ==
    /\ IsFiniteSet(Element) /\ None \notin Element \cup List
    /\ Lists \in Seq(List) /\ MasterList \in List
    /\ ListOf \in [Conn -> List]
    /\ MaxWrites \in Nat \ {0} /\ MaxSpace \in Nat \ {0} /\ MaxPending \in Nat \ {0}
    /\ MaxCtl \in Nat /\ AclTicks \in Nat \ {0}
    /\ Hindrances \subseteq {"bar", "stop", "flush", "close"}

On(l) == {FragList[l][i] : i \in DOMAIN FragList[l]}
Unused == [dev |-> None, ppid |-> 0, fpid |-> 0]
Space == [type : {"space"}, room : [List -> 0..MaxSpace]]
Written == [type |-> "write"]
Answers == {i \in DOMAIN complete_q : complete_q[i].type = "space"}

PumpPC == { "idle",   \* not in Frag_CheckTxQueue
            "check",  \* new space is known, about to look at the queues
            "find",   \* about to look for an element in the i-th list
            "take",   \* an element was seen, the lock is free
            "write",  \* the element is off its list
            "put",    \* one more write of it was submitted
            "back",   \* it could not be written
            "done" }  \* about to clear SpaceQueryFlag

TypeOK ==
    /\ FragList \in [List -> Seq(Element)]
    /\ Free_FragList \subseteq Element
    /\ ele \in [Element -> [dev : Conn \cup {None}, ppid : 0..MaxWrites, fpid : 0..MaxWrites]]
    /\ built \in Element \cup {None}
    /\ conn \in [Conn -> {"up", "closing", "free"}]
    /\ barred \in [Conn -> BOOLEAN]
    /\ list_stop_flag \in [List -> BOOLEAN] /\ TxDisable_Flag \in BOOLEAN
    /\ ctl \in [List -> 0..MaxCtl]
    /\ pump \in [pc : PumpPC, i : 0..Len(Lists), ele : Element \cup {None}]
    /\ AclProcCounter \in 0..Len(Lists)-1
    /\ TxPool \in BOOLEAN /\ urb \in List \cup {None}
    /\ BulkoutAcl_TimerCount \in 0..AclTicks
    /\ IdleSpace \in [List -> 0..MaxSpace]
    /\ SpaceQueryFlag \in BOOLEAN /\ QueryFailCount \in 0..2
    /\ TxTimer \in BOOLEAN /\ tested \in BOOLEAN
    /\ complete_q \in Seq(Space \cup {Written})
    /\ queries \in 0..MaxPending
    /\ fill \in [List -> Nat]

Init ==
    /\ FragList = [l \in List |-> << >>] /\ Free_FragList = Element
    /\ ele = [e \in Element |-> Unused] /\ built = None
    /\ conn = [c \in Conn |-> "free"] /\ barred = [c \in Conn |-> FALSE]
    /\ list_stop_flag = [l \in List |-> FALSE] /\ TxDisable_Flag = FALSE
    /\ ctl = [l \in List |-> 0]
    /\ pump = [pc |-> "idle", i |-> 0, ele |-> None] /\ AclProcCounter = 0
    /\ TxPool = FALSE /\ urb = None /\ BulkoutAcl_TimerCount = 0
    /\ IdleSpace = [l \in List |-> 0]
    /\ SpaceQueryFlag = FALSE /\ QueryFailCount = 0 /\ queries = 0
    /\ TxTimer = FALSE /\ tested = FALSE
    /\ complete_q = << >> /\ fill = [l \in List |-> 0]

-----------------------------------------------------------------------------
(* UsbQueryDMASpace.  The flag stays set when no transfer could be had. *)

Pending == queries + Cardinality(Answers)

\* A query beyond MaxPending is lost.
SendQuery ==
    /\ SpaceQueryFlag' = TRUE
    /\ queries' = IF Pending < MaxPending THEN queries + 1 ELSE queries

UsbQueryDMASpace ==
    IF SpaceQueryFlag THEN UNCHANGED << SpaceQueryFlag, queries >> ELSE SendQuery

-----------------------------------------------------------------------------
(* The stack hands over a packet.                                          *)

\* The connection is found in the lists, an element is taken off the free
\* list and filled.  Nothing happens when there is none.
BuildFrag_Take(c) ==
    /\ built = None /\ conn[c] # "free"
    /\ \E e \in Free_FragList, n \in 1..MaxWrites :
         /\ Free_FragList' = Free_FragList \ {e}
         /\ ele' = [ele EXCEPT ![e] = [dev |-> c, ppid |-> 0, fpid |-> n]]
         /\ built' = e
    /\ UNCHANGED << FragList, links, ctl, pumping, bulk, IdleSpace, query, timer,
                    complete_q, fill >>

BuildFrag_Put ==
    /\ built # None
    /\ FragList' = [FragList EXCEPT ![ListOf[ele[built].dev]] = Append(@, built)]
    /\ built' = None
    /\ TxTimer' = TRUE
    /\ UNCHANGED << Free_FragList, ele, links, ctl, pumping, bulk, IdleSpace, query,
                    tested, complete_q, fill >>

\* The link manager, the scheduler of polls and nulls.
ControlFrame(l) ==
    /\ ctl[l] < MaxCtl
    /\ ctl' = [ctl EXCEPT ![l] = @ + 1]
    /\ UsbQueryDMASpace
    /\ UNCHANGED << elements, links, pumping, bulk, IdleSpace, QueryFailCount, timer,
                    complete_q, fill >>

-----------------------------------------------------------------------------
(* The pump, in the tasklet.                                               *)

ResumePump(pc, i, e) == pump' = [pc |-> pc, i |-> i, ele |-> e]

\* Frag_ProcessSpaceInt, up to the call of Frag_CheckTxQueue.
Frag_ProcessSpaceInt ==
    /\ pump.pc = "idle" /\ complete_q # << >> /\ Head(complete_q).type = "space"
    /\ IdleSpace' = Head(complete_q).room
    /\ complete_q' = Tail(complete_q)
    /\ ResumePump("check", 0, None)
    /\ UNCHANGED << elements, links, ctl, AclProcCounter, bulk, query, timer, fill >>

\* A transfer is submitted, or cannot be; the space is given away in any case.
Submit(l) == /\ TxPool' = TRUE /\ urb' = l /\ BulkoutAcl_TimerCount' = AclTicks
             /\ IdleSpace' = [IdleSpace EXCEPT ![l] = @ - 1]
SubmitFails(l) == /\ UNCHANGED bulk
                  /\ IdleSpace' = [IdleSpace EXCEPT ![l] = @ - 1]

\* Faulty variant: only TxDisable_Flag is looked at.
NoRoundPoolForgotten == TxDisable_Flag

NoRound == TxDisable_Flag \/ TxPool

CheckTxQueue_Return ==
    /\ pump.pc = "check" /\ NoRound
    /\ ResumePump("done", 0, None)
    /\ UNCHANGED << elements, links, ctl, AclProcCounter, bulk, IdleSpace, query, timer,
                    complete_q, fill >>

\* LMP_CheckTxQueue and Sched_Excute: a control frame that is sent fills the
\* only buffer; one of a closed connection is dropped.
CheckTxQueue_Control(l) ==
    /\ pump.pc = "check" /\ ~NoRound /\ ctl[l] > 0
    /\ \/ /\ ctl' = [ctl EXCEPT ![l] = @ - 1] /\ TxTimer' = TRUE
          /\ UNCHANGED << pump, bulk, IdleSpace >>
       \/ /\ IdleSpace[l] <= 1 /\ TxTimer' = TRUE
          /\ ResumePump("find", 0, None)
          /\ UNCHANGED << ctl, bulk, IdleSpace >>
       \/ /\ IdleSpace[l] > 1 /\ Submit(l)
          /\ ctl' = [ctl EXCEPT ![l] = @ - 1]
          /\ ResumePump("done", 0, None) /\ UNCHANGED TxTimer
       \/ /\ IdleSpace[l] > 1 /\ SubmitFails(l)
          /\ ResumePump("find", 0, None) /\ UNCHANGED << ctl, TxTimer >>
    /\ UNCHANGED << elements, links, AclProcCounter, query, tested, complete_q, fill >>

CheckTxQueue_Acl ==
    /\ pump.pc = "check" /\ ~NoRound /\ \A l \in List : ctl[l] = 0
    /\ ResumePump("find", 0, None)
    /\ UNCHANGED << elements, links, ctl, AclProcCounter, bulk, IdleSpace, query, timer,
                    complete_q, fill >>

\* The list the round looks at next.
ThisList == Lists[((pump.i + AclProcCounter) % Len(Lists)) + 1]

\* Counted on without end in the code, where only its remainder is used.
EndRound == /\ AclProcCounter' = (AclProcCounter + 1) % Len(Lists)
            /\ ResumePump("done", 0, None)

\* Positions Frag_ProcessAclFrag may serve: the first element whose connection
\* is not barred in the master list, only the head in the others.
Servable(l) == {i \in DOMAIN FragList[l] :
                   /\ ~barred[ele[FragList[l][i]].dev]
                   /\ l # MasterList => i = 1}

ProcessAclFrag_Find ==
    /\ pump.pc = "find"
    /\ IF pump.i = Len(Lists) THEN EndRound
       ELSE /\ UNCHANGED AclProcCounter
            /\ IF list_stop_flag[ThisList] \/ Servable(ThisList) = {}
               THEN ResumePump("find", pump.i + 1, None)
               ELSE \E i \in Servable(ThisList) :
                      /\ \A j \in Servable(ThisList) : i <= j
                      /\ ResumePump("take", pump.i, FragList[ThisList][i])
    /\ UNCHANGED << elements, links, ctl, bulk, IdleSpace, query, timer, complete_q, fill >>

\* f lists the places in S in their order.
Enumerates(f, S) ==
    /\ \A i, j \in DOMAIN f : i < j => f[i] < f[j]
    /\ \A p \in S : \E i \in DOMAIN f : f[i] = p

\* The elements in E leave the list l, the others keep their order.
Leave(l, E) ==
    LET Stay == {i \in DOMAIN FragList[l] : FragList[l][i] \notin E}
    IN  \E n \in 0..Len(FragList[l]) : \E f \in [1..n -> Stay] :
          /\ Enumerates(f, Stay)
          /\ FragList' = [FragList EXCEPT ![l] = [i \in 1..n |-> @[f[i]]]]

\* The lock was free between the search and the removal.
ProcessAclFrag_Take ==
    /\ pump.pc = "take"
    /\ Leave(ThisList, {pump.ele})
    /\ ResumePump("write", pump.i, pump.ele)
    /\ UNCHANGED << Free_FragList, ele, built, links, ctl, AclProcCounter, bulk, IdleSpace,
                    query, timer, complete_q, fill >>

\* No space; submitted; not submitted.  An element with nothing left to send
\* would be dropped without a trace: ElementOwned says there is none.
ProcessAclFrag_NoSpace ==
    /\ pump.pc = "write" /\ ele[pump.ele].ppid < ele[pump.ele].fpid
    /\ IdleSpace[ThisList] <= 1
    /\ TxTimer' = TRUE
    /\ ResumePump("back", pump.i, pump.ele)
    /\ UNCHANGED << elements, links, ctl, AclProcCounter, bulk, IdleSpace, query, tested,
                    complete_q, fill >>

\* Faulty variant: the space is not compared with the length.
WriteUnchecked ==
    /\ pump.pc = "write" /\ ele[pump.ele].ppid < ele[pump.ele].fpid
    /\ Submit(ThisList)
    /\ ele' = [ele EXCEPT ![pump.ele].ppid = @ + 1]
    /\ ResumePump("put", pump.i, pump.ele)
    /\ UNCHANGED << FragList, Free_FragList, built, links, ctl, AclProcCounter, query, timer,
                    complete_q, fill >>

ProcessAclFrag_Write ==
    /\ pump.pc = "write" /\ ele[pump.ele].ppid < ele[pump.ele].fpid
    /\ IdleSpace[ThisList] > 1 /\ Submit(ThisList)
    /\ ele' = [ele EXCEPT ![pump.ele].ppid = @ + 1]
    /\ ResumePump("put", pump.i, pump.ele)
    /\ UNCHANGED << FragList, Free_FragList, built, links, ctl, AclProcCounter, query, timer,
                    complete_q, fill >>

ProcessAclFrag_WriteFails ==
    /\ pump.pc = "write" /\ ele[pump.ele].ppid < ele[pump.ele].fpid
    /\ IdleSpace[ThisList] > 1 /\ SubmitFails(ThisList)
    /\ ResumePump("back", pump.i, pump.ele)
    /\ UNCHANGED << elements, links, ctl, AclProcCounter, query, timer, complete_q, fill >>

\* Faulty variant: what could not be sent is queued again behind the others.
PutTail(l, e) == FragList' = [FragList EXCEPT ![l] = Append(@, e)]

PushHead(l, e) == FragList' = [FragList EXCEPT ![l] = << e >> \o @]

\* Faulty variant: a finished element is not given back.
PutForgotten ==
    /\ pump.pc = "put"
    /\ IF ele[pump.ele].ppid = ele[pump.ele].fpid
         THEN UNCHANGED << Free_FragList, FragList >>
         ELSE /\ PushHead(ThisList, pump.ele)
              /\ UNCHANGED Free_FragList
    /\ EndRound
    /\ UNCHANGED << ele, built, links, ctl, bulk, IdleSpace, query, timer, complete_q, fill >>

\* The stack is told when the last write has been submitted.
ProcessAclFrag_Put ==
    /\ pump.pc = "put"
    /\ IF ele[pump.ele].ppid = ele[pump.ele].fpid
         THEN /\ Free_FragList' = Free_FragList \cup {pump.ele}
              /\ UNCHANGED FragList
         ELSE /\ PushHead(ThisList, pump.ele)
              /\ UNCHANGED Free_FragList
    /\ EndRound
    /\ UNCHANGED << ele, built, links, ctl, bulk, IdleSpace, query, timer, complete_q, fill >>

\* The round goes on with the next list.
ProcessAclFrag_Back ==
    /\ pump.pc = "back"
    /\ PushHead(ThisList, pump.ele)
    /\ ResumePump("find", pump.i + 1, None)
    /\ UNCHANGED << Free_FragList, ele, built, links, ctl, AclProcCounter, bulk, IdleSpace,
                    query, timer, complete_q, fill >>

\* The end of Frag_ProcessSpaceInt: queries are accepted again.
ProcessSpaceInt_End ==
    /\ pump.pc = "done"
    /\ ResumePump("idle", 0, None)
    /\ SpaceQueryFlag' = FALSE /\ QueryFailCount' = 0
    /\ UNCHANGED << elements, links, ctl, AclProcCounter, bulk, IdleSpace, queries, timer,
                    complete_q, fill >>

\* The transfer is over, taken by the card or cancelled.
Usb_WriteCompletion ==
    /\ pump.pc = "idle" /\ complete_q # << >> /\ Head(complete_q).type = "write"
    /\ complete_q' = Tail(complete_q)
    /\ TxPool' = FALSE /\ BulkoutAcl_TimerCount' = 0
    /\ UsbQueryDMASpace
    /\ UNCHANGED << elements, links, ctl, pumping, urb, IdleSpace, QueryFailCount, timer, fill >>

-----------------------------------------------------------------------------
(* The timers.                                                             *)

\* Frag_DataSendingTimer: the test of SpaceQueryFlag and its setting are not
\* one section.
DataSendingTimer_Test ==
    /\ TxTimer /\ ~tested
    /\ TxTimer' = FALSE /\ tested' = ~SpaceQueryFlag
    /\ UNCHANGED << elements, links, ctl, pumping, bulk, IdleSpace, query, complete_q, fill >>

DataSendingTimer_Set ==
    /\ tested
    /\ tested' = FALSE /\ SendQuery
    /\ UNCHANGED << elements, links, ctl, pumping, bulk, IdleSpace, QueryFailCount, TxTimer,
                    complete_q, fill >>

\* BtUsbWriteIrpTimeOut: the transfer is cancelled at the last tick.  The ticks
\* stay at zero here; the code counts on below it, where nothing looks at them
\* until the next transfer sets them again.
CancelAt(tick) ==
    /\ BulkoutAcl_TimerCount' = IF BulkoutAcl_TimerCount = 0 THEN 0
                                ELSE BulkoutAcl_TimerCount - 1
    /\ IF BulkoutAcl_TimerCount = tick /\ urb # None
         THEN urb' = None /\ complete_q' = Append(complete_q, Written)
         ELSE UNCHANGED << urb, complete_q >>

\* The second query in a row that is refused clears the flag.
QueryOrGiveUp(limit) ==
    IF ~SpaceQueryFlag
      THEN SendQuery /\ QueryFailCount' = 0
      ELSE IF QueryFailCount + 1 < limit
             THEN QueryFailCount' = QueryFailCount + 1 /\ UNCHANGED << SpaceQueryFlag, queries >>
             ELSE QueryFailCount' = limit /\ SendQuery

\* Faulty variant: a lost query is waited for.
WatchdogWaits ==
    /\ CancelAt(1) /\ UsbQueryDMASpace
    /\ UNCHANGED << elements, links, ctl, pumping, TxPool, IdleSpace, QueryFailCount, timer, fill >>

BtWatchdogTimer ==
    /\ CancelAt(1) /\ QueryOrGiveUp(2)
    /\ UNCHANGED << elements, links, ctl, pumping, TxPool, IdleSpace, timer, fill >>

-----------------------------------------------------------------------------
(* The card.  It takes a transfer when it has room for it or not; it reads *)
(* its own room at the moment it answers; it may never answer.             *)

Card_Take ==
    /\ urb # None
    /\ fill' = [fill EXCEPT ![urb] = @ + 1]
    /\ urb' = None /\ complete_q' = Append(complete_q, Written)
    /\ UNCHANGED << elements, links, ctl, pumping, TxPool, BulkoutAcl_TimerCount, IdleSpace,
                    query, timer >>

Card_Send(l) ==
    /\ fill[l] > 0
    /\ fill' = [fill EXCEPT ![l] = @ - 1]
    /\ UNCHANGED << elements, links, ctl, pumping, bulk, IdleSpace, query, timer, complete_q >>

Card_Answer ==
    /\ queries > 0
    /\ queries' = queries - 1
    /\ complete_q' = Append(complete_q,
          [type |-> "space", room |-> [l \in List |-> MaxSpace - fill[l]]])
    /\ UNCHANGED << elements, links, ctl, pumping, bulk, IdleSpace, SpaceQueryFlag,
                    QueryFailCount, timer, fill >>

Card_Loses ==
    /\ queries > 0
    /\ queries' = queries - 1
    /\ UNCHANGED << elements, links, ctl, pumping, bulk, IdleSpace, SpaceQueryFlag,
                    QueryFailCount, timer, complete_q, fill >>

-----------------------------------------------------------------------------
(* What other parts of the driver do to the queues.                        *)

Connect(c) ==
    /\ conn[c] = "free" /\ conn' = [conn EXCEPT ![c] = "up"]
    /\ UNCHANGED << elements, barred, list_stop_flag, TxDisable_Flag, ctl, pumping, bulk,
                    IdleSpace, query, timer, complete_q, fill >>

\* The elements of the connection go back to the free list.  A connection in
\* its encryption procedure or on hold stays barred.
Frag_InitTxForConnDev(c) ==
    /\ "close" \in Hindrances
    /\ conn[c] = "up" /\ conn' = [conn EXCEPT ![c] = "closing"]
    /\ barred' \in {barred, [barred EXCEPT ![c] = FALSE]}
    /\ LET Dropped == {e \in On(ListOf[c]) : ele[e].dev = c}
       IN  Leave(ListOf[c], Dropped) /\ Free_FragList' = Free_FragList \cup Dropped
    /\ UNCHANGED << ele, built, list_stop_flag, TxDisable_Flag, ctl, pumping, bulk,
                    IdleSpace, query, timer, complete_q, fill >>

\* The block leaves the connection lists.
Hci_Del_Connect_Device(c) ==
    /\ conn[c] = "closing" /\ conn' = [conn EXCEPT ![c] = "free"]
    /\ barred' = [barred EXCEPT ![c] = FALSE]
    /\ UNCHANGED << elements, list_stop_flag, TxDisable_Flag, ctl, pumping, bulk, IdleSpace,
                    query, timer, complete_q, fill >>

\* Packet type change, flow stopped by the peer, encryption, role switch, hold.
Bar(c) ==
    /\ "bar" \in Hindrances /\ conn[c] = "up" /\ ~barred[c]
    /\ barred' = [barred EXCEPT ![c] = TRUE]
    /\ UNCHANGED << elements, conn, list_stop_flag, TxDisable_Flag, ctl, pumping, bulk,
                    IdleSpace, query, timer, complete_q, fill >>

Hci_StopL2capFlowTimer(c) ==
    /\ barred[c] /\ barred' = [barred EXCEPT ![c] = FALSE] /\ TxTimer' = TRUE
    /\ UNCHANGED << elements, conn, list_stop_flag, TxDisable_Flag, ctl, pumping, bulk,
                    IdleSpace, query, tested, complete_q, fill >>

Frag_StopQueue(l) ==
    /\ "stop" \in Hindrances /\ list_stop_flag' = [list_stop_flag EXCEPT ![l] = TRUE]
    /\ UNCHANGED << elements, conn, barred, TxDisable_Flag, ctl, pumping, bulk, IdleSpace,
                    query, timer, complete_q, fill >>

Frag_StartQueueForSco ==
    /\ "stop" \in Hindrances
    /\ list_stop_flag' = [l \in List |-> FALSE] /\ TxTimer' = TRUE
    /\ UNCHANGED << elements, conn, barred, TxDisable_Flag, ctl, pumping, bulk, IdleSpace,
                    query, tested, complete_q, fill >>

\* USB_INTERRUPT_FLUSH, and the end of the task it starts.
FlushInt ==
    /\ "flush" \in Hindrances
    /\ pump.pc = "idle" /\ ~TxDisable_Flag /\ TxDisable_Flag' = TRUE
    /\ UNCHANGED << elements, conn, barred, list_stop_flag, ctl, pumping, bulk, IdleSpace,
                    query, timer, complete_q, fill >>

FlushDone ==
    /\ TxDisable_Flag /\ TxDisable_Flag' = FALSE /\ UsbQueryDMASpace
    /\ UNCHANGED << elements, conn, barred, list_stop_flag, ctl, pumping, bulk, IdleSpace,
                    QueryFailCount, timer, complete_q, fill >>

-----------------------------------------------------------------------------
Tasklet == \/ Frag_ProcessSpaceInt \/ CheckTxQueue_Return
           \/ \E l \in List : CheckTxQueue_Control(l)
           \/ CheckTxQueue_Acl \/ ProcessAclFrag_Find \/ ProcessAclFrag_Take
           \/ ProcessAclFrag_NoSpace \/ ProcessAclFrag_Write \/ ProcessAclFrag_WriteFails
           \/ ProcessAclFrag_Put \/ ProcessAclFrag_Back \/ ProcessSpaceInt_End
           \/ Usb_WriteCompletion
Timers == DataSendingTimer_Test \/ DataSendingTimer_Set \/ BtWatchdogTimer
Card == Card_Take \/ Card_Answer \/ Card_Loses \/ \E l \in List : Card_Send(l)
Host == BuildFrag_Put \/ \E c \in Conn : BuildFrag_Take(c)
Rest == \/ \E c \in Conn : \/ Connect(c) \/ Hci_Del_Connect_Device(c)
                           \/ Bar(c) \/ Hci_StopL2capFlowTimer(c)
        \/ \E l \in List : ControlFrame(l) \/ Frag_StopQueue(l)
        \/ Frag_StartQueueForSco \/ FlushInt \/ FlushDone

Step == Tasklet \/ Timers \/ Card \/ Host \/ Rest

\* Connections are taken down between two rounds of the pump, as on a machine
\* with one processor, where a thread never interrupts a tasklet.
Next == Step \/ \E c \in Conn : pump.pc = "idle" /\ Frag_InitTxForConnDev(c)

Spec == Init /\ [][Next]_vars

\* With more processors they are taken down at any time.
SmpSpec == Init /\ [][Step \/ \E c \in Conn : Frag_InitTxForConnDev(c)]_vars

-----------------------------------------------------------------------------
(* Safety.                                                                 *)

InHand(e) == pump.ele = e /\ pump.pc \in {"write", "put", "back"}
Places(e) == UNION { {l} \X {i \in DOMAIN FragList[l] : FragList[l][i] = e} : l \in List }
Count(P) == IF P THEN 1 ELSE 0

\* An element is in one place: once in one list with something left to send,
\* free, being filled by the stack, or in the hands of the pump between its
\* removal from a list and its return (Frag_ProcessAclFrag and
\* Frag_InitTxForConnDev move it under separate sections of FragTxLock).
ElementOwned ==
    \A e \in Element :
       /\ Cardinality(Places(e)) + Count(e \in Free_FragList) + Count(built = e)
            + Count(InHand(e)) = 1
       /\ Places(e) # {} => ele[e].ppid < ele[e].fpid

\* The only transmit buffer is taken exactly as long as its transfer is with
\* the USB stack or its completion waits for the tasklet, whether the transfer
\* succeeds, cannot be submitted or is cancelled by the watchdog: no path
\* keeps it (nothing could be sent any more) or frees it early (a frame
\* being transferred would be overwritten).
BufferFollowsTransfer ==
    TxPool <=> urb # None \/ \E i \in DOMAIN complete_q : complete_q[i] = Written

\* The card is never given more than it can hold.  The driver's view of the
\* space may be stale: queries overlap, and an answer may be older than a
\* transfer.  It is enough because a stale answer precedes the completion of
\* the transfer it does not know of in complete_q.
CardFits == \A l \in List : fill[l] <= MaxSpace

-----------------------------------------------------------------------------
(* The pump sends the packets of each connection in order (BtDataLink).    *)

\* The elements of q at the places in P, in their order.
Rank(i, P) == Cardinality({j \in P : j <= i})
InOrder(q, P) == [k \in 1..Cardinality(P) |-> q[CHOOSE i \in P : Rank(i, P) = k]]

\* The elements of a connection that wait, or are in hand and not all sent.
Mine(e, c) == ele[e].dev = c
InList(c) == LET q == FragList[ListOf[c]] IN InOrder(q, {i \in DOMAIN q : Mine(q[i], c)})
Holds(c) == \E e \in Element : InHand(e) /\ Mine(e, c) /\ ele[e].ppid < ele[e].fpid
OfConn(c) == (IF Holds(c) THEN << pump.ele >> ELSE << >>) \o InList(c)

Part(e) == [packet |-> e, left |-> ele[e].fpid - ele[e].ppid]
Underway == [c \in Conn |-> LET q == OfConn(c) IN [i \in DOMAIN q |-> Part(q[i])]]

Link == INSTANCE BtDataLink WITH Packet <- Element, MaxParts <- MaxWrites, chan <- Underway

\* Whatever is refused, not submitted or put back, and whatever the other
\* connections of a list do, the packets of a connection keep their order.
PacketsInOrder == Link!LinkSpec

-----------------------------------------------------------------------------
(* Liveness.  The tasklet and the timers run; USB does not refuse the      *)
(* writes of one element for ever; the card answers some of infinitely     *)
(* many queries and sends what it holds, but need not take a transfer.     *)

Fairness ==
    /\ WF_vars(Tasklet)
    /\ \A e \in Element : SF_vars(pump.ele = e /\ ProcessAclFrag_Write)
    /\ WF_vars(DataSendingTimer_Test) /\ WF_vars(DataSendingTimer_Set)
    /\ WF_vars(BtWatchdogTimer) /\ WF_vars(BuildFrag_Put)
    /\ SF_vars(Card_Answer) /\ \A l \in List : WF_vars(Card_Send(l))

FairSpec == Spec /\ Fairness

Unhindered == /\ ~TxDisable_Flag
              /\ \A l \in List : ~list_stop_flag[l] /\ ctl[l] = 0
              /\ \A c \in Conn : ~barred[c]

\* When nothing bars the lists any more, every element comes back to the free
\* list again and again: no packet waits for ever, although a query made at
\* the wrong moment is refused and nobody repeats it, answers are lost, and
\* transfers are cancelled.  And whatever bars them, a transfer the card does
\* not take is given up: the buffer comes back.
Drains == /\ <>[]Unhindered => \A e \in Element : []<>(e \in Free_FragList)
          /\ TxPool ~> ~TxPool
=============================================================================
