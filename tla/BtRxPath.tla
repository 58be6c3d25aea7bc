------------------------------ MODULE BtRxPath ------------------------------
(***************************************************************************)
(* The receive path of the Bluetooth driver (bluetooth/bt_sendrecv.c).     *)
(*                                                                         *)
(* The completion tasklet of the bulk-in transfer (Usb_ReadCompletion)     *)
(* takes the frames of a transfer one after the other.  In the state       *)
(* CONNECTED it puts data into the ring RxCach at once and leaves LMP PDUs *)
(* to the worker.  The poll of a slave link not known yet changes the      *)
(* state to CONNECTING: from then on every frame becomes a task, so that   *)
(* the worker handles them in the order of arrival and the data of the new *)
(* link stay behind its set-up.  When the worker has done the last counted *)
(* task and every slave link is set up, or its time is over, the state     *)
(* becomes CONNECTED again.  A second tasklet (BtProcessRx_skb) empties    *)
(* the ring, which also carries the worker's events, to the host.          *)
(*                                                                         *)
(* Tasks and the work items of the driver run on one thread, in the order  *)
(* they were queued; the tasklets interrupt it.  The model is that of one  *)
(* processor: the worker makes no step while a transfer is being handled.  *)
(*                                                                         *)
(* Of the LMP PDUs only the one that completes the set-up of a link is     *)
(* kept.  Voice frames, which have rings of their own, bad-channel and CRC *)
(* reports, role switches and the sequence numbers of the frames are left  *)
(* out; pools and PDU buffers are never exhausted.                         *)
(***************************************************************************)
EXTENDS Integers, Sequences, FiniteSets

CONSTANTS Link,             \* remote devices of which this device is the slave
          Known,            \* those connected from the beginning
          Hid,              \* mice and keyboards
          MAX_RX_CACH_COUNT,
          SetupTicks,       \* connection_timer_count of a new link
          ConnectedTicks,   \* and once it is set up
          HidLimit,         \* data of a mouse or keyboard taken before that
          PendingLimit,     \* counted tasks from which senders are stopped
          MaxBurst,         \* bound: frames of one transfer
          MaxPolls,         \* bound: reports of the poll of a call
          MaxData,          \* bound: data frames of a device
          MaxCalls          \* bound: connections of a device

ASSUME RxPathAssumption ==
    /\ Link # {} /\ Known \subseteq Link /\ Hid \subseteq Link
    /\ MAX_RX_CACH_COUNT \in Nat \ {0, 1}
    /\ SetupTicks \in Nat \ {0} /\ ConnectedTicks \in Nat \ {0}
    /\ HidLimit \in Nat /\ PendingLimit \in Nat \ {0}
    /\ MaxBurst \in Nat \ {0} /\ MaxPolls \in Nat \ {0} /\ MaxData \in [Link -> Nat] /\ MaxCalls \in Nat \ {0}

VARIABLES air,          \* what each device does, and its connection
          sent,         \* data frames each device has sent
          usb,          \* the transfer being handled
          RxState, RxPacketNum,
          tasks,        \* the work queue
          delayed,      \* tasks waiting for their delay
          worker,       \* the thread between two sections of a task
          slave,        \* device_slave_list
          RxCach,       \* the ring from Cid to Pid
          taskletRcv,   \* scheduled
          sched_list,   \* STOP and CONTINUE frames to be sent
          host,         \* the connection of each device the host knows
          late          \* history: the set-up was slow or its event delayed

vars == << air, sent, usb, RxState, RxPacketNum, tasks, delayed, worker, slave,
           RxCach, taskletRcv, sched_list, host, late >>

Frame == [kind : {"POLL", "SETUP", "DATA"}, link : Link, call : 1..MaxCalls, n : Nat]
Element == [what : {"DATA", "COMPLETE", "GONE"}, link : Link, call : 1..MaxCalls, n : Nat]
Task == [event : {"RX_INT", "RX_LMP", "RX_FHS"}, frame : Frame]
          \cup [event : {"SEND"}, frame : Element]
Absent == [there |-> FALSE, call |-> 1, setup |-> FALSE, timer |-> 0, state |-> 0,
           allowed |-> 0, flow |-> FALSE]
NoTransfer == [mode |-> "none", room |-> MaxBurst, stop |-> FALSE, polled |-> FALSE,
               submit |-> FALSE]

TypeOK ==
    /\ air \in [Link -> [phase : {"away", "paging", "paged", "open", "closed"},
                         call : 0..MaxCalls, polls : 0..MaxPolls]]
    /\ sent \in [Link -> Nat]
    /\ usb \in [mode : {"none", "CONNECTED", "CONNECTING"}, room : 0..MaxBurst,
                stop : BOOLEAN, polled : BOOLEAN, submit : BOOLEAN]
    /\ RxState \in {"CONNECTED", "CONNECTING"} /\ RxPacketNum \in Nat
    /\ tasks \in Seq(Task) /\ delayed \subseteq Element
    /\ worker \in [pc : {"idle", "count", "check", "change", "delete"}, link : Link]
    /\ slave \in [Link -> [there : BOOLEAN, call : 1..MaxCalls, setup : BOOLEAN,
                           timer : 0..SetupTicks+ConnectedTicks, state : 0..1,
                           allowed : 0..HidLimit+1, flow : BOOLEAN]]
    /\ RxCach \in Seq(Element) /\ Len(RxCach) < MAX_RX_CACH_COUNT
    /\ taskletRcv \in BOOLEAN
    /\ sched_list \in Seq([event : {"STOP", "CONTINUE"}, link : Link])
    /\ host \in [Link -> [open : BOOLEAN, call : 0..MaxCalls, n : Nat]]
    /\ late \in [Link -> BOOLEAN]

Init ==
    /\ air = [l \in Link |-> IF l \in Known THEN [phase |-> "open", call |-> 1, polls |-> 0]
                                            ELSE [phase |-> "away", call |-> 0, polls |-> 0]]
    /\ sent = [l \in Link |-> 0] /\ usb = NoTransfer
    /\ RxState = "CONNECTED" /\ RxPacketNum = 0
    /\ tasks = << >> /\ delayed = {}
    /\ worker = [pc |-> "idle", link |-> CHOOSE l \in Link : TRUE]
    /\ slave = [l \in Link |->
                  IF l \in Known THEN [Absent EXCEPT !.there = TRUE, !.setup = TRUE, !.state = 1]
                                 ELSE Absent]
    /\ RxCach = << >> /\ taskletRcv = FALSE /\ sched_list = << >>
    /\ host = [l \in Link |-> [open |-> l \in Known, call |-> IF l \in Known THEN 1 ELSE 0,
                               n |-> 0]]
    /\ late = [l \in Link |-> FALSE]

-----------------------------------------------------------------------------
(* The ring, the scheduler's list and the work queue.                      *)

BtIsRxCachFull == Len(RxCach) = MAX_RX_CACH_COUNT - 1

\* At most half of the ring is free.
BtIsRxCachToBeFull == MAX_RX_CACH_COUNT - Len(RxCach) - 1 <= MAX_RX_CACH_COUNT \div 2

\* sched_list with a frame asked for, which it holds once.
Asked(list, event, l) ==
    LET block == [event |-> event, link |-> l]
    IN  IF \E i \in 1..Len(list) : list[i] = block THEN list ELSE Append(list, block)

\* The STOP frame asked for when the receiver is short of room.
Sched_SendAclNullStopFrame(l, short) ==
    sched_list' = IF short /\ slave[l].there /\ ~slave[l].flow
                  THEN Asked(sched_list, "STOP", l) ELSE sched_list

\* Data put into the ring; when it is full they are lost.
PutData(f) ==
    IF BtIsRxCachFull THEN UNCHANGED << RxCach, sched_list >>
    ELSE /\ Sched_SendAclNullStopFrame(f.link, BtIsRxCachToBeFull)
         /\ RxCach' = Append(RxCach, [what |-> "DATA", link |-> f.link, call |-> f.call,
                                      n |-> f.n])

\* Faulty variant: the room of the ring is not tested.
PutEventAlways(e) ==
    /\ RxCach' = Append(RxCach, e) /\ taskletRcv' = TRUE
    /\ UNCHANGED << delayed, late >>

\* Faulty variant: the tasklet is not scheduled.
PutEventSilently(e) ==
    /\ RxCach' = Append(RxCach, e)
    /\ UNCHANGED << taskletRcv, delayed, late >>

\* An event put into the ring; when it is full a task tries again later.
PutEvent(e) ==
    IF BtIsRxCachFull
    THEN /\ delayed' = delayed \cup {e} /\ late' = [late EXCEPT ![e.link] = TRUE]
         /\ UNCHANGED << RxCach, taskletRcv >>
    ELSE /\ RxCach' = Append(RxCach, e) /\ taskletRcv' = TRUE
         /\ UNCHANGED << delayed, late >>

Task_CreateTask(event, f) == tasks' = Append(tasks, [event |-> event, frame |-> f])

-----------------------------------------------------------------------------
(* The devices.                                                            *)

\* A device pages when nothing of its last connection is under way any more:
\* paging takes longer than what the tasklet and the worker have to do.
Page(l) ==
    /\ l \notin Known /\ air[l].phase \in {"away", "closed"} /\ air[l].call < MaxCalls
    /\ ~slave[l].there /\ worker.pc # "delete"
    /\ \A i \in 1..Len(RxCach) : RxCach[i].link # l
    /\ \A i \in 1..Len(tasks) : tasks[i].frame.link # l
    /\ \A e \in delayed : e.link # l
    /\ air' = [air EXCEPT ![l] = [phase |-> "paging", call |-> air[l].call + 1,
                                   polls |-> 0]]
    /\ UNCHANGED << sent, usb, RxState, RxPacketNum, tasks, delayed, worker, slave, RxCach,
                    taskletRcv, sched_list, host, late >>

\* The frames the card may deliver next: it reports the poll of a device
\* again until the device is answered, one in a transfer; the PDU that
\* completes a set-up follows those of the worker, which only a listed link
\* is sent; a stopped device sends no data.
CardSends(f) ==
    LET phase == air[f.link].phase
    IN  \/ /\ f.kind = "POLL" /\ phase \in {"paging", "paged"} /\ ~usb.polled
           /\ air[f.link].polls < MaxPolls
           /\ air' = [air EXCEPT ![f.link] = [phase |-> "paged", call |-> @.call,
                                               polls |-> @.polls + 1]]
           /\ UNCHANGED sent
        \/ /\ f.kind = "SETUP" /\ phase = "paged" /\ slave[f.link].there
           /\ air' = [air EXCEPT ![f.link].phase = "open"]
           /\ UNCHANGED sent
        \/ /\ f.kind = "DATA" /\ phase \in {"open", "closed"} /\ ~slave[f.link].flow
           /\ sent[f.link] < MaxData[f.link]
           /\ sent' = [sent EXCEPT ![f.link] = f.n]
           /\ UNCHANGED air

-----------------------------------------------------------------------------
(* The completion tasklet.                                                 *)

\* A transfer is complete: the state is read once for all its frames.
\* Before they become tasks, whether senders are to be stopped is decided.
Usb_ReadCompletion ==
    /\ usb.mode = "none"
    /\ usb' = [NoTransfer EXCEPT
                 !.mode = RxState,
                 !.stop = RxState = "CONNECTING"
                            /\ (BtIsRxCachToBeFull \/ RxPacketNum >= PendingLimit)]
    /\ UNCHANGED << air, sent, RxState, RxPacketNum, tasks, delayed, worker, slave, RxCach,
                    taskletRcv, sched_list, host, late >>

\* The poll of a slave link already listed only restarts its supervision
\* timer.  Another one is left to the worker, and the state changes.
BtProcessRxPoolFrame(f) ==
    IF slave[f.link].there
    THEN /\ usb' = [usb EXCEPT !.room = @ - 1]
         /\ UNCHANGED << tasks, RxState, RxPacketNum >>
    ELSE /\ Task_CreateTask("RX_FHS", f)
         /\ RxState' = "CONNECTING" /\ RxPacketNum' = 1
         /\ usb' = [usb EXCEPT !.room = @ - 1, !.polled = TRUE]

\* A frame of a transfer that came in the state CONNECTED.
BtProcessRx_New(f) ==
    /\ usb.mode = "CONNECTED" /\ usb.room > 0 /\ CardSends(f)
    /\ \/ /\ f.kind = "POLL" /\ BtProcessRxPoolFrame(f)
          /\ UNCHANGED << RxCach, sched_list >>
       \/ /\ f.kind = "SETUP" /\ Task_CreateTask("RX_LMP", f)
          /\ usb' = [usb EXCEPT !.room = @ - 1]
          /\ UNCHANGED << RxState, RxPacketNum, RxCach, sched_list >>
       \/ /\ f.kind = "DATA" /\ PutData(f)
          /\ usb' = [usb EXCEPT !.room = @ - 1, !.submit = TRUE]
          /\ UNCHANGED << RxState, RxPacketNum, tasks >>
    /\ UNCHANGED << delayed, worker, slave, taskletRcv, host, late >>

\* Data of a mouse or keyboard beyond HidLimit before its set-up is over.
TooManyHidData(f) ==
    f.link \in Hid /\ slave[f.link].state = 0 /\ slave[f.link].allowed > HidLimit

CountHidData(f) ==
    slave' = IF f.link \in Hid /\ slave[f.link].state = 0
             THEN [slave EXCEPT ![f.link].allowed = @ + 1] ELSE slave

\* A frame of a transfer that came in the state CONNECTING.
BtPreProcessPacket(f) ==
    /\ usb.mode = "CONNECTING" /\ usb.room > 0 /\ CardSends(f)
    /\ usb' = [usb EXCEPT !.room = @ - 1]
    /\ \/ /\ f.kind # "DATA"
          /\ UNCHANGED << slave, sched_list >>
          /\ Task_CreateTask("RX_INT", f) /\ RxPacketNum' = RxPacketNum + 1
       \/ /\ f.kind = "DATA" /\ slave[f.link].there /\ ~TooManyHidData(f)
          /\ CountHidData(f)
          /\ Sched_SendAclNullStopFrame(f.link,
                usb.stop /\ ~(f.link \in Hid /\ slave[f.link].state = 0))
          /\ Task_CreateTask("RX_INT", f) /\ RxPacketNum' = RxPacketNum + 1
       \/ /\ f.kind = "DATA" /\ (~slave[f.link].there \/ TooManyHidData(f))
          /\ UNCHANGED << slave, sched_list, tasks, RxPacketNum >>
    /\ UNCHANGED << RxState, delayed, worker, RxCach, taskletRcv, host, late >>

\* The last frame is done (there may be frames of other kinds only), and the
\* next transfer is submitted.
BtUsbSubmitReadIrp ==
    /\ usb.mode # "none"
    /\ usb' = NoTransfer
    /\ taskletRcv' = (taskletRcv \/ usb.submit)
    /\ UNCHANGED << air, sent, RxState, RxPacketNum, tasks, delayed, worker, slave, RxCach,
                    sched_list, host, late >>

-----------------------------------------------------------------------------
(* The worker.                                                             *)

WorkerFree == usb.mode = "none" /\ worker.pc = "idle"

\* The device whose address the card holds is added, if it is not listed.
BtTaskProcessRxPoolFrame(f) ==
    /\ \/ /\ slave[f.link].there
          /\ UNCHANGED << slave, late >>
       \/ /\ ~slave[f.link].there
          /\ slave' = [slave EXCEPT ![f.link] = [Absent EXCEPT
                         !.there = TRUE, !.call = f.call, !.timer = SetupTicks]]
          /\ late' = [late EXCEPT ![f.link] = FALSE]
    /\ UNCHANGED << RxCach, taskletRcv, sched_list, delayed >>

\* When the set-up is over the timer of the receive state, if it still runs,
\* is set to its shorter time; the event that the link is there is put next.
Hci_SlaveConnected(l) ==
    slave' = [slave EXCEPT ![l].setup = TRUE,
                           ![l].timer = IF @ > 0 THEN ConnectedTicks ELSE 0,
                           ![l].state = IF slave[l].timer > 0 THEN 0 ELSE @]

LMP_setup_complete(f) ==
    /\ \/ /\ slave[f.link].there /\ ~slave[f.link].setup
          /\ PutEvent([what |-> "COMPLETE", link |-> f.link, call |-> slave[f.link].call,
                       n |-> 0])
          /\ Hci_SlaveConnected(f.link)
       \/ /\ ~(slave[f.link].there /\ ~slave[f.link].setup)
          /\ UNCHANGED << RxCach, taskletRcv, delayed, late, slave >>
    /\ UNCHANGED sched_list

\* A frame kept as a task is handled as it would have been at once.
BtTaskProcessRx(f) ==
    \/ /\ f.kind = "POLL" /\ BtTaskProcessRxPoolFrame(f)
    \/ /\ f.kind = "SETUP" /\ LMP_setup_complete(f)
    \/ /\ f.kind = "DATA" /\ PutData(f) /\ taskletRcv' = TRUE
       /\ UNCHANGED << delayed, late, slave >>

\* The next task.  The tasks that are counted go on to the count.
Task_ThreadRoutine ==
    /\ WorkerFree /\ tasks # << >>
    /\ LET t == Head(tasks)
       IN  /\ tasks' = Tail(tasks)
           /\ worker' = [worker EXCEPT !.pc = IF t.event \in {"RX_INT", "RX_FHS"}
                                              THEN "count" ELSE "idle"]
           /\ \/ t.event = "RX_INT" /\ BtTaskProcessRx(t.frame)
              \/ t.event = "RX_FHS" /\ BtTaskProcessRxPoolFrame(t.frame)
              \/ t.event = "RX_LMP" /\ LMP_setup_complete(t.frame)
              \/ t.event = "SEND" /\ PutEvent(t.frame) /\ UNCHANGED << slave, sched_list >>
    /\ UNCHANGED << air, sent, usb, RxState, RxPacketNum, host >>

CountTask ==
    /\ usb.mode = "none" /\ worker.pc = "count"
    /\ RxPacketNum' = RxPacketNum - 1
    /\ worker' = [worker EXCEPT !.pc = IF RxPacketNum = 1 THEN "check" ELSE "idle"]
    /\ UNCHANGED << air, sent, usb, RxState, tasks, delayed, slave, RxCach, taskletRcv,
                    sched_list, host, late >>

\* Faulty variant: the slave links are not looked at.
CheckNothing ==
    /\ usb.mode = "none" /\ worker.pc = "check"
    /\ worker' = [worker EXCEPT !.pc = "change"]
    /\ UNCHANGED << air, sent, usb, RxState, RxPacketNum, tasks, delayed, slave, RxCach,
                    taskletRcv, sched_list, host, late >>

\* After the last counted task: are all slave links set up or out of time?
BtCheckAndChangeRxState ==
    /\ usb.mode = "none" /\ worker.pc = "check"
    /\ worker' = [worker EXCEPT !.pc = IF \A l \in Link : slave[l].there => slave[l].state = 1
                                       THEN "change" ELSE "idle"]
    /\ UNCHANGED << air, sent, usb, RxState, RxPacketNum, tasks, delayed, slave, RxCach,
                    taskletRcv, sched_list, host, late >>

\* Faulty variant: the count is not looked at again.
ChangeRxStateAnyway ==
    /\ usb.mode = "none" /\ worker.pc = "change"
    /\ RxState' = "CONNECTED"
    /\ worker' = [worker EXCEPT !.pc = "idle"]
    /\ UNCHANGED << air, sent, usb, RxPacketNum, tasks, delayed, slave, RxCach, taskletRcv,
                    sched_list, host, late >>

\* The second section: frames may have come since the count was nought.
ChangeRxState ==
    /\ usb.mode = "none" /\ worker.pc = "change"
    /\ RxState' = IF RxPacketNum = 0 THEN "CONNECTED" ELSE RxState
    /\ worker' = [worker EXCEPT !.pc = "idle"]
    /\ UNCHANGED << air, sent, usb, RxPacketNum, tasks, delayed, slave, RxCach, taskletRcv,
                    sched_list, host, late >>

\* A link ends (a detach, a command or a timeout, all handled by the worker):
\* the event first, and the entry of the link after several requests to the
\* card.  The device then has no link, though data of it may be under way.
SendDisconnection(l) ==
    /\ WorkerFree /\ slave[l].there
    /\ worker' = [pc |-> "delete", link |-> l]
    /\ IF slave[l].setup
       THEN PutEvent([what |-> "GONE", link |-> l, call |-> slave[l].call, n |-> 0])
       ELSE UNCHANGED << RxCach, taskletRcv, delayed, late >>
    /\ UNCHANGED << air, sent, usb, RxState, RxPacketNum, tasks, slave, sched_list, host >>

Hci_Del_Slave_Connect_Device ==
    /\ usb.mode = "none" /\ worker.pc = "delete"
    /\ worker' = [worker EXCEPT !.pc = "idle"]
    /\ slave' = [slave EXCEPT ![worker.link] = Absent]
    /\ air' = [air EXCEPT ![worker.link].phase = IF @ = "open" THEN "closed" ELSE "away"]
    /\ taskletRcv' = TRUE
    /\ UNCHANGED << sent, usb, RxState, RxPacketNum, tasks, delayed, RxCach, sched_list,
                    host, late >>

-----------------------------------------------------------------------------
(* The delay of a task, the watchdog timer, the scheduler and the tasklet  *)
(* that empties the ring.                                                  *)

DelayOver ==
    /\ \E e \in delayed :
         /\ delayed' = delayed \ {e}
         /\ tasks' = Append(tasks, [event |-> "SEND", frame |-> e])
    /\ UNCHANGED << air, sent, usb, RxState, RxPacketNum, worker, slave, RxCach, taskletRcv,
                    sched_list, host, late >>

Hci_SlaveConnectionTimeOut ==
    /\ usb.mode = "none" /\ \E l \in Link : slave[l].timer > 0
    /\ slave' = [l \in Link |->
                   IF slave[l].timer = 0 THEN slave[l]
                   ELSE [slave[l] EXCEPT !.timer = @ - 1,
                                         !.state = IF slave[l].timer = 1 THEN 1 ELSE @]]
    /\ late' = [l \in Link |-> late[l] \/ (slave[l].timer = 1 /\ ~slave[l].setup)]
    /\ UNCHANGED << air, sent, usb, RxState, RxPacketNum, tasks, delayed, worker, RxCach,
                    taskletRcv, sched_list, host >>

\* The scheduler sends the first frame of its list; only now the flag that
\* says whether the device is stopped is set.
Sched_Excute ==
    /\ sched_list # << >>
    /\ sched_list' = Tail(sched_list)
    /\ LET b == Head(sched_list)
       IN  slave' = IF slave[b.link].there
                    THEN [slave EXCEPT ![b.link].flow = b.event = "STOP"] ELSE slave
    /\ UNCHANGED << air, sent, usb, RxState, RxPacketNum, tasks, delayed, worker, RxCach,
                    taskletRcv, host, late >>

\* What the host learns from an element.
HandUp(e) ==
    host' = [host EXCEPT ![e.link] =
               CASE e.what = "COMPLETE" -> [open |-> TRUE, call |-> e.call, n |-> @.n]
                 [] e.what = "GONE" -> [@ EXCEPT !.open = FALSE]
                 [] e.what = "DATA" -> [@ EXCEPT !.n = e.n]]

\* The tasklet takes the ring's elements one after the other.  Data whose
\* link is not listed are dropped; a device that is stopped is told to go on.
BtProcessRx_skb ==
    /\ taskletRcv
    /\ \/ /\ RxCach = << >> /\ taskletRcv' = FALSE
          /\ UNCHANGED << RxCach, host, sched_list >>
       \/ /\ RxCach # << >> /\ RxCach' = Tail(RxCach)
          /\ LET e == Head(RxCach)
             IN  \/ /\ e.what = "DATA" /\ ~slave[e.link].there
                    /\ UNCHANGED << host, sched_list >>
                 \/ /\ e.what = "DATA" /\ slave[e.link].there
                    /\ HandUp(e)
                    /\ sched_list' = IF slave[e.link].flow
                                     THEN Asked(sched_list, "CONTINUE", e.link)
                                     ELSE sched_list
                 \/ /\ e.what # "DATA" /\ HandUp(e) /\ UNCHANGED sched_list
          /\ UNCHANGED taskletRcv
    /\ UNCHANGED << air, sent, usb, RxState, RxPacketNum, tasks, delayed, worker, slave, late >>

-----------------------------------------------------------------------------
Receive ==
    \/ Usb_ReadCompletion \/ BtUsbSubmitReadIrp
    \/ \E l \in Link, kind \in {"POLL", "SETUP", "DATA"} :
         /\ air[l].call > 0
         /\ LET f == [kind |-> kind, link |-> l, call |-> air[l].call,
                      n |-> IF kind = "DATA" THEN sent[l] + 1 ELSE 0]
            IN  BtProcessRx_New(f) \/ BtPreProcessPacket(f)

Worker ==
    \/ Task_ThreadRoutine \/ CountTask \/ BtCheckAndChangeRxState \/ ChangeRxState
    \/ Hci_Del_Slave_Connect_Device

Next ==
    \/ Receive \/ Worker
    \/ \E l \in Link : Page(l) \/ SendDisconnection(l)
    \/ DelayOver \/ Hci_SlaveConnectionTimeOut \/ Sched_Excute \/ BtProcessRx_skb

Spec == Init /\ [][Next]_vars

\* The work queue, the tasklets, the delays and the scheduler go on; a
\* transfer once begun ends.
FairSpec ==
    /\ Spec
    /\ SF_vars(Worker) /\ WF_vars(BtUsbSubmitReadIrp) /\ WF_vars(DelayOver)
    /\ WF_vars(BtProcessRx_skb) /\ WF_vars(Sched_Excute)

-----------------------------------------------------------------------------
(* Properties.                                                             *)

\* RxPacketNum counts the tasks made of frames that are not finished, and in
\* the state CONNECTED there is none, so that data put into the ring at once
\* overtake nothing.
Unfinished ==
    Cardinality({i \in 1..Len(tasks) : tasks[i].event \in {"RX_INT", "RX_FHS"}})
        + (IF worker.pc = "count" THEN 1 ELSE 0)

CountIsExact == /\ RxPacketNum = Unfinished
                /\ RxState = "CONNECTED" => Unfinished = 0

\* Data of a connection are handed to the host after its Connection Complete
\* event and in the order they came, unless the set-up took longer than the
\* receive state waits for it or the event found the ring full.
DataFollowConnection ==
    [][\A l \in Link : host'[l].n # host[l].n =>
          /\ host'[l].n > host[l].n
          /\ slave[l].call = host[l].call \/ late[l]]_vars

\* What was received is handled: the tasks, the ring and the scheduler's list
\* become empty, and a stopped device whose data are in the ring goes on.
AllIsServed ==
    /\ []<>(tasks = << >> /\ delayed = {} /\ worker.pc = "idle")
    /\ []<>(RxCach = << >>)
    /\ \A l \in Link : (slave[l].flow /\ RxCach # << >> /\ Head(RxCach).what = "DATA"
                           /\ Head(RxCach).link = l)
                          ~> (~slave[l].flow)
=============================================================================
