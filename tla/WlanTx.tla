------------------------------- MODULE WlanTx -------------------------------
(***************************************************************************)
(* The transmit path of the WLAN driver (wlan/usbwlan_tx.c, UsbDev.c).     *)
(*                                                                         *)
(* One frame at a time is on its way to the card, as two USB transfers, a  *)
(* head and a body; when both have completed the tasklet sends the next.   *)
(* A data frame that was sent is kept in retry_frm_que: when the card      *)
(* could not deliver its last n frames it says so with an interrupt, and   *)
(* they are sent again from there, from tx_retry_index on, before any new  *)
(* data.  Nothing runs the tasklet but an event: a frame handed over, a    *)
(* frame sent, a retry interrupt, the end of a stop.                       *)
(*                                                                         *)
(* Contexts, on one processor: the softirqs (the network stack, the tx     *)
(* tasklet, the completion tasklet) exclude each other; the retry          *)
(* interrupt comes between any two steps of them; the threads run between  *)
(* them, and are interrupted by all.  A section under tx_list_lock or      *)
(* pool_lock that leaves the interrupt on (spin_lock, spin_lock_bh), and a *)
(* removal under no lock, which has only to fear what interrupts it, is    *)
(* two steps: what it reads of the queue, and what it then writes.  The    *)
(* queue of high priority is left out, for no caller uses it, and so are   *)
(* the rates, joining and the skb copies.                                  *)
(***************************************************************************)
EXTENDS Integers, Sequences, FiniteSets

CONSTANTS Msdu,        \* tx_msdu_pool
          Mmpdu,       \* tx_mmpdu_pool
          None,
          RetryList,   \* DSP_RETRY_LIST_NUM
          RetryMax,    \* MSDU_RETRY_MAX
          MaxReturned, \* MAX_TX_PACKETS_NUM
          Budget       \* bounds: how often the rarer things happen

VARIABLES free, node_free, free_mng,    \* the pools
          data_que, mng_que, retry_que,
          retry_count, DspSendOkFlag,   \* fields of a frame
          in_working,                   \* its Tx_..._irp_in_working flags
          tx_retry_valid, tx_retry_index,
          sending_msdu, tx_busy_sending,
          scheduled,                    \* the tx tasklet is
          tx,                           \* the tasklet inside _tx_routine
          urb, done,                    \* transfers, and those in complete_q
          taking,                       \* _tx_alloc_msdu, and what it read
          sent,                         \* the completion of a whole frame
          watching,                     \* tx_watching_timer
          driver_state,
          task, worker,                 \* the timeout task, the task thread
          left                          \* of the budget

pools   == << free, node_free, free_mng, taking >>
queues  == << data_que, mng_que, retry_que >>
frames  == << retry_count, DspSendOkFlag, in_working >>
retry   == << tx_retry_valid, tx_retry_index >>
sending == << sending_msdu, tx_busy_sending >>
usb     == << urb, done >>
threads == << driver_state, task, worker >>
vars == << pools, queues, frames, retry, sending, scheduled, tx, usb, sent, watching,
           threads, left >>

Frame == Msdu \cup Mmpdu
Part == {"head", "body"}
Bounded == {"mng", "retry", "fail", "watch", "cancel"}

ASSUME TxAssumption ==
    /\ IsFiniteSet(Msdu) /\ IsFiniteSet(Mmpdu) /\ Msdu \cap Mmpdu = {} /\ None \notin Frame
    /\ RetryList \in Nat \ {0, 1} /\ RetryMax \in Nat \ {0} /\ MaxReturned \in Nat \ {0}
    /\ Budget \in [Bounded -> Nat]

TypeOK ==
    /\ free \subseteq Msdu /\ node_free \in Int /\ free_mng \subseteq Mmpdu
    /\ data_que \in Seq(Msdu) /\ retry_que \in Seq(Msdu) /\ mng_que \in Seq(Mmpdu)
    /\ retry_count \in [Msdu -> 0..RetryMax]
    /\ DspSendOkFlag \in [Frame -> 0..2] /\ in_working \in [Frame -> SUBSET Part]
    /\ tx_retry_valid \in BOOLEAN /\ tx_retry_index \in Nat
    /\ sending_msdu \in Frame \cup {None} /\ tx_busy_sending \in BOOLEAN
    /\ scheduled \in BOOLEAN
    /\ tx \in [at : {"idle", "find", "clear", "data", "head", "body", "record", "advance",
                     "back"}, m : Frame \cup {None}]
    /\ urb \in [Part -> Frame \cup {None}] /\ done \subseteq Part
    /\ taking \in [m : Msdu \cup {None}, node : Int, only : BOOLEAN]
    /\ sent \in [at : {"none", "done", "room", "full", "drop"}, m : Frame \cup {None},
                 old : Msdu \cup {None}]
    /\ watching \in BOOLEAN /\ driver_state \in {"WORK", "STOP_TX"} /\ task \in BOOLEAN
    /\ worker \in [at : {"idle", "wait_head", "wait_body", "restore", "load", "pop", "drop",
                         "init", "end"},
                   m : Frame \cup {None}, stop : BOOLEAN, returned : BOOLEAN,
                   q : {"data", "retry"}]
    /\ left \in [Bounded -> Nat]

NoRoutine == [at |-> "idle", m |-> None]
NotTaking == [m |-> None, node |-> 0, only |-> FALSE]
NoSent == [at |-> "none", m |-> None, old |-> None]
NoWork == [at |-> "idle", m |-> None, stop |-> FALSE, returned |-> TRUE, q |-> "data"]

Init ==
    /\ free = Msdu /\ node_free = Cardinality(Msdu) /\ free_mng = Mmpdu
    /\ data_que = << >> /\ mng_que = << >> /\ retry_que = << >>
    /\ retry_count = [m \in Msdu |-> 0]
    /\ DspSendOkFlag = [m \in Frame |-> 0] /\ in_working = [m \in Frame |-> {}]
    /\ tx_retry_valid = FALSE /\ tx_retry_index = 0
    /\ sending_msdu = None /\ tx_busy_sending = FALSE
    /\ scheduled = FALSE /\ tx = NoRoutine
    /\ urb = [p \in Part |-> None] /\ done = {} /\ taking = NotTaking /\ sent = NoSent
    /\ watching = FALSE /\ driver_state = "WORK" /\ task = FALSE /\ worker = NoWork
    /\ left = Budget

-----------------------------------------------------------------------------
InQueue(q) == {q[i] : i \in DOMAIN q}
Spend(what) == left[what] > 0 /\ left' = [left EXCEPT ![what] = @ - 1]

\* On one processor no softirq interrupts another, and no thread a softirq.
SoftirqIdle == tx.at = "idle" /\ sent = NoSent /\ taking = NotTaking

\* QueuePopHead: what it removes is what it finds when it reads again.
Rest(q) == IF q = << >> THEN << >> ELSE Tail(q)

\* _tx_release_msdu of data frames; their fields are cleared.
Release(M) ==
    /\ free' = free \cup M /\ node_free' = node_free + Cardinality(M)
    /\ retry_count' = [m \in Msdu |-> IF m \in M THEN 0 ELSE retry_count[m]]
    /\ DspSendOkFlag' = [m \in Frame |-> IF m \in M THEN 0 ELSE DspSendOkFlag[m]]
    /\ in_working' = [m \in Frame |-> IF m \in M THEN {} ELSE in_working[m]]

-----------------------------------------------------------------------------
(* Frames are handed over.                                                 *)

\* _wlan_netdev_xmit: nothing is taken when the pool is exhausted.  It reads
\* the head of the pool, what follows it, and the count.
Adap_Send ==
    /\ SoftirqIdle /\ driver_state = "WORK" /\ node_free # 0
    /\ \E m \in free : taking' = [m |-> m, node |-> node_free, only |-> free = {m}]
    /\ UNCHANGED << free, node_free, free_mng, queues, frames, retry, sending, scheduled, tx,
                    usb, sent, watching, threads, left >>

\* Nothing followed the frame when it was read: the pool is written empty,
\* whatever was put behind it since.
Alloc_Take ==
    /\ taking # NotTaking
    /\ free' = IF taking.only THEN {} ELSE free \ {taking.m}
    /\ node_free' = taking.node - 1
    /\ data_que' = Append(data_que, taking.m)
    /\ scheduled' = TRUE /\ taking' = NotTaking
    /\ UNCHANGED << free_mng, mng_que, retry_que, frames, retry, sending, tx, usb, sent,
                    watching, threads, left >>

Tx_Transmit_mng_frame ==
    /\ SoftirqIdle /\ Spend("mng")
    /\ \E m \in free_mng : free_mng' = free_mng \ {m} /\ mng_que' = Append(mng_que, m)
    /\ scheduled' = TRUE
    /\ UNCHANGED << free, node_free, taking, data_que, retry_que, frames, retry, sending, tx, usb,
                    sent, watching, threads >>

-----------------------------------------------------------------------------
(* _tx_routine, the tx tasklet, and _tx_submit_msdu.                       *)

Resume(at, m) == tx' = [at |-> at, m |-> m]

Routine_Return ==
    /\ SoftirqIdle /\ scheduled /\ (tx_busy_sending \/ driver_state # "WORK")
    /\ scheduled' = FALSE
    /\ UNCHANGED << pools, queues, frames, retry, sending, tx, usb, sent, watching, threads,
                    left >>

\* Management frames go first, then what must be sent again, then new data.
Routine_Start ==
    /\ SoftirqIdle /\ scheduled /\ ~tx_busy_sending /\ driver_state = "WORK"
    /\ scheduled' = FALSE
    /\ IF mng_que # << >>
         THEN Resume("head", Head(mng_que)) /\ mng_que' = Tail(mng_que)
         ELSE Resume(IF tx_retry_valid THEN "find" ELSE "data", None) /\ UNCHANGED mng_que
    /\ UNCHANGED << pools, data_que, retry_que, frames, retry, sending, usb, sent, watching,
                    threads, left >>

\* The index counts from 0.
Routine_Find ==
    /\ tx.at = "find"
    /\ IF tx_retry_index < Len(retry_que)
         THEN Resume("head", retry_que[tx_retry_index + 1])
         ELSE Resume("clear", None)
    /\ UNCHANGED << pools, queues, frames, retry, sending, scheduled, usb, sent, watching,
                    threads, left >>

Routine_Clear ==
    /\ tx.at = "clear"
    /\ tx_retry_valid' = FALSE /\ tx_retry_index' = 0
    /\ Resume("data", None)
    /\ UNCHANGED << pools, queues, frames, sending, scheduled, usb, sent, watching, threads,
                    left >>

Routine_Data ==
    /\ tx.at = "data"
    /\ IF data_que = << >>
         THEN Resume("idle", None) /\ UNCHANGED data_que
         ELSE Resume("head", Head(data_que)) /\ data_que' = Tail(data_que)
    /\ UNCHANGED << pools, mng_que, retry_que, frames, retry, sending, scheduled, usb, sent,
                    watching, threads, left >>

\* A transfer is submitted unless its pipe is in use or USB refuses it.
Submit(p) ==
    \/ /\ urb[p] = None
       /\ urb' = [urb EXCEPT ![p] = tx.m]
       /\ Resume(IF p = "head" THEN "body" ELSE "record", tx.m)
       /\ UNCHANGED left
    \/ /\ urb[p] # None /\ Resume("back", tx.m) /\ UNCHANGED << urb, left >>
    \/ /\ urb[p] = None /\ Spend("fail") /\ Resume("back", tx.m) /\ UNCHANGED urb

IsRetry(m) == m \in InQueue(retry_que)

\* A frame sent again at the lowest rate is not tried another time.
Submit_Head ==
    /\ tx.at = "head"
    /\ DspSendOkFlag' = [DspSendOkFlag EXCEPT ![tx.m] = 2]
    /\ in_working' = [in_working EXCEPT ![tx.m] = Part]
    /\ IF IsRetry(tx.m)
         THEN retry_count' \in {retry_count, [retry_count EXCEPT ![tx.m] = RetryMax]}
         ELSE UNCHANGED retry_count
    /\ watching' = TRUE
    /\ Submit("head")
    /\ UNCHANGED << pools, queues, retry, sending, scheduled, done, sent, threads >>

Submit_Body ==
    /\ tx.at = "body" /\ Submit("body")
    /\ UNCHANGED << pools, queues, frames, retry, sending, scheduled, done, sent, watching,
                    threads >>

Submit_Record ==
    /\ tx.at = "record"
    /\ sending_msdu' = tx.m /\ tx_busy_sending' = TRUE
    /\ IF IsRetry(tx.m) THEN Resume("advance", tx.m) ELSE Resume("idle", None)
    /\ UNCHANGED << pools, queues, frames, retry, scheduled, usb, sent, watching, threads, left >>

Routine_Advance ==
    /\ tx.at = "advance"
    /\ tx_retry_index' = tx_retry_index + 1
    /\ Resume("idle", None)
    /\ UNCHANGED << pools, queues, frames, tx_retry_valid, sending, scheduled, usb, sent,
                    watching, threads, left >>

\* Faulty variant: every frame goes back to the data queue.
BackToData ==
    /\ tx.at = "back"
    /\ data_que' = IF IsRetry(tx.m) THEN data_que ELSE << tx.m >> \o data_que
    /\ Resume("idle", None)
    /\ UNCHANGED << pools, mng_que, retry_que, frames, retry, sending, scheduled, usb, sent,
                    watching, threads, left >>

\* A frame that could not be submitted goes back to the head of its queue.
Routine_Back ==
    /\ tx.at = "back"
    /\ IF tx.m \in Mmpdu
         THEN mng_que' = << tx.m >> \o mng_que /\ UNCHANGED data_que
         ELSE /\ data_que' = IF IsRetry(tx.m) THEN data_que ELSE << tx.m >> \o data_que
              /\ UNCHANGED mng_que
    /\ Resume("idle", None)
    /\ UNCHANGED << pools, retry_que, frames, retry, sending, scheduled, usb, sent, watching,
                    threads, left >>

-----------------------------------------------------------------------------
(* Completion of the transfers.                                            *)

\* Usb_Completion_Imp, in the interrupt.
Usb_Completion(p) ==
    /\ urb[p] # None /\ p \notin done
    /\ done' = done \cup {p}
    /\ UNCHANGED << pools, queues, frames, retry, sending, scheduled, tx, urb, sent, watching,
                    threads, left >>

Whole(n) == n = 0

\* _usb_complete_task, _tx_head_completion and _tx_completion, and the first
\* half of _tx_process_sent_msdu, with the second transfer of a frame.
TransferDone(p) ==
    /\ SoftirqIdle /\ p \in done
    /\ done' = done \ {p} /\ urb' = [urb EXCEPT ![p] = None]
    /\ LET m == urb[p]
           n == IF DspSendOkFlag[m] > 0 THEN DspSendOkFlag[m] - 1 ELSE 0
       IN /\ DspSendOkFlag' = [DspSendOkFlag EXCEPT ![m] = n]
          /\ in_working' = [in_working EXCEPT ![m] = @ \ {p}]
          /\ IF Whole(n)
               THEN /\ watching' = FALSE
                    /\ sending_msdu' = None /\ tx_busy_sending' = FALSE
                    /\ sent' = [NoSent EXCEPT !.at = "done", !.m = m]
               ELSE UNCHANGED << watching, sending, sent >>
    /\ UNCHANGED << pools, queues, retry_count, retry, scheduled, tx, threads, left >>

\* Faulty variant: a sent management frame keeps the tasklet from running.
SentUnscheduled == scheduled' = (scheduled \/ sent.m \notin Mmpdu)

SentSchedules == scheduled' = TRUE

Sent_Finish == sent' = NoSent /\ SentSchedules

LastOf(q) == IF q = << >> THEN None ELSE q[Len(q)]

\* The second half of _tx_process_sent_msdu.  A data frame that was sent is to
\* be kept: the queue is counted, and its last frame read, or when there is
\* no room its first.
Process_Sent ==
    /\ sent.at = "done"
    /\ \/ /\ sent.m \in Mmpdu /\ Sent_Finish
          /\ free_mng' = free_mng \cup {sent.m} /\ UNCHANGED retry_count
       \/ /\ IsRetry(sent.m) /\ Sent_Finish
          /\ retry_count' = [retry_count EXCEPT ![sent.m] = IF @ < RetryMax THEN @ + 1 ELSE @]
          /\ UNCHANGED free_mng
       \/ /\ sent.m \in Msdu /\ ~IsRetry(sent.m)
          /\ sent' = IF Len(retry_que) < RetryList - 1
                        THEN [sent EXCEPT !.at = "room", !.old = LastOf(retry_que)]
                        ELSE [sent EXCEPT !.at = "full", !.old = Head(retry_que)]
          /\ UNCHANGED << free_mng, retry_count, scheduled >>
    /\ UNCHANGED << free, node_free, taking, queues, DspSendOkFlag, in_working, retry, sending,
                    tx, usb, watching, threads, left >>

\* It is linked behind the frame that was the last one: where that one has
\* left the queue, the queue does not reach it.
KeepSent_Room ==
    /\ sent.at = "room"
    /\ retry_que' = IF sent.old = None \/ IsRetry(sent.old) THEN Append(retry_que, sent.m)
                                                           ELSE << >>
    /\ Sent_Finish
    /\ UNCHANGED << pools, data_que, mng_que, frames, retry, sending, tx, usb, watching,
                    threads, left >>

\* Faulty variant: the oldest frame makes room but is not released.
KeepSentForgets ==
    /\ sent.at = "full"
    /\ retry_que' = Append(Rest(retry_que), sent.m)
    /\ Sent_Finish
    /\ UNCHANGED << pools, data_que, mng_que, frames, retry, sending, tx, usb, watching,
                    threads, left >>

\* The frame read as the oldest makes room, and is released after the lock.
KeepSent_Full ==
    /\ sent.at = "full"
    /\ retry_que' = Append(Rest(retry_que), sent.m)
    /\ sent' = [sent EXCEPT !.at = "drop", !.m = None]
    /\ UNCHANGED << pools, data_que, mng_que, frames, retry, sending, scheduled, tx, usb,
                    watching, threads, left >>

KeepSent_Drop ==
    /\ sent.at = "drop"
    /\ Release({sent.old})
    /\ Sent_Finish
    /\ UNCHANGED << free_mng, taking, queues, retry, sending, tx, usb, watching, threads, left >>

-----------------------------------------------------------------------------
(* Tx_Process_Retry_Int, in the interrupt: n frames were not delivered.    *)

Larger(a, b) == IF a > b THEN a ELSE b

\* The queue is not running: it is cut down to the frames that came back,
\* without those tried too often at its head, and started.
Kept(n) == SubSeq(retry_que, Larger(0, Len(retry_que) - n) + 1, Len(retry_que))
Worn(q) == Cardinality({k \in DOMAIN q : \A i \in 1..k : retry_count[q[i]] >= RetryMax})

StartRetry(n) ==
    LET q == Kept(n)
        run == SubSeq(q, Worn(q) + 1, Len(q)) IN
    /\ retry_que' = run /\ Release(InQueue(retry_que) \ InQueue(run))
    /\ IF run # << >> THEN tx_retry_valid' = TRUE /\ tx_retry_index' = 0
                      ELSE UNCHANGED retry

StepBack(n) == IF n > tx_retry_index THEN 0 ELSE tx_retry_index - n

Tx_Process_Retry_Int(n) ==
    /\ driver_state = "WORK" /\ Spend("retry")
    /\ IF tx_retry_valid
         THEN /\ UNCHANGED << retry_que, free, node_free, frames, tx_retry_valid >>
              /\ IF tx_retry_index = 0
                   THEN UNCHANGED << tx_retry_index, scheduled >>
                   ELSE tx_retry_index' = StepBack(n) /\ scheduled' = TRUE
         ELSE StartRetry(n) /\ scheduled' = TRUE
    /\ UNCHANGED << free_mng, taking, data_que, mng_que, sending, tx, usb, sent, watching,
                    threads >>

-----------------------------------------------------------------------------
(* The timeout of a frame: Tx_Watch_TimeOut_Routine, in the task thread.   *)

Tx_watch_timeout ==
    /\ SoftirqIdle /\ watching /\ Spend("watch")
    /\ watching' = FALSE /\ task' = TRUE
    /\ UNCHANGED << pools, queues, frames, retry, sending, scheduled, tx, usb, sent,
                    driver_state, worker >>

\* Depending on the registers of the card, transmission is stopped first, or
\* not, or nothing can be done.
TimeOut_Begin ==
    /\ SoftirqIdle /\ worker.at = "idle" /\ task
    /\ task' = FALSE
    /\ \/ worker' = NoWork /\ UNCHANGED driver_state
       \/ /\ sending_msdu # None
          /\ \E stop \in BOOLEAN :
               /\ worker' = [NoWork EXCEPT !.at = "wait_head", !.m = sending_msdu,
                                           !.stop = stop]
               /\ driver_state' = IF stop THEN "STOP_TX" ELSE driver_state
    /\ UNCHANGED << pools, queues, frames, retry, sending, scheduled, tx, usb, sent, watching,
                    left >>

WaitAt(p) == worker.at = (IF p = "head" THEN "wait_head" ELSE "wait_body")
After(p) == IF p = "head" THEN "wait_body" ELSE "restore"

\* It waits until the pipe is idle, or cancels the transfer; one that was
\* cancelled completes.
TimeOut_Idle(p) ==
    /\ SoftirqIdle /\ WaitAt(p)
    /\ p \notin in_working[worker.m] \/ urb[p] = None
    /\ worker' = [worker EXCEPT !.at = After(p)]
    /\ UNCHANGED << pools, queues, frames, retry, sending, scheduled, tx, usb, sent, watching,
                    driver_state, task, left >>

\* Faulty variant: the transfer is given back and no completion follows.
CancelSilently(p) ==
    /\ SoftirqIdle /\ WaitAt(p) /\ p \in in_working[worker.m] /\ urb[p] # None
    /\ urb' = [urb EXCEPT ![p] = None] /\ done' = done \ {p}
    /\ worker' = [worker EXCEPT !.at = After(p), !.returned = ~worker.stop]
    /\ UNCHANGED << pools, queues, frames, retry, sending, scheduled, tx, sent, watching,
                    driver_state, task, left >>

TimeOut_Cancel(p) ==
    /\ SoftirqIdle /\ WaitAt(p) /\ p \in in_working[worker.m] /\ urb[p] # None
    /\ done' = done \cup {p}
    /\ worker' = [worker EXCEPT !.at = After(p), !.returned = ~worker.stop]
    /\ UNCHANGED << pools, queues, frames, retry, sending, scheduled, tx, urb, sent, watching,
                    driver_state, task, left >>

TimeOut_Restore ==
    /\ SoftirqIdle /\ worker.at = "restore"
    /\ driver_state' = "WORK"
    /\ watching' = (watching /\ ~worker.returned)
    /\ worker' = NoWork
    /\ UNCHANGED << pools, queues, frames, retry, sending, scheduled, tx, usb, sent, task, left >>

-----------------------------------------------------------------------------
(* Tx_Cancel_Data_Frm, when the link is lost or the card is reset.  The    *)
(* queues are emptied frame by frame, under no lock: the first one, that   *)
(* of the new data, and then that of what is sent again.                   *)

Emptied == IF worker.q = "data" THEN data_que ELSE retry_que
Leave(q) == IF worker.q = "data" THEN data_que' = q /\ UNCHANGED retry_que
                                 ELSE retry_que' = q /\ UNCHANGED data_que

Cancel_Begin ==
    /\ SoftirqIdle /\ worker.at = "idle" /\ data_que # << >> /\ Spend("cancel")
    /\ worker' = [NoWork EXCEPT !.at = "load"]
    /\ UNCHANGED << pools, queues, frames, retry, sending, scheduled, tx, usb, sent, watching,
                    driver_state, task >>

\* The head is read, which is what the caller will release.
Cancel_Load ==
    /\ SoftirqIdle /\ worker.at = "load"
    /\ worker' = IF Emptied = << >> THEN [worker EXCEPT !.at = "init"]
                                     ELSE [worker EXCEPT !.at = "pop", !.m = Head(Emptied)]
    /\ UNCHANGED << pools, queues, frames, retry, sending, scheduled, tx, usb, sent, watching,
                    driver_state, task, left >>

Cancel_Pop ==
    /\ SoftirqIdle /\ worker.at = "pop"
    /\ Leave(Rest(Emptied))
    /\ worker' = [worker EXCEPT !.at = "drop"]
    /\ UNCHANGED << pools, mng_que, frames, retry, sending, scheduled, tx, usb, sent, watching,
                    driver_state, task, left >>

Cancel_Drop ==
    /\ SoftirqIdle /\ worker.at = "drop"
    /\ Release({worker.m})
    /\ worker' = [worker EXCEPT !.at = "load", !.m = None]
    /\ UNCHANGED << free_mng, taking, queues, retry, sending, scheduled, tx, usb, sent,
                    watching, driver_state, task, left >>

\* QueueInitList of a queue that was read empty.
Cancel_Init ==
    /\ SoftirqIdle /\ worker.at = "init"
    /\ Leave(<< >>)
    /\ worker' = IF worker.q = "data" THEN [worker EXCEPT !.at = "load", !.q = "retry"]
                                       ELSE [worker EXCEPT !.at = "end"]
    /\ UNCHANGED << pools, mng_que, frames, retry, sending, scheduled, tx, usb, sent, watching,
                    driver_state, task, left >>

Cancel_End ==
    /\ SoftirqIdle /\ worker.at = "end"
    /\ watching' = FALSE /\ worker' = NoWork
    /\ UNCHANGED << pools, queues, frames, retry, sending, scheduled, tx, usb, sent,
                    driver_state, task, left >>

-----------------------------------------------------------------------------
Tasklet == \/ Routine_Return \/ Routine_Start \/ Routine_Find \/ Routine_Clear
           \/ Routine_Data \/ Submit_Head \/ Submit_Body \/ Submit_Record
           \/ Routine_Advance \/ Routine_Back \/ Process_Sent
           \/ KeepSent_Room \/ KeepSent_Full \/ KeepSent_Drop \/ Alloc_Take
           \/ \E p \in Part : TransferDone(p)
Interrupt == \/ \E p \in Part : Usb_Completion(p)
             \/ \E n \in 1..MaxReturned : Tx_Process_Retry_Int(n)
Thread == \/ TimeOut_Begin \/ TimeOut_Restore
          \/ \E p \in Part : TimeOut_Idle(p) \/ TimeOut_Cancel(p)
          \/ Cancel_Load \/ Cancel_Pop \/ Cancel_Drop \/ Cancel_Init \/ Cancel_End
Others == Adap_Send \/ Tx_Transmit_mng_frame \/ Tx_watch_timeout \/ Cancel_Begin

Next == Tasklet \/ Interrupt \/ Thread \/ Others

Spec == Init /\ [][Next]_vars

\* Behaviours in which the queues are never emptied while frames are sent
\* again from them or one that waits in them is still being transferred, ...
Cancelling == worker.at \in {"load", "pop", "drop", "init", "end"}
Quiet == /\ ~tx_retry_valid
         /\ \A p \in Part : urb[p] \notin InQueue(data_que) \cup InQueue(retry_que)

\* ... and no one changes the pool or a queue between what another reads of it
\* and writes to it: the locks do not see to that.
Undisturbed ==
    /\ taking # NotTaking /\ taking' = taking => UNCHANGED << free, node_free >>
    /\ sent.at \in {"room", "full"} /\ sent' = sent => UNCHANGED retry_que
    /\ worker.at \in {"pop", "init"} /\ worker' = worker =>
          UNCHANGED << data_que, retry_que >> /\ SoftirqIdle'

QuietNext == Next /\ Undisturbed /\ (Cancelling' => Quiet' /\ left'["fail"] = left["fail"])

QuietSpec == Init /\ [][QuietNext]_vars

-----------------------------------------------------------------------------
(* Safety.                                                                 *)

Count(P) == IF P THEN 1 ELSE 0
Occurs(m, q) == Cardinality({i \in DOMAIN q : q[i] = m})

\* A data frame is free, waiting, kept to be sent again, or in the hands of
\* the tasklets on its only way through the card, and nowhere twice, although
\* the tasklet, the completions, the retry interrupt and the cancellation all
\* move frames between the queues and the pool (_tx_process_sent_msdu,
\* Tx_Process_Retry_Int, _tx_routine); the free ones are counted right.  No
\* frame is given back, and so cleared and filled anew, while a transfer still
\* reads its buffers.
PoolConserved ==
    /\ node_free = Cardinality(free)
    /\ \A m \in Msdu :
          Count(m \in free) + Occurs(m, data_que) + Occurs(m, retry_que)
            + Count(~IsRetry(m) /\ m \in {tx.m, sending_msdu, sent.m})
            + Count(sent.at = "drop" /\ m = sent.old)
            + Count(worker.at = "drop" /\ m = worker.m) = 1
    /\ \A p \in Part : urb[p] \notin free \cup free_mng

\* What the tasklet remembers stays true while it does not hold the lock.
\* While tx_busy_sending keeps everything else from being sent, a transfer of
\* the frame it stands for is still to complete: nothing else clears it.  And
\* the index of the next frame to send again stays within the queue, which
\* the completions and the retry interrupt shorten and lengthen behind its
\* back (the assertion of _tx_routine).
TaskletIsRight ==
    /\ tx_busy_sending => \E p \in Part : urb[p] = sending_msdu
    /\ tx.at = "find" => tx_retry_index <= Len(retry_que)

-----------------------------------------------------------------------------
(* Liveness.  Softirqs and threads run, and USB completes every transfer.  *)

Fairness ==
    /\ WF_vars(Tasklet) /\ WF_vars(Thread)
    /\ \A p \in Part : WF_vars(Usb_Completion(p))

FairSpec == QuietSpec /\ Fairness

Upset == driver_state = "STOP_TX" \/ left["fail"] < Budget["fail"]

\* Nothing polls the queue: each event must lead to the next.  Unless the
\* timeout has stopped transmission or USB has refused a transfer, after
\* which nothing runs the tasklet before the next frame is handed over, every
\* data frame that waits is sent at last, whatever is sent again before it.
FramesLeave ==
    <>Upset \/ \A m \in Msdu : []<>(m \notin InQueue(data_que))
=============================================================================
