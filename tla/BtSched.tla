------------------------------- MODULE BtSched -------------------------------
(***************************************************************************)
(* The scheduler of short Bluetooth frames (bluetooth/sched.c): any thread *)
(* of the driver may ask for a POLL, a flow STOP or a flow CONTINUE frame  *)
(* for a connection; the tasklet that fills the chip's transmit memory     *)
(* takes one request at a time from the list, builds the frame and either  *)
(* frees the request or puts it back at the head.                          *)
(*                                                                         *)
(* A step of the model is one section under sched->lock, or one access to  *)
(* the connection block made outside of it.  The connection block is       *)
(* reused: Hci_Add_Connect_Device sets valid_flag, Frag_InitTxForConnDev   *)
(* clears it without touching the requests that still name the block.      *)
(* The transmit memory and the USB pipe are modelled by their outcome      *)
(* only (BtTxPump models them).                                            *)
(***************************************************************************)
EXTENDS Naturals, Sequences, FiniteSets

CONSTANTS Block,     \* sched_block[]: MAXSCHEDBLOCKNUM entries
          Dev,       \* connection blocks
          Thread,    \* threads, tasklets and work items of the driver
          Executor,  \* the tasklet that runs Frag_CheckTxQueue
          None

VARIABLES sched_list,       \* requests waiting, each in its block
          sched_free_pool,  \* free blocks
          held,             \* the block Sched_Excute has popped
          pc,               \* where each thread is
          req,              \* the request each thread is making
          scan,             \* connections Sched_ScanAllLink has still to visit
          hciLock,          \* owner of HciLock
          link              \* the fields of each connection block read here

lists == << sched_list, sched_free_pool, held >>
thr   == << pc, req, scan, hciLock >>
vars  == << lists, thr, link >>

Event == { "SEND_POLL", "NULL_ACL_STOP", "NULL_ACL_CONTINUE" }
Request == [event : Event, dev : Dev]
Entry == [blk : Block, event : Event, dev : Dev]

ASSUME SchedAssumption ==
    /\ IsFiniteSet(Block) /\ Block # {}
    /\ IsFiniteSet(Thread)
    /\ Executor \in Thread
    /\ None \notin Thread \cup Request \cup Entry

Ask(e) == [event |-> e.event, dev |-> e.dev]

(***************************************************************************)
(* A connection block: it is in device_am_list or device_slave_list;       *)
(* valid_flag; state = BT_DEVICE_STATE_CONNECTED; pScoConnectDevice # NULL; *)
(* role_switching_flag or mode_Sniff_debug1; tx_count_frame <              *)
(* SCHEDMINTXFRAME; l2cap_rx_flow_control_flag.                            *)
(***************************************************************************)
Link == [listed : BOOLEAN, valid : BOOLEAN, connected : BOOLEAN, sco : BOOLEAN,
         barred : BOOLEAN, quiet : BOOLEAN, rxStopped : BOOLEAN]

Unused == [listed |-> FALSE, valid |-> FALSE, connected |-> FALSE, sco |-> FALSE,
           barred |-> FALSE, quiet |-> TRUE, rxStopped |-> FALSE]

PC == { "idle",    \* not in the scheduler
        "check",   \* about to call Sched_CheckExistSched
        "add",     \* told that no such request waits, about to add one
        "scan",    \* in Sched_ScanAllLink, between two connections
        "test",    \* executor: popped a block, has not read valid_flag
        "send",    \* executor: valid_flag was 1, about to write the frame
        "sent",    \* executor: the frame is on its way
        "skip",    \* executor: valid_flag was 0, reported as success
        "retry",   \* executor: no buffer, space or pipe
        "free" }   \* executor: about to free the block

TypeOK ==
    /\ sched_list \in Seq(Entry)
    /\ sched_free_pool \in Seq(Block)
    /\ held \in Entry \cup {None}
    /\ pc \in [Thread -> PC]
    /\ req \in [Thread -> Request \cup {None}]
    /\ scan \in [Thread -> SUBSET Dev]
    /\ hciLock \in Thread \cup {None}
    /\ link \in [Dev -> Link]

Init ==
    /\ sched_list = << >>
    /\ sched_free_pool \in [1..Cardinality(Block) -> Block]
    /\ \A b \in Block : \E i \in DOMAIN sched_free_pool : sched_free_pool[i] = b
    /\ \A i, j \in DOMAIN sched_free_pool :
          sched_free_pool[i] = sched_free_pool[j] => i = j
    /\ held = None
    /\ pc = [t \in Thread |-> "idle"]
    /\ req = [t \in Thread |-> None]
    /\ scan = [t \in Thread |-> {}]
    /\ hciLock = None
    /\ link = [d \in Dev |-> Unused]

-----------------------------------------------------------------------------
(* Asking for a frame. *)

Goto(t, label) == pc' = [pc EXCEPT ![t] = label]

\* A thread that has finished with a request goes back to its scan, if any.
Resume(t) == IF hciLock = t THEN "scan" ELSE "idle"

CanPoll(d) == ~link[d].barred /\ link[d].connected /\ ~link[d].sco

\* The three entry points, up to the call of Sched_CheckExistSched.  The
\* callers read l2cap_rx_flow_control_flag themselves, without a lock.
Sched_SendPollFrame(t, d) ==
    /\ CanPoll(d)
    /\ req' = [req EXCEPT ![t] = [event |-> "SEND_POLL", dev |-> d]]

Sched_SendAclNullStopFrame(t, d) ==
    /\ ~link[d].rxStopped /\ ~link[d].sco
    /\ req' = [req EXCEPT ![t] = [event |-> "NULL_ACL_STOP", dev |-> d]]

Sched_SendAclNullContinueFrame(t, d) ==
    /\ link[d].rxStopped /\ ~link[d].sco
    /\ req' = [req EXCEPT ![t] = [event |-> "NULL_ACL_CONTINUE", dev |-> d]]

\* The receive paths and the command handlers call with a connection they
\* have looked up before; it may be going away.
Request_Frame(t) ==
    /\ pc[t] = "idle"
    /\ \E d \in Dev : \/ Sched_SendPollFrame(t, d)
                      \/ Sched_SendAclNullStopFrame(t, d)
                      \/ Sched_SendAclNullContinueFrame(t, d)
    /\ Goto(t, "check")
    /\ UNCHANGED << lists, scan, hciLock, link >>

Waiting(r) == \E i \in 1..Len(sched_list) : Ask(sched_list[i]) = r

\* Faulty variant: the list is not searched, the request is always added.
CheckNeverFinds(t) ==
    /\ pc[t] = "check"
    /\ Goto(t, "add")
    /\ UNCHANGED << lists, req, scan, hciLock, link >>

Sched_CheckExistSched(t) ==
    /\ pc[t] = "check"
    /\ IF Waiting(req[t])
         THEN Goto(t, Resume(t)) /\ req' = [req EXCEPT ![t] = None]
         ELSE Goto(t, "add") /\ UNCHANGED req
    /\ UNCHANGED << lists, scan, hciLock, link >>

\* The request is lost when the pool is empty.
Sched_DoOneSched(t) ==
    /\ pc[t] = "add"
    /\ IF sched_free_pool = << >>
         THEN UNCHANGED << sched_list, sched_free_pool >>
         ELSE /\ sched_free_pool' = Tail(sched_free_pool)
              /\ sched_list' = Append(sched_list,
                    [blk |-> Head(sched_free_pool),
                     event |-> req[t].event, dev |-> req[t].dev])
    /\ req' = [req EXCEPT ![t] = None]
    /\ Goto(t, Resume(t))
    /\ UNCHANGED << held, scan, hciLock, link >>

-----------------------------------------------------------------------------
(* The periodic scan of the connections, under HciLock. *)

Sched_ScanAllLink(t) ==
    /\ pc[t] = "idle" /\ t # Executor /\ hciLock = None
    /\ hciLock' = t
    /\ scan' = [scan EXCEPT ![t] = {d \in Dev : link[d].listed}]
    /\ Goto(t, "scan")
    /\ UNCHANGED << lists, req, link >>

\* One connection of the list.  tx_count_frame restarts from 0 in any case.
Scan_Link(t) ==
    /\ pc[t] = "scan"
    /\ \E d \in scan[t] :
         /\ IF link[d].quiet /\ CanPoll(d)
              THEN Sched_SendPollFrame(t, d) /\ Goto(t, "check")
              ELSE UNCHANGED << pc, req >>
         /\ scan' = [scan EXCEPT ![t] = @ \ {d}]
         /\ link' = [link EXCEPT ![d].quiet = TRUE]
    /\ UNCHANGED << lists, hciLock >>

Scan_End(t) ==
    /\ pc[t] = "scan" /\ scan[t] = {}
    /\ hciLock' = None
    /\ Goto(t, "idle")
    /\ UNCHANGED << lists, req, scan, link >>

-----------------------------------------------------------------------------
(* The purge of the polls, at a flush and at a role change. *)

IsPoll(i) == sched_list[i].event = "SEND_POLL"
PollAt == { i \in 1..Len(sched_list) : IsPoll(i) }
KeptAt == { i \in 1..Len(sched_list) : ~IsPoll(i) }

\* f lists the positions in S in increasing order.
Enumerates(f, S) ==
    /\ \A i, j \in DOMAIN f : i < j => f[i] < f[j]
    /\ \A p \in S : \E i \in DOMAIN f : f[i] = p

Sched_DeleteAllPoll(t) ==
    /\ pc[t] = "idle"
    /\ \E n \in 0..Len(sched_list), m \in 0..Len(sched_list) :
       \E f \in [1..n -> KeptAt], g \in [1..m -> PollAt] :
         /\ Enumerates(f, KeptAt)
         /\ Enumerates(g, PollAt)
         /\ sched_list' = [i \in 1..n |-> sched_list[f[i]]]
         /\ sched_free_pool' = sched_free_pool \o [i \in 1..m |-> sched_list[g[i]].blk]
    /\ UNCHANGED << held, thr, link >>

-----------------------------------------------------------------------------
(* Sched_Excute: pop one request, serve it, put the block somewhere. *)

Excute_Pop ==
    /\ pc[Executor] = "idle" /\ sched_list # << >>
    /\ held' = Head(sched_list)
    /\ sched_list' = Tail(sched_list)
    /\ Goto(Executor, "test")
    /\ UNCHANGED << sched_free_pool, req, scan, hciLock, link >>

\* Faulty variant: a frame for a dead connection counts as a failure.
TestFailsInvalid ==
    /\ pc[Executor] = "test"
    /\ \/ Goto(Executor, "retry")
       \/ link[held.dev].valid /\ Goto(Executor, "send")
    /\ UNCHANGED << lists, req, scan, hciLock, link >>

\* BtProcessTxPollFrame and BtProcessTxAclNullFrame up to the test of
\* valid_flag, made without a lock; a full transmit pool fails first.
Frame_Test ==
    /\ pc[Executor] = "test"
    /\ \/ Goto(Executor, "retry")
       \/ ~link[held.dev].valid /\ Goto(Executor, "skip")
       \/ link[held.dev].valid /\ Goto(Executor, "send")
    /\ UNCHANGED << lists, req, scan, hciLock, link >>

\* The rest of them: no idle space or no pipe, or the frame is written.
Frame_Send ==
    /\ pc[Executor] = "send"
    /\ \/ Goto(Executor, "retry")
       \/ Goto(Executor, "sent")
    /\ UNCHANGED << lists, req, scan, hciLock, link >>

\* Back in Sched_Excute, still without a lock: a served STOP or CONTINUE is
\* recorded in the connection block, sent or skipped.
Excute_Record ==
    /\ pc[Executor] \in { "sent", "skip" }
    /\ link' = CASE held.event = "NULL_ACL_STOP" ->
                        [link EXCEPT ![held.dev].rxStopped = TRUE]
                 [] held.event = "NULL_ACL_CONTINUE" ->
                        [link EXCEPT ![held.dev].rxStopped = FALSE]
                 [] OTHER -> link
    /\ Goto(Executor, "free")
    /\ UNCHANGED << lists, req, scan, hciLock >>

\* Faulty variants: the block is not freed; the pool gets a whole entry.
FreeForgotten ==
    /\ pc[Executor] = "free"
    /\ held' = None
    /\ Goto(Executor, "idle")
    /\ UNCHANGED << sched_list, sched_free_pool, req, scan, hciLock, link >>

FreeUncleared ==
    /\ pc[Executor] = "free"
    /\ sched_free_pool' = Append(sched_free_pool, held)
    /\ held' = None
    /\ Goto(Executor, "idle")
    /\ UNCHANGED << sched_list, req, scan, hciLock, link >>

Excute_Free ==
    /\ pc[Executor] = "free"
    /\ sched_free_pool' = Append(sched_free_pool, held.blk)
    /\ held' = None
    /\ Goto(Executor, "idle")
    /\ UNCHANGED << sched_list, req, scan, hciLock, link >>

\* Faulty variant: a request that failed goes to the back.
RetryAtTail ==
    /\ pc[Executor] = "retry"
    /\ sched_list' = Append(sched_list, held)
    /\ held' = None
    /\ Goto(Executor, "idle")
    /\ UNCHANGED << sched_free_pool, req, scan, hciLock, link >>

Excute_Retry ==
    /\ pc[Executor] = "retry"
    /\ sched_list' = << held >> \o sched_list
    /\ held' = None
    /\ Goto(Executor, "idle")
    /\ UNCHANGED << sched_free_pool, req, scan, hciLock, link >>

-----------------------------------------------------------------------------
(* What the rest of the driver does to a connection block. *)

\* Hci_Add_Connect_Device and Hci_Add_Slave_Connect_Device, last section.
Hci_Add_Connect_Device(d) ==
    /\ hciLock = None /\ ~link[d].listed
    /\ link' = [link EXCEPT ![d] = [Unused EXCEPT !.valid = TRUE, !.listed = TRUE]]
    /\ UNCHANGED << lists, thr >>

\* Frag_InitTxForConnDev, the section under HciLock.
Frag_InitTxForConnDev(d) ==
    /\ hciLock = None /\ link[d].listed /\ link[d].valid
    /\ link' = [link EXCEPT ![d].valid = FALSE, ![d].barred = FALSE,
                            ![d].rxStopped = FALSE]
    /\ UNCHANGED << lists, thr >>

\* Hci_Del_Connect_Device_*, which the same callers run next: the block goes
\* back to the free list of the connection table with its fields as they are.
Hci_Del_Connect_Device(d) ==
    /\ hciLock = None /\ link[d].listed /\ ~link[d].valid
    /\ link' = [link EXCEPT ![d].listed = FALSE]
    /\ UNCHANGED << lists, thr >>

\* The link becomes usable, gains or loses its SCO channel, enters or leaves
\* a role switch, or has sent SCHEDMINTXFRAME frames.  Not under HciLock.
Link_Changes(d) ==
    /\ link[d].valid
    /\ \/ /\ ~link[d].connected
          /\ link' = [link EXCEPT ![d].connected = TRUE]
       \/ /\ link[d].connected
          /\ link' = [link EXCEPT ![d].sco = ~@]
       \/ /\ link[d].connected
          /\ link' = [link EXCEPT ![d].barred = ~@]
       \/ /\ link[d].quiet
          /\ link' = [link EXCEPT ![d].quiet = FALSE]
    /\ UNCHANGED << lists, thr >>

Excute == Excute_Pop \/ Frame_Test \/ Frame_Send \/ Excute_Record
            \/ Excute_Free \/ Excute_Retry

Next ==
    \/ \E t \in Thread : \/ Request_Frame(t)
                         \/ Sched_CheckExistSched(t)
                         \/ Sched_DoOneSched(t)
                         \/ Sched_ScanAllLink(t)
                         \/ Scan_Link(t)
                         \/ Scan_End(t)
                         \/ Sched_DeleteAllPoll(t)
    \/ Excute
    \/ \E d \in Dev : \/ Hci_Add_Connect_Device(d)
                      \/ Frag_InitTxForConnDev(d)
                      \/ Hci_Del_Connect_Device(d)
                      \/ Link_Changes(d)

Spec == Init /\ [][Next]_vars

(***************************************************************************)
(* Every thread that is inside the scheduler goes on; the tasklet comes    *)
(* back to Sched_Excute as long as a request waits (each add asks for the  *)
(* space interrupt that runs it, a failure arms the transmit timer); a     *)
(* frame that can be tried again and again is written at last.             *)
(***************************************************************************)
Fairness ==
    /\ \A t \in Thread : WF_vars(Sched_CheckExistSched(t) \/ Sched_DoOneSched(t)
                                   \/ Scan_Link(t) \/ Scan_End(t))
    /\ WF_vars(Excute) /\ SF_vars(Excute_Pop)
    /\ SF_vars(Frame_Test /\ pc'[Executor] # "retry")
    /\ SF_vars(Frame_Send /\ pc'[Executor] = "sent")

FairSpec == Spec /\ Fairness

-----------------------------------------------------------------------------
(* Properties. *)

ListBlocks == { sched_list[i].blk : i \in 1..Len(sched_list) }
FreeBlocks == { sched_free_pool[i] : i \in 1..Len(sched_free_pool) }
HeldBlocks == IF held = None THEN {} ELSE { held.blk }

\* No block is ever lost or linked twice, whatever the interleaving of the
\* adders, the purge and the executor: each is in exactly one place among the
\* task list, the free pool and the executor's hands, at one position
\* (QueuePopHead/QueuePutTail/QueuePushHead/QueueRemoveEle in sched.c).
BlockConservation ==
    /\ ListBlocks \cup FreeBlocks \cup HeldBlocks = Block
    /\ ListBlocks \cap FreeBlocks = {}
    /\ ListBlocks \cap HeldBlocks = {}
    /\ FreeBlocks \cap HeldBlocks = {}
    /\ \A i, j \in 1..Len(sched_list) :
          sched_list[i].blk = sched_list[j].blk => i = j
    /\ \A i, j \in 1..Len(sched_free_pool) :
          sched_free_pool[i] = sched_free_pool[j] => i = j

\* Copies of a request: waiting, being served, or about to be added.
Copies(r) ==
    Cardinality({ i \in 1..Len(sched_list) : Ask(sched_list[i]) = r })
      + (IF held # None /\ Ask(held) = r THEN 1 ELSE 0)
      + Cardinality({ t \in Thread : pc[t] = "add" /\ req[t] = r })

\* The existence check and the insertion are two lock sections, so the same
\* request can be there more than once, but never more often than there are
\* threads: the pool of 32 blocks cannot be filled by one connection.
DuplicateBound == \A r \in Request : Copies(r) <= Cardinality(Thread)

\* The requests the executor has not finished with, in order: they implement
\* the queue of BtFifo, the block in the executor's hands being its front.
Pending == (IF held = None THEN << >> ELSE << Ask(held) >>)
             \o [i \in 1..Len(sched_list) |-> Ask(sched_list[i])]

Fifo == INSTANCE BtFifo WITH queue <- Pending,
            PollRequest <- { r \in Request : r.event = "SEND_POLL" }

\* Service is first come, first served over all threads, across retries and
\* purges (sched.c:340-449 puts a failed request back at the head).
ServedInOrder == Fifo!FifoSpec

\* No request is retained for ever: every block returns to the pool, even
\* those of connections that went away while they were waiting.
BlocksReturn == \A b \in Block : (b \in ListBlocks) ~> (b \in FreeBlocks)
=============================================================================
