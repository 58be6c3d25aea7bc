------------------------------ MODULE WlanTask ------------------------------
(***************************************************************************)
(* The task module of the WLAN driver (usbwlan_Task.c): completions,       *)
(* timers, ioctls and the tasks themselves create tasks; one worklet, a    *)
(* work item of the kernel's queue (tdsp_tasklet.c), runs them.            *)
(*                                                                         *)
(* A step is one section under pTask->lock, or what a thread does between  *)
(* two of them to the block it holds, which is in no list then.  One       *)
(* change of a list takes no lock, the return of a block for whose task    *)
(* there was no memory (448): it is two steps, the load of the pool's tail *)
(* and the stores, and others may come between.  The lists are modelled by *)
(* their links: the code moves blocks between lists, and the macros of     *)
(* usbwlan_queue.h trust it to name the right one.                         *)
(*                                                                         *)
(* No caller sets the force bit of the priority, so the branches for it    *)
(* are not modelled.  What a task does is left out, except that it may     *)
(* create and remove tasks itself.  Task_Release is not modelled.          *)
(***************************************************************************)
EXTENDS ListLinks

CONSTANTS Block,     \* ptask_block[]: MAXTASKN entries
          Thread,    \* who creates and removes tasks, the worklet included
          Worklet,
          Request,   \* the tasks that are created: [event, high, long]
          Removable, \* the events Task_RemoveExistTask is called for
          Exempt     \* the events that are run during a reset

List == { "task_free_pool", "task_list", "task_list_high" }
Event == { r.event : r \in Request }

ASSUME TaskAssumption ==
    /\ IsFiniteSet(Block) /\ Block \cap List = {}
    /\ Worklet \in Thread
    /\ Null \notin Block \cup List /\ Null \notin Request
    /\ \A r \in Request : r.high \in BOOLEAN /\ r.long \in BOOLEAN

\* What is removed was created with high priority: Task_RemoveExistTask finds a
\* task in either list, but unlinks it as if it were in the high one.
RemovedAreHigh == \A r \in Request : r.event \in Removable => r.high

VARIABLES links,    \* flink and blink of the three lists and of every block
          task,     \* what each block holds: task_event and task_pri
          pc, req,  \* where each creator is, and what it wants
          hand,     \* the block a creator has taken
          tail,     \* the pool's last block, as a creator without the lock has read it
          wpc,      \* where Task_ThreadRoutine is
          held,     \* the block it has popped
          running,  \* the flag of tdsp_worklet_schedule
          pending,  \* the work item is queued
          driver_state

creators == << pc, req, hand, tail >>
worklet  == << wpc, held, running, pending >>
vars     == << links, task, creators, worklet, driver_state >>

\* Working; halted (Adap_Driver_isHalt); in a system or hardware reset.
State == { "WORK", "HALT", "RESET" }

halted == driver_state = "HALT"

\* What a block holds once it is free does not matter any more.
Blank == [event |-> Null, high |-> FALSE]
Blanked(bs) == [b \in Block |-> IF b \in bs THEN Blank ELSE task[b]]

TypeOK ==
    /\ links \in [List \cup Block -> [flink : Block \cup {Null}, blink : Block \cup {Null}]]
    /\ task \in [Block -> [event : Event \cup {Null}, high : BOOLEAN]]
    /\ pc \in [Thread -> { "idle", "steal", "fill", "give", "insert", "schedule" }]
    /\ req \in [Thread -> Request \cup {Null}]
    /\ hand \in [Thread -> Block \cup {Null}]
    /\ tail \in [Thread -> Block \cup {Null}]
    /\ \A t \in Thread : hand[t] # Null <=> pc[t] \in { "fill", "give", "insert" }
    /\ wpc \in { "off", "check", "pop", "loop", "exec", "end" }
    /\ held \in Block \cup {Null}
    /\ held # Null <=> wpc \in { "loop", "exec" }
    /\ running \in BOOLEAN /\ pending \in BOOLEAN
    /\ driver_state \in State

Waiting(l) == Chain(links, l)

\* Each block of bs is put into list l, in turn.
PutAll(h, l, bs) ==
    LET after[i \in 0..Len(bs)] ==
          IF i = 0 THEN h ELSE QueuePutTail(after[i - 1], l, bs[i])
    IN  after[Len(bs)]

\* ptask_block[], in the order of the array.
Array == CHOOSE a \in [1..Cardinality(Block) -> Block] :
           \A b \in Block : \E i \in DOMAIN a : a[i] = b

Init ==
    /\ links = PutAll([n \in List \cup Block |-> NoLinks], "task_free_pool", Array)
    /\ task = [b \in Block |-> Blank]
    /\ pc = [t \in Thread |-> "idle"]
    /\ req = [t \in Thread |-> Null]
    /\ hand = [t \in Thread |-> Null]
    /\ tail = [t \in Thread |-> Null]
    /\ wpc = "off" /\ held = Null
    /\ running = FALSE /\ pending = FALSE
    /\ driver_state = "WORK"

-----------------------------------------------------------------------------
(* Task_CreateTask. *)

Goto(t, label) == pc' = [pc EXCEPT ![t] = label]

\* The worklet is inside a call only while a task runs.
Free(t) == pc[t] = "idle" /\ (t = Worklet => wpc = "exec")

Create_Pop(t) ==
    /\ Free(t)
    /\ \E r \in Request :
         LET b == QueueGetHead(links, "task_free_pool") IN
         /\ links' = QueueRemoveHead(links, "task_free_pool")
         /\ hand' = [hand EXCEPT ![t] = b]
         /\ IF b # Null THEN Goto(t, "fill")
            ELSE IF r.high THEN Goto(t, "steal")
            ELSE Goto(t, "idle")
         /\ req' = [req EXCEPT ![t] = IF b # Null \/ r.high THEN r ELSE Null]
    /\ UNCHANGED << task, tail, worklet, driver_state >>

\* The pool was empty: a task of high priority takes the block of the oldest
\* waiting normal task, which nobody will run.
Create_Steal(t) ==
    /\ pc[t] = "steal"
    /\ LET b == QueueGetHead(links, "task_list") IN
       /\ links' = QueueRemoveHead(links, "task_list")
       /\ task' = Blanked({b})
       /\ hand' = [hand EXCEPT ![t] = b]
       /\ IF b = Null THEN Goto(t, "idle") /\ req' = [req EXCEPT ![t] = Null]
                      ELSE Goto(t, "fill") /\ UNCHANGED req
    /\ UNCHANGED << tail, worklet, driver_state >>

\* The block is filled, without the lock.  A long parameter needs memory of
\* its own; without it the block goes back: the tail of the pool is read,
Create_Fill(t) ==
    /\ pc[t] = "fill"
    /\ \/ /\ Goto(t, "insert")
          /\ task' = [task EXCEPT ![hand[t]] = [event |-> req[t].event, high |-> req[t].high]]
          /\ UNCHANGED tail
       \/ /\ req[t].long
          /\ Goto(t, "give")
          /\ tail' = [tail EXCEPT ![t] = links["task_free_pool"].blink]
          /\ UNCHANGED task
    /\ UNCHANGED << links, req, hand, worklet, driver_state >>

\* and the block linked behind what was the tail, still without the lock.
Create_Give(t) ==
    /\ pc[t] = "give"
    /\ links' = PutBehind(links, "task_free_pool", tail[t], hand[t])
    /\ Goto(t, "idle")
    /\ req' = [req EXCEPT ![t] = Null]
    /\ hand' = [hand EXCEPT ![t] = Null]
    /\ tail' = [tail EXCEPT ![t] = Null]
    /\ UNCHANGED << task, worklet, driver_state >>

Create_Insert(t) ==
    /\ pc[t] = "insert"
    /\ links' = QueuePutTail(links, IF req[t].high THEN "task_list_high" ELSE "task_list",
                             hand[t])
    /\ Goto(t, "schedule")
    /\ req' = [req EXCEPT ![t] = Null]
    /\ hand' = [hand EXCEPT ![t] = Null]
    /\ UNCHANGED << task, tail, worklet, driver_state >>

\* Faulty variant: the work is queued without its flag.
ScheduleUnflagged(t) ==
    /\ pc[t] = "schedule"
    /\ pending' = TRUE
    /\ Goto(t, "idle")
    /\ UNCHANGED << links, task, req, hand, tail, wpc, held, running, driver_state >>

\* tdsp_worklet_schedule; work that is queued already is not queued again.
Create_Schedule(t) ==
    /\ pc[t] = "schedule"
    /\ running' = TRUE
    /\ pending' = TRUE
    /\ Goto(t, "idle")
    /\ UNCHANGED << links, task, req, hand, tail, wpc, held, driver_state >>

-----------------------------------------------------------------------------
(* Removing waiting tasks, each call one section. *)

\* The block at place i of list l is the first of event e: of the high list, or else
\* of the other one.
Found(e, l, i) ==
    LET events(list) == { task[Waiting(list)[j]].event : j \in 1..Len(Waiting(list)) }
    IN  /\ task[Waiting(l)[i]].event = e
        /\ \A j \in 1..i - 1 : task[Waiting(l)[j]].event # e
        /\ l = "task_list" => e \notin events("task_list_high")

Task_RemoveExistTask(t) ==
    /\ Free(t)
    /\ \E e \in Removable, l \in { "task_list", "task_list_high" } :
       \E i \in 1..Len(Waiting(l)) :
         LET b == Waiting(l)[i] IN
         /\ Found(e, l, i)
         /\ links' = QueuePutTail(QueueRemoveEle(links, "task_list_high", b), "task_free_pool", b)
         /\ task' = Blanked({b})
    /\ UNCHANGED << creators, worklet, driver_state >>

Queued == UNION { { Waiting(l)[i] : i \in 1..Len(Waiting(l)) } :
                    l \in { "task_list", "task_list_high" } }

\* Each block of list l that is in bs is taken from it, in turn, and freed.
FreeAll(h, l, bs) ==
    LET q == Waiting(l)
        after[i \in 0..Len(q)] ==
          IF i = 0 THEN h
          ELSE IF q[i] \in bs
                 THEN QueuePutTail(QueueRemoveEle(after[i - 1], l, q[i]), "task_free_pool", q[i])
                 ELSE after[i - 1]
    IN  after[Len(q)]

Task_RemoveAllMngFrameTask(t) ==
    /\ Free(t)
    /\ LET mng == { b \in Queued : task[b].event = "CALL_MANAGEMENT" }
       IN  /\ links' = FreeAll(FreeAll(links, "task_list", mng), "task_list_high", mng)
           /\ task' = Blanked(mng)
    /\ UNCHANGED << creators, worklet, driver_state >>

Task_Reset(t) ==
    /\ Free(t)
    /\ links' = FreeAll(FreeAll(links, "task_list_high", Queued), "task_list", Queued)
    /\ task' = Blanked(Queued)
    /\ UNCHANGED << creators, worklet, driver_state >>

-----------------------------------------------------------------------------
(* The work item. *)

\* _tdsp_worklet_routine: the work is off the queue; it does nothing when
\* the flag has been cleared by the run before.
Worklet_Routine ==
    /\ wpc = "off" /\ pending
    /\ pending' = FALSE
    /\ wpc' = IF running THEN "check" ELSE "off"
    /\ UNCHANGED << links, task, creators, held, running, driver_state >>

Worklet_Return ==
    /\ wpc = "end"
    /\ running' = FALSE
    /\ wpc' = "off"
    /\ UNCHANGED << links, task, creators, held, pending, driver_state >>

Thread_Check ==
    /\ wpc = "check"
    /\ wpc' = IF halted THEN "end" ELSE "pop"
    /\ UNCHANGED << links, task, creators, held, running, pending, driver_state >>

\* The next task, from the links h: of the high list, or else of the other.
PopNext(h) ==
    LET l == IF QueueGetHead(h, "task_list_high") # Null THEN "task_list_high"
             ELSE "task_list"
    IN  /\ held' = QueueGetHead(h, l)
        /\ links' = QueueRemoveHead(h, l)
        /\ wpc' = IF QueueGetHead(h, l) = Null THEN "end" ELSE "loop"

Thread_Pop ==
    /\ wpc = "pop"
    /\ PopNext(links)
    /\ UNCHANGED << task, creators, running, pending, driver_state >>

Freed == QueuePutTail(links, "task_free_pool", held)

Discarded == driver_state = "RESET" /\ task[held].event \notin Exempt

\* Faulty variant: the pointer to the task that was put back is kept.
PutBackKept ==
    /\ wpc = "loop" /\ halted
    /\ links' = QueuePushHead(links, IF task[held].high THEN "task_list_high"
                                     ELSE "task_list", held)
    /\ wpc' = "end"
    /\ UNCHANGED << task, creators, held, running, pending, driver_state >>

\* The driver has been halted: the task waits for better times.
Thread_PutBack ==
    /\ wpc = "loop" /\ halted
    /\ links' = QueuePushHead(links, IF task[held].high THEN "task_list_high"
                                     ELSE "task_list", held)
    /\ held' = Null
    /\ wpc' = "end"
    /\ UNCHANGED << task, creators, running, pending, driver_state >>

Thread_Discard ==
    /\ wpc = "loop" /\ ~halted /\ Discarded
    /\ PopNext(Freed)
    /\ task' = Blanked({held})
    /\ UNCHANGED << creators, running, pending, driver_state >>

Thread_Exec ==
    /\ wpc = "loop" /\ ~halted /\ ~Discarded
    /\ wpc' = "exec"
    /\ UNCHANGED << links, task, creators, held, running, pending, driver_state >>

Thread_Done ==
    /\ wpc = "exec" /\ pc[Worklet] = "idle"
    /\ PopNext(Freed)
    /\ task' = Blanked({held})
    /\ UNCHANGED << creators, running, pending, driver_state >>

\* The device is removed or comes back; a reset begins or ends.
Driver_State ==
    /\ driver_state' \in State \ {driver_state}
    /\ UNCHANGED << links, task, creators, worklet >>

CreateStep(t) == Create_Steal(t) \/ Create_Fill(t) \/ Create_Give(t) \/ Create_Insert(t)
                   \/ Create_Schedule(t)

WorkStep == Worklet_Routine \/ Worklet_Return \/ Thread_Check \/ Thread_Pop
              \/ Thread_PutBack \/ Thread_Discard \/ Thread_Exec

Next ==
    \/ \E t \in Thread : \/ Create_Pop(t)
                         \/ CreateStep(t)
                         \/ Task_RemoveExistTask(t)
                         \/ Task_RemoveAllMngFrameTask(t)
                         \/ Task_Reset(t)
    \/ WorkStep
    \/ Thread_Done
    \/ Driver_State

Spec == Init /\ [][Next]_vars

\* While a creator puts a block back without the lock, nobody else takes from the
\* pool or adds to it, or begins to: what the missing lock would see to.
Alone == \A t \in Thread : pc[t] = "give" =>
             \/ pc'[t] # "give"
             \/ /\ links'["task_free_pool"] = links["task_free_pool"]
                /\ \A u \in Thread : pc'[u] = "give" => u = t

AloneSpec == Init /\ [][Next /\ Alone]_vars

\* Every thread goes on with its call, the kernel runs the queued work, and a
\* task comes to its end, though it may call the module before.
FairSpec ==
    AloneSpec /\ (\A t \in Thread : WF_vars(CreateStep(t)))
              /\ WF_vars(WorkStep) /\ SF_vars(Thread_Done)

-----------------------------------------------------------------------------
(* Properties. *)

InHand == ({ hand[t] : t \in Thread } \cup {held}) \ {Null}

Queue == INSTANCE WlanTaskQueue WITH TaskBlock <- Block,
           free <- { Waiting("task_free_pool")[i] : i \in 1..Len(Waiting("task_free_pool")) },
           normal <- Waiting("task_list"), high <- Waiting("task_list_high"),
           out <- InHand

\* Whatever the callers and the worklet do, the links always read as the two
\* ordered queues and the pool of WlanTaskQueue, each section changing them in
\* one of its ways: no macro ever leaves a list cut or a block in two lists
\* (usbwlan_Task.c:365-490, 495-760, 800-1205).  This is so when the return of a
\* block without the lock (448) meets nobody at the pool, as in AloneSpec; under
\* Spec a block taken from the pool in between leaves it cut or lost.
ImplementsQueue == Queue!QSpec

InHigh(b) == \E i \in 1..Len(Waiting("task_list_high")) : Waiting("task_list_high")[i] = b

\* A task of high priority is run or removed at last, if the driver does not
\* stay halted and tasks go on being created, as received frames see to: the
\* flag of the work item may be cleared after a task was added, and then only
\* the next creation gets it run (tdsp_tasklet.c:32-36, 66-73).
HighIsServed ==
    ([]<>(\E t \in Thread : pc[t] = "schedule") /\ <>[]~halted)
      => \A b \in Block : InHigh(b) ~> ~InHigh(b)
=============================================================================
