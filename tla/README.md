# TLA+ models of the 3DSP USB WLAN and Bluetooth driver

The repository is a Linux driver for the 3DSP combo card, one USB device that is
both a WLAN station and a Bluetooth controller.  It is three kernel modules: a
bus driver (`src/bus`), a Bluetooth driver (`src/bluetooth`) and a WLAN driver
(`src/wlan`).  Neither driver is a thin transport.  The card has only a baseband,
so the HCI, the link manager, the scheduling of frames and the bookkeeping of
links of Bluetooth run on the host, and so do the fragments, retries, scanning,
authentication and roaming of WLAN.

Two files of the tree are firmware images (`bluetooth/sp20code.h`, 67,092 lines;
`wlan/usbwlan_firmware.c`, 48,924 lines).  Without them the code is about
130,000 lines, headers included.

The build options that select code are those the makefiles turn on:
`BT_FRAG_USED`, `BT_SCHEDULER_SUPPORT`, `BT_SNIFF_SUPPORT`,
`BT_ROLESWITCH_SUPPORT`, `BT_AFH_SUPPORT`, `BT_EXT_SCO_LINK_SUPPORT`,
`BT_3DSP_FLUSH_SUPPORT`, `BT_SUPPROT_RX_FRAG`, `BT_ENCRYPTION_SUPPORT`,
`NEW_RETRY_LIMIT`, `ROAMING_SUPPORT`, `ANTENNA_DIVERSITY`, `DSP_WPA2` and a few
without influence here.  `BT_TESTDRIVER`, `BT_TESTMODE_SUPPORT`,
`BT_SERIALIZE_DRIVER`, `BT_3DSP_HI_SPEED` and `BT_2_1_SPEC_SUPPORT` are off, and
`ASSERT` does nothing.

## 1. Files

| module | what it is |
| --- | --- |
| `BtSched` | the scheduler of poll and flow control frames (`sched.c`) |
| `BtFifo` | what the scheduler promises: an abstract queue |
| `BtConnTable` | the table of ACL links (`bt_hci.c`, its reset in `bt_task.c`) |
| `BtLinks` | what the table promises: an abstract set of links |
| `BtTxPump` | the transmit pump (`bt_frag.c`, `btusb.c`, `bt_cancel.c`) |
| `BtDataLink` | what the pump promises: one ordered channel per link |
| `BtRxPath` | received frames, from the transfer to the host (`bt_sendrecv.c`, `btusb.c`, `bt_task.c`) |
| `BtLmp` | the link manager, on both ends of a link (`bt_lmp.c`, parts of `bt_hci.c`) |
| `ListLinks` | the list macros both drivers share (`usbwlan_queue.h`, `bt_queue.h`) |
| `WlanTask` | the task queue of the WLAN driver, on linked lists (`usbwlan_Task.c`) |
| `WlanTaskQueue` | what it promises: two queues and a pool |
| `WlanTx` | the transmit path (`usbwlan_tx.c`, `usbwlan_UsbDev.c`) |
| `WlanRx` | the collection of fragments and the filter of repeated frames (`usbwlan_rx.c`) |
| `WlanMng` | scan, join, authenticate, associate, roam (`usbwlan_mng.c`, parts of `usbwlan_main.c` and `usbwlan_ioctl.c`) |
| `*_proofs` | theorems about the module of that name |
| `MC*` | constants and symmetry for TLC; one `.cfg` for each run |
| `PROJECT.json` | components, runs, faulty variants, source lines, findings, hazards, theorems |

To check: `tlc -config MCBtSched.cfg MCBtSched.tla`, `tlapm BtSched_proofs.tla`.

A definition whose comment begins with "Faulty variant" is not part of any
specification.  It is the form its neighbour would have with a plausible bug,
and the property named beside it in `PROJECT.json` is violated when it takes the
neighbour's place.  They show that the properties can fail.

## 2. Inventory

### 2.1 Execution contexts

The Linux port keeps the structure of a Windows driver.  In the Bluetooth driver
`KeAcquireSpinLock` is `spin_lock_bh` and `KeAcquireIRQSpinLock` is
`spin_lock_irqsave`; the WLAN driver takes most of its locks with a plain
`spin_lock`, in softirqs and threads alike.

| context | what runs there |
| --- | --- |
| Bluetooth: tasklet `usb_complete_task` | completed URBs in the order of `complete_q`: interrupts of the card (new transmit space, hence the whole pump; role changes; flushes), received frames, write completions |
| tasklet `taskletRcv` | hands the ring of received data and events to the stack |
| one single-threaded work queue (`bt_pnp.c:220`) | first in, first out: tasks (events, link manager), the watchdog's work item (`Hci_Timeout`, `LMP_PDU_Timeout`, `Sched_ScanAllLink`), HCI commands with the reset |
| watchdog timer (softirq) | each second: cancels transfers, repeats space queries, runs the timers of slave links |
| TxTimer (softirq) | asks for transmit space |
| `send_frame` (any thread) | accepts data |
| WLAN: completion tasklet, transmit tasklet, softirq of the stack | received frames, sending, frames handed over |
| retry interrupt of the card | at any point of the others |
| worklet (work item) | the tasks of `usbwlan_Task.c`, one after the other |
| timers (softirq) | management timer, fragment timer, transmit watchdog |
| requests of a user (`iw_handler`) | one at a time: the kernel holds the rtnl lock |
| suspend, resume, probe, disconnect | threads of the kernel |

### 2.2 Bluetooth

| component | state | operations | hard | correct when |
| --- | --- | --- | --- | --- |
| Frame scheduler, `BtSched` | 32 request blocks in a list or a free pool | ask for a poll, STOP or CONTINUE; scan all links; drop all polls; execute the first | check and insertion are separate sections; the executor holds a block outside both lists; the link of a request may go away | no block lost or linked twice, served in order, copies bounded |
| Connection table, `BtConnTable` | pool of blocks, list of master and of slave links, tables of addresses and handles, counts, role | add, delete by address, handle or device, release all, reset | each is a chain of sections under `HciLock`; several contexts | one owner each, none leaks |
| Transmit pump, `BtTxPump` | elements in lists, one buffer and its transfer, the view of the card's space, the query flag, two timers | accept, query, process the answer, complete, cancel, bar, stop, purge | the view is stale by construction; queries refused or lost; packets pushed back; links go away under it | card never overfilled, order kept, nothing lost, everything drains |
| Transmit backup and flush (`bt_flush.c`) | a ring of sent frames per queue, nodes that describe it | back up, process a flush interrupt, send again | arithmetic at the end of the ring; early returns with transmission disabled | what is rebuilt is what was not acknowledged |
| Receive path, `BtRxPath` | receive state, frames kept as tasks and their count, ring of 32, flow control per link | take a transfer, keep or put, hand up, stop and continue senders | three contexts; data must not overtake the set-up of their link | data after their connection and in order, a stopped sender goes on |
| HCI commands and timers (`bt_hci.c`) | current command, timer per connection | 150 commands, timeouts | a timer may act on another link than its own | one status and completion per command |
| Link manager, `BtLmp` | state, flags and timer per link, keys, buffers with several meanings | connection, pairing, authentication, encryption, detaching | collisions, late answers of the host, refusals in every state | both ends agree, nobody is told less than asked, every exchange ends |
| Role switch (`bt_hci.c`, `bt_lmp.c`, `bt_sendrecv.c`) | flag, reserved address, retries | negotiate, write the FHS frame, move the block | interrupts of the card in unknown order | the address is freed or used once |
| Task thread (`bt_task.c`) | pool, list by priority | create, run in order | | as `WlanTask` |
| USB transport (`btusb.c`, `bt_usb_vendorcom.c`) | pools of commands, one bulk-out buffer, completion queues | | | |
| Life cycle (`bt_main.c`, `bt_pnp.c`, `bt_power.c`, `bt_cancel.c`) | device state | probe, open, close, suspend, resume, disconnect | each stops contexts in an order | nothing runs on freed memory |

Channel classification (`afhclassify.c`), list primitives (`bt_queue.h`), codecs
and keys, firmware download, register access and tables, and the test mode
(compiled out) have no behaviour of their own beyond a call.

### 2.3 Bus

The bus driver (`businit.c`, `busioctl.c`) keeps, per device (Bluetooth, WLAN, GPS),
the registered interface, its state, the hot key and antenna flags.  It registers
interfaces, plugs them in (open) and out (close), and serves the ioctls of a control
program.  It has no lock; its callers are module loading, hot plug and one process.
The bus clients (`tdsp_bus.c`, in both drivers) register.

### 2.4 WLAN

| component | state | operations | hard | correct when |
| --- | --- | --- | --- | --- |
| Task queue, `WlanTask` | blocks in a free pool, a normal and a high list | create, steal, run, put back, discard, remove | blocks move between linked lists in separate sections; a creator holds a block outside; lost wake-up of the work item | the links always read as two queues and a pool; high tasks are served |
| Transmit path, `WlanTx` | pool, queues (management, data, retry), one frame under way as two transfers | hand over, send, keep, resend on the card's interrupt, time out, cancel | the retry interrupt comes anywhere; nothing polls | no frame lost, shared or freed under a transfer; what waits is sent |
| Receive path, `WlanRx` | elements that collect fragments, with timers; ring of recent frames | find, test, fill, deliver, time out | sections with gaps | whole frames, each once |
| Management, `WlanMng` | state of the join and of the scan, some ten flags, one timer | scan, join, authenticate, associate, roam, reset, requests of the user | four contexts, no lock | connected only with who granted it, every attempt ends |
| USB transport (`usbwlan_UsbDev.c`, `usbwlan_interrupt.c`) | idle and submitted URBs per pipe | | | |

Driver entry, network device, ioctl; operating system layer; formats and tables;
firmware: life cycle, wrappers, data.

### 2.5 How the parts modelled meet

The stack's packets enter the pump's lists.  The watchdog's work item and the
receive path ask the scheduler for short frames.  The card's answer to a space
query runs the pump, which runs the scheduler's executor first and the lists of
packets next, so both share the transmit buffer.  The connection table owns the
blocks that requests and packets point to; when a link goes down,
`Frag_InitTxForConnDev` clears its `valid_flag` and purges its packets, the
table frees the block and the next link takes it, while requests and packets
may still name it.  `BtSched` and `BtTxPump` therefore both contain the life of a
block as the table drives it.  `BtRxPath` contains what the scheduler does to its
STOP and CONTINUE, and the worker that the tasks of the link manager share with it;
`BtLmp` begins where `BtRxPath` gives a PDU to the worker.

In the WLAN driver a received management frame, a timeout and a request of the user
are tasks.  `WlanMng` takes the queue as `WlanTaskQueue` promises it, `WlanTask` shows
that the linked lists keep that promise.  Data frames pass `WlanRx` and `WlanTx`
without the worklet.

## 3. BtSched

A step is one section under `sched->lock`, or one access to a connection block
made outside of it.

| code | model |
| --- | --- |
| `sched_list`, `sched_free_pool` (`sched.h`) | sequences of entries and of blocks |
| the block popped by `Sched_Excute` | `held` |
| `Sched_SendPollFrame`, `...StopFrame`, `...ContinueFrame` | `Request_Frame`, which reads the connection; then `Sched_CheckExistSched`, then `Sched_DoOneSched`, each a section of its own, as in the code |
| `Sched_ScanAllLink`, holding `HciLock` over the whole walk | `Sched_ScanAllLink`, `Scan_Link`, `Scan_End` |
| `Sched_DeleteAllPoll` | one step; what it keeps and frees is in the old order |
| `Sched_Excute` | `Excute_Pop`, `Frame_Test` (reading `valid_flag`), `Frame_Send`, `Excute_Record`, then `Excute_Free` or `Excute_Retry` |
| `Hci_Add_*`, `Frag_InitTxForConnDev`, `Hci_Del_*` | what they do to the fields the scheduler reads |

Abstractions: a block's data is its event and connection; the transmit buffer,
the space and the USB pipe are the nondeterministic failure of a frame; the frame
counter of a link is whether it reached its threshold.
`Sched_DeleteSched` is never called and is left out.

Properties.  `BlockConservation`: every block in exactly one place, at one
position.  `DuplicateBound`: copies of one request never outnumber the threads,
although check and insertion are not atomic.  `ServedInOrder`: refinement of
`BtFifo`, over retries and purges.  `BlocksReturn`: a block in the list comes back
to the pool, even when its link is gone.

Fairness.  A thread inside the scheduler goes on.  The executor's pop is strongly
fair: each request asks for the space interrupt, a failure arms the TxTimer, and
the interrupt's handler calls `Sched_Excute`.  A frame that may be tried again and
again is written at last: the two strong-fairness conditions on the successful
outcomes.  Nothing makes the stack or the peer do anything.

An observation the model excludes from its properties: `bt_testmode.c:14` says that
no frame is sent for a link whose `valid_flag` is 0, but `BtProcessTxPollFrame` reads
the flag before it fills the frame, and the link may go down in between.

## 4. BtConnTable

A step is one section under `HciLock`.  Between sections a thread carries a block,
perhaps with an address and a handle: `hand[t]`, at `pc[t]`.

| code | model |
| --- | --- |
| `device_free_list`, `device_am_list`, `device_slave_list` | sets of blocks and of link records (their order only decides which block is taken) |
| `am_addr_table`, `am_latest_addr` | the set of used addresses; where the search begins |
| `conn_handle_table` | the set of used handles |
| `Hci_Add_Connect_Device` | `Add_Connect_Device`, `Hci_Allocate_Am_address`, `Hci_Allocate_Conn_Handle`, `Add_List`, or the undo steps |
| `Hci_Add_Slave_Connect_Device` | the same without an address of its own |
| `Hci_Del_Connect_Device_By_*`, `Hci_Del_Slave_*`, each round of `Hci_ReleaseAllConnection` | `Del_*`, `Hci_Free_Conn_Handle`, `Hci_Free_Am_address` (master), `Del_Block` |
| `Task_HC2HCI_Reset` | `Reset_*`: pops the lists under `HciLock`, then one step under `ReadQueueLock` |

A deletion takes any link of the list, because its caller looked the link up some
time before.  The threads of the model stand for the worker, the completion tasklet
(`bt_hci.c:3203`, `btusb.c:1861`, `bt_flush.c:453`) and a suspend (`bt_power.c:79`);
letting every thread do everything allows more than the code does, which is sound for
safety.  `Spec` is the table between resets.  `LoneResetSpec` adds resets that meet no
add or delete under way: the reset is a command on the worker, like nearly all the
other operations.  A reset that did cut into an add would clear the tables under
another lock and leave a listed link whose handle is marked free, against
`bt_hci.h:2071` ("unused").

Properties.  `BlockOwned` and `NumbersOwned`: each block, handle and address has one
owner, in the tables and in the hands of every thread, and none leaks.
`RoleFollowsLinks`: the counts are those of the lists plus the links on their way out,
and the role is that of the links when all are of one kind.  `ImplementsLinks`:
refinement of `BtLinks`.

Not in it: SCO blocks (they share the handles), the role switch (it moves blocks),
the test that a device is not linked twice, and the deletion by a remembered
address; see the hazards.

## 5. BtTxPump

Contexts: the stack, the tasklet (the pump and the write completion, in the
order of `complete_q`), the TxTimer, the watchdog, the thread that takes links
down, and the card.

| code | model |
| --- | --- |
| the lists of `BT_FRAG_T`, `Free_FragList`, `TxFragElement[]` | `FragList`, `Free_FragList`, `ele` |
| `Frag_BuildFrag`: take an element, fill it, list it | `BuildFrag_Take`, `BuildFrag_Put` |
| `UsbQueryDMASpace` and its flag | `UsbQueryDMASpace`, `SpaceQueryFlag`, `queries` |
| `Frag_ProcessSpaceInt` | `Frag_ProcessSpaceInt` ... `ProcessSpaceInt_End` |
| `Frag_CheckTxQueue` | `CheckTxQueue_*` and the turn of the lists, `AclProcCounter` |
| `Frag_ProcessAclFrag` | `ProcessAclFrag_Find`, `_Take`, `_NoSpace`, `_Write`, `_WriteFails`, `_Put`, `_Back`: one per section of `FragTxLock` |
| `Usb_WriteCompletion` | same name |
| `Frag_DataSendingTimer` | `DataSendingTimer_Test`, `_Set`: the flag is tested and set in two steps |
| `BtWatchdogTimer`, `BtUsbWriteIrpTimeOut` | `BtWatchdogTimer`: cancels at the last tick, repeats a refused query the second time |
| `Frag_InitTxForConnDev`, `Frag_StopQueue`, flush interrupt, packet type change, flow control, encryption, hold | `Frag_InitTxForConnDev`, `Frag_StopQueue`, `FlushInt`, `Bar` and their ends |
| the card | `Card_*`, external |

Abstractions.
- One write, of at most four fragments, is the unit of space and of sending.  The
  code compares bytes; what matters to the properties is that it writes only
  when more than what it writes is free.
- `ListOf` is constant: the moves between lists on a change of mode or role
  are not modelled, nor that `Frag_InitTxForConnDev` empties the sniff list with the
  last sniffing link.
- Left out: the SCO list, the backup of sent frames, `FreeFrag_Count` (it is only
  printed), the fields that only measure, and the re-cutting of queued packets
  when packet types change.
- The card reports its free space as it is at the moment it answers.  It may lose a
  query and may never take a transfer.
- The tasklet is the only one that takes the transmit buffer or lowers `IdleSpace`.

Two specifications.  In `Spec` a link is taken down between two rounds of the
pump, as on one processor, where a thread cannot interrupt a tasklet; in
`SmpSpec` at any time.

Properties.  `ElementOwned`: each element in one place, and a listed one has
something to send.  `BufferFollowsTransfer`: the buffer is taken exactly while its
transfer or its completion exists.  `CardFits`: no overfilling in spite of stale
reports; it holds because a report older than a transfer precedes that transfer's
completion in `complete_q`, and the buffer is not free before it.
`PacketsInOrder`: refinement of `BtDataLink`.  `Drains`: once nothing bars the
lists any more every element is free again and again, and a transfer that the card
does not take is given up, so that the buffer comes back.

Fairness.  Tasklet, timers and a started `Frag_BuildFrag` go on (weak).  USB does
not refuse the writes of one element for ever (strong, per element; without the
"per element" a host controller that always refuses the writes of one list and
never those of another would be fair and would starve a packet).  The card answers
some of infinitely many queries (strong) and sends what it holds (weak), but is not
assumed to take a transfer: the watchdog is there for that.

Two observations outside the runs.  A packet that the stack queues while its link is
being closed stays in the list and goes out on the link that takes the block next:
`Frag_BuildFrag` finds the link until its block is freed (`bt_frag.c:1429`,
`579-586`), although `bt_hci.c:13339` says that the take-down cancels what is
pending.  And on two processors the pump may find an element in one section and remove
it in another with the purge in between (`SmpSpec`), against `bt_queue.h:137`.

## 6. BtRxPath

| code | model |
| --- | --- |
| `Usb_ReadCompletion`, `BtUsbSubmitReadIrp` | same names: the receive state is read once for all frames of a transfer |
| `BtProcessRx_New` | a frame in the state CONNECTED: data to the ring, LMP PDUs to the worker |
| `BtPreProcessPacket` | a frame in the state CONNECTING: a task, counted in `RxPacketNum` |
| `BtProcessRxPoolFrame`, `BtTaskProcessRxPoolFrame` | the poll of a slave link not known: the state changes, the worker adds the link |
| `Task_ThreadRoutine` with `BtTaskProcessRx`, `LMP_setup_complete` | the worker takes a task |
| the count and `BtCheckAndChangeRxState` | `CountTask`, `BtCheckAndChangeRxState`, `ChangeRxState`: three sections |
| `Hci_SlaveConnectionTimeOut` | the timer of the receive state, a softirq |
| events put into the ring, retried after a delay when it is full | `PutEvent`, `DelayOver` |
| `Sched_SendAclNullStopFrame`, `...ContinueFrame`, `Sched_Excute` | `Sched_SendAclNullStopFrame`, `Asked`, `Sched_Excute`: the flag of a stopped link is set only when the frame is sent |
| `BtProcessRx_skb` | the tasklet that empties the ring |
| the card and the devices | `Page`, `CardSends`, external |

The model is that of one processor: the worker makes no step while a transfer is
handled.  A device pages again only when nothing of its last connection is under way
and its entry is gone (paging takes longer); a transfer holds one poll of a device not
known; the PDU that completes a set-up comes only from a device that is listed, since its set-up
goes through PDUs that only listed links are sent (`bt_lmp.c:3886`).  Left out: the rings of voice, bad-channel, CRC, NULL and DV reports, role
switches, the sequence numbers of the frames, failed allocations, and the exhaustion
of the 16 buffers of PDUs.

Properties.  `CountIsExact`: `RxPacketNum` counts the tasks not finished, and in the
state CONNECTED there is none.  `DataFollowConnection`: data reach the host after the
Connection Complete of their link and in order ("used to serialize rx process flow",
`bt_sw.h:524`), unless the set-up took longer than the timer waits (5 s, and 2 s more
once it is set up) or the event found the ring full: `late`.  Without that excuse it
fails, as the code has it.  `AllIsServed`: the tasks and the ring run empty, and a
stopped device whose data are in the ring goes on.

Fairness: the work queue (strong, since transfers interrupt it), the end of a
transfer, delays, the tasklet and the scheduler.

Read in the code on the way, and not properties: a CONTINUE is asked for only while
the ring still has data of the link, so that a STOP executed later (`sched.c:410`) may
leave the link stopped; the Disconnection Complete is put before the entry is deleted
(`bt_hci.c:3283-3294`), so data may follow it; data of master links always go
to the ring at once; after one lost frame `RxSeqNo` makes the driver drop every later
transfer until a reset (`bt_sendrecv.c:1895`, `3336`).

## 7. BtLmp

Two devices that both run this code, from the request for a connection on.  A handler
is one step: tasks, the watchdog's item and the commands share one thread.  The link
keeps the order and loses nothing until it is deleted.

| code | model |
| --- | --- |
| `lmp_states`: a state in the low byte, flags above | `low`, `bits` |
| `LMP_PDU_Timeout` with one timer for whatever is awaited | `timer`, `PduTimeout` |
| `link_key`, `aco`, `init_key`, which serve several purposes | `key`, `aco`, `init`: the first also holds the number of an in_rand, the others remember whose transaction a request belongs to |
| the LMP handlers (`LMP_accepted` ... `LMP_setup_complete`) | an operator from the record of a device to its next, and an action of the same name |
| `Hci_Receive_From_LMP`, commands and replies of the host | `Detached`, `SetupEnds`, ...; `HostAccepts`, `HostGivesKey`, ... |
| `Hci_Timeout` | pairing and connection timers |
| SAFER+ | equal results for equal keys and numbers |

Left out: synchronous links, the modes, the role switch, pausing encryption, unit
keys, the sizes of keys, the queue of PDUs, test mode.  A configuration that asks for
encryption without authentication is excluded.

Properties.  `SecuredFirst`: no host is told of a connection that is not as secure as it
asked.  `EncryptionAgrees`: both ends encrypt alike, with the same key.
`EverythingEnds`: both hosts learn the end of a set-up, and every exchange ends.
`PausedInProcess`: data are held back only while an exchange is under way.

Fairness: what arrives is handled, and the two timers go on; the hosts owe nothing.

## 8. WlanTask

A step is one section under `pTask->lock`, or what a thread does between two of them
with the block it holds.  The lists are modelled by their links (`ListLinks`), for the
macros trust their callers to name the right list.

`Create_*` are the sections of `Task_CreateTask` (a full pool gives a high task the
block of the oldest normal one: `Create_Steal`; a creator that gets no memory for its parameter
puts the block back, in `Create_Fill`, which reads the tail of the pool, and `Create_Give`, which
links the block behind what was read), `Worklet_*` and `Thread_*` those of
`Task_ThreadRoutine` with its work item.  `Found` is the block `Task_RemoveExistTask` comes to
first, by its list and place; `FreeAll` walks a list and frees what is to be removed, from the
links as each removal leaves them.  No caller sets the force bit of the priority,
so its branches are left out; what a task does is left out, except that it may create
and remove tasks.

Two specifications.  The block is put back without `pTask->lock` (`usbwlan_Task.c:448`),
while another processor, or an interrupt that creates a task (`usbwlan_interrupt.c:219`, `290`,
`301`), takes blocks from the pool under it.  `Spec` lets them meet, and then TLC finds
`ImplementsQueue` violated in 13 steps: the block that was the tail is popped, and the block
put back is linked behind it and lost.  `AloneSpec` (`Alone`), which the run and
the two proofs about the links use, keeps the others away from the pool in that moment: it
says what the missing lock would.  What it shows is everything else about the links.

Properties.  `ImplementsQueue`: the links always read as the two queues and the pool of
`WlanTaskQueue`, under `AloneSpec`.  `HighIsServed`: a task of high priority is run at last; it needs that
tasks go on being created, for the flag of the work item may be cleared after a task
was added (`tdsp_tasklet.c:32-35`).

`Removable` of the run leaves out one event, and that is a finding in prose: the task
`SET_POWER_SAVE` is created with normal priority (`usbwlan_mng.c:3067`) and removed
(`usbwlan_mng.c:3011`, `3057`) through `Task_RemoveExistTask`, which unlinks a task found
in `task_list` with the head of `task_list_high` (`usbwlan_Task.c:570`).  When it is the first or the last, the block stays the head or
tail of `task_list` and goes into the pool as well, against `usbwlan_Task.h:122` ("If this
block is already in list, driver must not insert this block into list again").  With it
in `Removable`, `ImplementsQueue` fails after a few steps.  `RemovedAreHigh` says that no such
event is in `Removable`; it is true of the others (`SCAN`, `TX_WATCH_TIMEOUT`, `HARDWARE_RESET`)
and is the hypothesis under which the implementation is proved.

## 9. WlanTx

One frame at a time is on its way, as two transfers; a data frame that was sent is kept
in `retry_frm_que`, from which the card's interrupt has its last n frames sent again.
Softirqs exclude each other, the retry interrupt comes at any point of them, threads run
between them.

`Routine_*` is the tasklet (`_tx_routine`), `Submit_*` the transfers of a frame,
`Process_Sent` and `KeepSent_*` their completion, `Adap_Send` and `Alloc_Take` the
frame handed over, `Tx_Process_Retry_Int` the interrupt, `TimeOut_*` the watchdog's thread,
`Cancel_*` is `Tx_Cancel_Data_Frm`.  The high management queue is never used; building frames,
rates and joining are left out, with it the guards of `_tx_routine` at 1795, 1878 and 1888
(`tx_disable`, `bStarveMac`, `hasjoined`) and that a frame sent when the station has left
is released at once (633).

Three removals are not protected from the interrupt: that of the oldest kept frame
(`usbwlan_tx.c:580-599`, a plain `spin_lock`), that of a free frame (444-448, `spin_lock_bh`), and those
of `Tx_Cancel_Data_Frm`, which takes no lock (2829, 2845) and so is open to the tasklet as well.
Each is cut between what it reads and what it writes: `Adap_Send` reads head, successor and
count, `Alloc_Take` writes; `Process_Sent` reads the last or the first of the queue, `KeepSent_Room`
and `KeepSent_Full` write; `Cancel_Load`, `Cancel_Pop`, `Cancel_Drop`.  A stale read has its effect: the frame
read is released although another was removed, a pool is written empty, a count is written back,
a frame is linked behind one that has left and is not reached.  The stores of one removal are one
step, and where links would point into another list they are not followed there.  The model is of
one processor, for whose kernel a lock that leaves interrupts on is none; on several, the
interrupt waits for another processor, and for ever if its own holds the lock.

Two specifications.  `Spec` has all of this, and TLC finds `PoolConserved` violated under it:
after 11 steps by a cancellation whose frame the tasklet takes between the two
reads, after 33 without cancellation, by an interrupt that releases frames while one is being taken
from the pool.  `QuietSpec` assumes what the locks do not ensure: nothing is changed between
the read and the write of a removal (`Undisturbed`), and queues are not emptied while frames are sent again
from them or still being transferred (`Quiet`): `Tx_Cancel_Data_Frm` leaves `tx_retry_valid`
and `tx_retry_index`, and the tasklet would then read past the end (`usbwlan_tx.c:2842`).  The run
and the proofs other than that of `TypeOK` are of `QuietSpec`.

Properties.  `PoolConserved`: no frame lost, shared, or free under a transfer.
`TaskletIsRight`: the tasklet's view of the transfer and of the retry queue
(`tx_retry_index`) fits what is there.  `FramesLeave`: every frame that waits is sent at
last, unless the watchdog has stopped transmission or USB refused a transfer: after those
nobody schedules the tasklet (`usbwlan_tx.c:2291`, `2364`).

## 10. WlanRx

`FindElement`, `TestFragment`, `CopyData` and `RestartTimer` are the sections of
`Rx_recfrag_defragment`, with gaps between them; `CheckFilter` and `AddFilterOption` the
filter; `Rx_defragment_timeout` the timer; `Frag_ClearInfo` a request for another network.
`Spec` is that of one processor, where a timer does not interrupt the tasklet; under
`SmpSpec` the timeout may free the element between the unlocked test
(`usbwlan_rx.c:784`) and the copy (797), and `WholeFrames` fails.  Sequence numbers do not wrap
in the model; the check of the MIC is left out, as is how frames come in.

Properties: `WholeFrames`, `DeliveredOnce`, `BusyIsTimed`.

## 11. WlanMng

A handler of the worklet is one step, the long wait before a scan being a place of its
own; softirqs fire the timer, queue frames, handle the association response and notice
lost beacons; the user asks for a scan, a network, or an end.  Infrastructure mode, open or
WEP, one antenna.  There is at least one channel to scan (every region of `usbwlan_main.c:1955`
has some): the proofs need it, for a scan without one would end where it begins, before its
flags are those of a scan.

`DoScan`, `DoJoin`, `DoAuth`, `DoAssoc`, `Reconnect`, `Timeout` and the `Rx*` operators are the
functions of `usbwlan_mng.c`, from the record `ad` of the adaptor's fields to its next value or
values; `Run*` the tasks; `Set_SSID`, `Start_Scan`, `Disassociate`, `Set_Auth`, `Set_Encode` the
requests.  The bounds `Rare` allow one odd frame, one busy card or one mishap in a behaviour.

`privacy` is `gdevice_info.privacy_option`: whether the station has keys.  A key given or
taken away (`Set_Encode` and its task `RunWep`), the choice of a way to authenticate (`Set_Auth`), a
join and a network found by its name set it; it decides which access points a roam may take
(`Candidates`), whether the shared key is tried, and what a beacon does to a connection:
`RxWhenAssocOk` ends it when any access point of the same name announces another privacy
(`usbwlan_mng.c:2952`), also one the station is not connected to, so that with one private and one open
access point of a name in hearing no connection lasts.  The task that `DisConnect` creates does the rest.

`CalmSpec` excludes two overlaps the code does not sort out: a scan asked for while the
worklet waits to begin one (the finding of `wlan_mng_overlap`), and beacons lost while a
request to end the connection waits (`usbwlan_main.c:3847` notes the need to reconnect
first; a later scan then revives the connection that was given up).

Properties.  `WaitsAreTimed`: an attempt, or a scan, never waits without the timer or its
queued timeout.  `JoinExcludesScan`: the flag of a user's scan is down during a join.
`LinkGranted`: the driver takes itself for connected only with who granted it, and data flow
outside that state only while the card roams.  `AttemptsEnd`: every attempt ends, and a lost
connection is taken up again or given up.  Mishaps (a card reset, a short response, a lost
task) are excused in the timed ones, because the code does lose its timer then
(`usbwlan_mng.c:2501`, `usbwlan_main.c:2673`, `3091`).

Left out: beacons that hide their name (which `usbwlan_mng.c:2887` takes for the same name), an
association identifier of 0 (2891), the checks of WPA and RSN (2936-2950, which end a connection in the
same way), the keys of `SIOCSIWENCODEEXT`, independent networks, antenna diversity, the longer wait with a good signal, the
timeout of the WPA handshake, roaming by threshold, power saving, the soft and system resets.

## 12. Runs

| run | instance | distinct states | shows |
| --- | --- | --- | --- |
| `sched` | 2 threads, 2 blocks, 1 link, fair | 94,730 | all five properties of `BtSched` |
| `conn_table` | 4 blocks, 2 addresses, 3 handles, 3 threads, symmetry, resets when the others are idle | 125,342 | ownership, counts, refinement of `BtLinks` |
| `tx_pump` | 2 elements of up to 2 writes, 2 links in the master list, bars and stops | 639,814 | `ElementOwned`, `PacketsInOrder` with overtaking |
| `tx_live` | 1 element, control frames, lost answers, flushes, stopped and closed lists, fair | 194,190 | `BufferFollowsTransfer`, `CardFits`, `Drains` |
| `rx_path` | 1 mouse, ring of 4, transfers of 3, 3 data frames, 2 connections, fair | 365,727 | `CountIsExact`, `DataFollowConnection`, `AllIsServed` |
| `lmp` | all settings of two devices, 1 command | 88,260 | `SecuredFirst`, `EncryptionAgrees`, `EverythingEnds` |
| `lmp_paused` | 2 commands | violated after 39,575 | finding: `PausedInProcess` |
| `wlan_task` | `AloneSpec`, 3 blocks, 3 kinds of tasks, 1 creator and the worklet, fair | 77,220 | `ImplementsQueue`, `HighIsServed` |
| `wlan_tx` | `QuietSpec`, 2 data frames, 1 management frame, retry list of 2, 1 watchdog, 1 refusal, 1 cancellation, 2 retry interrupts, fair | 926,149 | `PoolConserved`, `TaskletIsRight`, `FramesLeave` |
| `wlan_rx` | 2 stations, frames of up to 3 fragments of which 2 fit, 2 elements, symmetry | 1,225,509 | `WholeFrames`, `DeliveredOnce`, `BusyIsTimed` |
| `wlan_mng` | 2 access points (one private), 2 requests, one rare event, fair | 450,255 | the four properties of `WlanMng` |
| `wlan_mng_overlap` | `Spec`, 1 access point | violated after 7,888 | finding: `JoinExcludesScan` |

Why the bounds are enough for the question asked.
- Scheduler: two threads between check and insertion while the executor holds a copy are
  the case of `DuplicateBound`; two blocks are exhausted.  Requests name blocks, not each
  other, so one link with its three kinds of request gives every order of equal and
  different requests.  For every size all but `BlocksReturn` is proved.
- Table: there are fewer addresses than blocks and fewer handles than blocks, so
  both kinds of failed add happen, each while other threads are inside an add and
  a delete.
- Pump: overtaking needs two elements of different links in one list; a packet cut
  by a failed write needs two writes.  A stale report needs two overlapping queries, which
  the runs do not have; there the proofs of `CardFits` and `BufferFollowsTransfer`, for any
  number of queries, take their place.
- Receive path: the second connection of a device needs the state to change twice; the ring
  of four is full with three elements, so that data are lost and events delayed.  An instance
  with one link known from the beginning beside the calling one (2.6 million states) was
  checked once for safety, a smaller one with liveness.
- Link manager: one command meets every state of the set-up's end; two commands, which the
  second run has, cross.
- Task queue: a steal needs a full pool with one normal task, a put-back a block in the worklet's
  hands while the pool is used up: three blocks.
- Transmit: the second interrupt comes while frames of the first are being resent.  A retry list
  of 3 with three frames was checked once for safety.
- Fragments: a second frame of the same station while an element is busy with the first, and
  another station that needs the element.
- Management: two access points of one network are the least that can roam, and, one private
  and one open, those whose beacons end each other's connections; instances with three
  and four requests, or two losses of beacons (up to 3.3 million states), were checked once.

`MaxPending`, `MaxCtl` and `Hindrances` of `BtTxPump`, `MaxBurst`, `MaxPolls`, `MaxData` and
`MaxCalls` of `BtRxPath`, `Commands` of `BtLmp`, `Budget` of `WlanTx` and `WlanMng`, `MaxMsdu`,
`MaxTries` and `MaxFragments` of `WlanRx` are bounds of the instances, not of the code.

Deadlock is checked in every run whose file does not turn it off: it does where the
bounded environment comes to its end (no more frames, commands or requests), and in
`wlan_tx` also because frames wait for ever after a refused transfer.

## 13. Findings

Each is a run that violates what the source says of itself.
1. `wlan_mng_overlap` (`usbwlan_ioctl.c:195`).  A scan is asked for, then a network, then a
   scan again, while the worklet waits up to five seconds to begin the first.  The request
   for the network breaks the scan off, but the second request raises
   `is_oid_scan_begin_flag` again: the first scan goes on, the join starts with `oidscanflag`
   up, and every beacon goes to the scan.  `usbwlan_mng.c:4103` calls it "WRONG STATE: JOINING
   with OIDSCANFLAG".
2. `lmp_paused` (`bt_lmp.c:1154`).  An authentication and a change of encryption cross; the
   refusal of au_rand starts pairing and overwrites the state that waits for the encryption
   mode.  Nothing takes `is_in_encryption_process` down, and the data of the link are held
   back for ever.  `bt_hci.h:1756` says the flag is 1 while the connection is in the process,
   and 0 otherwise.

In prose, above: the block put back into the pool without the lock and the removal of
`SET_POWER_SAVE` (8), the removals the retry interrupt or the tasklet comes into and the cancellation
under a running retry (9), the timeout between test and copy on several processors (10), the beacons lost under a
waiting request (11), the packet queued on a closing link and the removal race (5), the reset
that cuts an add (4), `valid_flag` (3).

## 14. Proofs

Each for any values of the constants under the named assumption of the module, which
only says that sets are finite where they are counted, that `None` is none of the values
it is told from, that flags are flags, and that bounds are positive.

| theorem | of | strengthening |
| --- | --- | --- |
| `BtSched_proofs!TypeCorrect` | `TypeOK` | `Places` |
| `BtSched_proofs!BlocksConserved` | `BlockConservation` | `TypeOK`, `Places` |
| `BtSched_proofs!DuplicatesBounded` | `DuplicateBound` | `TypeOK`, `Places` |
| `BtSched_proofs!ServiceInOrder` | `ServedInOrder`, the refinement of `BtFifo` | `TypeOK`, `Places` |
| `BtConnTable_proofs!TypeCorrect` | `TypeOK`, this and the next four under `Spec` and `LoneResetSpec` | `Inv`, `LoneInv` |
| `BtConnTable_proofs!BlocksOwned` | `BlockOwned` | `Inv`, `LoneInv` |
| `BtConnTable_proofs!NumbersAreOwned` | `NumbersOwned` | `Inv`, `LoneInv` |
| `BtConnTable_proofs!RoleCorrect` | `RoleFollowsLinks` | `Inv`, `LoneInv`, the conjuncts of the property |
| `BtConnTable_proofs!LinksImplemented` | `ImplementsLinks` | `Inv`, `LoneInv` |
| `BtTxPump_proofs!CardNeverOverfull` | `CardFits`, under `Spec` and `SmpSpec` | `CInv` |
| `BtTxPump_proofs!BufferCorrect` | `BufferFollowsTransfer`, under both | `CInv` |
| `BtTxPump_proofs!PumpTyped` | `TypeOK`, under both | `TypeInv` |
| `BtTxPump_proofs!ElementsOwned` | `ElementOwned` | `TypeInv`, `OwnInv` |
| `BtTxPump_proofs!DataInOrder` | `PacketsInOrder`, the refinement of `BtDataLink` | `TypeInv`, `OwnInv`, `OrderInv` |
| `BtRxPath_proofs!RxPathTyped` | `TypeOK` | `Exact`, `Modes` |
| `BtRxPath_proofs!CountStaysExact` | `CountIsExact` | `TypeOK`, `Exact`, `Modes` |
| `BtRxPath_proofs!DataStayBehind` | `DataFollowConnection` | the same and `FollowOK` |
| `WlanTx_proofs!TxTyped` | `TypeOK`, under `Spec` | `Holding` |
| `WlanTx_proofs!FramesConserved` | `PoolConserved`, under `QuietSpec` | `IInv` |
| `WlanTx_proofs!TaskletStaysRight` | `TaskletIsRight`, under `QuietSpec` | `IInv` |
| `WlanRx_proofs!RxTypesHold` | `TypeOK` | `RInv` |
| `WlanRx_proofs!OnlyWholeFrames` | `WholeFrames` | `RInv` |
| `WlanRx_proofs!ElementsAreTimed` | `BusyIsTimed` | `RInv` |
| `WlanRx_proofs!GivenOnce` | `DeliveredOnce` | `RInv`, `OInv` |
| `WlanMng_proofs!MngTyped` | `TypeOK`, under `Spec` with its two overlaps | none |
| `WlanMng_proofs!AttemptsAreTimed` | `WaitsAreTimed`, under `CalmSpec` | `TypeOK`, `CalmInv` |
| `WlanMng_proofs!JoinsUnscanned` | `JoinExcludesScan`, under `CalmSpec` | `TypeOK`, `CalmInv` |
| `WlanMng_proofs!ConnectedIsGranted` | `LinkGranted`, under `CalmSpec` | `TypeOK`, `CalmInv`, `LinkInv` |
| `WlanTask_proofs!TasksTyped` | `TypeOK`, whatever is removed, under `Spec` | `Typed` |
| `WlanTask_proofs!LinksAreQueues` | `ImplementsQueue`, the refinement of `WlanTaskQueue`, if `RemovedAreHigh`, under `AloneSpec` | `Typed`, `Sound` |
| `WlanTask_proofs!BlocksConserved` | no block of the linked lists is lost or shared, if `RemovedAreHigh`, under `AloneSpec` | `Typed`, `Sound` |
| `WlanTask_proofs!PromiseConserves` | the same of whatever keeps the promise of `WlanTaskQueue` | `PromiseInv` |

Why the invariants are strengthened.
- Scheduler.  The executor's step that frees or re-queues the block must know that it holds
  one: `Places` says that `held` is a block exactly while the executor is between popping and
  putting away, and that a thread that checks or adds has a request.  For the duplicates, the
  copies of a request are split into those in the list, in service and about to be added
  (`Counted`, on the lemmas about `Times`): a thread that finds none in the list joins only threads that
  add, and if the executor serves one more it is not among them.
- Order of the scheduler.  The queue of `BtFifo` is the block in service followed by the list:
  popping and a retry leave it alone, an insertion appends, freeing the block is the service of the
  front, and the purge of the polls, which works on the list only, may leave the front.
- Table.  The section that frees a handle must know that the thread carries one: `Shape` lists,
  for each program point, what a thread carries.  `Inv` is typing, `Shape` and the
  ownerships together, and one lemma per action shows that it is kept.  The refinement maps
  the listed links to links that are up: `Add_List` connects, the two first sections of a
  deletion disconnect, every other step stutters.
- Resets.  A reset first empties the lists, section by section, and makes the tables new in one
  section at the end: in between the numbers of the links that are gone are marked used and owned
  by nobody.  `LoneInv` says that then one thread is emptying and all others are idle (`Emptying`), that no
  link has come back, and that outside a reset `Inv` holds.
- Pump.  The argument is about time.  A report of the card says nothing of a transfer that the
  card takes after it.  `ReportsOK` says when a report can be relied on: when no write
  completion comes after it in `complete_q`.  `OneTransfer` says that the buffer is taken exactly
  while its one transfer or completion exists, so a report that cannot be relied on is
  handled while the buffer is taken, and the round it starts returns at once (`RoundOK`,
  `ViewOK`).  `RoomOK` says that a transfer on its way has its place reserved.  `CInv` does not
  mention the elements, and a link may be taken down at any moment: it holds under `SmpSpec`,
  which `Spec` implies.
- Elements of the pump.  The pump sees an element under one section of `FragTxLock` and removes it
  under another.  `Seen` says that it is still there, because links are taken down only between
  rounds (`Spec`).  `Once`, `Apart`, `Somewhere` and `Unsent` put every element in one place; typing
  rests on `CInv`, since the space that is subtracted must have been there.
- Order of the pump.  The packets of a link under way are the element in hand, while something of
  it is left, and then those of its list that are the link's, in the order of their places
  (`InOrder`).  `Foremost`: the element the pump has seen is the first of its link, because it was
  the first that could be served and a link's elements are barred together.  So
  taking it off the list changes nothing under way, and neither does putting what is left of it
  before the others.  `Sorted` and `Carried`: each element is in, or goes back to, the list of its
  own link.  The lemmas on `InOrder` (the first and the last place; insertion; removal) take the
  place of an induction over the sequence: they rest on the ranks of the places.
- Transmit path.  `HandsOK`: one frame is in hand at a time.  `HomesOK`: every data frame has one
  home or is in hand.  `RetryOK`: a kept frame is touched only while `tx_retry_valid`, so a
  retry interrupt cannot release a frame that is in a pipe; and while one is there after a refused
  body, the index is inside the queue, so `Clear` does not come.  `PipesOK` counts: a frame whose body
  was refused counts one transfer more than it has in the pipes, so the completion of its head is
  never taken for the end of the frame.  `DropsOK`: a frame that was removed to be released is
  nowhere else; `Steady`: what a removal has read still is so.  The last, and that a cancelled path is
  quiet, are what `QuietSpec` assumes.  The types need neither: that whoever is at work has a frame
  (`Holding`) is kept by every step of `Spec`.
- Receive path.  A transfer that came in the state CONNECTED may find the state changed only by
  a poll of its own, and it holds one: `Modes`.  So the assignment of 1 to the counter, which
  looks as if it could forget tasks, only ever replaces 0.
- Order of receive.  The frames of a device go by two ways, and `FollowOK` says why they cannot
  overtake: the tasks of a device are polls, then its set-up, then data (`TaskOK`); a transfer that
  goes at once into the ring finds no counted tasks but its own polls (`PollsOnly`); whatever is under
  way is of the current connection (`CurrentOK`); and while data go at once into the ring, or have
  gone, the link is set up and its event is before them (`LinkOK`).  The attempt to prove it found
  that the environment was too free: it held with two frames in a transfer, and with three a poll, the
  end of the set-up and data could come together before the worker had seen the poll.  A device cannot
  do that (section 6).
- Fragments.  `RInv` says what an element that is being filled holds of its frame (`ElementsOK`),
  what the sender has sent of it (`AirOK`), and what the tasklet knows between its sections
  (`HandlerOK`).
- Repeated frames.  A frame that may come again is one the filter still remembers: `OInv` counts the
  entries made since its last fragment was sent (`Since`), which a station's retries keep below
  the length of the filter.
- Management.  That an attempt is timed rests on the flag of the timer telling the truth
  (`TimerOK`), and the driver has a dozen places that stop it: what matters is that none of them
  stops the timer of somebody else.  A join could stop that of a scan.  So a request for
  a network that waits has broken off the user's scans, and one the worklet waits to begin will
  not come (`RequestOK`); nothing that would start one is before it in the queue (`Ordered`).  The
  tasks that end or take up a connection are only created when no other waits, and so meet no scan
  (`AheadOK`, `Quiet`).  A mishap is counted from the moment it is queued (`UpsetOK`), because it
  takes effect when the worklet comes to it.  Each function of the driver is then compared by what
  it does to the flags, the timer and the queues, and the actions by the functions they call.
- Connection.  `LinkGranted` compares what the driver believes with what was granted, and the two
  change at different times: the access point is taken over from its beacon (`Adap_start_bss`,
  `usbwlan_main.c:7658`), the card is told when the wait for that beacon begins, the grant comes with the
  response to the association, and a reset tells the card the access point last joined
  (`usbwlan_main.c:5196`), granted or not.  `LinkInv` ties them: an attempt and a connection exclude
  each other (`ConnectedOK`); a response that may arrive is of the access point asked
  (`ResponseOK`); the tasks in the queue find the state for which they were created
  (`TasksOK`); and the wish to reconnect lasts as long as the connection it is to save (`RoamsOK`).  The
  last two are about tasks created in one state and run in another: a scan that is queued must not meet
  an attempt that has its beacon, nor a recovery a connection that another request has ended.
- Linked lists.  `Sound` says that the links read as three rows of blocks, in which no block comes twice
  (`Reads`), that what is in none of them is in exactly one hand (`Distinct`, `InHand = Outside`), and that
  what may be removed waits in the high list, or will be put there (`Right`, `HandsRight`): the
  macros believe their caller about the list, and `Task_RemoveExistTask` always names the high one.
  Each macro is a lemma about one row, each section a step of the abstract queue.  The types need
  none of this: a walk along links that no longer form a list still meets only blocks
  (`ChainTyped`), so `TasksTyped` has no hypothesis.

Induction.  What a walk along the links reads, and what freeing block after block leaves,
is defined recursively, and the library's theorems on induction take an operator that the
provers cannot instantiate.  `WlanTask_proofs` therefore proves its own from a theorem that takes none,
that the subsets of a finite set are well-founded: every set of natural numbers has
a least one (`Least`), so a set that holds 0 and the successors of its elements holds all (`Induct`),
and a chain of steps can be run (`Iterate`).  They are stated of sets, so that a use names the set of
the numbers for which the claim holds.

Only model-checked:
- Liveness (`BlocksReturn`, `Drains`, `AllIsServed`, `EverythingEnds`, `HighIsServed`,
  `FramesLeave`, `AttemptsEnd`), which is out of the prover's reach.
- `TypeOK`, `SecuredFirst` and `EncryptionAgrees` of `BtLmp`.  The type is not inductive: `Drawn` chooses a
  number nobody has, which exists in the instances checked because few are drawn, but not for every set
  of numbers; and the fields that serve several purposes would need a type for each state.  The
  other two relate both ends and what is between them.  Their invariant has to say, for each state of a
  device, in which states the other may be and in which order the PDUs of both directions lie
  between them; it is a table as large as the protocol, and is not attempted.

## 15. What is left

In order of what it would say about the system: the SCO blocks of the connection table
(two releases of one block, `bt_hci.c:13385`); the role switch; the rings of the flush; the
other operations on the WLAN's URBs; the pause of encryption and the modes in `BtLmp`.  Each
needs facts about the card that the source does not state (see below), except the first.

## 16. Not modelled, and why

- `bt_flush.c`: what the card reports after a flush (which frames, how many bytes of the first)
  decides whether the rebuilt frames are the right ones, and the repository does not say it.
  The time in which nothing is sent because of it is in `BtTxPump`.
- The role switch: it moves blocks on interrupts whose order the card decides.
- Firmware download and images, codecs, ciphers, register addresses, formats:
  straight-line code or data, with nothing to interleave.
- The 150 HCI commands as such: each checks its parameters, sets registers and
  sends events.  What they do to shared state belongs to the modules above.
- The wireless-extension requests other than scan, network, end, authentication and WEP keys:
  they copy settings.
- The Bluetooth task thread: a pool and one list with one consumer, as `WlanTask` has with two;
  what its tasks do is in `BtRxPath`, `BtLmp` and `BtConnTable`.
- Life cycle of both drivers, the bus driver: calls the kernel makes one at a time.
- Test mode: compiled out.
- The kernel, the USB core and the card, except as the environment of a module, where
  they are marked external.
- The share of the source that is mapped stays small because half of the tree is firmware
  images and tables.
