----------------------------- MODULE BtConnTable -----------------------------
(***************************************************************************)
(* The table of ACL connections of the Bluetooth driver (bt_hci.c): a pool *)
(* of connection blocks, the list of the links on which this device is the *)
(* master (device_am_list), the list of those on which it is the slave     *)
(* (device_slave_list), and the tables of active-member addresses and of   *)
(* connection handles.                                                     *)
(*                                                                         *)
(* Links are added by the HCI command work item and by the tasklet of the  *)
(* USB completions, and deleted by the task thread, the watchdog work item *)
(* and the tasklet.  An operation is not one critical section: it takes    *)
(* HciLock once for every table it touches, and in between it carries a    *)
(* block, an address or a handle that is in no table.  A step of the model *)
(* is one section under HciLock.                                           *)
(*                                                                         *)
(* The role switch (which moves a block between the lists) and the SCO     *)
(* channels (which share the handles) are not part of this module.         *)
(***************************************************************************)
EXTENDS Integers, FiniteSets

CONSTANTS Device,     \* device_all[]: BT_MAX_DEVICE_NUM blocks
          MaxAddr,    \* 7 active-member addresses
          MaxHandle,  \* 255 connection handles
          Thread,
          None

ASSUME ConnAssumption ==
    /\ IsFiniteSet(Device)
    /\ IsFiniteSet(Thread)
    /\ MaxAddr \in Nat \ {0}
    /\ MaxHandle \in Nat \ {0}
    /\ None \notin Nat

Addr == 1..MaxAddr
Handle == 1..MaxHandle
Role == { "MASTER", "SLAVE" }

\* A block with the fields that matter while it is out of the free list.
Conn == [blk : Device, handle : Handle \cup {None}, am : Addr \cup {None},
         current_role : Role]

\* One that is listed.
Link == [blk : Device, handle : Handle, am : Addr, current_role : Role]

ASSUME NoneAssumption == None \notin Conn

VARIABLES device_free_list,
          device_am_list,
          device_slave_list,
          am_addr_table,      \* addresses whose bit is 1
          am_latest_addr,     \* where the search for an address starts
          conn_handle_table,  \* handles whose bit is 1
          num_device_am,
          num_device_slave,
          role,
          pc,                 \* where each thread is
          hand                \* what each thread carries

lists  == << device_free_list, device_am_list, device_slave_list >>
tables == << am_addr_table, am_latest_addr, conn_handle_table >>
counts == << num_device_am, num_device_slave, role >>
vars   == << lists, tables, counts, pc, hand >>

PC == { "idle",
        "am",        \* adding: has a block, about to allocate an address
        "handle",    \* adding: about to allocate a handle
        "list",      \* adding: has everything, about to enter the list
        "undoAm",    \* adding failed: about to free the address
        "undoBlk",   \* adding failed: about to return the block
        "delHandle", \* deleting: off the list, about to free the handle
        "delAm",     \* deleting: about to free the address
        "delBlk",    \* deleting: about to return the block
        "rstAm", "rstAmPut", "rstSlave", "rstSlavePut" }   \* resetting

TypeOK ==
    /\ device_free_list \subseteq Device
    /\ device_am_list \subseteq { c \in Link : c.current_role = "MASTER" }
    /\ device_slave_list \subseteq { c \in Link : c.current_role = "SLAVE" }
    /\ am_addr_table \subseteq Addr
    /\ am_latest_addr \in Addr \cup {0}
    /\ conn_handle_table \subseteq Handle
    /\ num_device_am \in Int
    /\ num_device_slave \in Int
    /\ role \in Role
    /\ pc \in [Thread -> PC]
    /\ hand \in [Thread -> Conn \cup {None}]

\* Hci_Init; the role of an idle device is whatever BT_HCI_T starts with.
Init ==
    /\ device_free_list = Device
    /\ device_am_list = {}
    /\ device_slave_list = {}
    /\ am_addr_table = {}
    /\ am_latest_addr = 1
    /\ conn_handle_table = {}
    /\ num_device_am = 0
    /\ num_device_slave = 0
    /\ role \in Role
    /\ pc = [t \in Thread |-> "idle"]
    /\ hand = [t \in Thread |-> None]

Goto(t, label) == pc' = [pc EXCEPT ![t] = label]
Carry(t, c) == hand' = [hand EXCEPT ![t] = c]

-----------------------------------------------------------------------------
(* Adding a link. *)

\* First section of both functions; with no free block the call just fails.
Add_Connect_Device(t) ==
    /\ pc[t] = "idle"
    /\ \E d \in device_free_list :
         /\ device_free_list' = device_free_list \ {d}
         /\ Carry(t, [blk |-> d, handle |-> None, am |-> None,
                      current_role |-> "MASTER"])
    /\ Goto(t, "am")
    /\ UNCHANGED << device_am_list, device_slave_list, tables, counts >>

\* The remote master has chosen the address.
Add_Slave_Connect_Device(t) ==
    /\ pc[t] = "idle"
    /\ \E d \in device_free_list, a \in Addr :
         /\ device_free_list' = device_free_list \ {d}
         /\ Carry(t, [blk |-> d, handle |-> None, am |-> a,
                      current_role |-> "SLAVE"])
    /\ Goto(t, "handle")
    /\ UNCHANGED << device_am_list, device_slave_list, tables, counts >>

\* An address is taken when its bit is 1 or a link of the slave list has it.
FreeAddr == { a \in Addr \ am_addr_table :
                num_device_slave > 0 => \A c \in device_slave_list : c.am # a }

\* The search starts at am_latest_addr and wraps around.
Turn(a) == IF a >= am_latest_addr THEN a ELSE a + MaxAddr

Hci_Allocate_Am_address(t) ==
    /\ pc[t] = "am"
    /\ \/ /\ FreeAddr = {}
          /\ Goto(t, "undoBlk")
          /\ UNCHANGED << tables, hand >>
       \/ \E a \in FreeAddr :
            /\ \A b \in FreeAddr : Turn(a) <= Turn(b)
            /\ am_addr_table' = am_addr_table \cup {a}
            /\ am_latest_addr' = IF a = MaxAddr THEN 1 ELSE a + 1
            /\ Carry(t, [hand[t] EXCEPT !.am = a])
            /\ Goto(t, "handle")
            /\ UNCHANGED conn_handle_table
    /\ UNCHANGED << lists, counts >>

FreeHandle == Handle \ conn_handle_table

\* Faulty variant: the bit of the handle is not set.
HandleNotMarked(t) ==
    /\ pc[t] = "handle"
    /\ \E h \in FreeHandle :
         /\ \A g \in FreeHandle : h <= g
         /\ Carry(t, [hand[t] EXCEPT !.handle = h])
         /\ Goto(t, "list")
    /\ UNCHANGED << lists, tables, counts >>

\* The lowest handle whose bit is 0.
Hci_Allocate_Conn_Handle(t) ==
    /\ pc[t] = "handle"
    /\ \/ /\ FreeHandle = {}
          /\ Goto(t, IF hand[t].current_role = "MASTER" THEN "undoAm" ELSE "undoBlk")
          /\ UNCHANGED << conn_handle_table, hand >>
       \/ \E h \in FreeHandle :
            /\ \A g \in FreeHandle : h <= g
            /\ conn_handle_table' = conn_handle_table \cup {h}
            /\ Carry(t, [hand[t] EXCEPT !.handle = h])
            /\ Goto(t, "list")
    /\ UNCHANGED << lists, am_addr_table, am_latest_addr, counts >>

\* Last section: the block enters its list.
Add_List(t) ==
    /\ pc[t] = "list"
    /\ IF hand[t].current_role = "MASTER"
         THEN /\ device_am_list' = device_am_list \cup {hand[t]}
              /\ num_device_am' = num_device_am + 1
              /\ UNCHANGED << device_slave_list, num_device_slave >>
         ELSE /\ device_slave_list' = device_slave_list \cup {hand[t]}
              /\ num_device_slave' = num_device_slave + 1
              /\ UNCHANGED << device_am_list, num_device_am >>
    /\ role' = hand[t].current_role
    /\ Carry(t, None)
    /\ Goto(t, "idle")
    /\ UNCHANGED << device_free_list, tables >>

\* Giving back what a failed add has taken.
Undo_Am_address(t) ==
    /\ pc[t] = "undoAm"
    /\ am_addr_table' = am_addr_table \ {hand[t].am}
    /\ Carry(t, [hand[t] EXCEPT !.am = None])
    /\ Goto(t, "undoBlk")
    /\ UNCHANGED << lists, am_latest_addr, conn_handle_table, counts >>

\* Faulty variant: the block of a failed add is forgotten.
BlockNotReturned(t) ==
    /\ pc[t] = "undoBlk"
    /\ Carry(t, None)
    /\ Goto(t, "idle")
    /\ UNCHANGED << lists, tables, counts >>

Undo_Block(t) ==
    /\ pc[t] = "undoBlk"
    /\ device_free_list' = device_free_list \cup {hand[t].blk}
    /\ Carry(t, None)
    /\ Goto(t, "idle")
    /\ UNCHANGED << device_am_list, device_slave_list, tables, counts >>

-----------------------------------------------------------------------------
(* Deleting a link: Hci_Del_Connect_Device_By_*, Hci_Del_Slave_*, and each *)
(* round of Hci_ReleaseAllConnection.  The caller found the key of the     *)
(* link some time ago, so it may be any link of the list by now.           *)

Del_Connect_Device(t) ==
    /\ pc[t] = "idle"
    /\ \E c \in device_am_list :
         /\ device_am_list' = device_am_list \ {c}
         /\ Carry(t, c)
    /\ Goto(t, "delHandle")
    /\ UNCHANGED << device_free_list, device_slave_list, tables, counts >>

Del_Slave_Connect_Device(t) ==
    /\ pc[t] = "idle"
    /\ \E c \in device_slave_list :
         /\ device_slave_list' = device_slave_list \ {c}
         /\ Carry(t, c)
    /\ Goto(t, "delHandle")
    /\ UNCHANGED << device_free_list, device_am_list, tables, counts >>

\* Faulty variant: the handle is set to 0, which no table knows.
HandleZeroed(t) ==
    /\ pc[t] = "delHandle"
    /\ conn_handle_table' = conn_handle_table \ {hand[t].handle}
    /\ Carry(t, [hand[t] EXCEPT !.handle = 0])
    /\ Goto(t, IF hand[t].current_role = "MASTER" THEN "delAm" ELSE "delBlk")
    /\ UNCHANGED << lists, am_addr_table, am_latest_addr, counts >>

\* Faulty variant: the address of a slave link is freed as well.
SlaveAddressFreed(t) ==
    /\ pc[t] = "delHandle"
    /\ conn_handle_table' = conn_handle_table \ {hand[t].handle}
    /\ Carry(t, [hand[t] EXCEPT !.handle = None])
    /\ Goto(t, "delAm")
    /\ UNCHANGED << lists, am_addr_table, am_latest_addr, counts >>

Hci_Free_Conn_Handle(t) ==
    /\ pc[t] = "delHandle"
    /\ conn_handle_table' = conn_handle_table \ {hand[t].handle}
    /\ Carry(t, [hand[t] EXCEPT !.handle = None])
    /\ Goto(t, IF hand[t].current_role = "MASTER" THEN "delAm" ELSE "delBlk")
    /\ UNCHANGED << lists, am_addr_table, am_latest_addr, counts >>

Hci_Free_Am_address(t) ==
    /\ pc[t] = "delAm"
    /\ am_addr_table' = am_addr_table \ {hand[t].am}
    /\ Carry(t, [hand[t] EXCEPT !.am = None])
    /\ Goto(t, "delBlk")
    /\ UNCHANGED << lists, am_latest_addr, conn_handle_table, counts >>

\* Faulty variant: the role is not brought back when the last link goes.
RoleKept(t) ==
    /\ pc[t] = "delBlk"
    /\ device_free_list' = device_free_list \cup {hand[t].blk}
    /\ IF hand[t].current_role = "MASTER"
         THEN /\ num_device_am' = num_device_am - 1
              /\ UNCHANGED num_device_slave
         ELSE /\ num_device_slave' = num_device_slave - 1
              /\ UNCHANGED num_device_am
    /\ Carry(t, None)
    /\ Goto(t, "idle")
    /\ UNCHANGED << device_am_list, device_slave_list, tables, role >>

\* Last section: the block is free, the count and the role follow.
Del_Block(t) ==
    /\ pc[t] = "delBlk"
    /\ device_free_list' = device_free_list \cup {hand[t].blk}
    /\ IF hand[t].current_role = "MASTER"
         THEN /\ num_device_am' = num_device_am - 1
              /\ role' = IF num_device_am' = 0 THEN "SLAVE" ELSE role
              /\ UNCHANGED num_device_slave
         ELSE /\ num_device_slave' = num_device_slave - 1
              /\ role' = IF num_device_slave' = 0 THEN "MASTER" ELSE role
              /\ UNCHANGED num_device_am
    /\ Carry(t, None)
    /\ Goto(t, "idle")
    /\ UNCHANGED << device_am_list, device_slave_list, tables >>

Step(t) ==
    \/ Add_Connect_Device(t)
    \/ Add_Slave_Connect_Device(t)
    \/ Hci_Allocate_Am_address(t)
    \/ Hci_Allocate_Conn_Handle(t)
    \/ Add_List(t)
    \/ Undo_Am_address(t)
    \/ Undo_Block(t)
    \/ Del_Connect_Device(t)
    \/ Del_Slave_Connect_Device(t)
    \/ Hci_Free_Conn_Handle(t)
    \/ Hci_Free_Am_address(t)
    \/ Del_Block(t)

Next == \E t \in Thread : Step(t)

\* The table between two HCI resets.
Spec == Init /\ [][Next]_vars

-----------------------------------------------------------------------------
(* HCI_Reset (Task_HC2HCI_Reset): both lists are emptied block by block,   *)
(* HciLock being released for each, then everything is set to its initial  *)
(* value whatever other threads carry.  The last part runs under           *)
(* ReadQueueLock, not HciLock.                                             *)

Reset_Begin(t) ==
    /\ pc[t] = "idle"
    /\ Goto(t, "rstAm")
    /\ UNCHANGED << lists, tables, counts, hand >>

Reset_Pop_Am(t) ==
    /\ pc[t] = "rstAm"
    /\ \/ /\ device_am_list = {}
          /\ Goto(t, "rstSlave")
          /\ UNCHANGED << device_am_list, hand >>
       \/ \E c \in device_am_list :
            /\ device_am_list' = device_am_list \ {c}
            /\ Carry(t, c)
            /\ Goto(t, "rstAmPut")
    /\ UNCHANGED << device_free_list, device_slave_list, tables, counts >>

Reset_Pop_Slave(t) ==
    /\ pc[t] = "rstSlave"
    /\ \E c \in device_slave_list :
         /\ device_slave_list' = device_slave_list \ {c}
         /\ Carry(t, c)
         /\ Goto(t, "rstSlavePut")
    /\ UNCHANGED << device_free_list, device_am_list, tables, counts >>

Reset_Put(t) ==
    /\ pc[t] \in { "rstAmPut", "rstSlavePut" }
    /\ device_free_list' = device_free_list \cup {hand[t].blk}
    /\ Carry(t, None)
    /\ Goto(t, IF pc[t] = "rstAmPut" THEN "rstAm" ELSE "rstSlave")
    /\ UNCHANGED << device_am_list, device_slave_list, tables, counts >>

Reset_Rebuild(t) ==
    /\ pc[t] = "rstSlave" /\ device_slave_list = {}
    /\ device_free_list' = Device
    /\ device_am_list' = {}
    /\ device_slave_list' = {}
    /\ am_addr_table' = {}
    /\ am_latest_addr' = 0
    /\ conn_handle_table' = {}
    /\ num_device_am' = 0
    /\ num_device_slave' = 0
    /\ Goto(t, "idle")
    /\ UNCHANGED << role, hand >>

Reset(t) == Reset_Begin(t) \/ Reset_Pop_Am(t) \/ Reset_Pop_Slave(t)
              \/ Reset_Put(t) \/ Reset_Rebuild(t)

Resetting == \E t \in Thread : pc[t] \in { "rstAm", "rstAmPut", "rstSlave", "rstSlavePut" }

\* Resets that meet no add or delete under way: a reset rebuilds the lists under
\* another lock, and one that cuts into an add may leave a listed link whose
\* handle is marked free.
LoneResetNext == \E t \in Thread : \/ ~Resetting /\ Step(t)
                                   \/ /\ \A u \in Thread \ {t} : pc[u] = "idle"
                                      /\ Reset(t)

LoneResetSpec == Init /\ [][LoneResetNext]_vars

-----------------------------------------------------------------------------
(* Properties. *)

Listed == device_am_list \cup device_slave_list
Carrying == { t \in Thread : hand[t] # None }

\* No block is lost or in two places: each is on the free list, is the block
\* of one listed link, or is in the hands of one thread, between the sections
\* of Hci_Add_*, Hci_Del_* and Hci_ReleaseAllConnection.
BlockOwned ==
    /\ \A d \in Device : \/ d \in device_free_list
                         \/ \E c \in Listed : c.blk = d
                         \/ \E t \in Carrying : hand[t].blk = d
    /\ \A c \in Listed : c.blk \notin device_free_list
    /\ \A t \in Carrying : hand[t].blk \notin device_free_list
    /\ \A c, d \in Listed : c.blk = d.blk => c = d
    /\ \A t, u \in Carrying : hand[t].blk = hand[u].blk => t = u
    /\ \A c \in Listed, t \in Carrying : c.blk # hand[t].blk

\* A handle whose bit is 1 has exactly one owner, a listed link or a thread
\* that is adding or deleting one, and one whose bit is 0 has none: no two
\* links ever answer to one handle, and no handle leaks (bt_hci.c:1046-1111,
\* called without the lock of the list sections).
HandleHeld ==
    /\ \A h \in Handle :
          h \in conn_handle_table <=> \/ \E c \in Listed : c.handle = h
                                     \/ \E t \in Carrying : hand[t].handle = h
    /\ \A c, d \in Listed : c.handle = d.handle => c = d
    /\ \A t, u \in Carrying :
          hand[t].handle = hand[u].handle /\ hand[t].handle # None => t = u
    /\ \A c \in Listed, t \in Carrying : c.handle # hand[t].handle

CarryingMaster == { t \in Carrying : hand[t].current_role = "MASTER" }

\* The same for the active-member addresses, which only the links of
\* device_am_list own: two slaves of this piconet never share an address
\* (bt_hci.c:733-951), although a failed add frees its own again.
AmHeld ==
    /\ \A a \in Addr :
          a \in am_addr_table <=> \/ \E c \in device_am_list : c.am = a
                                 \/ \E t \in CarryingMaster : hand[t].am = a
    /\ \A c, d \in device_am_list : c.am = d.am => c = d
    /\ \A t, u \in CarryingMaster :
          hand[t].am = hand[u].am /\ hand[t].am # None => t = u
    /\ \A c \in device_am_list, t \in CarryingMaster : c.am # hand[t].am

\* During a reset, whose last sections clear the tables, a handle or an
\* address may be marked without an owner; after it, however the links were
\* lost, none is.
NumbersOwned == Resetting \/ (HandleHeld /\ AmHeld)

\* The counts are those of the lists, plus the links that are off their list
\* and not yet freed, so the role of the device is that of its links when
\* they all are of one kind (bt_hci.c:1299-1302, 1350-1353, 1739-1742, 1792).
Leaving(r) == { t \in Carrying : hand[t].current_role = r
                                  /\ pc[t] \in {"delHandle", "delAm", "delBlk"} }

RoleHeld ==
    /\ num_device_am = Cardinality(device_am_list) + Cardinality(Leaving("MASTER"))
    /\ num_device_slave = Cardinality(device_slave_list)
                            + Cardinality(Leaving("SLAVE"))
    /\ num_device_am > 0 /\ num_device_slave = 0 => role = "MASTER"
    /\ num_device_slave > 0 /\ num_device_am = 0 => role = "SLAVE"

\* A reset sets the counts to 0 last (bt_task.c:1274-1325).
RoleFollowsLinks == Resetting \/ RoleHeld

\* The links its users see implement BtLinks: they come and go one at a time,
\* with handles and addresses of their own.
UpLinks == { [handle |-> c.handle, am |-> c.am, role |-> c.current_role] :
               c \in Listed }

Links == INSTANCE BtLinks WITH LinkHandle <- Handle, LinkAddr <- Addr,
                               links <- UpLinks

ImplementsLinks == Links!LinksSpec
=============================================================================
