------------------------- MODULE BtConnTable_proofs -------------------------
(***************************************************************************)
(* Proofs about BtConnTable, for any number of blocks, addresses, handles  *)
(* and threads, between resets and with resets that meet no other          *)
(* operation.                                                              *)
(***************************************************************************)
EXTENDS BtConnTable, FiniteSetTheorems, TLAPS

\* What t carries: a connection, with a handle or not, an address or not.
Holds(t, h, a, r) ==
    /\ hand[t] \in Conn
    /\ hand[t].handle = None <=> ~h
    /\ hand[t].am = None <=> ~a
    /\ hand[t].current_role \in r

\* What a thread carries is decided by where it is: the strengthening that
\* makes the three ownership invariants inductive.
Shape ==
    \A t \in Thread :
      \/ pc[t] = "idle" /\ hand[t] = None
      \/ pc[t] = "am" /\ Holds(t, FALSE, FALSE, {"MASTER"})
      \/ pc[t] = "handle" /\ Holds(t, FALSE, TRUE, Role)
      \/ pc[t] = "list" /\ Holds(t, TRUE, TRUE, Role)
      \/ pc[t] = "undoAm" /\ Holds(t, FALSE, TRUE, {"MASTER"})
      \/ pc[t] = "undoBlk" /\ \/ Holds(t, FALSE, FALSE, {"MASTER"})
                              \/ Holds(t, FALSE, TRUE, {"SLAVE"})
      \/ pc[t] = "delHandle" /\ Holds(t, TRUE, TRUE, Role)
      \/ pc[t] = "delAm" /\ Holds(t, FALSE, TRUE, {"MASTER"})
      \/ pc[t] = "delBlk" /\ \/ Holds(t, FALSE, FALSE, {"MASTER"})
                             \/ Holds(t, FALSE, TRUE, {"SLAVE"})

Inv == TypeOK /\ Shape /\ BlockOwned /\ HandleHeld /\ AmHeld

-----------------------------------------------------------------------------
(* Every step preserves the invariant. *)

\* A block leaves the free list for the hands of t.
LEMMA Keep_Add_Connect_Device ==
    ASSUME Inv, NEW t \in Thread, Add_Connect_Device(t)
    PROVE  Inv'
<1> USE ConnAssumption, NoneAssumption DEF Goto, Carry, Conn, Link, Role, lists, tables, counts, Addr, Handle
<1>1. TypeOK'
  BY DEF Inv, TypeOK, Shape, Holds, PC, Add_Connect_Device
<1>2. Shape'
  BY DEF Inv, TypeOK, Shape, Holds, Add_Connect_Device
<1>3. BlockOwned'
  BY DEF Inv, TypeOK, Shape, Holds, Listed, Carrying, BlockOwned, Add_Connect_Device
<1>4. HandleHeld'
  BY DEF Inv, TypeOK, Shape, Holds, Listed, Carrying, HandleHeld, Add_Connect_Device
<1>5. AmHeld'
  BY DEF Inv, TypeOK, Shape, Holds, Listed, Carrying, CarryingMaster, AmHeld, Add_Connect_Device
<1> QED BY <1>1, <1>2, <1>3, <1>4, <1>5 DEF Inv

\* The same, with the address of the remote master.
LEMMA Keep_Add_Slave_Connect_Device ==
    ASSUME Inv, NEW t \in Thread, Add_Slave_Connect_Device(t)
    PROVE  Inv'
<1> USE ConnAssumption, NoneAssumption DEF Goto, Carry, Conn, Link, Role, lists, tables, counts, Addr, Handle
<1>1. TypeOK'
  BY DEF Inv, TypeOK, Shape, Holds, PC, Add_Slave_Connect_Device
<1>2. Shape'
  BY DEF Inv, TypeOK, Shape, Holds, Add_Slave_Connect_Device
<1>3. BlockOwned'
  BY DEF Inv, TypeOK, Shape, Holds, Listed, Carrying, BlockOwned, Add_Slave_Connect_Device
<1>4. HandleHeld'
  BY DEF Inv, TypeOK, Shape, Holds, Listed, Carrying, HandleHeld, Add_Slave_Connect_Device
<1>5. AmHeld'
  BY DEF Inv, TypeOK, Shape, Holds, Listed, Carrying, CarryingMaster, AmHeld, Add_Slave_Connect_Device
<1> QED BY <1>1, <1>2, <1>3, <1>4, <1>5 DEF Inv

\* An address nobody owns goes to t, or none is left.
LEMMA Keep_Hci_Allocate_Am_address ==
    ASSUME Inv, NEW t \in Thread, Hci_Allocate_Am_address(t)
    PROVE  Inv'
<1> USE ConnAssumption, NoneAssumption DEF Goto, Carry, Conn, Link, Role, lists, tables, counts, FreeAddr, Addr, Handle
<1>1. TypeOK'
  BY DEF Inv, TypeOK, Shape, Holds, PC, Hci_Allocate_Am_address
<1>2. Shape'
  BY DEF Inv, TypeOK, Shape, Holds, Hci_Allocate_Am_address
<1>3. BlockOwned'
  <2>1. CASE hand' = hand
    BY <2>1 DEF Inv, BlockOwned, Listed, Carrying, Hci_Allocate_Am_address
  <2>2. CASE hand' # hand
    <3>1. /\ hand[t] # None /\ hand'[t] # None
          /\ hand'[t].blk = hand[t].blk
          /\ \A u \in Thread \ {t} : hand'[u] = hand[u]
      BY <2>2, <1>1 DEF Inv, TypeOK, Shape, Holds, Hci_Allocate_Am_address
    <3>2. Carrying' = Carrying
      BY <3>1 DEF Carrying
    <3>3. \A u \in Carrying : hand'[u].blk = hand[u].blk
      BY <3>1 DEF Carrying
    <3>4. UNCHANGED << device_free_list, Listed >>
      BY DEF Hci_Allocate_Am_address, Listed
    <3> QED BY <3>2, <3>3, <3>4 DEF Inv, BlockOwned
  <2> QED BY <2>1, <2>2
<1>4. HandleHeld'
  BY DEF Inv, TypeOK, Shape, Holds, Listed, Carrying, HandleHeld, Hci_Allocate_Am_address
<1>5. AmHeld'
  BY DEF Inv, TypeOK, Shape, Holds, Listed, Carrying, CarryingMaster, AmHeld, Hci_Allocate_Am_address
<1> QED BY <1>1, <1>2, <1>3, <1>4, <1>5 DEF Inv

\* A handle nobody owns goes to t, or none is left.
LEMMA Keep_Hci_Allocate_Conn_Handle ==
    ASSUME Inv, NEW t \in Thread, Hci_Allocate_Conn_Handle(t)
    PROVE  Inv'
<1> USE ConnAssumption, NoneAssumption DEF Goto, Carry, Conn, Link, Role, lists, tables, counts, FreeHandle, Addr, Handle
<1>1. TypeOK'
  BY DEF Inv, TypeOK, Shape, Holds, PC, Hci_Allocate_Conn_Handle
<1>2. Shape'
  BY DEF Inv, TypeOK, Shape, Holds, Hci_Allocate_Conn_Handle
<1>3. BlockOwned'
  <2>1. CASE hand' = hand
    BY <2>1 DEF Inv, BlockOwned, Listed, Carrying, Hci_Allocate_Conn_Handle
  <2>2. CASE hand' # hand
    <3>1. /\ hand[t] # None /\ hand'[t] # None
          /\ hand'[t].blk = hand[t].blk
          /\ \A u \in Thread \ {t} : hand'[u] = hand[u]
      BY <2>2, <1>1 DEF Inv, TypeOK, Shape, Holds, Hci_Allocate_Conn_Handle
    <3>2. Carrying' = Carrying
      BY <3>1 DEF Carrying
    <3>3. \A u \in Carrying : hand'[u].blk = hand[u].blk
      BY <3>1 DEF Carrying
    <3>4. UNCHANGED << device_free_list, Listed >>
      BY DEF Hci_Allocate_Conn_Handle, Listed
    <3> QED BY <3>2, <3>3, <3>4 DEF Inv, BlockOwned
  <2> QED BY <2>1, <2>2
<1>4. HandleHeld'
  BY SMTT(20) DEF Inv, TypeOK, Shape, Holds, Listed, Carrying, HandleHeld, Hci_Allocate_Conn_Handle
<1>5. AmHeld'
  BY SMTT(15) DEF Inv, TypeOK, Shape, Holds, Listed, Carrying, CarryingMaster, AmHeld, Hci_Allocate_Conn_Handle
<1> QED BY <1>1, <1>2, <1>3, <1>4, <1>5 DEF Inv

\* What t carries is listed.
LEMMA Keep_Add_List ==
    ASSUME Inv, NEW t \in Thread, Add_List(t)
    PROVE  Inv'
<1> USE ConnAssumption, NoneAssumption DEF Goto, Carry, Conn, Link, Role, lists, tables, counts, Addr, Handle
<1>1. TypeOK'
  BY DEF Inv, TypeOK, Shape, Holds, PC, Add_List
<1>2. Shape'
  BY DEF Inv, TypeOK, Shape, Holds, Add_List
<1>3. BlockOwned'
  BY DEF Inv, TypeOK, Shape, Holds, Listed, Carrying, BlockOwned, Add_List
<1>4. HandleHeld'
  BY DEF Inv, TypeOK, Shape, Holds, Listed, Carrying, HandleHeld, BlockOwned, Add_List
<1>5. AmHeld'
  BY DEF Inv, TypeOK, Shape, Holds, Listed, Carrying, CarryingMaster, AmHeld, BlockOwned, Add_List
<1> QED BY <1>1, <1>2, <1>3, <1>4, <1>5 DEF Inv

\* t gives its address back.
LEMMA Keep_Undo_Am_address ==
    ASSUME Inv, NEW t \in Thread, Undo_Am_address(t)
    PROVE  Inv'
<1> USE ConnAssumption, NoneAssumption DEF Goto, Carry, Conn, Link, Role, lists, tables, counts, Addr, Handle
<1>1. TypeOK'
  BY DEF Inv, TypeOK, Shape, Holds, PC, Undo_Am_address
<1>2. Shape'
  BY DEF Inv, TypeOK, Shape, Holds, Undo_Am_address
<1>3. BlockOwned'
  BY DEF Inv, TypeOK, Shape, Holds, Listed, Carrying, BlockOwned, Undo_Am_address
<1>4. HandleHeld'
  BY DEF Inv, TypeOK, Shape, Holds, Listed, Carrying, HandleHeld, Undo_Am_address
<1>5. AmHeld'
  BY DEF Inv, TypeOK, Shape, Holds, Listed, Carrying, CarryingMaster, AmHeld, Undo_Am_address
<1> QED BY <1>1, <1>2, <1>3, <1>4, <1>5 DEF Inv

\* t gives its block back.
LEMMA Keep_Undo_Block ==
    ASSUME Inv, NEW t \in Thread, Undo_Block(t)
    PROVE  Inv'
<1> USE ConnAssumption, NoneAssumption DEF Goto, Carry, Conn, Link, Role, lists, tables, counts, Addr, Handle
<1>1. TypeOK'
  BY DEF Inv, TypeOK, Shape, Holds, PC, Undo_Block
<1>2. Shape'
  BY DEF Inv, TypeOK, Shape, Holds, Undo_Block
<1>3. BlockOwned'
  BY DEF Inv, TypeOK, Shape, Holds, Listed, Carrying, BlockOwned, Undo_Block
<1>4. HandleHeld'
  BY DEF Inv, TypeOK, Shape, Holds, Listed, Carrying, HandleHeld, Undo_Block
<1>5. AmHeld'
  BY DEF Inv, TypeOK, Shape, Holds, Listed, Carrying, CarryingMaster, AmHeld, Undo_Block
<1> QED BY <1>1, <1>2, <1>3, <1>4, <1>5 DEF Inv

\* A link goes from the list of the masters to the hands of t.
LEMMA Keep_Del_Connect_Device ==
    ASSUME Inv, NEW t \in Thread, Del_Connect_Device(t)
    PROVE  Inv'
<1> USE ConnAssumption, NoneAssumption DEF Goto, Carry, Conn, Link, Role, lists, tables, counts, Addr, Handle
<1>1. TypeOK'
  BY DEF Inv, TypeOK, Shape, Holds, PC, Del_Connect_Device
<1>2. Shape'
  BY DEF Inv, TypeOK, Shape, Holds, Del_Connect_Device
<1>3. BlockOwned'
  BY DEF Inv, TypeOK, Shape, Holds, Listed, Carrying, BlockOwned, Del_Connect_Device
<1>4. HandleHeld'
  BY DEF Inv, TypeOK, Shape, Holds, Listed, Carrying, HandleHeld, BlockOwned, Del_Connect_Device
<1>5. AmHeld'
  BY DEF Inv, TypeOK, Shape, Holds, Listed, Carrying, CarryingMaster, AmHeld, BlockOwned, Del_Connect_Device
<1> QED BY <1>1, <1>2, <1>3, <1>4, <1>5 DEF Inv

\* A link goes from the list of the slaves to the hands of t.
LEMMA Keep_Del_Slave_Connect_Device ==
    ASSUME Inv, NEW t \in Thread, Del_Slave_Connect_Device(t)
    PROVE  Inv'
<1> USE ConnAssumption, NoneAssumption DEF Goto, Carry, Conn, Link, Role, lists, tables, counts, Addr, Handle
<1>1. TypeOK'
  BY DEF Inv, TypeOK, Shape, Holds, PC, Del_Slave_Connect_Device
<1>2. Shape'
  BY DEF Inv, TypeOK, Shape, Holds, Del_Slave_Connect_Device
<1>3. BlockOwned'
  BY DEF Inv, TypeOK, Shape, Holds, Listed, Carrying, BlockOwned, Del_Slave_Connect_Device
<1>4. HandleHeld'
  BY DEF Inv, TypeOK, Shape, Holds, Listed, Carrying, HandleHeld, BlockOwned, Del_Slave_Connect_Device
<1>5. AmHeld'
  BY DEF Inv, TypeOK, Shape, Holds, Listed, Carrying, CarryingMaster, AmHeld, BlockOwned, Del_Slave_Connect_Device
<1> QED BY <1>1, <1>2, <1>3, <1>4, <1>5 DEF Inv

\* t gives its handle back.
LEMMA Keep_Hci_Free_Conn_Handle ==
    ASSUME Inv, NEW t \in Thread, Hci_Free_Conn_Handle(t)
    PROVE  Inv'
<1> USE ConnAssumption, NoneAssumption DEF Goto, Carry, Conn, Link, Role, lists, tables, counts, Addr, Handle
<1>1. TypeOK'
  BY DEF Inv, TypeOK, Shape, Holds, PC, Hci_Free_Conn_Handle
<1>2. Shape'
  BY DEF Inv, TypeOK, Shape, Holds, Hci_Free_Conn_Handle
<1>3. BlockOwned'
  BY DEF Inv, TypeOK, Shape, Holds, Listed, Carrying, BlockOwned, Hci_Free_Conn_Handle
<1>4. HandleHeld'
  BY DEF Inv, TypeOK, Shape, Holds, Listed, Carrying, HandleHeld, Hci_Free_Conn_Handle
<1>5. AmHeld'
  BY DEF Inv, TypeOK, Shape, Holds, Listed, Carrying, CarryingMaster, AmHeld, Hci_Free_Conn_Handle
<1> QED BY <1>1, <1>2, <1>3, <1>4, <1>5 DEF Inv

\* t gives its address back.
LEMMA Keep_Hci_Free_Am_address ==
    ASSUME Inv, NEW t \in Thread, Hci_Free_Am_address(t)
    PROVE  Inv'
<1> USE ConnAssumption, NoneAssumption DEF Goto, Carry, Conn, Link, Role, lists, tables, counts, Addr, Handle
<1>1. TypeOK'
  BY DEF Inv, TypeOK, Shape, Holds, PC, Hci_Free_Am_address
<1>2. Shape'
  BY DEF Inv, TypeOK, Shape, Holds, Hci_Free_Am_address
<1>3. BlockOwned'
  BY DEF Inv, TypeOK, Shape, Holds, Listed, Carrying, BlockOwned, Hci_Free_Am_address
<1>4. HandleHeld'
  BY DEF Inv, TypeOK, Shape, Holds, Listed, Carrying, HandleHeld, Hci_Free_Am_address
<1>5. AmHeld'
  BY DEF Inv, TypeOK, Shape, Holds, Listed, Carrying, CarryingMaster, AmHeld, Hci_Free_Am_address
<1> QED BY <1>1, <1>2, <1>3, <1>4, <1>5 DEF Inv

\* t gives its block back.
LEMMA Keep_Del_Block ==
    ASSUME Inv, NEW t \in Thread, Del_Block(t)
    PROVE  Inv'
<1> USE ConnAssumption, NoneAssumption DEF Goto, Carry, Conn, Link, Role, lists, tables, counts, Addr, Handle
<1>1. TypeOK'
  BY DEF Inv, TypeOK, Shape, Holds, PC, Del_Block
<1>2. Shape'
  BY DEF Inv, TypeOK, Shape, Holds, Del_Block
<1>3. BlockOwned'
  BY DEF Inv, TypeOK, Shape, Holds, Listed, Carrying, BlockOwned, Del_Block
<1>4. HandleHeld'
  BY DEF Inv, TypeOK, Shape, Holds, Listed, Carrying, HandleHeld, BlockOwned, Del_Block
<1>5. AmHeld'
  BY DEF Inv, TypeOK, Shape, Holds, Listed, Carrying, CarryingMaster, AmHeld, BlockOwned, Del_Block
<1> QED BY <1>1, <1>2, <1>3, <1>4, <1>5 DEF Inv

LEMMA InvInit == Init => Inv
BY ConnAssumption, NoneAssumption
   DEF Init, Inv, TypeOK, Shape, BlockOwned, HandleHeld, AmHeld, Listed,
       Carrying, CarryingMaster, Addr, Handle, Role, PC

LEMMA InvNext == Inv /\ [Next]_vars => Inv'
<1> SUFFICES ASSUME Inv, [Next]_vars PROVE Inv'
  OBVIOUS
<1>1. CASE UNCHANGED vars
  BY <1>1 DEF vars, lists, tables, counts, Inv, TypeOK, Shape, Holds, BlockOwned,
              HandleHeld, AmHeld, Listed, Carrying, CarryingMaster
<1>2. CASE Next
  <2>1. PICK t \in Thread : Step(t)
    BY <1>2 DEF Next
  <2> QED
    BY <2>1, Keep_Add_Connect_Device,
       Keep_Add_Slave_Connect_Device,
       Keep_Hci_Allocate_Am_address,
       Keep_Hci_Allocate_Conn_Handle,
       Keep_Add_List,
       Keep_Undo_Am_address,
       Keep_Undo_Block,
       Keep_Del_Connect_Device,
       Keep_Del_Slave_Connect_Device,
       Keep_Hci_Free_Conn_Handle,
       Keep_Hci_Free_Am_address,
       Keep_Del_Block DEF Step
<1> QED BY <1>1, <1>2

LEMMA Invariance == Spec => []Inv
<1>1. Init => Inv
  BY InvInit
<1>2. Inv /\ [Next]_vars => Inv'
  BY InvNext
<1> QED BY <1>1, <1>2, PTL DEF Spec

-----------------------------------------------------------------------------
(* The counts and the role. *)

Finite == IsFiniteSet(device_am_list) /\ IsFiniteSet(device_slave_list)
CountInv == Finite /\ RoleHeld

LEMMA LeavingFinite ==
    ASSUME NEW r
    PROVE  IsFiniteSet(Leaving(r)) /\ Cardinality(Leaving(r)) \in Nat
<1>1. Leaving(r) \subseteq Thread
  BY DEF Leaving, Carrying
<1> QED BY <1>1, ConnAssumption, FS_Subset, FS_CardinalityType

\* No step but the three below moves a link into a list or out of the table.
LEMMA CountKeep ==
    ASSUME CountInv,
           UNCHANGED << device_am_list, device_slave_list, counts >>,
           \A r \in Role : Leaving(r)' = Leaving(r)
    PROVE  CountInv'
<1>1. Leaving("MASTER")' = Leaving("MASTER") /\ Leaving("SLAVE")' = Leaving("SLAVE")
  BY DEF Role
<1>2. UNCHANGED << device_am_list, device_slave_list, num_device_am,
                   num_device_slave, role >>
  BY DEF counts
<1> QED BY <1>1, <1>2 DEF CountInv, Finite, RoleHeld

LEMMA CountAdd ==
    ASSUME Inv, CountInv, NEW t \in Thread, Add_List(t)
    PROVE  CountInv'
<1> USE DEF Goto, Carry
<1>1. hand[t] \in Conn /\ hand[t] # None
  BY NoneAssumption DEF Inv, Shape, Holds, Add_List
<1>2. hand[t] \notin device_am_list /\ hand[t] \notin device_slave_list
  BY <1>1 DEF Inv, BlockOwned, Listed, Carrying
<1>3. \A r : Leaving(r)' = Leaving(r)
  BY DEF Leaving, Carrying, Add_List, Inv, TypeOK
<1>4. Cardinality(device_am_list) \in Nat /\ Cardinality(device_slave_list) \in Nat
  BY FS_CardinalityType DEF CountInv, Finite
<1>5. \A r : Cardinality(Leaving(r)) \in Nat
  BY LeavingFinite
<1>6. CASE hand[t].current_role = "MASTER"
  <2>1. /\ IsFiniteSet(device_am_list')
        /\ Cardinality(device_am_list') = Cardinality(device_am_list) + 1
    BY <1>2, <1>6, FS_AddElement DEF Add_List, CountInv, Finite
  <2>2. /\ num_device_am' = num_device_am + 1
        /\ UNCHANGED << device_slave_list, num_device_slave >>
        /\ role' = "MASTER"
    BY <1>6 DEF Add_List
  <2> QED
    BY <2>1, <2>2, <1>3, <1>4, <1>5 DEF CountInv, Finite, RoleHeld
<1>7. CASE hand[t].current_role = "SLAVE"
  <2>1. /\ IsFiniteSet(device_slave_list')
        /\ Cardinality(device_slave_list') = Cardinality(device_slave_list) + 1
    BY <1>2, <1>7, FS_AddElement DEF Add_List, CountInv, Finite
  <2>2. /\ num_device_slave' = num_device_slave + 1
        /\ UNCHANGED << device_am_list, num_device_am >>
        /\ role' = "SLAVE"
    BY <1>7 DEF Add_List
  <2> QED
    BY <2>1, <2>2, <1>3, <1>4, <1>5 DEF CountInv, Finite, RoleHeld
<1> QED BY <1>1, <1>6, <1>7 DEF Conn, Role

\* A link that leaves its list is counted among the leaving ones.
LEMMA CountDelMaster ==
    ASSUME Inv, CountInv, NEW t \in Thread, Del_Connect_Device(t)
    PROVE  CountInv'
<1> USE DEF Goto, Carry
<1>1. PICK c \in device_am_list : /\ device_am_list' = device_am_list \ {c}
                                  /\ Carry(t, c)
  BY DEF Del_Connect_Device
<1>2. c \in Link /\ c.current_role = "MASTER" /\ c # None
  BY <1>1, NoneAssumption DEF Inv, TypeOK, Link, Conn
<1>3. t \notin Leaving("MASTER") /\ Leaving("MASTER")' = Leaving("MASTER") \cup {t}
  BY <1>1, <1>2 DEF Leaving, Carrying, Del_Connect_Device, Inv, TypeOK
<1>4. Leaving("SLAVE")' = Leaving("SLAVE")
  BY <1>1, <1>2 DEF Leaving, Carrying, Del_Connect_Device, Inv, TypeOK
<1>5. /\ IsFiniteSet(device_am_list')
      /\ Cardinality(device_am_list') = Cardinality(device_am_list) - 1
  BY <1>1, FS_RemoveElement DEF CountInv, Finite
<1>6. Cardinality(Leaving("MASTER")') = Cardinality(Leaving("MASTER")) + 1
  BY <1>3, LeavingFinite, FS_AddElement
<1>7. /\ Cardinality(device_am_list) \in Nat
      /\ Cardinality(Leaving("MASTER")) \in Nat
  BY LeavingFinite, FS_CardinalityType DEF CountInv, Finite
<1>8. UNCHANGED << device_slave_list, num_device_am, num_device_slave, role >>
  BY DEF Del_Connect_Device, counts
<1> QED BY <1>4, <1>5, <1>6, <1>7, <1>8 DEF CountInv, Finite, RoleHeld

LEMMA CountDelSlave ==
    ASSUME Inv, CountInv, NEW t \in Thread, Del_Slave_Connect_Device(t)
    PROVE  CountInv'
<1> USE DEF Goto, Carry
<1>1. PICK c \in device_slave_list : /\ device_slave_list' = device_slave_list \ {c}
                                     /\ Carry(t, c)
  BY DEF Del_Slave_Connect_Device
<1>2. c \in Link /\ c.current_role = "SLAVE" /\ c # None
  BY <1>1, NoneAssumption DEF Inv, TypeOK, Link, Conn
<1>3. t \notin Leaving("SLAVE") /\ Leaving("SLAVE")' = Leaving("SLAVE") \cup {t}
  BY <1>1, <1>2 DEF Leaving, Carrying, Del_Slave_Connect_Device, Inv, TypeOK
<1>4. Leaving("MASTER")' = Leaving("MASTER")
  BY <1>1, <1>2 DEF Leaving, Carrying, Del_Slave_Connect_Device, Inv, TypeOK
<1>5. /\ IsFiniteSet(device_slave_list')
      /\ Cardinality(device_slave_list') = Cardinality(device_slave_list) - 1
  BY <1>1, FS_RemoveElement DEF CountInv, Finite
<1>6. Cardinality(Leaving("SLAVE")') = Cardinality(Leaving("SLAVE")) + 1
  BY <1>3, LeavingFinite, FS_AddElement
<1>7. /\ Cardinality(device_slave_list) \in Nat
      /\ Cardinality(Leaving("SLAVE")) \in Nat
  BY LeavingFinite, FS_CardinalityType DEF CountInv, Finite
<1>8. UNCHANGED << device_am_list, num_device_am, num_device_slave, role >>
  BY DEF Del_Slave_Connect_Device, counts
<1> QED BY <1>4, <1>5, <1>6, <1>7, <1>8 DEF CountInv, Finite, RoleHeld

\* A block that goes back to the free list is no longer a leaving one.
LEMMA CountBlock ==
    ASSUME Inv, CountInv, NEW t \in Thread, Del_Block(t)
    PROVE  CountInv'
<1> USE DEF Goto, Carry
<1>0. PICK r \in Role : r = hand[t].current_role
  BY DEF Inv, Shape, Holds, Conn, Del_Block
<1>1. hand[t] # None /\ r = hand[t].current_role
  BY <1>0, NoneAssumption DEF Inv, Shape, Holds, Conn, Del_Block
<1>2. t \in Leaving(r) /\ Leaving(r)' = Leaving(r) \ {t}
  BY <1>1 DEF Leaving, Carrying, Del_Block, Inv, TypeOK
<1>3. \A q \in Role \ {r} : Leaving(q)' = Leaving(q)
  BY <1>1 DEF Leaving, Carrying, Del_Block, Inv, TypeOK
<1>4. Cardinality(Leaving(r)') = Cardinality(Leaving(r)) - 1
  BY <1>2, LeavingFinite, FS_RemoveElement
<1>5. /\ Cardinality(device_am_list) \in Nat
      /\ Cardinality(device_slave_list) \in Nat
      /\ Cardinality(Leaving(r)') \in Nat
  <2>1. IsFiniteSet(Leaving(r)')
    BY <1>2, LeavingFinite, FS_RemoveElement
  <2> QED BY <2>1, FS_CardinalityType DEF CountInv, Finite
<1>6. UNCHANGED << device_am_list, device_slave_list >>
  BY DEF Del_Block
<1>7. CASE r = "MASTER"
  <2>1. /\ num_device_am' = num_device_am - 1
        /\ role' = IF num_device_am' = 0 THEN "SLAVE" ELSE role
        /\ UNCHANGED num_device_slave
    BY <1>1, <1>7 DEF Del_Block
  <2>2. Leaving("SLAVE")' = Leaving("SLAVE")
    BY <1>3, <1>7 DEF Role
  <2>3. Cardinality(Leaving("SLAVE")) \in Nat /\ Cardinality(Leaving("MASTER")) \in Nat
    BY LeavingFinite
  <2> QED BY <2>1, <2>2, <2>3, <1>4, <1>5, <1>6, <1>7 DEF CountInv, Finite, RoleHeld
<1>8. CASE r = "SLAVE"
  <2>1. /\ num_device_slave' = num_device_slave - 1
        /\ role' = IF num_device_slave' = 0 THEN "MASTER" ELSE role
        /\ UNCHANGED num_device_am
    BY <1>1, <1>8 DEF Del_Block
  <2>2. Leaving("MASTER")' = Leaving("MASTER")
    BY <1>3, <1>8 DEF Role
  <2>3. Cardinality(Leaving("SLAVE")) \in Nat /\ Cardinality(Leaving("MASTER")) \in Nat
    BY LeavingFinite
  <2> QED BY <2>1, <2>2, <2>3, <1>4, <1>5, <1>6, <1>8 DEF CountInv, Finite, RoleHeld
<1> QED BY <1>0, <1>7, <1>8 DEF Role

LEMMA CountNext == Inv /\ CountInv /\ [Next]_vars => CountInv'
<1> SUFFICES ASSUME Inv, CountInv, [Next]_vars PROVE CountInv'
  OBVIOUS
<1> USE DEF Goto, Carry, lists, tables, counts
<1>1. CASE UNCHANGED vars
  BY <1>1, CountKeep DEF vars, Leaving, Carrying
<1>2. CASE Next
  <2>1. PICK t \in Thread : Step(t)
    BY <1>2 DEF Next
  <2>2. /\ hand[t] # None <=> pc[t] # "idle"
        /\ hand[t] # None => hand[t] \in Conn
    BY <2>1, NoneAssumption DEF Inv, Shape, Holds, Step
  <2>3. CASE Add_Connect_Device(t) \/ Add_Slave_Connect_Device(t)
    BY <2>3, <2>2, CountKeep
       DEF Add_Connect_Device, Add_Slave_Connect_Device, Leaving, Carrying, Inv, TypeOK
  <2>4. CASE Hci_Allocate_Am_address(t) \/ Hci_Allocate_Conn_Handle(t)
    BY <2>4, <2>2, CountKeep
       DEF Hci_Allocate_Am_address, Hci_Allocate_Conn_Handle, Leaving, Carrying,
           Inv, TypeOK, Conn
  <2>5. CASE Undo_Am_address(t) \/ Undo_Block(t)
    BY <2>5, <2>2, CountKeep
       DEF Undo_Am_address, Undo_Block, Leaving, Carrying, Inv, TypeOK, Conn
  <2>6. CASE Hci_Free_Conn_Handle(t) \/ Hci_Free_Am_address(t)
    <3>1. Inv'
      BY <2>6, Keep_Hci_Free_Conn_Handle, Keep_Hci_Free_Am_address
    <3>2. hand'[t] # None
      BY <3>1, <2>6, NoneAssumption DEF Inv, Shape, Holds, TypeOK,
         Hci_Free_Conn_Handle, Hci_Free_Am_address
    <3>3. \A r \in Role : Leaving(r)' = Leaving(r)
      BY <2>6, <2>2, <3>2 DEF Hci_Free_Conn_Handle, Hci_Free_Am_address, Leaving,
         Carrying, Inv, TypeOK, Conn
    <3> QED BY <3>3, <2>6, CountKeep DEF Hci_Free_Conn_Handle, Hci_Free_Am_address
  <2> QED
    BY <2>1, <2>3, <2>4, <2>5, <2>6, CountAdd, CountDelMaster, CountDelSlave,
       CountBlock DEF Step
<1> QED BY <1>1, <1>2

LEMMA CountInit == Init => CountInv
<1> SUFFICES ASSUME Init PROVE CountInv
  OBVIOUS
<1>1. \A r : Leaving(r) = {}
  BY DEF Init, Leaving, Carrying
<1>2. IsFiniteSet({}) /\ Cardinality({}) = 0
  BY FS_EmptySet
<1> QED BY <1>1, <1>2 DEF Init, CountInv, Finite, RoleHeld

-----------------------------------------------------------------------------
(* Resets that meet no add or delete under way.                            *)

\* t empties the lists, the other threads are idle.  The first list is empty
\* when the second is begun, and the links that are left keep their handles.
Emptying(t) ==
    /\ \A u \in Thread \ {t} : pc[u] = "idle" /\ hand[u] = None
    /\ \/ pc[t] \in {"rstAm", "rstSlave"} /\ hand[t] = None
       \/ pc[t] \in {"rstAmPut", "rstSlavePut"} /\ hand[t] \in Conn
    /\ pc[t] \in {"rstSlave", "rstSlavePut"} => device_am_list = {}
    /\ \A c, d \in Listed : c.handle = d.handle => c = d

LoneInv ==
    /\ TypeOK /\ BlockOwned
    /\ \/ Inv /\ CountInv
       \/ \E t \in Thread : Emptying(t)

\* Where the threads stand between resets, nobody resets.
LEMMA ShapeNotResetting == Shape => ~Resetting
BY DEF Shape, Resetting

\* Who empties the lists is resetting.
LEMMA EmptyingResets ==
    ASSUME NEW t \in Thread, Emptying(t)
    PROVE  Resetting
BY DEF Emptying, Resetting

\* A reset begins with the invariant of the table and idle threads.
LEMMA LoneBegin ==
    ASSUME LoneInv, NEW t \in Thread, \A u \in Thread \ {t} : pc[u] = "idle", Reset_Begin(t)
    PROVE  LoneInv'
<1> USE DEF Goto, Carry, lists, tables, counts
<1>1. Inv
  BY DEF LoneInv, Emptying, Reset_Begin
<1>2. TypeOK' /\ BlockOwned'
  BY <1>1 DEF Inv, TypeOK, PC, BlockOwned, Listed, Carrying, Reset_Begin
<1>3. hand[t] = None /\ \A u \in Thread \ {t} : hand[u] = None
  BY <1>1 DEF Inv, Shape, Holds, Reset_Begin
<1>4. Emptying(t)'
  BY <1>1, <1>3 DEF Inv, TypeOK, HandleHeld, Listed, Emptying, Reset_Begin
<1> QED BY <1>2, <1>4 DEF LoneInv

\* The link at the head of the first list goes to the thread, or none is left.
LEMMA LonePopAm ==
    ASSUME LoneInv, NEW t \in Thread, Emptying(t), Reset_Pop_Am(t)
    PROVE  LoneInv'
<1> USE NoneAssumption DEF Goto, Carry, lists, tables, counts
<1>1. hand[t] = None /\ t \notin Carrying
  BY DEF Emptying, Reset_Pop_Am, Conn, Carrying
<1>2. CASE device_am_list' = device_am_list
  <2>1. TypeOK' /\ BlockOwned' /\ hand' = hand
    BY <1>2, <1>1 DEF LoneInv, TypeOK, PC, BlockOwned, Listed, Carrying, Reset_Pop_Am
  <2>2. Emptying(t)'
    BY <1>2, <1>1, <2>1 DEF LoneInv, TypeOK, Listed, Emptying, Reset_Pop_Am
  <2> QED BY <2>1, <2>2 DEF LoneInv
<1>3. CASE device_am_list' # device_am_list
  <2>1. PICK c \in device_am_list : /\ device_am_list' = device_am_list \ {c}
                                    /\ Carry(t, c) /\ Goto(t, "rstAmPut")
    BY <1>3 DEF Reset_Pop_Am
  <2>2. c \in Conn /\ c # None
    BY DEF LoneInv, TypeOK, Link, Conn
  <2>3. TypeOK'
    BY <2>1, <2>2 DEF LoneInv, TypeOK, PC, Reset_Pop_Am
  <2>4. /\ Listed' = Listed \ {c} /\ c \in Listed /\ Carrying' = Carrying \cup {t}
        /\ hand'[t] = c /\ \A u \in Carrying : hand'[u] = hand[u]
        /\ device_free_list' = device_free_list
    BY <2>1, <2>2, <1>1 DEF LoneInv, TypeOK, Listed, Carrying, Reset_Pop_Am
  <2>5. BlockOwned'
    BY <2>4 DEF LoneInv, BlockOwned
  <2>6. Emptying(t)'
    BY <2>1, <2>2, <2>4 DEF LoneInv, TypeOK, Emptying, Reset_Pop_Am
  <2> QED BY <2>3, <2>5, <2>6 DEF LoneInv
<1> QED BY <1>2, <1>3

\* The same for the second list.
LEMMA LonePopSlave ==
    ASSUME LoneInv, NEW t \in Thread, Emptying(t), Reset_Pop_Slave(t)
    PROVE  LoneInv'
<1> USE NoneAssumption DEF Goto, Carry, lists, tables, counts
<1>1. hand[t] = None /\ t \notin Carrying /\ device_am_list = {}
  BY DEF Emptying, Reset_Pop_Slave, Conn, Carrying
<1>2. PICK c \in device_slave_list : /\ device_slave_list' = device_slave_list \ {c}
                                     /\ Carry(t, c) /\ Goto(t, "rstSlavePut")
  BY DEF Reset_Pop_Slave
<1>3. c \in Conn /\ c # None
  BY DEF LoneInv, TypeOK, Link, Conn
<1>4. TypeOK'
  BY <1>2, <1>3 DEF LoneInv, TypeOK, PC, Reset_Pop_Slave
<1>5. /\ Listed' = Listed \ {c} /\ c \in Listed /\ Carrying' = Carrying \cup {t}
      /\ hand'[t] = c /\ \A u \in Carrying : hand'[u] = hand[u]
      /\ device_free_list' = device_free_list /\ device_am_list' = {}
  BY <1>1, <1>2, <1>3 DEF LoneInv, TypeOK, Listed, Carrying, Reset_Pop_Slave
<1>6. BlockOwned'
  BY <1>5 DEF LoneInv, BlockOwned
<1>7. Emptying(t)'
  BY <1>2, <1>3, <1>5 DEF LoneInv, TypeOK, Emptying, Reset_Pop_Slave
<1> QED BY <1>4, <1>6, <1>7 DEF LoneInv

\* The block of the link goes to the free list.
LEMMA LonePut ==
    ASSUME LoneInv, NEW t \in Thread, Emptying(t), Reset_Put(t)
    PROVE  LoneInv'
<1> USE NoneAssumption DEF Goto, Carry, lists, tables, counts
<1>1. hand[t] \in Conn /\ hand[t] # None /\ t \in Carrying
  BY DEF Emptying, Reset_Put, Carrying
<1>2. TypeOK'
  BY <1>1 DEF LoneInv, TypeOK, PC, Conn, Reset_Put
<1>3. /\ Listed' = Listed /\ Carrying' = Carrying \ {t} /\ device_am_list' = device_am_list
      /\ hand'[t] = None /\ \A u \in Carrying \ {t} : hand'[u] = hand[u]
      /\ device_free_list' = device_free_list \cup {hand[t].blk}
  BY <1>1 DEF LoneInv, TypeOK, Listed, Carrying, Reset_Put
<1>4. BlockOwned'
  BY <1>1, <1>3 DEF LoneInv, BlockOwned
<1>5. Emptying(t)'
  BY <1>1, <1>3 DEF LoneInv, TypeOK, Emptying, Reset_Put
<1> QED BY <1>2, <1>4, <1>5 DEF LoneInv

\* Everything is set to its initial value, and nobody carries anything.
LEMMA LoneRebuild ==
    ASSUME LoneInv, NEW t \in Thread, Emptying(t), Reset_Rebuild(t)
    PROVE  LoneInv'
<1> USE ConnAssumption, NoneAssumption DEF Goto, Carry, lists, tables, counts
<1>1. \A u \in Thread : hand[u] = None
  BY DEF Emptying, Reset_Rebuild, Conn
<1>2. \A u \in Thread : pc'[u] = "idle" /\ hand'[u] = None
  BY <1>1 DEF LoneInv, TypeOK, Emptying, Reset_Rebuild
<1>3. TypeOK'
  BY <1>1 DEF LoneInv, TypeOK, PC, Reset_Rebuild
<1>4. Shape'
  BY <1>2 DEF Shape
<1>5. Carrying' = {} /\ Listed' = {}
  BY <1>2 DEF Carrying, Listed, Reset_Rebuild
<1>6. BlockOwned'
  BY <1>5 DEF BlockOwned, Reset_Rebuild
<1>7. HandleHeld' /\ AmHeld'
  BY <1>5 DEF HandleHeld, AmHeld, CarryingMaster, Reset_Rebuild, Addr, Handle
<1>8. Leaving("MASTER")' = {} /\ Leaving("SLAVE")' = {}
  BY <1>5 DEF Leaving
<1>9. IsFiniteSet({}) /\ Cardinality({}) = 0
  BY FS_EmptySet
<1>10. /\ device_am_list' = {} /\ device_slave_list' = {}
       /\ num_device_am' = 0 /\ num_device_slave' = 0
  BY DEF Reset_Rebuild
<1>11. CountInv'
  BY <1>8, <1>9, <1>10 DEF CountInv, Finite, RoleHeld
<1> QED BY <1>3, <1>4, <1>6, <1>7, <1>11 DEF LoneInv, Inv

\* A step of a reset is one of the thread that is emptying the lists.
LEMMA LoneReset ==
    ASSUME LoneInv, NEW t \in Thread, \A u \in Thread \ {t} : pc[u] = "idle", Reset(t)
    PROVE  LoneInv'
<1>1. CASE Reset_Begin(t)
  BY <1>1, LoneBegin
<1>2. CASE ~Reset_Begin(t)
  <2>1. pc[t] \in {"rstAm", "rstAmPut", "rstSlave", "rstSlavePut"}
    BY <1>2 DEF Reset, Reset_Pop_Am, Reset_Pop_Slave, Reset_Put, Reset_Rebuild
  <2>2. Emptying(t)
    <3>1. Resetting
      BY <2>1 DEF Resetting
    <3>2. PICK u \in Thread : Emptying(u)
      BY <3>1, ShapeNotResetting DEF LoneInv, Inv
    <3> QED BY <2>1, <3>2 DEF Emptying
  <2> QED BY <1>2, <2>2, LonePopAm, LonePopSlave, LonePut, LoneRebuild DEF Reset
<1> QED BY <1>1, <1>2

LEMMA LoneInit == Init => LoneInv
BY InvInit, CountInit DEF LoneInv, Inv

LEMMA LoneNext == LoneInv /\ [LoneResetNext]_vars => LoneInv'
<1> SUFFICES ASSUME LoneInv, [LoneResetNext]_vars PROVE LoneInv'
  OBVIOUS
<1>1. CASE UNCHANGED vars
  BY SMTT(15), <1>1 DEF LoneInv, Inv, CountInv, vars, lists, tables, counts, TypeOK, Shape, Holds,
              BlockOwned, HandleHeld, AmHeld, Listed, Carrying, CarryingMaster, Emptying,
              Finite, RoleHeld, Leaving
<1>2. ASSUME NEW t \in Thread, ~Resetting, Step(t)
      PROVE  LoneInv'
  <2>1. Inv /\ CountInv
    BY <1>2, EmptyingResets DEF LoneInv
  <2>2. Next
    BY <1>2 DEF Next
  <2> QED BY <2>1, <2>2, InvNext, CountNext DEF LoneInv, Inv
<1>3. ASSUME NEW t \in Thread, \A u \in Thread \ {t} : pc[u] = "idle", Reset(t)
      PROVE  LoneInv'
  BY <1>3, LoneReset
<1> QED BY <1>1, <1>2, <1>3 DEF LoneResetNext

LEMMA LoneInvariance == LoneResetSpec => []LoneInv
BY LoneInit, LoneNext, PTL DEF LoneResetSpec

LEMMA CountInvariance == Spec => [](Inv /\ CountInv)
BY Invariance, CountInit, CountNext, PTL DEF Spec

-----------------------------------------------------------------------------
(* The theorems, between resets and with them. *)

\* The table is well typed at every step of Hci_Add_*, Hci_Del_* and
\* Hci_ReleaseAllConnection.
THEOREM TypeCorrect == (Spec => []TypeOK) /\ (LoneResetSpec => []TypeOK)
<1>1. Inv => TypeOK
  BY DEF Inv
<1>2. LoneInv => TypeOK
  BY DEF LoneInv
<1> QED BY <1>1, <1>2, Invariance, LoneInvariance, PTL

\* No interleaving of adds, deletes and the sections of a reset loses a block
\* or links it twice.
THEOREM BlocksOwned == (Spec => []BlockOwned) /\ (LoneResetSpec => []BlockOwned)
<1>1. Inv => BlockOwned
  BY DEF Inv
<1>2. LoneInv => BlockOwned
  BY DEF LoneInv
<1> QED BY <1>1, <1>2, Invariance, LoneInvariance, PTL

\* No two links share a connection handle, nor two of device_am_list an
\* active-member address, and none leaks, not even by a reset.
THEOREM NumbersAreOwned == (Spec => []NumbersOwned) /\ (LoneResetSpec => []NumbersOwned)
<1>1. Inv => NumbersOwned
  BY DEF Inv, NumbersOwned
<1>2. LoneInv => NumbersOwned
  BY EmptyingResets DEF LoneInv, Inv, NumbersOwned
<1> QED BY <1>1, <1>2, Invariance, LoneInvariance, PTL

\* The counts and the role of the device agree with the two lists.
THEOREM RoleCorrect == (Spec => []RoleFollowsLinks) /\ (LoneResetSpec => []RoleFollowsLinks)
<1>1. CountInv => RoleFollowsLinks
  BY DEF CountInv, RoleFollowsLinks
<1>2. LoneInv => RoleFollowsLinks
  BY <1>1, EmptyingResets DEF LoneInv, RoleFollowsLinks
<1> QED BY <1>1, <1>2, CountInvariance, LoneInvariance, PTL

Name(c) == [handle |-> c.handle, am |-> c.am, role |-> c.current_role]

\* A listed link whose handle is its own takes its name with it.
LEMMA LinkGoes ==
    ASSUME \A c, d \in Listed : c.handle = d.handle => c = d,
           NEW c \in Listed, Listed' = Listed \ {c}
    PROVE  Links!Disconnect
<1>1. UpLinks = { Name(d) : d \in Listed } /\ UpLinks' = { Name(d) : d \in Listed' }
  BY DEF UpLinks, Name
<1>2. \A d \in Listed : Name(d) = Name(c) => d = c
  BY DEF Name
<1>3. UpLinks' = UpLinks \ {Name(c)}
  BY <1>1, <1>2
<1>4. Name(c) \in UpLinks
  BY <1>1
<1> QED BY <1>3, <1>4 DEF Links!Disconnect

\* The table implements the abstract set of links: a link appears in Add_List
\* and disappears when it leaves its list, and its names are its own.
THEOREM LinksImplemented == (Spec => ImplementsLinks) /\ (LoneResetSpec => ImplementsLinks)
<1> USE DEF Goto, Carry, lists, tables, counts
<1>1. Init => Links!LinksInit
  BY DEF Init, Links!LinksInit, UpLinks, Listed
<1> DEFINE Abstract == [Links!LinksNext]_UpLinks
<1>2. ASSUME NEW t \in Thread, Inv, Step(t)
      PROVE  Abstract
  <2> USE <1>2
  <2>1. UpLinks = { Name(c) : c \in Listed }
    BY DEF UpLinks, Name
  <2>2. UpLinks' = { Name(c) : c \in Listed' }
    BY DEF UpLinks, Name
  <2>3. CASE UNCHANGED Listed
    BY <2>3, <2>1, <2>2
  <2>4. ASSUME Add_List(t)
        PROVE  Links!Connect
    <3> DEFINE l == Name(hand[t])
    <3>1. /\ hand[t] \in Link /\ hand[t] # None
      BY <2>4, NoneAssumption DEF Inv, Shape, Holds, Conn, Link, Add_List
    <3>2. Listed' = Listed \cup {hand[t]}
      BY <2>4 DEF Add_List, Listed
    <3>3. l \in Links!Up
      BY <3>1 DEF Name, Link, Links!Up, Links!Role, Role
    <3>4. \A c \in Listed : c.handle # hand[t].handle
      BY <3>1 DEF Inv, HandleHeld, Carrying
    <3>5. hand[t].current_role = "MASTER" =>
            \A c \in device_am_list : c.am # hand[t].am
      BY <3>1 DEF Inv, AmHeld, Carrying, CarryingMaster
    <3>6. \A c \in Listed : c.current_role = "MASTER" => c \in device_am_list
      BY DEF Inv, TypeOK, Listed
    <3>7. UpLinks' = UpLinks \cup {l}
      BY <2>1, <2>2, <3>2
    <3>8. \A k \in UpLinks : k.handle # l.handle
      BY <2>1, <3>4 DEF Name
    <3>9. l.role = "MASTER" => \A k \in UpLinks : k.role = "MASTER" => k.am # l.am
      BY <2>1, <3>5, <3>6 DEF Name
    <3> QED BY <3>3, <3>7, <3>8, <3>9 DEF Links!Connect
  <2>5. ASSUME Del_Connect_Device(t) \/ Del_Slave_Connect_Device(t)
        PROVE  Links!Disconnect
    <3>1. \A c \in device_am_list : c \notin device_slave_list
      BY DEF Inv, TypeOK
    <3>2. \E c \in Listed : Listed' = Listed \ {c}
      BY <2>5, <3>1 DEF Del_Connect_Device, Del_Slave_Connect_Device, Listed
    <3> QED BY <3>2, LinkGoes DEF Inv, HandleHeld
  <2>6. \/ UNCHANGED Listed
        \/ Add_List(t)
        \/ Del_Connect_Device(t) \/ Del_Slave_Connect_Device(t)
    BY DEF Step, Listed, Add_Connect_Device, Add_Slave_Connect_Device,
       Hci_Allocate_Am_address, Hci_Allocate_Conn_Handle, Undo_Am_address,
       Undo_Block, Hci_Free_Conn_Handle, Hci_Free_Am_address, Del_Block
  <2> QED BY <2>3, <2>4, <2>5, <2>6 DEF Links!LinksNext
<1>3. ASSUME UNCHANGED vars
      PROVE  Abstract
  BY <1>3 DEF vars, UpLinks, Listed
<1>4. ASSUME LoneInv, NEW t \in Thread, \A u \in Thread \ {t} : pc[u] = "idle", Reset(t)
      PROVE  Abstract
  <2> USE <1>4
  <2>1. /\ \A c, d \in Listed : c.handle = d.handle => c = d
        /\ pc[t] = "rstSlave" => device_am_list = {}
    <3>1. CASE Inv
      BY <3>1 DEF Inv, HandleHeld, Shape
    <3>2. CASE \E u \in Thread : Emptying(u)
      BY <3>2 DEF Emptying
    <3> QED BY <3>1, <3>2 DEF LoneInv
  <2>2. \/ UNCHANGED Listed
        \/ \E c \in Listed : Listed' = Listed \ {c}
    <3>1. \A c \in device_am_list : c \notin device_slave_list
      BY DEF LoneInv, TypeOK
    <3> QED BY <2>1, <3>1 DEF Reset, Reset_Begin, Reset_Pop_Am, Reset_Pop_Slave, Reset_Put,
                              Reset_Rebuild, Listed
  <2> QED BY <2>1, <2>2, LinkGoes DEF Links!LinksNext, UpLinks
<1>5. Inv /\ [Next]_vars => Abstract
  BY <1>2, <1>3 DEF Next
<1>6. LoneInv /\ [LoneResetNext]_vars => Abstract
  <2>1. LoneInv /\ ~Resetting => Inv
    BY EmptyingResets DEF LoneInv
  <2> QED BY <1>2, <1>3, <1>4, <2>1 DEF LoneResetNext
<1> QED
  BY <1>1, <1>5, <1>6, Invariance, LoneInvariance, PTL
     DEF Spec, LoneResetSpec, ImplementsLinks, Links!LinksSpec
=============================================================================
