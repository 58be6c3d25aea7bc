------------------------------ MODULE ListLinks ------------------------------
(***************************************************************************)
(* The list macros of both drivers (wlan/usbwlan_queue.h, whose text       *)
(* bluetooth/bt_queue.h repeats): doubly linked lists that end in a null   *)
(* pointer on both sides.  A list head is an entry like the others, whose  *)
(* flink is the first element and whose blink is the last.                 *)
(*                                                                         *)
(* An operator maps the links of all entries, before the macro, to those   *)
(* after it.  No macro looks whether the element is in the list: that is   *)
(* left to the caller.                                                     *)
(***************************************************************************)
EXTENDS Naturals, Sequences, FiniteSets

CONSTANT Null

NoLinks == [flink |-> Null, blink |-> Null]

QueueGetHead(h, l) == h[l].flink

QueuePushHead(h, l, e) ==
    LET first == h[l].flink
        linked == [h EXCEPT ![e].flink = first]
    IN  [linked EXCEPT ![IF first = Null THEN l ELSE first].blink = e,
                       ![e].blink = Null,
                       ![l].flink = e]

\* QueuePutTail, for a caller that has read the tail of the list as last.
PutBehind(h, l, last, e) ==
    IF last = Null
      THEN [h EXCEPT ![l] = [flink |-> e, blink |-> e], ![e] = NoLinks]
      ELSE [h EXCEPT ![last].flink = e, ![e].blink = last,
                     ![l].blink = e, ![e].flink = Null]

QueuePutTail(h, l, e) == PutBehind(h, l, h[l].blink, e)

QueueRemoveHead(h, l) ==
    LET e == h[l].flink
        second == h[e].flink
    IN  IF e = Null THEN h
        ELSE IF second = Null
               THEN [h EXCEPT ![l] = NoLinks, ![e] = NoLinks]
               ELSE [h EXCEPT ![l].flink = second, ![second].blink = Null,
                              ![e] = NoLinks]

QueueRemoveTail(h, l) ==
    LET e == h[l].blink
        before == h[e].blink
    IN  IF e = Null THEN h
        ELSE IF before = Null
               THEN [h EXCEPT ![l] = NoLinks, ![e] = NoLinks]
               ELSE [h EXCEPT ![l].blink = before, ![before].flink = Null,
                              ![e] = NoLinks]

\* Faulty variant: the last element is unlinked like one in the middle.
RemoveEleNoTail(h, l, e) ==
    IF h[l].flink = e THEN QueueRemoveHead(h, l)
    ELSE LET next == h[e].flink
             prior == h[e].blink
         IN  IF next # Null /\ prior # Null
               THEN [h EXCEPT ![next].blink = prior, ![prior].flink = next,
                              ![e] = NoLinks]
               ELSE [h EXCEPT ![e] = NoLinks]

QueueRemoveEle(h, l, e) ==
    IF h[l].flink = e THEN QueueRemoveHead(h, l)
    ELSE IF h[l].blink = e THEN QueueRemoveTail(h, l)
    ELSE LET next == h[e].flink
             prior == h[e].blink
         IN  IF next # Null /\ prior # Null
               THEN [h EXCEPT ![next].blink = prior, ![prior].flink = next,
                              ![e] = NoLinks]
               ELSE [h EXCEPT ![e] = NoLinks]

-----------------------------------------------------------------------------
(* The list a reader of the links finds: the elements from the head on,    *)
(* cut after as many as there are entries, should the links run in a ring. *)

Chain(h, l) ==
    LET size == Cardinality(DOMAIN h)
        at[i \in 1..size] ==
          IF i = 1 THEN h[l].flink
          ELSE IF at[i - 1] = Null THEN Null ELSE h[at[i - 1]].flink
        full == { i \in 1..size : at[i] # Null }
    IN  [i \in 1..Cardinality(full) |-> at[i]]
=============================================================================
