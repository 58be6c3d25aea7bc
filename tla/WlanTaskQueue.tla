---------------------------- MODULE WlanTaskQueue ----------------------------
(***************************************************************************)
(* What the task module of the WLAN driver promises to its callers: a      *)
(* fixed number of blocks, each free, in a caller's or the worklet's       *)
(* hands, or waiting in one of two queues; a queue is served in order, the *)
(* high one first, and may lose tasks that somebody removes, never the     *)
(* order of the others (usbwlan_Task.h:119-124, 147-150).                  *)
(***************************************************************************)
EXTENDS Naturals, Sequences

CONSTANT TaskBlock

VARIABLES free, normal, high,   \* the pool, a set, and the two queues
          out                   \* blocks in somebody's hands

qvars == << free, normal, high, out >>

In(q) == { q[i] : i \in 1..Len(q) }

QInit == /\ free = TaskBlock
         /\ normal = << >>
         /\ high = << >>
         /\ out = {}

TakeFree == \E b \in free : /\ free' = free \ {b}
                            /\ out' = out \cup {b}
                            /\ UNCHANGED << normal, high >>

TakeHigh == /\ high # << >>
            /\ high' = Tail(high)
            /\ out' = out \cup {Head(high)}
            /\ UNCHANGED << free, normal >>

\* By the worklet, or by a creator that finds no free block.
TakeNormal == /\ normal # << >>
              /\ normal' = Tail(normal)
              /\ out' = out \cup {Head(normal)}
              /\ UNCHANGED << free, high >>

AddNormal(b) == /\ normal' \in { Append(normal, b), << b >> \o normal }
                /\ out' = out \ {b}
                /\ UNCHANGED << free, high >>

AddHigh(b) == /\ high' \in { Append(high, b), << b >> \o high }
              /\ out' = out \ {b}
              /\ UNCHANGED << free, normal >>

Release(b) == /\ free' = free \cup {b}
              /\ out' = out \ {b}
              /\ UNCHANGED << normal, high >>

\* The worklet frees a task and takes the next in one step.
Recycle(b) ==
    /\ free' = free \cup {b}
    /\ \/ /\ high # << >>
          /\ high' = Tail(high) /\ out' = (out \ {b}) \cup {Head(high)}
          /\ UNCHANGED normal
       \/ /\ high = << >> /\ normal # << >>
          /\ normal' = Tail(normal) /\ out' = (out \ {b}) \cup {Head(normal)}
          /\ UNCHANGED high

\* k keeps some positions of q, in their order.
Keeps(k, q) == /\ \A i \in 1..Len(k) : k[i] \in 1..Len(q)
               /\ \A i, j \in 1..Len(k) : i < j => k[i] < k[j]

\* Waiting tasks are removed, any number of them.
Remove ==
    /\ UNCHANGED out
    /\ \E m \in 0..Len(normal), n \in 0..Len(high) :
       \E k \in [1..m -> 1..Len(normal)], l \in [1..n -> 1..Len(high)] :
         /\ Keeps(k, normal) /\ Keeps(l, high)
         /\ normal' = [i \in 1..m |-> normal[k[i]]]
         /\ high' = [i \in 1..n |-> high[l[i]]]
         /\ free' = free \cup (In(normal) \ In(normal')) \cup (In(high) \ In(high'))

QNext == \/ TakeFree \/ TakeHigh \/ TakeNormal \/ Remove
         \/ \E b \in out : AddNormal(b) \/ AddHigh(b) \/ Release(b) \/ Recycle(b)

QSpec == QInit /\ [][QNext]_qvars

\* Every block is in exactly one place, once.
Conserved ==
    /\ free \cup In(normal) \cup In(high) \cup out = TaskBlock
    /\ free \cap In(normal) = {} /\ free \cap In(high) = {} /\ free \cap out = {}
    /\ In(normal) \cap In(high) = {} /\ In(normal) \cap out = {}
    /\ In(high) \cap out = {}
    /\ \A i, j \in 1..Len(normal) : normal[i] = normal[j] => i = j
    /\ \A i, j \in 1..Len(high) : high[i] = high[j] => i = j
=============================================================================
