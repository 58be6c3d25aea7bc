---------------------------- MODULE WlanTask_proofs ----------------------------
(***************************************************************************)
(* Theorems about WlanTask, for any number of blocks, creators and tasks:  *)
(* the links of the three lists lead from block to block, and read as the  *)
(* queues and the pool of WlanTaskQueue.                                   *)
(*                                                                         *)
(* A list is walked and built one block at a time, so its lemmas need      *)
(* induction: Least, from the theorem that the subsets of a finite set are *)
(* well-founded under inclusion, Induct for what holds at every place, and *)
(* Iterate for what is built step by step.                                 *)
(*                                                                         *)
(* IsChain relates links to the row of blocks they stand for, ChainRead    *)
(* says that the walk along them reads that row, and there is a lemma for  *)
(* each macro of the lists.  Reads puts the three lists together: no block *)
(* is in two of them.                                                      *)
(*                                                                         *)
(* TypeOK holds whatever is removed (ChainTyped: even the walk along a cut *)
(* list only meets blocks).  That the links always read as the queues,     *)
(* Sound, needs RemovedAreHigh: what may be removed waits in the high list *)
(* (Right), and what a creator or the worklet puts there later will too    *)
(* (HandsRight).                                                           *)
(***************************************************************************)
EXTENDS WlanTask, FiniteSetTheorems, WellFoundedInduction, TLAPS

-----------------------------------------------------------------------------
(* Induction.  The theorems on induction take a predicate, which no prover *)
(* instantiates; that the finite sets are well-founded is one that takes   *)
(* none, and the intervals from 0 are finite sets.                         *)

\* Every set of natural numbers has a least one.
LEMMA Least ==
    ASSUME NEW T \in SUBSET Nat, T # {}
    PROVE  \E x \in T : \A y \in T : x <= y
<1>1. PICK t \in T : TRUE
  OBVIOUS
<1>2. IsWellFoundedOn(StrictSubsetOrdering(0..t), FiniteSubsetsOf(0..t))
  BY FS_StrictSubsetOrderingWellFounded
<1> DEFINE U == { 0..x : x \in { y \in T : y <= t } }
<1>3. U \subseteq FiniteSubsetsOf(0..t)
  <2>1. ASSUME NEW x \in T, x <= t PROVE 0..x \subseteq 0..t /\ IsFiniteSet(0..x)
    BY <2>1, FS_Interval
  <2> QED BY <2>1 DEF FiniteSubsetsOf
<1>4. 0..t \in U
  BY <1>1
<1>5. PICK v \in U : \A y \in U : ~(<< y, v >> \in StrictSubsetOrdering(0..t))
  <2> HIDE DEF U
  <2> QED BY <1>2, <1>3, <1>4, WFMin
<1>6. PICK x \in T : x <= t /\ v = 0..x
  BY <1>5
<1>7. ASSUME NEW y \in T, y < x PROVE FALSE
  <2>1. 0..y \in U
    BY <1>6, <1>7
  <2>2. 0..y \subseteq 0..x /\ 0..y # 0..x /\ 0..y \subseteq 0..t /\ 0..x \subseteq 0..t
    BY <1>6, <1>7
  <2> QED BY <2>1, <2>2, <1>5, <1>6 DEF StrictSubsetOrdering
<1> QED BY <1>7

\* A set that holds 0 and, below n, with a number the next, holds all up to n.
LEMMA Induct ==
    ASSUME NEW n \in Nat, NEW S, 0 \in S, \A i \in 0..n : i < n /\ i \in S => i + 1 \in S
    PROVE  0..n \subseteq S
<1> DEFINE T == { i \in 0..n : i \notin S }
<1>1. SUFFICES ASSUME T # {} PROVE FALSE
  OBVIOUS
<1>2. T \in SUBSET Nat
  OBVIOUS
<1>3. PICK x \in T : \A y \in T : x <= y
  <2> HIDE DEF T
  <2> QED BY <1>1, <1>2, Least
<1>4. x \in 0..n /\ x # 0 /\ x - 1 \in 0..n /\ x - 1 < n
  BY <1>3
<1>5. x - 1 \in S
  BY <1>3, <1>4
<1>6. (x - 1) + 1 \in S
  BY <1>4, <1>5
<1> QED BY <1>3, <1>4, <1>6

\* What is defined step by step exists.
Runs(H, n, h0, step) ==
    { f \in [0..n -> H] : f[0] = h0 /\ \A i \in 1..n : f[i] = step[i][f[i - 1]] }

\* Steps that are functions of H can be run from h0, one after another.
LEMMA Iterate ==
    ASSUME NEW H, NEW n \in Nat, NEW h0 \in H, NEW step \in [1..n -> [H -> H]]
    PROVE  Runs(H, n, h0, step) # {}
<1> DEFINE Upto(m, f) == f[0] = h0 /\ \A i \in 1..m : f[i] = step[i][f[i - 1]]
           S == { m \in 0..n : \E f \in [0..n -> H] : Upto(m, f) }
<1>1. 0 \in S
  <2>1. [i \in 0..n |-> h0] \in [0..n -> H] /\ Upto(0, [i \in 0..n |-> h0])
    OBVIOUS
  <2> HIDE DEF Upto
  <2> QED BY <2>1
<1>2. ASSUME NEW m \in 0..n, m < n, m \in S PROVE m + 1 \in S
  <2>1. PICK f \in [0..n -> H] : Upto(m, f)
    BY <1>2
  <2> DEFINE x == step[m + 1][f[m]]
             g == [f EXCEPT ![m + 1] = x]
  <2>2. m + 1 \in 1..n /\ m + 1 \in 0..n /\ f[m] \in H
    BY <1>2
  <2>3. x \in H
    BY <2>2
  <2>4. g \in [0..n -> H]
    BY <2>2, <2>3
  <2>5. Upto(m + 1, g)
    <3>1. g[0] = h0
      BY <2>1, <2>2
    <3>2. ASSUME NEW i \in 1..m PROVE g[i] = step[i][g[i - 1]]
      BY <2>1, <2>2
    <3>3. g[m + 1] = step[m + 1][g[(m + 1) - 1]]
      BY <2>2
    <3>4. \A i \in 1..m + 1 : i \in 1..m \/ i = m + 1
      BY <2>2
    <3> QED BY <3>1, <3>2, <3>3, <3>4
  <2> QED BY <2>2, <2>4, <2>5
<1>3. n \in S
  <2> HIDE DEF S
  <2>1. 0..n \subseteq S
    BY <1>1, <1>2, Induct
  <2> QED BY <2>1
<1> QED BY <1>3 DEF Runs

-----------------------------------------------------------------------------
(* Lists.  q is what the links h say of list l; in this module a list is   *)
(* always one of the three.                                                *)

Entry == List \cup Block
Links == [Entry -> [flink : Block \cup {Null}, blink : Block \cup {Null}]]

\* The sequences of blocks in which no block comes twice.
Row == { q \in Seq(Block) : \A i, j \in 1..Len(q) : q[i] = q[j] => i = j }

Ends(h, l, q) ==
    h[l] = IF q = << >> THEN NoLinks ELSE [flink |-> q[1], blink |-> q[Len(q)]]

Linked(h, q) ==
    \A i \in 1..Len(q) :
       h[q[i]] = [flink |-> IF i = Len(q) THEN Null ELSE q[i + 1],
                  blink |-> IF i = 1 THEN Null ELSE q[i - 1]]

IsChain(h, l, q) == q \in Row /\ Ends(h, l, q) /\ Linked(h, q)

\* The constants, as the proofs use them.
LEMMA Entries ==
    /\ List \subseteq Entry /\ Block \subseteq Entry /\ List \cap Block = {}
    /\ Null \notin Entry /\ Null \notin Block
    /\ "task_free_pool" \in List /\ "task_list" \in List /\ "task_list_high" \in List
  BY TaskAssumption DEF Entry, List

\* There are finitely many entries.
LEMMA EntriesFinite == IsFiniteSet(Entry)
<1>1. IsFiniteSet({"task_free_pool"}) /\ IsFiniteSet({"task_list"}) /\ IsFiniteSet({"task_list_high"})
  BY FS_Singleton
<1>2. IsFiniteSet({"task_free_pool"} \cup {"task_list"})
  BY <1>1, FS_Union
<1>3. IsFiniteSet({"task_free_pool"} \cup {"task_list"} \cup {"task_list_high"})
  BY <1>1, <1>2, FS_Union
<1>4. IsFiniteSet({"task_free_pool"} \cup {"task_list"} \cup {"task_list_high"} \cup Block)
  BY <1>3, TaskAssumption, FS_Union
<1>5. Entry = {"task_free_pool"} \cup {"task_list"} \cup {"task_list_high"} \cup Block
  BY DEF Entry, List
<1> QED BY <1>4, <1>5

\* There are n numbers up to n.
LEMMA Counted == ASSUME NEW n \in Nat PROVE IsFiniteSet(1..n) /\ Cardinality(1..n) = n
<1>1. 1 \in Int /\ n \in Int
  OBVIOUS
<1>2. IsFiniteSet(1..n) /\ Cardinality(1..n) = IF 1 > n THEN 0 ELSE n - 1 + 1
  BY <1>1, FS_Interval
<1> QED BY <1>2

\* No list is longer than there are entries.
LEMMA RowFits ==
    ASSUME NEW q \in Row
    PROVE  Cardinality(Entry) \in Nat /\ Len(q) \in Nat /\ Len(q) <= Cardinality(Entry)
<1>1. q \in Seq(Block) /\ Len(q) \in Nat /\ \A i \in 1..Len(q) : q[i] \in Entry
  BY Entries DEF Row
<1>2. Cardinality(Entry) \in Nat
  BY EntriesFinite, FS_CardinalityType
<1>3. Cardinality(1..Len(q)) = Len(q) /\ IsFiniteSet(1..Len(q))
  BY <1>1, Counted
<1> DEFINE f == [i \in 1..Len(q) |-> q[i]]
<1>4. f \in Injection(1..Len(q), Entry)
  BY <1>1 DEF Row, Injection, IsInjective
<1>5. Cardinality(1..Len(q)) <= Cardinality(Entry)
  <2> HIDE DEF f
  <2> QED BY <1>4, EntriesFinite, FS_Injection
<1> QED BY <1>1, <1>2, <1>3, <1>5

\* The equation of the reader's walk.
Walk(h, l, at) ==
    [i \in 1..Cardinality(DOMAIN h) |->
        IF i = 1 THEN h[l].flink
        ELSE IF at[i - 1] = Null THEN Null ELSE h[at[i - 1]].flink]

\* What Chain reads is a walk along flink, which the fact about any such function
\* names.
LEMMA ChainWalks ==
    ASSUME NEW h, NEW l, NEW f, f = Walk(h, l, f)
    PROVE  \E at : /\ at = Walk(h, l, at)
                   /\ Chain(h, l) = [i \in 1..Cardinality({ j \in 1..Cardinality(DOMAIN h) :
                                                               at[j] # Null }) |-> at[i]]
<1> DEFINE at == CHOOSE g : g = Walk(h, l, g)
<1>1. Chain(h, l) = [i \in 1..Cardinality({ j \in 1..Cardinality(DOMAIN h) :
                                               at[j] # Null }) |-> at[i]]
  BY DEF Chain, Walk
<1>2. at = Walk(h, l, at)
  <2>1. \E g : g = Walk(h, l, g)
    OBVIOUS
  <2> QED BY <2>1
<1> HIDE DEF at
<1> QED BY <1>1, <1>2

\* A reader of the links finds the list.
LEMMA ChainRead ==
    ASSUME NEW h \in Links, NEW l \in List, NEW q, IsChain(h, l, q)
    PROVE  Chain(h, l) = q
<1> DEFINE size == Cardinality(Entry)
           f == [i \in 1..size |-> IF i <= Len(q) THEN q[i] ELSE Null]
<1>1. /\ DOMAIN h = Entry /\ size \in Nat /\ q \in Seq(Block)
      /\ Len(q) \in Nat /\ Len(q) <= size
      /\ \A i \in 1..Len(q) : q[i] \in Block /\ q[i] # Null
  BY RowFits, Entries DEF Links, IsChain, Row
<1> HIDE DEF size
<1>2. h[l].flink = IF q = << >> THEN Null ELSE q[1]
  BY DEF IsChain, Ends, NoLinks
<1>3. \A i \in 1..Len(q) : h[q[i]].flink = IF i = Len(q) THEN Null ELSE q[i + 1]
  <2> SUFFICES ASSUME NEW i \in 1..Len(q)
               PROVE  h[q[i]].flink = IF i = Len(q) THEN Null ELSE q[i + 1]
    OBVIOUS
  <2> DEFINE fl == IF i = Len(q) THEN Null ELSE q[i + 1]
             bl == IF i = 1 THEN Null ELSE q[i - 1]
  <2>1. h[q[i]] = [flink |-> fl, blink |-> bl]
    BY DEF IsChain, Linked
  <2> HIDE DEF fl, bl
  <2>2. h[q[i]].flink = fl
    BY <2>1
  <2> QED BY <2>2 DEF fl
<1>4. q = << >> <=> Len(q) = 0
  BY <1>1
<1> DEFINE next(at, i) == IF i = 1 THEN h[l].flink
                          ELSE IF at[i - 1] = Null THEN Null ELSE h[at[i - 1]].flink
<1>5. \A i \in 1..size : f[i] = next(f, i)
  <2> SUFFICES ASSUME NEW i \in 1..size PROVE f[i] = next(f, i)
    OBVIOUS
  <2>1. CASE i = 1
    BY <2>1, <1>1, <1>2, <1>4
  <2>2. CASE i # 1 /\ i <= Len(q)
    BY <2>2, <1>1, <1>3
  <2>3. CASE i # 1 /\ i = Len(q) + 1
    BY <2>3, <1>1, <1>3
  <2>4. CASE i # 1 /\ i > Len(q) + 1
    BY <2>4, <1>1
  <2> QED BY <2>1, <2>2, <2>3, <2>4, <1>1
<1>6. f = Walk(h, l, f)
  BY <1>5, <1>1 DEF Walk, size
<1>7. PICK at : /\ at = Walk(h, l, at)
                /\ Chain(h, l) = [i \in 1..Cardinality({ j \in 1..Cardinality(DOMAIN h) :
                                                            at[j] # Null }) |-> at[i]]
  <2> HIDE DEF f
  <2> QED BY ZenonT(60), <1>6, ChainWalks
<1>7a. Chain(h, l) = [i \in 1..Cardinality({ j \in 1..size : at[j] # Null }) |-> at[i]]
  BY <1>7, <1>1 DEF size
<1>8. \A i \in 1..size : at[i] = next(at, i)
  BY <1>7, <1>1 DEF Walk, size
<1>9. \A i \in 1..size : at[i] = f[i]
  <2> DEFINE S == { j \in 0..size : j = 0 \/ at[j] = f[j] }
  <2>1. 0 \in S
    BY <1>1
  <2>2. ASSUME NEW i \in 0..size, i < size, i \in S PROVE i + 1 \in S
    <3>1. i + 1 \in 1..size /\ at[i + 1] = next(at, i + 1) /\ f[i + 1] = next(f, i + 1)
      <4> HIDE DEF f, next
      <4> QED BY <1>1, <2>2, <1>5, <1>8
    <3>2. CASE i = 0
      BY <3>1, <3>2
    <3>3. CASE i # 0
      <4>1. at[i] = f[i] /\ (i + 1) - 1 = i /\ i + 1 # 1
        BY <2>2, <3>3
      <4> HIDE DEF f
      <4> QED BY <3>1, <4>1, <1>1
    <3> QED BY <3>2, <3>3
  <2>3. 0..size \subseteq S
    <3> HIDE DEF S
    <3> QED BY <1>1, <2>1, <2>2, Induct
  <2> SUFFICES ASSUME NEW i \in 1..size PROVE at[i] = f[i]
    OBVIOUS
  <2>4. i \in 0..size /\ i # 0
    BY <1>1
  <2>5. i \in S
    <3> HIDE DEF S
    <3> QED BY <2>3, <2>4
  <2> HIDE DEF f
  <2> QED BY <2>4, <2>5
<1>10. { j \in 1..size : at[j] # Null } = 1..Len(q)
  BY <1>9, <1>1
<1>11. Cardinality(1..Len(q)) = Len(q)
  BY <1>1, Counted
<1>12. Chain(h, l) = [i \in 1..Len(q) |-> at[i]]
  BY <1>7a, <1>10, <1>11
<1>13. \A i \in 1..Len(q) : at[i] = q[i]
  BY <1>9, <1>1
<1>14. q = [i \in 1..Len(q) |-> q[i]]
  BY <1>1
<1> HIDE DEF f
<1> QED BY <1>12, <1>13, <1>14

-----------------------------------------------------------------------------
(* The macros.                                                             *)

In(q) == { q[i] : i \in 1..Len(q) }

\* The links of the others are left alone.
Spares(h, g, l, bs) == \A n \in Entry : n # l /\ n \notin bs => g[n] = h[n]

\* q without its place j.
Cut(q, j) == [i \in 1..Len(q) - 1 |-> IF i < j THEN q[i] ELSE q[i + 1]]

\* A row and its blocks.
LEMMA InRow ==
    ASSUME NEW q \in Row
    PROVE  /\ q \in Seq(Block) /\ Len(q) \in Nat /\ (q = << >> <=> Len(q) = 0)
           /\ \A i \in 1..Len(q) : q[i] \in Block /\ q[i] \in In(q)
           /\ In(q) \subseteq Block
           /\ \A i, j \in 1..Len(q) : q[i] = q[j] => i = j
  BY DEF Row, In

\* A row with a block more at its end.
LEMMA AppendRow ==
    ASSUME NEW q \in Row, NEW e \in Block, e \notin In(q)
    PROVE  /\ Append(q, e) \in Row /\ Append(q, e) # << >> /\ Len(Append(q, e)) = Len(q) + 1
           /\ Append(q, e)[Len(q) + 1] = e /\ \A i \in 1..Len(q) : Append(q, e)[i] = q[i]
           /\ In(Append(q, e)) = In(q) \cup {e}
<1> DEFINE r == Append(q, e)
<1>1. /\ r \in Seq(Block) /\ r # << >> /\ Len(r) = Len(q) + 1 /\ Len(q) \in Nat
      /\ r[Len(q) + 1] = e /\ \A i \in 1..Len(q) : r[i] = q[i]
  BY InRow
<1> HIDE DEF r
<1>2. \A i \in 1..Len(r) : i \in 1..Len(q) \/ i = Len(q) + 1
  BY <1>1
<1>3. \A i, j \in 1..Len(r) : r[i] = r[j] => i = j
  BY <1>1, <1>2, InRow
<1>4. In(r) \subseteq In(q) \cup {e}
  BY <1>1, <1>2 DEF In
<1>5. In(q) \subseteq In(r)
  <2> SUFFICES ASSUME NEW i \in 1..Len(q) PROVE q[i] \in In(r)
    BY DEF In
  <2>1. i \in 1..Len(r) /\ r[i] = q[i]
    BY <1>1
  <2> QED BY <2>1 DEF In
<1>6. e \in In(r)
  <2>1. Len(q) + 1 \in 1..Len(r)
    BY <1>1
  <2> QED BY <2>1, <1>1 DEF In
<1> QED BY ZenonT(60), <1>1, <1>3, <1>4, <1>5, <1>6 DEF Row, r

\* QueuePutTail, entry by entry.
LEMMA PutTailLinks ==
    ASSUME NEW h \in Links, NEW l \in List, NEW q, IsChain(h, l, q),
           NEW e \in Block, e \notin In(q)
    PROVE  LET g == QueuePutTail(h, l, e)
           IN  /\ g \in Links
               /\ g[l] = [flink |-> IF q = << >> THEN e ELSE q[1], blink |-> e]
               /\ g[e] = [flink |-> Null, blink |-> IF q = << >> THEN Null ELSE q[Len(q)]]
               /\ q # << >> => g[q[Len(q)]] = [flink |-> e, blink |-> h[q[Len(q)]].blink]
               /\ \A n \in Entry : n # l /\ n # e /\ (q # << >> => n # q[Len(q)]) => g[n] = h[n]
<1>1. q \in Row /\ l \in Entry /\ e \in Entry /\ l # e
  BY Entries DEF IsChain
<1>2. DOMAIN h = Entry /\ h[l].flink \in Block \cup {Null} /\ \A n \in Entry : h[n].blink \in Block \cup {Null}
  BY <1>1 DEF Links
<1>3. CASE q = << >>
  <2>1. h[l].blink = Null
    BY <1>3 DEF IsChain, Ends, NoLinks
  <2>2. QueuePutTail(h, l, e) = [h EXCEPT ![l] = [flink |-> e, blink |-> e], ![e] = NoLinks]
    BY <2>1 DEF QueuePutTail, PutBehind
  <2> QED BY <2>2, <1>1, <1>2, <1>3 DEF Links, NoLinks
<1>4. CASE q # << >>
  <2> DEFINE last == q[Len(q)]
             g == [h EXCEPT ![last].flink = e, ![e].blink = last, ![l].blink = e, ![e].flink = Null]
  <2>1. Len(q) \in 1..Len(q) /\ last \in Block /\ last \in In(q)
    BY <1>1, <1>4, InRow
  <2>2. h[l].blink = last /\ h[l].flink = q[1] /\ last # Null
    BY <1>4, <2>1, Entries DEF IsChain, Ends
  <2>3. QueuePutTail(h, l, e) = g
    BY <2>2 DEF QueuePutTail, PutBehind
  <2>4. last \in Entry /\ last # e /\ last # l
    BY <2>1, Entries
  <2> HIDE DEF last
  <2>5. g[l] = [h[l] EXCEPT !.blink = e] /\ g[last] = [h[last] EXCEPT !.flink = e]
    BY <2>4, <1>1, <1>2
  <2>6. g[e] = [[h[e] EXCEPT !.blink = last] EXCEPT !.flink = Null]
    BY <2>4, <1>1, <1>2
  <2>7. \A n \in Entry : n # l /\ n # e /\ n # last => g[n] = h[n]
    BY <1>1, <1>2
  <2>8. DOMAIN g = Entry
    BY <1>2
  <2> HIDE DEF g
  <2>9. \A n \in Entry : h[n] \in [flink : Block \cup {Null}, blink : Block \cup {Null}]
    BY DEF Links
  <2>10. /\ g[l] = [flink |-> h[l].flink, blink |-> e] /\ g[last] = [flink |-> e, blink |-> h[last].blink]
         /\ g[e] = [flink |-> Null, blink |-> last]
    BY ZenonT(60), <2>5, <2>6, <2>9, <2>4, <1>1
  <2>11. \A n \in Entry : g[n] \in [flink : Block \cup {Null}, blink : Block \cup {Null}]
    BY <2>10, <2>7, <2>9, <2>1, <1>1, <1>2, <2>4 DEF last
  <2>12. g \in Links
    <3>1. g = [n \in Entry |-> g[n]]
      BY <2>3, <2>8 DEF g
    <3> QED BY <3>1, <2>11 DEF Links
  <2> QED BY <2>3, <2>7, <2>10, <2>12, <2>2, <1>4 DEF last
<1> QED BY <1>3, <1>4

\* At the tail of a list.
LEMMA PutTail ==
    ASSUME NEW h \in Links, NEW l \in List, NEW q, IsChain(h, l, q),
           NEW e \in Block, e \notin In(q)
    PROVE  LET g == QueuePutTail(h, l, e)
           IN  /\ g \in Links
               /\ IsChain(g, l, Append(q, e))
               /\ In(Append(q, e)) = In(q) \cup {e}
               /\ Spares(h, g, l, In(q) \cup {e})
<1> DEFINE g == QueuePutTail(h, l, e)
           r == Append(q, e)
<1>1. q \in Row /\ Ends(h, l, q) /\ Linked(h, q)
  BY DEF IsChain
<1>2. /\ r \in Row /\ r # << >> /\ Len(r) = Len(q) + 1 /\ Len(q) \in Nat
      /\ r[Len(q) + 1] = e /\ \A i \in 1..Len(q) : r[i] = q[i] /\ q[i] \in In(q) /\ q[i] \in Entry
      /\ In(r) = In(q) \cup {e} /\ (q = << >> <=> Len(q) = 0)
      /\ \A i, j \in 1..Len(q) : q[i] = q[j] => i = j
  BY <1>1, AppendRow, InRow, Entries
<1>3. /\ g \in Links
      /\ g[l] = [flink |-> IF q = << >> THEN e ELSE q[1], blink |-> e]
      /\ g[e] = [flink |-> Null, blink |-> IF q = << >> THEN Null ELSE q[Len(q)]]
      /\ q # << >> => g[q[Len(q)]] = [flink |-> e, blink |-> h[q[Len(q)]].blink]
      /\ \A n \in Entry : n # l /\ n # e /\ (q # << >> => n # q[Len(q)]) => g[n] = h[n]
  BY PutTailLinks
<1> HIDE DEF g, r
<1>4. Ends(g, l, r)
  BY <1>2, <1>3 DEF Ends
<1>5. ASSUME NEW i \in 1..Len(r)
      PROVE  g[r[i]] = [flink |-> IF i = Len(r) THEN Null ELSE r[i + 1],
                        blink |-> IF i = 1 THEN Null ELSE r[i - 1]]
  <2>1. CASE i = Len(q) + 1
    BY <2>1, <1>2, <1>3
  <2>2. CASE i = Len(q)
    <3>1. h[q[i]] = [flink |-> IF i = Len(q) THEN Null ELSE q[i + 1],
                     blink |-> IF i = 1 THEN Null ELSE q[i - 1]]
      BY <2>2, <1>1, <1>5 DEF Linked
    <3>2. h[q[i]].blink = IF i = 1 THEN Null ELSE q[i - 1]
      BY <3>1
    <3>3. g[q[i]] = [flink |-> e, blink |-> h[q[i]].blink] /\ r[i] = q[i] /\ r[i + 1] = e
          /\ i # Len(r) /\ (i # 1 => r[i - 1] = q[i - 1])
      BY <2>2, <1>2, <1>3, <1>5
    <3> QED BY <3>2, <3>3
  <2>3. CASE i < Len(q)
    <3>1. h[q[i]] = [flink |-> IF i = Len(q) THEN Null ELSE q[i + 1],
                     blink |-> IF i = 1 THEN Null ELSE q[i - 1]]
      BY <2>3, <1>1, <1>2, <1>5 DEF Linked
    <3>2. q[i] # l /\ q[i] # e /\ q[i] # q[Len(q)] /\ q[i] \in Entry
      BY <2>3, <1>1, <1>2, <1>5, Entries, InRow
    <3>3. g[q[i]] = h[q[i]]
      BY <3>2, <1>3
    <3>4. r[i] = q[i] /\ r[i + 1] = q[i + 1] /\ i # Len(r) /\ i # Len(q) /\ (i # 1 => r[i - 1] = q[i - 1])
      BY <2>3, <1>2, <1>5
    <3> QED BY <3>1, <3>3, <3>4
  <2> QED BY <2>1, <2>2, <2>3, <1>2, <1>5
<1>6. Spares(h, g, l, In(q) \cup {e})
  <2>1. q # << >> => q[Len(q)] \in In(q)
    BY <1>2
  <2> QED BY <2>1, <1>3 DEF Spares
<1>7. IsChain(g, l, r)
  BY <1>2, <1>4, <1>5 DEF IsChain, Linked
<1> QED BY <1>2, <1>3, <1>6, <1>7 DEF g, r

\* A list whose entries are spared is as it was.
LEMMA Spared ==
    ASSUME NEW h, NEW g, NEW l \in List, NEW bs \in SUBSET Block, Spares(h, g, l, bs),
           NEW k \in List, k # l, NEW q, IsChain(h, k, q), In(q) \cap bs = {}
    PROVE  IsChain(g, k, q)
<1>1. q \in Row /\ k \in Entry /\ k \notin bs /\ g[k] = h[k]
  BY Entries DEF Spares, IsChain
<1>2. \A i \in 1..Len(q) : g[q[i]] = h[q[i]]
  BY <1>1, Entries, InRow DEF Spares
<1> QED BY <1>1, <1>2 DEF IsChain, Ends, Linked

\* A row without its entry j.
LEMMA SeqCut ==
    ASSUME NEW q \in Row, NEW j \in 1..Len(q)
    PROVE  /\ Cut(q, j) \in Row /\ Len(Cut(q, j)) = Len(q) - 1
           /\ \A i \in 1..Len(q) - 1 : Cut(q, j)[i] = IF i < j THEN q[i] ELSE q[i + 1]
           /\ In(Cut(q, j)) = In(q) \ {q[j]}
           /\ Cut(q, j) = << >> <=> Len(q) = 1
<1> DEFINE r == Cut(q, j)
<1>1. /\ q \in Seq(Block) /\ Len(q) \in Nat /\ j \in 1..Len(q) /\ Len(q) - 1 \in Nat
      /\ \A i, k \in 1..Len(q) : q[i] = q[k] => i = k
      /\ \A i \in 1..Len(q) : q[i] \in Block
  BY InRow
<1>2. r \in [1..Len(q) - 1 -> Block]
  BY <1>1 DEF Cut
<1>3. r \in Seq(Block) /\ Len(r) = Len(q) - 1
  BY <1>1, <1>2
<1>4. \A i \in 1..Len(q) - 1 : r[i] = IF i < j THEN q[i] ELSE q[i + 1]
  BY DEF Cut
<1> HIDE DEF r
<1>5. \A i, k \in 1..Len(r) : r[i] = r[k] => i = k
  BY <1>1, <1>3, <1>4
<1>6. In(r) \subseteq In(q) \ {q[j]}
  <2> SUFFICES ASSUME NEW i \in 1..Len(r) PROVE r[i] \in In(q) /\ r[i] # q[j]
    BY DEF In
  <2>1. CASE i < j
    BY <2>1, <1>1, <1>3, <1>4 DEF In
  <2>2. CASE ~(i < j)
    BY <2>2, <1>1, <1>3, <1>4 DEF In
  <2> QED BY <2>1, <2>2
<1>7. ASSUME NEW i \in 1..Len(q), i # j PROVE q[i] \in In(r)
  <2>1. CASE i < j
    <3>1. i \in 1..Len(r) /\ r[i] = q[i]
      BY <2>1, <1>1, <1>3, <1>4
    <3> QED BY <3>1 DEF In
  <2>2. CASE i > j
    <3>1. i - 1 \in 1..Len(r) /\ r[i - 1] = q[i]
      BY <2>2, <1>1, <1>3, <1>4
    <3> QED BY <3>1 DEF In
  <2> QED BY <2>1, <2>2, <1>1, <1>7
<1>8. In(r) = In(q) \ {q[j]}
  BY <1>6, <1>7 DEF In
<1>9. r = << >> <=> Len(q) = 1
  BY <1>1, <1>3
<1> QED BY <1>3, <1>4, <1>5, <1>8, <1>9 DEF Row, r

\* What is left in the links when the block at place j is taken out.
TakenOut(h, l, q, j, g) ==
    /\ g \in Links
    /\ g[l] = [flink |-> IF j = 1 THEN (IF Len(q) = 1 THEN Null ELSE q[2]) ELSE q[1],
               blink |-> IF j = Len(q) THEN (IF j = 1 THEN Null ELSE q[Len(q) - 1]) ELSE q[Len(q)]]
    /\ j > 1 => g[q[j - 1]] = [flink |-> IF j = Len(q) THEN Null ELSE q[j + 1],
                               blink |-> h[q[j - 1]].blink]
    /\ j < Len(q) => g[q[j + 1]] = [flink |-> h[q[j + 1]].flink,
                                    blink |-> IF j = 1 THEN Null ELSE q[j - 1]]
    /\ \A n \in Entry : /\ n # l /\ n # q[j]
                        /\ j > 1 => n # q[j - 1]
                        /\ j < Len(q) => n # q[j + 1]
                        => g[n] = h[n]

\* The links from which entry j has been taken out read as the row without it.
LEMMA TakeOut ==
    ASSUME NEW h \in Links, NEW l \in List, NEW q, IsChain(h, l, q), NEW j \in 1..Len(q),
           NEW g, TakenOut(h, l, q, j, g)
    PROVE  /\ IsChain(g, l, Cut(q, j))
           /\ In(Cut(q, j)) = In(q) \ {q[j]}
           /\ Spares(h, g, l, In(q))
<1> DEFINE r == Cut(q, j)
<1>1. /\ q \in Row /\ q \in Seq(Block) /\ Len(q) \in Nat /\ j \in 1..Len(q)
      /\ \A i, k \in 1..Len(q) : q[i] = q[k] => i = k
      /\ \A i \in 1..Len(q) : q[i] \in In(q) /\ q[i] \in Entry /\ q[i] # l
  BY InRow, Entries DEF IsChain
<1>2. /\ r \in Row /\ Len(r) = Len(q) - 1
      /\ \A i \in 1..Len(q) - 1 : r[i] = IF i < j THEN q[i] ELSE q[i + 1]
      /\ In(r) = In(q) \ {q[j]} /\ (r = << >> <=> Len(q) = 1)
  BY <1>1, SeqCut
<1>3. \A i \in 1..Len(q) :
        /\ h[q[i]].flink = IF i = Len(q) THEN Null ELSE q[i + 1]
        /\ h[q[i]].blink = IF i = 1 THEN Null ELSE q[i - 1]
        /\ h[q[i]] = [flink |-> h[q[i]].flink, blink |-> h[q[i]].blink]
  <2> SUFFICES ASSUME NEW i \in 1..Len(q)
               PROVE  /\ h[q[i]].flink = IF i = Len(q) THEN Null ELSE q[i + 1]
                      /\ h[q[i]].blink = IF i = 1 THEN Null ELSE q[i - 1]
                      /\ h[q[i]] = [flink |-> h[q[i]].flink, blink |-> h[q[i]].blink]
    OBVIOUS
  <2> DEFINE fl == IF i = Len(q) THEN Null ELSE q[i + 1]
             bl == IF i = 1 THEN Null ELSE q[i - 1]
  <2>1. h[q[i]] = [flink |-> fl, blink |-> bl]
    BY DEF IsChain, Linked
  <2> HIDE DEF fl, bl
  <2>2. h[q[i]].flink = fl /\ h[q[i]].blink = bl
    BY <2>1
  <2> QED BY <2>1, <2>2 DEF fl, bl
<1> HIDE DEF r
<1>4. Ends(g, l, r)
  <2>1. CASE Len(q) = 1
    <3>1. j = 1
      BY <2>1, <1>1
    <3> QED BY <2>1, <3>1, <1>2 DEF TakenOut, Ends, NoLinks
  <2>2. CASE Len(q) # 1
    <3>1. /\ r[1] = IF j = 1 THEN q[2] ELSE q[1]
          /\ r[Len(r)] = IF j = Len(q) THEN q[Len(q) - 1] ELSE q[Len(q)]
          /\ r # << >> /\ ~(j = Len(q) /\ j = 1)
      BY <2>2, <1>1, <1>2
    <3> QED BY <2>2, <3>1 DEF TakenOut, Ends
  <2> QED BY <2>1, <2>2
<1>5. ASSUME NEW i \in 1..Len(r)
      PROVE  g[r[i]] = [flink |-> IF i = Len(r) THEN Null ELSE r[i + 1],
                        blink |-> IF i = 1 THEN Null ELSE r[i - 1]]
  <2> DEFINE k == IF i < j THEN i ELSE i + 1
  <2>1. /\ k \in 1..Len(q) /\ k # j /\ r[i] = q[k] /\ i \in 1..Len(q) - 1
    BY <1>1, <1>2, <1>5
  <2>2. CASE i = j - 1
    <3>1. g[q[i]] = [flink |-> IF j = Len(q) THEN Null ELSE q[j + 1], blink |-> h[q[i]].blink]
      BY <2>1, <2>2, <1>1 DEF TakenOut
    <3>2. /\ i = Len(r) <=> j = Len(q)
          /\ i # Len(r) => r[i + 1] = q[j + 1]
          /\ i # 1 => r[i - 1] = q[i - 1]
          /\ k = i
      BY <2>1, <2>2, <1>1, <1>2
    <3> QED BY ZenonT(60), <3>1, <3>2, <2>1, <1>3
  <2>3. CASE i = j
    <3>1. g[q[i + 1]] = [flink |-> h[q[i + 1]].flink, blink |-> IF j = 1 THEN Null ELSE q[j - 1]]
      BY <2>1, <2>3, <1>1 DEF TakenOut
    <3>2. /\ i = Len(r) <=> i + 1 = Len(q)
          /\ i # Len(r) => r[i + 1] = q[(i + 1) + 1]
          /\ i # 1 => r[i - 1] = q[j - 1]
          /\ k = i + 1
      BY <2>1, <2>3, <1>1, <1>2
    <3> QED BY <3>1, <3>2, <2>1, <2>3, <1>3
  <2>4. CASE i # j /\ i # j - 1
    <3>1. q[k] # l /\ q[k] # q[j] /\ (j > 1 => q[k] # q[j - 1]) /\ (j < Len(q) => q[k] # q[j + 1])
          /\ q[k] \in Entry
      BY SMTT(60), <2>1, <2>4, <1>1
    <3>2. g[q[k]] = h[q[k]]
      <4> HIDE DEF k
      <4> QED BY <3>1 DEF TakenOut
    <3>3. /\ i = Len(r) <=> k = Len(q)
          /\ i # Len(r) => r[i + 1] = q[k + 1]
          /\ i = 1 <=> k = 1
          /\ i # 1 => r[i - 1] = q[k - 1]
      BY <2>1, <2>4, <1>1, <1>2
    <3> HIDE DEF k
    <3> QED BY ZenonT(60), <3>2, <3>3, <2>1, <1>3
  <2> QED BY <2>2, <2>3, <2>4
<1>6. Spares(h, g, l, In(q))
  <2>1. /\ q[j] \in In(q) /\ (j > 1 => q[j - 1] \in In(q)) /\ (j < Len(q) => q[j + 1] \in In(q))
    BY <1>1
  <2> QED BY <2>1 DEF Spares, TakenOut
<1>7. IsChain(g, l, r)
  BY <1>2, <1>4, <1>5 DEF IsChain, Linked
<1> QED BY <1>2, <1>6, <1>7 DEF r

\* What the places of a list hold.
LEMMA Places ==
    ASSUME NEW h \in Links, NEW l \in List, NEW q, IsChain(h, l, q)
    PROVE  /\ \A i \in 1..Len(q) :
                 /\ h[q[i]].flink = IF i = Len(q) THEN Null ELSE q[i + 1]
                 /\ h[q[i]].blink = IF i = 1 THEN Null ELSE q[i - 1]
           /\ h[l].flink = IF q = << >> THEN Null ELSE q[1]
           /\ h[l].blink = IF q = << >> THEN Null ELSE q[Len(q)]
<1>1. ASSUME NEW i \in 1..Len(q)
      PROVE  /\ h[q[i]].flink = IF i = Len(q) THEN Null ELSE q[i + 1]
             /\ h[q[i]].blink = IF i = 1 THEN Null ELSE q[i - 1]
  <2> DEFINE fl == IF i = Len(q) THEN Null ELSE q[i + 1]
             bl == IF i = 1 THEN Null ELSE q[i - 1]
  <2>1. h[q[i]] = [flink |-> fl, blink |-> bl]
    BY DEF IsChain, Linked
  <2> HIDE DEF fl, bl
  <2>2. h[q[i]].flink = fl /\ h[q[i]].blink = bl
    BY <2>1
  <2> QED BY <2>2 DEF fl, bl
<1>2. /\ h[l].flink = IF q = << >> THEN Null ELSE q[1]
      /\ h[l].blink = IF q = << >> THEN Null ELSE q[Len(q)]
  BY DEF IsChain, Ends, NoLinks
<1> QED BY <1>1, <1>2

\* To be well typed, entry by entry.
LEMMA TypedLinks ==
    ASSUME NEW g, DOMAIN g = Entry, g = [n \in Entry |-> g[n]],
           \A n \in Entry : g[n] \in [flink : Block \cup {Null}, blink : Block \cup {Null}]
    PROVE  g \in Links
  BY DEF Links

\* QueueRemoveHead takes the first entry out.
LEMMA RemoveHeadLinks ==
    ASSUME NEW h \in Links, NEW l \in List, NEW q, IsChain(h, l, q), q # << >>
    PROVE  TakenOut(h, l, q, 1, QueueRemoveHead(h, l))
<1>1. /\ q \in Row /\ Len(q) \in Nat /\ 1 \in 1..Len(q) /\ l \in Entry
      /\ q[1] \in Block /\ q[1] \in Entry /\ q[1] # Null /\ q[1] # l
  BY InRow, Entries DEF IsChain
<1>2. DOMAIN h = Entry /\ \A n \in Entry : h[n] \in [flink : Block \cup {Null}, blink : Block \cup {Null}]
  BY DEF Links
<1>3. /\ h[l].flink = q[1] /\ h[q[1]].flink = IF 1 = Len(q) THEN Null ELSE q[2]
      /\ h[l].blink = q[Len(q)]
  <2>1. h[q[1]].flink = IF 1 = Len(q) THEN Null ELSE q[1 + 1]
    <3>1. \A i \in 1..Len(q) : h[q[i]].flink = IF i = Len(q) THEN Null ELSE q[i + 1]
      BY Places
    <3> QED BY <3>1, <1>1
  <2>2. 1 + 1 = 2
    OBVIOUS
  <2>3. h[l].flink = q[1] /\ h[l].blink = q[Len(q)]
    BY Places
  <2> QED BY <2>1, <2>2, <2>3
<1>4. CASE Len(q) = 1
  <2> DEFINE g == [h EXCEPT ![l] = NoLinks, ![q[1]] = NoLinks]
  <2>1. QueueRemoveHead(h, l) = g
    BY <1>1, <1>3, <1>4 DEF QueueRemoveHead
  <2>2. g \in Links
    BY <1>1, <1>2 DEF Links, NoLinks
  <2>3. g[l] = NoLinks /\ g[q[1]] = NoLinks /\ \A n \in Entry : n # l /\ n # q[1] => g[n] = h[n]
    BY <1>1, <1>2
  <2> HIDE DEF g
  <2> QED BY <2>1, <2>2, <2>3, <1>4 DEF TakenOut, NoLinks
<1>5. CASE Len(q) # 1
  <2> DEFINE g == [h EXCEPT ![l].flink = q[2], ![q[2]].blink = Null, ![q[1]] = NoLinks]
  <2>1. /\ 2 \in 1..Len(q) /\ q[2] \in Block /\ q[2] \in Entry /\ q[2] # Null /\ q[2] # l /\ q[2] # q[1]
    <3>1. 2 \in 1..Len(q)
      <4>1. Len(q) \in Nat /\ Len(q) # 0 /\ Len(q) # 1
        BY <1>1, <1>5
      <4> QED BY <4>1
    <3> QED BY <3>1, <1>1, InRow, Entries
  <2>2. QueueRemoveHead(h, l) = g
    BY <1>1, <1>3, <1>5, <2>1 DEF QueueRemoveHead
  <2>3. /\ g[l] = [h[l] EXCEPT !.flink = q[2]] /\ g[q[2]] = [h[q[2]] EXCEPT !.blink = Null]
        /\ g[q[1]] = NoLinks /\ \A n \in Entry : n # l /\ n # q[1] /\ n # q[2] => g[n] = h[n]
        /\ DOMAIN g = Entry /\ g = [n \in Entry |-> g[n]]
    BY <1>1, <1>2, <2>1
  <2> HIDE DEF g
  <2>4. /\ g[l] = [flink |-> q[2], blink |-> h[l].blink]
        /\ g[q[2]] = [flink |-> h[q[2]].flink, blink |-> Null]
    BY <2>3, <1>1, <1>2, <2>1
  <2>5. \A n \in Entry : g[n] \in [flink : Block \cup {Null}, blink : Block \cup {Null}]
    BY <2>3, <2>4, <1>1, <1>2, <2>1 DEF NoLinks
  <2>6. g \in Links
    BY <2>3, <2>5, TypedLinks
  <2>7. 1 # Len(q) /\ ~(1 > 1) /\ 1 + 1 = 2 /\ 1 < Len(q)
    <3>1. Len(q) \in Nat /\ Len(q) # 0 /\ Len(q) # 1
      BY <1>1, <1>5
    <3> QED BY <3>1
  <2> QED BY <2>2, <2>3, <2>4, <2>6, <2>7, <1>3, <1>5 DEF TakenOut
<1> QED BY <1>4, <1>5

\* QueueRemoveTail takes the last entry out.
LEMMA RemoveTailLinks ==
    ASSUME NEW h \in Links, NEW l \in List, NEW q, IsChain(h, l, q), q # << >>
    PROVE  TakenOut(h, l, q, Len(q), QueueRemoveTail(h, l))
<1> DEFINE m == Len(q)
<1>1. /\ q \in Row /\ m \in Nat /\ m \in 1..m /\ l \in Entry
      /\ q[m] \in Block /\ q[m] \in Entry /\ q[m] # Null /\ q[m] # l
  BY InRow, Entries DEF IsChain
<1>2. DOMAIN h = Entry /\ \A n \in Entry : h[n] \in [flink : Block \cup {Null}, blink : Block \cup {Null}]
  BY DEF Links
<1>3. /\ h[l].blink = q[m] /\ h[q[m]].blink = IF m = 1 THEN Null ELSE q[m - 1]
      /\ h[l].flink = q[1]
  <2>1. h[q[m]].blink = IF m = 1 THEN Null ELSE q[m - 1]
    <3> HIDE DEF m
    <3>1. \A i \in 1..m : h[q[i]].blink = IF i = 1 THEN Null ELSE q[i - 1]
      BY Places DEF m
    <3> QED BY <3>1, <1>1
  <2>2. h[l].flink = q[1] /\ h[l].blink = q[m]
    BY Places
  <2> QED BY <2>1, <2>2
<1>4. CASE m = 1
  <2> DEFINE g == [h EXCEPT ![l] = NoLinks, ![q[m]] = NoLinks]
  <2>1. QueueRemoveTail(h, l) = g
    BY <1>1, <1>3, <1>4 DEF QueueRemoveTail
  <2>2. g \in Links
    BY <1>1, <1>2 DEF Links, NoLinks
  <2>3. g[l] = NoLinks /\ g[q[m]] = NoLinks /\ \A n \in Entry : n # l /\ n # q[m] => g[n] = h[n]
    BY <1>1, <1>2
  <2> HIDE DEF g
  <2> QED BY <2>1, <2>2, <2>3, <1>4 DEF TakenOut, NoLinks
<1>5. CASE m # 1
  <2> DEFINE prior == q[m - 1]
             g == [h EXCEPT ![l].blink = prior, ![prior].flink = Null, ![q[m]] = NoLinks]
  <2>1. /\ prior \in Block /\ prior \in Entry /\ prior # Null /\ prior # l /\ prior # q[m]
    <3>1. m - 1 \in 1..m /\ m - 1 # m
      BY <1>1, <1>5
    <3> QED BY <3>1, <1>1, InRow, Entries
  <2> HIDE DEF m
  <2>2. QueueRemoveTail(h, l) = g
    BY <1>1, <1>3, <1>5, <2>1 DEF QueueRemoveTail
  <2> HIDE DEF prior
  <2>3. /\ g[l] = [h[l] EXCEPT !.blink = prior] /\ g[prior] = [h[prior] EXCEPT !.flink = Null]
        /\ g[q[m]] = NoLinks /\ \A n \in Entry : n # l /\ n # q[m] /\ n # prior => g[n] = h[n]
        /\ DOMAIN g = Entry /\ g = [n \in Entry |-> g[n]]
    BY <1>1, <1>2, <2>1
  <2> HIDE DEF g
  <2>4. /\ g[l] = [flink |-> h[l].flink, blink |-> prior]
        /\ g[prior] = [flink |-> Null, blink |-> h[prior].blink]
    BY <2>3, <1>1, <1>2, <2>1
  <2>5. \A n \in Entry : g[n] \in [flink : Block \cup {Null}, blink : Block \cup {Null}]
    BY <2>3, <2>4, <1>1, <1>2, <2>1 DEF NoLinks
  <2>6. g \in Links
    BY <2>3, <2>5, TypedLinks
  <2>7. m > 1 /\ ~(m < m)
    BY <1>1, <1>5
  <2>8. TakenOut(h, l, q, m, g)
    BY <2>3, <2>4, <2>6, <2>7, <1>3, <1>5 DEF TakenOut, m, prior
  <2> QED BY <2>2, <2>8 DEF m
<1> QED BY <1>4, <1>5

\* QueueRemoveEle, whichever of its branches it takes, takes the entry out that it is
\* given.
LEMMA RemoveEleLinks ==
    ASSUME NEW h \in Links, NEW l \in List, NEW q, IsChain(h, l, q), NEW j \in 1..Len(q)
    PROVE  TakenOut(h, l, q, j, QueueRemoveEle(h, l, q[j]))
<1>1. /\ q \in Row /\ Len(q) \in Nat /\ l \in Entry /\ q # << >> /\ j \in Nat
      /\ \A i \in 1..Len(q) : q[i] \in Block /\ q[i] \in Entry /\ q[i] # Null /\ q[i] # l
      /\ \A i, k \in 1..Len(q) : q[i] = q[k] => i = k
      /\ 1 \in 1..Len(q) /\ Len(q) \in 1..Len(q)
  BY InRow, Entries DEF IsChain
<1>2. DOMAIN h = Entry /\ \A n \in Entry : h[n] \in [flink : Block \cup {Null}, blink : Block \cup {Null}]
  BY DEF Links
<1>3. /\ h[l].flink = q[1] /\ h[l].blink = q[Len(q)]
      /\ h[q[j]].flink = IF j = Len(q) THEN Null ELSE q[j + 1]
      /\ h[q[j]].blink = IF j = 1 THEN Null ELSE q[j - 1]
  BY <1>1, Places
<1>4. CASE j = 1
  <2>1. QueueRemoveEle(h, l, q[j]) = QueueRemoveHead(h, l)
    BY <1>3, <1>4 DEF QueueRemoveEle
  <2> QED BY <2>1, <1>1, <1>4, RemoveHeadLinks
<1>5. CASE j # 1 /\ j = Len(q)
  <2>1. q[1] # q[j]
    BY <1>1, <1>5
  <2>2. QueueRemoveEle(h, l, q[j]) = QueueRemoveTail(h, l)
    BY <2>1, <1>3, <1>5 DEF QueueRemoveEle
  <2> QED BY <2>2, <1>1, <1>5, RemoveTailLinks
<1>6. CASE j # 1 /\ j # Len(q)
  <2> DEFINE next == q[j + 1]
             prior == q[j - 1]
             e == q[j]
             g == [h EXCEPT ![next].blink = prior, ![prior].flink = next, ![e] = NoLinks]
  <2>1. j + 1 \in 1..Len(q) /\ j - 1 \in 1..Len(q) /\ j - 1 # j + 1 /\ j # j + 1 /\ j # j - 1
    BY <1>1, <1>6
  <2>2. /\ next \in Block /\ next \in Entry /\ next # Null /\ next # l
        /\ prior \in Block /\ prior \in Entry /\ prior # Null /\ prior # l
        /\ next # e /\ prior # e /\ prior # next /\ e \in Entry
    BY <1>1, <2>1
  <2>3. q[1] # e /\ q[Len(q)] # e
    BY <1>1, <1>6
  <2>4. h[e].flink = next /\ h[e].blink = prior
    BY <1>3, <1>6
  <2> HIDE DEF next, prior
  <2>5. QueueRemoveEle(h, l, e) = g
    BY <2>2, <2>3, <2>4, <1>3 DEF QueueRemoveEle
  <2> HIDE DEF e
  <2>6. /\ g[next] = [h[next] EXCEPT !.blink = prior] /\ g[prior] = [h[prior] EXCEPT !.flink = next]
        /\ g[e] = NoLinks /\ \A n \in Entry : n # e /\ n # next /\ n # prior => g[n] = h[n]
        /\ DOMAIN g = Entry /\ g = [n \in Entry |-> g[n]]
    BY <1>2, <2>2
  <2> HIDE DEF g
  <2>7. /\ g[next] = [flink |-> h[next].flink, blink |-> prior]
        /\ g[prior] = [flink |-> next, blink |-> h[prior].blink]
    BY <2>6, <1>2, <2>2
  <2>8. \A n \in Entry : g[n] \in [flink : Block \cup {Null}, blink : Block \cup {Null}]
    BY <2>6, <2>7, <1>2, <2>2 DEF NoLinks
  <2>9. g \in Links
    BY <2>6, <2>8, TypedLinks
  <2>10. g[l] = h[l] /\ h[l] = [flink |-> h[l].flink, blink |-> h[l].blink]
    <3>1. l # e
      BY <1>1 DEF e
    <3> QED BY <3>1, <2>2, <2>6, <1>1, <1>2
  <2>11. j > 1 /\ j < Len(q)
    BY <1>1, <1>6
  <2>12. TakenOut(h, l, q, j, g)
    BY <2>6, <2>7, <2>9, <2>10, <2>11, <1>3, <1>6 DEF TakenOut, e, next, prior
  <2> QED BY <2>5, <2>12 DEF e
<1> QED BY <1>4, <1>5, <1>6

Onto(e, q) == << e >> \o q

\* A row with a block more in front of it.
LEMMA SeqOnto ==
    ASSUME NEW q \in Row, NEW e \in Block, e \notin In(q)
    PROVE  /\ Onto(e, q) \in Row /\ Onto(e, q) # << >> /\ Len(Onto(e, q)) = Len(q) + 1
           /\ Onto(e, q)[1] = e /\ \A i \in 1..Len(q) : Onto(e, q)[i + 1] = q[i]
           /\ In(Onto(e, q)) = In(q) \cup {e}
<1> DEFINE r == Onto(e, q)
<1>1. /\ r \in Seq(Block) /\ r # << >> /\ Len(r) = Len(q) + 1 /\ Len(q) \in Nat
      /\ r[1] = e /\ \A i \in 1..Len(q) : r[i + 1] = q[i]
  BY InRow DEF Onto
<1> HIDE DEF r
<1>2. \A i \in 1..Len(r) : i # 1 => i - 1 \in 1..Len(q) /\ r[i] = q[i - 1] /\ i \in Nat
  <2> SUFFICES ASSUME NEW i \in 1..Len(r), i # 1
               PROVE  i - 1 \in 1..Len(q) /\ r[i] = q[i - 1] /\ i \in Nat
    OBVIOUS
  <2>1. i - 1 \in 1..Len(q) /\ (i - 1) + 1 = i
    BY <1>1
  <2> QED BY <2>1, <1>1
<1>3. \A i, j \in 1..Len(q) : q[i] = q[j] => i = j
  BY InRow
<1>4. \A i, j \in 1..Len(r) : r[i] = r[j] => i = j
  <2> SUFFICES ASSUME NEW i \in 1..Len(r), NEW j \in 1..Len(r), r[i] = r[j] PROVE i = j
    OBVIOUS
  <2>1. CASE i = 1 /\ j # 1
    BY <2>1, <1>1, <1>2 DEF In
  <2>2. CASE i # 1 /\ j = 1
    BY <2>2, <1>1, <1>2 DEF In
  <2>3. CASE i # 1 /\ j # 1
    <3>1. i - 1 = j - 1
      BY <2>3, <1>2, <1>3
    <3> QED BY <3>1, <2>3, <1>2
  <2> QED BY <2>1, <2>2, <2>3
<1>5. In(r) \subseteq In(q) \cup {e}
  BY <1>1, <1>2 DEF In
<1>6. In(q) \subseteq In(r)
  <2> SUFFICES ASSUME NEW i \in 1..Len(q) PROVE q[i] \in In(r)
    BY DEF In
  <2>1. i + 1 \in 1..Len(r) /\ r[i + 1] = q[i]
    BY <1>1
  <2> QED BY <2>1 DEF In
<1>7. e \in In(r)
  <2>1. 1 \in 1..Len(r)
    BY <1>1
  <2> QED BY <2>1, <1>1 DEF In
<1> QED BY <1>1, <1>4, <1>5, <1>6, <1>7 DEF Row, r

\* The links that QueuePushHead changes.
LEMMA PushHeadLinks ==
    ASSUME NEW h \in Links, NEW l \in List, NEW q, IsChain(h, l, q),
           NEW e \in Block, e \notin In(q)
    PROVE  LET g == QueuePushHead(h, l, e)
           IN  /\ g \in Links
               /\ g[l] = [flink |-> e, blink |-> IF q = << >> THEN e ELSE q[Len(q)]]
               /\ g[e] = [flink |-> IF q = << >> THEN Null ELSE q[1], blink |-> Null]
               /\ q # << >> => g[q[1]] = [flink |-> h[q[1]].flink, blink |-> e]
               /\ \A n \in Entry : n # l /\ n # e /\ (q # << >> => n # q[1]) => g[n] = h[n]
<1> DEFINE first == h[l].flink
           next == IF first = Null THEN l ELSE first
           g == [[h EXCEPT ![e].flink = first] EXCEPT ![next].blink = e, ![e].blink = Null, ![l].flink = e]
<1>1. q \in Row /\ l \in Entry /\ e \in Entry /\ l # e
  BY Entries DEF IsChain
<1>2. DOMAIN h = Entry /\ \A n \in Entry : h[n] \in [flink : Block \cup {Null}, blink : Block \cup {Null}]
  BY DEF Links
<1>3. first = (IF q = << >> THEN Null ELSE q[1]) /\ h[l].blink = IF q = << >> THEN Null ELSE q[Len(q)]
  BY Places
<1>4. q # << >> => q[1] \in Block /\ q[1] \in In(q) /\ q[1] # Null
  <2>1. q # << >> => 1 \in 1..Len(q)
    BY <1>1, InRow
  <2> QED BY <2>1, <1>1, InRow, Entries
<1>5. QueuePushHead(h, l, e) = g
  BY DEF QueuePushHead
<1>6. first \in Block \cup {Null}
  BY <1>1, <1>2
<1>7. next \in Entry /\ next # e /\ next = IF q = << >> THEN l ELSE q[1]
  BY <1>1, <1>3, <1>4, Entries
<1>8. q # << >> => next # l
  BY <1>3, <1>4, Entries
<1> HIDE DEF first, next
<1>9. /\ g[e] = [[h[e] EXCEPT !.flink = first] EXCEPT !.blink = Null]
      /\ next # l => g[next] = [h[next] EXCEPT !.blink = e] /\ g[l] = [h[l] EXCEPT !.flink = e]
      /\ next = l => g[l] = [[h[l] EXCEPT !.blink = e] EXCEPT !.flink = e]
      /\ \A n \in Entry : n # l /\ n # e /\ n # next => g[n] = h[n]
      /\ DOMAIN g = Entry /\ g = [n \in Entry |-> g[n]]
  BY <1>1, <1>2, <1>7
<1> HIDE DEF g
<1>10. /\ g[e] = [flink |-> first, blink |-> Null]
       /\ next # l => g[next] = [flink |-> h[next].flink, blink |-> e] /\ g[l] = [flink |-> e, blink |-> h[l].blink]
       /\ next = l => g[l] = [flink |-> e, blink |-> e]
  BY <1>1, <1>2, <1>7, <1>9
<1>11. \A n \in Entry : g[n] \in [flink : Block \cup {Null}, blink : Block \cup {Null}]
  <2> SUFFICES ASSUME NEW n \in Entry
               PROVE  g[n] \in [flink : Block \cup {Null}, blink : Block \cup {Null}]
    OBVIOUS
  <2>1. CASE n = e
    BY <2>1, <1>6, <1>10
  <2>2. CASE n = next
    BY <2>2, <1>2, <1>7, <1>10
  <2>3. CASE n = l /\ next # l
    BY <2>3, <1>1, <1>2, <1>10
  <2>4. CASE n # l /\ n # e /\ n # next
    BY <2>4, <1>2, <1>9
  <2> QED BY <2>1, <2>2, <2>3, <2>4
<1>12. g \in Links
  BY <1>9, <1>11, TypedLinks
<1>13. CASE q = << >>
  BY <1>13, <1>3, <1>5, <1>7, <1>9, <1>10, <1>12
<1>14. CASE q # << >>
  <2>1. next = q[1] /\ next # l /\ first = q[1]
    BY <1>14, <1>3, <1>7, <1>8
  <2> QED BY <2>1, <1>14, <1>3, <1>5, <1>9, <1>10, <1>12
<1> QED BY <1>13, <1>14

\* At the head of a list.
LEMMA PushHead ==
    ASSUME NEW h \in Links, NEW l \in List, NEW q, IsChain(h, l, q),
           NEW e \in Block, e \notin In(q)
    PROVE  LET g == QueuePushHead(h, l, e)
           IN  /\ g \in Links
               /\ IsChain(g, l, Onto(e, q))
               /\ In(Onto(e, q)) = In(q) \cup {e}
               /\ Spares(h, g, l, In(q) \cup {e})
<1> DEFINE g == QueuePushHead(h, l, e)
           r == Onto(e, q)
<1>1. q \in Row /\ Ends(h, l, q) /\ Linked(h, q)
  BY DEF IsChain
<1>2. /\ r \in Row /\ r # << >> /\ Len(r) = Len(q) + 1 /\ Len(q) \in Nat
      /\ r[1] = e /\ \A i \in 1..Len(q) : r[i + 1] = q[i] /\ q[i] \in In(q) /\ q[i] \in Entry /\ q[i] # l
      /\ In(r) = In(q) \cup {e} /\ (q = << >> <=> Len(q) = 0)
      /\ \A i, j \in 1..Len(q) : q[i] = q[j] => i = j
  BY <1>1, SeqOnto, InRow, Entries
<1>3. /\ g \in Links
      /\ g[l] = [flink |-> e, blink |-> IF q = << >> THEN e ELSE q[Len(q)]]
      /\ g[e] = [flink |-> IF q = << >> THEN Null ELSE q[1], blink |-> Null]
      /\ q # << >> => g[q[1]] = [flink |-> h[q[1]].flink, blink |-> e]
      /\ \A n \in Entry : n # l /\ n # e /\ (q # << >> => n # q[1]) => g[n] = h[n]
  BY PushHeadLinks
<1>4. \A i \in 1..Len(q) : h[q[i]].flink = IF i = Len(q) THEN Null ELSE q[i + 1]
  BY Places
<1> HIDE DEF g, r
<1>5. Ends(g, l, r)
  <2>1. q # << >> => Len(q) \in 1..Len(q) /\ r[Len(r)] = q[Len(q)]
    BY <1>2
  <2>2. q = << >> => r[Len(r)] = e
    BY <1>2
  <2> QED BY <2>1, <2>2, <1>2, <1>3 DEF Ends
<1>6. ASSUME NEW i \in 1..Len(r)
      PROVE  g[r[i]] = [flink |-> IF i = Len(r) THEN Null ELSE r[i + 1],
                        blink |-> IF i = 1 THEN Null ELSE r[i - 1]]
  <2>1. CASE i = 1
    <3>1. /\ i = Len(r) <=> q = << >>
          /\ q # << >> => 1 \in 1..Len(q) /\ r[i + 1] = q[1]
      BY <2>1, <1>2
    <3> QED BY <3>1, <2>1, <1>2, <1>3
  <2>2. CASE i = 2
    <3>1. /\ q # << >> /\ 1 \in 1..Len(q) /\ r[i] = q[1] /\ r[i - 1] = e
          /\ i = Len(r) <=> 1 = Len(q)
      <4>1. Len(q) \in Nat /\ Len(r) = Len(q) + 1 /\ i = 2 /\ i \in 1..Len(r)
        BY <2>2, <1>2, <1>6
      <4> DEFINE m == Len(q)
      <4>1a. m \in Nat /\ Len(r) = m + 1 /\ i = 2 /\ 2 \in 1..m + 1
        BY <4>1
      <4> HIDE DEF m
      <4>1b. 1 \in 1..m /\ m # 0 /\ 1 + 1 = i /\ i - 1 = 1
        BY <4>1a
      <4>1c. i = Len(r) <=> 1 = m
        BY <4>1a
      <4>2. 1 \in 1..Len(q) /\ Len(q) # 0 /\ 1 + 1 = i /\ i - 1 = 1 /\ (i = Len(r) <=> 1 = Len(q))
        BY <4>1b, <4>1c DEF m
      <4>3. r[1 + 1] = q[1]
        BY <4>2, <1>2
      <4> QED BY <4>2, <4>3, <1>2
    <3>2. g[q[1]] = [flink |-> h[q[1]].flink, blink |-> e]
      BY <3>1, <1>3
    <3>3. h[q[1]].flink = IF 1 = Len(q) THEN Null ELSE q[1 + 1]
      BY <3>1, <1>4
    <3>4. i # Len(r) => r[i + 1] = q[1 + 1]
      <4>1. i # Len(r) => 2 \in 1..Len(q)
        <5>1. Len(q) \in Nat /\ Len(r) = Len(q) + 1 /\ i = 2 /\ i \in 1..Len(r)
          BY <2>2, <1>2, <1>6
        <5> QED BY <5>1
      <4>2. i + 1 = 2 + 1 /\ 1 + 1 = 2
        BY <2>2
      <4>3. i # Len(r) => r[2 + 1] = q[2]
        BY <4>1, <1>2
      <4> QED BY <4>2, <4>3
    <3> QED BY <3>1, <3>2, <3>3, <3>4, <2>2
  <2>3. CASE i # 1 /\ i # 2
    <3> DEFINE k == i - 1
    <3>1. /\ k \in 1..Len(q) /\ k # 1 /\ r[i] = q[k] /\ r[i - 1] = q[k - 1] /\ q # << >> /\ 1 \in 1..Len(q)
          /\ i = Len(r) <=> k = Len(q)
          /\ i # Len(r) => r[i + 1] = q[k + 1]
      <4>1. k \in 1..Len(q) /\ k # 1 /\ k - 1 \in 1..Len(q) /\ k + 1 = i /\ (k - 1) + 1 = i - 1
            /\ (i = Len(r) <=> k = Len(q)) /\ 1 \in 1..Len(q)
        BY <2>3, <1>2, <1>6
      <4>2. i # Len(r) => k + 1 \in 1..Len(q) /\ (k + 1) + 1 = i + 1
        BY <2>3, <1>2, <1>6
      <4> QED BY SMTT(60), <4>1, <4>2, <1>2
    <3> HIDE DEF k
    <3>2. q[k] # l /\ q[k] # e /\ q[k] # q[1] /\ q[k] \in Entry
      BY <3>1, <1>2
    <3>3. g[q[k]] = h[q[k]]
      BY <3>1, <3>2, <1>3
    <3>4. h[q[k]] = [flink |-> IF k = Len(q) THEN Null ELSE q[k + 1],
                     blink |-> IF k = 1 THEN Null ELSE q[k - 1]]
      BY <3>1, <1>1 DEF Linked
    <3> QED BY <3>1, <3>3, <3>4, <2>3
  <2> QED BY <2>1, <2>2, <2>3
<1>7. Spares(h, g, l, In(q) \cup {e})
  <2>1. q # << >> => 1 \in 1..Len(q)
    BY <1>2
  <2>2. q # << >> => q[1] \in In(q)
    BY <2>1, <1>2
  <2> QED BY <2>2, <1>3 DEF Spares
<1>8. IsChain(g, l, r)
  BY <1>2, <1>5, <1>6 DEF IsChain, Linked
<1> QED BY <1>2, <1>3, <1>7, <1>8 DEF g, r

-----------------------------------------------------------------------------
(* The three lists at once: w[l] is what the links say of list l.          *)

Rows == [List -> Row]

Reads(h, w) ==
    /\ h \in Links /\ w \in Rows
    /\ \A l \in List : IsChain(h, l, w[l])
    /\ \A l, k \in List : l # k => In(w[l]) \cap In(w[k]) = {}

\* What the lists are when list l has become q.
With(w, l, q) == [w EXCEPT ![l] = q]

\* One row is replaced, the others stay.
LEMMA WithOne ==
    ASSUME NEW w \in Rows, NEW l \in List, NEW q \in Row
    PROVE  /\ With(w, l, q) \in Rows /\ With(w, l, q)[l] = q
           /\ \A k \in List : k # l => With(w, l, q)[k] = w[k]
  BY DEF With, Rows

\* A macro that changes one list.
LEMMA OneChanges ==
    ASSUME NEW h, NEW w, Reads(h, w), NEW l \in List, NEW g \in Links, NEW q,
           IsChain(g, l, q), NEW bs \in SUBSET Block, Spares(h, g, l, bs),
           \A k \in List \ {l} : In(w[k]) \cap bs = {} /\ In(w[k]) \cap In(q) = {}
    PROVE  Reads(g, With(w, l, q))
<1> DEFINE v == With(w, l, q)
<1>1. q \in Row /\ w \in Rows
  BY DEF IsChain, Reads
<1>2. v \in Rows /\ v[l] = q /\ \A k \in List \ {l} : v[k] = w[k]
  BY <1>1, WithOne
<1> HIDE DEF v
<1>3. ASSUME NEW k \in List PROVE IsChain(g, k, v[k])
  <2>1. CASE k = l
    BY <2>1, <1>2
  <2>2. CASE k # l
    <3>1. IsChain(h, k, w[k]) /\ In(w[k]) \cap bs = {} /\ v[k] = w[k]
      BY <2>2, <1>2 DEF Reads
    <3> QED BY <3>1, <2>2, Spared
  <2> QED BY <2>1, <2>2
<1>4. ASSUME NEW j \in List, NEW k \in List, j # k PROVE In(v[j]) \cap In(v[k]) = {}
  <2>1. CASE j = l
    BY <2>1, <1>2, <1>4
  <2>2. CASE k = l
    BY <2>2, <1>2, <1>4
  <2>3. CASE j # l /\ k # l
    BY <2>3, <1>2, <1>4 DEF Reads
  <2> QED BY <2>1, <2>2, <2>3
<1> QED BY <1>2, <1>3, <1>4 DEF Reads, v

\* A block that is in no list.
Loose(w, e) == e \in Block /\ \A l \in List : e \notin In(w[l])

\* A block that is in no list is put at the end of one.
LEMMA PutReads ==
    ASSUME NEW h, NEW w, Reads(h, w), NEW l \in List, NEW e, Loose(w, e)
    PROVE  /\ Reads(QueuePutTail(h, l, e), With(w, l, Append(w[l], e)))
           /\ In(Append(w[l], e)) = In(w[l]) \cup {e}
<1> DEFINE g == QueuePutTail(h, l, e)
           q == Append(w[l], e)
<1>1. h \in Links /\ IsChain(h, l, w[l]) /\ e \in Block /\ e \notin In(w[l])
  BY DEF Reads, Loose
<1>2. /\ g \in Links /\ IsChain(g, l, q) /\ In(q) = In(w[l]) \cup {e}
      /\ Spares(h, g, l, In(w[l]) \cup {e})
  BY <1>1, PutTail
<1>3. In(w[l]) \cup {e} \in SUBSET Block
  BY <1>1, InRow DEF IsChain
<1>4. \A k \in List \ {l} : In(w[k]) \cap (In(w[l]) \cup {e}) = {}
  BY DEF Reads, Loose
<1> HIDE DEF g, q
<1>5. Reads(g, With(w, l, q))
  BY <1>2, <1>3, <1>4, OneChanges
<1> QED BY <1>2, <1>5 DEF g, q

\* A block that is in no list is put in front of one.
LEMMA PushReads ==
    ASSUME NEW h, NEW w, Reads(h, w), NEW l \in List, NEW e, Loose(w, e)
    PROVE  /\ Reads(QueuePushHead(h, l, e), With(w, l, Onto(e, w[l])))
           /\ In(Onto(e, w[l])) = In(w[l]) \cup {e}
<1> DEFINE g == QueuePushHead(h, l, e)
           q == Onto(e, w[l])
<1>1. h \in Links /\ IsChain(h, l, w[l]) /\ e \in Block /\ e \notin In(w[l])
  BY DEF Reads, Loose
<1>2. /\ g \in Links /\ IsChain(g, l, q) /\ In(q) = In(w[l]) \cup {e}
      /\ Spares(h, g, l, In(w[l]) \cup {e})
  BY <1>1, PushHead
<1>3. In(w[l]) \cup {e} \in SUBSET Block
  BY <1>1, InRow DEF IsChain
<1>4. \A k \in List \ {l} : In(w[k]) \cap (In(w[l]) \cup {e}) = {}
  BY DEF Reads, Loose
<1> HIDE DEF g, q
<1>5. Reads(g, With(w, l, q))
  BY <1>2, <1>3, <1>4, OneChanges
<1> QED BY <1>2, <1>5 DEF g, q

\* A block is taken out of a list and is in none then.
LEMMA CutReads ==
    ASSUME NEW h, NEW w, Reads(h, w), NEW l \in List, NEW j \in 1..Len(w[l]),
           NEW g, TakenOut(h, l, w[l], j, g)
    PROVE  /\ Reads(g, With(w, l, Cut(w[l], j)))
           /\ In(Cut(w[l], j)) = In(w[l]) \ {w[l][j]}
           /\ Loose(With(w, l, Cut(w[l], j)), w[l][j])
<1> DEFINE q == Cut(w[l], j)
<1>1. h \in Links /\ IsChain(h, l, w[l]) /\ g \in Links /\ w[l] \in Row /\ w \in Rows
  BY DEF Reads, TakenOut, IsChain
<1>2. IsChain(g, l, q) /\ In(q) = In(w[l]) \ {w[l][j]} /\ Spares(h, g, l, In(w[l]))
  BY <1>1, TakeOut
<1>3. In(w[l]) \in SUBSET Block /\ w[l][j] \in In(w[l])
  BY <1>1, InRow
<1>4. \A k \in List \ {l} : In(w[k]) \cap In(w[l]) = {} /\ In(w[k]) \cap In(q) = {}
  BY <1>2 DEF Reads
<1> HIDE DEF q
<1>5. Reads(g, With(w, l, q))
  <2> DEFINE bs == In(w[l])
  <2>1. /\ bs \in SUBSET Block /\ Spares(h, g, l, bs)
        /\ \A k \in List \ {l} : In(w[k]) \cap bs = {} /\ In(w[k]) \cap In(q) = {}
    BY <1>2, <1>3, <1>4
  <2> HIDE DEF bs
  <2> QED BY <1>1, <1>2, <2>1, OneChanges
<1>6. Loose(With(w, l, q), w[l][j])
  BY <1>1, <1>2, <1>3, <1>4 DEF Loose, Rows, With
<1> QED BY <1>2, <1>5, <1>6 DEF q

\* The head of a list.
LEMMA HeadReads ==
    ASSUME NEW h, NEW w, Reads(h, w), NEW l \in List
    PROVE  /\ w[l] = << >> => QueueGetHead(h, l) = Null /\ QueueRemoveHead(h, l) = h
           /\ w[l] # << >> =>
                 /\ QueueGetHead(h, l) = w[l][1] /\ w[l][1] \in Block /\ w[l][1] # Null
                 /\ 1 \in 1..Len(w[l])
                 /\ TakenOut(h, l, w[l], 1, QueueRemoveHead(h, l))
<1>1. h \in Links /\ IsChain(h, l, w[l]) /\ w[l] \in Row
  BY DEF Reads, IsChain
<1>2. h[l].flink = IF w[l] = << >> THEN Null ELSE w[l][1]
  BY <1>1, Places
<1>3. CASE w[l] = << >>
  BY <1>2, <1>3 DEF QueueGetHead, QueueRemoveHead
<1>4. CASE w[l] # << >>
  <2>1. 1 \in 1..Len(w[l])
    BY <1>1, <1>4, InRow
  <2>2. w[l][1] \in Block /\ w[l][1] # Null
    BY <2>1, <1>1, InRow, Entries
  <2>3. TakenOut(h, l, w[l], 1, QueueRemoveHead(h, l))
    BY <1>1, <1>4, RemoveHeadLinks
  <2> QED BY <2>1, <2>2, <2>3, <1>2, <1>4 DEF QueueGetHead
<1> QED BY <1>3, <1>4

\* QueueRemoveEle takes block j out of list l, when it is given that list.
LEMMA EleReads ==
    ASSUME NEW h, NEW w, Reads(h, w), NEW l \in List, NEW j \in 1..Len(w[l])
    PROVE  TakenOut(h, l, w[l], j, QueueRemoveEle(h, l, w[l][j]))
<1>1. h \in Links /\ IsChain(h, l, w[l])
  BY DEF Reads
<1> QED BY <1>1, RemoveEleLinks

-----------------------------------------------------------------------------
(* What is removed together.                                               *)

\* The places of q that k keeps, in their order.
Kept(k, q) == [i \in 1..Len(k) |-> q[k[i]]]
Rising(k) == \A i, j \in 1..Len(k) : i < j => k[i] < k[j]
Keeping(k, q, S) == /\ k \in Seq(1..Len(q)) /\ Rising(k)
                    /\ \A j \in 1..Len(q) : j \in S <=> \E i \in 1..Len(k) : k[i] = j

\* Whoever keeps every place keeps the row.
LEMMA KeepAll ==
    ASSUME NEW q \in Seq(Block)
    PROVE  LET k == [i \in 1..Len(q) |-> i]
           IN  Keeping(k, q, 1..Len(q)) /\ Kept(k, q) = q
<1> DEFINE m == Len(q)
           k == [i \in 1..m |-> i]
<1>1. m \in Nat
  OBVIOUS
<1>2. q = [i \in 1..m |-> q[i]]
  OBVIOUS
<1> HIDE DEF m
<1>3. k \in Seq(1..m) /\ Len(k) = m /\ \A i \in 1..m : k[i] = i
  BY <1>1
<1> HIDE DEF k
<1>4. Keeping(k, q, 1..m)
  BY <1>1, <1>3 DEF Keeping, Rising, m
<1>5. Kept(k, q) = q
  BY <1>2, <1>3 DEF Kept
<1> QED BY <1>4, <1>5 DEF k, m

\* One more is not kept.
LEMMA KeepLess ==
    ASSUME NEW q \in Row, NEW k, NEW S, Keeping(k, q, S), NEW x \in 1..Len(k)
    PROVE  /\ Keeping(Cut(k, x), q, S \ {k[x]})
           /\ Kept(Cut(k, x), q) = Cut(Kept(k, q), x)
           /\ Len(Kept(k, q)) = Len(k) /\ Kept(k, q)[x] = q[k[x]]
<1> DEFINE n == Len(k)
           c == Cut(k, x)
<1>1. k \in Seq(1..Len(q)) /\ n \in Nat /\ x \in 1..n /\ \A i \in 1..n : k[i] \in 1..Len(q) /\ k[i] \in Nat
  BY InRow DEF Keeping
<1>2. \A i, j \in 1..n : i < j => k[i] < k[j]
  BY DEF Keeping, Rising
<1>3. c = [i \in 1..n - 1 |-> IF i < x THEN k[i] ELSE k[i + 1]] /\ n - 1 \in Nat
  BY <1>1 DEF Cut
<1> HIDE DEF n, c
<1>4. \A i \in 1..n - 1 : i \in 1..n /\ i + 1 \in 1..n /\ i \in Nat
  BY <1>1, <1>3
<1>5. c \in [1..n - 1 -> 1..Len(q)]
  BY <1>1, <1>3, <1>4
<1>6. c \in Seq(1..Len(q)) /\ Len(c) = n - 1
  BY SMTT(60), <1>3, <1>5
<1>7. \A i \in 1..n - 1 : c[i] = IF i < x THEN k[i] ELSE k[i + 1]
  BY <1>3
<1>8. Rising(c)
  <2> SUFFICES ASSUME NEW i \in 1..n - 1, NEW j \in 1..n - 1, i < j PROVE c[i] < c[j]
    BY <1>6 DEF Rising
  <2> DEFINE a == IF i < x THEN i ELSE i + 1
             b == IF j < x THEN j ELSE j + 1
  <2>1. a \in 1..n /\ b \in 1..n /\ a < b
    BY <1>1, <1>3
  <2>2. c[i] = k[a] /\ c[j] = k[b]
    BY <1>7
  <2> HIDE DEF a, b
  <2> QED BY <2>1, <2>2, <1>2
<1>9. ASSUME NEW j \in 1..Len(q)
      PROVE  j \in S \ {k[x]} <=> \E i \in 1..n - 1 : c[i] = j
  <2>1. j \in S <=> \E i \in 1..n : k[i] = j
    BY DEF Keeping, n
  <2>2. ASSUME NEW i \in 1..n, k[i] = j, j # k[x] PROVE \E y \in 1..n - 1 : c[y] = j
    <3>1. CASE i < x
      <4>1. i \in 1..n - 1 /\ c[i] = j
        BY <3>1, <2>2, <1>1, <1>3, <1>7
      <4> QED BY <4>1
    <3>2. CASE i > x
      <4>1. i - 1 \in 1..n - 1 /\ c[i - 1] = j
        <5>1. i - 1 \in 1..n - 1 /\ ~(i - 1 < x) /\ (i - 1) + 1 = i
          BY <3>2, <1>1, <1>3
        <5> QED BY <5>1, <2>2, <1>7
      <4> QED BY <4>1
    <3>3. i # x
      BY <2>2
    <3> QED BY <3>1, <3>2, <3>3, <1>1
  <2>3. ASSUME NEW y \in 1..n - 1, c[y] = j PROVE j # k[x] /\ \E i \in 1..n : k[i] = j
    <3> DEFINE a == IF y < x THEN y ELSE y + 1
    <3>1. a \in 1..n /\ (a < x \/ x < a)
      BY <1>1, <1>3
    <3>2. c[y] = k[a]
      BY <1>7
    <3> HIDE DEF a
    <3>3. k[a] # k[x]
      BY <3>1, <1>1, <1>2
    <3> QED BY <3>1, <3>2, <3>3, <2>3
  <2> QED BY <2>1, <2>2, <2>3
<1>10. Keeping(c, q, S \ {k[x]})
  BY <1>6, <1>8, <1>9 DEF Keeping
<1>11. Kept(k, q) = [i \in 1..n |-> q[k[i]]] /\ Len(Kept(k, q)) = n
  BY <1>1 DEF Kept, n
<1>12. Kept(c, q) = [i \in 1..n - 1 |-> q[c[i]]]
  BY <1>6 DEF Kept
<1>13. Cut(Kept(k, q), x) = [i \in 1..n - 1 |-> IF i < x THEN Kept(k, q)[i] ELSE Kept(k, q)[i + 1]]
  BY <1>11 DEF Cut
<1>14. \A i \in 1..n - 1 : q[c[i]] = IF i < x THEN Kept(k, q)[i] ELSE Kept(k, q)[i + 1]
  BY <1>4, <1>7, <1>11
<1>15. Kept(c, q) = Cut(Kept(k, q), x)
  BY <1>12, <1>13, <1>14
<1> QED BY <1>10, <1>11, <1>15, <1>1 DEF c, n

\* The blocks of the places that are kept.
LEMMA InKept ==
    ASSUME NEW q \in Row, NEW k, NEW S, Keeping(k, q, S)
    PROVE  In(Kept(k, q)) = { b \in In(q) : \E j \in 1..Len(q) : j \in S /\ q[j] = b }
<1>1. k \in Seq(1..Len(q)) /\ Len(Kept(k, q)) = Len(k) /\ \A i \in 1..Len(k) : Kept(k, q)[i] = q[k[i]] /\ k[i] \in 1..Len(q)
  BY DEF Keeping, Kept
<1>2. \A j \in 1..Len(q) : j \in S <=> \E i \in 1..Len(k) : k[i] = j
  BY DEF Keeping
<1>3. ASSUME NEW i \in 1..Len(k)
      PROVE  q[k[i]] \in In(q) /\ \E j \in 1..Len(q) : j \in S /\ q[j] = q[k[i]]
  BY <1>1, <1>2 DEF In
<1>4. ASSUME NEW j \in 1..Len(q), j \in S PROVE q[j] \in In(Kept(k, q))
  <2>1. PICK i \in 1..Len(k) : k[i] = j
    BY <1>2, <1>4
  <2>2. i \in 1..Len(Kept(k, q)) /\ Kept(k, q)[i] = q[j]
    BY <1>1, <2>1
  <2> QED BY <2>2 DEF In
<1>5. In(Kept(k, q)) \subseteq { b \in In(q) : \E j \in 1..Len(q) : j \in S /\ q[j] = b }
  <2> SUFFICES ASSUME NEW b \in In(Kept(k, q))
               PROVE  b \in In(q) /\ \E j \in 1..Len(q) : j \in S /\ q[j] = b
    OBVIOUS
  <2>1. PICK i \in 1..Len(Kept(k, q)) : Kept(k, q)[i] = b
    BY DEF In
  <2>2. i \in 1..Len(k) /\ b = q[k[i]]
    BY <2>1, <1>1
  <2> QED BY <2>2, <1>3
<1> QED BY <1>4, <1>5

-----------------------------------------------------------------------------
(* What holds of any links, whatever has become of the lists.              *)

Link == [flink : Block \cup {Null}, blink : Block \cup {Null}]

\* A link is changed forward,
LEMMA SetFlink ==
    ASSUME NEW h \in Links, NEW n \in Entry, NEW x \in Block \cup {Null}
    PROVE  [h EXCEPT ![n].flink = x] \in Links
<1>1. [h[n] EXCEPT !.flink = x] \in Link /\ Links = [Entry -> Link]
  BY DEF Links, Link
<1> DEFINE v == [h[n] EXCEPT !.flink = x]
<1>2. [h EXCEPT ![n].flink = x] = [h EXCEPT ![n] = v]
  OBVIOUS
<1> HIDE DEF v
<1> QED BY <1>1, <1>2 DEF v

\* backward,
LEMMA SetBlink ==
    ASSUME NEW h \in Links, NEW n \in Entry, NEW x \in Block \cup {Null}
    PROVE  [h EXCEPT ![n].blink = x] \in Links
<1>1. [h[n] EXCEPT !.blink = x] \in Link /\ Links = [Entry -> Link]
  BY DEF Links, Link
<1> DEFINE v == [h[n] EXCEPT !.blink = x]
<1>2. [h EXCEPT ![n].blink = x] = [h EXCEPT ![n] = v]
  OBVIOUS
<1> HIDE DEF v
<1> QED BY <1>1, <1>2 DEF v

\* or both ways.
LEMMA SetBoth ==
    ASSUME NEW h \in Links, NEW n \in Entry, NEW x \in Link
    PROVE  [h EXCEPT ![n] = x] \in Links
  BY DEF Links, Link

\* The links of an empty list.
LEMMA NoLinksTyped == NoLinks \in Link
  BY DEF NoLinks, Link

\* A link leads to a block or nowhere.
LEMMA LinkTyped ==
    ASSUME NEW h \in Links, NEW n \in Entry
    PROVE  /\ h[n].flink \in Block \cup {Null}
           /\ h[n].flink # Null => h[n].flink \in Entry
           /\ h[n].blink \in Block \cup {Null}
           /\ h[n].blink # Null => h[n].blink \in Entry
  BY Entries DEF Links

\* The macros keep the type of the links, whatever list the block is in, and
\* whichever block its caller took for the tail.
LEMMA PutBehindTyped ==
    ASSUME NEW h \in Links, NEW l \in List, NEW last \in Block \cup {Null}, NEW e \in Block
    PROVE  PutBehind(h, l, last, e) \in Links
<1>1. l \in Entry /\ e \in Entry /\ (last # Null => last \in Entry)
  BY Entries
<1>2. CASE last = Null
  <2> DEFINE x == [flink |-> e, blink |-> e]
             g == [h EXCEPT ![l] = x]
  <2>1. x \in Link
    BY DEF Link
  <2> HIDE DEF x
  <2>2. g \in Links
    BY <2>1, <1>1, SetBoth
  <2>3. PutBehind(h, l, last, e) = [g EXCEPT ![e] = NoLinks]
    BY <1>2 DEF PutBehind, x
  <2> HIDE DEF g
  <2>4. [g EXCEPT ![e] = NoLinks] \in Links
    BY <2>2, <1>1, NoLinksTyped, SetBoth
  <2> QED BY <2>3, <2>4
<1>3. CASE last # Null
  <2> DEFINE g1 == [h EXCEPT ![last].flink = e]
             g2 == [g1 EXCEPT ![e].blink = last]
             g3 == [g2 EXCEPT ![l].blink = e]
  <2>1. last \in Entry /\ last \in Block \cup {Null}
    BY <1>1, <1>3
  <2>2. PutBehind(h, l, last, e) = [g3 EXCEPT ![e].flink = Null]
    BY <1>3 DEF PutBehind
  <2>3. g1 \in Links
    BY <2>1, SetFlink
  <2> HIDE DEF g1
  <2>4. g2 \in Links
    BY <2>1, <2>3, <1>1, SetBlink
  <2> HIDE DEF g2
  <2>5. g3 \in Links
    BY <2>4, <1>1, SetBlink
  <2> HIDE DEF g3
  <2>6. Null \in Block \cup {Null}
    OBVIOUS
  <2>7. [g3 EXCEPT ![e].flink = Null] \in Links
    BY <2>5, <2>6, <1>1, SetFlink
  <2> QED BY <2>2, <2>7
<1> QED BY <1>2, <1>3

\* QueuePutTail takes the tail there is.
LEMMA PutTailTyped ==
    ASSUME NEW h \in Links, NEW l \in List, NEW e \in Block
    PROVE  QueuePutTail(h, l, e) \in Links
  BY Entries, LinkTyped, PutBehindTyped DEF QueuePutTail

\* The same of QueuePushHead,
LEMMA PushHeadTyped ==
    ASSUME NEW h \in Links, NEW l \in List, NEW e \in Block
    PROVE  QueuePushHead(h, l, e) \in Links
<1> DEFINE first == h[l].flink
           next == IF first = Null THEN l ELSE first
           g1 == [h EXCEPT ![e].flink = first]
           g2 == [g1 EXCEPT ![next].blink = e]
           g3 == [g2 EXCEPT ![e].blink = Null]
<1>1. l \in Entry /\ e \in Entry
  BY Entries
<1>2. first \in Block \cup {Null} /\ next \in Entry
  BY <1>1, LinkTyped
<1>3. QueuePushHead(h, l, e) = [g3 EXCEPT ![l].flink = e]
  BY DEF QueuePushHead
<1> HIDE DEF first, next
<1>4. g1 \in Links
  BY <1>1, <1>2, SetFlink
<1> HIDE DEF g1
<1>5. g2 \in Links
  BY <1>2, <1>4, SetBlink
<1> HIDE DEF g2
<1>6. g3 \in Links
  BY <1>1, <1>5, SetBlink
<1> HIDE DEF g3
<1>7. e \in Block \cup {Null}
  OBVIOUS
<1>8. [g3 EXCEPT ![l].flink = e] \in Links
  BY <1>1, <1>6, <1>7, SetFlink
<1> QED BY <1>3, <1>8

\* of QueueRemoveHead,
LEMMA RemoveHeadTyped ==
    ASSUME NEW h \in Links, NEW l \in List
    PROVE  QueueRemoveHead(h, l) \in Links
<1> DEFINE e == h[l].flink
           second == h[e].flink
<1>1. l \in Entry
  BY Entries
<1>2. CASE e = Null
  BY <1>2 DEF QueueRemoveHead
<1>3. CASE e # Null
  <2>1. e \in Entry
    BY <1>1, <1>3, LinkTyped
  <2>2. second \in Block \cup {Null} /\ (second # Null => second \in Entry)
    <3> HIDE DEF e
    <3> QED BY <2>1, LinkTyped
  <2>3. CASE second = Null
    <3> DEFINE g == [h EXCEPT ![l] = NoLinks]
    <3>1. QueueRemoveHead(h, l) = [g EXCEPT ![e] = NoLinks]
      BY <1>3, <2>3 DEF QueueRemoveHead
    <3> HIDE DEF e
    <3>2. g \in Links
      BY <1>1, NoLinksTyped, SetBoth
    <3> HIDE DEF g
    <3> QED BY <3>1, <3>2, <2>1, NoLinksTyped, SetBoth
  <2>4. CASE second # Null
    <3> DEFINE g1 == [h EXCEPT ![l].flink = second]
               g2 == [g1 EXCEPT ![second].blink = Null]
    <3>1. QueueRemoveHead(h, l) = [g2 EXCEPT ![e] = NoLinks]
      BY <1>3, <2>4 DEF QueueRemoveHead
    <3> HIDE DEF second, e
    <3>2. g1 \in Links
      BY <1>1, <2>2, SetFlink
    <3> HIDE DEF g1
    <3>3. g2 \in Links
      BY <3>2, <2>2, <2>4, SetBlink
    <3> HIDE DEF g2
    <3> QED BY <3>1, <3>3, <2>1, NoLinksTyped, SetBoth
  <2> QED BY <2>3, <2>4
<1> QED BY <1>2, <1>3

\* of QueueRemoveTail,
LEMMA RemoveTailTyped ==
    ASSUME NEW h \in Links, NEW l \in List
    PROVE  QueueRemoveTail(h, l) \in Links
<1> DEFINE e == h[l].blink
           before == h[e].blink
<1>1. l \in Entry
  BY Entries
<1>2. CASE e = Null
  BY <1>2 DEF QueueRemoveTail
<1>3. CASE e # Null
  <2>1. e \in Entry
    BY <1>1, <1>3, LinkTyped
  <2>2. before \in Block \cup {Null} /\ (before # Null => before \in Entry)
    <3> HIDE DEF e
    <3> QED BY <2>1, LinkTyped
  <2>3. CASE before = Null
    <3> DEFINE g == [h EXCEPT ![l] = NoLinks]
    <3>1. QueueRemoveTail(h, l) = [g EXCEPT ![e] = NoLinks]
      BY <1>3, <2>3 DEF QueueRemoveTail
    <3> HIDE DEF e
    <3>2. g \in Links
      BY <1>1, NoLinksTyped, SetBoth
    <3> HIDE DEF g
    <3> QED BY <3>1, <3>2, <2>1, NoLinksTyped, SetBoth
  <2>4. CASE before # Null
    <3> DEFINE g1 == [h EXCEPT ![l].blink = before]
               g2 == [g1 EXCEPT ![before].flink = Null]
    <3>1. QueueRemoveTail(h, l) = [g2 EXCEPT ![e] = NoLinks]
      BY <1>3, <2>4 DEF QueueRemoveTail
    <3> HIDE DEF before, e
    <3>2. g1 \in Links
      BY <1>1, <2>2, SetBlink
    <3> HIDE DEF g1
    <3>3. g2 \in Links
      BY <3>2, <2>2, <2>4, SetFlink
    <3> HIDE DEF g2
    <3> QED BY <3>1, <3>3, <2>1, NoLinksTyped, SetBoth
  <2> QED BY <2>3, <2>4
<1> QED BY <1>2, <1>3

\* and of QueueRemoveEle, with its three branches.
LEMMA RemoveEleTyped ==
    ASSUME NEW h \in Links, NEW l \in List, NEW e \in Block
    PROVE  QueueRemoveEle(h, l, e) \in Links
<1> DEFINE next == h[e].flink
           prior == h[e].blink
<1>1. e \in Entry
  BY Entries
<1>2. /\ next \in Block \cup {Null} /\ (next # Null => next \in Entry)
      /\ prior \in Block \cup {Null} /\ (prior # Null => prior \in Entry)
  BY <1>1, LinkTyped
<1>3. CASE h[l].flink = e \/ h[l].blink = e
  BY <1>3, RemoveHeadTyped, RemoveTailTyped DEF QueueRemoveEle
<1>4. CASE ~(h[l].flink = e \/ h[l].blink = e) /\ next # Null /\ prior # Null
  <2> DEFINE g1 == [h EXCEPT ![next].blink = prior]
             g2 == [g1 EXCEPT ![prior].flink = next]
  <2>1. QueueRemoveEle(h, l, e) = [g2 EXCEPT ![e] = NoLinks]
    BY <1>4 DEF QueueRemoveEle
  <2> HIDE DEF next, prior
  <2>2. g1 \in Links
    BY <1>2, <1>4, SetBlink
  <2> HIDE DEF g1
  <2>3. g2 \in Links
    BY <2>2, <1>2, <1>4, SetFlink
  <2> HIDE DEF g2
  <2> QED BY <2>1, <2>3, <1>1, NoLinksTyped, SetBoth
<1>5. CASE ~(h[l].flink = e \/ h[l].blink = e) /\ ~(next # Null /\ prior # Null)
  <2>1. QueueRemoveEle(h, l, e) = [h EXCEPT ![e] = NoLinks]
    BY <1>5 DEF QueueRemoveEle
  <2> QED BY <2>1, <1>1, NoLinksTyped, SetBoth
<1> QED BY <1>3, <1>4, <1>5

\* Whatever the links are, a reader finds a sequence of blocks.
LEMMA ChainTyped ==
    ASSUME NEW h \in Links, NEW l \in List
    PROVE  Chain(h, l) \in Seq(Block)
<1> DEFINE size == Cardinality(Entry)
           H == Block \cup {Null}
           one(i, x) == IF i = 1 THEN h[l].flink ELSE IF x = Null THEN Null ELSE h[x].flink
           step == [i \in 1..size |-> [x \in H |-> one(i, x)]]
<1>1. DOMAIN h = Entry /\ size \in Nat
  BY EntriesFinite, FS_CardinalityType DEF Links
<1>2. \A i \in 1..size, x \in H : one(i, x) \in H
  <2>1. \A x \in Block : h[x].flink \in H
    BY Entries, LinkTyped
  <2>2. h[l].flink \in H
    BY Entries, LinkTyped
  <2> QED BY <2>1, <2>2
<1> HIDE DEF size
<1>3. step \in [1..size -> [H -> H]] /\ Null \in H
  <2> HIDE DEF one, H
  <2>1. Null \in H
    BY DEF H
  <2> QED BY <1>2, <2>1
<1>4. PICK f \in [0..size -> H] : f[0] = Null /\ \A i \in 1..size : f[i] = step[i][f[i - 1]]
  <2> HIDE DEF step, H, one
  <2>1. Runs(H, size, Null, step) # {}
    BY <1>1, <1>3, Iterate
  <2> QED BY <2>1 DEF Runs
<1>5. \A i \in 1..size : f[i] = one(i, f[i - 1])
  <2> SUFFICES ASSUME NEW i \in 1..size PROVE f[i] = one(i, f[i - 1])
    OBVIOUS
  <2>1. i - 1 \in 0..size
    BY <1>1
  <2>2. f[i - 1] \in H
    <3> HIDE DEF H
    <3> QED BY <2>1, <1>4
  <2> HIDE DEF one, H
  <2> QED BY <2>2, <1>4
<1> DEFINE at0 == [i \in 1..size |-> f[i]]
<1>6. at0 = Walk(h, l, at0)
  <2>1. \A i \in 1..size : i # 1 => at0[i - 1] = f[i - 1]
    BY <1>1
  <2>2. \A i \in 1..size : at0[i] = one(i, f[i - 1])
    BY <1>5
  <2> HIDE DEF at0
  <2>3. \A i \in 1..size : at0[i] = IF i = 1 THEN h[l].flink
                                     ELSE IF at0[i - 1] = Null THEN Null ELSE h[at0[i - 1]].flink
    BY <2>1, <2>2
  <2> QED BY <2>3, <1>1 DEF Walk, size, at0
<1>7. PICK at : /\ at = Walk(h, l, at)
                /\ Chain(h, l) = [i \in 1..Cardinality({ j \in 1..Cardinality(DOMAIN h) :
                                                            at[j] # Null }) |-> at[i]]
  <2> HIDE DEF at0
  <2> QED BY <1>6, ChainWalks
<1>8. \A i \in 1..size : at[i] = IF i = 1 THEN h[l].flink
                                  ELSE IF at[i - 1] = Null THEN Null ELSE h[at[i - 1]].flink
  BY <1>7, <1>1 DEF Walk, size
<1> HIDE DEF at0, step, one
<1>9. \A i \in 1..size : at[i] \in H
  <2> DEFINE S == { i \in 0..size : i = 0 \/ at[i] \in H }
  <2>1. 0 \in S
    BY <1>1
  <2>2. ASSUME NEW i \in 0..size, i < size, i \in S PROVE i + 1 \in S
    <3>1. i + 1 \in 1..size /\ i + 1 \in 0..size
      BY <1>1, <2>2
    <3>2. CASE i = 0
      <4>1. at[i + 1] = h[l].flink
        BY <3>1, <3>2, <1>8
      <4> QED BY <4>1, <3>1, Entries, LinkTyped
    <3>3. CASE i # 0
      <4>1. at[i] \in H /\ (i + 1) - 1 = i /\ i + 1 # 1
        BY <2>2, <3>3
      <4>2. at[i + 1] = IF at[i] = Null THEN Null ELSE h[at[i]].flink
        BY <3>1, <4>1, <1>8
      <4>3. at[i] # Null => h[at[i]].flink \in H
        BY <4>1, Entries, LinkTyped
      <4> QED BY <4>2, <4>3, <3>1
    <3> QED BY <3>2, <3>3
  <2>3. 0..size \subseteq S
    <3> HIDE DEF S
    <3> QED BY <1>1, <2>1, <2>2, Induct
  <2> SUFFICES ASSUME NEW i \in 1..size PROVE at[i] \in H
    OBVIOUS
  <2>4. i \in 0..size /\ i # 0
    BY <1>1
  <2> QED BY <2>3, <2>4
<1> DEFINE T == { i \in 1..size + 1 : i = size + 1 \/ at[i] = Null }
<1>10. PICK m \in T : \A y \in T : m <= y
  <2>1. T \in SUBSET Nat /\ size + 1 \in T
    BY <1>1
  <2> HIDE DEF T
  <2> QED BY <2>1, Least
<1>11. m \in 1..size + 1 /\ (m = size + 1 \/ at[m] = Null)
  BY <1>10
<1>12. \A i \in 1..size : i < m => at[i] # Null
  <2> SUFFICES ASSUME NEW i \in 1..size, i < m, at[i] = Null PROVE FALSE
    OBVIOUS
  <2>1. i \in T
    BY <1>1
  <2> HIDE DEF T
  <2> QED BY <2>1, <1>10, <1>11, <1>1
<1>13. \A i \in 1..size : i >= m => at[i] = Null
  <2> DEFINE S == { i \in 0..size : i >= m => at[i] = Null }
  <2>1. 0 \in S
    BY <1>1, <1>11
  <2>2. ASSUME NEW i \in 0..size, i < size, i \in S PROVE i + 1 \in S
    <3>1. i + 1 \in 1..size /\ i + 1 \in 0..size
      BY <1>1, <2>2
    <3>2. CASE i + 1 < m
      BY <3>1, <3>2, <1>11, <1>1
    <3>3. CASE i + 1 = m
      BY <3>1, <3>3, <1>11, <1>1
    <3>4. CASE i + 1 > m
      <4>1. i >= m /\ i # 0 /\ (i + 1) - 1 = i /\ i + 1 # 1
        BY <3>4, <1>11, <1>1
      <4>2. at[i] = Null
        BY <4>1, <2>2
      <4>3. at[i + 1] = Null
        BY <4>1, <4>2, <3>1, <1>8
      <4> QED BY <4>3, <3>1
    <3>5. i + 1 \in Int /\ m \in Int
      BY <1>1, <1>11
    <3> QED BY <3>2, <3>3, <3>4, <3>5
  <2>3. 0..size \subseteq S
    <3> HIDE DEF S
    <3> QED BY <1>1, <2>1, <2>2, Induct
  <2> SUFFICES ASSUME NEW i \in 1..size, i >= m PROVE at[i] = Null
    OBVIOUS
  <2>4. i \in 0..size
    BY <1>1
  <2> QED BY <2>3, <2>4
<1> DEFINE n == m - 1
<1>14. n \in Nat /\ n <= size
  BY <1>11, <1>1
<1>15. { j \in 1..size : at[j] # Null } = 1..n
  <2>1. ASSUME NEW j \in 1..size, at[j] # Null PROVE j \in 1..n
    BY <2>1, <1>13, <1>11, <1>1
  <2>2. ASSUME NEW j \in 1..n PROVE j \in 1..size /\ at[j] # Null
    BY <2>2, <1>12, <1>11, <1>1
  <2> QED BY <2>1, <2>2
<1> HIDE DEF n
<1>16. Chain(h, l) = [i \in 1..n |-> at[i]]
  BY <1>7, <1>1, <1>14, <1>15, Counted DEF size
<1>17. \A i \in 1..n : at[i] \in Block
  BY <1>9, <1>14, <1>15, <1>1
<1> QED BY <1>14, <1>16, <1>17

-----------------------------------------------------------------------------
(* Freeing the blocks of a list, in turn.                                  *)

Released(h, l, e) == QueuePutTail(QueueRemoveEle(h, l, e), "task_free_pool", e)

\* The equation of FreeAll.
FreeSteps(h, l, q, bs, at) ==
    [i \in 0..Len(q) |->
        IF i = 0 THEN h
        ELSE IF q[i] \in bs THEN Released(at[i - 1], l, q[i]) ELSE at[i - 1]]

\* FreeAll is the last of the steps it defines.
LEMMA FreeAllSteps ==
    ASSUME NEW h, NEW l, NEW bs, NEW f, f = FreeSteps(h, l, Waiting(l), bs, f)
    PROVE  \E at : /\ at = FreeSteps(h, l, Waiting(l), bs, at)
                   /\ FreeAll(h, l, bs) = at[Len(Waiting(l))]
<1> DEFINE at == CHOOSE g : g = FreeSteps(h, l, Waiting(l), bs, g)
<1>1. FreeAll(h, l, bs) = at[Len(Waiting(l))]
  BY DEF FreeAll, FreeSteps, Released
<1>2. at = FreeSteps(h, l, Waiting(l), bs, at)
  <2>1. \E g : g = FreeSteps(h, l, Waiting(l), bs, g)
    OBVIOUS
  <2> QED BY <2>1
<1> HIDE DEF at
<1> QED BY <1>1, <1>2

\* A block that is released keeps the type of the links.
LEMMA ReleasedTyped ==
    ASSUME NEW h \in Links, NEW l \in List, NEW e \in Block
    PROVE  Released(h, l, e) \in Links
<1>1. QueueRemoveEle(h, l, e) \in Links
  BY RemoveEleTyped
<1>2. "task_free_pool" \in List
  BY Entries
<1> QED BY <1>1, <1>2, PutTailTyped DEF Released

\* The links at each turn.
FreeRuns(h, l, q, bs) ==
    { at \in [0..Len(q) -> Links] :
        /\ at[0] = h /\ FreeAll(h, l, bs) = at[Len(q)]
        /\ \A i \in 1..Len(q) : at[i] = IF q[i] \in bs THEN Released(at[i - 1], l, q[i])
                                                      ELSE at[i - 1] }

\* The steps of FreeAll can be run.
LEMMA FreeAllTurns ==
    ASSUME links \in Links, NEW h \in Links, NEW l \in List, NEW bs
    PROVE  /\ Waiting(l) \in Seq(Block) /\ Len(Waiting(l)) \in Nat
           /\ FreeRuns(h, l, Waiting(l), bs) # {}
<1> DEFINE q == Waiting(l)
           n == Len(q)
           one(i, x) == IF q[i] \in bs THEN Released(x, l, q[i]) ELSE x
           step == [i \in 1..n |-> [x \in Links |-> one(i, x)]]
<1>1. q \in Seq(Block)
  BY ChainTyped DEF Waiting
<1> HIDE DEF q
<1>2. n \in Nat /\ \A i \in 1..n : q[i] \in Block
  BY <1>1
<1> HIDE DEF n
<1>3. \A i \in 1..n, x \in Links : one(i, x) \in Links
  BY <1>2, ReleasedTyped
<1> HIDE DEF one
<1>4. step \in [1..n -> [Links -> Links]]
  BY <1>3
<1>5. PICK f \in [0..n -> Links] : f[0] = h /\ \A i \in 1..n : f[i] = step[i][f[i - 1]]
  <2> HIDE DEF step
  <2>1. Runs(Links, n, h, step) # {}
    BY <1>2, <1>4, Iterate
  <2> QED BY <2>1 DEF Runs
<1>6. \A i \in 1..n : f[i] = one(i, f[i - 1])
  <2> SUFFICES ASSUME NEW i \in 1..n PROVE f[i] = one(i, f[i - 1])
    OBVIOUS
  <2>1. i - 1 \in 0..n
    BY <1>2
  <2>2. f[i - 1] \in Links
    BY <2>1, <1>5
  <2> QED BY <2>2, <1>5
<1>7. f = FreeSteps(h, l, q, bs, f)
  <2>1. \A i \in 0..n : f[i] = IF i = 0 THEN h
                                ELSE IF q[i] \in bs THEN Released(f[i - 1], l, q[i]) ELSE f[i - 1]
    BY <1>2, <1>5, <1>6 DEF one
  <2> QED BY <2>1 DEF FreeSteps, n
<1>8. PICK at : at = FreeSteps(h, l, q, bs, at) /\ FreeAll(h, l, bs) = at[n]
  BY <1>7, FreeAllSteps DEF q, n
<1>9. \A i \in 0..n : at[i] = IF i = 0 THEN h
                               ELSE IF q[i] \in bs THEN Released(at[i - 1], l, q[i]) ELSE at[i - 1]
  BY <1>8 DEF FreeSteps, n
<1>10. 0..n \subseteq { i \in 0..n : at[i] \in Links }
  <2> DEFINE S == { i \in 0..n : at[i] \in Links }
  <2>1. 0 \in S
    BY <1>2, <1>9
  <2>2. ASSUME NEW i \in 0..n, i < n, i \in S PROVE i + 1 \in S
    <3>1. i + 1 \in 0..n /\ i + 1 # 0 /\ (i + 1) - 1 = i /\ i + 1 \in 1..n
      BY <1>2, <2>2
    <3>2. at[i + 1] = IF q[i + 1] \in bs THEN Released(at[i], l, q[i + 1]) ELSE at[i]
      BY <3>1, <1>9
    <3>3. at[i] \in Links /\ q[i + 1] \in Block
      BY <2>2, <3>1, <1>2
    <3>4. Released(at[i], l, q[i + 1]) \in Links
      BY <3>3, ReleasedTyped
    <3> QED BY <3>1, <3>2, <3>3, <3>4
  <2> HIDE DEF S
  <2>3. 0..n \subseteq S
    BY <1>2, <2>1, <2>2, Induct
  <2> QED BY <2>3 DEF S
<1> DEFINE a == [i \in 0..n |-> at[i]]
<1>11. a \in [0..n -> Links]
  BY <1>10
<1>12. a[0] = h /\ FreeAll(h, l, bs) = a[n]
  BY <1>2, <1>8, <1>9
<1>13. \A i \in 1..n : a[i] = IF q[i] \in bs THEN Released(a[i - 1], l, q[i]) ELSE a[i - 1]
  <2> SUFFICES ASSUME NEW i \in 1..n
               PROVE  a[i] = IF q[i] \in bs THEN Released(a[i - 1], l, q[i]) ELSE a[i - 1]
    OBVIOUS
  <2>1. i \in 0..n /\ i - 1 \in 0..n /\ i # 0
    BY <1>2
  <2>2. a[i] = at[i] /\ a[i - 1] = at[i - 1]
    BY <2>1
  <2> HIDE DEF a
  <2> QED BY <2>1, <2>2, <1>9
<1> HIDE DEF a
<1>14. a \in FreeRuns(h, l, q, bs)
  BY <1>11, <1>12, <1>13 DEF FreeRuns, n
<1> QED BY <1>1, <1>2, <1>14 DEF n, q

\* FreeAll keeps the type of the links, whatever the lists are.
LEMMA FreeAllTyped ==
    ASSUME links \in Links, NEW h \in Links, NEW l \in List, NEW bs
    PROVE  FreeAll(h, l, bs) \in Links
<1>1. PICK at \in [0..Len(Waiting(l)) -> Links] : FreeAll(h, l, bs) = at[Len(Waiting(l))]
  BY FreeAllTurns DEF FreeRuns
<1>2. Len(Waiting(l)) \in 0..Len(Waiting(l))
  BY FreeAllTurns
<1> QED BY <1>1, <1>2

\* What the three lists are when list l has become p and the pool r.
Moved(w, l, p, r) == With(With(w, l, p), "task_free_pool", r)

\* After i turns the blocks of bs among the first i of list l are in the pool.
Turned(h, w, l, bs, i) ==
    \E k, r : /\ Keeping(k, w[l], { j \in 1..Len(w[l]) : j > i \/ w[l][j] \notin bs })
              /\ r \in Row
              /\ In(r) = In(w["task_free_pool"])
                           \cup { b \in bs : \E j \in 1..Len(w[l]) : j <= i /\ w[l][j] = b }
              /\ Reads(h, Moved(w, l, Kept(k, w[l]), r))

\* Two rows are replaced, that of the list and that of the pool.
LEMMA MovedOnce ==
    ASSUME NEW w \in Rows, NEW l \in List, l # "task_free_pool", NEW p \in Row, NEW r \in Row
    PROVE  /\ Moved(w, l, p, r) \in Rows
           /\ Moved(w, l, p, r)[l] = p /\ Moved(w, l, p, r)["task_free_pool"] = r
           /\ \A x \in List : x # l /\ x # "task_free_pool" => Moved(w, l, p, r)[x] = w[x]
           /\ \A p2 \in Row : With(Moved(w, l, p, r), l, p2) = Moved(w, l, p2, r)
           /\ \A r2 \in Row : With(Moved(w, l, p, r), "task_free_pool", r2) = Moved(w, l, p, r2)
<1>1. "task_free_pool" \in List /\ DOMAIN w = List
  BY Entries DEF Rows
<1> QED BY <1>1 DEF Moved, With, Rows

\* A block that is not among those to be freed is left where it is.
LEMMA TurnLeft ==
    ASSUME NEW h, NEW w, Reads(h, w), NEW l \in List, NEW bs, NEW i \in Nat,
           i + 1 \in 1..Len(w[l]), w[l][i + 1] \notin bs, NEW g, Turned(g, w, l, bs, i)
    PROVE  Turned(g, w, l, bs, i + 1)
<1> DEFINE q == w[l]
<1>1. Len(q) \in Nat
  BY InRow DEF Reads, Rows
<1> HIDE DEF q
<1>2. { j \in 1..Len(q) : j > i \/ q[j] \notin bs } = { j \in 1..Len(q) : j > i + 1 \/ q[j] \notin bs }
  <2>1. ASSUME NEW j \in 1..Len(q) PROVE j > i <=> j > i + 1 \/ j = i + 1
    BY <1>1
  <2>2. q[i + 1] \notin bs
    BY DEF q
  <2> QED BY <2>1, <2>2
<1>3. { b \in bs : \E j \in 1..Len(q) : j <= i /\ q[j] = b }
        = { b \in bs : \E j \in 1..Len(q) : j <= i + 1 /\ q[j] = b }
  <2>1. ASSUME NEW j \in 1..Len(q) PROVE j <= i + 1 <=> j <= i \/ j = i + 1
    BY <1>1
  <2>2. q[i + 1] \notin bs
    BY DEF q
  <2> QED BY <2>1, <2>2
<1> QED BY <1>2, <1>3 DEF Turned, q

\* A block that is among them goes from its list to the end of the pool.
LEMMA TurnFreed ==
    ASSUME NEW h, NEW w, Reads(h, w), NEW l \in List, l # "task_free_pool", NEW bs,
           NEW i \in Nat, i + 1 \in 1..Len(w[l]), w[l][i + 1] \in bs, NEW g,
           Turned(g, w, l, bs, i)
    PROVE  Turned(Released(g, l, w[l][i + 1]), w, l, bs, i + 1)
<1> DEFINE q == w[l]
           e == q[i + 1]
           S == { j \in 1..Len(q) : j > i \/ q[j] \notin bs }
           B == { b \in bs : \E j \in 1..Len(q) : j <= i /\ q[j] = b }
           F == "task_free_pool"
<1>0. w \in Rows /\ F \in List
  BY Entries DEF Reads
<1>1. q \in Row /\ Len(q) \in Nat /\ i + 1 \in 1..Len(q) /\ e \in bs
  BY InRow DEF Reads, Rows
<1>2. PICK k, r : /\ Keeping(k, q, S) /\ r \in Row /\ In(r) = In(w[F]) \cup B
                  /\ Reads(g, Moved(w, l, Kept(k, q), r))
  BY DEF Turned
<1> HIDE DEF q
<1>3. i + 1 \in S
  BY <1>1
<1>4. PICK x \in 1..Len(k) : k[x] = i + 1
  BY <1>1, <1>2, <1>3 DEF Keeping
<1>5. /\ Keeping(Cut(k, x), q, S \ {i + 1}) /\ Kept(Cut(k, x), q) = Cut(Kept(k, q), x)
      /\ Len(Kept(k, q)) = Len(k) /\ Kept(k, q)[x] = e
  <2> HIDE DEF S
  <2>1. /\ Keeping(Cut(k, x), q, S \ {k[x]}) /\ Kept(Cut(k, x), q) = Cut(Kept(k, q), x)
        /\ Len(Kept(k, q)) = Len(k) /\ Kept(k, q)[x] = q[k[x]]
    BY SMTT(60), <1>1, <1>2, KeepLess
  <2> QED BY <2>1, <1>4
<1> DEFINE p == Kept(k, q)
           v == Moved(w, l, p, r)
<1>6. Reads(g, v)
  BY <1>2
<1>7. p \in Row
  <2>1. v \in Rows
    BY <1>6 DEF Reads
  <2>2. v[l] = p
    <3> HIDE DEF p
    <3> QED BY <1>0 DEF Moved, With, Rows
  <2> QED BY <2>1, <2>2 DEF Rows
<1> HIDE DEF p
<1>8. v[l] = p /\ v[F] = r
  BY <1>0, <1>2, <1>7, MovedOnce
<1> DEFINE g2 == QueueRemoveEle(g, l, e)
           p2 == Cut(p, x)
           v2 == With(v, l, p2)
<1>9. x \in 1..Len(p) /\ p[x] = e
  BY <1>4, <1>5 DEF p
<1> HIDE DEF v, e
<1>10. TakenOut(g, l, v[l], x, g2)
  BY <1>6, <1>8, <1>9, EleReads
<1>11. Reads(g2, v2) /\ Loose(v2, e)
  <2> HIDE DEF g2
  <2> QED BY <1>6, <1>8, <1>9, <1>10, CutReads
<1>12. p2 \in Row
  <2> HIDE DEF p2
  <2>1. v \in Rows /\ v2 \in Rows
    BY <1>6, <1>11 DEF Reads
  <2>2. v2[l] = p2
    BY <2>1 DEF With, Rows
  <2> QED BY <2>1, <2>2 DEF Rows
<1>13. v2 = Moved(w, l, p2, r)
  <2> HIDE DEF p2
  <2> QED BY <1>0, <1>2, <1>7, <1>12, MovedOnce DEF v
<1> HIDE DEF v2, g2
<1> DEFINE r2 == Append(r, e)
           v3 == With(v2, F, r2)
           g3 == QueuePutTail(g2, F, e)
<1> HIDE DEF p2
<1>14. v2[F] = r
  BY <1>0, <1>2, <1>12, <1>13, MovedOnce
<1>15. Reads(g3, v3) /\ In(r2) = In(r) \cup {e}
  <2> HIDE DEF F
  <2>1. /\ Reads(QueuePutTail(g2, F, e), With(v2, F, Append(v2[F], e)))
        /\ In(Append(v2[F], e)) = In(v2[F]) \cup {e}
    BY <1>0, <1>11, PutReads
  <2> QED BY <2>1, <1>14
<1>16. r2 \in Row
  <2> HIDE DEF r2
  <2>1. v2 \in Rows /\ v3 \in Rows
    BY <1>11, <1>15 DEF Reads
  <2>2. v3[F] = r2
    BY <1>0, <2>1 DEF With, Rows
  <2> QED BY <1>0, <2>1, <2>2 DEF Rows
<1>17. v3 = Moved(w, l, p2, r2)
  <2> HIDE DEF r2
  <2> QED BY <1>0, <1>2, <1>12, <1>13, <1>16, MovedOnce
<1>18. S \ {i + 1} = { j \in 1..Len(q) : j > i + 1 \/ q[j] \notin bs }
  <2>1. ASSUME NEW j \in 1..Len(q) PROVE j > i + 1 <=> j > i /\ j # i + 1
    BY <1>1
  <2>2. q[i + 1] \in bs
    BY <1>1 DEF e
  <2> QED BY <2>1, <2>2
<1>19. B \cup {e} = { b \in bs : \E j \in 1..Len(q) : j <= i + 1 /\ q[j] = b }
  <2>1. ASSUME NEW j \in 1..Len(q) PROVE j <= i + 1 <=> j <= i \/ j = i + 1
    BY <1>1
  <2>2. q[i + 1] \in bs /\ e = q[i + 1] /\ i + 1 \in 1..Len(q)
    BY <1>1 DEF e
  <2> QED BY <2>1, <2>2
<1>20. g3 = Released(g, l, w[l][i + 1])
  BY DEF Released, g2, e, q
<1>21. p2 = Kept(Cut(k, x), q)
  BY <1>5 DEF p2, p
<1>22. In(r2) = In(w[F]) \cup (B \cup {e})
  BY <1>2, <1>15
<1> HIDE DEF r2, g3, v3, S, B
<1>23. Turned(g3, w, l, bs, i + 1)
  BY <1>5, <1>15, <1>16, <1>17, <1>18, <1>19, <1>21, <1>22 DEF Turned, q
<1> QED BY <1>20, <1>23

\* Freeing the blocks of bs that a list holds keeps the others in their order.
LEMMA FreeAllReads ==
    ASSUME links \in Links, NEW h, NEW w, Reads(h, w), NEW l \in List, l # "task_free_pool",
           w[l] = Waiting(l), NEW bs
    PROVE  Turned(FreeAll(h, l, bs), w, l, bs, Len(w[l]))
<1> DEFINE q == w[l]
           n == Len(q)
<1>0. h \in Links
  BY DEF Reads
<1>1. PICK at \in [0..n -> Links] :
        /\ at[0] = h /\ FreeAll(h, l, bs) = at[n]
        /\ \A i \in 1..n : at[i] = IF q[i] \in bs THEN Released(at[i - 1], l, q[i]) ELSE at[i - 1]
  <2>1. FreeRuns(h, l, q, bs) # {}
    <3>1. FreeRuns(h, l, Waiting(l), bs) # {}
      BY <1>0, FreeAllTurns
    <3> QED BY <3>1
  <2> QED BY <2>1 DEF FreeRuns
<1>2. q \in Row /\ n \in Nat
  BY InRow DEF Reads, Rows
<1> HIDE DEF n
<1> DEFINE T == { i \in 0..n : Turned(at[i], w, l, bs, i) }
<1>3. 0 \in T
  <2> DEFINE k == [i \in 1..Len(q) |-> i]
             S == { j \in 1..Len(q) : j > 0 \/ q[j] \notin bs }
             r == w["task_free_pool"]
  <2>1. S = 1..Len(q)
    BY <1>2 DEF n
  <2>2. Keeping(k, q, 1..Len(q)) /\ Kept(k, q) = q
    <3>1. q \in Seq(Block)
      BY <1>2, InRow
    <3> HIDE DEF q
    <3> QED BY <3>1, KeepAll
  <2> HIDE DEF k
  <2>3. r \in Row
    BY Entries DEF Reads, Rows
  <2>4. Moved(w, l, q, r) = w
    BY Entries DEF Moved, With, Reads, Rows
  <2>5. In(r) = In(r) \cup { b \in bs : \E j \in 1..Len(q) : j <= 0 /\ q[j] = b }
    BY <1>2 DEF n
  <2> HIDE DEF S, r
  <2>6. Turned(h, w, l, bs, 0)
    BY <2>1, <2>2, <2>3, <2>4, <2>5 DEF Turned, S, r
  <2> QED BY <2>6, <1>1, <1>2
<1>4. ASSUME NEW i \in 0..n, i < n, i \in T PROVE i + 1 \in T
  <2>1. i + 1 \in 1..n /\ i + 1 \in 0..n /\ i \in Nat /\ (i + 1) - 1 = i
    BY <1>2, <1>4
  <2>2. Turned(at[i], w, l, bs, i)
    BY <1>4
  <2>3. at[i + 1] = IF q[i + 1] \in bs THEN Released(at[i], l, q[i + 1]) ELSE at[i]
    BY <1>1, <2>1
  <2>4. i + 1 \in 1..Len(w[l])
    BY <2>1 DEF n
  <2>5. CASE q[i + 1] \in bs
    BY <2>1, <2>2, <2>3, <2>4, <2>5, TurnFreed
  <2>6. CASE q[i + 1] \notin bs
    BY <2>1, <2>2, <2>3, <2>4, <2>6, TurnLeft
  <2> QED BY <2>5, <2>6
<1> HIDE DEF T
<1>5. 0..n \subseteq T
  BY <1>2, <1>3, <1>4, Induct
<1>6. n \in T
  BY <1>2, <1>5
<1> QED BY <1>1, <1>6 DEF T, n

-----------------------------------------------------------------------------
(* The pool is filled from the array.                                      *)

LEMMA ArrayRow ==
    /\ Array \in Seq(Block) /\ Len(Array) \in Nat
    /\ \A i, j \in 1..Len(Array) : Array[i] = Array[j] => i = j
    /\ \A b \in Block : \E i \in 1..Len(Array) : Array[i] = b
<1> DEFINE n == Cardinality(Block)
<1>1. n \in Nat /\ ExistsBijection(1..n, Block)
  BY TaskAssumption, FS_CardinalityType
<1>2. PICK f \in Bijection(1..n, Block) : TRUE
  BY <1>1 DEF ExistsBijection
<1>3. f \in [1..n -> Block] /\ \A b \in Block : \E i \in 1..n : f[i] = b
  BY <1>2 DEF Bijection, Surjection
<1>4. \E a \in [1..n -> Block] : \A b \in Block : \E i \in DOMAIN a : a[i] = b
  <2>1. DOMAIN f = 1..n
    BY <1>3
  <2> QED BY <1>3, <2>1
<1>5. Array \in [1..n -> Block] /\ \A b \in Block : \E i \in DOMAIN Array : Array[i] = b
  BY <1>4 DEF Array
<1> DEFINE a == Array
<1> HIDE DEF a, n
<1>6. a \in [1..n -> Block] /\ DOMAIN a = 1..n /\ \A b \in Block : \E i \in 1..n : a[i] = b
  BY <1>5 DEF a, n
<1>7. a \in Surjection(1..n, Block)
  BY <1>6 DEF Surjection
<1>8. IsFiniteSet(1..n) /\ Cardinality(1..n) = n
  BY <1>1, Counted
<1>9. Cardinality(1..n) = Cardinality(Block)
  BY <1>8 DEF n
<1>10. a \in Injection(1..n, Block)
  BY <1>7, <1>8, <1>9, FS_SurjSameCardinalityImpliesInj
<1>11. \A i, j \in 1..n : a[i] = a[j] => i = j
  BY <1>10 DEF Injection, IsInjective
<1>12. a \in Seq(Block) /\ Len(a) = n
  BY <1>1, <1>6
<1> QED BY <1>1, <1>6, <1>11, <1>12 DEF a

\* The equation of PutAll.
PutSteps(h, l, q, at) ==
    [i \in 0..Len(q) |-> IF i = 0 THEN h ELSE QueuePutTail(at[i - 1], l, q[i])]

\* PutAll is the last of the steps it defines.
LEMMA PutAllSteps ==
    ASSUME NEW h, NEW l, NEW q, NEW f, f = PutSteps(h, l, q, f)
    PROVE  \E at : at = PutSteps(h, l, q, at) /\ PutAll(h, l, q) = at[Len(q)]
<1> DEFINE at == CHOOSE g : g = PutSteps(h, l, q, g)
<1>1. PutAll(h, l, q) = at[Len(q)]
  BY DEF PutAll, PutSteps
<1>2. at = PutSteps(h, l, q, at)
  <2>1. \E g : g = PutSteps(h, l, q, g)
    OBVIOUS
  <2> QED BY <2>1
<1> HIDE DEF at
<1> QED BY <1>1, <1>2

\* The links at each turn.
PutRuns(h, l, q) ==
    { at \in [0..Len(q) -> Links] :
        /\ at[0] = h /\ PutAll(h, l, q) = at[Len(q)]
        /\ \A i \in 1..Len(q) : at[i] = QueuePutTail(at[i - 1], l, q[i]) }

\* The steps of PutAll can be run.
LEMMA PutAllTurns ==
    ASSUME NEW h \in Links, NEW l \in List, NEW q \in Seq(Block)
    PROVE  PutRuns(h, l, q) # {}
<1> DEFINE n == Len(q)
           one(i, x) == QueuePutTail(x, l, q[i])
           step == [i \in 1..n |-> [x \in Links |-> one(i, x)]]
<1>1. n \in Nat /\ \A i \in 1..n : q[i] \in Block
  OBVIOUS
<1> HIDE DEF n
<1>2. \A i \in 1..n, x \in Links : one(i, x) \in Links
  BY <1>1, PutTailTyped
<1> HIDE DEF one
<1>3. step \in [1..n -> [Links -> Links]]
  BY <1>2
<1>4. PICK f \in [0..n -> Links] : f[0] = h /\ \A i \in 1..n : f[i] = step[i][f[i - 1]]
  <2> HIDE DEF step
  <2>1. Runs(Links, n, h, step) # {}
    BY <1>1, <1>3, Iterate
  <2> QED BY <2>1 DEF Runs
<1>5. \A i \in 1..n : f[i] = one(i, f[i - 1])
  <2> SUFFICES ASSUME NEW i \in 1..n PROVE f[i] = one(i, f[i - 1])
    OBVIOUS
  <2>1. i - 1 \in 0..n
    BY <1>1
  <2>2. f[i - 1] \in Links
    BY <2>1, <1>4
  <2> QED BY <2>2, <1>4
<1>6. f = PutSteps(h, l, q, f)
  <2>1. \A i \in 0..n : f[i] = IF i = 0 THEN h ELSE QueuePutTail(f[i - 1], l, q[i])
    BY <1>1, <1>4, <1>5 DEF one
  <2> QED BY <2>1 DEF PutSteps, n
<1>7. PICK at : at = PutSteps(h, l, q, at) /\ PutAll(h, l, q) = at[n]
  BY <1>6, PutAllSteps DEF n
<1>8. \A i \in 0..n : at[i] = IF i = 0 THEN h ELSE QueuePutTail(at[i - 1], l, q[i])
  BY <1>7 DEF PutSteps, n
<1>9. \A i \in 0..n : at[i] \in Links
  <2> DEFINE S == { i \in 0..n : at[i] \in Links }
  <2>1. 0 \in S
    BY <1>1, <1>8
  <2>2. ASSUME NEW i \in 0..n, i < n, i \in S PROVE i + 1 \in S
    <3>1. i + 1 \in 0..n /\ i + 1 # 0 /\ (i + 1) - 1 = i /\ i + 1 \in 1..n
      BY <1>1, <2>2
    <3>2. at[i + 1] = QueuePutTail(at[i], l, q[i + 1])
      BY <3>1, <1>8
    <3>3. at[i] \in Links /\ q[i + 1] \in Block
      BY <2>2, <3>1, <1>1
    <3>4. QueuePutTail(at[i], l, q[i + 1]) \in Links
      BY <3>3, PutTailTyped
    <3> QED BY <3>1, <3>2, <3>4
  <2> HIDE DEF S
  <2>3. 0..n \subseteq S
    BY <1>1, <2>1, <2>2, Induct
  <2> QED BY <2>3 DEF S
<1> DEFINE a == [i \in 0..n |-> at[i]]
<1>10. a \in [0..n -> Links]
  BY <1>9
<1>11. a[0] = h /\ PutAll(h, l, q) = a[n]
  BY <1>1, <1>7, <1>8
<1>12. \A i \in 1..n : a[i] = QueuePutTail(a[i - 1], l, q[i])
  <2> SUFFICES ASSUME NEW i \in 1..n PROVE a[i] = QueuePutTail(a[i - 1], l, q[i])
    OBVIOUS
  <2>1. i \in 0..n /\ i - 1 \in 0..n /\ i # 0
    BY <1>1
  <2>2. a[i] = at[i] /\ a[i - 1] = at[i - 1]
    BY <2>1
  <2> HIDE DEF a
  <2> QED BY <2>1, <2>2, <1>8
<1> HIDE DEF a
<1>13. a \in PutRuns(h, l, q)
  BY <1>10, <1>11, <1>12 DEF PutRuns, n
<1> QED BY <1>13

\* The links before anything is linked, and the lists they are read as.
Bare == [n \in List \cup Block |-> NoLinks]
None == [l \in List |-> << >>]

\* Before anything is put into the lists they are empty.
LEMMA BareReads == Reads(Bare, None)
<1>1. Bare \in Links
  BY NoLinksTyped DEF Bare, Links, Entry, Link
<1>2. << >> \in Row /\ In(<< >>) = {}
  BY DEF Row, In
<1>3. None \in Rows /\ \A l \in List : None[l] = << >>
  BY <1>2 DEF None, Rows
<1>4. ASSUME NEW l \in List PROVE IsChain(Bare, l, << >>)
  <2>1. Bare[l] = NoLinks
    BY DEF Bare
  <2> QED BY <2>1, <1>2 DEF IsChain, Ends, Linked
<1> QED BY <1>1, <1>2, <1>3, <1>4 DEF Reads

\* The first i blocks of the array are in the pool.
Filled(h, i) ==
    \E r \in Row : /\ Len(r) = i /\ \A j \in 1..i : r[j] = Array[j]
                   /\ Reads(h, With(None, "task_free_pool", r))

\* The next block of the array is put into the pool.
LEMMA FilledMore ==
    ASSUME NEW i \in Nat, i + 1 \in 1..Len(Array), NEW h, Filled(h, i)
    PROVE  Filled(QueuePutTail(h, "task_free_pool", Array[i + 1]), i + 1)
<1> DEFINE F == "task_free_pool"
           e == Array[i + 1]
<1>1. PICK r \in Row : /\ Len(r) = i /\ \A j \in 1..i : r[j] = Array[j]
                       /\ Reads(h, With(None, F, r))
  BY DEF Filled
<1>2. F \in List /\ None \in Rows
  BY BareReads, Entries DEF Reads
<1>3. e \in Block
  BY ArrayRow
<1>4. e \notin In(r)
  <2> SUFFICES ASSUME NEW j \in 1..i, r[j] = e PROVE FALSE
    BY <1>1 DEF In
  <2>1. j \in 1..Len(Array) /\ j # i + 1
    BY ArrayRow
  <2> QED BY <2>1, <1>1, ArrayRow
<1> DEFINE v == With(None, F, r)
<1>5. v[F] = r /\ \A l \in List : l # F => v[l] = << >>
  BY <1>2, WithOne DEF None
<1> HIDE DEF v, e
<1>6. Loose(v, e)
  <2>1. In(<< >>) = {}
    BY DEF In
  <2> QED BY <1>3, <1>4, <1>5, <2>1 DEF Loose
<1>7. Reads(QueuePutTail(h, F, e), With(v, F, Append(v[F], e)))
  BY <1>1, <1>2, <1>6, PutReads DEF v
<1>8. /\ Append(r, e) \in Row /\ Len(Append(r, e)) = i + 1
      /\ \A j \in 1..i + 1 : Append(r, e)[j] = Array[j]
  <2>1. /\ Append(r, e) \in Row /\ Len(Append(r, e)) = Len(r) + 1
        /\ Append(r, e)[Len(r) + 1] = e /\ \A j \in 1..Len(r) : Append(r, e)[j] = r[j]
    BY <1>3, <1>4, AppendRow
  <2>2. \A j \in 1..i + 1 : j \in 1..i \/ j = i + 1
    OBVIOUS
  <2>3. e = Array[i + 1]
    BY DEF e
  <2> QED BY <1>1, <2>1, <2>2, <2>3
<1> DEFINE p == Append(r, e)
<1>9. With(v, F, p) = With(None, F, p)
  <2> HIDE DEF p
  <2> QED BY <1>2 DEF v, With, Rows
<1>10. Reads(QueuePutTail(h, F, e), With(None, F, p))
  BY <1>5, <1>7, <1>9
<1> HIDE DEF p
<1>11. Filled(QueuePutTail(h, F, e), i + 1)
  BY <1>8, <1>10 DEF Filled, p
<1> QED BY <1>11 DEF e

\* After initialisation every block is in the pool.
LEMMA PoolFilled ==
    \E r \in Row : /\ In(r) = Block
                   /\ Reads(PutAll(Bare, "task_free_pool", Array),
                            With(None, "task_free_pool", r))
<1> DEFINE F == "task_free_pool"
           n == Len(Array)
<1>1. /\ Array \in Seq(Block) /\ n \in Nat /\ F \in List /\ Bare \in Links /\ None \in Rows
      /\ Reads(Bare, None)
  BY ArrayRow, Entries, BareReads DEF Reads
<1>2. PutRuns(Bare, F, Array) # {}
  BY <1>1, PutAllTurns
<1>3. PICK at \in [0..n -> Links] :
        /\ at[0] = Bare /\ PutAll(Bare, F, Array) = at[n]
        /\ \A i \in 1..n : at[i] = QueuePutTail(at[i - 1], F, Array[i])
  BY <1>2 DEF PutRuns
<1> HIDE DEF n
<1> DEFINE T == { i \in 0..n : Filled(at[i], i) }
<1>4. 0 \in T
  <2>1. << >> \in Row /\ Len(<< >>) = 0
    BY DEF Row
  <2>2. With(None, F, << >>) = None
    BY DEF With, None
  <2>3. Filled(Bare, 0)
    BY <1>1, <2>1, <2>2 DEF Filled
  <2> QED BY <1>1, <1>3, <2>3
<1>5. ASSUME NEW i \in 0..n, i < n, i \in T PROVE i + 1 \in T
  <2>1. i + 1 \in 1..n /\ i + 1 \in 0..n /\ i \in Nat /\ (i + 1) - 1 = i
    BY <1>1, <1>5
  <2>2. Filled(at[i], i)
    BY <1>5
  <2>3. at[i + 1] = QueuePutTail(at[i], F, Array[i + 1])
    BY <1>3, <2>1
  <2>4. i + 1 \in 1..Len(Array)
    BY <2>1 DEF n
  <2> QED BY <2>1, <2>2, <2>3, <2>4, FilledMore
<1> HIDE DEF T
<1>6. 0..n \subseteq T
  BY <1>1, <1>4, <1>5, Induct
<1>7. n \in T
  BY <1>1, <1>6
<1>8. Filled(at[n], n)
  BY <1>7 DEF T
<1>9. PICK r \in Row : /\ Len(r) = n /\ \A j \in 1..n : r[j] = Array[j]
                       /\ Reads(at[n], With(None, F, r))
  BY <1>8 DEF Filled
<1>10. In(r) = Block
  <2>1. In(r) \subseteq Block
    BY InRow
  <2>2. ASSUME NEW b \in Block PROVE b \in In(r)
    <3>1. PICK i \in 1..n : Array[i] = b
      BY ArrayRow DEF n
    <3> QED BY <3>1, <1>9 DEF In
  <2> QED BY <2>1, <2>2
<1> QED BY <1>3, <1>9, <1>10

-----------------------------------------------------------------------------
(* The queues the links are read as.                                       *)

Lists == [l \in List |-> Waiting(l)]

\* The blocks that are in no list.
Outside(w) == { b \in Block : Loose(w, b) }

\* What the links read as is what Chain computes.
LEMMA ReadBack ==
    ASSUME NEW h, NEW w, Reads(h, w)
    PROVE  w = [l \in List |-> Chain(h, l)] /\ \A l \in List : Chain(h, l) = w[l]
<1>1. ASSUME NEW l \in List PROVE Chain(h, l) = w[l]
  <2>1. h \in Links /\ IsChain(h, l, w[l])
    BY DEF Reads
  <2> QED BY <2>1, ChainRead
<1>2. w = [l \in List |-> w[l]]
  BY DEF Reads, Rows
<1> QED BY <1>1, <1>2

\* What is in no list, when one row is replaced.
LEMMA OutsideWith ==
    ASSUME NEW w \in Rows, NEW l \in List, NEW q \in Row
    PROVE  Outside(With(w, l, q))
             = { b \in Block : b \notin In(q) /\ \A k \in List : k # l => b \notin In(w[k]) }
<1> DEFINE v == With(w, l, q)
<1>1. v[l] = q /\ \A k \in List : k # l => v[k] = w[k]
  BY WithOne
<1> HIDE DEF v
<1>2. Outside(v) = { b \in Block : b \notin In(q) /\ \A k \in List : k # l => b \notin In(w[k]) }
  BY <1>1 DEF Outside, Loose
<1> QED BY <1>2 DEF v

\* A block is taken from list l: what is read then.
LEMMA TakenReads ==
    ASSUME NEW h, NEW w, Reads(h, w), NEW l \in List, w[l] # << >>
    PROVE  LET e == w[l][1]
               v == With(w, l, Tail(w[l]))
           IN  /\ QueueGetHead(h, l) = e /\ e \in Block /\ e # Null
               /\ Reads(QueueRemoveHead(h, l), v)
               /\ In(Tail(w[l])) = In(w[l]) \ {e} /\ e \in In(w[l]) /\ e \notin Outside(w)
               /\ Outside(v) = Outside(w) \cup {e}
<1> DEFINE q == w[l]
           e == q[1]
<1>0. w \in Rows /\ q \in Row /\ q # << >>
  BY DEF Reads, Rows
<1>1. QueueGetHead(h, l) = e /\ e \in Block /\ e # Null /\ 1 \in 1..Len(q)
      /\ TakenOut(h, l, q, 1, QueueRemoveHead(h, l))
  BY HeadReads
<1> DEFINE g == QueueRemoveHead(h, l)
           p == Cut(q, 1)
<1> HIDE DEF g
<1>2. Reads(g, With(w, l, p)) /\ In(p) = In(q) \ {e}
  BY SMTT(60), <1>1, CutReads DEF g
<1>3. p = Tail(q)
  BY <1>0, InRow DEF Cut
<1>4. e \in In(q)
  BY <1>1 DEF In
<1>5. p \in Row
  BY <1>0, <1>1, SeqCut
<1> HIDE DEF p, q
<1>6. e \notin Outside(w)
  BY <1>4 DEF Outside, Loose, q
<1>7. \A k \in List : k # l => e \notin In(w[k])
  BY <1>4 DEF Reads, q
<1>8. Outside(With(w, l, p)) = { b \in Block : b \notin In(p) /\ \A k \in List : k # l => b \notin In(w[k]) }
  BY <1>0, <1>5, OutsideWith
<1>9. ASSUME NEW b \in Block
      PROVE  b \in Outside(With(w, l, p)) <=> b \in Outside(w) \/ b = e
  <2>1. CASE b = e
    BY <2>1, <1>2, <1>7, <1>8
  <2>2. CASE b # e
    BY <2>2, <1>2, <1>8 DEF Outside, Loose, q
  <2> QED BY <2>1, <2>2
<1>10. Outside(With(w, l, p)) = Outside(w) \cup {e}
  <2>1. Outside(w) \subseteq Block /\ Outside(With(w, l, p)) \subseteq Block
    BY DEF Outside
  <2> HIDE DEF e
  <2> QED BY <2>1, <1>1, <1>9
<1> QED BY <1>1, <1>2, <1>3, <1>4, <1>6, <1>10 DEF g, q

\* A block from outside is put into list l.
LEMMA OutsideLess ==
    ASSUME NEW w \in Rows, NEW l \in List, NEW q \in Row, NEW e \in Block,
           In(q) = In(w[l]) \cup {e}
    PROVE  Outside(With(w, l, q)) = Outside(w) \ {e}
<1>1. Outside(With(w, l, q)) = { b \in Block : b \notin In(q) /\ \A k \in List : k # l => b \notin In(w[k]) }
  BY OutsideWith
<1> QED BY <1>1 DEF Outside, Loose

\* A block from outside is put at the end of a list.
LEMMA AddedReads ==
    ASSUME NEW h, NEW w, Reads(h, w), NEW l \in List, NEW e \in Outside(w)
    PROVE  LET v == With(w, l, Append(w[l], e))
           IN  /\ Reads(QueuePutTail(h, l, e), v)
               /\ Append(w[l], e) \in Row /\ In(Append(w[l], e)) = In(w[l]) \cup {e}
               /\ Outside(v) = Outside(w) \ {e}
<1>1. Loose(w, e) /\ e \in Block /\ w \in Rows /\ w[l] \in Row /\ e \notin In(w[l])
  BY DEF Outside, Loose, Reads, Rows
<1> DEFINE p == Append(w[l], e)
<1>2. p \in Row
  BY <1>1, AppendRow
<1>3. Reads(QueuePutTail(h, l, e), With(w, l, p)) /\ In(p) = In(w[l]) \cup {e}
  BY <1>1, PutReads
<1> HIDE DEF p
<1>4. Outside(With(w, l, p)) = Outside(w) \ {e}
  BY <1>1, <1>2, <1>3, OutsideLess
<1> QED BY <1>2, <1>3, <1>4 DEF p

\* A block from outside is put in front of a list.
LEMMA PushedReads ==
    ASSUME NEW h, NEW w, Reads(h, w), NEW l \in List, NEW e \in Outside(w)
    PROVE  LET v == With(w, l, Onto(e, w[l]))
           IN  /\ Reads(QueuePushHead(h, l, e), v)
               /\ Onto(e, w[l]) \in Row /\ In(Onto(e, w[l])) = In(w[l]) \cup {e}
               /\ Outside(v) = Outside(w) \ {e}
<1>1. Loose(w, e) /\ e \in Block /\ w \in Rows /\ w[l] \in Row /\ e \notin In(w[l])
  BY DEF Outside, Loose, Reads, Rows
<1> DEFINE p == Onto(e, w[l])
<1>2. p \in Row
  BY <1>1, SeqOnto
<1>3. Reads(QueuePushHead(h, l, e), With(w, l, p)) /\ In(p) = In(w[l]) \cup {e}
  BY <1>1, PushReads
<1> HIDE DEF p
<1>4. Outside(With(w, l, p)) = Outside(w) \ {e}
  BY <1>1, <1>2, <1>3, OutsideLess
<1> QED BY <1>2, <1>3, <1>4 DEF p

\* The state of the queue, before and after a step.
LEMMA QueueRead ==
    ASSUME NEW w, NEW v, Reads(links, w), Reads(links', v)
    PROVE  /\ { Waiting("task_free_pool")[i] : i \in 1..Len(Waiting("task_free_pool")) }
                = In(w["task_free_pool"])
           /\ { Waiting("task_free_pool")[i] : i \in 1..Len(Waiting("task_free_pool")) }'
                = In(v["task_free_pool"])
           /\ Waiting("task_list") = w["task_list"] /\ Waiting("task_list")' = v["task_list"]
           /\ Waiting("task_list_high") = w["task_list_high"]
           /\ Waiting("task_list_high")' = v["task_list_high"]
<1>1. \A l \in List : Chain(links, l) = w[l] /\ Chain(links', l) = v[l]
  BY ReadBack
<1>2. "task_free_pool" \in List /\ "task_list" \in List /\ "task_list_high" \in List
  BY Entries
<1>3. \A l \in List : Waiting(l) = w[l] /\ Waiting(l)' = v[l]
  BY <1>1 DEF Waiting
<1> QED BY <1>2, <1>3 DEF In

\* How a step of the queue reads in terms of the lists.
LEMMA MapTakeFree ==
    ASSUME NEW w, NEW v, Reads(links, w), Reads(links', v), NEW b \in In(w["task_free_pool"]),
           In(v["task_free_pool"]) = In(w["task_free_pool"]) \ {b}, InHand' = InHand \cup {b},
           v["task_list"] = w["task_list"], v["task_list_high"] = w["task_list_high"]
    PROVE  Queue!TakeFree
  BY QueueRead DEF Queue!TakeFree

\* The head of a row is its first entry.
LEMMA HeadOne ==
    ASSUME NEW h, NEW w, Reads(h, w), NEW l \in List, w[l] # << >>
    PROVE  Head(w[l]) = w[l][1]
<1>1. w[l] \in Seq(Block)
  BY DEF Reads, Rows, Row
<1> QED BY <1>1

\* The head of the high list is taken into somebody's hands,
LEMMA MapTakeHigh ==
    ASSUME NEW w, NEW v, Reads(links, w), Reads(links', v), w["task_list_high"] # << >>,
           v["task_list_high"] = Tail(w["task_list_high"]),
           InHand' = InHand \cup {w["task_list_high"][1]},
           v["task_free_pool"] = w["task_free_pool"], v["task_list"] = w["task_list"]
    PROVE  Queue!TakeHigh
<1>1. Head(w["task_list_high"]) = w["task_list_high"][1]
  BY Entries, HeadOne
<1> QED BY <1>1, QueueRead DEF Queue!TakeHigh

\* or that of the normal list.
LEMMA MapTakeNormal ==
    ASSUME NEW w, NEW v, Reads(links, w), Reads(links', v), w["task_list"] # << >>,
           v["task_list"] = Tail(w["task_list"]),
           InHand' = InHand \cup {w["task_list"][1]},
           v["task_free_pool"] = w["task_free_pool"], v["task_list_high"] = w["task_list_high"]
    PROVE  Queue!TakeNormal
<1>1. Head(w["task_list"]) = w["task_list"][1]
  BY Entries, HeadOne
<1> QED BY <1>1, QueueRead DEF Queue!TakeNormal

\* A block in somebody's hands is put into the normal list, at either end,
LEMMA MapAddNormal ==
    ASSUME NEW w, NEW v, Reads(links, w), Reads(links', v), NEW b \in Block,
           \/ v["task_list"] = Append(w["task_list"], b)
           \/ v["task_list"] = Onto(b, w["task_list"]),
           InHand' = InHand \ {b},
           v["task_free_pool"] = w["task_free_pool"], v["task_list_high"] = w["task_list_high"]
    PROVE  Queue!AddNormal(b)
  BY QueueRead DEF Queue!AddNormal, Onto

\* into the high list, at either end,
LEMMA MapAddHigh ==
    ASSUME NEW w, NEW v, Reads(links, w), Reads(links', v), NEW b \in Block,
           \/ v["task_list_high"] = Append(w["task_list_high"], b)
           \/ v["task_list_high"] = Onto(b, w["task_list_high"]),
           InHand' = InHand \ {b},
           v["task_free_pool"] = w["task_free_pool"], v["task_list"] = w["task_list"]
    PROVE  Queue!AddHigh(b)
  BY QueueRead DEF Queue!AddHigh, Onto

\* or into the pool.
LEMMA MapRelease ==
    ASSUME NEW w, NEW v, Reads(links, w), Reads(links', v), NEW b \in Block,
           In(v["task_free_pool"]) = In(w["task_free_pool"]) \cup {b}, InHand' = InHand \ {b},
           v["task_list"] = w["task_list"], v["task_list_high"] = w["task_list_high"]
    PROVE  Queue!Release(b)
  BY QueueRead DEF Queue!Release

\* It is put into the pool and the head of the high list is taken,
LEMMA MapRecycleHigh ==
    ASSUME NEW w, NEW v, Reads(links, w), Reads(links', v), NEW b \in Block,
           In(v["task_free_pool"]) = In(w["task_free_pool"]) \cup {b},
           w["task_list_high"] # << >>, v["task_list_high"] = Tail(w["task_list_high"]),
           InHand' = (InHand \ {b}) \cup {w["task_list_high"][1]},
           v["task_list"] = w["task_list"]
    PROVE  Queue!Recycle(b)
<1>1. Head(w["task_list_high"]) = w["task_list_high"][1]
  BY Entries, HeadOne
<1> QED BY <1>1, QueueRead DEF Queue!Recycle

\* or that of the normal list, when the high one is empty.
LEMMA MapRecycleNormal ==
    ASSUME NEW w, NEW v, Reads(links, w), Reads(links', v), NEW b \in Block,
           In(v["task_free_pool"]) = In(w["task_free_pool"]) \cup {b},
           w["task_list_high"] = << >>, w["task_list"] # << >>,
           v["task_list"] = Tail(w["task_list"]),
           InHand' = (InHand \ {b}) \cup {w["task_list"][1]},
           v["task_list_high"] = w["task_list_high"]
    PROVE  Queue!Recycle(b)
<1>1. Head(w["task_list"]) = w["task_list"][1]
  BY Entries, HeadOne
<1> QED BY <1>1, QueueRead DEF Queue!Recycle

\* What is kept is no longer than what there was.
LEMMA KeepFits ==
    ASSUME NEW q \in Row, NEW k, NEW S, Keeping(k, q, S)
    PROVE  Len(k) \in 0..Len(q)
<1> DEFINE m == Len(k)
           n == Len(q)
<1>1. /\ m \in Nat /\ n \in Nat /\ k \in [1..m -> 1..n]
      /\ \A i, j \in 1..m : i < j => k[i] < k[j]
  <2>1. n \in Nat
    BY InRow
  <2> QED BY <2>1 DEF Keeping, Rising
<1> HIDE DEF m, n
<1>2. \A i, j \in 1..m : k[i] = k[j] => i = j
  <2> SUFFICES ASSUME NEW i \in 1..m, NEW j \in 1..m, i < j PROVE k[i] # k[j]
    BY <1>1
  <2>1. k[i] < k[j] /\ k[i] \in 1..n /\ k[j] \in 1..n
    BY <1>1
  <2> QED BY <2>1, <1>1
<1>3. k \in Injection(1..m, 1..n)
  BY <1>1, <1>2 DEF Injection, IsInjective
<1>4. IsFiniteSet(1..n) /\ Cardinality(1..n) = n /\ Cardinality(1..m) = m
  BY <1>1, Counted
<1>5. Cardinality(1..m) <= Cardinality(1..n)
  BY <1>3, <1>4, FS_Injection
<1> QED BY <1>1, <1>4, <1>5 DEF m, n

\* The places that are kept are in the order the abstract queue asks for.
LEMMA KeepKeeps ==
    ASSUME NEW q \in Row, NEW k, NEW S, Keeping(k, q, S)
    PROVE  /\ k \in [1..Len(k) -> 1..Len(q)] /\ Queue!Keeps(k, q)
           /\ Kept(k, q) = [i \in 1..Len(k) |-> q[k[i]]]
<1>1. Len(q) \in Nat
  BY InRow
<1> QED BY <1>1 DEF Keeping, Rising, Queue!Keeps, Kept

\* Blocks are removed from both lists and freed, the others keep their order.
LEMMA MapRemove ==
    ASSUME NEW w, NEW v, Reads(links, w), Reads(links', v),
           NEW k, NEW S, Keeping(k, w["task_list"], S), v["task_list"] = Kept(k, w["task_list"]),
           NEW l, NEW T, Keeping(l, w["task_list_high"], T),
           v["task_list_high"] = Kept(l, w["task_list_high"]),
           In(v["task_free_pool"]) = In(w["task_free_pool"])
                                       \cup (In(w["task_list"]) \ In(v["task_list"]))
                                       \cup (In(w["task_list_high"]) \ In(v["task_list_high"])),
           InHand' = InHand
    PROVE  Queue!Remove
<1> DEFINE n == Waiting("task_list")
           h == Waiting("task_list_high")
           free == { Waiting("task_free_pool")[i] : i \in 1..Len(Waiting("task_free_pool")) }
<1>1. /\ n = w["task_list"] /\ n' = v["task_list"]
      /\ h = w["task_list_high"] /\ h' = v["task_list_high"]
      /\ free = In(w["task_free_pool"]) /\ free' = In(v["task_free_pool"])
  BY QueueRead
<1> HIDE DEF n, h, free
<1>2. n \in Row /\ h \in Row
  BY <1>1, Entries DEF Reads, Rows
<1>3. /\ Len(k) \in 0..Len(n) /\ k \in [1..Len(k) -> 1..Len(n)] /\ Queue!Keeps(k, n)
      /\ n' = [i \in 1..Len(k) |-> n[k[i]]]
  BY <1>1, <1>2, KeepFits, KeepKeeps
<1>4. /\ Len(l) \in 0..Len(h) /\ l \in [1..Len(l) -> 1..Len(h)] /\ Queue!Keeps(l, h)
      /\ h' = [i \in 1..Len(l) |-> h[l[i]]]
  BY <1>1, <1>2, KeepFits, KeepKeeps
<1>5. \A q : Queue!In(q) = In(q)
  BY DEF Queue!In, In
<1>6. free' = free \cup (Queue!In(n) \ Queue!In(n')) \cup (Queue!In(h) \ Queue!In(h'))
  BY <1>1, <1>5
<1>7. \E m \in 0..Len(n), j \in 0..Len(h) :
      \E k1 \in [1..m -> 1..Len(n)], l1 \in [1..j -> 1..Len(h)] :
         /\ Queue!Keeps(k1, n) /\ Queue!Keeps(l1, h)
         /\ n' = [i \in 1..m |-> n[k1[i]]] /\ h' = [i \in 1..j |-> h[l1[i]]]
         /\ free' = free \cup (Queue!In(n) \ Queue!In(n')) \cup (Queue!In(h) \ Queue!In(h'))
  <2> DEFINE same == free' = free \cup (Queue!In(n) \ Queue!In(n')) \cup (Queue!In(h) \ Queue!In(h'))
  <2>1. same
    BY <1>6
  <2> HIDE DEF same
  <2>2. \E m \in 0..Len(n), j \in 0..Len(h) :
        \E k1 \in [1..m -> 1..Len(n)], l1 \in [1..j -> 1..Len(h)] :
           /\ Queue!Keeps(k1, n) /\ Queue!Keeps(l1, h)
           /\ n' = [i \in 1..m |-> n[k1[i]]] /\ h' = [i \in 1..j |-> h[l1[i]]]
           /\ same
    BY <1>3, <1>4, <2>1
  <2> QED BY <2>2 DEF same
<1> QED BY <1>7 DEF Queue!Remove, n, h, free

-----------------------------------------------------------------------------
(* Types.                                                                  *)

\* A creator that wants something knows what.
Wanting == \A t \in Thread : pc[t] \in { "steal", "fill", "insert" } => req[t] \in Request

Typed == TypeOK /\ Wanting

\* The parts of the type that are not about the creators.
Tables == links \in Links /\ task \in [Block -> [event : Event \cup {Null}, high : BOOLEAN]]

Creating ==
    /\ pc \in [Thread -> { "idle", "steal", "fill", "give", "insert", "schedule" }]
    /\ req \in [Thread -> Request \cup {Null}]
    /\ hand \in [Thread -> Block \cup {Null}]
    /\ tail \in [Thread -> Block \cup {Null}]
    /\ \A t \in Thread : hand[t] # Null <=> pc[t] \in { "fill", "give", "insert" }
    /\ Wanting

Working ==
    /\ wpc \in { "off", "check", "pop", "loop", "exec", "end" }
    /\ held \in Block \cup {Null}
    /\ held # Null <=> wpc \in { "loop", "exec" }
    /\ running \in BOOLEAN /\ pending \in BOOLEAN
    /\ driver_state \in State

\* The type in three parts,
LEMMA TypedParts == Typed <=> Tables /\ Creating /\ Working
  BY DEF Typed, TypeOK, Tables, Creating, Working, Links, Entry

\* and after a step.
LEMMA TypedNext == (Tables /\ Creating /\ Working)' => Typed'
  BY DEF Typed, TypeOK, Tables, Creating, Working, Links, Entry

\* Blocks that were blanked are tasks still.
LEMMA BlankedTyped ==
    ASSUME Tables, NEW bs
    PROVE  Blanked(bs) \in [Block -> [event : Event \cup {Null}, high : BOOLEAN]]
  BY DEF Blanked, Blank, Tables

\* The head of a list is a block, or there is none.
LEMMA HeadTyped ==
    ASSUME NEW h \in Links, NEW l \in List
    PROVE  QueueGetHead(h, l) \in Block \cup {Null}
  BY Entries, LinkTyped DEF QueueGetHead

\* The types hold at first.
LEMMA InitTyped == Init => Typed
<1> SUFFICES ASSUME Init PROVE Typed
  OBVIOUS
<1>1. links = PutAll(Bare, "task_free_pool", Array)
  BY DEF Init, Bare
<1>2. links \in Links
  BY <1>1, PoolFilled DEF Reads
<1>3. task \in [Block -> [event : Event \cup {Null}, high : BOOLEAN]]
  BY DEF Init, Blank
<1>4. Creating
  BY DEF Init, Creating, Wanting
<1>5. Working
  BY DEF Init, Working, State
<1> QED BY <1>2, <1>3, <1>4, <1>5, TypedParts DEF Tables

\* Each action keeps them: a creator takes a block,
LEMMA PopTyped ==
    ASSUME Typed, NEW t \in Thread, Create_Pop(t)
    PROVE  Typed'
<1>1. Tables /\ Creating /\ Working /\ pc[t] = "idle"
  BY TypedParts DEF Create_Pop, Free
<1>2. PICK r \in Request :
        LET b == QueueGetHead(links, "task_free_pool") IN
         /\ links' = QueueRemoveHead(links, "task_free_pool")
         /\ hand' = [hand EXCEPT ![t] = b]
         /\ IF b # Null THEN Goto(t, "fill")
            ELSE IF r.high THEN Goto(t, "steal")
            ELSE Goto(t, "idle")
         /\ req' = [req EXCEPT ![t] = IF b # Null \/ r.high THEN r ELSE Null]
  BY DEF Create_Pop
<1>3. UNCHANGED << task, tail, worklet, driver_state >>
  BY DEF Create_Pop
<1> DEFINE b == QueueGetHead(links, "task_free_pool")
<1>4. b \in Block \cup {Null} /\ links' \in Links
  BY <1>1, <1>2, Entries, HeadTyped, RemoveHeadTyped DEF Tables
<1>5. /\ hand' = [hand EXCEPT ![t] = b]
      /\ IF b # Null THEN Goto(t, "fill")
         ELSE IF r.high THEN Goto(t, "steal")
         ELSE Goto(t, "idle")
      /\ req' = [req EXCEPT ![t] = IF b # Null \/ r.high THEN r ELSE Null]
  BY <1>2
<1> HIDE DEF b
<1>6. Tables'
  BY <1>1, <1>3, <1>4 DEF Tables
<1>7. Creating'
  <2>1. CASE b # Null
    BY <2>1, <1>1, <1>3, <1>4, <1>5 DEF Creating, Wanting, Goto
  <2>2. CASE b = Null /\ r.high
    BY <2>2, <1>1, <1>3, <1>4, <1>5 DEF Creating, Wanting, Goto
  <2>3. CASE b = Null /\ ~r.high
    BY <2>3, <1>1, <1>3, <1>4, <1>5 DEF Creating, Wanting, Goto
  <2> QED BY <2>1, <2>2, <2>3
<1>8. Working'
  BY <1>1, <1>3 DEF Working, worklet
<1>9. (Tables /\ Creating /\ Working)'
  BY <1>6, <1>7, <1>8
<1> QED BY <1>9, TypedNext

\* steals one,
LEMMA StealTyped ==
    ASSUME Typed, NEW t \in Thread, Create_Steal(t)
    PROVE  Typed'
<1>1. Tables /\ Creating /\ Working
  BY TypedParts
<1> DEFINE b == QueueGetHead(links, "task_list")
<1>2. b \in Block \cup {Null} /\ links' \in Links /\ task' = Blanked({b})
  BY <1>1, Entries, HeadTyped, RemoveHeadTyped DEF Tables, Create_Steal
<1>3. /\ pc[t] = "steal" /\ hand' = [hand EXCEPT ![t] = b]
      /\ IF b = Null THEN Goto(t, "idle") /\ req' = [req EXCEPT ![t] = Null]
                     ELSE Goto(t, "fill") /\ UNCHANGED req
      /\ UNCHANGED << tail, worklet, driver_state >>
  BY DEF Create_Steal
<1> HIDE DEF b
<1>4. Tables'
  BY <1>1, <1>2, BlankedTyped DEF Tables
<1>5. Creating'
  <2>1. CASE b # Null
    BY <2>1, <1>1, <1>2, <1>3 DEF Creating, Wanting, Goto
  <2>2. CASE b = Null
    BY <2>2, <1>1, <1>2, <1>3 DEF Creating, Wanting, Goto
  <2> QED BY <2>1, <2>2
<1>6. Working'
  BY <1>1, <1>3 DEF Working, worklet
<1>7. (Tables /\ Creating /\ Working)'
  BY <1>4, <1>5, <1>6
<1> QED BY <1>7, TypedNext

\* fills it, or has no memory and reads the tail of the pool,
LEMMA FillTyped ==
    ASSUME Typed, NEW t \in Thread, Create_Fill(t)
    PROVE  Typed'
<1>1. Tables /\ Creating /\ Working
  BY TypedParts
<1>2. pc[t] = "fill" /\ UNCHANGED << links, req, hand, worklet, driver_state >>
  BY DEF Create_Fill
<1>3. hand[t] \in Block /\ req[t] \in Request
  BY <1>1, <1>2 DEF Creating, Wanting
<1>4. Working'
  BY <1>1, <1>2 DEF Working, worklet
<1>5. CASE /\ Goto(t, "insert")
           /\ task' = [task EXCEPT ![hand[t]] = [event |-> req[t].event, high |-> req[t].high]]
           /\ UNCHANGED tail
  <2>1. req[t].event \in Event /\ req[t].high \in BOOLEAN
    BY <1>3, TaskAssumption DEF Event
  <2>2. Tables'
    BY <1>1, <1>2, <1>5, <1>3, <2>1 DEF Tables
  <2>3. Creating'
    BY <1>1, <1>2, <1>3, <1>5 DEF Creating, Wanting, Goto
  <2>4. (Tables /\ Creating /\ Working)'
    BY <1>4, <2>2, <2>3
  <2> QED BY <2>4, TypedNext
<1>6. CASE /\ Goto(t, "give")
           /\ tail' = [tail EXCEPT ![t] = links["task_free_pool"].blink]
           /\ UNCHANGED task
  <2> DEFINE x == links["task_free_pool"].blink
  <2>1. x \in Block \cup {Null}
    BY <1>1, Entries, LinkTyped DEF Tables
  <2>2. Tables'
    BY <1>1, <1>2, <1>6 DEF Tables
  <2>3. tail' = [tail EXCEPT ![t] = x]
    BY <1>6
  <2> HIDE DEF x
  <2>4. Creating'
    BY <1>1, <1>2, <1>3, <1>6, <2>1, <2>3 DEF Creating, Wanting, Goto
  <2>5. (Tables /\ Creating /\ Working)'
    BY <1>4, <2>2, <2>4
  <2> QED BY <2>5, TypedNext
<1> QED BY <1>2, <1>5, <1>6 DEF Create_Fill

\* gives it back behind the tail it has read, whatever became of that,
LEMMA GiveTyped ==
    ASSUME Typed, NEW t \in Thread, Create_Give(t)
    PROVE  Typed'
<1>1. Tables /\ Creating /\ Working
  BY TypedParts
<1>2. /\ pc[t] = "give" /\ links' = PutBehind(links, "task_free_pool", tail[t], hand[t])
      /\ Goto(t, "idle") /\ req' = [req EXCEPT ![t] = Null]
      /\ hand' = [hand EXCEPT ![t] = Null] /\ tail' = [tail EXCEPT ![t] = Null]
      /\ UNCHANGED << task, worklet, driver_state >>
  BY DEF Create_Give
<1>3. hand[t] \in Block /\ tail[t] \in Block \cup {Null}
  BY <1>1, <1>2 DEF Creating
<1>4. links' \in Links
  BY <1>1, <1>2, <1>3, Entries, PutBehindTyped DEF Tables
<1>5. Tables'
  BY <1>1, <1>2, <1>4 DEF Tables
<1>6. Creating'
  BY <1>1, <1>2 DEF Creating, Wanting, Goto
<1>7. Working'
  BY <1>1, <1>2 DEF Working, worklet
<1>8. (Tables /\ Creating /\ Working)'
  BY <1>5, <1>6, <1>7
<1> QED BY <1>8, TypedNext

\* inserts it,
LEMMA InsertTyped ==
    ASSUME Typed, NEW t \in Thread, Create_Insert(t)
    PROVE  Typed'
<1>1. Tables /\ Creating /\ Working
  BY TypedParts
<1> DEFINE l == IF req[t].high THEN "task_list_high" ELSE "task_list"
<1>2. /\ pc[t] = "insert" /\ links' = QueuePutTail(links, l, hand[t])
      /\ Goto(t, "schedule") /\ req' = [req EXCEPT ![t] = Null]
      /\ hand' = [hand EXCEPT ![t] = Null]
      /\ UNCHANGED << task, tail, worklet, driver_state >>
  BY DEF Create_Insert
<1>3. hand[t] \in Block /\ l \in List
  BY <1>1, <1>2, Entries DEF Creating
<1> HIDE DEF l
<1>4. links' \in Links
  BY <1>1, <1>2, <1>3, PutTailTyped DEF Tables
<1>5. Tables'
  BY <1>1, <1>2, <1>4 DEF Tables
<1>6. Creating'
  BY <1>1, <1>2 DEF Creating, Wanting, Goto
<1>7. Working'
  BY <1>1, <1>2 DEF Working, worklet
<1>8. (Tables /\ Creating /\ Working)'
  BY <1>5, <1>6, <1>7
<1> QED BY <1>8, TypedNext

\* and has the work queued.
LEMMA ScheduleTyped ==
    ASSUME Typed, NEW t \in Thread, Create_Schedule(t)
    PROVE  Typed'
<1>1. Tables /\ Creating /\ Working
  BY TypedParts
<1>2. Tables'
  BY <1>1 DEF Tables, Create_Schedule
<1>3. Creating'
  BY <1>1 DEF Creating, Wanting, Create_Schedule, Goto
<1>4. Working'
  BY <1>1 DEF Working, Create_Schedule
<1>5. (Tables /\ Creating /\ Working)'
  BY <1>2, <1>3, <1>4
<1> QED BY <1>5, TypedNext

\* What only moves blocks between the lists.
LEMMA MovesTyped ==
    ASSUME Typed, links' \in Links, NEW bs, task' = Blanked(bs),
           UNCHANGED << creators, worklet, driver_state >>
    PROVE  Typed'
<1>1. Tables /\ Creating /\ Working
  BY TypedParts
<1>2. Tables'
  BY <1>1, BlankedTyped DEF Tables
<1>3. Creating'
  BY <1>1 DEF Creating, Wanting, creators
<1>4. Working'
  BY <1>1 DEF Working, worklet
<1>5. (Tables /\ Creating /\ Working)'
  BY <1>2, <1>3, <1>4
<1> QED BY <1>5, TypedNext

\* A task is removed,
LEMMA RemoveExistTyped ==
    ASSUME Typed, NEW t \in Thread, Task_RemoveExistTask(t)
    PROVE  Typed'
<1>1. Tables
  BY TypedParts
<1>2. PICK e \in Removable, l \in { "task_list", "task_list_high" } :
        \E i \in 1..Len(Waiting(l)) :
          LET b == Waiting(l)[i] IN
          /\ Found(e, l, i)
          /\ links' = QueuePutTail(QueueRemoveEle(links, "task_list_high", b), "task_free_pool", b)
          /\ task' = Blanked({b})
  BY DEF Task_RemoveExistTask
<1>3. PICK i \in 1..Len(Waiting(l)) :
        /\ links' = QueuePutTail(QueueRemoveEle(links, "task_list_high", Waiting(l)[i]),
                                 "task_free_pool", Waiting(l)[i])
        /\ task' = Blanked({Waiting(l)[i]})
  BY <1>2
<1>4. l \in List /\ "task_list_high" \in List /\ "task_free_pool" \in List
  BY Entries
<1>5. Waiting(l) \in Seq(Block)
  BY <1>1, <1>4, ChainTyped DEF Waiting, Tables
<1>6. Waiting(l)[i] \in Block
  BY <1>5
<1>7. links' \in Links
  <2>1. QueueRemoveEle(links, "task_list_high", Waiting(l)[i]) \in Links
    BY <1>1, <1>4, <1>6, RemoveEleTyped DEF Tables
  <2> QED BY <2>1, <1>3, <1>4, <1>6, PutTailTyped
<1>8. UNCHANGED << creators, worklet, driver_state >>
  BY DEF Task_RemoveExistTask
<1> QED BY <1>3, <1>7, <1>8, MovesTyped

\* or all management frames,
LEMMA RemoveMngTyped ==
    ASSUME Typed, NEW t \in Thread, Task_RemoveAllMngFrameTask(t)
    PROVE  Typed'
<1> DEFINE mng == { b \in Queued : task[b].event = "CALL_MANAGEMENT" }
           g == FreeAll(links, "task_list", mng)
<1>1. links \in Links /\ "task_list_high" \in List /\ "task_list" \in List
  BY TypedParts, Entries DEF Tables
<1>2. /\ links' = FreeAll(g, "task_list_high", mng) /\ task' = Blanked(mng)
      /\ UNCHANGED << creators, worklet, driver_state >>
  BY DEF Task_RemoveAllMngFrameTask
<1> HIDE DEF mng
<1>3. g \in Links
  BY <1>1, FreeAllTyped
<1> HIDE DEF g
<1>4. links' \in Links
  BY <1>1, <1>2, <1>3, FreeAllTyped
<1> QED BY <1>2, <1>4, MovesTyped

\* or all tasks.
LEMMA ResetTyped ==
    ASSUME Typed, NEW t \in Thread, Task_Reset(t)
    PROVE  Typed'
<1> DEFINE g == FreeAll(links, "task_list_high", Queued)
<1>1. links \in Links /\ "task_list_high" \in List /\ "task_list" \in List
  BY TypedParts, Entries DEF Tables
<1>2. /\ links' = FreeAll(g, "task_list", Queued) /\ task' = Blanked(Queued)
      /\ UNCHANGED << creators, worklet, driver_state >>
  BY DEF Task_Reset
<1>3. g \in Links
  BY <1>1, FreeAllTyped
<1> HIDE DEF g
<1>4. links' \in Links
  BY <1>1, <1>2, <1>3, FreeAllTyped
<1> QED BY <1>2, <1>4, MovesTyped

\* The next task is taken from the links h.
LEMMA PopNextTyped ==
    ASSUME NEW h \in Links, PopNext(h)
    PROVE  /\ links' \in Links /\ held' \in Block \cup {Null} /\ wpc' \in { "loop", "end" }
           /\ held' # Null <=> wpc' = "loop"
<1> DEFINE l == IF QueueGetHead(h, "task_list_high") # Null THEN "task_list_high"
                ELSE "task_list"
<1>1. /\ held' = QueueGetHead(h, l) /\ links' = QueueRemoveHead(h, l)
      /\ wpc' = IF QueueGetHead(h, l) = Null THEN "end" ELSE "loop"
  BY DEF PopNext
<1>2. l \in List
  BY Entries
<1> HIDE DEF l
<1> QED BY <1>1, <1>2, HeadTyped, RemoveHeadTyped

\* The worklet does its work; the state of the driver changes.
LEMMA WorkTyped ==
    ASSUME Typed, WorkStep \/ Thread_Done \/ Driver_State
    PROVE  Typed'
<1>1. Tables /\ Creating /\ Working
  BY TypedParts
<1>2. Creating'
  <2>1. UNCHANGED creators
    BY DEF WorkStep, Worklet_Routine, Worklet_Return, Thread_Check, Thread_Pop, Thread_PutBack,
           Thread_Discard, Thread_Exec, Thread_Done, Driver_State
  <2> QED BY <1>1, <2>1 DEF Creating, Wanting, creators
<1>3. Tables' /\ Working'
  <2>1. CASE Worklet_Routine \/ Worklet_Return \/ Thread_Check
    BY <2>1, <1>1 DEF Worklet_Routine, Worklet_Return, Thread_Check, Tables, Working
  <2>2. CASE Thread_Exec
    BY <2>2, <1>1 DEF Thread_Exec, Tables, Working
  <2>3. CASE Driver_State
    BY <2>3, <1>1 DEF Driver_State, Tables, Working, worklet
  <2>4. CASE Thread_Pop
    <3>1. links' \in Links /\ held' \in Block \cup {Null} /\ wpc' \in { "loop", "end" }
          /\ (held' # Null <=> wpc' = "loop")
      BY <2>4, <1>1, PopNextTyped DEF Thread_Pop, Tables
    <3> QED BY <3>1, <2>4, <1>1 DEF Thread_Pop, Tables, Working
  <2>5. CASE Thread_PutBack
    <3> DEFINE l == IF task[held].high THEN "task_list_high" ELSE "task_list"
    <3>1. /\ wpc = "loop" /\ links' = QueuePushHead(links, l, held) /\ held' = Null /\ wpc' = "end"
          /\ UNCHANGED << task, creators, running, pending, driver_state >>
      BY <2>5 DEF Thread_PutBack
    <3>2. l \in List /\ held \in Block
      BY <3>1, <1>1, Entries DEF Working
    <3> HIDE DEF l
    <3>3. links' \in Links
      BY <3>1, <3>2, <1>1, PushHeadTyped DEF Tables
    <3> QED BY <3>1, <3>3, <1>1 DEF Tables, Working
  <2>6. CASE Thread_Discard \/ Thread_Done
    <3>1. /\ wpc \in { "loop", "exec" } /\ PopNext(Freed) /\ task' = Blanked({held})
          /\ UNCHANGED << creators, running, pending, driver_state >>
      BY <2>6 DEF Thread_Discard, Thread_Done
    <3>2. Freed \in Links
      BY <3>1, <1>1, Entries, PutTailTyped DEF Freed, Tables, Working
    <3>3. links' \in Links /\ held' \in Block \cup {Null} /\ wpc' \in { "loop", "end" }
          /\ (held' # Null <=> wpc' = "loop")
      BY <3>1, <3>2, PopNextTyped
    <3>4. Tables'
      BY <3>1, <3>3, <1>1, BlankedTyped DEF Tables
    <3> QED BY <3>1, <3>3, <3>4, <1>1 DEF Working
  <2> QED BY <2>1, <2>2, <2>3, <2>4, <2>5, <2>6 DEF WorkStep
<1>4. (Tables /\ Creating /\ Working)'
  BY <1>2, <1>3
<1> QED BY <1>4, TypedNext

\* A stuttering step.
LEMMA StaysTyped ==
    ASSUME Typed, UNCHANGED vars
    PROVE  Typed'
  BY DEF Typed, TypeOK, Wanting, vars, creators, worklet

\* Every step keeps the types.
LEMMA NextTyped ==
    ASSUME Typed, [Next]_vars
    PROVE  Typed'
<1>1. CASE UNCHANGED vars
  BY <1>1, StaysTyped
<1>2. ASSUME NEW t \in Thread, Create_Pop(t) \/ CreateStep(t) \/ Task_RemoveExistTask(t)
                                 \/ Task_RemoveAllMngFrameTask(t) \/ Task_Reset(t)
      PROVE  Typed'
  BY <1>2, PopTyped, StealTyped, FillTyped, GiveTyped, InsertTyped, ScheduleTyped, RemoveExistTyped,
     RemoveMngTyped, ResetTyped DEF CreateStep
<1> QED BY <1>1, <1>2, WorkTyped DEF Next

\* Whatever the creators, the worklet and those who remove tasks do, the links
\* lead from blocks to blocks, a creator holds a block exactly from when it has
\* popped one until it has added it, and the worklet while it looks at a task
\* (usbwlan_Task.c:351-490, 800-1205).
THEOREM TasksTyped == Spec => []TypeOK
<1>1. Typed /\ [Next]_vars => Typed'
  BY NextTyped
<1>2. Typed => TypeOK
  BY DEF Typed
<1> QED BY <1>1, <1>2, InitTyped, PTL DEF Spec

-----------------------------------------------------------------------------
(* The invariant.                                                          *)

\* No block is in two hands.
Distinct ==
    /\ \A t, u \in Thread : hand[t] = hand[u] /\ hand[t] # Null => t = u
    /\ \A t \in Thread : hand[t] # Null => hand[t] # held

\* k says what the blocks of the lists w hold: what may be removed waits in
\* the high list.
Right(w, k) ==
    /\ \A b \in In(w["task_list_high"]) : k[b].event \in Removable => k[b].high
    /\ \A b \in In(w["task_list"]) : k[b].event \notin Removable

\* So will the task the worklet holds, if it is put back, and the one a
\* creator has filled.
HandsRight ==
    /\ held # Null /\ task[held].event \in Removable => task[held].high
    /\ \A t \in Thread :
          pc[t] = "insert" => task[hand[t]] = [event |-> req[t].event, high |-> req[t].high]

Sound ==
    /\ Reads(links, Lists)
    /\ Distinct
    /\ InHand = Outside(Lists)
    /\ Right(Lists, task)
    /\ HandsRight

\* What the links read as after a step.
LEMMA ListsNext ==
    ASSUME NEW v, Reads(links', v)
    PROVE  Lists' = v
<1>1. v = [l \in List |-> Chain(links', l)]
  BY ReadBack
<1> QED BY <1>1 DEF Lists, Waiting

\* The invariant after a step, from what the links read as.
LEMMA SoundNext ==
    ASSUME NEW v, Reads(links', v), Distinct', InHand' = Outside(v), Right(v, task'), HandsRight'
    PROVE  Sound'
<1>1. Lists' = v
  BY ListsNext
<1> QED BY <1>1 DEF Sound, Right

\* One list of the three.
LEMMA ListsRead == \A l \in List : Lists[l] = Waiting(l)
  BY DEF Lists

\* Nothing changes for the queue.
Same == /\ UNCHANGED << links, hand, held >>

\* The abstract queue stutters,
LEMMA MapSame ==
    ASSUME Same
    PROVE  UNCHANGED Queue!qvars
<1>1. InHand' = InHand
  BY DEF Same, InHand
<1>2. \A l \in List : Waiting(l)' = Waiting(l)
  BY DEF Same, Waiting
<1> QED BY <1>1, <1>2, Entries DEF Queue!qvars

\* and the invariant needs only what the tasks are.
LEMMA SoundSame ==
    ASSUME Sound, Same, Right(Lists, task'), HandsRight'
    PROVE  Sound'
<1>1. Reads(links', Lists) /\ InHand' = InHand /\ Distinct'
  BY DEF Sound, Same, InHand, Distinct
<1>2. InHand' = Outside(Lists)
  BY <1>1 DEF Sound
<1> QED BY <1>1, <1>2, SoundNext

\* A creator takes a block or gives one away.
LEMMA HandTurns ==
    ASSUME Typed, Distinct, NEW t \in Thread, NEW x, x = Null \/ x \in Block \ InHand,
           hand' = [hand EXCEPT ![t] = x], held' = held
    PROVE  InHand' = (InHand \ {hand[t]}) \cup ({x} \ {Null}) /\ Distinct'
<1>1. hand \in [Thread -> Block \cup {Null}] /\ held \in Block \cup {Null} /\ Null \notin Block
  BY Entries DEF Typed, TypeOK
<1>2. hand'[t] = x /\ \A u \in Thread : u # t => hand'[u] = hand[u]
  BY <1>1
<1>3. \A u \in Thread : hand[u] # Null => hand[u] \in InHand
  BY DEF InHand
<1>4. held # Null => held \in InHand
  BY DEF InHand
<1>5. Distinct'
  BY <1>2, <1>3, <1>4 DEF Distinct
<1>6. ASSUME NEW b PROVE b \in InHand' <=> b \in (InHand \ {hand[t]}) \cup ({x} \ {Null})
  <2>1. b \in InHand' <=> b # Null /\ ((\E u \in Thread : hand'[u] = b) \/ held' = b)
    BY DEF InHand
  <2>2. b \in InHand <=> b # Null /\ ((\E u \in Thread : hand[u] = b) \/ held = b)
    BY DEF InHand
  <2>3. CASE b = x
    BY <2>3, <2>1, <2>2, <1>2
  <2>4. CASE b # x /\ b = hand[t]
    <3>1. b # Null => ~(\E u \in Thread : hand'[u] = b) /\ held' # b
      BY <2>4, <1>2 DEF Distinct
    <3> QED BY <3>1, <2>1, <2>4
  <2>5. CASE b # x /\ b # hand[t]
    <3>1. (\E u \in Thread : hand'[u] = b) <=> (\E u \in Thread : hand[u] = b)
      BY <2>5, <1>2
    <3> QED BY <3>1, <2>1, <2>2, <2>5
  <2> QED BY <2>3, <2>4, <2>5
<1> QED BY <1>5, <1>6

\* The worklet does.
LEMMA HeldTurns ==
    ASSUME Typed, Distinct, NEW x, x = Null \/ x \in Block \ InHand,
           hand' = hand, held' = x
    PROVE  InHand' = (InHand \ {held}) \cup ({x} \ {Null}) /\ Distinct'
<1>1. Null \notin Block
  BY Entries
<1>2. \A u \in Thread : hand[u] # Null => hand[u] \in InHand
  BY DEF InHand
<1>3. Distinct'
  BY <1>1, <1>2 DEF Distinct
<1>4. ASSUME NEW b PROVE b \in InHand' <=> b \in (InHand \ {held}) \cup ({x} \ {Null})
  <2>1. b \in InHand' <=> b # Null /\ ((\E u \in Thread : hand[u] = b) \/ x = b)
    BY DEF InHand
  <2>2. b \in InHand <=> b # Null /\ ((\E u \in Thread : hand[u] = b) \/ held = b)
    BY DEF InHand
  <2>3. b # Null => ~(b = held /\ \E u \in Thread : hand[u] = b)
    BY DEF Distinct
  <2> QED BY <2>1, <2>2, <2>3
<1> QED BY <1>3, <1>4

\* Blocks in somebody's hands.
LEMMA InHandFacts ==
    ASSUME Typed, Sound
    PROVE  /\ \A t \in Thread : hand[t] # Null => hand[t] \in InHand /\ hand[t] \in Outside(Lists)
           /\ held # Null => held \in InHand /\ held \in Outside(Lists)
           /\ \A l \in List : \A b \in In(Lists[l]) : b \notin InHand /\ b \in Block
<1>1. InHand = Outside(Lists) /\ Lists \in Rows
  BY DEF Sound, Reads
<1>2. \A t \in Thread : hand[t] # Null => hand[t] \in InHand
  BY DEF InHand
<1>3. held # Null => held \in InHand
  BY DEF InHand
<1>4. ASSUME NEW l \in List, NEW b \in In(Lists[l]) PROVE b \notin InHand /\ b \in Block
  <2>1. b \notin Outside(Lists)
    BY <1>4 DEF Outside, Loose
  <2>2. Lists[l] \in Row
    BY <1>1 DEF Rows
  <2>3. In(Lists[l]) \subseteq Block
    BY <2>2, InRow
  <2> QED BY <1>1, <2>1, <2>3
<1> QED BY <1>1, <1>2, <1>3, <1>4

QStep == Queue!QNext \/ UNCHANGED Queue!qvars

\* The work is queued: nothing changes for the lists.
LEMMA ScheduleSound ==
    ASSUME Typed, Sound, NEW t \in Thread, Create_Schedule(t)
    PROVE  Sound' /\ QStep
<1>1. Same /\ task' = task
  BY DEF Create_Schedule, Same
<1>2. Right(Lists, task')
  BY <1>1 DEF Sound
<1>3. HandsRight'
  BY <1>1 DEF Sound, HandsRight, Create_Schedule, Goto, Same, Typed, TypeOK
<1> QED BY <1>1, <1>2, <1>3, SoundSame, MapSame DEF QStep

\* Nor does anything while the worklet or the driver only changes its state.
LEMMA QuietSound ==
    ASSUME Typed, Sound, Worklet_Routine \/ Worklet_Return \/ Thread_Check \/ Thread_Exec \/ Driver_State
    PROVE  Sound' /\ QStep
<1>1. Same /\ task' = task /\ UNCHANGED << pc, req >>
  BY DEF Worklet_Routine, Worklet_Return, Thread_Check, Thread_Exec, Driver_State, Same,
         creators, worklet
<1>2. Right(Lists, task')
  BY <1>1 DEF Sound
<1>3. HandsRight'
  BY <1>1 DEF Sound, HandsRight, Same
<1> QED BY <1>1, <1>2, <1>3, SoundSame, MapSame DEF QStep

\* A step that changes what the queue reads.
LEMMA PopSound ==
    ASSUME Typed, Sound, NEW t \in Thread, Create_Pop(t)
    PROVE  Sound' /\ QStep
<1> DEFINE F == "task_free_pool"
           w == Lists
           b == QueueGetHead(links, F)
<1>1. PICK r \in Request :
         /\ links' = QueueRemoveHead(links, F)
         /\ hand' = [hand EXCEPT ![t] = b]
         /\ IF b # Null THEN Goto(t, "fill")
            ELSE IF r.high THEN Goto(t, "steal")
            ELSE Goto(t, "idle")
         /\ req' = [req EXCEPT ![t] = IF b # Null \/ r.high THEN r ELSE Null]
  BY DEF Create_Pop
<1>2. pc[t] = "idle" /\ task' = task /\ held' = held
  BY DEF Create_Pop, Free, worklet
<1>3. Reads(links, w) /\ F \in List /\ hand[t] = Null
  BY <1>2, Entries DEF Sound, Typed, TypeOK
<1>4. Right(w, task') /\ pc'[t] # "insert"
      /\ \A u \in Thread : u # t => pc'[u] = pc[u] /\ req'[u] = req[u] /\ hand'[u] = hand[u]
  BY <1>1, <1>2 DEF Sound, Typed, TypeOK, Goto
<1>5. HandsRight'
  BY <1>2, <1>4 DEF Sound, HandsRight
<1>6. CASE w[F] = << >>
  <2>1. b = Null /\ links' = links
    BY <1>1, <1>3, <1>6, HeadReads
  <2>2. hand' = hand
    BY <1>1, <1>3, <2>1 DEF Typed, TypeOK
  <2>3. Same
    BY <1>2, <2>1, <2>2 DEF Same
  <2> QED BY <1>4, <1>5, <2>3, SoundSame, MapSame DEF QStep
<1>7. CASE w[F] # << >>
  <2> DEFINE q == Tail(w[F])
             v == With(w, F, q)
  <2>1. /\ b = w[F][1] /\ b \in Block /\ b # Null /\ Reads(links', v)
        /\ In(q) = In(w[F]) \ {b} /\ b \in In(w[F]) /\ b \notin Outside(w)
        /\ Outside(v) = Outside(w) \cup {b}
    BY <1>1, <1>3, <1>7, TakenReads
  <2> HIDE DEF b
  <2>2. b \in Block \ InHand
    BY <2>1 DEF Sound
  <2>3. InHand' = InHand \cup {b} /\ Distinct'
    <3>1. hand' = [hand EXCEPT ![t] = b]
      BY <1>1 DEF b
    <3>2. InHand' = (InHand \ {hand[t]}) \cup ({b} \ {Null}) /\ Distinct'
      BY <3>1, <1>2, <2>2, HandTurns DEF Sound
    <3>3. Null \notin InHand
      BY DEF InHand
    <3> QED BY <3>2, <3>3, <1>3, <2>1
  <2>4. w \in Rows /\ q \in Row /\ v \in Rows
    <3>1. w \in Rows /\ v \in Rows
      BY <1>3, <2>1 DEF Reads
    <3>2. v[F] = q
      BY <3>1, <1>3 DEF With, Rows
    <3> QED BY <3>1, <3>2, <1>3 DEF Rows
  <2> HIDE DEF w, q
  <2>5. v[F] = q /\ v["task_list"] = w["task_list"] /\ v["task_list_high"] = w["task_list_high"]
    BY <2>4, Entries, WithOne
  <2> HIDE DEF v
  <2>6. Right(v, task')
    BY <1>4, <2>5 DEF Right
  <2>7. Sound'
    BY <1>5, <2>1, <2>3, <2>6, SoundNext DEF Sound, w
  <2>8. Queue!TakeFree
    BY <1>3, <2>1, <2>3, <2>5, MapTakeFree
  <2> QED BY <2>7, <2>8 DEF QStep, Queue!QNext
<1> QED BY <1>6, <1>7

\* A creator takes the oldest normal task, which leaves the queue.
LEMMA StealSound ==
    ASSUME Typed, Sound, NEW t \in Thread, Create_Steal(t)
    PROVE  Sound' /\ QStep
<1> DEFINE L == "task_list"
           w == Lists
           b == QueueGetHead(links, L)
<1>1. /\ links' = QueueRemoveHead(links, L)
      /\ hand' = [hand EXCEPT ![t] = b]
      /\ IF b = Null THEN Goto(t, "idle") /\ req' = [req EXCEPT ![t] = Null]
                     ELSE Goto(t, "fill") /\ UNCHANGED req
      /\ task' = Blanked({b})
  BY DEF Create_Steal
<1>2. pc[t] = "steal" /\ held' = held
  BY DEF Create_Steal, worklet
<1>3. Reads(links, w) /\ L \in List /\ hand[t] = Null
  BY <1>2, Entries DEF Sound, Typed, TypeOK
<1>4. /\ Right(w, task) /\ HandsRight /\ pc'[t] # "insert"
      /\ \A u \in Thread : u # t => pc'[u] = pc[u] /\ req'[u] = req[u] /\ hand'[u] = hand[u]
  BY <1>1, <1>2 DEF Sound, Typed, TypeOK, Goto
<1>5. CASE w[L] = << >>
  <2>1. b = Null /\ links' = links
    BY <1>1, <1>3, <1>5, HeadReads
  <2>2. hand' = hand
    BY <1>1, <1>3, <2>1 DEF Typed, TypeOK
  <2>3. Same
    BY <1>2, <2>1, <2>2 DEF Same
  <2>4. task' = task
    BY <1>1, <2>1, Entries DEF Blanked, Typed, TypeOK
  <2>5. HandsRight'
    BY <1>2, <1>4, <2>4 DEF HandsRight
  <2>6. Right(w, task')
    BY <1>4, <2>4
  <2> QED BY <2>3, <2>5, <2>6, SoundSame, MapSame DEF QStep
<1>6. CASE w[L] # << >>
  <2> DEFINE q == Tail(w[L])
             v == With(w, L, q)
  <2>1. /\ b = w[L][1] /\ b \in Block /\ b # Null /\ Reads(links', v)
        /\ In(q) = In(w[L]) \ {b} /\ b \in In(w[L]) /\ b \notin Outside(w)
        /\ Outside(v) = Outside(w) \cup {b}
    BY <1>1, <1>3, <1>6, TakenReads
  <2> HIDE DEF b
  <2>2. b \in Block \ InHand
    BY <2>1 DEF Sound
  <2>3. InHand' = InHand \cup {b} /\ Distinct'
    <3>1. hand' = [hand EXCEPT ![t] = b]
      BY <1>1 DEF b
    <3>2. InHand' = (InHand \ {hand[t]}) \cup ({b} \ {Null}) /\ Distinct'
      BY <3>1, <1>2, <2>2, HandTurns DEF Sound
    <3>3. Null \notin InHand
      BY DEF InHand
    <3> QED BY <3>2, <3>3, <1>3, <2>1
  <2>4. w \in Rows /\ q \in Row /\ v \in Rows
    <3>1. w \in Rows /\ v \in Rows
      BY <1>3, <2>1 DEF Reads
    <3>2. v[L] = q
      BY <3>1, <1>3 DEF With, Rows
    <3> QED BY <3>1, <3>2, <1>3 DEF Rows
  <2>4a. b \notin In(w["task_list_high"])
    BY <1>3, <2>1, Entries DEF Reads
  <2>4b. \A x \in Block : x # b => task'[x] = task[x]
    BY <1>1 DEF Blanked, b
  <2>4c. In(w["task_list_high"]) \subseteq Block /\ In(w[L]) \subseteq Block
    BY <2>4, Entries, InRow DEF Rows
  <2>4d. /\ held # Null => held \in Block /\ held # b
         /\ \A u \in Thread : hand[u] # Null => hand[u] \in Block /\ hand[u] # b
         /\ \A u \in Thread : pc[u] = "insert" => hand[u] # Null
    BY <2>2, InHandFacts DEF Typed, TypeOK
  <2> HIDE DEF w, q
  <2>5. v[L] = q /\ v["task_free_pool"] = w["task_free_pool"] /\ v["task_list_high"] = w["task_list_high"]
    BY <2>4, Entries, WithOne
  <2> HIDE DEF v
  <2>6. Right(v, task')
    BY <1>4, <2>1, <2>5, <2>4a, <2>4b, <2>4c DEF Right
  <2>7. HandsRight'
    BY <1>2, <1>4, <2>4b, <2>4d DEF HandsRight
  <2>8. Sound'
    BY <2>1, <2>3, <2>6, <2>7, SoundNext DEF Sound, w
  <2>9. Queue!TakeNormal
    BY <1>3, <1>6, <2>1, <2>3, <2>5, MapTakeNormal DEF q
  <2> QED BY <2>8, <2>9 DEF QStep, Queue!QNext
<1> QED BY <1>5, <1>6

\* A creator's block goes to list l, or into the pool.
LEMMA GiveReads ==
    ASSUME Typed, Sound, NEW t \in Thread, hand[t] # Null, NEW l \in List,
           links' = QueuePutTail(links, l, hand[t]), hand' = [hand EXCEPT ![t] = Null],
           held' = held
    PROVE  LET e == hand[t]
               v == With(Lists, l, Append(Lists[l], e))
           IN  /\ Reads(links', v) /\ InHand' = InHand \ {e} /\ Distinct' /\ InHand' = Outside(v)
               /\ e \in Block /\ e \in InHand /\ In(Append(Lists[l], e)) = In(Lists[l]) \cup {e}
               /\ v[l] = Append(Lists[l], e) /\ \A k \in List : k # l => v[k] = Lists[k]
<1> DEFINE e == hand[t]
           q == Append(Lists[l], e)
           v == With(Lists, l, q)
<1>1. /\ e \in Outside(Lists) /\ e \in InHand /\ Reads(links, Lists) /\ InHand = Outside(Lists)
      /\ e \in Block /\ Lists \in Rows
  BY InHandFacts DEF Sound, Outside, Reads
<1>2. /\ Reads(links', v) /\ q \in Row /\ In(q) = In(Lists[l]) \cup {e}
      /\ Outside(v) = Outside(Lists) \ {e}
  BY <1>1, AddedReads
<1>3. InHand' = (InHand \ {e}) \cup ({Null} \ {Null}) /\ Distinct'
  BY HandTurns DEF Sound
<1> HIDE DEF q
<1>4. v[l] = q /\ \A k \in List : k # l => v[k] = Lists[k]
  BY <1>1, <1>2, WithOne
<1> HIDE DEF v, e
<1> QED BY <1>1, <1>2, <1>3, <1>4 DEF q, v, e

\* A creator fills its block, or only reads the tail of the pool.
LEMMA FillSound ==
    ASSUME Typed, Sound, NEW t \in Thread, Create_Fill(t)
    PROVE  Sound' /\ QStep
<1>1. /\ pc[t] = "fill" /\ held' = held /\ hand[t] # Null /\ hand[t] \in Block
      /\ UNCHANGED << links, req, hand >>
  BY DEF Create_Fill, worklet, Typed, TypeOK
<1>2. CASE /\ Goto(t, "insert")
           /\ task' = [task EXCEPT ![hand[t]] = [event |-> req[t].event, high |-> req[t].high]]
           /\ UNCHANGED tail
  <2>1. Same
    BY <1>1, <1>2 DEF Same
  <2>2. task'[hand[t]] = [event |-> req[t].event, high |-> req[t].high]
        /\ \A b \in Block : b # hand[t] => task'[b] = task[b]
    BY <1>1, <1>2 DEF Typed, TypeOK
  <2>3. "task_list" \in List /\ "task_list_high" \in List
    BY Entries
  <2>4. hand[t] \in InHand
    BY <1>1, InHandFacts
  <2>5. \A l \in List : \A b \in In(Lists[l]) : b \in Block /\ b # hand[t]
    BY <2>4, InHandFacts
  <2>6. Right(Lists, task')
    BY <2>2, <2>3, <2>5 DEF Sound, Right
  <2>7. held # Null => held \in Block /\ held # hand[t]
    BY <1>1 DEF Sound, Distinct, Typed, TypeOK
  <2>8. \A u \in Thread : u # t /\ pc[u] = "insert" => hand[u] \in Block /\ hand[u] # hand[t]
    BY <1>1 DEF Sound, Distinct, Typed, TypeOK
  <2>9. \A u \in Thread : u # t => pc'[u] = pc[u]
    BY <1>2 DEF Goto, Typed, TypeOK
  <2>10. HandsRight'
    BY <1>1, <1>2, <2>2, <2>7, <2>8, <2>9 DEF HandsRight, Sound
  <2> QED BY <2>1, <2>6, <2>10, SoundSame, MapSame DEF QStep
<1>3. CASE /\ Goto(t, "give")
           /\ tail' = [tail EXCEPT ![t] = links["task_free_pool"].blink]
           /\ UNCHANGED task
  <2>1. Same
    BY <1>1, <1>3 DEF Same
  <2>2. Right(Lists, task')
    BY <1>3 DEF Sound
  <2>3. pc'[t] # "insert" /\ \A u \in Thread : u # t => pc'[u] = pc[u]
    BY <1>3 DEF Typed, TypeOK, Goto
  <2>4. HandsRight'
    BY <1>1, <1>3, <2>3 DEF Sound, HandsRight
  <2> QED BY <2>1, <2>2, <2>4, SoundSame, MapSame DEF QStep
<1> QED BY <1>1, <1>2, <1>3 DEF Create_Fill

\* The tail a creator has read is still the tail of the pool when it stores the
\* links: what Alone is for.
TailKnown == \A t \in Thread : pc[t] = "give" => tail[t] = links["task_free_pool"].blink

\* A creator that has no memory gives its block back to the pool.
LEMMA GiveSound ==
    ASSUME Typed, Sound, TailKnown, NEW t \in Thread, Create_Give(t)
    PROVE  Sound' /\ QStep
<1>1. pc[t] = "give" /\ held' = held /\ hand[t] # Null /\ hand[t] \in Block
  BY DEF Create_Give, worklet, Typed, TypeOK
<1>2. tail[t] = links["task_free_pool"].blink
  BY <1>1 DEF TailKnown
<1>3. /\ links' = QueuePutTail(links, "task_free_pool", hand[t])
      /\ Goto(t, "idle")
      /\ req' = [req EXCEPT ![t] = Null]
      /\ hand' = [hand EXCEPT ![t] = Null]
      /\ UNCHANGED task
  BY <1>2 DEF Create_Give, QueuePutTail
<1> DEFINE e == hand[t]
           F == "task_free_pool"
           w == Lists
           v == With(w, F, Append(w[F], e))
<1>4. F \in List
  BY Entries
<1>5. /\ Reads(links', v) /\ InHand' = InHand \ {e} /\ Distinct' /\ InHand' = Outside(v)
      /\ e \in Block /\ e \in InHand /\ In(Append(w[F], e)) = In(w[F]) \cup {e}
      /\ v[F] = Append(w[F], e) /\ \A k \in List : k # F => v[k] = w[k]
  BY <1>1, <1>3, <1>4, GiveReads
<1> HIDE DEF v
<1>6. v["task_list"] = w["task_list"] /\ v["task_list_high"] = w["task_list_high"]
  BY <1>5, Entries
<1>7. Right(v, task')
  BY <1>3, <1>6 DEF Sound, Right
<1>8. pc'[t] # "insert"
      /\ \A u \in Thread : u # t => pc'[u] = pc[u] /\ req'[u] = req[u] /\ hand'[u] = hand[u]
  BY <1>3 DEF Typed, TypeOK, Goto
<1>9. HandsRight'
  BY <1>1, <1>3, <1>8 DEF Sound, HandsRight
<1>10. Sound'
  BY <1>5, <1>7, <1>9, SoundNext
<1>11. In(v[F]) = In(w[F]) \cup {e}
  BY <1>5
<1>12. Reads(links, w)
  BY DEF Sound
<1> HIDE DEF e, w
<1>13. PICK x \in Block : x = e
  BY <1>5
<1>14. /\ In(v[F]) = In(w[F]) \cup {x} /\ InHand' = InHand \ {x} /\ x \in InHand
  BY <1>5, <1>11, <1>13
<1>15. Queue!Release(x)
  BY <1>5, <1>6, <1>12, <1>14, MapRelease
<1> QED BY <1>10, <1>14, <1>15 DEF QStep, Queue!QNext

\* A creator inserts its block: what may be removed goes into the high list.
LEMMA InsertSound ==
    ASSUME RemovedAreHigh, Typed, Sound, NEW t \in Thread, Create_Insert(t)
    PROVE  Sound' /\ QStep
<1> DEFINE e == hand[t]
           l == IF req[t].high THEN "task_list_high" ELSE "task_list"
           w == Lists
           v == With(w, l, Append(w[l], e))
<1>1. /\ pc[t] = "insert" /\ held' = held /\ e # Null /\ e \in Block
      /\ links' = QueuePutTail(links, l, e) /\ hand' = [hand EXCEPT ![t] = Null]
      /\ task' = task /\ Goto(t, "schedule") /\ req' = [req EXCEPT ![t] = Null]
  BY DEF Create_Insert, worklet, Typed, TypeOK
<1>2. l \in List
  BY Entries
<1> HIDE DEF l
<1>3. /\ Reads(links', v) /\ InHand' = InHand \ {e} /\ Distinct' /\ InHand' = Outside(v)
      /\ e \in Block /\ e \in InHand /\ In(Append(w[l], e)) = In(w[l]) \cup {e}
      /\ v[l] = Append(w[l], e) /\ \A k \in List : k # l => v[k] = w[k]
  BY <1>1, <1>2, GiveReads
<1>4. In(v[l]) = In(w[l]) \cup {e}
  BY <1>3
<1> HIDE DEF v
<1>5. pc'[t] # "insert"
      /\ \A u \in Thread : u # t => pc'[u] = pc[u] /\ req'[u] = req[u] /\ hand'[u] = hand[u]
  BY <1>1 DEF Typed, TypeOK, Goto
<1>6. HandsRight'
  BY <1>1, <1>5 DEF Sound, HandsRight
<1>7. task[e] = [event |-> req[t].event, high |-> req[t].high] /\ req[t] \in Request
  BY <1>1 DEF Sound, HandsRight, Typed, Wanting
<1>8. req[t].event \in Removable => req[t].high
  BY <1>7 DEF RemovedAreHigh
<1>9. Right(w, task) /\ Reads(links, w)
  BY DEF Sound
<1>10. "task_list" \in List /\ "task_list_high" \in List /\ "task_free_pool" \in List
  BY Entries
<1> HIDE DEF w, e
<1>11. CASE req[t].high
  <2>1. l = "task_list_high"
    BY <1>11 DEF l
  <2>2. v["task_list"] = w["task_list"] /\ v["task_free_pool"] = w["task_free_pool"]
    BY <1>3, <1>10, <2>1
  <2>3. Right(v, task')
    BY <1>1, <1>4, <1>7, <1>9, <1>11, <2>1, <2>2 DEF Right
  <2>4. Queue!AddHigh(e)
    BY <1>3, <1>9, <2>1, <2>2, MapAddHigh
  <2> QED BY <1>3, <1>6, <2>3, <2>4, SoundNext DEF QStep, Queue!QNext
<1>12. CASE ~req[t].high
  <2>1. l = "task_list"
    BY <1>12 DEF l
  <2>2. v["task_list_high"] = w["task_list_high"] /\ v["task_free_pool"] = w["task_free_pool"]
    BY <1>3, <1>10, <2>1
  <2>3. Right(v, task')
    BY <1>1, <1>4, <1>7, <1>8, <1>9, <1>12, <2>1, <2>2 DEF Right
  <2>4. Queue!AddNormal(e)
    BY <1>3, <1>9, <2>1, <2>2, MapAddNormal
  <2> QED BY <1>3, <1>6, <2>3, <2>4, SoundNext DEF QStep, Queue!QNext
<1> QED BY <1>11, <1>12

\* One waiting task is removed.
LEMMA RemoveExistSound ==
    ASSUME Typed, Sound, NEW t \in Thread, Task_RemoveExistTask(t)
    PROVE  Sound' /\ QStep
<1> DEFINE F == "task_free_pool"
           N == "task_list"
           H == "task_list_high"
           w == Lists
           q == w[H]
<1>1. PICK e \in Removable, l \in { "task_list", "task_list_high" } :
        \E i \in 1..Len(Waiting(l)) :
          LET b == Waiting(l)[i] IN
          /\ Found(e, l, i)
          /\ links' = QueuePutTail(QueueRemoveEle(links, "task_list_high", b), "task_free_pool", b)
          /\ task' = Blanked({b})
  BY DEF Task_RemoveExistTask
<1>2. PICK i \in 1..Len(Waiting(l)) :
        /\ Found(e, l, i)
        /\ links' = QueuePutTail(QueueRemoveEle(links, H, Waiting(l)[i]), F, Waiting(l)[i])
        /\ task' = Blanked({Waiting(l)[i]})
  BY <1>1
<1>3. F \in List /\ N \in List /\ H \in List /\ l \in List /\ w \in Rows /\ w[l] = Waiting(l)
  BY Entries, ListsRead DEF Sound, Reads
<1>4. task[Waiting(l)[i]].event \in Removable
  BY <1>2 DEF Found
<1>5. Waiting(l)[i] \in In(w[l])
  BY <1>2, <1>3 DEF In
<1>6. l = H
  BY <1>1, <1>4, <1>5 DEF Sound, Right
<1>7. Waiting(l) = q
  BY <1>3, <1>6
<1> HIDE DEF w
<1>8. /\ q \in Row /\ i \in 1..Len(q) /\ Reads(links, w) /\ InHand = Outside(w)
      /\ Right(w, task) /\ HandsRight /\ Distinct
  BY <1>2, <1>3, <1>7 DEF Rows, Sound, w
<1>9. PICK b \in Block : b = q[i]
  BY <1>8, InRow
<1>10. /\ links' = QueuePutTail(QueueRemoveEle(links, H, b), F, b)
       /\ task' = Blanked({b})
  BY <1>2, <1>7, <1>9
<1> DEFINE g == QueueRemoveEle(links, H, b)
           p == Cut(q, i)
           v == With(w, H, p)
<1> HIDE DEF q
<1>11. TakenOut(links, H, w[H], i, g)
  BY <1>3, <1>8, <1>9, EleReads DEF q
<1> HIDE DEF g
<1>12. Reads(g, v) /\ In(p) = In(q) \ {b} /\ Loose(v, b)
  <2>1. i \in 1..Len(w[H]) /\ Reads(links, w) /\ H \in List
    BY <1>3, <1>8 DEF q
  <2>2. /\ Reads(g, With(w, H, Cut(w[H], i))) /\ In(Cut(w[H], i)) = In(w[H]) \ {w[H][i]}
        /\ Loose(With(w, H, Cut(w[H], i)), w[H][i])
    BY SMTT(60), <2>1, <1>11, CutReads
  <2> QED BY <2>2, <1>9 DEF q
<1>13. p \in Row
  BY <1>8, SeqCut
<1>14. b \in In(q)
  BY <1>8, <1>9 DEF In
<1> HIDE DEF p
<1>15. v[H] = p /\ v[F] = w[F] /\ v[N] = w[N]
  BY <1>3, <1>13, WithOne
<1> HIDE DEF v
<1> DEFINE r == Append(v[F], b)
           u == With(v, F, r)
<1>16. b \in Outside(v)
  BY <1>12 DEF Outside
<1>17. /\ Reads(links', u) /\ r \in Row /\ In(r) = In(v[F]) \cup {b}
       /\ Outside(u) = Outside(v) \ {b}
  BY <1>3, <1>10, <1>12, <1>16, AddedReads DEF g
<1> HIDE DEF r
<1>18. v \in Rows
  BY <1>12 DEF Reads
<1>19. u[F] = r /\ u[H] = p /\ u[N] = w[N]
  BY <1>3, <1>15, <1>17, <1>18, WithOne
<1> HIDE DEF u
<1>20. Outside(u) = Outside(w)
  <2>1. u \in Rows /\ \A l2 \in List : l2 = F \/ l2 = H \/ l2 = N
    BY <1>17 DEF Reads, List
  <2>2. \A x \in Block : Loose(u, x) <=> Loose(w, x)
    BY <2>1, <1>3, <1>12, <1>14, <1>15, <1>17, <1>19 DEF Loose, q
  <2> QED BY <2>2 DEF Outside
<1>21. hand' = hand /\ held' = held /\ pc' = pc /\ req' = req
  BY DEF Task_RemoveExistTask, creators, worklet
<1>22. InHand' = Outside(u) /\ Distinct' /\ InHand' = InHand
  BY <1>8, <1>20, <1>21 DEF InHand, Distinct
<1>23. \A x \in Block : x # b => task'[x] = task[x]
  BY <1>10 DEF Blanked
<1>24. b \notin In(p) /\ b \notin In(w[N]) /\ b \notin InHand
  <2>1. b \notin In(w[N])
    BY <1>3, <1>8, <1>14 DEF Reads, q
  <2>2. b \notin Outside(w)
    BY <1>3, <1>14 DEF Outside, Loose, q
  <2> QED BY <2>1, <2>2, <1>8, <1>12
<1>25. In(q) \subseteq Block /\ In(w[N]) \subseteq Block
  BY <1>3, <1>8, InRow DEF Rows
<1>26. Right(u, task')
  BY <1>8, <1>12, <1>19, <1>23, <1>24, <1>25 DEF Right, q
<1>27. /\ held # Null => held \in Block /\ held # b
       /\ \A x \in Thread : pc[x] = "insert" => hand[x] \in Block /\ hand[x] # b
  BY <1>24, InHandFacts DEF Typed, TypeOK
<1>28. HandsRight'
  BY <1>8, <1>21, <1>23, <1>27 DEF HandsRight
<1>29. Sound'
  BY <1>17, <1>22, <1>26, <1>28, SoundNext
<1>30. Queue!Remove
  <2> DEFINE k == [x \in 1..Len(w[N]) |-> x]
             m == [x \in 1..Len(q) |-> x]
  <2>1. w[N] \in Row /\ w[N] \in Seq(Block) /\ q \in Seq(Block)
    BY <1>3, <1>8, InRow DEF Rows
  <2>2. Keeping(k, w[N], 1..Len(w[N])) /\ Kept(k, w[N]) = w[N]
    BY <2>1, KeepAll
  <2>3. Keeping(m, q, 1..Len(q)) /\ Kept(m, q) = q
    BY <2>1, KeepAll
  <2>4. i \in 1..Len(m)
    BY <2>3, <1>8 DEF Keeping, Kept
  <2> HIDE DEF k, m
  <2>5. /\ Keeping(Cut(m, i), q, (1..Len(q)) \ {m[i]})
        /\ Kept(Cut(m, i), q) = p
    BY <1>8, <2>3, <2>4, KeepLess DEF p
  <2>6. In(u[F]) = In(w[F]) \cup (In(w[N]) \ In(u[N])) \cup (In(w[H]) \ In(u[H]))
    BY <1>12, <1>14, <1>15, <1>17, <1>19 DEF q
  <2>7. Reads(links', u) /\ u[N] = Kept(k, w[N]) /\ u[H] = Kept(Cut(m, i), w[H])
    BY <1>17, <1>19, <2>2, <2>5 DEF q
  <2>8. Keeping(Cut(m, i), w[H], (1..Len(q)) \ {m[i]})
    BY <2>5 DEF q
  <2> DEFINE S == (1..Len(q)) \ {m[i]}
             T == 1..Len(w[N])
             c == Cut(m, i)
  <2> HIDE DEF S, T, c
  <2>9. Keeping(k, w[N], T) /\ Keeping(c, w[H], S) /\ u[H] = Kept(c, w[H])
    BY <2>2, <2>7, <2>8 DEF S, T, c
  <2> QED BY <1>8, <1>22, <2>6, <2>7, <2>9, MapRemove
<1> QED BY <1>29, <1>30 DEF QStep, Queue!QNext

\* What the lists may be when the blocks of bs have been freed from two of them.
Halved(g, w, l, m, bs) ==
    { v \in Rows :
        /\ Reads(g, v)
        /\ \E k, S : Keeping(k, w[l], S) /\ v[l] = Kept(k, w[l])
        /\ \E j, T : Keeping(j, w[m], T) /\ v[m] = Kept(j, w[m])
        /\ In(v[l]) = In(w[l]) \ bs /\ In(v[m]) = In(w[m]) \ bs
        /\ In(v["task_free_pool"])
             = In(w["task_free_pool"]) \cup (In(w[l]) \ In(v[l])) \cup (In(w[m]) \ In(v[m]))
        /\ Outside(v) = Outside(w) }

\* The blocks of bs are taken from list l and then from list m, and freed.
LEMMA FreeTwice ==
    ASSUME NEW w, Reads(links, w), NEW l \in List, NEW m \in List, l # m,
           l # "task_free_pool", m # "task_free_pool", w[l] = Waiting(l), w[m] = Waiting(m),
           NEW bs, NEW g, g = FreeAll(FreeAll(links, l, bs), m, bs)
    PROVE  Halved(g, w, l, m, bs) # {}
<1> DEFINE F == "task_free_pool"
           g1 == FreeAll(links, l, bs)
<1>1. links \in Links /\ w \in Rows /\ F \in List
  BY Entries DEF Reads
<1>2. Turned(g1, w, l, bs, Len(w[l]))
  BY <1>1, FreeAllReads
<1> HIDE DEF g1
<1>3. w[l] \in Row /\ w[m] \in Row /\ Len(w[l]) \in Nat /\ Len(w[m]) \in Nat
  BY <1>1, InRow DEF Rows
<1> DEFINE S == { x \in 1..Len(w[l]) : x > Len(w[l]) \/ w[l][x] \notin bs }
           T == { x \in 1..Len(w[m]) : x > Len(w[m]) \/ w[m][x] \notin bs }
           B == { b \in bs : \E x \in 1..Len(w[l]) : x <= Len(w[l]) /\ w[l][x] = b }
           C == { b \in bs : \E x \in 1..Len(w[m]) : x <= Len(w[m]) /\ w[m][x] = b }
<1>4. PICK k, r : /\ Keeping(k, w[l], S) /\ r \in Row /\ In(r) = In(w[F]) \cup B
                  /\ Reads(g1, Moved(w, l, Kept(k, w[l]), r))
  BY <1>2 DEF Turned
<1>5. In(Kept(k, w[l])) = In(w[l]) \ bs /\ B = In(w[l]) \cap bs
  <2>1. In(Kept(k, w[l])) = { b \in In(w[l]) : \E x \in 1..Len(w[l]) : x \in S /\ w[l][x] = b }
    <3> HIDE DEF S
    <3> QED BY <1>3, <1>4, InKept
  <2>2. \A x \in 1..Len(w[l]) : ~(x > Len(w[l])) /\ x <= Len(w[l])
    BY <1>3
  <2> QED BY ZenonT(60), <2>1, <2>2 DEF In
<1> HIDE DEF S, B
<1> DEFINE p == Kept(k, w[l])
           w1 == Moved(w, l, p, r)
<1>6. Reads(g1, w1)
  BY <1>4
<1>7. p \in Row
  <2>1. w1 \in Rows
    BY <1>6 DEF Reads
  <2>2. w1[l] = p
    <3> HIDE DEF p
    <3> QED BY <1>1 DEF Moved, With, Rows
  <2> QED BY <2>1, <2>2 DEF Rows
<1> HIDE DEF p
<1>8. w1[l] = p /\ w1[F] = r /\ w1[m] = w[m]
  BY <1>1, <1>4, <1>7, MovedOnce
<1> HIDE DEF w1
<1>9. Turned(FreeAll(g1, m, bs), w1, m, bs, Len(w1[m]))
  <2>1. w1[m] = Waiting(m)
    BY <1>8
  <2> QED BY <1>1, <1>6, <2>1, FreeAllReads
<1>10. Turned(g, w1, m, bs, Len(w[m]))
  BY <1>8, <1>9 DEF g1
<1>11. PICK j, s : /\ Keeping(j, w[m], T) /\ s \in Row /\ In(s) = In(r) \cup C
                   /\ Reads(g, Moved(w1, m, Kept(j, w[m]), s))
  BY <1>8, <1>10 DEF Turned
<1>12. In(Kept(j, w[m])) = In(w[m]) \ bs /\ C = In(w[m]) \cap bs
  <2>1. In(Kept(j, w[m])) = { b \in In(w[m]) : \E x \in 1..Len(w[m]) : x \in T /\ w[m][x] = b }
    <3> HIDE DEF T
    <3> QED BY <1>3, <1>11, InKept
  <2>2. \A x \in 1..Len(w[m]) : ~(x > Len(w[m])) /\ x <= Len(w[m])
    BY <1>3
  <2> QED BY ZenonT(60), <2>1, <2>2 DEF In
<1> HIDE DEF T, C
<1> DEFINE o == Kept(j, w[m])
           v == Moved(w1, m, o, s)
<1>13. Reads(g, v) /\ w1 \in Rows
  BY <1>6, <1>11 DEF Reads
<1>14. o \in Row
  <2>1. v \in Rows
    BY <1>13 DEF Reads
  <2>2. v[m] = o
    <3> HIDE DEF o
    <3> QED BY <1>13, <1>1 DEF Moved, With, Rows
  <2> QED BY <2>1, <2>2 DEF Rows
<1> HIDE DEF o
<1>15. v[m] = o /\ v[F] = s /\ v[l] = p
  BY <1>1, <1>8, <1>11, <1>13, <1>14, MovedOnce
<1> HIDE DEF v
<1>16. In(v[l]) = In(w[l]) \ bs /\ In(v[m]) = In(w[m]) \ bs
  BY <1>5, <1>12, <1>15 DEF o, p
<1>17. In(v[F]) = In(w[F]) \cup (In(w[l]) \ In(v[l])) \cup (In(w[m]) \ In(v[m]))
  BY <1>4, <1>5, <1>11, <1>12, <1>15, <1>16
<1>18. Outside(v) = Outside(w)
  <2>1. \A x \in List : x = F \/ x = l \/ x = m
    BY DEF List
  <2>2. \A b \in Block : Loose(v, b) <=> Loose(w, b)
    BY <2>1, <1>1, <1>16, <1>17 DEF Loose
  <2> QED BY <2>2 DEF Outside
<1>19. Keeping(k, w[l], S) /\ v[l] = Kept(k, w[l]) /\ Keeping(j, w[m], T) /\ v[m] = Kept(j, w[m])
  BY <1>4, <1>11, <1>15 DEF o, p
<1>20. v \in Rows
  BY <1>13 DEF Reads
<1>21. v \in Halved(g, w, l, m, bs)
  BY <1>13, <1>16, <1>17, <1>18, <1>19, <1>20 DEF Halved
<1> QED BY <1>21

\* The waiting tasks of bs are removed.
LEMMA FreedSound ==
    ASSUME Typed, Sound, NEW bs, bs \subseteq Queued,
           \/ links' = FreeAll(FreeAll(links, "task_list", bs), "task_list_high", bs)
           \/ links' = FreeAll(FreeAll(links, "task_list_high", bs), "task_list", bs),
           task' = Blanked(bs), UNCHANGED << creators, worklet, driver_state >>
    PROVE  Sound' /\ QStep
<1> DEFINE F == "task_free_pool"
           N == "task_list"
           H == "task_list_high"
           w == Lists
<1>1. /\ F \in List /\ N \in List /\ H \in List /\ w \in Rows
      /\ w[N] = Waiting(N) /\ w[H] = Waiting(H) /\ Reads(links, w)
      /\ Right(w, task) /\ HandsRight /\ Distinct /\ InHand = Outside(w)
  BY Entries, ListsRead DEF Sound, Reads
<1>2. bs \subseteq In(w[N]) \cup In(w[H])
  <2>1. Queued = In(w[N]) \cup In(w[H])
    BY <1>1 DEF Queued, In
  <2> QED BY <2>1
<1>3. \A b \in bs : b \in Block /\ b \notin InHand
  BY <1>1, <1>2, InHandFacts
<1> HIDE DEF w
<1>4. PICK v \in Rows :
        /\ Reads(links', v)
        /\ \E k, S : Keeping(k, w[N], S) /\ v[N] = Kept(k, w[N])
        /\ \E j, T : Keeping(j, w[H], T) /\ v[H] = Kept(j, w[H])
        /\ In(v[N]) = In(w[N]) \ bs /\ In(v[H]) = In(w[H]) \ bs
        /\ In(v[F]) = In(w[F]) \cup (In(w[N]) \ In(v[N])) \cup (In(w[H]) \ In(v[H]))
        /\ Outside(v) = Outside(w)
  <2>0. N # H /\ N # F /\ H # F
    OBVIOUS
  <2> HIDE DEF N, H, F
  <2>1. CASE links' = FreeAll(FreeAll(links, N, bs), H, bs)
    <3>1. Halved(links', w, N, H, bs) # {}
      BY <1>1, <2>0, <2>1, FreeTwice DEF F
    <3> QED BY <3>1 DEF Halved, F
  <2>2. CASE links' = FreeAll(FreeAll(links, H, bs), N, bs)
    <3>1. Halved(links', w, H, N, bs) # {}
      BY <1>1, <2>0, <2>2, FreeTwice DEF F
    <3>2. PICK v : v \in Halved(links', w, H, N, bs)
      BY <3>1
    <3>3. In(v[F]) = In(w[F]) \cup (In(w[H]) \ In(v[H])) \cup (In(w[N]) \ In(v[N]))
      BY <3>2 DEF Halved, F
    <3>4. In(v[F]) = In(w[F]) \cup (In(w[N]) \ In(v[N])) \cup (In(w[H]) \ In(v[H]))
      BY <3>3
    <3> QED BY <3>2, <3>4 DEF Halved
  <2> QED BY <2>1, <2>2 DEF N, H
<1>5. hand' = hand /\ held' = held /\ pc' = pc /\ req' = req
  BY DEF creators, worklet
<1>6. InHand' = Outside(v) /\ Distinct' /\ InHand' = InHand
  BY <1>1, <1>4, <1>5 DEF InHand, Distinct
<1>7. \A x \in Block : x \notin bs => task'[x] = task[x]
  BY DEF Blanked
<1>8. In(w[H]) \subseteq Block /\ In(w[N]) \subseteq Block
  BY <1>1, InRow DEF Rows
<1>9. Right(v, task')
  BY <1>1, <1>4, <1>7, <1>8 DEF Right
<1>10. /\ held # Null => held \in Block /\ held \notin bs
       /\ \A x \in Thread : pc[x] = "insert" => hand[x] \in Block /\ hand[x] \notin bs
  BY <1>3, InHandFacts DEF Typed, TypeOK
<1>11. HandsRight'
  BY <1>1, <1>5, <1>7, <1>10 DEF HandsRight
<1>12. Sound'
  BY <1>4, <1>6, <1>9, <1>11, SoundNext
<1>13. Queue!Remove
  <2>1. PICK k, S : Keeping(k, w[N], S) /\ v[N] = Kept(k, w[N])
    BY <1>4
  <2>2. PICK j, T : Keeping(j, w[H], T) /\ v[H] = Kept(j, w[H])
    BY <1>4
  <2> QED BY <2>1, <2>2, <1>1, <1>4, <1>6, MapRemove
<1> QED BY <1>12, <1>13 DEF QStep, Queue!QNext

\* The management frames are taken out of both lists.
LEMMA RemoveMngSound ==
    ASSUME Typed, Sound, NEW t \in Thread, Task_RemoveAllMngFrameTask(t)
    PROVE  Sound' /\ QStep
<1> DEFINE mng == { b \in Queued : task[b].event = "CALL_MANAGEMENT" }
<1>1. /\ links' = FreeAll(FreeAll(links, "task_list", mng), "task_list_high", mng)
      /\ task' = Blanked(mng) /\ mng \subseteq Queued
      /\ UNCHANGED << creators, worklet, driver_state >>
  BY DEF Task_RemoveAllMngFrameTask
<1> HIDE DEF mng
<1> QED BY <1>1, FreedSound

\* So is everything.
LEMMA ResetSound ==
    ASSUME Typed, Sound, NEW t \in Thread, Task_Reset(t)
    PROVE  Sound' /\ QStep
<1>1. /\ links' = FreeAll(FreeAll(links, "task_list_high", Queued), "task_list", Queued)
      /\ task' = Blanked(Queued)
      /\ UNCHANGED << creators, worklet, driver_state >>
  BY DEF Task_Reset
<1>2. Queued \subseteq Queued
  OBVIOUS
<1> QED BY <1>1, <1>2, FreedSound

\* The next task is taken from the links h, which read as w.
PopsHigh(h, w) ==
    /\ w["task_list_high"] # << >> /\ held' = w["task_list_high"][1]
    /\ Reads(links', With(w, "task_list_high", Tail(w["task_list_high"])))
    /\ wpc' = "loop"

PopsNormal(h, w) ==
    /\ w["task_list_high"] = << >>
    /\ w["task_list"] # << >> /\ held' = w["task_list"][1]
    /\ Reads(links', With(w, "task_list", Tail(w["task_list"])))
    /\ wpc' = "loop"

PopsNone(h, w) ==
    /\ w["task_list_high"] = << >> /\ w["task_list"] = << >>
    /\ held' = Null /\ links' = h /\ wpc' = "end"

\* The next task comes from the high list, from the normal one when that is empty, or
\* there is none.
LEMMA PopNextReads ==
    ASSUME NEW h, NEW w, Reads(h, w), PopNext(h)
    PROVE  PopsHigh(h, w) \/ PopsNormal(h, w) \/ PopsNone(h, w)
<1> DEFINE N == "task_list"
           H == "task_list_high"
           l == IF QueueGetHead(h, H) # Null THEN H ELSE N
<1>1. /\ held' = QueueGetHead(h, l) /\ links' = QueueRemoveHead(h, l)
      /\ wpc' = IF QueueGetHead(h, l) = Null THEN "end" ELSE "loop"
  BY DEF PopNext
<1>2. N \in List /\ H \in List
  BY Entries
<1>3. CASE w[H] # << >>
  <2>1. /\ QueueGetHead(h, H) = w[H][1] /\ w[H][1] # Null
        /\ Reads(QueueRemoveHead(h, H), With(w, H, Tail(w[H])))
    BY <1>2, <1>3, TakenReads
  <2>2. l = H
    BY <2>1
  <2> HIDE DEF l
  <2> QED BY <1>1, <1>3, <2>1, <2>2 DEF PopsHigh
<1>4. CASE w[H] = << >>
  <2>1. l = N
    BY <1>2, <1>4, HeadReads
  <2>2. CASE w[N] # << >>
    <3>1. /\ QueueGetHead(h, N) = w[N][1] /\ w[N][1] # Null
          /\ Reads(QueueRemoveHead(h, N), With(w, N, Tail(w[N])))
      BY <1>2, <2>2, TakenReads
    <3> HIDE DEF l
    <3> QED BY <1>1, <1>4, <2>1, <2>2, <3>1 DEF PopsNormal
  <2>3. CASE w[N] = << >>
    <3>1. QueueGetHead(h, N) = Null /\ QueueRemoveHead(h, N) = h
      BY <1>2, <2>3, HeadReads
    <3> HIDE DEF l
    <3> QED BY <1>1, <1>4, <2>1, <2>3, <3>1 DEF PopsNone
  <2> QED BY <2>2, <2>3
<1> QED BY <1>3, <1>4

\* What the worklet has popped, in terms of the lists w it popped it from.
Popped(w, l, b, v) ==
    /\ b \in Block /\ b # Null /\ b \in In(w[l]) /\ b \notin Outside(w)
    /\ v[l] = Tail(w[l]) /\ In(v[l]) = In(w[l]) \ {b} /\ Outside(v) = Outside(w) \cup {b}
    /\ \A k \in List : k # l => v[k] = w[k] /\ b \notin In(w[k])

\* What the lists are when the first entry of one has been taken.
LEMMA PoppedFrom ==
    ASSUME NEW h, NEW w, Reads(h, w), NEW l \in List, w[l] # << >>
    PROVE  Popped(w, l, w[l][1], With(w, l, Tail(w[l])))
<1> DEFINE b == w[l][1]
           q == Tail(w[l])
           v == With(w, l, q)
<1>1. /\ b \in Block /\ b # Null /\ Reads(QueueRemoveHead(h, l), v)
      /\ In(q) = In(w[l]) \ {b} /\ b \in In(w[l]) /\ b \notin Outside(w)
      /\ Outside(v) = Outside(w) \cup {b}
  BY TakenReads
<1> HIDE DEF b
<1>2. w \in Rows /\ v \in Rows
  BY <1>1 DEF Reads
<1> HIDE DEF q
<1>3. v[l] = q
  BY <1>2 DEF With, Rows
<1>4. \A k \in List : k # l => v[k] = w[k]
  BY <1>2 DEF With, Rows
<1>5. \A k \in List : k # l => b \notin In(w[k])
  BY <1>1 DEF Reads
<1> HIDE DEF v
<1>6. Popped(w, l, b, v)
  BY <1>1, <1>3, <1>4, <1>5 DEF Popped, q
<1> QED BY <1>6 DEF b, v, q

\* The worklet takes its first task.
LEMMA ThreadPopSound ==
    ASSUME Typed, Sound, Thread_Pop
    PROVE  Sound' /\ QStep
<1> DEFINE N == "task_list"
           H == "task_list_high"
           w == Lists
<1>1. /\ wpc = "pop" /\ PopNext(links) /\ held = Null
      /\ UNCHANGED << task, pc, req, hand >>
  BY DEF Thread_Pop, creators, Typed, TypeOK
<1>2. /\ Reads(links, w) /\ Right(w, task) /\ HandsRight /\ Distinct /\ InHand = Outside(w)
      /\ N \in List /\ H \in List
  BY Entries DEF Sound
<1> HIDE DEF w
<1>3. PopsHigh(links, w) \/ PopsNormal(links, w) \/ PopsNone(links, w)
  BY <1>1, <1>2, PopNextReads
<1>4. CASE PopsNone(links, w)
  <2>1. Same
    BY <1>1, <1>4 DEF PopsNone, Same
  <2>2. Right(Lists, task')
    BY <1>1 DEF Sound
  <2>3. HandsRight'
    BY <1>1, <1>2, <2>1 DEF HandsRight, Same
  <2> QED BY <2>1, <2>2, <2>3, SoundSame, MapSame DEF QStep
<1>5. CASE PopsHigh(links, w)
  <2> DEFINE v == With(w, H, Tail(w[H]))
             b == w[H][1]
  <2>1. Popped(w, H, b, v) /\ held' = b /\ Reads(links', v) /\ w[H] # << >>
    BY <1>2, <1>5, PoppedFrom DEF PopsHigh
  <2> HIDE DEF v, b
  <2>2. b \in Block \ InHand
    BY <1>2, <2>1 DEF Popped
  <2>3. InHand' = (InHand \ {held}) \cup ({b} \ {Null}) /\ Distinct'
    BY <1>1, <1>2, <2>1, <2>2, HeldTurns
  <2>4. InHand' = InHand \cup {b} /\ InHand' = Outside(v)
    <3>1. Null \notin InHand
      BY DEF InHand
    <3> QED BY <3>1, <1>1, <1>2, <2>1, <2>3 DEF Popped
  <2>5. Right(v, task')
    BY <1>1, <1>2, <2>1 DEF Popped, Right
  <2>6. HandsRight'
    BY <1>1, <1>2, <2>1 DEF Popped, Right, HandsRight
  <2>7. Sound'
    BY <2>1, <2>3, <2>4, <2>5, <2>6, SoundNext
  <2>8. v[H] = Tail(w[H]) /\ v["task_free_pool"] = w["task_free_pool"] /\ v[N] = w[N]
    BY <2>1, Entries DEF Popped
  <2>9. Queue!TakeHigh
    BY <1>2, <2>1, <2>4, <2>8, MapTakeHigh DEF b
  <2> QED BY <2>7, <2>9 DEF QStep, Queue!QNext
<1>6. CASE PopsNormal(links, w)
  <2> DEFINE v == With(w, N, Tail(w[N]))
             b == w[N][1]
  <2>1. Popped(w, N, b, v) /\ held' = b /\ Reads(links', v) /\ w[N] # << >>
    BY <1>2, <1>6, PoppedFrom DEF PopsNormal
  <2> HIDE DEF v, b
  <2>2. b \in Block \ InHand
    BY <1>2, <2>1 DEF Popped
  <2>3. InHand' = (InHand \ {held}) \cup ({b} \ {Null}) /\ Distinct'
    BY <1>1, <1>2, <2>1, <2>2, HeldTurns
  <2>4. InHand' = InHand \cup {b} /\ InHand' = Outside(v)
    <3>1. Null \notin InHand
      BY DEF InHand
    <3> QED BY <3>1, <1>1, <1>2, <2>1, <2>3 DEF Popped
  <2>5. Right(v, task')
    BY <1>1, <1>2, <2>1 DEF Popped, Right
  <2>6. HandsRight'
    BY <1>1, <1>2, <2>1 DEF Popped, Right, HandsRight
  <2>7. Sound'
    BY <2>1, <2>3, <2>4, <2>5, <2>6, SoundNext
  <2>8. v[N] = Tail(w[N]) /\ v["task_free_pool"] = w["task_free_pool"] /\ v[H] = w[H]
    BY <2>1, Entries DEF Popped
  <2>9. Queue!TakeNormal
    BY <1>2, <2>1, <2>4, <2>8, MapTakeNormal DEF b
  <2> QED BY <2>7, <2>9 DEF QStep, Queue!QNext
<1> QED BY <1>3, <1>4, <1>5, <1>6

\* The task is put back at the head of its list.
LEMMA PutBackSound ==
    ASSUME Typed, Sound, Thread_PutBack
    PROVE  Sound' /\ QStep
<1> DEFINE N == "task_list"
           H == "task_list_high"
           F == "task_free_pool"
           w == Lists
           l == IF task[held].high THEN H ELSE N
<1>1. /\ wpc = "loop" /\ links' = QueuePushHead(links, l, held) /\ held' = Null
      /\ UNCHANGED << task, pc, req, hand >> /\ held \in Block /\ held # Null
  BY DEF Thread_PutBack, creators, Typed, TypeOK
<1>2. /\ Reads(links, w) /\ Right(w, task) /\ HandsRight /\ Distinct /\ InHand = Outside(w)
      /\ N \in List /\ H \in List /\ l \in List /\ F \in List /\ w \in Rows
  BY Entries DEF Sound, Reads
<1>3. PICK b \in Block : b = held
  BY <1>1
<1>4. b \in InHand /\ b \in Outside(w)
  BY <1>1, <1>3, InHandFacts
<1> HIDE DEF w, l
<1> DEFINE q == Onto(b, w[l])
           v == With(w, l, q)
<1>5. /\ Reads(links', v) /\ q \in Row /\ In(q) = In(w[l]) \cup {b}
      /\ Outside(v) = Outside(w) \ {b}
  BY <1>1, <1>2, <1>3, <1>4, PushedReads
<1> HIDE DEF q
<1>6. v[l] = q /\ \A k \in List : k # l => v[k] = w[k]
  BY <1>2, <1>5, WithOne
<1> HIDE DEF v
<1>7. InHand' = (InHand \ {held}) \cup ({Null} \ {Null}) /\ Distinct'
  BY <1>1, <1>2, HeldTurns
<1>8. InHand' = InHand \ {b} /\ InHand' = Outside(v)
  BY <1>2, <1>3, <1>5, <1>7
<1>9. HandsRight'
  BY <1>1, <1>2 DEF HandsRight
<1>10. task[b].event \in Removable => task[b].high
  BY <1>1, <1>2, <1>3 DEF HandsRight
<1>11. CASE task[b].high
  <2>1. l = H
    BY <1>3, <1>11 DEF l
  <2>2. v[N] = w[N] /\ v[F] = w[F]
    BY <1>2, <1>6, <2>1
  <2>3. Right(v, task')
    BY <1>1, <1>2, <1>5, <1>6, <1>11, <2>1, <2>2 DEF Right
  <2>4. Queue!AddHigh(b)
    BY <1>2, <1>5, <1>6, <1>8, <2>1, <2>2, MapAddHigh DEF q
  <2> QED BY <1>4, <1>5, <1>7, <1>8, <1>9, <2>3, <2>4, SoundNext DEF QStep, Queue!QNext
<1>12. CASE ~task[b].high
  <2>1. l = N
    BY <1>3, <1>12 DEF l
  <2>2. v[H] = w[H] /\ v[F] = w[F]
    BY <1>2, <1>6, <2>1
  <2>3. Right(v, task')
    BY <1>1, <1>2, <1>5, <1>6, <1>10, <1>12, <2>1, <2>2 DEF Right
  <2>4. Queue!AddNormal(b)
    BY <1>2, <1>5, <1>6, <1>8, <2>1, <2>2, MapAddNormal DEF q
  <2> QED BY <1>4, <1>5, <1>7, <1>8, <1>9, <2>3, <2>4, SoundNext DEF QStep, Queue!QNext
<1> QED BY <1>11, <1>12

\* The task is freed and the next one taken.
LEMMA NextTaskSound ==
    ASSUME Typed, Sound, held # Null, PopNext(Freed), task' = Blanked({held}),
           UNCHANGED << pc, req, hand >>
    PROVE  Sound' /\ QStep
<1> DEFINE N == "task_list"
           H == "task_list_high"
           F == "task_free_pool"
           w == Lists
<1>1. /\ Reads(links, w) /\ Right(w, task) /\ HandsRight /\ Distinct /\ InHand = Outside(w)
      /\ N \in List /\ H \in List /\ F \in List /\ w \in Rows
  BY Entries DEF Sound, Reads
<1>2. PICK b \in Block : b = held
  BY DEF Typed, TypeOK
<1>3. b \in InHand /\ b \in Outside(w)
  BY <1>2, InHandFacts
<1>4. \A l \in List : b \notin In(w[l])
  BY <1>3 DEF Outside, Loose
<1> HIDE DEF w
<1> DEFINE q == Append(w[F], b)
           u == With(w, F, q)
<1>5. /\ Reads(Freed, u) /\ q \in Row /\ In(q) = In(w[F]) \cup {b}
      /\ Outside(u) = Outside(w) \ {b}
  BY <1>1, <1>2, <1>3, AddedReads DEF Freed
<1> HIDE DEF q
<1>6. u[F] = q /\ u[N] = w[N] /\ u[H] = w[H]
  BY <1>1, <1>5, WithOne
<1> HIDE DEF u
<1>7. PopsHigh(Freed, u) \/ PopsNormal(Freed, u) \/ PopsNone(Freed, u)
  BY <1>5, PopNextReads
<1>8. \A x \in Block : x # b => task'[x] = task[x]
  BY <1>2 DEF Blanked
<1>9. In(w[H]) \subseteq Block /\ In(w[N]) \subseteq Block
  BY <1>1, InRow DEF Rows
<1>10. Right(w, task')
  BY <1>1, <1>4, <1>8, <1>9 DEF Right
<1>11. \A x \in Thread : pc[x] = "insert" => hand[x] \in Block /\ hand[x] # b
  <2>1. \A x \in Thread : pc[x] = "insert" => hand[x] \in Block /\ hand[x] # Null
    BY DEF Typed, TypeOK
  <2> QED BY <2>1, <1>1, <1>2 DEF Distinct
<1>12. \A t \in Thread : pc'[t] = "insert" =>
                 task'[hand'[t]] = [event |-> req'[t].event, high |-> req'[t].high]
  BY <1>1, <1>8, <1>11 DEF HandsRight
<1>13. Null \notin InHand
  BY DEF InHand
<1>14. CASE PopsNone(Freed, u)
  <2>1. links' = Freed /\ held' = Null
    BY <1>14 DEF PopsNone
  <2>2. InHand' = (InHand \ {held}) \cup ({Null} \ {Null}) /\ Distinct'
    BY <1>1, <2>1, HeldTurns
  <2>3. InHand' = InHand \ {b} /\ InHand' = Outside(u) /\ Reads(links', u)
    BY <1>1, <1>2, <1>5, <2>1, <2>2
  <2>4. Right(u, task')
    BY <1>6, <1>10 DEF Right
  <2>5. HandsRight'
    BY <1>12, <2>1 DEF HandsRight
  <2>6. Sound'
    BY <2>2, <2>3, <2>4, <2>5, SoundNext
  <2>7. In(u[F]) = In(w[F]) \cup {b}
    BY <1>5, <1>6
  <2>8. Queue!Release(b)
    BY <1>1, <1>6, <2>3, <2>7, MapRelease
  <2> QED BY <1>3, <2>6, <2>8 DEF QStep, Queue!QNext
<1>15. CASE PopsHigh(Freed, u)
  <2> DEFINE v == With(u, H, Tail(u[H]))
             c == u[H][1]
  <2>1. Popped(u, H, c, v) /\ held' = c /\ Reads(links', v) /\ u[H] # << >>
    BY <1>1, <1>5, <1>15, PoppedFrom DEF PopsHigh
  <2> HIDE DEF v, c
  <2>2. c \in Block \ InHand /\ c # b /\ c # Null
    BY <1>1, <1>3, <1>4, <1>5, <1>6, <2>1 DEF Popped
  <2>3. InHand' = (InHand \ {held}) \cup ({c} \ {Null}) /\ Distinct'
    BY <1>1, <2>1, <2>2, HeldTurns
  <2>4. InHand' = (InHand \ {b}) \cup {c} /\ InHand' = Outside(v)
    BY <1>1, <1>2, <1>5, <2>1, <2>2, <2>3 DEF Popped
  <2>5. v[H] = Tail(w[H]) /\ v[F] = u[F] /\ v[N] = w[N] /\ In(v[H]) \subseteq In(w[H]) /\ c \in In(w[H])
    BY <1>1, <1>6, <2>1 DEF Popped
  <2>6. Right(v, task')
    BY <1>10, <2>5 DEF Right
  <2>7. HandsRight'
    BY <1>10, <1>12, <2>1, <2>5 DEF Right, HandsRight
  <2>8. Sound'
    BY <2>1, <2>3, <2>4, <2>6, <2>7, SoundNext
  <2>9. In(v[F]) = In(w[F]) \cup {b} /\ w[H] # << >> /\ c = w[H][1]
    BY <1>5, <1>6, <2>1, <2>5 DEF c
  <2>10. Queue!Recycle(b)
    BY <1>1, <2>1, <2>4, <2>5, <2>9, MapRecycleHigh
  <2> QED BY <1>3, <2>8, <2>10 DEF QStep, Queue!QNext
<1>16. CASE PopsNormal(Freed, u)
  <2> DEFINE v == With(u, N, Tail(u[N]))
             c == u[N][1]
  <2>1. Popped(u, N, c, v) /\ held' = c /\ Reads(links', v) /\ u[N] # << >> /\ u[H] = << >>
    BY <1>1, <1>5, <1>16, PoppedFrom DEF PopsNormal
  <2> HIDE DEF v, c
  <2>2. c \in Block \ InHand /\ c # b /\ c # Null
    BY <1>1, <1>3, <1>4, <1>5, <1>6, <2>1 DEF Popped
  <2>3. InHand' = (InHand \ {held}) \cup ({c} \ {Null}) /\ Distinct'
    BY <1>1, <2>1, <2>2, HeldTurns
  <2>4. InHand' = (InHand \ {b}) \cup {c} /\ InHand' = Outside(v)
    BY <1>1, <1>2, <1>5, <2>1, <2>2, <2>3 DEF Popped
  <2>5. v[N] = Tail(w[N]) /\ v[F] = u[F] /\ v[H] = w[H] /\ In(v[N]) \subseteq In(w[N]) /\ c \in In(w[N])
    BY <1>1, <1>6, <2>1 DEF Popped
  <2>6. Right(v, task')
    BY <1>10, <2>5 DEF Right
  <2>7. HandsRight'
    BY <1>10, <1>12, <2>1, <2>5 DEF Right, HandsRight
  <2>8. Sound'
    BY <2>1, <2>3, <2>4, <2>6, <2>7, SoundNext
  <2>9. In(v[F]) = In(w[F]) \cup {b} /\ w[N] # << >> /\ w[H] = << >> /\ c = w[N][1]
    BY <1>5, <1>6, <2>1, <2>5 DEF c
  <2>10. Queue!Recycle(b)
    BY <1>1, <2>1, <2>4, <2>5, <2>9, MapRecycleNormal
  <2> QED BY <1>3, <2>8, <2>10 DEF QStep, Queue!QNext
<1> QED BY <1>7, <1>14, <1>15, <1>16

\* The worklet frees a task it has discarded or run, and takes the next.
LEMMA DoneSound ==
    ASSUME Typed, Sound, Thread_Discard \/ Thread_Done
    PROVE  Sound' /\ QStep
<1>1. /\ wpc \in { "loop", "exec" } /\ PopNext(Freed) /\ task' = Blanked({held})
      /\ UNCHANGED << pc, req, hand >>
  BY DEF Thread_Discard, Thread_Done, creators
<1>2. held # Null
  BY <1>1 DEF Typed, TypeOK
<1> QED BY <1>1, <1>2, NextTaskSound

\* Every action keeps the invariant and is a step of the abstract queue.
LEMMA NextSound ==
    ASSUME RemovedAreHigh, Typed, Sound, TailKnown, Next
    PROVE  Sound' /\ QStep
<1>1. ASSUME NEW t \in Thread, Create_Pop(t) \/ CreateStep(t) \/ Task_RemoveExistTask(t)
                                 \/ Task_RemoveAllMngFrameTask(t) \/ Task_Reset(t)
      PROVE  Sound' /\ QStep
  BY <1>1, PopSound, StealSound, FillSound, GiveSound, InsertSound, ScheduleSound, RemoveExistSound,
     RemoveMngSound, ResetSound DEF CreateStep
<1>2. ASSUME WorkStep \/ Thread_Done \/ Driver_State
      PROVE  Sound' /\ QStep
  BY <1>2, QuietSound, ThreadPopSound, PutBackSound, DoneSound DEF WorkStep
<1> QED BY <1>1, <1>2 DEF Next

\* What a creator has read of the pool changes only when it reads it.
LEMMA TailKept ==
    ASSUME Typed, Next, NEW u \in Thread, pc'[u] = "give"
    PROVE  \/ pc[u] = "give" /\ tail'[u] = tail[u]
           \/ tail'[u] = links["task_free_pool"].blink /\ links' = links
<1>1. pc \in [Thread -> { "idle", "steal", "fill", "give", "insert", "schedule" }]
      /\ tail \in [Thread -> Block \cup {Null}]
  BY DEF Typed, TypeOK
<1>2. ASSUME NEW t \in Thread, UNCHANGED tail,
             \E x \in { "idle", "steal", "fill", "insert", "schedule" } : Goto(t, x)
      PROVE  pc[u] = "give" /\ tail'[u] = tail[u]
  BY <1>1, <1>2 DEF Goto
<1>3. ASSUME UNCHANGED creators
      PROVE  pc[u] = "give" /\ tail'[u] = tail[u]
  BY <1>3 DEF creators
<1>4. ASSUME NEW t \in Thread, Create_Pop(t) \/ Create_Steal(t) \/ Create_Insert(t) \/ Create_Schedule(t)
      PROVE  pc[u] = "give" /\ tail'[u] = tail[u]
  <2>1. UNCHANGED tail
    BY <1>4 DEF Create_Pop, Create_Steal, Create_Insert, Create_Schedule
  <2>2. \E x \in { "idle", "steal", "fill", "insert", "schedule" } : Goto(t, x)
    BY <1>4 DEF Create_Pop, Create_Steal, Create_Insert, Create_Schedule
  <2> QED BY <2>1, <2>2, <1>2
<1>5. ASSUME NEW t \in Thread, Create_Fill(t)
      PROVE  \/ pc[u] = "give" /\ tail'[u] = tail[u]
             \/ tail'[u] = links["task_free_pool"].blink /\ links' = links
  <2>1. CASE Goto(t, "insert") /\ UNCHANGED tail
    BY <2>1, <1>2
  <2>2. CASE Goto(t, "give") /\ tail' = [tail EXCEPT ![t] = links["task_free_pool"].blink]
             /\ UNCHANGED links
    <3>1. CASE u = t
      BY <3>1, <2>2, <1>1
    <3>2. CASE u # t
      BY <3>2, <2>2, <1>1 DEF Goto
    <3> QED BY <3>1, <3>2
  <2> QED BY <2>1, <2>2, <1>5 DEF Create_Fill
<1>6. ASSUME NEW t \in Thread, Create_Give(t)
      PROVE  pc[u] = "give" /\ tail'[u] = tail[u]
  <2>1. u # t
    BY <1>1, <1>6 DEF Create_Give, Goto
  <2> QED BY <2>1, <1>1, <1>6 DEF Create_Give, Goto
<1>7. ASSUME NEW t \in Thread, Task_RemoveExistTask(t) \/ Task_RemoveAllMngFrameTask(t) \/ Task_Reset(t)
      PROVE  UNCHANGED creators
  BY <1>7 DEF Task_RemoveExistTask, Task_RemoveAllMngFrameTask, Task_Reset
<1>8. ASSUME WorkStep \/ Thread_Done \/ Driver_State
      PROVE  UNCHANGED creators
  BY <1>8 DEF WorkStep, Worklet_Routine, Worklet_Return, Thread_Check, Thread_Pop, Thread_PutBack,
              Thread_Discard, Thread_Exec, Thread_Done, Driver_State
<1> QED BY <1>3, <1>4, <1>5, <1>6, <1>7, <1>8 DEF Next, CreateStep

\* When nobody comes to the pool meanwhile, it stays the tail.
LEMMA TailNext ==
    ASSUME Typed, TailKnown, Next, Alone
    PROVE  TailKnown'
<1> SUFFICES ASSUME NEW u \in Thread, pc'[u] = "give"
             PROVE  tail'[u] = links'["task_free_pool"].blink
  BY DEF TailKnown
<1>1. CASE pc[u] = "give" /\ tail'[u] = tail[u]
  <2>1. links'["task_free_pool"] = links["task_free_pool"]
    BY <1>1 DEF Alone
  <2>2. tail[u] = links["task_free_pool"].blink
    BY <1>1 DEF TailKnown
  <2> QED BY <1>1, <2>1, <2>2
<1>2. CASE tail'[u] = links["task_free_pool"].blink /\ links' = links
  BY <1>2
<1> QED BY <1>1, <1>2, TailKept

\* At first, and when nothing happens.
LEMMA TailStays ==
    /\ Init => TailKnown
    /\ TailKnown /\ UNCHANGED vars => TailKnown'
<1>1. Init => TailKnown
  BY DEF Init, TailKnown
<1>2. TailKnown /\ UNCHANGED vars => TailKnown'
  BY DEF TailKnown, vars, creators
<1> QED BY <1>1, <1>2

\* A stuttering step.
LEMMA StaysSound ==
    ASSUME Sound, UNCHANGED vars
    PROVE  Sound' /\ QStep
<1>1. Same /\ task' = task /\ UNCHANGED << pc, req >>
  BY DEF vars, creators, worklet, Same
<1>2. Right(Lists, task') /\ HandsRight'
  BY <1>1 DEF Sound, HandsRight, Same
<1> QED BY <1>1, <1>2, SoundSame, MapSame DEF QStep

\* The pool is full and the lists are empty at first.
LEMMA InitSound ==
    ASSUME Init
    PROVE  Sound /\ Queue!QInit
<1> DEFINE F == "task_free_pool"
<1>1. links = PutAll(Bare, F, Array)
  BY DEF Init, Bare
<1>2. PICK r \in Row : In(r) = Block /\ Reads(links, With(None, F, r))
  BY <1>1, PoolFilled
<1> DEFINE w == With(None, F, r)
<1>3. /\ w[F] = r /\ w["task_list"] = << >> /\ w["task_list_high"] = << >>
  <2>1. None \in Rows
    BY BareReads DEF Reads
  <2>2. None["task_list"] = << >> /\ None["task_list_high"] = << >>
    BY Entries DEF None
  <2> QED BY <2>1, <2>2, Entries, WithOne
<1> HIDE DEF w
<1>4. Lists = w /\ Reads(links, w)
  <2>1. w = [l \in List |-> Chain(links, l)]
    BY <1>2, ReadBack DEF w
  <2> QED BY <2>1, <1>2 DEF Lists, Waiting, w
<1>5. InHand = {}
  BY DEF Init, InHand
<1>6. Outside(w) = {}
  BY <1>2, <1>3, Entries DEF Outside, Loose
<1>7. In(<< >>) = {}
  BY DEF In
<1>8. Right(w, task)
  BY <1>3, <1>7 DEF Right
<1>9. Distinct /\ HandsRight
  BY DEF Init, Distinct, HandsRight
<1>10. Sound
  BY <1>4, <1>5, <1>6, <1>8, <1>9 DEF Sound
<1>11. /\ Waiting("task_free_pool") = r /\ Waiting("task_list") = << >>
       /\ Waiting("task_list_high") = << >>
  BY <1>3, <1>4, ListsRead, Entries
<1>12. { Waiting("task_free_pool")[i] : i \in 1..Len(Waiting("task_free_pool")) } = Block
  BY <1>2, <1>11 DEF In
<1> QED BY <1>5, <1>10, <1>11, <1>12 DEF Queue!QInit

\* When nobody removes tasks of normal priority, and nobody is at the pool while
\* a creator that found no memory puts its block back without the lock (448), the
\* links of the three lists, with what the creators and the worklet hold, always
\* read as the pool and the two ordered queues of WlanTaskQueue, and every change
\* of them is one of its steps (usbwlan_Task.c:365-490, 495-760, 800-1205).
THEOREM LinksAreQueues == RemovedAreHigh => (AloneSpec => ImplementsQueue)
<1> SUFFICES ASSUME RemovedAreHigh PROVE AloneSpec => ImplementsQueue
  OBVIOUS
<1>1. Init => Typed /\ Sound /\ TailKnown /\ Queue!QInit
  BY InitTyped, InitSound, TailStays
<1>2. Typed /\ Sound /\ TailKnown /\ [Next /\ Alone]_vars => (Typed /\ Sound /\ TailKnown)'
  BY NextTyped, NextSound, StaysSound, TailNext, TailStays
<1>3. Typed /\ Sound /\ TailKnown /\ [Next /\ Alone]_vars => [Queue!QNext]_(Queue!qvars)
  BY NextSound, StaysSound DEF QStep
<1> QED BY <1>1, <1>2, <1>3, PTL DEF AloneSpec, ImplementsQueue, Queue!QSpec

\* Under the same two conditions every block is in exactly one place, once: in a
\* list, in the hands of one creator, or in those of the worklet.
THEOREM BlocksConserved == RemovedAreHigh => (AloneSpec => []Queue!Conserved)
<1> SUFFICES ASSUME RemovedAreHigh PROVE AloneSpec => []Queue!Conserved
  OBVIOUS
<1>1. Init => Typed /\ Sound /\ TailKnown
  BY InitTyped, InitSound, TailStays
<1>2. Typed /\ Sound /\ TailKnown /\ [Next /\ Alone]_vars => (Typed /\ Sound /\ TailKnown)'
  BY NextTyped, NextSound, StaysSound, TailNext, TailStays
<1>3. Typed /\ Sound => Queue!Conserved
  <2> SUFFICES ASSUME Typed, Sound PROVE Queue!Conserved
    OBVIOUS
  <2> DEFINE F == Waiting("task_free_pool")
             N == Waiting("task_list")
             H == Waiting("task_list_high")
  <2>1. F = Lists["task_free_pool"] /\ N = Lists["task_list"] /\ H = Lists["task_list_high"]
    BY ListsRead, Entries
  <2>2. /\ F \in Row /\ N \in Row /\ H \in Row /\ InHand = Outside(Lists)
        /\ In(F) \cap In(N) = {} /\ In(F) \cap In(H) = {} /\ In(N) \cap In(H) = {}
    BY <2>1, Entries DEF Sound, Reads, Rows
  <2>3. \A b \in Block : b \in InHand <=> b \notin In(F) /\ b \notin In(N) /\ b \notin In(H)
    BY <2>1, <2>2 DEF Outside, Loose, List
  <2>4. InHand \subseteq Block
    BY <2>2 DEF Outside
  <2>5. { Waiting("task_free_pool")[i] : i \in 1..Len(Waiting("task_free_pool")) } = In(F)
    BY DEF In
  <2>6. \A q : Queue!In(q) = In(q)
    BY DEF Queue!In, In
  <2> HIDE DEF F, N, H
  <2>7. /\ In(F) \cup In(N) \cup In(H) \cup InHand = Block
        /\ In(F) \cap InHand = {} /\ In(N) \cap InHand = {} /\ In(H) \cap InHand = {}
    BY <2>2, <2>3, <2>4, InRow
  <2>8. /\ \A i, j \in 1..Len(N) : N[i] = N[j] => i = j
        /\ \A i, j \in 1..Len(H) : H[i] = H[j] => i = j
    BY <2>2, InRow
  <2> QED BY <2>2, <2>5, <2>6, <2>7, <2>8 DEF Queue!Conserved, N, H
<1> QED BY <1>1, <1>2, <1>3, PTL DEF AloneSpec

-----------------------------------------------------------------------------
(* The promise by itself: whoever keeps it loses no block.  The variables  *)
(* are those of any such queue.                                            *)

VARIABLES free, normal, high, out

Promise == INSTANCE WlanTaskQueue WITH TaskBlock <- Block

\* The two queues are sequences of blocks.
QueuesTyped == /\ normal \in Seq(Block)
               /\ high \in Seq(Block)

PromiseInv == QueuesTyped /\ Promise!Conserved

\* What the operations on a queue do to the set of its blocks.
LEMMA FunSeq ==
    ASSUME NEW S, NEW n \in Nat, NEW f \in [1..n -> S]
    PROVE  f \in Seq(S) /\ Len(f) = n
  OBVIOUS

\* A sequence without its head,
LEMMA InTail ==
    ASSUME NEW S, NEW q \in Seq(S), q # << >>,
           \A i, j \in 1..Len(q) : q[i] = q[j] => i = j
    PROVE  /\ Tail(q) \in Seq(S) /\ Head(q) \in S /\ Head(q) \in Promise!In(q)
           /\ Promise!In(Tail(q)) = Promise!In(q) \ {Head(q)}
           /\ \A i, j \in 1..Len(Tail(q)) : Tail(q)[i] = Tail(q)[j] => i = j
  <1>1. /\ Tail(q) \in Seq(S) /\ Len(q) \in Nat \ {0} /\ Len(Tail(q)) = Len(q) - 1
        /\ Head(q) = q[1] /\ \A i \in 1..Len(Tail(q)) : Tail(q)[i] = q[i + 1]
    OBVIOUS
  <1>2. Head(q) \in S /\ Head(q) \in Promise!In(q)
    BY <1>1 DEF Promise!In
  <1>3. Promise!In(Tail(q)) \subseteq Promise!In(q) \ {Head(q)}
    BY <1>1 DEF Promise!In
  <1>4. ASSUME NEW b \in Promise!In(q), b # Head(q)
        PROVE  b \in Promise!In(Tail(q))
    <2>1. PICK i \in 1..Len(q) : b = q[i]
      BY DEF Promise!In
    <2>2. i - 1 \in 1..Len(Tail(q)) /\ Tail(q)[i - 1] = b
      BY <1>1, <1>4, <2>1
    <2> QED
      BY <2>2 DEF Promise!In
  <1>5. \A i, j \in 1..Len(Tail(q)) : Tail(q)[i] = Tail(q)[j] => i = j
    BY <1>1
  <1> QED
    BY <1>1, <1>2, <1>3, <1>4, <1>5

\* and with a block more at either end.
LEMMA InAppend ==
    ASSUME NEW S, NEW q \in Seq(S), NEW b \in S, b \notin Promise!In(q), NEW r,
           r \in { Append(q, b), << b >> \o q },
           \A i, j \in 1..Len(q) : q[i] = q[j] => i = j
    PROVE  /\ r \in Seq(S)
           /\ Promise!In(r) = Promise!In(q) \cup {b}
           /\ \A i, j \in 1..Len(r) : r[i] = r[j] => i = j
  <1>1. CASE r = Append(q, b)
    <2>1. /\ r \in Seq(S) /\ Len(q) \in Nat /\ Len(r) = Len(q) + 1
          /\ r[Len(q) + 1] = b /\ \A i \in 1..Len(q) : r[i] = q[i]
      BY <1>1
    <2>2. Promise!In(r) = Promise!In(q) \cup {b}
      <3>1. ASSUME NEW i \in 1..Len(r)
            PROVE  r[i] \in Promise!In(q) \cup {b}
        BY <2>1 DEF Promise!In
      <3>2. ASSUME NEW i \in 1..Len(q)
            PROVE  q[i] \in Promise!In(r)
        <4>1. i \in 1..Len(r) /\ r[i] = q[i]
          BY <2>1
        <4> QED
          BY <4>1 DEF Promise!In
      <3>3. b \in Promise!In(r)
        <4>1. Len(r) \in 1..Len(r) /\ r[Len(r)] = b
          BY <2>1
        <4> QED
          BY <4>1 DEF Promise!In
      <3>4. Promise!In(r) \subseteq Promise!In(q) \cup {b}
        BY <3>1 DEF Promise!In
      <3>5. Promise!In(q) \subseteq Promise!In(r)
        BY <3>2 DEF Promise!In
      <3> QED
        BY <3>3, <3>4, <3>5
    <2>3. \A i \in 1..Len(q) : q[i] # b
      BY DEF Promise!In
    <2> QED
      BY <2>1, <2>2, <2>3
  <1>2. CASE r = << b >> \o q
    <2>1. /\ r \in Seq(S) /\ Len(q) \in Nat /\ Len(r) = Len(q) + 1
          /\ r[1] = b /\ \A i \in 1..Len(q) : r[i + 1] = q[i]
      BY <1>2
    <2>2. \A i \in 1..Len(r) : i = 1 \/ (i - 1 \in 1..Len(q) /\ r[i] = q[i - 1])
      BY <2>1
    <2>3. Promise!In(r) = Promise!In(q) \cup {b}
      <3>1. ASSUME NEW i \in 1..Len(r)
            PROVE  r[i] \in Promise!In(q) \cup {b}
        BY <2>1, <2>2 DEF Promise!In
      <3>2. ASSUME NEW i \in 1..Len(q)
            PROVE  q[i] \in Promise!In(r)
        <4>1. i + 1 \in 1..Len(r) /\ r[i + 1] = q[i]
          BY <2>1
        <4> QED
          BY <4>1 DEF Promise!In
      <3>3. b \in Promise!In(r)
        <4>1. 1 \in 1..Len(r) /\ r[1] = b
          BY <2>1
        <4> QED
          BY <4>1 DEF Promise!In
      <3>4. Promise!In(r) \subseteq Promise!In(q) \cup {b}
        BY <3>1 DEF Promise!In
      <3>5. Promise!In(q) \subseteq Promise!In(r)
        BY <3>2 DEF Promise!In
      <3> QED
        BY <3>3, <3>4, <3>5
    <2>4. \A i \in 1..Len(q) : q[i] # b
      BY DEF Promise!In
    <2> QED
      <3>1. \A i, j \in 1..Len(r) : r[i] = r[j] => i = j
        <4>1. ASSUME NEW i \in 1..Len(r), NEW j \in 1..Len(r), r[i] = r[j]
              PROVE  i = j
          <5>1. CASE i = 1
            BY <2>1, <2>2, <2>4, <4>1, <5>1
          <5>2. CASE j = 1
            BY <2>1, <2>2, <2>4, <4>1, <5>2
          <5>3. CASE i # 1 /\ j # 1
            <6>1. /\ i - 1 \in 1..Len(q) /\ j - 1 \in 1..Len(q)
                  /\ q[i - 1] = q[j - 1]
              BY <2>2, <4>1, <5>3
            <6>2. i - 1 = j - 1
              BY <6>1
            <6> QED
              BY <2>1, <6>2
          <5> QED
            BY <5>1, <5>2, <5>3
        <4> QED
          BY <4>1
      <3> QED
        BY <2>1, <2>3, <3>1
  <1> QED
    BY <1>1, <1>2

-----------------------------------------------------------------------------
\* At first every block is free.
LEMMA PromiseInit == Promise!QInit => PromiseInv
  BY DEF Promise!QInit, PromiseInv, QueuesTyped, Promise!Conserved, Promise!In

\* Every operation on the queue keeps its blocks apart.
LEMMA PromiseStep == PromiseInv /\ [Promise!QNext]_(Promise!qvars) => PromiseInv'
  <1> SUFFICES ASSUME PromiseInv, [Promise!QNext]_(Promise!qvars)
               PROVE  PromiseInv'
    OBVIOUS
  <1> USE DEF PromiseInv, QueuesTyped
  <1>1. CASE Promise!TakeFree
    BY <1>1 DEF Promise!TakeFree, Promise!Conserved
  <1>2. CASE Promise!TakeHigh
    <2>1. /\ high' \in Seq(Block) /\ Promise!In(high') = Promise!In(high) \ {Head(high)}
          /\ Head(high) \in Promise!In(high)
          /\ \A i, j \in 1..Len(high') : high'[i] = high'[j] => i = j
      BY <1>2, InTail DEF Promise!TakeHigh, Promise!Conserved
    <2> QED
      BY <1>2, <2>1 DEF Promise!TakeHigh, Promise!Conserved
  <1>3. CASE Promise!TakeNormal
    <2>1. /\ normal' \in Seq(Block) /\ Promise!In(normal') = Promise!In(normal) \ {Head(normal)}
          /\ Head(normal) \in Promise!In(normal)
          /\ \A i, j \in 1..Len(normal') : normal'[i] = normal'[j] => i = j
      BY <1>3, InTail DEF Promise!TakeNormal, Promise!Conserved
    <2> QED
      BY <1>3, <2>1 DEF Promise!TakeNormal, Promise!Conserved
  <1>4. CASE Promise!Remove
    <2>1. PICK m \in 0..Len(normal), n \in 0..Len(high) :
            \E k \in [1..m -> 1..Len(normal)], l \in [1..n -> 1..Len(high)] :
              /\ Promise!Keeps(k, normal) /\ Promise!Keeps(l, high)
              /\ normal' = [i \in 1..m |-> normal[k[i]]]
              /\ high' = [i \in 1..n |-> high[l[i]]]
              /\ free' = free \cup (Promise!In(normal) \ Promise!In(normal'))
                              \cup (Promise!In(high) \ Promise!In(high'))
      BY <1>4 DEF Promise!Remove
    <2>2. PICK k \in [1..m -> 1..Len(normal)], l \in [1..n -> 1..Len(high)] :
              /\ Promise!Keeps(k, normal) /\ Promise!Keeps(l, high)
              /\ normal' = [i \in 1..m |-> normal[k[i]]]
              /\ high' = [i \in 1..n |-> high[l[i]]]
              /\ free' = free \cup (Promise!In(normal) \ Promise!In(normal'))
                              \cup (Promise!In(high) \ Promise!In(high'))
      BY <2>1
    <2>0. /\ normal \in Seq(Block) /\ high \in Seq(Block)
          /\ \A i, j \in 1..Len(normal) : normal[i] = normal[j] => i = j
          /\ \A i, j \in 1..Len(high) : high[i] = high[j] => i = j
      BY DEF Promise!Conserved
    <2>3. /\ normal' \in Seq(Block) /\ Promise!In(normal') \subseteq Promise!In(normal)
          /\ \A i, j \in 1..Len(normal') : normal'[i] = normal'[j] => i = j
      <3>1. \A i \in 1..m : k[i] \in 1..Len(normal) /\ normal[k[i]] \in Block
        BY <2>0
      <3>2. /\ normal' \in Seq(Block) /\ Len(normal') = m
            /\ \A i \in 1..m : normal'[i] = normal[k[i]]
        <4>1. m \in Nat
          BY <2>1, <2>0
        <4>2. [i \in 1..m |-> normal[k[i]]] \in [1..m -> Block]
          BY <3>1
        <4>3. normal' \in [1..m -> Block]
          BY <2>2, <4>2
        <4> QED
          BY <2>2, <4>1, <4>3, FunSeq
      <3>3. \A i, j \in 1..m : k[i] = k[j] => i = j
        <4>1. Len(k) = m
          BY <2>0
        <4>2. \A i, j \in 1..m : i < j => k[i] < k[j]
          BY <2>2, <4>1 DEF Promise!Keeps
        <4> QED
          BY <3>1, <4>2
      <3>4. \A i \in 1..m : normal'[i] \in Promise!In(normal)
        BY <3>1, <3>2 DEF Promise!In
      <3>5. Promise!In(normal') \subseteq Promise!In(normal)
        BY <3>2, <3>4 DEF Promise!In
      <3>6. \A i, j \in 1..m : normal'[i] = normal'[j] => k[i] = k[j]
        <4>1. ASSUME NEW i \in 1..m, NEW j \in 1..m, normal'[i] = normal'[j]
              PROVE  k[i] = k[j]
          <5>1. k[i] \in 1..Len(normal) /\ k[j] \in 1..Len(normal)
            BY <3>1
          <5>2. normal[k[i]] = normal[k[j]]
            BY <3>2, <4>1
          <5> QED
            BY <2>0, <5>1, <5>2
        <4> QED
          BY <4>1
      <3>7. \A i, j \in 1..m : normal'[i] = normal'[j] => i = j
        BY <3>3, <3>6
      <3> QED
        BY <3>2, <3>5, <3>7
    <2>4. /\ high' \in Seq(Block) /\ Promise!In(high') \subseteq Promise!In(high)
          /\ \A i, j \in 1..Len(high') : high'[i] = high'[j] => i = j
      <3>1. \A i \in 1..n : l[i] \in 1..Len(high) /\ high[l[i]] \in Block
        BY <2>0
      <3>2. /\ high' \in Seq(Block) /\ Len(high') = n
            /\ \A i \in 1..n : high'[i] = high[l[i]]
        <4>1. n \in Nat
          BY <2>1, <2>0
        <4>2. [i \in 1..n |-> high[l[i]]] \in [1..n -> Block]
          BY <3>1
        <4>3. high' \in [1..n -> Block]
          BY <2>2, <4>2
        <4> QED
          BY <2>2, <4>1, <4>3, FunSeq
      <3>3. \A i, j \in 1..n : l[i] = l[j] => i = j
        <4>1. Len(l) = n
          BY <2>0
        <4>2. \A i, j \in 1..n : i < j => l[i] < l[j]
          BY <2>2, <4>1 DEF Promise!Keeps
        <4> QED
          BY <3>1, <4>2
      <3>4. \A i \in 1..n : high'[i] \in Promise!In(high)
        BY <3>1, <3>2 DEF Promise!In
      <3>5. Promise!In(high') \subseteq Promise!In(high)
        BY <3>2, <3>4 DEF Promise!In
      <3>6. \A i, j \in 1..n : high'[i] = high'[j] => l[i] = l[j]
        <4>1. ASSUME NEW i \in 1..n, NEW j \in 1..n, high'[i] = high'[j]
              PROVE  l[i] = l[j]
          <5>1. l[i] \in 1..Len(high) /\ l[j] \in 1..Len(high)
            BY <3>1
          <5>2. high[l[i]] = high[l[j]]
            BY <3>2, <4>1
          <5> QED
            BY <2>0, <5>1, <5>2
        <4> QED
          BY <4>1
      <3>7. \A i, j \in 1..n : high'[i] = high'[j] => i = j
        BY <3>3, <3>6
      <3> QED
        BY <3>2, <3>5, <3>7
    <2>5. free' = free \cup (Promise!In(normal) \ Promise!In(normal')) \cup (Promise!In(high) \ Promise!In(high'))
      BY <2>2
    <2>6. out' = out
      BY <1>4 DEF Promise!Remove
    <2>7. QueuesTyped'
      BY <2>3, <2>4
    <2>8. Promise!Conserved'
      BY <2>3, <2>4, <2>5, <2>6 DEF Promise!Conserved
    <2> QED
      BY <2>7, <2>8
  <1>5. ASSUME NEW b \in out, Promise!AddNormal(b)
        PROVE  PromiseInv'
    <2>1. b \in Block /\ b \notin Promise!In(normal)
      BY DEF Promise!Conserved
    <2>2. /\ normal' \in Seq(Block) /\ Promise!In(normal') = Promise!In(normal) \cup {b}
          /\ \A i, j \in 1..Len(normal') : normal'[i] = normal'[j] => i = j
      BY <1>5, <2>1, InAppend DEF Promise!AddNormal, Promise!Conserved
    <2> QED
      BY <1>5, <2>1, <2>2 DEF Promise!AddNormal, Promise!Conserved
  <1>6. ASSUME NEW b \in out, Promise!AddHigh(b)
        PROVE  PromiseInv'
    <2>1. b \in Block /\ b \notin Promise!In(high)
      BY DEF Promise!Conserved
    <2>2. /\ high' \in Seq(Block) /\ Promise!In(high') = Promise!In(high) \cup {b}
          /\ \A i, j \in 1..Len(high') : high'[i] = high'[j] => i = j
      BY <1>6, <2>1, InAppend DEF Promise!AddHigh, Promise!Conserved
    <2> QED
      BY <1>6, <2>1, <2>2 DEF Promise!AddHigh, Promise!Conserved
  <1>7. ASSUME NEW b \in out, Promise!Release(b)
        PROVE  PromiseInv'
    BY <1>7 DEF Promise!Release, Promise!Conserved
  <1>8. ASSUME NEW b \in out, Promise!Recycle(b)
        PROVE  PromiseInv'
    <2>1. CASE high # << >> /\ high' = Tail(high) /\ normal' = normal
      <3>1. /\ high' \in Seq(Block) /\ Promise!In(high') = Promise!In(high) \ {Head(high)}
            /\ Head(high) \in Promise!In(high)
            /\ \A i, j \in 1..Len(high') : high'[i] = high'[j] => i = j
        BY <2>1, InTail DEF Promise!Conserved
      <3>2. free' = free \cup {b} /\ out' = (out \ {b}) \cup {Head(high)}
        BY <1>8, <2>1 DEF Promise!Recycle
      <3>3. Promise!In(normal') = Promise!In(normal)
        BY <2>1
      <3> QED
        BY <2>1, <3>1, <3>2, <3>3 DEF Promise!Conserved
    <2>2. CASE high = << >> /\ normal # << >> /\ normal' = Tail(normal) /\ high' = high
      <3>1. /\ normal' \in Seq(Block) /\ Promise!In(normal') = Promise!In(normal) \ {Head(normal)}
            /\ Head(normal) \in Promise!In(normal)
            /\ \A i, j \in 1..Len(normal') : normal'[i] = normal'[j] => i = j
        BY <2>2, InTail DEF Promise!Conserved
      <3>2. free' = free \cup {b} /\ out' = (out \ {b}) \cup {Head(normal)}
        BY <1>8, <2>2 DEF Promise!Recycle
      <3>3. Promise!In(high') = Promise!In(high)
        BY <2>2
      <3> QED
        BY <2>2, <3>1, <3>2, <3>3 DEF Promise!Conserved
    <2> QED
      BY <1>8, <2>1, <2>2 DEF Promise!Recycle
  <1>9. CASE UNCHANGED Promise!qvars
    BY SMTT(60), <1>9 DEF Promise!qvars, Promise!Conserved, Promise!In
  <1> QED
    BY <1>1, <1>2, <1>3, <1>4, <1>5, <1>6, <1>7, <1>8, <1>9 DEF Promise!QNext

\* No block is ever lost, free and in use at once, or queued twice, whatever the
\* callers of such a queue create, steal, remove and run.
THEOREM PromiseConserves == Promise!QSpec => []Promise!Conserved
  <1>1. PromiseInv => Promise!Conserved
    BY DEF PromiseInv
  <1> QED
    BY PromiseInit, PromiseStep, <1>1, PTL DEF Promise!QSpec
=============================================================================
