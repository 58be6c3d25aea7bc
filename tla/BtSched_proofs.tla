---------------------------- MODULE BtSched_proofs ----------------------------
(***************************************************************************)
(* Proofs about BtSched, for any number of blocks, connections and         *)
(* threads: the typing of the state, the conservation of the blocks, the   *)
(* bound on the copies of a request, and the order in which they leave.    *)
(***************************************************************************)
EXTENDS BtSched, FiniteSetTheorems, TLAPS

(***************************************************************************)
(* How often a sequence has an element of a given set, and how that number *)
(* changes when elements are added, taken, or selected.                    *)
(***************************************************************************)
At(q, X) == { i \in 1..Len(q) : q[i] \in X }
Times(q, X) == Cardinality(At(q, X))
One(e, X) == IF e \in X THEN 1 ELSE 0

\* The positions counted are finitely many.
LEMMA TimesType ==
    ASSUME NEW S, NEW q \in Seq(S), NEW X
    PROVE  IsFiniteSet(At(q, X)) /\ Times(q, X) \in Nat
<1>1. Len(q) \in Nat
  OBVIOUS
<1>2. IsFiniteSet(1..Len(q))
  BY <1>1, FS_Interval
<1>3. At(q, X) \in SUBSET (1..Len(q))
  BY DEF At
<1>4. IsFiniteSet(At(q, X))
  BY <1>2, <1>3, FS_Subset
<1> QED BY <1>4, FS_CardinalityType DEF Times

\* Nothing is found in the empty sequence.
LEMMA TimesEmpty == ASSUME NEW X PROVE Times(<< >>, X) = 0
<1>1. At(<< >>, X) = {}
  BY DEF At
<1> QED BY <1>1, FS_EmptySet DEF Times

\* An element put at the tail.
LEMMA TimesAppend ==
    ASSUME NEW S, NEW q \in Seq(S), NEW e \in S, NEW X
    PROVE  Times(Append(q, e), X) = Times(q, X) + One(e, X)
<1>1. IsFiniteSet(At(q, X)) /\ Times(q, X) \in Nat
  BY TimesType
<1>2. /\ Len(q) \in Nat /\ Len(Append(q, e)) = Len(q) + 1
      /\ \A i \in 1..Len(q) : Append(q, e)[i] = q[i]
      /\ Append(q, e)[Len(q) + 1] = e
  OBVIOUS
<1>3. CASE e \in X
  <2>1. At(Append(q, e), X) = At(q, X) \cup {Len(q) + 1}
    BY <1>2, <1>3 DEF At
  <2>2. Len(q) + 1 \notin At(q, X)
    BY <1>2 DEF At
  <2> QED BY <1>1, <1>3, <2>1, <2>2, FS_AddElement DEF Times, One
<1>4. CASE e \notin X
  <2>1. At(Append(q, e), X) = At(q, X)
    BY <1>2, <1>4 DEF At
  <2> QED BY <1>1, <1>4, <2>1 DEF Times, One
<1> QED BY <1>3, <1>4

\* An element put at the head.
LEMMA TimesCons ==
    ASSUME NEW S, NEW q \in Seq(S), NEW e \in S, NEW X
    PROVE  Times(<< e >> \o q, X) = Times(q, X) + One(e, X)
<1> DEFINE r == << e >> \o q
           T == { i \in 2..Len(r) : r[i] \in X }
           f == [i \in At(q, X) |-> i + 1]
<1>1. IsFiniteSet(At(q, X)) /\ Times(q, X) \in Nat
  BY TimesType
<1>2. /\ Len(q) \in Nat /\ Len(r) = Len(q) + 1 /\ r[1] = e
      /\ \A i \in 1..Len(q) : r[i + 1] = q[i]
  OBVIOUS
<1>3. f \in Bijection(At(q, X), T)
  <2> HIDE DEF r
  <2>1. f \in [At(q, X) -> T]
    BY <1>2 DEF At
  <2>2. \A i, j \in At(q, X) : f[i] = f[j] => i = j
    BY <1>2 DEF At
  <2>3. \A j \in T : \E i \in At(q, X) : f[i] = j
    <3> SUFFICES ASSUME NEW j \in T PROVE \E i \in At(q, X) : f[i] = j
      OBVIOUS
    <3>1. j - 1 \in 1..Len(q) /\ r[(j - 1) + 1] = q[j - 1] /\ (j - 1) + 1 = j
      BY <1>2
    <3>2. j - 1 \in At(q, X)
      BY <3>1 DEF At
    <3> QED BY <3>1, <3>2
  <2> QED BY <2>1, <2>2, <2>3 DEF Bijection, Injection, Surjection, IsInjective
<1>4. IsFiniteSet(T) /\ Cardinality(T) = Times(q, X)
  <2> HIDE DEF f, T
  <2> QED BY <1>1, <1>3, FS_Bijection DEF ExistsBijection, Times
<1>5. CASE e \in X
  <2>1. At(r, X) = T \cup {1} /\ 1 \notin T
    <3> HIDE DEF r
    <3> QED BY <1>2, <1>5 DEF At
  <2> HIDE DEF T, r
  <2> QED BY <1>1, <1>4, <1>5, <2>1, FS_AddElement DEF Times, One, r
<1>6. CASE e \notin X
  <2>1. At(r, X) = T
    <3> HIDE DEF r
    <3> QED BY <1>2, <1>6 DEF At
  <2> HIDE DEF T, r
  <2> QED BY <1>1, <1>4, <1>6, <2>1 DEF Times, One, r
<1> QED BY <1>5, <1>6

\* The head taken off.
LEMMA TimesTail ==
    ASSUME NEW S, NEW q \in Seq(S), q # << >>, NEW X
    PROVE  Times(q, X) = Times(Tail(q), X) + One(Head(q), X)
<1>1. q = << Head(q) >> \o Tail(q)
  OBVIOUS
<1>2. Head(q) \in S /\ Tail(q) \in Seq(S)
  OBVIOUS
<1> HIDE DEF Times
<1>3. Times(<< Head(q) >> \o Tail(q), X) = Times(Tail(q), X) + One(Head(q), X)
  BY <1>2, TimesCons
<1> QED BY <1>1, <1>3

\* Elements selected without repetition.
LEMMA TimesSelected ==
    ASSUME NEW S, NEW q \in Seq(S), NEW n \in Nat, NEW f \in [1..n -> 1..Len(q)],
           \A i, j \in 1..n : f[i] = f[j] => i = j, NEW X
    PROVE  Times([i \in 1..n |-> q[f[i]]], X) <= Times(q, X)
<1> DEFINE r == [i \in 1..n |-> q[f[i]]]
           g == [i \in At(r, X) |-> f[i]]
<1>1. IsFiniteSet(At(q, X))
  BY TimesType
<1>2. Len(r) = n
  OBVIOUS
<1>3. g \in [At(r, X) -> At(q, X)]
  BY <1>2 DEF At
<1>4. \A i, j \in At(r, X) : g[i] = g[j] => i = j
  BY <1>2 DEF At
<1>5. g \in Injection(At(r, X), At(q, X))
  BY <1>3, <1>4 DEF Injection, IsInjective
<1> HIDE DEF g, r
<1>6. Cardinality(At(r, X)) <= Cardinality(At(q, X))
  BY <1>1, <1>5, FS_Injection
<1> QED BY <1>6 DEF Times, r

(***************************************************************************)
(* Sequence facts used below.                                              *)
(***************************************************************************)
LEMMA TailFacts ==
    ASSUME NEW S, NEW s \in Seq(S), s # << >>
    PROVE  /\ Head(s) \in S /\ Tail(s) \in Seq(S)
           /\ Len(Tail(s)) = Len(s) - 1
           /\ Len(s) \in Nat /\ Len(s) >= 1
           /\ Head(s) = s[1]
           /\ \A i \in 1..Len(Tail(s)) : Tail(s)[i] = s[i + 1]
  OBVIOUS

LEMMA AppendFacts ==
    ASSUME NEW S, NEW s \in Seq(S), NEW e \in S
    PROVE  /\ Append(s, e) \in Seq(S)
           /\ Len(Append(s, e)) = Len(s) + 1
           /\ Len(s) \in Nat
           /\ \A i \in 1..Len(s) : Append(s, e)[i] = s[i]
           /\ Append(s, e)[Len(s) + 1] = e
  OBVIOUS

LEMMA ConcatFacts ==
    ASSUME NEW S, NEW s \in Seq(S), NEW t \in Seq(S)
    PROVE  /\ s \o t \in Seq(S)
           /\ Len(s \o t) = Len(s) + Len(t)
           /\ Len(s) \in Nat /\ Len(t) \in Nat
           /\ \A i \in 1..Len(s) : (s \o t)[i] = s[i]
           /\ \A i \in 1..Len(t) : (s \o t)[Len(s) + i] = t[i]
  OBVIOUS

LEMMA FunSeq ==
    ASSUME NEW S, NEW n \in Nat, NEW f \in [1..n -> S]
    PROVE  f \in Seq(S) /\ Len(f) = n
  OBVIOUS

(***************************************************************************)
(* Typing.  A thread that checks or adds has a request, and the executor   *)
(* has a block exactly while it is between popping it and putting it away. *)
(***************************************************************************)
Serving == { "test", "send", "sent", "skip", "retry", "free" }

Places ==
    /\ \A t \in Thread : pc[t] \in { "check", "add" } => req[t] # None
    /\ (held # None) <=> (pc[Executor] \in Serving)

LEMMA InitTypeOK == Init => TypeOK
  BY SchedAssumption, FS_CardinalityType, FunSeq
     DEF Init, TypeOK, PC, Link, Unused

LEMMA InitPlaces == Init => Places
  BY SchedAssumption DEF Init, Places, Serving

LEMMA PurgeType ==
    ASSUME TypeOK, NEW t \in Thread, Sched_DeleteAllPoll(t)
    PROVE  sched_list' \in Seq(Entry) /\ sched_free_pool' \in Seq(Block)
<1>1. PICK n \in 0..Len(sched_list), m \in 0..Len(sched_list) :
        \E f \in [1..n -> KeptAt], g \in [1..m -> PollAt] :
          /\ sched_list' = [i \in 1..n |-> sched_list[f[i]]]
          /\ sched_free_pool' = sched_free_pool
                                  \o [i \in 1..m |-> sched_list[g[i]].blk]
  BY DEF Sched_DeleteAllPoll
<1>2. PICK f \in [1..n -> KeptAt], g \in [1..m -> PollAt] :
          /\ sched_list' = [i \in 1..n |-> sched_list[f[i]]]
          /\ sched_free_pool' = sched_free_pool
                                  \o [i \in 1..m |-> sched_list[g[i]].blk]
  BY <1>1
<1> DEFINE freed == [i \in 1..m |-> sched_list[g[i]].blk]
<1>3. sched_list \in Seq(Entry) /\ sched_free_pool \in Seq(Block)
      /\ n \in Nat /\ m \in Nat
  BY DEF TypeOK
<1>4. \A i \in 1..n : sched_list[f[i]] \in Entry
  BY <1>3 DEF KeptAt
<1>5. sched_list' \in Seq(Entry)
  <2>1. [i \in 1..n |-> sched_list[f[i]]] \in [1..n -> Entry]
    BY <1>4
  <2> QED
    BY <1>2, <1>3, <2>1, FunSeq
<1>6. \A i \in 1..m : sched_list[g[i]].blk \in Block
  <2>1. \A i \in 1..m : sched_list[g[i]] \in Entry
    BY <1>3 DEF PollAt
  <2>2. \A e \in Entry : e.blk \in Block
    BY DEF Entry
  <2> QED
    BY <2>1, <2>2
<1>7. freed \in Seq(Block)
  <2>1. freed \in [1..m -> Block]
    BY <1>6
  <2> QED
    BY <1>3, <2>1, FunSeq
<1>8. sched_free_pool \o freed \in Seq(Block)
  BY <1>3, <1>7, ConcatFacts
<1> QED
  BY <1>2, <1>5, <1>8

LEMMA NextTypeOK == TypeOK /\ Places /\ [Next]_vars => TypeOK'
<1> SUFFICES ASSUME TypeOK, Places, [Next]_vars PROVE TypeOK'
  OBVIOUS
<1>1. ASSUME NEW t \in Thread, Request_Frame(t) PROVE TypeOK'
  BY <1>1 DEF Request_Frame, Sched_SendPollFrame, Sched_SendAclNullStopFrame,
     Sched_SendAclNullContinueFrame, Goto, PC, Request, Event, lists, TypeOK
<1>2. ASSUME NEW t \in Thread, Sched_CheckExistSched(t) PROVE TypeOK'
  BY <1>2 DEF Sched_CheckExistSched, Goto, Resume, PC, lists, TypeOK
<1>3. ASSUME NEW t \in Thread, Sched_DoOneSched(t) PROVE TypeOK'
  <2>1. req[t] \in Request
    BY <1>3 DEF Sched_DoOneSched, Places, TypeOK
  <2>2. sched_list' \in Seq(Entry) /\ sched_free_pool' \in Seq(Block)
    <3>1. CASE sched_free_pool = << >>
      BY <1>3, <3>1 DEF Sched_DoOneSched, TypeOK
    <3>2. CASE sched_free_pool # << >>
      <4> DEFINE e == [blk |-> Head(sched_free_pool), event |-> req[t].event,
                       dev |-> req[t].dev]
      <4>1. Head(sched_free_pool) \in Block /\ Tail(sched_free_pool) \in Seq(Block)
        BY <3>2, TailFacts DEF TypeOK
      <4>2. e \in Entry
        BY <2>1, <4>1 DEF Request, Entry
      <4>3. Append(sched_list, e) \in Seq(Entry)
        BY <4>2, AppendFacts DEF TypeOK
      <4>4. sched_list' = Append(sched_list, e)
            /\ sched_free_pool' = Tail(sched_free_pool)
        BY <1>3, <3>2 DEF Sched_DoOneSched
      <4> QED
        BY <4>1, <4>3, <4>4
    <3> QED
      BY <3>1, <3>2
  <2> QED
    BY <1>3, <2>2 DEF Sched_DoOneSched, Goto, Resume, PC, TypeOK
<1>4. ASSUME NEW t \in Thread, Sched_ScanAllLink(t) PROVE TypeOK'
  BY <1>4 DEF Sched_ScanAllLink, Goto, PC, lists, TypeOK
<1>5. ASSUME NEW t \in Thread, Scan_Link(t) PROVE TypeOK'
  <2>1. PICK d \in scan[t] :
          /\ scan' = [scan EXCEPT ![t] = @ \ {d}]
          /\ link' = [link EXCEPT ![d].quiet = TRUE]
          /\ \/ Sched_SendPollFrame(t, d) /\ Goto(t, "check")
             \/ UNCHANGED << pc, req >>
    BY <1>5 DEF Scan_Link
  <2>2. d \in Dev
    BY <2>1 DEF TypeOK
  <2>3. link' \in [Dev -> Link]
    <3>1. [link[d] EXCEPT !.quiet = TRUE] \in Link
      BY ZenonT(20), <2>2 DEF TypeOK, Link
    <3>2. link' = [link EXCEPT ![d] = [link[d] EXCEPT !.quiet = TRUE]]
      BY <2>1, <2>2 DEF TypeOK
    <3> QED
      BY <3>1, <3>2 DEF TypeOK
  <2>4. pc' \in [Thread -> PC] /\ req' \in [Thread -> Request \cup {None}]
    <3>1. CASE Sched_SendPollFrame(t, d) /\ Goto(t, "check")
      <4>1. [event |-> "SEND_POLL", dev |-> d] \in Request
        BY <2>2 DEF Request, Event
      <4> QED
        BY <3>1, <4>1 DEF Sched_SendPollFrame, Goto, PC, TypeOK
    <3>2. CASE UNCHANGED << pc, req >>
      BY <3>2 DEF TypeOK
    <3> QED
      BY <2>1, <3>1, <3>2
  <2>5. scan' \in [Thread -> SUBSET Dev]
    BY <2>1 DEF TypeOK
  <2> QED
    BY <1>5, <2>3, <2>4, <2>5 DEF Scan_Link, lists, TypeOK
<1>6. ASSUME NEW t \in Thread, Scan_End(t) PROVE TypeOK'
  BY <1>6 DEF Scan_End, Goto, PC, lists, TypeOK
<1>7. ASSUME NEW t \in Thread, Sched_DeleteAllPoll(t) PROVE TypeOK'
  BY <1>7, PurgeType DEF Sched_DeleteAllPoll, thr, TypeOK
<1>8. CASE Excute_Pop
  <2>1. Head(sched_list) \in Entry /\ Tail(sched_list) \in Seq(Entry)
    BY <1>8, TailFacts DEF Excute_Pop, TypeOK
  <2> QED
    BY <1>8, <2>1 DEF Excute_Pop, Goto, PC, TypeOK
<1>9. CASE Frame_Test
  BY <1>9 DEF Frame_Test, Goto, PC, lists, TypeOK
<1>10. CASE Frame_Send
  BY <1>10 DEF Frame_Send, Goto, PC, lists, TypeOK
<1>11. CASE Excute_Record
  <2>1. held \in Entry /\ held.dev \in Dev
    BY <1>11 DEF Excute_Record, Places, Serving, Entry, TypeOK
  <2>2. /\ [link[held.dev] EXCEPT !.rxStopped = TRUE] \in Link
        /\ [link[held.dev] EXCEPT !.rxStopped = FALSE] \in Link
    BY ZenonT(20), <2>1 DEF TypeOK, Link
  <2>3. link' \in [Dev -> Link]
    <3> DEFINE Recorded(f) == [link EXCEPT ![held.dev] = [link[held.dev] EXCEPT !.rxStopped = f]]
    <3>1. Recorded(TRUE) \in [Dev -> Link] /\ Recorded(FALSE) \in [Dev -> Link]
      BY <2>1, <2>2 DEF TypeOK
    <3>2. link' = Recorded(TRUE) \/ link' = Recorded(FALSE) \/ link' = link
      BY <1>11 DEF Excute_Record
    <3> QED
      BY <3>1, <3>2 DEF TypeOK
  <2> QED
    BY <1>11, <2>3 DEF Excute_Record, Goto, PC, lists, TypeOK
<1>12. CASE Excute_Free
  <2>1. held \in Entry /\ held.blk \in Block
    BY <1>12 DEF Excute_Free, Places, Serving, Entry, TypeOK
  <2>2. Append(sched_free_pool, held.blk) \in Seq(Block)
    BY <2>1, AppendFacts DEF TypeOK
  <2> QED
    BY <1>12, <2>2 DEF Excute_Free, Goto, PC, TypeOK
<1>13. CASE Excute_Retry
  <2>1. held \in Entry
    BY <1>13 DEF Excute_Retry, Places, Serving, TypeOK
  <2>2. << held >> \in Seq(Entry) /\ sched_list \in Seq(Entry)
    BY <2>1 DEF TypeOK
  <2>3. << held >> \o sched_list \in Seq(Entry)
    BY <2>2, ConcatFacts
  <2> QED
    BY <1>13, <2>3 DEF Excute_Retry, Goto, PC, TypeOK
<1>14. ASSUME NEW d \in Dev,
              Hci_Add_Connect_Device(d) \/ Frag_InitTxForConnDev(d)
                \/ Hci_Del_Connect_Device(d) \/ Link_Changes(d)
       PROVE  TypeOK'
  <2>1. \E l \in Link : link' = [link EXCEPT ![d] = l]
    <3> link[d] \in Link
      BY DEF TypeOK
    <3>1. CASE Hci_Add_Connect_Device(d)
      BY <3>1 DEF Hci_Add_Connect_Device, Unused, Link
    <3>2. CASE Frag_InitTxForConnDev(d)
      <4>1. [link[d] EXCEPT !.valid = FALSE, !.barred = FALSE,
                            !.rxStopped = FALSE] \in Link
        BY DEF Link
      <4>2. link' = [link EXCEPT ![d] = [link[d] EXCEPT !.valid = FALSE,
                          !.barred = FALSE, !.rxStopped = FALSE]]
        BY <3>2 DEF Frag_InitTxForConnDev, TypeOK
      <4> QED
        BY <4>1, <4>2
    <3>3. CASE Hci_Del_Connect_Device(d)
      <4>1. [link[d] EXCEPT !.listed = FALSE] \in Link
        BY DEF Link
      <4> QED
        BY <3>3, <4>1 DEF Hci_Del_Connect_Device
    <3>4. CASE Link_Changes(d)
      <4>1. /\ [link[d] EXCEPT !.connected = TRUE] \in Link
            /\ [link[d] EXCEPT !.sco = ~@] \in Link
            /\ [link[d] EXCEPT !.barred = ~@] \in Link
            /\ [link[d] EXCEPT !.quiet = FALSE] \in Link
        BY DEF Link
      <4> QED
        BY <3>4, <4>1 DEF Link_Changes
    <3> QED
      BY <1>14, <3>1, <3>2, <3>3, <3>4
  <2> QED
    BY <1>14, <2>1 DEF Hci_Add_Connect_Device, Frag_InitTxForConnDev,
       Hci_Del_Connect_Device, Link_Changes, lists, thr, TypeOK
<1>15. CASE UNCHANGED vars
  BY <1>15 DEF vars, lists, thr, TypeOK
<1> QED
  BY <1>1, <1>2, <1>3, <1>4, <1>5, <1>6, <1>7, <1>8, <1>9, <1>10, <1>11,
     <1>12, <1>13, <1>14, <1>15 DEF Next, Excute

LEMMA NextPlaces == TypeOK /\ Places /\ [Next]_vars => Places'
<1> SUFFICES ASSUME TypeOK, Places, [Next]_vars PROVE Places'
  OBVIOUS
<1> USE SchedAssumption
<1>1. ASSUME NEW t \in Thread, NEW l \in PC \ Serving, held' = held,
             pc' = [pc EXCEPT ![t] = l], pc[t] \notin Serving,
             \A x \in Thread : x # t => req'[x] = req[x],
             l \in { "check", "add" } => req'[t] # None
      PROVE  Places'
  BY <1>1 DEF Places, TypeOK
<1>2. ASSUME NEW t \in Thread, Request_Frame(t) PROVE Places'
  <2>1. \E r \in Request : req' = [req EXCEPT ![t] = r]
    BY <1>2 DEF Request_Frame, Sched_SendPollFrame, Sched_SendAclNullStopFrame,
       Sched_SendAclNullContinueFrame, Request, Event
  <2>2. req'[t] # None /\ \A x \in Thread : x # t => req'[x] = req[x]
    BY <2>1 DEF TypeOK
  <2>3. /\ held' = held /\ pc[t] \notin Serving
        /\ pc' = [pc EXCEPT ![t] = "check"] /\ "check" \in PC \ Serving
    BY <1>2 DEF Request_Frame, Goto, lists, PC, Serving
  <2> QED
    BY <1>1, <2>2, <2>3
<1>3. ASSUME NEW t \in Thread, Sched_CheckExistSched(t) PROVE Places'
  <2> DEFINE l == pc'[t]
  <2>1. /\ held' = held /\ pc[t] \notin Serving
        /\ pc' = [pc EXCEPT ![t] = l] /\ l \in PC \ Serving
        /\ \A x \in Thread : x # t => req'[x] = req[x]
    BY <1>3 DEF Sched_CheckExistSched, Goto, Resume, lists, PC, Serving, TypeOK
  <2>2. l = "check" \/ l = "add" => req'[t] # None
    BY <1>3 DEF Sched_CheckExistSched, Goto, Resume, Places, TypeOK
  <2> QED
    BY <1>1, <2>1, <2>2
<1>4. ASSUME NEW t \in Thread,
             Sched_DoOneSched(t) \/ Sched_ScanAllLink(t) \/ Scan_End(t)
      PROVE  Places'
  <2> DEFINE l == pc'[t]
  <2>1. /\ held' = held /\ pc[t] \notin Serving
        /\ pc' = [pc EXCEPT ![t] = l] /\ l \in { "idle", "scan" }
        /\ \A x \in Thread : x # t => req'[x] = req[x]
    BY <1>4 DEF Sched_DoOneSched, Sched_ScanAllLink, Scan_End, Goto, Resume,
       lists, Serving, TypeOK
  <2> QED
    BY <1>1, <2>1 DEF PC, Serving
<1>5. ASSUME NEW t \in Thread, Scan_Link(t) PROVE Places'
  <2>1. CASE UNCHANGED << pc, req >>
    BY <1>5, <2>1 DEF Scan_Link, lists, Places
  <2>2. CASE ~ UNCHANGED << pc, req >>
    <3>1. PICK d \in scan[t] : Sched_SendPollFrame(t, d) /\ Goto(t, "check")
      BY <1>5, <2>2 DEF Scan_Link
    <3>2. [event |-> "SEND_POLL", dev |-> d] \in Request
      BY DEF Request, Event, TypeOK
    <3>3. req'[t] # None /\ \A x \in Thread : x # t => req'[x] = req[x]
      BY <3>1, <3>2 DEF Sched_SendPollFrame, TypeOK
    <3>4. /\ held' = held /\ pc[t] \notin Serving
          /\ pc' = [pc EXCEPT ![t] = "check"] /\ "check" \in PC \ Serving
      BY <1>5, <3>1 DEF Scan_Link, Goto, lists, PC, Serving
    <3> QED
      BY <1>1, <3>3, <3>4
  <2> QED
    BY <2>1, <2>2
<1>6. ASSUME NEW t \in Thread, Sched_DeleteAllPoll(t) PROVE Places'
  BY <1>6 DEF Sched_DeleteAllPoll, thr, Places
<1>7. CASE Excute_Pop
  <2>1. Head(sched_list) \in Entry
    BY <1>7, TailFacts DEF Excute_Pop, TypeOK
  <2> QED
    BY <1>7, <2>1 DEF Excute_Pop, Goto, Places, Serving, TypeOK
<1>8. CASE Frame_Test \/ Frame_Send \/ Excute_Record
  <2>1. held' = held /\ held # None /\ req' = req
    BY <1>8 DEF Frame_Test, Frame_Send, Excute_Record, lists, Places, Serving
  <2>2. PICK l \in Serving : pc' = [pc EXCEPT ![Executor] = l]
    BY <1>8 DEF Frame_Test, Frame_Send, Excute_Record, Goto, Serving
  <2> QED
    BY <2>1, <2>2 DEF Places, Serving, TypeOK
<1>9. CASE Excute_Free \/ Excute_Retry
  BY <1>9 DEF Excute_Free, Excute_Retry, Goto, Places, Serving, TypeOK
<1>10. ASSUME NEW d \in Dev,
              Hci_Add_Connect_Device(d) \/ Frag_InitTxForConnDev(d)
                \/ Hci_Del_Connect_Device(d) \/ Link_Changes(d)
       PROVE  Places'
  BY <1>10 DEF Hci_Add_Connect_Device, Frag_InitTxForConnDev,
     Hci_Del_Connect_Device, Link_Changes, lists, thr, Places
<1>11. CASE UNCHANGED vars
  BY <1>11 DEF vars, lists, thr, Places
<1> QED
  BY <1>2, <1>3, <1>4, <1>5, <1>6, <1>7, <1>8, <1>9, <1>10, <1>11
     DEF Next, Excute

\* The state keeps its type in every behaviour of the scheduler.
THEOREM TypeCorrect == Spec => [](TypeOK /\ Places)
<1>1. Init => TypeOK /\ Places
  BY InitTypeOK, InitPlaces
<1>2. TypeOK /\ Places /\ [Next]_vars => TypeOK' /\ Places'
  BY NextTypeOK, NextPlaces
<1> QED
  BY <1>1, <1>2, PTL DEF Spec

(***************************************************************************)
(* Conservation of the blocks, one lemma for each way a block can move.    *)
(***************************************************************************)
LEMMA InitConservation == Init => BlockConservation
  BY SchedAssumption, FS_CardinalityType, FunSeq
     DEF Init, BlockConservation, ListBlocks, FreeBlocks, HeldBlocks

\* Sched_DoOneSched: from the head of the pool to the tail of the list.
LEMMA AddConservation ==
    ASSUME TypeOK, TypeOK', BlockConservation, held' = held, NEW e \in Entry,
           sched_free_pool # << >>, e.blk = Head(sched_free_pool),
           sched_free_pool' = Tail(sched_free_pool),
           sched_list' = Append(sched_list, e)
    PROVE  BlockConservation'
<1> DEFINE s == sched_list
           p == sched_free_pool
<1>1. s \in Seq(Entry) /\ p \in Seq(Block)
  BY DEF TypeOK
<1>2. /\ Len(s) \in Nat /\ Len(s') = Len(s) + 1
      /\ \A i \in 1..Len(s) : s'[i] = s[i]
      /\ s'[Len(s) + 1] = e
  BY <1>1, AppendFacts
<1>3. /\ Len(p) \in Nat /\ Len(p) >= 1 /\ Len(p') = Len(p) - 1
      /\ e.blk = p[1]
      /\ \A i \in 1..Len(p') : p'[i] = p[i + 1]
  BY <1>1, TailFacts
<1> HIDE DEF s, p
<1>4. ListBlocks' = ListBlocks \cup {e.blk}
  BY <1>2 DEF ListBlocks, s
<1>5. FreeBlocks' = FreeBlocks \ {e.blk} /\ e.blk \in FreeBlocks
  <2>1. \A i, j \in 1..Len(p) : p[i] = p[j] => i = j
    BY DEF BlockConservation, p
  <2>2. FreeBlocks = { p[i] : i \in 1..Len(p) } /\ FreeBlocks' = { p'[i] : i \in 1..Len(p') }
    BY DEF FreeBlocks, p
  <2>3. \A i \in 1..Len(p') : p'[i] \in FreeBlocks /\ p'[i] # e.blk
    BY <1>3, <2>1, <2>2
  <2>4. \A b \in FreeBlocks \ {e.blk} : \E i \in 1..Len(p') : p'[i] = b
    <3> TAKE b \in FreeBlocks \ {e.blk}
    <3>1. PICK i \in 1..Len(p) : p[i] = b
      BY <2>2
    <3>2. i # 1 /\ i - 1 \in 1..Len(p') /\ p'[i - 1] = p[(i - 1) + 1]
      BY <1>3, <3>1
    <3> QED
      BY <3>1, <3>2
  <2>5. e.blk \in FreeBlocks
    BY <1>3, <2>2
  <2>6. FreeBlocks' \subseteq FreeBlocks \ {e.blk}
    BY <2>2, <2>3
  <2>7. FreeBlocks \ {e.blk} \subseteq FreeBlocks'
    BY <2>2, <2>4
  <2> QED
    BY <2>5, <2>6, <2>7
<1>6. HeldBlocks' = HeldBlocks
  BY DEF HeldBlocks
<1>7. \A i, j \in 1..Len(s') : s'[i].blk = s'[j].blk => i = j
  <2>1. \A i \in 1..Len(s) : s[i].blk # e.blk
    BY <1>5 DEF BlockConservation, ListBlocks, s
  <2>2. \A i, j \in 1..Len(s) : s[i].blk = s[j].blk => i = j
    BY DEF BlockConservation, s
  <2> QED
    BY <1>2, <2>1, <2>2
<1>8. \A i, j \in 1..Len(p') : p'[i] = p'[j] => i = j
  <2>1. \A i, j \in 1..Len(p) : p[i] = p[j] => i = j
    BY DEF BlockConservation, p
  <2> QED
    BY <1>3, <2>1
<1> QED
  BY <1>4, <1>5, <1>6, <1>7, <1>8 DEF BlockConservation, s, p

\* Excute_Pop: from the head of the list to the executor.
LEMMA PopConservation ==
    ASSUME TypeOK, BlockConservation, held = None, Excute_Pop
    PROVE  BlockConservation'
<1> DEFINE s == sched_list
<1>1. s \in Seq(Entry) /\ s # << >> /\ held' = Head(s) /\ s' = Tail(s)
  BY DEF TypeOK, Excute_Pop
<1>2. /\ Len(s) \in Nat /\ Len(s) >= 1 /\ Len(s') = Len(s) - 1
      /\ held' = s[1] /\ held' \in Entry
      /\ \A i \in 1..Len(s') : s'[i] = s[i + 1]
  BY <1>1, TailFacts
<1> HIDE DEF s
<1>3. HeldBlocks' = {held'.blk} /\ HeldBlocks = {}
  BY <1>2, SchedAssumption DEF HeldBlocks
<1>4. \A i, j \in 1..Len(s) : s[i].blk = s[j].blk => i = j
  BY DEF BlockConservation, s
<1>5. ListBlocks' = ListBlocks \ {held'.blk} /\ held'.blk \in ListBlocks
  <2>1. ListBlocks = { s[i].blk : i \in 1..Len(s) } /\ ListBlocks' = { s'[i].blk : i \in 1..Len(s') }
    BY DEF ListBlocks, s
  <2>2. \A i \in 1..Len(s') : s'[i].blk \in ListBlocks /\ s'[i].blk # held'.blk
    BY <1>2, <1>4, <2>1
  <2>3. \A b \in ListBlocks \ {held'.blk} : \E i \in 1..Len(s') : s'[i].blk = b
    <3> TAKE b \in ListBlocks \ {held'.blk}
    <3>1. PICK i \in 1..Len(s) : s[i].blk = b
      BY <2>1
    <3>2. i # 1 /\ i - 1 \in 1..Len(s') /\ s'[i - 1] = s[(i - 1) + 1]
      BY <1>2, <3>1
    <3> QED
      BY <3>1, <3>2
  <2>4. held'.blk \in ListBlocks
    BY <1>2, <2>1
  <2>5. ListBlocks' \subseteq ListBlocks \ {held'.blk}
    BY <2>1, <2>2
  <2>6. ListBlocks \ {held'.blk} \subseteq ListBlocks'
    BY <2>1, <2>3
  <2> QED
    BY <2>4, <2>5, <2>6
<1>6. \A i, j \in 1..Len(s') : s'[i].blk = s'[j].blk => i = j
  BY <1>2, <1>4
<1>7. FreeBlocks' = FreeBlocks /\ sched_free_pool' = sched_free_pool
  BY DEF Excute_Pop, FreeBlocks
<1> QED
  BY <1>3, <1>5, <1>6, <1>7 DEF BlockConservation, s

\* Excute_Free: from the executor to the tail of the pool.
LEMMA FreeConservation ==
    ASSUME TypeOK, BlockConservation, held # None, Excute_Free
    PROVE  BlockConservation'
<1> DEFINE p == sched_free_pool
<1>1. /\ p \in Seq(Block) /\ held \in Entry /\ held.blk \in Block
      /\ p' = Append(p, held.blk) /\ sched_list' = sched_list
  BY DEF TypeOK, Excute_Free, Entry
<1>2. /\ Len(p) \in Nat /\ Len(p') = Len(p) + 1
      /\ \A i \in 1..Len(p) : p'[i] = p[i]
      /\ p'[Len(p) + 1] = held.blk
  BY <1>1, AppendFacts
<1> HIDE DEF p
<1>3. FreeBlocks' = FreeBlocks \cup {held.blk}
  BY <1>2 DEF FreeBlocks, p
<1>4. HeldBlocks' = {} /\ HeldBlocks = {held.blk} /\ ListBlocks' = ListBlocks
  BY <1>1 DEF Excute_Free, HeldBlocks, ListBlocks
<1>5. \A i, j \in 1..Len(p') : p'[i] = p'[j] => i = j
  <2>1. \A i \in 1..Len(p) : p[i] # held.blk
    BY <1>4 DEF BlockConservation, FreeBlocks, p
  <2>2. \A i, j \in 1..Len(p) : p[i] = p[j] => i = j
    BY DEF BlockConservation, p
  <2> QED
    BY <1>2, <2>1, <2>2
<1> QED
  BY <1>1, <1>3, <1>4, <1>5 DEF BlockConservation, p

\* Excute_Retry: from the executor back to the head of the list.
LEMMA RetryConservation ==
    ASSUME TypeOK, BlockConservation, held # None, Excute_Retry
    PROVE  BlockConservation'
<1> DEFINE s == sched_list
<1>1. /\ s \in Seq(Entry) /\ held \in Entry /\ << held >> \in Seq(Entry)
      /\ s' = << held >> \o s /\ sched_free_pool' = sched_free_pool
  BY DEF TypeOK, Excute_Retry
<1>2. /\ Len(s) \in Nat /\ Len(s') = Len(s) + 1
      /\ s'[1] = held
      /\ \A i \in 1..Len(s) : s'[i + 1] = s[i]
  <2>1. Len(<< held >>) = 1 /\ << held >>[1] = held
    OBVIOUS
  <2> QED
    BY <1>1, <2>1, ConcatFacts
<1> HIDE DEF s
<1>3. ListBlocks' = ListBlocks \cup {held.blk}
  <2>1. ListBlocks = { s[i].blk : i \in 1..Len(s) } /\ ListBlocks' = { s'[i].blk : i \in 1..Len(s') }
    BY DEF ListBlocks, s
  <2>2. \A i \in 1..Len(s') : i = 1 \/ (i - 1 \in 1..Len(s) /\ s'[i] = s[i - 1])
    <3> TAKE i \in 1..Len(s')
    <3>1. CASE i # 1
      <4>1. i - 1 \in 1..Len(s) /\ (i - 1) + 1 = i
        BY <1>2, <3>1
      <4> QED
        BY <1>2, <4>1
    <3> QED
      BY <3>1
  <2>3. \A i \in 1..Len(s') : s'[i].blk \in ListBlocks \cup {held.blk}
    BY <1>2, <2>1, <2>2
  <2>4. \A i \in 1..Len(s) : s[i].blk \in ListBlocks'
    <3> TAKE i \in 1..Len(s)
    <3>1. i + 1 \in 1..Len(s') /\ s'[i + 1].blk = s[i].blk
      BY <1>2
    <3> QED
      BY <2>1, <3>1
  <2>5. held.blk \in ListBlocks'
    BY <1>2, <2>1
  <2> QED
    BY <2>1, <2>3, <2>4, <2>5
<1>4. HeldBlocks' = {} /\ HeldBlocks = {held.blk} /\ FreeBlocks' = FreeBlocks
  BY <1>1 DEF Excute_Retry, HeldBlocks, FreeBlocks
<1>5. \A i, j \in 1..Len(s') : s'[i].blk = s'[j].blk => i = j
  <2>1. \A i \in 1..Len(s) : s[i].blk # held.blk
    BY <1>4 DEF BlockConservation, ListBlocks, s
  <2>2. \A i, j \in 1..Len(s) : s[i].blk = s[j].blk => i = j
    BY DEF BlockConservation, s
  <2>3. \A i \in 1..Len(s') : i = 1 \/ (i - 1 \in 1..Len(s) /\ s'[i] = s[i - 1])
    <3> TAKE i \in 1..Len(s')
    <3>1. CASE i # 1
      <4>1. i - 1 \in 1..Len(s) /\ (i - 1) + 1 = i
        BY <1>2, <3>1
      <4> QED
        BY <1>2, <4>1
    <3> QED
      BY <3>1
  <2> TAKE i, j \in 1..Len(s')
  <2>4. CASE i = 1 \/ j = 1
    BY <1>2, <2>1, <2>3, <2>4
  <2>5. CASE i # 1 /\ j # 1
    BY <1>2, <2>2, <2>3, <2>5, SMTT(20)
  <2> QED
    BY <2>4, <2>5
<1> QED
  BY <1>1, <1>3, <1>4, <1>5 DEF BlockConservation, s

\* Sched_DeleteAllPoll: the polls from the list to the tail of the pool.
LEMMA PurgeConservation ==
    ASSUME TypeOK, BlockConservation, NEW t \in Thread, Sched_DeleteAllPoll(t)
    PROVE  BlockConservation'
<1> DEFINE s == sched_list
           p == sched_free_pool
<1>1. PICK n \in 0..Len(s), m \in 0..Len(s) :
        \E f \in [1..n -> KeptAt], g \in [1..m -> PollAt] :
          /\ Enumerates(f, KeptAt) /\ Enumerates(g, PollAt)
          /\ s' = [i \in 1..n |-> s[f[i]]]
          /\ p' = p \o [i \in 1..m |-> s[g[i]].blk]
  BY DEF Sched_DeleteAllPoll
<1>2. PICK f \in [1..n -> KeptAt], g \in [1..m -> PollAt] :
          /\ Enumerates(f, KeptAt) /\ Enumerates(g, PollAt)
          /\ s' = [i \in 1..n |-> s[f[i]]]
          /\ p' = p \o [i \in 1..m |-> s[g[i]].blk]
  BY <1>1
<1> DEFINE freed == [i \in 1..m |-> s[g[i]].blk]
<1>3. /\ s \in Seq(Entry) /\ p \in Seq(Block)
      /\ n \in Nat /\ m \in Nat /\ Len(s) \in Nat
  BY DEF TypeOK
<1>4. /\ KeptAt \cup PollAt = 1..Len(s) /\ KeptAt \cap PollAt = {}
  BY DEF KeptAt, PollAt
<1>5. /\ \A i, j \in 1..n : f[i] = f[j] => i = j
      /\ \A q \in KeptAt : \E i \in 1..n : f[i] = q
      /\ \A i, j \in 1..m : g[i] = g[j] => i = j
      /\ \A q \in PollAt : \E i \in 1..m : g[i] = q
  <2>1. \A i, j \in 1..n : i < j => f[i] < f[j]
    BY <1>2 DEF Enumerates
  <2>2. \A i, j \in 1..m : i < j => g[i] < g[j]
    BY <1>2 DEF Enumerates
  <2>3. (\A i \in 1..n : f[i] \in Nat) /\ (\A i \in 1..m : g[i] \in Nat)
    BY <1>3, <1>4
  <2>4. \A i, j \in 1..n : f[i] = f[j] => i = j
    <3> TAKE i, j \in 1..n
    <3>1. i < j \/ j < i \/ i = j
      OBVIOUS
    <3> QED
      BY <3>1, <2>1, <2>3
  <2>5. \A i, j \in 1..m : g[i] = g[j] => i = j
    <3> TAKE i, j \in 1..m
    <3>1. i < j \/ j < i \/ i = j
      OBVIOUS
    <3> QED
      BY <3>1, <2>2, <2>3
  <2> QED
    BY <1>2, <2>4, <2>5 DEF Enumerates
<1>6. /\ Len(s') = n
      /\ \A i \in 1..n : s'[i] = s[f[i]]
  BY <1>2, <1>3
<1>7. /\ freed \in Seq(Block) /\ Len(freed) = m
      /\ \A i \in 1..m : freed[i] = s[g[i]].blk
  <2>1. \A i \in 1..m : s[g[i]] \in Entry
    BY <1>3, <1>4
  <2>2. \A e \in Entry : e.blk \in Block
    BY DEF Entry
  <2>3. freed \in [1..m -> Block]
    BY <2>1, <2>2
  <2> QED
    BY <1>3, <2>3, FunSeq
<1>8. /\ Len(p) \in Nat /\ Len(p') = Len(p) + m
      /\ \A i \in 1..Len(p) : p'[i] = p[i]
      /\ \A i \in 1..m : p'[Len(p) + i] = s[g[i]].blk
  <2>1. p' = p \o freed
    BY <1>2
  <2> HIDE DEF freed
  <2> QED
    BY <1>3, <1>7, <2>1, ConcatFacts, SMTT(20)
<1> HIDE DEF s, p, freed
<1>9. ListBlocks = { s[i].blk : i \in 1..Len(s) } /\ ListBlocks' = { s'[i].blk : i \in 1..n }
      /\ FreeBlocks = { p[i] : i \in 1..Len(p) } /\ FreeBlocks' = { p'[i] : i \in 1..(Len(p) + m) }
  BY <1>6, <1>8 DEF ListBlocks, FreeBlocks, s, p
<1>10. /\ \A i, j \in 1..Len(s) : s[i].blk = s[j].blk => i = j
       /\ \A i, j \in 1..Len(p) : p[i] = p[j] => i = j
  BY DEF BlockConservation, s, p
<1> DEFINE PollBlocks == { s[i].blk : i \in PollAt }
<1>11. ListBlocks' = ListBlocks \ PollBlocks /\ PollBlocks \subseteq ListBlocks
  <2>1. \A i \in 1..n : f[i] \in KeptAt
    OBVIOUS
  <2>2. \A i \in 1..n : s'[i].blk \in ListBlocks \ PollBlocks
    <3> TAKE i \in 1..n
    <3>1. f[i] \in 1..Len(s) /\ f[i] \notin PollAt /\ s'[i] = s[f[i]]
      BY <1>4, <1>6, <2>1
    <3>2. \A q \in PollAt : s[q].blk # s[f[i]].blk
      BY <1>4, <1>10, <3>1
    <3> QED
      BY <1>9, <3>1, <3>2
  <2>3. \A q \in KeptAt : s[q].blk \in ListBlocks'
    BY <1>5, <1>6, <1>9
  <2>4. \A b \in ListBlocks \ PollBlocks : \E q \in KeptAt : s[q].blk = b
    BY <1>4, <1>9
  <2>5. PollBlocks \subseteq ListBlocks
    BY <1>4, <1>9
  <2>6. ListBlocks' \subseteq ListBlocks \ PollBlocks
    BY <2>2, <1>9
  <2>7. ListBlocks \ PollBlocks \subseteq ListBlocks'
    BY <2>3, <2>4
  <2> QED
    BY <2>5, <2>6, <2>7
<1>12. \A i \in 1..(Len(p) + m) : \/ i \in 1..Len(p)
                                  \/ i - Len(p) \in 1..m /\ Len(p) + (i - Len(p)) = i
  BY <1>3, <1>8
<1>13. FreeBlocks' = FreeBlocks \cup PollBlocks
  <2>1. \A i \in 1..m : g[i] \in PollAt
    OBVIOUS
  <2>2. \A i \in 1..(Len(p) + m) : p'[i] \in FreeBlocks \cup PollBlocks
    <3> TAKE i \in 1..(Len(p) + m)
    <3>1. CASE i \in 1..Len(p)
      BY <1>8, <1>9, <3>1
    <3>2. CASE i - Len(p) \in 1..m /\ Len(p) + (i - Len(p)) = i
      <4>1. p'[i] = s[g[i - Len(p)]].blk /\ g[i - Len(p)] \in PollAt
        BY <1>8, <2>1, <3>2
      <4> QED
        BY <4>1
    <3> QED
      BY <1>12, <3>1, <3>2
  <2>3. \A i \in 1..Len(p) : p[i] \in FreeBlocks'
    BY <1>3, <1>8, <1>9
  <2>4. \A i \in 1..m : s[g[i]].blk \in FreeBlocks'
    <3> TAKE i \in 1..m
    <3>1. Len(p) + i \in 1..(Len(p) + m)
      BY <1>3, <1>8
    <3> QED
      BY <1>8, <1>9, <3>1
  <2>5. FreeBlocks' \subseteq FreeBlocks \cup PollBlocks
    BY <2>2, <1>9
  <2>6. FreeBlocks \subseteq FreeBlocks'
    BY <2>3, <1>9
  <2>7. PollBlocks \subseteq FreeBlocks'
    BY <2>4, <1>5
  <2> QED
    BY <2>5, <2>6, <2>7
<1>14. held' = held /\ HeldBlocks' = HeldBlocks
  BY DEF Sched_DeleteAllPoll, HeldBlocks
<1>15. \A i, j \in 1..Len(s') : s'[i].blk = s'[j].blk => i = j
  <2>1. \A i \in 1..n : f[i] \in 1..Len(s)
    BY <1>4
  <2> QED
    BY <1>5, <1>6, <1>10, <2>1
<1>16. \A i, j \in 1..Len(p') : p'[i] = p'[j] => i = j
  <2>1. \A i \in 1..m : s[g[i]].blk \notin FreeBlocks
    BY <1>4, <1>9 DEF BlockConservation
  <2>2. \A i \in 1..m : g[i] \in 1..Len(s)
    BY <1>4
  <2>3. \A i, j \in 1..m : s[g[i]].blk = s[g[j]].blk => i = j
    BY <1>5, <1>10, <2>2
  <2>4. \A i \in 1..Len(p) : p'[i] = p[i] /\ p[i] \in FreeBlocks
    BY <1>8, <1>9
  <2> TAKE i, j \in 1..Len(p')
  <2>5. i \in 1..(Len(p) + m) /\ j \in 1..(Len(p) + m)
    BY <1>8
  <2>6. CASE i \in 1..Len(p) /\ j \in 1..Len(p)
    BY <1>8, <1>10, <2>6
  <2>7. CASE i \in 1..Len(p) /\ j \notin 1..Len(p)
    <3>1. j - Len(p) \in 1..m /\ p'[j] = s[g[j - Len(p)]].blk
      BY <1>8, <1>12, <2>5, <2>7
    <3> QED
      BY <2>1, <2>4, <2>7, <3>1
  <2>8. CASE i \notin 1..Len(p) /\ j \in 1..Len(p)
    <3>1. i - Len(p) \in 1..m /\ p'[i] = s[g[i - Len(p)]].blk
      BY <1>8, <1>12, <2>5, <2>8
    <3> QED
      BY <2>1, <2>4, <2>8, <3>1
  <2>9. CASE i \notin 1..Len(p) /\ j \notin 1..Len(p)
    <3>1. i - Len(p) \in 1..m /\ p'[i] = s[g[i - Len(p)]].blk
      BY <1>8, <1>12, <2>5, <2>9
    <3>2. j - Len(p) \in 1..m /\ p'[j] = s[g[j - Len(p)]].blk
      BY <1>8, <1>12, <2>5, <2>9
    <3>3. p'[i] = p'[j] => i - Len(p) = j - Len(p)
      BY <2>3, <3>1, <3>2
    <3> QED
      BY <1>8, <2>5, <3>3
  <2> QED
    BY <2>6, <2>7, <2>8, <2>9
<1> HIDE DEF PollBlocks
<1> QED
  BY <1>11, <1>13, <1>14, <1>15, <1>16 DEF BlockConservation, s, p

LEMMA NextConservation ==
    TypeOK /\ Places /\ BlockConservation /\ [Next]_vars => BlockConservation'
<1> SUFFICES ASSUME TypeOK, Places, BlockConservation, [Next]_vars
             PROVE  BlockConservation'
  OBVIOUS
<1>1. ASSUME UNCHANGED lists PROVE BlockConservation'
  <2>1. sched_list' = sched_list /\ sched_free_pool' = sched_free_pool /\ held' = held
    BY <1>1 DEF lists
  <2>2. /\ ListBlocks' = ListBlocks /\ FreeBlocks' = FreeBlocks
        /\ HeldBlocks' = HeldBlocks
    BY <2>1 DEF ListBlocks, FreeBlocks, HeldBlocks
  <2> QED
    BY <2>1, <2>2 DEF BlockConservation
<1>2. ASSUME NEW t \in Thread, Sched_DoOneSched(t) PROVE BlockConservation'
  <2>1. CASE sched_free_pool = << >>
    <3>1. UNCHANGED lists
      BY <1>2, <2>1 DEF Sched_DoOneSched, lists
    <3> QED
      BY <1>1, <3>1
  <2>2. CASE sched_free_pool # << >>
    <3> DEFINE e == [blk |-> Head(sched_free_pool), event |-> req[t].event,
                     dev |-> req[t].dev]
    <3>1. req[t] \in Request /\ Head(sched_free_pool) \in Block
      BY <1>2, <2>2, TailFacts DEF Sched_DoOneSched, Places, TypeOK
    <3>2. e \in Entry /\ e.blk = Head(sched_free_pool)
      BY <3>1 DEF Request, Entry
    <3>3. TypeOK'
      BY NextTypeOK
    <3>4. /\ held' = held /\ sched_free_pool' = Tail(sched_free_pool)
          /\ sched_list' = Append(sched_list, e)
      BY <1>2, <2>2 DEF Sched_DoOneSched
    <3> QED
      BY <2>2, <3>2, <3>3, <3>4, AddConservation
  <2> QED
    BY <2>1, <2>2
<1>3. ASSUME NEW t \in Thread, Sched_DeleteAllPoll(t) PROVE BlockConservation'
  BY <1>3, PurgeConservation
<1>4. CASE Excute_Pop
  <2>1. held = None
    BY <1>4 DEF Excute_Pop, Places, Serving
  <2> QED
    BY <1>4, <2>1, PopConservation
<1>5. CASE Excute_Free
  <2>1. held # None
    BY <1>5 DEF Excute_Free, Places, Serving
  <2> QED
    BY <1>5, <2>1, FreeConservation
<1>6. CASE Excute_Retry
  <2>1. held # None
    BY <1>6 DEF Excute_Retry, Places, Serving
  <2> QED
    BY <1>6, <2>1, RetryConservation
<1>7. CASE \/ Frame_Test \/ Frame_Send \/ Excute_Record \/ UNCHANGED vars
           \/ \E t \in Thread : \/ Request_Frame(t) \/ Sched_CheckExistSched(t)
                                \/ Sched_ScanAllLink(t) \/ Scan_Link(t) \/ Scan_End(t)
           \/ \E d \in Dev : \/ Hci_Add_Connect_Device(d) \/ Frag_InitTxForConnDev(d)
                             \/ Hci_Del_Connect_Device(d) \/ Link_Changes(d)
  <2>1. UNCHANGED lists
    BY <1>7 DEF Frame_Test, Frame_Send, Excute_Record, vars, Request_Frame,
       Sched_CheckExistSched, Sched_ScanAllLink, Scan_Link, Scan_End,
       Hci_Add_Connect_Device, Frag_InitTxForConnDev, Hci_Del_Connect_Device,
       Link_Changes
  <2> QED
    BY <1>1, <2>1
<1> QED
  BY <1>2, <1>3, <1>4, <1>5, <1>6, <1>7 DEF Next, Excute

\* No block of the scheduler is ever lost, shared or linked twice, for any
\* number of blocks, connections and threads.
THEOREM BlocksConserved == Spec => []BlockConservation
<1> DEFINE Inv == TypeOK /\ Places /\ BlockConservation
<1>1. Init => Inv
  BY InitTypeOK, InitPlaces, InitConservation
<1>2. Inv /\ [Next]_vars => Inv'
  BY NextTypeOK, NextPlaces, NextConservation
<1>3. Inv => BlockConservation
  OBVIOUS
<1> QED
  BY <1>1, <1>2, <1>3, PTL DEF Spec

(***************************************************************************)
(* The bound on duplicates.  The requests like r that wait are the         *)
(* positions of the list with an entry of Asking(r); a thread may add one  *)
(* only when it found none waiting, and the executor, which may serve one  *)
(* more, is then not among those that add.                                 *)
(***************************************************************************)
Asking(r) == { e \in Entry : Ask(e) = r }
Served(r) == IF held # None /\ Ask(held) = r THEN 1 ELSE 0
Adders(r) == { t \in Thread : pc[t] = "add" /\ req[t] = r }

Counted(r) ==
    /\ Copies(r) = Times(sched_list, Asking(r)) + Served(r) + Cardinality(Adders(r))
    /\ Times(sched_list, Asking(r)) \in Nat
    /\ Served(r) \in {0, 1}
    /\ IsFiniteSet(Adders(r)) /\ Cardinality(Adders(r)) \in Nat

\* The copies of a request are those in the list, in service, and about to be added.
LEMMA CopiesCounted == ASSUME TypeOK, NEW r PROVE Counted(r)
<1>1. sched_list \in Seq(Entry)
  BY DEF TypeOK
<1>2. { i \in 1..Len(sched_list) : Ask(sched_list[i]) = r } = At(sched_list, Asking(r))
  BY <1>1 DEF At, Asking
<1>3. IsFiniteSet(Adders(r)) /\ Cardinality(Adders(r)) \in Nat
  <2>1. Adders(r) \in SUBSET Thread
    BY DEF Adders
  <2> QED BY <2>1, SchedAssumption, FS_Subset, FS_CardinalityType
<1>4. Times(sched_list, Asking(r)) \in Nat
  BY <1>1, TimesType
<1> QED BY <1>2, <1>3, <1>4 DEF Counted, Copies, Times, Served, Adders

\* The same after a step.
LEMMA CopiesCountedNext == ASSUME NEW r PROVE TypeOK' => Counted(r)'
<1>1. TypeOK => Counted(r)
  BY CopiesCounted
<1> QED BY <1>1, PTL

\* Steps that let the number of copies of r grow by no part.
LEMMA CopiesKept ==
    ASSUME TypeOK, TypeOK', NEW r, Copies(r) <= Cardinality(Thread),
           Times(sched_list', Asking(r)) + Served(r)'
             <= Times(sched_list, Asking(r)) + Served(r),
           Adders(r)' \subseteq Adders(r)
    PROVE  Copies(r)' <= Cardinality(Thread)
<1>1. /\ IsFiniteSet(Adders(r)) /\ Cardinality(Adders(r)) \in Nat
      /\ Copies(r) = Times(sched_list, Asking(r)) + Served(r) + Cardinality(Adders(r))
      /\ Times(sched_list, Asking(r)) \in Nat /\ Served(r) \in {0, 1}
  BY CopiesCounted DEF Counted
<1>2. /\ Copies(r)' = Times(sched_list', Asking(r)) + Served(r)' + Cardinality(Adders(r)')
      /\ Times(sched_list', Asking(r)) \in Nat /\ Served(r)' \in {0, 1}
      /\ Cardinality(Adders(r)') \in Nat
  BY CopiesCountedNext DEF Counted
<1>3. Cardinality(Adders(r)') <= Cardinality(Adders(r))
  BY <1>1, FS_Subset
<1>4. Cardinality(Thread) \in Nat
  BY SchedAssumption, FS_CardinalityType
<1> QED BY <1>1, <1>2, <1>3, <1>4

\* A thread that found no copy in the list is about to add one: all copies are now
\* such threads, or one of them is the executor, which serves another.
LEMMA CheckBound ==
    ASSUME TypeOK, TypeOK', Places, NEW t \in Thread, Sched_CheckExistSched(t), NEW r \in Request,
           Copies(r) <= Cardinality(Thread)
    PROVE  Copies(r)' <= Cardinality(Thread)
<1>1. sched_list' = sched_list /\ held' = held /\ pc[t] = "check"
  BY DEF Sched_CheckExistSched, lists
<1>2. Served(r)' = Served(r)
  BY <1>1 DEF Served
<1>3. CASE Waiting(req[t]) \/ req[t] # r
  <2>1. Adders(r)' \subseteq Adders(r)
    BY <1>1, <1>3 DEF Sched_CheckExistSched, Goto, Resume, Adders, TypeOK
  <2>2. Times(sched_list, Asking(r)) \in Nat /\ Served(r) \in {0, 1}
    BY CopiesCounted DEF Counted
  <2> QED BY <1>1, <1>2, <2>1, <2>2, CopiesKept
<1>4. CASE ~Waiting(req[t]) /\ req[t] = r
  <2>1. Times(sched_list, Asking(r)) = 0
    <3>1. At(sched_list, Asking(r)) = {}
      BY <1>4 DEF Waiting, At, Asking
    <3> QED BY <3>1, FS_EmptySet DEF Times
  <2>2. /\ Copies(r)' = Times(sched_list', Asking(r)) + Served(r)' + Cardinality(Adders(r)')
        /\ Cardinality(Adders(r)') \in Nat
    BY CopiesCountedNext DEF Counted
  <2>3. Adders(r)' \in SUBSET Thread
    BY DEF Adders
  <2>4. Cardinality(Thread) \in Nat
    BY SchedAssumption, FS_CardinalityType
  <2>5. CASE Served(r) = 0
    <3>1. Cardinality(Adders(r)') <= Cardinality(Thread)
      BY <2>3, SchedAssumption, FS_Subset
    <3> QED BY <1>1, <1>2, <2>1, <2>2, <2>4, <2>5, <3>1
  <2>6. CASE Served(r) # 0
    <3>1. pc[Executor] \in Serving
      BY <2>6 DEF Served, Places
    <3>2. Adders(r)' \in SUBSET (Thread \ {Executor})
      BY <1>1, <2>3, <3>1, SchedAssumption
         DEF Sched_CheckExistSched, Goto, Resume, Adders, Serving, TypeOK
    <3>3. /\ IsFiniteSet(Thread \ {Executor})
          /\ Cardinality(Thread \ {Executor}) = Cardinality(Thread) - 1
      BY SchedAssumption, FS_RemoveElement
    <3>4. Cardinality(Adders(r)') <= Cardinality(Thread) - 1
      BY <3>2, <3>3, FS_Subset
    <3>5. Served(r) = 1
      BY <2>6 DEF Served
    <3> QED BY <1>1, <1>2, <2>1, <2>2, <2>4, <3>4, <3>5
  <2> QED BY <2>5, <2>6
<1> QED BY <1>3, <1>4

\* A thread that adds what it was about to add.
LEMMA AddBound ==
    ASSUME TypeOK, TypeOK', Places, NEW t \in Thread, Sched_DoOneSched(t), NEW r \in Request,
           Copies(r) <= Cardinality(Thread)
    PROVE  Copies(r)' <= Cardinality(Thread)
<1>1. /\ held' = held /\ pc[t] = "add" /\ req[t] \in Request
  BY DEF Sched_DoOneSched, Places, TypeOK
<1>2. Served(r)' = Served(r)
  BY <1>1 DEF Served
<1>3. Adders(r)' = Adders(r) \ {t}
  BY <1>1, SchedAssumption DEF Sched_DoOneSched, Goto, Resume, Adders, TypeOK
<1>4. Times(sched_list, Asking(r)) \in Nat /\ Served(r) \in {0, 1}
  BY CopiesCounted DEF Counted
<1>5. CASE sched_list' = sched_list
  BY <1>2, <1>3, <1>4, <1>5, CopiesKept
<1>6. CASE sched_free_pool # << >>
  <2> DEFINE e == [blk |-> Head(sched_free_pool), event |-> req[t].event, dev |-> req[t].dev]
  <2>1. sched_list' = Append(sched_list, e)
    BY <1>6 DEF Sched_DoOneSched
  <2>2. e \in Entry /\ Ask(e) = req[t]
    <3>1. Head(sched_free_pool) \in Block
      BY <1>6, TailFacts DEF TypeOK
    <3> QED BY <1>1, <3>1 DEF Entry, Request, Ask
  <2>3. sched_list \in Seq(Entry)
    BY DEF TypeOK
  <2> HIDE DEF e
  <2>4. Times(sched_list', Asking(r)) = Times(sched_list, Asking(r)) + One(e, Asking(r))
    BY <2>1, <2>2, <2>3, TimesAppend
  <2>5. CASE req[t] # r
    <3>1. One(e, Asking(r)) = 0
      BY <2>2, <2>5 DEF One, Asking
    <3> QED BY <1>2, <1>3, <1>4, <2>4, <3>1, CopiesKept
  <2>6. CASE req[t] = r
    <3>1. One(e, Asking(r)) = 1
      BY <2>2, <2>6 DEF One, Asking
    <3>2. t \in Adders(r)
      BY <1>1, <2>6 DEF Adders
    <3>3. /\ IsFiniteSet(Adders(r)) /\ Cardinality(Adders(r)) \in Nat
          /\ Copies(r) = Times(sched_list, Asking(r)) + Served(r) + Cardinality(Adders(r))
      BY CopiesCounted DEF Counted
    <3>4. Copies(r)' = Times(sched_list', Asking(r)) + Served(r)' + Cardinality(Adders(r)')
      BY CopiesCountedNext DEF Counted
    <3>5. Cardinality(Adders(r)') = Cardinality(Adders(r)) - 1
      BY <1>3, <3>2, <3>3, FS_RemoveElement
    <3>6. Copies(r)' = Copies(r)
      BY <1>2, <1>4, <2>4, <3>1, <3>3, <3>4, <3>5
    <3> QED BY <3>6
  <2> QED BY <2>5, <2>6
<1> QED BY <1>5, <1>6 DEF Sched_DoOneSched

\* The purge of the polls selects some of the entries.
LEMMA PurgeBound ==
    ASSUME TypeOK, TypeOK', NEW t \in Thread, Sched_DeleteAllPoll(t), NEW r \in Request,
           Copies(r) <= Cardinality(Thread)
    PROVE  Copies(r)' <= Cardinality(Thread)
<1>1. PICK n \in 0..Len(sched_list), m \in 0..Len(sched_list) :
        \E f \in [1..n -> KeptAt], g \in [1..m -> PollAt] :
          /\ Enumerates(f, KeptAt)
          /\ sched_list' = [i \in 1..n |-> sched_list[f[i]]]
  BY DEF Sched_DeleteAllPoll
<1>2. PICK f \in [1..n -> KeptAt] :
          /\ Enumerates(f, KeptAt)
          /\ sched_list' = [i \in 1..n |-> sched_list[f[i]]]
  BY <1>1
<1>3. n \in Nat /\ sched_list \in Seq(Entry)
  BY DEF TypeOK
<1>4. f \in [1..n -> 1..Len(sched_list)]
  BY DEF KeptAt
<1>5. \A i, j \in 1..n : f[i] = f[j] => i = j
  BY <1>2, <1>3, <1>4 DEF Enumerates
<1>6. Times(sched_list', Asking(r)) <= Times(sched_list, Asking(r))
  BY <1>2, <1>3, <1>4, <1>5, TimesSelected
<1>7. Served(r)' = Served(r) /\ Adders(r)' = Adders(r)
  BY DEF Sched_DeleteAllPoll, thr, Served, Adders
<1>8. Times(sched_list, Asking(r)) \in Nat /\ Served(r) \in {0, 1}
  BY CopiesCounted DEF Counted
<1>9. Times(sched_list', Asking(r)) \in Nat
  BY CopiesCountedNext DEF Counted
<1> QED BY <1>6, <1>7, <1>8, <1>9, CopiesKept

\* The executor takes the head of the list, keeps it, frees it or puts it back.
LEMMA ExcuteBound ==
    ASSUME TypeOK, TypeOK', Places, Excute_Pop \/ Excute_Free \/ Excute_Retry, NEW r \in Request,
           Copies(r) <= Cardinality(Thread)
    PROVE  Copies(r)' <= Cardinality(Thread)
<1>1. Adders(r)' = Adders(r)
  BY SchedAssumption DEF Excute_Pop, Excute_Free, Excute_Retry, Goto, Adders, TypeOK
<1>2. Times(sched_list, Asking(r)) \in Nat /\ Served(r) \in {0, 1}
  BY CopiesCounted DEF Counted
<1>3. sched_list \in Seq(Entry)
  BY DEF TypeOK
<1>4. Times(sched_list', Asking(r)) + Served(r)' <= Times(sched_list, Asking(r)) + Served(r)
  <2>1. CASE Excute_Pop
    <3>1. sched_list # << >> /\ sched_list' = Tail(sched_list) /\ held' = Head(sched_list)
          /\ held = None
      BY <2>1 DEF Excute_Pop, Places, Serving
    <3>2. Head(sched_list) \in Entry
      BY <1>3, <3>1, TailFacts
    <3>3. Times(sched_list, Asking(r)) = Times(Tail(sched_list), Asking(r)) + One(Head(sched_list), Asking(r))
      BY <1>3, <3>1, TimesTail
    <3>4. Served(r)' = One(Head(sched_list), Asking(r)) /\ Served(r) = 0
      BY <3>1, <3>2, SchedAssumption DEF Served, One, Asking
    <3>5. Times(Tail(sched_list), Asking(r)) \in Nat
      BY <1>3, <3>1, TailFacts, TimesType
    <3> QED BY <3>1, <3>3, <3>4, <3>5 DEF One
  <2>2. CASE Excute_Free
    <3>1. sched_list' = sched_list /\ held' = None
      BY <2>2 DEF Excute_Free
    <3> QED BY <1>2, <3>1 DEF Served
  <2>3. CASE Excute_Retry
    <3>1. sched_list' = << held >> \o sched_list /\ held' = None /\ held \in Entry /\ held # None
      BY <2>3, SchedAssumption DEF Excute_Retry, Places, Serving, TypeOK
    <3>2. Times(sched_list', Asking(r)) = Times(sched_list, Asking(r)) + One(held, Asking(r))
      BY <1>3, <3>1, TimesCons
    <3>3. Served(r) = One(held, Asking(r)) /\ Served(r)' = 0
      BY <3>1 DEF Served, One, Asking
    <3> QED BY <1>2, <3>2, <3>3
  <2> QED BY <2>1, <2>2, <2>3
<1> QED BY <1>1, <1>4, CopiesKept

\* No step takes the copies of a request beyond the number of threads.
LEMMA NextBound ==
    TypeOK /\ Places /\ DuplicateBound /\ [Next]_vars => DuplicateBound'
<1> SUFFICES ASSUME TypeOK, Places, DuplicateBound, [Next]_vars, NEW r \in Request
             PROVE  Copies(r)' <= Cardinality(Thread)
  BY DEF DuplicateBound
<1>1. TypeOK' /\ Copies(r) <= Cardinality(Thread)
  BY NextTypeOK DEF DuplicateBound
<1>2. CASE \/ Frame_Test \/ Frame_Send \/ Excute_Record \/ UNCHANGED vars
           \/ \E t \in Thread : \/ Request_Frame(t) \/ Sched_ScanAllLink(t)
                                \/ Scan_Link(t) \/ Scan_End(t)
           \/ \E d \in Dev : \/ Hci_Add_Connect_Device(d) \/ Frag_InitTxForConnDev(d)
                             \/ Hci_Del_Connect_Device(d) \/ Link_Changes(d)
  <2>1. UNCHANGED lists
    BY <1>2 DEF Frame_Test, Frame_Send, Excute_Record, vars, Request_Frame,
       Sched_ScanAllLink, Scan_Link, Scan_End,
       Hci_Add_Connect_Device, Frag_InitTxForConnDev, Hci_Del_Connect_Device,
       Link_Changes
  <2>2. Adders(r)' \subseteq Adders(r)
    <3>1. CASE UNCHANGED << pc, req >>
      BY <3>1 DEF Adders
    <3>2. ASSUME NEW t \in Thread, NEW l, l # "add", pc' = [pc EXCEPT ![t] = l],
                 \A x \in Thread : x # t => req'[x] = req[x]
          PROVE  Adders(r)' \subseteq Adders(r)
      BY <3>2 DEF Adders, TypeOK
    <3>3. CASE Frame_Test \/ Frame_Send \/ Excute_Record
      <4>1. \E l \in Serving : pc' = [pc EXCEPT ![Executor] = l]
        BY <3>3 DEF Frame_Test, Frame_Send, Excute_Record, Goto, Serving
      <4>2. req' = req /\ "add" \notin Serving
        BY <3>3 DEF Frame_Test, Frame_Send, Excute_Record, Serving
      <4> QED BY <3>2, <4>1, <4>2, SchedAssumption
    <3>4. ASSUME NEW t \in Thread,
                 Request_Frame(t) \/ Sched_ScanAllLink(t) \/ Scan_Link(t) \/ Scan_End(t)
          PROVE  Adders(r)' \subseteq Adders(r)
      <4>1. \A x \in Thread : x # t => req'[x] = req[x]
        BY <3>4 DEF Request_Frame, Sched_ScanAllLink, Scan_Link, Scan_End,
           Sched_SendPollFrame, Sched_SendAclNullStopFrame, Sched_SendAclNullContinueFrame, TypeOK
      <4>2. \/ UNCHANGED << pc, req >>
            \/ \E l \in {"check", "scan", "idle"} : pc' = [pc EXCEPT ![t] = l]
        BY <3>4 DEF Request_Frame, Sched_ScanAllLink, Scan_Link, Scan_End, Goto
      <4> QED BY <3>1, <3>2, <4>1, <4>2
    <3>5. CASE UNCHANGED vars
      BY <3>5, <3>1 DEF vars, thr
    <3>6. ASSUME NEW d \in Dev, Hci_Add_Connect_Device(d) \/ Frag_InitTxForConnDev(d)
                             \/ Hci_Del_Connect_Device(d) \/ Link_Changes(d)
          PROVE  Adders(r)' \subseteq Adders(r)
      BY <3>6, <3>1 DEF Hci_Add_Connect_Device, Frag_InitTxForConnDev, Hci_Del_Connect_Device,
         Link_Changes, thr
    <3> QED BY <1>2, <3>3, <3>4, <3>5, <3>6
  <2>3. Times(sched_list, Asking(r)) \in Nat /\ Served(r) \in {0, 1}
    BY CopiesCounted DEF Counted
  <2>4. sched_list' = sched_list /\ Served(r)' = Served(r)
    BY <2>1 DEF lists, Served
  <2> QED BY <1>1, <2>2, <2>3, <2>4, CopiesKept
<1>3. ASSUME NEW t \in Thread, Sched_CheckExistSched(t) PROVE Copies(r)' <= Cardinality(Thread)
  BY <1>1, <1>3, CheckBound
<1>4. ASSUME NEW t \in Thread, Sched_DoOneSched(t) PROVE Copies(r)' <= Cardinality(Thread)
  BY <1>1, <1>4, AddBound
<1>5. ASSUME NEW t \in Thread, Sched_DeleteAllPoll(t) PROVE Copies(r)' <= Cardinality(Thread)
  BY <1>1, <1>5, PurgeBound
<1>6. CASE Excute_Pop \/ Excute_Free \/ Excute_Retry
  BY <1>1, <1>6, ExcuteBound
<1> QED
  BY <1>2, <1>3, <1>4, <1>5, <1>6 DEF Next, Excute

\* At first nobody has asked for anything.
LEMMA InitBound == Init => DuplicateBound
<1> SUFFICES ASSUME Init, NEW r \in Request PROVE Copies(r) <= Cardinality(Thread)
  BY DEF DuplicateBound
<1>1. TypeOK
  BY InitTypeOK
<1>2. Copies(r) = Times(sched_list, Asking(r)) + Served(r) + Cardinality(Adders(r))
  BY <1>1, CopiesCounted DEF Counted
<1>3. Times(sched_list, Asking(r)) = 0 /\ Served(r) = 0
  BY TimesEmpty DEF Init, Served
<1>4. Adders(r) = {}
  BY DEF Init, Adders
<1>5. Cardinality(Thread) \in Nat
  BY SchedAssumption, FS_CardinalityType
<1> QED BY <1>2, <1>3, <1>4, <1>5, FS_EmptySet

\* However check and insertion interleave, a request is there no more often
\* than there are threads.
THEOREM DuplicatesBounded == Spec => []DuplicateBound
<1>1. Init => TypeOK /\ Places /\ DuplicateBound
  BY InitTypeOK, InitPlaces, InitBound
<1>2. (TypeOK /\ Places /\ DuplicateBound) /\ [Next]_vars
        => (TypeOK /\ Places /\ DuplicateBound)'
  BY NextTypeOK, NextPlaces, NextBound
<1> QED BY <1>1, <1>2, PTL DEF Spec

(***************************************************************************)
(* The order of service.  The requests not finished are a sequence: the    *)
(* one in the executor's hands, if any, and then the list.                 *)
(***************************************************************************)
InHand == IF held = None THEN 0 ELSE 1

PendingIs(q) ==
    /\ q \in Seq(Request)
    /\ Len(q) = InHand + Len(sched_list)
    /\ held # None => q[1] = Ask(held)
    /\ \A i \in 1..Len(sched_list) : q[InHand + i] = Ask(sched_list[i])

\* Two sequences of requests with the same elements are one.
LEMMA SameSequence ==
    ASSUME NEW S, NEW a \in Seq(S), NEW b \in Seq(S), Len(a) = Len(b),
           \A i \in 1..Len(a) : a[i] = b[i]
    PROVE  a = b
  OBVIOUS

\* The elements of the sequence of unfinished requests.
LEMMA PendingShape == TypeOK => PendingIs(Pending)
<1> SUFFICES ASSUME TypeOK PROVE PendingIs(Pending)
  OBVIOUS
<1> DEFINE front == IF held = None THEN << >> ELSE << Ask(held) >>
           rest == [i \in 1..Len(sched_list) |-> Ask(sched_list[i])]
<1>1. sched_list \in Seq(Entry) /\ Len(sched_list) \in Nat /\ held \in Entry \cup {None}
  BY DEF TypeOK
<1>2. \A e \in Entry : Ask(e) \in Request
  BY DEF Ask, Entry, Request
<1>3. rest \in [1..Len(sched_list) -> Request]
  BY <1>1, <1>2
<1>4. rest \in Seq(Request) /\ Len(rest) = Len(sched_list)
  BY <1>1, <1>3, FunSeq
<1>5. /\ front \in Seq(Request) /\ Len(front) = InHand
      /\ held # None => front[1] = Ask(held)
  BY <1>1, <1>2 DEF InHand
<1>6. \A i \in 1..Len(sched_list) : rest[i] = Ask(sched_list[i])
  OBVIOUS
<1> HIDE DEF front, rest
<1>7. /\ front \o rest \in Seq(Request)
      /\ Len(front \o rest) = InHand + Len(sched_list)
      /\ \A i \in 1..Len(front) : (front \o rest)[i] = front[i]
      /\ \A i \in 1..Len(rest) : (front \o rest)[InHand + i] = rest[i]
  <2>1. /\ front \o rest \in Seq(Request)
        /\ Len(front \o rest) = Len(front) + Len(rest)
        /\ \A i \in 1..Len(front) : (front \o rest)[i] = front[i]
        /\ \A i \in 1..Len(rest) : (front \o rest)[Len(front) + i] = rest[i]
    <3>1. front \in Seq(Request) /\ rest \in Seq(Request)
      BY <1>4, <1>5
    <3> QED BY <3>1, ConcatFacts, SMTT(20)
  <2> QED BY <1>4, <1>5, <2>1
<1>8. Pending = front \o rest
  BY DEF Pending, front, rest
<1> QED BY <1>4, <1>5, <1>6, <1>7, <1>8 DEF PendingIs, InHand

\* The same after a step.
LEMMA PendingShapeNext == TypeOK' => PendingIs(Pending)'
  BY PendingShape, PTL

\* A new request goes to the back.
LEMMA AddRefines ==
    ASSUME TypeOK, TypeOK', Places, NEW t \in Thread, Sched_DoOneSched(t)
    PROVE  Fifo!Accept \/ Pending' = Pending
<1>1. held' = held /\ req[t] \in Request
  BY DEF Sched_DoOneSched, Places, TypeOK
<1>2. CASE sched_list' = sched_list
  BY <1>1, <1>2 DEF Pending
<1>3. CASE sched_free_pool # << >>
  <2> DEFINE e == [blk |-> Head(sched_free_pool), event |-> req[t].event, dev |-> req[t].dev]
  <2>1. sched_list' = Append(sched_list, e)
    BY <1>3 DEF Sched_DoOneSched
  <2>2. e \in Entry /\ Ask(e) = req[t]
    <3>1. Head(sched_free_pool) \in Block
      BY <1>3, TailFacts DEF TypeOK
    <3> QED BY <1>1, <3>1 DEF Entry, Request, Ask
  <2> HIDE DEF e
  <2>3. sched_list \in Seq(Entry)
    BY DEF TypeOK
  <2>4. /\ Len(sched_list) \in Nat /\ Len(sched_list') = Len(sched_list) + 1
        /\ \A i \in 1..Len(sched_list) : sched_list'[i] = sched_list[i]
        /\ sched_list'[Len(sched_list) + 1] = e
    BY <2>1, <2>2, <2>3, AppendFacts
  <2> DEFINE q == Pending
             r == req[t]
  <2>5. PendingIs(q) /\ PendingIs(Pending)'
    BY PendingShape, PendingShapeNext
  <2>6. /\ q \in Seq(Request) /\ Pending' \in Seq(Request)
        /\ Len(q) = InHand + Len(sched_list) /\ Len(Pending') = InHand + Len(sched_list')
        /\ InHand \in {0, 1}
    BY <1>1, <2>5 DEF PendingIs, InHand
  <2>7. \A i \in 1..Len(q) : Pending'[i] = q[i]
    <3> SUFFICES ASSUME NEW i \in 1..Len(q) PROVE Pending'[i] = q[i]
      OBVIOUS
    <3>1. CASE i <= InHand
      <4>1. held # None /\ i = 1
        BY <2>6, <3>1 DEF InHand
      <4> QED BY <1>1, <2>5, <4>1 DEF PendingIs
    <3>2. CASE i > InHand
      <4>1. i - InHand \in 1..Len(sched_list) /\ InHand + (i - InHand) = i
            /\ i - InHand \in 1..Len(sched_list')
        BY <2>4, <2>6, <3>2
      <4>2. q[InHand + (i - InHand)] = Ask(sched_list[i - InHand])
        BY <2>5, <4>1 DEF PendingIs
      <4>3. Pending'[InHand + (i - InHand)] = Ask(sched_list'[i - InHand])
        BY <1>1, <2>5, <4>1 DEF PendingIs, InHand
      <4> QED BY <2>4, <4>1, <4>2, <4>3
    <3> QED BY <2>4, <2>6, <3>1, <3>2
  <2>8. Pending'[Len(q) + 1] = r
    <3>1. Len(sched_list) + 1 \in 1..Len(sched_list')
          /\ InHand + (Len(sched_list) + 1) = Len(q) + 1
      BY <2>4, <2>6
    <3>2. Pending'[InHand + (Len(sched_list) + 1)] = Ask(sched_list'[Len(sched_list) + 1])
      BY <1>1, <2>5, <3>1 DEF PendingIs, InHand
    <3> QED BY <2>2, <2>4, <3>1, <3>2
  <2> HIDE DEF q
  <2>9. Pending' = Append(q, r)
    <3>1. /\ Append(q, r) \in Seq(Request) /\ Len(Append(q, r)) = Len(q) + 1
          /\ \A i \in 1..Len(q) : Append(q, r)[i] = q[i]
          /\ Append(q, r)[Len(q) + 1] = r
      BY <1>1, <2>6, AppendFacts
    <3>2. Len(Pending') = Len(q) + 1 /\ Len(q) \in Nat
      BY <2>4, <2>6
    <3> QED BY <2>6, <2>7, <2>8, <3>1, <3>2, SameSequence
  <2> QED BY <1>1, <2>9 DEF Fifo!Accept, q
<1> QED BY <1>2, <1>3 DEF Sched_DoOneSched

\* The tasklet takes the request at the front, or puts it back there.
LEMMA PopRefines ==
    ASSUME TypeOK, TypeOK', Places, Excute_Pop \/ Excute_Retry
    PROVE  Pending' = Pending
<1>1. PendingIs(Pending) /\ PendingIs(Pending)' /\ sched_list \in Seq(Entry)
  BY PendingShape, PendingShapeNext DEF TypeOK
<1>2. CASE Excute_Pop
  <2>1. /\ held = None /\ held' # None
        /\ held' = sched_list[1] /\ Len(sched_list) \in Nat /\ Len(sched_list) >= 1
        /\ Len(sched_list') = Len(sched_list) - 1
        /\ \A i \in 1..Len(sched_list') : sched_list'[i] = sched_list[i + 1]
    <3>1. sched_list # << >> /\ sched_list' = Tail(sched_list) /\ held' = Head(sched_list)
          /\ pc[Executor] = "idle"
      BY <1>2 DEF Excute_Pop
    <3>2. Head(sched_list) \in Entry
      BY <1>1, <3>1, TailFacts
    <3> QED BY <1>1, <3>1, <3>2, TailFacts, SchedAssumption DEF Places, Serving
  <2>2. InHand = 0 /\ InHand' = 1
    BY <2>1 DEF InHand
  <2>3. /\ Pending \in Seq(Request) /\ Pending' \in Seq(Request)
        /\ Len(Pending) = Len(sched_list) /\ Len(Pending') = Len(sched_list)
    BY <1>1, <2>1, <2>2 DEF PendingIs
  <2>4. \A i \in 1..Len(Pending) : Pending'[i] = Pending[i]
    <3> SUFFICES ASSUME NEW i \in 1..Len(sched_list) PROVE Pending'[i] = Pending[i]
      BY <2>3
    <3>1. Pending[i] = Ask(sched_list[i])
      BY <1>1, <2>2 DEF PendingIs
    <3>2. CASE i = 1
      BY <1>1, <2>1, <3>1, <3>2 DEF PendingIs
    <3>3. CASE i # 1
      <4>1. i - 1 \in 1..Len(sched_list') /\ 1 + (i - 1) = i /\ (i - 1) + 1 = i
        BY <2>1, <3>3
      <4>2. Pending'[1 + (i - 1)] = Ask(sched_list'[i - 1])
        BY <1>1, <2>2, <4>1 DEF PendingIs
      <4> QED BY <2>1, <3>1, <4>1, <4>2
    <3> QED BY <3>2, <3>3
  <2> QED BY <2>3, <2>4, SameSequence
<1>3. CASE Excute_Retry
  <2>1. /\ held # None /\ held' = None /\ held \in Entry
        /\ Len(sched_list) \in Nat /\ Len(sched_list') = Len(sched_list) + 1
        /\ sched_list'[1] = held
        /\ \A i \in 1..Len(sched_list) : sched_list'[i + 1] = sched_list[i]
    <3>1. sched_list' = << held >> \o sched_list /\ held' = None /\ held \in Entry /\ held # None
      BY <1>3, SchedAssumption DEF Excute_Retry, Places, Serving, TypeOK
    <3>2. << held >> \in Seq(Entry) /\ Len(<< held >>) = 1 /\ << held >>[1] = held
      BY <3>1
    <3> QED BY <1>1, <3>1, <3>2, ConcatFacts
  <2>2. InHand = 1 /\ InHand' = 0
    BY <2>1 DEF InHand
  <2>3. /\ Pending \in Seq(Request) /\ Pending' \in Seq(Request)
        /\ Len(Pending) = 1 + Len(sched_list) /\ Len(Pending') = 1 + Len(sched_list)
    BY <1>1, <2>1, <2>2 DEF PendingIs
  <2>4. \A i \in 1..Len(Pending) : Pending'[i] = Pending[i]
    <3> SUFFICES ASSUME NEW i \in 1..(1 + Len(sched_list)) PROVE Pending'[i] = Pending[i]
      BY <2>3
    <3>1. Pending'[i] = Ask(sched_list'[i])
      BY <1>1, <2>1, <2>2 DEF PendingIs
    <3>2. CASE i = 1
      BY <1>1, <2>1, <3>1, <3>2 DEF PendingIs
    <3>3. CASE i # 1
      <4>1. i - 1 \in 1..Len(sched_list) /\ 1 + (i - 1) = i /\ (i - 1) + 1 = i
        BY <2>1, <3>3
      <4>2. Pending[1 + (i - 1)] = Ask(sched_list[i - 1])
        BY <1>1, <2>2, <4>1 DEF PendingIs
      <4> QED BY <2>1, <3>1, <4>1, <4>2
    <3> QED BY <3>2, <3>3
  <2> QED BY <2>3, <2>4, SameSequence
<1> QED BY <1>2, <1>3

\* Its block freed, a request has been served.
LEMMA FreeRefines ==
    ASSUME TypeOK, TypeOK', Places, Excute_Free
    PROVE  Fifo!Serve
<1>1. PendingIs(Pending) /\ PendingIs(Pending)' /\ Len(sched_list) \in Nat
  BY PendingShape, PendingShapeNext DEF TypeOK
<1>2. held # None /\ held' = None /\ sched_list' = sched_list
  BY DEF Excute_Free, Places, Serving
<1>3. InHand = 1 /\ InHand' = 0
  BY <1>2 DEF InHand
<1> DEFINE q == Pending
<1>4. /\ q \in Seq(Request) /\ Pending' \in Seq(Request)
      /\ Len(q) = 1 + Len(sched_list) /\ Len(Pending') = Len(sched_list)
  BY <1>1, <1>2, <1>3 DEF PendingIs
<1>5. \A i \in 1..Len(Pending') : Pending'[i] = q[i + 1]
  <2> SUFFICES ASSUME NEW i \in 1..Len(sched_list) PROVE Pending'[i] = q[i + 1]
    BY <1>4
  <2>1. Pending'[0 + i] = Ask(sched_list'[i])
    BY <1>1, <1>2, <1>3 DEF PendingIs
  <2>2. q[1 + i] = Ask(sched_list[i])
    BY <1>1, <1>3 DEF PendingIs
  <2> QED BY <1>2, <2>1, <2>2
<1> HIDE DEF q
<1>6. q # << >>
  BY <1>1, <1>4
<1>7. /\ Tail(q) \in Seq(Request) /\ Len(Tail(q)) = Len(q) - 1
      /\ \A i \in 1..Len(Tail(q)) : Tail(q)[i] = q[i + 1]
  BY <1>4, <1>6, TailFacts
<1>8. Pending' = Tail(q)
  BY <1>1, <1>4, <1>5, <1>7, SameSequence
<1> QED BY <1>6, <1>8 DEF Fifo!Serve, q

\* The purge takes the polls out of the list; what the tasklet has in its
\* hands stays in front.
LEMMA PurgeRefines ==
    ASSUME TypeOK, TypeOK', NEW t \in Thread, Sched_DeleteAllPoll(t)
    PROVE  Fifo!Purge
<1>1. PendingIs(Pending) /\ PendingIs(Pending)' /\ Len(sched_list) \in Nat /\ held' = held
      /\ sched_list \in Seq(Entry)
  BY PendingShape, PendingShapeNext DEF TypeOK, Sched_DeleteAllPoll
<1>2. PICK n \in 0..Len(sched_list), m \in 0..Len(sched_list) :
        \E f \in [1..n -> KeptAt], g \in [1..m -> PollAt] :
          /\ Enumerates(f, KeptAt)
          /\ sched_list' = [i \in 1..n |-> sched_list[f[i]]]
  BY DEF Sched_DeleteAllPoll
<1>3. PICK f \in [1..n -> KeptAt] :
          /\ Enumerates(f, KeptAt)
          /\ sched_list' = [i \in 1..n |-> sched_list[f[i]]]
  BY <1>2
<1>4. /\ n \in Nat /\ Len(sched_list') = n
      /\ \A i \in 1..n : f[i] \in KeptAt /\ f[i] \in 1..Len(sched_list)
      /\ \A i \in 1..n : sched_list'[i] = sched_list[f[i]]
      /\ \A i, j \in 1..n : i < j => f[i] < f[j]
      /\ \A p \in KeptAt : \E i \in 1..n : f[i] = p
  BY <1>1, <1>3 DEF Enumerates, KeptAt
<1> DEFINE q == Pending
           k == InHand
           S == IF k = 0 THEN Fifo!Kept ELSE Fifo!Kept \cup ({1} \cap DOMAIN q)
           F == [i \in 1..(k + n) |-> IF i <= k THEN 1 ELSE k + f[i - k]]
<1>5. /\ k \in {0, 1} /\ InHand' = k
      /\ q \in Seq(Request) /\ Len(q) = k + Len(sched_list) /\ DOMAIN q = 1..Len(q)
      /\ Pending' \in Seq(Request) /\ Len(Pending') = k + n
  BY <1>1, <1>4 DEF PendingIs, InHand
<1>size. n \in Nat /\ k \in {0, 1}
  BY <1>4, <1>5
<1>6. \A i \in 1..Len(sched_list) : q[k + i] = Ask(sched_list[i])
  BY <1>1 DEF PendingIs
<1>7. \A i \in 1..Len(sched_list) : (k + i \in Fifo!Kept) <=> i \in KeptAt
  <2> SUFFICES ASSUME NEW i \in 1..Len(sched_list) PROVE (k + i \in Fifo!Kept) <=> i \in KeptAt
    OBVIOUS
  <2>1. k + i \in DOMAIN q /\ sched_list[i] \in Entry
    BY <1>1, <1>5
  <2>2. q[k + i] \in Request /\ q[k + i].event = sched_list[i].event
    <3>1. q[k + i] = Ask(sched_list[i])
      BY <1>6
    <3>2. q[k + i] \in Request
      BY <1>5, <2>1
    <3> QED BY <3>1, <3>2 DEF Ask
  <2> QED BY <2>1, <2>2 DEF Fifo!Kept, KeptAt, IsPoll
<1>8. \A p : p \in S <=> (p \in 1..Len(q) /\ (p <= k \/ p - k \in KeptAt))
  <2> SUFFICES ASSUME NEW p PROVE p \in S <=> (p \in 1..Len(q) /\ (p <= k \/ p - k \in KeptAt))
    OBVIOUS
  <2>1. p \in S => p \in 1..Len(q)
    BY <1>5 DEF Fifo!Kept
  <2>2. ASSUME p \in 1..Len(q), p <= k PROVE p \in S
    <3>1. k = 1 /\ p = 1
      BY <1>5, <2>2
    <3> QED BY <1>5, <2>2, <3>1
  <2>3. ASSUME p \in 1..Len(q), p > k PROVE p \in S <=> p - k \in KeptAt
    <3>1. p - k \in 1..Len(sched_list) /\ k + (p - k) = p
      BY <1>1, <1>5, <2>3
    <3>2. p \in Fifo!Kept <=> p - k \in KeptAt
      BY <1>7, <3>1
    <3>3. k = 1 => p # 1
      BY <1>5, <2>3
    <3> QED BY <1>5, <3>2, <3>3
  <2> QED BY <1>5, <2>1, <2>2, <2>3
<1> HIDE DEF S
<1>9. \A i \in 1..(k + n) : F[i] \in S /\ q[F[i]] = Pending'[i]
  <2> SUFFICES ASSUME NEW i \in 1..(k + n) PROVE F[i] \in S /\ q[F[i]] = Pending'[i]
    OBVIOUS
  <2>1. CASE i <= k
    <3>1. i = 1 /\ k = 1 /\ F[i] = 1 /\ held # None
      BY <1>5, <2>1 DEF InHand
    <3>2. q[1] = Ask(held) /\ Pending'[1] = Ask(held)
      BY <1>1, <3>1 DEF PendingIs
    <3> QED BY <1>1, <1>5, <1>8, <3>1, <3>2
  <2>2. CASE i > k
    <3>1. i - k \in 1..n /\ k + (i - k) = i
      BY <1>size, <2>2
    <3>2. F[i] = k + f[i - k] /\ f[i - k] \in 1..Len(sched_list) /\ f[i - k] \in KeptAt
      BY <1>4, <1>5, <2>2, <3>1
    <3>3. F[i] \in 1..Len(q) /\ F[i] - k = f[i - k]
      BY <1>1, <1>5, <3>2
    <3>4. q[F[i]] = Ask(sched_list[f[i - k]])
      BY <1>6, <3>2
    <3>5. Pending'[k + (i - k)] = Ask(sched_list'[i - k])
      BY <1>1, <1>4, <1>5, <3>1 DEF PendingIs
    <3> QED BY <1>4, <1>8, <3>1, <3>2, <3>3, <3>4, <3>5
  <2> QED BY <1>size, <2>1, <2>2
<1>10. \A i, j \in 1..(k + n) : i < j => F[i] < F[j]
  <2> SUFFICES ASSUME NEW i \in 1..(k + n), NEW j \in 1..(k + n), i < j PROVE F[i] < F[j]
    OBVIOUS
  <2>1. j > k /\ j - k \in 1..n /\ F[j] = k + f[j - k] /\ f[j - k] \in 1..Len(sched_list)
    <3>1. j > k /\ j - k \in 1..n
      BY <1>size
    <3>2. F[j] = k + f[j - k]
      BY <1>size, <3>1
    <3>3. f[j - k] \in 1..Len(sched_list)
      BY <1>4, <3>1
    <3> QED BY <3>1, <3>2, <3>3
  <2>2. CASE i <= k
    BY <1>1, <1>5, <2>1, <2>2
  <2>3. CASE i > k
    <3>1. i - k \in 1..n /\ F[i] = k + f[i - k] /\ f[i - k] \in 1..Len(sched_list)
      <4>1. i - k \in 1..n
        BY <1>size, <2>3
      <4>2. F[i] = k + f[i - k]
        BY <1>size, <2>3
      <4>3. f[i - k] \in 1..Len(sched_list)
        BY <1>4, <4>1
      <4> QED BY <4>1, <4>2, <4>3
    <3>2. i - k < j - k
      BY <1>size
    <3>3. f[i - k] < f[j - k]
      BY <1>4, <2>1, <3>1, <3>2
    <3> QED BY <1>1, <1>5, <2>1, <3>1, <3>3
  <2> QED BY <1>size, <2>2, <2>3
<1>11. \A p \in S : \E i \in 1..(k + n) : F[i] = p
  <2> SUFFICES ASSUME NEW p \in S PROVE \E i \in 1..(k + n) : F[i] = p
    OBVIOUS
  <2>1. p \in 1..Len(q) /\ (p <= k \/ p - k \in KeptAt)
    BY <1>8
  <2>2. CASE p <= k
    <3>1. p = 1 /\ k = 1 /\ 1 \in 1..(k + n)
      BY <1>size, <2>1, <2>2
    <3>2. F[1] = 1
      BY <3>1
    <3> QED BY <3>1, <3>2
  <2>3. CASE p - k \in KeptAt
    <3>1. PICK i \in 1..n : f[i] = p - k
      BY <1>4, <2>3
    <3>2. k + i \in 1..(k + n) /\ ~(k + i <= k) /\ (k + i) - k = i
      BY <1>size, <3>1
    <3>3. F[k + i] = k + f[i]
      BY <3>2
    <3>4. k + (p - k) = p
      BY <1>size, <2>1
    <3> QED BY <3>1, <3>2, <3>3, <3>4
  <2> QED BY <2>1, <2>2, <2>3
<1> HIDE DEF q, F
<1>12. F \in [1..(k + n) -> S]
  BY <1>9 DEF F
<1>13. Pending' = [i \in 1..(k + n) |-> q[F[i]]]
  <2> DEFINE b == [i \in 1..(k + n) |-> q[F[i]]]
  <2>1. \A i \in 1..(k + n) : q[F[i]] \in Request
    <3> SUFFICES ASSUME NEW i \in 1..(k + n) PROVE q[F[i]] \in Request
      OBVIOUS
    <3>1. F[i] \in 1..Len(q)
      BY <1>8, <1>9
    <3> QED BY <1>5, <3>1
  <2>2. b \in [1..(k + n) -> Request] /\ k + n \in Nat
    BY <1>4, <1>5, <2>1
  <2>3. b \in Seq(Request) /\ Len(b) = k + n
    BY <2>2, FunSeq
  <2>4. \A i \in 1..Len(Pending') : Pending'[i] = b[i]
    BY <1>5, <1>9
  <2> HIDE DEF b
  <2>5. Pending' = b
    BY <1>5, <2>3, <2>4, SameSequence
  <2> QED BY <2>5 DEF b
<1>14. k + n \in 0..Len(q)
  BY <1>1, <1>4, <1>5
<1>15. S \in { Fifo!Kept, Fifo!Kept \cup ({1} \cap DOMAIN Pending) }
  BY DEF S, q
<1>16. \E r \in 0..Len(Pending) : \E g \in [1..r -> S] :
          /\ \A i, j \in 1..r : i < j => g[i] < g[j]
          /\ \A p \in S : \E i \in 1..r : g[i] = p
          /\ Pending' = [i \in 1..r |-> Pending[g[i]]]
  BY <1>10, <1>11, <1>12, <1>13, <1>14 DEF q
<1> QED BY <1>15, <1>16 DEF Fifo!Purge

\* Every step is one of the queue, or leaves it alone.
LEMMA NextRefines ==
    TypeOK /\ Places /\ [Next]_vars => [Fifo!FifoNext]_Pending
<1> SUFFICES ASSUME TypeOK, Places, [Next]_vars PROVE Fifo!FifoNext \/ Pending' = Pending
  OBVIOUS
<1>1. TypeOK'
  BY NextTypeOK
<1>2. CASE UNCHANGED << sched_list, held >>
  BY <1>2 DEF Pending
<1>3. ASSUME NEW t \in Thread, Sched_DoOneSched(t) PROVE Fifo!FifoNext \/ Pending' = Pending
  BY <1>1, <1>3, AddRefines DEF Fifo!FifoNext
<1>4. ASSUME NEW t \in Thread, Sched_DeleteAllPoll(t) PROVE Fifo!FifoNext
  BY <1>1, <1>4, PurgeRefines DEF Fifo!FifoNext
<1>5. CASE Excute_Pop \/ Excute_Retry
  BY <1>1, <1>5, PopRefines
<1>6. CASE Excute_Free
  BY <1>1, <1>6, FreeRefines DEF Fifo!FifoNext
<1>7. \/ UNCHANGED << sched_list, held >>
      \/ \E t \in Thread : Sched_DoOneSched(t) \/ Sched_DeleteAllPoll(t)
      \/ Excute_Pop \/ Excute_Retry \/ Excute_Free
  BY DEF Next, Excute, Request_Frame, Sched_CheckExistSched, Sched_ScanAllLink, Scan_Link,
     Scan_End, Frame_Test, Frame_Send, Excute_Record, Hci_Add_Connect_Device,
     Frag_InitTxForConnDev, Hci_Del_Connect_Device, Link_Changes, lists, thr, vars
<1> QED BY <1>2, <1>3, <1>4, <1>5, <1>6, <1>7

\* Whatever the threads do, the requests leave the scheduler in the order in
\* which they entered it; a retry or a purge of the polls reorders nothing.
THEOREM ServiceInOrder == Spec => ServedInOrder
<1>1. Init => TypeOK /\ Places /\ Fifo!FifoInit
  <2>1. Init => Pending = << >>
    BY DEF Init, Pending
  <2> QED BY <2>1, InitTypeOK, InitPlaces DEF Fifo!FifoInit
<1>2. TypeOK /\ Places /\ [Next]_vars => TypeOK' /\ Places' /\ [Fifo!FifoNext]_Pending
  BY NextTypeOK, NextPlaces, NextRefines
<1> QED BY <1>1, <1>2, PTL DEF Spec, ServedInOrder, Fifo!FifoSpec
=============================================================================
