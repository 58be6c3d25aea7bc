--------------------------- MODULE WlanMng_proofs ---------------------------
(***************************************************************************)
(* Theorems about WlanMng.                                                 *)
(*                                                                         *)
(* WaitsAreTimed is not inductive: that a timer which was set will fire    *)
(* rests on its flag telling the truth (TimerOK); that what the worklet    *)
(* does with a request for a network finds no scan of a user whose flag or *)
(* timer it would take over rests on the order of the queue (Ordered) and  *)
(* on what such a request has broken off (RequestOK); that the ends of a   *)
(* connection find none rests on their being created when nothing else     *)
(* waits (AheadOK).  What may leave an attempt without a timer is counted  *)
(* in left.upset from when it is queued (UpsetOK).                         *)
(*                                                                         *)
(* The functions of the driver are compared by what they do to the flags,  *)
(* the timer and the queues: Follows and Attempt for those that begin no   *)
(* scan and create no task, Comes for the others, Heard for a received     *)
(* frame.  Then there is one lemma for each action.                        *)
(*                                                                         *)
(* LinkGranted rests on LinkInv: no attempt is under way while the driver  *)
(* takes itself for connected, and the access point it knows is then the   *)
(* one that granted the association, unless another network is asked for   *)
(* (ConnectedOK); the response that may come is that of the access point   *)
(* asked (ResponseOK); the tasks that wait find the state they were        *)
(* created for (TasksOK); a connection out of its state is on its way to   *)
(* another or to its end, and the wish to reconnect does not outlive it    *)
(* (RoamsOK).  For this the functions are compared a second time, by what  *)
(* they do to the connection (Bond, Still, Stays) and, for a received      *)
(* frame, to the attempt (Turns).                                          *)
(***************************************************************************)
EXTENDS WlanMng, FiniteSetTheorems, TLAPS

-----------------------------------------------------------------------------
(* The queues.                                                             *)

Has(q, event) == \E i \in 1..Len(q) : q[i].event = event

\* What follows a request for a network was asked for after it: no scan waits
\* before it, and no other request.
Ordered(q) ==
    \A i, j \in 1..Len(q) :
      i < j => ~(q[j].event = "SET_SSID" /\ q[i].event \in { "SCAN", "SET_SSID" })

\* These two are only created when no other task waits.
Alone(q) == \A i \in 1..Len(q) : q[i].event \in { "DISCONNECTED", "RECOVER" } => i = 1

\* Waits is about a sequence, whose domain is an interval.
LEMMA WaitsHas ==
    ASSUME NEW S, NEW a, a.high \in Seq(S), NEW event
    PROVE  Waits(a, event) <=> Has(a.high, event)
<1>1. DOMAIN a.high = 1..Len(a.high)
  OBVIOUS
<1> QED BY <1>1 DEF Waits, Has

\* A task created at the tail.
LEMMA QueueAppend ==
    ASSUME NEW S, NEW q \in Seq(S), NEW t \in S
    PROVE  /\ Append(q, t) \in Seq(S)
           /\ \A e : Has(Append(q, t), e) <=> Has(q, e) \/ t.event = e
           /\ Ordered(q) /\ (t.event = "SET_SSID" => ~Has(q, "SCAN") /\ ~Has(q, "SET_SSID"))
                => Ordered(Append(q, t))
           /\ Alone(q) /\ (t.event \in { "DISCONNECTED", "RECOVER" } => q = << >>)
                => Alone(Append(q, t))
<1>1. /\ Append(q, t) \in Seq(S) /\ Len(q) \in Nat /\ Len(Append(q, t)) = Len(q) + 1
      /\ \A i \in 1..Len(q) : Append(q, t)[i] = q[i]
      /\ Append(q, t)[Len(q) + 1] = t
  OBVIOUS
<1> DEFINE r == Append(q, t)
<1> HIDE DEF r
<1>2. /\ r \in Seq(S) /\ Len(q) \in Nat /\ Len(r) = Len(q) + 1
      /\ \A i \in 1..Len(q) : r[i] = q[i]
      /\ r[Len(q) + 1] = t
  BY <1>1 DEF r
<1>3. \A e : Has(r, e) <=> Has(q, e) \/ t.event = e
  <2> SUFFICES ASSUME NEW e PROVE Has(r, e) <=> Has(q, e) \/ t.event = e
    OBVIOUS
  <2>1. Has(r, e) => Has(q, e) \/ t.event = e
    BY <1>2 DEF Has
  <2>2. t.event = e => Has(r, e)
    BY <1>2 DEF Has
  <2>3. Has(q, e) => Has(r, e)
    BY <1>2 DEF Has
  <2> QED BY <2>1, <2>2, <2>3
<1>4. Ordered(q) /\ (t.event = "SET_SSID" => ~Has(q, "SCAN") /\ ~Has(q, "SET_SSID")) => Ordered(r)
  BY <1>2 DEF Ordered, Has
<1>5. Alone(q) /\ (t.event \in { "DISCONNECTED", "RECOVER" } => q = << >>) => Alone(r)
  BY <1>2 DEF Alone
<1> QED BY <1>2, <1>3, <1>4, <1>5 DEF r

\* The head taken off.
LEMMA QueueTail ==
    ASSUME NEW S, NEW q \in Seq(S), q # << >>
    PROVE  /\ Tail(q) \in Seq(S) /\ Head(q) \in S /\ Has(q, Head(q).event)
           /\ \A e : Has(Tail(q), e) => Has(q, e)
           /\ Ordered(q) => Ordered(Tail(q))
           /\ Ordered(q) /\ Head(q).event \in { "SCAN", "SET_SSID" } => ~Has(Tail(q), "SET_SSID")
           /\ Alone(q) => Alone(Tail(q)) /\ ~Has(Tail(q), "DISCONNECTED") /\ ~Has(Tail(q), "RECOVER")
<1> DEFINE r == Tail(q)
<1>1. /\ r \in Seq(S) /\ Len(q) \in Nat /\ Len(q) > 0 /\ Len(r) = Len(q) - 1
      /\ \A i \in 1..Len(r) : r[i] = q[i + 1]
      /\ Head(q) = q[1] /\ Head(q) \in S
  OBVIOUS
<1> HIDE DEF r
<1>2. Has(q, Head(q).event)
  BY <1>1 DEF Has
<1>3. \A e : Has(r, e) => Has(q, e)
  <2> SUFFICES ASSUME NEW e, NEW i \in 1..Len(r), r[i].event = e PROVE Has(q, e)
    BY DEF Has
  <2>1. i + 1 \in 1..Len(q) /\ q[i + 1].event = e
    BY <1>1
  <2> QED BY <2>1 DEF Has
<1>4. Ordered(q) => Ordered(r)
  BY SMTT(20), <1>1 DEF Ordered
<1>5. Ordered(q) /\ Head(q).event \in { "SCAN", "SET_SSID" } => ~Has(r, "SET_SSID")
  BY <1>1 DEF Ordered, Has
<1>6. Alone(q) => Alone(r) /\ ~Has(r, "DISCONNECTED") /\ ~Has(r, "RECOVER")
  BY SMTT(20), <1>1 DEF Alone, Has
<1> QED BY <1>1, <1>2, <1>3, <1>4, <1>5, <1>6 DEF r

\* Tasks taken out.
LEMMA QueueDropped ==
    ASSUME NEW S, NEW q \in Seq(S), NEW events, NEW r \in Dropped(q, events)
    PROVE  /\ r \in Seq(S)
           /\ \A e : Has(r, e) => Has(q, e) /\ e \notin events
           /\ \A i \in 1..Len(r) : \E k \in 1..Len(q) : r[i] = q[k]
           /\ Ordered(q) => Ordered(r)
           /\ Alone(q) => Alone(r)
<1> DEFINE kept == { i \in DOMAIN q : q[i].event \notin events }
           n == Cardinality(kept)
<1>1. DOMAIN q = 1..Len(q) /\ Len(q) \in Nat
  OBVIOUS
<1>2. n \in Nat
  <2>1. IsFiniteSet(1..Len(q))
    BY <1>1, FS_Interval
  <2>2. IsFiniteSet(kept)
    BY <1>1, <2>1, FS_Subset
  <2> QED BY <2>2, FS_CardinalityType
<1>3. PICK f \in [1..n -> kept] :
          /\ \A i, j \in DOMAIN f : i < j => f[i] < f[j]
          /\ r = [i \in DOMAIN f |-> q[f[i]]]
  BY DEF Dropped
<1> HIDE DEF n, kept
<1>4. /\ \A i \in 1..n : f[i] \in 1..Len(q) /\ q[f[i]].event \notin events
      /\ \A i, j \in 1..n : i < j => f[i] < f[j]
      /\ r = [i \in 1..n |-> q[f[i]]]
  BY <1>1, <1>3 DEF kept
<1>5. /\ r \in Seq(S) /\ Len(r) = n
      /\ \A i \in 1..n : r[i] = q[f[i]]
  <2>1. \A i \in 1..n : q[f[i]] \in S
    BY <1>4
  <2> QED BY <1>2, <1>4, <2>1
<1>6. \A e : Has(r, e) => Has(q, e) /\ e \notin events
  BY <1>4, <1>5 DEF Has
<1>7. Ordered(q) => Ordered(r)
  BY <1>4, <1>5 DEF Ordered
<1>8. Alone(q) => Alone(r)
  <2> SUFFICES ASSUME Alone(q), NEW i \in 1..n, r[i].event \in { "DISCONNECTED", "RECOVER" }
               PROVE  i = 1
    BY <1>5 DEF Alone
  <2>1. f[i] = 1
    BY <1>4, <1>5 DEF Alone
  <2>2. 1 < i => f[1] < f[i] /\ f[1] \in 1..Len(q)
    BY <1>2, <1>4
  <2> QED BY <1>2, <2>1, <2>2
<1> QED BY <1>4, <1>5, <1>6, <1>7, <1>8

-----------------------------------------------------------------------------
(* What the functions make of an adapter is an adapter.                    *)

\* What the worklet finds of a received frame.
LEMMA ItemFacts ==
    ASSUME NEW f \in Tasks \cup Frames, f.event \in { "BEACON", "AUTH", "ASSOC", "DEAUTH" }
    PROVE  f \in Frames /\ f.ap \in Ap
BY DEF Tasks, Frames

\* The tasks the functions create, and their events.
LEMMA TaskFacts ==
    /\ \A e \in { "SCAN", "REQJOIN", "RESET", "RECOVER", "DISCONNECTED", "MNGTIMEOUT" } :
         Event(e) \in Tasks /\ Event(e).event = e
    /\ \A type \in { "join", "scan", "none", "roam" }, diff \in BOOLEAN :
         SetSsidTask(type, diff) \in Tasks /\ SetSsidTask(type, diff).event = "SET_SSID"
    /\ \A ind \in BOOLEAN :
         DisassocTask(ind) \in Tasks /\ DisassocTask(ind).event = "DISASSOC"
    /\ \A add \in BOOLEAN : [event |-> "WEP", add |-> add] \in Tasks
BY DEF Tasks, Event, SetSsidTask, DisassocTask

\* The functions that only set fields.
LEMMA TimerType ==
    ASSUME NEW a \in Adapter
    PROVE  /\ SetTimer(a) \in Adapter /\ ClearTimer(a) \in Adapter
           /\ InitParas(a) \in Adapter /\ Fail(a) \in Adapter /\ MediaDown(a) \in Adapter
           /\ AuthFail(a) \in Adapter /\ ScanFlagsCleared(a) \in Adapter
           /\ BreakIfScanning(a) \in Adapter
<1>1. ClearTimer(a) \in Adapter
  BY DEF Adapter, ClearTimer
<1>7. SetTimer(a) \in Adapter
  <2>1. [a EXCEPT !.running = TRUE, !.ticking = TRUE] \in Adapter
    BY DEF Adapter
  <2> QED BY <2>1 DEF SetTimer
<1>2. InitParas(a) \in Adapter /\ Fail(a) \in Adapter
  BY DEF Adapter, InitParas, Fail
<1>3. MediaDown(a) \in Adapter
  BY DEF Adapter, InitParas, MediaDown
<1>4. AuthFail(a) \in Adapter
  BY ZenonT(30) DEF Adapter, InitParas, Fail, AuthFail
<1>5. ScanFlagsCleared(a) \in Adapter
  BY DEF Adapter, ScanFlagsCleared
<1>6. BreakIfScanning(a) \in Adapter
  <2> DEFINE c == ClearTimer(a)
             cur == IF c.cur = "SCANNING" THEN "IDLE" ELSE c.cur
  <2> HIDE DEF c
  <2>1. c \in Adapter
    BY <1>1 DEF c
  <2>2. cur \in Trying \cup { "IDLE", "ASSOCOK" }
    BY <2>1 DEF Adapter
  <2> HIDE DEF cur
  <2>3. [c EXCEPT !.begin = FALSE, !.oid = FALSE, !.scanning = FALSE, !.cur = cur] \in Adapter
    BY ZenonT(60), <2>1, <2>2 DEF Adapter
  <2>4. [c EXCEPT !.begin = FALSE, !.oid = FALSE, !.scanning = FALSE, !.cur = cur]
          = [c EXCEPT !.begin = FALSE, !.oid = FALSE, !.scanning = FALSE,
                      !.cur = IF @ = "SCANNING" THEN "IDLE" ELSE @]
    BY <2>1 DEF Adapter, cur
  <2> QED BY <2>3, <2>4 DEF BreakIfScanning, c
<1> QED BY <1>7, <1>1, <1>2, <1>3, <1>4, <1>5, <1>6

\* A task created.
LEMMA CreateType ==
    ASSUME NEW a \in Adapter, NEW t \in Tasks
    PROVE  Create(a, t) \in Adapter /\ CreateOnce(a, t) \in Adapter
<1>1. Append(a.high, t) \in Seq(Tasks)
  BY DEF Adapter
<1>2. Create(a, t) \in Adapter
  BY <1>1 DEF Adapter, Create
<1> QED BY <1>2 DEF CreateOnce

\* A try to authenticate.
LEMMA DoAuthType ==
    ASSUME NEW a \in Adapter
    PROVE  DoAuth(a) \in Adapter /\ StartAuth(a) \in Adapter /\ StartShared(a) \in Adapter
<1>1. ASSUME NEW b \in Adapter PROVE DoAuth(b) \in Adapter
  <2> DEFINE turn == b.retry * 2 >= MaxAuth /\ b.alg = "open" /\ b.privacy
             c == IF turn THEN [b EXCEPT !.alg = "shared", !.retry = 0] ELSE b
  <2>1. c \in Adapter
    <3>1. [b EXCEPT !.alg = "shared", !.retry = 0] \in Adapter
      BY <1>1 DEF Adapter
    <3> HIDE DEF turn
    <3> QED BY <1>1, <3>1
  <2>2. DoAuth(b) = IF c.retry >= MaxAuth THEN AuthFail(c)
                    ELSE [SetTimer(c) EXCEPT !.work = { "AUTH2" }, !.retry = @ + 1]
    BY DEF DoAuth
  <2> HIDE DEF c
  <2>3. AuthFail(c) \in Adapter /\ SetTimer(c) \in Adapter
    BY <2>1, TimerType
  <2>4. [SetTimer(c) EXCEPT !.work = { "AUTH2" }, !.retry = @ + 1] \in Adapter
    <3> DEFINE d == SetTimer(c)
    <3> HIDE DEF d
    <3>1. d \in Adapter
      BY <2>3 DEF d
    <3> DEFINE n == d.retry + 1
    <3>3. n \in Nat
      BY <3>1 DEF Adapter
    <3> HIDE DEF n
    <3>4. [d EXCEPT !.work = { "AUTH2" }, !.retry = n] \in Adapter
      BY <3>1, <3>3 DEF Adapter
    <3>2. [d EXCEPT !.work = { "AUTH2" }, !.retry = @ + 1] \in Adapter
      BY <3>1, <3>4 DEF Adapter, n
    <3> QED BY <3>2 DEF d
  <2> QED BY <2>2, <2>3, <2>4
<1>2. ASSUME NEW b \in Adapter PROVE StartAuth(b) \in Adapter
  <2>1. [b EXCEPT !.cur = "JOINOK", !.retry = 0] \in Adapter
    BY <1>2 DEF Adapter, Trying
  <2> QED BY <1>1, <2>1 DEF StartAuth
<1>3. [a EXCEPT !.alg = "shared"] \in Adapter
  BY DEF Adapter
<1> QED BY <1>1, <1>2, <1>3 DEF StartShared

\* The counters and the work set or counted.
LEMMA RetryType ==
    ASSUME NEW a \in Adapter, NEW n \in Nat,
           NEW w \in SUBSET { "MID_STOP", "CHAN", "HWIDLE", "WAIT", "AUTH2", "AUTH4" }
    PROVE  /\ [a EXCEPT !.retry = n] \in Adapter
           /\ [a EXCEPT !.count = n] \in Adapter
           /\ [a EXCEPT !.work = w] \in Adapter
           /\ [a EXCEPT !.work = w, !.retry = n] \in Adapter
           /\ [a EXCEPT !.retry = @ + 1] \in Adapter
           /\ [a EXCEPT !.count = @ + 1] \in Adapter
           /\ a.retry > 0 => [a EXCEPT !.retry = @ - 1] \in Adapter
<1>1. /\ [a EXCEPT !.retry = n] \in Adapter
      /\ [a EXCEPT !.count = n] \in Adapter
      /\ [a EXCEPT !.work = w] \in Adapter
      /\ [a EXCEPT !.work = w, !.retry = n] \in Adapter
  BY DEF Adapter
<1> DEFINE up == a.retry + 1
           down == a.retry - 1
           next == a.count + 1
<1>2. up \in Nat /\ next \in Nat /\ (a.retry > 0 => down \in Nat)
  BY DEF Adapter
<1> HIDE DEF up, down, next
<1>3. [a EXCEPT !.retry = up] \in Adapter /\ [a EXCEPT !.count = next] \in Adapter
  BY <1>2 DEF Adapter
<1>4. a.retry > 0 => [a EXCEPT !.retry = down] \in Adapter
  BY <1>2 DEF Adapter
<1> QED BY <1>1, <1>3, <1>4 DEF up, down, next

\* A try to associate.
LEMMA DoAssocType ==
    ASSUME NEW a \in Adapter PROVE DoAssoc(a) \in Adapter /\ StartAssoc(a) \in Adapter
<1>1. ASSUME NEW b \in Adapter PROVE DoAssoc(b) \in Adapter
  <2>1. AuthFail(b) \in Adapter /\ SetTimer(b) \in Adapter
    BY <1>1, TimerType
  <2>2. [SetTimer(b) EXCEPT !.retry = @ + 1] \in Adapter
    BY <2>1, RetryType
  <2> QED BY <2>1, <2>2 DEF DoAssoc
<1>2. [a EXCEPT !.cur = "AUTHOK", !.retry = 0] \in Adapter
  BY DEF Adapter, Trying
<1> QED BY <1>1, <1>2 DEF StartAssoc

\* A join begun or gone on with.
LEMMA DoJoinType ==
    MngAssumption =>
    /\ \A a \in Adapter : DoJoin(a) \subseteq Adapter
    /\ \A a \in Adapter : StartJoin(a) \subseteq Adapter
<1> SUFFICES ASSUME MngAssumption
             PROVE  /\ \A a \in Adapter : DoJoin(a) \subseteq Adapter
                    /\ \A a \in Adapter : StartJoin(a) \subseteq Adapter
  OBVIOUS
<1>1. ASSUME NEW a \in Adapter PROVE ChecksIdle(a) \subseteq Adapter
  <2>1. SetTimer(a) \in Adapter
    BY <1>1, TimerType
  <2>2. \A w \in { "HWIDLE", "WAIT" } : [SetTimer(a) EXCEPT !.work = { w }] \in Adapter
    BY <2>1, RetryType
  <2> QED BY <2>2 DEF ChecksIdle
<1>2. ASSUME NEW a \in Adapter PROVE DoJoin(a) \subseteq Adapter
  <2>1. SetTimer(a) \in Adapter
    BY <1>2, TimerType
  <2>2. [a EXCEPT !.retry = JoinRetry] \in Adapter
    BY <1>2, RetryType DEF MngAssumption
  <2> QED BY <1>1, <1>2, <2>1, <2>2 DEF DoJoin
<1>3. ASSUME NEW a \in Adapter PROVE StartJoin(a) \subseteq Adapter
  <2> DEFINE keys == a.used.ap \in Private
             c == [a EXCEPT !.cur = "JOINNING", !.work = { "CHAN" }, !.privacy = keys,
                            !.count = JoinRetry, !.retry = JoinRetry]
  <2>1. keys \in BOOLEAN
    OBVIOUS
  <2>2. StartJoin(a) = DoJoin(c)
    BY DEF StartJoin
  <2> HIDE DEF keys
  <2>3. c \in Adapter
    BY <1>3, <2>1 DEF Adapter, Trying, MngAssumption
  <2> HIDE DEF c
  <2> QED BY <1>2, <2>2, <2>3
<1> QED BY <1>2, <1>3

\* The lists of networks put together.
LEMMA MergedType ==
    ASSUME NEW a \in Adapter, NEW b \in Merged(a)
    PROVE  b \in Adapter
<1>1. PICK k \in { {}, a.known } :
          b = [a EXCEPT !.known = a.heard \cup k, !.heard = a.heard \cup k]
  BY DEF Merged
<1>2. a.heard \cup k \in SUBSET Ap
  BY <1>1 DEF Adapter
<1> QED BY <1>1, <1>2 DEF Adapter

\* The end of a scan for another access point.
LEMMA ReconnectType ==
    MngAssumption => \A a \in Adapter : Reconnect(a) \subseteq Adapter
<1> SUFFICES ASSUME MngAssumption, NEW a \in Adapter, NEW c \in Reconnect(a) PROVE c \in Adapter
  OBVIOUS
<1> DEFINE b == [a EXCEPT !.reconnect = "DOING"]
           out == Candidates(a)
           moved(p) ==
             IF Waits(b, "SET_SSID") THEN b
             ELSE [Create(b, SetSsidTask("roam", FALSE)) EXCEPT
                     !.used = [ap |-> p, ssid |-> SsidOf[p]]]
<1>1. b \in Adapter /\ [a EXCEPT !.reconnect = "NO"] \in Adapter
  BY DEF Adapter
<1>2. out \subseteq Ap
  BY DEF Adapter, Candidates
<1>3. \/ c = [a EXCEPT !.reconnect = "NO"]
      \/ c = MediaDown([b EXCEPT !.link = FALSE])
      \/ \E p \in out : c = moved(p)
      \/ c = CreateOnce(b, Event("RECOVER"))
  BY DEF Reconnect
<1> HIDE DEF b
<1>4. MediaDown([b EXCEPT !.link = FALSE]) \in Adapter
  <2>1. [b EXCEPT !.link = FALSE] \in Adapter
    BY ZenonT(60), <1>1 DEF Adapter
  <2> QED BY <2>1, TimerType
<1>5. CreateOnce(b, Event("RECOVER")) \in Adapter
  BY <1>1, CreateType, TaskFacts
<1>6. ASSUME NEW p \in out PROVE moved(p) \in Adapter
  <2>1. Create(b, SetSsidTask("roam", FALSE)) \in Adapter
    BY <1>1, CreateType, TaskFacts
  <2>2. [ap |-> p, ssid |-> SsidOf[p]] \in [ap : Ap \cup {None}, ssid : Ssid \cup {None}]
    BY <1>2 DEF MngAssumption
  <2> DEFINE d == Create(b, SetSsidTask("roam", FALSE))
             u == [ap |-> p, ssid |-> SsidOf[p]]
  <2>3. [d EXCEPT !.used = u] \in Adapter
    <3> HIDE DEF d, u
    <3> QED BY <2>1, <2>2 DEF Adapter, d, u
  <2> QED BY <1>1, <2>3
<1> QED BY <1>1, <1>3, <1>4, <1>5, <1>6

\* The end of a scan.
LEMMA EndScanType ==
    MngAssumption =>
    /\ \A a \in Adapter : ScanFail(a) \subseteq Adapter
    /\ \A a \in Adapter : EndScan(a) \subseteq Adapter
<1> SUFFICES ASSUME MngAssumption
             PROVE  /\ \A a \in Adapter : ScanFail(a) \subseteq Adapter
                    /\ \A a \in Adapter : EndScan(a) \subseteq Adapter
  OBVIOUS
<1>0. ASSUME NEW a \in Adapter
      PROVE  /\ [a EXCEPT !.oid = FALSE, !.reconnect = "CAN"] \in Adapter
             /\ [a EXCEPT !.oid = FALSE] \in Adapter
             /\ [a EXCEPT !.reconnect = "CAN"] \in Adapter
             /\ [a EXCEPT !.retry = 0] \in Adapter
  <2>1. [a EXCEPT !.oid = FALSE, !.reconnect = "CAN"] \in Adapter
    BY <1>0 DEF Adapter
  <2>2. [a EXCEPT !.oid = FALSE] \in Adapter
    BY <1>0 DEF Adapter
  <2>3. [a EXCEPT !.reconnect = "CAN"] \in Adapter
    BY <1>0 DEF Adapter
  <2>4. [a EXCEPT !.retry = 0] \in Adapter
    BY <1>0 DEF Adapter
  <2> QED BY <2>1, <2>2, <2>3, <2>4
<1>1. ASSUME NEW a \in Adapter PROVE ScanFail(a) \subseteq Adapter
  <2>1. Fail(InitParas(a)) \in Adapter
    BY <1>1, TimerType
  <2>2. Merged(Fail(InitParas(a))) \subseteq Adapter
    BY <2>1, MergedType
  <2>3. Reconnect([Fail(InitParas(a)) EXCEPT !.oid = FALSE, !.reconnect = "CAN"]) \subseteq Adapter
    BY <1>0, <2>1, ReconnectType
  <2> QED BY <2>2, <2>3 DEF ScanFail
<1>2. ASSUME NEW a \in Adapter PROVE EndScan(a) \subseteq Adapter
  <2> DEFINE b == ClearTimer(a)
             ended == { ScanFlagsCleared([c EXCEPT !.oid = FALSE]) : c \in Merged(b) }
  <2>1. b \in Adapter
    BY <1>2, TimerType
  <2> HIDE DEF b
  <2>2. \A c \in ended : c \in Adapter
    BY <1>0, <2>1, MergedType, TimerType
  <2>3. \A c \in ended : Fail(c) \in Adapter /\ Reconnect([c EXCEPT !.reconnect = "CAN"]) \subseteq Adapter
    BY <1>0, <2>2, TimerType, ReconnectType
  <2>4. ScanFail(ScanFlagsCleared([b EXCEPT !.retry = 0])) \subseteq Adapter
    BY <1>0, <1>1, <2>1, TimerType
  <2>5. EndScan(a) = IF b.oid
        THEN IF a.reconnect = "NEED"
             THEN UNION { Reconnect([c EXCEPT !.reconnect = "CAN"]) : c \in ended }
             ELSE { Fail(c) : c \in ended }
        ELSE IF b.cur = "SCANNING" THEN ScanFail(ScanFlagsCleared([b EXCEPT !.retry = 0]))
        ELSE {b}
    BY DEF EndScan, b
  <2> HIDE DEF ended
  <2>6. UNION { Reconnect([c EXCEPT !.reconnect = "CAN"]) : c \in ended } \subseteq Adapter
    BY <2>3
  <2>7. { Fail(c) : c \in ended } \subseteq Adapter
    BY <2>3
  <2>8. {b} \subseteq Adapter
    BY <2>1
  <2> QED BY <2>4, <2>5, <2>6, <2>7, <2>8
<1> QED BY <1>1, <1>2

\* The next channel of a scan, and its first.
LEMMA DoScanType ==
    MngAssumption =>
    /\ \A a \in Adapter : DoScan(a) \subseteq Adapter
    /\ \A a \in Adapter : OidScan(a) \subseteq Adapter
    /\ \A a \in Adapter : OidScanWithSsid(a) \subseteq Adapter
    /\ \A a \in Adapter : ScanTimeout(a) \subseteq Adapter
<1> SUFFICES ASSUME MngAssumption
             PROVE  /\ \A a \in Adapter : DoScan(a) \subseteq Adapter
                    /\ \A a \in Adapter : OidScan(a) \subseteq Adapter
                    /\ \A a \in Adapter : OidScanWithSsid(a) \subseteq Adapter
                    /\ \A a \in Adapter : ScanTimeout(a) \subseteq Adapter
  OBVIOUS
<1>1. ASSUME NEW a \in Adapter PROVE DoScan(a) \subseteq Adapter
  <2> DEFINE cur == IF a.cur = "SCANNING" THEN "IDLE" ELSE a.cur
  <2>1. cur \in Trying \cup { "IDLE", "ASSOCOK" }
    BY <1>1 DEF Adapter
  <2> HIDE DEF cur
  <2>2. [a EXCEPT !.oid = FALSE, !.scanning = FALSE, !.cur = cur] \in Adapter
    BY <1>1, <2>1 DEF Adapter
  <2>3. [a EXCEPT !.oid = FALSE, !.scanning = FALSE,
                  !.cur = IF @ = "SCANNING" THEN "IDLE" ELSE @] \in Adapter
    BY <1>1, <2>2 DEF Adapter, cur
  <2>4. SetTimer(a) \in Adapter
    BY <1>1, TimerType
  <2>5. [SetTimer(a) EXCEPT !.count = @ + 1] \in Adapter
    BY <2>4, RetryType
  <2>6. [SetTimer(a) EXCEPT !.work = @ \cup { "WAIT" }, !.retry = @ + 1] \in Adapter
    <3> DEFINE b == SetTimer(a)
               n == b.retry + 1
               w == b.work \cup { "WAIT" }
    <3> HIDE DEF b
    <3>1. b \in Adapter
      BY <2>4 DEF b
    <3>2. n \in Nat /\ w \in SUBSET { "MID_STOP", "CHAN", "HWIDLE", "WAIT", "AUTH2", "AUTH4" }
      BY <3>1 DEF Adapter
    <3> HIDE DEF n, w
    <3>3. [b EXCEPT !.work = w, !.retry = n] \in Adapter
      BY <3>1, <3>2, RetryType
    <3> QED BY <3>3 DEF b, n, w
  <2>7. EndScan(a) \subseteq Adapter
    BY <1>1, EndScanType
  <2> QED BY <2>3, <2>5, <2>6, <2>7 DEF DoScan
<1>2. ASSUME NEW a \in Adapter PROVE OidScan(a) \subseteq Adapter
  <2> DEFINE b == ClearTimer(a)
  <2>1. b \in Adapter
    BY <1>2, TimerType
  <2> HIDE DEF b
  <2>2. [b EXCEPT !.retry = 0, !.heard = {}, !.scanning = TRUE,
                  !.count = 0, !.oid = TRUE, !.work = {}] \in Adapter
    BY <2>1 DEF Adapter
  <2> QED BY <1>1, <2>2 DEF OidScan, b
<1>3. ASSUME NEW a \in Adapter PROVE OidScanWithSsid(a) \subseteq Adapter
  <2> DEFINE b == ClearTimer(a)
             s == a.used.ssid
             attr == [b.attr EXCEPT !.ssid = s]
  <2>1. b \in Adapter
    BY <1>3, TimerType
  <2> HIDE DEF b
  <2>2. attr \in [ap : Ap \cup {None}, ssid : Ssid \cup {None}]
    BY <1>3, <2>1 DEF Adapter
  <2> HIDE DEF attr
  <2>3. [b EXCEPT !.begin = TRUE, !.attr = attr, !.scanning = TRUE,
                  !.count = 0, !.cur = "SCANNING", !.work = { "MID_STOP" }] \in Adapter
    BY ZenonT(30), <2>1, <2>2 DEF Adapter, Trying
  <2>4. [b EXCEPT !.begin = TRUE, !.attr.ssid = s, !.scanning = TRUE,
                  !.count = 0, !.cur = "SCANNING", !.work = { "MID_STOP" }] \in Adapter
    BY <2>1, <2>3 DEF attr, Adapter
  <2> QED BY <1>1, <2>4 DEF OidScanWithSsid, b
<1>4. ASSUME NEW a \in Adapter PROVE ScanTimeout(a) \subseteq Adapter
  <2> DEFINE w == a.work \ { "WAIT" }
  <2>1. [a EXCEPT !.work = w] \in Adapter
    <3>1. w \in SUBSET { "MID_STOP", "CHAN", "HWIDLE", "WAIT", "AUTH2", "AUTH4" }
      BY <1>4 DEF Adapter
    <3> HIDE DEF w
    <3> QED BY <1>4, <3>1, RetryType
  <2>2. [a EXCEPT !.work = @ \ { "WAIT" }] \in Adapter
    BY <2>1
  <2> QED BY <1>1, <2>2, EndScanType DEF ScanTimeout
<1> QED BY <1>1, <1>2, <1>3, <1>4

\* The timeout of the management timer.
LEMMA TimeoutType ==
    MngAssumption =>
    /\ \A a \in Adapter : JoinTimeout(a) \subseteq Adapter
    /\ \A a \in Adapter : Timeout(a) \subseteq Adapter
<1> SUFFICES ASSUME MngAssumption
             PROVE  /\ \A a \in Adapter : JoinTimeout(a) \subseteq Adapter
                    /\ \A a \in Adapter : Timeout(a) \subseteq Adapter
  OBVIOUS
<1>1. ASSUME NEW a \in Adapter PROVE JoinTimeout(a) \subseteq Adapter
  <2>1. SetTimer(a) \in Adapter /\ Fail(InitParas(a)) \in Adapter
    BY <1>1, TimerType
  <2>2. a.retry = 0 \/ a.retry > 0
    BY <1>1 DEF Adapter
  <2>3. a.retry > 0 => [SetTimer(a) EXCEPT !.retry = @ - 1] \in Adapter
    <3>1. SetTimer(a).retry = a.retry
      BY <1>1 DEF SetTimer, Adapter
    <3> QED BY <2>1, <3>1, RetryType
  <2>4. a.retry > 0 => [a EXCEPT !.retry = @ - 1] \in Adapter
    BY <1>1, RetryType
  <2> QED BY <1>1, <2>1, <2>2, <2>3, <2>4, DoJoinType DEF JoinTimeout
<1>2. ASSUME NEW a \in Adapter PROVE Timeout(a) \subseteq Adapter
  BY <1>1, <1>2, DoScanType, DoAuthType, DoAssocType DEF Timeout
<1> QED BY <1>1, <1>2

\* A beacon while a scan looks for a network.
LEMMA RxWhenScanType ==
    MngAssumption => \A a \in Adapter, f \in Tasks \cup Frames : RxWhenScan(a, f) \in Adapter
<1> SUFFICES ASSUME MngAssumption, NEW a \in Adapter, NEW f \in Tasks \cup Frames
             PROVE  RxWhenScan(a, f) \in Adapter
  OBVIOUS
<1> SUFFICES ASSUME f.event = "BEACON" PROVE RxWhenScan(a, f) \in Adapter
  BY DEF RxWhenScan
<1> DEFINE k == a.known \cup {f.ap}
           b == [a EXCEPT !.known = k]
           u == [ap |-> f.ap, ssid |-> SsidOf[f.ap]]
           keys == f.ap \in Private
<1>1. k \in SUBSET Ap
  BY ItemFacts DEF Adapter
<1>2. b \in Adapter
  <2> HIDE DEF k
  <2> QED BY <1>1 DEF Adapter
<1>3. u \in [ap : Ap \cup {None}, ssid : Ssid \cup {None}]
  BY ItemFacts DEF MngAssumption
<1> DEFINE c == ClearTimer(b)
<1>4. c \in Adapter
  BY <1>2, TimerType
<1>6. keys \in BOOLEAN
  OBVIOUS
<1>5. [c EXCEPT !.used = u, !.begin = FALSE, !.privacy = keys, !.oid = TRUE, !.cur = "IDLE",
                !.work = {}, !.scanning = FALSE] \in Adapter
  <2> HIDE DEF c, u, keys
  <2> DEFINE e == [c EXCEPT !.used = u, !.begin = FALSE]
             d == [e EXCEPT !.privacy = keys, !.oid = TRUE]
  <2>4. e \in Adapter
    BY ZenonT(30), <1>3, <1>4 DEF Adapter
  <2>5. [e EXCEPT !.privacy = keys, !.oid = TRUE]
          = [c EXCEPT !.used = u, !.begin = FALSE, !.privacy = keys, !.oid = TRUE]
    OBVIOUS
  <2> HIDE DEF e
  <2>1. d \in Adapter
    BY ZenonT(30), <1>6, <2>4 DEF Adapter
  <2>2. [d EXCEPT !.cur = "IDLE", !.work = {}, !.scanning = FALSE]
          = [c EXCEPT !.used = u, !.begin = FALSE, !.privacy = keys, !.oid = TRUE, !.cur = "IDLE",
                      !.work = {}, !.scanning = FALSE]
    BY <2>5
  <2> HIDE DEF d
  <2>3. [d EXCEPT !.cur = "IDLE", !.work = {}, !.scanning = FALSE] \in Adapter
    BY <2>1 DEF Adapter
  <2> QED BY <2>2, <2>3
<1> QED BY <1>2, <1>5 DEF RxWhenScan

-----------------------------------------------------------------------------
(* What the functions do to the flags and to the timer.                    *)

\* The timer is left as it was, or it is started or stopped as a whole.
Clock(a, b) ==
    \/ b.running = a.running /\ b.ticking = a.ticking
    \/ b.running = b.ticking

\* b comes of a without a scan being begun and without a task being created.
Follows(a, b) ==
    /\ b \in Adapter /\ Clock(a, b)
    /\ b.high = a.high /\ b.normal = a.normal
    /\ b.oid => a.oid
    /\ b.scanning => a.scanning
    /\ b.begin => a.begin
    /\ b.reconnect = "NEED" => a.reconnect = "NEED"

\* ... and if it leaves an attempt, then with its timer set.
Attempt(a, b) == Follows(a, b) /\ (b.cur \in Trying => b.running)

\* One function after another.
LEMMA FollowsTrans ==
    ASSUME NEW a \in Adapter, NEW b \in Adapter, NEW c, Follows(a, b)
    PROVE  (Follows(b, c) => Follows(a, c)) /\ (Attempt(b, c) => Attempt(a, c))
BY DEF Follows, Attempt, Clock

\* The functions that only set fields.
LEMMA TimerFacts ==
    ASSUME NEW a \in Adapter
    PROVE  /\ Follows(a, a)
           /\ Follows(a, SetTimer(a)) /\ SetTimer(a).running
           /\ SetTimer(a).cur = a.cur
           /\ Follows(a, ClearTimer(a)) /\ ClearTimer(a).cur = a.cur
           /\ ClearTimer(a).running = FALSE /\ ClearTimer(a).ticking = FALSE
           /\ Follows(a, InitParas(a)) /\ InitParas(a).cur = "IDLE"
           /\ Follows(a, Fail(a)) /\ Fail(a).cur = a.cur /\ ~Fail(a).scanning
           /\ Follows(a, MediaDown(a)) /\ MediaDown(a).cur = "IDLE"
           /\ Follows(a, AuthFail(a)) /\ AuthFail(a).cur = "IDLE" /\ ~AuthFail(a).scanning
<1>1. Follows(a, a)
  BY DEF Follows, Clock
<1>2. Follows(a, SetTimer(a)) /\ SetTimer(a).running /\ SetTimer(a).cur = a.cur
  <2>1. CASE a.running
    BY <1>1, <2>1 DEF SetTimer
  <2>2. CASE ~a.running
    <3>1. SetTimer(a) = [a EXCEPT !.running = TRUE, !.ticking = TRUE]
      BY <2>2 DEF SetTimer
    <3>2. SetTimer(a) \in Adapter
      BY TimerType
    <3> QED BY <3>1, <3>2 DEF Follows, Clock, Adapter
  <2> QED BY <2>1, <2>2
<1>3. /\ Follows(a, ClearTimer(a)) /\ ClearTimer(a).cur = a.cur
      /\ ClearTimer(a).running = FALSE /\ ClearTimer(a).ticking = FALSE
  <2>1. ClearTimer(a) \in Adapter
    BY TimerType
  <2> QED BY <2>1 DEF Follows, Clock, Adapter, ClearTimer
<1>4. Follows(a, InitParas(a)) /\ InitParas(a).cur = "IDLE"
  <2>1. InitParas(a) \in Adapter
    BY TimerType
  <2> QED BY <2>1 DEF Follows, Clock, Adapter, InitParas
<1>5. Follows(a, Fail(a)) /\ Fail(a).cur = a.cur /\ ~Fail(a).scanning
  <2>1. Fail(a) \in Adapter
    BY TimerType
  <2> QED BY <2>1 DEF Follows, Clock, Adapter, Fail
<1>6. Follows(a, MediaDown(a)) /\ MediaDown(a).cur = "IDLE"
  <2>1. MediaDown(a) \in Adapter
    BY TimerType
  <2> QED BY <2>1 DEF Follows, Clock, Adapter, InitParas, MediaDown
<1>7. Follows(a, AuthFail(a)) /\ AuthFail(a).cur = "IDLE" /\ ~AuthFail(a).scanning
  <2>1. AuthFail(a) \in Adapter
    BY TimerType
  <2> QED BY <2>1 DEF Follows, Clock, Adapter, InitParas, Fail, AuthFail
<1> QED BY <1>1, <1>2, <1>3, <1>4, <1>5, <1>6, <1>7

\* The fields the theorems are about are the same.
Alike(a, b) ==
    /\ b.cur = a.cur /\ b.oid = a.oid /\ b.begin = a.begin /\ b.scanning = a.scanning
    /\ b.running = a.running /\ b.ticking = a.ticking /\ b.reconnect = a.reconnect
    /\ b.high = a.high /\ b.normal = a.normal

\* Fields the theorems are not about do not matter.
LEMMA AlikeFacts ==
    ASSUME NEW a \in Adapter, NEW b \in Adapter, NEW c, Alike(a, b)
    PROVE  Follows(a, b) /\ (Follows(b, c) => Follows(a, c)) /\ (Attempt(b, c) => Attempt(a, c))
<1>1. Follows(a, b)
  BY DEF Alike, Follows, Clock
<1> QED BY <1>1, FollowsTrans

\* The counters, the work and the algorithm are no such fields.
LEMMA Detail ==
    ASSUME NEW a \in Adapter, NEW n, NEW w
    PROVE  /\ Alike(a, [a EXCEPT !.retry = n]) /\ Alike(a, [a EXCEPT !.count = n])
           /\ Alike(a, [a EXCEPT !.work = w]) /\ Alike(a, [a EXCEPT !.work = w, !.retry = n])
           /\ Alike(a, [a EXCEPT !.retry = @ + 1]) /\ Alike(a, [a EXCEPT !.retry = @ - 1])
           /\ Alike(a, [a EXCEPT !.count = @ + 1])
           /\ Alike(a, [a EXCEPT !.alg = n]) /\ Alike(a, [a EXCEPT !.alg = n, !.retry = w])
           /\ Alike(a, [a EXCEPT !.work = w, !.retry = @ + 1])
BY DEF Adapter, Alike

\* A request whose timer is set.
LEMMA TimedRequest ==
    ASSUME NEW a \in Adapter, NEW b \in Adapter, Alike(SetTimer(a), b)
    PROVE  Attempt(a, b) /\ b.running /\ b.cur = a.cur
<1>1. SetTimer(a) \in Adapter /\ Follows(a, SetTimer(a)) /\ SetTimer(a).running
      /\ SetTimer(a).cur = a.cur
  BY TimerType, TimerFacts
<1>2. Follows(SetTimer(a), b)
  BY <1>1, AlikeFacts
<1>3. Follows(a, b)
  BY <1>1, <1>2, FollowsTrans
<1> QED BY <1>1, <1>3 DEF Alike, Attempt

\* An attempt given up.
LEMMA FailedAttempt ==
    ASSUME NEW a \in Adapter
    PROVE  Attempt(a, AuthFail(a)) /\ Attempt(a, Fail(InitParas(a)))
<1>1. Attempt(a, AuthFail(a))
  BY TimerFacts DEF Attempt, Trying
<1>2. InitParas(a) \in Adapter /\ Follows(a, InitParas(a)) /\ InitParas(a).cur = "IDLE"
  BY TimerFacts, TimerType
<1>3. /\ Follows(InitParas(a), Fail(InitParas(a)))
      /\ Fail(InitParas(a)).cur = "IDLE"
  BY <1>2, TimerFacts
<1>4. Follows(a, Fail(InitParas(a)))
  BY <1>2, <1>3, FollowsTrans
<1> QED BY <1>1, <1>3, <1>4 DEF Attempt, Trying

\* A try to authenticate sets the timer, or the attempt is given up.
LEMMA DoAuthFacts ==
    ASSUME NEW a \in Adapter PROVE Attempt(a, DoAuth(a))
<1> DEFINE turn == a.retry * 2 >= MaxAuth /\ a.alg = "open" /\ a.privacy
           b == IF turn THEN [a EXCEPT !.alg = "shared", !.retry = 0] ELSE a
           c == [SetTimer(b) EXCEPT !.work = { "AUTH2" }, !.retry = @ + 1]
<1> HIDE DEF turn
<1>1. b \in Adapter /\ Alike(a, b)
  <2>1. [a EXCEPT !.alg = "shared", !.retry = 0] \in Adapter
    BY DEF Adapter
  <2>2. Alike(a, [a EXCEPT !.alg = "shared", !.retry = 0]) /\ Alike(a, a)
    BY Detail DEF Alike
  <2> QED BY <2>1, <2>2
<1>2. DoAuth(a) = IF b.retry >= MaxAuth THEN AuthFail(b) ELSE c
  BY DEF DoAuth, turn
<1> HIDE DEF b
<1>3. SetTimer(b) \in Adapter
  BY <1>1, TimerType
<1>4. Alike(SetTimer(b), c)
  BY <1>3, Detail
<1>5. DoAuth(a) \in Adapter
  BY DoAuthType
<1>6. ASSUME ~(b.retry >= MaxAuth) PROVE Attempt(b, DoAuth(a))
  BY <1>1, <1>2, <1>4, <1>5, <1>6, TimedRequest
<1>7. Attempt(b, DoAuth(a))
  BY <1>1, <1>2, <1>6, FailedAttempt
<1> QED BY <1>1, <1>7, AlikeFacts

\* A state of the join, entered with nothing else changed.
LEMMA Entered ==
    ASSUME NEW a \in Adapter, NEW b \in Adapter, NEW s, NEW c,
           Alike([a EXCEPT !.cur = s], b)
    PROVE  Follows(a, b) /\ (Attempt(b, c) => Attempt(a, c))
<1>1. Follows(a, b)
  BY DEF Alike, Follows, Clock, Adapter
<1> QED BY <1>1, FollowsTrans

\* The first try, and the first with a shared key.
LEMMA StartAuthFacts ==
    ASSUME NEW a \in Adapter
    PROVE  Attempt(a, StartAuth(a)) /\ Attempt(a, StartShared(a))
<1>1. ASSUME NEW b \in Adapter PROVE Attempt(b, StartAuth(b))
  <2> DEFINE c == [b EXCEPT !.cur = "JOINOK", !.retry = 0]
  <2>1. c \in Adapter
    BY <1>1 DEF Adapter, Trying
  <2>2. Alike([b EXCEPT !.cur = "JOINOK"], c)
    BY <1>1 DEF Adapter, Alike
  <2>3. Attempt(c, DoAuth(c))
    BY <2>1, DoAuthFacts
  <2> QED BY <1>1, <2>1, <2>2, <2>3, Entered DEF StartAuth
<1>2. [a EXCEPT !.alg = "shared"] \in Adapter /\ Alike(a, [a EXCEPT !.alg = "shared"])
  BY Detail DEF Adapter
<1>3. Attempt(a, StartShared(a))
  BY <1>1, <1>2, AlikeFacts DEF StartShared
<1> QED BY <1>1, <1>3

\* A try to associate.
LEMMA DoAssocFacts ==
    ASSUME NEW a \in Adapter
    PROVE  Attempt(a, DoAssoc(a)) /\ Attempt(a, StartAssoc(a))
<1>1. ASSUME NEW b \in Adapter PROVE Attempt(b, DoAssoc(b))
  <2>1. SetTimer(b) \in Adapter /\ DoAssoc(b) \in Adapter
    BY <1>1, TimerType, DoAssocType
  <2>2. Alike(SetTimer(b), [SetTimer(b) EXCEPT !.retry = @ + 1])
    BY <2>1, Detail
  <2>3. ~(b.retry >= MaxAssoc) => Attempt(b, DoAssoc(b))
    BY <1>1, <2>1, <2>2, TimedRequest DEF DoAssoc
  <2> QED BY <1>1, <2>3, FailedAttempt DEF DoAssoc
<1>2. Attempt(a, StartAssoc(a))
  <2> DEFINE c == [a EXCEPT !.cur = "AUTHOK", !.retry = 0]
  <2>1. c \in Adapter
    BY DEF Adapter, Trying
  <2>2. Alike([a EXCEPT !.cur = "AUTHOK"], c)
    BY DEF Adapter, Alike
  <2> QED BY <1>1, <2>1, <2>2, Entered DEF StartAssoc
<1> QED BY <1>1, <1>2

\* A join begun or gone on with sets the timer.
LEMMA DoJoinFacts ==
    MngAssumption =>
    /\ \A a \in Adapter : \A b \in DoJoin(a) : Attempt(a, b)
    /\ \A a \in Adapter : \A b \in StartJoin(a) : Attempt(a, b)
<1> SUFFICES ASSUME MngAssumption
             PROVE  /\ \A a \in Adapter : \A b \in DoJoin(a) : Attempt(a, b)
                    /\ \A a \in Adapter : \A b \in StartJoin(a) : Attempt(a, b)
  OBVIOUS
<1>1. ASSUME NEW a \in Adapter PROVE \A b \in DoJoin(a) : Attempt(a, b)
  <2>1. ASSUME NEW c \in Adapter, NEW b \in ChecksIdle(c) PROVE Attempt(c, b)
    <3>1. SetTimer(c) \in Adapter
      BY <2>1, TimerType
    <3>2. PICK w \in { "HWIDLE", "WAIT" } : b = [SetTimer(c) EXCEPT !.work = { w }]
      BY <2>1 DEF ChecksIdle
    <3>3. b \in Adapter /\ Alike(SetTimer(c), b)
      BY <3>1, <3>2, RetryType, Detail
    <3> QED BY <2>1, <3>3, TimedRequest
  <2>2. Attempt(a, SetTimer(a))
    <3>1. SetTimer(a) \in Adapter /\ Alike(SetTimer(a), SetTimer(a))
      BY <1>1, TimerType DEF Alike
    <3> QED BY <1>1, <3>1, TimedRequest
  <2>3. ASSUME NEW b \in ChecksIdle([a EXCEPT !.retry = JoinRetry]) PROVE Attempt(a, b)
    <3> DEFINE c == [a EXCEPT !.retry = JoinRetry]
    <3>1. c \in Adapter /\ Alike(a, c)
      BY <1>1, RetryType, Detail DEF MngAssumption
    <3>2. Attempt(c, b)
      BY <2>1, <2>3, <3>1
    <3> HIDE DEF c
    <3> QED BY <1>1, <3>1, <3>2, AlikeFacts
  <2> QED BY <1>1, <2>1, <2>2, <2>3 DEF DoJoin
<1>2. ASSUME NEW a \in Adapter, NEW b \in StartJoin(a) PROVE Attempt(a, b)
  <2> DEFINE keys == a.used.ap \in Private
             c == [a EXCEPT !.cur = "JOINNING", !.work = { "CHAN" }, !.privacy = keys,
                            !.count = JoinRetry, !.retry = JoinRetry]
  <2>1. keys \in BOOLEAN /\ b \in DoJoin(c)
    BY <1>2 DEF StartJoin
  <2> HIDE DEF keys
  <2>2. c \in Adapter
    BY <1>2, <2>1 DEF Adapter, Trying, MngAssumption
  <2>3. Alike([a EXCEPT !.cur = "JOINNING"], c)
    BY <1>2 DEF Adapter, Alike
  <2> HIDE DEF c
  <2>4. Attempt(c, b)
    BY <1>1, <2>1, <2>2
  <2> QED BY <1>2, <2>2, <2>3, <2>4, Entered
<1> QED BY <1>1, <1>2

\* Its timeout sets the timer again, or the join is given up.
LEMMA JoinTimeoutFacts ==
    MngAssumption => \A a \in Adapter : \A b \in JoinTimeout(a) : Attempt(a, b)
<1> SUFFICES ASSUME MngAssumption, NEW a \in Adapter, NEW b \in JoinTimeout(a)
             PROVE  Attempt(a, b)
  OBVIOUS
<1>1. SetTimer(a) \in Adapter /\ b \in Adapter
  BY TimerType, TimeoutType
<1>2. Alike(SetTimer(a), SetTimer(a))
  BY DEF Alike
<1>3. Alike(SetTimer(a), [SetTimer(a) EXCEPT !.retry = @ - 1])
  BY <1>1, Detail
<1>4. a.retry > 0 => [a EXCEPT !.retry = @ - 1] \in Adapter
  BY RetryType
<1>5. Alike(a, [a EXCEPT !.retry = @ - 1])
  BY Detail
<1>6. ASSUME a.retry > 0, b \in DoJoin([a EXCEPT !.retry = @ - 1]) PROVE Attempt(a, b)
  <2> DEFINE c == [a EXCEPT !.retry = @ - 1]
  <2>1. c \in Adapter /\ Alike(a, c)
    BY <1>4, <1>5, <1>6
  <2>2. Attempt(c, b)
    BY <1>6, <2>1, DoJoinFacts
  <2> HIDE DEF c
  <2> QED BY <2>1, <2>2, AlikeFacts
<1>7. b \in DoJoin(a) => Attempt(a, b)
  BY DoJoinFacts
<1>8. b = SetTimer(a) \/ b = [SetTimer(a) EXCEPT !.retry = @ - 1] => Attempt(a, b)
  BY <1>1, <1>2, <1>3, TimedRequest
<1>9. b = Fail(InitParas(a)) => Attempt(a, b)
  BY FailedAttempt
<1>10. a.retry = 0 \/ a.retry > 0
  BY DEF Adapter
<1> QED BY <1>6, <1>7, <1>8, <1>9, <1>10 DEF JoinTimeout

\* What the end of a scan may create.
Asked(a, b) ==
    \/ b.high = a.high
    \/ \E t \in Tasks : t.event \in { "SET_SSID", "RECOVER" } /\ b.high = Append(a.high, t)

\* b comes of a, with the timer left, started or stopped as a whole.
Comes(a, b) == b \in Adapter /\ Clock(a, b) /\ b.normal = a.normal

\* Neither an attempt nor a scan.
Resting(a) == a.cur \notin Trying /\ ~a.oid /\ ~a.scanning

\* One function after another, where a scan may begin or a task be created.
LEMMA ComesTrans ==
    ASSUME NEW a, NEW b, NEW c, Comes(a, b), Comes(b, c)
    PROVE  Comes(a, c)
BY DEF Comes, Clock

\* The connection and its access point are the same.
Bond(a, b) == b.link = a.link /\ b.joined = a.joined /\ b.used = a.used /\ b.attr = a.attr

\* A task created leaves the flags alone.
LEMMA CreateFacts ==
    ASSUME NEW a \in Adapter, NEW t \in Tasks
    PROVE  /\ Alike([a EXCEPT !.high = Append(a.high, t)], Create(a, t))
           /\ Create(a, t).high = Append(a.high, t)
           /\ Create(a, t).cur = a.cur /\ Create(a, t).oid = a.oid
           /\ Create(a, t).scanning = a.scanning /\ Create(a, t).begin = a.begin
           /\ Create(a, t).reconnect = a.reconnect /\ Create(a, t).normal = a.normal
           /\ Create(a, t).running = a.running /\ Create(a, t).ticking = a.ticking
           /\ Bond(a, Create(a, t))
BY DEF Create, Adapter, Alike, Bond

\* ... and those that end it or an attempt.
LEMMA EndFields ==
    ASSUME NEW a \in Adapter
    PROVE  /\ InitParas(a).cur = "IDLE" /\ InitParas(a).link = a.link
           /\ InitParas(a).joined = a.joined /\ InitParas(a).reconnect = a.reconnect
           /\ InitParas(a).used = a.used /\ InitParas(a).attr = a.attr
           /\ InitParas(a).high = a.high
           /\ MediaDown(a).cur = "IDLE" /\ MediaDown(a).link = a.link
           /\ ~MediaDown(a).joined /\ MediaDown(a).reconnect = "NO"
           /\ MediaDown(a).used = a.used /\ MediaDown(a).attr = a.attr
           /\ MediaDown(a).high = a.high
           /\ AuthFail(a).cur = "IDLE" /\ ~AuthFail(a).link /\ ~AuthFail(a).joined
           /\ AuthFail(a).reconnect \in { a.reconnect, "NO" }
           /\ AuthFail(a).used = a.used /\ AuthFail(a).attr = a.attr
           /\ AuthFail(a).high = a.high
<1>1. /\ InitParas(a).cur = "IDLE" /\ InitParas(a).link = a.link
      /\ InitParas(a).joined = a.joined /\ InitParas(a).reconnect = a.reconnect
      /\ InitParas(a).used = a.used /\ InitParas(a).attr = a.attr
      /\ InitParas(a).high = a.high /\ InitParas(a) \in Adapter
  <2>1. InitParas(a) \in Adapter
    BY TimerType
  <2> QED BY <2>1 DEF InitParas, Adapter
<1> DEFINE i == InitParas(a)
           f == Fail(i)
<1> HIDE DEF i
<1>2. /\ MediaDown(a).cur = i.cur /\ MediaDown(a).link = i.link
      /\ ~MediaDown(a).joined /\ MediaDown(a).reconnect = "NO"
      /\ MediaDown(a).used = i.used /\ MediaDown(a).attr = i.attr
      /\ MediaDown(a).high = i.high
  BY <1>1 DEF MediaDown, Adapter, i
<1>3. /\ f \in Adapter /\ f.cur = i.cur /\ f.reconnect = i.reconnect
      /\ f.used = i.used /\ f.attr = i.attr /\ f.high = i.high
  <2>1. i \in Adapter /\ f \in Adapter
    BY <1>1, TimerType DEF i
  <2> QED BY <2>1 DEF Fail, Adapter
<1> HIDE DEF f
<1>4. /\ AuthFail(a).cur = f.cur /\ ~AuthFail(a).link /\ ~AuthFail(a).joined
      /\ AuthFail(a).reconnect = (IF f.reconnect = "DOING" THEN "NO" ELSE f.reconnect)
      /\ AuthFail(a).used = f.used /\ AuthFail(a).attr = f.attr
      /\ AuthFail(a).high = f.high
  <2>1. AuthFail(a) = [f EXCEPT !.joined = FALSE, !.link = FALSE,
                                !.reconnect = IF @ = "DOING" THEN "NO" ELSE @]
    BY DEF AuthFail, f, i
  <2> QED BY <1>3, <2>1 DEF Adapter
<1> QED BY <1>1, <1>2, <1>3, <1>4 DEF i

\* A connection that is ended.
LEMMA DisConnectFacts ==
    ASSUME NEW a \in Adapter
    PROVE  /\ DisConnect(a) \in Adapter
           /\ DisConnect(a).cur = "IDLE" /\ ~DisConnect(a).scanning
           /\ ~DisConnect(a).link /\ ~DisConnect(a).joined
           /\ DisConnect(a).used = a.used /\ DisConnect(a).attr = a.attr
           /\ DisConnect(a).oid = a.oid /\ DisConnect(a).begin = a.begin
           /\ DisConnect(a).reconnect = a.reconnect /\ DisConnect(a).normal = a.normal
           /\ DisConnect(a).running = a.running /\ DisConnect(a).ticking = a.ticking
           /\ DisConnect(a).high = Append(a.high, Event("DISCONNECTED"))
<1> DEFINE i == InitParas(a)
           c == Fail(i)
           d == [c EXCEPT !.joined = FALSE, !.link = FALSE]
           t == Event("DISCONNECTED")
<1>1. t \in Tasks
  BY TaskFacts
<1>2. DisConnect(a) = Create(d, t)
  BY DEF DisConnect
<1>3. /\ i \in Adapter /\ i.cur = "IDLE" /\ i.used = a.used /\ i.attr = a.attr
      /\ i.oid = a.oid /\ i.begin = a.begin /\ i.reconnect = a.reconnect
      /\ i.normal = a.normal /\ i.running = a.running /\ i.ticking = a.ticking /\ i.high = a.high
  <2>1. i \in Adapter
    BY TimerType
  <2> QED BY <2>1 DEF InitParas, Adapter
<1> HIDE DEF i, t
<1>4. /\ c \in Adapter /\ ~c.scanning /\ c.cur = i.cur /\ c.used = i.used /\ c.attr = i.attr
      /\ c.oid = i.oid /\ c.begin = i.begin /\ c.reconnect = i.reconnect
      /\ c.normal = i.normal /\ c.running = i.running /\ c.ticking = i.ticking /\ c.high = i.high
  <2>1. c \in Adapter
    BY <1>3, TimerType
  <2> QED BY <1>3, <2>1 DEF Fail, Adapter
<1> HIDE DEF c
<1>5. /\ d \in Adapter /\ ~d.scanning /\ ~d.link /\ ~d.joined
      /\ d.cur = c.cur /\ d.used = c.used /\ d.attr = c.attr
      /\ d.oid = c.oid /\ d.begin = c.begin /\ d.reconnect = c.reconnect
      /\ d.normal = c.normal /\ d.running = c.running /\ d.ticking = c.ticking /\ d.high = c.high
  <2>1. d \in Adapter
    BY <1>4 DEF Adapter
  <2> QED BY <1>4, <2>1 DEF Adapter
<1> HIDE DEF d
<1>6. Create(d, t) \in Adapter
  BY <1>1, <1>5, CreateType
<1>7. Create(d, t).high = Append(d.high, t) /\ Create(d, t).link = d.link
      /\ Create(d, t).joined = d.joined /\ Create(d, t).used = d.used /\ Create(d, t).attr = d.attr
  BY <1>1, <1>5, CreateFacts DEF Bond
<1>8. /\ Create(d, t).cur = d.cur /\ Create(d, t).oid = d.oid
      /\ Create(d, t).scanning = d.scanning /\ Create(d, t).begin = d.begin
      /\ Create(d, t).reconnect = d.reconnect /\ Create(d, t).normal = d.normal
      /\ Create(d, t).running = d.running /\ Create(d, t).ticking = d.ticking
  BY <1>1, <1>5, CreateFacts
<1> QED BY <1>2, <1>3, <1>4, <1>5, <1>6, <1>7, <1>8 DEF t

\* A beacon noted changes nothing of the connection but its name.
LEMMA RenewFacts ==
    ASSUME NEW a \in Adapter, NEW p \in Ap
    PROVE  /\ RenewBssList(a, p) \in Adapter /\ Alike(a, RenewBssList(a, p))
           /\ RenewBssList(a, p).link = a.link /\ RenewBssList(a, p).joined = a.joined
           /\ RenewBssList(a, p).used.ap = a.used.ap /\ RenewBssList(a, p).attr = a.attr
<1> DEFINE k == a.known \cup {p}
           s == SsidOf[p]
           u == [a.used EXCEPT !.ssid = s]
           b == [a EXCEPT !.known = k]
           c == [a EXCEPT !.used = u]
<1>1. RenewBssList(a, p) \in { a, b, c }
  BY DEF RenewBssList, Adapter
<1>2. k \in SUBSET Ap /\ s \in Ssid
  BY MngAssumption DEF Adapter, MngAssumption
<1>3. u \in [ap : Ap \cup {None}, ssid : Ssid \cup {None}] /\ u.ap = a.used.ap
  <2> HIDE DEF s
  <2> QED BY <1>2 DEF Adapter
<1> HIDE DEF k, u
<1>4. /\ b \in Adapter /\ Alike(a, b) /\ b.link = a.link /\ b.joined = a.joined
      /\ b.used = a.used /\ b.attr = a.attr
  <2>1. b \in Adapter
    BY <1>2 DEF Adapter
  <2> QED BY <2>1 DEF Adapter, Alike
<1>5. /\ c \in Adapter /\ Alike(a, c) /\ c.link = a.link /\ c.joined = a.joined
      /\ c.used = u /\ c.attr = a.attr
  <2>1. c \in Adapter
    BY <1>3 DEF Adapter
  <2> QED BY <2>1 DEF Adapter, Alike
<1>6. Alike(a, a)
  BY DEF Alike
<1> HIDE DEF b, c
<1> QED BY <1>1, <1>3, <1>4, <1>5, <1>6

\* What becomes of a connection: it is ended, or goes on with its lists renewed.
LEMMA AssocOkFacts ==
    ASSUME NEW a \in Adapter, NEW f \in Tasks \cup Frames
    PROVE  LET b == RxWhenAssocOk(a, f)
           IN  \/ b = a
               \/ f.event = "DEAUTH" /\ b = DisConnect(a)
               \/ /\ f.event = "BEACON"
                  /\ \E c \in Adapter :
                       /\ Alike(a, c) /\ c.link = a.link /\ c.joined = a.joined
                       /\ c.used.ap = a.used.ap /\ c.attr = a.attr
                       /\ b = c \/ b = DisConnect(c)
<1>1. CASE f.event = "DEAUTH"
  BY <1>1 DEF RxWhenAssocOk
<1>2. CASE f.event = "BEACON"
  <2> DEFINE r == RenewBssList(a, f.ap)
             e == [r EXCEPT !.work = {}]
  <2>1. RxWhenAssocOk(a, f) \in { r, e, DisConnect(r) }
    BY <1>2 DEF RxWhenAssocOk
  <2>2. /\ r \in Adapter /\ Alike(a, r) /\ r.link = a.link /\ r.joined = a.joined
        /\ r.used.ap = a.used.ap /\ r.attr = a.attr
    BY <1>2, ItemFacts, RenewFacts
  <2> HIDE DEF r
  <2>3. /\ e \in Adapter /\ Alike(r, e) /\ e.link = r.link /\ e.joined = r.joined
        /\ e.used = r.used /\ e.attr = r.attr
    <3>1. e \in Adapter
      BY <2>2 DEF Adapter
    <3> QED BY <2>2, <3>1 DEF Adapter, Alike
  <2>4. Alike(a, e)
    BY <2>2, <2>3 DEF Alike
  <2> HIDE DEF e
  <2> QED BY <1>2, <2>1, <2>2, <2>3, <2>4
<1>3. CASE f.event \notin { "DEAUTH", "BEACON" }
  BY <1>3 DEF RxWhenAssocOk
<1> QED BY <1>1, <1>2, <1>3

\* The end of a scan for another access point creates one task at most.
LEMMA ReconnectFacts ==
    MngAssumption =>
      \A a \in Adapter : \A c \in Reconnect(a) :
        Comes(a, c) /\ Asked(a, c) /\ (Resting(a) => Resting(c))
<1> SUFFICES ASSUME MngAssumption, NEW a \in Adapter, NEW c \in Reconnect(a)
             PROVE  Comes(a, c) /\ Asked(a, c) /\ (Resting(a) => Resting(c))
  OBVIOUS
<1> DEFINE b == [a EXCEPT !.reconnect = "DOING"]
           out == Candidates(a)
           moved(p) ==
             IF Waits(b, "SET_SSID") THEN b
             ELSE [Create(b, SetSsidTask("roam", FALSE)) EXCEPT
                     !.used = [ap |-> p, ssid |-> SsidOf[p]]]
<1>1. c \in Adapter
  BY ReconnectType
<1>2. /\ b \in Adapter /\ b.cur = a.cur /\ b.oid = a.oid /\ b.scanning = a.scanning
      /\ b.high = a.high /\ b.normal = a.normal /\ b.running = a.running /\ b.ticking = a.ticking
  BY DEF Adapter
<1>3. \/ c = [a EXCEPT !.reconnect = "NO"]
      \/ c = MediaDown([b EXCEPT !.link = FALSE])
      \/ \E p \in out : c = moved(p)
      \/ c = CreateOnce(b, Event("RECOVER"))
  BY DEF Reconnect
<1> HIDE DEF b
<1>4. CASE c = [a EXCEPT !.reconnect = "NO"]
  BY <1>1, <1>4 DEF Adapter, Comes, Clock, Asked, Resting
<1>5. CASE c = MediaDown([b EXCEPT !.link = FALSE])
  <2> DEFINE d == [b EXCEPT !.link = FALSE]
  <2>1. d \in Adapter
    BY <1>2 DEF Adapter
  <2>2. /\ d.cur = b.cur /\ d.oid = b.oid /\ d.scanning = b.scanning
        /\ d.high = b.high /\ d.normal = b.normal /\ d.running = b.running /\ d.ticking = b.ticking
    BY <1>2 DEF Adapter
  <2> HIDE DEF d
  <2>3. Follows(d, c) /\ c.cur = "IDLE"
    BY <1>5, <2>1, TimerFacts DEF d
  <2> QED BY <1>1, <1>2, <2>2, <2>3 DEF Comes, Clock, Asked, Resting, Follows, Trying
<1>6. ASSUME NEW t \in Tasks, t.event \in { "SET_SSID", "RECOVER" },
             c.high = Append(b.high, t), c.cur = b.cur, c.oid = b.oid, c.scanning = b.scanning,
             c.normal = b.normal, c.running = b.running, c.ticking = b.ticking
      PROVE  Comes(a, c) /\ Asked(a, c) /\ (Resting(a) => Resting(c))
  BY <1>1, <1>2, <1>6 DEF Comes, Clock, Asked, Resting
<1>7. c = b => Comes(a, c) /\ Asked(a, c) /\ (Resting(a) => Resting(c))
  BY <1>1, <1>2 DEF Comes, Clock, Asked, Resting
<1>8. CASE c = CreateOnce(b, Event("RECOVER"))
  <2>1. Event("RECOVER") \in Tasks /\ Event("RECOVER").event = "RECOVER"
    BY TaskFacts
  <2>2. CASE c = Create(b, Event("RECOVER"))
    BY <1>2, <1>6, <2>1, <2>2, CreateFacts
  <2> QED BY <1>7, <1>8, <2>2 DEF CreateOnce
<1>9. ASSUME NEW p \in out, c = moved(p)
      PROVE  Comes(a, c) /\ Asked(a, c) /\ (Resting(a) => Resting(c))
  <2> DEFINE t == SetSsidTask("roam", FALSE)
             u == [ap |-> p, ssid |-> SsidOf[p]]
             d == Create(b, t)
  <2>1. t \in Tasks /\ t.event = "SET_SSID"
    BY TaskFacts
  <2>2. c = b \/ c = [d EXCEPT !.used = u]
    BY <1>9
  <2> HIDE DEF t, u
  <2>3. /\ d \in Adapter /\ d.high = Append(b.high, t) /\ d.cur = b.cur /\ d.oid = b.oid
        /\ d.scanning = b.scanning /\ d.normal = b.normal
        /\ d.running = b.running /\ d.ticking = b.ticking
    BY <1>2, <2>1, CreateFacts, CreateType
  <2> HIDE DEF d
  <2>4. CASE c = [d EXCEPT !.used = u]
    <3>1. /\ c.high = d.high /\ c.cur = d.cur /\ c.oid = d.oid
          /\ c.scanning = d.scanning /\ c.normal = d.normal
          /\ c.running = d.running /\ c.ticking = d.ticking
      BY <2>3, <2>4 DEF Adapter
    <3> QED BY <1>6, <2>1, <2>3, <3>1
  <2> QED BY <1>7, <2>2, <2>4
<1> QED BY <1>3, <1>4, <1>5, <1>8, <1>9

\* Where a scan may be going on: that of a user, in no attempt, or that of an attempt.
Scans(a) ==
    /\ a.oid => a.cur \notin Trying
    /\ ~a.oid => a.cur = "SCANNING"
    /\ a.scanning => a.oid \/ a.begin

\* The lists of networks are not among the fields the theorems are about.
LEMMA MergedFacts ==
    ASSUME NEW a \in Adapter, NEW b \in Merged(a) PROVE Alike(a, b)
<1>1. PICK k \in { {}, a.known } :
          b = [a EXCEPT !.known = a.heard \cup k, !.heard = a.heard \cup k]
  BY DEF Merged
<1> DEFINE h == a.heard \cup k
<1> HIDE DEF h
<1>2. b = [a EXCEPT !.known = h, !.heard = h]
  BY <1>1 DEF h
<1> QED BY <1>2 DEF Alike, Adapter

\* The end of a scan for a network that was not found.
LEMMA ScanFailFacts ==
    MngAssumption =>
      \A a \in Adapter : \A b \in ScanFail(a) :
        Comes(a, b) /\ Asked(a, b) /\ (~a.oid => Resting(b))
<1> SUFFICES ASSUME MngAssumption, NEW a \in Adapter, NEW b \in ScanFail(a)
             PROVE  Comes(a, b) /\ Asked(a, b) /\ (~a.oid => Resting(b))
  OBVIOUS
<1> DEFINE i == InitParas(a)
           c == Fail(i)
           d == [c EXCEPT !.oid = FALSE, !.reconnect = "CAN"]
<1>1. i \in Adapter /\ Follows(a, i) /\ i.cur = "IDLE"
  BY TimerFacts, TimerType
<1>2. c \in Adapter /\ Follows(i, c) /\ c.cur = i.cur /\ ~c.scanning
  BY <1>1, TimerFacts, TimerType
<1> HIDE DEF i
<1>3. Follows(a, c)
  BY <1>1, <1>2, FollowsTrans
<1>4. b \in Adapter
  BY EndScanType
<1>5. b \in Merged(c) \/ b \in Reconnect(d)
  BY DEF ScanFail, i
<1> HIDE DEF c
<1>6. CASE b \in Merged(c)
  <2>1. Alike(c, b)
    BY <1>2, <1>6, MergedFacts
  <2> QED BY <1>1, <1>2, <1>3, <1>4, <2>1 DEF Alike, Follows, Clock, Comes, Asked, Resting, Trying
<1>7. CASE b \in Reconnect(d)
  <2>1. /\ d \in Adapter /\ d.cur = c.cur /\ ~d.oid /\ d.scanning = c.scanning
        /\ d.high = c.high /\ d.normal = c.normal /\ d.running = c.running /\ d.ticking = c.ticking
    BY <1>2 DEF Adapter
  <2> HIDE DEF d
  <2>2. Comes(d, b) /\ Asked(d, b) /\ (Resting(d) => Resting(b))
    BY <1>7, <2>1, ReconnectFacts
  <2>3. Resting(d)
    BY <1>1, <1>2, <2>1 DEF Resting, Trying
  <2>4. Comes(a, d) /\ d.high = a.high
    BY <1>3, <2>1 DEF Follows, Comes, Clock
  <2> QED BY <2>2, <2>3, <2>4, ComesTrans DEF Asked
<1> QED BY <1>5, <1>6, <1>7

\* The end of a scan leaves neither an attempt nor a scan.
LEMMA EndScanFacts ==
    MngAssumption =>
      \A a \in Adapter : \A b \in EndScan(a) :
        /\ Comes(a, b)
        /\ Scans(a) => Asked(a, b) /\ Resting(b)
<1> SUFFICES ASSUME MngAssumption, NEW a \in Adapter, NEW b \in EndScan(a)
             PROVE  Comes(a, b) /\ (Scans(a) => Asked(a, b) /\ Resting(b))
  OBVIOUS
<1> DEFINE s == ClearTimer(a)
           ended == { ScanFlagsCleared([c EXCEPT !.oid = FALSE]) : c \in Merged(s) }
           e == ScanFlagsCleared([s EXCEPT !.retry = 0])
<1>1. /\ s \in Adapter /\ Follows(a, s) /\ s.cur = a.cur /\ s.oid = a.oid
      /\ s.running = FALSE /\ s.ticking = FALSE
  <2>1. s.oid = a.oid
    BY DEF ClearTimer, Adapter
  <2> QED BY <2>1, TimerFacts, TimerType
<1>2. EndScan(a) =
        IF s.oid
        THEN IF a.reconnect = "NEED"
             THEN UNION { Reconnect([c EXCEPT !.reconnect = "CAN"]) : c \in ended }
             ELSE { Fail(c) : c \in ended }
        ELSE IF s.cur = "SCANNING" THEN ScanFail(e) ELSE {s}
  BY DEF EndScan
<1>3. b \in Adapter
  BY EndScanType
<1> HIDE DEF s
<1>4. Comes(a, s) /\ s.high = a.high
  BY <1>1 DEF Follows, Comes
<1>5. ASSUME NEW c \in ended
      PROVE  /\ c \in Adapter /\ Comes(a, c) /\ c.high = a.high /\ c.cur = a.cur
             /\ ~c.oid /\ ~c.scanning
  <2>1. PICK m \in Merged(s) : c = ScanFlagsCleared([m EXCEPT !.oid = FALSE])
    BY <1>5
  <2>2. m \in Adapter /\ Alike(s, m)
    <3>1. m \in Adapter
      BY <1>1, MergedType
    <3> QED BY <1>1, <3>1, MergedFacts
  <2> DEFINE n == [m EXCEPT !.oid = FALSE]
  <2>3. /\ n \in Adapter /\ n.cur = m.cur /\ ~n.oid /\ n.high = m.high /\ n.normal = m.normal
        /\ n.running = m.running /\ n.ticking = m.ticking
    <3>1. n \in Adapter
      BY <2>2 DEF Adapter
    <3> QED BY <2>2, <3>1 DEF Adapter
  <2> HIDE DEF n
  <2>4. c = ScanFlagsCleared(n)
    BY <2>1 DEF n
  <2>5. c \in Adapter
    BY <2>3, <2>4, TimerType
  <2>6. /\ c.cur = n.cur /\ ~c.oid /\ ~c.scanning /\ c.high = n.high /\ c.normal = n.normal
        /\ c.running = n.running /\ c.ticking = n.ticking
    BY <2>3, <2>4 DEF ScanFlagsCleared, Adapter
  <2> QED BY <1>1, <1>4, <2>2, <2>3, <2>5, <2>6 DEF Alike, Comes, Clock
<1> HIDE DEF ended
<1>6. CASE s.oid
  <2>1. ASSUME NEW c \in ended, b = Fail(c) PROVE Comes(a, b) /\ (Scans(a) => Asked(a, b) /\ Resting(b))
    <3>1. /\ c \in Adapter /\ Comes(a, c) /\ c.high = a.high /\ c.cur = a.cur
          /\ ~c.oid /\ ~c.scanning
      BY <1>5, <2>1
    <3>2. Follows(c, b) /\ b.cur = c.cur
      BY <2>1, <3>1, TimerFacts
    <3>3. Comes(c, b)
      BY <3>2 DEF Follows, Comes
    <3>4. Comes(a, b)
      BY <3>1, <3>3, ComesTrans
    <3> QED BY <1>1, <1>6, <3>1, <3>2, <3>4 DEF Follows, Asked, Resting, Scans
  <2>2. ASSUME NEW c \in ended, b \in Reconnect([c EXCEPT !.reconnect = "CAN"])
        PROVE  Comes(a, b) /\ (Scans(a) => Asked(a, b) /\ Resting(b))
    <3> DEFINE d == [c EXCEPT !.reconnect = "CAN"]
    <3>1. /\ c \in Adapter /\ Comes(a, c) /\ c.high = a.high /\ c.cur = a.cur
          /\ ~c.oid /\ ~c.scanning
      BY <1>5, <2>2
    <3>2. /\ d \in Adapter /\ d.cur = c.cur /\ ~d.oid /\ ~d.scanning
          /\ d.high = c.high /\ d.normal = c.normal /\ d.running = c.running /\ d.ticking = c.ticking
      BY <3>1 DEF Adapter
    <3> HIDE DEF d
    <3>3. Comes(d, b) /\ Asked(d, b) /\ (Resting(d) => Resting(b))
      BY <2>2, <3>2, ReconnectFacts DEF d
    <3>4. Comes(c, d)
      BY <3>2 DEF Comes, Clock
    <3>5. Comes(a, b)
      BY <3>1, <3>3, <3>4, ComesTrans
    <3>6. Scans(a) => Resting(d)
      BY <1>1, <1>6, <3>1, <3>2 DEF Scans, Resting
    <3> QED BY <3>1, <3>2, <3>3, <3>5, <3>6 DEF Asked
  <2>3. CASE a.reconnect = "NEED"
    <3>1. b \in UNION { Reconnect([c EXCEPT !.reconnect = "CAN"]) : c \in ended }
      BY <1>2, <1>6, <2>3
    <3>2. PICK c \in ended : b \in Reconnect([c EXCEPT !.reconnect = "CAN"])
      BY <3>1
    <3> QED BY <2>2, <3>2
  <2>4. CASE a.reconnect # "NEED"
    <3>1. b \in { Fail(c) : c \in ended }
      BY <1>2, <1>6, <2>4
    <3> QED BY <2>1, <3>1
  <2> QED BY <2>3, <2>4
<1>7. CASE ~s.oid /\ s.cur = "SCANNING"
  <2> DEFINE r == [s EXCEPT !.retry = 0]
  <2>1. r \in Adapter /\ Alike(s, r) /\ r.oid = s.oid
    <3>1. r \in Adapter
      BY <1>1 DEF Adapter
    <3>2. Alike(s, r)
      BY <1>1, Detail
    <3> QED BY <3>1, <3>2 DEF Alike
  <2> HIDE DEF r
  <2>2. e = ScanFlagsCleared(r)
    BY DEF r
  <2>3. e \in Adapter
    BY <2>1, <2>2, TimerType
  <2>4. /\ e.oid = r.oid /\ e.high = r.high /\ e.normal = r.normal
        /\ e.running = r.running /\ e.ticking = r.ticking
    BY <2>1, <2>2 DEF ScanFlagsCleared, Adapter
  <2>5. b \in ScanFail(e)
    BY <1>2, <1>7
  <2> HIDE DEF e
  <2>6. Comes(e, b) /\ Asked(e, b) /\ (~e.oid => Resting(b))
    BY <2>3, <2>5, ScanFailFacts
  <2>7. Comes(a, e) /\ e.high = a.high
    BY <1>1, <1>4, <2>1, <2>3, <2>4 DEF Alike, Comes, Clock
  <2>8. Comes(a, b)
    BY <2>6, <2>7, ComesTrans
  <2> QED BY <1>7, <2>1, <2>4, <2>6, <2>7, <2>8 DEF Asked
<1>8. CASE ~s.oid /\ s.cur # "SCANNING"
  <2>1. b = s
    BY <1>2, <1>8
  <2> QED BY <1>1, <1>4, <1>8, <2>1 DEF Scans
<1> QED BY <1>6, <1>7, <1>8

\* A scan of the user excludes an attempt, and the flag of a scan has its cause.
Quiet(a) ==
    /\ a.cur \in Trying => ~a.oid
    /\ a.scanning => a.oid \/ (a.cur = "SCANNING" /\ a.begin)

\* Neither an attempt nor a scan goes on with the timer off.
Watched(a) == a.cur \in Trying \/ a.scanning => a.running

\* An attempt leaves its timer set and begins no scan.
LEMMA AttemptComes ==
    ASSUME NEW a, NEW b, Attempt(a, b)
    PROVE  /\ Comes(a, b) /\ b.high = a.high
           /\ ~a.oid /\ ~a.scanning => Quiet(b) /\ Watched(b)
BY DEF Attempt, Follows, Comes, Quiet, Watched

\* Where nothing goes on nothing has to be timed.
LEMMA RestingFacts ==
    ASSUME NEW a, Resting(a) PROVE Quiet(a) /\ Watched(a)
BY DEF Resting, Quiet, Watched

\* A scan goes on with its timer set, or ends, or was broken off.
LEMMA DoScanFacts ==
    MngAssumption =>
      \A a \in Adapter : \A b \in DoScan(a) :
        /\ Comes(a, b)
        /\ Scans(a) => /\ Quiet(b) /\ Watched(b) /\ Asked(a, b)
                       /\ b.high = a.high \/ Resting(b)
        /\ a.count < Channels => b.high = a.high
        /\ ~a.begin /\ a.reconnect # "NEED" => ~b.oid /\ ~b.scanning
<1> SUFFICES ASSUME MngAssumption, NEW a \in Adapter, NEW b \in DoScan(a)
             PROVE  /\ Comes(a, b)
                    /\ Scans(a) => /\ Quiet(b) /\ Watched(b) /\ Asked(a, b)
                                   /\ b.high = a.high \/ Resting(b)
                    /\ a.count < Channels => b.high = a.high
                    /\ ~a.begin /\ a.reconnect # "NEED" => ~b.oid /\ ~b.scanning
  OBVIOUS
<1> DEFINE e == [a EXCEPT !.oid = FALSE, !.scanning = FALSE,
                          !.cur = IF @ = "SCANNING" THEN "IDLE" ELSE @]
           s == SetTimer(a)
           n == [s EXCEPT !.count = @ + 1]
           w == [s EXCEPT !.work = @ \cup { "WAIT" }, !.retry = @ + 1]
<1>1. b \in Adapter
  BY DoScanType
<1>2. CASE ~a.begin /\ a.reconnect # "NEED"
  <2>1. b = e
    BY <1>2 DEF DoScan
  <2>2. /\ ~b.oid /\ ~b.scanning /\ b.high = a.high /\ b.normal = a.normal
        /\ b.running = a.running /\ b.ticking = a.ticking
        /\ b.cur = (IF a.cur = "SCANNING" THEN "IDLE" ELSE a.cur)
    BY <2>1 DEF Adapter
  <2> HIDE DEF e
  <2>3. Scans(a) => Resting(b)
    BY <2>2 DEF Scans, Resting, Trying
  <2> QED BY <1>1, <2>2, <2>3, RestingFacts DEF Comes, Clock, Asked
<1>3. CASE ~(~a.begin /\ a.reconnect # "NEED") /\ a.count >= Channels
  <2>1. b \in EndScan(a)
    BY <1>3 DEF DoScan
  <2>2. a.count \in Nat /\ Channels \in Nat
    BY DEF Adapter, MngAssumption
  <2> QED BY <1>3, <2>1, <2>2, EndScanFacts, RestingFacts
<1>4. CASE ~(~a.begin /\ a.reconnect # "NEED") /\ ~(a.count >= Channels)
  <2>1. b = n \/ b = w
    BY <1>4 DEF DoScan
  <2>2. s \in Adapter
    BY TimerType
  <2> HIDE DEF s
  <2>3. Alike(s, n)
    BY <2>2, Detail
  <2> HIDE DEF n
  <2>4. Alike(s, w)
    <3> DEFINE v == s.work \cup { "WAIT" }
    <3> HIDE DEF v
    <3>1. Alike(s, [s EXCEPT !.work = v, !.retry = @ + 1])
      BY <2>2, Detail
    <3> QED BY <3>1 DEF v
  <2> HIDE DEF w
  <2>5. Alike(s, b)
    BY <2>1, <2>3, <2>4
  <2>6. Attempt(a, b) /\ b.running /\ b.cur = a.cur
    BY <1>1, <2>5, TimedRequest DEF s
  <2>7. b.oid = a.oid /\ b.begin = a.begin /\ b.scanning = a.scanning
    <3>1. s.oid = a.oid /\ s.begin = a.begin /\ s.scanning = a.scanning
      BY DEF s, SetTimer, Adapter
    <3> QED BY <2>5, <3>1 DEF Alike
  <2>8. Scans(a) => Quiet(b) /\ Watched(b)
    BY <2>6, <2>7 DEF Scans, Quiet, Watched
  <2> QED BY <1>4, <2>6, <2>8, AttemptComes DEF Asked
<1> QED BY <1>2, <1>3, <1>4

\* The scan of a user begins in no attempt, and creates no task.
LEMMA OidScanFacts ==
    MngAssumption =>
      \A a \in Adapter : \A b \in OidScan(a) :
        /\ Comes(a, b) /\ b.high = a.high
        /\ a.cur = "IDLE" => Quiet(b) /\ Watched(b)
        /\ ~a.begin /\ a.reconnect # "NEED" => ~b.oid /\ ~b.scanning
<1> SUFFICES ASSUME MngAssumption, NEW a \in Adapter, NEW b \in OidScan(a)
             PROVE  /\ Comes(a, b) /\ b.high = a.high
                    /\ a.cur = "IDLE" => Quiet(b) /\ Watched(b)
                    /\ ~a.begin /\ a.reconnect # "NEED" => ~b.oid /\ ~b.scanning
  OBVIOUS
<1> DEFINE c == ClearTimer(a)
           d == [c EXCEPT !.retry = 0, !.heard = {}, !.scanning = TRUE,
                          !.count = 0, !.oid = TRUE, !.work = {}]
<1>1. /\ c \in Adapter /\ c.cur = a.cur /\ c.begin = a.begin /\ c.reconnect = a.reconnect
      /\ c.high = a.high /\ c.normal = a.normal /\ c.running = FALSE /\ c.ticking = FALSE
  <2>1. c \in Adapter
    BY TimerType
  <2> QED BY <2>1 DEF ClearTimer, Adapter
<1>2. b \in DoScan(d)
  BY DEF OidScan
<1> HIDE DEF c
<1>3. /\ d \in Adapter /\ d.cur = c.cur /\ d.begin = c.begin /\ d.reconnect = c.reconnect
      /\ d.high = c.high /\ d.normal = c.normal /\ d.running = c.running /\ d.ticking = c.ticking
      /\ d.count = 0 /\ d.oid
  <2>1. d \in Adapter
    BY <1>1 DEF Adapter
  <2> QED BY SMTT(60), <1>1, <2>1 DEF Adapter
<1> HIDE DEF d
<1>4. d.count < Channels
  BY <1>3 DEF MngAssumption
<1>5. /\ Comes(d, b) /\ b.high = d.high
      /\ Scans(d) => Quiet(b) /\ Watched(b)
      /\ ~d.begin /\ d.reconnect # "NEED" => ~b.oid /\ ~b.scanning
  BY <1>2, <1>3, <1>4, DoScanFacts
<1>6. a.cur = "IDLE" => Scans(d)
  BY <1>1, <1>3 DEF Scans, Trying
<1>7. Comes(a, d)
  BY <1>1, <1>3 DEF Comes, Clock
<1>8. Comes(a, b)
  BY <1>5, <1>7, ComesTrans
<1> QED BY <1>1, <1>3, <1>5, <1>6, <1>8

\* The scan for a network begins, unless the scan of a user goes on.
LEMMA OidScanWithSsidFacts ==
    MngAssumption =>
      \A a \in Adapter : \A b \in OidScanWithSsid(a) :
        Comes(a, b) /\ b.high = a.high /\ (~a.oid => Quiet(b) /\ Watched(b))
<1> SUFFICES ASSUME MngAssumption, NEW a \in Adapter, NEW b \in OidScanWithSsid(a)
             PROVE  Comes(a, b) /\ b.high = a.high /\ (~a.oid => Quiet(b) /\ Watched(b))
  OBVIOUS
<1> DEFINE c == ClearTimer(a)
           s == a.used.ssid
           d == [c EXCEPT !.begin = TRUE, !.attr.ssid = s, !.scanning = TRUE,
                          !.count = 0, !.cur = "SCANNING", !.work = { "MID_STOP" }]
           attr == [c.attr EXCEPT !.ssid = s]
           x == [c EXCEPT !.begin = TRUE, !.attr = attr, !.scanning = TRUE,
                          !.count = 0, !.cur = "SCANNING", !.work = { "MID_STOP" }]
<1>1. /\ c \in Adapter /\ c.oid = a.oid
      /\ c.high = a.high /\ c.normal = a.normal /\ c.running = FALSE /\ c.ticking = FALSE
  <2>1. c \in Adapter
    BY TimerType
  <2> QED BY <2>1 DEF ClearTimer, Adapter
<1>2. b \in DoScan(d)
  BY DEF OidScanWithSsid
<1> HIDE DEF c
<1>3. attr \in [ap : Ap \cup {None}, ssid : Ssid \cup {None}]
  BY <1>1 DEF Adapter
<1>9. d = x
  BY <1>1 DEF Adapter
<1> HIDE DEF attr, d
<1>4. x \in Adapter
  BY ZenonT(60), <1>1, <1>3 DEF Adapter, Trying
<1>5. /\ x.oid = c.oid /\ x.begin /\ x.cur = "SCANNING" /\ x.count = 0
      /\ x.high = c.high /\ x.normal = c.normal /\ x.running = c.running /\ x.ticking = c.ticking
  BY <1>1 DEF Adapter
<1> HIDE DEF x
<1>6. x.count < Channels
  BY <1>5 DEF MngAssumption
<1>7. Comes(x, b) /\ b.high = x.high /\ (Scans(x) => Quiet(b) /\ Watched(b))
  BY <1>2, <1>4, <1>6, <1>9, DoScanFacts
<1>8. ~a.oid => Scans(x)
  BY <1>1, <1>5 DEF Scans
<1>10. Comes(a, x)
  BY <1>1, <1>4, <1>5 DEF Comes, Clock
<1>11. Comes(a, b)
  BY <1>7, <1>10, ComesTrans
<1> QED BY <1>1, <1>5, <1>7, <1>8, <1>11

\* The timeout of a scan.
LEMMA ScanTimeoutFacts ==
    MngAssumption =>
      \A a \in Adapter : \A b \in ScanTimeout(a) :
        /\ Comes(a, b)
        /\ Scans(a) => /\ Quiet(b) /\ Watched(b) /\ Asked(a, b)
                       /\ b.high = a.high \/ Resting(b)
<1> SUFFICES ASSUME MngAssumption, NEW a \in Adapter, NEW b \in ScanTimeout(a)
             PROVE  /\ Comes(a, b)
                    /\ Scans(a) => /\ Quiet(b) /\ Watched(b) /\ Asked(a, b)
                                   /\ b.high = a.high \/ Resting(b)
  OBVIOUS
<1> DEFINE w == a.work \ { "WAIT" }
           c == [a EXCEPT !.work = w]
<1>1. b \in EndScan(c) \/ b \in DoScan(c)
  BY DEF ScanTimeout
<1>2. c \in Adapter
  <2>1. w \in SUBSET { "MID_STOP", "CHAN", "HWIDLE", "WAIT", "AUTH2", "AUTH4" }
    BY DEF Adapter
  <2> HIDE DEF w
  <2> QED BY <2>1, RetryType
<1>3. Alike(a, c)
  <2> HIDE DEF w
  <2> QED BY Detail
<1> HIDE DEF c
<1>4. /\ Comes(c, b)
      /\ Scans(c) => /\ Quiet(b) /\ Watched(b) /\ Asked(c, b)
                     /\ b.high = c.high \/ Resting(b)
  BY <1>1, <1>2, EndScanFacts, DoScanFacts, RestingFacts
<1>5. Comes(a, c) /\ c.high = a.high /\ (Scans(a) => Scans(c))
  BY <1>2, <1>3 DEF Alike, Comes, Clock, Scans
<1>6. Comes(a, b)
  BY <1>4, <1>5, ComesTrans
<1> QED BY <1>4, <1>5, <1>6 DEF Asked

\* Whatever the timeout was for: what goes on is timed again.
LEMMA TimeoutFacts ==
    MngAssumption =>
      \A a \in Adapter : \A b \in Timeout(a) :
        /\ Comes(a, b)
        /\ Quiet(a) => /\ Quiet(b) /\ Watched(b) /\ Asked(a, b)
                       /\ b.high = a.high \/ Resting(b)
<1> SUFFICES ASSUME MngAssumption, NEW a \in Adapter, NEW b \in Timeout(a)
             PROVE  /\ Comes(a, b)
                    /\ Quiet(a) => /\ Quiet(b) /\ Watched(b) /\ Asked(a, b)
                                   /\ b.high = a.high \/ Resting(b)
  OBVIOUS
<1>1. CASE b \in ScanTimeout(a) /\ (a.oid \/ a.cur = "SCANNING")
  <2>1. Quiet(a) => Scans(a)
    BY <1>1 DEF Quiet, Scans, Trying
  <2> QED BY <1>1, <2>1, ScanTimeoutFacts
<1>2. CASE Attempt(a, b) /\ a.cur \in Trying \ { "SCANNING" }
  <2>1. Quiet(a) => ~a.oid /\ ~a.scanning
    BY <1>2 DEF Quiet
  <2> QED BY <1>2, <2>1, AttemptComes DEF Asked
<1>3. CASE b = a /\ ~a.oid /\ a.cur \notin Trying
  <2>1. Quiet(a) => Resting(a)
    BY <1>3 DEF Quiet, Resting, Trying
  <2> QED BY <1>3, <2>1, RestingFacts DEF Comes, Clock, Asked
<1>4. \/ b \in ScanTimeout(a) /\ (a.oid \/ a.cur = "SCANNING")
      \/ b \in JoinTimeout(a) /\ a.cur = "JOINNING"
      \/ b = DoAuth(a) /\ a.cur = "JOINOK"
      \/ b = DoAssoc(a) /\ a.cur = "AUTHOK"
      \/ b = a /\ ~a.oid /\ a.cur \notin Trying
  BY DEF Timeout, Trying
<1>5. b \in JoinTimeout(a) => Attempt(a, b)
  BY JoinTimeoutFacts
<1>6. (b = DoAuth(a) => Attempt(a, b)) /\ (b = DoAssoc(a) => Attempt(a, b))
  BY DoAuthFacts, DoAssocFacts
<1> QED BY <1>1, <1>2, <1>3, <1>4, <1>5, <1>6 DEF Trying

\* If an attempt or a scan goes on then with its timer set, or as it was.
Heeded(a, b) ==
    b.cur \in Trying \/ b.scanning =>
      b.running \/ ((a.cur \in Trying \/ a.scanning) /\ b.ticking = a.ticking)

Short(f) == f.event = "ASSOC" /\ f.status = "short"

\* What a frame f may make of a.
Heard(a, f, b) ==
    /\ Comes(a, b)
    /\ Quiet(a) => Quiet(b)
    /\ Quiet(a) /\ ~Short(f) => Heeded(a, b)
    /\ \/ b.high = a.high
       \/ /\ f.event \in { "DEAUTH", "BEACON" } /\ ~b.scanning
          /\ b.high = Append(a.high, Event("DISCONNECTED"))
    /\ f.event # "BEACON" => /\ b.oid => a.oid
                             /\ b.scanning => a.scanning
                             /\ b.begin => a.begin
                             /\ b.reconnect = "NEED" => a.reconnect = "NEED"

\* A frame that is answered to.
LEMMA AttemptHeard ==
    ASSUME NEW a, NEW b, NEW f, Attempt(a, b), Quiet(a) => ~a.oid /\ ~a.scanning
    PROVE  Heard(a, f, b)
BY DEF Attempt, Follows, Comes, Quiet, Heard, Heeded

\* A frame that is not taken.
LEMMA SameHeard ==
    ASSUME NEW a \in Adapter, NEW f PROVE Heard(a, f, a)
BY DEF Comes, Clock, Heard, Heeded

\* A beacon of the network that is looked for.
LEMMA RxWhenScanHeard ==
    MngAssumption =>
      \A a \in Adapter, f \in Tasks \cup Frames :
        a.cur = "SCANNING" => Heard(a, f, RxWhenScan(a, f))
<1> SUFFICES ASSUME MngAssumption, NEW a \in Adapter, NEW f \in Tasks \cup Frames,
                    a.cur = "SCANNING"
             PROVE  Heard(a, f, RxWhenScan(a, f))
  OBVIOUS
<1>1. CASE f.event # "BEACON"
  BY <1>1, SameHeard DEF RxWhenScan
<1>2. CASE f.event = "BEACON"
  <2> DEFINE k == a.known \cup {f.ap}
             b == [a EXCEPT !.known = k]
             c == ClearTimer(b)
             u == [ap |-> f.ap, ssid |-> SsidOf[f.ap]]
             keys == f.ap \in Private
             d == [c EXCEPT !.used = u, !.begin = FALSE, !.privacy = keys, !.oid = TRUE,
                            !.cur = "IDLE", !.work = {}, !.scanning = FALSE]
  <2>1. RxWhenScan(a, f) = IF SsidOf[f.ap] # a.used.ssid THEN b ELSE d
    BY <1>2 DEF RxWhenScan
  <2>2. k \in SUBSET Ap
    BY <1>2, ItemFacts DEF Adapter
  <2> HIDE DEF k, u, keys
  <2>3. b \in Adapter /\ Alike(a, b)
    <3>1. b \in Adapter
      BY <2>2 DEF Adapter
    <3> QED BY <3>1 DEF Adapter, Alike
  <2>4. CASE RxWhenScan(a, f) = b
    <3> HIDE DEF b
    <3> QED BY <1>2, <2>3, <2>4 DEF Alike, Heard, Heeded, Comes, Clock, Quiet
  <2>5. CASE RxWhenScan(a, f) = d
    <3>1. RxWhenScan(a, f) \in Adapter
      BY RxWhenScanType
    <3> HIDE DEF b
    <3>2. /\ c \in Adapter /\ c.high = b.high /\ c.normal = b.normal
          /\ c.running = FALSE /\ c.ticking = FALSE
      <4>1. c \in Adapter
        BY <2>3, TimerType
      <4> QED BY <2>3, <4>1 DEF ClearTimer, Adapter
    <3> HIDE DEF c
    <3>3. /\ d.high = c.high /\ d.normal = c.normal /\ d.cur = "IDLE" /\ ~d.scanning
          /\ d.running = c.running /\ d.ticking = c.ticking
      BY <3>2 DEF Adapter
    <3> HIDE DEF d
    <3> QED BY <1>2, <2>3, <2>5, <3>1, <3>2, <3>3 DEF Alike, Heard, Heeded, Comes, Clock, Quiet, Trying
  <2> QED BY <2>1, <2>4, <2>5
<1> QED BY <1>1, <1>2

\* The frames of an authentication.
LEMMA RxAuthFacts ==
    ASSUME NEW a \in Adapter, NEW f PROVE Attempt(a, RxAuth(a, f))
<1>1. SetTimer(a) \in Adapter
  BY TimerType
<1>2. Attempt(a, SetTimer(a))
  <2>1. Alike(SetTimer(a), SetTimer(a))
    BY DEF Alike
  <2> QED BY <1>1, <2>1, TimedRequest
<1>3. \A w \in { "AUTH2", "AUTH4" } : Attempt(a, [SetTimer(a) EXCEPT !.work = {w}])
  <2> SUFFICES ASSUME NEW w \in { "AUTH2", "AUTH4" }
               PROVE  Attempt(a, [SetTimer(a) EXCEPT !.work = {w}])
    OBVIOUS
  <2>1. [SetTimer(a) EXCEPT !.work = {w}] \in Adapter
    BY <1>1, RetryType
  <2>2. Alike(SetTimer(a), [SetTimer(a) EXCEPT !.work = {w}])
    BY <1>1, Detail
  <2> QED BY <2>1, <2>2, TimedRequest
<1>4. Attempt(a, DoAuth([a EXCEPT !.work = { "AUTH2" }]))
  <2>1. [a EXCEPT !.work = { "AUTH2" }] \in Adapter
    BY RetryType
  <2>2. Alike(a, [a EXCEPT !.work = { "AUTH2" }])
    BY Detail
  <2> QED BY <2>1, <2>2, DoAuthFacts, AlikeFacts
<1>5. Attempt(a, DoAuth(a)) /\ Attempt(a, StartShared(a)) /\ Attempt(a, StartAssoc(a))
  BY DoAuthFacts, StartAuthFacts, DoAssocFacts
<1> QED BY <1>2, <1>3, <1>4, <1>5 DEF RxAuth

\* The response to an association: one cut short leaves the timer off.
LEMMA RxWhenAuthOkHeard ==
    ASSUME NEW a \in Adapter, NEW f, a.cur = "AUTHOK"
    PROVE  Heard(a, f, RxWhenAuthOk(a, f))
<1> DEFINE b == ClearTimer(a)
           u == a.used
           c == [b EXCEPT !.cur = "ASSOCOK", !.work = {}, !.joined = TRUE, !.link = TRUE,
                          !.reconnect = "NO", !.attr = u, !.scanning = FALSE]
<1>1. /\ b \in Adapter /\ Follows(a, b) /\ b.cur = a.cur
      /\ b.running = FALSE /\ b.ticking = FALSE
  BY TimerFacts, TimerType
<1>2. u \in [ap : Ap \cup {None}, ssid : Ssid \cup {None}]
  BY DEF Adapter
<1>3. \/ RxWhenAuthOk(a, f) = b /\ Short(f)
      \/ RxWhenAuthOk(a, f) = DoAssoc(b)
      \/ RxWhenAuthOk(a, f) = c
      \/ RxWhenAuthOk(a, f) = AuthFail(a)
      \/ RxWhenAuthOk(a, f) = a
  BY DEF RxWhenAuthOk, Short
<1>4. Quiet(a) => ~a.oid /\ ~a.scanning
  BY DEF Quiet, Trying
<1> HIDE DEF b, u
<1>5. CASE RxWhenAuthOk(a, f) = b /\ Short(f)
  BY <1>1, <1>4, <1>5 DEF Follows, Comes, Heard, Quiet
<1>6. CASE RxWhenAuthOk(a, f) = DoAssoc(b)
  <2>1. Attempt(b, DoAssoc(b))
    BY <1>1, DoAssocFacts
  <2>2. Attempt(a, DoAssoc(b))
    BY <1>1, <2>1, FollowsTrans
  <2> QED BY <1>4, <1>6, <2>2, AttemptHeard
<1>7. CASE RxWhenAuthOk(a, f) = c
  <2>1. c \in Adapter
    BY ZenonT(60), <1>1, <1>2 DEF Adapter
  <2>2. /\ c.oid = b.oid /\ ~c.scanning /\ c.begin = b.begin /\ c.reconnect = "NO"
        /\ c.high = b.high /\ c.normal = b.normal /\ c.cur = "ASSOCOK"
        /\ c.running = b.running /\ c.ticking = b.ticking
    BY <1>1 DEF Adapter
  <2> HIDE DEF c
  <2>3. Follows(b, c)
    BY <2>1, <2>2 DEF Follows, Clock
  <2>4. Attempt(a, c)
    BY <1>1, <2>2, <2>3, FollowsTrans DEF Attempt, Trying
  <2> QED BY <1>4, <1>7, <2>4, AttemptHeard
<1>8. CASE RxWhenAuthOk(a, f) = AuthFail(a)
  BY <1>4, <1>8, FailedAttempt, AttemptHeard
<1>9. CASE RxWhenAuthOk(a, f) = a
  BY <1>9, SameHeard
<1> QED BY <1>3, <1>5, <1>6, <1>7, <1>8, <1>9

\* A connection that is ended creates a task.
LEMMA RxWhenAssocOkHeard ==
    ASSUME NEW a \in Adapter, NEW f \in Tasks \cup Frames, a.cur = "ASSOCOK"
    PROVE  Heard(a, f, RxWhenAssocOk(a, f))
<1> DEFINE b == RxWhenAssocOk(a, f)
<1>1. ASSUME NEW c \in Adapter, Alike(a, c), f.event \in { "DEAUTH", "BEACON" }, b = DisConnect(c)
      PROVE  Heard(a, f, b)
  BY <1>1, DisConnectFacts DEF Alike, Comes, Clock, Heard, Heeded, Quiet, Trying
<1>2. ASSUME f.event = "BEACON", b \in Adapter, Alike(a, b) PROVE Heard(a, f, b)
  <2> HIDE DEF b
  <2> QED BY <1>2 DEF Alike, Comes, Clock, Heard, Heeded, Quiet
<1>3. Alike(a, a)
  BY DEF Alike
<1> QED BY <1>1, <1>2, <1>3, AssocOkFacts, SameHeard

\* A received frame, in whatever state.
LEMMA ReceiveFacts ==
    MngAssumption => \A a \in Adapter, f \in Tasks \cup Frames : Heard(a, f, Receive(a, f))
<1> SUFFICES ASSUME MngAssumption, NEW a \in Adapter, NEW f \in Tasks \cup Frames
             PROVE  Heard(a, f, Receive(a, f))
  OBVIOUS
<1>1. Heard(a, f, a)
  BY SameHeard
<1>2. Heard(a, f, RxWhenOidScan(a, f))
  <2> DEFINE h == a.heard \cup {f.ap}
             b == [a EXCEPT !.heard = h]
  <2> SUFFICES ASSUME f.event = "BEACON" PROVE Heard(a, f, b)
    BY <1>1 DEF RxWhenOidScan
  <2>1. h \in SUBSET Ap
    BY ItemFacts DEF Adapter
  <2> HIDE DEF h
  <2>2. b \in Adapter /\ Alike(a, b)
    <3>1. b \in Adapter
      BY <2>1 DEF Adapter
    <3> QED BY <3>1 DEF Adapter, Alike
  <2> HIDE DEF b
  <2> QED BY <2>2 DEF Alike, Heard, Heeded, Comes, Clock, Quiet
<1>3. ASSUME a.cur = "JOINNING" PROVE Heard(a, f, RxWhenJoin(a, f))
  <2>1. Quiet(a) => ~a.oid /\ ~a.scanning
    BY <1>3 DEF Quiet, Trying
  <2> DEFINE c == ClearTimer(a)
             d == [c EXCEPT !.attr = a.used]
  <2>2. Attempt(a, StartAuth(d))
    <3>1. c \in Adapter /\ Follows(a, c)
      BY TimerFacts, TimerType
    <3>2. d \in Adapter /\ Follows(c, d)
      <4> HIDE DEF c
      <4>1. d \in Adapter
        BY <3>1 DEF Adapter
      <4> QED BY <3>1, <4>1 DEF Adapter, Follows, Clock
    <3> HIDE DEF c, d
    <3>3. Follows(a, d)
      BY <3>1, <3>2, FollowsTrans
    <3> QED BY <3>2, <3>3, StartAuthFacts, FollowsTrans
  <2>3. RxWhenJoin(a, f) \in { a, StartAuth(d) }
    BY DEF RxWhenJoin
  <2> HIDE DEF d
  <2> QED BY <1>1, <2>1, <2>2, <2>3, AttemptHeard
<1>4. ASSUME a.cur = "JOINOK" PROVE Heard(a, f, RxWhenJoinOk(a, f))
  <2>1. Quiet(a) => ~a.oid /\ ~a.scanning
    BY <1>4 DEF Quiet, Trying
  <2>2. Attempt(a, RxAuth(ClearTimer(a), f))
    <3>1. ClearTimer(a) \in Adapter /\ Follows(a, ClearTimer(a))
      BY TimerFacts, TimerType
    <3> QED BY <3>1, RxAuthFacts, FollowsTrans
  <2>3. Attempt(a, StartShared(a)) /\ Attempt(a, AuthFail(a))
    BY StartAuthFacts, FailedAttempt
  <2>4. \/ RxWhenJoinOk(a, f) \in { RxAuth(ClearTimer(a), f), StartShared(a), AuthFail(a) }
        \/ RxWhenJoinOk(a, f) = a
    BY DEF RxWhenJoinOk
  <2> QED BY <1>1, <2>1, <2>2, <2>3, <2>4, AttemptHeard
<1>5. ASSUME a.cur = "ASSOCOK" PROVE Heard(a, f, RxWhenAssocOk(a, f))
  BY <1>5, RxWhenAssocOkHeard
<1> QED BY <1>1, <1>2, <1>3, <1>4, <1>5, RxWhenScanHeard, RxWhenAuthOkHeard DEF Receive

\* A scan broken off.
LEMMA BreakFacts ==
    ASSUME NEW a \in Adapter
    PROVE  /\ BreakIfScanning(a) \in Adapter /\ Follows(a, BreakIfScanning(a))
           /\ ~BreakIfScanning(a).oid /\ ~BreakIfScanning(a).begin
           /\ BreakIfScanning(a).cur \in { a.cur, "IDLE" }
           /\ Quiet(a) => ~BreakIfScanning(a).scanning
           /\ BreakIfScanning(a).reconnect = a.reconnect /\ Bond(a, BreakIfScanning(a))
           /\ BreakIfScanning(a).cur = a.cur \/ a.cur = "SCANNING"
<1> DEFINE b == BreakIfScanning(a)
           c == ClearTimer(a)
           d == [c EXCEPT !.begin = FALSE, !.oid = FALSE, !.scanning = FALSE,
                          !.cur = IF @ = "SCANNING" THEN "IDLE" ELSE @]
<1>1. b \in Adapter
  BY TimerType
<1>2. /\ c \in Adapter /\ Follows(a, c) /\ c.cur = a.cur
      /\ c.running = FALSE /\ c.ticking = FALSE /\ c.reconnect = a.reconnect /\ Bond(a, c)
  <2>1. c.reconnect = a.reconnect /\ Bond(a, c)
    BY DEF ClearTimer, Adapter, Bond
  <2> QED BY <2>1, TimerFacts, TimerType
<1>3. b = IF a.cur = "SCANNING" \/ a.oid \/ a.begin THEN d ELSE a
  BY DEF BreakIfScanning
<1> HIDE DEF b, c
<1>4. CASE b = d
  <2>1. /\ ~d.oid /\ ~d.begin /\ ~d.scanning /\ d.high = c.high /\ d.normal = c.normal
        /\ d.running = c.running /\ d.ticking = c.ticking /\ d.reconnect = c.reconnect
        /\ d.cur = (IF c.cur = "SCANNING" THEN "IDLE" ELSE c.cur) /\ Bond(c, d)
    BY <1>2 DEF Adapter, Bond
  <2> HIDE DEF d
  <2> QED BY <1>1, <1>2, <1>4, <2>1 DEF Follows, Clock, Bond, b
<1>5. CASE b = a /\ ~(a.cur = "SCANNING" \/ a.oid \/ a.begin)
  <2>1. Follows(a, a)
    BY TimerFacts
  <2>2. /\ b \in Adapter /\ Follows(a, b) /\ ~b.oid /\ ~b.begin /\ b.cur = a.cur
        /\ b.reconnect = a.reconnect /\ (Quiet(a) => ~b.scanning) /\ Bond(a, b)
    BY <1>1, <1>5, <2>1 DEF Quiet, Bond
  <2> QED BY <2>2 DEF b
<1> QED BY <1>3, <1>4, <1>5

\* The reset of the state machine: to a join, to a scan, or to rest.
LEMMA InternalResetFacts ==
    MngAssumption =>
      \A a \in Adapter : \A type, diff : \A b \in InternalReset(a, type, diff) :
        /\ Comes(a, b) /\ b.high = a.high
        /\ ~a.oid /\ ~a.scanning => Quiet(b) /\ Watched(b)
        /\ type \notin { "join", "roam", "scan" } => Follows(a, b) /\ b.cur = "IDLE"
<1> SUFFICES ASSUME MngAssumption, NEW a \in Adapter, NEW type, NEW diff,
                    NEW b \in InternalReset(a, type, diff)
             PROVE  /\ Comes(a, b) /\ b.high = a.high
                    /\ ~a.oid /\ ~a.scanning => Quiet(b) /\ Watched(b)
                    /\ type \notin { "join", "roam", "scan" } => Follows(a, b) /\ b.cur = "IDLE"
  OBVIOUS
<1> DEFINE i == InitParas(a)
           d == [i EXCEPT !.joined = FALSE, !.link = FALSE]
           c == IF diff THEN MediaDown(d) ELSE d
<1>1. i \in Adapter /\ Follows(a, i) /\ i.cur = "IDLE"
  BY TimerFacts, TimerType
<1>2. b \in CASE type \in { "join", "roam" } -> StartJoin(c)
              [] type = "scan" -> OidScanWithSsid(c)
              [] OTHER -> {c}
  BY DEF InternalReset
<1> HIDE DEF i
<1>3. d \in Adapter /\ Alike(i, d)
  <2>1. d \in Adapter
    BY <1>1 DEF Adapter
  <2> QED BY <1>1, <2>1 DEF Adapter, Alike
<1>4. Follows(a, d) /\ d.cur = "IDLE"
  <2>1. Follows(i, d)
    BY <1>1, <1>3, AlikeFacts
  <2>2. Follows(a, d)
    BY <1>1, <1>3, <2>1, FollowsTrans
  <2> QED BY <1>1, <1>3, <2>2 DEF Alike
<1> HIDE DEF d
<1>5. c \in Adapter /\ Follows(a, c) /\ c.cur = "IDLE"
  <2>1. MediaDown(d) \in Adapter /\ Follows(d, MediaDown(d)) /\ MediaDown(d).cur = "IDLE"
    BY <1>3, TimerFacts, TimerType
  <2>2. Follows(a, MediaDown(d))
    BY <1>3, <1>4, <2>1, FollowsTrans
  <2> QED BY <1>3, <1>4, <2>1, <2>2
<1> HIDE DEF c
<1>6. CASE type \in { "join", "roam" }
  <2>1. Attempt(c, b)
    BY <1>2, <1>5, <1>6, DoJoinFacts
  <2>2. Attempt(a, b)
    BY <1>5, <2>1, FollowsTrans
  <2> QED BY <1>6, <2>2, AttemptComes
<1>7. CASE type = "scan"
  <2>1. b \in OidScanWithSsid(c)
    BY <1>2, <1>7
  <2>2. Comes(c, b) /\ b.high = c.high /\ (~c.oid => Quiet(b) /\ Watched(b))
    BY <1>5, <2>1, OidScanWithSsidFacts
  <2>3. Comes(a, c) /\ c.high = a.high /\ (c.oid => a.oid)
    BY <1>5 DEF Follows, Comes
  <2>4. Comes(a, b)
    BY <2>2, <2>3, ComesTrans
  <2> QED BY <1>7, <2>2, <2>3, <2>4
<1>8. CASE type \notin { "join", "roam", "scan" }
  <2>1. b = c
    BY <1>2, <1>8
  <2> QED BY <1>5, <2>1 DEF Follows, Comes, Quiet, Watched, Trying
<1> QED BY <1>6, <1>7, <1>8

-----------------------------------------------------------------------------
(* Type correctness.                                                       *)

Ticks(a) == a.ticking => a.running

\* The head of the queue of high priority taken off.
LEMMA PoppedFacts ==
    ASSUME TypeOK, ad.high # << >>
    PROVE  /\ Popped \in Adapter /\ Popped.high = Tail(ad.high) /\ Popped.normal = ad.normal
           /\ Popped.cur = ad.cur /\ Popped.oid = ad.oid /\ Popped.begin = ad.begin
           /\ Popped.scanning = ad.scanning /\ Popped.reconnect = ad.reconnect
           /\ Popped.running = ad.running /\ Popped.ticking = ad.ticking
           /\ Popped.used = ad.used /\ Popped.link = ad.link /\ Bond(ad, Popped)
           /\ Head(ad.high) \in Tasks
<1>1. ad \in Adapter /\ ad.high \in Seq(Tasks)
  BY DEF TypeOK, Adapter
<1>2. Tail(ad.high) \in Seq(Tasks) /\ Head(ad.high) \in Tasks
  BY <1>1
<1> DEFINE r == Tail(ad.high)
<1> HIDE DEF r
<1>3. Popped = [ad EXCEPT !.high = r]
  BY DEF Popped, r
<1>4. Popped \in Adapter
  BY <1>1, <1>2, <1>3 DEF Adapter, r
<1>5. /\ Popped.high = r /\ Popped.normal = ad.normal
      /\ Popped.cur = ad.cur /\ Popped.oid = ad.oid /\ Popped.begin = ad.begin
      /\ Popped.scanning = ad.scanning /\ Popped.reconnect = ad.reconnect
      /\ Popped.running = ad.running /\ Popped.ticking = ad.ticking
      /\ Popped.used = ad.used /\ Popped.link = ad.link /\ Bond(ad, Popped)
  BY <1>1, <1>3 DEF Adapter, Bond
<1> QED BY <1>2, <1>4, <1>5 DEF r

\* The head of the normal queue taken off.
LEMMA PoppedNormalFacts ==
    ASSUME TypeOK, ad.normal # << >>
    PROVE  /\ PoppedNormal \in Adapter
           /\ PoppedNormal.normal = Tail(ad.normal) /\ PoppedNormal.high = ad.high
           /\ PoppedNormal.cur = ad.cur /\ PoppedNormal.oid = ad.oid
           /\ PoppedNormal.begin = ad.begin
           /\ PoppedNormal.scanning = ad.scanning /\ PoppedNormal.reconnect = ad.reconnect
           /\ PoppedNormal.running = ad.running /\ PoppedNormal.ticking = ad.ticking
           /\ PoppedNormal.used = ad.used /\ PoppedNormal.link = ad.link
           /\ Bond(ad, PoppedNormal)
           /\ Head(ad.normal) \in Tasks \cup Frames
<1>1. ad \in Adapter /\ ad.normal \in Seq(Tasks \cup Frames)
  BY DEF TypeOK, Adapter
<1>2. Tail(ad.normal) \in Seq(Tasks \cup Frames) /\ Head(ad.normal) \in Tasks \cup Frames
  BY <1>1
<1> DEFINE r == Tail(ad.normal)
<1> HIDE DEF r
<1>3. PoppedNormal = [ad EXCEPT !.normal = r]
  BY DEF PoppedNormal, r
<1>4. PoppedNormal \in Adapter
  BY <1>1, <1>2, <1>3 DEF Adapter, r
<1>5. /\ PoppedNormal.normal = r /\ PoppedNormal.high = ad.high
      /\ PoppedNormal.cur = ad.cur /\ PoppedNormal.oid = ad.oid
      /\ PoppedNormal.begin = ad.begin
      /\ PoppedNormal.scanning = ad.scanning /\ PoppedNormal.reconnect = ad.reconnect
      /\ PoppedNormal.running = ad.running /\ PoppedNormal.ticking = ad.ticking
      /\ PoppedNormal.used = ad.used /\ PoppedNormal.link = ad.link
      /\ Bond(ad, PoppedNormal)
  BY <1>1, <1>3 DEF Adapter, Bond
<1> QED BY <1>2, <1>4, <1>5 DEF r

\* What BeginScan leaves of a when the card does not become idle.
Stuck(a) ==
    IF Waits(a, "REQJOIN") \/ Waits(a, "RESET") THEN {a}
    ELSE { Create([a EXCEPT !.normal = q], Event("REQJOIN")) : q \in Dropped(a.normal, FrameEvents) }

\* It is an adapter with the same flags.
LEMMA StuckCard ==
    ASSUME TypeOK, NEW a, a = [ad EXCEPT !.reconnect = "NO"], NEW b, b \in Stuck(a)
    PROVE  /\ b \in Adapter /\ b.cur = ad.cur /\ b.oid = ad.oid /\ b.begin = ad.begin
           /\ b.scanning = ad.scanning /\ b.running = ad.running /\ b.ticking = ad.ticking
           /\ b.reconnect = "NO" /\ Bond(ad, b)
           /\ b.high = ad.high \/ b.high = Append(ad.high, Event("REQJOIN"))
           /\ b.normal = ad.normal \/ b.normal \in Dropped(ad.normal, FrameEvents)
<1>1. ad \in Adapter
  BY DEF TypeOK
<1>2. /\ a \in Adapter /\ a.cur = ad.cur /\ a.oid = ad.oid /\ a.begin = ad.begin
      /\ a.scanning = ad.scanning /\ a.running = ad.running /\ a.ticking = ad.ticking
      /\ a.reconnect = "NO" /\ a.high = ad.high /\ a.normal = ad.normal /\ Bond(ad, a)
  BY <1>1 DEF Adapter, Bond
<1>3. CASE b = a
  BY <1>2, <1>3
<1>4. ASSUME NEW q \in Dropped(a.normal, FrameEvents),
             b = Create([a EXCEPT !.normal = q], Event("REQJOIN"))
      PROVE  /\ b \in Adapter /\ b.cur = ad.cur /\ b.oid = ad.oid /\ b.begin = ad.begin
             /\ b.scanning = ad.scanning /\ b.running = ad.running /\ b.ticking = ad.ticking
             /\ b.reconnect = "NO" /\ Bond(ad, b)
             /\ b.high = Append(ad.high, Event("REQJOIN"))
             /\ b.normal \in Dropped(ad.normal, FrameEvents)
  <2> DEFINE c == [a EXCEPT !.normal = q]
             t == Event("REQJOIN")
  <2>1. a.normal \in Seq(Tasks \cup Frames)
    BY <1>2 DEF Adapter
  <2>2. q \in Seq(Tasks \cup Frames)
    BY <1>4, <2>1, QueueDropped
  <2>3. c \in Adapter
    BY ZenonT(30), <1>2, <2>2 DEF Adapter
  <2>4. /\ c.cur = ad.cur /\ c.oid = ad.oid /\ c.begin = ad.begin
        /\ c.scanning = ad.scanning /\ c.running = ad.running /\ c.ticking = ad.ticking
        /\ c.reconnect = "NO" /\ c.high = ad.high /\ c.normal = q /\ Bond(ad, c)
    BY <1>2 DEF Adapter, Bond
  <2>5. t \in Tasks
    BY TaskFacts
  <2> HIDE DEF c, t
  <2>6. b = Create(c, t)
    BY <1>4 DEF c, t
  <2>7. Create(c, t) \in Adapter
    BY <2>3, <2>5, CreateType
  <2>8. /\ Create(c, t).high = Append(c.high, t) /\ Create(c, t).normal = c.normal
        /\ Create(c, t).cur = c.cur /\ Create(c, t).oid = c.oid
        /\ Create(c, t).scanning = c.scanning /\ Create(c, t).begin = c.begin
        /\ Create(c, t).reconnect = c.reconnect
        /\ Create(c, t).running = c.running /\ Create(c, t).ticking = c.ticking
        /\ Bond(c, Create(c, t))
    BY <2>3, <2>5, CreateFacts
  <2> QED BY <1>2, <1>4, <2>4, <2>6, <2>7, <2>8 DEF t, Bond
<1>5. b = a \/ \E q \in Dropped(a.normal, FrameEvents) :
                 b = Create([a EXCEPT !.normal = q], Event("REQJOIN"))
  BY DEF Stuck
<1> QED BY <1>3, <1>4, <1>5

\* A scan that had begun ends with its flag.
LEMMA BrokenOff ==
    ASSUME NEW a \in Adapter, a.oid \/ a.begin PROVE ~BreakIfScanning(a).scanning
<1> DEFINE c == ClearTimer(a)
<1>1. c \in Adapter
  BY TimerType
<1>2. BreakIfScanning(a) = [c EXCEPT !.begin = FALSE, !.oid = FALSE, !.scanning = FALSE,
                                     !.cur = IF @ = "SCANNING" THEN "IDLE" ELSE @]
  BY DEF BreakIfScanning
<1> HIDE DEF c
<1> QED BY <1>1, <1>2 DEF Adapter

\* The request of the user for a network.
LEMMA SetSsidFacts ==
    ASSUME TypeOK, Set_SSID
    PROVE  /\ ad' \in Adapter /\ Clock(ad, ad') /\ ad'.normal = ad.normal
           /\ ad'.cur = "IDLE" /\ ~ad'.oid /\ ~ad'.begin /\ ad'.reconnect = "NO"
           /\ Quiet(ad) => ~ad'.scanning
           /\ ad'.link = ad.link /\ ad'.joined = ad.joined /\ ad'.attr = ad.attr
           /\ Has(ad'.high, "SET_SSID")
           /\ \E q \in Dropped(ad.high, { "SCAN" }) :
                \/ ad'.high = q
                \/ \E t \in Tasks : t.event = "SET_SSID" /\ ~Has(q, "SET_SSID")
                                    /\ ad'.high = Append(q, t)
<1> DEFINE s == user.ssid
           a == InitParas(ad)
           diff == ad.attr.ssid \notin { s, None } /\ ad.link
           task(type) == SetSsidTask(type, diff /\ type # "none")
           noted(p) == [a EXCEPT !.used = [ap |-> p, ssid |-> s],
                                 !.disassoc = FALSE, !.reconnect = "NO"]
           asked(p, type) == { CreateOnce([BreakIfScanning(noted(p)) EXCEPT !.high = q], task(type)) :
                                 q \in Dropped(BreakIfScanning(noted(p)).high, { "SCAN" }) }
<1>1. /\ ad \in Adapter /\ user \in [pc : { "idle", "ssid", "scan" }, ssid : Ssid \cup {None}]
      /\ s \in Ssid \cup {None}
  BY DEF TypeOK
<1>2. /\ a \in Adapter /\ Follows(ad, a) /\ a.cur = "IDLE"
  BY <1>1, TimerFacts, TimerType
<1>3. \E p \in Ap \cup {None}, type \in { "join", "scan", "none" } : ad' \in asked(p, type)
  <2>1. \/ ad' \in asked(a.used.ap, "scan")
        \/ \E p \in Chosen(a, s), type \in { "join", "none" } : ad' \in asked(p, type)
    BY DEF Set_SSID
  <2>2. a.used.ap \in Ap \cup {None}
    BY <1>2 DEF Adapter
  <2>3. \A p \in Chosen(a, s) : p \in Ap
    BY <1>2 DEF Chosen, Adapter
  <2> QED BY ZenonT(30), <2>1, <2>2, <2>3
<1>4. PICK p \in Ap \cup {None}, type \in { "join", "scan", "none" } : ad' \in asked(p, type)
  BY <1>3
<1> DEFINE n == noted(p)
           b == BreakIfScanning(n)
           t == task(type)
<1>5. t \in Tasks /\ t.event = "SET_SSID"
  <2>1. (diff /\ type # "none") \in BOOLEAN
    OBVIOUS
  <2> HIDE DEF diff
  <2> QED BY <2>1, TaskFacts
<1>6. PICK q \in Dropped(b.high, { "SCAN" }) : ad' = CreateOnce([b EXCEPT !.high = q], t)
  BY <1>4
<1>19. a.link = ad.link /\ a.joined = ad.joined /\ a.attr = ad.attr
  BY <1>1 DEF InitParas, Adapter
<1> HIDE DEF t, a
<1>7. /\ n \in Adapter /\ n.cur = a.cur /\ n.oid = a.oid /\ n.begin = a.begin
      /\ n.scanning = a.scanning /\ n.running = a.running /\ n.ticking = a.ticking
      /\ n.reconnect = "NO" /\ n.high = a.high /\ n.normal = a.normal
      /\ n.link = a.link /\ n.joined = a.joined /\ n.attr = a.attr
  <2> DEFINE u == [ap |-> p, ssid |-> s]
  <2>1. u \in [ap : Ap \cup {None}, ssid : Ssid \cup {None}]
    BY <1>1
  <2> HIDE DEF u
  <2>2. n = [a EXCEPT !.used = u, !.disassoc = FALSE, !.reconnect = "NO"]
    BY DEF u
  <2>3. n \in Adapter
    BY <1>2, <2>1, <2>2 DEF Adapter
  <2> QED BY <1>2, <2>2, <2>3 DEF Adapter
<1> HIDE DEF n
<1>8. /\ b \in Adapter /\ Follows(n, b) /\ ~b.oid /\ ~b.begin /\ b.cur \in { n.cur, "IDLE" }
      /\ (Quiet(n) => ~b.scanning) /\ b.reconnect = n.reconnect /\ Bond(n, b)
  BY <1>7, BreakFacts
<1> HIDE DEF b
<1>9. b.high = ad.high /\ b.normal = ad.normal /\ b.cur = "IDLE" /\ b.reconnect = "NO"
  BY <1>2, <1>7, <1>8 DEF Follows
<1>10. Clock(ad, b)
  BY <1>2, <1>7, <1>8 DEF Follows, Clock
<1>11. Quiet(ad) => ~b.scanning
  <2>1. a.oid = ad.oid /\ a.scanning = ad.scanning /\ a.begin = ad.begin
    BY <1>1 DEF a, InitParas, Adapter
  <2>2. ASSUME Quiet(ad), b.scanning PROVE FALSE
    <3>1. n.scanning
      BY <1>8, <2>2 DEF Follows
    <3>2. n.oid \/ n.begin
      BY <1>7, <2>1, <2>2, <3>1 DEF Quiet
    <3>3. b = BreakIfScanning(n)
      BY DEF b
    <3>4. ~b.scanning
      BY <1>7, <3>2, <3>3, BrokenOff
    <3> QED BY <2>2, <3>4
  <2> QED BY <2>2
<1>12. q \in Seq(Tasks)
  <2>1. b.high \in Seq(Tasks)
    BY <1>8 DEF Adapter
  <2> QED BY <2>1, QueueDropped
<1> DEFINE c == [b EXCEPT !.high = q]
<1>13. /\ c \in Adapter /\ c.cur = b.cur /\ c.oid = b.oid /\ c.begin = b.begin
       /\ c.scanning = b.scanning /\ c.running = b.running /\ c.ticking = b.ticking
       /\ c.reconnect = b.reconnect /\ c.high = q /\ c.normal = b.normal /\ Bond(b, c)
  <2>1. c \in Adapter
    BY <1>8, <1>12 DEF Adapter
  <2> QED BY <1>8, <2>1 DEF Adapter, Bond
<1>20. c.link = ad.link /\ c.joined = ad.joined /\ c.attr = ad.attr
  BY <1>7, <1>8, <1>13, <1>19 DEF Bond
<1>14. ad' = CreateOnce(c, t)
  BY <1>6
<1> HIDE DEF c
<1>15. ad' \in Adapter
  BY <1>5, <1>13, <1>14, CreateType
<1>16. Waits(c, "SET_SSID") <=> Has(q, "SET_SSID")
  BY <1>12, <1>13, WaitsHas
<1>17. CASE Waits(c, "SET_SSID")
  <2>1. ad' = c
    BY <1>5, <1>14, <1>17 DEF CreateOnce
  <2> QED BY <1>6, <1>8, <1>9, <1>10, <1>11, <1>13, <1>15, <1>16, <1>17, <1>20, <2>1 DEF Clock
<1>18. CASE ~Waits(c, "SET_SSID")
  <2>1. ad' = Create(c, t)
    BY <1>5, <1>14, <1>18 DEF CreateOnce
  <2>2. /\ ad'.high = Append(q, t) /\ ad'.normal = c.normal
        /\ ad'.cur = c.cur /\ ad'.oid = c.oid /\ ad'.scanning = c.scanning
        /\ ad'.begin = c.begin /\ ad'.reconnect = c.reconnect
        /\ ad'.running = c.running /\ ad'.ticking = c.ticking
        /\ ad'.link = c.link /\ ad'.joined = c.joined /\ ad'.attr = c.attr
    BY <1>5, <1>13, <2>1, CreateFacts DEF Bond
  <2>3. Has(ad'.high, "SET_SSID")
    BY <1>5, <1>12, <2>2, QueueAppend
  <2> QED BY <1>5, <1>6, <1>8, <1>9, <1>10, <1>11, <1>13, <1>15, <1>16, <1>18, <1>20, <2>2, <2>3
             DEF Clock
<1> QED BY <1>17, <1>18

\* No request for authentication or association makes the adapter one with a connection.
LEMMA TriesLink ==
    ASSUME NEW a \in Adapter
    PROVE  /\ SetTimer(a).link = a.link /\ ClearTimer(a).link = a.link
           /\ AuthFail(a).link => a.link
           /\ DoAuth(a).link => a.link
           /\ StartAuth(a).link => a.link
           /\ StartShared(a).link => a.link
           /\ DoAssoc(a).link => a.link
           /\ StartAssoc(a).link => a.link
<1>1. ASSUME NEW b \in Adapter
      PROVE  SetTimer(b).link = b.link /\ ClearTimer(b).link = b.link /\ ~AuthFail(b).link
  <2>1. SetTimer(b).link = b.link
    BY <1>1 DEF SetTimer, Adapter
  <2>2. ClearTimer(b).link = b.link
    BY <1>1 DEF ClearTimer, Adapter
  <2>3. InitParas(b) \in Adapter /\ Fail(InitParas(b)) \in Adapter
    BY <1>1, TimerType
  <2> DEFINE c == Fail(InitParas(b))
  <2>4. ~AuthFail(b).link
    <3> HIDE DEF c
    <3> QED BY <2>3 DEF AuthFail, Adapter, c
  <2> QED BY <2>1, <2>2, <2>4
<1>2. ASSUME NEW b \in Adapter PROVE DoAuth(b).link => b.link
  <2> DEFINE turn == b.retry * 2 >= MaxAuth /\ b.alg = "open" /\ b.privacy
             c == IF turn THEN [b EXCEPT !.alg = "shared", !.retry = 0] ELSE b
  <2>1. c \in Adapter /\ c.link = b.link
    <3>1. /\ [b EXCEPT !.alg = "shared", !.retry = 0] \in Adapter
          /\ [b EXCEPT !.alg = "shared", !.retry = 0].link = b.link
      BY <1>2 DEF Adapter
    <3> HIDE DEF turn
    <3> QED BY <1>2, <3>1
  <2>2. DoAuth(b) = IF c.retry >= MaxAuth THEN AuthFail(c)
                    ELSE [SetTimer(c) EXCEPT !.work = { "AUTH2" }, !.retry = @ + 1]
    BY DEF DoAuth
  <2> HIDE DEF c
  <2> DEFINE d == SetTimer(c)
  <2>3. d \in Adapter /\ d.link = c.link /\ ~AuthFail(c).link
    BY <1>1, <2>1, TimerType
  <2> HIDE DEF d
  <2>4. [d EXCEPT !.work = { "AUTH2" }, !.retry = @ + 1].link = d.link
    BY <2>3 DEF Adapter
  <2> QED BY <2>1, <2>2, <2>3, <2>4 DEF d
<1>3. ASSUME NEW b \in Adapter PROVE StartAuth(b).link => b.link
  <2>1. /\ [b EXCEPT !.cur = "JOINOK", !.retry = 0] \in Adapter
        /\ [b EXCEPT !.cur = "JOINOK", !.retry = 0].link = b.link
    BY <1>3 DEF Adapter, Trying
  <2> QED BY <1>2, <2>1 DEF StartAuth
<1>4. StartShared(a).link => a.link
  <2>1. [a EXCEPT !.alg = "shared"] \in Adapter /\ [a EXCEPT !.alg = "shared"].link = a.link
    BY DEF Adapter
  <2> QED BY <1>3, <2>1 DEF StartShared
<1>5. ASSUME NEW b \in Adapter PROVE DoAssoc(b).link => b.link
  <2> DEFINE d == SetTimer(b)
  <2>1. d \in Adapter /\ d.link = b.link /\ ~AuthFail(b).link
    BY <1>1, <1>5, TimerType
  <2> HIDE DEF d
  <2>2. [d EXCEPT !.retry = @ + 1].link = d.link
    BY <2>1 DEF Adapter
  <2> QED BY <2>1, <2>2 DEF DoAssoc, d
<1>6. StartAssoc(a).link => a.link
  <2>1. /\ [a EXCEPT !.cur = "AUTHOK", !.retry = 0] \in Adapter
        /\ [a EXCEPT !.cur = "AUTHOK", !.retry = 0].link = a.link
    BY DEF Adapter, Trying
  <2> QED BY <1>5, <2>1 DEF StartAssoc
<1> QED BY <1>1, <1>2, <1>3, <1>4, <1>5, <1>6

\* Nor does any other received frame than an association response.
LEMMA LinkFacts ==
    ASSUME NEW a \in Adapter, NEW f \in Tasks \cup Frames, f.event # "ASSOC", ~a.link
    PROVE  ~Receive(a, f).link
<1>1. ~RxWhenOidScan(a, f).link
  BY DEF RxWhenOidScan, Adapter
<1>2. ~RxWhenScan(a, f).link
  <2> DEFINE k == a.known \cup {f.ap}
             b == [a EXCEPT !.known = k]
             u == [ap |-> f.ap, ssid |-> SsidOf[f.ap]]
             keys == f.ap \in Private
             c == [ClearTimer(b) EXCEPT
                     !.used = u, !.begin = FALSE, !.privacy = keys,
                     !.oid = TRUE, !.cur = "IDLE", !.work = {}, !.scanning = FALSE]
  <2>1. RxWhenScan(a, f) \in { a, b, c }
    BY DEF RxWhenScan
  <2> HIDE DEF k, u, keys
  <2>2. ~b.link
    BY DEF Adapter
  <2>3. ~c.link
    BY DEF Adapter, ClearTimer
  <2> QED BY <2>1, <2>2, <2>3
<1>3. ClearTimer(a) \in Adapter /\ ~ClearTimer(a).link
  BY TimerType, TriesLink
<1>4. ~RxWhenJoin(a, f).link
  <2> DEFINE c == ClearTimer(a)
             d == [c EXCEPT !.attr = a.used]
  <2>1. d \in Adapter /\ ~d.link
    <3> HIDE DEF c
    <3>1. d \in Adapter
      BY <1>3 DEF Adapter, c
    <3> QED BY <1>3, <3>1 DEF Adapter, c
  <2> HIDE DEF d
  <2> QED BY <2>1, TriesLink DEF RxWhenJoin, d
<1>5. ASSUME NEW b \in Adapter, ~b.link PROVE ~RxAuth(b, f).link
  <2>1. ASSUME NEW w PROVE ~[SetTimer(b) EXCEPT !.work = {w}].link
    <3> DEFINE d == SetTimer(b)
    <3>1. d \in Adapter /\ ~d.link
      BY <1>5, TimerType, TriesLink
    <3> HIDE DEF d
    <3>2. ~[d EXCEPT !.work = {w}].link
      BY <3>1 DEF Adapter
    <3> QED BY <3>2 DEF d
  <2>2. /\ [b EXCEPT !.work = { "AUTH2" }] \in Adapter
        /\ [b EXCEPT !.work = { "AUTH2" }].link = b.link
    BY <1>5 DEF Adapter
  <2>3. ~DoAuth([b EXCEPT !.work = { "AUTH2" }]).link
    BY <1>5, <2>2, TriesLink
  <2>4. /\ ~SetTimer(b).link /\ ~StartAssoc(b).link /\ ~StartShared(b).link /\ ~DoAuth(b).link
    BY <1>5, TriesLink
  <2>5. \/ RxAuth(b, f) \in { SetTimer(b), StartAssoc(b), StartShared(b), DoAuth(b),
                              DoAuth([b EXCEPT !.work = { "AUTH2" }]) }
        \/ \E w \in { "AUTH2", "AUTH4" } : RxAuth(b, f) = [SetTimer(b) EXCEPT !.work = {w}]
    BY SMTT(60) DEF RxAuth
  <2> QED BY <2>1, <2>3, <2>4, <2>5
<1>6. ~RxWhenJoinOk(a, f).link
  <2>1. ~RxAuth(ClearTimer(a), f).link
    BY <1>3, <1>5
  <2>2. ~StartShared(a).link /\ ~AuthFail(a).link
    BY TriesLink
  <2> QED BY <2>1, <2>2 DEF RxWhenJoinOk
<1>7. ~RxWhenAuthOk(a, f).link
  BY TriesLink DEF RxWhenAuthOk
<1>8. ~RxWhenAssocOk(a, f).link
  BY AssocOkFacts, DisConnectFacts
<1> QED BY <1>1, <1>2, <1>4, <1>6, <1>7, <1>8 DEF Receive

\* The card set up again: a scan is broken off, and tasks and frames are lost.
LEMMA HardwareResetFacts ==
    ASSUME TypeOK, RunHardwareReset
    PROVE  /\ ad' \in Adapter /\ (Ticks(ad) => Ticks(ad'))
           /\ ~ad'.oid /\ (Quiet(ad) => ~ad'.scanning)
           /\ ad'.begin => ad.begin
           /\ ad'.reconnect = ad.reconnect /\ Bond(ad, ad')
           /\ ad'.cur = ad.cur \/ (ad.cur = "SCANNING" /\ ad'.cur = "IDLE")
           /\ \E h \in Dropped(Tail(ad.high), { "SCAN" }) :
                ad'.high = h \/ ad'.high \in Dropped(h, { "RESET" })
           /\ ad'.normal = ad.normal \/ ad'.normal \in Dropped(ad.normal, FrameEvents)
<1> DEFINE p == Popped
           c == BreakIfScanning(p)
<1>1. /\ p \in Adapter /\ p.high = Tail(ad.high) /\ p.normal = ad.normal
      /\ p.cur = ad.cur /\ p.oid = ad.oid /\ p.begin = ad.begin
      /\ p.scanning = ad.scanning /\ p.reconnect = ad.reconnect
      /\ p.running = ad.running /\ p.ticking = ad.ticking /\ Bond(ad, p)
  <2>1. HeadOfHigh("RESET")
    BY DEF RunHardwareReset
  <2>2. ad.high # << >>
    BY <2>1 DEF HeadOfHigh
  <2> QED BY <2>2, PoppedFacts
<1>2. PICK high \in Dropped(p.high, { "SCAN" }) :
        LET a == [c EXCEPT !.high = high]
            b == IF a.reconnect = "NO" /\ a.begin THEN ScanFlagsCleared(a) ELSE a
        IN  \/ Leaves({a})
            \/ \E h \in Dropped(high, { "RESET" }), n \in Dropped(b.normal, FrameEvents) :
                 /\ ad' = [b EXCEPT !.ticking = FALSE, !.high = h, !.normal = n]
                 /\ tuned' = ad.attr.ap /\ UNCHANGED granted
  BY DEF RunHardwareReset
<1> DEFINE a == [c EXCEPT !.high = high]
           b == IF a.reconnect = "NO" /\ a.begin THEN ScanFlagsCleared(a) ELSE a
<1>3. \/ ad' = a
      \/ \E h \in Dropped(high, { "RESET" }), n \in Dropped(b.normal, FrameEvents) :
           ad' = [b EXCEPT !.ticking = FALSE, !.high = h, !.normal = n]
  <2>1. \/ Leaves({a})
        \/ \E h \in Dropped(high, { "RESET" }), n \in Dropped(b.normal, FrameEvents) :
             ad' = [b EXCEPT !.ticking = FALSE, !.high = h, !.normal = n]
    BY <1>2
  <2> HIDE DEF a, b
  <2> QED BY <2>1 DEF Leaves
<1> HIDE DEF p
<1>4. /\ c \in Adapter /\ Follows(p, c) /\ ~c.oid /\ (Quiet(p) => ~c.scanning)
      /\ c.reconnect = p.reconnect /\ Bond(p, c)
      /\ c.cur = p.cur \/ (p.cur = "SCANNING" /\ c.cur = "IDLE")
  BY <1>1, BreakFacts
<1> HIDE DEF c
<1>5. high \in Seq(Tasks) /\ c.high \in Seq(Tasks) /\ c.normal \in Seq(Tasks \cup Frames)
  <2>1. p.high \in Seq(Tasks)
    BY <1>1 DEF Adapter
  <2> QED BY <1>4, <2>1, QueueDropped DEF Adapter
<1>6. /\ a \in Adapter /\ a.oid = c.oid /\ a.scanning = c.scanning /\ a.begin = c.begin
      /\ a.reconnect = c.reconnect /\ a.running = c.running /\ a.ticking = c.ticking
      /\ a.high = high /\ a.normal = c.normal /\ Bond(c, a) /\ a.cur = c.cur
  <2>1. a \in Adapter
    BY <1>4, <1>5 DEF Adapter
  <2> QED BY <1>4, <2>1 DEF Adapter, Bond
<1> HIDE DEF a
<1>7. /\ b \in Adapter /\ (b.oid => a.oid) /\ (b.scanning => a.scanning) /\ (b.begin => a.begin)
      /\ b.reconnect = a.reconnect /\ b.normal = a.normal /\ Bond(a, b) /\ b.cur = a.cur
  <2>1. /\ ScanFlagsCleared(a) \in Adapter /\ ~ScanFlagsCleared(a).scanning
        /\ ~ScanFlagsCleared(a).begin /\ ScanFlagsCleared(a).oid = a.oid
        /\ ScanFlagsCleared(a).reconnect = a.reconnect /\ ScanFlagsCleared(a).normal = a.normal
        /\ Bond(a, ScanFlagsCleared(a)) /\ ScanFlagsCleared(a).cur = a.cur
    <3>1. ScanFlagsCleared(a) \in Adapter
      BY <1>6, TimerType
    <3> QED BY <1>6, <3>1 DEF ScanFlagsCleared, Adapter, Bond
  <2> QED BY <1>6, <2>1 DEF Bond
<1> HIDE DEF b
<1>8. Quiet(ad) => Quiet(p)
  BY <1>1 DEF Quiet
<1>12. /\ Bond(ad, a) /\ Bond(ad, b)
       /\ a.cur = ad.cur \/ (ad.cur = "SCANNING" /\ a.cur = "IDLE")
       /\ b.cur = a.cur
  BY <1>1, <1>4, <1>6, <1>7 DEF Bond
<1>9. CASE ad' = a
  BY ZenonT(60), <1>1, <1>2, <1>4, <1>6, <1>8, <1>9, <1>12 DEF Follows, Clock, Ticks
<1>10. ASSUME NEW h \in Dropped(high, { "RESET" }), NEW n \in Dropped(b.normal, FrameEvents),
              ad' = [b EXCEPT !.ticking = FALSE, !.high = h, !.normal = n]
       PROVE  /\ ad' \in Adapter /\ ~ad'.ticking /\ ad'.high = h /\ ad'.normal = n
              /\ ad'.oid = b.oid /\ ad'.scanning = b.scanning /\ ad'.begin = b.begin
              /\ ad'.reconnect = b.reconnect /\ Bond(b, ad') /\ ad'.cur = b.cur
  <2>1. h \in Seq(Tasks)
    BY <1>5, <1>10, QueueDropped
  <2>2. n \in Seq(Tasks \cup Frames)
    <3>1. b.normal \in Seq(Tasks \cup Frames)
      BY <1>7 DEF Adapter
    <3> QED BY <1>10, <3>1, QueueDropped
  <2>3. ad' \in Adapter
    BY <1>7, <1>10, <2>1, <2>2 DEF Adapter
  <2> QED BY <1>7, <1>10, <2>3 DEF Adapter, Bond
<1>11. CASE \E h \in Dropped(high, { "RESET" }), n \in Dropped(b.normal, FrameEvents) :
               ad' = [b EXCEPT !.ticking = FALSE, !.high = h, !.normal = n]
  <2>1. PICK h \in Dropped(high, { "RESET" }), n \in Dropped(b.normal, FrameEvents) :
               ad' = [b EXCEPT !.ticking = FALSE, !.high = h, !.normal = n]
    BY <1>11
  <2>2. /\ ad' \in Adapter /\ ~ad'.ticking /\ ad'.high = h /\ ad'.normal = n
        /\ ad'.oid = b.oid /\ ad'.scanning = b.scanning /\ ad'.begin = b.begin
        /\ ad'.reconnect = b.reconnect /\ Bond(b, ad') /\ ad'.cur = b.cur
    BY <1>10, <2>1
  <2>3. high \in Dropped(Tail(ad.high), { "SCAN" })
    BY <1>1, <1>2
  <2>4. ad'.high \in Dropped(high, { "RESET" })
    BY <2>1, <2>2
  <2>5. b.normal = ad.normal
    BY <1>1, <1>4, <1>6, <1>7 DEF Follows
  <2>6. /\ ~ad'.oid /\ (Quiet(ad) => ~ad'.scanning)
        /\ ad'.begin => ad.begin
        /\ ad'.reconnect = ad.reconnect
    BY <1>1, <1>4, <1>6, <1>7, <1>8, <2>2 DEF Follows
  <2>7. Ticks(ad')
    BY <2>2 DEF Ticks
  <2>8. Bond(ad, ad') /\ (ad'.cur = ad.cur \/ (ad.cur = "SCANNING" /\ ad'.cur = "IDLE"))
    BY <1>12, <2>2 DEF Bond
  <2> QED BY <2>2, <2>3, <2>4, <2>5, <2>6, <2>7, <2>8
<1> QED BY <1>3, <1>9, <1>11

\* What is to be shown of a step for the type invariant.
LEMMA TypeStep ==
    ASSUME TypeOK, ad' \in Adapter, Clock(ad, ad') \/ Ticks(ad'),
           worker' \in { "idle", "scan" },
           user' \in [pc : { "idle", "ssid", "scan" }, ssid : Ssid \cup {None}],
           tuned' \in Ap \cup {None}, granted' \in Ap \cup {None},
           left' \in [Bounded -> Nat]
    PROVE  TypeOK'
<1>1. Ticks(ad')
  BY DEF TypeOK, Clock, Ticks
<1> QED BY <1>1 DEF TypeOK, Ticks

\* The register and the granted access point after a task.
LEMMA LeavesType ==
    ASSUME TypeOK, NEW after, Leaves(after), ad' \in Adapter
    PROVE  tuned' \in Ap \cup {None} /\ granted' \in Ap \cup {None}
<1>1. ad'.used.ap \in Ap \cup {None}
  BY DEF Adapter
<1> QED BY <1>1 DEF Leaves, Tuned, TypeOK

\* Only an association response grants, and it names an access point.
LEMMA AcceptType ==
    ASSUME TypeOK, NEW a \in Adapter, NEW f \in Tasks \cup Frames, MngAssumption,
           Accept(Receive(a, f), f), a.link = ad.link
    PROVE  granted' \in Ap \cup {None}
<1>1. Receive(a, f).link /\ ~a.link => f.event = "ASSOC"
  <2> SUFFICES ASSUME f.event # "ASSOC", ~a.link PROVE ~Receive(a, f).link
    BY DEF Adapter
  <2> QED BY LinkFacts
<1>2. f.event = "ASSOC" => f.ap \in Ap
  BY ItemFacts
<1> QED BY <1>1, <1>2 DEF Accept, TypeOK

-----------------------------------------------------------------------------
(* The inductive invariant of CalmSpec.                                    *)

\* While a request for a network waits, no scan of a user goes on, and one that waits to
\* begin will not.
RequestOK ==
    Has(ad.high, "SET_SSID") =>
      /\ ~ad.oid /\ ~ad.scanning
      /\ worker = "scan" => ~ad.begin /\ ad.reconnect # "NEED" /\ user.pc # "scan"

\* What is created when no other task waits is run before a scan begins.
AheadOK ==
    /\ Alone(ad.high)
    /\ Has(ad.high, "DISCONNECTED") \/ Has(ad.high, "RECOVER")
         => worker = "idle" /\ ~ad.scanning

\* The flag of the timer is that of a timer that ticks, unless the card was set up anew.
TimerOK == Untroubled => (ad.running => ad.ticking)

\* A reset that waits, or a response cut short, was counted.
UpsetOK ==
    /\ left.upset <= Budget.upset
    /\ Has(ad.high, "RESET") => left.upset < Budget.upset
    /\ \A i \in 1..Len(ad.normal) : Short(ad.normal[i]) => left.upset < Budget.upset

CalmInv ==
    /\ Quiet(ad) /\ Ordered(ad.high)
    /\ RequestOK /\ AheadOK /\ TimerOK /\ UpsetOK /\ WaitsAreTimed

\* Of the responses cut short in q all are in p.
ShortIn(p, q) ==
    \A i \in 1..Len(q) : Short(q[i]) => \E k \in 1..Len(p) : q[i] = p[k]

\* What the queue of frames goes through.
LEMMA ShortInFacts ==
    ASSUME NEW S, NEW q \in Seq(S)
    PROVE  /\ ShortIn(q, q)
           /\ q # << >> => ShortIn(q, Tail(q))
           /\ \A t \in S : ~Short(t) => ShortIn(q, Append(q, t))
           /\ \A events : \A r \in Dropped(q, events) : ShortIn(q, r)
<1>1. ShortIn(q, q)
  BY DEF ShortIn
<1>2. ASSUME q # << >> PROVE ShortIn(q, Tail(q))
  <2> DEFINE r == Tail(q)
  <2>1. Len(q) \in Nat /\ Len(q) > 0 /\ Len(r) = Len(q) - 1 /\ \A i \in 1..Len(r) : r[i] = q[i + 1]
    BY <1>2
  <2> HIDE DEF r
  <2>2. ShortIn(q, r)
    BY <2>1 DEF ShortIn
  <2> QED BY <2>2 DEF r
<1>3. ASSUME NEW t \in S, ~Short(t) PROVE ShortIn(q, Append(q, t))
  <2> DEFINE r == Append(q, t)
  <2>1. /\ Len(q) \in Nat /\ Len(r) = Len(q) + 1
        /\ \A i \in 1..Len(q) : r[i] = q[i]
        /\ r[Len(q) + 1] = t
    OBVIOUS
  <2> HIDE DEF r
  <2>2. ShortIn(q, r)
    BY <1>3, <2>1 DEF ShortIn
  <2> QED BY <2>2 DEF r
<1>4. ASSUME NEW events, NEW r \in Dropped(q, events) PROVE ShortIn(q, r)
  BY <1>4, QueueDropped DEF ShortIn
<1> QED BY <1>1, <1>2, <1>3, <1>4

\* What is to be shown of a step: unless it uses up the budget of the rarer things.
LEMMA CalmStep ==
    ASSUME TypeOK, TypeOK', CalmInv,
           Quiet(ad'), Ordered(ad'.high), Alone(ad'.high),
           Has(ad'.high, "SET_SSID") =>
             /\ ~ad'.oid /\ ~ad'.scanning
             /\ worker' = "scan" => ~ad'.begin /\ ad'.reconnect # "NEED" /\ user'.pc # "scan",
           Has(ad'.high, "DISCONNECTED") \/ Has(ad'.high, "RECOVER")
             => worker' = "idle" /\ ~ad'.scanning,
           left'["upset"] <= left["upset"],
           \/ left'["upset"] < left["upset"]
           \/ /\ Has(ad'.high, "RESET") => Has(ad.high, "RESET")
              /\ ShortIn(ad.normal, ad'.normal)
              /\ Has(ad.high, "RESET") \/ (Clock(ad, ad') /\ (Watched(ad') \/ WaitsAreTimed'))
    PROVE  CalmInv'
<1>1. "upset" \in Bounded
  BY DEF Bounded, Rare
<1>2. left["upset"] \in Nat /\ left'["upset"] \in Nat /\ Budget["upset"] \in Nat
  BY <1>1, MngAssumption DEF TypeOK, MngAssumption
<1>3. RequestOK'
  BY DEF RequestOK
<1>4. AheadOK'
  BY DEF AheadOK
<1>5. Untroubled' => /\ Untroubled /\ Clock(ad, ad') /\ (Watched(ad') \/ WaitsAreTimed')
  BY <1>2 DEF Untroubled, CalmInv, UpsetOK
<1>6. TimerOK'
  BY <1>5 DEF TimerOK, Clock, CalmInv
<1>7. WaitsAreTimed'
  BY <1>5, <1>6 DEF TimerOK, WaitsAreTimed, Watched
<1>8. UpsetOK'
  <2>1. CASE left'["upset"] < left["upset"]
    BY <1>2, <2>1 DEF UpsetOK, CalmInv
  <2>2. CASE /\ Has(ad'.high, "RESET") => Has(ad.high, "RESET")
             /\ ShortIn(ad.normal, ad'.normal)
    BY <1>2, <2>2 DEF UpsetOK, CalmInv, ShortIn
  <2> QED BY <2>1, <2>2
<1> QED BY <1>3, <1>4, <1>6, <1>7, <1>8 DEF CalmInv

\* What the rarer things leave.
LEMMA RareFacts ==
    ASSUME TypeOK
    PROVE  /\ \A kind \in Bounded : Use(kind) =>
                /\ left' \in [Bounded -> Nat]
                /\ left'["upset"] <= left["upset"]
                /\ kind = "upset" => left'["upset"] < left["upset"]
                /\ kind # "upset" => left'["upset"] = left["upset"]
           /\ left' = left => left' \in [Bounded -> Nat] /\ left'["upset"] = left["upset"]
           /\ left["upset"] <= left["upset"]
           /\ { "odd", "busy", "upset", "ask", "roam" } = Bounded
<1>1. { "odd", "busy", "upset", "ask", "roam" } = Bounded
  BY DEF Bounded, Rare
<1>2. left["upset"] \in Nat
  BY <1>1 DEF TypeOK
<1>3. ASSUME NEW kind \in Bounded, Use(kind)
      PROVE  /\ left' \in [Bounded -> Nat]
             /\ left'["upset"] <= left["upset"]
             /\ kind = "upset" => left'["upset"] < left["upset"]
             /\ kind # "upset" => left'["upset"] = left["upset"]
  BY <1>1, <1>3 DEF TypeOK, Use
<1> QED BY <1>1, <1>2, <1>3 DEF TypeOK

\* A join that finds the card busy takes nothing of the budget of the troubles.
LEMMA BusyFacts ==
    ASSUME TypeOK, BusyCounted
    PROVE  left' \in [Bounded -> Nat] /\ left'["upset"] = left["upset"]
BY RareFacts DEF BusyCounted

\* The flags of the adapter, with the queues left out.
SameFlags(a, b) ==
    /\ b.cur = a.cur /\ b.oid = a.oid /\ b.begin = a.begin /\ b.scanning = a.scanning
    /\ b.running = a.running /\ b.ticking = a.ticking /\ b.reconnect = a.reconnect

\* A step that leaves the flags alone leaves what is timed timed.
LEMMA SameStep ==
    ASSUME CalmInv, SameFlags(ad, ad')
    PROVE  /\ Quiet(ad') /\ Clock(ad, ad')
           /\ left' = left /\ (TimeoutWaits => TimeoutWaits') => WaitsAreTimed'
<1>1. Quiet(ad') /\ Clock(ad, ad')
  BY DEF CalmInv, SameFlags, Quiet, Clock
<1>2. ASSUME left' = left, TimeoutWaits => TimeoutWaits' PROVE WaitsAreTimed'
  BY <1>2 DEF CalmInv, SameFlags, WaitsAreTimed, Untroubled
<1> QED BY <1>1, <1>2

\* The typed queues.
LEMMA TypedQueues ==
    ASSUME TypeOK
    PROVE  /\ ad \in Adapter /\ ad.high \in Seq(Tasks) /\ ad.normal \in Seq(Tasks \cup Frames)
           /\ \A e : Waits(ad, e) <=> Has(ad.high, e)
<1>1. ad \in Adapter
  BY DEF TypeOK
<1>2. ad.high \in Seq(Tasks) /\ ad.normal \in Seq(Tasks \cup Frames)
  BY <1>1 DEF Adapter
<1> QED BY <1>1, <1>2, WaitsHas

\* A task of high priority is taken off.
LEMMA HeadTaken ==
    ASSUME TypeOK, NEW event, HeadOfHigh(event)
    PROVE  /\ worker = "idle" /\ ad.high # << >> /\ Has(ad.high, event)
           /\ \A e : Has(Tail(ad.high), e) => Has(ad.high, e)
           /\ CalmInv => /\ Ordered(Tail(ad.high)) /\ Alone(Tail(ad.high))
                         /\ event \in { "SCAN", "SET_SSID" } => ~Has(Tail(ad.high), "SET_SSID")
                         /\ ~Has(Tail(ad.high), "DISCONNECTED") /\ ~Has(Tail(ad.high), "RECOVER")
           /\ Tail(ad.high) \in Seq(Tasks)
<1>1. worker = "idle" /\ ad.high # << >> /\ Head(ad.high).event = event
  BY DEF HeadOfHigh
<1>2. ad.high \in Seq(Tasks)
  BY TypedQueues
<1>3. CalmInv => Ordered(ad.high) /\ Alone(ad.high)
  BY DEF CalmInv, AheadOK
<1> QED BY <1>1, <1>2, <1>3, QueueTail

\* The steps of the worklet, with high priority ...
LEMMA TakeScanStep ==
    ASSUME TypeOK, TakeScan PROVE TypeOK' /\ (CalmInv => CalmInv')
<1>1. /\ HeadOfHigh("SCAN") /\ ad' = Popped /\ worker' \in { "idle", "scan" }
      /\ user' = user /\ tuned' = tuned /\ granted' = granted /\ left' = left
  BY DEF TakeScan
<1>2. /\ ad' \in Adapter /\ SameFlags(ad, ad') /\ ad'.high = Tail(ad.high)
      /\ ad'.normal = ad.normal
  <2>1. ad.high # << >>
    BY <1>1, HeadTaken
  <2> QED BY <1>1, <2>1, PoppedFacts DEF SameFlags
<1>3. TypeOK'
  BY <1>1, <1>2, TypeStep DEF TypeOK, SameFlags, Clock
<1>4. ASSUME CalmInv PROVE CalmInv'
  <2>1. Quiet(ad') /\ Clock(ad, ad') /\ WaitsAreTimed'
    BY <1>1, <1>2, <1>4, SameStep DEF TimeoutWaits
  <2>2. left'["upset"] <= left["upset"] /\ ShortIn(ad.normal, ad'.normal)
    BY <1>1, <1>2, RareFacts, TypedQueues, ShortInFacts
  <2> QED BY <1>1, <1>2, <1>3, <1>4, <2>1, <2>2, HeadTaken, CalmStep
<1> QED BY <1>3, <1>4

\* The scan begins unless a request for a network has broken it off, or the card is stuck.
LEMMA BeginScanStep ==
    ASSUME TypeOK, BeginScan PROVE TypeOK' /\ (CalmInv => CalmInv')
<1>1. /\ worker = "scan" /\ worker' = "idle"
      /\ user' = user /\ tuned' = tuned /\ granted' = granted
  BY DEF BeginScan
<1>2. CASE ad' \in OidScan(InitParas(ad)) /\ left' = left
  <2> DEFINE a == InitParas(ad)
  <2>1. a \in Adapter /\ Follows(ad, a) /\ a.cur = "IDLE"
    BY TypedQueues, TimerFacts, TimerType
  <2> HIDE DEF a
  <2>2. /\ Comes(a, ad') /\ ad'.high = a.high /\ Quiet(ad') /\ Watched(ad')
        /\ ~a.begin /\ a.reconnect # "NEED" => ~ad'.oid /\ ~ad'.scanning
    BY <1>2, <2>1, MngAssumption, OidScanFacts DEF a
  <2>3. /\ ad' \in Adapter /\ Clock(ad, ad') /\ ad'.high = ad.high /\ ad'.normal = ad.normal
        /\ ~ad.begin /\ ad.reconnect # "NEED" => ~ad'.oid /\ ~ad'.scanning
    BY <2>1, <2>2 DEF Follows, Comes, Clock
  <2>4. TypeOK'
    BY <1>1, <1>2, <2>3, TypeStep DEF TypeOK
  <2>5. ASSUME CalmInv PROVE CalmInv'
    <3>1. left'["upset"] <= left["upset"] /\ ShortIn(ad.normal, ad'.normal)
      BY <1>2, <2>3, RareFacts, TypedQueues, ShortInFacts
    <3>2. /\ Ordered(ad'.high) /\ Alone(ad'.high)
          /\ Has(ad'.high, "SET_SSID") => ~ad'.oid /\ ~ad'.scanning
          /\ ~Has(ad'.high, "DISCONNECTED") /\ ~Has(ad'.high, "RECOVER")
      BY <1>1, <2>3, <2>5 DEF CalmInv, AheadOK, RequestOK
    <3> QED BY <1>1, <2>2, <2>3, <2>4, <2>5, <3>1, <3>2, CalmStep
  <2> QED BY <2>4, <2>5
<1>3. CASE Use("upset") /\ left'["upset"] < left["upset"] /\ ~(ad' \in OidScan(InitParas(ad)) /\ left' = left)
  <2> DEFINE a == [ad EXCEPT !.reconnect = "NO"]
  <2>1. ad' \in Stuck(a)
    BY <1>3 DEF BeginScan, Stuck
  <2>2. /\ ad' \in Adapter /\ SameFlags([ad EXCEPT !.reconnect = "NO"], ad')
        /\ ad'.cur = ad.cur /\ ad'.oid = ad.oid /\ ad'.begin = ad.begin
        /\ ad'.scanning = ad.scanning /\ ad'.running = ad.running /\ ad'.ticking = ad.ticking
        /\ ad'.reconnect = "NO"
        /\ ad'.high = ad.high \/ ad'.high = Append(ad.high, Event("REQJOIN"))
    <3>1. a = [ad EXCEPT !.reconnect = "NO"]
      OBVIOUS
    <3> HIDE DEF a
    <3>2. /\ ad' \in Adapter
          /\ ad'.cur = ad.cur /\ ad'.oid = ad.oid /\ ad'.begin = ad.begin
          /\ ad'.scanning = ad.scanning /\ ad'.running = ad.running /\ ad'.ticking = ad.ticking
          /\ ad'.reconnect = "NO"
          /\ ad'.high = ad.high \/ ad'.high = Append(ad.high, Event("REQJOIN"))
      BY <2>1, <3>1, StuckCard
    <3> QED BY <3>2, TypedQueues DEF SameFlags, Adapter
  <2>3. TypeOK'
    BY <1>1, <1>3, <2>2, RareFacts, TypeStep DEF TypeOK, Clock
  <2>4. ASSUME CalmInv PROVE CalmInv'
    <3>1. /\ Ordered(ad.high) /\ Alone(ad.high) /\ ad.high \in Seq(Tasks)
          /\ ~Has(ad.high, "DISCONNECTED") /\ ~Has(ad.high, "RECOVER")
      BY <1>1, <2>4, TypedQueues DEF CalmInv, AheadOK
    <3>2. Event("REQJOIN") \in Tasks /\ Event("REQJOIN").event = "REQJOIN"
      BY TaskFacts
    <3>3. /\ Ordered(ad'.high) /\ Alone(ad'.high)
          /\ ~Has(ad'.high, "DISCONNECTED") /\ ~Has(ad'.high, "RECOVER")
          /\ Has(ad'.high, "SET_SSID") => Has(ad.high, "SET_SSID")
      <4>1. CASE ad'.high = ad.high
        BY <3>1, <4>1
      <4>2. CASE ad'.high = Append(ad.high, Event("REQJOIN"))
        BY <3>1, <3>2, <4>2, QueueAppend
      <4> QED BY <2>2, <4>1, <4>2
    <3>4. Quiet(ad') /\ (Has(ad'.high, "SET_SSID") => ~ad'.oid /\ ~ad'.scanning)
      BY <2>2, <2>4, <3>3 DEF CalmInv, RequestOK, Quiet
    <3>5. left'["upset"] <= left["upset"]
      BY <1>3, RareFacts
    <3> QED BY <1>1, <1>3, <2>3, <2>4, <3>3, <3>4, <3>5, CalmStep
  <2> QED BY <2>3, <2>4
<1> QED BY <1>2, <1>3, RareFacts DEF BeginScan

\* A task of high priority that creates no other.
LEMMA HeadDone ==
    ASSUME TypeOK, TypeOK', CalmInv, NEW event, HeadOfHigh(event), worker' = worker,
           ad'.high = Tail(ad.high), ad'.normal = ad.normal,
           Quiet(ad'), left'["upset"] <= left["upset"],
           event = "SET_SSID" \/ ((ad'.oid => ad.oid) /\ (ad'.scanning => ad.scanning)),
           \/ left'["upset"] < left["upset"]
           \/ Clock(ad, ad') /\ (Watched(ad') \/ WaitsAreTimed')
    PROVE  CalmInv'
<1>1. /\ worker = "idle" /\ Ordered(ad'.high) /\ Alone(ad'.high)
      /\ ~Has(ad'.high, "DISCONNECTED") /\ ~Has(ad'.high, "RECOVER")
      /\ \A e : Has(ad'.high, e) => Has(ad.high, e)
      /\ event = "SET_SSID" => ~Has(ad'.high, "SET_SSID")
  BY HeadTaken
<1>2. ShortIn(ad.normal, ad'.normal)
  BY TypedQueues, ShortInFacts
<1>3. Has(ad'.high, "SET_SSID") => ~ad'.oid /\ ~ad'.scanning
  BY <1>1 DEF CalmInv, RequestOK
<1> QED BY <1>1, <1>2, <1>3, CalmStep

\* A task that touches no flag of an attempt or of a scan.
LEMMA TakenStep ==
    ASSUME TypeOK, NEW event, HeadOfHigh(event), NEW c \in Adapter, Alike(Popped, c), ad' = c,
           worker' = worker, user' = user, tuned' = tuned, granted' = granted, left' = left
    PROVE  TypeOK' /\ (CalmInv => CalmInv')
<1>1. /\ ad' \in Adapter /\ SameFlags(ad, ad') /\ ad'.high = Tail(ad.high)
      /\ ad'.normal = ad.normal
  <2>1. ad.high # << >>
    BY HeadTaken
  <2> QED BY <2>1, PoppedFacts DEF SameFlags, Alike
<1>2. TypeOK'
  BY <1>1, TypeStep DEF TypeOK, SameFlags, Clock
<1>3. ASSUME CalmInv PROVE CalmInv'
  <2>1. Quiet(ad') /\ Clock(ad, ad') /\ WaitsAreTimed'
    BY <1>1, <1>3, SameStep DEF TimeoutWaits
  <2>2. left'["upset"] <= left["upset"]
    BY RareFacts
  <2>3. (ad'.oid => ad.oid) /\ (ad'.scanning => ad.scanning)
    BY <1>1 DEF SameFlags
  <2> QED BY <1>1, <1>2, <1>3, <2>1, <2>2, <2>3, HeadDone
<1> QED BY <1>2, <1>3

\* A task that does nothing.
LEMMA RunReqJoinStep ==
    ASSUME TypeOK, RunReqJoin PROVE TypeOK' /\ (CalmInv => CalmInv')
<1>1. HeadOfHigh("REQJOIN") /\ ad.high # << >>
  BY HeadTaken DEF RunReqJoin
<1>2. Popped \in Adapter /\ Alike(Popped, Popped)
  BY <1>1, PoppedFacts DEF Alike
<1> QED BY <1>1, <1>2, TakenStep DEF RunReqJoin

\* The worklet gives the card a key, or takes one away.
LEMMA RunWepStep ==
    ASSUME TypeOK, RunWep PROVE TypeOK' /\ (CalmInv => CalmInv')
<1>1. PICK keys \in BOOLEAN : ad' = [Popped EXCEPT !.privacy = keys]
  BY DEF RunWep
<1>2. /\ HeadOfHigh("WEP") /\ ad.high # << >> /\ worker' = worker /\ user' = user
      /\ tuned' = tuned /\ granted' = granted /\ left' = left
  BY HeadTaken DEF RunWep
<1>3. Popped \in Adapter
  BY <1>2, PoppedFacts
<1> DEFINE c == [Popped EXCEPT !.privacy = keys]
<1>4. c \in Adapter /\ Alike(Popped, c)
  <2>1. c \in Adapter
    BY <1>3 DEF Adapter
  <2> QED BY <1>3, <2>1 DEF Adapter, Alike
<1> HIDE DEF c
<1> QED BY <1>1, <1>2, <1>4, TakenStep DEF c

\* ... and leaves no attempt and no scan of its own.
LEMMA PoppedFollows ==
    ASSUME TypeOK, ad.high # << >>, Follows(Popped, ad')
    PROVE  /\ ad' \in Adapter /\ Clock(ad, ad')
           /\ ad'.high = Tail(ad.high) /\ ad'.normal = ad.normal
           /\ (ad'.oid => ad.oid) /\ (ad'.scanning => ad.scanning)
BY PoppedFacts DEF Follows, Clock

\* The end of a connection.
LEMMA ResetEnds ==
    ASSUME NEW a \in Adapter, NEW type \in { "disassoc", "disconnect" }, NEW diff, NEW b,
           b \in InternalReset(a, type, diff)
    PROVE  Follows(a, b) /\ b.cur = "IDLE"
<1>1. type \notin { "join", "roam", "scan" }
  OBVIOUS
<1> QED BY <1>1, MngAssumption, InternalResetFacts

\* A request for a network finds no scan and leaves no other request behind it.
LEMMA RunSetSsidStep ==
    ASSUME TypeOK, RunSetSsid PROVE TypeOK' /\ (CalmInv => CalmInv')
<1> DEFINE type == Head(ad.high).type
           diff == Head(ad.high).diff
<1>1. /\ HeadOfHigh("SET_SSID") /\ BusyCounted /\ worker' = worker /\ user' = user
      /\ Leaves(InternalReset(Popped, type, diff))
  BY DEF RunSetSsid
<1>2. ad.high # << >>
  BY <1>1, HeadTaken
<1>3. /\ Popped \in Adapter /\ Popped.high = Tail(ad.high) /\ Popped.normal = ad.normal
      /\ Popped.oid = ad.oid /\ Popped.scanning = ad.scanning
      /\ Popped.running = ad.running /\ Popped.ticking = ad.ticking
  BY <1>2, PoppedFacts
<1>4. ad' \in InternalReset(Popped, type, diff)
  BY <1>1 DEF Leaves
<1>5. /\ Comes(Popped, ad') /\ ad'.high = Popped.high
      /\ ~Popped.oid /\ ~Popped.scanning => Quiet(ad') /\ Watched(ad')
  <2> HIDE DEF type, diff
  <2> QED BY <1>3, <1>4, MngAssumption, InternalResetFacts
<1>6. /\ ad' \in Adapter /\ Clock(ad, ad')
      /\ ad'.high = Tail(ad.high) /\ ad'.normal = ad.normal
  BY <1>3, <1>5 DEF Comes, Clock
<1>7. tuned' \in Ap \cup {None} /\ granted' \in Ap \cup {None}
  BY <1>1, <1>6, LeavesType
<1>8. left' \in [Bounded -> Nat] /\ left'["upset"] = left["upset"]
  BY <1>1, BusyFacts
<1>9. TypeOK'
  BY <1>1, <1>6, <1>7, <1>8, TypeStep DEF TypeOK
<1>10. ASSUME CalmInv PROVE CalmInv'
  <2>1. ~ad.oid /\ ~ad.scanning
    BY <1>1, <1>10, HeadTaken DEF CalmInv, RequestOK
  <2>2. left'["upset"] <= left["upset"]
    BY <1>8, RareFacts
  <2> QED BY <1>1, <1>3, <1>5, <1>6, <1>9, <1>10, <2>1, <2>2, HeadDone
<1> QED BY <1>9, <1>10

\* The connection ends at the request of the user ...
LEMMA RunDisassocStep ==
    ASSUME TypeOK, RunDisassoc PROVE TypeOK' /\ (CalmInv => CalmInv')
<1> DEFINE a == AuthFail(Popped)
           ind == Head(ad.high).ind
<1>1. /\ HeadOfHigh("DISASSOC") /\ worker' = worker /\ user' = user /\ left' = left
      /\ Leaves(IF ind THEN InternalReset(a, "disassoc", TRUE) ELSE {a})
  BY DEF RunDisassoc
<1>2. ad.high # << >>
  BY <1>1, HeadTaken
<1>3. Popped \in Adapter
  BY <1>2, PoppedFacts
<1>4. a \in Adapter /\ Follows(Popped, a) /\ a.cur = "IDLE" /\ ~a.scanning
  BY <1>3, TimerFacts, TimerType
<1>5. ad' \in InternalReset(a, "disassoc", TRUE) \/ ad' = a
  BY <1>1 DEF Leaves
<1> HIDE DEF a
<1>6. Follows(a, ad') /\ ad'.cur = "IDLE"
  <2>1. Follows(a, a)
    BY <1>4, TimerFacts
  <2> QED BY <1>4, <1>5, <2>1, ResetEnds
<1>7. Follows(Popped, ad') /\ ~ad'.scanning
  <2>1. Follows(Popped, ad')
    BY <1>3, <1>4, <1>6, FollowsTrans
  <2> QED BY <1>4, <1>6, <2>1 DEF Follows, Adapter
<1>8. /\ ad' \in Adapter /\ Clock(ad, ad')
      /\ ad'.high = Tail(ad.high) /\ ad'.normal = ad.normal
      /\ (ad'.oid => ad.oid) /\ (ad'.scanning => ad.scanning)
  BY <1>2, <1>7, PoppedFollows
<1>9. tuned' \in Ap \cup {None} /\ granted' \in Ap \cup {None}
  BY <1>1, <1>8, LeavesType
<1>10. TypeOK'
  BY <1>1, <1>8, <1>9, TypeStep DEF TypeOK
<1>11. ASSUME CalmInv PROVE CalmInv'
  <2>1. Quiet(ad') /\ Watched(ad') /\ left'["upset"] <= left["upset"]
    BY <1>1, <1>6, <1>7, RareFacts DEF Quiet, Watched, Trying
  <2> QED BY <1>1, <1>8, <1>10, <1>11, <2>1, HeadDone
<1> QED BY <1>10, <1>11

\* ... or of the access point: no scan has come before.
LEMMA RunDisconnectedStep ==
    ASSUME TypeOK, RunDisconnected PROVE TypeOK' /\ (CalmInv => CalmInv')
<1>1. /\ HeadOfHigh("DISCONNECTED") /\ worker' = worker /\ user' = user /\ left' = left
      /\ Leaves(InternalReset(Popped, "disconnect", TRUE))
  BY DEF RunDisconnected
<1>2. ad.high # << >>
  BY <1>1, HeadTaken
<1>3. Popped \in Adapter
  BY <1>2, PoppedFacts
<1>4. Follows(Popped, ad') /\ ad'.cur = "IDLE"
  BY <1>1, <1>3, ResetEnds DEF Leaves
<1>5. /\ ad' \in Adapter /\ Clock(ad, ad')
      /\ ad'.high = Tail(ad.high) /\ ad'.normal = ad.normal
      /\ (ad'.oid => ad.oid) /\ (ad'.scanning => ad.scanning)
  BY <1>2, <1>4, PoppedFollows
<1>6. tuned' \in Ap \cup {None} /\ granted' \in Ap \cup {None}
  BY <1>1, <1>5, LeavesType
<1>7. TypeOK'
  BY <1>1, <1>5, <1>6, TypeStep DEF TypeOK
<1>8. ASSUME CalmInv PROVE CalmInv'
  <2>1. ~ad'.scanning
    BY <1>1, <1>5, <1>8, HeadTaken DEF CalmInv, AheadOK
  <2>2. Quiet(ad') /\ Watched(ad') /\ left'["upset"] <= left["upset"]
    BY <1>1, <1>4, <2>1, RareFacts DEF Quiet, Watched, Trying
  <2> QED BY <1>1, <1>5, <1>7, <1>8, <2>2, HeadDone
<1> QED BY <1>7, <1>8

\* The card set up again leaves the timer stopped and its flag as it was.
LEMMA RunHardwareResetStep ==
    ASSUME TypeOK, RunHardwareReset PROVE TypeOK' /\ (CalmInv => CalmInv')
<1>1. HeadOfHigh("RESET") /\ worker' = worker /\ user' = user /\ left' = left
  BY DEF RunHardwareReset
<1>2. /\ ad' \in Adapter /\ (Ticks(ad) => Ticks(ad'))
      /\ ~ad'.oid /\ (Quiet(ad) => ~ad'.scanning)
      /\ \E h \in Dropped(Tail(ad.high), { "SCAN" }) :
           ad'.high = h \/ ad'.high \in Dropped(h, { "RESET" })
      /\ ad'.normal = ad.normal \/ ad'.normal \in Dropped(ad.normal, FrameEvents)
  BY HardwareResetFacts
<1>3. (\E after : Leaves(after)) \/ (tuned' = ad.attr.ap /\ granted' = granted)
  BY DEF RunHardwareReset
<1>4. tuned' \in Ap \cup {None} /\ granted' \in Ap \cup {None}
  <2>1. ad.attr.ap \in Ap \cup {None} /\ granted \in Ap \cup {None}
    BY DEF TypeOK, Adapter
  <2> QED BY <1>2, <1>3, <2>1, LeavesType
<1>5. TypeOK'
  <2>1. Ticks(ad)
    BY DEF TypeOK, Ticks
  <2> QED BY <1>1, <1>2, <1>4, <2>1, TypeStep DEF TypeOK
<1>6. ASSUME CalmInv PROVE CalmInv'
  <2>1. Quiet(ad') /\ ~ad'.scanning
    BY <1>2, <1>6 DEF CalmInv, Quiet
  <2>2. ShortIn(ad.normal, ad'.normal)
    BY <1>2, TypedQueues, ShortInFacts
  <2> DEFINE r == Tail(ad.high)
  <2>3. /\ worker = "idle" /\ r \in Seq(Tasks) /\ Ordered(r) /\ Alone(r)
        /\ ~Has(r, "DISCONNECTED") /\ ~Has(r, "RECOVER")
        /\ Has(ad.high, "RESET")
    BY <1>1, <1>6, HeadTaken
  <2> HIDE DEF r
  <2>4. PICK h \in Dropped(r, { "SCAN" }) : ad'.high = h \/ ad'.high \in Dropped(h, { "RESET" })
    BY <1>2 DEF r
  <2>5. /\ h \in Seq(Tasks) /\ Ordered(h) /\ Alone(h)
        /\ ~Has(h, "DISCONNECTED") /\ ~Has(h, "RECOVER")
    BY <2>3, <2>4, QueueDropped
  <2>6. /\ Ordered(ad'.high) /\ Alone(ad'.high)
        /\ ~Has(ad'.high, "DISCONNECTED") /\ ~Has(ad'.high, "RECOVER")
    <3>1. CASE ad'.high = h
      BY <2>5, <3>1
    <3>2. CASE ad'.high \in Dropped(h, { "RESET" })
      BY <2>5, <3>2, QueueDropped
    <3> QED BY <2>4, <3>1, <3>2
  <2>7. left'["upset"] <= left["upset"]
    BY <1>1, RareFacts
  <2> QED BY <1>1, <1>2, <1>5, <1>6, <2>1, <2>2, <2>3, <2>6, <2>7, CalmStep
<1> QED BY <1>5, <1>6

\* The old connection taken up again, or given up.
LEMMA RunRecoverStep ==
    ASSUME TypeOK, RunRecover PROVE TypeOK' /\ (CalmInv => CalmInv')
<1> DEFINE p == Popped
<1>1. HeadOfHigh("RECOVER") /\ worker' = worker /\ user' = user
  BY DEF RunRecover
<1>2. ad.high # << >>
  BY <1>1, HeadTaken
<1>3. /\ p \in Adapter /\ p.high = Tail(ad.high) /\ p.normal = ad.normal
      /\ p.oid = ad.oid /\ p.scanning = ad.scanning
      /\ p.running = ad.running /\ p.ticking = ad.ticking
  BY <1>2, PoppedFacts
<1>4. \/ /\ ad' = [p EXCEPT !.link = TRUE, !.cur = "ASSOCOK", !.work = {}, !.reconnect = "NO"]
         /\ tuned' = ad.used.ap /\ granted' = granted /\ left' = left
      \/ /\ Use("upset") /\ ad' = MediaDown([p EXCEPT !.link = FALSE])
         /\ granted' = None /\ tuned' = tuned
  BY DEF RunRecover
<1> HIDE DEF p
<1>5. /\ ad' \in Adapter /\ ad'.cur \in { "ASSOCOK", "IDLE" }
      /\ ad'.high = p.high /\ ad'.normal = p.normal
      /\ (ad'.oid => p.oid) /\ (ad'.scanning => p.scanning) /\ Clock(p, ad')
  <2>1. CASE ad' = [p EXCEPT !.link = TRUE, !.cur = "ASSOCOK", !.work = {}, !.reconnect = "NO"]
    <3>1. ad' \in Adapter
      BY <1>3, <2>1 DEF Adapter
    <3> QED BY <1>3, <2>1, <3>1 DEF Adapter, Clock
  <2>2. CASE ad' = MediaDown([p EXCEPT !.link = FALSE])
    <3> DEFINE q == [p EXCEPT !.link = FALSE]
    <3>1. q \in Adapter /\ Alike(p, q)
      <4>1. q \in Adapter
        BY <1>3 DEF Adapter
      <4> QED BY <1>3, <4>1 DEF Adapter, Alike
    <3> HIDE DEF q
    <3>2. Follows(q, ad') /\ ad'.cur = "IDLE"
      BY <2>2, <3>1, TimerFacts DEF q
    <3> QED BY <3>1, <3>2 DEF Follows, Alike, Clock
  <2> QED BY <1>4, <2>1, <2>2
<1>6. /\ ad' \in Adapter /\ Clock(ad, ad')
      /\ ad'.high = Tail(ad.high) /\ ad'.normal = ad.normal
      /\ (ad'.oid => ad.oid) /\ (ad'.scanning => ad.scanning)
  BY <1>3, <1>5 DEF Clock
<1>7. tuned' \in Ap \cup {None} /\ granted' \in Ap \cup {None}
  <2>1. ad.used.ap \in Ap \cup {None}
    BY TypedQueues DEF Adapter
  <2> QED BY <1>4, <2>1 DEF TypeOK
<1>8. left' \in [Bounded -> Nat] /\ left'["upset"] <= left["upset"]
  BY <1>4, RareFacts
<1>9. TypeOK'
  BY <1>1, <1>6, <1>7, <1>8, TypeStep DEF TypeOK
<1>10. ASSUME CalmInv PROVE CalmInv'
  <2>1. ~ad'.scanning
    BY <1>1, <1>6, <1>10, HeadTaken DEF CalmInv, AheadOK
  <2>2. Quiet(ad') /\ Watched(ad')
    BY <1>5, <2>1 DEF Quiet, Watched, Trying
  <2> QED BY <1>1, <1>6, <1>8, <1>9, <1>10, <2>2, HeadDone
<1> QED BY <1>9, <1>10

\* The head of the normal queue is taken off, when no other task waits.
LEMMA NormalTaken ==
    ASSUME TypeOK, HeadOfNormal
    PROVE  /\ worker = "idle" /\ ad.high = << >> /\ ad.normal # << >>
           /\ \A e : ~Has(ad.high, e)
           /\ Head(ad.normal) \in Tasks \cup Frames
           /\ Tail(ad.normal) \in Seq(Tasks \cup Frames)
           /\ ShortIn(ad.normal, Tail(ad.normal))
           /\ Ordered(ad.high) /\ Alone(ad.high)
<1>1. worker = "idle" /\ ad.high = << >> /\ ad.normal # << >>
  BY DEF HeadOfNormal
<1>2. ad.normal \in Seq(Tasks \cup Frames)
  BY TypedQueues
<1>3. Tail(ad.normal) \in Seq(Tasks \cup Frames) /\ Head(ad.normal) \in Tasks \cup Frames
  BY <1>1, <1>2
<1>4. Len(ad.high) = 0
  BY <1>1
<1>5. (\A e : ~Has(ad.high, e)) /\ Ordered(ad.high) /\ Alone(ad.high)
  BY <1>4 DEF Has, Ordered, Alone
<1>6. ShortIn(ad.normal, Tail(ad.normal))
  BY <1>1, <1>2, ShortInFacts
<1> QED BY <1>1, <1>3, <1>5, <1>6

\* The first task of an empty queue.
LEMMA FirstTask ==
    ASSUME NEW t \in Tasks, ad.high = << >>, NEW q, q = Append(ad.high, t)
    PROVE  /\ Ordered(q) /\ Alone(q)
           /\ \A e : Has(q, e) <=> t.event = e
<1>1. ad.high \in Seq(Tasks) /\ Len(ad.high) = 0
  OBVIOUS
<1>2. Ordered(ad.high) /\ Alone(ad.high) /\ \A e : ~Has(ad.high, e)
  BY <1>1 DEF Ordered, Alone, Has
<1> QED BY <1>1, <1>2, QueueAppend

\* ... and the normal ones, which run when no other waits.
LEMMA RunTimeoutStep ==
    ASSUME TypeOK, RunTimeout PROVE TypeOK' /\ (CalmInv => CalmInv')
<1> DEFINE p == PoppedNormal
<1>1. /\ HeadOfNormal /\ BusyCounted /\ worker' = worker /\ user' = user /\ Leaves(Timeout(p))
  BY DEF RunTimeout
<1>2. /\ worker = "idle" /\ ad.high = << >> /\ ad.normal # << >>
      /\ \A e : ~Has(ad.high, e)
      /\ ShortIn(ad.normal, Tail(ad.normal))
      /\ Ordered(ad.high) /\ Alone(ad.high)
  BY <1>1, NormalTaken
<1>3. /\ p \in Adapter /\ p.normal = Tail(ad.normal) /\ p.high = ad.high
      /\ p.cur = ad.cur /\ p.oid = ad.oid /\ p.begin = ad.begin /\ p.scanning = ad.scanning
      /\ p.running = ad.running /\ p.ticking = ad.ticking
  BY <1>2, PoppedNormalFacts
<1>4. ad' \in Timeout(p)
  BY <1>1 DEF Leaves
<1> HIDE DEF p
<1>5. /\ Comes(p, ad')
      /\ Quiet(p) => /\ Quiet(ad') /\ Watched(ad') /\ Asked(p, ad')
                     /\ ad'.high = p.high \/ Resting(ad')
  BY <1>3, <1>4, MngAssumption, TimeoutFacts
<1>6. ad' \in Adapter /\ Clock(ad, ad') /\ ad'.normal = Tail(ad.normal)
  BY <1>3, <1>5 DEF Comes, Clock
<1>7. tuned' \in Ap \cup {None} /\ granted' \in Ap \cup {None}
  BY <1>1, <1>6, LeavesType
<1>8. left' \in [Bounded -> Nat] /\ left'["upset"] = left["upset"]
  BY <1>1, BusyFacts
<1>9. TypeOK'
  BY <1>1, <1>6, <1>7, <1>8, TypeStep DEF TypeOK
<1>10. ASSUME CalmInv PROVE CalmInv'
  <2>1. Quiet(p)
    BY <1>3, <1>10 DEF CalmInv, Quiet
  <2>2. left'["upset"] <= left["upset"]
    BY <1>8, RareFacts
  <2>3. /\ Ordered(ad'.high) /\ Alone(ad'.high) /\ ~Has(ad'.high, "RESET")
        /\ \A e : Has(ad'.high, e) => ~ad'.oid /\ ~ad'.scanning
    <3>1. CASE ad'.high = ad.high
      BY <1>2, <3>1
    <3>2. CASE ad'.high # ad.high
      <4>1. PICK t \in Tasks : t.event \in { "SET_SSID", "RECOVER" } /\ ad'.high = Append(ad.high, t)
        BY <1>3, <1>5, <2>1, <3>2 DEF Asked
      <4>2. Resting(ad')
        BY <1>3, <1>5, <2>1, <3>2
      <4>3. /\ Ordered(ad'.high) /\ Alone(ad'.high)
            /\ \A e : Has(ad'.high, e) <=> t.event = e
        BY <1>2, <4>1, FirstTask
      <4> QED BY <4>1, <4>2, <4>3 DEF Resting
    <3> QED BY <3>1, <3>2
  <2> QED BY <1>1, <1>2, <1>5, <1>6, <1>9, <1>10, <2>1, <2>2, <2>3, CalmStep
<1> QED BY <1>9, <1>10

\* A response cut short may leave an attempt untimed, but was counted.
LEMMA RunFrameStep ==
    ASSUME TypeOK, RunFrame PROVE TypeOK' /\ (CalmInv => CalmInv')
<1> DEFINE p == PoppedNormal
           f == Head(ad.normal)
<1>1. /\ HeadOfNormal /\ f.event # "MNGTIMEOUT" /\ worker' = worker /\ user' = user
      /\ tuned' = tuned /\ left' = left /\ Accept(Receive(p, f), f)
  BY DEF RunFrame
<1>2. /\ worker = "idle" /\ ad.high = << >> /\ ad.normal # << >>
      /\ \A e : ~Has(ad.high, e)
      /\ f \in Tasks \cup Frames
      /\ ShortIn(ad.normal, Tail(ad.normal))
      /\ Ordered(ad.high) /\ Alone(ad.high)
  BY <1>1, NormalTaken
<1>3. /\ p \in Adapter /\ p.normal = Tail(ad.normal) /\ p.high = ad.high
      /\ p.cur = ad.cur /\ p.oid = ad.oid /\ p.begin = ad.begin /\ p.scanning = ad.scanning
      /\ p.running = ad.running /\ p.ticking = ad.ticking /\ p.link = ad.link
  BY <1>2, PoppedNormalFacts
<1>4. ad' = Receive(p, f)
  BY <1>1 DEF Accept
<1> HIDE DEF p
<1>5. granted' \in Ap \cup {None}
  <2> HIDE DEF f
  <2> QED BY <1>1, <1>2, <1>3, MngAssumption, AcceptType
<1>6. Heard(p, f, ad')
  <2> HIDE DEF f
  <2> QED BY <1>2, <1>3, <1>4, MngAssumption, ReceiveFacts
<1>7. ad' \in Adapter /\ Clock(ad, ad') /\ ad'.normal = Tail(ad.normal)
  BY <1>3, <1>6 DEF Heard, Comes, Clock
<1>8. left' \in [Bounded -> Nat] /\ left'["upset"] = left["upset"] /\ left'["upset"] <= left["upset"]
  BY <1>1, RareFacts
<1>9. TypeOK'
  BY <1>1, <1>5, <1>7, <1>8, TypeStep DEF TypeOK
<1>10. ASSUME CalmInv PROVE CalmInv'
  <2>1. Quiet(p)
    BY <1>3, <1>10 DEF CalmInv, Quiet
  <2>2. Quiet(ad')
    BY <1>6, <2>1 DEF Heard
  <2>3. /\ Ordered(ad'.high) /\ Alone(ad'.high)
        /\ ~Has(ad'.high, "RESET") /\ ~Has(ad'.high, "SET_SSID")
        /\ \A e : Has(ad'.high, e) => ~ad'.scanning
    <3>1. CASE ad'.high = ad.high
      BY <1>2, <3>1
    <3>2. CASE ad'.high = Append(ad.high, Event("DISCONNECTED")) /\ ~ad'.scanning
      <4>1. Event("DISCONNECTED") \in Tasks /\ Event("DISCONNECTED").event = "DISCONNECTED"
        BY TaskFacts
      <4>2. /\ Ordered(ad'.high) /\ Alone(ad'.high)
            /\ \A e : Has(ad'.high, e) <=> Event("DISCONNECTED").event = e
        BY <1>2, <3>2, <4>1, FirstTask
      <4> QED BY <3>2, <4>1, <4>2
    <3> QED BY <1>3, <1>6, <3>1, <3>2 DEF Heard
  <2>4. WaitsAreTimed'
    <3> SUFFICES ASSUME Untroubled, ad'.cur \in Trying \/ ad'.scanning
                 PROVE  ad'.ticking \/ TimeoutWaits'
      BY <1>1 DEF WaitsAreTimed, Untroubled
    <3>1. ad.normal \in Seq(Tasks \cup Frames) /\ Len(ad.normal) > 0 /\ f = ad.normal[1]
      BY <1>2, TypedQueues
    <3>2. ~Short(f)
      <4>1. 1 \in 1..Len(ad.normal)
        BY <3>1
      <4>2. left["upset"] \in Nat /\ Budget["upset"] \in Nat
        BY RareFacts, MngAssumption DEF TypeOK, MngAssumption
      <4> QED BY <1>10, <3>1, <4>1, <4>2 DEF CalmInv, UpsetOK, Untroubled
    <3>3. Heeded(p, ad')
      BY <1>6, <2>1, <3>2 DEF Heard
    <3>4. ad.running => ad.ticking
      BY <1>10 DEF CalmInv, TimerOK
    <3>5. CASE ad'.running
      BY <1>7, <3>4, <3>5 DEF Clock
    <3>6. CASE (p.cur \in Trying \/ p.scanning) /\ ad'.ticking = p.ticking
      <4>1. ad.ticking \/ TimeoutWaits
        BY <1>3, <1>10, <3>6 DEF CalmInv, WaitsAreTimed
      <4>2. TimeoutWaits => TimeoutWaits'
        <5> DEFINE q == ad.normal
                   r == Tail(q)
        <5>1. /\ DOMAIN q = 1..Len(q) /\ DOMAIN r = 1..Len(r) /\ Len(q) \in Nat
              /\ Len(r) = Len(q) - 1 /\ \A i \in 1..Len(r) : r[i] = q[i + 1]
          BY <3>1
        <5>2. q[1].event # "MNGTIMEOUT"
          BY <1>1, <3>1
        <5> HIDE DEF q, r
        <5>3. \A i \in DOMAIN q : q[i].event = "MNGTIMEOUT" => \E k \in DOMAIN r : r[k].event = "MNGTIMEOUT"
          <6> SUFFICES ASSUME NEW i \in DOMAIN q, q[i].event = "MNGTIMEOUT"
                       PROVE  \E k \in DOMAIN r : r[k].event = "MNGTIMEOUT"
            OBVIOUS
          <6>1. i # 1
            BY <5>2
          <6>2. i - 1 \in 1..Len(r) /\ (i - 1) + 1 = i
            BY <5>1, <6>1
          <6> QED BY <5>1, <6>2
        <5> QED BY <1>7, <5>3 DEF TimeoutWaits, q, r
      <4> QED BY <1>3, <3>6, <4>1, <4>2
    <3> QED BY <3>3, <3>5, <3>6 DEF Heeded
  <2> QED BY <1>1, <1>2, <1>7, <1>8, <1>9, <1>10, <2>2, <2>3, <2>4, CalmStep
<1> QED BY <1>9, <1>10

\* A task or a frame at the tail of the normal queue.
LEMMA NormalAppended ==
    ASSUME NEW a \in Adapter, NEW t \in Tasks \cup Frames,
           NEW b, b = [a EXCEPT !.normal = Append(a.normal, t)]
    PROVE  /\ b \in Adapter /\ SameFlags(a, b) /\ b.high = a.high
           /\ b.normal = Append(a.normal, t)
<1>1. Append(a.normal, t) \in Seq(Tasks \cup Frames)
  BY DEF Adapter
<1> DEFINE n == Append(a.normal, t)
<1> HIDE DEF n
<1>2. b = [a EXCEPT !.normal = n] /\ n \in Seq(Tasks \cup Frames)
  BY <1>1 DEF n
<1>3. b \in Adapter
  <2>1. [a EXCEPT !.normal = n] \in Adapter
    BY <1>2 DEF Adapter
  <2> QED BY <1>2, <2>1
<1>4. SameFlags(a, b) /\ b.high = a.high /\ b.normal = n
  BY <1>2, <1>3 DEF Adapter, SameFlags
<1> QED BY <1>3, <1>4 DEF n

\* It adds to the queue what it says.
LEMMA TimeoutStays ==
    ASSUME TypeOK, NEW t \in Tasks \cup Frames, ad'.normal = Append(ad.normal, t)
    PROVE  /\ TimeoutWaits => TimeoutWaits'
           /\ t.event = "MNGTIMEOUT" => TimeoutWaits'
           /\ ~Short(t) => ShortIn(ad.normal, ad'.normal)
<1> DEFINE q == ad.normal
           r == Append(q, t)
<1>1. q \in Seq(Tasks \cup Frames)
  BY TypedQueues
<1>2. /\ DOMAIN q = 1..Len(q) /\ DOMAIN r = 1..(Len(q) + 1) /\ Len(q) \in Nat
      /\ \A i \in 1..Len(q) : r[i] = q[i]
      /\ r[Len(q) + 1] = t
  BY <1>1
<1>3. ~Short(t) => ShortIn(q, r)
  BY <1>1, ShortInFacts
<1> HIDE DEF q, r
<1>4. Len(q) + 1 \in DOMAIN r /\ \A i \in DOMAIN q : i \in DOMAIN r
  BY <1>2
<1>5. ad.normal = q /\ ad'.normal = r
  BY DEF q, r
<1>6. TimeoutWaits => TimeoutWaits'
  BY <1>2, <1>4, <1>5 DEF TimeoutWaits
<1>7. t.event = "MNGTIMEOUT" => TimeoutWaits'
  BY <1>2, <1>4, <1>5 DEF TimeoutWaits
<1> QED BY <1>3, <1>5, <1>6, <1>7

\* What is queued for the worklet, with the rest as it was.
LEMMA QueuedStep ==
    ASSUME TypeOK, NEW f \in Tasks \cup Frames, ad' = [ad EXCEPT !.normal = Append(ad.normal, f)],
           worker' = worker, user' = user, tuned' = tuned, granted' = granted,
           left' \in [Bounded -> Nat],
           left'["upset"] < left["upset"] \/ (left'["upset"] = left["upset"] /\ ~Short(f))
    PROVE  TypeOK' /\ (CalmInv => CalmInv')
<1>1. ad \in Adapter
  BY TypedQueues
<1>2. /\ ad' \in Adapter /\ SameFlags(ad, ad') /\ ad'.high = ad.high
      /\ ad'.normal = Append(ad.normal, f)
  BY <1>1, NormalAppended
<1>3. TypeOK'
  BY <1>2, TypeStep DEF TypeOK, SameFlags, Clock
<1>4. ASSUME CalmInv PROVE CalmInv'
  <2>1. Quiet(ad') /\ Clock(ad, ad')
    BY <1>2, <1>4, SameStep
  <2>2. (TimeoutWaits => TimeoutWaits') /\ (~Short(f) => ShortIn(ad.normal, ad'.normal))
    BY <1>2, TimeoutStays
  <2>3. left'["upset"] = left["upset"] => WaitsAreTimed'
    BY <1>2, <1>4, <2>2 DEF CalmInv, SameFlags, WaitsAreTimed, Untroubled
  <2>4. left'["upset"] <= left["upset"]
    <3>1. left["upset"] \in Nat /\ left'["upset"] \in Nat
      BY RareFacts DEF TypeOK
    <3> QED BY <3>1
  <2>5. /\ Ordered(ad'.high) /\ Alone(ad'.high)
        /\ Has(ad'.high, "SET_SSID") =>
             /\ ~ad'.oid /\ ~ad'.scanning
             /\ worker' = "scan" => ~ad'.begin /\ ad'.reconnect # "NEED" /\ user'.pc # "scan"
        /\ Has(ad'.high, "DISCONNECTED") \/ Has(ad'.high, "RECOVER")
             => worker' = "idle" /\ ~ad'.scanning
        /\ Has(ad'.high, "RESET") => Has(ad.high, "RESET")
    BY <1>2, <1>4 DEF CalmInv, RequestOK, AheadOK, SameFlags
  <2> QED BY <1>2, <1>3, <1>4, <2>1, <2>2, <2>3, <2>4, <2>5, CalmStep
<1> QED BY <1>3, <1>4

\* The steps of the softirqs.
LEMMA BeaconArrivesStep ==
    ASSUME TypeOK, BeaconArrives PROVE TypeOK' /\ (CalmInv => CalmInv')
<1>1. PICK p \in Ap : ad' = Queued([event |-> "BEACON", ap |-> p])
  BY DEF BeaconArrives
<1> DEFINE f == [event |-> "BEACON", ap |-> p]
<1>2. f \in Tasks \cup Frames /\ ~Short(f)
  BY DEF Frames, Short
<1> HIDE DEF f
<1>3. ad' = [ad EXCEPT !.normal = Append(ad.normal, f)]
  <2>1. ad \in Adapter
    BY TypedQueues
  <2> QED BY <1>1, <2>1 DEF Queued, Adapter, f
<1>4. left' \in [Bounded -> Nat] /\ left'["upset"] = left["upset"]
  BY RareFacts DEF BeaconArrives
<1> QED BY <1>2, <1>3, <1>4, QueuedStep DEF BeaconArrives

\* A response cut short is counted.
LEMMA TakesFacts ==
    ASSUME TypeOK, NEW f \in Frames, Takes(f)
    PROVE  /\ worker' = worker /\ user' = user /\ tuned' = tuned
           /\ left' \in [Bounded -> Nat] /\ left'["upset"] <= left["upset"]
           /\ left'["upset"] < left["upset"] \/ (left'["upset"] = left["upset"] /\ ~Short(f))
<1>1. worker' = worker /\ user' = user /\ tuned' = tuned
  BY DEF Takes
<1>2. \/ f \in Answers /\ left' = left
      \/ f \in Oddities /\ Use("odd")
      \/ Use("upset")
  BY DEF Takes
<1>3. (f \in Answers => ~Short(f)) /\ (f \in Oddities => ~Short(f))
  BY DEF Answers, Oddities, Short
<1>4. "odd" \in Bounded /\ "upset" \in Bounded
  BY RareFacts
<1>5. CASE f \in Answers /\ left' = left
  BY <1>1, <1>3, <1>5, RareFacts
<1>6. CASE f \in Oddities /\ Use("odd")
  BY <1>1, <1>3, <1>4, <1>6, RareFacts
<1>7. CASE Use("upset")
  BY <1>1, <1>4, <1>7, RareFacts
<1> QED BY <1>2, <1>5, <1>6, <1>7

\* A frame is queued.
LEMMA FrameArrivesStep ==
    ASSUME TypeOK, FrameArrives PROVE TypeOK' /\ (CalmInv => CalmInv')
<1>1. PICK f \in Frames : Takes(f) /\ ad' = Queued(f) /\ granted' = granted
  BY DEF FrameArrives
<1>2. ad' = [ad EXCEPT !.normal = Append(ad.normal, f)]
  <2>1. ad \in Adapter
    BY TypedQueues
  <2> QED BY <1>1, <2>1 DEF Queued, Adapter
<1> QED BY <1>1, <1>2, TakesFacts, QueuedStep

\* The softirq takes the response itself: it begins no scan.
LEMMA AssocArrivesStep ==
    ASSUME TypeOK, AssocArrives PROVE TypeOK' /\ (CalmInv => CalmInv')
<1>1. PICK f \in Frames : f.event = "ASSOC" /\ Takes(f) /\ Accept(Receive(ad, f), f)
  BY DEF AssocArrives
<1>2. /\ worker' = worker /\ user' = user /\ tuned' = tuned
      /\ left' \in [Bounded -> Nat] /\ left'["upset"] <= left["upset"]
      /\ left'["upset"] < left["upset"] \/ (left'["upset"] = left["upset"] /\ ~Short(f))
  BY <1>1, TakesFacts
<1>3. ad \in Adapter /\ ad' = Receive(ad, f)
  BY <1>1, TypedQueues DEF Accept
<1>4. Heard(ad, f, ad')
  BY <1>3, MngAssumption, ReceiveFacts
<1>5. granted' \in Ap \cup {None}
  BY <1>1, <1>3, MngAssumption, AcceptType
<1>6. /\ ad' \in Adapter /\ Clock(ad, ad') /\ ad'.normal = ad.normal /\ ad'.high = ad.high
      /\ (ad'.oid => ad.oid) /\ (ad'.scanning => ad.scanning) /\ (ad'.begin => ad.begin)
      /\ (ad'.reconnect = "NEED" => ad.reconnect = "NEED")
  BY <1>1, <1>4 DEF Heard, Comes
<1>7. TypeOK'
  BY <1>2, <1>5, <1>6, TypeStep DEF TypeOK
<1>8. ASSUME CalmInv PROVE CalmInv'
  <2>1. Quiet(ad') /\ (~Short(f) => Heeded(ad, ad'))
    BY <1>4, <1>8 DEF Heard, CalmInv
  <2>2. left'["upset"] = left["upset"] /\ ~Short(f) => WaitsAreTimed'
    BY <1>6, <1>8, <2>1 DEF CalmInv, TimerOK, Clock, Heeded, WaitsAreTimed, Untroubled, TimeoutWaits
  <2>3. ShortIn(ad.normal, ad'.normal)
    BY <1>6, TypedQueues, ShortInFacts
  <2>4. /\ Ordered(ad'.high) /\ Alone(ad'.high)
        /\ Has(ad'.high, "SET_SSID") =>
             /\ ~ad'.oid /\ ~ad'.scanning
             /\ worker' = "scan" => ~ad'.begin /\ ad'.reconnect # "NEED" /\ user'.pc # "scan"
        /\ Has(ad'.high, "DISCONNECTED") \/ Has(ad'.high, "RECOVER")
             => worker' = "idle" /\ ~ad'.scanning
    BY <1>2, <1>6, <1>8 DEF CalmInv, RequestOK, AheadOK
  <2> QED BY <1>2, <1>6, <1>7, <1>8, <2>1, <2>2, <2>3, <2>4, CalmStep
<1> QED BY <1>7, <1>8

\* The timer is off, but its timeout is queued.
LEMMA TimerFiresStep ==
    ASSUME TypeOK, TimerFires PROVE TypeOK' /\ (CalmInv => CalmInv')
<1> DEFINE a == ClearTimer(ad)
           t == Event("MNGTIMEOUT")
<1>1. /\ worker' = worker /\ user' = user /\ tuned' = tuned /\ granted' = granted
      /\ \/ ad' = [a EXCEPT !.normal = Append(@, t)] /\ left' = left
         \/ ad' = a /\ Use("upset")
  BY DEF TimerFires
<1>2. /\ a \in Adapter /\ Follows(ad, a) /\ a.cur = ad.cur
      /\ a.running = FALSE /\ a.ticking = FALSE
      /\ a.oid = ad.oid /\ a.scanning = ad.scanning /\ a.begin = ad.begin
      /\ a.reconnect = ad.reconnect
  <2>1. ad \in Adapter
    BY TypedQueues
  <2>2. /\ a.oid = ad.oid /\ a.scanning = ad.scanning /\ a.begin = ad.begin
        /\ a.reconnect = ad.reconnect
    BY <2>1 DEF ClearTimer, Adapter
  <2> QED BY <2>1, <2>2, TimerFacts, TimerType
<1>3. t \in Tasks /\ t.event = "MNGTIMEOUT" /\ ~Short(t)
  BY TaskFacts DEF Short
<1> HIDE DEF a, t
<1>4. \/ /\ left' = left /\ ad' \in Adapter /\ SameFlags(a, ad') /\ ad'.high = a.high
         /\ ad'.normal = Append(ad.normal, t)
      \/ ad' = a /\ Use("upset")
  <2>1. ASSUME ad' = [a EXCEPT !.normal = Append(@, t)]
        PROVE  /\ ad' \in Adapter /\ SameFlags(a, ad') /\ ad'.high = a.high
               /\ ad'.normal = Append(a.normal, t)
    <3>1. ad' = [a EXCEPT !.normal = Append(a.normal, t)]
      BY <1>2, <2>1 DEF Adapter
    <3> QED BY <1>2, <1>3, <3>1, NormalAppended
  <2> QED BY <1>1, <1>2, <2>1 DEF Follows
<1>5. /\ ad' \in Adapter /\ ad'.high = ad.high
      /\ ad'.cur = ad.cur /\ ad'.oid = ad.oid /\ ad'.scanning = ad.scanning
      /\ ad'.begin = ad.begin /\ ad'.reconnect = ad.reconnect
      /\ ad'.running = FALSE /\ ad'.ticking = FALSE
  BY <1>2, <1>4 DEF SameFlags, Follows
<1>6. /\ left' \in [Bounded -> Nat] /\ left'["upset"] <= left["upset"]
      /\ left'["upset"] < left["upset"] \/ left' = left
  BY <1>4, RareFacts
<1>7. TypeOK'
  BY <1>1, <1>5, <1>6, TypeStep DEF TypeOK, Clock
<1>8. ASSUME CalmInv PROVE CalmInv'
  <2>1. Quiet(ad') /\ Clock(ad, ad')
    BY <1>5, <1>8 DEF CalmInv, Quiet, Clock
  <2>2. \/ left'["upset"] < left["upset"]
        \/ ShortIn(ad.normal, ad'.normal) /\ WaitsAreTimed'
    <3>1. CASE ad'.normal = Append(ad.normal, t)
      BY <1>3, <3>1, TimeoutStays DEF WaitsAreTimed
    <3>2. CASE ad' = a /\ Use("upset")
      BY <3>2, RareFacts
    <3> QED BY <1>4, <3>1, <3>2
  <2>3. /\ Ordered(ad'.high) /\ Alone(ad'.high)
        /\ Has(ad'.high, "SET_SSID") =>
             /\ ~ad'.oid /\ ~ad'.scanning
             /\ worker' = "scan" => ~ad'.begin /\ ad'.reconnect # "NEED" /\ user'.pc # "scan"
        /\ Has(ad'.high, "DISCONNECTED") \/ Has(ad'.high, "RECOVER")
             => worker' = "idle" /\ ~ad'.scanning
    BY <1>1, <1>5, <1>8 DEF CalmInv, RequestOK, AheadOK
  <2> QED BY <1>5, <1>6, <1>7, <1>8, <2>1, <2>2, <2>3, CalmStep
<1> QED BY <1>7, <1>8

\* A request that creates a task, or creates none, and is no request for a network.
LEMMA AskedStep ==
    ASSUME TypeOK, NEW c \in Adapter, Alike(ad, c),
           NEW t \in Tasks, t.event \notin { "SET_SSID", "DISCONNECTED", "RECOVER" },
           ad' = c \/ ad' = Create(c, t),
           worker' = worker, tuned' = tuned, granted' = granted,
           user' \in [pc : { "idle", "ssid", "scan" }, ssid : Ssid \cup {None}],
           left' \in [Bounded -> Nat],
           left'["upset"] < left["upset"] \/ (left'["upset"] = left["upset"] /\ t.event # "RESET")
    PROVE  /\ TypeOK'
           /\ CalmInv /\ (worker = "idle" \/ user'.pc # "scan" \/ user' = user) => CalmInv'
<1>1. c.high = ad.high /\ c.normal = ad.normal /\ SameFlags(ad, c)
  BY DEF Alike, SameFlags
<1>2. /\ ad' \in Adapter /\ SameFlags(ad, ad') /\ ad'.normal = ad.normal
      /\ ad'.high = ad.high \/ ad'.high = Append(ad.high, t)
  <2>1. CASE ad' = c
    BY <1>1, <2>1
  <2>2. CASE ad' = Create(c, t)
    <3>1. /\ Create(c, t) \in Adapter /\ Create(c, t).high = Append(c.high, t)
          /\ Create(c, t).normal = c.normal /\ SameFlags(c, Create(c, t))
      BY CreateType, CreateFacts DEF SameFlags
    <3> QED BY <1>1, <2>2, <3>1 DEF SameFlags
  <2> QED BY <2>1, <2>2
<1>3. TypeOK'
  BY <1>2, TypeStep DEF TypeOK, SameFlags, Clock
<1>4. ASSUME CalmInv, worker = "idle" \/ user'.pc # "scan" \/ user' = user PROVE CalmInv'
  <2>1. Quiet(ad') /\ Clock(ad, ad')
    BY <1>2, <1>4, SameStep
  <2>2. left'["upset"] <= left["upset"]
    <3>1. left["upset"] \in Nat /\ left'["upset"] \in Nat
      BY RareFacts DEF TypeOK
    <3> QED BY <3>1
  <2>3. left'["upset"] = left["upset"] => WaitsAreTimed'
    BY <1>2, <1>4 DEF CalmInv, SameFlags, WaitsAreTimed, Untroubled, TimeoutWaits
  <2>4. ShortIn(ad.normal, ad'.normal)
    BY <1>2, TypedQueues, ShortInFacts
  <2>5. /\ Ordered(ad'.high) /\ Alone(ad'.high)
        /\ \A e : Has(ad'.high, e) => Has(ad.high, e) \/ e = t.event
    <3>1. ad.high \in Seq(Tasks) /\ Ordered(ad.high) /\ Alone(ad.high)
      BY <1>4, TypedQueues DEF CalmInv, AheadOK
    <3>2. CASE ad'.high = ad.high
      BY <3>1, <3>2
    <3>3. CASE ad'.high = Append(ad.high, t)
      BY <3>1, <3>3, QueueAppend
    <3> QED BY <1>2, <3>2, <3>3
  <2>6. /\ Has(ad'.high, "SET_SSID") =>
             /\ ~ad'.oid /\ ~ad'.scanning
             /\ worker' = "scan" => ~ad'.begin /\ ad'.reconnect # "NEED" /\ user'.pc # "scan"
        /\ Has(ad'.high, "DISCONNECTED") \/ Has(ad'.high, "RECOVER")
             => worker' = "idle" /\ ~ad'.scanning
    <3>1. Has(ad'.high, "SET_SSID") => Has(ad.high, "SET_SSID")
      BY <2>5
    <3>2. Has(ad'.high, "DISCONNECTED") \/ Has(ad'.high, "RECOVER")
            => Has(ad.high, "DISCONNECTED") \/ Has(ad.high, "RECOVER")
      BY <2>5
    <3>3. /\ ad'.oid = ad.oid /\ ad'.scanning = ad.scanning /\ ad'.begin = ad.begin
          /\ ad'.reconnect = ad.reconnect
      BY <1>2 DEF SameFlags
    <3> QED BY <1>4, <3>1, <3>2, <3>3 DEF CalmInv, RequestOK, AheadOK
  <2>7. left'["upset"] = left["upset"] => (Has(ad'.high, "RESET") => Has(ad.high, "RESET"))
    <3>1. left["upset"] \in Nat /\ left'["upset"] \in Nat
      BY RareFacts DEF TypeOK
    <3> QED BY <2>5, <3>1
  <2> QED BY <1>3, <1>4, <2>1, <2>2, <2>3, <2>4, <2>5, <2>6, <2>7, CalmStep
<1> QED BY <1>3, <1>4

\* A reset is counted.
LEMMA ResetInterruptStep ==
    ASSUME TypeOK, ResetInterrupt PROVE TypeOK' /\ (CalmInv => CalmInv')
<1>1. /\ ad' = Create(ad, Event("RESET")) /\ Use("upset")
      /\ worker' = worker /\ user' = user /\ tuned' = tuned /\ granted' = granted
  BY DEF ResetInterrupt
<1>2. Event("RESET") \in Tasks /\ Event("RESET").event = "RESET"
  BY TaskFacts
<1>3. ad \in Adapter /\ Alike(ad, ad)
  BY TypedQueues DEF Alike
<1>4. left' \in [Bounded -> Nat] /\ left'["upset"] < left["upset"]
  BY <1>1, RareFacts
<1>5. user' \in [pc : { "idle", "ssid", "scan" }, ssid : Ssid \cup {None}]
  BY <1>1 DEF TypeOK
<1>6. Event("RESET").event \notin { "SET_SSID", "DISCONNECTED", "RECOVER" }
  BY <1>2
<1> QED BY <1>1, <1>2, <1>3, <1>4, <1>5, <1>6, AskedStep

\* A request to end the connection.
LEMMA DisassocAsked ==
    \A ind \in BOOLEAN :
      /\ DisassocTask(ind) \in Tasks
      /\ DisassocTask(ind).event \notin { "SET_SSID", "DISCONNECTED", "RECOVER", "RESET" }
BY TaskFacts

\* The steps of the user.
LEMMA AskSsidStep ==
    ASSUME TypeOK, AskSsid PROVE TypeOK' /\ (CalmInv => CalmInv')
<1>1. PICK s \in Ssid :
        /\ Use("ask") /\ worker' = worker /\ tuned' = tuned /\ granted' = granted
        /\ \/ ad' = ad /\ user' = user
           \/ /\ user' = [pc |-> "ssid", ssid |-> s]
              /\ ad' = ad \/ ad' = Create(ad, DisassocTask(FALSE))
  BY DEF AskSsid
<1> DEFINE t == DisassocTask(FALSE)
<1>2. t \in Tasks /\ t.event \notin { "SET_SSID", "DISCONNECTED", "RECOVER", "RESET" }
  BY DisassocAsked
<1> HIDE DEF t
<1>3. ad \in Adapter /\ Alike(ad, ad)
  BY TypedQueues DEF Alike
<1>4. left' \in [Bounded -> Nat] /\ left'["upset"] = left["upset"]
  BY <1>1, RareFacts
<1>5. /\ user' \in [pc : { "idle", "ssid", "scan" }, ssid : Ssid \cup {None}]
      /\ user'.pc # "scan" \/ user' = user
  <2>1. CASE user' = user
    BY <2>1 DEF TypeOK
  <2>2. CASE user' = [pc |-> "ssid", ssid |-> s]
    BY <2>2
  <2> QED BY <1>1, <2>1, <2>2
<1>6. ad' = ad \/ ad' = Create(ad, t)
  BY <1>1 DEF t
<1> QED BY <1>1, <1>2, <1>3, <1>4, <1>5, <1>6, AskedStep

\* The user ends the connection.
LEMMA DisassociateStep ==
    ASSUME TypeOK, Disassociate PROVE TypeOK' /\ (CalmInv => CalmInv')
<1> DEFINE a == [ad EXCEPT !.disassoc = TRUE]
           t == DisassocTask(TRUE)
<1>1. /\ Use("ask") /\ worker' = worker /\ user' = user /\ tuned' = tuned /\ granted' = granted
      /\ ad' = a \/ ad' = Create(a, t)
  BY DEF Disassociate
<1>2. t \in Tasks /\ t.event \notin { "SET_SSID", "DISCONNECTED", "RECOVER", "RESET" }
  BY DisassocAsked
<1> HIDE DEF t
<1>3. a \in Adapter /\ Alike(ad, a)
  <2>1. ad \in Adapter
    BY TypedQueues
  <2>2. a \in Adapter
    BY <2>1 DEF Adapter
  <2> QED BY <2>1, <2>2 DEF Adapter, Alike
<1> HIDE DEF a
<1>4. left' \in [Bounded -> Nat] /\ left'["upset"] = left["upset"]
  BY <1>1, RareFacts
<1>5. user' \in [pc : { "idle", "ssid", "scan" }, ssid : Ssid \cup {None}]
  BY <1>1 DEF TypeOK
<1> QED BY <1>1, <1>2, <1>3, <1>4, <1>5, AskedStep

\* The user chooses how to authenticate.
LEMMA Set_AuthStep ==
    ASSUME TypeOK, Set_Auth PROVE TypeOK' /\ (CalmInv => CalmInv')
<1> DEFINE b == [ad EXCEPT !.privacy = FALSE]
           d == [ad EXCEPT !.alg = "open"]
           e == [ad EXCEPT !.alg = "shared", !.privacy = TRUE]
           t == DisassocTask(TRUE)
<1>1. /\ Use("ask") /\ worker' = worker /\ user' = user /\ tuned' = tuned /\ granted' = granted
      /\ ad' \in { b, d, e }
  BY DEF Set_Auth
<1>2. t \in Tasks /\ t.event \notin { "SET_SSID", "DISCONNECTED", "RECOVER", "RESET" }
  BY DisassocAsked
<1> HIDE DEF t
<1>3. b \in Adapter /\ d \in Adapter /\ e \in Adapter /\ Alike(ad, b) /\ Alike(ad, d) /\ Alike(ad, e)
  <2>1. ad \in Adapter
    BY TypedQueues
  <2>2. b \in Adapter /\ d \in Adapter
    BY <2>1 DEF Adapter
  <2>3. e \in Adapter
    BY <2>1 DEF Adapter
  <2> QED BY ZenonT(60), <2>1, <2>2, <2>3 DEF Adapter, Alike
<1> HIDE DEF b, d, e
<1>4. left' \in [Bounded -> Nat] /\ left'["upset"] = left["upset"]
  BY <1>1, RareFacts
<1>5. user' \in [pc : { "idle", "ssid", "scan" }, ssid : Ssid \cup {None}]
  BY <1>1 DEF TypeOK
<1>6. ASSUME NEW c \in Adapter, Alike(ad, c), ad' = c PROVE TypeOK' /\ (CalmInv => CalmInv')
  BY <1>1, <1>2, <1>4, <1>5, <1>6, AskedStep
<1> QED BY <1>1, <1>3, <1>6

\* The user gives a key or takes one away.
LEMMA Set_EncodeStep ==
    ASSUME TypeOK, Set_Encode PROVE TypeOK' /\ (CalmInv => CalmInv')
<1>1. PICK add \in BOOLEAN :
        ad' = Create([ad EXCEPT !.privacy = @ \/ add], [event |-> "WEP", add |-> add])
  BY DEF Set_Encode
<1> DEFINE keys == ad.privacy \/ add
           c == [ad EXCEPT !.privacy = keys]
           t == [event |-> "WEP", add |-> add]
<1>2. /\ Use("ask") /\ worker' = worker /\ user' = user /\ tuned' = tuned /\ granted' = granted
      /\ ad' = Create(c, t)
  <2>1. [ad EXCEPT !.privacy = @ \/ add] = c
    OBVIOUS
  <2> QED BY <1>1, <2>1 DEF Set_Encode
<1>3. t \in Tasks /\ t.event = "WEP"
  BY TaskFacts
<1>4. keys \in BOOLEAN
  OBVIOUS
<1> HIDE DEF t, keys
<1>5. c \in Adapter /\ Alike(ad, c)
  <2>1. ad \in Adapter
    BY TypedQueues
  <2>2. c \in Adapter
    BY <1>4, <2>1 DEF Adapter
  <2> QED BY <2>1, <2>2 DEF Adapter, Alike
<1> HIDE DEF c
<1>6. left' \in [Bounded -> Nat] /\ left'["upset"] = left["upset"]
  BY <1>2, RareFacts
<1>7. user' \in [pc : { "idle", "ssid", "scan" }, ssid : Ssid \cup {None}]
  BY <1>2 DEF TypeOK
<1> QED BY <1>2, <1>3, <1>5, <1>6, <1>7, AskedStep

\* A scan must not be asked for while one waits to begin.
LEMMA AskScanStep ==
    ASSUME TypeOK, AskScan
    PROVE  TypeOK' /\ (CalmInv /\ worker = "idle" => CalmInv')
<1> DEFINE a == [ad EXCEPT !.disassoc = FALSE]
           t == Event("SCAN")
<1>1. /\ Use("ask") /\ worker' = worker /\ tuned' = tuned /\ granted' = granted
      /\ user' = user \/ user' = [user EXCEPT !.pc = "scan"]
      /\ ad' = a \/ ad' = Create(a, t)
  BY DEF AskScan
<1>2. t \in Tasks /\ t.event = "SCAN"
  BY TaskFacts
<1> HIDE DEF t
<1>3. a \in Adapter /\ Alike(ad, a)
  <2>1. ad \in Adapter
    BY TypedQueues
  <2>2. a \in Adapter
    BY <2>1 DEF Adapter
  <2> QED BY <2>1, <2>2 DEF Adapter, Alike
<1> HIDE DEF a
<1>4. left' \in [Bounded -> Nat] /\ left'["upset"] = left["upset"]
  BY <1>1, RareFacts
<1>5. user' \in [pc : { "idle", "ssid", "scan" }, ssid : Ssid \cup {None}]
  BY <1>1 DEF TypeOK
<1>6. t.event \notin { "SET_SSID", "DISCONNECTED", "RECOVER" } /\ t.event # "RESET"
  BY <1>2
<1> QED BY <1>1, <1>2, <1>3, <1>4, <1>5, <1>6, AskedStep

\* The flag of the scan is set: no request for a network has come in between.
LEMMA Start_ScanStep ==
    ASSUME TypeOK, Start_Scan PROVE TypeOK' /\ (CalmInv => CalmInv')
<1>1. /\ user.pc = "scan" /\ user' = [user EXCEPT !.pc = "idle"]
      /\ ad' = [ad EXCEPT !.begin = TRUE]
      /\ worker' = worker /\ tuned' = tuned /\ granted' = granted /\ left' = left
  BY DEF Start_Scan
<1>2. /\ ad' \in Adapter
      /\ ad'.cur = ad.cur /\ ad'.oid = ad.oid /\ ad'.scanning = ad.scanning /\ ad'.begin
      /\ ad'.running = ad.running /\ ad'.ticking = ad.ticking /\ ad'.reconnect = ad.reconnect
      /\ ad'.high = ad.high /\ ad'.normal = ad.normal
  <2>1. ad \in Adapter
    BY TypedQueues
  <2>2. ad' \in Adapter
    BY <1>1, <2>1 DEF Adapter
  <2> QED BY <1>1, <2>1, <2>2 DEF Adapter
<1>3. /\ user' \in [pc : { "idle", "ssid", "scan" }, ssid : Ssid \cup {None}]
      /\ user'.pc = "idle"
  BY <1>1 DEF TypeOK
<1>4. TypeOK'
  BY <1>1, <1>2, <1>3, TypeStep DEF TypeOK, Clock
<1>5. ASSUME CalmInv PROVE CalmInv'
  <2>1. Quiet(ad') /\ Clock(ad, ad') /\ WaitsAreTimed'
    BY <1>1, <1>2, <1>5 DEF CalmInv, Quiet, Clock, WaitsAreTimed, Untroubled, TimeoutWaits
  <2>2. ShortIn(ad.normal, ad'.normal) /\ left'["upset"] <= left["upset"]
    BY <1>1, <1>2, TypedQueues, ShortInFacts, RareFacts
  <2>3. /\ Ordered(ad'.high) /\ Alone(ad'.high)
        /\ Has(ad'.high, "SET_SSID") => ~ad'.oid /\ ~ad'.scanning /\ worker' # "scan"
        /\ Has(ad'.high, "DISCONNECTED") \/ Has(ad'.high, "RECOVER")
             => worker' = "idle" /\ ~ad'.scanning
    BY <1>1, <1>2, <1>5 DEF CalmInv, RequestOK, AheadOK
  <2> QED BY <1>2, <1>4, <1>5, <2>1, <2>2, <2>3, CalmStep
<1> QED BY <1>4, <1>5

\* The request for a network breaks off what goes on and drops the scans that wait.
LEMMA Set_SSIDStep ==
    ASSUME TypeOK, Set_SSID PROVE TypeOK' /\ (CalmInv => CalmInv')
<1>1. /\ user' = [pc |-> "idle", ssid |-> None]
      /\ worker' = worker /\ tuned' = tuned /\ granted' = granted /\ left' = left
  BY DEF Set_SSID
<1>2. /\ ad' \in Adapter /\ Clock(ad, ad') /\ ad'.normal = ad.normal
      /\ ad'.cur = "IDLE" /\ ~ad'.oid /\ ~ad'.begin /\ ad'.reconnect = "NO"
      /\ Quiet(ad) => ~ad'.scanning
  BY SetSsidFacts
<1>3. PICK q \in Dropped(ad.high, { "SCAN" }) :
        \/ ad'.high = q
        \/ \E t \in Tasks : t.event = "SET_SSID" /\ ~Has(q, "SET_SSID") /\ ad'.high = Append(q, t)
  BY SetSsidFacts
<1>4. TypeOK'
  BY <1>1, <1>2, TypeStep DEF TypeOK
<1>5. ASSUME CalmInv PROVE CalmInv'
  <2>1. ~ad'.scanning /\ Quiet(ad') /\ Watched(ad')
    BY <1>2, <1>5 DEF CalmInv, Quiet, Watched, Trying
  <2>2. ShortIn(ad.normal, ad'.normal) /\ left'["upset"] <= left["upset"]
    BY <1>1, <1>2, TypedQueues, ShortInFacts, RareFacts
  <2>3. /\ q \in Seq(Tasks) /\ Ordered(q) /\ Alone(q) /\ ~Has(q, "SCAN")
        /\ \A e : Has(q, e) => Has(ad.high, e)
    <3>1. ad.high \in Seq(Tasks) /\ Ordered(ad.high) /\ Alone(ad.high)
      BY <1>5, TypedQueues DEF CalmInv, AheadOK
    <3> QED BY <1>3, <3>1, QueueDropped
  <2>4. /\ Ordered(ad'.high) /\ Alone(ad'.high)
        /\ Has(ad'.high, "RESET") => Has(ad.high, "RESET")
        /\ Has(ad'.high, "DISCONNECTED") => Has(ad.high, "DISCONNECTED")
        /\ Has(ad'.high, "RECOVER") => Has(ad.high, "RECOVER")
    <3>1. CASE ad'.high = q
      BY <2>3, <3>1
    <3>2. ASSUME NEW t \in Tasks, t.event = "SET_SSID", ~Has(q, "SET_SSID"), ad'.high = Append(q, t)
          PROVE  /\ Ordered(ad'.high) /\ Alone(ad'.high)
                 /\ \A e : Has(ad'.high, e) <=> Has(q, e) \/ t.event = e
      BY <2>3, <3>2, QueueAppend
    <3> QED BY <1>3, <2>3, <3>1, <3>2
  <2>5. Has(ad'.high, "DISCONNECTED") \/ Has(ad'.high, "RECOVER") => worker' = "idle"
    BY <1>1, <1>5, <2>4 DEF CalmInv, AheadOK
  <2> QED BY <1>1, <1>2, <1>4, <1>5, <2>1, <2>2, <2>4, <2>5, CalmStep
<1> QED BY <1>4, <1>5

\* The beacons must not be lost while a request to end the connection waits.
LEMMA BeaconsLostStep ==
    ASSUME TypeOK, BeaconsLost
    PROVE  TypeOK' /\ (CalmInv /\ ~Ending => CalmInv')
<1> DEFINE a == [ad EXCEPT !.reconnect = "NEED"]
           b == [a EXCEPT !.scanning = FALSE, !.heard = {}, !.known = {}]
           t == Event("SCAN")
<1>1. /\ ~ad.oid /\ Use("roam")
      /\ worker' = worker /\ user' = user /\ tuned' = tuned /\ granted' = granted
      /\ ad' = a \/ ad' = Create(b, t)
  BY DEF BeaconsLost
<1>2. t \in Tasks /\ t.event = "SCAN"
  BY TaskFacts
<1>3. ad \in Adapter /\ ad.high \in Seq(Tasks) /\ \A e : Waits(ad, e) <=> Has(ad.high, e)
  BY TypedQueues
<1>4. /\ a \in Adapter /\ a.cur = ad.cur /\ a.oid = ad.oid /\ a.begin = ad.begin
      /\ a.scanning = ad.scanning /\ a.running = ad.running /\ a.ticking = ad.ticking
      /\ a.high = ad.high /\ a.normal = ad.normal
  <2>1. a \in Adapter
    BY <1>3 DEF Adapter
  <2> QED BY <1>3, <2>1 DEF Adapter
<1> HIDE DEF a
<1>5. /\ b \in Adapter /\ b.cur = a.cur /\ b.oid = a.oid /\ b.begin = a.begin
      /\ ~b.scanning /\ b.running = a.running /\ b.ticking = a.ticking
      /\ b.high = a.high /\ b.normal = a.normal
  <2>1. b \in Adapter
    BY <1>4 DEF Adapter
  <2> QED BY <1>4, <2>1 DEF Adapter
<1> HIDE DEF b, t
<1>6. /\ ad' \in Adapter /\ ad'.cur = ad.cur /\ ad'.oid = ad.oid /\ ad'.begin = ad.begin
      /\ (ad'.scanning => ad.scanning)
      /\ ad'.running = ad.running /\ ad'.ticking = ad.ticking /\ ad'.normal = ad.normal
      /\ ad'.high = ad.high \/ ad'.high = Append(ad.high, t)
  <2>1. CASE ad' = a
    BY <1>4, <2>1
  <2>2. CASE ad' = Create(b, t)
    <3>1. /\ Create(b, t) \in Adapter /\ Create(b, t).high = Append(b.high, t)
          /\ Create(b, t).cur = b.cur /\ Create(b, t).oid = b.oid
          /\ Create(b, t).scanning = b.scanning /\ Create(b, t).begin = b.begin
          /\ Create(b, t).normal = b.normal
          /\ Create(b, t).running = b.running /\ Create(b, t).ticking = b.ticking
      BY <1>2, <1>5, CreateType, CreateFacts
    <3> QED BY <1>4, <1>5, <2>2, <3>1
  <2> QED BY <1>1, <2>1, <2>2
<1>7. left' \in [Bounded -> Nat] /\ left'["upset"] = left["upset"]
  BY <1>1, RareFacts
<1>8. TypeOK'
  BY <1>1, <1>6, <1>7, TypeStep DEF TypeOK, Clock
<1>9. ASSUME CalmInv, ~Ending PROVE CalmInv'
  <2>1. Quiet(ad') /\ Clock(ad, ad')
    BY <1>1, <1>6, <1>9 DEF CalmInv, Quiet, Clock
  <2>2. WaitsAreTimed'
    BY <1>6, <1>7, <1>9 DEF CalmInv, WaitsAreTimed, Untroubled, TimeoutWaits
  <2>3. ShortIn(ad.normal, ad'.normal)
    BY <1>6, TypedQueues, ShortInFacts
  <2>4. left'["upset"] <= left["upset"]
    BY <1>7, RareFacts
  <2>5. /\ Ordered(ad'.high) /\ Alone(ad'.high)
        /\ \A e : Has(ad'.high, e) => Has(ad.high, e) \/ e = "SCAN"
    <3>1. Ordered(ad.high) /\ Alone(ad.high)
      BY <1>9 DEF CalmInv, AheadOK
    <3>2. CASE ad'.high = ad.high
      BY <3>1, <3>2
    <3>3. CASE ad'.high = Append(ad.high, t)
      BY <1>2, <1>3, <3>1, <3>3, QueueAppend
    <3> QED BY <1>6, <3>2, <3>3
  <2>6. ~Has(ad'.high, "SET_SSID")
    BY <1>3, <1>9, <2>5 DEF Ending
  <2>7. /\ Has(ad'.high, "DISCONNECTED") \/ Has(ad'.high, "RECOVER")
             => worker' = "idle" /\ ~ad'.scanning
        /\ Has(ad'.high, "RESET") => Has(ad.high, "RESET")
    <3>1. Has(ad'.high, "DISCONNECTED") \/ Has(ad'.high, "RECOVER")
            => Has(ad.high, "DISCONNECTED") \/ Has(ad.high, "RECOVER")
      BY <2>5
    <3>2. Has(ad'.high, "RESET") => Has(ad.high, "RESET")
      BY <2>5
    <3> QED BY <1>1, <1>6, <1>9, <3>1, <3>2 DEF CalmInv, AheadOK
  <2> QED BY <1>8, <1>9, <2>1, <2>2, <2>3, <2>4, <2>5, <2>6, <2>7, CalmStep
<1> QED BY <1>8, <1>9

-----------------------------------------------------------------------------
(* What the functions do to the connection.                                *)

Seeking == { "NEED", "CAN" }

\* The connection is as it was, and so are the tasks.
Still(a, b) ==
    /\ b.cur = a.cur /\ b.link = a.link /\ b.joined = a.joined /\ b.reconnect = a.reconnect
    /\ b.used.ap = a.used.ap /\ b.attr.ap = a.attr.ap /\ b.high = a.high

\* The connection is not kept without its access point: it is left as it was, given up,
\* or taken up by the task that is created.
Stays(a, b) ==
    /\ b.link => a.link
    /\ b.joined => a.joined
    /\ b.attr.ap = a.attr.ap
    /\ b.cur \in { a.cur, "IDLE" }
    /\ b.link => b.cur = a.cur \/ a.cur \in Trying
    /\ b.link /\ b.reconnect = "NO" => a.reconnect = "NO" \/ a.attr.ap = None
    /\ b.reconnect \in Seeking => /\ a.reconnect \in Seeking
                                  /\ b.link = a.link \/ a.cur \in Trying
    /\ \/ b.high = a.high /\ b.used.ap = a.used.ap
       \/ \E t \in Tasks :
            /\ b.high = Append(a.high, t) /\ b.reconnect \notin Seeking
            /\ \/ t.event = "SET_SSID"
               \/ /\ t.event = "RECOVER" /\ b.reconnect # "NO"
                  /\ b.used.ap = a.used.ap /\ b.link = a.link
                  /\ a.attr.ap # None /\ a.reconnect \in Seeking

\* What changes nothing of the connection.
LEMMA StillStays ==
    ASSUME NEW a, NEW b, NEW c, Still(a, b)
    PROVE  /\ Stays(a, b)
           /\ Stays(b, c) => Stays(a, c)
           /\ Still(b, c) => Still(a, c)
<1>1. Stays(a, b)
  BY DEF Still, Stays
<1>2. Stays(b, c) => Stays(a, c)
  BY DEF Still, Stays
<1> QED BY <1>1, <1>2 DEF Still

\* The functions that set no field of it ...
LEMMA StillFacts ==
    ASSUME NEW a \in Adapter, NEW n, NEW w
    PROVE  /\ Still(a, a)
           /\ Still(a, SetTimer(a)) /\ Still(a, ClearTimer(a)) /\ Still(a, Fail(a))
           /\ Still(a, ScanFlagsCleared(a))
           /\ Still(a, [a EXCEPT !.oid = n]) /\ Still(a, [a EXCEPT !.retry = n])
           /\ Still(a, [a EXCEPT !.work = w]) /\ Still(a, [a EXCEPT !.alg = n])
           /\ Still(a, [a EXCEPT !.alg = n, !.retry = w])
           /\ Still(a, [a EXCEPT !.work = w, !.retry = @ + 1])
           /\ Still(a, [a EXCEPT !.retry = @ + 1]) /\ Still(a, [a EXCEPT !.retry = @ - 1])
           /\ Still(a, [a EXCEPT !.count = @ + 1])
<1>1. Still(a, SetTimer(a))
  <2>1. Still(a, [a EXCEPT !.running = TRUE, !.ticking = TRUE])
    BY DEF Adapter, Still
  <2> QED BY <2>1 DEF SetTimer, Still
<1>2. Still(a, ClearTimer(a)) /\ Still(a, Fail(a)) /\ Still(a, ScanFlagsCleared(a))
  BY DEF Adapter, Still, ClearTimer, Fail, ScanFlagsCleared
<1>3. /\ Still(a, [a EXCEPT !.oid = n]) /\ Still(a, [a EXCEPT !.retry = n])
      /\ Still(a, [a EXCEPT !.work = w]) /\ Still(a, [a EXCEPT !.alg = n])
      /\ Still(a, [a EXCEPT !.alg = n, !.retry = w])
      /\ Still(a, [a EXCEPT !.work = w, !.retry = @ + 1])
      /\ Still(a, [a EXCEPT !.retry = @ + 1]) /\ Still(a, [a EXCEPT !.retry = @ - 1])
      /\ Still(a, [a EXCEPT !.count = @ + 1])
  BY DEF Adapter, Still
<1> QED BY <1>1, <1>2, <1>3 DEF Still

\* The tries of an attempt.
LEMMA TriesStay ==
    ASSUME NEW a \in Adapter, a.cur \in Trying
    PROVE  Stays(a, AuthFail(a)) /\ Stays(a, DoAuth(a)) /\ Stays(a, DoAssoc(a))
<1>1. ASSUME NEW b \in Adapter, b.cur \in Trying PROVE Stays(b, AuthFail(b))
  BY <1>1, EndFields DEF Stays, Seeking
<1>2. ASSUME NEW b \in Adapter, Still(a, b) PROVE Stays(a, AuthFail(b))
  <2>1. Stays(b, AuthFail(b))
    BY <1>1, <1>2 DEF Still
  <2> QED BY <1>2, <2>1, StillStays
<1>3. Stays(a, DoAuth(a))
  <2> DEFINE turn == a.retry * 2 >= MaxAuth /\ a.alg = "open" /\ a.privacy
             b == IF turn THEN [a EXCEPT !.alg = "shared", !.retry = 0] ELSE a
             d == SetTimer(b)
             c == [d EXCEPT !.work = { "AUTH2" }, !.retry = @ + 1]
  <2> HIDE DEF turn
  <2>1. b \in Adapter /\ Still(a, b)
    <3>1. [a EXCEPT !.alg = "shared", !.retry = 0] \in Adapter
      BY DEF Adapter
    <3>2. Still(a, [a EXCEPT !.alg = "shared", !.retry = 0]) /\ Still(a, a)
      BY StillFacts
    <3> QED BY <3>1, <3>2
  <2>2. DoAuth(a) = IF b.retry >= MaxAuth THEN AuthFail(b) ELSE c
    BY DEF DoAuth, turn
  <2> HIDE DEF b
  <2>3. d \in Adapter /\ Still(b, d)
    BY <2>1, TimerType, StillFacts
  <2> HIDE DEF d
  <2>4. Still(d, c)
    BY <2>3, StillFacts
  <2> HIDE DEF c
  <2>5. Still(a, c)
    <3>1. Still(a, d)
      BY <2>1, <2>3, StillStays
    <3> QED BY <2>4, <3>1, StillStays
  <2> QED BY <1>2, <2>1, <2>2, <2>5, StillStays
<1>4. Stays(a, DoAssoc(a))
  <2> DEFINE d == SetTimer(a)
             c == [d EXCEPT !.retry = @ + 1]
  <2>1. d \in Adapter /\ Still(a, d)
    BY TimerType, StillFacts
  <2>2. DoAssoc(a) = IF a.retry >= MaxAssoc THEN AuthFail(a) ELSE c
    BY DEF DoAssoc
  <2> HIDE DEF d
  <2>3. Still(d, c)
    BY <2>1, StillFacts
  <2> HIDE DEF c
  <2>4. Still(a, c)
    BY <2>1, <2>3, StillStays
  <2> QED BY <1>1, <2>2, <2>4, StillStays
<1> QED BY <1>1, <1>3, <1>4

\* A join only waits, or is given up.
LEMMA JoinStays ==
    MngAssumption =>
      \A a \in Adapter :
        /\ \A b \in DoJoin(a) : Still(a, b)
        /\ a.cur = "JOINNING" => \A b \in JoinTimeout(a) : Stays(a, b)
<1> SUFFICES ASSUME MngAssumption, NEW a \in Adapter
             PROVE  /\ \A b \in DoJoin(a) : Still(a, b)
                    /\ a.cur = "JOINNING" => \A b \in JoinTimeout(a) : Stays(a, b)
  OBVIOUS
<1>1. ASSUME NEW c \in Adapter, NEW b \in DoJoin(c) PROVE Still(c, b)
  <2>1. ASSUME NEW e \in Adapter, NEW d \in ChecksIdle(e) PROVE Still(e, d)
    <3>1. PICK w \in { "HWIDLE", "WAIT" } : d = [SetTimer(e) EXCEPT !.work = { w }]
      BY <2>1 DEF ChecksIdle
    <3> DEFINE s == SetTimer(e)
    <3>2. s \in Adapter /\ Still(e, s)
      BY <2>1, TimerType, StillFacts
    <3> HIDE DEF s
    <3>3. Still(s, [s EXCEPT !.work = { w }])
      BY <3>2, StillFacts
    <3> QED BY <3>1, <3>2, <3>3, StillStays DEF s
  <2>2. ASSUME b \in ChecksIdle([c EXCEPT !.retry = JoinRetry]) PROVE Still(c, b)
    <3> DEFINE e == [c EXCEPT !.retry = JoinRetry]
    <3>1. e \in Adapter /\ Still(c, e)
      BY <1>1, RetryType, StillFacts DEF MngAssumption
    <3> HIDE DEF e
    <3>2. Still(e, b)
      BY <2>1, <2>2, <3>1 DEF e
    <3> QED BY <3>1, <3>2, StillStays
  <2>3. Still(c, SetTimer(c))
    BY <1>1, StillFacts
  <2> QED BY <1>1, <2>1, <2>2, <2>3 DEF DoJoin
<1>2. ASSUME a.cur = "JOINNING", NEW b \in JoinTimeout(a) PROVE Stays(a, b)
  <2> DEFINE s == SetTimer(a)
             d == [a EXCEPT !.retry = @ - 1]
  <2>1. s \in Adapter /\ Still(a, s)
    BY TimerType, StillFacts
  <2>2. \/ b = s
        \/ b \in DoJoin(a)
        \/ b = Fail(InitParas(a))
        \/ b = [s EXCEPT !.retry = @ - 1]
        \/ a.retry # 0 /\ b \in DoJoin(d)
    BY <1>2 DEF JoinTimeout
  <2>3. Still(a, d) /\ (a.retry # 0 => d \in Adapter)
    <3>1. a.retry # 0 => a.retry > 0
      BY DEF Adapter
    <3> QED BY <3>1, StillFacts, RetryType
  <2> HIDE DEF s, d
  <2>4. Still(s, [s EXCEPT !.retry = @ - 1])
    BY <2>1, StillFacts
  <2>5. b = [s EXCEPT !.retry = @ - 1] => Still(a, b)
    BY <2>1, <2>4, StillStays
  <2>6. a.retry # 0 /\ b \in DoJoin(d) => Still(a, b)
    BY <1>1, <2>3, StillStays
  <2>7. b = Fail(InitParas(a)) => Stays(a, b)
    <3> DEFINE i == InitParas(a)
    <3>1. /\ i \in Adapter /\ i.cur = "IDLE" /\ i.link = a.link /\ i.joined = a.joined
          /\ i.reconnect = a.reconnect /\ i.used = a.used /\ i.attr = a.attr /\ i.high = a.high
      BY EndFields, TimerType
    <3> HIDE DEF i
    <3>2. Still(i, Fail(i))
      BY <3>1, StillFacts
    <3>3. Stays(a, Fail(i))
      BY <1>2, <3>1, <3>2 DEF Still, Stays, Trying
    <3> QED BY <3>3 DEF i
  <2> QED BY <1>1, <2>1, <2>2, <2>5, <2>6, <2>7, StillStays
<1> QED BY <1>1, <1>2

\* The connection whose beacons were lost is given up, or the task to take it up is
\* created, or the one to take up another.
LEMMA ReconnectStays ==
    MngAssumption =>
      \A a \in Adapter : a.reconnect \in Seeking => \A c \in Reconnect(a) : Stays(a, c)
<1> SUFFICES ASSUME MngAssumption, NEW a \in Adapter, a.reconnect \in Seeking,
                    NEW c \in Reconnect(a)
             PROVE  Stays(a, c)
  OBVIOUS
<1> DEFINE b == [a EXCEPT !.reconnect = "DOING"]
           d == [b EXCEPT !.link = FALSE]
           out == Candidates(a)
           moved(p) ==
             IF Waits(b, "SET_SSID") THEN b
             ELSE [Create(b, SetSsidTask("roam", FALSE)) EXCEPT
                     !.used = [ap |-> p, ssid |-> SsidOf[p]]]
<1>1. \/ a.attr.ap = None /\ c = [a EXCEPT !.reconnect = "NO"]
      \/ c = MediaDown(d)
      \/ \E p \in out : c = moved(p)
      \/ a.attr.ap # None /\ c = CreateOnce(b, Event("RECOVER"))
  BY DEF Reconnect
<1>2. /\ b \in Adapter /\ b.cur = a.cur /\ b.link = a.link /\ b.joined = a.joined
      /\ b.reconnect = "DOING" /\ b.used = a.used /\ b.attr = a.attr /\ b.high = a.high
  <2>1. b \in Adapter
    BY DEF Adapter
  <2> QED BY <2>1 DEF Adapter
<1>3. c = b => Stays(a, c)
  BY <1>2 DEF Stays, Seeking
<1>4. CASE a.attr.ap = None /\ c = [a EXCEPT !.reconnect = "NO"]
  <2>1. /\ c.cur = a.cur /\ c.link = a.link /\ c.joined = a.joined
        /\ c.reconnect = "NO" /\ c.used = a.used /\ c.attr = a.attr /\ c.high = a.high
    BY <1>4 DEF Adapter
  <2> QED BY <1>4, <2>1 DEF Stays, Seeking
<1> HIDE DEF b
<1>5. CASE c = MediaDown(d)
  <2>1. /\ d \in Adapter /\ ~d.link /\ d.used = b.used /\ d.attr = b.attr /\ d.high = b.high
    <3>1. d \in Adapter
      BY <1>2 DEF Adapter
    <3> QED BY <1>2, <3>1 DEF Adapter
  <2> HIDE DEF d
  <2>2. /\ c.cur = "IDLE" /\ ~c.link /\ ~c.joined /\ c.reconnect = "NO"
        /\ c.used = a.used /\ c.attr = a.attr /\ c.high = a.high
    BY <1>2, <1>5, <2>1, EndFields
  <2> QED BY <2>2 DEF Stays, Seeking
<1>6. CASE a.attr.ap # None /\ c = CreateOnce(b, Event("RECOVER"))
  <2> DEFINE t == Event("RECOVER")
  <2>1. t \in Tasks /\ t.event = "RECOVER"
    BY TaskFacts
  <2> HIDE DEF t
  <2>2. c = b \/ c = Create(b, t)
    BY <1>6 DEF CreateOnce, t
  <2>3. /\ Create(b, t).cur = b.cur /\ Create(b, t).link = b.link
        /\ Create(b, t).joined = b.joined /\ Create(b, t).reconnect = b.reconnect
        /\ Create(b, t).used = b.used /\ Create(b, t).attr = b.attr
        /\ Create(b, t).high = Append(b.high, t)
    BY <1>2 DEF Create, Adapter
  <2>4. c = Create(b, t) => Stays(a, c)
    BY <1>2, <1>6, <2>1, <2>3 DEF Stays, Seeking
  <2> QED BY <1>3, <2>2, <2>4
<1>7. ASSUME NEW p \in out, c = moved(p) PROVE Stays(a, c)
  <2> DEFINE t == SetSsidTask("roam", FALSE)
             u == [ap |-> p, ssid |-> SsidOf[p]]
             e == Create(b, t)
  <2>1. t \in Tasks /\ t.event = "SET_SSID"
    BY TaskFacts
  <2>2. c = b \/ c = [e EXCEPT !.used = u]
    BY <1>7
  <2> HIDE DEF t, u
  <2>3. /\ e \in Adapter /\ e.cur = b.cur /\ e.link = b.link
        /\ e.joined = b.joined /\ e.reconnect = b.reconnect
        /\ e.attr = b.attr /\ e.high = Append(b.high, t)
    <3>1. e \in Adapter
      BY <1>2, <2>1, CreateType
    <3> QED BY <1>2, <3>1 DEF Create, Adapter
  <2> HIDE DEF e
  <2>4. c = [e EXCEPT !.used = u] => Stays(a, c)
    <3> SUFFICES ASSUME c = [e EXCEPT !.used = u] PROVE Stays(a, c)
      OBVIOUS
    <3>1. /\ c.cur = e.cur /\ c.link = e.link /\ c.joined = e.joined
          /\ c.reconnect = e.reconnect /\ c.attr = e.attr /\ c.high = e.high
      BY <2>3 DEF Adapter
    <3> QED BY <1>2, <2>1, <2>3, <3>1 DEF Stays, Seeking
  <2> QED BY <1>3, <2>2, <2>4
<1> QED BY <1>1, <1>4, <1>5, <1>6, <1>7

\* The lists of networks have nothing to do with it.
LEMMA MergedStill ==
    ASSUME NEW a \in Adapter, NEW b \in Merged(a) PROVE Still(a, b)
<1>1. PICK k \in { {}, a.known } :
          b = [a EXCEPT !.known = a.heard \cup k, !.heard = a.heard \cup k]
  BY DEF Merged
<1> DEFINE h == a.heard \cup k
<1> HIDE DEF h
<1>2. b = [a EXCEPT !.known = h, !.heard = h]
  BY <1>1 DEF h
<1> QED BY <1>2 DEF Still, Adapter

\* A card that was looking for an access point is ready to take one up.
LEMMA CanStays ==
    ASSUME NEW a \in Adapter, a.reconnect = "NEED", NEW c,
           Stays([a EXCEPT !.reconnect = "CAN"], c)
    PROVE  Stays(a, c)
<1> DEFINE b == [a EXCEPT !.reconnect = "CAN"]
<1>1. /\ b.cur = a.cur /\ b.link = a.link /\ b.joined = a.joined
      /\ b.reconnect = "CAN" /\ b.used = a.used /\ b.attr = a.attr /\ b.high = a.high
  BY DEF Adapter
<1> HIDE DEF b
<1>2. Stays(b, c)
  BY DEF b
<1> QED BY <1>1, <1>2 DEF Stays, Seeking

\* The end of the scan for a network that was not found.
LEMMA ScanFailStays ==
    MngAssumption =>
      \A a \in Adapter : a.cur = "SCANNING" => \A b \in ScanFail(a) : Stays(a, b)
<1> SUFFICES ASSUME MngAssumption, NEW a \in Adapter, a.cur = "SCANNING", NEW b \in ScanFail(a)
             PROVE  Stays(a, b)
  OBVIOUS
<1> DEFINE i == InitParas(a)
           c == Fail(i)
           e == [c EXCEPT !.oid = FALSE]
           d == [c EXCEPT !.oid = FALSE, !.reconnect = "CAN"]
<1>1. /\ i \in Adapter /\ i.cur = "IDLE" /\ i.link = a.link /\ i.joined = a.joined
      /\ i.reconnect = a.reconnect /\ i.used = a.used /\ i.attr = a.attr /\ i.high = a.high
  BY EndFields, TimerType
<1> HIDE DEF i
<1>2. c \in Adapter /\ Still(i, c)
  BY <1>1, TimerType, StillFacts
<1> HIDE DEF c
<1>3. /\ c.cur = "IDLE" /\ c.link = a.link /\ c.joined = a.joined
      /\ c.reconnect = a.reconnect /\ c.used.ap = a.used.ap /\ c.attr.ap = a.attr.ap
      /\ c.high = a.high
  BY <1>1, <1>2 DEF Still
<1>4. \/ b \in Merged(c)
      \/ a.reconnect = "NEED" /\ b \in Reconnect(d)
  BY DEF ScanFail, c, i
<1>5. ASSUME NEW x, Stays(c, x) PROVE Stays(a, x)
  BY <1>3, <1>5 DEF Stays, Trying
<1>6. b \in Merged(c) => Stays(c, b)
  BY <1>2, MergedStill, StillStays
<1>7. CASE a.reconnect = "NEED" /\ b \in Reconnect(d)
  <2>1. e \in Adapter /\ Still(c, e)
    BY <1>2, StillFacts DEF Adapter
  <2>2. d = [e EXCEPT !.reconnect = "CAN"] /\ d \in Adapter /\ d.reconnect = "CAN"
    BY <1>2 DEF Adapter
  <2>3. e.reconnect = "NEED"
    BY <1>3, <1>7, <2>1 DEF Still
  <2> HIDE DEF d, e
  <2>4. Stays(d, b)
    BY <1>7, <2>2, ReconnectStays DEF Seeking
  <2>5. Stays(e, b)
    BY <2>1, <2>2, <2>3, <2>4, CanStays
  <2>6. Stays(c, b)
    BY <2>1, <2>5, StillStays
  <2> QED BY <1>5, <2>6
<1> QED BY <1>4, <1>5, <1>6, <1>7

\* The end of a scan.
LEMMA EndScanStays ==
    MngAssumption => \A a \in Adapter : \A b \in EndScan(a) : Stays(a, b)
<1> SUFFICES ASSUME MngAssumption, NEW a \in Adapter, NEW b \in EndScan(a) PROVE Stays(a, b)
  OBVIOUS
<1> DEFINE s == ClearTimer(a)
           ended == { ScanFlagsCleared([c EXCEPT !.oid = FALSE]) : c \in Merged(s) }
           r == [s EXCEPT !.retry = 0]
           e == ScanFlagsCleared(r)
<1>1. s \in Adapter /\ Still(a, s)
  BY TimerType, StillFacts
<1>2. EndScan(a) =
        IF s.oid
        THEN IF a.reconnect = "NEED"
             THEN UNION { Reconnect([c EXCEPT !.reconnect = "CAN"]) : c \in ended }
             ELSE { Fail(c) : c \in ended }
        ELSE IF s.cur = "SCANNING" THEN ScanFail(e) ELSE {s}
  BY DEF EndScan
<1> HIDE DEF s
<1>3. ASSUME NEW c \in ended PROVE c \in Adapter /\ Still(a, c)
  <2>1. PICK m \in Merged(s) : c = ScanFlagsCleared([m EXCEPT !.oid = FALSE])
    BY <1>3
  <2>2. m \in Adapter /\ Still(s, m)
    BY <1>1, MergedType, MergedStill
  <2> DEFINE n == [m EXCEPT !.oid = FALSE]
  <2>3. n \in Adapter /\ Still(m, n)
    BY ZenonT(60), <2>2, StillFacts DEF Adapter
  <2> HIDE DEF n
  <2>4. c = ScanFlagsCleared(n)
    BY <2>1 DEF n
  <2>5. c \in Adapter /\ Still(n, c)
    BY <2>3, <2>4, TimerType, StillFacts
  <2> QED BY <1>1, <2>2, <2>3, <2>5, StillStays
<1> HIDE DEF ended
<1>4. ASSUME NEW c \in ended, a.reconnect = "NEED", b \in Reconnect([c EXCEPT !.reconnect = "CAN"])
      PROVE  Stays(a, b)
  <2> DEFINE d == [c EXCEPT !.reconnect = "CAN"]
  <2>1. c \in Adapter /\ Still(a, c)
    BY <1>3, <1>4
  <2>2. d \in Adapter /\ d.reconnect = "CAN"
    BY <2>1 DEF Adapter
  <2>3. c.reconnect = "NEED"
    BY <1>4, <2>1 DEF Still
  <2>4. Stays(d, b)
    BY <1>4, <2>2, ReconnectStays DEF Seeking
  <2> HIDE DEF d
  <2>5. Stays(c, b)
    BY <2>1, <2>3, <2>4, CanStays DEF d
  <2> QED BY <2>1, <2>5, StillStays
<1>5. ASSUME NEW c \in ended, b = Fail(c) PROVE Stays(a, b)
  <2>1. c \in Adapter /\ Still(a, c)
    BY <1>3, <1>5
  <2>2. Still(c, b)
    BY <1>5, <2>1, StillFacts
  <2> QED BY <2>1, <2>2, StillStays
<1>6. CASE s.oid /\ a.reconnect = "NEED"
  <2>1. b \in UNION { Reconnect([c EXCEPT !.reconnect = "CAN"]) : c \in ended }
    BY <1>2, <1>6
  <2>2. PICK c \in ended : b \in Reconnect([c EXCEPT !.reconnect = "CAN"])
    BY <2>1
  <2> QED BY <1>4, <1>6, <2>2
<1>7. CASE s.oid /\ a.reconnect # "NEED"
  <2>1. b \in { Fail(c) : c \in ended }
    BY <1>2, <1>7
  <2> QED BY <1>5, <2>1
<1>8. CASE ~s.oid /\ s.cur = "SCANNING"
  <2>1. r \in Adapter /\ Still(s, r)
    BY <1>1, StillFacts DEF Adapter
  <2> HIDE DEF r
  <2>2. e \in Adapter /\ Still(r, e)
    BY <2>1, TimerType, StillFacts
  <2>3. b \in ScanFail(e)
    BY <1>2, <1>8 DEF r
  <2> HIDE DEF e
  <2>4. Still(s, e)
    BY <2>1, <2>2, StillStays
  <2>5. e.cur = "SCANNING"
    BY <1>8, <2>4 DEF Still
  <2>6. Stays(e, b)
    BY <2>2, <2>3, <2>5, ScanFailStays
  <2>7. Stays(s, b)
    BY <2>4, <2>6, StillStays
  <2> QED BY <1>1, <2>7, StillStays
<1>9. CASE ~s.oid /\ s.cur # "SCANNING"
  BY <1>1, <1>2, <1>9, StillStays
<1> QED BY <1>6, <1>7, <1>8, <1>9

\* A scan begins, goes on or ends.
LEMMA DoScanStays ==
    MngAssumption => \A a \in Adapter : \A b \in DoScan(a) : Stays(a, b)
<1> SUFFICES ASSUME MngAssumption, NEW a \in Adapter, NEW b \in DoScan(a) PROVE Stays(a, b)
  OBVIOUS
<1> DEFINE e == [a EXCEPT !.oid = FALSE, !.scanning = FALSE,
                          !.cur = IF @ = "SCANNING" THEN "IDLE" ELSE @]
           s == SetTimer(a)
           n == [s EXCEPT !.count = @ + 1]
           v == s.work \cup { "WAIT" }
           w == [s EXCEPT !.work = v, !.retry = @ + 1]
<1>1. s \in Adapter /\ Still(a, s)
  BY TimerType, StillFacts
<1>2. \/ b = e
      \/ b \in EndScan(a)
      \/ b = n
      \/ b = [s EXCEPT !.work = @ \cup { "WAIT" }, !.retry = @ + 1]
  BY DEF DoScan
<1>3. Stays(a, e)
  <2>1. /\ e.link = a.link /\ e.joined = a.joined /\ e.reconnect = a.reconnect
        /\ e.used = a.used /\ e.attr = a.attr /\ e.high = a.high
        /\ e.cur = (IF a.cur = "SCANNING" THEN "IDLE" ELSE a.cur)
    BY DEF Adapter
  <2> HIDE DEF e
  <2> QED BY <2>1 DEF Stays, Trying
<1> HIDE DEF s
<1>4. [s EXCEPT !.work = @ \cup { "WAIT" }, !.retry = @ + 1] = w
  OBVIOUS
<1> HIDE DEF v
<1>5. Still(s, n) /\ Still(s, w)
  BY <1>1, StillFacts
<1> HIDE DEF e, n, w
<1>6. Stays(a, n) /\ Stays(a, w)
  BY <1>1, <1>5, StillStays
<1> QED BY <1>2, <1>3, <1>4, <1>6, EndScanStays

\* Whatever the timeout was for.
LEMMA TimeoutLeaves ==
    MngAssumption => \A a \in Adapter : \A b \in Timeout(a) : Stays(a, b)
<1> SUFFICES ASSUME MngAssumption, NEW a \in Adapter, NEW b \in Timeout(a) PROVE Stays(a, b)
  OBVIOUS
<1>1. ASSUME b \in ScanTimeout(a) PROVE Stays(a, b)
  <2> DEFINE w == a.work \ { "WAIT" }
             c == [a EXCEPT !.work = w]
  <2>1. b \in EndScan(c) \/ b \in DoScan(c)
    BY <1>1 DEF ScanTimeout
  <2>2. w \in SUBSET { "MID_STOP", "CHAN", "HWIDLE", "WAIT", "AUTH2", "AUTH4" }
    BY DEF Adapter
  <2> HIDE DEF w
  <2>3. c \in Adapter /\ Still(a, c)
    BY <2>2, RetryType, StillFacts
  <2> HIDE DEF c
  <2> QED BY <2>1, <2>3, EndScanStays, DoScanStays, StillStays
<1>2. \/ b \in ScanTimeout(a)
      \/ b \in JoinTimeout(a) /\ a.cur = "JOINNING"
      \/ b = DoAuth(a) /\ a.cur = "JOINOK"
      \/ b = DoAssoc(a) /\ a.cur = "AUTHOK"
      \/ b = a
  BY DEF Timeout
<1>3. Stays(a, a)
  BY StillFacts, StillStays
<1>4. b \in JoinTimeout(a) /\ a.cur = "JOINNING" => Stays(a, b)
  BY JoinStays
<1>5. /\ b = DoAuth(a) /\ a.cur = "JOINOK" => Stays(a, b)
      /\ b = DoAssoc(a) /\ a.cur = "AUTHOK" => Stays(a, b)
  BY TriesStay DEF Trying
<1> QED BY <1>1, <1>2, <1>3, <1>4, <1>5

\* The scan of a user begins.
LEMMA OidScanStays ==
    MngAssumption => \A a \in Adapter : \A b \in OidScan(a) : Stays(a, b)
<1> SUFFICES ASSUME MngAssumption, NEW a \in Adapter, NEW b \in OidScan(a) PROVE Stays(a, b)
  OBVIOUS
<1> DEFINE c == ClearTimer(a)
           d == [c EXCEPT !.retry = 0, !.heard = {}, !.scanning = TRUE,
                          !.count = 0, !.oid = TRUE, !.work = {}]
<1>1. c \in Adapter /\ Still(a, c)
  BY TimerType, StillFacts
<1>2. b \in DoScan(d)
  BY DEF OidScan
<1> HIDE DEF c
<1>3. d \in Adapter /\ Still(c, d)
  <2>1. d \in Adapter
    BY <1>1 DEF Adapter
  <2> QED BY <1>1, <2>1 DEF Adapter, Still
<1> HIDE DEF d
<1>4. Stays(d, b)
  BY <1>2, <1>3, DoScanStays
<1>5. Stays(c, b)
  BY <1>3, <1>4, StillStays
<1> QED BY <1>1, <1>5, StillStays

\* A reset of the state machine ends the connection, and an attempt it begins is one
\* to join or to scan.
LEMMA ResetDown ==
    MngAssumption =>
      \A a \in Adapter : \A type, diff : \A b \in InternalReset(a, type, diff) :
        /\ ~b.link /\ ~b.joined /\ b.used.ap = a.used.ap /\ b.attr.ap = a.attr.ap
        /\ b.cur \in { "JOINNING", "SCANNING", "IDLE" }
        /\ b.reconnect \in Seeking => a.reconnect \in Seeking
<1> SUFFICES ASSUME MngAssumption, NEW a \in Adapter, NEW type, NEW diff,
                    NEW b \in InternalReset(a, type, diff)
             PROVE  /\ ~b.link /\ ~b.joined /\ b.used.ap = a.used.ap /\ b.attr.ap = a.attr.ap
                    /\ b.cur \in { "JOINNING", "SCANNING", "IDLE" }
                    /\ b.reconnect \in Seeking => a.reconnect \in Seeking
  OBVIOUS
<1> DEFINE i == InitParas(a)
           d == [i EXCEPT !.joined = FALSE, !.link = FALSE]
           c == IF diff THEN MediaDown(d) ELSE d
<1>1. /\ i \in Adapter /\ i.cur = "IDLE" /\ i.reconnect = a.reconnect
      /\ i.used = a.used /\ i.attr = a.attr
  BY TimerType, EndFields
<1>2. b \in CASE type \in { "join", "roam" } -> StartJoin(c)
              [] type = "scan" -> OidScanWithSsid(c)
              [] OTHER -> {c}
  BY DEF InternalReset
<1> HIDE DEF i
<1>3. /\ d \in Adapter /\ d.cur = "IDLE" /\ d.reconnect = a.reconnect /\ ~d.link /\ ~d.joined
      /\ d.used = a.used /\ d.attr = a.attr
  <2>1. d \in Adapter
    BY <1>1 DEF Adapter
  <2> QED BY <1>1, <2>1 DEF Adapter
<1> HIDE DEF d
<1>4. /\ c \in Adapter /\ c.cur = "IDLE" /\ ~c.link /\ ~c.joined
      /\ c.used = a.used /\ c.attr = a.attr
      /\ c.reconnect \in Seeking => a.reconnect \in Seeking
  <2>1. /\ MediaDown(d) \in Adapter /\ MediaDown(d).cur = "IDLE"
        /\ MediaDown(d).link = d.link /\ ~MediaDown(d).joined
        /\ MediaDown(d).reconnect = "NO"
        /\ MediaDown(d).used = d.used /\ MediaDown(d).attr = d.attr
    BY <1>3, TimerType, EndFields
  <2> QED BY <1>3, <2>1 DEF Seeking
<1> HIDE DEF c
<1>5. CASE type \in { "join", "roam" }
  <2> DEFINE keys == c.used.ap \in Private
             e == [c EXCEPT !.cur = "JOINNING", !.work = { "CHAN" }, !.privacy = keys,
                            !.count = JoinRetry, !.retry = JoinRetry]
  <2>1. b \in DoJoin(e) /\ keys \in BOOLEAN
    BY <1>2, <1>5 DEF StartJoin
  <2> HIDE DEF keys
  <2>2. /\ e \in Adapter /\ e.cur = "JOINNING" /\ e.link = c.link /\ e.joined = c.joined
        /\ e.reconnect = c.reconnect /\ e.used = c.used /\ e.attr = c.attr
    <3>1. e \in Adapter
      BY <1>4, <2>1 DEF Adapter, Trying, MngAssumption
    <3> QED BY <1>4, <3>1 DEF Adapter
  <2> HIDE DEF e
  <2>3. Still(e, b)
    BY <2>1, <2>2, JoinStays
  <2> QED BY <1>4, <1>5, <2>2, <2>3 DEF Still
<1>6. CASE type = "scan"
  <2> DEFINE e == ClearTimer(c)
             s == c.used.ssid
             attr == [e.attr EXCEPT !.ssid = s]
             x == [e EXCEPT !.begin = TRUE, !.attr = attr, !.scanning = TRUE,
                            !.count = 0, !.cur = "SCANNING", !.work = { "MID_STOP" }]
             y == [e EXCEPT !.begin = TRUE, !.attr.ssid = s, !.scanning = TRUE,
                            !.count = 0, !.cur = "SCANNING", !.work = { "MID_STOP" }]
  <2>1. e \in Adapter /\ Still(c, e)
    BY <1>4, TimerType, StillFacts
  <2>2. b \in DoScan(y)
    BY <1>2, <1>6 DEF OidScanWithSsid
  <2> HIDE DEF e
  <2>3. attr \in [ap : Ap \cup {None}, ssid : Ssid \cup {None}] /\ attr.ap = e.attr.ap
    BY <1>4, <2>1 DEF Adapter
  <2>4. x = y
    BY <2>1 DEF Adapter
  <2> HIDE DEF attr, y
  <2>5. /\ x \in Adapter /\ x.cur = "SCANNING" /\ x.link = e.link /\ x.joined = e.joined
        /\ x.reconnect = e.reconnect /\ x.used = e.used /\ x.attr = attr /\ x.count = 0
    <3>1. x \in Adapter
      BY ZenonT(60), <2>1, <2>3 DEF Adapter, Trying
    <3> QED BY <2>1, <3>1 DEF Adapter
  <2> HIDE DEF x
  <2>6. Stays(x, b) 
    BY <2>2, <2>4, <2>5, DoScanStays
  <2>7. b.used.ap = x.used.ap
    <3>1. x.count < Channels
      BY <2>5 DEF MngAssumption
    <3>2. b.high = x.high
      BY <2>2, <2>4, <2>5, <3>1, DoScanFacts
    <3>3. \A t \in Tasks : x.high # Append(x.high, t)
      <4>1. x.high \in Seq(Tasks)
        BY <2>5 DEF Adapter
      <4> QED BY <4>1
    <3> QED BY <2>6, <3>2, <3>3 DEF Stays
  <2> QED BY <1>4, <1>6, <2>1, <2>3, <2>5, <2>6, <2>7 DEF Still, Stays
<1>7. CASE type \notin { "join", "roam", "scan" }
  BY <1>2, <1>4, <1>7
<1> QED BY <1>5, <1>6, <1>7

\* A try goes on or is given up; no connection comes of it.
Goes(a, b) ==
    /\ b.link => a.link
    /\ b.joined => a.joined
    /\ b.reconnect \in { a.reconnect, "NO" }
    /\ b.used.ap = a.used.ap /\ b.high = a.high

\* The association is granted.
Grants(f) == f.event = "ASSOC" /\ f.status = "ok"
Granted(a, f, b) ==
    /\ a.cur = "AUTHOK" /\ Grants(f)
    /\ b.cur = "ASSOCOK" /\ b.link /\ b.reconnect = "NO"
    /\ b.used.ap = a.used.ap /\ b.attr.ap = a.used.ap /\ b.high = a.high

\* What a frame f makes of an attempt.
Tried(a, f, b) ==
    /\ a.cur \in Trying
    /\ b.link => a.link
    /\ b.joined => a.joined
    /\ b.reconnect \in { a.reconnect, "NO" } /\ b.high = a.high
    /\ b.cur \in Trying \cup { "IDLE" }
    /\ b.cur = "AUTHOK" => b.used.ap = a.used.ap /\ (a.cur = "AUTHOK" \/ f.event = "AUTH")
    /\ b.cur = "JOINOK" => a.cur = "JOINOK" \/ f.event = "BEACON"

\* ... and when there is none.
Untried(a, f, b) ==
    /\ a.cur \notin Trying
    /\ b.used.ap = a.used.ap /\ b.attr.ap = a.attr.ap
    /\ \/ Still(a, b)
       \/ /\ f.event \in { "DEAUTH", "BEACON" } /\ b.cur = "IDLE" /\ ~b.link /\ ~b.joined
          /\ b.high = Append(a.high, Event("DISCONNECTED"))

Turns(a, f, b) == Granted(a, f, b) \/ Tried(a, f, b) \/ Untried(a, f, b)

\* What changes nothing.
LEMMA StillTurns ==
    ASSUME NEW a \in Adapter, NEW b, NEW f, Still(a, b)
    PROVE  Goes(a, b) /\ Turns(a, f, b)
<1>1. CASE a.cur \in Trying
  BY <1>1 DEF Still, Goes, Turns, Tried
<1>2. CASE a.cur \notin Trying
  BY <1>2 DEF Still, Goes, Turns, Untried
<1> QED BY <1>1, <1>2

\* One function after another.
LEMMA GoesTrans ==
    ASSUME NEW a, NEW b, NEW c, Goes(a, b)
    PROVE  (Goes(b, c) => Goes(a, c)) /\ (Still(b, c) => Goes(a, c))
BY DEF Goes, Still

\* The functions of an attempt, and the state they leave it in.
LEMMA TriesGo ==
    ASSUME NEW a \in Adapter
    PROVE  /\ Goes(a, AuthFail(a)) /\ AuthFail(a).cur = "IDLE"
           /\ Goes(a, DoAuth(a)) /\ DoAuth(a).cur \in { a.cur, "IDLE" }
           /\ Goes(a, StartAuth(a)) /\ StartAuth(a).cur \in { "JOINOK", "IDLE" }
           /\ Goes(a, StartShared(a)) /\ StartShared(a).cur \in { "JOINOK", "IDLE" }
           /\ Goes(a, DoAssoc(a)) /\ DoAssoc(a).cur \in { a.cur, "IDLE" }
           /\ Goes(a, StartAssoc(a)) /\ StartAssoc(a).cur \in { "AUTHOK", "IDLE" }
<1>1. ASSUME NEW b \in Adapter PROVE Goes(b, AuthFail(b)) /\ AuthFail(b).cur = "IDLE"
  BY <1>1, EndFields DEF Goes
<1>2. ASSUME NEW e \in Adapter PROVE Goes(e, DoAuth(e)) /\ DoAuth(e).cur \in { e.cur, "IDLE" }
  <2> DEFINE turn == e.retry * 2 >= MaxAuth /\ e.alg = "open" /\ e.privacy
             b == IF turn THEN [e EXCEPT !.alg = "shared", !.retry = 0] ELSE e
             d == SetTimer(b)
             c == [d EXCEPT !.work = { "AUTH2" }, !.retry = @ + 1]
  <2> HIDE DEF turn
  <2>1. b \in Adapter /\ Still(e, b)
    <3>1. [e EXCEPT !.alg = "shared", !.retry = 0] \in Adapter
      BY <1>2 DEF Adapter
    <3>2. Still(e, [e EXCEPT !.alg = "shared", !.retry = 0]) /\ Still(e, e)
      BY <1>2, StillFacts
    <3> QED BY <1>2, <3>1, <3>2
  <2>2. DoAuth(e) = IF b.retry >= MaxAuth THEN AuthFail(b) ELSE c
    BY DEF DoAuth, turn
  <2> HIDE DEF b
  <2>3. d \in Adapter /\ Still(b, d)
    BY <2>1, TimerType, StillFacts
  <2> HIDE DEF d
  <2>4. Still(d, c)
    BY <2>3, StillFacts
  <2> HIDE DEF c
  <2>5. Still(e, c)
    <3>1. Still(e, d)
      BY <2>1, <2>3, StillStays
    <3> QED BY <2>4, <3>1, StillStays
  <2>6. Goes(b, AuthFail(b)) /\ AuthFail(b).cur = "IDLE"
    BY <1>1, <2>1
  <2>7. Goes(e, AuthFail(b)) /\ Goes(e, c)
    <3>1. Goes(e, b) /\ Goes(e, c)
      BY <1>2, <2>1, <2>5, StillTurns
    <3> QED BY <2>6, <3>1, GoesTrans
  <2> QED BY <2>2, <2>5, <2>6, <2>7 DEF Still
<1>3. ASSUME NEW e \in Adapter PROVE Goes(e, DoAssoc(e)) /\ DoAssoc(e).cur \in { e.cur, "IDLE" }
  <2> DEFINE d == SetTimer(e)
             c == [d EXCEPT !.retry = @ + 1]
  <2>1. d \in Adapter /\ Still(e, d)
    BY <1>3, TimerType, StillFacts
  <2>2. DoAssoc(e) = IF e.retry >= MaxAssoc THEN AuthFail(e) ELSE c
    BY DEF DoAssoc
  <2> HIDE DEF d
  <2>3. Still(d, c)
    BY <2>1, StillFacts
  <2> HIDE DEF c
  <2>4. Still(e, c)
    BY <2>1, <2>3, StillStays
  <2>5. Goes(e, c)
    BY <1>3, <2>4, StillTurns
  <2> QED BY <1>1, <1>3, <2>2, <2>4, <2>5 DEF Still
<1>4. ASSUME NEW e \in Adapter
      PROVE  Goes(e, StartAuth(e)) /\ StartAuth(e).cur \in { "JOINOK", "IDLE" }
  <2> DEFINE c == [e EXCEPT !.cur = "JOINOK", !.retry = 0]
  <2>1. c \in Adapter /\ Goes(e, c) /\ c.cur = "JOINOK"
    <3>1. c \in Adapter
      BY <1>4 DEF Adapter, Trying
    <3> QED BY <1>4, <3>1 DEF Adapter, Goes
  <2>2. StartAuth(e) = DoAuth(c)
    BY DEF StartAuth
  <2> HIDE DEF c
  <2> QED BY <1>2, <2>1, <2>2, GoesTrans
<1>5. Goes(a, StartShared(a)) /\ StartShared(a).cur \in { "JOINOK", "IDLE" }
  <2> DEFINE c == [a EXCEPT !.alg = "shared"]
  <2>1. c \in Adapter /\ Still(a, c)
    BY StillFacts DEF Adapter
  <2>2. StartShared(a) = StartAuth(c)
    BY DEF StartShared
  <2> HIDE DEF c
  <2>3. Goes(a, c)
    BY <2>1, StillTurns
  <2> QED BY <1>4, <2>1, <2>2, <2>3, GoesTrans
<1>6. Goes(a, StartAssoc(a)) /\ StartAssoc(a).cur \in { "AUTHOK", "IDLE" }
  <2> DEFINE c == [a EXCEPT !.cur = "AUTHOK", !.retry = 0]
  <2>1. c \in Adapter /\ Goes(a, c) /\ c.cur = "AUTHOK"
    <3>1. c \in Adapter
      BY DEF Adapter, Trying
    <3> QED BY <3>1 DEF Adapter, Goes
  <2>2. StartAssoc(a) = DoAssoc(c)
    BY DEF StartAssoc
  <2> HIDE DEF c
  <2> QED BY <1>3, <2>1, <2>2, GoesTrans
<1> QED BY <1>1, <1>2, <1>3, <1>4, <1>5, <1>6

\* The frames of an authentication.
LEMMA RxAuthGoes ==
    ASSUME NEW a \in Adapter, NEW f
    PROVE  Goes(a, RxAuth(a, f)) /\ RxAuth(a, f).cur \in { a.cur, "JOINOK", "AUTHOK", "IDLE" }
<1> DEFINE s == SetTimer(a)
           e == [a EXCEPT !.work = { "AUTH2" }]
           Good(b) == Goes(a, b) /\ b.cur \in { a.cur, "JOINOK", "AUTHOK", "IDLE" }
<1>1. s \in Adapter /\ Still(a, s)
  BY TimerType, StillFacts
<1>2. e \in Adapter /\ Still(a, e)
  BY RetryType, StillFacts
<1>3. RxAuth(a, f) \in { s, StartAssoc(a), StartShared(a), DoAuth(a), DoAuth(e),
                         [s EXCEPT !.work = { "AUTH2" }], [s EXCEPT !.work = { "AUTH4" }] }
  BY DEF RxAuth
<1> HIDE DEF s, e
<1>4. ASSUME NEW b, Still(a, b) PROVE Good(b)
  BY <1>4, StillTurns DEF Still
<1>5. ASSUME NEW w PROVE Good([s EXCEPT !.work = w])
  <2>1. Still(s, [s EXCEPT !.work = w])
    BY <1>1, StillFacts
  <2>2. Still(a, [s EXCEPT !.work = w])
    BY <1>1, <2>1, StillStays
  <2> QED BY <1>4, <2>2
<1>6. Good(DoAuth(e))
  <2>1. Goes(e, DoAuth(e)) /\ DoAuth(e).cur \in { e.cur, "IDLE" } /\ Goes(a, e) /\ e.cur = a.cur
    BY <1>2, <1>4, TriesGo DEF Still
  <2> QED BY <2>1, GoesTrans
<1>7. Good(StartAssoc(a)) /\ Good(StartShared(a)) /\ Good(DoAuth(a)) /\ Good(s)
  BY <1>1, <1>4, TriesGo
<1> QED BY <1>3, <1>5, <1>6, <1>7

\* In which state a frame finds the driver decides what it may do.
LEMMA JoinTurns ==
    ASSUME NEW a \in Adapter, NEW f
    PROVE  /\ a.cur = "JOINNING" => Turns(a, f, RxWhenJoin(a, f))
           /\ a.cur = "JOINOK" => Turns(a, f, RxWhenJoinOk(a, f))
<1>1. Turns(a, f, a)
  BY StillFacts, StillTurns
<1>2. ASSUME a.cur = "JOINNING" PROVE Turns(a, f, RxWhenJoin(a, f))
  <2> DEFINE c == ClearTimer(a)
             u == a.used
             d == [c EXCEPT !.attr = u]
             b == StartAuth(d)
  <2>1. c \in Adapter /\ Still(a, c)
    BY TimerType, StillFacts
  <2>2. RxWhenJoin(a, f) = a \/ (RxWhenJoin(a, f) = b /\ f.event = "BEACON")
    BY DEF RxWhenJoin
  <2>3. u \in [ap : Ap \cup {None}, ssid : Ssid \cup {None}]
    BY DEF Adapter
  <2> HIDE DEF c, u
  <2>4. d \in Adapter /\ Goes(c, d)
    <3>1. d \in Adapter
      BY <2>1, <2>3 DEF Adapter
    <3> QED BY <2>1, <3>1 DEF Adapter, Goes
  <2> HIDE DEF d
  <2>5. Goes(d, b) /\ b.cur \in { "JOINOK", "IDLE" }
    BY <2>4, TriesGo
  <2> HIDE DEF b
  <2>6. Goes(a, b)
    <3>1. Goes(a, c)
      BY <2>1, StillTurns
    <3>2. Goes(a, d)
      BY <2>4, <3>1, GoesTrans
    <3> QED BY <2>5, <3>2, GoesTrans
  <2>7. f.event = "BEACON" => Turns(a, f, b)
    BY <1>2, <2>5, <2>6 DEF Goes, Turns, Tried, Trying
  <2> QED BY <1>1, <2>2, <2>7
<1>3. ASSUME a.cur = "JOINOK" PROVE Turns(a, f, RxWhenJoinOk(a, f))
  <2> DEFINE c == ClearTimer(a)
             b == RxAuth(c, f)
  <2>1. c \in Adapter /\ Still(a, c)
    BY TimerType, StillFacts
  <2>2. \/ RxWhenJoinOk(a, f) = b /\ f.event = "AUTH"
        \/ RxWhenJoinOk(a, f) = StartShared(a)
        \/ RxWhenJoinOk(a, f) = AuthFail(a)
        \/ RxWhenJoinOk(a, f) = a
    BY DEF RxWhenJoinOk
  <2> HIDE DEF c
  <2>3. Goes(c, b) /\ b.cur \in { c.cur, "JOINOK", "AUTHOK", "IDLE" }
    BY <2>1, RxAuthGoes
  <2> HIDE DEF b
  <2>4. Goes(a, b) /\ b.cur \in { "JOINOK", "AUTHOK", "IDLE" }
    <3>1. Goes(a, c) /\ c.cur = "JOINOK"
      BY <1>3, <2>1, StillTurns DEF Still
    <3> QED BY <2>3, <3>1, GoesTrans
  <2>5. f.event = "AUTH" => Turns(a, f, b)
    BY <1>3, <2>4 DEF Goes, Turns, Tried, Trying
  <2>6. ASSUME NEW x, Goes(a, x), x.cur \in { "JOINOK", "IDLE" } PROVE Turns(a, f, x)
    BY <1>3, <2>6 DEF Goes, Turns, Tried, Trying
  <2>7. Turns(a, f, StartShared(a)) /\ Turns(a, f, AuthFail(a))
    BY <2>6, TriesGo
  <2> QED BY <1>1, <2>2, <2>5, <2>7
<1> QED BY <1>2, <1>3

\* The response to an association.
LEMMA AssocTurns ==
    MngAssumption =>
      \A a \in Adapter, f \in Tasks \cup Frames :
        a.cur = "AUTHOK" => Turns(a, f, RxWhenAuthOk(a, f))
<1> SUFFICES ASSUME MngAssumption, NEW a \in Adapter, NEW f \in Tasks \cup Frames,
                    a.cur = "AUTHOK"
             PROVE  Turns(a, f, RxWhenAuthOk(a, f))
  OBVIOUS
<1> DEFINE b == ClearTimer(a)
           u == a.used
           c == [b EXCEPT !.cur = "ASSOCOK", !.work = {}, !.joined = TRUE, !.link = TRUE,
                          !.reconnect = "NO", !.attr = u, !.scanning = FALSE]
<1>1. b \in Adapter /\ Still(a, b) /\ u \in [ap : Ap \cup {None}, ssid : Ssid \cup {None}]
  BY TimerType, StillFacts DEF Adapter
<1>2. \/ RxWhenAuthOk(a, f) = b
      \/ RxWhenAuthOk(a, f) = DoAssoc(b)
      \/ RxWhenAuthOk(a, f) = c /\ f.event = "ASSOC" /\ f.status \notin { "short", "bad" }
      \/ RxWhenAuthOk(a, f) = AuthFail(a)
      \/ RxWhenAuthOk(a, f) = a
  BY DEF RxWhenAuthOk
<1>3. Turns(a, f, a) /\ Turns(a, f, b)
  BY <1>1, StillFacts, StillTurns
<1>4. u.ap = a.used.ap
  OBVIOUS
<1> HIDE DEF b, u
<1>5. ASSUME f.event = "ASSOC", f.status \notin { "short", "bad" } PROVE Turns(a, f, c)
  <2>1. Grants(f)
    <3>1. f \in Frames
      BY <1>5, ItemFacts
    <3> QED BY <1>5, <3>1 DEF Frames, Grants
  <2>2. /\ c.cur = "ASSOCOK" /\ c.link /\ c.reconnect = "NO" /\ c.used = b.used
        /\ c.attr = u /\ c.high = b.high
    <3>1. c \in Adapter
      BY ZenonT(60), <1>1 DEF Adapter
    <3> QED BY <1>1, <3>1 DEF Adapter
  <2> HIDE DEF c
  <2> QED BY <1>1, <1>4, <2>1, <2>2 DEF Still, Turns, Granted
<1>6. ASSUME NEW x, Goes(a, x), x.cur \in { "AUTHOK", "IDLE" } PROVE Turns(a, f, x)
  BY <1>6 DEF Goes, Turns, Tried, Trying
<1>7. Turns(a, f, AuthFail(a))
  BY <1>6, TriesGo
<1>8. Turns(a, f, DoAssoc(b))
  <2>1. Goes(b, DoAssoc(b)) /\ DoAssoc(b).cur \in { b.cur, "IDLE" }
    BY <1>1, TriesGo
  <2>2. Goes(a, b) /\ b.cur = "AUTHOK"
    BY <1>1, StillTurns DEF Still
  <2>3. Goes(a, DoAssoc(b))
    BY <2>1, <2>2, GoesTrans
  <2> QED BY <1>6, <2>1, <2>2, <2>3
<1> HIDE DEF c
<1> QED BY <1>2, <1>3, <1>5, <1>7, <1>8

\* A beacon while a network is looked for.
LEMMA ScanTurns ==
    ASSUME NEW a \in Adapter, NEW f
    PROVE  /\ Turns(a, f, RxWhenOidScan(a, f))
           /\ a.cur = "SCANNING" => Turns(a, f, RxWhenScan(a, f))
<1>1. Turns(a, f, a)
  BY StillFacts, StillTurns
<1>2. Turns(a, f, RxWhenOidScan(a, f))
  <2> DEFINE h == a.heard \cup {f.ap}
             b == [a EXCEPT !.heard = h]
  <2>1. RxWhenOidScan(a, f) \in { a, b }
    BY DEF RxWhenOidScan
  <2> HIDE DEF h
  <2>2. Still(a, b)
    BY DEF Adapter, Still
  <2> HIDE DEF b
  <2> QED BY <1>1, <2>1, <2>2, StillTurns
<1>3. ASSUME a.cur = "SCANNING" PROVE Turns(a, f, RxWhenScan(a, f))
  <2> DEFINE k == a.known \cup {f.ap}
             b == [a EXCEPT !.known = k]
             c == ClearTimer(b)
             u == [ap |-> f.ap, ssid |-> SsidOf[f.ap]]
             keys == f.ap \in Private
             d == [c EXCEPT !.used = u, !.begin = FALSE, !.privacy = keys, !.oid = TRUE,
                            !.cur = "IDLE", !.work = {}, !.scanning = FALSE]
  <2>1. RxWhenScan(a, f) \in { a, b, d }
    BY DEF RxWhenScan
  <2> HIDE DEF k, u, keys
  <2>2. /\ b.cur = a.cur /\ b.link = a.link /\ b.joined = a.joined
        /\ b.reconnect = a.reconnect /\ b.used = a.used /\ b.attr = a.attr /\ b.high = a.high
    BY DEF Adapter
  <2>3. /\ d.cur = "IDLE" /\ d.link = a.link /\ d.joined = a.joined
        /\ d.reconnect = a.reconnect /\ d.high = a.high
    BY DEF Adapter, ClearTimer
  <2>4. Turns(a, f, b)
    BY <2>2, StillTurns DEF Still
  <2> HIDE DEF b, d
  <2>5. Turns(a, f, d)
    BY <1>3, <2>3 DEF Turns, Tried, Trying
  <2> QED BY <1>1, <2>1, <2>4, <2>5
<1> QED BY <1>2, <1>3

\* The access point ends the connection, or a beacon does.
LEMMA EndTurns ==
    ASSUME NEW a \in Adapter, NEW f \in Tasks \cup Frames, a.cur = "ASSOCOK"
    PROVE  Turns(a, f, RxWhenAssocOk(a, f))
<1> DEFINE b == RxWhenAssocOk(a, f)
<1>1. a.cur \notin Trying
  BY DEF Trying
<1>2. ASSUME NEW c \in Adapter, f.event \in { "DEAUTH", "BEACON" }, b = DisConnect(c),
             Alike(a, c), c.used.ap = a.used.ap, c.attr = a.attr
      PROVE  Turns(a, f, b)
  BY <1>1, <1>2, DisConnectFacts DEF Alike, Turns, Untried
<1>3. ASSUME Alike(a, b), b.link = a.link, b.joined = a.joined, b.used.ap = a.used.ap,
             b.attr = a.attr
      PROVE  Turns(a, f, b)
  <2> HIDE DEF b
  <2>1. Still(a, b)
    BY <1>3 DEF Alike, Still
  <2> QED BY <2>1, StillTurns
<1>4. Turns(a, f, a) /\ Alike(a, a)
  BY StillFacts, StillTurns DEF Alike
<1> QED BY <1>2, <1>3, <1>4, AssocOkFacts

\* A received frame, in whatever state.
LEMMA ReceiveTurns ==
    MngAssumption => \A a \in Adapter, f \in Tasks \cup Frames : Turns(a, f, Receive(a, f))
<1> SUFFICES ASSUME MngAssumption, NEW a \in Adapter, NEW f \in Tasks \cup Frames
             PROVE  Turns(a, f, Receive(a, f))
  OBVIOUS
<1>1. Turns(a, f, a) /\ Turns(a, f, RxWhenOidScan(a, f))
  BY StillFacts, StillTurns, ScanTurns
<1>2. /\ a.cur = "SCANNING" => Turns(a, f, RxWhenScan(a, f))
      /\ a.cur = "JOINNING" => Turns(a, f, RxWhenJoin(a, f))
      /\ a.cur = "JOINOK" => Turns(a, f, RxWhenJoinOk(a, f))
      /\ a.cur = "AUTHOK" => Turns(a, f, RxWhenAuthOk(a, f))
      /\ a.cur = "ASSOCOK" => Turns(a, f, RxWhenAssocOk(a, f))
  BY ScanTurns, JoinTurns, AssocTurns, EndTurns
<1> QED BY <1>1, <1>2 DEF Receive

-----------------------------------------------------------------------------
(* What else is known of the queues.                                       *)

\* A request to leave a network for another waits.
Leaving(q) == \E i \in 1..Len(q) : q[i].event = "DISASSOC" /\ ~q[i].ind

\* A response that grants an association is queued behind nothing it could be outdated
\* by, and it is that of the access point p.
Ahead(q) ==
    \A i \in 1..Len(q) : Grants(q[i]) =>
      \A j \in 1..(i - 1) : q[j].event \in { "BEACON", "MNGTIMEOUT" }
GrantsOf(q, p) == \A i \in 1..Len(q) : Grants(q[i]) => q[i].ap = p

\* What the other tasks find when the head is taken off.
LEMMA TailKeeps ==
    ASSUME NEW S, NEW q \in Seq(S), q # << >>
    PROVE  /\ \A e : Has(q, e) /\ Head(q).event # e => Has(Tail(q), e)
           /\ Leaving(Tail(q)) => Leaving(q)
           /\ Head(q).event = "DISASSOC" /\ ~Head(q).ind => Leaving(q)
           /\ Ahead(q) => Ahead(Tail(q))
           /\ \A p : GrantsOf(q, p) => GrantsOf(Tail(q), p)
           /\ Ahead(q) /\ Head(q).event \notin { "BEACON", "MNGTIMEOUT" }
                => \A p : GrantsOf(Tail(q), p)
           /\ \A p : Grants(Head(q)) /\ GrantsOf(q, p) => Head(q).ap = p
<1> DEFINE r == Tail(q)
           h == Head(q)
<1>1. /\ Len(q) \in Nat /\ Len(q) > 0 /\ Len(r) = Len(q) - 1
      /\ \A i \in 1..Len(r) : r[i] = q[i + 1]
      /\ h = q[1]
  OBVIOUS
<1> HIDE DEF r, h
<1>2. \A i \in 1..Len(r) : i + 1 \in 1..Len(q) /\ (i + 1) - 1 = i /\ r[i] = q[i + 1]
  BY <1>1
<1>3. ASSUME NEW i \in 1..Len(q), q[i] # h PROVE i - 1 \in 1..Len(r) /\ r[i - 1] = q[i]
  <2>1. i # 1
    BY <1>1, <1>3
  <2>2. i - 1 \in 1..Len(r) /\ (i - 1) + 1 = i
    BY <1>1, <2>1
  <2> QED BY <1>1, <2>2
<1>4. \A e : Has(q, e) /\ h.event # e => Has(r, e)
  BY <1>3 DEF Has
<1>5. Leaving(r) => Leaving(q)
  BY <1>2 DEF Leaving
<1>6. h.event = "DISASSOC" /\ ~h.ind => Leaving(q)
  BY <1>1 DEF Leaving
<1>7. Ahead(q) => Ahead(r)
  <2> SUFFICES ASSUME Ahead(q), NEW i \in 1..Len(r), Grants(r[i]), NEW j \in 1..(i - 1)
               PROVE  r[j].event \in { "BEACON", "MNGTIMEOUT" }
    BY DEF Ahead
  <2>1. j \in 1..Len(r) /\ j + 1 \in 1..((i + 1) - 1)
    BY <1>1
  <2> QED BY <1>2, <2>1 DEF Ahead
<1>8. \A p : GrantsOf(q, p) => GrantsOf(r, p)
  BY <1>2 DEF GrantsOf
<1>9. Ahead(q) /\ h.event \notin { "BEACON", "MNGTIMEOUT" } => \A p : GrantsOf(r, p)
  <2> SUFFICES ASSUME Ahead(q), NEW i \in 1..Len(r), Grants(r[i])
               PROVE  h.event \in { "BEACON", "MNGTIMEOUT" }
    BY DEF GrantsOf
  <2>1. 1 \in 1..((i + 1) - 1)
    BY <1>1
  <2> QED BY <1>1, <1>2, <2>1 DEF Ahead
<1>10. \A p : Grants(h) /\ GrantsOf(q, p) => h.ap = p
  BY <1>1 DEF GrantsOf
<1> QED BY <1>4, <1>5, <1>6, <1>7, <1>8, <1>9, <1>10 DEF r, h

\* A task or a frame at the tail.
LEMMA AppendKeeps ==
    ASSUME NEW S, NEW q \in Seq(S), NEW t \in S
    PROVE  /\ Leaving(Append(q, t)) <=> Leaving(q) \/ (t.event = "DISASSOC" /\ ~t.ind)
           /\ Ahead(q) /\ ~Grants(t) => Ahead(Append(q, t))
           /\ Ahead(q) /\ (\A i \in DOMAIN q : q[i].event \in { "BEACON", "MNGTIMEOUT" })
                => Ahead(Append(q, t))
           /\ \A p : GrantsOf(Append(q, t), p) <=> GrantsOf(q, p) /\ (Grants(t) => t.ap = p)
<1> DEFINE r == Append(q, t)
<1>1. /\ Len(q) \in Nat /\ Len(r) = Len(q) + 1 /\ DOMAIN q = 1..Len(q)
      /\ \A i \in 1..Len(q) : r[i] = q[i]
      /\ r[Len(q) + 1] = t
  OBVIOUS
<1> HIDE DEF r
<1>2. \A i \in 1..Len(r) : i \in 1..Len(q) \/ i = Len(q) + 1
  BY <1>1
<1>3. \A i \in 1..Len(q) : i \in 1..Len(r)
  BY <1>1
<1>4. Len(q) + 1 \in 1..Len(r)
  BY <1>1
<1>5. Leaving(r) <=> Leaving(q) \/ (t.event = "DISASSOC" /\ ~t.ind)
  BY <1>1, <1>2, <1>3, <1>4 DEF Leaving
<1>6. ASSUME Ahead(q), ~Grants(t) PROVE Ahead(r)
  <2> SUFFICES ASSUME NEW i \in 1..Len(r), Grants(r[i]), NEW j \in 1..(i - 1)
               PROVE  r[j].event \in { "BEACON", "MNGTIMEOUT" }
    BY DEF Ahead
  <2>1. i \in 1..Len(q)
    BY <1>1, <1>2, <1>6
  <2>2. j \in 1..Len(q)
    BY <1>1, <2>1
  <2> QED BY <1>1, <1>6, <2>1, <2>2 DEF Ahead
<1>7. ASSUME \A i \in DOMAIN q : q[i].event \in { "BEACON", "MNGTIMEOUT" } PROVE Ahead(r)
  <2> SUFFICES ASSUME NEW i \in 1..Len(r), NEW j \in 1..(i - 1)
               PROVE  r[j].event \in { "BEACON", "MNGTIMEOUT" }
    BY DEF Ahead
  <2>1. j \in 1..Len(q)
    BY <1>1
  <2> QED BY <1>1, <1>7, <2>1
<1>8. \A p : GrantsOf(r, p) <=> GrantsOf(q, p) /\ (Grants(t) => t.ap = p)
  BY <1>1, <1>2, <1>3, <1>4 DEF GrantsOf
<1> QED BY <1>5, <1>6, <1>7, <1>8 DEF r

\* The tasks of other events stay.
LEMMA DroppedKeeps ==
    ASSUME NEW S, NEW q \in Seq(S), NEW events, NEW r \in Dropped(q, events)
    PROVE  /\ \A e : Has(q, e) /\ e \notin events => Has(r, e)
           /\ Leaving(r) => Leaving(q)
<1> DEFINE kept == { i \in DOMAIN q : q[i].event \notin events }
           n == Cardinality(kept)
<1>1. DOMAIN q = 1..Len(q) /\ Len(q) \in Nat
  OBVIOUS
<1>2. IsFiniteSet(kept) /\ n \in Nat
  <2>1. IsFiniteSet(1..Len(q))
    BY <1>1, FS_Interval
  <2>2. IsFiniteSet(kept)
    BY <1>1, <2>1, FS_Subset
  <2> QED BY <2>2, FS_CardinalityType
<1>3. PICK f \in [1..n -> kept] :
          /\ \A i, j \in DOMAIN f : i < j => f[i] < f[j]
          /\ r = [i \in DOMAIN f |-> q[f[i]]]
  BY DEF Dropped
<1> HIDE DEF n
<1>4. f \in Surjection(1..n, kept)
  <2>1. f \in Injection(1..n, kept)
    <3>1. \A i \in 1..n : f[i] \in 1..Len(q)
      BY <1>1, <1>3
    <3>2. \A i, j \in 1..n : f[i] = f[j] => i = j
      BY <1>2, <1>3, <3>1
    <3> QED BY <1>3, <3>2 DEF Injection, IsInjective
  <2>2. Cardinality(1..n) = Cardinality(kept)
    BY <1>2, FS_Interval DEF n
  <2> QED BY <1>2, <2>1, <2>2, FS_Injection
<1>5. \A k \in 1..Len(q) : q[k].event \notin events => \E i \in 1..n : q[f[i]] = q[k]
  BY <1>1, <1>4 DEF Surjection
<1> HIDE DEF kept
<1>6. r = [i \in 1..n |-> q[f[i]]]
  BY <1>3
<1>7. Len(r) = n /\ \A i \in 1..n : r[i] = q[f[i]]
  <2>1. r \in Seq(S)
    BY QueueDropped
  <2>2. DOMAIN r = 1..n
    BY <1>6
  <2> QED BY <1>2, <1>6, <2>1, <2>2
<1>8. \A e : Has(q, e) /\ e \notin events => Has(r, e)
  BY <1>5, <1>7 DEF Has
<1>9. Leaving(r) => Leaving(q)
  BY QueueDropped DEF Leaving
<1> QED BY <1>8, <1>9

\* No response is left when the frames are dropped.
LEMMA FramesDropped ==
    ASSUME NEW q \in Seq(Tasks \cup Frames), NEW r \in Dropped(q, FrameEvents)
    PROVE  Ahead(r) /\ \A p : GrantsOf(r, p)
<1>1. r \in Seq(Tasks \cup Frames) /\ \A e : Has(r, e) => e \notin FrameEvents
  BY QueueDropped
<1>2. ASSUME NEW i \in 1..Len(r), Grants(r[i]) PROVE FALSE
  <2>1. r[i] \in Tasks \cup Frames /\ r[i].event = "ASSOC"
    BY <1>1, <1>2 DEF Grants
  <2>2. r[i].event \in FrameEvents
    BY <2>1, ItemFacts DEF FrameEvents
  <2>3. Has(r, r[i].event)
    BY DEF Has
  <2> QED BY <1>1, <2>2, <2>3
<1> QED BY <1>2 DEF Ahead, GrantsOf

-----------------------------------------------------------------------------
(* The invariant of the connection.                                        *)

\* A request for a network is under way; a scan comes; the old connection is to be
\* taken up again.
Another == user.pc = "ssid" \/ Has(ad.high, "SET_SSID")
ScanComes == worker = "scan" \/ Has(ad.high, "SCAN")
Recovers == Has(ad.high, "RECOVER")

\* While the driver takes itself for connected no attempt is under way, and it knows of
\* the access point that granted the association.
ConnectedOK ==
    /\ ad.link => ad.cur \notin Trying
    /\ ad.link \/ Recovers => ad.attr.ap # None
    /\ ad.cur \in Trying => ~ad.joined
    /\ ad.link /\ ~Another => ad.used.ap = granted /\ ad.attr.ap = granted

\* The response to the request under way is that of the access point asked.
ResponseOK ==
    /\ Ahead(ad.normal)
    /\ ad.cur = "AUTHOK" => GrantsOf(ad.normal, ad.used.ap)

\* What the tasks that wait find.
TasksOK ==
    /\ Has(ad.high, "SET_SSID") \/ Recovers => ad.cur \notin Trying
    /\ ScanComes \/ Has(ad.high, "DISASSOC") => ad.cur \notin { "JOINOK", "AUTHOK" }
    /\ Recovers => /\ ad.link \/ Another
                   /\ ScanComes => Has(ad.high, "SET_SSID")
                   /\ ad.reconnect # "NO" \/ Has(ad.high, "SET_SSID")
    /\ ad.link /\ Leaving(ad.high) => Another

\* A connection out of its state is on its way to another; the wish to reconnect
\* does not outlive it.
RoamsOK ==
    /\ Untroubled /\ ad.link /\ (ad.cur # "ASSOCOK" \/ ScanComes)
         => ad.reconnect # "NO" \/ Has(ad.high, "SET_SSID") \/ Has(ad.high, "DISASSOC")
    /\ ad.reconnect \in Seeking => ad.link \/ Another \/ Has(ad.high, "DISCONNECTED")
    /\ Has(ad.high, "SET_SSID") => ad.reconnect \notin Seeking

LinkInv == ConnectedOK /\ ResponseOK /\ TasksOK /\ RoamsOK

\* What was upset stays counted.
LEMMA TroubleFacts ==
    ASSUME TypeOK, TypeOK', CalmInv, left'["upset"] <= left["upset"]
    PROVE  /\ Untroubled' => Untroubled
           /\ left'["upset"] < left["upset"] => ~Untroubled'
           /\ Has(ad.high, "RESET") => ~Untroubled
<1>1. "upset" \in Bounded
  BY DEF Bounded, Rare
<1>2. left["upset"] \in Nat /\ left'["upset"] \in Nat /\ Budget["upset"] \in Nat
  BY <1>1, MngAssumption DEF TypeOK, MngAssumption
<1>3. left["upset"] <= Budget["upset"] /\ (Has(ad.high, "RESET") => left["upset"] < Budget["upset"])
  BY DEF CalmInv, UpsetOK
<1>4. Untroubled => left["upset"] = Budget["upset"]
  BY DEF Untroubled
<1>5. Untroubled' => left'["upset"] = Budget["upset"]
  BY DEF Untroubled
<1>6. left["upset"] = Budget["upset"] => Untroubled
  BY DEF Untroubled
<1> QED BY <1>2, <1>3, <1>4, <1>5, <1>6

\* A step that leaves the connection as it was.
LEMMA BondStep ==
    ASSUME LinkInv, 
           ad'.link = ad.link, ad'.joined = ad.joined, ad'.reconnect = ad.reconnect,
           ad'.used.ap = ad.used.ap, ad'.attr.ap = ad.attr.ap,
           ad'.cur = ad.cur \/ (ad.cur = "SCANNING" /\ ad'.cur = "IDLE"),
           granted' = granted, Untroubled' => Untroubled,
           Recovers' => Recovers,
           Has(ad'.high, "SET_SSID") <=> Has(ad.high, "SET_SSID"),
           Has(ad.high, "DISCONNECTED") => Has(ad'.high, "DISCONNECTED"),
           user.pc = "ssid" => user'.pc = "ssid",
           Has(ad'.high, "DISASSOC") => Has(ad.high, "DISASSOC") \/ ad.cur \notin Trying,
           Has(ad.high, "DISASSOC") => Has(ad'.high, "DISASSOC"),
           ScanComes' => \/ ScanComes
                         \/ /\ ad.cur \notin Trying /\ ~ad.link
                            /\ Recovers => Has(ad.high, "SET_SSID"),
           Leaving(ad'.high) => Leaving(ad.high) \/ Another',
           Ahead(ad'.normal), ad'.cur = "AUTHOK" => GrantsOf(ad'.normal, ad.used.ap)
    PROVE  LinkInv'
<1>1. ad'.cur \in Trying => ad.cur \in Trying /\ ad'.cur = ad.cur
  BY DEF Trying
<1>2. Another => Another'
  BY DEF Another
<1>3. ConnectedOK'
  BY <1>1, <1>2 DEF LinkInv, ConnectedOK
<1>4. ResponseOK'
  BY DEF ResponseOK
<1>5. TasksOK'
  BY <1>1, <1>2 DEF LinkInv, TasksOK, Trying
<1>6. RoamsOK'
  BY <1>2 DEF LinkInv, RoamsOK, ConnectedOK, Trying
<1> QED BY <1>3, <1>4, <1>5, <1>6 DEF LinkInv

\* A step that ends the connection or the attempt, perhaps for another attempt.
LEMMA DownStep ==
    ASSUME ~ad'.link, ~ad'.joined, ad'.cur \in { "JOINNING", "SCANNING", "IDLE" },
           ~Recovers',
           Has(ad'.high, "SET_SSID") => ad'.cur = "IDLE" /\ ad'.reconnect \notin Seeking,
           ad'.reconnect \in Seeking => Another' \/ Has(ad'.high, "DISCONNECTED"),
           Ahead(ad'.normal)
    PROVE  LinkInv'
<1>1. ConnectedOK'
  BY DEF ConnectedOK
<1>2. ResponseOK'
  BY DEF ResponseOK
<1>3. TasksOK'
  BY DEF TasksOK, Trying
<1>4. RoamsOK'
  BY DEF RoamsOK
<1> QED BY <1>1, <1>2, <1>3, <1>4 DEF LinkInv

\* The other tasks stay when one is taken off.
LEMMA HeadKeeps ==
    ASSUME TypeOK, CalmInv, NEW event, HeadOfHigh(event)
    PROVE  /\ \A e : e # event => (Has(Tail(ad.high), e) <=> Has(ad.high, e))
           /\ \A e : Has(Tail(ad.high), e) => Has(ad.high, e)
           /\ ~Has(Tail(ad.high), "DISCONNECTED") /\ ~Has(Tail(ad.high), "RECOVER")
           /\ event # "DISCONNECTED" => ~Has(ad.high, "DISCONNECTED")
           /\ event # "RECOVER" => ~Has(ad.high, "RECOVER")
           /\ event = "SET_SSID" => ~Has(Tail(ad.high), "SET_SSID")
           /\ Leaving(Tail(ad.high)) => Leaving(ad.high)
           /\ event = "DISASSOC" /\ ~Head(ad.high).ind => Leaving(ad.high)
<1>1. ad.high \in Seq(Tasks) /\ ad.high # << >> /\ Head(ad.high).event = event
  BY TypedQueues DEF HeadOfHigh
<1> DEFINE r == Tail(ad.high)
<1>2. /\ \A e : Has(ad.high, e) /\ event # e => Has(r, e)
      /\ Leaving(r) => Leaving(ad.high)
      /\ event = "DISASSOC" /\ ~Head(ad.high).ind => Leaving(ad.high)
  BY <1>1, TailKeeps
<1>3. /\ \A e : Has(r, e) => Has(ad.high, e)
      /\ event = "SET_SSID" => ~Has(r, "SET_SSID")
      /\ ~Has(r, "DISCONNECTED") /\ ~Has(r, "RECOVER")
  BY HeadTaken
<1> HIDE DEF r
<1> QED BY <1>2, <1>3 DEF r

\* The fields of the connection are as they were.
Holds(a, b) ==
    /\ b.cur = a.cur /\ b.link = a.link /\ b.joined = a.joined /\ b.reconnect = a.reconnect
    /\ b.used.ap = a.used.ap /\ b.attr.ap = a.attr.ap

\* The tasks without effect: a scan that is taken up is still on its way.
LEMMA PoppedLink ==
    ASSUME TypeOK, TypeOK', CalmInv, LinkInv,
           NEW event \in { "SCAN", "REQJOIN", "WEP" }, HeadOfHigh(event),
           NEW c, Holds(Popped, c), c.high = Popped.high, c.normal = Popped.normal, ad' = c,
           user' = user, granted' = granted, left' = left,
           worker' = "scan" => event = "SCAN"
    PROVE  LinkInv'
<1>1. ad.high # << >>
  BY DEF HeadOfHigh
<1>2. Holds(ad, ad') /\ ad'.high = Tail(ad.high) /\ ad'.normal = ad.normal
  BY <1>1, PoppedFacts DEF Bond, Holds
<1>3. Untroubled' => Untroubled
  BY DEF Untroubled
<1>4. /\ Has(ad'.high, "SET_SSID") <=> Has(ad.high, "SET_SSID")
      /\ Has(ad'.high, "DISASSOC") <=> Has(ad.high, "DISASSOC")
      /\ Has(ad'.high, "SCAN") => Has(ad.high, "SCAN")
      /\ ~Has(ad'.high, "RECOVER") /\ ~Has(ad.high, "DISCONNECTED")
      /\ Leaving(ad'.high) => Leaving(ad.high)
  BY <1>2, HeadKeeps
<1>5. event = "SCAN" => Has(ad.high, "SCAN")
  BY HeadTaken
<1>6. ScanComes' => ScanComes
  BY <1>4, <1>5 DEF ScanComes
<1>7. Recovers' => Recovers
  BY <1>4 DEF Recovers
<1>8. Ahead(ad'.normal) /\ (ad'.cur = "AUTHOK" => GrantsOf(ad'.normal, ad.used.ap))
  BY <1>2 DEF Holds, LinkInv, ResponseOK
<1> QED BY <1>2, <1>3, <1>4, <1>6, <1>7, <1>8, BondStep DEF Holds

\* The worklet takes a scan and waits to begin it.
LEMMA TakeScanLink ==
    ASSUME TypeOK, TypeOK', CalmInv, LinkInv, TakeScan PROVE LinkInv'
BY PoppedLink DEF TakeScan, Holds

\* The task REQJOIN is only taken off the queue.
LEMMA RunReqJoinLink ==
    ASSUME TypeOK, TypeOK', CalmInv, LinkInv, RunReqJoin PROVE LinkInv'
<1>1. worker' # "scan"
  BY DEF RunReqJoin, HeadOfHigh
<1> QED BY <1>1, PoppedLink DEF RunReqJoin, Holds

\* A key given or taken away leaves the connection as it is: the beacons will tell.
LEMMA RunWepLink ==
    ASSUME TypeOK, TypeOK', CalmInv, LinkInv, RunWep PROVE LinkInv'
<1>1. PICK keys \in BOOLEAN : ad' = [Popped EXCEPT !.privacy = keys]
  BY DEF RunWep
<1>2. /\ HeadOfHigh("WEP") /\ ad.high # << >> /\ worker' # "scan" /\ user' = user
      /\ granted' = granted /\ left' = left
  BY HeadTaken DEF RunWep
<1>3. Popped \in Adapter
  BY <1>2, PoppedFacts
<1> DEFINE c == [Popped EXCEPT !.privacy = keys]
<1>4. Holds(Popped, c) /\ c.high = Popped.high /\ c.normal = Popped.normal
  BY <1>3 DEF Adapter, Holds
<1> HIDE DEF c
<1> QED BY <1>1, <1>2, <1>4, PoppedLink DEF c

\* A task more is a task more.
LEMMA AppendDiffers ==
    ASSUME NEW S, NEW q \in Seq(S), NEW t \in S PROVE Append(q, t) # q
<1>1. Len(q) \in Nat /\ Len(Append(q, t)) = Len(q) + 1
  OBVIOUS
<1> QED BY <1>1

\* A scan of a connected driver is one for another access point: begun, it is not
\* forgotten what it is for.
LEMMA BeginScanLink ==
    ASSUME TypeOK, TypeOK', CalmInv, LinkInv, BeginScan PROVE LinkInv'
<1>1. /\ worker = "scan" /\ worker' = "idle"
      /\ user' = user /\ tuned' = tuned /\ granted' = granted
  BY DEF BeginScan
<1>2. ScanComes /\ ~Has(ad.high, "RECOVER") /\ ~Has(ad.high, "DISCONNECTED")
  BY <1>1 DEF ScanComes, CalmInv, AheadOK
<1>3. CASE ad' \in OidScan(InitParas(ad)) /\ left' = left
  <2> DEFINE a == InitParas(ad)
  <2>1. /\ a \in Adapter /\ a.cur = "IDLE" /\ a.link = ad.link /\ a.joined = ad.joined
        /\ a.reconnect = ad.reconnect /\ a.used = ad.used /\ a.attr = ad.attr
        /\ a.high = ad.high /\ a.normal = ad.normal
    <3>1. ad \in Adapter
      BY TypedQueues
    <3>2. a.normal = ad.normal
      BY <3>1 DEF InitParas, Adapter
    <3> QED BY <3>1, <3>2, EndFields, TimerType
  <2> HIDE DEF a
  <2>2. /\ Stays(a, ad') /\ ad'.high = a.high /\ ad'.normal = a.normal
    BY <1>3, <2>1, MngAssumption, OidScanFacts, OidScanStays DEF a, Comes
  <2>3. ad'.used.ap = ad.used.ap
    <3>1. \A t \in Tasks : ad'.high # Append(a.high, t)
      BY <2>1, <2>2, TypedQueues, AppendDiffers
    <3> QED BY <2>1, <2>2, <3>1 DEF Stays
  <2>4. /\ ad'.link => ad.link
        /\ ad'.joined => ad.joined
        /\ ad'.attr.ap = ad.attr.ap /\ ad'.cur = "IDLE"
        /\ ad'.high = ad.high /\ ad'.normal = ad.normal
        /\ ad'.link /\ ad'.reconnect = "NO" => ad.reconnect = "NO" \/ ad.attr.ap = None
        /\ ad'.reconnect \in Seeking => ad.reconnect \in Seeking /\ ad'.link = ad.link
    BY <2>1, <2>2 DEF Stays, Trying
  <2>5. Untroubled' => Untroubled
    BY <1>3 DEF Untroubled
  <2>6. Another' <=> Another
    BY <1>1, <2>4 DEF Another
  <2>7. ConnectedOK'
    BY <1>1, <1>2, <2>3, <2>4, <2>6 DEF LinkInv, ConnectedOK, Recovers, Trying
  <2>8. ResponseOK'
    BY <2>4 DEF LinkInv, ResponseOK
  <2>9. TasksOK'
    BY <1>2, <2>4, <2>6 DEF LinkInv, TasksOK, Recovers, Trying
  <2>10. RoamsOK'
    BY <1>2, <2>4, <2>5, <2>6 DEF LinkInv, RoamsOK, ConnectedOK
  <2> QED BY <2>7, <2>8, <2>9, <2>10 DEF LinkInv
<1>4. CASE Use("upset") /\ ~(ad' \in OidScan(InitParas(ad)) /\ left' = left)
  <2> DEFINE a == [ad EXCEPT !.reconnect = "NO"]
             t == Event("REQJOIN")
  <2>1. ad' \in Stuck(a)
    BY <1>4 DEF BeginScan, Stuck
  <2>2. /\ Bond(ad, ad') /\ ad'.cur = ad.cur /\ ad'.reconnect = "NO"
        /\ ad'.high = ad.high \/ ad'.high = Append(ad.high, t)
        /\ ad'.normal = ad.normal \/ ad'.normal \in Dropped(ad.normal, FrameEvents)
    <3>1. a = [ad EXCEPT !.reconnect = "NO"]
      OBVIOUS
    <3> HIDE DEF a
    <3> QED BY <2>1, <3>1, StuckCard
  <2>3. t \in Tasks /\ t.event = "REQJOIN"
    BY TaskFacts
  <2> HIDE DEF t
  <2>4. /\ \A e \in { "SET_SSID", "SCAN", "DISASSOC", "RECOVER" } : Has(ad'.high, e) <=> Has(ad.high, e)
        /\ Leaving(ad'.high) => Leaving(ad.high)
    <3>1. CASE ad'.high = ad.high
      BY <3>1
    <3>2. CASE ad'.high = Append(ad.high, t)
      BY <2>3, <3>2, TypedQueues, QueueAppend, AppendKeeps
    <3> QED BY <2>2, <3>1, <3>2
  <2>5. ~Untroubled'
    <3>1. left'["upset"] < left["upset"] /\ left'["upset"] <= left["upset"]
      BY <1>4, RareFacts
    <3> QED BY <3>1, TroubleFacts
  <2>6. ResponseOK'
    <3>1. Ahead(ad'.normal) /\ (ad'.cur = "AUTHOK" => GrantsOf(ad'.normal, ad.used.ap))
      BY <2>2, TypedQueues, FramesDropped DEF LinkInv, ResponseOK
    <3> QED BY <2>2, <3>1 DEF ResponseOK, Bond
  <2>7. /\ Has(ad'.high, "SET_SSID") <=> Has(ad.high, "SET_SSID")
        /\ Has(ad'.high, "SCAN") <=> Has(ad.high, "SCAN")
        /\ Has(ad'.high, "DISASSOC") <=> Has(ad.high, "DISASSOC")
        /\ Has(ad'.high, "RECOVER") <=> Has(ad.high, "RECOVER")
    BY <2>4
  <2>8. Another' <=> Another
    BY <1>1, <2>7 DEF Another
  <2>9. ConnectedOK'
    BY <1>1, <1>2, <2>2, <2>7, <2>8 DEF LinkInv, ConnectedOK, Recovers, Bond
  <2>10. TasksOK'
    BY <1>2, <2>2, <2>4, <2>7, <2>8 DEF LinkInv, TasksOK, Recovers, ScanComes, Bond
  <2>11. RoamsOK'
    BY <2>2, <2>5 DEF RoamsOK, Seeking
  <2> QED BY <2>6, <2>9, <2>10, <2>11 DEF LinkInv
<1> QED BY <1>3, <1>4 DEF BeginScan

\* The request for a network ends the connection.
LEMMA RunSetSsidLink ==
    ASSUME TypeOK, TypeOK', CalmInv, LinkInv, RunSetSsid PROVE LinkInv'
<1> DEFINE type == Head(ad.high).type
           diff == Head(ad.high).diff
<1>1. /\ HeadOfHigh("SET_SSID") /\ ad.high # << >> /\ worker' = worker /\ user' = user
      /\ ad' \in InternalReset(Popped, type, diff)
  BY DEF RunSetSsid, Leaves, HeadOfHigh
<1>2. /\ Popped \in Adapter /\ Popped.high = Tail(ad.high) /\ Popped.normal = ad.normal
      /\ Popped.reconnect = ad.reconnect
  BY <1>1, PoppedFacts
<1> HIDE DEF type, diff
<1>3. /\ ad'.high = Tail(ad.high) /\ ad'.normal = ad.normal
      /\ ~ad'.link /\ ~ad'.joined /\ ad'.cur \in { "JOINNING", "SCANNING", "IDLE" }
      /\ ad'.reconnect \in Seeking => ad.reconnect \in Seeking
  BY <1>1, <1>2, MngAssumption, InternalResetFacts, ResetDown DEF Comes
<1>4. Has(ad.high, "SET_SSID") /\ ~Has(ad'.high, "SET_SSID") /\ ~Has(ad'.high, "RECOVER")
  BY <1>1, <1>3, HeadTaken
<1>5. ad'.reconnect \notin Seeking
  BY <1>3, <1>4 DEF LinkInv, RoamsOK
<1>6. Ahead(ad'.normal)
  BY <1>3 DEF LinkInv, ResponseOK
<1> QED BY <1>3, <1>4, <1>5, <1>6, DownStep DEF Recovers

\* The reset that tells the user of the end of a connection.
LEMMA ResetOver ==
    ASSUME NEW a \in Adapter, NEW type \in { "disassoc", "disconnect" },
           NEW b, b \in InternalReset(a, type, TRUE)
    PROVE  /\ b.high = a.high /\ b.normal = a.normal /\ b.cur = "IDLE"
           /\ ~b.link /\ ~b.joined /\ b.reconnect = "NO"
<1> DEFINE i == InitParas(a)
           d == [i EXCEPT !.joined = FALSE, !.link = FALSE]
<1>1. b = MediaDown(d)
  BY DEF InternalReset
<1>2. i \in Adapter /\ i.high = a.high /\ i.normal = a.normal
  <2>1. i \in Adapter
    BY TimerType
  <2> QED BY <2>1 DEF InitParas, Adapter
<1> HIDE DEF i
<1>3. d \in Adapter /\ ~d.link /\ d.high = i.high /\ d.normal = i.normal
  <2>1. d \in Adapter
    BY <1>2 DEF Adapter
  <2> QED BY <1>2, <2>1 DEF Adapter
<1> HIDE DEF d
<1>4. MediaDown(d).normal = d.normal
  <2>1. InitParas(d) \in Adapter
    BY <1>3, TimerType
  <2>2. InitParas(d).normal = d.normal
    BY <1>3, <2>1 DEF InitParas, Adapter
  <2> QED BY <2>1, <2>2 DEF MediaDown, Adapter
<1> QED BY <1>1, <1>2, <1>3, <1>4, EndFields

\* So does the request to end it; the wish to reconnect is only left when another
\* network is asked for.
LEMMA RunDisassocLink ==
    ASSUME TypeOK, TypeOK', CalmInv, LinkInv, RunDisassoc PROVE LinkInv'
<1> DEFINE a == AuthFail(Popped)
           ind == Head(ad.high).ind
<1>1. /\ HeadOfHigh("DISASSOC") /\ ad.high # << >> /\ worker' = worker /\ user' = user
      /\ ad' \in IF ind THEN InternalReset(a, "disassoc", TRUE) ELSE {a}
  BY DEF RunDisassoc, Leaves, HeadOfHigh
<1>2. /\ Popped \in Adapter /\ Popped.high = Tail(ad.high) /\ Popped.normal = ad.normal
      /\ Popped.reconnect = ad.reconnect
  BY <1>1, PoppedFacts
<1>3. /\ a \in Adapter /\ a.high = Tail(ad.high) /\ a.normal = ad.normal
      /\ a.cur = "IDLE" /\ ~a.link /\ ~a.joined /\ a.reconnect \in { ad.reconnect, "NO" }
  <2>1. a \in Adapter /\ a.normal = Popped.normal
    BY <1>2, TimerFacts, TimerType DEF Follows
  <2> QED BY <1>2, <2>1, EndFields
<1> HIDE DEF a
<1>4. /\ ad'.high = Tail(ad.high) /\ ad'.normal = ad.normal
      /\ ad'.cur = "IDLE" /\ ~ad'.link /\ ~ad'.joined
      /\ ad'.reconnect \in { ad.reconnect, "NO" } /\ (ind => ad'.reconnect = "NO")
  <2>1. CASE ind
    <3>1. ad' \in InternalReset(a, "disassoc", TRUE)
      BY <1>1, <2>1
    <3>2. /\ ad'.high = a.high /\ ad'.normal = a.normal /\ ad'.cur = "IDLE"
          /\ ~ad'.link /\ ~ad'.joined /\ ad'.reconnect = "NO"
      BY <1>3, <3>1, ResetOver
    <3> QED BY <1>3, <3>2
  <2>2. CASE ~ind
    <3>1. ad' = a
      BY <1>1, <2>2
    <3> QED BY <1>3, <2>2, <3>1
  <2> QED BY <2>1, <2>2
<1>5. /\ Has(ad'.high, "SET_SSID") <=> Has(ad.high, "SET_SSID")
      /\ ~Has(ad.high, "DISCONNECTED") /\ ~Has(ad'.high, "RECOVER")
      /\ ~ind => Leaving(ad.high)
  BY <1>1, <1>4, HeadKeeps
<1>6. ad'.reconnect \in Seeking => ad.reconnect \in Seeking /\ ~ind
  BY <1>4 DEF Seeking
<1>7. ad'.reconnect \in Seeking => Another
  BY <1>5, <1>6 DEF LinkInv, RoamsOK, TasksOK
<1>8. Another' <=> Another
  BY <1>1, <1>5 DEF Another
<1>9. Has(ad'.high, "SET_SSID") => ad'.reconnect \notin Seeking
  BY <1>5, <1>6 DEF LinkInv, RoamsOK
<1>10. Ahead(ad'.normal)
  BY <1>4 DEF LinkInv, ResponseOK
<1> QED BY <1>4, <1>5, <1>7, <1>8, <1>9, <1>10, DownStep DEF Recovers

\* ... and the end of it by the access point.
LEMMA RunDisconnectedLink ==
    ASSUME TypeOK, TypeOK', CalmInv, LinkInv, RunDisconnected PROVE LinkInv'
<1> DEFINE p == Popped
<1>1. /\ HeadOfHigh("DISCONNECTED") /\ ad.high # << >>
      /\ ad' \in InternalReset(p, "disconnect", TRUE)
  BY DEF RunDisconnected, Leaves, HeadOfHigh
<1>2. /\ p \in Adapter /\ p.high = Tail(ad.high) /\ p.normal = ad.normal
  BY <1>1, PoppedFacts
<1> HIDE DEF p
<1>3. /\ ad'.high = Tail(ad.high) /\ ad'.normal = ad.normal /\ ad'.cur = "IDLE"
      /\ ~ad'.link /\ ~ad'.joined /\ ad'.reconnect = "NO"
  BY <1>1, <1>2, ResetOver
<1>5. ~Has(ad'.high, "RECOVER")
  BY <1>1, <1>3, HeadTaken
<1>6. Ahead(ad'.normal)
  BY <1>3 DEF LinkInv, ResponseOK
<1> QED BY <1>3, <1>5, <1>6, DownStep DEF Recovers, Seeking

\* A step beside the worklet that creates a task, or none.
LEMMA SideStep ==
    ASSUME TypeOK, TypeOK', CalmInv, LinkInv, Holds(ad, ad'), granted' = granted,
           worker' = worker, left'["upset"] <= left["upset"],
           user.pc = "ssid" => user'.pc = "ssid",
           NEW t \in Tasks, t.event \notin { "SET_SSID", "DISCONNECTED", "RECOVER" },
           ad'.high = ad.high \/ ad'.high = Append(ad.high, t),
           ad'.high # ad.high => /\ t.event = "DISASSOC" => ad.cur \notin Trying
                                 /\ t.event = "SCAN" => /\ ad.cur \notin Trying /\ ~ad.link
                                                        /\ user.pc # "ssid"
                                 /\ t.event = "DISASSOC" /\ ~t.ind => Another',
           Ahead(ad'.normal), ad.cur = "AUTHOK" => GrantsOf(ad'.normal, ad.used.ap)
    PROVE  LinkInv'
<1>1. Untroubled' => Untroubled
  BY TroubleFacts
<1>2. /\ \A e : Has(ad'.high, e) <=> Has(ad.high, e) \/ (ad'.high # ad.high /\ e = t.event)
      /\ Leaving(ad'.high) <=> Leaving(ad.high) \/ (ad'.high # ad.high /\ t.event = "DISASSOC" /\ ~t.ind)
  <2>1. CASE ad'.high = ad.high
    BY <2>1
  <2>2. CASE ad'.high # ad.high
    <3>1. ad'.high = Append(ad.high, t)
      BY <2>2
    <3> QED BY <2>2, <3>1, TypedQueues, QueueAppend, AppendKeeps
  <2> QED BY <2>1, <2>2
<1>3. /\ Has(ad'.high, "SET_SSID") <=> Has(ad.high, "SET_SSID")
      /\ Has(ad.high, "DISCONNECTED") => Has(ad'.high, "DISCONNECTED")
      /\ Has(ad.high, "DISASSOC") => Has(ad'.high, "DISASSOC")
      /\ Has(ad'.high, "DISASSOC") => Has(ad.high, "DISASSOC") \/ ad.cur \notin Trying
      /\ Recovers' => Recovers
      /\ Leaving(ad'.high) => Leaving(ad.high) \/ Another'
  BY <1>2 DEF Recovers
<1>4. ScanComes' => \/ ScanComes
                    \/ /\ ad.cur \notin Trying /\ ~ad.link
                       /\ Recovers => Has(ad.high, "SET_SSID")
  <2>1. Has(ad'.high, "SCAN") => Has(ad.high, "SCAN") \/ (ad'.high # ad.high /\ t.event = "SCAN")
    BY <1>2
  <2> QED BY <2>1 DEF ScanComes, LinkInv, TasksOK, Another
<1> QED BY <1>1, <1>3, <1>4, BondStep DEF Holds

\* What is queued for the worklet.
LEMMA QueuedLink ==
    ASSUME TypeOK, TypeOK', CalmInv, LinkInv, Holds(ad, ad'), ad'.high = ad.high,
           granted' = granted, worker' = worker, user' = user,
           left'["upset"] <= left["upset"],
           Ahead(ad'.normal), ad.cur = "AUTHOK" => GrantsOf(ad'.normal, ad.used.ap)
    PROVE  LinkInv'
<1>1. Event("RESET") \in Tasks /\ Event("RESET").event = "RESET"
  BY TaskFacts
<1> DEFINE t == Event("RESET")
<1> HIDE DEF t
<1>2. t \in Tasks /\ t.event \notin { "SET_SSID", "DISCONNECTED", "RECOVER" }
  BY <1>1 DEF t
<1> QED BY <1>2, SideStep

\* A frame or a timeout at the tail of the queue.
LEMMA NormalLink ==
    ASSUME TypeOK, TypeOK', CalmInv, LinkInv, NEW f \in Tasks \cup Frames,
           ad' = [ad EXCEPT !.normal = Append(ad.normal, f)],
           granted' = granted, worker' = worker, user' = user,
           left'["upset"] <= left["upset"],
           Grants(f) => /\ \A i \in DOMAIN ad.normal : ad.normal[i].event \in { "BEACON", "MNGTIMEOUT" }
                        /\ f.ap = ad.used.ap
    PROVE  LinkInv'
<1> DEFINE q == Append(ad.normal, f)
<1>1. ad \in Adapter /\ q \in Seq(Tasks \cup Frames)
  BY TypedQueues
<1>2. Ahead(q) /\ (ad.cur = "AUTHOK" => GrantsOf(q, ad.used.ap))
  BY TypedQueues, AppendKeeps DEF LinkInv, ResponseOK
<1>3. ad' = [ad EXCEPT !.normal = q]
  OBVIOUS
<1> HIDE DEF q
<1>4. Holds(ad, ad') /\ ad'.high = ad.high /\ ad'.normal = q
  BY <1>1, <1>3 DEF Adapter, Holds
<1> QED BY <1>2, <1>4, QueuedLink

\* A beacon is queued for the worklet.
LEMMA BeaconArrivesLink ==
    ASSUME TypeOK, TypeOK', CalmInv, LinkInv, BeaconArrives PROVE LinkInv'
<1>1. PICK p \in Ap : ad' = Queued([event |-> "BEACON", ap |-> p])
  BY DEF BeaconArrives
<1> DEFINE f == [event |-> "BEACON", ap |-> p]
<1>2. f \in Tasks \cup Frames /\ ~Grants(f)
  BY DEF Frames, Grants
<1> HIDE DEF f
<1>3. ad' = [ad EXCEPT !.normal = Append(ad.normal, f)]
  <2>1. ad \in Adapter
    BY TypedQueues
  <2> QED BY <1>1, <2>1 DEF Queued, Adapter, f
<1>4. /\ left'["upset"] <= left["upset"] /\ worker' = worker /\ user' = user
      /\ granted' = granted
  BY RareFacts DEF BeaconArrives
<1> QED BY <1>2, <1>3, <1>4, NormalLink

\* Only the access point that is asked grants an association.
LEMMA GrantingFrame ==
    ASSUME TypeOK, NEW f \in Frames, f.ap = tuned, Takes(f), Grants(f)
    PROVE  f \in Answers /\ f.ap = ad.used.ap /\ f.ap \in Ap
<1>1. f \notin Oddities
  BY DEF Oddities, Grants
<1>2. f.status # "short"
  BY DEF Grants
<1>3. f \in Answers
  BY <1>1, <1>2 DEF Takes
<1>4. f.ap \in Ap
  BY ItemFacts DEF Grants
<1>5. ad.used.ap = tuned
  BY <1>3 DEF Answers
<1> QED BY <1>3, <1>4, <1>5

\* So is a frame of the attempt under way, or an odd one.
LEMMA FrameArrivesLink ==
    ASSUME TypeOK, TypeOK', CalmInv, LinkInv, FrameArrives PROVE LinkInv'
<1>1. PICK f \in Frames :
        /\ f.ap = tuned /\ Takes(f) /\ ad' = Queued(f) /\ granted' = granted
        /\ f \in Answers => \A i \in DOMAIN ad.normal : ad.normal[i].event \in { "BEACON", "MNGTIMEOUT" }
  BY DEF FrameArrives
<1>2. ad' = [ad EXCEPT !.normal = Append(ad.normal, f)]
  <2>1. ad \in Adapter
    BY TypedQueues
  <2> QED BY <1>1, <2>1 DEF Queued, Adapter
<1>3. Grants(f) => f \in Answers /\ f.ap = ad.used.ap
  BY <1>1, GrantingFrame
<1>4. worker' = worker /\ user' = user /\ left'["upset"] <= left["upset"]
  BY <1>1, TakesFacts
<1>5. f \in Tasks \cup Frames
  OBVIOUS
<1> QED BY <1>1, <1>2, <1>3, <1>4, <1>5, NormalLink

\* The timer fires: its timeout is queued.
LEMMA TimerFiresLink ==
    ASSUME TypeOK, TypeOK', CalmInv, LinkInv, TimerFires PROVE LinkInv'
<1> DEFINE a == ClearTimer(ad)
           t == Event("MNGTIMEOUT")
           q == Append(a.normal, t)
           c == [a EXCEPT !.normal = q]
<1>1. /\ worker' = worker /\ user' = user /\ tuned' = tuned /\ granted' = granted
      /\ \/ ad' = [a EXCEPT !.normal = Append(@, t)] /\ left' = left
         \/ ad' = a /\ Use("upset")
  BY DEF TimerFires
<1>2. a \in Adapter /\ Still(ad, a) /\ a.normal = ad.normal
  <2>1. ad \in Adapter
    BY TypedQueues
  <2>2. a.normal = ad.normal
    BY <2>1 DEF ClearTimer, Adapter
  <2> QED BY <2>1, <2>2, StillFacts, TimerType
<1>3. t \in Tasks /\ ~Grants(t)
  BY TaskFacts DEF Grants
<1>4. left'["upset"] <= left["upset"]
  BY <1>1, RareFacts
<1> HIDE DEF a, t
<1>5. Ahead(q) /\ (ad.cur = "AUTHOK" => GrantsOf(q, ad.used.ap))
  BY <1>2, <1>3, TypedQueues, AppendKeeps DEF LinkInv, ResponseOK
<1>6. ad' = a \/ ad' = c
  BY <1>1, <1>2 DEF Adapter
<1>7. q \in Seq(Tasks \cup Frames)
  BY <1>2, <1>3, TypedQueues, QueueAppend
<1> HIDE DEF q
<1>8. Still(a, c) /\ c.normal = q
  BY <1>2 DEF Adapter, Still
<1> HIDE DEF c
<1>9. Holds(ad, ad') /\ ad'.high = ad.high
  BY <1>2, <1>6, <1>8 DEF Still, Holds
<1>10. Ahead(ad'.normal) /\ (ad.cur = "AUTHOK" => GrantsOf(ad'.normal, ad.used.ap))
  BY <1>2, <1>5, <1>6, <1>8 DEF LinkInv, ResponseOK
<1> QED BY <1>1, <1>4, <1>9, <1>10, QueuedLink

\* The flag of the user's scan is raised after its task was created.
LEMMA Start_ScanLink ==
    ASSUME TypeOK, TypeOK', CalmInv, LinkInv, Start_Scan PROVE LinkInv'
<1>1. /\ user.pc = "scan" /\ ad' = [ad EXCEPT !.begin = TRUE]
      /\ worker' = worker /\ granted' = granted /\ left' = left
  BY DEF Start_Scan
<1>2. ad \in Adapter
  BY TypedQueues
<1>3. Holds(ad, ad') /\ ad'.high = ad.high /\ ad'.normal = ad.normal
  BY <1>1, <1>2 DEF Adapter, Holds
<1>4. Event("RESET") \in Tasks /\ Event("RESET").event = "RESET"
  BY TaskFacts
<1> DEFINE t == Event("RESET")
<1> HIDE DEF t
<1>5. t \in Tasks /\ t.event \notin { "SET_SSID", "DISCONNECTED", "RECOVER" }
  BY <1>4 DEF t
<1>6. left'["upset"] <= left["upset"]
  BY <1>1, RareFacts
<1>7. Ahead(ad'.normal) /\ (ad.cur = "AUTHOK" => GrantsOf(ad'.normal, ad.used.ap))
  BY <1>3 DEF LinkInv, ResponseOK
<1> QED BY <1>1, <1>3, <1>5, <1>6, <1>7, SideStep

\* The card asks for a reset.
LEMMA ResetInterruptLink ==
    ASSUME TypeOK, TypeOK', CalmInv, LinkInv, ResetInterrupt PROVE LinkInv'
<1> DEFINE t == Event("RESET")
<1>1. /\ ad' = Create(ad, t) /\ Use("upset")
      /\ worker' = worker /\ user' = user /\ granted' = granted
  BY DEF ResetInterrupt
<1>2. t \in Tasks /\ t.event = "RESET"
  BY TaskFacts
<1> HIDE DEF t
<1>3. Holds(ad, ad') /\ ad'.high = Append(ad.high, t) /\ ad'.normal = ad.normal
  BY <1>1, <1>2, TypedQueues, CreateFacts DEF Bond, Holds
<1>4. left'["upset"] <= left["upset"]
  BY <1>1, RareFacts
<1>5. Ahead(ad'.normal) /\ (ad.cur = "AUTHOK" => GrantsOf(ad'.normal, ad.used.ap))
  BY <1>3 DEF LinkInv, ResponseOK
<1> QED BY <1>1, <1>2, <1>3, <1>4, <1>5, SideStep

\* The requests of the user.
LEMMA AskSsidLink ==
    ASSUME TypeOK, TypeOK', CalmInv, LinkInv, AskSsid PROVE LinkInv'
<1>1. PICK s \in Ssid :
        /\ user.pc = "idle"
        /\ Use("ask") /\ worker' = worker /\ granted' = granted
        /\ \/ ad' = ad
           \/ /\ user' = [pc |-> "ssid", ssid |-> s] /\ ad.joined
              /\ ad' = Create(ad, DisassocTask(FALSE))
  BY DEF AskSsid
<1> DEFINE t == DisassocTask(FALSE)
<1>2. t \in Tasks /\ t.event = "DISASSOC"
  BY DisassocAsked DEF DisassocTask
<1>3. ad' = ad \/ (user'.pc = "ssid" /\ ad.joined /\ ad' = Create(ad, t))
  <2>1. user' = [pc |-> "ssid", ssid |-> s] => user'.pc = "ssid"
    OBVIOUS
  <2> HIDE DEF t
  <2> QED BY <1>1, <2>1 DEF t
<1> HIDE DEF t
<1>4. /\ Holds(ad, ad') /\ ad'.normal = ad.normal
      /\ ad'.high = ad.high \/ (user'.pc = "ssid" /\ ad.joined /\ ad'.high = Append(ad.high, t))
  <2>1. CASE ad' = ad
    BY <2>1 DEF Holds
  <2>2. CASE user'.pc = "ssid" /\ ad.joined /\ ad' = Create(ad, t)
    BY <1>2, <2>2, TypedQueues, CreateFacts DEF Bond, Holds
  <2> QED BY <1>3, <2>1, <2>2
<1>5. left'["upset"] <= left["upset"]
  BY <1>1, RareFacts
<1>6. Ahead(ad'.normal) /\ (ad.cur = "AUTHOK" => GrantsOf(ad'.normal, ad.used.ap))
  BY <1>4 DEF LinkInv, ResponseOK
<1>7. ad'.high # ad.high => ad.cur \notin Trying /\ Another'
  BY <1>4 DEF LinkInv, ConnectedOK, Another
<1> QED BY <1>1, <1>2, <1>4, <1>5, <1>6, <1>7, SideStep

\* The user ends the connection.
LEMMA DisassociateLink ==
    ASSUME TypeOK, TypeOK', CalmInv, LinkInv, Disassociate PROVE LinkInv'
<1> DEFINE a == [ad EXCEPT !.disassoc = TRUE]
           t == DisassocTask(TRUE)
<1>1. /\ Use("ask") /\ worker' = worker /\ user' = user /\ granted' = granted
      /\ ad' = a \/ (a.joined /\ ad' = Create(a, t))
  BY DEF Disassociate
<1>2. t \in Tasks /\ t.event = "DISASSOC" /\ t.ind
  BY DisassocAsked DEF DisassocTask
<1> HIDE DEF t
<1>3. a \in Adapter /\ Still(ad, a) /\ a.normal = ad.normal
  <2>1. ad \in Adapter
    BY TypedQueues
  <2>2. a \in Adapter
    BY <2>1 DEF Adapter
  <2> QED BY <2>1, <2>2 DEF Adapter, Still
<1> HIDE DEF a
<1>4. /\ Holds(ad, ad') /\ ad'.normal = ad.normal
      /\ ad'.high = ad.high \/ (ad.joined /\ ad'.high = Append(ad.high, t))
  <2>1. CASE ad' = a
    BY <1>3, <2>1 DEF Still, Holds
  <2>2. CASE a.joined /\ ad' = Create(a, t)
    BY ZenonT(60), <1>2, <1>3, <2>2, CreateFacts DEF Bond, Still, Holds
  <2> QED BY <1>1, <2>1, <2>2
<1>5. left'["upset"] <= left["upset"]
  BY <1>1, RareFacts
<1>6. Ahead(ad'.normal) /\ (ad.cur = "AUTHOK" => GrantsOf(ad'.normal, ad.used.ap))
  BY <1>4 DEF LinkInv, ResponseOK
<1>7. ad'.high # ad.high => ad.cur \notin Trying
  BY <1>4 DEF LinkInv, ConnectedOK
<1> QED BY <1>1, <1>2, <1>4, <1>5, <1>6, <1>7, SideStep

\* The user chooses how to authenticate.
LEMMA Set_AuthLink ==
    ASSUME TypeOK, TypeOK', CalmInv, LinkInv, Set_Auth PROVE LinkInv'
<1> DEFINE b == [ad EXCEPT !.privacy = FALSE]
           d == [ad EXCEPT !.alg = "open"]
           e == [ad EXCEPT !.alg = "shared", !.privacy = TRUE]
           t == DisassocTask(TRUE)
<1>1. /\ Use("ask") /\ worker' = worker /\ user' = user /\ granted' = granted
      /\ ad' \in { b, d, e }
  BY DEF Set_Auth
<1>2. t \in Tasks /\ t.event = "DISASSOC"
  BY DisassocAsked DEF DisassocTask
<1> HIDE DEF t
<1>3. Holds(ad, ad') /\ ad'.high = ad.high /\ ad'.normal = ad.normal
  <2>1. ad \in Adapter
    BY TypedQueues
  <2>2. Holds(ad, b) /\ b.high = ad.high /\ b.normal = ad.normal
    BY <2>1 DEF Adapter, Holds
  <2>3. Holds(ad, d) /\ d.high = ad.high /\ d.normal = ad.normal
    BY <2>1 DEF Adapter, Holds
  <2>4. Holds(ad, e) /\ e.high = ad.high /\ e.normal = ad.normal
    BY <2>1 DEF Adapter, Holds
  <2> HIDE DEF b, d, e
  <2> QED BY <1>1, <2>2, <2>3, <2>4
<1> HIDE DEF b, d, e
<1>4. left'["upset"] <= left["upset"]
  BY <1>1, RareFacts
<1>5. Ahead(ad'.normal) /\ (ad.cur = "AUTHOK" => GrantsOf(ad'.normal, ad.used.ap))
  BY <1>3 DEF LinkInv, ResponseOK
<1> QED BY <1>1, <1>2, <1>3, <1>4, <1>5, SideStep

\* The user gives a key or takes one away.
LEMMA Set_EncodeLink ==
    ASSUME TypeOK, TypeOK', CalmInv, LinkInv, Set_Encode PROVE LinkInv'
<1>1. PICK add \in BOOLEAN :
        ad' = Create([ad EXCEPT !.privacy = @ \/ add], [event |-> "WEP", add |-> add])
  BY DEF Set_Encode
<1> DEFINE keys == ad.privacy \/ add
           c == [ad EXCEPT !.privacy = keys]
           t == [event |-> "WEP", add |-> add]
<1>2. /\ Use("ask") /\ worker' = worker /\ user' = user /\ granted' = granted
      /\ ad' = Create(c, t)
  <2>1. [ad EXCEPT !.privacy = @ \/ add] = c
    OBVIOUS
  <2> QED BY <1>1, <2>1 DEF Set_Encode
<1>3. t \in Tasks /\ t.event = "WEP"
  BY TaskFacts
<1>4. keys \in BOOLEAN
  OBVIOUS
<1> HIDE DEF t, keys
<1>5. c \in Adapter /\ Holds(ad, c) /\ c.high = ad.high /\ c.normal = ad.normal
  <2>1. ad \in Adapter
    BY TypedQueues
  <2>2. c \in Adapter
    BY <1>4, <2>1 DEF Adapter
  <2> QED BY <2>1, <2>2 DEF Adapter, Holds
<1> HIDE DEF c
<1>6. Holds(ad, ad') /\ ad'.high = Append(ad.high, t) /\ ad'.normal = ad.normal
  <2>1. Holds(c, Create(c, t)) /\ Create(c, t).high = Append(c.high, t)
        /\ Create(c, t).normal = c.normal
    BY <1>3, <1>5, CreateFacts DEF Bond, Holds
  <2> QED BY <1>2, <1>5, <2>1 DEF Holds
<1>7. left'["upset"] <= left["upset"]
  BY <1>2, RareFacts
<1>8. Ahead(ad'.normal) /\ (ad.cur = "AUTHOK" => GrantsOf(ad'.normal, ad.used.ap))
  BY <1>6 DEF LinkInv, ResponseOK
<1> QED BY <1>2, <1>3, <1>6, <1>7, <1>8, SideStep

\* The user asks for a scan, whose task is created when nothing is under way.
LEMMA AskScanLink ==
    ASSUME TypeOK, TypeOK', CalmInv, LinkInv, AskScan PROVE LinkInv'
<1> DEFINE a == [ad EXCEPT !.disassoc = FALSE]
           t == Event("SCAN")
<1>1. /\ user.pc = "idle" /\ Use("ask") /\ worker' = worker /\ granted' = granted
      /\ ad' = a \/ (~a.link /\ a.cur = "IDLE" /\ ad' = Create(a, t))
  BY DEF AskScan
<1>2. t \in Tasks /\ t.event = "SCAN"
  BY TaskFacts
<1> HIDE DEF t
<1>3. a \in Adapter /\ Still(ad, a) /\ a.normal = ad.normal
  <2>1. ad \in Adapter
    BY TypedQueues
  <2>2. a \in Adapter
    BY <2>1 DEF Adapter
  <2> QED BY <2>1, <2>2 DEF Adapter, Still
<1> HIDE DEF a
<1>4. /\ Holds(ad, ad') /\ ad'.normal = ad.normal
      /\ \/ ad'.high = ad.high
         \/ ~ad.link /\ ad.cur = "IDLE" /\ ad'.high = Append(ad.high, t)
  <2>1. CASE ad' = a
    BY <1>3, <2>1 DEF Still, Holds
  <2>2. CASE ~a.link /\ a.cur = "IDLE" /\ ad' = Create(a, t)
    BY <1>2, <1>3, <2>2, CreateFacts DEF Bond, Still, Holds
  <2> QED BY <1>1, <2>1, <2>2
<1>5. left'["upset"] <= left["upset"]
  BY <1>1, RareFacts
<1>6. Ahead(ad'.normal) /\ (ad.cur = "AUTHOK" => GrantsOf(ad'.normal, ad.used.ap))
  BY <1>4 DEF LinkInv, ResponseOK
<1>7. ad'.high # ad.high => ad.cur \notin Trying /\ ~ad.link
  BY <1>4 DEF Trying
<1> QED BY <1>1, <1>2, <1>4, <1>5, <1>6, <1>7, SideStep

\* The user's request for a network is queued: from here on the wish to reconnect is
\* gone.
LEMMA Set_SSIDLink ==
    ASSUME TypeOK, TypeOK', CalmInv, LinkInv, Set_SSID PROVE LinkInv'
<1>1. /\ ad'.normal = ad.normal /\ ad'.cur = "IDLE" /\ ad'.reconnect = "NO"
      /\ ad'.link = ad.link /\ ad'.joined = ad.joined /\ ad'.attr = ad.attr
      /\ Has(ad'.high, "SET_SSID")
  BY SetSsidFacts
<1>2. PICK q \in Dropped(ad.high, { "SCAN" }) :
        \/ ad'.high = q
        \/ \E t \in Tasks : t.event = "SET_SSID" /\ ~Has(q, "SET_SSID") /\ ad'.high = Append(q, t)
  BY SetSsidFacts
<1>3. Recovers' => Recovers
  <2>1. q \in Seq(Tasks) /\ \A e : Has(q, e) => Has(ad.high, e)
    BY <1>2, TypedQueues, QueueDropped
  <2>2. CASE ad'.high = q
    BY <2>1, <2>2 DEF Recovers
  <2>3. ASSUME NEW t \in Tasks, t.event = "SET_SSID", ad'.high = Append(q, t)
        PROVE  Recovers' => Recovers
    <3>1. Has(ad'.high, "RECOVER") => Has(q, "RECOVER")
      BY <2>1, <2>3, QueueAppend
    <3> QED BY <2>1, <3>1 DEF Recovers
  <2> QED BY <1>2, <2>2, <2>3
<1>4. Another'
  BY <1>1 DEF Another
<1>5. ConnectedOK'
  BY <1>1, <1>3, <1>4 DEF LinkInv, ConnectedOK, Trying
<1>6. ResponseOK'
  BY <1>1 DEF LinkInv, ResponseOK
<1>7. TasksOK'
  BY <1>1, <1>4 DEF TasksOK, Trying
<1>8. RoamsOK'
  BY <1>1, <1>4 DEF RoamsOK, Seeking
<1> QED BY <1>5, <1>6, <1>7, <1>8 DEF LinkInv

\* The beacons are lost while nothing waits that would end the connection.
LEMMA BeaconsLostLink ==
    ASSUME TypeOK, TypeOK', CalmInv, LinkInv, ~Ending, BeaconsLost PROVE LinkInv'
<1> DEFINE a == [ad EXCEPT !.reconnect = "NEED"]
           b == [a EXCEPT !.scanning = FALSE, !.heard = {}, !.known = {}]
           t == Event("SCAN")
<1>1. /\ ad.link /\ ad.reconnect = "NO"
      /\ worker' = worker /\ user' = user /\ granted' = granted
      /\ ad' = a \/ ad' = Create(b, t)
  BY DEF BeaconsLost
<1>2. t \in Tasks /\ t.event = "SCAN"
  BY TaskFacts
<1>3. /\ ad \in Adapter /\ ad.high \in Seq(Tasks) /\ \A e : Waits(ad, e) <=> Has(ad.high, e)
      /\ Leaving(ad.high) => Has(ad.high, "DISASSOC")
  BY TypedQueues DEF Leaving, Has
<1>4. /\ a \in Adapter /\ Bond(ad, a) /\ a.cur = ad.cur /\ a.reconnect = "NEED"
      /\ a.high = ad.high /\ a.normal = ad.normal
  <2>1. a \in Adapter
    BY <1>3 DEF Adapter
  <2> QED BY <1>3, <2>1 DEF Adapter, Bond
<1> HIDE DEF a
<1>5. /\ b \in Adapter /\ Bond(a, b) /\ b.cur = a.cur /\ b.reconnect = a.reconnect
      /\ b.high = a.high /\ b.normal = a.normal
  <2>1. b \in Adapter
    BY <1>4 DEF Adapter
  <2> QED BY <1>4, <2>1 DEF Adapter, Bond
<1> HIDE DEF b, t
<1>6. /\ Bond(ad, ad') /\ ad'.cur = ad.cur /\ ad'.reconnect = "NEED" /\ ad'.normal = ad.normal
      /\ ad'.high = ad.high \/ ad'.high = Append(ad.high, t)
  <2>1. CASE ad' = a
    BY <1>4, <2>1
  <2>2. CASE ad' = Create(b, t)
    <3>1. /\ Bond(b, ad') /\ ad'.cur = b.cur /\ ad'.reconnect = b.reconnect
          /\ ad'.normal = b.normal /\ ad'.high = Append(b.high, t)
      BY <1>2, <1>5, <2>2, CreateFacts
    <3> QED BY <1>4, <1>5, <3>1 DEF Bond
  <2> QED BY <1>1, <2>1, <2>2
<1>7. ~Has(ad.high, "SET_SSID") /\ ~Has(ad.high, "DISASSOC") /\ ~Leaving(ad.high)
  BY <1>3 DEF Ending
<1>8. ~Recovers
  BY <1>1, <1>7 DEF LinkInv, TasksOK
<1>9. /\ ~Has(ad'.high, "SET_SSID") /\ ~Has(ad'.high, "DISASSOC") /\ ~Leaving(ad'.high)
      /\ ~Recovers'
  <2>1. CASE ad'.high = ad.high
    BY <1>7, <1>8, <2>1 DEF Recovers
  <2>2. CASE ad'.high = Append(ad.high, t)
    <3>1. \A e : Has(ad'.high, e) <=> Has(ad.high, e) \/ t.event = e
      BY <1>2, <1>3, <2>2, QueueAppend
    <3>2. ~Leaving(ad'.high)
      BY <1>2, <1>3, <1>7, <2>2, AppendKeeps
    <3> QED BY <1>2, <1>7, <1>8, <3>1, <3>2 DEF Recovers
  <2> QED BY <1>6, <2>1, <2>2
<1>10. ad.cur \notin Trying /\ (Another' <=> Another)
  BY <1>1, <1>7, <1>9 DEF LinkInv, ConnectedOK, Another
<1>11. ConnectedOK'
  BY <1>1, <1>6, <1>9, <1>10 DEF LinkInv, ConnectedOK, Bond
<1>12. ResponseOK'
  BY <1>6 DEF LinkInv, ResponseOK, Bond
<1>13. TasksOK'
  BY <1>6, <1>9, <1>10 DEF TasksOK, Trying
<1>14. RoamsOK'
  BY <1>1, <1>6, <1>9 DEF RoamsOK, Bond
<1> QED BY <1>11, <1>12, <1>13, <1>14 DEF LinkInv

\* The card set up again keeps what the driver takes for the connection.
LEMMA RunHardwareResetLink ==
    ASSUME TypeOK, TypeOK', CalmInv, LinkInv, RunHardwareReset PROVE LinkInv'
<1> DEFINE r == Tail(ad.high)
<1>1. HeadOfHigh("RESET") /\ worker' = worker /\ user' = user /\ left' = left
  BY DEF RunHardwareReset
<1>2. /\ ad'.reconnect = ad.reconnect /\ Bond(ad, ad')
      /\ ad'.cur = ad.cur \/ (ad.cur = "SCANNING" /\ ad'.cur = "IDLE")
      /\ \E h \in Dropped(r, { "SCAN" }) :
           ad'.high = h \/ ad'.high \in Dropped(h, { "RESET" })
      /\ ad'.normal = ad.normal \/ ad'.normal \in Dropped(ad.normal, FrameEvents)
  BY HardwareResetFacts
<1>3. granted' = granted
  BY <1>2 DEF RunHardwareReset, Leaves, Bond
<1>4. /\ r \in Seq(Tasks) /\ worker = "idle"
      /\ \A e : e # "RESET" => (Has(r, e) <=> Has(ad.high, e))
      /\ ~Has(r, "RECOVER") /\ ~Has(ad.high, "DISCONNECTED")
      /\ Leaving(r) => Leaving(ad.high)
  BY <1>1, HeadTaken, HeadKeeps
<1> HIDE DEF r
<1>5. PICK h \in Dropped(r, { "SCAN" }) : ad'.high = h \/ ad'.high \in Dropped(h, { "RESET" })
  BY <1>2
<1>6. /\ h \in Seq(Tasks)
      /\ \A e : Has(h, e) => Has(r, e) /\ e # "SCAN"
      /\ \A e : Has(r, e) /\ e # "SCAN" => Has(h, e)
      /\ Leaving(h) => Leaving(r)
  BY <1>4, <1>5, QueueDropped, DroppedKeeps
<1>7. /\ \A e : Has(ad'.high, e) => Has(h, e)
      /\ \A e : Has(h, e) /\ e # "RESET" => Has(ad'.high, e)
      /\ Leaving(ad'.high) => Leaving(h)
  <2>1. CASE ad'.high = h
    BY <2>1
  <2>2. CASE ad'.high \in Dropped(h, { "RESET" })
    BY <1>6, <2>2, QueueDropped, DroppedKeeps
  <2> QED BY <1>5, <2>1, <2>2
<1>8. /\ Has(ad'.high, "SET_SSID") <=> Has(ad.high, "SET_SSID")
      /\ Has(ad'.high, "DISASSOC") <=> Has(ad.high, "DISASSOC")
      /\ ~Has(ad'.high, "RECOVER") /\ ~Has(ad'.high, "SCAN")
      /\ Leaving(ad'.high) => Leaving(ad.high)
  BY <1>4, <1>6, <1>7
<1>9. Ahead(ad'.normal) /\ (ad'.cur = "AUTHOK" => GrantsOf(ad'.normal, ad.used.ap))
  BY <1>2, TypedQueues, FramesDropped DEF LinkInv, ResponseOK
<1>10. ~ScanComes' /\ ~Recovers'
  BY <1>1, <1>4, <1>8 DEF ScanComes, Recovers
<1>11. Untroubled' => Untroubled
  BY <1>1 DEF Untroubled
<1> QED BY <1>1, <1>2, <1>3, <1>4, <1>8, <1>9, <1>10, <1>11, BondStep DEF Bond

\* The old connection is taken up only for the access point that granted it.
LEMMA RunRecoverLink ==
    ASSUME TypeOK, TypeOK', CalmInv, LinkInv, RunRecover PROVE LinkInv'
<1> DEFINE p == Popped
           q == [p EXCEPT !.link = FALSE]
<1>1. HeadOfHigh("RECOVER") /\ worker' = worker /\ user' = user /\ ad.high # << >>
  BY DEF RunRecover, HeadOfHigh
<1>2. /\ p \in Adapter /\ p.high = Tail(ad.high) /\ p.normal = ad.normal /\ Bond(ad, p)
  BY <1>1, PoppedFacts
<1>3. \/ /\ ad' = [p EXCEPT !.link = TRUE, !.cur = "ASSOCOK", !.work = {}, !.reconnect = "NO"]
         /\ granted' = granted
      \/ ad' = MediaDown(q)
  BY DEF RunRecover
<1> HIDE DEF p
<1>4. /\ \A e : e # "RECOVER" => (Has(Tail(ad.high), e) <=> Has(ad.high, e))
      /\ ~Has(Tail(ad.high), "RECOVER") /\ Has(ad.high, "RECOVER")
      /\ Leaving(Tail(ad.high)) => Leaving(ad.high)
  BY <1>1, HeadKeeps, HeadTaken
<1>5. CASE ad' = [p EXCEPT !.link = TRUE, !.cur = "ASSOCOK", !.work = {}, !.reconnect = "NO"]
           /\ granted' = granted
  <2>1. /\ ad'.link /\ ad'.cur = "ASSOCOK" /\ ad'.reconnect = "NO"
        /\ ad'.used = ad.used /\ ad'.attr = ad.attr
        /\ ad'.high = Tail(ad.high) /\ ad'.normal = ad.normal
    BY <1>2, <1>5 DEF Adapter, Bond
  <2>2. /\ Has(ad'.high, "SET_SSID") <=> Has(ad.high, "SET_SSID")
        /\ ~Recovers' /\ Recovers /\ (ScanComes' => ScanComes)
        /\ Leaving(ad'.high) => Leaving(ad.high)
    BY <1>1, <1>4, <2>1 DEF Recovers, ScanComes
  <2>3. Another' <=> Another
    BY <1>1, <2>2 DEF Another
  <2>4. ad.link \/ Another
    BY <2>2 DEF LinkInv, TasksOK
  <2>5. ConnectedOK'
    BY <1>5, <2>1, <2>2, <2>3, <2>4 DEF LinkInv, ConnectedOK, Trying
  <2>6. ResponseOK'
    BY <2>1 DEF LinkInv, ResponseOK
  <2>7. TasksOK'
    BY <2>1, <2>2, <2>3, <2>4 DEF LinkInv, TasksOK, Trying
  <2>8. RoamsOK'
    BY <2>1, <2>2 DEF LinkInv, TasksOK, RoamsOK, Seeking
  <2> QED BY <2>5, <2>6, <2>7, <2>8 DEF LinkInv
<1>6. CASE ad' = MediaDown(q)
  <2>1. q \in Adapter /\ ~q.link /\ q.high = p.high /\ q.normal = p.normal
    <3>1. q \in Adapter
      BY <1>2 DEF Adapter
    <3> QED BY <1>2, <3>1 DEF Adapter
  <2> HIDE DEF q
  <2>2. /\ ~ad'.link /\ ~ad'.joined /\ ad'.cur = "IDLE" /\ ad'.reconnect = "NO"
        /\ ad'.high = q.high
    BY <1>6, <2>1, EndFields
  <2>3. Ahead(ad'.normal)
    <3>1. ad'.normal = q.normal
      BY <1>6, <2>1, TimerFacts DEF Follows
    <3> QED BY <1>2, <2>1, <3>1 DEF LinkInv, ResponseOK
  <2>4. ~Recovers'
    BY <1>2, <1>4, <2>1, <2>2 DEF Recovers
  <2> QED BY <2>2, <2>3, <2>4, DownStep DEF Seeking
<1> QED BY <1>3, <1>5, <1>6

\* The end of a scan or of an attempt.
LEMMA RunTimeoutLink ==
    ASSUME TypeOK, TypeOK', CalmInv, LinkInv, RunTimeout PROVE LinkInv'
<1> DEFINE p == PoppedNormal
<1>1. /\ HeadOfNormal /\ BusyCounted /\ worker' = worker /\ user' = user
      /\ ad' \in Timeout(p)
      /\ ad'.link \/ ~ad.link => granted' = granted
  BY DEF RunTimeout, Leaves
<1>2. /\ worker = "idle" /\ ad.high = << >> /\ ad.normal # << >>
      /\ \A e : ~Has(ad.high, e)
  BY <1>1, NormalTaken
<1>3. /\ p \in Adapter /\ p.normal = Tail(ad.normal) /\ p.high = ad.high
      /\ p.cur = ad.cur /\ p.oid = ad.oid /\ p.begin = ad.begin /\ p.scanning = ad.scanning
      /\ p.running = ad.running /\ p.ticking = ad.ticking /\ p.reconnect = ad.reconnect /\ Bond(ad, p)
  BY <1>2, PoppedNormalFacts
<1> HIDE DEF p
<1>4. Stays(p, ad')
  BY <1>1, <1>3, MngAssumption, TimeoutLeaves
<1>5. /\ ad'.normal = Tail(ad.normal)
      /\ ad'.high = ad.high \/ ad'.cur \notin Trying
  <2>1. Quiet(p)
    BY <1>3 DEF CalmInv, Quiet
  <2>2. Comes(p, ad') /\ (ad'.high = p.high \/ Resting(ad'))
    BY <1>1, <1>3, <2>1, MngAssumption, TimeoutFacts
  <2> QED BY <1>3, <2>2 DEF Comes, Resting
<1>6. /\ Ahead(ad'.normal)
      /\ ad.cur = "AUTHOK" => GrantsOf(ad'.normal, ad.used.ap)
  BY <1>2, <1>5, TypedQueues, TailKeeps DEF LinkInv, ResponseOK
<1>7. /\ ad'.link => ad.link /\ ad'.cur = ad.cur /\ ad.cur \notin Trying
      /\ ad'.joined => ad.joined
      /\ ad'.attr.ap = ad.attr.ap
      /\ ad'.cur \in { ad.cur, "IDLE" }
      /\ ad'.link /\ ad'.reconnect = "NO" => ad.reconnect = "NO"
      /\ ad'.reconnect \in Seeking => ad.reconnect \in Seeking /\ (ad.link => ad'.link)
  BY <1>3, <1>4 DEF Stays, Bond, LinkInv, ConnectedOK
<1>8. /\ user'.pc = "ssid" => Another'
      /\ Another => user.pc = "ssid"
      /\ ~Leaving(ad.high)
  BY <1>2 DEF Another, Leaving, Has
<1>9. Untroubled' => Untroubled
  BY <1>1, BusyFacts DEF Untroubled
<1>10. CASE ad'.high = ad.high
  <2>1. ad'.used.ap = ad.used.ap
    <3>1. \A t \in Tasks : ad'.high # Append(p.high, t)
      BY <1>3, <1>10, TypedQueues, AppendDiffers
    <3> QED BY <1>3, <1>4, <3>1 DEF Stays, Bond
  <2>2. /\ \A e : ~Has(ad'.high, e)
        /\ ~Leaving(ad'.high) /\ ~Recovers' /\ ~ScanComes'
    BY <1>1, <1>2, <1>8, <1>10 DEF Recovers, ScanComes
  <2>3. ConnectedOK'
    BY <1>1, <1>7, <1>8, <2>1, <2>2 DEF LinkInv, ConnectedOK, Trying
  <2>4. ResponseOK'
    BY <1>6, <1>7, <2>1 DEF ResponseOK
  <2>5. TasksOK'
    BY <2>2 DEF TasksOK
  <2>6. RoamsOK'
    BY <1>1, <1>2, <1>7, <1>8, <1>9, <2>2 DEF LinkInv, RoamsOK
  <2> QED BY <2>3, <2>4, <2>5, <2>6 DEF LinkInv
<1>11. ASSUME NEW t \in Tasks, ad'.high = Append(ad.high, t)
       PROVE  /\ \A e : Has(ad'.high, e) <=> t.event = e
              /\ Leaving(ad'.high) => t.event = "DISASSOC"
  <2>1. \A e : Has(ad'.high, e) <=> t.event = e
    BY <1>2, <1>11, FirstTask
  <2>2. Leaving(ad'.high) <=> Leaving(ad.high) \/ (t.event = "DISASSOC" /\ ~t.ind)
    BY <1>11, TypedQueues, AppendKeeps
  <2> QED BY <1>8, <2>1, <2>2
<1>12. ASSUME NEW t \in Tasks, ad'.high = Append(ad.high, t), t.event = "SET_SSID",
              ad'.reconnect \notin Seeking, ad'.cur \notin Trying
       PROVE  LinkInv'
  <2>1. /\ Has(ad'.high, "SET_SSID") /\ ~Leaving(ad'.high) /\ ~Recovers' /\ Another'
    BY <1>11, <1>12 DEF Recovers, Another
  <2>2. ~ScanComes' /\ ~Has(ad'.high, "DISASSOC")
    BY <1>1, <1>2, <1>11, <1>12 DEF ScanComes
  <2>3. ConnectedOK'
    BY <1>7, <1>12, <2>1 DEF LinkInv, ConnectedOK
  <2>4. ResponseOK'
    BY <1>6, <1>12 DEF ResponseOK, Trying
  <2>5. TasksOK'
    BY <1>12, <2>1, <2>2 DEF TasksOK
  <2>6. RoamsOK'
    BY <1>12, <2>1 DEF RoamsOK
  <2> QED BY <2>3, <2>4, <2>5, <2>6 DEF LinkInv
<1>13. ASSUME NEW t \in Tasks, ad'.high = Append(ad.high, t), t.event = "RECOVER",
              ad'.reconnect \notin Seeking, ad'.reconnect # "NO", ad'.cur \notin Trying,
              ad'.used.ap = ad.used.ap, ad'.link = ad.link, ad.attr.ap # None,
              ad.reconnect \in Seeking
       PROVE  LinkInv'
  <2>1. /\ ~Has(ad'.high, "SET_SSID") /\ ~Leaving(ad'.high) /\ Recovers'
        /\ ~ScanComes' /\ ~Has(ad'.high, "DISASSOC")
    BY <1>1, <1>2, <1>11, <1>13 DEF Recovers, ScanComes
  <2>2. ad.link \/ Another
    BY <1>2, <1>13 DEF LinkInv, RoamsOK
  <2>3. ConnectedOK'
    BY <1>1, <1>7, <1>8, <1>13, <2>1 DEF LinkInv, ConnectedOK
  <2>4. ResponseOK'
    BY <1>6, <1>13 DEF ResponseOK, Trying
  <2>5. TasksOK'
    BY <1>1, <1>8, <1>13, <2>1, <2>2 DEF TasksOK, Trying
  <2>6. RoamsOK'
    BY <1>13, <2>1 DEF RoamsOK
  <2> QED BY <2>3, <2>4, <2>5, <2>6 DEF LinkInv
<1>14. CASE ad'.high # ad.high
  <2>1. PICK t \in Tasks :
          /\ ad'.high = Append(ad.high, t) /\ ad'.reconnect \notin Seeking
          /\ \/ t.event = "SET_SSID"
             \/ /\ t.event = "RECOVER" /\ ad'.reconnect # "NO"
                /\ ad'.used.ap = ad.used.ap /\ ad'.link = ad.link
                /\ ad.attr.ap # None /\ ad.reconnect \in Seeking
    BY <1>3, <1>4, <1>14 DEF Stays, Bond
  <2> QED BY <1>5, <1>12, <1>13, <1>14, <2>1
<1> QED BY <1>10, <1>14

\* What a frame makes of the connection, taken up by the worklet or by the softirq.
LEMMA FrameLink ==
    ASSUME TypeOK, TypeOK', CalmInv, LinkInv,
           NEW a, Holds(ad, a), a.high = ad.high,
           NEW f, Turns(a, f, ad'), Accept(ad', f),
           worker' = worker, user' = user, left' = left \/ left'["upset"] <= left["upset"],
           Grants(f) /\ ad.cur = "AUTHOK" => f.ap = ad.used.ap /\ f.ap \in Ap,
           f.event = "ASSOC" \/ (ad.high = << >> /\ worker = "idle"),
           Ahead(ad'.normal), ad.cur = "AUTHOK" => GrantsOf(ad'.normal, ad.used.ap),
           f.event = "AUTH" => \A p : GrantsOf(ad'.normal, p)
    PROVE  LinkInv'
<1>1. /\ a.cur = ad.cur /\ a.link = ad.link /\ a.joined = ad.joined
      /\ a.reconnect = ad.reconnect /\ a.used.ap = ad.used.ap /\ a.attr.ap = ad.attr.ap
  BY DEF Holds
<1>2. granted' = IF ad'.link /\ ~ad.link THEN f.ap ELSE IF ad.link /\ ~ad'.link THEN None ELSE granted
  BY DEF Accept
<1>3. Untroubled' => Untroubled
  BY TroubleFacts DEF Untroubled
<1>4. ad.cur \in Trying => ~ad.link /\ ~ad.joined /\ ~Recovers /\ ~Has(ad.high, "SET_SSID")
  BY DEF LinkInv, ConnectedOK, TasksOK
<1>5. ad.cur \in { "JOINOK", "AUTHOK" } => ~ScanComes /\ ~Has(ad.high, "DISASSOC")
  BY DEF LinkInv, TasksOK
<1>6. /\ Leaving(ad.high) => Has(ad.high, "DISASSOC")
      /\ ad.high = << >> => \A e : ~Has(ad.high, e)
  BY DEF Leaving, Has
<1>7. CASE Granted(a, f, ad')
  <2>1. /\ ad.cur = "AUTHOK" /\ ad.cur \in Trying /\ Grants(f) /\ ad'.cur = "ASSOCOK" /\ ad'.link
        /\ ad'.reconnect = "NO" /\ ad'.used.ap = ad.used.ap /\ ad'.attr.ap = ad.used.ap
        /\ ad'.high = ad.high
    BY <1>1, <1>7 DEF Granted, Trying
  <2>2. granted' = ad.used.ap /\ ad.used.ap # None
    BY <1>2, <1>4, <2>1, MngAssumption DEF MngAssumption
  <2>3. ~Recovers' /\ ~ScanComes' /\ ~Has(ad'.high, "DISASSOC") /\ ~Leaving(ad'.high)
        /\ ~Has(ad'.high, "SET_SSID")
    BY <1>4, <1>5, <1>6, <2>1 DEF Recovers, ScanComes
  <2>4. ConnectedOK'
    BY <2>1, <2>2 DEF ConnectedOK, Trying
  <2>5. ResponseOK'
    BY <2>1 DEF ResponseOK
  <2>6. TasksOK'
    BY <2>3 DEF TasksOK
  <2>7. RoamsOK'
    BY <2>1, <2>3 DEF RoamsOK, Seeking
  <2> QED BY <2>4, <2>5, <2>6, <2>7 DEF LinkInv
<1>8. CASE Tried(a, f, ad')
  <2>1. /\ ad.cur \in Trying /\ ~ad'.link /\ ~ad'.joined
        /\ ad'.reconnect \in { ad.reconnect, "NO" } /\ ad'.high = ad.high
        /\ ad'.cur \in Trying \cup { "IDLE" }
        /\ ad'.cur = "AUTHOK" => ad'.used.ap = ad.used.ap /\ (ad.cur = "AUTHOK" \/ f.event = "AUTH")
        /\ ad'.cur = "JOINOK" => ad.cur = "JOINOK" \/ f.event = "BEACON"
    BY <1>1, <1>4, <1>8 DEF Tried
  <2>2. /\ ~Recovers' /\ ~Has(ad'.high, "SET_SSID")
        /\ ScanComes' => ScanComes
        /\ Has(ad'.high, "DISASSOC") => Has(ad.high, "DISASSOC")
    BY <1>4, <2>1 DEF Recovers, ScanComes
  <2>3. ConnectedOK'
    BY <2>1, <2>2 DEF ConnectedOK
  <2>4. ResponseOK'
    BY <2>1 DEF ResponseOK
  <2>5. ScanComes' \/ Has(ad'.high, "DISASSOC") => ad'.cur \notin { "JOINOK", "AUTHOK" }
    <3>1. CASE ad.high = << >> /\ worker = "idle"
      BY <1>6, <2>2, <3>1 DEF ScanComes
    <3>2. CASE f.event = "ASSOC"
      BY <1>5, <2>1, <2>2, <3>2
    <3> QED BY <3>1, <3>2
  <2>6. TasksOK'
    BY <2>1, <2>2, <2>5 DEF TasksOK
  <2>7. RoamsOK'
    <3>1. ad'.reconnect \in Seeking => ad.reconnect \in Seeking
      BY <2>1 DEF Seeking
    <3>2. ad'.reconnect \in Seeking => Another \/ Has(ad.high, "DISCONNECTED")
      BY <1>4, <2>1, <3>1 DEF LinkInv, RoamsOK
    <3>3. Another => Another'
      BY <2>1 DEF Another
    <3> QED BY <2>1, <2>2, <3>2, <3>3 DEF RoamsOK
  <2> QED BY <2>3, <2>4, <2>6, <2>7 DEF LinkInv
<1>9. CASE Untried(a, f, ad') /\ Still(a, ad')
  <2>1. Holds(ad, ad') /\ ad'.high = ad.high
    BY <1>1, <1>9 DEF Still, Holds
  <2>2. granted' = granted
    BY <1>2, <2>1 DEF Holds
  <2>3. /\ ScanComes' => ScanComes
        /\ Recovers' => Recovers
        /\ Leaving(ad'.high) => Leaving(ad.high)
    BY <2>1 DEF ScanComes, Recovers
  <2>4. /\ Has(ad'.high, "SET_SSID") <=> Has(ad.high, "SET_SSID")
        /\ Has(ad'.high, "DISASSOC") <=> Has(ad.high, "DISASSOC")
        /\ Has(ad.high, "DISCONNECTED") => Has(ad'.high, "DISCONNECTED")
    BY <2>1
  <2> QED BY <1>3, <2>1, <2>2, <2>3, <2>4, BondStep DEF Holds
<1>10. CASE /\ f.event \in { "DEAUTH", "BEACON" } /\ ad'.cur = "IDLE" /\ ~ad'.link /\ ~ad'.joined
            /\ ad'.high = Append(a.high, Event("DISCONNECTED"))
  <2> DEFINE t == Event("DISCONNECTED")
  <2>1. t \in Tasks /\ t.event = "DISCONNECTED"
    BY TaskFacts
  <2>2. ad'.high = Append(ad.high, t) /\ ad.high = << >>
    BY <1>10
  <2> HIDE DEF t
  <2>3. \A e : Has(ad'.high, e) <=> t.event = e
    BY <2>1, <2>2, FirstTask
  <2>4. ~Recovers' /\ ~Has(ad'.high, "SET_SSID") /\ Has(ad'.high, "DISCONNECTED")
    BY <2>1, <2>3 DEF Recovers
  <2> QED BY <1>10, <2>4, DownStep
<1> QED BY <1>7, <1>8, <1>9, <1>10 DEF Turns, Untried

\* The worklet handles a frame.
LEMMA RunFrameLink ==
    ASSUME TypeOK, TypeOK', CalmInv, LinkInv, RunFrame PROVE LinkInv'
<1> DEFINE p == PoppedNormal
           f == Head(ad.normal)
<1>1. /\ HeadOfNormal /\ f.event # "MNGTIMEOUT" /\ worker' = worker /\ user' = user
      /\ left' = left /\ Accept(Receive(p, f), f)
  BY DEF RunFrame
<1>2. /\ worker = "idle" /\ ad.high = << >> /\ ad.normal # << >> /\ f \in Tasks \cup Frames
  BY <1>1, NormalTaken
<1>3. /\ p \in Adapter /\ p.normal = Tail(ad.normal) /\ p.high = ad.high
      /\ p.cur = ad.cur /\ p.reconnect = ad.reconnect /\ Bond(ad, p)
  BY <1>2, PoppedNormalFacts
<1>4. ad' = Receive(p, f) /\ Accept(ad', f)
  BY <1>1 DEF Accept
<1>5. /\ Ahead(Tail(ad.normal))
      /\ ad.cur = "AUTHOK" => GrantsOf(Tail(ad.normal), ad.used.ap)
      /\ Grants(f) /\ ad.cur = "AUTHOK" => f.ap = ad.used.ap
      /\ f.event = "AUTH" => \A ap : GrantsOf(Tail(ad.normal), ap)
  BY <1>2, TypedQueues, TailKeeps DEF LinkInv, ResponseOK
<1> HIDE DEF p, f
<1>6. Turns(p, f, ad')
  BY <1>2, <1>3, <1>4, MngAssumption, ReceiveTurns
<1>7. ad'.normal = Tail(ad.normal)
  BY <1>2, <1>3, <1>4, MngAssumption, ReceiveFacts DEF Heard, Comes
<1>8. Grants(f) => f.ap \in Ap
  BY <1>2, ItemFacts DEF Grants
<1>9. Holds(ad, p)
  BY <1>3 DEF Bond, Holds
<1> QED BY <1>1, <1>2, <1>3, <1>4, <1>5, <1>6, <1>7, <1>8, <1>9, FrameLink

\* The association response is handled when it arrives: the one grant of the access
\* point asked makes the connection.
LEMMA AssocArrivesLink ==
    ASSUME TypeOK, TypeOK', CalmInv, LinkInv, AssocArrives PROVE LinkInv'
<1>1. PICK f \in Frames : f.event = "ASSOC" /\ f.ap = tuned /\ Takes(f) /\ Accept(Receive(ad, f), f)
  BY DEF AssocArrives
<1>2. ad \in Adapter /\ ad' = Receive(ad, f) /\ Accept(ad', f)
  BY <1>1, TypedQueues DEF Accept
<1>3. Turns(ad, f, ad') /\ Holds(ad, ad)
  BY <1>2, MngAssumption, ReceiveTurns DEF Holds
<1>4. ad'.normal = ad.normal
  BY <1>2, MngAssumption, ReceiveFacts DEF Heard, Comes
<1>5. worker' = worker /\ user' = user /\ left'["upset"] <= left["upset"]
  BY <1>1, TakesFacts
<1>6. Grants(f) => f.ap = ad.used.ap /\ f.ap \in Ap
  BY <1>1, GrantingFrame
<1>7. Ahead(ad'.normal) /\ (ad.cur = "AUTHOK" => GrantsOf(ad'.normal, ad.used.ap))
  BY <1>4 DEF LinkInv, ResponseOK
<1> QED BY <1>1, <1>2, <1>3, <1>5, <1>6, <1>7, FrameLink

-----------------------------------------------------------------------------
(* The theorems.                                                           *)

\* The fields as the driver sets them up.
LEMMA InitTypeOK == Init => TypeOK
<1> SUFFICES ASSUME Init PROVE TypeOK
  OBVIOUS
<1>1. PICK list \in { {}, Ap }, keys \in BOOLEAN :
        ad = [cur |-> "IDLE", work |-> {}, retry |-> 0, count |-> 0,
              oid |-> FALSE, begin |-> FALSE, scanning |-> FALSE,
              running |-> FALSE, ticking |-> FALSE,
              link |-> FALSE, joined |-> FALSE, disassoc |-> FALSE,
              reconnect |-> "NO", alg |-> "open", privacy |-> keys,
              used |-> [ap |-> None, ssid |-> None], attr |-> [ap |-> None, ssid |-> None],
              known |-> list, heard |-> list, high |-> << >>, normal |-> << >>]
  BY DEF Init
<1>2. ad \in Adapter /\ ad.ticking = FALSE
  <2>1. list \in SUBSET Ap
    BY <1>1
  <2>2. << >> \in Seq(Tasks) /\ << >> \in Seq(Tasks \cup Frames)
    OBVIOUS
  <2> QED BY <1>1, <2>1, <2>2 DEF Adapter
<1> QED BY <1>2, MngAssumption DEF Init, TypeOK, MngAssumption

\* Nothing is going on and nothing waits.
LEMMA InitCalm == Init => CalmInv
<1> SUFFICES ASSUME Init PROVE CalmInv
  OBVIOUS
<1>1. /\ ad.cur = "IDLE" /\ ad.oid = FALSE /\ ad.scanning = FALSE /\ ad.running = FALSE
      /\ ad.high = << >> /\ ad.normal = << >>
  BY DEF Init
<1>2. Len(ad.high) = 0 /\ Len(ad.normal) = 0
  BY <1>1
<1>3. (\A e : ~Has(ad.high, e)) /\ Ordered(ad.high) /\ Alone(ad.high)
  BY <1>2 DEF Has, Ordered, Alone
<1>4. left["upset"] <= Budget["upset"]
  <2>1. left = Budget
    BY DEF Init
  <2>2. Budget["upset"] \in Nat
    BY MngAssumption DEF MngAssumption, Bounded, Rare
  <2> QED BY <2>1, <2>2
<1>5. Quiet(ad) /\ WaitsAreTimed /\ TimerOK
  BY <1>1 DEF Quiet, WaitsAreTimed, TimerOK, Trying
<1>6. UpsetOK
  BY <1>2, <1>3, <1>4 DEF UpsetOK
<1> QED BY <1>3, <1>5, <1>6 DEF CalmInv, RequestOK, AheadOK

\* The functions of the driver leave an adapter with its fields in their ranges, and a
\* timer that ticks always has its flag up.
LEMMA NextTypeOK == TypeOK /\ [Next]_vars => TypeOK'
<1> SUFFICES ASSUME TypeOK, [Next]_vars PROVE TypeOK'
  OBVIOUS
<1>1. CASE Worklet
  BY <1>1, TakeScanStep, BeginScanStep, RunSetSsidStep, RunDisassocStep, RunDisconnectedStep,
     RunHardwareResetStep, RunRecoverStep, RunReqJoinStep, RunWepStep, RunTimeoutStep,
     RunFrameStep
     DEF Worklet
<1>2. CASE Softirqs
  BY <1>2, TimerFiresStep, BeaconArrivesStep, FrameArrivesStep, AssocArrivesStep,
     BeaconsLostStep, ResetInterruptStep DEF Softirqs
<1>3. CASE User
  BY <1>3, AskSsidStep, Set_SSIDStep, AskScanStep, Start_ScanStep, DisassociateStep, Set_AuthStep,
     Set_EncodeStep DEF User
<1>4. CASE UNCHANGED vars
  BY <1>4 DEF vars, TypeOK
<1> QED BY <1>1, <1>2, <1>3, <1>4 DEF Next

\* Every field the handlers share stays in its range, whatever comes in between.
THEOREM MngTyped == Spec => []TypeOK
<1>1. Init => TypeOK
  BY InitTypeOK
<1>2. TypeOK /\ [Next]_vars => TypeOK'
  BY NextTypeOK
<1> QED BY <1>1, <1>2, PTL DEF Spec

\* The calm driver does nothing of its own.
LEMMA CalmIsNext == CalmNext => Next
BY DEF CalmNext, Next, Softirqs, User

\* No action of the calm driver breaks the invariant.
LEMMA CalmNextInv == TypeOK /\ CalmInv /\ [CalmNext]_vars => CalmInv'
<1> SUFFICES ASSUME TypeOK, CalmInv, [CalmNext]_vars PROVE CalmInv'
  OBVIOUS
<1>1. CASE Worklet
  BY <1>1, TakeScanStep, BeginScanStep, RunSetSsidStep, RunDisassocStep, RunDisconnectedStep,
     RunHardwareResetStep, RunRecoverStep, RunReqJoinStep, RunWepStep, RunTimeoutStep,
     RunFrameStep
     DEF Worklet
<1>2. CASE TimerFires \/ BeaconArrives \/ FrameArrives \/ AssocArrives \/ ResetInterrupt
  BY <1>2, TimerFiresStep, BeaconArrivesStep, FrameArrivesStep, AssocArrivesStep,
     ResetInterruptStep
<1>3. CASE AskSsid \/ Set_SSID \/ Start_Scan \/ Disassociate \/ Set_Auth \/ Set_Encode
  BY <1>3, AskSsidStep, Set_SSIDStep, Start_ScanStep, DisassociateStep, Set_AuthStep,
     Set_EncodeStep
<1>4. CASE worker = "idle" /\ AskScan
  BY <1>4, AskScanStep
<1>5. CASE ~Ending /\ BeaconsLost
  BY <1>5, BeaconsLostStep
<1>6. CASE UNCHANGED vars
  BY <1>6 DEF vars, CalmInv, RequestOK, AheadOK, TimerOK, UpsetOK, WaitsAreTimed,
              Untroubled, TimeoutWaits
<1> QED BY <1>1, <1>2, <1>3, <1>4, <1>5, <1>6 DEF CalmNext

\* The invariant of the calm driver.
LEMMA CalmInvariant == CalmSpec => [](TypeOK /\ CalmInv)
<1>1. Init => TypeOK /\ CalmInv
  BY InitTypeOK, InitCalm
<1>2. TypeOK /\ CalmInv /\ [CalmNext]_vars => TypeOK' /\ CalmInv'
  BY NextTypeOK, CalmNextInv, CalmIsNext
<1> QED BY <1>1, <1>2, PTL DEF CalmSpec

\* An attempt to join, or a scan, has the timer running or its timeout queued, unless a
\* task was lost, a response cut short or the card set up anew: for every number of
\* access points, networks, channels and tries, and however often the user, the access
\* points and the beacons come in between.
THEOREM AttemptsAreTimed == CalmSpec => []WaitsAreTimed
<1>1. TypeOK /\ CalmInv => WaitsAreTimed
  BY DEF CalmInv
<1> QED BY <1>1, CalmInvariant, PTL

\* No scan of a user goes on while a join waits for its beacon.
THEOREM JoinsUnscanned == CalmSpec => []JoinExcludesScan
<1>1. TypeOK /\ CalmInv => JoinExcludesScan
  BY DEF CalmInv, Quiet, JoinExcludesScan, Trying
<1> QED BY <1>1, CalmInvariant, PTL

\* No connection yet.
LEMMA InitLink == Init => LinkInv
<1> SUFFICES ASSUME Init PROVE LinkInv
  OBVIOUS
<1>1. /\ ad.cur = "IDLE" /\ ad.link = FALSE /\ ad.joined = FALSE /\ ad.reconnect = "NO"
      /\ ad.high = << >> /\ ad.normal = << >>
  BY DEF Init
<1>2. Len(ad.high) = 0 /\ Len(ad.normal) = 0
  BY <1>1
<1>3. (\A e : ~Has(ad.high, e)) /\ ~Leaving(ad.high) /\ Ahead(ad.normal)
  BY <1>2 DEF Has, Leaving, Ahead
<1>4. ConnectedOK /\ TasksOK /\ RoamsOK
  BY <1>1, <1>3 DEF ConnectedOK, TasksOK, RoamsOK, Recovers, Trying, Seeking
<1> QED BY <1>1, <1>3, <1>4 DEF LinkInv, ResponseOK

\* Each step keeps it.
LEMMA CalmNextLink ==
    TypeOK /\ TypeOK' /\ CalmInv /\ LinkInv /\ [CalmNext]_vars => LinkInv'
<1> SUFFICES ASSUME TypeOK, TypeOK', CalmInv, LinkInv, [CalmNext]_vars PROVE LinkInv'
  OBVIOUS
<1>1. CASE Worklet
  BY <1>1, TakeScanLink, BeginScanLink, RunSetSsidLink, RunDisassocLink, RunDisconnectedLink,
     RunHardwareResetLink, RunRecoverLink, RunReqJoinLink, RunWepLink, RunTimeoutLink,
     RunFrameLink
     DEF Worklet
<1>2. CASE TimerFires \/ BeaconArrives \/ FrameArrives \/ AssocArrives \/ ResetInterrupt
  BY <1>2, TimerFiresLink, BeaconArrivesLink, FrameArrivesLink, AssocArrivesLink,
     ResetInterruptLink
<1>3. CASE \/ AskSsid \/ Set_SSID \/ AskScan \/ Start_Scan \/ Disassociate
           \/ Set_Auth \/ Set_Encode
  BY <1>3, AskSsidLink, Set_SSIDLink, Start_ScanLink, DisassociateLink, AskScanLink,
     Set_AuthLink, Set_EncodeLink
<1>4. CASE ~Ending /\ BeaconsLost
  BY <1>4, BeaconsLostLink
<1>5. CASE UNCHANGED vars
  BY <1>5 DEF vars, LinkInv, ConnectedOK, ResponseOK, TasksOK, RoamsOK,
              Recovers, Another, ScanComes, Untroubled
<1> QED BY <1>1, <1>2, <1>3, <1>4, <1>5 DEF CalmNext

\* What it says of a connection.
LEMMA LinkIsGranted == TypeOK /\ LinkInv => LinkGranted
<1> SUFFICES ASSUME TypeOK, LinkInv PROVE LinkGranted
  OBVIOUS
<1>1. /\ Waits(ad, "SET_SSID") <=> Has(ad.high, "SET_SSID")
      /\ Waits(ad, "DISASSOC") <=> Has(ad.high, "DISASSOC")
  BY TypedQueues
<1> QED BY <1>1 DEF LinkInv, ConnectedOK, RoamsOK, Another, LinkGranted, Ending

\* The driver takes itself for connected only with the access point that granted it,
\* unless another network is asked for; and it is out of the state of a connection,
\* with data still flowing, only on its way to another or to the end.
THEOREM ConnectedIsGranted == CalmSpec => []LinkGranted
<1>1. Init => LinkInv
  BY InitLink
<1>2. TypeOK /\ TypeOK' /\ CalmInv /\ LinkInv /\ [CalmNext]_vars => LinkInv'
  BY CalmNextLink
<1>3. TypeOK /\ LinkInv => LinkGranted
  BY LinkIsGranted
<1> QED BY <1>1, <1>2, <1>3, CalmInvariant, PTL DEF CalmSpec
=============================================================================
