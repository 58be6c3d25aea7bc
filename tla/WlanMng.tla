------------------------------ MODULE WlanMng ------------------------------
(***************************************************************************)
(* The management state machine of the WLAN driver (usbwlan_mng.c), with   *)
(* the resets of usbwlan_main.c and the requests of usbwlan_ioctl.c that   *)
(* drive it: scanning, joining, authentication, association, roaming.      *)
(*                                                                         *)
(* Four contexts share the fields of pAdap and of its management block,    *)
(* without a lock.  The worklet runs one task after another, those of high *)
(* priority first.  Softirqs let the management timer fire, queue received *)
(* frames as tasks, handle the association response themselves and notice  *)
(* that the beacons are lost.  A user asks for a scan, for a network or to *)
(* be disassociated; the wireless core lets in one user at a time.         *)
(*                                                                         *)
(* A handler of the worklet is one step, for the others may only come in   *)
(* where it sleeps; the long wait before a scan is a place of its own.     *)
(* Infrastructure mode, an open or WEP network, one antenna.  The list of  *)
(* networks is a set, ages and signal strengths are choices.  Creating a   *)
(* task succeeds (WlanTask has the queue), except that of the timer, and   *)
(* so does writing to the card.                                            *)
(***************************************************************************)
EXTENDS Integers, Sequences, FiniteSets

CONSTANTS Ap, Ssid,   \* the access points, the names of networks
          SsidOf,     \* the network each access point serves
          Private,    \* the access points with the privacy capability
          None,
          Channels,   \* channel_len_of_g
          MaxAuth, MaxAssoc,    \* MAXAUTHNUM, MAXASOCNUM
          JoinRetry,            \* JOIN_CFM_RETRY_NUM = JOIN_PROCESS_RETRY_NUM
          ScanWait,             \* MAX_SCAN_WAIT_COUNT
          MaxFrames,  \* bound: received frames that wait for the worklet
          Budget      \* bounds: how often the rarer things happen

Rare == { "odd", "busy", "upset" }   \* bound: one of them in a behaviour
Bounded == { "ask", "roam" } \cup Rare

\* Every region of usbwlan_main.c has channels.
ASSUME MngAssumption ==
    /\ None \notin Ap \cup Ssid
    /\ SsidOf \in [Ap -> Ssid] /\ Private \subseteq Ap
    /\ {Channels, MaxAuth, MaxAssoc, JoinRetry, ScanWait, MaxFrames} \subseteq Nat
    /\ Channels > 0 /\ MaxAuth > 0 /\ MaxAssoc > 0
    /\ Budget \in [Bounded -> Nat]

VARIABLES ad,       \* the fields of pAdap the handlers share
          worker,   \* the worklet: idle, or waiting to begin a scan
          user,     \* where the user is, and the name it asks for
          tuned,    \* the BSSID register of the card
          granted,  \* the access point that last granted an association
          left      \* of the budget

vars == << ad, worker, user, tuned, granted, left >>

Tasks == [event : { "SCAN", "REQJOIN", "RESET", "RECOVER", "DISCONNECTED", "MNGTIMEOUT" }]
     \cup [event : { "SET_SSID" }, type : { "join", "scan", "none", "roam" }, diff : BOOLEAN]
     \cup [event : { "DISASSOC" }, ind : BOOLEAN]
     \cup [event : { "WEP" }, add : BOOLEAN]
Frames == [event : { "BEACON" }, ap : Ap]
     \cup [event : { "AUTH" }, ap : Ap, seq : { 2, 4, None }, status : { "ok", "mode", "bad" }]
     \cup [event : { "ASSOC" }, ap : Ap, status : { "ok", "short", "bad" }]
     \cup [event : { "DEAUTH" }, ap : Ap, reason : { "mode", "other" }]

FrameEvents == { f.event : f \in Frames }

\* Trying: an attempt to find or to join a network.
Trying == { "SCANNING", "JOINNING", "JOINOK", "AUTHOK" }

Adapter ==
    [cur : Trying \cup { "IDLE", "ASSOCOK" },
     work : SUBSET { "MID_STOP", "CHAN", "HWIDLE", "WAIT", "AUTH2", "AUTH4" },
     retry : Nat, count : Nat,
     oid : BOOLEAN, begin : BOOLEAN, scanning : BOOLEAN,
     running : BOOLEAN, ticking : BOOLEAN,
     link : BOOLEAN, joined : BOOLEAN, disassoc : BOOLEAN,
     reconnect : { "NO", "NEED", "CAN", "DOING" },
     alg : { "open", "shared" }, privacy : BOOLEAN,
     used : [ap : Ap \cup {None}, ssid : Ssid \cup {None}],
     attr : [ap : Ap \cup {None}, ssid : Ssid \cup {None}],
     known : SUBSET Ap, heard : SUBSET Ap,
     high : Seq(Tasks), normal : Seq(Tasks \cup Frames)]

TypeOK ==
    /\ ad \in Adapter
    /\ worker \in { "idle", "scan" }
    /\ user \in [pc : { "idle", "ssid", "scan" }, ssid : Ssid \cup {None}]
    /\ tuned \in Ap \cup {None} /\ granted \in Ap \cup {None}
    /\ left \in [Bounded -> Nat]
    /\ ad.ticking => ad.running

\* An earlier scan has left its list of networks, or there was none; keys have been
\* given, or not.
Init ==
    \E list \in { {}, Ap }, keys \in BOOLEAN :
    /\ ad = [cur |-> "IDLE", work |-> {}, retry |-> 0, count |-> 0,
             oid |-> FALSE, begin |-> FALSE, scanning |-> FALSE,
             running |-> FALSE, ticking |-> FALSE,
             link |-> FALSE, joined |-> FALSE, disassoc |-> FALSE,
             reconnect |-> "NO", alg |-> "open", privacy |-> keys,
             used |-> [ap |-> None, ssid |-> None], attr |-> [ap |-> None, ssid |-> None],
             known |-> list, heard |-> list, high |-> << >>, normal |-> << >>]
    /\ worker = "idle"
    /\ user = [pc |-> "idle", ssid |-> None]
    /\ tuned = None /\ granted = None
    /\ left = Budget

Use(kind) ==
    /\ left[kind] > 0 /\ left' = [left EXCEPT ![kind] = @ - 1]
    /\ kind \in Rare => \A other \in Rare \ {kind} : left[other] = Budget[other]

-----------------------------------------------------------------------------
(* What the functions do to the adapter a.  Those that depend on the card  *)
(* or on the lists give the set of the adapters they may leave.            *)

\* Mng_SetTimerPro does nothing to a timer that is running.
SetTimer(a) == IF a.running THEN a ELSE [a EXCEPT !.running = TRUE, !.ticking = TRUE]
\* Faulty variants: the timer is forgotten to be stopped; its flag is.
ClearFlagOnly(a) == [a EXCEPT !.running = FALSE]
StopOnly(a) == [a EXCEPT !.ticking = FALSE]

ClearTimer(a) == [a EXCEPT !.running = FALSE, !.ticking = FALSE]

Waits(a, event) == \E i \in DOMAIN a.high : a.high[i].event = event
Create(a, task) == [a EXCEPT !.high = Append(@, task)]
CreateOnce(a, task) == IF Waits(a, task.event) THEN a ELSE Create(a, task)

\* What is left of q without the tasks of these events, in its order.
Dropped(q, events) ==
    LET kept == { i \in DOMAIN q : q[i].event \notin events }
    IN  { [i \in DOMAIN f |-> q[f[i]]] :
            f \in { f \in [1..Cardinality(kept) -> kept] :
                     \A i, j \in DOMAIN f : i < j => f[i] < f[j] } }

Event(e) == [event |-> e]
SetSsidTask(type, diff) == [event |-> "SET_SSID", type |-> type, diff |-> diff]

InitParas(a) == [a EXCEPT !.cur = "IDLE", !.retry = 0, !.heard = {}]
Fail(a) == [a EXCEPT !.scanning = FALSE]

\* Adap_UpdateMediaState(0)
MediaDown(a) == [InitParas(a) EXCEPT !.reconnect = "NO", !.joined = FALSE]

AuthFail(a) ==
    [Fail(InitParas(a)) EXCEPT !.joined = FALSE, !.link = FALSE,
                               !.reconnect = IF @ = "DOING" THEN "NO" ELSE @]

\* Half of the tries as an open system, then as one with a shared key.
DoAuth(a) ==
    LET turn == a.retry * 2 >= MaxAuth /\ a.alg = "open" /\ a.privacy
        b == IF turn THEN [a EXCEPT !.alg = "shared", !.retry = 0] ELSE a
    IN  IF b.retry >= MaxAuth THEN AuthFail(b)
        ELSE [SetTimer(b) EXCEPT !.work = { "AUTH2" }, !.retry = @ + 1]

StartAuth(a) == DoAuth([a EXCEPT !.cur = "JOINOK", !.retry = 0])
StartShared(a) == StartAuth([a EXCEPT !.alg = "shared"])

DoAssoc(a) ==
    IF a.retry >= MaxAssoc THEN AuthFail(a) ELSE [SetTimer(a) EXCEPT !.retry = @ + 1]
StartAssoc(a) == DoAssoc([a EXCEPT !.cur = "AUTHOK", !.retry = 0])

\* Mng_DisConnect: the task does the rest.
DisConnect(a) ==
    Create([Fail(InitParas(a)) EXCEPT !.joined = FALSE, !.link = FALSE], Event("DISCONNECTED"))

\* The channel, then an idle card, then the beacon of the access point is waited for.
ChecksIdle(a) == { [SetTimer(a) EXCEPT !.work = { w }] : w \in { "HWIDLE", "WAIT" } }
DoJoin(a) ==
    IF "CHAN" \notin a.work THEN ChecksIdle(a)
    ELSE {SetTimer(a)} \cup ChecksIdle([a EXCEPT !.retry = JoinRetry])

StartJoin(a) ==
    DoJoin([a EXCEPT !.cur = "JOINNING", !.work = { "CHAN" }, !.privacy = a.used.ap \in Private,
                     !.count = JoinRetry, !.retry = JoinRetry])

\* The lists of networks grow old: what was not heard again may be dropped.
Merged(a) ==
    { [a EXCEPT !.known = a.heard \cup k, !.heard = a.heard \cup k] : k \in { {}, a.known } }

\* BssTableSsidSort: the access points of the network, as far as the keys fit them.
Candidates(a) == { p \in a.heard : SsidOf[p] = a.attr.ssid /\ a.privacy = (p \in Private) }

\* Faulty variant: the connection is kept when no access point was found.
ReconnectKeepsLink(a) ==
    LET b == [a EXCEPT !.reconnect = "DOING"]
    IN  IF Candidates(a) = {} THEN {b}
        ELSE { CreateOnce(b, Event("RECOVER")) }

\* Faulty variant: any access point of the network is taken up like the old one.
ReconnectToAny(a) ==
    LET b == [a EXCEPT !.reconnect = "DOING"]
        out == Candidates(a)
    IN  IF out = {} THEN { MediaDown([b EXCEPT !.link = FALSE]) }
        ELSE { CreateOnce([b EXCEPT !.used.ap = p], Event("RECOVER")) : p \in out }

\* The beacons were lost: another access point of the network is joined, or the
\* same one taken up again, or the connection given up.
Reconnect(a) ==
    LET b == [a EXCEPT !.reconnect = "DOING"]
        out == Candidates(a)
        moved(p) ==
          IF Waits(b, "SET_SSID") THEN b
          ELSE [Create(b, SetSsidTask("roam", FALSE)) EXCEPT
                  !.used = [ap |-> p, ssid |-> SsidOf[p]]]
    IN  IF a.attr.ap = None THEN { [a EXCEPT !.reconnect = "NO"] }
        ELSE IF out = {} THEN { MediaDown([b EXCEPT !.link = FALSE]) }
        ELSE { moved(p) : p \in out }
             \cup { CreateOnce(b, Event("RECOVER")) : p \in out \cap {a.attr.ap} }

ScanFlagsCleared(a) == [a EXCEPT !.scanning = FALSE, !.begin = FALSE]

ScanFail(a) ==
    LET b == Fail(InitParas(a))
    IN  IF a.reconnect = "NEED" THEN Reconnect([b EXCEPT !.oid = FALSE, !.reconnect = "CAN"])
        ELSE Merged(b)

EndScan(a) ==
    LET b == ClearTimer(a)
        ended == { ScanFlagsCleared([c EXCEPT !.oid = FALSE]) : c \in Merged(b) }
    IN  IF b.oid
        THEN IF a.reconnect = "NEED"
             THEN UNION { Reconnect([c EXCEPT !.reconnect = "CAN"]) : c \in ended }
             ELSE { Fail(c) : c \in ended }
        ELSE IF b.cur = "SCANNING" THEN ScanFail(ScanFlagsCleared([b EXCEPT !.retry = 0]))
        ELSE {b}

\* The next channel, which the card takes up or not; nothing when the scan was broken off.
DoScan(a) ==
    IF a.reconnect # "NEED" /\ ~a.begin
    THEN { [a EXCEPT !.oid = FALSE, !.scanning = FALSE,
                     !.cur = IF @ = "SCANNING" THEN "IDLE" ELSE @] }
    ELSE IF a.count >= Channels THEN EndScan(a)
    ELSE { [SetTimer(a) EXCEPT !.count = @ + 1],
           [SetTimer(a) EXCEPT !.work = @ \cup { "WAIT" }, !.retry = @ + 1] }

OidScan(a) ==
    DoScan([ClearTimer(a) EXCEPT !.retry = 0, !.heard = {}, !.scanning = TRUE,
                                 !.count = 0, !.oid = TRUE, !.work = {}])

OidScanWithSsid(a) ==
    DoScan([ClearTimer(a) EXCEPT !.begin = TRUE, !.attr.ssid = a.used.ssid, !.scanning = TRUE,
                                 !.count = 0, !.cur = "SCANNING", !.work = { "MID_STOP" }])

\* Faulty variant: one of the flags stays.
BreakKeepsOid(a) ==
    IF a.cur = "SCANNING" \/ a.oid \/ a.begin
    THEN [ClearTimer(a) EXCEPT !.begin = FALSE, !.scanning = FALSE,
                               !.cur = IF @ = "SCANNING" THEN "IDLE" ELSE @]
    ELSE a

BreakIfScanning(a) ==
    IF a.cur = "SCANNING" \/ a.oid \/ a.begin
    THEN [ClearTimer(a) EXCEPT !.begin = FALSE, !.oid = FALSE, !.scanning = FALSE,
                               !.cur = IF @ = "SCANNING" THEN "IDLE" ELSE @]
    ELSE a

ScanTimeout(a) ==
    IF "WAIT" \in a.work /\ a.retry > ScanWait
    THEN EndScan([a EXCEPT !.work = @ \ { "WAIT" }])
    ELSE DoScan([a EXCEPT !.work = @ \ { "WAIT" }])

JoinTimeout(a) ==
    IF a.work \cap { "CHAN", "HWIDLE", "WAIT" } = {} THEN { SetTimer(a) }
    ELSE IF "HWIDLE" \in a.work THEN DoJoin(a)
    ELSE IF a.retry = 0 THEN { Fail(InitParas(a)) }
    ELSE IF "WAIT" \in a.work THEN { [SetTimer(a) EXCEPT !.retry = @ - 1] }
    ELSE DoJoin([a EXCEPT !.retry = @ - 1])

\* Mng_Timeout
Timeout(a) ==
    IF a.oid /\ a.cur # "JOINNING" THEN ScanTimeout(a)
    ELSE CASE a.cur = "SCANNING" -> ScanTimeout(a)
           [] a.cur = "JOINNING" -> JoinTimeout(a)
           [] a.cur = "JOINOK"   -> { DoAuth(a) }
           [] a.cur = "AUTHOK"   -> { DoAssoc(a) }
           [] OTHER -> {a}

-----------------------------------------------------------------------------
(* Received frames: Mng_Receive hands them to the handler of the state.    *)

RxWhenOidScan(a, f) ==
    IF f.event = "BEACON" THEN [a EXCEPT !.heard = @ \cup {f.ap}] ELSE a

\* A network found by its name: the user has to ask for it once more.
RxWhenScan(a, f) ==
    IF f.event # "BEACON" THEN a
    ELSE LET b == [a EXCEPT !.known = @ \cup {f.ap}]
         IN  IF SsidOf[f.ap] # a.used.ssid THEN b
             ELSE [ClearTimer(b) EXCEPT
                     !.used = [ap |-> f.ap, ssid |-> SsidOf[f.ap]], !.begin = FALSE,
                     !.privacy = f.ap \in Private,
                     !.oid = TRUE, !.cur = "IDLE", !.work = {}, !.scanning = FALSE]

\* With the beacon Adap_start_bss takes over what is known of the access point.
RxWhenJoin(a, f) ==
    IF "WAIT" \in a.work /\ f.event = "BEACON" /\ f.ap = a.used.ap
    THEN StartAuth([ClearTimer(a) EXCEPT !.attr = a.used]) ELSE a

\* The second or the fourth frame of an authentication.
RxAuth(a, f) ==
    LET awaited(w) == [SetTimer(a) EXCEPT !.work = {w}]
    IN  CASE f.seq = 2 /\ a.work = { "AUTH2" } ->
               IF f.status = "ok"
               THEN IF a.alg = "shared" THEN awaited("AUTH4") ELSE StartAssoc(a)
               ELSE IF f.status = "mode" /\ a.alg = "open" THEN StartShared(a) ELSE DoAuth(a)
          [] f.seq = 4 /\ a.work = { "AUTH4" } ->
               IF f.status = "ok" THEN StartAssoc(a) ELSE DoAuth([a EXCEPT !.work = { "AUTH2" }])
          [] f.seq = 2 /\ a.work = { "AUTH4" } /\ a.alg = "shared" ->
               awaited(IF f.status = "ok" THEN "AUTH4" ELSE "AUTH2")
          [] OTHER -> SetTimer(a)

RxWhenJoinOk(a, f) ==
    CASE f.event = "AUTH" /\ f.ap = a.used.ap -> RxAuth(ClearTimer(a), f)
      [] f.event = "DEAUTH" -> IF f.reason = "mode" THEN StartShared(a) ELSE AuthFail(a)
      [] OTHER -> a

\* A response without elements is not answered to, and the timer is off.
RxWhenAuthOk(a, f) ==
    LET b == ClearTimer(a)
    IN  CASE f.event = "ASSOC" ->
               IF f.status = "short" THEN b
               ELSE IF f.status = "bad" THEN DoAssoc(b)
               ELSE [b EXCEPT !.cur = "ASSOCOK", !.work = {}, !.joined = TRUE, !.link = TRUE,
                              !.reconnect = "NO", !.attr = a.used, !.scanning = FALSE]
          [] f.event = "DEAUTH" -> AuthFail(a)
          [] OTHER -> a

\* What the beacon says is noted; also of the connection, when it is that one's.
RenewBssList(a, p) ==
    IF p \notin a.known THEN [a EXCEPT !.known = @ \cup {p}]
    ELSE IF a.link /\ p = a.used.ap THEN [a EXCEPT !.used.ssid = SsidOf[p]] ELSE a

\* A beacon of the network with another privacy than that of the keys ends the
\* connection, whichever access point sent it.
RxWhenAssocOk(a, f) ==
    CASE f.event = "DEAUTH" /\ f.ap = a.used.ap -> DisConnect(a)
      [] f.event = "BEACON" ->
           LET b == RenewBssList(a, f.ap)
           IN  IF SsidOf[f.ap] # b.attr.ssid THEN b
               ELSE IF b.privacy # (f.ap \in Private) THEN DisConnect(b)
               ELSE [b EXCEPT !.work = {}]
      [] OTHER -> a

Receive(a, f) ==
    IF a.oid THEN RxWhenOidScan(a, f)
    ELSE IF a.link /\ f.event = "DEAUTH" /\ f.ap # a.used.ap THEN a
    ELSE CASE a.cur = "SCANNING" -> RxWhenScan(a, f)
           [] a.cur = "JOINNING" -> RxWhenJoin(a, f)
           [] a.cur = "JOINOK"   -> RxWhenJoinOk(a, f)
           [] a.cur = "AUTHOK"   -> RxWhenAuthOk(a, f)
           [] a.cur = "ASSOCOK"  -> RxWhenAssocOk(a, f)
           [] OTHER -> a

-----------------------------------------------------------------------------
(* The worklet: Task_Routine takes the tasks one after another.            *)

\* The card is tuned when the wait for the beacon begins.
AwaitsBeacon(a) == a.cur = "JOINNING" /\ "WAIT" \in a.work
Tuned(a, b) == IF AwaitsBeacon(b) /\ ~AwaitsBeacon(a) THEN b.used.ap ELSE tuned

\* The task at the head is taken off and leaves one of the adapters of After(a).
Leaves(after) ==
    /\ ad' \in after
    /\ tuned' = Tuned(ad, ad')
    /\ granted' = IF ad.link /\ ~ad'.link THEN None ELSE granted

\* Nothing in the code bounds how often a join finds the card busy.
BusyCounted ==
    IF ad'.cur = "JOINNING" /\ "HWIDLE" \in ad'.work THEN Use("busy") ELSE UNCHANGED left

HeadOfHigh(event) == worker = "idle" /\ ad.high # << >> /\ Head(ad.high).event = event
Popped == [ad EXCEPT !.high = Tail(@)]

TakeScan ==
    /\ HeadOfHigh("SCAN")
    /\ ad' = Popped
    /\ worker' = IF ad.scanning THEN "idle" ELSE "scan"
    /\ UNCHANGED << user, tuned, granted, left >>

\* The card has sent all frames, or has not after five seconds: Adap_Reset_Routine.
BeginScan ==
    /\ worker = "scan"
    /\ worker' = "idle"
    /\ \/ ad' \in OidScan(InitParas(ad)) /\ UNCHANGED left
       \/ /\ Use("upset")
          /\ LET a == [ad EXCEPT !.reconnect = "NO"]
             IN  ad' \in IF Waits(a, "REQJOIN") \/ Waits(a, "RESET") THEN {a}
                         ELSE { Create([a EXCEPT !.normal = q], Event("REQJOIN")) :
                                  q \in Dropped(a.normal, FrameEvents) }
    /\ UNCHANGED << user, tuned, granted >>

\* Adap_InternalReset
InternalReset(a, type, diff) ==
    LET b == [InitParas(a) EXCEPT !.joined = FALSE, !.link = FALSE]
        c == IF diff THEN MediaDown(b) ELSE b
    IN  CASE type \in { "join", "roam" } -> StartJoin(c)
          [] type = "scan" -> OidScanWithSsid(c)
          [] OTHER -> {c}

RunSetSsid ==
    /\ HeadOfHigh("SET_SSID")
    /\ LET task == Head(ad.high) IN Leaves(InternalReset(Popped, task.type, task.diff))
    /\ BusyCounted
    /\ UNCHANGED << worker, user >>

\* Mng_BssDisAssoc, then the reset when the user is to be told.
RunDisassoc ==
    /\ HeadOfHigh("DISASSOC")
    /\ LET a == AuthFail(Popped)
       IN  Leaves(IF Head(ad.high).ind THEN InternalReset(a, "disassoc", TRUE) ELSE {a})
    /\ UNCHANGED << worker, user, left >>

RunDisconnected ==
    /\ HeadOfHigh("DISCONNECTED")
    /\ Leaves(InternalReset(Popped, "disconnect", TRUE))
    /\ UNCHANGED << worker, user, left >>

\* A card out of its mini loop needs nothing; otherwise it is set up again, for the
\* access point last joined, with the management timer stopped and its flag as it was.
RunHardwareReset ==
    /\ HeadOfHigh("RESET")
    /\ \E high \in Dropped(Popped.high, { "SCAN" }) :
         LET a == [BreakIfScanning(Popped) EXCEPT !.high = high]
             b == IF a.reconnect = "NO" /\ a.begin THEN ScanFlagsCleared(a) ELSE a
         IN  \/ Leaves({a})
             \/ \E h \in Dropped(high, { "RESET" }), n \in Dropped(b.normal, FrameEvents) :
                  /\ ad' = [b EXCEPT !.ticking = FALSE, !.high = h, !.normal = n]
                  /\ tuned' = ad.attr.ap /\ UNCHANGED granted
    /\ UNCHANGED << worker, user, left >>

\* Mng_recover_regs_joined: the registers take the values of the connection again.
RunRecover ==
    /\ HeadOfHigh("RECOVER")
    /\ \/ /\ ad' = [Popped EXCEPT !.link = TRUE, !.cur = "ASSOCOK", !.work = {},
                                  !.reconnect = "NO"]
          /\ tuned' = ad.used.ap
          /\ UNCHANGED << granted, left >>
       \/ /\ Use("upset")
          /\ ad' = MediaDown([Popped EXCEPT !.link = FALSE])
          /\ granted' = None
          /\ UNCHANGED tuned
    /\ UNCHANGED << worker, user >>

RunReqJoin ==
    /\ HeadOfHigh("REQJOIN")
    /\ ad' = Popped
    /\ UNCHANGED << worker, user, tuned, granted, left >>

HeadOfNormal == worker = "idle" /\ ad.high = << >> /\ ad.normal # << >>
PoppedNormal == [ad EXCEPT !.normal = Tail(@)]

RunTimeout ==
    /\ HeadOfNormal /\ Head(ad.normal).event = "MNGTIMEOUT"
    /\ Leaves(Timeout(PoppedNormal))
    /\ BusyCounted
    /\ UNCHANGED << worker, user >>

\* The association is granted by who sent the response.
Accept(b, f) ==
    /\ ad' = b
    /\ granted' = IF b.link /\ ~ad.link THEN f.ap ELSE IF ad.link /\ ~b.link THEN None ELSE granted

RunFrame ==
    /\ HeadOfNormal /\ Head(ad.normal).event # "MNGTIMEOUT"
    /\ Accept(Receive(PoppedNormal, Head(ad.normal)), Head(ad.normal))
    /\ UNCHANGED << worker, user, tuned, left >>

\* Oid_SetAddWep, Oid_SetRemoveWep: without the default key another one may be left.
RunWep ==
    /\ HeadOfHigh("WEP")
    /\ \E keys \in BOOLEAN :
         /\ Head(ad.high).add => keys
         /\ ad' = [Popped EXCEPT !.privacy = keys]
    /\ UNCHANGED << worker, user, tuned, granted, left >>

Worklet == \/ TakeScan \/ BeginScan \/ RunSetSsid \/ RunDisassoc \/ RunDisconnected
           \/ RunWep \/ RunHardwareReset \/ RunRecover \/ RunReqJoin \/ RunTimeout \/ RunFrame

-----------------------------------------------------------------------------
(* The softirqs: the timer, received frames, lost beacons, the interrupt.  *)

\* Adap_MngTimeout; a task that cannot be created is not tried again.
TimerFires ==
    /\ ad.ticking
    /\ LET a == ClearTimer(ad)
       IN  \/ /\ ad' = [a EXCEPT !.normal = Append(@, Event("MNGTIMEOUT"))]
              /\ UNCHANGED left
           \/ ad' = a /\ Use("upset")
    /\ UNCHANGED << worker, user, tuned, granted >>

\* What the access point that is asked answers to the request under way; only the
\* one the card is tuned to is heard.  Anything else it sends is odd.
Answers ==
    IF ad.used.ap # tuned THEN {}
    ELSE IF ad.cur = "JOINOK"
    THEN { [event |-> "AUTH", ap |-> tuned, seq |-> n, status |-> "ok"] :
             n \in { k \in { 2, 4 } : ad.work = { IF k = 2 THEN "AUTH2" ELSE "AUTH4" } } }
    ELSE IF ad.cur = "AUTHOK" /\ ad.used.ssid = SsidOf[tuned]
    THEN { [event |-> "ASSOC", ap |-> tuned, status |-> "ok"] } ELSE {}
Oddities == { f \in Frames : f.event # "BEACON" /\ f.ap = tuned
                             /\ (f.event = "ASSOC" => f.status = "bad") }

Waiting == SelectSeq(ad.normal, LAMBDA t : t.event # "MNGTIMEOUT")
Queued(f) == [ad EXCEPT !.normal = Append(@, f)]

\* Beacons come of all and all the time; one that would change nothing is left out.
BeaconArrives ==
    /\ Len(Waiting) < MaxFrames
    /\ \E p \in Ap :
         LET f == [event |-> "BEACON", ap |-> p]
         IN  Receive(ad, f) # ad /\ ad' = Queued(f)
    /\ UNCHANGED << worker, user, tuned, granted, left >>

\* While the card roams nothing but beacons is taken.
Takes(f) ==
    /\ tuned # None
    /\ ~(ad.link /\ ad.reconnect = "NEED")
    /\ \/ f \in Answers /\ UNCHANGED left
       \/ f \in Oddities \ Answers /\ Use("odd")
       \/ f.event = "ASSOC" /\ f.status = "short" /\ ad.cur = "AUTHOK" /\ Use("upset")
    /\ UNCHANGED << worker, user, tuned >>

FrameArrives ==
    \E f \in Frames :
      /\ f.event # "BEACON" /\ f.ap = tuned
      /\ f.event = "ASSOC" => ad.retry >= MaxAssoc
      /\ Len(Waiting) < MaxFrames
      /\ f \in Answers => \A i \in DOMAIN ad.normal : ad.normal[i].event \in { "BEACON", "MNGTIMEOUT" }
      /\ Takes(f)
      /\ ad' = Queued(f) /\ UNCHANGED granted

\* Mng_AssocRetrylimit: until the last try the softirq takes the response itself.
AssocArrives ==
    \E f \in Frames :
      /\ f.event = "ASSOC" /\ f.ap = tuned /\ ad.retry < MaxAssoc
      /\ Takes(f)
      /\ Accept(Receive(ad, f), f)

\* Adap_PeriodicTimer: the access point has been silent for too long.
BeaconsLost ==
    /\ ad.link /\ ~ad.oid /\ ad.reconnect = "NO"
    /\ Use("roam")
    /\ LET a == [ad EXCEPT !.reconnect = "NEED"]
       IN  ad' = IF \E e \in { "SCAN", "DISASSOC", "SET_SSID" } : Waits(ad, e) THEN a
                 ELSE Create([a EXCEPT !.scanning = FALSE, !.heard = {}, !.known = {}],
                             Event("SCAN"))
    /\ UNCHANGED << worker, user, tuned, granted >>

ResetInterrupt ==
    /\ ~Waits(ad, "RESET")
    /\ Use("upset")
    /\ ad' = Create(ad, Event("RESET"))
    /\ UNCHANGED << worker, user, tuned, granted >>

Softirqs == TimerFires \/ BeaconArrives \/ FrameArrives \/ AssocArrives
            \/ BeaconsLost \/ ResetInterrupt

-----------------------------------------------------------------------------
(* The user.                                                               *)

DisassocTask(ind) == [event |-> "DISASSOC", ind |-> ind]

\* Adap_Set_SSID, to where it has asked for the end of the old connection ...
AskSsid ==
    \E s \in Ssid :
      /\ user.pc = "idle"
      /\ Use("ask")
      /\ IF ad.attr.ssid = s /\ (ad.joined \/ ad.cur \in { "JOINNING", "JOINOK", "AUTHOK", "ASSOCOK" })
         THEN UNCHANGED << ad, user >>
         ELSE /\ user' = [pc |-> "ssid", ssid |-> s]
              /\ ad' = IF ad.joined /\ ~ad.disassoc THEN Create(ad, DisassocTask(FALSE)) ELSE ad
      /\ UNCHANGED << worker, tuned, granted >>

\* ... and from there: a known access point is joined, an unknown one looked for,
\* one whose privacy is not that of the keys is not joined, nor one of another cipher.
Chosen(a, s) ==
    LET same == { p \in a.known : SsidOf[p] = s }
    IN  IF a.attr.ap \in same THEN { a.attr.ap } ELSE same
Set_SSID ==
    /\ user.pc = "ssid"
    /\ LET s == user.ssid
           a == InitParas(ad)
           diff == ad.attr.ssid \notin { s, None } /\ ad.link
           asked(p, type) ==  \* the adapters a request may leave
             LET b == BreakIfScanning([a EXCEPT !.used = [ap |-> p, ssid |-> s],
                                                !.disassoc = FALSE, !.reconnect = "NO"])
             IN  { CreateOnce([b EXCEPT !.high = q], SetSsidTask(type, diff /\ type # "none")) :
                     q \in Dropped(b.high, { "SCAN" }) }
       IN  IF Chosen(a, s) = {} THEN ad' \in asked(a.used.ap, "scan")
           ELSE \E p \in Chosen(a, s), type \in { "join", "none" } :
                  /\ type = "join" => a.privacy = (p \in Private)
                  /\ type = "none" => a.privacy \/ p \in Private
                  /\ ad' \in asked(p, type)
    /\ user' = [pc |-> "idle", ssid |-> None]
    /\ UNCHANGED << worker, tuned, granted, left >>

\* Adap_Start_Scan: the task is created before the flag it looks at is set.
AskScan ==
    /\ user.pc = "idle"
    /\ Use("ask")
    /\ LET a == [ad EXCEPT !.disassoc = FALSE]
       IN  IF a.link \/ a.cur # "IDLE" \/ Waits(a, "SCAN") \/ a.scanning
           THEN ad' = a /\ UNCHANGED user
           ELSE ad' = Create(a, Event("SCAN")) /\ user' = [user EXCEPT !.pc = "scan"]
    /\ UNCHANGED << worker, tuned, granted >>

Start_Scan ==
    /\ user.pc = "scan"
    /\ user' = [user EXCEPT !.pc = "idle"]
    /\ ad' = [ad EXCEPT !.begin = TRUE]
    /\ UNCHANGED << worker, tuned, granted, left >>

Disassociate ==
    /\ user.pc = "idle"
    /\ Use("ask")
    /\ LET a == [ad EXCEPT !.disassoc = TRUE]
       IN  ad' = IF a.joined /\ a.link THEN Create(a, DisassocTask(TRUE)) ELSE a
    /\ UNCHANGED << worker, user, tuned, granted >>

\* Adap_Set_Auth: no cipher, an open system or a shared key, and never of a connection.
Set_Auth ==
    /\ user.pc = "idle"
    /\ Use("ask")
    /\ ~ad.joined /\ ad.cur \in { "IDLE", "SCANNING" }
    /\ ad' \in { [ad EXCEPT !.privacy = FALSE], [ad EXCEPT !.alg = "open"],
                 [ad EXCEPT !.alg = "shared", !.privacy = TRUE] } \ {ad}
    /\ UNCHANGED << worker, user, tuned, granted >>

\* Adap_Set_Encode, Adap_Disalbe_Encode: a WEP key is given or taken away, at any time.
Set_Encode ==
    /\ user.pc = "idle"
    /\ Use("ask")
    /\ \E add \in BOOLEAN :
         ad' = Create([ad EXCEPT !.privacy = @ \/ add], [event |-> "WEP", add |-> add])
    /\ UNCHANGED << worker, user, tuned, granted >>

User == AskSsid \/ Set_SSID \/ AskScan \/ Start_Scan \/ Disassociate \/ Set_Auth \/ Set_Encode

Next == Worklet \/ Softirqs \/ User
Spec == Init /\ [][Next]_vars

\* Two overlaps the code does not sort out.  Nobody asks for a scan while the worklet
\* waits to begin one: that one would go on although a request for a network has
\* broken it off.  And the beacons are not lost while a request to end the connection
\* waits: the wish to roam would outlive the connection, and a later scan revive it.
Ending == Waits(ad, "SET_SSID") \/ Waits(ad, "DISASSOC")
CalmNext == \/ Worklet \/ TimerFires \/ BeaconArrives \/ FrameArrives \/ AssocArrives
            \/ ResetInterrupt \/ AskSsid \/ Set_SSID \/ Start_Scan \/ Disassociate
            \/ Set_Auth \/ Set_Encode
            \/ worker = "idle" /\ AskScan
            \/ ~Ending /\ BeaconsLost

\* The worklet runs while it has tasks, a timer that ticks fires in the end, and
\* a request that was begun goes on.
CalmSpec == /\ Init /\ [][CalmNext]_vars
            /\ WF_vars(Worklet) /\ WF_vars(TimerFires) /\ WF_vars(Set_SSID \/ Start_Scan)

-----------------------------------------------------------------------------
(* Properties.                                                             *)

Untroubled == left.upset = Budget.upset
TimeoutWaits == \E i \in DOMAIN ad.normal : ad.normal[i].event = "MNGTIMEOUT"

\* An attempt to join always has the timer running, or its timeout queued, unless a
\* task was lost, a response was cut short or the card was reset: nothing else
\* would ever end it.  Likewise the flag that makes every later request for a scan
\* be dropped is only up while something is on its way that takes it down.
WaitsAreTimed ==
    (ad.cur \in Trying \/ ad.scanning) /\ Untroubled => ad.ticking \/ TimeoutWaits

\* "WRONG STATE: JOINING with OIDSCANFLAG", says Mng_Timeout: while that flag is up no
\* beacon reaches the join, which can only fail.
JoinExcludesScan == ad.cur = "JOINNING" => ~ad.oid

\* The driver takes itself for connected only with the access point that granted
\* it, while no request for another network is under way.  Data flows outside of the
\* state of a connection only while the card roams or a request that ends the
\* connection waits.
LinkGranted ==
    /\ ad.link /\ ad.cur = "ASSOCOK" /\ user.pc # "ssid" /\ ~Waits(ad, "SET_SSID")
         => ad.used.ap = granted
    /\ ad.link /\ ad.cur # "ASSOCOK" /\ Untroubled => ad.reconnect # "NO" \/ Ending

\* An attempt ends, well or badly, and a connection whose beacons were lost is
\* taken up again or given up.
AttemptsEnd ==
    /\ (ad.cur \in Trying) ~> (ad.cur \notin Trying \/ ~Untroubled)
    /\ (ad.link /\ ad.reconnect # "NO")
          ~> (~ad.link \/ ad.reconnect = "NO" \/ ~Untroubled)
=============================================================================
