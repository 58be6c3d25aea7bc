------------------------------- MODULE BtLmp -------------------------------
(***************************************************************************)
(* The link manager protocol (bt_lmp.c) between two devices that both run  *)
(* this code, from the request for a connection on: acceptance, pairing,   *)
(* authentication, encryption, the end of the set-up, detaching, with the  *)
(* events of the link at the host interface (Hci_Receive_From_LMP) and the *)
(* timers that may end it.                                                 *)
(*                                                                         *)
(* A device keeps lmp_states, a word whose low byte is a state and whose   *)
(* high bits are flags; one timer of 30 s for whatever answer is awaited;  *)
(* and a few buffers that serve several purposes: link_key holds the       *)
(* number of an in_rand until there is a key, aco[0] and init_key[0] also  *)
(* remember whose transaction a request belongs to.                        *)
(*                                                                         *)
(* A handler is one step.  The link is reliable and keeps the order, until *)
(* it is deleted.  Numbers drawn at random are never drawn twice, and what *)
(* is computed from a key is as good as the key and the numbers: equal     *)
(* where they are equal.  Left out: synchronous links, the modes, the role *)
(* switch, pausing encryption, unit keys, sizes of keys, test mode.        *)
(***************************************************************************)
EXTENDS Integers, Sequences, FiniteSets, SequencesExt

CONSTANTS Nonce,      \* the numbers to draw
          Pin,        \* what a user may type
          None,
          Configs,    \* how the two devices may be set up
          Commands    \* bound: commands of the hosts once they are connected

Side == { "M", "S" }    \* the master, the slave; also whose transaction it is
Peer(s) == IF s = "M" THEN "S" ELSE "M"

ASSUME LmpAssumption ==
    /\ Commands \in Nat /\ Pin # {} /\ None \notin Nonce
    /\ \A c \in Configs : \A s \in Side :
          /\ {c[s].auth, c[s].enc, c[s].fixed} \subseteq BOOLEAN
          /\ c[s].bond \in Seq(STRING)

VARIABLES dev,    \* the two ends of the link
          cfg,    \* authentication_enable, encryption_mode, pin_type, the host's key
          left    \* of the commands

vars == << dev, cfg, left >>

\* Low bytes of lmp_states; ANDVALUE is a byte of ones, no state.
Answered == { "SEND_AURAND", "SEND_INRAND", "WAIT_COM_KEY", "SEND_ENMODE",
              "SEND_ENKEYSIZE", "SEND_STARTEN", "SEND_STOPTEN" }
Low == Answered \cup { "IDLE", "SETUP", "ANDVALUE", "NO_LINKKEY", "NO_LINKKEY_REC_AURAND",
       "REC_AURAND_NO_LINKKEY", "PIN_REQ", "PIN_REQ_REC_INRAND",
       "WAIT_ENKEYSIZE", "WAIT_STOPEN", "WAIT_STARTEN" }
EnDialogue == { "WAIT_ENKEYSIZE", "WAIT_STOPEN", "WAIT_STARTEN",
                "SEND_ENKEYSIZE", "SEND_STARTEN", "SEND_STOPTEN" }
Encrypting == EnDialogue \cup { "SEND_ENMODE" }
Bits == { "SEND_CONN_REQ", "RECV_CONN_REQ", "SEND_SETUP", "RECV_SETUP",
          "AU_COLLISION", "MUTUAL_AU", "RECV_SRES", "AU_ENC_COLLISION" }
Timer == Answered \cup { "CONN_REQ", "SETUP_COMPLETE", None }
Ops == { "accepted", "not_accepted", "detach", "in_rand", "comb_key", "au_rand", "sres",
         "encryption_mode_req", "encryption_key_size_req", "start_encryption_req",
         "stop_encryption_req", "setup_complete", "host_connection_req" }

TypeOK ==
    /\ cfg \in Configs /\ left \in 0..Commands
    /\ \A s \in Side :
        LET a == dev[s]
        IN  /\ a.low \in Low /\ a.bits \subseteq Bits /\ a.timer \in Timer
            /\ a.hci \in { "begun", "asked", "agreed", "connected", "closing", "gone" }
            /\ a.asks \subseteq { "conn", "key", "pin" }
            /\ a.hw.mode \in { "off", "starting", "stopping", "on" }
            /\ {a.comb, a.enc, a.paused, a.authing, a.proved, a.stale} \subseteq BOOLEAN
            /\ a.hci = "connected" => a.bits \cap { "SEND_CONN_REQ", "RECV_CONN_REQ" } = {}
            /\ a.random \in Nonce \cup {None} /\ a.pin \in Pin \cup {None}
            /\ \A i \in DOMAIN a.out : a.out[i].op \in Ops /\ a.out[i].tid \in Side

\* proved and stale are history: the other side has proved that it knows the key; the
\* host gave a key that nobody waited for any more.
Fresh0 == [low |-> "IDLE", bits |-> {}, timer |-> None, key |-> << >>, comb |-> FALSE,
           random |-> None, aco |-> << >>, init |-> << >>, pin |-> None,
           enc |-> FALSE, paused |-> FALSE, hw |-> [mode |-> "off", kc |-> << >>],
           authing |-> FALSE, proved |-> FALSE, stale |-> FALSE, hci |-> "begun", asks |-> {}, out |-> << >>]

-----------------------------------------------------------------------------
(* The state word, the timer, the events to the host interface.  a is the  *)
(* end of the link at side s.                                              *)

To(a, low) == [a EXCEPT !.low = low]
Cleared(a) == [a EXCEPT !.low = "IDLE", !.bits = {}]
With(a, bit) == [a EXCEPT !.bits = @ \cup {bit}]
Without(a, some) == [a EXCEPT !.bits = @ \ some]
InSetup(a) == a.bits \cap { "SEND_CONN_REQ", "RECV_CONN_REQ" } # {}

Start(a, type) == IF a.timer = None THEN [a EXCEPT !.timer = type] ELSE a
Stop(a, type) == IF a.timer = type THEN [a EXCEPT !.timer = None] ELSE a
StopAny(a) == [a EXCEPT !.timer = None]

Send(a, op, tid, c) == [a EXCEPT !.out = Append(@, [op |-> op, tid |-> tid, c |-> c])]
Accept(a, p) == Send(a, "accepted", p.tid, << p.op >>)
NotAccepted(a, p, reason) == Send(a, "not_accepted", p.tid, << p.op, reason >>)

Ask(a, what) == [a EXCEPT !.asks = @ \cup {what}]
AuthDone(a) == [a EXCEPT !.authing = FALSE]
Closing(a) == [a EXCEPT !.hci = "closing"]
Detached(a) == IF a.hci \in { "begun", "agreed", "connected" } THEN Closing(a) ELSE a
SetupEnds(a, s) ==
    IF a.hci = (IF s = "M" THEN "begun" ELSE "agreed") THEN [a EXCEPT !.hci = "connected"] ELSE a
ResLmpDetach(a, s, reason) == Detached(StopAny(Cleared(Send(a, "detach", s, << reason >>))))

\* A byte that holds the bit of a transaction, or something else by now.
Transaction(value) == IF value \in { << t >> : t \in Side } THEN { value[1] } ELSE Side

\* What both sides compute when the key, the number and the claimant agree.
E1(key, number, claimant) == key \o << number, claimant >>

-----------------------------------------------------------------------------
(* The PDUs that open an exchange; n is a number drawn for it.             *)

SendCombKey(a, tid, n) ==
    Start([To(Send(a, "comb_key", tid, << n >> \o a.init), "WAIT_COM_KEY") EXCEPT !.random = n],
          "WAIT_COM_KEY")
SendInRand(a, tid, n) ==
    Start([To(Send(a, "in_rand", tid, << n >>), "SEND_INRAND") EXCEPT !.random = n], "SEND_INRAND")
SendAuRand(a, tid, n) ==
    Start([To(Send(a, "au_rand", tid, << n >>), "SEND_AURAND") EXCEPT !.random = n], "SEND_AURAND")
SendEnModReq(a, s) ==
    Start([To(Send(a, "encryption_mode_req", s, << IF a.enc THEN "on" ELSE "off" >>), "SEND_ENMODE") EXCEPT !.paused = TRUE],
          "SEND_ENMODE")
SendEnKeySizeReq(a, tid) ==
    Start(To(Send(a, "encryption_key_size_req", tid, << >>), "SEND_ENKEYSIZE"), "SEND_ENKEYSIZE")
SendStartEnReq(a, tid, n) ==
    Start([To(Send(a, "start_encryption_req", tid, << n >>), "SEND_STARTEN") EXCEPT
             !.hw = [mode |-> "starting", kc |-> E1(a.key, n, None) \o a.aco]], "SEND_STARTEN")
SendStopEnReq(a, tid) ==
    Start([To(Send(a, "stop_encryption_req", tid, << >>), "SEND_STOPTEN") EXCEPT
             !.hw.mode = "stopping"], "SEND_STOPTEN")
SendSetupComplete(a, s) ==
    LET b == With(Send(a, "setup_complete", s, << >>), "SEND_SETUP")
    IN  IF "RECV_SETUP" \in a.bits THEN SetupEnds(To(Cleared(b), "SETUP"), s)
        ELSE Start(b, "SETUP_COMPLETE")

SetupCompleteOnce(a, s) == IF "SEND_SETUP" \in a.bits THEN a ELSE SendSetupComplete(a, s)

\* The master goes on with the key size or the stop, the slave waits for it.
EncryptionAgreed(a, s, tid) ==
    IF s = "M" THEN IF a.enc THEN SendEnKeySizeReq(a, tid) ELSE SendStopEnReq(a, tid)
    ELSE To(a, IF a.enc THEN "WAIT_ENKEYSIZE" ELSE "WAIT_STOPEN")

PairingProcess(a) == Ask(To(a, "PIN_REQ"), "pin")
AuthenticationProcess(a, s, n) ==
    IF a.key = << >> THEN Ask(To(a, "NO_LINKKEY"), "key") ELSE SendAuRand(a, s, n)
\* Faulty variant: the end of the set-up does not wait for encryption.
CompleteAtOnce(a, s) == SetupCompleteOnce(a, s)

AfterConnAuthentication(a, s) ==
    IF cfg[s].enc /\ ~a.enc THEN SendEnModReq([a EXCEPT !.enc = TRUE], s)
    ELSE SetupCompleteOnce(a, s)
AfterAccept(a, s, n) ==
    IF cfg[s].auth THEN AuthenticationProcess(a, s, n) ELSE SendSetupComplete(a, s)

\* Encryption is given up: refused, or no answer came.
EncryptionFails(a, s) ==
    LET b == [To(a, "SETUP") EXCEPT !.paused = FALSE, !.enc = FALSE]
    IN  IF InSetup(b) THEN SetupCompleteOnce(b, s) ELSE b

-----------------------------------------------------------------------------
(* Received PDUs: what the handlers make of the end a, at side s, for p.   *)

AcceptedInRand(a, s, p, n) ==
    LET b == [Stop(To(a, "SETUP"), "SEND_INRAND") EXCEPT
                !.init = << a.random, a.pin, Peer(s) >>]
    IN  IF a.low # "SEND_INRAND" THEN a
        ELSE IF p.tid = s THEN SendCombKey(b, p.tid, n) ELSE To(b, "WAIT_COM_KEY")

AcceptedEnMode(a, s, p) ==
    IF a.low \notin { "SEND_ENMODE", "WAIT_ENKEYSIZE", "WAIT_STOPEN" } THEN a
    ELSE EncryptionAgreed(Stop(a, "SEND_ENMODE"), s, p.tid)

AcceptedEnKeySize(a, s, p, n) ==
    LET b == Stop(a, "SEND_ENKEYSIZE")
    IN  IF a.low # "SEND_ENKEYSIZE" THEN a
        ELSE IF s = "M" THEN SendStartEnReq(b, p.tid, n) ELSE To(b, "WAIT_STARTEN")

AcceptedStart(a, s) ==
    LET b == [Stop(To(a, "SETUP"), "SEND_STARTEN") EXCEPT !.hw.mode = "on", !.paused = FALSE]
    IN  IF a.low # "SEND_STARTEN" \/ s # "M" THEN a
        ELSE IF InSetup(b) THEN SetupCompleteOnce(b, s) ELSE b

\* Faulty variant: the master leaves its hardware as it is.
StopUnwritten(a, s) ==
    IF a.low # "SEND_STOPTEN" \/ s # "M" THEN a
    ELSE [Stop(To(a, "SETUP"), "SEND_STOPTEN") EXCEPT !.paused = FALSE]

\* Faulty variant: the data stay held back.
StopAndHold(a, s) ==
    IF a.low # "SEND_STOPTEN" \/ s # "M" THEN a
    ELSE [Stop(To(a, "SETUP"), "SEND_STOPTEN") EXCEPT !.hw = [mode |-> "off", kc |-> << >>]]

AcceptedStop(a, s) ==
    IF a.low # "SEND_STOPTEN" \/ s # "M" THEN a
    ELSE [Stop(To(a, "SETUP"), "SEND_STOPTEN") EXCEPT
            !.hw = [mode |-> "off", kc |-> << >>], !.paused = FALSE]

Accepted(a, s, p, n) ==
    CASE p.c[1] = "host_connection_req" ->
           IF "SEND_CONN_REQ" \in a.bits THEN AfterAccept(Stop(a, "CONN_REQ"), s, n) ELSE a
      [] p.c[1] = "in_rand" -> AcceptedInRand(a, s, p, n)
      [] p.c[1] = "encryption_mode_req" -> AcceptedEnMode(a, s, p)
      [] p.c[1] = "encryption_key_size_req" -> AcceptedEnKeySize(a, s, p, n)
      [] p.c[1] = "start_encryption_req" -> AcceptedStart(a, s)
      [] OTHER -> AcceptedStop(a, s)

\* After a collision the slave tries again, at once or when it has answered the master.
RefusedAuRand(a, s, p, n) ==
    LET b == Stop(IF a.low = "SEND_AURAND" THEN To(a, "SETUP") ELSE a, "SEND_AURAND")
        reason == p.c[2]
    IN  IF a.low \notin {"SEND_AURAND"} \cup Encrypting THEN a
        ELSE CASE reason = "KEY_MISSING" -> PairingProcess(b)
               [] reason = "PDU_NOT_ALLOWED" -> Without(b, { "AU_ENC_COLLISION" })
               [] reason = "COLLISION" /\ s = "S" ->
                    IF ~InSetup(b) THEN SendAuRand(b, p.tid, n)
                    ELSE IF "AU_COLLISION" \in b.bits
                    THEN Without(SendAuRand(b, p.tid, n), { "AU_COLLISION" })
                    ELSE [With(b, "AU_COLLISION") EXCEPT !.init = << p.tid >>]
               [] OTHER -> b

RefusedInRand(a, s, reason) ==
    LET b == Stop(a, "SEND_INRAND")
    IN  IF a.low \notin { "SEND_INRAND", "WAIT_COM_KEY" } THEN a
        ELSE IF reason # "PAIRING_NOT_ALLOWED" THEN b
        ELSE IF InSetup(b) THEN ResLmpDetach(Closing(b), s, reason)
        ELSE AuthDone(To(b, "SETUP"))

RefusedEnMode(a, s, reason) ==
    LET b == Stop(a, "SEND_ENMODE")
        c == IF a.low = "SEND_ENMODE" THEN To(b, "SETUP") ELSE b
    IN  IF a.low \notin { "SEND_ENMODE", "WAIT_ENKEYSIZE", "WAIT_STOPEN" } THEN a
        ELSE IF reason # "COLLISION" THEN EncryptionFails(b, s)
        ELSE IF InSetup(c) THEN SetupCompleteOnce(c, s) ELSE c

Refused(a, s, p, n) ==
    CASE p.c[1] = "host_connection_req" ->
           IF "SEND_CONN_REQ" \in a.bits THEN ResLmpDetach(Stop(a, "CONN_REQ"), s, p.c[2]) ELSE a
      [] p.c[1] = "au_rand" -> RefusedAuRand(a, s, p, n)
      [] p.c[1] = "in_rand" -> RefusedInRand(a, s, p.c[2])
      [] p.c[1] = "encryption_mode_req" -> RefusedEnMode(a, s, p.c[2])
      [] OTHER -> a

Detach(a, reason) ==
    LET b == Detached(StopAny(Cleared(a)))
    IN  IF reason = "AUTHENTICATION_FAILURE" THEN AuthDone(b) ELSE b

\* Res_InRand_Accepted
ResInRandAccepted(a, s, tid, n) ==
    LET b == [To(Send(a, "accepted", tid, << "in_rand" >>), "ANDVALUE") EXCEPT
                !.init = a.key \o << a.pin, s >>]
    IN  IF tid = s THEN SendCombKey(b, tid, n) ELSE To(b, "WAIT_COM_KEY")

InRand(a, s, p, n) ==
    LET b == Without(Stop(a, "SETUP_COMPLETE"), { "AU_COLLISION" })
        c == Stop(b, "SEND_INRAND")
        asked == [To(IF c.low = "PIN_REQ" THEN c ELSE Ask(c, "pin"), "PIN_REQ_REC_INRAND") EXCEPT
                    !.key = p.c, !.aco = << p.tid >>]
        denied == NotAccepted(To(c, "SETUP"), p, "PAIRING_NOT_ALLOWED")
    IN  IF b.low = "SEND_INRAND" /\ p.tid # s /\ s = "M" THEN NotAccepted(b, p, "COLLISION")
        ELSE IF cfg[s].fixed /\ p.tid = s
        THEN IF InSetup(c) THEN Closing(denied) ELSE AuthDone(denied)
        ELSE IF c.low # "SEND_INRAND" THEN asked
        ELSE IF cfg[s].fixed THEN SendInRand(c, p.tid, n)
        ELSE ResInRandAccepted([c EXCEPT !.key = p.c], s, p.tid, n)

\* Each side takes off what it thinks covers the number of the other.
CombKey(a, s, p, n) ==
    LET b == Stop(a, "WAIT_COM_KEY")
        mask == IF a.low = "WAIT_COM_KEY" THEN a.init ELSE a.key
        mine == IF p.tid = s THEN b.random ELSE n
        theirs == IF Tail(p.c) = mask THEN p.c[1] ELSE None
        answered == IF p.tid = s THEN b ELSE Send(b, "comb_key", p.tid, << n >> \o mask)
        keyed == [With(answered, "MUTUAL_AU") EXCEPT
                    !.random = theirs, !.comb = TRUE,
                    !.key = IF theirs = None THEN << "broken", s >>
                            ELSE IF s = "M" THEN << mine, theirs >> ELSE << theirs, mine >>]
    IN  IF a.low # "WAIT_COM_KEY" /\ ~a.comb THEN NotAccepted(b, p, "UNIT_KEY_USED")
        ELSE IF p.tid = s THEN SendAuRand(keyed, s, n) ELSE To(keyed, "SETUP")

AuRandRefusal(a, s) ==
    CASE a.low \in EnDialogue -> "PDU_NOT_ALLOWED"
      [] a.low \in { "PIN_REQ", "SEND_INRAND" } -> "KEY_MISSING"
      [] a.low \in { "NO_LINKKEY_REC_AURAND", "REC_AURAND_NO_LINKKEY" } -> "COLLISION"
      [] a.low \in { "SEND_AURAND", "NO_LINKKEY" } /\ s = "M" -> "COLLISION"
      [] OTHER -> "none"

\* The number of the other side is kept until the host has given the key.
AuRandKept(a, p, low) == [To(a, low) EXCEPT !.aco = << p.tid >>, !.random = p.c[1]]

AuRandAnswered(a, s, p, n) ==
    LET answer == E1(a.key, p.c[1], s)
        b == [Send(a, "sres", p.tid, answer) EXCEPT !.aco = answer]
        c == IF InSetup(b) /\ s = "S" THEN With(b, "AU_COLLISION") ELSE b
        done == Without(c, { "MUTUAL_AU", "RECV_SRES" })
    IN  IF InSetup(b) /\ "AU_COLLISION" \in b.bits
        THEN { SendAuRand(Without(b, { "AU_COLLISION" }), t, n) : t \in Transaction(b.init) }
        ELSE { CASE "MUTUAL_AU" \notin c.bits -> c
                 [] "RECV_SRES" \in c.bits /\ InSetup(c) -> AfterConnAuthentication(done, s)
                 [] "RECV_SRES" \in c.bits /\ ~InSetup(c) -> AuthDone(To(done, "SETUP"))
                 [] OTHER -> LET half == With(c, "RECV_SRES")
                             IN  IF p.tid = s THEN half ELSE SendAuRand(half, p.tid, n) }

AuRand(a, s, p, n) ==
    LET b == Stop(a, "SETUP_COMPLETE")
    IN  IF AuRandRefusal(a, s) # "none" THEN { NotAccepted(a, p, AuRandRefusal(a, s)) }
        ELSE IF a.low = "NO_LINKKEY" THEN { AuRandKept(a, p, "NO_LINKKEY_REC_AURAND") }
        ELSE IF a.key = << >> THEN { Ask(AuRandKept(b, p, "REC_AURAND_NO_LINKKEY"), "key") }
        ELSE AuRandAnswered(b, s, p, n)

Proved(a, s) ==
    LET done == Without(a, { "MUTUAL_AU", "RECV_SRES" })
    IN  CASE "MUTUAL_AU" \in a.bits /\ "RECV_SRES" \notin a.bits -> With(a, "RECV_SRES")
          [] "MUTUAL_AU" \in a.bits /\ "RECV_SRES" \in a.bits ->
               IF InSetup(a) THEN AfterConnAuthentication(done, s) ELSE To(done, "SETUP")
          [] "MUTUAL_AU" \notin a.bits /\ InSetup(a) ->
               IF a.low \in EnDialogue THEN SetupCompleteOnce(a, s)
               ELSE AfterConnAuthentication(a, s)
          [] OTHER -> AuthDone(IF "AU_ENC_COLLISION" \in a.bits THEN a ELSE To(a, "SETUP"))

Sres(a, s, p) ==
    LET b == Stop(a, "SEND_AURAND")
        expected == E1(a.key, a.random, Peer(s))
        c == [IF b.low = "SEND_AURAND" THEN To(b, "SETUP") ELSE b EXCEPT !.aco = expected]
        failed == IF InSetup(c) THEN ResLmpDetach(Closing(c), s, "AUTHENTICATION_FAILURE")
                  ELSE AuthDone(c)
    IN  IF a.low # "SEND_AURAND" /\ "AU_ENC_COLLISION" \notin a.bits THEN b
        ELSE Without(IF p.c = expected THEN [Proved(c, s) EXCEPT !.proved = TRUE] ELSE failed,
                     { "AU_ENC_COLLISION" })

EncryptionModeReq(a, s, p) ==
    LET mode == p.c[1] = "on"
        b == IF a.low = "SEND_AURAND" THEN With(a, "AU_ENC_COLLISION") ELSE a
    IN  IF a.low = "SEND_ENMODE" /\ s = "M" THEN NotAccepted(a, p, "COLLISION")
        ELSE IF a.low # "SEND_ENMODE" /\ a.enc = mode
        THEN NotAccepted(a, p, "ENCRYPTION_MODE_NOT_ACCEPTABLE")
        ELSE EncryptionAgreed(Accept([b EXCEPT !.enc = mode, !.paused = TRUE], p), s, p.tid)

EncryptionKeySizeReq(a, s, p, n) ==
    LET b == Accept(To(Stop(a, "SEND_ENKEYSIZE"), "SETUP"), p)
    IN  IF a.low \notin { "SEND_ENKEYSIZE", "WAIT_ENKEYSIZE" } THEN a
        ELSE IF s = "M" THEN SendStartEnReq(b, p.tid, n) ELSE To(b, "WAIT_STARTEN")

StartEncryptionReq(a, s, p) ==
    LET b == [Accept(To(a, "SETUP"), p) EXCEPT
                !.hw = [mode |-> "on", kc |-> E1(a.key, p.c[1], None) \o a.aco], !.paused = FALSE]
    IN  IF a.low # "WAIT_STARTEN" \/ s = "M" THEN a
        ELSE IF InSetup(b) THEN SetupCompleteOnce(b, s) ELSE b

StopEncryptionReq(a, s, p) ==
    IF a.low # "WAIT_STOPEN" \/ s = "M" THEN a
    ELSE [Accept(To(a, "SETUP"), p) EXCEPT
            !.hw = [mode |-> "off", kc |-> << >>], !.paused = FALSE]

\* Faulty variant: the flags of the set-up outlive it.
SetupCompleteKeepsFlags(a, s) ==
    LET b == With(a, "RECV_SETUP")
    IN  IF "SEND_SETUP" \notin b.bits THEN b
        ELSE SetupEnds(Stop(To(b, "SETUP"), "SETUP_COMPLETE"), s)

SetupComplete(a, s) ==
    LET b == With(a, "RECV_SETUP")
    IN  IF "SEND_SETUP" \notin b.bits THEN b
        ELSE SetupEnds(Stop(To(Cleared(b), "SETUP"), "SETUP_COMPLETE"), s)

HostConnectionReq(a, s, p) ==
    IF s = "M" THEN NotAccepted(a, p, "PDU_NOT_ALLOWED")
    ELSE [Ask(With(a, "RECV_CONN_REQ"), "conn") EXCEPT !.hci = "asked"]

-----------------------------------------------------------------------------
(* Answers and commands of the host, and timers.                           *)

LinkKeyReply(a, s, bond, n) ==
    LET b == [a EXCEPT !.key = bond]
        answer == E1(bond, a.random, s)
        told(t) == IF bond = << >>
                   THEN Send(b, "not_accepted", t, << "au_rand", "KEY_MISSING" >>)
                   ELSE [Send(b, "sres", t, answer) EXCEPT !.aco = answer]
        onward(c) == IF bond = << >> THEN PairingProcess(c) ELSE SendAuRand(c, s, n)
    IN  CASE a.low = "NO_LINKKEY" -> { onward(b) }
          [] a.low = "NO_LINKKEY_REC_AURAND" -> { onward(told(t)) : t \in Transaction(a.aco) }
          [] a.low = "REC_AURAND_NO_LINKKEY" ->
               { To(told(t), "ANDVALUE") : t \in Transaction(a.aco) }
          [] OTHER -> { [b EXCEPT !.stale = TRUE] }

PinCodeReply(a, s, pin, n) ==
    LET b == [a EXCEPT !.pin = pin]
    IN  CASE a.low = "PIN_REQ" -> { SendInRand(b, s, n) }
          [] a.low = "PIN_REQ_REC_INRAND" ->
               { IF cfg[s].fixed THEN SendInRand(b, t, n) ELSE ResInRandAccepted(b, s, t, n)
                 : t \in Transaction(a.aco) }
          [] OTHER -> {b}

PinCodeNegReply(a, s) ==
    LET told(t) == Send(a, "not_accepted", t, << "in_rand", "PAIRING_NOT_ALLOWED" >>)
    IN  CASE a.low = "PIN_REQ" ->
               { To(IF InSetup(a) THEN ResLmpDetach(Closing(a), s, "PAIRING_NOT_ALLOWED")
                    ELSE AuthDone(a), "ANDVALUE") }
          [] a.low = "PIN_REQ_REC_INRAND" ->
               { To(IF InSetup(a) THEN Closing(told(t)) ELSE AuthDone(told(t)), "ANDVALUE")
                 : t \in Transaction(a.aco) }
          [] OTHER -> {a}

AcceptConn(a, s, n) ==
    IF "RECV_CONN_REQ" \notin a.bits THEN a
    ELSE AfterAccept(Send(To(a, "ANDVALUE"), "accepted", "M", << "host_connection_req" >>), s, n)

NotAcceptConn(a) ==
    IF "RECV_CONN_REQ" \notin a.bits THEN a
    ELSE Without(Send(a, "not_accepted", "M", << "host_connection_req", "REJECTED" >>),
                 { "RECV_CONN_REQ" })

AuthRequest(a, s, n) ==
    IF a.low \in {"SEND_AURAND"} \cup Encrypting THEN AuthDone(a)
    ELSE AuthenticationProcess(a, s, n)

SetEncryption(a, s, on) ==
    IF a.low \in Encrypting \/ a.enc = on THEN a ELSE SendEnModReq([a EXCEPT !.enc = on], s)

\* The timer of the exchange: a set-up is given up, a connection goes on without.
PduTimeout(a, s) ==
    LET b == StopAny(a)
        c == CASE a.timer \in { "SEND_AURAND", "SEND_INRAND", "WAIT_COM_KEY" } ->
                    IF a.low = a.timer THEN To(b, "SETUP") ELSE b
               [] a.timer = "SEND_STARTEN" ->
                    [To(b, "SETUP") EXCEPT !.paused = FALSE, !.hw = [mode |-> "off", kc |-> << >>]]
               [] a.timer = "SEND_STOPTEN" ->
                    [To(b, "SETUP") EXCEPT !.paused = FALSE, !.hw.mode = "on"]
               [] OTHER -> [To(b, "SETUP") EXCEPT !.paused = FALSE]
        d == IF ~InSetup(c) /\ a.timer \in { "SEND_AURAND", "SEND_INRAND", "WAIT_COM_KEY" }
             THEN AuthDone(c) ELSE c
    IN  IF a.timer \in { "CONN_REQ", "SETUP_COMPLETE" } THEN ResLmpDetach(b, s, "LMP_RESPONSE_TIMEOUT")
        ELSE IF d.hci = "connected" THEN d ELSE Closing(d)

-----------------------------------------------------------------------------
(* The specification.                                                      *)

Init ==
    /\ cfg \in Configs
    /\ left = Commands
    /\ dev = [s \in Side |->
                IF s = "S" THEN Fresh0
                ELSE Start(With(Send(Fresh0, "host_connection_req", "M", << >>),
                                "SEND_CONN_REQ"), "CONN_REQ")]

Alive(s) == dev[s].hci # "gone"
Quiet == \A s \in Side : dev[s].out = << >>

\* A number that is in use nowhere.
Drawn ==
    LET held(a) == ToSet(a.key \o a.aco \o a.init \o a.hw.kc) \cup {a.random}
                   \cup UNION { ToSet(a.out[i].c) : i \in DOMAIN a.out }
    IN  CHOOSE n \in Nonce : \A s \in Side : n \notin held(dev[s])

\* What is sent to a device that has deleted the link is lost.
Becomes(s, a) ==
    dev' = [dev EXCEPT ![s] = IF Alive(Peer(s)) THEN a ELSE [a EXCEPT !.out = << >>]]

Receives(s, op) == Alive(s) /\ dev[Peer(s)].out # << >> /\ Head(dev[Peer(s)].out).op = op
Pdu(s) == Head(dev[Peer(s)].out)
Took(s, a) ==
    /\ dev' = [dev EXCEPT ![s] = a, ![Peer(s)].out = Tail(@)]
    /\ UNCHANGED << cfg, left >>

LMP_accepted(s) == Receives(s, "accepted") /\ Took(s, Accepted(dev[s], s, Pdu(s), Drawn))
LMP_not_accepted(s) == Receives(s, "not_accepted") /\ Took(s, Refused(dev[s], s, Pdu(s), Drawn))
LMP_detach(s) == Receives(s, "detach") /\ Took(s, Detach(dev[s], Pdu(s).c[1]))
LMP_in_rand(s) == Receives(s, "in_rand") /\ Took(s, InRand(dev[s], s, Pdu(s), Drawn))
LMP_comb_key(s) == Receives(s, "comb_key") /\ Took(s, CombKey(dev[s], s, Pdu(s), Drawn))
LMP_au_rand(s) ==
    Receives(s, "au_rand") /\ \E a \in AuRand(dev[s], s, Pdu(s), Drawn) : Took(s, a)
LMP_sres(s) == Receives(s, "sres") /\ Took(s, Sres(dev[s], s, Pdu(s)))
LMP_encryption_mode_req(s) ==
    Receives(s, "encryption_mode_req") /\ Took(s, EncryptionModeReq(dev[s], s, Pdu(s)))
LMP_encryption_key_size_req(s) ==
    Receives(s, "encryption_key_size_req") /\ Took(s, EncryptionKeySizeReq(dev[s], s, Pdu(s), Drawn))
LMP_start_encryption_req(s) ==
    Receives(s, "start_encryption_req") /\ Took(s, StartEncryptionReq(dev[s], s, Pdu(s)))
LMP_stop_encryption_req(s) ==
    Receives(s, "stop_encryption_req") /\ Took(s, StopEncryptionReq(dev[s], s, Pdu(s)))
LMP_setup_complete(s) == Receives(s, "setup_complete") /\ Took(s, SetupComplete(dev[s], s))
LMP_host_connection_req(s) ==
    Receives(s, "host_connection_req") /\ Took(s, HostConnectionReq(dev[s], s, Pdu(s)))

\* The host answers what it was asked.
Answers(s, what) == Alive(s) /\ what \in dev[s].asks /\ UNCHANGED << cfg, left >>
Told(s, what) == [dev[s] EXCEPT !.asks = @ \ {what}]
HostAccepts(s) ==
    /\ Answers(s, "conn")
    /\ Becomes(s, AcceptConn([Told(s, "conn") EXCEPT !.hci = "agreed"], s, Drawn))
HostRejects(s) == Answers(s, "conn") /\ Becomes(s, NotAcceptConn(Told(s, "conn")))
HostGivesKey(s) ==
    /\ Answers(s, "key")
    /\ \E a \in LinkKeyReply(Told(s, "key"), s, cfg[s].bond, Drawn) : Becomes(s, a)
HostGivesPin(s) ==
    /\ Answers(s, "pin")
    /\ \E pin \in Pin : \E a \in PinCodeReply(Told(s, "pin"), s, pin, Drawn) : Becomes(s, a)
HostGivesNoPin(s) ==
    /\ Answers(s, "pin")
    /\ \E a \in PinCodeNegReply(Told(s, "pin"), s) : Becomes(s, a)

\* Commands of the host once it has the connection.
Commanded(s) == dev[s].hci = "connected" /\ left > 0 /\ left' = left - 1 /\ UNCHANGED cfg
HostAuthenticates(s) ==
    /\ Commanded(s)
    /\ Becomes(s, AuthRequest([dev[s] EXCEPT !.authing = TRUE], s, Drawn))
HostEncrypts(s) == Commanded(s) /\ \E on \in BOOLEAN : Becomes(s, SetEncryption(dev[s], s, on))
HostDisconnects(s) == Commanded(s) /\ Becomes(s, ResLmpDetach(dev[s], s, "USER"))

LMP_PDU_Timeout(s) ==
    /\ Alive(s) /\ dev[s].timer # None /\ Quiet
    /\ Becomes(s, PduTimeout(dev[s], s))
    /\ UNCHANGED << cfg, left >>

\* The timers of the host interface delete the link: it was being closed, its
\* set-up took longer than a minute, or the other side is there no more.
Hci_Timeout(s) ==
    /\ \/ dev[s].hci = "closing"
       \/ dev[s].hci \in { "begun", "asked", "agreed" } /\ Quiet
       \/ dev[s].hci = "connected" /\ ~Alive(Peer(s))
    /\ dev' = [dev EXCEPT ![s] = [Fresh0 EXCEPT !.hci = "gone"], ![Peer(s)].out = << >>]
    /\ UNCHANGED << cfg, left >>

Receive(s) ==
    \/ LMP_accepted(s) \/ LMP_not_accepted(s) \/ LMP_detach(s) \/ LMP_in_rand(s)
    \/ LMP_comb_key(s) \/ LMP_au_rand(s) \/ LMP_sres(s) \/ LMP_encryption_mode_req(s)
    \/ LMP_encryption_key_size_req(s) \/ LMP_start_encryption_req(s)
    \/ LMP_stop_encryption_req(s) \/ LMP_setup_complete(s) \/ LMP_host_connection_req(s)

Host(s) ==
    \/ HostAccepts(s) \/ HostRejects(s) \/ HostGivesKey(s) \/ HostGivesPin(s)
    \/ HostGivesNoPin(s) \/ HostAuthenticates(s) \/ HostEncrypts(s) \/ HostDisconnects(s)

Next == \E s \in Side : Receive(s) \/ Host(s) \/ LMP_PDU_Timeout(s) \/ Hci_Timeout(s)

Spec == Init /\ [][Next]_vars

\* The tasklet handles what comes and the watchdog lets time pass; the hosts owe nothing.
FairSpec ==
    /\ Spec
    /\ \A s \in Side :
          WF_vars(Receive(s)) /\ WF_vars(LMP_PDU_Timeout(s)) /\ WF_vars(Hci_Timeout(s))

-----------------------------------------------------------------------------
(* What the two link managers owe each other and their hosts.              *)

Connected(s) == dev[s].hci = "connected"

\* Nothing is on its way, no host is asked, no answer is awaited.
Settled ==
    Quiet /\ \A s \in Side : Connected(s) /\ dev[s].asks = {} /\ dev[s].timer = None

\* A host that asks for authentication is told of a connection only after the other
\* device has proved that it knows the key, and one that asks for encryption only
\* with encryption on, whichever exchanges collide and whichever side begins them.
SecuredFirst ==
    \A s \in Side : Connected(s) =>
        /\ cfg[s].auth => dev[s].proved
        /\ cfg[s].enc /\ left = Commands => dev[s].hw.mode = "on"

\* The two ends, which switch their hardware at different moments and draw the key of
\* encryption each for itself, end up encrypting both, with one key, or neither, as
\* each believes; a key that a host has replaced behind the exchange is excused.
EncryptionAgrees ==
    Settled /\ (\A s \in Side : dev[s].low = "SETUP") =>
        /\ \A s \in Side : dev[s].enc = (dev[s].hw.mode = "on")
        /\ (\A s \in Side : ~dev[s].stale) => dev["M"].hw = dev["S"].hw

\* Once a side has the connection the other has it too or the link goes away.
BothConnect == \A s \in Side : Connected(s) ~> (Connected(Peer(s)) \/ ~Connected(s))

\* An exchange begun on a connection ends: the data it holds back flow again, and the
\* host is told of its authentication, unless a host that was asked does not answer.
ExchangesEnd ==
    \A s \in Side :
        /\ dev[s].paused ~> ~dev[s].paused
        /\ dev[s].authing ~> (~dev[s].authing \/ \E t \in Side : dev[t].asks # {})

EverythingEnds == BothConnect /\ ExchangesEnd

\* "If this connection is in encryption process, this value is set as 1. Otherwise,
\* this value is set as 0", says bt_hci.h of is_in_encryption_process, which keeps
\* the data of the connection back.
PausedInProcess == Settled => \A s \in Side : ~dev[s].paused
=============================================================================
