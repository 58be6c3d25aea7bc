------------------------------- MODULE BtFifo -------------------------------
(***************************************************************************)
(* What the Bluetooth frame scheduler promises its callers, whatever the   *)
(* threads do: requests (send a poll, stop or continue a remote sender)    *)
(* leave it in the order in which they entered it, one at a time from the  *)
(* front; the only way for a request to leave without being served is the  *)
(* purge of the polls, which never removes a flow control request and      *)
(* never reorders what it keeps.  A request whose service has begun may    *)
(* survive the purge.                                                      *)
(***************************************************************************)
EXTENDS Naturals, Sequences

CONSTANTS Request,      \* what a caller can ask for
          PollRequest   \* the requests the purge removes

VARIABLE queue

FifoInit == queue = << >>

\* A caller's request is accepted at the back.
Accept == \E r \in Request : queue' = Append(queue, r)

\* The request at the front has been served.
Serve == queue # << >> /\ queue' = Tail(queue)

Kept == { i \in DOMAIN queue : queue[i] \notin PollRequest }

\* All polls leave, the others stay in their order (f lists the places of
\* those that stay); the one at the front stays if it is being served.
Purge ==
    \E S \in { Kept, Kept \cup ({1} \cap DOMAIN queue) }, n \in 0..Len(queue) :
      \E f \in [1..n -> S] :
        /\ \A i, j \in 1..n : i < j => f[i] < f[j]
        /\ \A p \in S : \E i \in 1..n : f[i] = p
        /\ queue' = [i \in 1..n |-> queue[f[i]]]

FifoNext == Accept \/ Serve \/ Purge

FifoSpec == FifoInit /\ [][FifoNext]_queue
=============================================================================
