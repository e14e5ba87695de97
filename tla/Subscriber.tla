------------------------------ MODULE Subscriber ------------------------------
(***************************************************************************)
(* subscribe.Subscriber: the loop that drains two SUB sockets, one of      *)
(* rawblock and one of rawtx, into StreamIngest.handle, and that another   *)
(* thread asks to stop.  A message is an envelope that can be decoded, one *)
(* that cannot, or the one envelope whose fate is followed.  The publisher *)
(* never rests.  The counters that are only reported are left out.         *)
(***************************************************************************)
EXTENDS Naturals, Sequences, SequencesExt

CONSTANTS
  RcvHwm,    \* the messages a socket holds before it discards
  MaxRaises  \* bound: calls of handle() or on_match() that raise

ASSUME SubscriberAssumption == RcvHwm \in Nat \ {0} /\ MaxRaises \in Nat

Sockets == {"rawblock", "rawtx"}
Envelopes == {"plain", "malformed", "followed"}

VARIABLES
  pc,        \* where the thread that owns the sockets is
  socket,    \* the one being drained
  ready,     \* the sockets that poll() said are readable
  hand,      \* the envelope received, or "none"
  stopping,  \* the Event _stopping
  queue,     \* queue[t]: what the socket of topic t holds
  raises,    \* exceptions so far
  waiting    \* ghost: the blocks that waited at the poll and still do

loopVars == <<pc, socket, ready, hand, stopping, queue, raises, waiting>>

LoopInit ==
  /\ pc = "off" /\ socket = "rawblock" /\ ready = {} /\ hand = "none"
  /\ stopping = FALSE /\ queue = [t \in Sockets |-> << >>] /\ raises = 0 /\ waiting = 0

InLoop == pc \in {"test", "poll", "drain", "handle", "again"}
Outside == {"off", "returned", "raised"}

-----------------------------------------------------------------------------
(* The publisher and the socket's buffer: a message that finds it full is lost. *)
Followed == hand = "followed" \/ \E t \in Sockets : "followed" \in ToSet(queue[t])

Arrive(t) ==
  /\ pc # "closed" /\ Len(queue[t]) < RcvHwm
  /\ \E envelope \in Envelopes :
       /\ envelope = "followed" => ~Followed
       /\ queue' = [queue EXCEPT ![t] = Append(@, envelope)]
  /\ UNCHANGED <<pc, socket, ready, hand, stopping, raises, waiting>>

-----------------------------------------------------------------------------
(* run() *)

CallRun ==
  /\ pc \in Outside /\ pc' = "clear"
  /\ UNCHANGED <<socket, ready, hand, stopping, queue, raises, waiting>>

Clear ==
  /\ pc = "clear" /\ pc' = "test" /\ stopping' = FALSE
  /\ UNCHANGED <<socket, ready, hand, queue, raises, waiting>>

(* Seeded fault: the flag is looked at while a run is entered only. *)
Test_once ==
  /\ pc = "test" /\ pc' = "poll"
  /\ UNCHANGED <<socket, ready, hand, stopping, queue, raises, waiting>>

Test ==
  /\ pc = "test" /\ pc' = IF stopping THEN "returned" ELSE "poll"
  /\ UNCHANGED <<socket, ready, hand, stopping, queue, raises, waiting>>

(* Seeded fault: a block that is ready is all that a pass looks at. *)
Poll_one ==
  /\ pc = "poll" /\ pc' = "drain"
  /\ ready' = IF queue["rawblock"] # << >> THEN {"rawblock"} ELSE {t \in Sockets : queue[t] # << >>}
  /\ socket' = "rawblock" /\ waiting' = Len(queue["rawblock"])
  /\ UNCHANGED <<hand, stopping, queue, raises>>

(* poll_once(): one look at both sockets, or a timeout with nothing to read. *)
Poll ==
  /\ pc = "poll" /\ pc' = "drain"
  /\ ready' = {t \in Sockets : queue[t] # << >>}
  /\ socket' = "rawblock" /\ waiting' = Len(queue["rawblock"])
  /\ UNCHANGED <<hand, stopping, queue, raises>>

(* _receive(): it takes one message; what cannot be decoded is not handed on. *)
Receive ==
  /\ pc = "drain" /\ socket \in ready
  /\ hand' = Head(queue[socket]) /\ queue' = [queue EXCEPT ![socket] = Tail(@)]
  /\ pc' = IF hand' = "malformed" THEN "again" ELSE "handle"
  /\ waiting' = IF socket = "rawblock" /\ waiting > 0 THEN waiting - 1 ELSE waiting
  /\ UNCHANGED <<socket, ready, stopping, raises>>

(* handle(), and on_match() with its matches.  An exception of either leaves run(). *)
Handle ==
  /\ pc = "handle"
  /\ \/ pc' = "again" /\ UNCHANGED <<hand, raises>>
     \/ pc' = "raised" /\ hand' = "none" /\ raises < MaxRaises /\ raises' = raises + 1
  /\ UNCHANGED <<socket, ready, stopping, queue, waiting>>

(* Seeded fault: one message is taken of a socket on each pass. *)
Again_not ==
  /\ pc = "again" /\ pc' = "drain" /\ hand' = "none"
  /\ ready' = ready \ {socket}
  /\ UNCHANGED <<socket, stopping, queue, raises, waiting>>

(* The socket is asked again, without waiting. *)
Again ==
  /\ pc = "again" /\ pc' = "drain" /\ hand' = "none"
  /\ ready' = IF queue[socket] = << >> THEN ready \ {socket} ELSE ready
  /\ UNCHANGED <<socket, stopping, queue, raises, waiting>>

(* Nothing left on it: the other socket, or the end of the pass. *)
Drained ==
  /\ pc = "drain" /\ socket \notin ready
  /\ IF socket = "rawblock" THEN socket' = "rawtx" /\ pc' = pc
                            ELSE pc' = "test" /\ UNCHANGED socket
  /\ UNCHANGED <<ready, hand, stopping, queue, raises, waiting>>

-----------------------------------------------------------------------------
(* stop() by any thread at any time; __exit__ by the owner, once run() is over. *)
Stop ==
  /\ pc # "closed" /\ stopping' = TRUE
  /\ UNCHANGED <<pc, socket, ready, hand, queue, raises, waiting>>

Exit ==
  /\ pc \in Outside /\ pc' = "closed"
  /\ stopping' = TRUE /\ queue' = [t \in Sockets |-> << >>]
  /\ UNCHANGED <<socket, ready, hand, raises, waiting>>

Thread == Clear \/ Test \/ Poll \/ Receive \/ Handle \/ Again \/ Drained

LoopNext == (\E t \in Sockets : Arrive(t)) \/ CallRun \/ Thread \/ Stop \/ Exit

LoopSpec == LoopInit /\ [][LoopNext]_loopVars

(* The loop runs: no step of it waits for longer than the poll's timeout, and  *)
(* handle() makes RPC calls with timeouts only.  A caller whose run() was left *)
(* by an exception enters it again, or gives the sockets up.                   *)
FairLoop == LoopSpec /\ WF_loopVars(Thread) /\ WF_loopVars(pc = "raised" /\ (CallRun \/ Exit))

-----------------------------------------------------------------------------
(* subscribe.py:109-110: a transaction is handled only when every block that was   *)
(* waiting at the poll has been, so that the coins a block brings are known by then.*)
BlocksFirst == pc = "handle" /\ socket = "rawtx" => waiting = 0

(* The assumption on the environment: a socket that is asked again and again is   *)
(* found empty again and again, so that no stream is for ever ahead of its handler.*)
Asked(t) == Again /\ socket = t
FoundEmpty(t) == Asked(t) /\ queue[t] = << >>
KeepsUp(t) == []<><<Asked(t)>>_loopVars => []<><<FoundEmpty(t)>>_loopVars

(* subscribe.py:108-109: a message that waits on one socket is taken in the end,   *)
(* whatever arrives on the other, malformed or not, as long as that one is drained *)
(* now and then, and unless the service is stopped.                                *)
NoStarvation ==
  \A t \in Sockets : (\A u \in Sockets \ {t} : KeepsUp(u)) =>
    ((InLoop /\ "followed" \in ToSet(queue[t]))
       ~> ("followed" \notin ToSet(queue[t]) \/ pc = "returned"))

(* subscribe.py:126-134: once run() has begun its loop, a stop() ends it, whatever  *)
(* is published, as long as both sockets are drained now and then.                  *)
StopReturns ==
  (\A t \in Sockets : KeepsUp(t)) => ((InLoop /\ stopping) ~> ~InLoop)
=============================================================================
