--------------------------- MODULE ScanSupervisor ---------------------------
(***************************************************************************)
(* node.supervisor.ScanSupervisor: client threads submit scripts to a      *)
(* bounded queue, one worker thread batches them into `scantxoutset start` *)
(* calls, and close() runs on a third thread while both go on.  The node   *)
(* runs one scan at a time, goes on with a scan whose caller is gone, and  *)
(* stops only when it is done or told to abort.                            *)
(*                                                                         *)
(* Time is left out: a wait may end whenever the code allows it to, except *)
(* that join() gives up only on a worker that waits for the node, the one  *)
(* wait longer than its timeout.                                           *)
(***************************************************************************)
EXTENDS SequencesExt

CONSTANTS
  Requests,     \* every request a client will ever submit
  Scripts,
  Script,       \* Script[r]: the scriptPubKey r asks about
  Wake,         \* the sentinel: the `None` close() puts on the queue
  BatchMax, QueueMax,
  Faults,       \* which of FaultKinds happen
  MaxFaults     \* bound: how many of them in one behaviour

(* The node's answer: lost, refused or garbled; an abort call that fails; the  *)
(* client cancels; close() is called; the process is killed and started again. *)
FaultKinds == {"timeout", "reject", "garble", "control", "cancel", "close", "kill"}

ASSUME SupervisorAssumption ==
  /\ Wake \notin Requests
  /\ Script \in [Requests -> Scripts]
  /\ BatchMax \in Nat \ {0} /\ QueueMax \in Nat \ {0}
  /\ Faults \subseteq FaultKinds /\ MaxFaults \in Nat

VARIABLES
  scan,         \* node: the scripts of the scan it runs, {} for none
  call,         \* the worker's `start` call: where it is, or its answer
  reported,     \* the scripts whose coins the answer reports
  future,       \* future[r]: the state of r and of its Future
  outcome,      \* outcome[r]: the scripts whose coins r's result holds
  queue,        \* _queue
  worker,       \* where the worker thread is
  batch,        \* the requests it has taken
  scan_in_flight, stopping, closed,  \* the two Events and _closed
  closer,       \* where close() is
  orphans_aborted, batches_run,
  early,        \* ghost: the requests submitted when close() was called
  faults        \* faults taken from the budget so far: how many, and of which kinds

nodeVars == <<scan, call, reported>>
clientVars == <<future, outcome>>
workerVars == <<worker, batch, scan_in_flight, batches_run>>
closerVars == <<closer, closed, stopping, early>>
vars == <<scan, call, reported, future, outcome, queue, worker, batch, scan_in_flight,
          stopping, closed, closer, orphans_aborted, batches_run, early, faults>>

Calls == {"none", "sent", "scanning"}
Answers == {"success", "aborted", "rejected", "unreachable", "garbled"}
Settled == {"result", "failed", "cancelled"}

Init ==
  /\ scan \in {{}, Scripts}    \* a scan the last process left behind, perhaps
  /\ call = "none" /\ reported = {}
  /\ future = [r \in Requests |-> "new"] /\ outcome = [r \in Requests |-> {}]
  /\ queue = << >>
  /\ worker = "off" /\ batch = << >> /\ scan_in_flight = FALSE /\ batches_run = 0
  /\ closer = "open" /\ closed = FALSE /\ stopping = FALSE /\ early = {}
  /\ orphans_aborted = 0 /\ faults = [taken |-> 0, kinds |-> {}]

Fault(kind) ==
  /\ kind \in Faults /\ faults.taken < MaxFaults
  /\ faults' = [taken |-> faults.taken + 1, kinds |-> faults.kinds \cup {kind}]

(* The requests of the batch that the call is made for. *)
Live == {r \in ToSet(batch) : future[r] = "running"}

-----------------------------------------------------------------------------
(* The node. *)

NodeBegins ==
  /\ call = "sent" /\ scan = {}
  /\ scan' = {Script[r] : r \in Live}
  /\ call' = "scanning"
  /\ UNCHANGED <<reported, clientVars, queue, workerVars, closerVars, orphans_aborted, faults>>

(* It refuses a second scan; and, as a fault, a first one. *)
NodeRejects ==
  /\ call = "sent"
  /\ \/ scan # {} /\ UNCHANGED faults
     \/ scan = {} /\ Fault("reject")
  /\ call' = "rejected"
  /\ UNCHANGED <<scan, reported, clientVars, queue, workerVars, closerVars, orphans_aborted>>

(* A scan ends; whoever still waits for it is answered. *)
NodeFinishes ==
  /\ scan # {}
  /\ scan' = {}
  /\ IF call = "scanning"
       THEN \/ call' = "success" /\ reported' = scan /\ UNCHANGED faults
            \/ call' = "garbled" /\ UNCHANGED reported /\ Fault("garble")
       ELSE UNCHANGED <<call, reported, faults>>
  /\ UNCHANGED <<clientVars, queue, workerVars, closerVars, orphans_aborted>>

(* The read times out, or the connection fails before or during the scan. *)
CallTimesOut ==
  /\ call \in {"sent", "scanning"}
  /\ Fault("timeout")
  /\ call' = "unreachable"
  /\ UNCHANGED <<scan, reported, clientVars, queue, workerVars, closerVars, orphans_aborted>>

Node == NodeBegins \/ NodeRejects \/ NodeFinishes

-----------------------------------------------------------------------------
(* _abort_scan: the node drops what it runs, or the call fails and the error  *)
(* is swallowed.                                                              *)

AbortHeard ==
  /\ scan' = {}
  /\ call' = IF call = "scanning" THEN "aborted" ELSE call
  /\ UNCHANGED <<reported, faults>>
AbortUnheard == Fault("control") /\ UNCHANGED nodeVars

(* Seeded fault: the worker is spawned without asking the node first. *)
Start_unasked ==
  /\ worker = "off" /\ closer = "open"
  /\ worker' = "top"
  /\ UNCHANGED <<nodeVars, clientVars, queue, batch, scan_in_flight, batches_run, closerVars,
                 orphans_aborted, faults>>

(* start(): abort, count what was found, spawn the worker. *)
Start ==
  /\ worker = "off" /\ closer = "open"
  /\ \/ AbortHeard /\ orphans_aborted' = orphans_aborted + IF scan = {} THEN 0 ELSE 1
     \/ AbortUnheard /\ UNCHANGED orphans_aborted
  /\ worker' = "top"
  /\ UNCHANGED <<clientVars, queue, batch, scan_in_flight, batches_run, closerVars>>

-----------------------------------------------------------------------------
(* submit(r), on a client's thread: _closed is read first, the queue after it. *)

SubmitChecks(r) ==
  /\ future[r] = "new"
  /\ future' = [future EXCEPT ![r] = IF closed THEN "refused" ELSE "checked"]
  /\ UNCHANGED <<nodeVars, outcome, queue, workerVars, closerVars, orphans_aborted, faults>>

SubmitPuts(r) ==
  /\ future[r] = "checked"
  /\ IF Len(queue) < QueueMax
       THEN queue' = Append(queue, r) /\ future' = [future EXCEPT ![r] = "pending"]
       ELSE UNCHANGED queue /\ future' = [future EXCEPT ![r] = "refused"]
  /\ UNCHANGED <<nodeVars, outcome, workerVars, closerVars, orphans_aborted, faults>>

(* Future.cancel(): has its effect only while the request is not running. *)
Cancel(r) ==
  /\ future[r] = "pending"
  /\ Fault("cancel")
  /\ future' = [future EXCEPT ![r] = "cancelled"]
  /\ UNCHANGED <<nodeVars, outcome, queue, workerVars, closerVars, orphans_aborted>>

-----------------------------------------------------------------------------
(* The worker: _run, _collect and _execute. *)

WorkerMoves(from, to) == worker = from /\ worker' = to

LoopTop ==
  /\ worker = "top"
  /\ worker' = IF stopping THEN "ended" ELSE "first"
  /\ UNCHANGED <<nodeVars, clientVars, queue, batch, scan_in_flight, batches_run,
                 closerVars, orphans_aborted, faults>>

(* One item off the queue; the sentinel ends the collecting. *)
Take(next) ==
  /\ queue # << >>
  /\ queue' = Tail(queue)
  /\ IF Head(queue) = Wake
       THEN worker' = "decide" /\ UNCHANGED batch
       ELSE worker' = next /\ batch' = Append(batch, Head(queue))

CollectFirst ==
  /\ worker = "first"
  /\ \/ Take("backlog")
     \/ queue = << >> /\ worker' = "decide" /\ UNCHANGED <<queue, batch>>
  /\ UNCHANGED <<nodeVars, clientVars, scan_in_flight, batches_run, closerVars,
                 orphans_aborted, faults>>

(* Seeded fault: the batch may grow one beyond its bound. *)
CollectBacklog_one_more ==
  /\ worker = "backlog"
  /\ IF Len(batch) <= BatchMax /\ queue # << >>
       THEN Take("backlog")
       ELSE worker' = "window" /\ UNCHANGED <<queue, batch>>
  /\ UNCHANGED <<nodeVars, clientVars, scan_in_flight, batches_run, closerVars,
                 orphans_aborted, faults>>

(* What is queued already is taken at once, whether or not the service stops. *)
CollectBacklog ==
  /\ worker = "backlog"
  /\ IF Len(batch) < BatchMax /\ queue # << >>
       THEN Take("backlog")
       ELSE worker' = "window" /\ UNCHANGED <<queue, batch>>
  /\ UNCHANGED <<nodeVars, clientVars, scan_in_flight, batches_run, closerVars,
                 orphans_aborted, faults>>

(* What arrives within the window; it may close at any time. *)
CollectWindow ==
  /\ \/ worker = "window" /\ Len(batch) < BatchMax /\ ~stopping /\ Take("window")
     \/ WorkerMoves("window", "decide") /\ UNCHANGED <<queue, batch>>
  /\ UNCHANGED <<nodeVars, clientVars, scan_in_flight, batches_run, closerVars,
                 orphans_aborted, faults>>

Decide ==
  /\ worker = "decide"
  /\ worker' = IF stopping THEN "fail" ELSE IF batch = << >> THEN "top" ELSE "execute"
  /\ UNCHANGED <<nodeVars, clientVars, queue, batch, scan_in_flight, batches_run,
                 closerVars, orphans_aborted, faults>>

(* set_exception on one request that may still be pending.  A cancel that falls *)
(* between done() and set_exception() makes it raise.                           *)
FailOne(r) ==
  future' = IF r # Wake /\ future[r] = "pending"
              THEN [future EXCEPT ![r] = "failed"] ELSE future
FailRaises(r) ==
  /\ r # Wake /\ future[r] = "pending"
  /\ Fault("cancel")
  /\ future' = [future EXCEPT ![r] = "cancelled"]

(* Collected just as shutdown began: the batch is failed, and the thread ends. *)
FailBatch ==
  /\ worker = "fail"
  /\ IF batch = << >>
       THEN worker' = "ended" /\ UNCHANGED <<future, batch, faults>>
       ELSE /\ batch' = Tail(batch)
            /\ \/ FailOne(Head(batch)) /\ UNCHANGED <<worker, faults>>
               \/ FailRaises(Head(batch)) /\ worker' = "died"
  /\ UNCHANGED <<nodeVars, outcome, queue, scan_in_flight, batches_run, closerVars,
                 orphans_aborted>>

(* The requests that were not cancelled are running from here on. *)
Execute ==
  /\ worker = "execute"
  /\ LET live == {r \in ToSet(batch) : future[r] = "pending"}
     IN  /\ future' = [r \in Requests |-> IF r \in live THEN "running" ELSE future[r]]
         /\ IF live = {} THEN worker' = "top" /\ batch' = << >>
                         ELSE worker' = "mark" /\ UNCHANGED batch
  /\ UNCHANGED <<nodeVars, outcome, queue, scan_in_flight, batches_run, closerVars,
                 orphans_aborted, faults>>

(* _scan_in_flight.set(), then the call. *)
CallStart ==
  /\ WorkerMoves("mark", "calling")
  /\ scan_in_flight' = TRUE
  /\ call' = "sent" /\ reported' = {}
  /\ UNCHANGED <<scan, clientVars, queue, batch, batches_run, closerVars,
                 orphans_aborted, faults>>

(* Seeded faults: the flat list is handed to every request of the batch; only the *)
(* first request of a failed batch is told.                                       *)
Answered_unsorted ==
  /\ worker = "calling" /\ call \in Answers
  /\ LET good == call = "success"
     IN  /\ future' = [r \in Requests |-> IF r \notin Live THEN future[r]
                                          ELSE IF good THEN "result" ELSE "failed"]
         /\ outcome' = [r \in Requests |-> IF r \in Live /\ good
                                             THEN reported ELSE outcome[r]]
  /\ scan_in_flight' = FALSE /\ batches_run' = batches_run + 1
  /\ worker' = "top" /\ batch' = << >> /\ call' = "none"
  /\ UNCHANGED <<scan, reported, queue, closerVars, orphans_aborted, faults>>
Answered_tells_one ==
  /\ worker = "calling" /\ call \in Answers
  /\ LET good == call = "success"
     IN  /\ future' = [r \in Requests |->
                         IF r \notin Live THEN future[r]
                         ELSE IF good THEN "result"
                         ELSE IF r = CHOOSE first \in Live : TRUE THEN "failed" ELSE future[r]]
         /\ outcome' = [r \in Requests |-> IF r \in Live /\ good
                                             THEN reported \cap {Script[r]} ELSE outcome[r]]
  /\ scan_in_flight' = FALSE /\ batches_run' = batches_run + 1
  /\ worker' = "top" /\ batch' = << >> /\ call' = "none"
  /\ UNCHANGED <<scan, reported, queue, closerVars, orphans_aborted, faults>>

(* Every request of the batch gets the coins of its own script, or fails. *)
Answered ==
  /\ worker = "calling" /\ call \in Answers
  /\ LET good == call = "success"
     IN  /\ future' = [r \in Requests |-> IF r \notin Live THEN future[r]
                                          ELSE IF good THEN "result" ELSE "failed"]
         /\ outcome' = [r \in Requests |-> IF r \in Live /\ good
                                             THEN reported \cap {Script[r]} ELSE outcome[r]]
  /\ scan_in_flight' = FALSE /\ batches_run' = batches_run + 1
  /\ worker' = "top" /\ batch' = << >> /\ call' = "none"
  /\ UNCHANGED <<scan, reported, queue, closerVars, orphans_aborted, faults>>

Worker == \/ LoopTop \/ CollectFirst \/ CollectBacklog \/ CollectWindow \/ Decide
          \/ FailBatch \/ Execute \/ CallStart \/ Answered

-----------------------------------------------------------------------------
(* close(), once: a second call finds _closed set and returns. *)

CloserMoves(from, to) == closer = from /\ closer' = to

CloseBegins ==
  /\ Fault("close") /\ worker # "off"
  /\ CloserMoves("open", "stop")
  /\ closed' = TRUE
  /\ early' = {r \in Requests : future[r] \in {"pending", "running"}}
  /\ UNCHANGED <<nodeVars, clientVars, queue, workerVars, stopping, orphans_aborted>>

(* Seeded fault: the worker is woken but never told to stop. *)
CloseStops_forgotten ==
  /\ CloserMoves("stop", "wake")
  /\ UNCHANGED <<nodeVars, clientVars, queue, workerVars, closed, stopping, early,
                 orphans_aborted, faults>>

CloseStops ==
  /\ CloserMoves("stop", "wake")
  /\ stopping' = TRUE
  /\ UNCHANGED <<nodeVars, clientVars, queue, workerVars, closed, early, orphans_aborted, faults>>

CloseWakes ==
  /\ CloserMoves("wake", "look")
  /\ queue' = IF Len(queue) < QueueMax THEN Append(queue, Wake) ELSE queue
  /\ UNCHANGED <<nodeVars, clientVars, workerVars, closed, stopping, early,
                 orphans_aborted, faults>>

CloseLooks ==
  /\ closer = "look"
  /\ closer' = IF scan_in_flight THEN "abort" ELSE "join"
  /\ UNCHANGED <<nodeVars, clientVars, queue, workerVars, closed, stopping, early,
                 orphans_aborted, faults>>

CloseAborts ==
  /\ CloserMoves("abort", "join")
  /\ AbortHeard \/ AbortUnheard
  /\ UNCHANGED <<clientVars, queue, workerVars, closed, stopping, early, orphans_aborted>>

CloseJoins ==
  /\ CloserMoves("join", "drain")
  /\ worker \in {"ended", "died"} \/ call \in {"sent", "scanning"}
  /\ UNCHANGED <<nodeVars, clientVars, queue, workerVars, closed, stopping, early,
                 orphans_aborted, faults>>

(* Seeded fault: what is still queued is left there. *)
CloseDrains_nothing ==
  /\ CloserMoves("drain", "done")
  /\ UNCHANGED <<nodeVars, clientVars, queue, workerVars, closed, stopping, early,
                 orphans_aborted, faults>>

CloseDrains ==
  /\ closer = "drain"
  /\ IF queue = << >>
       THEN closer' = "done" /\ UNCHANGED <<future, queue, faults>>
       ELSE /\ queue' = Tail(queue)
            /\ \/ FailOne(Head(queue)) /\ UNCHANGED <<closer, faults>>
               \/ FailRaises(Head(queue)) /\ closer' = "raised"
  /\ UNCHANGED <<nodeVars, outcome, workerVars, closed, stopping, early, orphans_aborted>>

Closer == CloseStops \/ CloseWakes \/ CloseLooks \/ CloseAborts \/ CloseJoins \/ CloseDrains

(* The process dies without a word and is replaced: the node's scan goes on. *)
Kill ==
  /\ Fault("kill")
  /\ call' = "none" /\ reported' = {}
  /\ future' = [r \in Requests |-> IF future[r] \in {"checked", "pending", "running"}
                                     THEN "gone" ELSE future[r]]
  /\ queue' = << >> /\ worker' = "off" /\ batch' = << >>
  /\ scan_in_flight' = FALSE /\ stopping' = FALSE /\ closed' = FALSE /\ closer' = "open"
  /\ early' = {} /\ orphans_aborted' = 0 /\ batches_run' = 0
  /\ UNCHANGED <<scan, outcome>>

Client(r) == SubmitChecks(r) \/ SubmitPuts(r) \/ Cancel(r)

Next == \/ Node \/ CallTimesOut \/ Start \/ Worker
        \/ \E r \in Requests : Client(r)
        \/ CloseBegins \/ Closer \/ Kill

Spec == Init /\ [][Next]_vars

(* The threads are scheduled, the owner starts the service, and a scan ends. *)
FairSpec == Spec /\ WF_vars(Start) /\ WF_vars(Worker) /\ WF_vars(Closer) /\ WF_vars(Node)

-----------------------------------------------------------------------------
(* Properties. *)

(* The shapes of the variables; the queue and the batch keep their bounds. *)
TypeOK ==
  /\ scan \subseteq Scripts /\ reported \subseteq Scripts
  /\ call \in Calls \cup Answers
  /\ future \in [Requests -> Settled \cup {"new", "checked", "refused", "pending",
                                           "running", "gone"}]
  /\ outcome \in [Requests -> SUBSET Scripts]
  /\ queue \in Seq(Requests \cup {Wake}) /\ Len(queue) <= QueueMax
  /\ worker \in {"off", "top", "first", "backlog", "window", "decide", "fail", "execute",
                 "mark", "calling", "ended", "died"}
  /\ batch \in Seq(Requests) /\ Len(batch) <= BatchMax
  /\ scan_in_flight \in BOOLEAN /\ stopping \in BOOLEAN /\ closed \in BOOLEAN
  /\ closer \in {"open", "stop", "wake", "look", "abort", "join", "drain", "done", "raised"}
  /\ orphans_aborted \in Nat /\ batches_run \in Nat
  /\ early \subseteq Requests
  /\ faults \in [taken : Nat, kinds : SUBSET Faults]

(* Every abort the node was sent was heard, and no answer was lost. *)
NodeHeard == faults.kinds \cap {"timeout", "control"} = {}

(* supervisor.py:9-10, tests/test_supervisor.py:160-162: the supervisor never asks *)
(* for a scan while the node runs one, neither its own nor a dead process's, as    *)
(* long as no answer or abort was lost.                                            *)
ScansNeverOverlap == NodeHeard /\ call = "sent" => scan = {}

(* supervisor.py:308-330: a resolved baseline holds the coins of its own script,   *)
(* all scanned in the call that was made for it, whatever shared the batch.        *)
BaselineIsOwn == \A r \in Requests : future[r] = "result" => outcome[r] = {Script[r]}

(* supervisor.py:177, 345-357: when close() returns, every request submitted       *)
(* before it was called is settled, except those of a call it gave up waiting for; *)
(* unless a client cancelled one just as close() was failing it.                   *)
CloseSettles ==
  closer = "done" /\ "cancel" \notin faults.kinds =>
    \A r \in early : future[r] \in Settled \/ (worker = "calling" /\ r \in Live)

(* supervisor.py:188-193: when close() returns, its join() did not give up and the *)
(* node was heard, the node is idle.                                               *)
JoinedLeavesNoScan ==
  closer = "done" /\ worker \in {"ended", "died"} /\ NodeHeard => scan = {}

(* supervisor.py:11-13, 177: when close() returns the node is not scanning.        *)
CloseLeavesNoScan == closer = "done" => scan = {}

(* supervisor.py:205-210, tests/test_supervisor.py:294-296: a submitted request is *)
(* settled sooner or later, whatever the node answers to its batch or another's,   *)
(* unless the service is stopped.                                                  *)
Served ==
  \A r \in Requests :
    (future[r] = "pending") ~> (future[r] \in Settled \/ closed \/ "kill" \in faults.kinds)

(* supervisor.py:176-194, 226-235: close() ends, and so does the worker thread,    *)
(* even when the queue was too full for the sentinel.                              *)
ShutdownEnds ==
  closer = "stop" ~> \/ closer \in {"done", "raised"} /\ worker \in {"ended", "died"}
                     \/ closer = "open"
=============================================================================
