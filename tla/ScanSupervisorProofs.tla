------------------------ MODULE ScanSupervisorProofs ------------------------
(***************************************************************************)
(* What ScanSupervisor guarantees for any requests, scripts and bounds,    *)
(* with any faults of the node, the network and the clients.               *)
(***************************************************************************)
EXTENDS ScanSupervisor, TLAPS

(* Where the worker is, and what it holds there. *)
Phase ==
  /\ worker \in {"off", "top", "first", "ended"} => batch = << >>
  /\ worker = "calling" <=> call # "none"

(* The scan that answers a call is of the scripts of the requests it was made for. *)
Asked == {Script[r] : r \in Live}

Answering ==
  /\ call = "scanning" => scan = Asked
  /\ call = "success" => reported = Asked

(* A node that is heard scans for the call in hand, or for a process that is gone. *)
Quiet == NodeHeard /\ scan # {} => call = "scanning" \/ worker = "off"

(* A request that waits is in the queue or in a batch not yet executed; one that runs *)
(* is in the batch that is.                                                           *)
Held ==
  \A r \in Requests :
    /\ future[r] = "pending" =>
         \/ r \in ToSet(queue)
         \/ r \in ToSet(batch) /\ worker \notin {"mark", "calling"}
    /\ future[r] = "running" => r \in ToSet(batch) /\ worker \in {"mark", "calling"}

(* Once join() is over the worker is gone, or in its last call. *)
Closing ==
  /\ closer \notin {"open", "stop"} => stopping
  /\ closer \in {"drain", "done", "raised"} => worker \in {"calling", "top", "ended", "died"}
  /\ worker = "died" => "cancel" \in faults.kinds
  /\ \A r \in early : future[r] \in Settled \cup {"pending", "running"}
  /\ closer = "done" /\ "cancel" \notin faults.kinds => \A r \in early : future[r] # "pending"

IInv == TypeOK /\ Phase /\ Answering /\ BaselineIsOwn /\ Quiet /\ Held /\ Closing

-----------------------------------------------------------------------------
(* Taking from a queue and putting onto one. *)

LEMMA TakenOff ==
  ASSUME NEW S, NEW q \in Seq(S), q # << >>
  PROVE  /\ Head(q) \in S /\ Tail(q) \in Seq(S) /\ Len(Tail(q)) = Len(q) - 1
         /\ ToSet(q) = {Head(q)} \cup ToSet(Tail(q))
  <1>1. /\ Len(q) \in Nat /\ Len(q) >= 1 /\ DOMAIN q = 1..Len(q) /\ Head(q) = q[1]
        /\ DOMAIN Tail(q) = 1..(Len(q) - 1)
        /\ \A i \in 1..(Len(q) - 1) : Tail(q)[i] = q[i + 1]
    OBVIOUS
  <1>2. ASSUME NEW e \in ToSet(q) PROVE e \in {Head(q)} \cup ToSet(Tail(q))
    <2>1. PICK i \in 1..Len(q) : e = q[i]
      BY <1>1 DEF ToSet
    <2>2. CASE i = 1
      BY <1>1, <2>1, <2>2
    <2>3. CASE i # 1
      <3>1. i - 1 \in 1..(Len(q) - 1) /\ Tail(q)[i - 1] = q[(i - 1) + 1] /\ (i - 1) + 1 = i
        BY <1>1, <2>1, <2>3
      <3>2. QED
        BY <1>1, <2>1, <3>1 DEF ToSet
    <2>4. QED
      BY <2>2, <2>3
  <1>3. ASSUME NEW e \in ToSet(Tail(q)) PROVE e \in ToSet(q)
    <2>1. PICK i \in 1..(Len(q) - 1) : e = q[i + 1]
      BY <1>1, <1>3 DEF ToSet
    <2>2. i + 1 \in 1..Len(q)
      BY <1>1
    <2>3. QED
      BY <1>1, <2>1, <2>2 DEF ToSet
  <1>4. Head(q) \in ToSet(q)
    BY <1>1 DEF ToSet
  <1>5. Head(q) \in S /\ Tail(q) \in Seq(S) /\ Len(Tail(q)) = Len(q) - 1
    OBVIOUS
  <1>6. QED
    BY <1>2, <1>3, <1>4, <1>5

LEMMA PutOn ==
  ASSUME NEW S, NEW q \in Seq(S), NEW e \in S
  PROVE  /\ Append(q, e) \in Seq(S) /\ Len(Append(q, e)) = Len(q) + 1
         /\ ToSet(Append(q, e)) = ToSet(q) \cup {e}
  <1>1. /\ Len(q) \in Nat /\ DOMAIN q = 1..Len(q)
        /\ DOMAIN Append(q, e) = 1..(Len(q) + 1)
        /\ \A i \in 1..Len(q) : Append(q, e)[i] = q[i]
        /\ Append(q, e)[Len(q) + 1] = e
    OBVIOUS
  <1>2. ASSUME NEW x \in ToSet(Append(q, e)) PROVE x \in ToSet(q) \cup {e}
    <2>1. PICK i \in 1..(Len(q) + 1) : x = Append(q, e)[i]
      BY <1>1 DEF ToSet
    <2>2. i \in 1..Len(q) \/ i = Len(q) + 1
      BY <1>1
    <2>3. QED
      BY <1>1, <2>1, <2>2 DEF ToSet
  <1>3. ASSUME NEW x \in ToSet(q) PROVE x \in ToSet(Append(q, e))
    <2>1. PICK i \in 1..Len(q) : x = q[i]
      BY <1>1 DEF ToSet
    <2>2. i \in 1..(Len(q) + 1)
      BY <1>1
    <2>3. QED
      BY <1>1, <2>1, <2>2 DEF ToSet
  <1>4. e \in ToSet(Append(q, e))
    <2>1. Len(q) + 1 \in 1..(Len(q) + 1)
      BY <1>1
    <2>2. QED
      BY <1>1, <2>1 DEF ToSet
  <1>5. Append(q, e) \in Seq(S) /\ Len(Append(q, e)) = Len(q) + 1
    OBVIOUS
  <1>6. QED
    BY <1>2, <1>3, <1>4, <1>5

LEMMA NoneOn == ToSet(<< >>) = {} /\ \A S : << >> \in Seq(S)
  BY DEF ToSet

-----------------------------------------------------------------------------
(* The steps, by what they may change. *)

NodeStep == Node \/ CallTimesOut
SubmitStep == \E r \in Requests : SubmitChecks(r) \/ SubmitPuts(r)
CancelStep == \E r \in Requests : Cancel(r)
CollectStep == CollectFirst \/ CollectBacklog \/ CollectWindow
WalkStep == LoopTop \/ Decide
CloserWalks == CloseBegins \/ CloseStops \/ CloseLooks \/ CloseJoins

LEMMA Cases ==
  ASSUME Next
  PROVE  \/ NodeStep \/ Start \/ SubmitStep \/ CancelStep \/ WalkStep \/ CollectStep
         \/ FailBatch \/ Execute \/ CallStart \/ Answered
         \/ CloserWalks \/ CloseWakes \/ CloseAborts \/ CloseDrains \/ Kill
  BY DEF Next, Worker, Closer, Client, NodeStep, SubmitStep, CancelStep, CollectStep, WalkStep,
         CloserWalks

(* The type invariant, by the part of the state that it is about. *)

NodeOK == scan \subseteq Scripts /\ reported \subseteq Scripts /\ call \in Calls \cup Answers

ClientOK ==
  /\ future \in [Requests -> Settled \cup {"new", "checked", "refused", "pending",
                                           "running", "gone"}]
  /\ outcome \in [Requests -> SUBSET Scripts]

QueueOK == queue \in Seq(Requests \cup {Wake}) /\ Len(queue) <= QueueMax

WorkerOK ==
  /\ worker \in {"off", "top", "first", "backlog", "window", "decide", "fail", "execute",
                 "mark", "calling", "ended", "died"}
  /\ batch \in Seq(Requests) /\ Len(batch) <= BatchMax
  /\ scan_in_flight \in BOOLEAN /\ batches_run \in Nat

CloserOK ==
  /\ stopping \in BOOLEAN /\ closed \in BOOLEAN
  /\ closer \in {"open", "stop", "wake", "look", "abort", "join", "drain", "done", "raised"}
  /\ early \subseteq Requests /\ orphans_aborted \in Nat

FaultsOK == faults \in [taken : Nat, kinds : SUBSET Faults]

LEMMA Parts == TypeOK <=> NodeOK /\ ClientOK /\ QueueOK /\ WorkerOK /\ CloserOK /\ FaultsOK
  BY DEF TypeOK, NodeOK, ClientOK, QueueOK, WorkerOK, CloserOK, FaultsOK

LEMMA InitIInv == Init => IInv
  <1> SUFFICES ASSUME Init PROVE IInv
    OBVIOUS
  <1> USE SupervisorAssumption
  <1>1. NodeOK /\ ClientOK /\ CloserOK
    BY DEF Init, NodeOK, ClientOK, CloserOK, Calls
  <1>2. QueueOK /\ WorkerOK
    <2>1. << >> \in Seq(Requests) /\ << >> \in Seq(Requests \cup {Wake}) /\ Len(<< >>) = 0
      OBVIOUS
    <2>2. queue = << >> /\ batch = << >> /\ worker = "off" /\ scan_in_flight = FALSE /\ batches_run = 0
      BY DEF Init
    <2>3. 0 <= QueueMax /\ 0 <= BatchMax
      OBVIOUS
    <2> HIDE SupervisorAssumption
    <2>4. QueueOK
      BY <2>1, <2>2, <2>3 DEF QueueOK
    <2>5. QED
      BY <2>1, <2>2, <2>3, <2>4 DEF WorkerOK
  <1>3. FaultsOK
    BY DEF Init, FaultsOK
  <1>4. Phase /\ Answering /\ Quiet /\ Held /\ Closing /\ BaselineIsOwn
    BY DEF Init, Phase, Answering, Quiet, Held, Closing, BaselineIsOwn
  <1>5. QED
    BY <1>1, <1>2, <1>3, <1>4, Parts DEF IInv

-----------------------------------------------------------------------------
(* A fault is one more of its kind. *)
LEMMA Faulted ==
  ASSUME FaultsOK, NEW kind, Fault(kind)
  PROVE  FaultsOK' /\ faults'.kinds = faults.kinds \cup {kind}
  BY SupervisorAssumption DEF FaultsOK, Fault

(* The budget of faults is only ever drawn on. *)
LEMMA FaultsNext ==
  ASSUME IInv, [Next]_vars PROVE FaultsOK' /\ faults.kinds \subseteq faults'.kinds
  <1>0. FaultsOK
    BY Parts DEF IInv
  <1>1. UNCHANGED faults \/ \E kind \in FaultKinds : Fault(kind)
    <2>1. CASE NodeStep \/ Start \/ CloseAborts
      BY <2>1 DEF NodeStep, Node, NodeBegins, NodeRejects, NodeFinishes, CallTimesOut, Start,
                  CloseAborts, AbortHeard, AbortUnheard, FaultKinds
    <2>2. CASE SubmitStep \/ CancelStep \/ CollectStep \/ WalkStep
      BY <2>2 DEF SubmitStep, CancelStep, CollectStep, WalkStep, SubmitChecks, SubmitPuts, Cancel,
                  CollectFirst, CollectBacklog, CollectWindow, LoopTop, Decide, FaultKinds
    <2>3. CASE FailBatch \/ Execute \/ CallStart \/ Answered \/ CloseWakes \/ CloseDrains \/ Kill
      BY <2>3 DEF FailBatch, FailRaises, Execute, CallStart, Answered, CloseWakes, CloseDrains, Kill,
                  FaultKinds
    <2>4. CASE CloserWalks
      BY <2>4 DEF CloserWalks, CloseBegins, CloseStops, CloseLooks, CloseJoins, FaultKinds
    <2>5. CASE UNCHANGED vars
      BY <2>5 DEF vars
    <2>6. QED
      BY <2>1, <2>2, <2>3, <2>4, <2>5, Cases
  <1>2. QED
    BY <1>0, <1>1, Faulted DEF FaultsOK

LEMMA NodeNext == ASSUME IInv, [Next]_vars PROVE NodeOK'
  <1> USE DEF nodeVars, Calls, Answers, NodeOK
  <1>0. NodeOK /\ ClientOK /\ WorkerOK
    BY Parts DEF IInv
  <1>1. \A r \in Live : Script[r] \in Scripts
    BY <1>0, SupervisorAssumption DEF WorkerOK, Live, ToSet
  <1>2. CASE NodeStep \/ Start \/ CloseAborts
    BY <1>0, <1>1, <1>2 DEF NodeStep, Node, NodeBegins, NodeRejects, NodeFinishes, CallTimesOut,
                            Start, CloseAborts, AbortHeard, AbortUnheard
  <1>3. CASE SubmitStep \/ CancelStep \/ CollectStep \/ WalkStep
    BY <1>0, <1>3 DEF SubmitStep, CancelStep, CollectStep, WalkStep, SubmitChecks, SubmitPuts,
                      Cancel, CollectFirst, CollectBacklog, CollectWindow, LoopTop, Decide
  <1>4. CASE FailBatch \/ Execute \/ CallStart \/ Answered \/ CloseWakes \/ CloseDrains \/ Kill
    BY <1>0, <1>4 DEF FailBatch, Execute, CallStart, Answered, CloseWakes, CloseDrains, Kill
  <1>5. CASE CloserWalks \/ UNCHANGED vars
    BY <1>0, <1>5 DEF CloserWalks, CloseBegins, CloseStops, CloseLooks, CloseJoins, vars
  <1>6. QED
    BY <1>2, <1>3, <1>4, <1>5, Cases

(* A request that is not failed or cancelled stays as it is. *)
LEMMA FailedOne ==
  ASSUME ClientOK, NEW x \in Requests \cup {Wake}, FailOne(x) \/ FailRaises(x)
  PROVE  /\ future' \in [Requests -> Settled \cup {"new", "checked", "refused", "pending",
                                                  "running", "gone"}]
         /\ \A r \in Requests :
              /\ future'[r] = IF r = x /\ future[r] = "pending" THEN future'[r] ELSE future[r]
              /\ r = x => future'[r] # "pending"
              /\ future'[r] # future[r] => future'[r] \in {"failed", "cancelled"}
  BY SupervisorAssumption DEF ClientOK, FailOne, FailRaises, Settled

LEMMA ClientNext == ASSUME IInv, [Next]_vars PROVE ClientOK'
  <1>0. NodeOK /\ ClientOK /\ QueueOK /\ WorkerOK
    BY Parts DEF IInv
  <1>1. CASE NodeStep \/ Start \/ CloserWalks \/ CloseAborts
    BY <1>0, <1>1 DEF NodeStep, Node, NodeBegins, NodeRejects, NodeFinishes, CallTimesOut, Start,
                      CloserWalks, CloseBegins, CloseStops, CloseLooks, CloseJoins, CloseAborts,
                      clientVars, ClientOK
  <1>2. CASE WalkStep \/ CollectStep \/ CallStart \/ CloseWakes
    BY <1>0, <1>2 DEF WalkStep, LoopTop, Decide, CollectStep, CollectFirst, CollectBacklog,
                      CollectWindow, CallStart, CloseWakes, clientVars, ClientOK
  <1>3. CASE SubmitStep \/ CancelStep
    BY <1>0, <1>3 DEF SubmitStep, CancelStep, SubmitChecks, SubmitPuts, Cancel, ClientOK, Settled
  <1>4. CASE FailBatch
    BY <1>0, <1>4, FailedOne, TakenOff DEF FailBatch, WorkerOK, ClientOK
  <1>5. CASE CloseDrains
    BY <1>0, <1>5, FailedOne, TakenOff DEF CloseDrains, QueueOK, ClientOK
  <1>6. CASE Execute
    BY <1>0, <1>6 DEF Execute, ClientOK
  <1>7. CASE Answered
    <2>1. /\ outcome' = [r \in Requests |-> IF r \in Live /\ call = "success"
                                              THEN reported \cap {Script[r]} ELSE outcome[r]]
          /\ future' = [r \in Requests |-> IF r \notin Live THEN future[r]
                                           ELSE IF call = "success" THEN "result" ELSE "failed"]
      BY <1>7 DEF Answered
    <2>2. QED
      BY <1>0, <2>1 DEF NodeOK, ClientOK, Settled
  <1>8. CASE Kill
    BY <1>0, <1>8 DEF Kill, ClientOK
  <1>9. CASE UNCHANGED vars
    BY <1>0, <1>9 DEF vars, ClientOK
  <1>10. QED
    BY <1>1, <1>2, <1>3, <1>4, <1>5, <1>6, <1>7, <1>8, <1>9, Cases

LEMMA QueueTaken ==
  ASSUME QueueOK, queue # << >>
  PROVE  Tail(queue) \in Seq(Requests \cup {Wake}) /\ Len(Tail(queue)) <= QueueMax
  <1>1. Len(queue) \in Nat /\ Len(queue) <= QueueMax /\ queue \in Seq(Requests \cup {Wake})
    BY DEF QueueOK
  <1>2. Tail(queue) \in Seq(Requests \cup {Wake}) /\ Len(Tail(queue)) = Len(queue) - 1
    BY <1>1, TakenOff
  <1>3. QED
    BY <1>1, <1>2, SupervisorAssumption

LEMMA QueueNext == ASSUME IInv, [Next]_vars PROVE QueueOK'
  <1> USE SupervisorAssumption
  <1>0. QueueOK
    BY Parts DEF IInv
  <1>1. CASE NodeStep \/ Start \/ CloserWalks \/ CloseAborts \/ CancelStep
    BY <1>0, <1>1 DEF NodeStep, Node, NodeBegins, NodeRejects, NodeFinishes, CallTimesOut, Start,
                      CloserWalks, CloseBegins, CloseStops, CloseLooks, CloseJoins, CloseAborts,
                      CancelStep, Cancel, QueueOK
  <1>2. CASE WalkStep \/ CallStart \/ FailBatch \/ Execute \/ Answered
    BY <1>0, <1>2 DEF WalkStep, LoopTop, Decide, CallStart, FailBatch, Execute, Answered, QueueOK
  <1>3. CASE SubmitStep \/ CloseWakes
    <2>1. UNCHANGED queue \/ \E e \in Requests \cup {Wake} :
                               Len(queue) < QueueMax /\ queue' = Append(queue, e)
      BY <1>3 DEF SubmitStep, SubmitChecks, SubmitPuts, CloseWakes
    <2>2. QED
      BY <1>0, <2>1, PutOn DEF QueueOK
  <1>4. CASE CollectStep \/ CloseDrains
    <2>1. CASE CollectFirst
      BY <1>0, <2>1, QueueTaken DEF CollectFirst, Take, QueueOK
    <2>2. CASE CollectBacklog
      BY <1>0, <2>2, QueueTaken DEF CollectBacklog, Take, QueueOK
    <2>3. CASE CollectWindow
      BY <1>0, <2>3, QueueTaken DEF CollectWindow, Take, QueueOK
    <2>4. CASE CloseDrains
      BY <1>0, <2>4, QueueTaken DEF CloseDrains, QueueOK
    <2>5. QED
      BY <1>4, <2>1, <2>2, <2>3, <2>4 DEF CollectStep
  <1>5. CASE Kill
    BY <1>5, NoneOn DEF Kill, QueueOK
  <1>6. CASE UNCHANGED vars
    BY <1>0, <1>6 DEF vars, QueueOK
  <1>7. QED
    BY <1>1, <1>2, <1>3, <1>4, <1>5, <1>6, Cases

LEMMA WorkerNext == ASSUME IInv, [Next]_vars PROVE WorkerOK'
  <1> USE SupervisorAssumption
  <1>0. QueueOK /\ WorkerOK /\ Phase
    BY Parts DEF IInv
  <1>1. CASE NodeStep \/ SubmitStep \/ CancelStep
    BY <1>0, <1>1 DEF NodeStep, Node, NodeBegins, NodeRejects, NodeFinishes, CallTimesOut,
                      SubmitStep, SubmitChecks, SubmitPuts, CancelStep, Cancel, workerVars, WorkerOK
  <1>2. CASE CloserWalks \/ CloseAborts \/ CloseWakes \/ CloseDrains
    BY <1>0, <1>2 DEF CloserWalks, CloseBegins, CloseStops, CloseLooks, CloseJoins, CloseAborts,
                      CloseWakes, CloseDrains, workerVars, WorkerOK
  <1>3. CASE Start \/ WalkStep \/ CallStart
    BY <1>0, <1>3 DEF Start, WalkStep, LoopTop, Decide, CallStart, WorkerMoves, WorkerOK
  <1>4. CASE CollectStep
    <2>1. /\ worker' \in {"backlog", "window", "decide"} /\ UNCHANGED <<scan_in_flight, batches_run>>
          /\ \/ UNCHANGED batch
             \/ /\ batch' = Append(batch, Head(queue)) /\ queue # << >> /\ Head(queue) # Wake
                /\ batch = << >> \/ Len(batch) < BatchMax
      BY <1>0, <1>4 DEF CollectStep, CollectFirst, CollectBacklog, CollectWindow, Take, WorkerMoves, Phase
    <2>2. Len(<< >>) = 0 /\ 0 + 1 <= BatchMax
      OBVIOUS
    <2>3. batch = << >> => Len(batch) + 1 <= BatchMax
      BY <2>2
    <2>4. Len(batch) \in Nat /\ (Len(batch) < BatchMax => Len(batch) + 1 <= BatchMax)
      BY <1>0 DEF WorkerOK
    <2>5. queue # << >> /\ Head(queue) # Wake => Head(queue) \in Requests
      BY <1>0, TakenOff DEF QueueOK
    <2>6. batch' \in Seq(Requests) /\ Len(batch') <= BatchMax
      BY <1>0, <2>1, <2>3, <2>4, <2>5, PutOn DEF WorkerOK
    <2>7. QED
      BY <1>0, <2>1, <2>6 DEF WorkerOK
  <1>5. CASE FailBatch
    <2>1. /\ worker' \in {worker, "ended", "died"} /\ UNCHANGED <<scan_in_flight, batches_run>>
          /\ UNCHANGED batch \/ (batch # << >> /\ batch' = Tail(batch))
      BY <1>5 DEF FailBatch
    <2>2. batch' \in Seq(Requests) /\ Len(batch') <= BatchMax
      <3>1. Len(batch) \in Nat /\ Len(batch) <= BatchMax /\ batch \in Seq(Requests)
        BY <1>0 DEF WorkerOK
      <3>2. batch # << >> => Tail(batch) \in Seq(Requests) /\ Len(Tail(batch)) = Len(batch) - 1
        BY <3>1, TakenOff
      <3>3. batch # << >> => Len(Tail(batch)) <= BatchMax
        BY <3>1, <3>2
      <3>4. QED
        BY <2>1, <3>1, <3>2, <3>3
    <2>3. QED
      BY <1>0, <2>1, <2>2 DEF WorkerOK
  <1>6. CASE Execute \/ Answered \/ Kill
    <2>1. << >> \in Seq(Requests) /\ Len(<< >>) <= BatchMax
      BY NoneOn
    <2>2. /\ worker' \in {"top", "mark", "off"} /\ batch' \in {batch, << >>}
          /\ scan_in_flight' \in {scan_in_flight, FALSE}
          /\ batches_run' \in {batches_run, batches_run + 1, 0}
      BY <1>6 DEF Execute, Answered, Kill
    <2>3. batch' \in Seq(Requests) /\ Len(batch') <= BatchMax
      BY <1>0, <2>1, <2>2 DEF WorkerOK
    <2>4. scan_in_flight' \in BOOLEAN
      BY <1>0, <2>2, Zenon DEF WorkerOK
    <2>5. batches_run' \in Nat
      <3>1. batches_run \in Nat /\ batches_run + 1 \in Nat
        BY <1>0 DEF WorkerOK
      <3>2. QED
        BY <2>2, <3>1
    <2>6. QED
      BY <2>2, <2>3, <2>4, <2>5 DEF WorkerOK
  <1>7. CASE UNCHANGED vars
    BY <1>0, <1>7 DEF vars, WorkerOK
  <1>8. QED
    BY <1>1, <1>2, <1>3, <1>4, <1>5, <1>6, <1>7, Cases

LEMMA CloserNext == ASSUME IInv, [Next]_vars PROVE CloserOK'
  <1> USE DEF closerVars, CloserMoves
  <1>0. CloserOK
    BY Parts DEF IInv
  <1>1. CASE NodeStep \/ SubmitStep \/ CancelStep \/ Start
    BY <1>0, <1>1 DEF NodeStep, Node, NodeBegins, NodeRejects, NodeFinishes, CallTimesOut,
                      SubmitStep, SubmitChecks, SubmitPuts, CancelStep, Cancel, Start, CloserOK
  <1>2. CASE CloserWalks \/ CloseAborts \/ CloseWakes \/ CloseDrains
    BY <1>0, <1>2 DEF CloserWalks, CloseBegins, CloseStops, CloseLooks, CloseJoins, CloseAborts,
                      CloseWakes, CloseDrains, CloserOK
  <1>3. CASE WalkStep \/ CollectStep \/ CallStart
    BY <1>0, <1>3 DEF WalkStep, LoopTop, Decide, CollectStep, CollectFirst, CollectBacklog,
                      CollectWindow, CallStart, CloserOK
  <1>4. CASE FailBatch \/ Execute \/ Answered \/ UNCHANGED vars
    BY <1>0, <1>4 DEF FailBatch, Execute, Answered, vars, CloserOK
  <1>5. CASE Kill
    BY <1>5 DEF Kill, CloserOK
  <1>6. QED
    BY <1>1, <1>2, <1>3, <1>4, <1>5, Cases

-----------------------------------------------------------------------------
LEMMA PhaseNext == ASSUME IInv, [Next]_vars PROVE Phase'
  <1> USE DEF nodeVars, clientVars, workerVars, closerVars, Calls, Answers
  <1>0. TypeOK /\ Phase
    BY DEF IInv
  <1>1. CASE NodeStep \/ Start \/ CloseAborts
    BY <1>0, <1>1 DEF NodeStep, Node, NodeBegins, NodeRejects, NodeFinishes, CallTimesOut, Start,
                 CloseAborts, AbortHeard, AbortUnheard, Phase
  <1>2. CASE WalkStep \/ CloserWalks \/ CallStart \/ CancelStep \/ SubmitStep
    BY <1>0, <1>2 DEF WalkStep, LoopTop, Decide, CloserWalks, CloseBegins, CloseStops, CloseLooks,
                 CloseJoins, CallStart, WorkerMoves, CancelStep, SubmitStep, Cancel, SubmitChecks,
                 SubmitPuts, Phase
  <1>3. CASE CollectStep \/ FailBatch
    BY <1>0, <1>3 DEF CollectStep, CollectFirst, CollectBacklog, CollectWindow, Take, WorkerMoves,
                 FailBatch, Phase
  <1>4. CASE Execute \/ Answered \/ CloseWakes \/ CloseDrains \/ Kill
    BY <1>0, <1>4 DEF Execute, Answered, CloseWakes, CloseDrains, Kill, Phase
  <1>5. CASE UNCHANGED vars
    BY <1>0, <1>5 DEF vars, Phase
  <1>6. QED
    BY <1>1, <1>2, <1>3, <1>4, <1>5, Cases

LEMMA QuietNext == ASSUME IInv, [Next]_vars PROVE Quiet'
  <1> USE DEF nodeVars, clientVars, workerVars, closerVars, Calls, Answers, NodeHeard
  <1>0. TypeOK /\ Phase /\ Quiet
    BY DEF IInv
  <1>1. CASE NodeStep \/ Start \/ CloseAborts
    BY <1>0, <1>1 DEF NodeStep, Node, NodeBegins, NodeRejects, NodeFinishes, CallTimesOut, Start,
                 CloseAborts, AbortHeard, AbortUnheard, Fault, Phase, Quiet
  <1>2. CASE WalkStep \/ CloserWalks \/ CallStart \/ CancelStep \/ SubmitStep
    BY <1>0, <1>2 DEF WalkStep, LoopTop, Decide, CloserWalks, CloseBegins, CloseStops, CloseLooks,
                 CloseJoins, CallStart, WorkerMoves, CancelStep, SubmitStep, Cancel, SubmitChecks,
                 SubmitPuts, Fault, Phase, Quiet
  <1>3. CASE CollectStep \/ FailBatch
    BY <1>0, <1>3 DEF CollectStep, CollectFirst, CollectBacklog, CollectWindow, Take, WorkerMoves,
                 FailBatch, FailRaises, Fault, Phase, Quiet
  <1>4. CASE Execute \/ Answered \/ CloseWakes \/ CloseDrains \/ Kill
    BY <1>0, <1>4 DEF Execute, Answered, CloseWakes, CloseDrains, FailRaises, Fault, Kill, Phase, Quiet
  <1>5. CASE UNCHANGED vars
    BY <1>0, <1>5 DEF vars, Quiet
  <1>6. QED
    BY <1>1, <1>2, <1>3, <1>4, <1>5, Cases

-----------------------------------------------------------------------------
(* Clients and close() neither begin a request nor give it a result. *)
LEMMA RunsOn ==
  ASSUME ClientOK, QueueOK, WorkerOK, SubmitStep \/ CancelStep \/ FailBatch \/ CloseDrains
  PROVE  \A r \in Requests : /\ future'[r] = "running" <=> future[r] = "running"
                             /\ future'[r] = "result" <=> future[r] = "result"
  <1>1. CASE SubmitStep \/ CancelStep
    BY <1>1 DEF SubmitStep, SubmitChecks, SubmitPuts, CancelStep, Cancel, ClientOK
  <1>2. CASE FailBatch \/ CloseDrains
    <2>1. UNCHANGED future \/ \E x \in Requests \cup {Wake} : FailOne(x) \/ FailRaises(x)
      BY <1>2, TakenOff DEF FailBatch, CloseDrains, QueueOK, WorkerOK
    <2>2. QED
      BY <2>1 DEF FailOne, FailRaises, ClientOK
  <1>3. QED
    BY <1>1, <1>2

LEMMA LiveKept ==
  ASSUME WorkerOK, UNCHANGED batch,
         \A r \in Requests : future'[r] = "running" <=> future[r] = "running"
  PROVE  Asked' = Asked
  <1>1. ToSet(batch) \subseteq Requests
    BY DEF WorkerOK, ToSet
  <1>2. Live' = Live
    BY <1>1 DEF Live
  <1>3. QED
    BY <1>2 DEF Asked

LEMMA AnsweringNext == ASSUME IInv, [Next]_vars PROVE Answering'
  <1> USE DEF nodeVars, Calls, Answers
  <1>0. /\ ClientOK /\ QueueOK /\ WorkerOK /\ Phase /\ Answering
        /\ Asked = {Script[r] : r \in Live}
    BY Parts DEF IInv, Asked
  <1>1. CASE NodeStep \/ CloseAborts
    <2>1. UNCHANGED <<batch, future>> /\ Asked' = Asked
      BY <1>1 DEF NodeStep, Node, NodeBegins, NodeRejects, NodeFinishes, CallTimesOut, CloseAborts,
                  clientVars, workerVars, Asked, Live
    <2>2. QED
      BY <1>0, <1>1, <2>1 DEF NodeStep, Node, NodeBegins, NodeRejects, NodeFinishes, CallTimesOut,
                              CloseAborts, AbortHeard, AbortUnheard, Answering
  <1>2. CASE SubmitStep \/ CancelStep \/ CloseDrains
    <2>1. UNCHANGED <<scan, call, reported, batch>>
      BY <1>2 DEF SubmitStep, SubmitChecks, SubmitPuts, CancelStep, Cancel, CloseDrains, workerVars
    <2>2. Asked' = Asked
      BY <1>0, <1>2, <2>1, RunsOn, LiveKept
    <2>3. QED
      BY <1>0, <2>1, <2>2 DEF Answering
  <1>3. CASE CloserWalks \/ CloseWakes \/ UNCHANGED vars
    <2>1. UNCHANGED <<scan, call, reported, batch, future>>
      BY <1>3 DEF CloserWalks, CloseBegins, CloseStops, CloseLooks, CloseJoins, CloseWakes,
                  clientVars, workerVars, vars
    <2>2. QED
      BY <1>0, <2>1 DEF Answering, Asked, Live
  <1>4. CASE Start \/ WalkStep \/ CollectStep \/ FailBatch \/ Execute
    <2>1. call = "none" /\ call' = "none"
      BY <1>0, <1>4 DEF Start, AbortHeard, AbortUnheard, WalkStep, LoopTop, Decide, CollectStep,
                        CollectFirst, CollectBacklog, CollectWindow, WorkerMoves, FailBatch,
                        Execute, Phase
    <2>2. QED
      BY <2>1 DEF Answering
  <1>5. CASE CallStart \/ Answered \/ Kill
    BY <1>5 DEF CallStart, Answered, Kill, Answering
  <1>6. QED
    BY <1>1, <1>2, <1>3, <1>4, <1>5, Cases

LEMMA OwnNext == ASSUME IInv, [Next]_vars PROVE BaselineIsOwn'
  <1>0. ClientOK /\ QueueOK /\ WorkerOK /\ Answering /\ BaselineIsOwn
    BY Parts DEF IInv
  <1>1. CASE SubmitStep \/ CancelStep \/ FailBatch \/ CloseDrains
    <2>1. UNCHANGED outcome
      BY <1>1 DEF SubmitStep, SubmitChecks, SubmitPuts, CancelStep, Cancel, FailBatch, CloseDrains
    <2>2. QED
      BY <1>0, <1>1, <2>1, RunsOn DEF BaselineIsOwn
  <1>2. CASE Execute \/ Kill
    <2>1. /\ UNCHANGED outcome
          /\ \A r \in Requests : future'[r] = "result" => future[r] = "result"
      BY <1>0, <1>2 DEF Execute, Kill, ClientOK
    <2>2. QED
      BY <1>0, <2>1 DEF BaselineIsOwn
  <1>3. CASE Answered
    <2>1. /\ outcome' = [r \in Requests |-> IF r \in Live /\ call = "success"
                                              THEN reported \cap {Script[r]} ELSE outcome[r]]
          /\ future' = [r \in Requests |-> IF r \notin Live THEN future[r]
                                           ELSE IF call = "success" THEN "result" ELSE "failed"]
      BY <1>3 DEF Answered
    <2>2. SUFFICES ASSUME NEW r \in Requests, future'[r] = "result"
                   PROVE  outcome'[r] = {Script[r]}
      BY DEF BaselineIsOwn
    <2>3. CASE r \in Live
      <3>1. call = "success" /\ outcome'[r] = reported \cap {Script[r]}
        BY <2>1, <2>2, <2>3
      <3>2. Script[r] \in reported
        BY <1>0, <2>3, <3>1 DEF Answering, Asked
      <3>3. QED
        BY <3>1, <3>2
    <2>4. CASE r \notin Live
      BY <1>0, <2>1, <2>2, <2>4 DEF BaselineIsOwn
    <2>5. QED
      BY <2>3, <2>4
  <1>4. CASE NodeStep \/ Start \/ CloserWalks \/ CloseAborts \/ CloseWakes
    BY <1>0, <1>4 DEF NodeStep, Node, NodeBegins, NodeRejects, NodeFinishes, CallTimesOut, Start,
                      CloserWalks, CloseBegins, CloseStops, CloseLooks, CloseJoins, CloseAborts,
                      CloseWakes, clientVars, BaselineIsOwn
  <1>5. CASE WalkStep \/ CollectStep \/ CallStart \/ UNCHANGED vars
    BY <1>0, <1>5 DEF WalkStep, LoopTop, Decide, CollectStep, CollectFirst, CollectBacklog,
                      CollectWindow, CallStart, clientVars, vars, BaselineIsOwn
  <1>6. QED
    BY <1>1, <1>2, <1>3, <1>4, <1>5, Cases

(* A request taken off the queue is put into the batch; only the sentinel is not. *)
LEMMA HeldByTake ==
  ASSUME QueueOK, WorkerOK, Held, worker \notin {"mark", "calling"},
         NEW next \in {"backlog", "window"}, Take(next), UNCHANGED future
  PROVE  Held'
  <1> USE SupervisorAssumption
  <1>1. /\ queue # << >> /\ queue' = Tail(queue) /\ Head(queue) \in Requests \cup {Wake}
        /\ ToSet(queue) = {Head(queue)} \cup ToSet(queue') /\ worker' \notin {"mark", "calling"}
    BY TakenOff DEF Take, QueueOK
  <1>2. CASE Head(queue) = Wake
    BY <1>1, <1>2 DEF Take, Held
  <1>3. CASE Head(queue) # Wake
    <2>1. Head(queue) \in Requests /\ batch' = Append(batch, Head(queue))
      BY <1>1, <1>3 DEF Take
    <2>2. ToSet(batch') = ToSet(batch) \cup {Head(queue)}
      BY <2>1, PutOn DEF WorkerOK
    <2>3. QED
      BY <1>1, <2>2 DEF Held
  <1>4. QED
    BY <1>2, <1>3

LEMMA HeldNext == ASSUME IInv, [Next]_vars PROVE Held'
  <1> USE SupervisorAssumption
  <1>0. ClientOK /\ QueueOK /\ WorkerOK /\ Phase /\ Held
    BY Parts DEF IInv
  <1>1. CASE NodeStep \/ CloserWalks \/ CloseAborts \/ UNCHANGED vars
    BY <1>0, <1>1 DEF NodeStep, Node, NodeBegins, NodeRejects, NodeFinishes, CallTimesOut,
                      CloserWalks, CloseBegins, CloseStops, CloseLooks, CloseJoins, CloseAborts,
                      clientVars, workerVars, vars, Held
  <1>2. CASE Start \/ WalkStep \/ CallStart
    BY <1>0, <1>2 DEF Start, WalkStep, LoopTop, Decide, CallStart, WorkerMoves, clientVars, Held
  <1>3. CASE SubmitStep
    <2>1. PICK r \in Requests : SubmitChecks(r) \/ SubmitPuts(r)
      BY <1>3 DEF SubmitStep
    <2>2. UNCHANGED <<worker, batch>> /\ \A x \in Requests \ {r} : future'[x] = future[x]
      BY <1>0, <2>1 DEF SubmitChecks, SubmitPuts, workerVars, ClientOK
    <2>3. CASE UNCHANGED queue /\ future'[r] \in {"checked", "refused"}
      BY <1>0, <2>2, <2>3 DEF Held
    <2>4. CASE queue' = Append(queue, r) /\ future'[r] = "pending"
      <3>1. ToSet(queue') = ToSet(queue) \cup {r}
        BY <1>0, <2>4, PutOn DEF QueueOK
      <3>2. QED
        BY <1>0, <2>2, <2>4, <3>1 DEF Held
    <2>5. QED
      BY <1>0, <2>1, <2>3, <2>4 DEF SubmitChecks, SubmitPuts, ClientOK
  <1>4. CASE CancelStep
    BY <1>0, <1>4 DEF CancelStep, Cancel, workerVars, ClientOK, Held
  <1>5. CASE CollectStep
    <2>1. CASE UNCHANGED <<queue, batch>>
      BY <1>0, <1>5, <2>1 DEF CollectStep, CollectFirst, CollectBacklog, CollectWindow, Take,
                              WorkerMoves, clientVars, Held
    <2>2. CASE Take("backlog") \/ Take("window")
      BY <1>0, <1>5, <2>2, HeldByTake DEF CollectStep, CollectFirst, CollectBacklog, CollectWindow,
                                          WorkerMoves, clientVars
    <2>3. QED
      BY <1>5, <2>1, <2>2 DEF CollectStep, CollectFirst, CollectBacklog, CollectWindow
  <1>6. CASE FailBatch
    <2>1. CASE batch = << >>
      BY <1>0, <1>6, <2>1 DEF FailBatch, Held
    <2>2. CASE batch # << >>
      <3>1. /\ Head(batch) \in Requests /\ ToSet(batch) = {Head(batch)} \cup ToSet(batch')
            /\ FailOne(Head(batch)) \/ FailRaises(Head(batch))
            /\ worker = "fail" /\ worker' \notin {"mark", "calling"} /\ UNCHANGED queue
        BY <1>0, <1>6, <2>2, TakenOff DEF FailBatch, WorkerOK
      <3>2. QED
        BY <1>0, <3>1, FailedOne DEF Held
    <2>3. QED
      BY <2>1, <2>2
  <1>7. CASE CloseDrains
    <2>1. CASE queue = << >>
      BY <1>0, <1>7, <2>1 DEF CloseDrains, workerVars, Held
    <2>2. CASE queue # << >>
      <3>1. /\ Head(queue) \in Requests \cup {Wake}
            /\ ToSet(queue) = {Head(queue)} \cup ToSet(queue')
            /\ FailOne(Head(queue)) \/ FailRaises(Head(queue))
            /\ UNCHANGED <<worker, batch>>
        BY <1>0, <1>7, <2>2, TakenOff DEF CloseDrains, QueueOK, workerVars
      <3>2. QED
        BY <1>0, <3>1, FailedOne DEF Held
    <2>3. QED
      BY <2>1, <2>2
  <1>8. CASE CloseWakes
    <2>1. /\ UNCHANGED <<future, worker, batch>>
          /\ UNCHANGED queue \/ queue' = Append(queue, Wake)
      BY <1>8 DEF CloseWakes, clientVars, workerVars
    <2>2. ToSet(queue) \subseteq ToSet(queue')
      <3>1. queue \in Seq(Requests \cup {Wake}) /\ Wake \in Requests \cup {Wake}
        BY <1>0 DEF QueueOK
      <3>2. ToSet(Append(queue, Wake)) = ToSet(queue) \cup {Wake}
        BY <3>1, PutOn
      <3>3. QED
        BY <2>1, <3>2
    <2>3. QED
      BY <1>0, <2>1, <2>2 DEF Held
  <1>9. CASE Execute
    BY <1>0, <1>9 DEF Execute, ClientOK, Held
  <1>10. CASE Answered
    <2>1. future' = [r \in Requests |-> IF r \notin Live THEN future[r]
                                      ELSE IF call = "success" THEN "result" ELSE "failed"]
      BY <1>10 DEF Answered
    <2>2. UNCHANGED queue /\ worker = "calling" /\ worker' = "top"
      BY <1>10 DEF Answered
    <2>3. QED
      BY <1>0, <2>1, <2>2 DEF Held, Live
  <1>11. CASE Kill
    BY <1>0, <1>11 DEF Kill, ClientOK, Held
  <1>12. QED
    BY <1>1, <1>2, <1>3, <1>4, <1>5, <1>6, <1>7, <1>8, <1>9, <1>10, <1>11, Cases

(* What close() still owes, when join() is over, is what it finds on the queue. *)
LEMMA ClosingNext == ASSUME IInv, [Next]_vars PROVE Closing'
  <1>0. ClientOK /\ QueueOK /\ WorkerOK /\ CloserOK /\ FaultsOK /\ Phase /\ Held /\ Closing
    BY Parts DEF IInv
  <1>1. faults.kinds \subseteq faults'.kinds
    BY FaultsNext
  <1>2. CASE NodeStep \/ CallStart \/ UNCHANGED vars
    <2>1. /\ UNCHANGED <<future, closer, stopping, early>>
          /\ worker' = worker \/ (worker = "mark" /\ worker' = "calling")
      <3>1. CASE NodeStep
        BY <3>1 DEF NodeStep, Node, NodeBegins, NodeRejects, NodeFinishes, CallTimesOut, clientVars,
                    workerVars, closerVars
      <3>2. CASE CallStart \/ UNCHANGED vars
        BY <3>2 DEF CallStart, WorkerMoves, clientVars, closerVars, vars
      <3>3. QED
        BY <1>2, <3>1, <3>2
    <2>2. QED
      BY <1>0, <1>1, <2>1 DEF Closing
  <1>3. CASE SubmitStep \/ CancelStep
    <2>1. UNCHANGED <<worker, closer, stopping, early>>
      BY <1>3 DEF SubmitStep, SubmitChecks, SubmitPuts, CancelStep, Cancel, workerVars, closerVars
    <2>2. \A r \in early : future[r] # "pending" => future'[r] = future[r]
      BY <1>0, <1>3 DEF SubmitStep, SubmitChecks, SubmitPuts, CancelStep, Cancel, ClientOK, CloserOK,
                        Closing, Settled
    <2>3. \A r \in early : future[r] = "pending" => future'[r] \in {"pending", "cancelled"}
      BY <1>0, <1>3 DEF SubmitStep, SubmitChecks, SubmitPuts, CancelStep, Cancel, ClientOK, CloserOK
    <2>4. QED
      BY <1>0, <1>1, <2>1, <2>2, <2>3 DEF Closing, Settled
  <1>4. CASE Start \/ WalkStep \/ CollectStep
    <2>1. /\ UNCHANGED <<future, closer, stopping, early>> /\ worker # "died"
          /\ worker' # "died"
          /\ worker = "off" => closer = "open"
          /\ worker = "top" => worker' = IF stopping THEN "ended" ELSE "first"
          /\ worker \notin {"calling", "ended"}
      BY <1>4 DEF Start, WalkStep, LoopTop, Decide, CollectStep, CollectFirst, CollectBacklog,
                  CollectWindow, Take, WorkerMoves, clientVars, closerVars
    <2>2. QED
      BY <1>0, <1>1, <2>1 DEF Closing
  <1>5. CASE FailBatch
    <2>1. /\ UNCHANGED <<closer, stopping, early>> /\ worker = "fail"
          /\ worker' = "died" => "cancel" \in faults'.kinds
      BY <1>0, <1>5, Faulted DEF FailBatch, FailRaises, closerVars
    <2>2. UNCHANGED future \/ \E x \in Requests \cup {Wake} : FailOne(x) \/ FailRaises(x)
      BY <1>0, <1>5, TakenOff DEF FailBatch, WorkerOK
    <2>3. \A r \in early : future'[r] \in {future[r], "failed", "cancelled"}
      BY <1>0, <2>2, FailedOne DEF CloserOK
    <2>4. QED
      BY <1>0, <1>1, <2>1, <2>3 DEF Closing, Settled
  <1>6. CASE Execute
    <2>1. UNCHANGED <<closer, stopping, early>> /\ worker = "execute" /\ worker' \in {"top", "mark"}
      BY <1>6 DEF Execute, closerVars
    <2>2. \A r \in early : future'[r] \in {future[r], "running"}
      BY <1>0, <1>6 DEF Execute, CloserOK
    <2>3. QED
      BY <1>0, <1>1, <2>1, <2>2 DEF Closing
  <1>7. CASE Answered
    <2>1. UNCHANGED <<closer, stopping, early>> /\ worker = "calling" /\ worker' = "top"
      BY <1>7 DEF Answered, closerVars
    <2>2. \A r \in early : future'[r] \in {future[r], "result", "failed"}
      BY <1>0, <1>7 DEF Answered, CloserOK
    <2>3. QED
      BY <1>0, <1>1, <2>1, <2>2 DEF Closing, Settled
  <1>8. CASE CloserWalks
    <2>1. CASE CloseBegins
      BY <1>0, <1>1, <2>1 DEF CloseBegins, CloserMoves, clientVars, workerVars, Closing, Settled
    <2>2. CASE CloseStops \/ CloseLooks
      BY <1>0, <1>1, <2>2 DEF CloseStops, CloseLooks, CloserMoves, clientVars, workerVars, Closing
    <2>3. CASE CloseJoins
      <3>1. worker \in {"ended", "died", "calling"}
        BY <1>0, <2>3 DEF CloseJoins, Phase
      <3>2. QED
        BY <1>0, <1>1, <2>3, <3>1 DEF CloseJoins, CloserMoves, clientVars, workerVars, Closing
    <2>4. QED
      BY <1>8, <2>1, <2>2, <2>3 DEF CloserWalks
  <1>9. CASE CloseWakes \/ CloseAborts
    BY <1>0, <1>1, <1>9 DEF CloseWakes, CloseAborts, CloserMoves, clientVars, workerVars, Closing
  <1>10. CASE CloseDrains
    <2>1. UNCHANGED <<worker, batch, stopping, early>> /\ closer = "drain"
      BY <1>10 DEF CloseDrains, workerVars
    <2>2. CASE queue = << >>
      <3>1. closer' = "done" /\ UNCHANGED <<future, faults>>
        BY <1>10, <2>2 DEF CloseDrains
      <3>2. ASSUME "cancel" \notin faults.kinds, NEW r \in early, future[r] = "pending" PROVE FALSE
        <4>1. r \in ToSet(batch) /\ worker \notin {"mark", "calling"}
          BY <1>0, <2>2, <3>2, NoneOn DEF Held, CloserOK
        <4>2. worker \in {"top", "ended"}
          BY <1>0, <2>1, <3>2, <4>1 DEF Closing
        <4>3. QED
          BY <1>0, <4>1, <4>2, NoneOn DEF Phase
      <3>3. QED
        BY <1>0, <2>1, <3>1, <3>2 DEF Closing
    <2>3. CASE queue # << >>
      <3>1. /\ Head(queue) \in Requests \cup {Wake} /\ closer' \in {"drain", "raised"}
            /\ FailOne(Head(queue)) \/ FailRaises(Head(queue))
        BY <1>0, <1>10, <2>1, <2>3, TakenOff DEF CloseDrains, QueueOK
      <3>2. \A r \in early : future'[r] \in {future[r], "failed", "cancelled"}
        BY <1>0, <3>1, FailedOne DEF CloserOK
      <3>3. QED
        BY <1>0, <1>1, <2>1, <3>1, <3>2 DEF Closing, Settled
    <2>4. QED
      BY <2>2, <2>3
  <1>11. CASE Kill
    BY <1>11 DEF Kill, Closing
  <1>12. QED
    BY <1>2, <1>3, <1>4, <1>5, <1>6, <1>7, <1>8, <1>9, <1>10, <1>11, Cases

THEOREM Invariance == Spec => []IInv
  <1>1. IInv /\ [Next]_vars => IInv'
    <2> SUFFICES ASSUME IInv, [Next]_vars PROVE IInv'
      OBVIOUS
    <2>1. NodeOK' /\ ClientOK' /\ QueueOK' /\ WorkerOK' /\ CloserOK' /\ FaultsOK'
      BY NodeNext, ClientNext, QueueNext, WorkerNext, CloserNext, FaultsNext
    <2>2. TypeOK'
      BY <2>1 DEF TypeOK, NodeOK, ClientOK, QueueOK, WorkerOK, CloserOK, FaultsOK
    <2>3. Phase' /\ Answering' /\ BaselineIsOwn' /\ Quiet' /\ Held' /\ Closing'
      BY PhaseNext, AnsweringNext, OwnNext, QuietNext, HeldNext, ClosingNext
    <2>4. QED
      BY <2>2, <2>3 DEF IInv
  <1>2. QED
    BY <1>1, InitIInv, PTL DEF Spec

-----------------------------------------------------------------------------
(* supervisor.py:240-273, 116-139: the queue and the batch keep their bounds, and the *)
(* variables their types, for any requests and any faults.                            *)
THEOREM TypeCorrect == Spec => []TypeOK
  BY Invariance, PTL DEF IInv

(* supervisor.py:9-10: the supervisor never asks for a scan while the node runs one, *)
(* as long as no answer or abort was lost.                                           *)
THEOREM NoOverlap == Spec => []ScansNeverOverlap
  <1>1. IInv => ScansNeverOverlap
    BY DEF IInv, Phase, Quiet, ScansNeverOverlap
  <1>2. QED
    BY <1>1, Invariance, PTL

(* supervisor.py:308-330: a resolved baseline holds the coins of its own script, whatever *)
(* shared the batch.                                                                      *)
THEOREM BaselineStaysOwn == Spec => []BaselineIsOwn
  BY Invariance, PTL DEF IInv

(* supervisor.py:177, 345-357: a close() that returned, and raced no cancel, left none of *)
(* the requests unsettled that were submitted before it, but those of a call that it gave *)
(* up waiting for.                                                                        *)
THEOREM CloseLeavesNone == Spec => []CloseSettles
  <1>1. IInv => CloseSettles
    <2>1. SUFFICES ASSUME IInv, closer = "done", "cancel" \notin faults.kinds, NEW r \in early
                   PROVE  future[r] \in Settled \/ (worker = "calling" /\ r \in Live)
      BY DEF CloseSettles
    <2>2. /\ r \in Requests /\ future[r] \in Settled \cup {"running"}
          /\ worker \in {"calling", "top", "ended", "died"}
      BY <2>1 DEF IInv, TypeOK, Closing
    <2>3. QED
      BY <2>1, <2>2 DEF IInv, Held, Live
  <1>2. QED
    BY <1>1, Invariance, PTL

(* supervisor.py:188-193: when the worker was joined and the node was heard, close() *)
(* leaves the node idle.                                                             *)
THEOREM JoinedIsIdle == Spec => []JoinedLeavesNoScan
  <1>1. IInv => JoinedLeavesNoScan
    BY DEF IInv, Phase, Quiet, JoinedLeavesNoScan
  <1>2. QED
    BY <1>1, Invariance, PTL
=============================================================================
