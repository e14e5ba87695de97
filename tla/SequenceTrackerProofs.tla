----------------------- MODULE SequenceTrackerProofs -----------------------
(***************************************************************************)
(* SequenceTracker for every modulus, margin and set of topics, as long as *)
(* no run of losses reaches the modulus less two (TrackerAssumption); and  *)
(* at the end the order in which the Subscriber hands over its messages.   *)
(***************************************************************************)
EXTENDS SequenceTracker, Subscriber, TLAPS

(* While the publisher has not restarted since a topic's last message, its    *)
(* counter stands exactly the lost messages ahead of it, modulo one wrap.     *)
InStep(t) ==
  /\ reboots = 0 => ~rebooted[t]
  /\ ~rebooted[t] /\ last_seq[t] # NoSeq =>
       \/ next[t] = last_seq[t] + 1 + lost[t]
       \/ next[t] = last_seq[t] + 1 + lost[t] - Modulus

Sync == \A t \in Topics : InStep(t)

CountInv == TypeOK /\ Sync /\ CountIsExact

LEMMA SuccessorType ==
  ASSUME NEW seq \in Numbers
  PROVE  /\ Successor(seq) \in Numbers
         /\ Successor(seq) = seq + 1 \/ Successor(seq) = seq + 1 - Modulus
  BY TrackerAssumption DEF Numbers, Successor

(* What observe answers is always an anomaly it can report. *)
LEMMA ObserveAnswer ==
  ASSUME NEW last \in Numbers \cup {NoSeq}, NEW seq \in Numbers
  PROVE  KindOf(last, seq) \in Kinds /\ MissingOf(last, seq) \in Nat
  <1>1. KindOf(last, seq) \in Kinds
    BY DEF KindOf, Kinds
  <1>2. MissingOf(last, seq) \in Nat
    BY TrackerAssumption DEF MissingOf, KindOf, Wraps, Numbers, NoSeq
  <1>3. QED
    BY <1>1, <1>2

(* A publisher in step: the number that arrives tells the loss apart from a    *)
(* clean message and from a repeat, and a gap that is reported is exact.       *)
LEMMA ObserveInStep ==
  ASSUME NEW last \in Numbers, NEW seq \in Numbers, NEW run \in 0 .. MaxRun,
         seq = last + 1 + run \/ seq = last + 1 + run - Modulus
  PROVE  /\ run > 0 => KindOf(last, seq) \in {"gap", "restart"}
         /\ KindOf(last, seq) # "restart" => MissingOf(last, seq) = run
         /\ MissingOf(last, seq) <= run
         /\ run < WrapMargin => KindOf(last, seq) # "restart"
  <1> USE TrackerAssumption DEF Numbers, NoSeq
  <1>1. CASE seq = last + 1 + run
    BY <1>1 DEF KindOf, MissingOf, Wraps
  <1>2. CASE seq = last + 1 + run - Modulus
    <2>1. seq < last /\ seq # last + 1
      BY <1>2
    <2>2. run < WrapMargin => Wraps(last, seq)
      BY <1>2 DEF Wraps
    <2>3. QED
      BY <1>2, <2>1, <2>2 DEF KindOf, MissingOf
  <1>3. QED
    BY <1>1, <1>2

LEMMA InitCountInv == Init => CountInv
  <1> SUFFICES ASSUME Init PROVE CountInv
    OBVIOUS
  <1>1. TypeOK
    <2>1. 0 \in 0 .. MaxRun
      BY TrackerAssumption
    <2>2. lost \in [Topics -> 0 .. MaxRun] /\ lostBefore \in [Topics -> Nat]
      BY <2>1 DEF Init
    <2>3. last_seq \in [Topics -> Numbers \cup {NoSeq}]
      BY DEF Init
    <2>4. /\ missing_total \in [Topics -> Nat] /\ restarts \in [Topics -> Nat]
          /\ steps \in [Topics -> Nat] /\ reboots \in Nat
      BY DEF Init
    <2>5. anomaly \in [kind : Kinds, missing : Nat]
      BY DEF Init, Kinds
    <2>6. rebooted \in [Topics -> BOOLEAN]
      BY DEF Init
    <2>7. QED
      BY <2>2, <2>3, <2>4, <2>5, <2>6 DEF Init, TypeOK
  <1>2. Sync /\ CountIsExact
    BY DEF Init, Sync, InStep, CountIsExact
  <1>3. QED
    BY <1>1, <1>2 DEF CountInv

(* The type of what observe assigns. *)
LEMMA ObserveType ==
  ASSUME TypeOK, NEW t \in Topics, NEW seq \in Numbers, Observe(t, seq)
  PROVE  /\ last_seq' \in [Topics -> Numbers \cup {NoSeq}]
         /\ anomaly' \in [kind : Kinds, missing : Nat]
         /\ missing_total' \in [Topics -> Nat] /\ restarts' \in [Topics -> Nat]
         /\ needs_reconciliation' \in BOOLEAN
  <1>1. /\ KindOf(last_seq[t], seq) \in Kinds
        /\ MissingOf(last_seq[t], seq) \in Nat
    BY ObserveAnswer DEF TypeOK
  <1>2. QED
    BY <1>1 DEF TypeOK, Observe

LEMMA DeliverCountInv ==
  ASSUME CountInv, NEW t \in Topics, Deliver(t)
  PROVE  CountInv'
  <1> USE DEF CountInv
  <1>1. next[t] \in Numbers /\ Observe(t, next[t])
    BY DEF TypeOK, Deliver
  <1>2. /\ next' = [next EXCEPT ![t] = Successor(next[t])]
        /\ next' \in [Topics -> Numbers] /\ steps' \in [Topics -> Nat]
        /\ reboots' = reboots
    BY <1>1, SuccessorType DEF TypeOK, Deliver, Publish
  <1>3. /\ lost' = [lost EXCEPT ![t] = 0]
        /\ rebooted' = [rebooted EXCEPT ![t] = FALSE]
        /\ lost' \in [Topics -> 0 .. MaxRun] /\ rebooted' \in [Topics -> BOOLEAN]
    BY TrackerAssumption DEF TypeOK, Deliver
  <1>4. lostBefore' \in [Topics -> Nat] /\ unrepaired' \in BOOLEAN
    <2>1. lost[t] \in Nat /\ lostBefore \in [Topics -> Nat] /\ unrepaired \in BOOLEAN
      BY TrackerAssumption DEF TypeOK
    <2>2. CASE last_seq[t] = NoSeq
      BY <2>1, <2>2 DEF Deliver
    <2>3. CASE last_seq[t] # NoSeq
      <3>1. lostBefore' = [lostBefore EXCEPT ![t] = @ + lost[t]]
            /\ unrepaired' = (unrepaired \/ lost[t] > 0 \/ rebooted[t])
        BY <2>3 DEF Deliver
      <3>2. lostBefore' \in [Topics -> Nat]
        BY <2>1, <3>1
      <3>3. unrepaired' \in BOOLEAN
        BY <3>1
      <3>4. QED
        BY <3>2, <3>3
    <2>4. QED
      BY <2>2, <2>3
  <1>5. TypeOK'
    <2>1. /\ last_seq' \in [Topics -> Numbers \cup {NoSeq}]
          /\ anomaly' \in [kind : Kinds, missing : Nat]
          /\ missing_total' \in [Topics -> Nat] /\ restarts' \in [Topics -> Nat]
          /\ needs_reconciliation' \in BOOLEAN
      BY <1>1, ObserveType
    <2>2. QED
      BY <1>2, <1>3, <1>4, <2>1 DEF TypeOK
  <1>6. last_seq' = [last_seq EXCEPT ![t] = next[t]]
    BY <1>1 DEF Observe
  <1>7. Sync'
    <2> SUFFICES ASSUME NEW u \in Topics PROVE InStep(u)'
      BY DEF Sync
    <2>0. InStep(u)
      BY <1>2 DEF Sync
    <2>1. CASE u = t
      <3>1. /\ last_seq'[u] = next[t] /\ next'[u] = Successor(next[t])
            /\ lost'[u] = 0 /\ ~rebooted'[u]
        BY <1>2, <1>3, <1>6, <2>1 DEF TypeOK
      <3>2. \/ Successor(next[t]) = next[t] + 1
            \/ Successor(next[t]) = next[t] + 1 - Modulus
        BY <1>1, SuccessorType
      <3>3. next[t] \in Int /\ Modulus \in Int
        BY <1>1, TrackerAssumption DEF Numbers
      <3>4. QED
        BY <3>1, <3>2, <3>3 DEF InStep
    <2>2. CASE u # t
      BY <1>2, <1>3, <1>6, <2>0, <2>2 DEF InStep, TypeOK
    <2>3. QED
      BY <2>1, <2>2
  <1>8. CountIsExact'
    <2> SUFFICES ASSUME reboots' = 0, NEW u \in Topics
                 PROVE  /\ missing_total'[u] <= lostBefore'[u]
                        /\ restarts'[u] = 0 => missing_total'[u] = lostBefore'[u]
      BY DEF CountIsExact
    <2>1. /\ missing_total[u] <= lostBefore[u]
          /\ restarts[u] = 0 => missing_total[u] = lostBefore[u]
          /\ missing_total[u] \in Nat /\ lostBefore[u] \in Nat /\ restarts[u] \in Nat
      BY <1>2 DEF CountIsExact, TypeOK
    <2>2. CASE u # t
      BY <1>1, <2>1, <2>2 DEF Observe, Deliver, TypeOK
    <2>3. CASE u = t /\ last_seq[t] = NoSeq
      <3>1. KindOf(last_seq[t], next[t]) = "none" /\ MissingOf(last_seq[t], next[t]) = 0
        BY <2>3 DEF KindOf, MissingOf
      <3>2. QED
        BY <1>1, <2>1, <2>3, <3>1 DEF Observe, Deliver, TypeOK
    <2>4. CASE u = t /\ last_seq[t] # NoSeq
      <3> DEFINE kind == KindOf(last_seq[t], next[t])
                 missing == MissingOf(last_seq[t], next[t])
      <3>1. /\ last_seq[t] \in Numbers /\ lost[t] \in 0 .. MaxRun
            /\ \/ next[t] = last_seq[t] + 1 + lost[t]
               \/ next[t] = last_seq[t] + 1 + lost[t] - Modulus
        BY <1>2, <2>4 DEF Sync, InStep, TypeOK
      <3>2. (kind # "restart" => missing = lost[t]) /\ missing <= lost[t]
        BY <1>1, <3>1, ObserveInStep
      <3>3. missing \in Nat
        BY <1>1, <3>1, ObserveAnswer
      <3>4. /\ missing_total'[u] = missing_total[u] + missing
            /\ restarts'[u] = IF kind = "restart" THEN restarts[u] + 1 ELSE restarts[u]
        BY <1>1, <2>4 DEF Observe, TypeOK
      <3>5. lostBefore'[u] = lostBefore[u] + lost[t] /\ lost[t] \in Nat
        BY <2>4, <3>1, TrackerAssumption DEF Deliver, TypeOK
      <3> HIDE DEF kind, missing
      <3>6. QED
        BY <2>1, <3>2, <3>3, <3>4, <3>5
    <2>5. QED
      BY <2>2, <2>3, <2>4
  <1>9. QED
    BY <1>5, <1>7, <1>8

LEMMA LoseCountInv ==
  ASSUME CountInv, NEW t \in Topics, Lose(t)
  PROVE  CountInv'
  <1> USE DEF CountInv
  <1>1. next[t] \in Numbers /\ lost[t] \in 0 .. MaxRun /\ lost[t] + 1 \in 0 .. MaxRun
    BY TrackerAssumption DEF TypeOK, Lose
  <1>2. /\ next' = [next EXCEPT ![t] = Successor(next[t])]
        /\ lost' = [lost EXCEPT ![t] = lost[t] + 1]
        /\ reboots' = reboots
        /\ UNCHANGED <<tracker, lostBefore, rebooted, unrepaired>>
    BY DEF Lose, Publish
  <1>3. next' \in [Topics -> Numbers] /\ lost' \in [Topics -> 0 .. MaxRun]
        /\ steps' \in [Topics -> Nat]
    BY <1>1, <1>2, SuccessorType DEF TypeOK, Lose, Publish
  <1>4. TypeOK'
    BY <1>2, <1>3 DEF TypeOK, tracker
  <1>5. CountIsExact'
    BY <1>2 DEF CountIsExact, tracker
  <1>6. Sync'
    <2> SUFFICES ASSUME NEW u \in Topics PROVE InStep(u)'
      BY DEF Sync
    <2>0. InStep(u)
      BY <1>2 DEF Sync
    <2>1. CASE u # t
      BY <1>2, <2>0, <2>1 DEF InStep, TypeOK, tracker
    <2>2. CASE u = t
      <3>1. /\ next'[u] = Successor(next[t]) /\ lost'[u] = lost[t] + 1
            /\ last_seq'[u] = last_seq[t] /\ rebooted'[u] = rebooted[t]
            /\ reboots' = reboots
        BY <1>2, <2>0, <2>2 DEF TypeOK, tracker, InStep
      <3> SUFFICES ASSUME last_seq[t] # NoSeq, ~rebooted[t]
                   PROVE  \/ next'[u] = last_seq[t] + 1 + (lost[t] + 1)
                          \/ next'[u] = last_seq[t] + 1 + (lost[t] + 1) - Modulus
        BY <2>0, <2>2, <3>1 DEF InStep
      <3>2. \/ next[t] = last_seq[t] + 1 + lost[t]
            \/ next[t] = last_seq[t] + 1 + lost[t] - Modulus
        BY <2>0, <2>2 DEF InStep
      <3>3. last_seq[t] \in Numbers
        BY DEF TypeOK
      <3>4. QED
        BY <1>1, <3>1, <3>2, <3>3, TrackerAssumption DEF Successor, Numbers
    <2>3. QED
      BY <2>1, <2>2
  <1>7. QED
    BY <1>4, <1>5, <1>6

LEMMA RepeatCountInv ==
  ASSUME CountInv, NEW t \in Topics, Repeat(t)
  PROVE  CountInv'
  <1> USE DEF CountInv
  <1>1. last_seq[t] \in Numbers /\ Observe(t, last_seq[t])
    BY DEF TypeOK, Repeat
  <1>2. KindOf(last_seq[t], last_seq[t]) = "duplicate"
        /\ MissingOf(last_seq[t], last_seq[t]) = 0
    BY <1>1 DEF KindOf, MissingOf, Numbers, NoSeq
  <1>3. last_seq' = last_seq /\ missing_total' = missing_total /\ restarts' = restarts
    BY <1>1, <1>2 DEF Observe, TypeOK
  <1>4. TypeOK'
    <2>1. /\ anomaly' \in [kind : Kinds, missing : Nat]
          /\ needs_reconciliation' \in BOOLEAN
      BY <1>1, ObserveType
    <2>2. QED
      BY <1>3, <2>1 DEF TypeOK, Repeat, publisher, ghosts
  <1>5. Sync' /\ CountIsExact'
    BY <1>3 DEF Sync, InStep, CountIsExact, Repeat, publisher, ghosts
  <1>6. QED
    BY <1>4, <1>5

LEMMA NextCountInv == CountInv /\ [Next]_vars => CountInv'
  <1> SUFFICES ASSUME CountInv, [Next]_vars PROVE CountInv'
    OBVIOUS
  <1>1. CASE \E t \in Topics : Deliver(t) \/ Lose(t) \/ Repeat(t)
    BY <1>1, DeliverCountInv, LoseCountInv, RepeatCountInv
  <1>2. CASE PublisherRestarts
    <2>1. /\ next' \in [Topics -> Numbers] /\ reboots' \in Nat /\ reboots' # 0
          /\ \A t \in Topics : rebooted'[t]
      BY <1>2, TrackerAssumption DEF PublisherRestarts, CountInv, TypeOK, Numbers
    <2>2. TypeOK'
      BY <1>2, <2>1 DEF PublisherRestarts, CountInv, TypeOK, tracker
    <2>3. QED
      BY <2>1, <2>2 DEF CountInv, Sync, InStep, CountIsExact
  <1>3. CASE FlagForReconciliation
    BY <1>3 DEF FlagForReconciliation, publisher, ghosts, CountInv, TypeOK, Sync,
                InStep, CountIsExact
  <1>4. CASE Reconciled
    BY <1>4 DEF Reconciled, publisher, CountInv, TypeOK, Sync, InStep, CountIsExact
  <1>5. CASE UNCHANGED vars
    BY <1>5 DEF vars, CountInv, TypeOK, Sync, InStep, CountIsExact
  <1>6. QED
    BY <1>1, <1>2, <1>3, <1>4, <1>5 DEF Next

(* For every modulus and margin, while the publisher has not restarted, the   *)
(* tracker's count is the exact loss of each topic, or a lower bound of it    *)
(* once a loss at the wrap was read as a restart.                             *)
THEOREM CountStaysExact == Spec => [](TypeOK /\ CountIsExact)
  <1>1. CountInv => TypeOK /\ CountIsExact
    BY DEF CountInv
  <1>2. QED
    BY <1>1, InitCountInv, NextCountInv, PTL DEF Spec

(* The counter in step, the flag. *)
FlagInv == CountInv /\ LossIsFlagged

LEMMA NextFlagInv == FlagInv /\ [Next]_vars => FlagInv'
  <1> SUFFICES ASSUME FlagInv, [Next]_vars PROVE LossIsFlagged'
    BY NextCountInv DEF FlagInv
  <1>1. ASSUME NEW t \in Topics, Deliver(t) PROVE LossIsFlagged'
    <2> SUFFICES ASSUME reboots' = 0, unrepaired' PROVE needs_reconciliation'
      BY DEF LossIsFlagged
    <2>1. reboots = 0 /\ (unrepaired => needs_reconciliation)
      BY <1>1 DEF Deliver, Publish, FlagInv, LossIsFlagged
    <2>2. CASE last_seq[t] = NoSeq
      BY <1>1, <2>1, <2>2 DEF Deliver, Observe
    <2>3. CASE last_seq[t] # NoSeq
      <3>1. /\ last_seq[t] \in Numbers /\ next[t] \in Numbers /\ lost[t] \in 0 .. MaxRun
            /\ ~rebooted[t]
            /\ \/ next[t] = last_seq[t] + 1 + lost[t]
               \/ next[t] = last_seq[t] + 1 + lost[t] - Modulus
        BY <2>1, <2>3 DEF FlagInv, CountInv, TypeOK, Sync, InStep
      <3>2. lost[t] > 0 => KindOf(last_seq[t], next[t]) \in {"gap", "restart"}
        BY <3>1, ObserveInStep
      <3>3. needs_reconciliation' =
              (needs_reconciliation \/ KindOf(last_seq[t], next[t]) \in {"gap", "restart"})
        BY <1>1 DEF Deliver, Observe
      <3>4. unrepaired' = (unrepaired \/ lost[t] > 0 \/ rebooted[t])
        BY <1>1, <2>3 DEF Deliver
      <3>5. QED
        BY <2>1, <3>1, <3>2, <3>3, <3>4
    <2>4. QED
      BY <2>2, <2>3
  <1>2. ASSUME NEW t \in Topics, Lose(t) \/ Repeat(t) PROVE LossIsFlagged'
    <2>1. reboots' = reboots /\ unrepaired' = unrepaired
      BY <1>2 DEF Lose, Publish, Repeat, publisher, ghosts
    <2>2. needs_reconciliation => needs_reconciliation'
      BY <1>2 DEF Lose, Repeat, Observe, tracker
    <2>3. QED
      BY <2>1, <2>2 DEF FlagInv, LossIsFlagged
  <1>3. CASE PublisherRestarts
    BY <1>3 DEF PublisherRestarts, FlagInv, CountInv, TypeOK, LossIsFlagged
  <1>4. CASE FlagForReconciliation \/ Reconciled
    BY <1>4 DEF FlagForReconciliation, Reconciled, LossIsFlagged, publisher
  <1>5. CASE UNCHANGED vars
    BY <1>5 DEF vars, FlagInv, LossIsFlagged
  <1>6. QED
    BY <1>1, <1>2, <1>3, <1>4, <1>5 DEF Next

(* A publisher that does not restart cannot lose a message that is followed   *)
(* by another without the flag being set, and nothing but a repair clears it. *)
THEOREM LossStaysFlagged == Spec => []LossIsFlagged
  <1>1. Init => FlagInv
    BY InitCountInv DEF Init, FlagInv, LossIsFlagged
  <1>2. FlagInv => LossIsFlagged
    BY DEF FlagInv
  <1>3. QED
    BY <1>1, <1>2, NextFlagInv, PTL DEF Spec

(* A loss smaller than the margin: the number that arrives is in step, so it is  *)
(* a gap, or nothing, at whatever place of the counter.                          *)
THEOREM SmallLossStaysGap == Spec => SmallLossIsNoRestart
  <1>1. CountInv /\ [Next]_vars =>
          [\A t \in Topics : Deliver(t) /\ ~rebooted[t] /\ lost[t] < WrapMargin
             => anomaly'.kind # "restart"]_vars
    <2> SUFFICES ASSUME CountInv, NEW t \in Topics, Deliver(t), ~rebooted[t],
                        lost[t] < WrapMargin
                 PROVE  anomaly'.kind # "restart"
      OBVIOUS
    <2>1. anomaly'.kind = KindOf(last_seq[t], next[t])
      BY DEF Deliver, Observe
    <2>2. CASE last_seq[t] = NoSeq
      BY <2>1, <2>2 DEF KindOf
    <2>3. CASE last_seq[t] # NoSeq
      <3>1. /\ last_seq[t] \in Numbers /\ next[t] \in Numbers /\ lost[t] \in 0 .. MaxRun
            /\ \/ next[t] = last_seq[t] + 1 + lost[t]
               \/ next[t] = last_seq[t] + 1 + lost[t] - Modulus
        BY <2>3 DEF CountInv, TypeOK, Sync, InStep
      <3>2. QED
        BY <2>1, <3>1, ObserveInStep
    <2>4. QED
      BY <2>2, <2>3
  <1>2. QED
    BY <1>1, InitCountInv, NextCountInv, PTL DEF Spec, SmallLossIsNoRestart

-----------------------------------------------------------------------------
(* What hands the tracker its messages: the order in which the Subscriber drains its *)
(* sockets, for any bound on what they hold and any number of exceptions.            *)

LoopShape ==
  /\ socket \in Sockets /\ ready \in SUBSET Sockets
  /\ queue \in [Sockets -> Seq(Envelopes)]
  /\ waiting \in Nat

Draining == pc \in {"drain", "handle", "again"}

(* A socket that is taken to be readable is: but for the one in hand, which is asked again. *)
Readable ==
  /\ pc = "drain" => \A t \in ready : queue[t] # << >>
  /\ pc \in {"handle", "again"} => socket \in ready /\ \A t \in ready \ {socket} : queue[t] # << >>

(* The blocks that waited at the poll are still there, and their socket is not left *)
(* before they are taken.                                                           *)
Counted ==
  /\ Draining => waiting <= Len(queue["rawblock"])
  /\ Draining /\ socket = "rawtx" => waiting = 0
  /\ pc = "drain" /\ waiting > 0 => "rawblock" \in ready

LoopInv == LoopShape /\ Readable /\ Counted

LEMMA LoopInitInv == LoopInit => LoopInv
  BY DEF LoopInit, LoopInv, LoopShape, Readable, Counted, Draining, Sockets

(* A message that arrives makes no queue shorter. *)
LEMMA ArriveInv == ASSUME LoopInv, NEW t \in Sockets, Arrive(t) PROVE LoopInv'
  <1>1. PICK e \in Envelopes : queue' = [queue EXCEPT ![t] = Append(@, e)]
    BY DEF Arrive
  <1>2. /\ queue' \in [Sockets -> Seq(Envelopes)]
        /\ \A u \in Sockets : Len(queue'[u]) >= Len(queue[u]) /\ (queue[u] # << >> => queue'[u] # << >>)
    BY <1>1 DEF LoopInv, LoopShape
  <1>3. UNCHANGED <<pc, socket, ready, waiting>>
    BY DEF Arrive
  <1>4. LoopShape' /\ Readable'
    BY <1>2, <1>3 DEF LoopInv, LoopShape, Readable
  <1>5. Len(queue'["rawblock"]) \in Nat /\ Len(queue["rawblock"]) \in Nat /\ waiting \in Nat
    BY <1>2 DEF LoopInv, LoopShape, Sockets
  <1>6. Len(queue'["rawblock"]) >= Len(queue["rawblock"])
    BY <1>2 DEF Sockets
  <1>7. Counted'
    BY <1>3, <1>5, <1>6 DEF LoopInv, Counted, Draining
  <1>8. QED
    BY <1>4, <1>7 DEF LoopInv

(* The blocks counted are those that the poll found. *)
LEMMA PollInv == ASSUME LoopInv, Poll PROVE LoopInv'
  BY DEF Poll, LoopInv, LoopShape, Readable, Counted, Draining, Sockets

LEMMA ReceiveInv == ASSUME LoopInv, Receive PROVE LoopInv'
  <1>1. /\ pc = "drain" /\ socket \in ready /\ socket \in Sockets /\ queue[socket] # << >>
        /\ queue' = [queue EXCEPT ![socket] = Tail(@)] /\ pc' \in {"handle", "again"}
        /\ UNCHANGED <<socket, ready>>
    BY DEF Receive, LoopInv, LoopShape, Readable
  <1>2. /\ queue' \in [Sockets -> Seq(Envelopes)]
        /\ Len(queue'[socket]) = Len(queue[socket]) - 1
        /\ \A u \in Sockets \ {socket} : queue'[u] = queue[u]
    BY <1>1 DEF LoopInv, LoopShape
  <1>3. waiting' = IF socket = "rawblock" /\ waiting > 0 THEN waiting - 1 ELSE waiting
    BY DEF Receive
  <1>4. LoopShape' /\ Readable'
    BY <1>1, <1>2, <1>3 DEF LoopInv, LoopShape, Readable
  <1>5. /\ Len(queue["rawblock"]) \in Nat /\ Len(queue[socket]) \in Nat
        /\ Len(queue'["rawblock"]) \in Nat /\ waiting \in Nat
    BY <1>1, <1>2 DEF LoopInv, LoopShape, Sockets
  <1>6. waiting <= Len(queue["rawblock"]) /\ (socket = "rawtx" => waiting = 0)
    BY <1>1 DEF LoopInv, Counted, Draining
  <1>7. Counted'
    <2>1. CASE socket = "rawblock"
      BY <1>1, <1>2, <1>3, <1>5, <1>6, <2>1 DEF Counted, Draining
    <2>2. CASE socket = "rawtx"
      BY <1>1, <1>2, <1>3, <1>5, <1>6, <2>2 DEF Counted, Draining
    <2>3. QED
      BY <1>1, <2>1, <2>2 DEF Sockets
  <1>8. QED
    BY <1>4, <1>7 DEF LoopInv

LEMMA AgainInv == ASSUME LoopInv, Again PROVE LoopInv'
  <1>1. /\ pc = "again" /\ pc' = "drain" /\ UNCHANGED <<socket, queue, waiting>>
        /\ ready' = IF queue[socket] = << >> THEN ready \ {socket} ELSE ready
    BY DEF Again
  <1>2. LoopShape' /\ Readable'
    BY <1>1 DEF LoopInv, LoopShape, Readable
  <1>3. queue["rawblock"] = << >> => Len(queue["rawblock"]) = 0
    OBVIOUS
  <1>4. CASE socket = "rawtx"
    BY <1>1, <1>2, <1>4 DEF LoopInv, LoopShape, Counted, Draining
  <1>5. CASE socket = "rawblock"
    BY <1>1, <1>2, <1>3, <1>5 DEF LoopInv, LoopShape, Readable, Counted, Draining
  <1>6. QED
    BY <1>2, <1>4, <1>5 DEF LoopInv, LoopShape, Sockets

(* The other socket is turned to when none of the blocks is left. *)
LEMMA DrainedInv == ASSUME LoopInv, Drained PROVE LoopInv'
  BY DEF Drained, LoopInv, LoopShape, Readable, Counted, Draining, Sockets

LEMMA LoopNextInv == LoopInv /\ [LoopNext]_loopVars => LoopInv'
  <1> SUFFICES ASSUME LoopInv, [LoopNext]_loopVars PROVE LoopInv'
    OBVIOUS
  <1>1. ASSUME NEW t \in Sockets, Arrive(t) PROVE LoopInv'
    BY <1>1, ArriveInv
  <1>2. CASE Poll \/ Receive \/ Again \/ Drained
    BY <1>2, PollInv, ReceiveInv, AgainInv, DrainedInv
  <1>3. CASE CallRun \/ Clear \/ Test \/ Stop
    BY <1>3 DEF CallRun, Clear, Test, Stop, Outside,
                LoopInv, LoopShape, Readable, Counted, Draining
  <1>4. CASE Handle
    BY <1>4 DEF Handle, LoopInv, LoopShape, Readable, Counted, Draining
  <1>5. CASE Exit
    BY <1>5 DEF Exit, LoopInv, LoopShape, Readable, Counted, Draining
  <1>6. CASE UNCHANGED loopVars
    BY <1>6 DEF loopVars, LoopInv, LoopShape, Readable, Counted, Draining
  <1>7. QED
    BY <1>1, <1>2, <1>3, <1>4, <1>5, <1>6 DEF LoopNext, Thread

(* subscribe.py:109-110: a transaction is handled only when every block that waited at *)
(* the poll has been taken.                                                            *)
THEOREM BlocksComeFirst == LoopSpec => []BlocksFirst
  <1>1. LoopInv => BlocksFirst
    BY DEF LoopInv, Counted, Draining, BlocksFirst
  <1>2. QED
    BY <1>1, LoopInitInv, LoopNextInv, PTL DEF LoopSpec
=============================================================================
