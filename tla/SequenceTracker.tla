-------------------------- MODULE SequenceTracker --------------------------
(***************************************************************************)
(* match.sequence.SequenceTracker and the publisher it watches.            *)
(*                                                                         *)
(* The publisher numbers its messages per topic, modulo Modulus (2^32 in   *)
(* the code, small here).  Messages are lost without a trace, may be       *)
(* delivered twice, and the publisher may restart and count from 0 again.  *)
(* What was really lost is kept in ghost variables the tracker cannot see. *)
(***************************************************************************)
EXTENDS Integers

CONSTANTS
  Topics,       \* rawtx and rawblock: one counter each
  Modulus,      \* UINT32
  WrapMargin,   \* WRAP_MARGIN
  MaxRun,       \* the longest run of messages lost on a topic between two that arrive
  MaxSteps,     \* bound: messages published on a topic
  MaxRestarts   \* bound: restarts of the publisher

ASSUME TrackerAssumption ==
  /\ Modulus \in Nat /\ WrapMargin \in Nat /\ MaxRun \in Nat
  /\ MaxRun + 2 <= Modulus
  /\ MaxSteps \in Nat /\ MaxRestarts \in Nat

Numbers == 0 .. Modulus - 1
NoSeq == -1    \* last_seq is None
Kinds == {"none", "gap", "restart", "duplicate"}

VARIABLES
  next,       \* publisher: the number of the next message of each topic
  last_seq,   \* TopicState.last_seq
  missing_total,  \* TopicState.missing_total
  restarts,       \* TopicState.restarts
  needs_reconciliation,
  anomaly,    \* what the last call of observe returned; kind "none" is None
  lost,       \* ghost: messages lost on each topic since the last one received
  lostBefore, \* ghost: messages lost on each topic before the last one received
  rebooted,   \* ghost: the publisher restarted since the last message of the topic
  unrepaired, \* ghost: a message arrived after a loss, and no repair has run since
  steps, reboots  \* what the bounds count

publisher == <<next, steps, reboots>>
tracker == <<last_seq, missing_total, restarts, needs_reconciliation, anomaly>>
ghosts == <<lost, lostBefore, rebooted, unrepaired>>
vars == <<next, last_seq, missing_total, restarts, needs_reconciliation, anomaly,
          lost, lostBefore, rebooted, unrepaired, steps, reboots>>

Init ==
  /\ next \in [Topics -> Numbers]
  /\ last_seq = [t \in Topics |-> NoSeq]
  /\ missing_total = [t \in Topics |-> 0] /\ restarts = [t \in Topics |-> 0]
  /\ needs_reconciliation = FALSE
  /\ anomaly = [kind |-> "none", missing |-> 0]
  /\ lost = [t \in Topics |-> 0] /\ lostBefore = [t \in Topics |-> 0]
  /\ rebooted = [t \in Topics |-> FALSE]
  /\ unrepaired = FALSE
  /\ steps = [t \in Topics |-> 0] /\ reboots = 0

-----------------------------------------------------------------------------
(* observe(topic, seq). *)

(* Seeded fault: the margin is one number short. *)
Wraps_short(last, seq) == seq < last /\ last > Modulus - WrapMargin /\ seq < WrapMargin

(* The counter went backwards, but only because it ran out of numbers. *)
Wraps(last, seq) == seq < last /\ last >= Modulus - WrapMargin /\ seq < WrapMargin

KindOf(last, seq) ==
  IF last = NoSeq \/ seq = last + 1 THEN "none"
  ELSE IF seq = last THEN "duplicate"
  ELSE IF seq > last \/ Wraps(last, seq) THEN "gap"
  ELSE "restart"

(* Seeded fault: the count is one too high. *)
MissingOf_inclusive(last, seq) ==
  IF KindOf(last, seq) # "gap" THEN 0
  ELSE IF seq > last THEN seq - last
  ELSE seq + Modulus - last

MissingOf(last, seq) ==
  IF KindOf(last, seq) # "gap" THEN 0
  ELSE IF seq > last THEN seq - last - 1
  ELSE seq + Modulus - last - 1

(* Seeded fault: a clean message overwrites the flag. *)
Observe_overwrites(t, seq) ==
  LET kind == KindOf(last_seq[t], seq)
      missing == MissingOf(last_seq[t], seq)
  IN  /\ last_seq' = [last_seq EXCEPT ![t] = seq]
      /\ anomaly' = [kind |-> kind, missing |-> missing]
      /\ missing_total' = [missing_total EXCEPT ![t] = @ + missing]
      /\ restarts' = [restarts EXCEPT ![t] = IF kind = "restart" THEN @ + 1 ELSE @]
      /\ needs_reconciliation' = (kind \in {"gap", "restart"})

Observe(t, seq) ==
  LET kind == KindOf(last_seq[t], seq)
      missing == MissingOf(last_seq[t], seq)
  IN  /\ last_seq' = [last_seq EXCEPT ![t] = seq]
      /\ anomaly' = [kind |-> kind, missing |-> missing]
      /\ missing_total' = [missing_total EXCEPT ![t] = @ + missing]
      /\ restarts' = [restarts EXCEPT ![t] = IF kind = "restart" THEN @ + 1 ELSE @]
      /\ needs_reconciliation' = (needs_reconciliation \/ kind \in {"gap", "restart"})

-----------------------------------------------------------------------------
(* The publisher and the transport. *)

Successor(seq) == IF seq + 1 = Modulus THEN 0 ELSE seq + 1

Publish(t) ==
  /\ steps[t] < MaxSteps
  /\ steps' = [steps EXCEPT ![t] = @ + 1]
  /\ next' = [next EXCEPT ![t] = Successor(@)]
  /\ UNCHANGED reboots

(* The next message of a topic arrives and is observed. *)
Deliver(t) ==
  /\ Publish(t)
  /\ Observe(t, next[t])
  /\ IF last_seq[t] = NoSeq
       THEN UNCHANGED <<lostBefore, unrepaired>>
       ELSE /\ lostBefore' = [lostBefore EXCEPT ![t] = @ + lost[t]]
            /\ unrepaired' = (unrepaired \/ lost[t] > 0 \/ rebooted[t])
  /\ lost' = [lost EXCEPT ![t] = 0]
  /\ rebooted' = [rebooted EXCEPT ![t] = FALSE]

(* It is lost: discarded at a high-water mark, or during a reconnect, or its *)
(* envelope is not three parts and _receive throws it away unobserved.       *)
Lose(t) ==
  /\ Publish(t)
  /\ lost[t] < MaxRun
  /\ lost' = [lost EXCEPT ![t] = @ + 1]
  /\ UNCHANGED <<tracker, lostBefore, rebooted, unrepaired>>

(* The last message of a topic arrives a second time. *)
Repeat(t) ==
  /\ last_seq[t] # NoSeq
  /\ anomaly.kind # "duplicate"
  /\ Observe(t, last_seq[t])
  /\ UNCHANGED <<publisher, ghosts>>

(* bitcoind restarts: every counter begins again, and what happened while it *)
(* was away was never published.                                             *)
PublisherRestarts ==
  /\ reboots < MaxRestarts
  /\ reboots' = reboots + 1
  /\ next' = [t \in Topics |-> 0]
  /\ rebooted' = [t \in Topics |-> TRUE]
  /\ UNCHANGED <<steps, tracker, lost, lostBefore, unrepaired>>

(* _handle_block could not parse a block. *)
FlagForReconciliation ==
  /\ needs_reconciliation' = TRUE
  /\ UNCHANGED <<publisher, ghosts, last_seq, missing_total, restarts, anomaly>>

(* _handle_block has folded every block that was owed. *)
Reconciled ==
  /\ needs_reconciliation' = FALSE
  /\ unrepaired' = FALSE
  /\ UNCHANGED <<publisher, last_seq, missing_total, restarts, anomaly,
                 lost, lostBefore, rebooted>>

Next == \/ \E t \in Topics : Deliver(t) \/ Lose(t) \/ Repeat(t)
        \/ PublisherRestarts \/ FlagForReconciliation \/ Reconciled

Spec == Init /\ [][Next]_vars

-----------------------------------------------------------------------------
(* Properties. *)

(* The shapes of the variables. *)
TypeOK ==
  /\ next \in [Topics -> Numbers] /\ last_seq \in [Topics -> Numbers \cup {NoSeq}]
  /\ missing_total \in [Topics -> Nat] /\ restarts \in [Topics -> Nat]
  /\ needs_reconciliation \in BOOLEAN
  /\ anomaly \in [kind : Kinds, missing : Nat]
  /\ lost \in [Topics -> 0 .. MaxRun] /\ lostBefore \in [Topics -> Nat]
  /\ rebooted \in [Topics -> BOOLEAN] /\ unrepaired \in BOOLEAN
  /\ steps \in [Topics -> Nat] /\ reboots \in Nat

(* sequence.py:1-15, 147-154: while the publisher has not restarted, a loss that a *)
(* later message of its topic has followed keeps the flag set, across a wrap of    *)
(* the counter too, until a repair: no clean message and no repeat clears it.      *)
LossIsFlagged == reboots = 0 /\ unrepaired => needs_reconciliation

(* sequence.py:61-63, 112-113, 142-145: while the publisher has not restarted, the *)
(* count of missing messages is the exact loss of the topic, wrap included, unless *)
(* a loss at the wrap was taken for a restart; then it is a lower bound.           *)
CountIsExact ==
  reboots = 0 => \A t \in Topics :
    /\ missing_total[t] <= lostBefore[t]
    /\ restarts[t] = 0 => missing_total[t] = lostBefore[t]

(* sequence.py:33-37: a loss smaller than the margin is never taken for a restart, *)
(* wherever in the counter it falls.                                               *)
SmallLossIsNoRestart ==
  [][\A t \in Topics :
       Deliver(t) /\ ~rebooted[t] /\ lost[t] < WrapMargin
         => anomaly'.kind # "restart"]_vars
=============================================================================
