---------------------------- MODULE StreamIngest ----------------------------
(***************************************************************************)
(* match.stream.StreamIngest with match.matcher.Matcher: what the service  *)
(* learns from the two ZMQ sockets, what it writes to the record, what it  *)
(* keeps in memory, and whom it alerts.                                    *)
(*                                                                         *)
(* A transaction is the coins it spends and the coins it creates; a coin   *)
(* is watched by the items whose script it pays.  Hashing is left out: two *)
(* coins are the same exactly when their outpoint HMACs are.  The blocks   *)
(* reach the handler in order and all of them (ChainFollower's part); a    *)
(* block whose folding failed is handed over again.  The rawtx socket may  *)
(* lose or repeat messages, and runs behind or ahead of the block socket.  *)
(***************************************************************************)
EXTENDS SequencesExt

CONSTANTS
  Txs, Coins, Items,
  Spends,       \* Spends[t]: the coins t spends
  Creates,      \* Creates[t]: the coins t creates
  Watching,     \* Watching[c]: the items watching the script coin c pays
  Baseline,     \* coins confirmed before the service starts, already recorded
  SeenMax,      \* SeenTransactions.maxlen
  ProvisionalMax, \* ProvisionalOutpoints.maxlen
  MaxBlock,     \* bound: transactions in a block
  MaxSent,      \* bound: transactions broadcast
  Faults,       \* which of FaultKinds the environment may produce
  MaxFaults     \* bound: how many of them in one behaviour

FaultKinds == {"lose", "repeat", "store", "restart"}

ASSUME GraphAssumption ==
  /\ Spends \in [Txs -> SUBSET Coins] /\ Creates \in [Txs -> SUBSET Coins]
  /\ Watching \in [Coins -> SUBSET Items]
  /\ Baseline \subseteq Coins
  /\ \A t, u \in Txs : t # u => Creates[t] \cap Creates[u] = {}
  /\ \A t \in Txs : Creates[t] \cap (Spends[t] \cup Baseline) = {}

ASSUME BoundAssumption ==
  /\ SeenMax \in Nat \ {0} /\ ProvisionalMax \in Nat \ {0}
  /\ MaxBlock \in Nat \ {0} /\ MaxSent \in Nat
  /\ Faults \subseteq FaultKinds /\ MaxFaults \in Nat

Directions == {"outgoing", "incoming"}
Matches == [tx : Txs, direction : Directions, item : Items]

VARIABLES
  mempool,    \* node: transactions it holds unconfirmed
  chain,      \* node: the transactions of its blocks, in order
  sent,       \* how many transactions were broadcast
  txSocket,   \* rawtx messages not yet handled
  ends,       \* for each block not yet wholly folded, where in the chain it ends
  faults,     \* faults taken from the budget so far: how many, and of which kinds
  folding,    \* _apply_block is under way, on the first of those blocks
  done,       \* where in the chain the last wholly folded block ends
  cursor,     \* the last transaction folded; `done` unless folding
  pending,    \* the alerts _apply_block has collected so far
  refold,     \* the first block was begun before, and its folding failed
  record,     \* record[c]: the items the stored UTXO set has coin c for
  provisional,\* ProvisionalOutpoints._by_txid, oldest first
  seen,       \* SeenTransactions, oldest first
  seenEvicted, provisionalEvicted,  \* their `evicted` counters
  alerts,     \* ghost: every match ever returned to the caller
  times       \* ghost: how often this process returned matches of a transaction

nodeVars == <<mempool, chain, sent>>
memoryVars == <<provisional, seen, seenEvicted, provisionalEvicted>>
alertVars == <<alerts, times>>
foldVars == <<folding, done, cursor, pending, refold>>
vars == <<mempool, chain, sent, txSocket, ends, faults, folding, done, cursor, pending,
          refold, record, provisional, seen, seenEvicted, provisionalEvicted, alerts, times>>

Init ==
  /\ mempool = {} /\ chain = << >> /\ sent = 0
  /\ txSocket = << >> /\ ends = << >> /\ faults = [taken |-> 0, kinds |-> {}]
  /\ folding = FALSE /\ done = 0 /\ cursor = 0 /\ pending = {} /\ refold = FALSE
  /\ record = [c \in Coins |-> IF c \in Baseline THEN Watching[c] ELSE {}]
  /\ provisional = << >> /\ seen = << >>
  /\ seenEvicted = 0 /\ provisionalEvicted = 0
  /\ alerts = {} /\ times = [t \in Txs |-> 0]

Fault(kind) ==
  /\ kind \in Faults /\ faults.taken < MaxFaults
  /\ faults' = [taken |-> faults.taken + 1, kinds |-> faults.kinds \cup {kind}]

-----------------------------------------------------------------------------
(* The node and its sockets. *)

CreatedBy(T) == UNION {Creates[t] : t \in T}
SpentBy(T) == UNION {Spends[t] : t \in T}

(* The first n transactions of the chain. *)
Upto(n) == {chain[i] : i \in 1 .. n}

(* A transaction enters the mempool, replacing the ones it conflicts with. *)
Broadcast(t) ==
  /\ t \notin mempool \cup ToSet(chain) /\ sent < MaxSent
  /\ Spends[t] \subseteq Baseline \cup CreatedBy(mempool \cup ToSet(chain))
  /\ Spends[t] \cap SpentBy(ToSet(chain)) = {}
  /\ mempool' = {u \in mempool : Spends[u] \cap Spends[t] = {}} \cup {t}
  /\ sent' = sent + 1
  /\ \/ txSocket' = Append(txSocket, t) /\ UNCHANGED faults
     \/ Fault("lose") /\ UNCHANGED txSocket
     \/ Fault("repeat") /\ txSocket' = txSocket \o <<t, t>>
  /\ UNCHANGED <<chain, ends, foldVars, record, memoryVars, alertVars>>

(* Each transaction spends coins that exist and are unspent at its place. *)
WellFormed(s) ==
  \A i \in 1 .. Len(s) :
    LET before == {s[j] : j \in 1 .. i - 1}
    IN  /\ s[i] \notin before
        /\ Spends[s[i]] \subseteq Baseline \cup CreatedBy(before)
        /\ Spends[s[i]] \cap SpentBy(before) = {}

(* A block is mined and published. *)
Mine ==
  \E n \in 1 .. MaxBlock : \E b \in [1 .. n -> mempool] :
    /\ WellFormed(chain \o b)
    /\ chain' = chain \o b
    /\ ends' = Append(ends, Len(chain) + n)
    /\ mempool' = {u \in mempool \ ToSet(b) : Spends[u] \cap SpentBy(ToSet(b)) = {}}
    /\ UNCHANGED <<sent, txSocket, faults, foldVars, record, memoryVars, alertVars>>

-----------------------------------------------------------------------------
(* The matcher. *)

(* Seeded fault: only the record is asked. *)
Owners_record(c) == record[c]

(* The items a coin is held for: in the record, or in memory for as long as   *)
(* the transaction that created it is remembered there.                       *)
Owners(c) ==
  record[c] \cup (IF c \in CreatedBy(ToSet(provisional)) THEN Watching[c] ELSE {})

(* Seeded fault: a transaction that spends is not also reported as paying. *)
Match_alarm_only(t) ==
  LET losing == UNION {Owners(c) : c \in Spends[t]}
      paid == UNION {Watching[c] : c \in Creates[t]}
  IN  IF losing # {} THEN [tx : {t}, direction : {"outgoing"}, item : losing]
      ELSE [tx : {t}, direction : {"incoming"}, item : paid]

(* match(t): what it moves, changing nothing. *)
Match(t) ==
  [tx : {t}, direction : {"outgoing"}, item : UNION {Owners(c) : c \in Spends[t]}]
    \cup
  [tx : {t}, direction : {"incoming"}, item : UNION {Watching[c] : c \in Creates[t]}]

(* Seeded fault: the bound is one too high. *)
Remember_one_more(s, t, max) ==
  IF t \in ToSet(s) THEN s
  ELSE IF Len(s) <= max THEN Append(s, t) ELSE Append(Tail(s), t)

(* A bounded insertion-ordered set: a new member goes last and the oldest go. *)
Remember(s, t, max) ==
  IF t \in ToSet(s) THEN s
  ELSE IF Len(s) < max THEN Append(s, t) ELSE Append(Tail(s), t)
Evicts(s, t, max) == IF t \notin ToSet(s) /\ Len(s) >= max THEN 1 ELSE 0

(* forget(t): it is in the set once, or not at all. *)
Forget(s, t) ==
  IF t \in ToSet(s) THEN RemoveAt(s, CHOOSE i \in DOMAIN s : s[i] = t) ELSE s

(* Seeded fault: what was alerted on is not remembered. *)
SeenAdd_forgets(t) == UNCHANGED <<seen, seenEvicted>>

SeenAdd(t) ==
  /\ seen' = Remember(seen, t, SeenMax)
  /\ seenEvicted' = seenEvicted + Evicts(seen, t, SeenMax)

(* note_unconfirmed(t): the coins it pays to watched scripts are held in memory. *)
NoteUnconfirmed(t) ==
  IF \E c \in Creates[t] : Watching[c] # {}
    THEN /\ provisional' = Remember(provisional, t, ProvisionalMax)
         /\ provisionalEvicted' =
              provisionalEvicted + Evicts(provisional, t, ProvisionalMax)
    ELSE UNCHANGED <<provisional, provisionalEvicted>>

(* Seeded fault: a spent coin stays in the record. *)
RecordAfter_keeps(dropped, added) ==
  [c \in Coins |-> IF c \in added THEN record[c] \cup Watching[c] ELSE record[c]]

(* The record with coins dropped and others added for whoever watches them. *)
RecordAfter(dropped, added) ==
  [c \in Coins |-> IF c \in added THEN record[c] \cup Watching[c]
                   ELSE IF c \in dropped THEN {} ELSE record[c]]

-----------------------------------------------------------------------------
(* The handlers; one thread runs them, so a message is handled between blocks. *)

Return(matches) ==
  /\ alerts' = alerts \cup matches
  /\ times' = [t \in Txs |-> times[t] + IF \E m \in matches : m.tx = t THEN 1 ELSE 0]

(* _handle_tx: alert once, hold the coins in memory, write nothing. *)
HandleTx ==
  /\ ~folding /\ txSocket # << >>
  /\ LET t == Head(txSocket)
         matches == Match(t)
     IN  /\ NoteUnconfirmed(t)
         /\ IF matches = {} THEN UNCHANGED <<seen, seenEvicted>> ELSE SeenAdd(t)
         /\ Return(IF t \in ToSet(seen) THEN {} ELSE matches)
  /\ txSocket' = Tail(txSocket)
  /\ UNCHANGED <<nodeVars, ends, faults, foldVars, record>>

(* _apply_block starts on the next block that is owed. *)
BeginBlock ==
  /\ ~folding /\ ends # << >>
  /\ folding' = TRUE /\ pending' = {}
  /\ UNCHANGED <<nodeVars, txSocket, ends, faults, done, cursor, refold, record,
                 memoryVars, alertVars>>

(* One transaction of it: match, apply, forget its coins in memory, and keep   *)
(* its matches unless they were returned before.  The last one ends the call.  *)
FoldTx ==
  /\ folding
  /\ LET t == chain[cursor + 1]
         matches == Match(t)
         kept == pending \cup (IF t \in ToSet(seen) THEN {} ELSE matches)
     IN  /\ record' = RecordAfter(Spends[t], Creates[t])
         /\ provisional' = Forget(provisional, t)
         /\ IF matches = {} THEN UNCHANGED <<seen, seenEvicted>> ELSE SeenAdd(t)
         /\ cursor' = cursor + 1
         /\ IF cursor + 1 = Head(ends)
              THEN /\ folding' = FALSE /\ pending' = {} /\ refold' = FALSE
                   /\ ends' = Tail(ends) /\ done' = cursor + 1
                   /\ Return(kept)
              ELSE /\ pending' = kept
                   /\ UNCHANGED <<folding, ends, done, refold, alertVars>>
  /\ UNCHANGED <<nodeVars, txSocket, faults, provisionalEvicted>>

(* The store raises part-way through a transaction: what it did stays, what    *)
(* was collected is lost with the exception, and the block is still owed.      *)
FoldFails ==
  /\ folding
  /\ Fault("store")
  /\ \E dropped \in SUBSET Spends[chain[cursor + 1]],
        added \in SUBSET Creates[chain[cursor + 1]] :
       /\ added # {} => dropped = Spends[chain[cursor + 1]]
       /\ record' = RecordAfter(dropped, added)
  /\ folding' = FALSE /\ cursor' = done /\ pending' = {} /\ refold' = TRUE
  /\ UNCHANGED <<nodeVars, txSocket, ends, done, memoryVars, alertVars>>

(* The process is replaced between two messages.  What was in memory is gone,  *)
(* and with the subscription what the rawtx socket held.                       *)
Restart ==
  /\ ~folding
  /\ Fault("restart")
  /\ provisional' = << >> /\ seen' = << >>
  /\ seenEvicted' = 0 /\ provisionalEvicted' = 0
  /\ txSocket' = << >> /\ times' = [t \in Txs |-> 0]
  /\ UNCHANGED <<nodeVars, ends, foldVars, record, alerts>>

HandleBlocks == BeginBlock \/ FoldTx

Next == \/ \E t \in Txs : Broadcast(t)
        \/ Mine \/ HandleTx \/ HandleBlocks \/ FoldFails \/ Restart

Spec == Init /\ [][Next]_vars

(* poll_once drains both sockets on every pass, the block socket first. *)
FairSpec == Spec /\ WF_vars(HandleBlocks) /\ WF_vars(HandleTx)

-----------------------------------------------------------------------------
(* Properties. *)

(* The shapes of the variables, and the two bounds kept in memory. *)
TypeOK ==
  /\ mempool \subseteq Txs /\ chain \in Seq(Txs) /\ sent \in Nat
  /\ txSocket \in Seq(Txs) /\ ends \in Seq(Nat)
  /\ faults \in [taken : Nat, kinds : SUBSET Faults]
  /\ folding \in BOOLEAN /\ done \in Nat /\ cursor \in Nat
  /\ pending \subseteq Matches /\ refold \in BOOLEAN
  /\ record \in [Coins -> SUBSET Items]
  /\ provisional \in Seq(Txs) /\ Len(provisional) <= ProvisionalMax
  /\ seen \in Seq(Txs) /\ Len(seen) <= SeenMax
  /\ seenEvicted \in Nat /\ provisionalEvicted \in Nat
  /\ alerts \subseteq Matches /\ times \in [Txs -> Nat]

(* The unspent watched coins of a chain that consists of T. *)
Unspent(T) == (Baseline \cup CreatedBy(T)) \ SpentBy(T)
Utxo(T) == [c \in Coins |-> IF c \in Unspent(T) THEN Watching[c] ELSE {}]

(* docs/architecture.md:213-242, matcher.py:256-289: the record is the watched     *)
(* UTXO set of the transactions folded from blocks, whatever the mempool sent,     *)
(* lost, repeated or delayed, in the middle of a block too, and again after a      *)
(* failed block has been folded a second time.                                     *)
RecordIsUtxoSet == ~refold => record = Utxo(Upto(cursor))

(* stream.py:60-71, 235-238: a transaction is alerted on once, however often the   *)
(* mempool sent it and although its block repeats it, as long as the process lives *)
(* and the seen-set has not had to forget.                                         *)
AlertedOnce == seenEvicted = 0 => \A t \in Txs : times[t] <= 1

(* Everything a confirmed transaction moved. *)
Moved(t) ==
  [tx : {t}, direction : {"outgoing"}, item : UNION {Watching[c] : c \in Spends[t]}]
    \cup
  [tx : {t}, direction : {"incoming"}, item : UNION {Watching[c] : c \in Creates[t]}]

(* docs/architecture.md:288-290, reconcile.py:6-10: whatever the mempool path lost *)
(* or never saw is recovered from the blocks: once a block is folded, every        *)
(* movement of a watched coin in it has been alerted.                              *)
EveryMovementAlerted == \A t \in Upto(done) : Moved(t) \subseteq alerts

(* Nothing was lost on the rawtx socket, forgotten, or interrupted. *)
Undisturbed ==
  faults.kinds \cap {"lose", "restart", "store"} = {} /\ provisionalEvicted = 0

(* stream.py:68-71, 177-183: the same, as long as the mempool path was whole; that *)
(* it ran behind or ahead of the blocks and repeated itself makes no difference.   *)
NoMissedAlert == Undisturbed => EveryMovementAlerted

(* stream.py:177-183: a spend of an unconfirmed deposit alerts from the mempool.   *)
(* Every transaction handed over by the rawtx socket whose parents were handed     *)
(* over, or folded, before it has been alerted in full, unless a block that failed *)
(* part-way waits to be folded again.                                              *)
MempoolAlertIsComplete ==
  [][\A t \in Txs :
       /\ HandleTx /\ t = Head(txSocket) /\ t \notin ToSet(seen)
       /\ provisionalEvicted = 0 /\ ~refold
       /\ Spends[t] \subseteq Baseline \cup CreatedBy(ToSet(provisional) \cup Upto(cursor))
       /\ Spends[t] \cap SpentBy(Upto(cursor)) = {}
       => Moved(t) \subseteq alerts']_vars

(* stream.py:148-219: a confirmed movement of a watched coin is alerted sooner or  *)
(* later, unless the mempool path was disturbed.                                   *)
EventuallyAlerted ==
  \A t \in Txs :
    (t \in ToSet(chain)) ~> (Moved(t) \subseteq alerts \/ ~Undisturbed)
=============================================================================
