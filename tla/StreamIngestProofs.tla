------------------------- MODULE StreamIngestProofs -------------------------
(***************************************************************************)
(* The record is the watched UTXO set of the folded blocks, for every      *)
(* graph of transactions, every mempool traffic and every schedule of the  *)
(* two sockets, store failures and restarts included.                      *)
(***************************************************************************)
EXTENDS StreamIngest, TLAPS

(* The variables the record depends on. *)
Shape ==
  /\ chain \in Seq(Txs) /\ mempool \subseteq Txs /\ ends \in Seq(Nat)
  /\ folding \in BOOLEAN /\ refold \in BOOLEAN
  /\ done \in Nat /\ cursor \in Nat
  /\ record \in [Coins -> SUBSET Items]

(* Where the handler stands in the chain. *)
Position ==
  /\ done <= cursor /\ cursor <= Len(chain)
  /\ ~folding => cursor = done
  /\ folding \/ refold => ends # << >>
  /\ folding => cursor < ends[1]
  /\ ends # << >> => done < ends[1]
  /\ \A i \in 1 .. Len(ends) : ends[i] <= Len(chain)
  /\ \A i \in 1 .. Len(ends) - 1 : ends[i] < ends[i + 1]

(* What is left of the block that is being folded, or is owed next. *)
Rest == {chain[i] : i \in cursor + 1 .. ends[1]}
Touched(c, T) == c \in CreatedBy(T) \cup SpentBy(T)

(* The record is right about every coin, or, while a block whose folding failed *)
(* is being folded again, about every coin the rest of it does not touch.       *)
Exact ==
  \A c \in Coins :
    \/ refold /\ Touched(c, Rest)
    \/ record[c] = Utxo(Upto(cursor))[c]

(* No item is recorded for a coin it does not watch. *)
Watched == \A c \in Coins : record[c] \subseteq Watching[c]

RecordInv == Shape /\ WellFormed(chain) /\ Position /\ Watched /\ Exact

LEMMA InitRecordInv == Init => RecordInv
  <1> SUFFICES ASSUME Init PROVE RecordInv
    OBVIOUS
  <1> USE GraphAssumption
  <1>1. Shape
    <2>1. record \in [Coins -> SUBSET Items]
      BY DEF Init
    <2>2. chain \in Seq(Txs) /\ ends \in Seq(Nat) /\ mempool \subseteq Txs
      BY DEF Init
    <2>3. QED
      BY <2>1, <2>2 DEF Init, Shape
  <1>2. WellFormed(chain) /\ Position
    BY DEF Init, WellFormed, Position
  <1>3. Watched
    BY DEF Init, Watched
  <1>4. Upto(cursor) = {}
    BY DEF Init, Upto
  <1>5. Exact
    BY <1>4 DEF Init, Exact, Utxo, Unspent, CreatedBy, SpentBy
  <1>6. QED
    BY <1>1, <1>2, <1>3, <1>5 DEF RecordInv

(* Only the node's chain, the fold and the record matter to the invariant. *)
LEMMA Stutter ==
  ASSUME RecordInv, mempool' \subseteq Txs,
         UNCHANGED <<chain, ends, folding, done, cursor, refold, record>>
  PROVE  RecordInv'
  <1>1. Shape'
    BY DEF RecordInv, Shape
  <1>2. WellFormed(chain)'
    BY DEF RecordInv, WellFormed
  <1>3. Position'
    BY DEF RecordInv, Position
  <1>4. Watched'
    BY DEF RecordInv, Watched
  <1>5. Upto(cursor)' = Upto(cursor) /\ Rest' = Rest
    BY DEF Upto, Rest
  <1>6. Exact'
    BY <1>5 DEF RecordInv, Exact, Touched, Utxo, Unspent, CreatedBy, SpentBy
  <1>7. QED
    BY <1>1, <1>2, <1>3, <1>4, <1>6 DEF RecordInv

(* A coin is not spent before the transaction that creates it. *)
LEMMA FreshCoin ==
  ASSUME Shape, WellFormed(chain), NEW n \in Nat, n < Len(chain),
         NEW c \in Creates[chain[n + 1]]
  PROVE  c \notin SpentBy(Upto(n))
  <1> SUFFICES ASSUME NEW i \in 1 .. n, c \in Spends[chain[i]]
               PROVE  FALSE
    BY DEF SpentBy, Upto
  <1> DEFINE t == chain[n + 1]
             before == {chain[j] : j \in 1 .. i - 1}
  <1>1. i \in 1 .. Len(chain) /\ n + 1 \in 1 .. Len(chain) /\ t \in Txs
    BY DEF Shape
  <1>2. Spends[chain[i]] \subseteq Baseline \cup CreatedBy(before)
    BY <1>1 DEF WellFormed
  <1>3. c \notin Baseline
    BY <1>1, GraphAssumption
  <1>4. PICK j \in 1 .. i - 1 : c \in Creates[chain[j]]
    BY <1>2, <1>3 DEF CreatedBy
  <1>5. chain[j] \in Txs /\ j \in 1 .. n
    BY <1>1, <1>4 DEF Shape
  <1>6. chain[j] # t
    BY <1>1, <1>5 DEF WellFormed
  <1>7. QED
    BY <1>1, <1>4, <1>5, <1>6, GraphAssumption

LEMMA MineRecordInv ==
  ASSUME RecordInv, Mine
  PROVE  RecordInv'
  <1> USE DEF RecordInv
  <1>0. PICK n \in 1 .. MaxBlock : \E b \in [1 .. n -> mempool] :
          /\ WellFormed(chain \o b) /\ chain' = chain \o b
          /\ ends' = Append(ends, Len(chain) + n)
    BY DEF Mine
  <1>1. PICK b \in [1 .. n -> mempool] :
          /\ WellFormed(chain \o b) /\ chain' = chain \o b
          /\ ends' = Append(ends, Len(chain) + n)
    BY <1>0
  <1>2. UNCHANGED <<folding, done, cursor, pending, refold, record>>
    BY DEF Mine, foldVars
  <1>3. mempool' \subseteq Txs
    BY DEF Mine, Shape
  <1>4. n \in Nat \ {0} /\ b \in Seq(Txs) /\ Len(b) = n
    BY BoundAssumption DEF Shape
  <1>5. /\ chain' \in Seq(Txs) /\ Len(chain') = Len(chain) + n /\ Len(chain) \in Nat
        /\ \A i \in 1 .. Len(chain) : chain'[i] = chain[i]
    BY <1>1, <1>4 DEF Shape
  <1>6. /\ ends' \in Seq(Nat) /\ Len(ends') = Len(ends) + 1 /\ Len(ends) \in Nat
        /\ ends'[Len(ends) + 1] = Len(chain) + n
        /\ \A i \in 1 .. Len(ends) : ends'[i] = ends[i]
    BY <1>1, <1>4, <1>5 DEF Shape
  <1>7. Shape'
    BY <1>2, <1>3, <1>5, <1>6 DEF Shape
  <1>8. WellFormed(chain)'
    <2>1. WellFormed(chain')
      BY <1>1
    <2>2. QED
      BY <2>1 DEF WellFormed
  <1>9. Position'
    <2>1. /\ done' <= cursor' /\ cursor' <= Len(chain')
          /\ ~folding' => cursor' = done'
          /\ folding' \/ refold' => ends' # << >>
      BY <1>2, <1>4, <1>5, <1>6 DEF Position, Shape
    <2>2. CASE ends = << >>
      <3>1. ends'[1] = Len(chain) + n /\ Len(ends') = 1 /\ ~folding /\ done <= Len(chain)
        BY <1>6, <2>2 DEF Position, Shape
      <3>2. QED
        BY <1>2, <1>4, <1>5, <2>1, <3>1 DEF Position, Shape
    <2>3. CASE ends # << >>
      <3>1. ends'[1] = ends[1] /\ 1 \in 1 .. Len(ends)
        BY <1>6, <2>3 DEF Shape
      <3>2. /\ folding' => cursor' < ends'[1]
            /\ done' < ends'[1]
        BY <1>2, <2>3, <3>1 DEF Position
      <3>0. /\ \A i \in 1 .. Len(ends) : ends[i] <= Len(chain) /\ ends[i] \in Nat
            /\ \A i \in 1 .. Len(ends) - 1 : ends[i] < ends[i + 1]
        BY DEF Position, Shape
      <3>3. ASSUME NEW i \in 1 .. Len(ends')
            PROVE  ends'[i] <= Len(chain')
        <4>1. CASE i = Len(ends) + 1
          <5>1. ends'[i] = Len(chain')
            BY <1>5, <1>6, <4>1
          <5>2. QED
            BY <1>4, <1>5, <5>1
        <4>2. CASE i # Len(ends) + 1
          <5>1. i \in 1 .. Len(ends)
            BY <1>6, <4>2
          <5>2. ends'[i] = ends[i] /\ ends[i] <= Len(chain) /\ ends[i] \in Nat
            BY <1>6, <3>0, <5>1
          <5>3. QED
            BY <1>4, <1>5, <5>2
        <4>3. QED
          BY <4>1, <4>2
      <3>4. ASSUME NEW i \in 1 .. Len(ends') - 1
            PROVE  ends'[i] < ends'[i + 1]
        <4>0. i \in 1 .. Len(ends) /\ ends'[i] = ends[i]
          BY <1>6
        <4>1. CASE i = Len(ends)
          <5>1. ends'[i + 1] = Len(chain) + n
            BY <1>6, <4>1
          <5>2. ends[i] <= Len(chain) /\ ends[i] \in Nat
            BY <3>0, <4>0
          <5>3. QED
            BY <1>4, <1>5, <4>0, <5>1, <5>2
        <4>2. CASE i < Len(ends)
          <5>1. i \in 1 .. Len(ends) - 1 /\ i + 1 \in 1 .. Len(ends)
            BY <1>6, <4>0, <4>2
          <5>2. ends'[i + 1] = ends[i + 1] /\ ends[i] < ends[i + 1]
            BY <1>6, <3>0, <5>1
          <5>3. QED
            BY <4>0, <5>2
        <4>3. QED
          BY <1>6, <4>1, <4>2
      <3>5. QED
        BY <2>1, <3>2, <3>3, <3>4 DEF Position
    <2>4. QED
      BY <2>2, <2>3
  <1>10. Upto(cursor)' = Upto(cursor)
    <2>1. \A i \in 1 .. cursor : chain'[i] = chain[i]
      BY <1>5 DEF Position, Shape
    <2>2. QED
      BY <1>2, <2>1 DEF Upto
  <1>11. refold => Rest' = Rest
    <2> SUFFICES ASSUME refold PROVE Rest' = Rest
      OBVIOUS
    <2>1. ends # << >> /\ 1 \in 1 .. Len(ends) /\ cursor \in Nat
      BY DEF Position, Shape
    <2>2. ends'[1] = ends[1] /\ ends[1] <= Len(chain) /\ ends[1] \in Nat
      BY <1>6, <2>1 DEF Position, Shape
    <2>3. \A i \in cursor + 1 .. ends[1] : chain'[i] = chain[i]
      BY <1>5, <2>1, <2>2
    <2>4. QED
      BY <1>2, <2>2, <2>3 DEF Rest
  <1>12. Watched' /\ Exact'
    BY <1>2, <1>10, <1>11 DEF Watched, Exact, Touched, Utxo, Unspent
  <1>13. QED
    BY <1>7, <1>8, <1>9, <1>12

LEMMA FoldTxRecordInv ==
  ASSUME RecordInv, FoldTx
  PROVE  RecordInv'
  <1> USE DEF RecordInv
  <1> DEFINE t == chain[cursor + 1]
  <1>1. /\ folding /\ ends # << >> /\ cursor < ends[1] /\ ends[1] <= Len(chain)
        /\ cursor \in Nat /\ ends[1] \in Nat /\ Len(chain) \in Nat
        /\ t \in Txs /\ cursor' = cursor + 1 /\ Head(ends) = ends[1]
        /\ chain' = chain /\ mempool' = mempool
    BY DEF FoldTx, Position, Shape, nodeVars
  <1>2. record' = RecordAfter(Spends[t], Creates[t])
    BY DEF FoldTx
  <1>3. Spends[t] \subseteq Coins /\ Creates[t] \subseteq Coins
        /\ Creates[t] \cap (Spends[t] \cup Baseline) = {}
    BY <1>1, GraphAssumption
  <1>4. Upto(cursor)' = Upto(cursor) \cup {t}
    BY <1>1 DEF Upto
  <1>5. \A c \in Creates[t] : c \notin SpentBy(Upto(cursor))
    BY <1>1, FreshCoin
  <1>6. /\ CreatedBy(Upto(cursor)') = CreatedBy(Upto(cursor)) \cup Creates[t]
        /\ SpentBy(Upto(cursor)') = SpentBy(Upto(cursor)) \cup Spends[t]
    BY <1>4 DEF CreatedBy, SpentBy
  <1>7. ASSUME NEW c \in Coins
        PROVE  /\ record'[c] \subseteq Watching[c]
               /\ c \in Creates[t] \cup Spends[t]
                  => record'[c] = Utxo(Upto(cursor)')[c]
               /\ c \notin Creates[t] \cup Spends[t] /\ record[c] = Utxo(Upto(cursor))[c]
                  => record'[c] = Utxo(Upto(cursor)')[c]
    <2>1. record[c] \subseteq Watching[c]
      BY DEF Watched
    <2>2. CASE c \in Creates[t]
      <3>1. record'[c] = record[c] \cup Watching[c]
        BY <1>2, <2>2 DEF RecordAfter
      <3>2. c \in Unspent(Upto(cursor)')
        BY <1>3, <1>5, <1>6, <2>2 DEF Unspent
      <3>3. QED
        BY <2>1, <2>2, <3>1, <3>2 DEF Utxo
    <2>3. CASE c \in Spends[t]
      <3>1. record'[c] = {}
        BY <1>2, <1>3, <2>3 DEF RecordAfter
      <3>2. c \notin Unspent(Upto(cursor)')
        BY <1>6, <2>3 DEF Unspent
      <3>3. QED
        BY <2>3, <3>1, <3>2 DEF Utxo
    <2>4. CASE c \notin Creates[t] \cup Spends[t]
      <3>1. record'[c] = record[c]
        BY <1>2, <2>4 DEF RecordAfter
      <3>2. c \in Unspent(Upto(cursor)') <=> c \in Unspent(Upto(cursor))
        BY <1>6, <2>4 DEF Unspent
      <3>3. QED
        BY <2>1, <2>4, <3>1, <3>2 DEF Utxo
    <2>5. QED
      BY <2>2, <2>3, <2>4
  <1>8. record' \in [Coins -> SUBSET Items]
    BY <1>2, GraphAssumption DEF RecordAfter, Shape
  <1>9. Rest = {t} \cup {chain[i] : i \in cursor + 2 .. ends[1]}
    BY <1>1 DEF Rest
  <1>10. CASE cursor + 1 = Head(ends)
    <2>1. /\ ~folding' /\ ~refold' /\ ends' = Tail(ends) /\ done' = cursor + 1
          /\ folding' \in BOOLEAN /\ refold' \in BOOLEAN
      BY <1>10 DEF FoldTx
    <2>2. /\ ends' \in Seq(Nat) /\ Len(ends') = Len(ends) - 1
          /\ \A i \in 1 .. Len(ends) - 1 : ends'[i] = ends[i + 1]
      BY <1>1, <2>1 DEF Shape
    <2>3. Shape'
      BY <1>1, <1>8, <2>1, <2>2 DEF Shape
    <2>4. Position'
      <3>0. /\ \A i \in 1 .. Len(ends) : ends[i] <= Len(chain) /\ ends[i] \in Nat
            /\ \A i \in 1 .. Len(ends) - 1 : ends[i] < ends[i + 1]
            /\ Len(ends) \in Nat \ {0}
        BY <1>1 DEF Position, Shape
      <3>1. ends' # << >> => 1 \in 1 .. Len(ends) - 1 /\ ends'[1] = ends[2]
        BY <1>1, <2>2 DEF Shape
      <3>2. ends' # << >> => done' < ends'[1]
        <4> SUFFICES ASSUME ends' # << >> PROVE done' < ends'[1]
          OBVIOUS
        <4>1. ends'[1] = ends[2] /\ ends[1] < ends[1 + 1]
          BY <3>0, <3>1
        <4>2. done' = ends[1]
          BY <1>1, <1>10, <2>1
        <4>3. QED
          BY <4>1, <4>2
      <3>3. ASSUME NEW i \in 1 .. Len(ends')
            PROVE  ends'[i] <= Len(chain')
        <4>1. i \in 1 .. Len(ends) - 1 /\ i + 1 \in 1 .. Len(ends)
          BY <2>2, <3>0
        <4>2. QED
          BY <1>1, <2>2, <3>0, <4>1
      <3>4. ASSUME NEW i \in 1 .. Len(ends') - 1
            PROVE  ends'[i] < ends'[i + 1]
        <4>1. /\ i \in 1 .. Len(ends) - 1 /\ i + 1 \in 1 .. Len(ends) - 1
          BY <2>2, <3>0
        <4>2. ends'[i] = ends[i + 1] /\ ends'[i + 1] = ends[(i + 1) + 1]
          BY <2>2, <4>1
        <4>3. QED
          BY <3>0, <4>1, <4>2
      <3>5. QED
        BY <1>1, <2>1, <3>2, <3>3, <3>4 DEF Position
    <2>5. Rest = {t}
      BY <1>1, <1>9, <1>10
    <2>6. \A c \in Coins : c \in Creates[t] \cup Spends[t] \/ record[c] = Utxo(Upto(cursor))[c]
      BY <2>5 DEF Exact, Touched, CreatedBy, SpentBy
    <2>7. Watched' /\ Exact'
      BY <1>7, <2>6 DEF Watched, Exact, Utxo, Unspent, CreatedBy, SpentBy
    <2>8. QED
      BY <1>1, <2>3, <2>4, <2>7 DEF WellFormed
  <1>11. CASE cursor + 1 # Head(ends)
    <2>1. UNCHANGED <<folding, refold, ends, done>>
      BY <1>11 DEF FoldTx
    <2>2. Shape'
      BY <1>1, <1>8, <2>1 DEF Shape
    <2>3. Position'
      BY <1>1, <1>11, <2>1 DEF Position, Shape
    <2>4. Rest = {t} \cup Rest'
      BY <1>1, <1>9, <2>1 DEF Rest
    <2>5. ASSUME NEW c \in Coins
          PROVE  (refold' /\ Touched(c, Rest')) \/ record'[c] = Utxo(Upto(cursor)')[c]
      <3>1. CASE c \in Creates[t] \cup Spends[t]
        BY <1>7, <3>1
      <3>2. CASE c \notin Creates[t] \cup Spends[t]
        <4>1. Touched(c, Rest) => Touched(c, Rest')
          BY <2>4, <3>2 DEF Touched, CreatedBy, SpentBy
        <4>2. QED
          BY <1>7, <2>1, <3>2, <4>1 DEF Exact
      <3>3. QED
        BY <3>1, <3>2
    <2>6. Watched' /\ Exact'
      BY <1>7, <2>5 DEF Watched, Exact, Touched, Utxo, Unspent, CreatedBy, SpentBy
    <2>7. QED
      BY <1>1, <2>2, <2>3, <2>6 DEF WellFormed
  <1>12. QED
    BY <1>10, <1>11

LEMMA FoldFailsRecordInv ==
  ASSUME RecordInv, FoldFails
  PROVE  RecordInv'
  <1> USE DEF RecordInv
  <1> DEFINE t == chain[cursor + 1]
  <1>1. /\ folding /\ ends # << >> /\ cursor < ends[1] /\ ends[1] <= Len(chain)
        /\ cursor \in Nat /\ done \in Nat /\ done <= cursor
        /\ ends[1] \in Nat /\ Len(chain) \in Nat
        /\ t \in Txs /\ cursor' = done /\ done' = done /\ ends' = ends
        /\ chain' = chain /\ mempool' = mempool
        /\ folding' = FALSE /\ refold' = TRUE
    BY DEF FoldFails, Position, Shape, nodeVars
  <1>2. PICK dropped \in SUBSET Spends[t], added \in SUBSET Creates[t] :
          record' = RecordAfter(dropped, added)
    BY DEF FoldFails
  <1>3. \A c \in Coins : record'[c] \in {record[c], {}, record[c] \cup Watching[c]}
    BY <1>2 DEF RecordAfter
  <1>4. Watched' /\ record' \in [Coins -> SUBSET Items]
    <2>1. Watched'
      BY <1>3 DEF Watched
    <2>2. record' \in [Coins -> SUBSET Items]
      BY <1>2, GraphAssumption DEF RecordAfter, Shape
    <2>3. QED
      BY <2>1, <2>2
  <1>5. Shape' /\ Position'
    <2>1. Shape'
      BY <1>1, <1>4 DEF Shape
    <2>2. /\ done <= Len(chain) /\ done < ends[1]
          /\ \A i \in 1 .. Len(ends) : ends[i] <= Len(chain)
          /\ \A i \in 1 .. Len(ends) - 1 : ends[i] < ends[i + 1]
      BY <1>1 DEF Position
    <2> HIDE DEF RecordInv
    <2>3. Position'
      BY <1>1, <2>2 DEF Position
    <2>4. QED
      BY <2>1, <2>3
  <1>6. /\ t \in Rest' /\ Rest \subseteq Rest'
        /\ Upto(cursor) \subseteq Upto(cursor)' \cup Rest'
        /\ Upto(cursor)' \subseteq Upto(cursor)
    BY <1>1 DEF Rest, Upto
  <1>7. ASSUME NEW c \in Coins, ~Touched(c, Rest')
        PROVE  record'[c] = Utxo(Upto(cursor)')[c]
    <2>1. c \notin Spends[t] \cup Creates[t] /\ ~Touched(c, Rest)
      BY <1>6, <1>7 DEF Touched, CreatedBy, SpentBy
    <2>2. record'[c] = record[c]
      BY <1>2, <2>1 DEF RecordAfter
    <2>3. record[c] = Utxo(Upto(cursor))[c]
      BY <2>1 DEF Exact
    <2>4. /\ c \in CreatedBy(Upto(cursor)) <=> c \in CreatedBy(Upto(cursor)')
          /\ c \in SpentBy(Upto(cursor)) <=> c \in SpentBy(Upto(cursor)')
      BY <1>6, <1>7 DEF Touched, CreatedBy, SpentBy
    <2>5. QED
      BY <2>2, <2>3, <2>4 DEF Utxo, Unspent
  <1>8. Exact'
    BY <1>1, <1>7, SMTT(60) DEF Exact, Touched, Utxo, Unspent, CreatedBy, SpentBy
  <1>9. QED
    BY <1>1, <1>4, <1>5, <1>8 DEF WellFormed

LEMMA NextRecordInv == RecordInv /\ [Next]_vars => RecordInv'
  <1> SUFFICES ASSUME RecordInv, [Next]_vars PROVE RecordInv'
    OBVIOUS
  <1>0. mempool \subseteq Txs
    BY DEF RecordInv, Shape
  <1>1. CASE \E t \in Txs : Broadcast(t)
    BY <1>0, <1>1, Stutter DEF Broadcast, foldVars
  <1>2. CASE Mine
    BY <1>2, MineRecordInv
  <1>3. CASE HandleTx
    BY <1>0, <1>3, Stutter DEF HandleTx, nodeVars, foldVars
  <1>4. CASE BeginBlock
    <2>1. /\ folding' = TRUE /\ ends # << >> /\ cursor = done
          /\ UNCHANGED <<mempool, chain, ends, done, cursor, refold, record>>
      BY <1>4 DEF BeginBlock, nodeVars, RecordInv, Position
    <2>2. Shape' /\ Position'
      BY <2>1 DEF RecordInv, Shape, Position
    <2>3. QED
      BY <2>1, <2>2 DEF RecordInv, WellFormed, Watched, Exact, Rest, Touched, Utxo,
                        Unspent, Upto, CreatedBy, SpentBy
  <1>5. CASE FoldTx
    BY <1>5, FoldTxRecordInv
  <1>6. CASE FoldFails
    BY <1>6, FoldFailsRecordInv
  <1>7. CASE Restart
    BY <1>0, <1>7, Stutter DEF Restart, nodeVars, foldVars
  <1>8. CASE UNCHANGED vars
    BY <1>0, <1>8, Stutter DEF vars
  <1>9. QED
    BY <1>1, <1>2, <1>3, <1>4, <1>5, <1>6, <1>7, <1>8 DEF Next, HandleBlocks

(* Whatever the mempool sends, loses, repeats or delays, whatever the store    *)
(* refuses and whenever the process restarts: the record is the watched UTXO   *)
(* set of the transactions folded so far.                                      *)
THEOREM RecordStaysExact == Spec => []RecordIsUtxoSet
  <1>1. RecordInv => RecordIsUtxoSet
    BY DEF RecordInv, Exact, RecordIsUtxoSet, Utxo, Shape
  <1>2. QED
    BY <1>1, InitRecordInv, NextRecordInv, PTL DEF Spec

-----------------------------------------------------------------------------
(* Types, and what was alerted on. *)

(* Until something is evicted, whatever was alerted on is remembered, and so is what *)
(* the block in hand is about to alert on for the first time.                        *)
Once ==
  /\ ~folding => pending = {}
  /\ seenEvicted = 0 =>
       \A t \in Txs :
         /\ times[t] <= 1
         /\ times[t] # 0 => t \in ToSet(seen)
         /\ \A m \in pending : m.tx = t => times[t] = 0 /\ t \in ToSet(seen)

LEMMA InitTypes == Init => TypeOK /\ Once
  <1> SUFFICES ASSUME Init PROVE TypeOK /\ Once
    OBVIOUS
  <1>1. record \in [Coins -> SUBSET Items]
    BY GraphAssumption DEF Init
  <1>2. /\ chain \in Seq(Txs) /\ txSocket \in Seq(Txs) /\ ends \in Seq(Nat)
        /\ provisional \in Seq(Txs) /\ seen \in Seq(Txs)
        /\ Len(provisional) = 0 /\ Len(seen) = 0
    BY DEF Init
  <1>3. Len(provisional) <= ProvisionalMax /\ Len(seen) <= SeenMax
    BY <1>2, BoundAssumption
  <1>4. faults \in [taken : Nat, kinds : SUBSET Faults] /\ times \in [Txs -> Nat]
    BY DEF Init
  <1>5. TypeOK
    BY <1>1, <1>2, <1>3, <1>4 DEF Init, TypeOK
  <1>6. Once
    BY DEF Init, Once
  <1>7. QED
    BY <1>5, <1>6

LEMMA FaultTypes ==
  ASSUME TypeOK, NEW kind, Fault(kind)
  PROVE  faults' \in [taken : Nat, kinds : SUBSET Faults]
  BY DEF TypeOK, Fault

(* The bounded set of either kind keeps its bound, and holds its newest member. *)
LEMMA Remembered ==
  ASSUME NEW s \in Seq(Txs), NEW t \in Txs, NEW max \in Nat \ {0}, Len(s) <= max
  PROVE  /\ Remember(s, t, max) \in Seq(Txs) /\ Len(Remember(s, t, max)) <= max
         /\ Evicts(s, t, max) \in Nat
         /\ Evicts(s, t, max) = 0 => ToSet(Remember(s, t, max)) = ToSet(s) \cup {t}
  <1>1. CASE t \in ToSet(s)
    BY <1>1 DEF Remember, Evicts
  <1>2. CASE t \notin ToSet(s) /\ Len(s) < max
    <2>1. /\ Remember(s, t, max) = Append(s, t) /\ Evicts(s, t, max) = 0
      BY <1>2 DEF Remember, Evicts
    <2>2. /\ Append(s, t) \in Seq(Txs) /\ Len(Append(s, t)) = Len(s) + 1
          /\ \A i \in 1 .. Len(s) : Append(s, t)[i] = s[i]
          /\ Append(s, t)[Len(s) + 1] = t
          /\ Len(s) \in Nat
      OBVIOUS
    <2>3. ToSet(Append(s, t)) = ToSet(s) \cup {t}
      BY <2>2 DEF ToSet
    <2>4. QED
      BY <1>2, <2>1, <2>2, <2>3
  <1>3. CASE t \notin ToSet(s) /\ Len(s) >= max
    <2>1. /\ Remember(s, t, max) = Append(Tail(s), t) /\ Evicts(s, t, max) = 1
      BY <1>3 DEF Remember, Evicts
    <2>2. s # << >> /\ Tail(s) \in Seq(Txs) /\ Len(Tail(s)) = Len(s) - 1
      BY <1>3
    <2>3. /\ Append(Tail(s), t) \in Seq(Txs) /\ Len(Append(Tail(s), t)) = Len(s)
      BY <2>2
    <2>4. QED
      BY <2>1, <2>3
  <1>4. QED
    BY <1>1, <1>2, <1>3

LEMMA Forgotten ==
  ASSUME NEW s \in Seq(Txs), NEW t
  PROVE  Forget(s, t) \in Seq(Txs) /\ Len(Forget(s, t)) <= Len(s)
  <1>1. CASE t \in ToSet(s)
    <2> DEFINE k == CHOOSE i \in DOMAIN s : s[i] = t
               a == SubSeq(s, 1, k - 1)
               b == SubSeq(s, k + 1, Len(s))
    <2>1. k \in 1 .. Len(s) /\ Len(s) \in Nat
      BY <1>1 DEF ToSet
    <2>2. Forget(s, t) = a \o b
      BY <1>1 DEF Forget, RemoveAt
    <2> HIDE DEF k
    <2>3. /\ a \in Seq(Txs) /\ Len(a) = k - 1
          /\ b \in Seq(Txs) /\ Len(b) = Len(s) - k
      BY <2>1
    <2> HIDE DEF a, b
    <2>4. a \o b \in Seq(Txs) /\ Len(a \o b) = Len(a) + Len(b)
      BY <2>3
    <2>5. QED
      BY <2>1, <2>2, <2>3, <2>4
  <1>2. CASE t \notin ToSet(s)
    BY <1>2 DEF Forget
  <1>3. QED
    BY <1>1, <1>2

LEMMA MatchTypes ==
  ASSUME TypeOK, NEW t \in Txs
  PROVE  Match(t) \subseteq Matches /\ \A m \in Match(t) : m.tx = t
  <1>1. Spends[t] \subseteq Coins /\ Creates[t] \subseteq Coins
    BY GraphAssumption
  <1>2. \A c \in Coins : Owners(c) \subseteq Items /\ Watching[c] \subseteq Items
    BY GraphAssumption DEF Owners, TypeOK
  <1>3. /\ UNION {Owners(c) : c \in Spends[t]} \subseteq Items
        /\ UNION {Watching[c] : c \in Creates[t]} \subseteq Items
    BY <1>1, <1>2
  <1>4. QED
    BY <1>3 DEF Match, Matches, Directions

LEMMA SeenTypes ==
  ASSUME TypeOK, NEW t \in Txs, SeenAdd(t)
  PROVE  /\ seen' \in Seq(Txs) /\ Len(seen') <= SeenMax /\ seenEvicted' \in Nat
         /\ seenEvicted' = 0 => seenEvicted = 0 /\ ToSet(seen') = ToSet(seen) \cup {t}
  <1>1. seen \in Seq(Txs) /\ Len(seen) <= SeenMax /\ seenEvicted \in Nat
    BY DEF TypeOK
  <1>2. /\ seen' = Remember(seen, t, SeenMax)
        /\ seenEvicted' = seenEvicted + Evicts(seen, t, SeenMax)
    BY DEF SeenAdd
  <1>3. QED
    BY <1>1, <1>2, Remembered, BoundAssumption

LEMMA NotedTypes ==
  ASSUME TypeOK, NEW t \in Txs, NoteUnconfirmed(t)
  PROVE  /\ provisional' \in Seq(Txs) /\ Len(provisional') <= ProvisionalMax
         /\ provisionalEvicted' \in Nat
  <1>1. /\ provisional \in Seq(Txs) /\ Len(provisional) <= ProvisionalMax
        /\ provisionalEvicted \in Nat
    BY DEF TypeOK
  <1>2. CASE \E c \in Creates[t] : Watching[c] # {}
    <2>1. /\ provisional' = Remember(provisional, t, ProvisionalMax)
          /\ provisionalEvicted' =
               provisionalEvicted + Evicts(provisional, t, ProvisionalMax)
      BY <1>2 DEF NoteUnconfirmed
    <2>2. QED
      BY <1>1, <2>1, Remembered, BoundAssumption
  <1>3. CASE ~ \E c \in Creates[t] : Watching[c] # {}
    BY <1>1, <1>3 DEF NoteUnconfirmed
  <1>4. QED
    BY <1>2, <1>3

LEMMA ReturnTypes ==
  ASSUME TypeOK, NEW matches \in SUBSET Matches, Return(matches)
  PROVE  /\ alerts' \subseteq Matches /\ times' \in [Txs -> Nat]
         /\ \A t \in Txs : times'[t] = times[t] + IF \E m \in matches : m.tx = t THEN 1 ELSE 0
  <1>1. times \in [Txs -> Nat] /\ alerts \subseteq Matches
    BY DEF TypeOK
  <1>2. /\ alerts' = alerts \cup matches
        /\ times' = [t \in Txs |-> times[t] + IF \E m \in matches : m.tx = t THEN 1 ELSE 0]
    BY DEF Return
  <1>3. QED
    BY <1>1, <1>2

LEMMA BroadcastTypes ==
  ASSUME TypeOK, Once, NEW t \in Txs, Broadcast(t)
  PROVE  TypeOK' /\ Once'
  <1>1. /\ mempool' \subseteq Txs /\ sent' \in Nat
    BY DEF Broadcast, TypeOK
  <1>2. txSocket' \in Seq(Txs) /\ faults' \in [taken : Nat, kinds : SUBSET Faults]
    <2>1. txSocket \in Seq(Txs) /\ faults \in [taken : Nat, kinds : SUBSET Faults]
      BY DEF TypeOK
    <2>2. CASE txSocket' = Append(txSocket, t) /\ UNCHANGED faults
      BY <2>1, <2>2
    <2>3. CASE Fault("lose") /\ UNCHANGED txSocket
      BY <2>1, <2>3, FaultTypes
    <2>4. CASE Fault("repeat") /\ txSocket' = txSocket \o <<t, t>>
      <3>1. <<t, t>> \in Seq(Txs)
        OBVIOUS
      <3>2. QED
        BY <2>1, <2>4, <3>1, FaultTypes
    <2>5. QED
      BY <2>2, <2>3, <2>4 DEF Broadcast
  <1>3. UNCHANGED <<chain, ends, foldVars, record, memoryVars, alertVars>>
    BY DEF Broadcast
  <1>4. QED
    BY <1>1, <1>2, <1>3 DEF TypeOK, Once, foldVars, memoryVars, alertVars

LEMMA HandleTxTypes ==
  ASSUME TypeOK, Once, HandleTx
  PROVE  TypeOK' /\ Once'
  <1> DEFINE t == Head(txSocket)
             matches == Match(t)
             returned == IF t \in ToSet(seen) THEN {} ELSE matches
  <1>1. /\ t \in Txs /\ Tail(txSocket) \in Seq(Txs) /\ ~folding
    BY DEF HandleTx, TypeOK
  <1>2. /\ NoteUnconfirmed(t) /\ Return(returned) /\ txSocket' = Tail(txSocket)
        /\ IF matches = {} THEN UNCHANGED <<seen, seenEvicted>> ELSE SeenAdd(t)
        /\ UNCHANGED <<nodeVars, ends, faults, foldVars, record>>
    BY DEF HandleTx
  <1>3. matches \subseteq Matches /\ \A m \in matches : m.tx = t
    BY <1>1, MatchTypes
  <1> HIDE DEF t, matches
  <1>4. /\ seen' \in Seq(Txs) /\ Len(seen') <= SeenMax /\ seenEvicted' \in Nat
        /\ seenEvicted' = 0 => /\ seenEvicted = 0 /\ ToSet(seen) \subseteq ToSet(seen')
                               /\ matches # {} => t \in ToSet(seen')
    <2>1. CASE matches = {}
      BY <1>2, <2>1 DEF TypeOK
    <2>2. CASE matches # {}
      BY <1>1, <1>2, <2>2, SeenTypes
    <2>3. QED
      BY <2>1, <2>2
  <1>5. returned \in SUBSET Matches
    BY <1>3
  <1>6. /\ alerts' \subseteq Matches /\ times' \in [Txs -> Nat]
        /\ \A u \in Txs : times'[u] = times[u] + IF \E m \in returned : m.tx = u THEN 1 ELSE 0
    BY <1>2, <1>5, ReturnTypes
  <1>7. TypeOK'
    BY <1>1, <1>2, <1>4, <1>6, NotedTypes DEF TypeOK, nodeVars, foldVars
  <1>8. ASSUME seenEvicted' = 0, NEW u \in Txs
        PROVE  times'[u] <= 1 /\ (times'[u] # 0 => u \in ToSet(seen'))
    <2>1. times[u] \in Nat /\ times[u] <= 1 /\ (times[u] # 0 => u \in ToSet(seen))
      BY <1>4, <1>8 DEF Once, TypeOK
    <2>2. CASE \E m \in returned : m.tx = u
      <3>1. u = t /\ t \notin ToSet(seen) /\ matches # {}
        BY <1>3, <2>2
      <3>2. QED
        BY <1>4, <1>6, <1>8, <2>1, <2>2, <3>1
    <2>3. CASE ~ \E m \in returned : m.tx = u
      <3>1. times'[u] = times[u]
        BY <1>6, <2>1, <2>3
      <3>2. QED
        BY <1>4, <1>8, <2>1, <3>1
    <2>4. QED
      BY <2>2, <2>3
  <1>9. Once'
    <2>1. pending' = {} /\ folding' = folding
      BY <1>1, <1>2 DEF Once, foldVars
    <2>2. QED
      BY <1>8, <2>1 DEF Once
  <1>10. QED
    BY <1>7, <1>9

LEMMA FoldTxTypes ==
  ASSUME TypeOK, Once, RecordInv, RecordInv', FoldTx
  PROVE  TypeOK' /\ Once'
  <1> DEFINE t == chain[cursor + 1]
             matches == Match(t)
             kept == pending \cup (IF t \in ToSet(seen) THEN {} ELSE matches)
  <1>1. t \in Txs /\ folding
    <2>1. folding /\ ends # << >> /\ cursor < ends[1]
      BY DEF FoldTx, RecordInv, Position
    <2>2. 1 \in 1 .. Len(ends) /\ ends[1] \in Nat /\ ends[1] <= Len(chain)
      BY <2>1 DEF RecordInv, Position, Shape
    <2>3. cursor + 1 \in 1 .. Len(chain) /\ chain \in Seq(Txs)
      BY <2>1, <2>2 DEF RecordInv, Shape
    <2>4. QED
      BY <2>1, <2>3
  <1>2. /\ provisional' = Forget(provisional, t)
        /\ IF matches = {} THEN UNCHANGED <<seen, seenEvicted>> ELSE SeenAdd(t)
        /\ \/ /\ folding' = FALSE /\ pending' = {} /\ Return(kept)
           \/ pending' = kept /\ UNCHANGED <<folding, alertVars>>
        /\ UNCHANGED <<nodeVars, txSocket, faults, provisionalEvicted>>
    BY DEF FoldTx
  <1>3. matches \subseteq Matches /\ \A m \in matches : m.tx = t
    BY <1>1, MatchTypes
  <1> HIDE DEF t, matches
  <1>4. /\ seen' \in Seq(Txs) /\ Len(seen') <= SeenMax /\ seenEvicted' \in Nat
        /\ seenEvicted' = 0 => /\ seenEvicted = 0 /\ ToSet(seen) \subseteq ToSet(seen')
                               /\ matches # {} => t \in ToSet(seen')
    <2>1. CASE matches = {}
      BY <1>2, <2>1 DEF TypeOK
    <2>2. CASE matches # {}
      BY <1>1, <1>2, <2>2, SeenTypes
    <2>3. QED
      BY <2>1, <2>2
  <1>5. kept \in SUBSET Matches
    BY <1>3 DEF TypeOK
  <1>6. provisional' \in Seq(Txs) /\ Len(provisional') <= ProvisionalMax
    <2>1. provisional \in Seq(Txs) /\ Len(provisional) <= ProvisionalMax
      BY DEF TypeOK
    <2>2. /\ Forget(provisional, t) \in Seq(Txs)
          /\ Len(Forget(provisional, t)) <= Len(provisional)
      BY <2>1, Forgotten
    <2>3. QED
      BY <1>2, <2>1, <2>2, BoundAssumption
  <1>7. /\ alerts' \subseteq Matches /\ times' \in [Txs -> Nat] /\ pending' \subseteq Matches
    BY <1>2, <1>5, ReturnTypes DEF TypeOK, alertVars
  <1>8. TypeOK'
    BY <1>2, <1>4, <1>6, <1>7 DEF TypeOK, RecordInv, Shape, nodeVars
  (* What is kept was not alerted on before, and is remembered by now. *)
  <1>9. ASSUME seenEvicted' = 0, NEW u \in Txs
        PROVE  /\ times[u] \in Nat /\ times[u] <= 1 /\ (times[u] # 0 => u \in ToSet(seen'))
               /\ \A m \in kept : m.tx = u => times[u] = 0 /\ u \in ToSet(seen')
    <2>1. /\ times[u] \in Nat /\ times[u] <= 1 /\ (times[u] # 0 => u \in ToSet(seen))
          /\ \A m \in pending : m.tx = u => times[u] = 0 /\ u \in ToSet(seen)
      BY <1>4, <1>9 DEF Once, TypeOK
    <2>2. ASSUME NEW m \in matches, t \notin ToSet(seen), m.tx = u
          PROVE  times[u] = 0 /\ u \in ToSet(seen')
      BY <1>3, <1>4, <1>9, <2>1, <2>2
    <2>3. QED
      BY <1>4, <1>9, <2>1, <2>2
  <1> HIDE DEF kept
  <1>10. CASE folding' = FALSE /\ pending' = {} /\ Return(kept)
    <2>1. \A u \in Txs : times'[u] = times[u] + IF \E m \in kept : m.tx = u THEN 1 ELSE 0
      BY <1>5, <1>10, ReturnTypes
    <2>2. ASSUME seenEvicted' = 0, NEW u \in Txs
          PROVE  times'[u] <= 1 /\ (times'[u] # 0 => u \in ToSet(seen'))
      <3>1. CASE \E m \in kept : m.tx = u
        BY <1>9, <2>1, <2>2, <3>1
      <3>2. CASE ~ \E m \in kept : m.tx = u
        <4>1. times'[u] = times[u]
          BY <1>9, <2>1, <2>2, <3>2
        <4>2. QED
          BY <1>9, <2>2, <4>1
      <3>3. QED
        BY <3>1, <3>2
    <2>3. QED
      BY <1>8, <1>10, <2>2 DEF Once
  <1>11. CASE pending' = kept /\ UNCHANGED <<folding, alertVars>>
    BY <1>1, <1>8, <1>9, <1>11 DEF Once, alertVars
  <1>12. QED
    BY <1>2, <1>10, <1>11

LEMMA NextTypes ==
  RecordInv /\ RecordInv' /\ TypeOK /\ Once /\ [Next]_vars => TypeOK' /\ Once'
  <1> SUFFICES ASSUME RecordInv, RecordInv', TypeOK, Once, [Next]_vars
               PROVE  TypeOK' /\ Once'
    OBVIOUS
  <1>0. /\ chain' \in Seq(Txs) /\ mempool' \subseteq Txs /\ ends' \in Seq(Nat)
        /\ folding' \in BOOLEAN /\ refold' \in BOOLEAN
        /\ done' \in Nat /\ cursor' \in Nat
        /\ record' \in [Coins -> SUBSET Items]
    BY DEF RecordInv, Shape
  <1>1. CASE \E t \in Txs : Broadcast(t)
    BY <1>1, BroadcastTypes
  <1>2. CASE Mine
    <2>1. UNCHANGED <<sent, txSocket, faults, foldVars, record, memoryVars, alertVars>>
      BY <1>2 DEF Mine
    <2>2. QED
      BY <1>0, <2>1 DEF TypeOK, Once, foldVars, memoryVars, alertVars
  <1>3. CASE HandleTx
    BY <1>3, HandleTxTypes
  <1>4. CASE BeginBlock
    BY <1>0, <1>4 DEF BeginBlock, TypeOK, Once, nodeVars, memoryVars, alertVars
  <1>5. CASE FoldTx
    BY <1>5, FoldTxTypes
  <1>6. CASE FoldFails
    <2>1. faults' \in [taken : Nat, kinds : SUBSET Faults]
      BY <1>6, FaultTypes DEF FoldFails
    <2>2. /\ pending' = {}
          /\ UNCHANGED <<nodeVars, txSocket, memoryVars, alertVars>>
      BY <1>6 DEF FoldFails
    <2>3. QED
      BY <1>0, <2>1, <2>2 DEF TypeOK, Once, nodeVars, memoryVars, alertVars
  <1>7. CASE Restart
    <2>1. faults' \in [taken : Nat, kinds : SUBSET Faults]
      BY <1>7, FaultTypes DEF Restart
    <2>2. /\ ~folding /\ provisional' = << >> /\ seen' = << >> /\ txSocket' = << >>
          /\ seenEvicted' = 0 /\ provisionalEvicted' = 0
          /\ times' = [t \in Txs |-> 0]
          /\ UNCHANGED <<nodeVars, foldVars, alerts>>
      BY <1>7 DEF Restart
    <2>3. /\ provisional' \in Seq(Txs) /\ Len(provisional') = 0
          /\ seen' \in Seq(Txs) /\ Len(seen') = 0 /\ txSocket' \in Seq(Txs)
          /\ times' \in [Txs -> Nat] /\ \A t \in Txs : times'[t] = 0
      BY <2>2
    <2>4. pending' = {}
      BY <2>2 DEF Once, foldVars
    <2>5. TypeOK'
      BY <1>0, <2>1, <2>2, <2>3, <2>4, BoundAssumption DEF TypeOK, nodeVars
    <2>6. Once'
      BY <2>3, <2>4 DEF Once
    <2>7. QED
      BY <2>5, <2>6
  <1>8. CASE UNCHANGED vars
    BY <1>8 DEF vars, TypeOK, Once
  <1>9. QED
    BY <1>1, <1>2, <1>3, <1>4, <1>5, <1>6, <1>7, <1>8 DEF Next, HandleBlocks

(* Everything together is inductive. *)
THEOREM Invariance == Spec => [](RecordInv /\ TypeOK /\ Once)
  BY InitRecordInv, NextRecordInv, InitTypes, NextTypes, PTL DEF Spec

(* The variables keep their types, and the two sets kept in memory their bounds. *)
THEOREM TypeCorrect == Spec => []TypeOK
  BY Invariance, PTL

(* A transaction is alerted on once, by the mempool or by its block, however often *)
(* it is sent and however often its block is folded, until something is evicted.   *)
THEOREM AlertsStaySingle == Spec => []AlertedOnce
  <1>1. Once => AlertedOnce
    BY DEF Once, AlertedOnce
  <1>2. QED
    BY <1>1, Invariance, PTL

-----------------------------------------------------------------------------
(* What is alerted on. *)

(* The transactions whose coins the matcher can resolve, in memory or on record. *)
Held == ToSet(provisional) \cup Upto(cursor)
Paying(t) == \E c \in Creates[t] : Watching[c] # {}

(* No deposit on its way to the matcher is lost: it waits in the socket, or is held. *)
Arrives ==
  \A t \in mempool \cup ToSet(chain) : Paying(t) => t \in Held \cup ToSet(txSocket)

(* The socket keeps the order of the broadcasts, so parents come before children. *)
ParentsFirst ==
  \A i \in 1 .. Len(txSocket) : \A c \in Spends[txSocket[i]] :
    Watching[c] # {} =>
      c \in Baseline \cup CreatedBy(Held \cup {txSocket[j] : j \in 1 .. i - 1})

(* A transaction that was folded or is remembered as seen was alerted on in full, *)
(* or the block in hand will; unless it lost to another spend of the same coin.   *)
Told ==
  \A t \in Upto(cursor) \cup ToSet(seen) :
    \/ t \notin Upto(cursor) /\ Spends[t] \cap SpentBy(Upto(cursor)) # {}
    \/ Moved(t) \subseteq alerts \cup pending

AllTold == ~refold /\ Arrives /\ ParentsFirst /\ Told /\ EveryMovementAlerted
TellInv == Undisturbed => AllTold

LEMMA InitTellInv == Init => TellInv
  <1> SUFFICES ASSUME Init PROVE AllTold
    BY DEF TellInv
  <1>1. Upto(cursor) = {} /\ Upto(done) = {} /\ ToSet(chain) = {} /\ ToSet(seen) = {}
    BY DEF Init, Upto, ToSet
  <1>2. mempool = {} /\ Len(txSocket) = 0 /\ ~refold
    BY DEF Init
  <1>3. QED
    BY <1>1, <1>2 DEF AllTold, Arrives, ParentsFirst, Told, EveryMovementAlerted

(* What disturbed the mempool path once stays on the books. *)
LEMMA DisturbanceStays ==
  ASSUME TypeOK, [Next]_vars, Undisturbed'
  PROVE  Undisturbed /\ ~FoldFails /\ ~Restart
  <1>1. ASSUME NEW kind, Fault(kind)
        PROVE  faults.kinds \subseteq faults'.kinds /\ kind \in faults'.kinds
    BY <1>1 DEF Fault
  <1>2. ~FoldFails /\ ~Restart
    BY <1>1 DEF Undisturbed, FoldFails, Restart
  <1>3. faults.kinds \subseteq faults'.kinds
    <2>1. CASE \E t \in Txs : Broadcast(t)
      BY <1>1, <2>1 DEF Broadcast
    <2>2. CASE Mine \/ HandleTx \/ BeginBlock \/ FoldTx
      BY <2>2 DEF Mine, HandleTx, BeginBlock, FoldTx
    <2>3. CASE UNCHANGED vars
      BY <2>3 DEF vars
    <2>4. QED
      BY <1>2, <2>1, <2>2, <2>3 DEF Next, HandleBlocks
  <1>4. provisionalEvicted' = 0 => provisionalEvicted = 0
    <2>1. CASE \E t \in Txs : NoteUnconfirmed(t)
      <3>1. PICK t \in Txs : NoteUnconfirmed(t)
        BY <2>1
      <3>2. provisionalEvicted \in Nat /\ Evicts(provisional, t, ProvisionalMax) \in {0, 1}
        BY DEF TypeOK, Evicts
      <3>3. QED
        BY <3>1, <3>2 DEF NoteUnconfirmed
    <2>2. CASE UNCHANGED provisionalEvicted
      BY <2>2
    <2>3. HandleTx => \E t \in Txs : NoteUnconfirmed(t)
      BY DEF HandleTx, TypeOK
    <2>4. QED
      BY <1>2, <2>1, <2>2, <2>3
         DEF Next, HandleBlocks, Broadcast, Mine, BeginBlock, FoldTx, memoryVars, vars
  <1>5. QED
    BY <1>2, <1>3, <1>4 DEF Undisturbed

(* A transaction whose coins can be resolved, none of them spent yet, is matched *)
(* in full.                                                                      *)
LEMMA FullMatch ==
  ASSUME RecordInv, ~refold, NEW t \in Txs,
         \A c \in Spends[t] : Watching[c] # {} => c \in Baseline \cup CreatedBy(Held),
         Spends[t] \cap SpentBy(Upto(cursor)) = {}
  PROVE  Moved(t) \subseteq Match(t)
  <1>1. ASSUME NEW c \in Spends[t]
        PROVE  Watching[c] \subseteq Owners(c)
    <2>1. c \in Coins
      BY GraphAssumption
    <2>2. record[c] = IF c \in Unspent(Upto(cursor)) THEN Watching[c] ELSE {}
      BY <2>1 DEF RecordInv, Exact, Utxo
    <2>3. c \notin SpentBy(Upto(cursor))
      OBVIOUS
    <2>4. CASE Watching[c] # {} /\ c \in Baseline \cup CreatedBy(Upto(cursor))
      BY <2>2, <2>3, <2>4 DEF Owners, Unspent
    <2>5. CASE c \in CreatedBy(ToSet(provisional))
      BY <2>5 DEF Owners
    <2>6. QED
      BY <2>4, <2>5 DEF Held, CreatedBy
  <1>2. UNION {Watching[c] : c \in Spends[t]} \subseteq UNION {Owners(c) : c \in Spends[t]}
    BY <1>1
  <1>3. QED
    BY <1>2 DEF Moved, Match

(* What is folded cannot be taken away by what the node appends. *)
LEMMA UptoStays ==
  ASSUME Shape, Position, NEW n \in 0 .. Len(chain), NEW b \in Seq(Txs), chain' = chain \o b
  PROVE  {chain'[i] : i \in 1 .. n} = Upto(n)
  <1>1. \A i \in 1 .. n : chain'[i] = chain[i]
    BY DEF Shape
  <1>2. QED
    BY <1>1 DEF Upto

LEMMA BroadcastTold ==
  ASSUME RecordInv, TypeOK, AllTold, Undisturbed', NEW t \in Txs, Broadcast(t)
  PROVE  AllTold'
  <1>1. /\ Spends[t] \subseteq Baseline \cup CreatedBy(mempool \cup ToSet(chain))
        /\ mempool' \subseteq mempool \cup {t} /\ mempool \subseteq Txs
        /\ UNCHANGED <<chain, folding, done, cursor, pending, refold, record>>
        /\ UNCHANGED <<provisional, seen, alerts>>
    BY DEF Broadcast, foldVars, memoryVars, alertVars, TypeOK
  <1>2. Upto(cursor)' = Upto(cursor) /\ Upto(done)' = Upto(done) /\ Held' = Held
        /\ ToSet(chain)' = ToSet(chain)
    BY <1>1 DEF Upto, Held, ToSet
  (* The socket gains t once or twice, and nothing else. *)
  <1>3. /\ txSocket \in Seq(Txs) /\ Len(txSocket') > Len(txSocket)
        /\ \A i \in 1 .. Len(txSocket) : txSocket'[i] = txSocket[i]
        /\ \A i \in Len(txSocket) + 1 .. Len(txSocket') : txSocket'[i] = t
        /\ Len(txSocket') \in Nat
    <2>1. txSocket \in Seq(Txs)
      BY DEF TypeOK
    <2>2. ~Fault("lose")
      BY DEF Fault, Undisturbed
    <2>3. CASE txSocket' = Append(txSocket, t)
      BY <2>1, <2>3
    <2>4. CASE txSocket' = txSocket \o <<t, t>>
      <3>1. <<t, t>> \in Seq(Txs) /\ Len(<<t, t>>) = 2
            /\ \A i \in 1 .. 2 : <<t, t>>[i] = t
        OBVIOUS
      <3>2. QED
        BY <2>1, <2>4, <3>1
    <2>5. QED
      BY <2>2, <2>3, <2>4 DEF Broadcast
  <1>4. ToSet(txSocket) \cup {t} \subseteq ToSet(txSocket')
    <2>1. Len(txSocket) \in Nat /\ txSocket'[Len(txSocket')] = t
      BY <1>3
    <2>2. QED
      BY <1>3, <2>1 DEF ToSet
  <1>5. Arrives'
    BY <1>1, <1>2, <1>4 DEF AllTold, Arrives, ToSet
  <1>6. ParentsFirst'
    <2> SUFFICES ASSUME NEW i \in 1 .. Len(txSocket'), NEW c \in Spends[txSocket'[i]],
                        Watching[c] # {}
                 PROVE  c \in Baseline \cup CreatedBy(Held \cup {txSocket'[j] : j \in 1 .. i - 1})
      BY <1>2 DEF ParentsFirst
    <2>1. CASE i \in 1 .. Len(txSocket)
      <3>1. txSocket'[i] = txSocket[i]
        BY <1>3, <2>1
      <3>2. {txSocket'[j] : j \in 1 .. i - 1} = {txSocket[j] : j \in 1 .. i - 1}
        BY <1>3, <2>1
      <3>3. QED
        BY <2>1, <3>1, <3>2 DEF AllTold, ParentsFirst
    <2>2. CASE i \notin 1 .. Len(txSocket)
      <3>1. i \in Len(txSocket) + 1 .. Len(txSocket') /\ txSocket'[i] = t
        BY <1>3, <2>2
      <3>2. ToSet(txSocket) \subseteq {txSocket'[j] : j \in 1 .. i - 1}
        BY <1>3, <3>1 DEF ToSet
      <3>3. CASE c \in Baseline
        BY <3>3
      <3>4. CASE c \notin Baseline
        <4>1. PICK u \in mempool \cup ToSet(chain) : c \in Creates[u]
          BY <1>1, <3>1, <3>4 DEF CreatedBy
        <4>2. u \in Held \cup ToSet(txSocket)
          BY <4>1 DEF AllTold, Arrives, Paying
        <4>3. u \in Held \cup {txSocket'[j] : j \in 1 .. i - 1}
          BY <3>2, <4>2
        <4>4. QED
          BY <4>1, <4>3 DEF CreatedBy
      <3>5. QED
        BY <3>3, <3>4
    <2>3. QED
      BY <2>1, <2>2
  <1>7. Told' /\ EveryMovementAlerted' /\ ~refold'
    BY <1>1, <1>2 DEF AllTold, Told, EveryMovementAlerted, ToSet, SpentBy, Moved
  <1>8. QED
    BY <1>5, <1>6, <1>7 DEF AllTold

LEMMA ConcatSet ==
  ASSUME NEW a \in Seq(Txs), NEW b \in Seq(Txs)
  PROVE  ToSet(a \o b) = ToSet(a) \cup ToSet(b)
  <1>1. /\ Len(a \o b) = Len(a) + Len(b) /\ Len(a) \in Nat /\ Len(b) \in Nat
        /\ \A i \in 1 .. Len(a) : (a \o b)[i] = a[i]
        /\ \A i \in 1 .. Len(b) : (a \o b)[Len(a) + i] = b[i]
    OBVIOUS
  <1>2. \A i \in 1 .. Len(a) + Len(b) : i \in 1 .. Len(a) \/ i - Len(a) \in 1 .. Len(b)
    BY <1>1
  <1>3. ToSet(a \o b) \subseteq ToSet(a) \cup ToSet(b)
    <2> SUFFICES ASSUME NEW i \in 1 .. Len(a) + Len(b)
                 PROVE  (a \o b)[i] \in ToSet(a) \cup ToSet(b)
      BY <1>1 DEF ToSet
    <2>1. CASE i \in 1 .. Len(a)
      BY <1>1, <2>1 DEF ToSet
    <2>2. CASE i - Len(a) \in 1 .. Len(b)
      <3>1. (a \o b)[Len(a) + (i - Len(a))] = b[i - Len(a)]
        BY <1>1, <2>2
      <3>2. Len(a) + (i - Len(a)) = i
        BY <1>1
      <3>3. QED
        BY <2>2, <3>1, <3>2 DEF ToSet
    <2>3. QED
      BY <1>2, <2>1, <2>2
  <1>4. \A i \in 1 .. Len(b) : Len(a) + i \in 1 .. Len(a \o b)
    BY <1>1
  <1>5. ToSet(a) \cup ToSet(b) \subseteq ToSet(a \o b)
    <2>1. ASSUME NEW i \in 1 .. Len(a)
          PROVE  a[i] \in ToSet(a \o b)
      <3>1. i \in 1 .. Len(a \o b) /\ (a \o b)[i] = a[i]
        BY <1>1
      <3>2. QED
        BY <3>1 DEF ToSet
    <2>2. ASSUME NEW i \in 1 .. Len(b)
          PROVE  b[i] \in ToSet(a \o b)
      <3>1. (a \o b)[Len(a) + i] = b[i]
        BY <1>1
      <3>2. QED
        BY <1>4, <3>1 DEF ToSet
    <2>3. /\ ToSet(a) = {a[i] : i \in 1 .. Len(a)} /\ ToSet(b) = {b[i] : i \in 1 .. Len(b)}
      BY DEF ToSet
    <2>4. QED
      BY <2>1, <2>2, <2>3
  <1>6. QED
    BY <1>3, <1>5

LEMMA MineTold ==
  ASSUME RecordInv, TypeOK, AllTold, Mine
  PROVE  AllTold'
  <1>1. /\ UNCHANGED <<txSocket, folding, done, cursor, pending, refold, record>>
        /\ UNCHANGED <<provisional, seen, alerts>>
    BY DEF Mine, foldVars, memoryVars, alertVars
  <1>0. PICK n \in 1 .. MaxBlock : \E b \in [1 .. n -> mempool] :
          chain' = chain \o b /\ mempool' \subseteq mempool \ ToSet(b)
    BY DEF Mine
  <1>2. PICK b \in [1 .. n -> mempool] :
          chain' = chain \o b /\ mempool' \subseteq mempool \ ToSet(b)
    BY <1>0
  <1>3. /\ b \in Seq(mempool) /\ b \in Seq(Txs) /\ chain \in Seq(Txs)
    BY <1>2, BoundAssumption DEF TypeOK
  <1>4. ToSet(chain') = ToSet(chain) \cup ToSet(b) /\ ToSet(b) \subseteq mempool
    <2>1. ToSet(chain \o b) = ToSet(chain) \cup ToSet(b)
      BY <1>3, ConcatSet
    <2>2. ToSet(b) \subseteq mempool
      BY <1>3 DEF ToSet
    <2>3. QED
      BY <1>2, <2>1, <2>2
  <1>5. Upto(cursor)' = Upto(cursor) /\ Upto(done)' = Upto(done)
    <2>1. done \in 0 .. Len(chain) /\ cursor \in 0 .. Len(chain) /\ Shape /\ Position
      BY DEF RecordInv, Position, Shape
    <2>2. QED
      BY <1>1, <1>2, <1>3, <2>1, UptoStays DEF Upto
  <1>6. Held' = Held
    BY <1>1, <1>5 DEF Held
  <1>7. mempool' \cup ToSet(chain)' \subseteq mempool \cup ToSet(chain)
    BY <1>2, <1>4
  <1>8. Arrives'
    BY <1>1, <1>6, <1>7 DEF AllTold, Arrives, Paying, ToSet
  <1>9. ParentsFirst'
    BY <1>1, <1>6 DEF AllTold, ParentsFirst
  <1>10. Told' /\ EveryMovementAlerted' /\ ~refold'
    BY <1>1, <1>5 DEF AllTold, Told, EveryMovementAlerted, ToSet, SpentBy, Moved
  <1>11. QED
    BY <1>8, <1>9, <1>10 DEF AllTold

(* The bounded set gains nothing but its newest member. *)
LEMMA RememberedOnly ==
  ASSUME NEW s \in Seq(Txs), NEW t \in Txs, NEW max \in Nat \ {0}, Len(s) <= max
  PROVE  ToSet(Remember(s, t, max)) \subseteq ToSet(s) \cup {t}
  <1>1. \A r \in Seq(Txs) : ToSet(Append(r, t)) \subseteq ToSet(r) \cup {t}
    <2> SUFFICES ASSUME NEW r \in Seq(Txs), NEW i \in 1 .. Len(r) + 1
                 PROVE  Append(r, t)[i] \in ToSet(r) \cup {t}
      BY DEF ToSet
    <2>1. CASE i = Len(r) + 1
      BY <2>1
    <2>2. CASE i \in 1 .. Len(r)
      BY <2>2 DEF ToSet
    <2>3. QED
      BY <2>1, <2>2
  <1>2. s # << >> => Tail(s) \in Seq(Txs) /\ ToSet(Tail(s)) \subseteq ToSet(s)
    <2> SUFFICES ASSUME s # << >>
                 PROVE  Tail(s) \in Seq(Txs) /\ ToSet(Tail(s)) \subseteq ToSet(s)
      OBVIOUS
    <2>1. /\ Tail(s) \in Seq(Txs) /\ Len(Tail(s)) = Len(s) - 1 /\ Len(s) \in Nat
          /\ \A i \in 1 .. Len(s) - 1 : Tail(s)[i] = s[i + 1]
      OBVIOUS
    <2>2. \A i \in 1 .. Len(s) - 1 : i + 1 \in 1 .. Len(s)
      BY <2>1
    <2>3. QED
      BY <2>1, <2>2 DEF ToSet
  <1>3. CASE t \in ToSet(s)
    BY <1>3 DEF Remember
  <1>4. CASE t \notin ToSet(s) /\ Len(s) < max
    BY <1>1, <1>4 DEF Remember
  <1>5. CASE t \notin ToSet(s) /\ Len(s) >= max
    <2>1. s # << >> /\ Remember(s, t, max) = Append(Tail(s), t)
      BY <1>5 DEF Remember
    <2>2. QED
      BY <1>1, <1>2, <2>1
  <1>6. QED
    BY <1>3, <1>4, <1>5

(* Only the forgotten member goes. *)
LEMMA ForgetsOne ==
  ASSUME NEW s \in Seq(Txs), NEW t
  PROVE  ToSet(s) \subseteq ToSet(Forget(s, t)) \cup {t}
  <1>1. CASE t \in ToSet(s)
    <2> DEFINE k == CHOOSE i \in DOMAIN s : s[i] = t
               a == SubSeq(s, 1, k - 1)
               b == SubSeq(s, k + 1, Len(s))
    <2>1. k \in 1 .. Len(s) /\ Len(s) \in Nat /\ s[k] = t
      BY <1>1 DEF ToSet
    <2>2. Forget(s, t) = a \o b
      BY <1>1 DEF Forget, RemoveAt
    <2> HIDE DEF k
    <2>3. /\ a \in Seq(Txs) /\ Len(a) = k - 1
          /\ b \in Seq(Txs) /\ Len(b) = Len(s) - k
          /\ \A i \in 1 .. k - 1 : a[i] = s[i]
          /\ \A i \in 1 .. Len(s) - k : b[i] = s[k + i]
      BY <2>1
    <2> HIDE DEF a, b
    <2>4. ToSet(Forget(s, t)) = ToSet(a) \cup ToSet(b)
      BY <2>2, <2>3, ConcatSet
    <2>5. ASSUME NEW i \in 1 .. Len(s)
          PROVE  s[i] \in ToSet(a) \cup ToSet(b) \cup {t}
      <3>1. CASE i < k
        <4>1. i \in 1 .. Len(a) /\ a[i] = s[i]
          BY <2>1, <2>3, <3>1
        <4>2. QED
          BY <4>1 DEF ToSet
      <3>2. CASE i > k
        <4>1. i - k \in 1 .. Len(b) /\ b[i - k] = s[k + (i - k)] /\ k + (i - k) = i
          BY <2>1, <2>3, <3>2
        <4>2. QED
          BY <4>1 DEF ToSet
      <3>3. CASE i = k
        BY <2>1, <3>3
      <3>4. QED
        BY <2>1, <3>1, <3>2, <3>3
    <2>6. ToSet(s) = {s[i] : i \in 1 .. Len(s)}
      BY DEF ToSet
    <2>7. QED
      BY <2>4, <2>5, <2>6
  <1>2. CASE t \notin ToSet(s)
    BY <1>2 DEF Forget
  <1>3. QED
    BY <1>1, <1>2

LEMMA HandleTxTold ==
  ASSUME RecordInv, TypeOK, AllTold, Undisturbed', HandleTx
  PROVE  AllTold'
  <1> DEFINE t == Head(txSocket)
  <1>1. /\ txSocket \in Seq(Txs) /\ txSocket # << >> /\ t \in Txs /\ t = txSocket[1]
        /\ txSocket' \in Seq(Txs) /\ Len(txSocket') = Len(txSocket) - 1
        /\ Len(txSocket) \in Nat
        /\ \A i \in 1 .. Len(txSocket') : txSocket'[i] = txSocket[i + 1]
    BY DEF HandleTx, TypeOK
  <1>2. /\ UNCHANGED <<mempool, chain, folding, done, cursor, pending, refold, record>>
        /\ NoteUnconfirmed(t) /\ Return(IF t \in ToSet(seen) THEN {} ELSE Match(t))
        /\ IF Match(t) = {} THEN UNCHANGED <<seen, seenEvicted>> ELSE SeenAdd(t)
    BY DEF HandleTx, nodeVars, foldVars
  <1>3. Upto(cursor)' = Upto(cursor) /\ Upto(done)' = Upto(done) /\ ToSet(chain)' = ToSet(chain)
    BY <1>2 DEF Upto, ToSet
  <1>4. alerts \subseteq alerts' /\ (t \notin ToSet(seen) => Match(t) \subseteq alerts')
    BY <1>2 DEF Return
  <1> HIDE DEF t
  (* Nothing was evicted, so the coins t pays are held from here on. *)
  <1>5. Held \subseteq Held' /\ (Paying(t) => t \in Held')
    <2>1. /\ provisional \in Seq(Txs) /\ Len(provisional) <= ProvisionalMax
          /\ provisionalEvicted \in Nat /\ provisionalEvicted' = 0
      BY DEF TypeOK, Undisturbed
    <2>2. CASE Paying(t)
      <3>1. /\ provisional' = Remember(provisional, t, ProvisionalMax)
            /\ provisionalEvicted' =
                 provisionalEvicted + Evicts(provisional, t, ProvisionalMax)
        BY <1>2, <2>2 DEF NoteUnconfirmed, Paying
      <3>2. /\ Evicts(provisional, t, ProvisionalMax) \in Nat
            /\ Evicts(provisional, t, ProvisionalMax) = 0 =>
                 ToSet(Remember(provisional, t, ProvisionalMax)) = ToSet(provisional) \cup {t}
        BY <1>1, <2>1, Remembered, BoundAssumption
      <3>3. ToSet(provisional') = ToSet(provisional) \cup {t}
        BY <2>1, <3>1, <3>2
      <3>4. ToSet(provisional)' = ToSet(provisional')
        BY DEF ToSet
      <3>5. QED
        BY <1>3, <3>3, <3>4 DEF Held
    <2>3. CASE ~Paying(t)
      <3>1. provisional' = provisional
        BY <1>2, <2>3 DEF NoteUnconfirmed, Paying
      <3>2. QED
        BY <1>3, <2>3, <3>1 DEF Held, ToSet
    <2>4. QED
      BY <2>2, <2>3
  <1>6. ToSet(txSocket) \subseteq ToSet(txSocket') \cup {t}
    <2> SUFFICES ASSUME NEW i \in 1 .. Len(txSocket), i # 1
                 PROVE  txSocket[i] \in ToSet(txSocket')
      BY <1>1 DEF ToSet
    <2>1. i - 1 \in 1 .. Len(txSocket') /\ txSocket'[i - 1] = txSocket[(i - 1) + 1]
      BY <1>1
    <2>2. QED
      BY <1>1, <2>1 DEF ToSet
  <1>7. Arrives'
    BY <1>2, <1>3, <1>5, <1>6 DEF AllTold, Arrives, Paying, ToSet
  <1>8. ParentsFirst'
    <2> SUFFICES ASSUME NEW i \in 1 .. Len(txSocket'), NEW c \in Spends[txSocket'[i]],
                        Watching[c] # {}
                 PROVE  c \in Baseline \cup CreatedBy(Held' \cup {txSocket'[j] : j \in 1 .. i - 1})
      BY <1>2 DEF ParentsFirst
    <2>1. i + 1 \in 1 .. Len(txSocket) /\ txSocket'[i] = txSocket[i + 1]
      BY <1>1
    <2>2. c \in Baseline \cup CreatedBy(Held \cup {txSocket[j] : j \in 1 .. i})
      BY <2>1 DEF AllTold, ParentsFirst
    <2>3. CASE c \in Baseline
      BY <2>3
    <2>4. CASE c \notin Baseline
      <3>1. PICK u \in Held \cup {txSocket[j] : j \in 1 .. i} : c \in Creates[u]
        BY <2>2, <2>4 DEF CreatedBy
      <3>2. Paying(u)
        BY <3>1 DEF Paying
      <3>3. ASSUME NEW j \in 1 .. i, u = txSocket[j]
            PROVE  u = t \/ u \in {txSocket'[k] : k \in 1 .. i - 1}
        <4>1. CASE j = 1
          BY <1>1, <3>3, <4>1
        <4>2. CASE j # 1
          <5>1. /\ j - 1 \in 1 .. i - 1 /\ j - 1 \in 1 .. Len(txSocket')
                /\ txSocket'[j - 1] = txSocket[(j - 1) + 1] /\ (j - 1) + 1 = j
            BY <1>1, <4>2
          <5>2. QED
            BY <3>3, <5>1
        <4>3. QED
          BY <4>1, <4>2
      <3>4. u \in Held' \cup {txSocket'[k] : k \in 1 .. i - 1}
        BY <1>5, <3>1, <3>2, <3>3
      <3>5. QED
        BY <3>1, <3>4 DEF CreatedBy
    <2>5. QED
      BY <2>3, <2>4
  <1>9. \A u \in ToSet(seen') : u \in ToSet(seen) \/ u = t
    <2>1. CASE Match(t) = {}
      BY <1>2, <2>1 DEF ToSet
    <2>2. CASE SeenAdd(t)
      <3>1. seen' = Remember(seen, t, SeenMax) /\ seen \in Seq(Txs) /\ Len(seen) <= SeenMax
        BY <2>2 DEF SeenAdd, TypeOK
      <3>2. QED
        BY <1>1, <3>1, RememberedOnly, BoundAssumption
    <2>3. QED
      BY <1>2, <2>1, <2>2
  <1>10. \/ t \in Upto(cursor) \cup ToSet(seen)
         \/ Spends[t] \cap SpentBy(Upto(cursor)) # {}
         \/ Moved(t) \subseteq alerts'
    <2> SUFFICES ASSUME t \notin ToSet(seen), Spends[t] \cap SpentBy(Upto(cursor)) = {}
                 PROVE  Moved(t) \subseteq alerts'
      OBVIOUS
    <2>1. \A c \in Spends[t] : Watching[c] # {} => c \in Baseline \cup CreatedBy(Held)
      <3>1. 1 \in 1 .. Len(txSocket) /\ {txSocket[j] : j \in 1 .. 1 - 1} = {}
        BY <1>1
      <3>2. QED
        BY <1>1, <3>1 DEF AllTold, ParentsFirst
    <2>2. Moved(t) \subseteq Match(t)
      BY <1>1, <2>1, FullMatch DEF AllTold
    <2>3. QED
      BY <1>4, <2>2
  <1>11. Told'
    <2> SUFFICES ASSUME NEW u \in Upto(cursor) \cup ToSet(seen')
                 PROVE  \/ u \notin Upto(cursor) /\ Spends[u] \cap SpentBy(Upto(cursor)) # {}
                        \/ Moved(u) \subseteq alerts' \cup pending
      BY <1>2, <1>3 DEF Told, SpentBy, Moved, ToSet
    <2>1. CASE u \in Upto(cursor) \cup ToSet(seen)
      BY <1>4, <2>1 DEF AllTold, Told
    <2>2. CASE u \notin Upto(cursor) \cup ToSet(seen)
      BY <1>9, <1>10, <2>2
    <2>3. QED
      BY <2>1, <2>2
  <1>12. EveryMovementAlerted' /\ ~refold'
    BY <1>2, <1>3, <1>4 DEF AllTold, EveryMovementAlerted, Moved
  <1>13. QED
    BY <1>7, <1>8, <1>11, <1>12 DEF AllTold

LEMMA FoldTxTold ==
  ASSUME RecordInv, TypeOK, Once, AllTold, FoldTx
  PROVE  AllTold'
  <1> DEFINE t == chain[cursor + 1]
             kept == pending \cup (IF t \in ToSet(seen) THEN {} ELSE Match(t))
  <1>1. /\ folding /\ cursor \in Nat /\ cursor < Len(chain) /\ chain \in Seq(Txs) /\ t \in Txs
        /\ cursor + 1 \in 1 .. Len(chain) /\ done \in Nat /\ WellFormed(chain) /\ Shape
    <2>1. folding /\ ends # << >> /\ cursor < ends[1]
      BY DEF FoldTx, RecordInv, Position
    <2>2. 1 \in 1 .. Len(ends) /\ ends[1] \in Nat /\ ends[1] <= Len(chain)
      BY <2>1 DEF RecordInv, Position, Shape
    <2>3. QED
      BY <2>1, <2>2 DEF RecordInv, Shape
  <1>2. /\ UNCHANGED <<mempool, chain, txSocket>>
        /\ cursor' = cursor + 1 /\ provisional' = Forget(provisional, t)
        /\ IF Match(t) = {} THEN UNCHANGED <<seen, seenEvicted>> ELSE SeenAdd(t)
        /\ \/ /\ done' = cursor + 1 /\ refold' = FALSE /\ pending' = {}
              /\ alerts' = alerts \cup kept
           \/ /\ pending' = kept /\ done' = done /\ refold' = refold /\ alerts' = alerts
    BY DEF FoldTx, nodeVars, Return, alertVars
  <1>3. /\ alerts \subseteq alerts' /\ alerts \cup kept \subseteq alerts' \cup pending'
    BY <1>2
  <1>4. Upto(cursor)' = Upto(cursor) \cup {t} /\ t \notin Upto(cursor)
    <2>1. Upto(cursor)' = Upto(cursor) \cup {t}
      BY <1>1, <1>2 DEF Upto
    <2>2. t \notin {chain[j] : j \in 1 .. (cursor + 1) - 1}
      BY <1>1 DEF WellFormed
    <2>3. (cursor + 1) - 1 = cursor
      BY <1>1
    <2>4. QED
      BY <2>1, <2>2, <2>3 DEF Upto
  (* Nothing before t in the chain spends its coins, and everything it spends is there. *)
  <1>5. /\ Spends[t] \subseteq Baseline \cup CreatedBy(Upto(cursor))
        /\ Spends[t] \cap SpentBy(Upto(cursor)) = {}
    <2>1. {chain[j] : j \in 1 .. (cursor + 1) - 1} = Upto(cursor)
      BY <1>1 DEF Upto
    <2>2. QED
      BY <1>1, <2>1 DEF WellFormed
  <1>6. Moved(t) \subseteq alerts' \cup pending'
    <2>1. CASE t \in ToSet(seen)
      <3>1. Moved(t) \subseteq alerts \cup pending
        BY <1>4, <1>5, <2>1 DEF AllTold, Told
      <3>2. QED
        BY <1>3, <3>1
    <2>2. CASE t \notin ToSet(seen)
      <3>1. \A c \in Spends[t] : c \in Baseline \cup CreatedBy(Held)
        BY <1>5 DEF Held, CreatedBy
      <3>2. Moved(t) \subseteq Match(t)
        BY <1>1, <1>5, <3>1, FullMatch DEF AllTold
      <3>3. QED
        BY <1>3, <2>2, <3>2
    <2>3. QED
      BY <2>1, <2>2
  <1> HIDE DEF t, kept
  <1>7. Held \subseteq Held'
    <2>1. ToSet(provisional) \subseteq ToSet(provisional') \cup {t}
      BY <1>2, ForgetsOne DEF TypeOK
    <2>2. ToSet(provisional)' = ToSet(provisional')
      BY DEF ToSet
    <2>3. QED
      BY <1>4, <2>1, <2>2 DEF Held
  <1>8. Arrives'
    BY <1>2, <1>7 DEF AllTold, Arrives, Paying, ToSet
  <1>9. ParentsFirst'
    <2>1. \A S : CreatedBy(Held \cup S) \subseteq CreatedBy(Held' \cup S)
      BY <1>7 DEF CreatedBy
    <2>2. QED
      BY <1>2, <2>1 DEF AllTold, ParentsFirst
  <1>10. \A u \in ToSet(seen') : u \in ToSet(seen) \/ u = t
    <2>1. CASE Match(t) = {}
      BY <1>2, <2>1 DEF ToSet
    <2>2. CASE SeenAdd(t)
      <3>1. seen' = Remember(seen, t, SeenMax) /\ seen \in Seq(Txs) /\ Len(seen) <= SeenMax
        BY <2>2 DEF SeenAdd, TypeOK
      <3>2. QED
        BY <1>1, <3>1, RememberedOnly, BoundAssumption
    <2>3. QED
      BY <1>2, <2>1, <2>2
  <1>11. Told'
    <2> SUFFICES ASSUME NEW u \in Upto(cursor)' \cup ToSet(seen')
                 PROVE  \/ u \notin Upto(cursor)' /\ Spends[u] \cap SpentBy(Upto(cursor)') # {}
                        \/ Moved(u) \subseteq alerts' \cup pending'
      BY DEF Told, SpentBy, Moved, ToSet
    <2>1. CASE u = t
      BY <1>6, <2>1
    <2>2. CASE u # t
      <3>1. u \in Upto(cursor) \cup ToSet(seen)
        BY <1>4, <1>10, <2>2
      <3>2. alerts \cup pending \subseteq alerts' \cup pending'
        BY <1>3 DEF kept
      <3>3. SpentBy(Upto(cursor)) \subseteq SpentBy(Upto(cursor)')
        BY <1>4 DEF SpentBy
      <3>4. u \in Upto(cursor)' => u \in Upto(cursor)
        BY <1>4, <2>2
      <3>5. QED
        BY <3>1, <3>2, <3>3, <3>4 DEF AllTold, Told
    <2>3. QED
      BY <2>1, <2>2
  <1>12. EveryMovementAlerted' /\ ~refold'
    <2>1. CASE done' = done /\ alerts' = alerts
      <3>1. Upto(done)' = Upto(done)
        BY <1>2, <2>1 DEF Upto
      <3>2. QED
        BY <1>2, <2>1, <3>1 DEF AllTold, EveryMovementAlerted, Moved
    <2>2. CASE done' = cursor + 1 /\ pending' = {}
      <3>1. Upto(done)' = Upto(cursor)'
        BY <1>2, <2>2 DEF Upto
      <3>2. \A u \in Upto(cursor)' : Moved(u)' \subseteq alerts'
        BY <1>11, <2>2 DEF Told
      <3>3. QED
        BY <1>2, <3>1, <3>2 DEF AllTold, EveryMovementAlerted
    <2>3. QED
      BY <1>2, <2>1, <2>2
  <1>13. QED
    BY <1>8, <1>9, <1>11, <1>12 DEF AllTold

LEMMA NextTellInv ==
  RecordInv /\ TypeOK /\ Once /\ TellInv /\ [Next]_vars => TellInv'
  <1> SUFFICES ASSUME RecordInv, TypeOK, Once, TellInv, [Next]_vars, Undisturbed'
               PROVE  AllTold'
    BY DEF TellInv
  <1>1. AllTold /\ ~FoldFails /\ ~Restart
    BY DisturbanceStays DEF TellInv
  <1>2. CASE \E t \in Txs : Broadcast(t)
    BY <1>1, <1>2, BroadcastTold
  <1>3. CASE Mine
    BY <1>1, <1>3, MineTold
  <1>4. CASE HandleTx
    BY <1>1, <1>4, HandleTxTold
  <1>5. CASE FoldTx
    BY <1>1, <1>5, FoldTxTold
  <1>6. CASE BeginBlock \/ UNCHANGED vars
    <2>1. /\ UNCHANGED <<mempool, chain, txSocket, done, cursor, refold, provisional, seen>>
          /\ alerts' = alerts /\ pending' = pending
      BY <1>6 DEF BeginBlock, nodeVars, memoryVars, alertVars, vars, Once
    <2>2. Upto(cursor)' = Upto(cursor) /\ Upto(done)' = Upto(done) /\ Held' = Held
      BY <2>1 DEF Upto, Held, ToSet
    <2>3. Arrives' /\ ParentsFirst'
      BY <1>1, <2>1, <2>2 DEF AllTold, Arrives, ParentsFirst, Paying, ToSet
    <2>4. Told' /\ EveryMovementAlerted' /\ ~refold'
      BY <1>1, <2>1, <2>2 DEF AllTold, Told, EveryMovementAlerted, ToSet, SpentBy, Moved
    <2>5. QED
      BY <2>3, <2>4 DEF AllTold
  <1>7. QED
    BY <1>1, <1>2, <1>3, <1>4, <1>5, <1>6 DEF Next, HandleBlocks

(* However far the rawtx socket runs behind the blocks or ahead of them, and however *)
(* often it repeats itself: unless it lost a message, or the process was disturbed,  *)
(* every movement of a watched coin in a folded block was alerted on.                *)
THEOREM NothingMissed == Spec => []NoMissedAlert
  <1>1. TellInv => NoMissedAlert
    BY DEF TellInv, AllTold, NoMissedAlert
  <1>2. QED
    BY <1>1, InitTellInv, NextTellInv, Invariance, PTL DEF Spec

(* A transaction from the mempool whose parents are held is alerted on in full. *)
THEOREM MempoolAlertsComplete == Spec => MempoolAlertIsComplete
  <1> DEFINE Complete ==
        \A t \in Txs :
          /\ HandleTx /\ t = Head(txSocket) /\ t \notin ToSet(seen)
          /\ provisionalEvicted = 0 /\ ~refold
          /\ Spends[t] \subseteq Baseline \cup CreatedBy(ToSet(provisional) \cup Upto(cursor))
          /\ Spends[t] \cap SpentBy(Upto(cursor)) = {}
          => Moved(t) \subseteq alerts'
  <1>1. RecordInv => Complete
    <2> SUFFICES ASSUME RecordInv, NEW t \in Txs, HandleTx, t = Head(txSocket),
                        t \notin ToSet(seen), ~refold,
                        Spends[t] \subseteq
                          Baseline \cup CreatedBy(ToSet(provisional) \cup Upto(cursor)),
                        Spends[t] \cap SpentBy(Upto(cursor)) = {}
                 PROVE  Moved(t) \subseteq alerts'
      OBVIOUS
    <2>1. Moved(t) \subseteq Match(t)
      BY FullMatch DEF Held
    <2>2. Match(t) \subseteq alerts'
      BY DEF HandleTx, Return
    <2>3. QED
      BY <2>1, <2>2
  <1>2. RecordInv => [Complete]_vars
    BY <1>1
  <1>3. QED
    BY <1>2, Invariance, PTL DEF MempoolAlertIsComplete
=============================================================================
