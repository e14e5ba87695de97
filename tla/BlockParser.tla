----------------------------- MODULE BlockParser -----------------------------
(***************************************************************************)
(* match.block.parse_block and match.tx.parse_tx over match.tx.read_tx: a  *)
(* cursor walks a raw block, a header and then transactions that nothing   *)
(* delimits, so each is found only by having read the one before it        *)
(* exactly; or it walks one transaction.                                   *)
(*                                                                         *)
(* The buffers are bytes, with the widths of the code.  What reaches the   *)
(* parser is a message as it was sent, a piece of it, more than it, or one *)
(* with a byte changed.  A txid is represented by the bytes it is the hash *)
(* of.                                                                     *)
(***************************************************************************)
EXTENDS Integers, SequencesExt

CONSTANTS
  Blocks,      \* the blocks that are sent: sequences of transactions
  Overwrites,  \* bound: the values a damaged byte takes
  Trailing,    \* bound: what may follow a block, as a set of byte sequences
  LongCounts   \* numbers of transactions of blocks too long to list; pieces of their starts arrive

(* A length or a count that needs a fourth byte is more than any buffer holds. *)
TooLong == 16777216
Some(S) == {s \in Seq(S) : Len(s) < TooLong}
Byte == 0..255

(* tests/support.py: what the parser is the inverse of.  An input is its 36-byte  *)
(* outpoint with a script, an output a script, and a witness, if any, a stack of  *)
(* items for every input.                                                         *)
Transactions ==
  {t \in [inputs : Some([outpoint : Seq(Byte), script : Some(Byte)]), outputs : Some(Some(Byte)),
          witness : Seq(Some(Some(Byte)))] :
    /\ t.inputs # << >> /\ t.outputs # << >>
    /\ \A i \in DOMAIN t.inputs : Len(t.inputs[i].outpoint) = 36
    /\ t.witness = << >> \/ Len(t.witness) = Len(t.inputs)}

ASSUME ParserAssumption ==
  /\ Blocks \subseteq Some(Transactions) \ {<< >>}
  /\ Overwrites \subseteq Byte /\ Trailing \subseteq Seq(Byte)
  /\ LongCounts \subseteq {n \in Nat : n < TooLong}

VARIABLES
  topic,       \* what was sent: a block, or a transaction
  sent,        \* its transactions
  raw,         \* the bytes that arrived
  pos,         \* the reader's cursor
  pc,          \* the section it is in, or how it ended
  count,       \* the number of transactions the block declares
  tx,          \* what is known of the transaction being read
  txs          \* the transactions read so far

vars == <<topic, sent, raw, pos, pc, count, tx, txs>>

-----------------------------------------------------------------------------
(* The wire format. *)

HEADER_SIZE == 80
Zeros(n) == [i \in 1..n |-> 0]
Null == Zeros(32) \o <<255, 255, 255, 255>>   \* NULL_TXID, COINBASE_VOUT

VarInt(n) ==
  IF n < 253 THEN <<n>>
  ELSE IF n < 65536 THEN <<253, n % 256, n \div 256>>
  ELSE <<254, n % 256, (n \div 256) % 256, n \div 65536, 0>>
Item(s) == VarInt(Len(s)) \o s

Input(in) == in.outpoint \o Item(in.script) \o <<253, 255, 255, 255>>
Output(script) == <<160, 134, 1, 0, 0, 0, 0, 0>> \o Item(script)
Stack(items) == VarInt(Len(items)) \o FlattenSeq([i \in DOMAIN items |-> Item(items[i])])
Witness(t) == FlattenSeq([i \in DOMAIN t.witness |-> Stack(t.witness[i])])
Body(t) ==
  VarInt(Len(t.inputs)) \o FlattenSeq([i \in DOMAIN t.inputs |-> Input(t.inputs[i])])
    \o VarInt(Len(t.outputs)) \o FlattenSeq([i \in DOMAIN t.outputs |-> Output(t.outputs[i])])
Legacy(t) == <<2, 0, 0, 0>> \o Body(t) \o Zeros(4)
Wire(t) ==
  IF t.witness = << >> THEN Legacy(t)
  ELSE <<2, 0, 0, 0>> \o <<0, 1>> \o Body(t) \o Witness(t) \o Zeros(4)
Serialised(b) ==
  Zeros(HEADER_SIZE) \o VarInt(Len(b)) \o FlattenSeq([i \in DOMAIN b |-> Wire(b[i])])

Message(what, b) == IF what = "rawtx" THEN Wire(b[1]) ELSE Serialised(b)

(* What may arrive in place of a message: a piece of it, it with more behind, it with   *)
(* a byte changed, but for the header of a block, which is only copied; and the start   *)
(* of a block too long to list.                                                         *)
Cut(whole) == {SubSeq(whole, 1, n) : n \in 0..Len(whole) - 1}
Followed(whole) == {whole \o more : more \in Trailing}
Damaged(what, whole) ==
  {[whole EXCEPT ![i] = v] :
     i \in IF what = "rawtx" THEN 1..Len(whole) ELSE HEADER_SIZE + 1..Len(whole), v \in Overwrites}
LongStart(n) ==
  {SubSeq(Zeros(HEADER_SIZE) \o VarInt(n), 1, k) : k \in HEADER_SIZE + 1..HEADER_SIZE + Len(VarInt(n))}

Received(what, b) ==
  LET whole == Message(what, b)
  IN  {whole} \cup Cut(whole) \cup Followed(whole) \cup Damaged(what, whole)
        \cup UNION {LongStart(n) : n \in IF what = "rawtx" THEN {} ELSE LongCounts}

-----------------------------------------------------------------------------
(* The reader.  Positions count from zero; Bad is the position of a read that *)
(* failed, and every read after it fails as well.                             *)

Bad == -1
At(p) == raw[p + 1]
Slice(from, to) == SubSeq(raw, from + 1, to)

Take(p, n) == IF p = Bad \/ p + n > Len(raw) THEN Bad ELSE p + n

(* The bytes that follow the first one of a compact size. *)
Extra(first) == CASE first < 253 -> 0 [] first = 253 -> 2 [] first = 254 -> 4 [] OTHER -> 8
HasVarint(p) == p # Bad /\ p < Len(raw) /\ p + 1 + Extra(At(p)) <= Len(raw)

(* Little-endian.  What needs a fourth byte is represented by the least such number. *)
Value(bytes) ==
  IF Len(bytes) = 2 THEN bytes[1] + 256 * bytes[2]
  ELSE IF \A i \in 4..Len(bytes) : bytes[i] = 0
    THEN bytes[1] + 256 * bytes[2] + 65536 * bytes[3] ELSE TooLong
Varint(p) ==
  LET next == p + 1 + Extra(At(p))
  IN  [value |-> IF At(p) < 253 THEN At(p) ELSE Value(Slice(p + 1, next)), next |-> next]

(* A count of items that the rest of the buffer has room for. *)
Count(p, min_item_bytes) ==
  IF HasVarint(p) /\ Varint(p).value * min_item_bytes <= Len(raw) - Varint(p).next
    THEN Varint(p) ELSE [value |-> 0, next |-> Bad]

(* A script or a witness item: its length, then as many bytes. *)
ItemEnd(p) == LET n == Count(p, 1) IN IF n.next = Bad THEN Bad ELSE Take(n.next, n.value)

-----------------------------------------------------------------------------
(* parse_tx is one read_tx, and the check that nothing follows. *)
Init ==
  /\ \/ topic = "rawblock" /\ sent \in Blocks /\ pc = "header" /\ count = 0
     \/ topic = "rawtx" /\ sent \in {<<t>> : t \in UNION {ToSet(b) : b \in Blocks}}
        /\ pc = "tx" /\ count = 1
  /\ raw \in Received(topic, sent)
  /\ pos = 0 /\ tx = << >> /\ txs = << >>

Malformed == pc' = "malformed" /\ UNCHANGED <<pos, count, tx, txs>>

(* Seeded fault: the smallest transaction is taken to be a byte longer. *)
ReadHeader_61 ==
  /\ pc = "header"
  /\ IF Len(raw) < HEADER_SIZE + 1 THEN Malformed
     ELSE IF ~HasVarint(HEADER_SIZE)
       THEN pc' = "struct.error" /\ UNCHANGED <<pos, count, tx, txs>>
     ELSE LET n == Varint(HEADER_SIZE)
          IN  IF n.value = 0 \/ n.value * 61 > Len(raw) - n.next THEN Malformed
              ELSE count' = n.value /\ pos' = n.next /\ pc' = "tx" /\ UNCHANGED <<tx, txs>>

(* parse_block up to the loop.  The count is unpacked with no check that its *)
(* bytes are there, and struct.error is no MalformedBlock.                   *)
ReadHeader ==
  /\ pc = "header"
  /\ IF Len(raw) < HEADER_SIZE + 1 THEN Malformed
     ELSE IF ~HasVarint(HEADER_SIZE)
       THEN pc' = "struct.error" /\ UNCHANGED <<pos, count, tx, txs>>
     ELSE LET n == Varint(HEADER_SIZE)
          IN  IF n.value = 0 \/ n.value * 60 > Len(raw) - n.next THEN Malformed
              ELSE count' = n.value /\ pos' = n.next /\ pc' = "tx" /\ UNCHANGED <<tx, txs>>

(* read_tx: the version, the segwit marker and flag, and the number of inputs. *)
BeginTx ==
  /\ pc = "tx" /\ Len(txs) < count
  /\ LET marked == Len(raw) >= pos + 6 /\ At(pos + 4) = 0
         n_in == Count(Take(Take(pos, 4), IF marked THEN 2 ELSE 0), 41)
     IN  IF (marked /\ At(pos + 5) = 0) \/ n_in.next = Bad \/ n_in.value = 0 THEN Malformed
         ELSE /\ tx' = [start |-> pos, has_witness |-> marked, n_in |-> n_in.value, n_out |-> 0,
                        inputs |-> << >>, outputs |-> << >>, witness_start |-> 0,
                        stacks |-> 0, items |-> 0]
              /\ pos' = n_in.next /\ pc' = "inputs"
              /\ UNCHANGED <<count, txs>>

(* An outpoint, a script, a sequence; after the last, the number of outputs. *)
ReadInput ==
  /\ pc = "inputs"
  /\ LET end == Take(ItemEnd(Take(pos, 36)), 4)
         last == Len(tx.inputs) + 1 = tx.n_in
         n_out == Count(end, 9)
     IN  IF end = Bad \/ (last /\ n_out.next = Bad) THEN Malformed
         ELSE /\ tx' = [tx EXCEPT !.inputs = Append(@, Slice(pos, pos + 36)),
                                  !.n_out = IF last THEN n_out.value ELSE 0]
              /\ pos' = IF last THEN n_out.next ELSE end
              /\ pc' = IF last THEN "outputs" ELSE "inputs"
              /\ UNCHANGED <<count, txs>>

(* An amount, which is not kept, and a script. *)
ReadOutput ==
  /\ pc = "outputs" /\ Len(tx.outputs) < tx.n_out
  /\ LET end == ItemEnd(Take(pos, 8))
     IN  IF end = Bad THEN Malformed
         ELSE /\ tx' = [tx EXCEPT !.outputs = Append(@, Slice(Varint(pos + 8).next, end))]
              /\ pos' = end
              /\ UNCHANGED <<pc, count, txs>>

EndOutputs ==
  /\ pc = "outputs" /\ Len(tx.outputs) = tx.n_out
  /\ tx' = [tx EXCEPT !.witness_start = pos, !.stacks = IF tx.has_witness THEN tx.n_in ELSE 0]
  /\ pc' = "witness"
  /\ UNCHANGED <<pos, count, txs>>

(* The next item of a stack, or the next stack's number of items. *)
ReadWitness ==
  /\ pc = "witness" /\ (tx.items > 0 \/ tx.stacks > 0)
  /\ LET n == Count(pos, 1)
         end == IF tx.items > 0 THEN ItemEnd(pos) ELSE n.next
     IN  IF end = Bad THEN Malformed
         ELSE /\ tx' = IF tx.items > 0 THEN [tx EXCEPT !.items = @ - 1]
                       ELSE [tx EXCEPT !.stacks = @ - 1, !.items = n.value]
              /\ pos' = end
              /\ UNCHANGED <<pc, count, txs>>

(* The hash is taken over version, body and locktime: the span of the transaction *)
(* without the marker, the flag and the witness.                                  *)
Preimage(end) ==
  IF ~tx.has_witness THEN Slice(tx.start, end)
  ELSE Slice(tx.start, tx.start + 4) \o Slice(tx.start + 6, tx.witness_start) \o Slice(pos, end)

Completed(end) ==
  LET is_coinbase == tx.inputs = <<Null>>
  IN  [txid |-> Preimage(end), inputs |-> IF is_coinbase THEN << >> ELSE tx.inputs,
       outputs |-> tx.outputs, is_coinbase |-> is_coinbase, has_witness |-> tx.has_witness]

(* The locktime. *)
EndTx ==
  /\ pc = "witness" /\ tx.items = 0 /\ tx.stacks = 0
  /\ LET end == Take(pos, 4)
     IN  IF end = Bad THEN Malformed
         ELSE /\ txs' = Append(txs, Completed(end))
              /\ pos' = end /\ pc' = "tx" /\ tx' = << >>
              /\ UNCHANGED count

(* Seeded fault: what follows the last transaction is ignored. *)
End_trailing ==
  /\ pc = "tx" /\ Len(txs) = count
  /\ pc' = "parsed"
  /\ UNCHANGED <<pos, count, tx, txs>>

End ==
  /\ pc = "tx" /\ Len(txs) = count
  /\ IF pos # Len(raw) THEN Malformed ELSE pc' = "parsed" /\ UNCHANGED <<pos, count, tx, txs>>

Next ==
  /\ \/ ReadHeader \/ BeginTx \/ ReadInput \/ ReadOutput \/ EndOutputs \/ ReadWitness
     \/ EndTx \/ End
  /\ UNCHANGED <<topic, sent, raw>>

Spec == Init /\ [][Next]_vars

-----------------------------------------------------------------------------
Ends == {"parsed", "malformed", "struct.error"}

(* block.py:60-64, tests/test_block.py:55-89, tests/test_tx.py:57-93: a block or a    *)
(* transaction that arrives whole is parsed, none of the checks on counts refuses it, *)
(* and the result is what was sent: outpoints, scripts, the hash without the witness. *)
IntactIsParsed ==
  pc \in Ends /\ raw = Message(topic, sent) =>
    /\ pc = "parsed"
    /\ txs = [i \in DOMAIN sent |->
         LET t == sent[i]  coinbase == Len(t.inputs) = 1 /\ t.inputs[1].outpoint = Null
         IN  [txid |-> Legacy(t), outputs |-> t.outputs,
              inputs |-> IF coinbase THEN << >>
                         ELSE [j \in DOMAIN t.inputs |-> t.inputs[j].outpoint],
              is_coinbase |-> coinbase, has_witness |-> t.witness # << >>]]

(* block.py:61-64, 99-102, tests/test_block.py:108-127: a piece of a message, and    *)
(* one with something after it, are never parsed, however well the bytes line up;     *)
(* and a block that is parsed, whatever byte of it was damaged, has the number of     *)
(* transactions it declares, which are all of its bytes when none has a witness.      *)
AcceptedIsWhole ==
  pc = "parsed" =>
    LET declared == IF topic = "rawtx" THEN [value |-> 1, next |-> 0] ELSE Varint(HEADER_SIZE)
    IN  /\ ~IsStrictPrefix(raw, Message(topic, sent))
        /\ ~IsStrictPrefix(Message(topic, sent), raw)
        /\ Len(txs) = declared.value
        /\ (\A i \in DOMAIN txs : ~txs[i].has_witness) =>
             FlattenSeq([i \in DOMAIN txs |-> txs[i].txid]) = Slice(declared.next, Len(raw))
=============================================================================
