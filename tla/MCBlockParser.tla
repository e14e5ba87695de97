---------------------------- MODULE MCBlockParser ----------------------------
(* A smallest block; one with a witness of two stacks between transactions without; *)
(* and one with a script long enough for its length to take three bytes.            *)
EXTENDS BlockParser

In(tag, script) == [outpoint |-> [i \in 1..36 |-> IF i <= 32 THEN tag ELSE 0], script |-> script]
Tx(ins, outs, witness) == [inputs |-> ins, outputs |-> outs, witness |-> witness]

Coinbase == Tx(<<[outpoint |-> Null, script |-> <<3, 9>>]>>, <<<<0, 1, 7>>>>, << >>)
Smallest == Tx(<<In(7, << >>)>>, <<<< >>>>, << >>)
Segwit == Tx(<<In(7, << >>), In(0, << >>)>>, <<<<0, 1, 8>>, << >>>>, <<<<<<48>>, <<2, 3>>>>, <<<<5>>>>>>)
LongScript == Tx(<<In(9, << >>)>>, <<[i \in 1..253 |-> 81]>>, << >>)

MCBlocks == {<<Smallest>>, <<Coinbase, Segwit, Smallest>>, <<Coinbase, LongScript>>}
MCTrailing == {<<0>>, <<0, 1, 2>>, Wire(Smallest)}
=============================================================================
