--------------------------- MODULE MCStreamIngest ---------------------------
(* A deposit, two conflicting spends of it, a spend of the change, and a     *)
(* spend of a coin recorded at enrolment.                                    *)
EXTENDS StreamIngest

CONSTANTS base, deposited, change,
          deposit, spend, sweep, last, x, y

MCTxs == {deposit, spend, sweep, last}
MCCoins == {base, deposited, change}
MCItems == {x, y}
MCSpends == [t \in MCTxs |->
  CASE t = deposit -> {base} [] t \in {spend, sweep} -> {deposited} [] t = last -> {change}]
MCCreates == [t \in MCTxs |->
  CASE t = deposit -> {deposited} [] t = spend -> {change} [] OTHER -> {}]

(* x watches every script; y only the deposit's, as another tenant. *)
MCWatching == [c \in MCCoins |-> IF c = deposited THEN {x, y} ELSE {x}]
(* Only the deposit and its change are watched. *)
BareWatching == [c \in MCCoins |-> IF c = base THEN {} ELSE {x}]
MCBaseline == {base}
=============================================================================
