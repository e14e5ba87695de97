------------------------------ MODULE Delivery ------------------------------
(***************************************************************************)
(* What channels/base.py promises of one send: its DeliveryResult is given *)
(* once, is ok only when a server has the message, and is a permanent      *)
(* failure only when every server has said that it will never take it.     *)
(* A server may take the message at any time, also after the result: a     *)
(* retriable failure does not say that the message is nowhere.             *)
(***************************************************************************)
CONSTANT Servers

VARIABLES
  took,    \* the servers that have the message
  no,      \* the servers that have said no for good
  report   \* the DeliveryResult

Reports == {"none", "ok", "retriable", "permanent"}

Init == took = {} /\ no = {} /\ report = "none"

Take(s) == took' = took \cup {s} /\ UNCHANGED <<no, report>>

SayNo(s) == no' = no \cup {s} /\ UNCHANGED <<took, report>>

Report ==
  /\ report = "none"
  /\ \/ report' = "ok" /\ took # {}
     \/ report' = "permanent" /\ no = Servers
     \/ report' = "retriable"
  /\ UNCHANGED <<took, no>>

Next == Report \/ \E s \in Servers : Take(s) \/ SayNo(s)

Spec == Init /\ [][Next]_<<took, no, report>>
=============================================================================
