---------------------------- MODULE RecordChain ----------------------------
(***************************************************************************)
(* What the block path promises the record (docs/architecture.md section   *)
(* 4): within one run of the service, the blocks folded into the record    *)
(* form one branch of the block tree, oldest first, each the child of the  *)
(* one before it.  Where the first one sits is not promised.               *)
(***************************************************************************)
EXTENDS Naturals, Sequences

CONSTANTS Blocks,   \* every block of the tree
          Parent    \* Parent[b] is the block b builds on

VARIABLE log        \* the blocks folded since the service started

Init == \/ log = << >>
        \/ \E b \in Blocks : log = <<b>>

(* One more block is folded: any block at first, then only a child. *)
Extend(b) ==
  /\ log # << >> => Parent[b] = log[Len(log)]
  /\ log' = Append(log, b)

(* The process is replaced; the new one knows of no block. *)
Forget == log' = << >>

Next == Forget \/ \E b \in Blocks : Extend(b)

Spec == Init /\ [][Next]_log
=============================================================================
