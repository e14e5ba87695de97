--------------------------- MODULE ChainFollower ---------------------------
(***************************************************************************)
(* reconcile.ChainFollower driven by StreamIngest._handle_block, with the  *)
(* node and the rawblock socket as its environment.                        *)
(*                                                                         *)
(* The node may activate a new best block between any two RPC calls of one *)
(* handler.  A publication may be dropped, delivered twice, overtaken, or  *)
(* arrive unparseable; an RPC call may fail; the store may fail while a    *)
(* block is folded; the process may be restarted.  Every one of these is a *)
(* fault taken from a budget, so that a run chooses which of them it       *)
(* studies.                                                                *)
(***************************************************************************)
EXTENDS SequencesExt

CONSTANTS
  Blocks,       \* every block the node can ever know
  NoBlock,      \* "no block": the parent of a root, the hash of no tip
  Parent,       \* Parent[b]: block b's prev_hash
  Height,       \* Height[b]: the height the node reports for b
  FirstActive,  \* the node's best block when the service starts
  StartTip,     \* the `tip` given to the constructor, or NoBlock for None
  MaxCatchUp,   \* the `max_catch_up` given to the constructor
  Faults,       \* which of FaultKinds the environment may produce
  MaxFaults     \* bound: how many of them in one behaviour

FaultKinds == {"drop", "duplicate", "malform", "reorder", "rpc", "store", "restart"}

ASSUME BlocksAssumption ==
  /\ NoBlock \notin Blocks
  /\ Parent \in [Blocks -> Blocks \cup {NoBlock}]
  /\ Height \in [Blocks -> Nat]
  /\ \A b \in Blocks : Parent[b] # NoBlock => Height[b] = Height[Parent[b]] + 1

ASSUME FollowerAssumption ==
  /\ FirstActive \in Blocks
  /\ StartTip \in Blocks \cup {NoBlock}
  /\ MaxCatchUp \in Nat
  /\ Faults \subseteq FaultKinds
  /\ MaxFaults \in Nat

VARIABLES
  active,     \* node: the best block
  published,  \* node: how many rawblock messages it has sent (the sequence number)
  socket,     \* messages sent and not yet received
  faults,     \* faults taken from the budget so far: how many, and of which kinds
  pc,         \* where the handler is: idle, describe, check, fetch or apply
  incoming,   \* the block of the message last received
  target,     \* the height of `incoming`, once known
  due,        \* the blocks the handler owes the record, oldest first
  tip,        \* ChainFollower.tip; hash = NoBlock stands for None
  last_seq,   \* SequenceTracker's last_seq for rawblock; 0 stands for None
  needs_reconciliation,  \* SequenceTracker's flag
  applied,    \* the blocks wholly folded since the process started
  touched,    \* the blocks of which any transaction was ever folded (survives restarts)
  heard       \* the blocks whose message this process received, parseable or not

nodeVars == <<active, published>>
callVars == <<pc, incoming, target, due>>
recordVars == <<tip, applied, touched>>
trackVars == <<last_seq, needs_reconciliation, heard>>
vars == <<active, published, socket, faults, pc, incoming, target, due, tip,
          last_seq, needs_reconciliation, applied, touched, heard>>

NoTip == [hash |-> NoBlock, height |-> 0]

(* b and everything b builds on: the least set that has b, and the parent of   *)
(* whatever it has.                                                            *)
HasParents(S) == \A b \in S : Parent[b] = NoBlock \/ Parent[b] \in S
Branch == [b \in Blocks |->
  {c \in Blocks : \A S \in SUBSET Blocks : b \in S /\ HasParents(S) => c \in S}]

Related(b, c) == b \in Branch[c] \/ c \in Branch[b]

Message == [block : Blocks, seq : Nat \ {0}, ok : BOOLEAN]

Init ==
  /\ active = FirstActive /\ published = 0
  /\ socket = << >> /\ faults = [taken |-> 0, kinds |-> {}]
  /\ pc = "idle" /\ incoming = NoBlock /\ target = 0 /\ due = << >>
  /\ tip = IF StartTip = NoBlock THEN NoTip
           ELSE [hash |-> StartTip, height |-> Height[StartTip]]
  /\ last_seq = 0 /\ needs_reconciliation = FALSE /\ heard = {}
  /\ applied = IF StartTip = NoBlock THEN << >> ELSE <<StartTip>>
  /\ touched = IF StartTip = NoBlock THEN {} ELSE {StartTip}

(* One fault of the kind is taken from the budget. *)
Fault(kind) ==
  /\ kind \in Faults /\ faults.taken < MaxFaults
  /\ faults' = [taken |-> faults.taken + 1, kinds |-> faults.kinds \cup {kind}]

-----------------------------------------------------------------------------
(* The node: bitcoind's best block changes, by an extension or a reorg, and  *)
(* the new best block is published with the next sequence number.            *)

NodeActivate(b) ==
  LET message(good) == [block |-> b, seq |-> published + 1, ok |-> good]
  IN  /\ Height[b] > Height[active]
      /\ active' = b
      /\ published' = published + 1
      /\ \/ socket' = Append(socket, message(TRUE)) /\ UNCHANGED faults
         \/ Fault("drop") /\ UNCHANGED socket
         \/ Fault("malform") /\ socket' = Append(socket, message(FALSE))
         \/ Fault("duplicate")
            /\ socket' = socket \o <<message(TRUE), message(TRUE)>>
      /\ UNCHANGED <<callVars, recordVars, trackVars>>

-----------------------------------------------------------------------------
(* The handler. *)

(* SequenceTracker.observe: does this number reveal a loss?  A repeat does not. *)
Loss(seq) == last_seq # 0 /\ seq \notin {last_seq, last_seq + 1}

(* A message is taken off the socket, the oldest unless one has overtaken it, and *)
(* its number observed.                                                           *)
Observe(i) ==
  /\ pc = "idle"
  /\ IF i = 1 THEN UNCHANGED faults ELSE Fault("reorder")
  /\ socket' = RemoveAt(socket, i)
  /\ last_seq' = socket[i].seq
  /\ incoming' = socket[i].block
  /\ heard' = heard \cup {socket[i].block}
  /\ UNCHANGED <<nodeVars, recordVars>>

(* Seeded fault: a block that does not parse leaves the flag as it was. *)
ReceiveMalformed_unflagged(i) ==
  /\ Observe(i)
  /\ ~socket[i].ok
  /\ UNCHANGED <<pc, target, due, needs_reconciliation>>

(* MalformedBlock: nothing is folded and the flag is set. *)
ReceiveMalformed(i) ==
  /\ Observe(i)
  /\ ~socket[i].ok
  /\ needs_reconciliation' = TRUE
  /\ UNCHANGED <<pc, target, due>>

(* The child of the tip: owed as it is, one above the tip, no call to the node. *)
ReceiveChild(i) ==
  /\ Observe(i)
  /\ socket[i].ok
  /\ tip.hash # NoBlock /\ Parent[socket[i].block] = tip.hash
  /\ pc' = "apply"
  /\ due' = <<socket[i].block>> /\ target' = tip.height + 1
  /\ needs_reconciliation' = (needs_reconciliation \/ Loss(socket[i].seq))

(* The tip itself again: nothing is owed, and the call ends in success. *)
ReceiveAgain(i) ==
  /\ Observe(i)
  /\ socket[i].ok
  /\ socket[i].block = tip.hash
  /\ needs_reconciliation' = FALSE
  /\ UNCHANGED <<pc, target, due>>

(* Anything else, the first block included: the node must say where it sits. *)
ReceiveOther(i) ==
  /\ Observe(i)
  /\ socket[i].ok
  /\ socket[i].block # tip.hash
  /\ tip.hash # NoBlock => Parent[socket[i].block] # tip.hash
  /\ pc' = "describe"
  /\ needs_reconciliation' = (needs_reconciliation \/ Loss(socket[i].seq))
  /\ UNCHANGED <<target, due>>

Receive ==
  \E i \in 1 .. Len(socket) :
    \/ ReceiveMalformed(i) \/ ReceiveChild(i) \/ ReceiveAgain(i) \/ ReceiveOther(i)

(* An exception leaves blocks_to_apply or _apply_block: _handle_block flags  *)
(* the tracker and raises it on.  The tip stays where the applying stopped.  *)
Raise ==
  /\ pc' = "idle" /\ due' = << >> /\ needs_reconciliation' = TRUE
  /\ UNCHANGED <<nodeVars, socket, incoming, target, tip, applied, last_seq, heard>>

(* _height_of(incoming) answers. *)
Describe ==
  /\ pc = "describe"
  /\ target' = Height[incoming]
  /\ IF tip.hash = NoBlock
       THEN pc' = "apply" /\ due' = <<incoming>>
       ELSE pc' = "check" /\ UNCHANGED due
  /\ UNCHANGED <<nodeVars, socket, faults, incoming, recordVars, trackVars>>

OnActiveChain(b) == b \in Branch[active]

(* Not a gap that catch-up may close, once the tip is on the active chain. *)
OutOfReach == target < tip.height + 1 \/ target - tip.height - 1 > MaxCatchUp

(* _on_active_chain(tip) answers, and the size of the gap is checked. *)
CheckTip ==
  /\ pc = "check"
  /\ OnActiveChain(tip.hash) /\ ~OutOfReach
  /\ pc' = "fetch"
  /\ UNCHANGED <<nodeVars, socket, faults, incoming, target, due, recordVars, trackVars>>

CheckTipFails ==
  /\ pc = "check"
  /\ ~OnActiveChain(tip.hash) \/ OutOfReach
  /\ Raise
  /\ UNCHANGED <<faults, touched>>

(* Seeded fault: the gap is fetched from the tip's own height. *)
NextHeight_from_tip == tip.height + Len(due)

NextHeight == tip.height + Len(due) + 1
ExpectedParent == IF due = << >> THEN tip.hash ELSE due[Len(due)]

(* _fetch(height): the block the active chain has there now.  getblock by    *)
(* hash returns the same bytes whenever it is asked, so the pair of calls    *)
(* reads the node where getblockhash does.                                   *)
Fetched(b) == b \in Branch[active] /\ Height[b] = NextHeight

Fetch ==
  /\ pc = "fetch" /\ NextHeight < target
  /\ \E b \in Blocks :
       /\ Fetched(b)
       /\ Parent[b] = ExpectedParent
       /\ due' = Append(due, b)
  /\ UNCHANGED <<nodeVars, socket, faults, pc, incoming, target, recordVars, trackVars>>

(* The node has no block that high, or has one that does not follow. *)
FetchFails ==
  /\ pc = "fetch" /\ NextHeight < target
  /\ ~\E b \in Blocks : Fetched(b) /\ Parent[b] = ExpectedParent
  /\ Raise
  /\ UNCHANGED <<faults, touched>>

(* Seeded fault: the block in hand is not compared with the last fetched one. *)
JoinGap_unchecked ==
  /\ pc = "fetch" /\ NextHeight >= target
  /\ due' = Append(due, incoming)
  /\ pc' = "apply"
  /\ UNCHANGED <<nodeVars, socket, faults, incoming, target, recordVars, trackVars>>

(* All are fetched: the incoming block must follow the last of them. *)
JoinGap ==
  /\ pc = "fetch" /\ NextHeight >= target
  /\ Parent[incoming] = ExpectedParent
  /\ due' = Append(due, incoming)
  /\ pc' = "apply"
  /\ UNCHANGED <<nodeVars, socket, faults, incoming, target, recordVars, trackVars>>

JoinGapFails ==
  /\ pc = "fetch" /\ NextHeight >= target
  /\ Parent[incoming] # ExpectedParent
  /\ Raise
  /\ UNCHANGED <<faults, touched>>

(* RpcError, RpcTransportError or an unusable answer, at any of the calls. *)
RpcFails ==
  /\ \/ pc \in {"describe", "check"}
     \/ pc = "fetch" /\ NextHeight < target
  /\ Fault("rpc")
  /\ Raise
  /\ UNCHANGED touched

(* Seeded faults: every owed block advances the tip to the height of the one in *)
(* hand; the heights of the fetched blocks are counted down.                    *)
DueHeight_incoming == target
DueHeight_down == IF Len(due) = 1 THEN target ELSE tip.height - 1

(* The height _advance is called with: the incoming block's own, or one more *)
(* than the tip for a block that was fetched.                                *)
DueHeight == IF Len(due) = 1 THEN target ELSE tip.height + 1

(* Seeded fault: the flag is cleared by each block and not by the last one. *)
Apply_clears_early ==
  /\ pc = "apply"
  /\ applied' = Append(applied, Head(due))
  /\ touched' = touched \cup {Head(due)}
  /\ tip' = [hash |-> Head(due), height |-> DueHeight]
  /\ due' = Tail(due)
  /\ pc' = IF Len(due) = 1 THEN "idle" ELSE pc
  /\ needs_reconciliation' = FALSE
  /\ UNCHANGED <<nodeVars, socket, faults, incoming, target, last_seq, heard>>

(* _apply_block folds the next block and the tip advances behind it; when it *)
(* was the last one, the flag is cleared.                                    *)
Apply ==
  /\ pc = "apply"
  /\ applied' = Append(applied, Head(due))
  /\ touched' = touched \cup {Head(due)}
  /\ tip' = [hash |-> Head(due), height |-> DueHeight]
  /\ due' = Tail(due)
  /\ IF Len(due) = 1
       THEN pc' = "idle" /\ needs_reconciliation' = FALSE
       ELSE UNCHANGED <<pc, needs_reconciliation>>
  /\ UNCHANGED <<nodeVars, socket, faults, incoming, target, last_seq, heard>>

(* The store raises part-way through a block: some of it stays folded. *)
ApplyFails ==
  /\ pc = "apply"
  /\ Fault("store")
  /\ touched' = touched \cup {Head(due)}
  /\ Raise

(* The process is replaced.  Tip, flag and counters lived in memory; what    *)
(* the socket held is gone with the subscription.                            *)
Restart ==
  /\ Fault("restart")
  /\ pc' = "idle" /\ incoming' = NoBlock /\ target' = 0 /\ due' = << >>
  /\ tip' = NoTip /\ applied' = << >>
  /\ last_seq' = 0 /\ needs_reconciliation' = FALSE /\ heard' = {}
  /\ socket' = << >>
  /\ UNCHANGED <<nodeVars, touched>>

Handler == \/ Receive \/ Describe \/ CheckTip \/ CheckTipFails
           \/ Fetch \/ FetchFails \/ JoinGap \/ JoinGapFails \/ Apply

Next == \/ \E b \in Blocks : NodeActivate(b)
        \/ Handler \/ RpcFails \/ ApplyFails \/ Restart

Spec == Init /\ [][Next]_vars

(* The caller keeps polling, entering Subscriber.run again when an exception    *)
(* has left it, and no step of the handler waits on anything but an RPC call,   *)
(* which has a timeout.                                                         *)
FairSpec == Spec /\ WF_vars(Handler)

-----------------------------------------------------------------------------
(* Properties. *)

(* The shapes of the variables, and which steps of a call hold which data. *)
TypeOK ==
  /\ active \in Blocks /\ published \in Nat
  /\ socket \in Seq(Message) /\ faults \in [taken : Nat, kinds : SUBSET Faults]
  /\ pc \in {"idle", "describe", "check", "fetch", "apply"}
  /\ incoming \in Blocks \cup {NoBlock}
  /\ target \in Nat /\ due \in Seq(Blocks)
  /\ tip \in [hash : Blocks \cup {NoBlock}, height : Nat]
  /\ last_seq \in Nat /\ needs_reconciliation \in BOOLEAN
  /\ applied \in Seq(Blocks) /\ touched \subseteq Blocks /\ heard \subseteq Blocks

(* Consecutive blocks of the sequence are parent and child. *)
Chained(s) == \A i \in 1 .. Len(s) - 1 : Parent[s[i + 1]] = s[i]

(* reconcile.py:178-192: whatever the node does between the calls of one catch-up, *)
(* the blocks one process folds form one branch: none is skipped, none is folded   *)
(* twice and no two branches are spliced together.                                 *)
OneBranch == Chained(applied)

(* reconcile.py:79-91,135,149: the tip is the last block wholly folded, and the    *)
(* height counted locally is the height the node has for it, so the next catch-up  *)
(* counts its gap from the right place.                                            *)
TipIsExact ==
  IF applied = << >>
    THEN tip = NoTip
    ELSE tip = [hash |-> applied[Len(applied)], height |-> Height[applied[Len(applied)]]]

(* stream.py:205-218, sequence.py:147-154: a service at rest with the flag clear   *)
(* has folded the block it heard of last; a call that raised, and a block that did *)
(* not parse, always leave the flag set.                                           *)
UnflaggedIsCurrent ==
  pc = "idle" /\ ~needs_reconciliation /\ incoming # NoBlock => tip.hash = incoming

(* reconcile.py:178-181, 65-76: the record never holds transactions of two blocks  *)
(* of competing branches.                                                          *)
NoSplice == \A b, c \in touched : Related(b, c)

(* sequence.py:147-154, 167-172: unless a message overtook another, the flag is    *)
(* cleared only when every block that this process received, parseable or not, and *)
(* that shares a branch with the tip is wholly folded, as far back as the first    *)
(* block the process knows of.                                                     *)
FlagUntilRepaired ==
  [][needs_reconciliation /\ ~needs_reconciliation' /\ "reorder" \notin faults'.kinds =>
       \A b \in heard' :
         Related(b, tip'.hash) /\ Height[b] >= Height[applied'[1]] => b \in ToSet(applied')]_vars

(* The record is RecordChain's log: each step extends the branch by one child,     *)
(* restarts it, or leaves it alone.                                                *)
Record == INSTANCE RecordChain WITH log <- applied
ImplementsRecordChain == Record!Spec

(* No further fault and no reorg can happen, b is the best block and its message,   *)
(* intact, the last the socket holds, and it is within reach of a tip below it.     *)
LastIntact(b) ==
  /\ faults.taken = MaxFaults
  /\ active = b /\ \A c \in Blocks : Height[c] > Height[b] => b \in Branch[c]
  /\ socket # << >>
  /\ socket[Len(socket)].block = b /\ socket[Len(socket)].ok
  /\ tip.hash \in Branch[b] \ {b} /\ Height[b] - tip.height - 1 <= MaxCatchUp
  /\ \A c \in ToSet(due) \cup {socket[i].block : i \in DOMAIN socket} : Related(b, c)

(* reconcile.py:22-24, stream.py:210-211: when the node's chain has settled and the *)
(* failures have stopped, one intact block message is enough: every block lost to   *)
(* drops, parse errors, RPC failures and store failures before it is folded, and    *)
(* the flag is cleared.                                                             *)
RepairsItself ==
  \A b \in Blocks :
    LastIntact(b) ~> (~needs_reconciliation /\ b \in ToSet(applied))
=============================================================================
