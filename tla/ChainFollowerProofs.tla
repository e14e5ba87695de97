------------------------ MODULE ChainFollowerProofs ------------------------
(***************************************************************************)
(* What ChainFollower guarantees for every block tree, every schedule of   *)
(* the node and every combination of faults.                               *)
(***************************************************************************)
EXTENDS ChainFollower, SequenceTheorems, TLAPS

FaultLog == [taken : Nat, kinds : SUBSET Faults]

(* What the handler knows about the blocks it is about to fold: they form a   *)
(* branch that starts at the child of the tip, their heights count up from    *)
(* the tip's, and the last one is the block of the message in hand.           *)
Owed ==
  /\ pc \in {"idle", "describe", "check"} => due = << >>
  /\ pc # "idle" => incoming \in Blocks
  /\ pc \in {"check", "fetch"} => applied # << >> /\ target = Height[incoming]
  /\ pc = "fetch" => tip.height < target
  /\ pc = "apply" => /\ due # << >>
                     /\ due[Len(due)] = incoming
                     /\ target = Height[incoming]
                     /\ applied = << >> => Len(due) = 1
  /\ Chained(due)
  /\ applied # << >> /\ due # << >> => Parent[due[1]] = tip.hash
  /\ applied # << >> => \A i \in 1 .. Len(due) : Height[due[i]] = tip.height + i

IInv == TypeOK /\ OneBranch /\ TipIsExact /\ UnflaggedIsCurrent /\ Owed

(* A branch stays one when a child of its last block is appended. *)
LEMMA ChainedAppend ==
  ASSUME NEW s \in Seq(Blocks), NEW b \in Blocks, Chained(s),
         s # << >> => Parent[b] = s[Len(s)]
  PROVE  Chained(Append(s, b))
  <1> DEFINE t == Append(s, b)
  <1>1. Len(t) = Len(s) + 1 /\ Len(s) \in Nat
    OBVIOUS
  <1>2. \A i \in 1 .. Len(s) : t[i] = s[i]
    OBVIOUS
  <1>3. t[Len(s) + 1] = b
    OBVIOUS
  <1>4. ASSUME NEW i \in 1 .. Len(t) - 1
        PROVE  Parent[t[i + 1]] = t[i]
    <2>1. CASE i = Len(s)
      BY <1>1, <1>2, <1>3, <2>1
    <2>2. CASE i < Len(s)
      BY <1>1, <1>2, <2>2 DEF Chained
    <2>3. QED
      BY <1>1, <2>1, <2>2
  <1>5. QED
    BY <1>4 DEF Chained

(* Dropping the first block of a branch leaves a branch. *)
LEMMA ChainedTail ==
  ASSUME NEW s \in Seq(Blocks), s # << >>, Chained(s)
  PROVE  /\ Chained(Tail(s))
         /\ Tail(s) \in Seq(Blocks)
         /\ Len(Tail(s)) = Len(s) - 1
         /\ \A i \in 1 .. Len(s) - 1 : Tail(s)[i] = s[i + 1]
  <1>1. Tail(s) \in Seq(Blocks) /\ Len(Tail(s)) = Len(s) - 1
    OBVIOUS
  <1>2. \A i \in 1 .. Len(s) - 1 : Tail(s)[i] = s[i + 1]
    OBVIOUS
  <1>3. Chained(Tail(s))
    BY <1>1, <1>2 DEF Chained
  <1>4. QED
    BY <1>1, <1>2, <1>3

(* Reading the head of the socket leaves its tail, shifted by one. *)
LEMMA HeadIsRead ==
  ASSUME NEW s \in Seq(Message), s # << >>
  PROVE  /\ Len(RemoveAt(s, 1)) = Len(s) - 1
         /\ \A k \in 1 .. Len(s) - 1 : RemoveAt(s, 1)[k] = s[k + 1]
  <1> DEFINE rest == SubSeq(s, 2, Len(s))
  <1>1. Len(s) \in Nat \ {0}
    BY EmptySeq
  <1>2. \A k \in 2 .. Len(s) : s[k] \in Message
    OBVIOUS
  <1>3. /\ rest \in Seq(Message)
        /\ Len(rest) = IF 2 <= Len(s) THEN Len(s) - 2 + 1 ELSE 0
        /\ \A k \in 1 .. Len(s) - 2 + 1 : rest[k] = s[2 + k - 1]
    <2>1. 2 \in Int /\ Len(s) \in Int
      BY <1>1
    <2>2. QED
      BY <2>1, <1>2, SubSeqProperties
  <1>4. SubSeq(s, 1, 0) = << >>
    BY SubSeqEmpty
  <1>5. RemoveAt(s, 1) = SubSeq(s, 1, 0) \o rest
    BY DEF RemoveAt
  <1> HIDE DEF rest
  <1>6. << >> \o rest = rest
    BY <1>3, ConcatEmptySeq
  <1>7. RemoveAt(s, 1) = rest
    BY <1>4, <1>5, <1>6
  <1> DEFINE n == Len(s)
  <1> HIDE DEF n
  <1>8. n \in Nat \ {0} => /\ (IF 2 <= n THEN n - 2 + 1 ELSE 0) = n - 1
                           /\ \A k \in 1 .. n - 1 : k \in 1 .. n - 2 + 1 /\ 2 + k - 1 = k + 1
    OBVIOUS
  <1>9. /\ (IF 2 <= Len(s) THEN Len(s) - 2 + 1 ELSE 0) = Len(s) - 1
        /\ \A k \in 1 .. Len(s) - 1 : k \in 1 .. Len(s) - 2 + 1 /\ 2 + k - 1 = k + 1
    BY <1>1, <1>8 DEF n
  <1>10. \A k \in 1 .. Len(s) - 1 : rest[k] = s[k + 1]
    BY <1>3, <1>9
  <1>11. Len(rest) = Len(s) - 1
    BY <1>3, <1>9
  <1> HIDE DEF rest
  <1>12. Len(RemoveAt(s, 1)) = Len(s) - 1
    BY <1>7, <1>11
  <1>13. \A k \in 1 .. Len(s) - 1 : RemoveAt(s, 1)[k] = s[k + 1]
    BY <1>7, <1>10
  <1>14. QED
    BY <1>12, <1>13

(* Taking a message off the socket leaves messages. *)
LEMMA RemoveAtType ==
  ASSUME NEW s \in Seq(Message), NEW i \in 1 .. Len(s)
  PROVE  RemoveAt(s, i) \in Seq(Message)
  <1>1. SubSeq(s, 1, i - 1) \in Seq(Message)
    OBVIOUS
  <1>2. SubSeq(s, i + 1, Len(s)) \in Seq(Message)
    OBVIOUS
  <1>3. QED
    BY <1>1, <1>2 DEF RemoveAt

LEMMA InitIInv == Init => IInv
  <1> SUFFICES ASSUME Init PROVE IInv
    OBVIOUS
  <1> USE BlocksAssumption, FollowerAssumption
  <1>1. TypeOK
    <2>1. /\ tip \in [hash : Blocks \cup {NoBlock}, height : Nat]
          /\ applied \in Seq(Blocks) /\ touched \subseteq Blocks
      <3>1. CASE StartTip = NoBlock
        BY <3>1 DEF Init, NoTip
      <3>2. CASE StartTip # NoBlock
        BY <3>2 DEF Init
      <3>3. QED
        BY <3>1, <3>2
    <2>2. socket \in Seq(Message) /\ due \in Seq(Blocks)
      BY DEF Init
    <2>3. QED
      BY <2>1, <2>2 DEF Init, TypeOK
  <1>2. OneBranch
    BY DEF Init, OneBranch, Chained
  <1>3. TipIsExact
    BY DEF Init, TipIsExact, NoTip
  <1>4. UnflaggedIsCurrent
    BY DEF Init, UnflaggedIsCurrent
  <1>5. Owed
    BY DEF Init, Owed, Chained
  <1>6. QED
    BY <1>1, <1>2, <1>3, <1>4, <1>5 DEF IInv

(* The last block folded is the tip, at the height the node has for it. *)
LEMMA TipOfApplied ==
  ASSUME TypeOK, TipIsExact
  PROVE  /\ applied = << >> <=> tip.hash = NoBlock
         /\ applied # << >> => /\ tip.hash = applied[Len(applied)]
                               /\ tip.hash \in Blocks
                               /\ tip.height = Height[tip.hash]
  <1>1. CASE applied = << >>
    BY <1>1 DEF TipIsExact, NoTip
  <1>2. CASE applied # << >>
    <2>1. applied[Len(applied)] \in Blocks
      BY <1>2 DEF TypeOK
    <2>2. QED
      BY <1>2, <2>1, BlocksAssumption DEF TipIsExact
  <1>3. QED
    BY <1>1, <1>2

(* An exception leaves the call idle and flagged, with nothing owed. *)
LEMMA RaiseIInv ==
  ASSUME IInv, Raise, faults' \in FaultLog, touched' \subseteq Blocks
  PROVE  IInv'
  <1> USE DEF IInv, Raise, nodeVars
  <1>1. TypeOK'
    BY DEF TypeOK, FaultLog
  <1>2. OneBranch' /\ TipIsExact'
    BY DEF OneBranch, Chained, TipIsExact
  <1>3. UnflaggedIsCurrent'
    BY DEF UnflaggedIsCurrent
  <1>4. Owed'
    BY DEF Owed, Chained
  <1>5. QED
    BY <1>1, <1>2, <1>3, <1>4

LEMMA FaultType ==
  ASSUME NEW kind, TypeOK, Fault(kind)
  PROVE  /\ faults' \in FaultLog
         /\ faults.kinds \subseteq faults'.kinds /\ kind \in faults'.kinds
  BY DEF Fault, TypeOK, FaultLog

LEMMA NodeActivateIInv ==
  ASSUME IInv, NEW b \in Blocks, NodeActivate(b)
  PROVE  IInv'
  <1> USE DEF IInv, NodeActivate, callVars, recordVars, trackVars
  <1>1. published + 1 \in Nat \ {0}
    BY DEF TypeOK
  <1>2. socket' \in Seq(Message) /\ faults' \in FaultLog
    <2> DEFINE message(good) == [block |-> b, seq |-> published + 1, ok |-> good]
    <2>1. message(TRUE) \in Message /\ message(FALSE) \in Message
      BY <1>1 DEF Message
    <2>2. <<message(TRUE), message(TRUE)>> \in Seq(Message)
      BY <2>1
    <2>3. /\ socket \in Seq(Message)
          /\ socket' \in {socket, Append(socket, message(TRUE)),
                         Append(socket, message(FALSE)),
                         socket \o <<message(TRUE), message(TRUE)>>}
      BY DEF TypeOK, Fault
    <2> HIDE DEF message
    <2>4. socket \o <<message(TRUE), message(TRUE)>> \in Seq(Message)
      BY <2>2, <2>3, ConcatProperties
    <2>5. Append(socket, message(TRUE)) \in Seq(Message)
      BY <2>1, <2>3, AppendProperties
    <2>6. Append(socket, message(FALSE)) \in Seq(Message)
      BY <2>1, <2>3, AppendProperties
    <2>7. socket' \in Seq(Message)
      BY <2>3, <2>4, <2>5, <2>6
    <2>8. faults' \in FaultLog
      BY FaultType DEF TypeOK, FaultLog
    <2>9. QED
      BY <2>7, <2>8
  <1>3. TypeOK'
    BY <1>1, <1>2 DEF TypeOK, FaultLog
  <1>4. OneBranch' /\ TipIsExact'
    BY DEF OneBranch, Chained, TipIsExact
  <1>5. UnflaggedIsCurrent' /\ Owed'
    BY DEF UnflaggedIsCurrent, Owed, Chained
  <1>6. QED
    BY <1>3, <1>4, <1>5

(* Taking a message changes neither the record nor the tip. *)
LEMMA ObserveFacts ==
  ASSUME IInv, NEW i \in 1 .. Len(socket), Observe(i)
  PROVE  /\ socket[i] \in Message
         /\ socket' \in Seq(Message)
         /\ incoming' = socket[i].block /\ incoming' \in Blocks
         /\ last_seq' \in Nat /\ heard' \subseteq Blocks
         /\ pc = "idle" /\ due = << >>
         /\ faults' \in FaultLog
         /\ UNCHANGED <<active, published, tip, applied, touched>>
         /\ OneBranch' /\ TipIsExact'
  <1>1. socket[i] \in Message
    BY DEF IInv, TypeOK
  <1>2. socket' \in Seq(Message)
    BY RemoveAtType DEF IInv, TypeOK, Observe
  <1>3. /\ UNCHANGED <<active, published, tip, applied, touched>>
        /\ faults' \in FaultLog
    BY FaultType DEF Observe, nodeVars, recordVars, IInv, TypeOK, FaultLog
  <1>4. OneBranch' /\ TipIsExact'
    BY <1>3 DEF IInv, OneBranch, Chained, TipIsExact
  <1>5. QED
    BY <1>1, <1>2, <1>3, <1>4 DEF Observe, IInv, TypeOK, Owed, Message

LEMMA ReceiveIInv ==
  ASSUME IInv, Receive
  PROVE  IInv'
  <1> PICK i \in 1 .. Len(socket) :
        ReceiveMalformed(i) \/ ReceiveChild(i) \/ ReceiveAgain(i) \/ ReceiveOther(i)
    BY DEF Receive
  <1> Observe(i)
    BY DEF ReceiveMalformed, ReceiveChild, ReceiveAgain, ReceiveOther
  <1>0. /\ socket[i] \in Message
        /\ socket' \in Seq(Message)
        /\ incoming' = socket[i].block /\ incoming' \in Blocks
        /\ last_seq' \in Nat /\ heard' \subseteq Blocks
        /\ pc = "idle" /\ due = << >>
        /\ faults' \in FaultLog
        /\ UNCHANGED <<active, published, tip, applied, touched>>
        /\ OneBranch' /\ TipIsExact'
    BY ObserveFacts
  <1>1. CASE ReceiveMalformed(i)
    <2>1. TypeOK'
      BY <1>0, <1>1 DEF IInv, TypeOK, FaultLog, ReceiveMalformed
    <2>2. UnflaggedIsCurrent' /\ Owed'
      BY <1>0, <1>1 DEF IInv, ReceiveMalformed, UnflaggedIsCurrent, Owed, Chained
    <2>3. QED
      BY <1>0, <2>1, <2>2 DEF IInv
  <1>2. CASE ReceiveAgain(i)
    <2>1. TypeOK'
      BY <1>0, <1>2 DEF IInv, TypeOK, FaultLog, ReceiveAgain
    <2>2. UnflaggedIsCurrent' /\ Owed'
      BY <1>0, <1>2 DEF IInv, ReceiveAgain, UnflaggedIsCurrent, Owed, Chained
    <2>3. QED
      BY <1>0, <2>1, <2>2 DEF IInv
  <1>3. CASE ReceiveOther(i)
    <2>1. TypeOK'
      BY <1>0, <1>3 DEF IInv, TypeOK, FaultLog, ReceiveOther
    <2>2. UnflaggedIsCurrent' /\ Owed'
      BY <1>0, <1>3 DEF IInv, ReceiveOther, UnflaggedIsCurrent, Owed, Chained
    <2>3. QED
      BY <1>0, <2>1, <2>2 DEF IInv
  <1>4. CASE ReceiveChild(i)
    <2> DEFINE b == socket[i].block
    <2>1. b \in Blocks /\ due' = <<b>> /\ incoming' = b /\ pc' = "apply"
      BY <1>0, <1>4 DEF ReceiveChild
    <2>2. /\ applied # << >> /\ tip.hash \in Blocks
          /\ tip.height = Height[tip.hash] /\ Parent[b] = tip.hash
      BY <1>4, TipOfApplied, BlocksAssumption DEF IInv, ReceiveChild
    <2>3. Height[b] = tip.height + 1
      BY <2>1, <2>2, BlocksAssumption
    <2>4. target' = tip.height + 1 /\ tip.height \in Nat
      BY <1>4 DEF IInv, TypeOK, FaultLog, ReceiveChild
    <2> HIDE DEF b
    <2>5. TypeOK'
      BY <1>0, <1>4, <2>1, <2>4 DEF IInv, TypeOK, FaultLog, ReceiveChild
    <2>6. UnflaggedIsCurrent'
      BY <2>1 DEF UnflaggedIsCurrent
    <2>7. Owed'
      BY <1>0, <2>1, <2>2, <2>3, <2>4 DEF Owed, Chained
    <2>8. QED
      BY <1>0, <2>5, <2>6, <2>7 DEF IInv
  <1>5. QED
    BY <1>1, <1>2, <1>3, <1>4

LEMMA DescribeIInv ==
  ASSUME IInv, Describe
  PROVE  IInv'
  <1> USE DEF IInv, Describe, nodeVars, recordVars, trackVars
  <1>1. target' = Height[incoming] /\ target' \in Nat /\ incoming \in Blocks /\ due = << >>
    BY BlocksAssumption DEF Owed
  <1>2. OneBranch' /\ TipIsExact' /\ UnflaggedIsCurrent'
    BY DEF OneBranch, Chained, TipIsExact, UnflaggedIsCurrent
  <1>3. CASE tip.hash = NoBlock
    <2>1. applied = << >> /\ due' = <<incoming>> /\ pc' = "apply"
      BY <1>3, TipOfApplied
    <2>2. TypeOK'
      BY <1>1, <2>1 DEF TypeOK
    <2>3. Owed'
      BY <1>1, <2>1 DEF Owed, Chained
    <2>4. QED
      BY <1>2, <2>2, <2>3
  <1>4. CASE tip.hash # NoBlock
    <2>1. applied # << >> /\ due' = due /\ pc' = "check"
      BY <1>4, TipOfApplied
    <2>2. TypeOK'
      BY <1>1, <2>1 DEF TypeOK
    <2>3. Owed'
      BY <1>1, <2>1 DEF Owed, Chained
    <2>4. QED
      BY <1>2, <2>2, <2>3
  <1>5. QED
    BY <1>3, <1>4

LEMMA CheckTipIInv ==
  ASSUME IInv, CheckTip
  PROVE  IInv'
  <1> USE DEF IInv, CheckTip, nodeVars, recordVars, trackVars
  <1>1. TypeOK'
    BY DEF TypeOK
  <1>2. OneBranch' /\ TipIsExact' /\ UnflaggedIsCurrent'
    BY DEF OneBranch, Chained, TipIsExact, UnflaggedIsCurrent
  <1>3. tip.height < target
    BY DEF TypeOK, OutOfReach
  <1>4. Owed'
    BY <1>3 DEF Owed, Chained
  <1>5. QED
    BY <1>1, <1>2, <1>4

(* A block that follows the ones already owed may be owed next. *)
LEMMA OweNext ==
  ASSUME IInv, pc = "fetch", NEW b \in Blocks, Parent[b] = ExpectedParent,
         due' = Append(due, b), UNCHANGED <<tip, applied>>
  PROVE  /\ due' \in Seq(Blocks) /\ due' # << >> /\ due'[Len(due')] = b
         /\ Chained(due') /\ Parent[due'[1]] = tip.hash
         /\ \A i \in 1 .. Len(due') : Height[due'[i]] = tip.height + i
         /\ Len(due') = Len(due) + 1
  <1> USE DEF IInv
  <1>1. /\ due \in Seq(Blocks) /\ Chained(due) /\ applied # << >>
        /\ due # << >> => Parent[due[1]] = tip.hash
        /\ \A i \in 1 .. Len(due) : Height[due[i]] = tip.height + i
    BY DEF TypeOK, Owed
  <1>2. tip.hash \in Blocks /\ tip.height = Height[tip.hash] /\ tip.height \in Nat
    BY <1>1, TipOfApplied, BlocksAssumption
  <1>3. /\ due' \in Seq(Blocks) /\ Len(due') = Len(due) + 1
        /\ due'[Len(due) + 1] = b
        /\ \A i \in 1 .. Len(due) : due'[i] = due[i]
    BY <1>1
  <1>4. Chained(due')
    BY <1>1, ChainedAppend DEF ExpectedParent
  <1>5. Height[b] = tip.height + Len(due) + 1 /\ (due = << >> => Parent[b] = tip.hash)
    <2>1. CASE due = << >>
      BY <1>2, <2>1, BlocksAssumption DEF ExpectedParent
    <2>2. CASE due # << >>
      <3>1. due[Len(due)] \in Blocks /\ Height[due[Len(due)]] = tip.height + Len(due)
        BY <1>1, <2>2
      <3>2. Parent[b] = due[Len(due)]
        BY <2>2 DEF ExpectedParent
      <3>3. Height[b] = Height[due[Len(due)]] + 1
        BY <3>1, <3>2, BlocksAssumption
      <3>4. QED
        BY <1>1, <1>2, <2>2, <3>1, <3>3
    <2>3. QED
      BY <2>1, <2>2
  <1>6. Parent[due'[1]] = tip.hash
    <2>1. CASE due = << >>
      BY <1>1, <1>3, <1>5, <2>1
    <2>2. CASE due # << >>
      BY <1>1, <1>3, <2>2
    <2>3. QED
      BY <2>1, <2>2
  <1>7. ASSUME NEW i \in 1 .. Len(due')
        PROVE  Height[due'[i]] = tip.height + i
    <2>1. CASE i = Len(due) + 1
      <3>1. due'[i] = b
        BY <1>3, <2>1
      <3>2. Len(due) \in Nat
        BY <1>1
      <3>3. QED
        BY <1>2, <1>5, <2>1, <3>1, <3>2
    <2>2. CASE i # Len(due) + 1
      <3>1. i \in 1 .. Len(due) /\ due'[i] = due[i]
        BY <1>1, <1>3, <2>2
      <3>2. QED
        BY <1>1, <3>1
    <2>3. QED
      BY <2>1, <2>2
  <1>8. QED
    BY <1>1, <1>3, <1>4, <1>6, <1>7

LEMMA FetchIInv ==
  ASSUME IInv, Fetch
  PROVE  IInv'
  <1> USE DEF IInv, Fetch, nodeVars, recordVars, trackVars
  <1>1. PICK b \in Blocks : Parent[b] = ExpectedParent /\ due' = Append(due, b)
    OBVIOUS
  <1>2. /\ due' \in Seq(Blocks) /\ Chained(due') /\ Parent[due'[1]] = tip.hash
        /\ \A i \in 1 .. Len(due') : Height[due'[i]] = tip.height + i
    BY <1>1, OweNext
  <1>3. TypeOK'
    BY <1>2 DEF TypeOK
  <1>4. OneBranch' /\ TipIsExact' /\ UnflaggedIsCurrent'
    BY DEF OneBranch, Chained, TipIsExact, UnflaggedIsCurrent
  <1>5. Owed'
    BY <1>2 DEF Owed
  <1>6. QED
    BY <1>3, <1>4, <1>5

LEMMA JoinGapIInv ==
  ASSUME IInv, JoinGap
  PROVE  IInv'
  <1> USE DEF IInv, JoinGap, nodeVars, recordVars, trackVars
  <1>1. incoming \in Blocks /\ applied # << >> /\ target = Height[incoming]
    BY DEF Owed
  <1>2. /\ due' \in Seq(Blocks) /\ due' # << >> /\ due'[Len(due')] = incoming
        /\ Chained(due') /\ Parent[due'[1]] = tip.hash
        /\ \A i \in 1 .. Len(due') : Height[due'[i]] = tip.height + i
    BY <1>1, OweNext
  <1>3. TypeOK'
    BY <1>2 DEF TypeOK
  <1>4. OneBranch' /\ TipIsExact' /\ UnflaggedIsCurrent'
    BY DEF OneBranch, Chained, TipIsExact, UnflaggedIsCurrent
  <1>5. Owed'
    BY <1>1, <1>2 DEF Owed
  <1>6. QED
    BY <1>3, <1>4, <1>5

LEMMA ApplyIInv ==
  ASSUME IInv, Apply
  PROVE  IInv'
  <1> USE DEF IInv, Apply, nodeVars
  <1> DEFINE b == Head(due)
  <1>1. /\ due \in Seq(Blocks) /\ due # << >> /\ b = due[1] /\ b \in Blocks
        /\ applied \in Seq(Blocks) /\ Len(due) \in Nat \ {0}
    BY DEF TypeOK, Owed
  <1>2. /\ due' \in Seq(Blocks) /\ Chained(due') /\ Len(due') = Len(due) - 1
        /\ \A i \in 1 .. Len(due) - 1 : due'[i] = due[i + 1]
    BY <1>1, ChainedTail DEF Owed
  <1>3. applied # << >> => /\ tip.hash = applied[Len(applied)]
                           /\ tip.height \in Nat
                           /\ Parent[b] = tip.hash
                           /\ Height[b] = tip.height + 1
    BY <1>1, TipOfApplied DEF Owed, TypeOK
  <1>4. applied' \in Seq(Blocks) /\ applied' # << >> /\ applied'[Len(applied')] = b
    BY <1>1
  <1>5. DueHeight = Height[b] /\ DueHeight \in Nat
    <2>1. CASE Len(due) = 1
      BY <1>1, <2>1, BlocksAssumption DEF DueHeight, Owed
    <2>2. CASE Len(due) # 1
      BY <1>1, <1>3, <2>2, BlocksAssumption DEF DueHeight, Owed
    <2>3. QED
      BY <2>1, <2>2
  <1>6. OneBranch'
    BY <1>1, <1>3, ChainedAppend DEF OneBranch
  <1>7. TipIsExact' /\ tip'.hash = b /\ tip'.height = Height[b]
    BY <1>4, <1>5 DEF TipIsExact
  <1>8. TypeOK'
    BY <1>1, <1>2, <1>4, <1>5 DEF TypeOK
  <1>9. UnflaggedIsCurrent'
    BY <1>1, <1>7 DEF UnflaggedIsCurrent, Owed
  <1>10. ASSUME NEW i \in 1 .. Len(due')
         PROVE  Height[due'[i]] = tip'.height + i
    <2>1. due'[i] = due[i + 1] /\ i + 1 \in 2 .. Len(due)
      BY <1>1, <1>2
    <2>2. applied # << >>
      BY <1>1, <2>1 DEF Owed
    <2>3. Height[due[i + 1]] = tip.height + (i + 1)
      BY <2>1, <2>2 DEF Owed
    <2>4. tip'.height = tip.height + 1 /\ tip.height \in Nat /\ i \in Nat
      BY <1>2, <1>3, <1>7, <2>2
    <2>5. Height[due'[i]] = Height[due[i + 1]]
      BY <2>1
    <2> HIDE DEF IInv, Apply, nodeVars
    <2>6. tip.height + (i + 1) = tip'.height + i
      BY <2>4
    <2>7. QED
      BY <2>3, <2>5, <2>6
  <1>11. due' # << >> => Parent[due'[1]] = tip'.hash
    <2> SUFFICES ASSUME due' # << >> PROVE Parent[due'[1]] = b
      BY <1>7
    <2>1. Len(due) > 1
      BY <1>1, <1>2
    <2>2. Parent[due[2]] = due[1]
      BY <1>1, <2>1 DEF Owed, Chained
    <2>3. QED
      BY <1>1, <1>2, <2>1, <2>2
  <1>12. CASE Len(due) = 1
    <2>1. due' = << >> /\ pc' = "idle"
      BY <1>2, <1>12
    <2>2. Owed'
      BY <1>2, <2>1 DEF Owed
    <2>3. QED
      BY <1>6, <1>7, <1>8, <1>9, <2>2
  <1>13. CASE Len(due) # 1
    <2>1. due' # << >> /\ pc' = pc /\ due'[Len(due')] = due[Len(due)]
      BY <1>1, <1>2, <1>13
    <2>2. Owed'
      BY <1>2, <1>4, <1>10, <1>11, <2>1 DEF Owed
    <2>3. QED
      BY <1>6, <1>7, <1>8, <1>9, <2>2
  <1>14. QED
    BY <1>12, <1>13

LEMMA RestartIInv ==
  ASSUME IInv, Restart
  PROVE  IInv'
  <1> USE DEF IInv, Restart, nodeVars
  <1>0. faults' \in FaultLog
    BY FaultType
  <1>1. TypeOK'
    <2>1. tip' \in [hash : Blocks \cup {NoBlock}, height : Nat]
      BY DEF NoTip
    <2>2. /\ active' \in Blocks /\ published' \in Nat /\ touched' \subseteq Blocks
          /\ socket' \in Seq(Message) /\ due' \in Seq(Blocks) /\ applied' \in Seq(Blocks)
      BY DEF TypeOK
    <2>3. QED
      BY <1>0, <2>1, <2>2 DEF TypeOK, FaultLog
  <1>2. OneBranch' /\ TipIsExact' /\ UnflaggedIsCurrent'
    BY DEF OneBranch, Chained, TipIsExact, UnflaggedIsCurrent
  <1>3. Owed'
    BY DEF Owed, Chained
  <1>4. QED
    BY <1>1, <1>2, <1>3

(* Every step preserves the invariant. *)
LEMMA NextIInv == IInv /\ [Next]_vars => IInv'
  <1> SUFFICES ASSUME IInv, [Next]_vars PROVE IInv'
    OBVIOUS
  <1>0. TypeOK /\ touched \subseteq Blocks /\ faults \in FaultLog
    BY DEF IInv, TypeOK, FaultLog
  <1>1. CASE \E b \in Blocks : NodeActivate(b)
    BY <1>1, NodeActivateIInv
  <1>2. CASE Receive
    BY <1>2, ReceiveIInv
  <1>3. CASE Describe
    BY <1>3, DescribeIInv
  <1>4. CASE CheckTip
    BY <1>4, CheckTipIInv
  <1>5. CASE CheckTipFails
    BY <1>0, <1>5, RaiseIInv DEF CheckTipFails
  <1>6. CASE Fetch
    BY <1>6, FetchIInv
  <1>7. CASE FetchFails
    BY <1>0, <1>7, RaiseIInv DEF FetchFails
  <1>8. CASE JoinGap
    BY <1>8, JoinGapIInv
  <1>9. CASE JoinGapFails
    BY <1>0, <1>9, RaiseIInv DEF JoinGapFails
  <1>10. CASE Apply
    BY <1>10, ApplyIInv
  <1>11. CASE RpcFails
    BY <1>0, <1>11, RaiseIInv, FaultType DEF RpcFails
  <1>12. CASE ApplyFails
    <2>1. Head(due) \in Blocks
      BY <1>12 DEF IInv, TypeOK, Owed, ApplyFails
    <2>2. QED
      BY <1>0, <1>12, <2>1, RaiseIInv, FaultType DEF ApplyFails
  <1>13. CASE Restart
    BY <1>13, RestartIInv
  <1>14. CASE UNCHANGED vars
    BY <1>14 DEF vars, IInv, TypeOK, OneBranch, TipIsExact, UnflaggedIsCurrent, Owed, Chained
  <1>15. QED
    BY <1>1, <1>2, <1>3, <1>4, <1>5, <1>6, <1>7, <1>8, <1>9, <1>10, <1>11, <1>12,
       <1>13, <1>14 DEF Next, Handler

(* The inductive invariant holds of every behaviour. *)
THEOREM Inductive == Spec => []IInv
  BY InitIInv, NextIInv, PTL DEF Spec

(* Every variable keeps its type, whatever the tree, the node and the faults. *)
THEOREM TypeCorrect == Spec => []TypeOK
  <1>1. IInv => TypeOK
    BY DEF IInv
  <1>2. QED
    BY <1>1, Inductive, PTL

(* The blocks one process folds form one branch, for every tree and every     *)
(* interleaving of the node with the calls of a catch-up.                     *)
THEOREM FoldsOneBranch == Spec => []OneBranch
  <1>1. IInv => OneBranch
    BY DEF IInv
  <1>2. QED
    BY <1>1, Inductive, PTL

(* The tip names the last block folded and carries the node's height for it,  *)
(* although heights are counted locally on all paths but two.                 *)
THEOREM TipStaysExact == Spec => []TipIsExact
  <1>1. IInv => TipIsExact
    BY DEF IInv
  <1>2. QED
    BY <1>1, Inductive, PTL

(* At rest with the flag clear, the block last heard of is the tip: failures  *)
(* are never silent about the block in hand.                                  *)
THEOREM FailuresAreFlagged == Spec => []UnflaggedIsCurrent
  <1>1. IInv => UnflaggedIsCurrent
    BY DEF IInv
  <1>2. QED
    BY <1>1, Inductive, PTL

(* A step of the follower is a step of RecordChain, or leaves the log alone.  *)
LEMMA StepRefines == IInv /\ [Next]_vars => [Record!Next]_applied
  <1> SUFFICES ASSUME IInv, [Next]_vars PROVE [Record!Next]_applied
    OBVIOUS
  <1> USE DEF nodeVars, callVars, recordVars, trackVars
  <1>1. CASE Apply
    <2>1. Head(due) \in Blocks /\ Head(due) = due[1]
      BY <1>1 DEF IInv, TypeOK, Owed, Apply
    <2>2. applied # << >> => Parent[Head(due)] = applied[Len(applied)]
      BY <1>1, <2>1, TipOfApplied DEF IInv, Owed, Apply
    <2>3. Record!Extend(Head(due))
      BY <1>1, <2>2 DEF Record!Extend, Apply
    <2>4. QED
      BY <2>1, <2>3 DEF Record!Next
  <1>2. CASE Restart
    BY <1>2 DEF Restart, Record!Next, Record!Forget
  <1>3. CASE Receive
    <2>1. \E i \in 1 .. Len(socket) : Observe(i)
      BY <1>3 DEF Receive, ReceiveMalformed, ReceiveChild, ReceiveAgain, ReceiveOther
    <2>2. QED
      BY <2>1 DEF Observe
  <1>4. CASE \E b \in Blocks : NodeActivate(b)
    BY <1>4 DEF NodeActivate
  <1>5. CASE Describe \/ CheckTip \/ Fetch \/ JoinGap
    BY <1>5 DEF Describe, CheckTip, Fetch, JoinGap
  <1>6. CASE CheckTipFails \/ FetchFails \/ JoinGapFails \/ RpcFails \/ ApplyFails
    BY <1>6 DEF CheckTipFails, FetchFails, JoinGapFails, RpcFails, ApplyFails, Raise
  <1>7. CASE UNCHANGED vars
    BY <1>7 DEF vars
  <1>8. QED
    BY <1>1, <1>2, <1>3, <1>4, <1>5, <1>6, <1>7 DEF Next, Handler

(* The follower implements RecordChain for every tree and every schedule.     *)
THEOREM Refines == Spec => ImplementsRecordChain
  <1>1. Init => Record!Init
    BY FollowerAssumption DEF Init, Record!Init
  <1>2. QED
    BY <1>1, StepRefines, Inductive, PTL DEF Spec, ImplementsRecordChain, Record!Spec

-----------------------------------------------------------------------------
(* Why the flag can be trusted. *)

(* A branch is what its definition says: closed, and the least set that is. *)
LEMMA BranchIsLeast ==
  ASSUME NEW b \in Blocks
  PROVE  /\ Branch[b] \subseteq Blocks
         /\ \A S \in SUBSET Blocks : b \in S /\ HasParents(S) => Branch[b] \subseteq S
         /\ b \in Branch[b]
  BY DEF Branch

LEMMA BranchHasParents ==
  ASSUME NEW b \in Blocks
  PROVE  HasParents(Branch[b])
  <1> SUFFICES ASSUME NEW c \in Branch[b], Parent[c] # NoBlock
               PROVE  Parent[c] \in Branch[b]
    BY DEF HasParents
  <1>1. c \in Blocks /\ Parent[c] \in Blocks
    BY BranchIsLeast, BlocksAssumption
  <1>2. ASSUME NEW S \in SUBSET Blocks, b \in S, HasParents(S)
        PROVE  Parent[c] \in S
    BY <1>2, BranchIsLeast DEF HasParents
  <1>3. QED
    BY <1>1, <1>2 DEF Branch

(* Only the block itself is as high as the top of its branch. *)
LEMMA BranchIsBelow ==
  ASSUME NEW b \in Blocks, NEW c \in Branch[b]
  PROVE  c = b \/ Height[c] < Height[b]
  <1> DEFINE S == {d \in Blocks : d = b \/ Height[d] < Height[b]}
  <1>1. HasParents(S)
    <2> SUFFICES ASSUME NEW d \in S, Parent[d] # NoBlock
                 PROVE  Parent[d] \in Blocks /\ Height[Parent[d]] < Height[b]
      BY DEF HasParents
    <2>1. /\ Parent[d] \in Blocks /\ Height[d] = Height[Parent[d]] + 1
          /\ Height[d] \in Nat /\ Height[b] \in Nat /\ Height[Parent[d]] \in Nat
      BY BlocksAssumption
    <2>2. QED
      BY <2>1
  <1>2. b \in S /\ S \in SUBSET Blocks
    OBVIOUS
  <1> HIDE DEF S
  <1>3. c \in S
    BY <1>1, <1>2, BranchIsLeast
  <1>4. QED
    BY <1>3 DEF S

(* A child's branch is its parent's, and the child. *)
LEMMA BranchOfChild ==
  ASSUME NEW b \in Blocks, Parent[b] # NoBlock
  PROVE  Branch[b] \subseteq {b} \cup Branch[Parent[b]]
  <1>1. Parent[b] \in Blocks
    BY BlocksAssumption
  <1>2. Parent[b] \in Branch[Parent[b]] /\ Branch[Parent[b]] \subseteq Blocks
        /\ HasParents(Branch[Parent[b]])
    BY <1>1, BranchIsLeast, BranchHasParents
  <1>3. HasParents({b} \cup Branch[Parent[b]])
    BY <1>2 DEF HasParents
  <1>4. QED
    BY <1>2, <1>3, BranchIsLeast

(* From the first block folded up to the tip, no block of the branch is missing. *)
Complete ==
  applied # << >> =>
    \A b \in Branch[tip.hash] : Height[b] >= Height[applied[1]] => b \in ToSet(applied)

(* As long as no message overtook another, what was heard is no higher than what is *)
(* in hand, that no higher than what the socket holds, and that than the best block. *)
InOrder ==
  /\ incoming = NoBlock => heard = {}
  /\ "reorder" \notin faults.kinds =>
       /\ \A b \in heard : /\ incoming \in Blocks => Height[b] <= Height[incoming]
                           /\ Height[b] <= Height[active]
                           /\ \A i \in 1 .. Len(socket) : Height[b] <= Height[socket[i].block]
       /\ \A i \in 1 .. Len(socket) : Height[socket[i].block] <= Height[active]
       /\ \A i, j \in 1 .. Len(socket) :
            i < j => Height[socket[i].block] <= Height[socket[j].block]

Trusted == Complete /\ InOrder

LEMMA InitTrusted == Init => Trusted
  <1> SUFFICES ASSUME Init PROVE Trusted
    OBVIOUS
  <1>1. InOrder
    BY DEF Init, InOrder
  <1>2. Complete
    <2> SUFFICES ASSUME StartTip # NoBlock, NEW b \in Branch[StartTip],
                        Height[b] >= Height[StartTip]
                 PROVE  b = StartTip
      BY DEF Init, Complete, ToSet
    <2>1. StartTip \in Blocks /\ b \in Blocks
      BY BranchIsLeast, FollowerAssumption
    <2>2. Height[b] \in Nat /\ Height[StartTip] \in Nat
      BY <2>1, BlocksAssumption
    <2>3. QED
      BY <2>1, <2>2, BranchIsBelow
  <1>3. QED
    BY <1>1, <1>2 DEF Trusted

LEMMA ActivateInOrder ==
  ASSUME IInv, InOrder, NEW b \in Blocks, NodeActivate(b)
  PROVE  InOrder'
  <1>1. /\ UNCHANGED <<incoming, heard>> /\ active' = b /\ Height[b] > Height[active]
        /\ active \in Blocks /\ socket \in Seq(Message) /\ heard \subseteq Blocks
    BY DEF NodeActivate, callVars, trackVars, IInv, TypeOK
  <1>2. faults.kinds \subseteq faults'.kinds
    BY FaultType DEF NodeActivate, IInv
  (* The socket gains messages of the block activated, and nothing else. *)
  <1>3. /\ Len(socket') \in Nat /\ Len(socket) \in Nat /\ Len(socket) <= Len(socket')
        /\ \A i \in 1 .. Len(socket) : socket'[i] = socket[i]
        /\ \A i \in Len(socket) + 1 .. Len(socket') : socket'[i].block = b
    <2> DEFINE m(good) == [block |-> b, seq |-> published + 1, ok |-> good]
    <2>1. \A good : m(good).block = b
      OBVIOUS
    <2>2. socket' \in {socket, Append(socket, m(TRUE)), Append(socket, m(FALSE)),
                       socket \o <<m(TRUE), m(TRUE)>>}
      BY DEF NodeActivate
    <2> HIDE DEF m
    <2>3. ASSUME NEW x, socket' = Append(socket, x)
          PROVE  /\ Len(socket') = Len(socket) + 1
                 /\ \A i \in 1 .. Len(socket) : socket'[i] = socket[i]
                 /\ socket'[Len(socket) + 1] = x
      BY <1>1, <2>3
    <2>4. ASSUME NEW x, socket' = socket \o <<x, x>>
          PROVE  /\ Len(socket') = Len(socket) + 2
                 /\ \A i \in 1 .. Len(socket) : socket'[i] = socket[i]
                 /\ \A i \in Len(socket) + 1 .. Len(socket') : socket'[i] = x
      BY <1>1, <2>4
    <2>5. CASE socket' = socket
      BY <1>1, <2>5
    <2>6. CASE \E good \in BOOLEAN : socket' = Append(socket, m(good))
      <3>1. PICK good \in BOOLEAN : socket' = Append(socket, m(good))
        BY <2>6
      <3>2. \A i \in Len(socket) + 1 .. Len(socket') : i = Len(socket) + 1
        BY <1>1, <2>3, <3>1
      <3>3. QED
        BY <1>1, <2>1, <2>3, <3>1, <3>2
    <2>7. CASE socket' = socket \o <<m(TRUE), m(TRUE)>>
      <3>1. PICK x : socket' = socket \o <<x, x>> /\ x.block = b
        BY <2>1, <2>7
      <3>2. QED
        BY <1>1, <2>4, <3>1
    <2>8. QED
      BY <2>2, <2>5, <2>6, <2>7
  <1> SUFFICES ASSUME "reorder" \notin faults'.kinds PROVE InOrder'
    BY <1>1 DEF InOrder
  <1>4. /\ \A c \in heard : /\ incoming \in Blocks => Height[c] <= Height[incoming]
                            /\ Height[c] <= Height[active]
                            /\ \A i \in 1 .. Len(socket) : Height[c] <= Height[socket[i].block]
        /\ \A i \in 1 .. Len(socket) : Height[socket[i].block] <= Height[active]
        /\ \A i, j \in 1 .. Len(socket) :
             i < j => Height[socket[i].block] <= Height[socket[j].block]
    BY <1>2 DEF InOrder
  <1>5. \A c \in Blocks : Height[c] \in Nat
    BY BlocksAssumption
  <1>6. \A i \in 1 .. Len(socket) : socket[i].block \in Blocks
    <2>1. \A i \in 1 .. Len(socket) : socket[i] \in Message
      BY <1>1
    <2>2. QED
      BY <2>1 DEF Message
  <1>7. ASSUME NEW c \in Blocks, Height[c] <= Height[active]
        PROVE  Height[c] <= Height[b]
    BY <1>1, <1>5, <1>7
  <1>8. \A i \in 1 .. Len(socket') : i \in 1 .. Len(socket) \/ socket'[i].block = b
    BY <1>3
  <1>9. \A i \in 1 .. Len(socket') : Height[socket'[i].block] <= Height[b]
    BY <1>3, <1>4, <1>5, <1>6, <1>7, <1>8
  <1>10. \A c \in heard : /\ Height[c] <= Height[b]
                          /\ \A i \in 1 .. Len(socket') : Height[c] <= Height[socket'[i].block]
    BY <1>1, <1>3, <1>4, <1>7, <1>8
  <1>11. ASSUME NEW i \in 1 .. Len(socket'), NEW j \in 1 .. Len(socket'), i < j
         PROVE  Height[socket'[i].block] <= Height[socket'[j].block]
    <2>1. CASE j \in 1 .. Len(socket)
      <3>1. i \in 1 .. Len(socket)
        BY <1>3, <1>11, <2>1
      <3>2. QED
        BY <1>3, <1>4, <1>11, <2>1, <3>1
    <2>2. CASE socket'[j].block = b
      BY <1>9, <2>2
    <2>3. QED
      BY <1>8, <2>1, <2>2
  <1>12. QED
    BY <1>1, <1>4, <1>9, <1>10, <1>11 DEF InOrder

LEMMA ReceiveInOrder ==
  ASSUME IInv, InOrder, NEW i \in 1 .. Len(socket), Observe(i)
  PROVE  InOrder'
  <1>1. /\ socket \in Seq(Message) /\ heard \subseteq Blocks /\ active \in Blocks
        /\ incoming' = socket[i].block /\ incoming' \in Blocks
        /\ heard' = heard \cup {incoming'} /\ active' = active
        /\ socket' = RemoveAt(socket, i)
    BY ObserveFacts DEF Observe, nodeVars, IInv, TypeOK
  <1> SUFFICES ASSUME "reorder" \notin faults'.kinds PROVE InOrder'
    BY <1>1, BlocksAssumption DEF InOrder
  <1>2. i = 1 /\ faults' = faults
    BY FaultType DEF Observe, IInv
  <1>3. /\ Len(socket') = Len(socket) - 1 /\ Len(socket) \in Nat
        /\ \A k \in 1 .. Len(socket) - 1 : socket'[k] = socket[k + 1]
    <2>1. socket # << >>
      BY EmptySeq
    <2>2. socket' = RemoveAt(socket, 1)
      BY <1>1, <1>2
    <2>3. /\ Len(RemoveAt(socket, 1)) = Len(socket) - 1
          /\ \A k \in 1 .. Len(socket) - 1 : RemoveAt(socket, 1)[k] = socket[k + 1]
      BY <1>1, <2>1, HeadIsRead
    <2>4. Len(socket) \in Nat
      BY <1>1
    <2>5. Len(socket') = Len(socket) - 1
      BY <2>2, <2>3
    <2>6. \A k \in 1 .. Len(socket) - 1 : socket'[k] = socket[k + 1]
      BY <2>2, <2>3
    <2>7. QED
      BY <2>4, <2>5, <2>6
  <1>4. /\ \A b \in heard : /\ Height[b] <= Height[active]
                            /\ \A k \in 1 .. Len(socket) : Height[b] <= Height[socket[k].block]
        /\ \A k \in 1 .. Len(socket) : Height[socket[k].block] <= Height[active]
        /\ \A j, k \in 1 .. Len(socket) :
             j < k => Height[socket[j].block] <= Height[socket[k].block]
    BY <1>2 DEF InOrder
  <1>5. \A k \in 1 .. Len(socket') : k + 1 \in 1 .. Len(socket) /\ i < k + 1
    BY <1>2, <1>3
  <1>6. Height[incoming'] \in Nat
    BY <1>1, BlocksAssumption
  <1>7. ASSUME NEW b \in heard'
        PROVE  /\ Height[b] <= Height[incoming'] /\ Height[b] <= Height[active]
               /\ \A k \in 1 .. Len(socket') : Height[b] <= Height[socket'[k].block]
    <2>1. CASE b \in heard
      BY <1>1, <1>3, <1>4, <1>5, <2>1
    <2>2. CASE b = incoming'
      BY <1>1, <1>3, <1>4, <1>5, <1>6, <2>2
    <2>3. QED
      BY <1>1, <2>1, <2>2
  <1>8. \A k \in 1 .. Len(socket') : Height[socket'[k].block] <= Height[active]
    BY <1>3, <1>4, <1>5
  <1>9. ASSUME NEW j \in 1 .. Len(socket'), NEW k \in 1 .. Len(socket'), j < k
        PROVE  Height[socket'[j].block] <= Height[socket'[k].block]
    <2>1. j + 1 \in 1 .. Len(socket) /\ k + 1 \in 1 .. Len(socket) /\ j + 1 < k + 1
      BY <1>3, <1>9
    <2>2. socket'[j] = socket[j + 1] /\ socket'[k] = socket[k + 1]
      BY <1>3
    <2>3. QED
      BY <1>4, <2>1, <2>2
  <1>10. QED
    BY <1>1, <1>7, <1>8, <1>9, BlocksAssumption DEF InOrder

LEMMA ApplyComplete ==
  ASSUME IInv, Complete, Apply
  PROVE  Complete'
  <1> DEFINE b == Head(due)
  <1>1. /\ b \in Blocks /\ due # << >> /\ b = due[1] /\ applied' = Append(applied, b)
        /\ tip'.hash = b /\ applied \in Seq(Blocks)
    BY DEF Apply, IInv, TypeOK, Owed
  <1>2. ToSet(applied') = ToSet(applied) \cup {b} /\ ToSet(applied)' = ToSet(applied')
    <2>1. /\ Len(applied') = Len(applied) + 1 /\ applied'[Len(applied) + 1] = b
          /\ Len(applied) \in Nat /\ applied' \in Seq(Blocks)
          /\ \A i \in 1 .. Len(applied) : applied'[i] = applied[i]
      BY <1>1
    <2>2. QED
      BY <2>1 DEF ToSet
  <1> HIDE DEF b
  <1> SUFFICES ASSUME NEW c \in Branch[b], Height[c] >= Height[applied'[1]], c # b
               PROVE  c \in ToSet(applied)
    BY <1>1, <1>2 DEF Complete
  <1>3. Height[c] < Height[b] /\ c \in Blocks /\ Height[c] \in Nat /\ Height[b] \in Nat
    BY <1>1, BranchIsBelow, BranchIsLeast, BlocksAssumption
  <1>4. applied # << >>
    BY <1>1, <1>3
  <1>5. Parent[b] = tip.hash /\ tip.hash \in Blocks /\ applied'[1] = applied[1]
    BY <1>1, <1>4, TipOfApplied DEF IInv, Owed
  <1>6. c \in Branch[tip.hash]
    BY <1>1, <1>5, BranchOfChild, BlocksAssumption
  <1>7. QED
    BY <1>4, <1>5, <1>6 DEF Complete

LEMMA NextTrusted == IInv /\ Trusted /\ [Next]_vars => Trusted'
  <1> SUFFICES ASSUME IInv, Complete, InOrder, [Next]_vars PROVE Complete' /\ InOrder'
    BY DEF Trusted
  <1> USE DEF nodeVars, callVars, recordVars, trackVars
  <1>1. ASSUME UNCHANGED <<applied, tip>> PROVE Complete'
    BY <1>1 DEF Complete, ToSet
  <1>2. ASSUME UNCHANGED <<incoming, heard, active, socket>>, faults.kinds \subseteq faults'.kinds
        PROVE  InOrder'
    BY <1>2 DEF InOrder
  <1>3. CASE \E b \in Blocks : NodeActivate(b)
    BY <1>1, <1>3, ActivateInOrder DEF NodeActivate
  <1>4. CASE Receive
    <2>1. PICK i \in 1 .. Len(socket) : Observe(i)
      BY <1>4 DEF Receive, ReceiveMalformed, ReceiveChild, ReceiveAgain, ReceiveOther
    <2>2. QED
      BY <1>1, <2>1, ReceiveInOrder, ObserveFacts
  <1>5. CASE Describe \/ CheckTip \/ Fetch \/ JoinGap
    BY <1>1, <1>2, <1>5 DEF Describe, CheckTip, Fetch, JoinGap
  <1>6. CASE CheckTipFails \/ FetchFails \/ JoinGapFails
    BY <1>1, <1>2, <1>6 DEF CheckTipFails, FetchFails, JoinGapFails, Raise
  <1>7. CASE RpcFails \/ ApplyFails
    BY <1>1, <1>2, <1>7, FaultType DEF RpcFails, ApplyFails, Raise, IInv
  <1>8. CASE Apply
    BY <1>2, <1>8, ApplyComplete DEF Apply
  <1>9. CASE Restart
    BY <1>9, BlocksAssumption DEF Restart, Complete, InOrder
  <1>10. CASE UNCHANGED vars
    BY <1>1, <1>2, <1>10 DEF vars
  <1>11. QED
    BY <1>3, <1>4, <1>5, <1>6, <1>7, <1>8, <1>9, <1>10 DEF Next, Handler

(* No call clears the flag before it has ended. *)
LEMMA ClearedAtRest ==
  ASSUME IInv, [Next]_vars, needs_reconciliation, ~needs_reconciliation'
  PROVE  pc' = "idle"
  <1> USE DEF nodeVars, callVars, recordVars, trackVars
  <1>1. CASE \E b \in Blocks : NodeActivate(b)
    BY <1>1 DEF NodeActivate
  <1>2. CASE Receive
    BY <1>2 DEF Receive, ReceiveMalformed, ReceiveChild, ReceiveAgain, ReceiveOther, Observe
  <1>3. CASE Describe \/ CheckTip \/ Fetch \/ JoinGap
    BY <1>3 DEF Describe, CheckTip, Fetch, JoinGap
  <1>4. CASE CheckTipFails \/ FetchFails \/ JoinGapFails \/ RpcFails \/ ApplyFails
    BY <1>4 DEF CheckTipFails, FetchFails, JoinGapFails, RpcFails, ApplyFails, Raise
  <1>5. CASE Apply \/ Restart
    BY <1>5 DEF Apply, Restart
  <1>6. CASE UNCHANGED vars
    BY <1>6 DEF vars
  <1>7. QED
    BY <1>1, <1>2, <1>3, <1>4, <1>5, <1>6 DEF Next, Handler

(* At rest with the flag clear, what was heard of on the tip's branch is folded. *)
RestIsRepaired ==
  pc = "idle" /\ ~needs_reconciliation /\ "reorder" \notin faults.kinds =>
    \A b \in heard :
      Related(b, tip.hash) /\ Height[b] >= Height[applied[1]] => b \in ToSet(applied)

LEMMA HeardIsFolded == IInv /\ Trusted => RestIsRepaired
  <1> SUFFICES ASSUME IInv, Trusted, pc = "idle", ~needs_reconciliation,
                      "reorder" \notin faults.kinds,
                      NEW b \in heard, Related(b, tip.hash), Height[b] >= Height[applied[1]]
               PROVE  b \in ToSet(applied)
    BY DEF RestIsRepaired
  <1>1. incoming # NoBlock /\ incoming \in Blocks /\ tip.hash = incoming /\ b \in Blocks
    BY DEF Trusted, InOrder, IInv, TypeOK, UnflaggedIsCurrent
  <1>2. applied # << >>
    BY <1>1, TipOfApplied DEF IInv
  <1>3. Height[b] <= Height[incoming] /\ Height[b] \in Nat /\ Height[incoming] \in Nat
    BY <1>1, BlocksAssumption DEF Trusted, InOrder
  <1>4. b \in Branch[incoming]
    <2>1. CASE incoming \in Branch[b]
      <3>1. incoming = b
        BY <1>1, <1>3, <2>1, BranchIsBelow
      <3>2. QED
        BY <1>1, <3>1, BranchIsLeast
    <2>2. QED
      BY <1>1, <2>1 DEF Related
  <1>5. QED
    BY <1>1, <1>2, <1>4 DEF Trusted, Complete

(* While no message overtakes another, the flag is cleared only when every block *)
(* this process received on the tip's branch is folded, in every tree, whatever  *)
(* is lost, repeated, unreadable or fails, and whenever the process restarts.    *)
THEOREM FlagStaysUntilRepaired == Spec => FlagUntilRepaired
  <1> DEFINE Repaired ==
        needs_reconciliation /\ ~needs_reconciliation' /\ "reorder" \notin faults'.kinds =>
          \A b \in heard' :
            Related(b, tip'.hash) /\ Height[b] >= Height[applied'[1]] => b \in ToSet(applied')
  <1>1. IInv /\ [Next]_vars /\ RestIsRepaired' => Repaired
    BY ClearedAtRest DEF RestIsRepaired, Related, ToSet
  <1>2. Spec => [](IInv /\ Trusted)
    BY InitIInv, NextIInv, InitTrusted, NextTrusted, PTL DEF Spec
  <1>3. QED
    BY <1>1, <1>2, HeardIsFolded, PTL DEF FlagUntilRepaired, Spec

-----------------------------------------------------------------------------
(* Where a record of two branches comes from. *)

(* No fold failed and no process was replaced. *)
Unbroken == faults.kinds \cap {"store", "restart"} = {}

(* Until then the record holds what this process folded, and each block it folded *)
(* is in the branch of those folded after it.                                      *)
Aligned ==
  /\ touched \subseteq ToSet(applied)
  /\ \A i, j \in 1 .. Len(applied) : i <= j => applied[i] \in Branch[applied[j]]

LEMMA InitAligned == Init => Aligned
  <1> SUFFICES ASSUME Init PROVE Aligned
    OBVIOUS
  <1>1. CASE StartTip = NoBlock
    BY <1>1 DEF Init, Aligned
  <1>2. CASE StartTip # NoBlock
    <2>1. applied = <<StartTip>> /\ touched = {StartTip} /\ StartTip \in Branch[StartTip]
      BY <1>2, BranchIsLeast, FollowerAssumption DEF Init
    <2>2. QED
      BY <2>1 DEF Aligned, ToSet
  <1>3. QED
    BY <1>1, <1>2

(* The block that is folded has the tip, and so all of the record, in its branch. *)
LEMMA ApplyAligned ==
  ASSUME IInv, Aligned, Apply
  PROVE  Aligned'
  <1> DEFINE b == Head(due)
             n == Len(applied)
  <1>1. /\ b \in Blocks /\ due # << >> /\ b = due[1] /\ applied' = Append(applied, b)
        /\ touched' = touched \cup {b} /\ applied \in Seq(Blocks)
    BY DEF Apply, IInv, TypeOK, Owed
  <1> HIDE DEF b
  <1>2. /\ n \in Nat /\ Len(applied') = n + 1 /\ applied'[n + 1] = b
        /\ \A i \in 1 .. n : applied'[i] = applied[i] /\ applied[i] \in Blocks
    BY <1>1
  <1>3. touched' \subseteq ToSet(applied')
    BY <1>1, <1>2 DEF Aligned, ToSet
  <1>4. b \in Branch[b]
    BY <1>1, BranchIsLeast
  <1>5. ASSUME NEW i \in 1 .. n PROVE applied[i] \in Branch[b]
    <2>1. applied # << >> /\ n \in 1 .. n
      BY <1>1, <1>2, <1>5
    <2>2. Parent[b] = applied[n] /\ applied[n] \in Blocks
      BY <1>1, <2>1, TipOfApplied DEF IInv, Owed
    <2>3. Parent[b] \in Branch[b] /\ HasParents(Branch[b]) /\ Branch[b] \subseteq Blocks
      BY <1>1, <1>4, <2>2, BranchHasParents, BranchIsLeast, BlocksAssumption DEF HasParents
    <2>4. Branch[applied[n]] \subseteq Branch[b]
      BY <2>2, <2>3, BranchIsLeast
    <2>5. applied[i] \in Branch[applied[n]]
      BY <1>2, <2>1 DEF Aligned
    <2>6. QED
      BY <2>4, <2>5
  <1>6. ASSUME NEW i \in 1 .. n + 1, NEW j \in 1 .. n + 1, i <= j
        PROVE  applied'[i] \in Branch[applied'[j]]
    <2>1. CASE j = n + 1 /\ i = n + 1
      BY <1>2, <1>4, <2>1
    <2>2. CASE j = n + 1 /\ i # n + 1
      <3>1. i \in 1 .. n
        BY <1>2, <2>2
      <3>2. QED
        BY <1>2, <1>5, <2>2, <3>1
    <2>3. CASE j # n + 1
      <3>1. i \in 1 .. n /\ j \in 1 .. n
        BY <1>2, <1>6, <2>3
      <3>2. QED
        BY <1>2, <1>6, <3>1 DEF Aligned
    <2>4. QED
      BY <2>1, <2>2, <2>3
  <1> HIDE DEF n
  <1>7. \A i, j \in 1 .. Len(applied') : i <= j => applied'[i] \in Branch[applied'[j]]
    BY <1>2, <1>6
  <1>8. QED
    BY <1>3, <1>7 DEF Aligned, ToSet

LEMMA NextAligned == IInv /\ (Unbroken => Aligned) /\ [Next]_vars => (Unbroken => Aligned)'
  <1> SUFFICES ASSUME IInv, Unbroken => Aligned, [Next]_vars, Unbroken' PROVE Aligned'
    OBVIOUS
  <1> USE DEF nodeVars, callVars, recordVars, trackVars
  <1>1. ASSUME UNCHANGED <<applied, touched>>, faults.kinds \subseteq faults'.kinds PROVE Aligned'
    BY <1>1 DEF Aligned, ToSet, Unbroken
  <1>2. CASE \E b \in Blocks : NodeActivate(b)
    <2>1. faults.kinds \subseteq faults'.kinds
      BY <1>2, FaultType DEF NodeActivate, IInv
    <2>2. QED
      BY <1>1, <1>2, <2>1 DEF NodeActivate
  <1>3. CASE Receive
    <2>1. PICK i \in 1 .. Len(socket) : Observe(i)
      BY <1>3 DEF Receive, ReceiveMalformed, ReceiveChild, ReceiveAgain, ReceiveOther
    <2>2. faults.kinds \subseteq faults'.kinds
      BY <2>1, FaultType DEF Observe, IInv
    <2>3. UNCHANGED <<applied, touched>>
      BY <2>1, ObserveFacts
    <2>4. QED
      BY <1>1, <2>2, <2>3
  <1>4. CASE Describe \/ CheckTip \/ Fetch \/ JoinGap
    BY <1>1, <1>4 DEF Describe, CheckTip, Fetch, JoinGap
  <1>5. CASE CheckTipFails \/ FetchFails \/ JoinGapFails
    BY <1>1, <1>5 DEF CheckTipFails, FetchFails, JoinGapFails, Raise
  <1>6. CASE RpcFails
    BY <1>1, <1>6, FaultType DEF RpcFails, Raise, IInv
  <1>7. CASE Apply
    BY <1>7, ApplyAligned DEF Apply, Unbroken
  <1>8. CASE ApplyFails \/ Restart
    BY <1>8, FaultType DEF ApplyFails, Restart, Unbroken, IInv
  <1>9. CASE UNCHANGED vars
    BY <1>1, <1>9 DEF vars
  <1>10. QED
    BY <1>2, <1>3, <1>4, <1>5, <1>6, <1>7, <1>8, <1>9 DEF Next, Handler

(* reconcile.py:178-181: the record holds blocks of two branches only after a fold *)
(* failed part-way or a process was replaced: losses, repetitions, overtaking       *)
(* messages, unreadable blocks, RPC failures and reorgs, in the middle of a         *)
(* catch-up too, do not bring it about.                                             *)
THEOREM OnlyBrokenFoldsSplice == Spec => [](Unbroken => NoSplice)
  <1>1. IInv /\ Aligned => NoSplice
    <2> SUFFICES ASSUME IInv, Aligned, NEW b \in touched, NEW c \in touched
                 PROVE  Related(b, c)
      BY DEF NoSplice
    <2>1. PICK i \in DOMAIN applied : b = applied[i]
      BY DEF Aligned, ToSet
    <2>2. PICK j \in DOMAIN applied : c = applied[j]
      BY DEF Aligned, ToSet
    <2>3. i \in 1 .. Len(applied) /\ j \in 1 .. Len(applied) /\ Len(applied) \in Nat
      BY <2>1, <2>2 DEF IInv, TypeOK
    <2>4. i <= j \/ j <= i
      BY <2>3
    <2>5. QED
      BY <2>1, <2>2, <2>3, <2>4 DEF Aligned, Related
  <1>2. IInv /\ (Unbroken => Aligned) => (Unbroken => NoSplice)
    BY <1>1
  <1>3. QED
    BY <1>2, InitIInv, InitAligned, NextIInv, NextAligned, PTL DEF Spec
=============================================================================
