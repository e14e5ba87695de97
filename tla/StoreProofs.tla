----------------------------- MODULE StoreProofs -----------------------------
(***************************************************************************)
(* What Store guarantees for any scripts, coins and numbers of rows.       *)
(***************************************************************************)
EXTENDS Store, TLAPS

ItemRow == [watch : Nat, spk : Scripts, status : Statuses]
ChannelRow == [watch : Nat, verified : BOOLEAN]

(* Rows are functions from ids that were issued, and an issued id has its first tenant. *)
Shape ==
  /\ sequence \in [watch : Nat, item : Nat, channel : Nat]
  /\ tenantOf = [item |-> tenantOf.item, channel |-> tenantOf.channel]
  /\ watch \in SUBSET Nat
  /\ item \in [DOMAIN item -> ItemRow] /\ channel \in [DOMAIN channel -> ChannelRow]
  /\ DOMAIN item \subseteq DOMAIN tenantOf.item
  /\ DOMAIN tenantOf.item \subseteq 1..sequence.item
  /\ DOMAIN channel \subseteq DOMAIN tenantOf.channel
  /\ DOMAIN tenantOf.channel \subseteq 1..sequence.channel
  /\ route \in SUBSET (Nat \X Nat) /\ utxo \in SUBSET (Nat \X Coins)
  /\ crashes \in Nat

Looking == [at : {"add", "drop"}, coin : Coins, found : SUBSET Nat, left : SUBSET Nat]

(* What the matching thread found were items that pay to the coin's script, and armed. *)
Looked ==
  /\ loop = Idle \/ loop \in Looking
  /\ loop # Idle =>
       /\ loop.left \subseteq loop.found /\ loop.found \subseteq 1..sequence.item
       /\ \A i \in loop.found \cap DOMAIN item :
            item[i].status # "arming" /\ item[i].spk = Pays[loop.coin]

Rows == Shape /\ Looked /\ RowsStayInTenant /\ IdsKeepMeaning /\ ActiveIsProven /\ RecordIsTracked

IInv == Rows /\ PurgedOrOwed

-----------------------------------------------------------------------------
LEMMA IdleFact == Idle \notin Looking /\ \A l \in Looking : l # Idle
  BY DEF Idle, Looking

LEMMA Idling == Shape /\ loop = Idle => Looked
  BY DEF Looked

(* What a change of status does to the rows. *)
LEMMA StatusSet ==
  ASSUME Shape, NEW i \in DOMAIN item, NEW s \in Statuses, SetStatus(i, s)
  PROVE  /\ DOMAIN item' = DOMAIN item /\ item' \in [DOMAIN item -> ItemRow]
         /\ \A j \in DOMAIN item :
              /\ item'[j].watch = item[j].watch /\ item'[j].spk = item[j].spk
              /\ item'[j].status = IF j = i THEN s ELSE item[j].status
  BY DEF Shape, SetStatus, ItemRow

LEMMA InitIInv == Init => IInv
  <1> SUFFICES ASSUME Init PROVE IInv
    OBVIOUS
  <1>1. DOMAIN << >> = {} /\ tenantOf = [item |-> << >>, channel |-> << >>]
    BY DEF Init
  <1>2. Shape
    BY <1>1 DEF Init, Shape
  <1>3. Looked /\ RowsStayInTenant /\ IdsKeepMeaning /\ ActiveIsProven /\ RecordIsTracked /\ PurgedOrOwed
    BY <1>1 DEF Init, Looked, RowsStayInTenant, IdsKeepMeaning, ActiveIsProven, RecordIsTracked,
                PurgedOrOwed
  <1>4. QED
    BY <1>2, <1>3 DEF IInv, Rows

-----------------------------------------------------------------------------
(* The file: what is left in it is owed to a caller, until a process dies. *)
LEMMA ScrubOwed == ASSUME NEW left, Scrub(left) PROVE residue' # {} => owed'
  BY DEF Scrub

LEMMA PurgedNext == ASSUME IInv, [Next]_vars PROVE PurgedOrOwed'
  <1>0. PurgedOrOwed /\ crashes \in Nat
    BY DEF IInv, Rows, Shape
  <1>1. CASE Api
    BY <1>0, <1>1 DEF Api, CreateWatch, AddChannel, AddItem, Arm, Activate, Pause, Resume, Transition,
                      StopItem, Route, MarkVerified, fileVars, PurgedOrOwed
  <1>2. ASSUME NEW w \in watch, Purge(w) PROVE PurgedOrOwed'
    BY <1>0, <1>2, ScrubOwed DEF Purge, PurgedOrOwed
  <1>3. CASE FinishPurge
    BY <1>0, <1>3, ScrubOwed DEF FinishPurge, PurgedOrOwed
  <1>4. CASE Crash
    BY <1>0, <1>4 DEF Crash, PurgedOrOwed
  <1>5. CASE Obstruct \/ Loop \/ UNCHANGED vars
    BY <1>0, <1>5 DEF Obstruct, Loop, LookAdd, LookDrop, WriteOne, LoopRests, fileVars, vars, PurgedOrOwed
  <1>6. QED
    BY <1>1, <1>2, <1>3, <1>4, <1>5 DEF Next

-----------------------------------------------------------------------------
(* The API, a method at a time. *)

LEMMA CreateWatchRows == ASSUME Rows, CreateWatch PROVE Rows'
  <1>1. /\ watch' = watch \cup {sequence.watch + 1} /\ sequence' = [sequence EXCEPT !.watch = @ + 1]
        /\ UNCHANGED <<item, channel, route, utxo, tenantOf, loop, folded, crashes>>
    BY DEF CreateWatch, NextId, loopVars
  <1>2. Shape' /\ sequence'.item = sequence.item
    BY <1>1 DEF Rows, Shape
  <1>3. Looked' /\ RecordIsTracked' /\ ActiveIsProven' /\ IdsKeepMeaning'
    BY <1>1, <1>2 DEF Rows, Looked, RecordIsTracked, IsTracked, ActiveIsProven, IdsKeepMeaning
  <1>4. RowsStayInTenant'
    BY <1>1 DEF Rows, RowsStayInTenant
  <1>5. QED
    BY <1>2, <1>3, <1>4 DEF Rows

(* A new id is no row's, no route's and no coin's, and was never anyone's. *)
LEMMA AddItemRows == ASSUME Rows, NEW w \in watch, NEW s \in Scripts, AddItem(w, s) PROVE Rows'
  <1> DEFINE id == sequence.item + 1
             row == [watch |-> w, spk |-> s, status |-> "arming"]
  <1>1. /\ item' = With(item, id, row) /\ FirstIssue("item", id, w)
        /\ sequence' = [sequence EXCEPT !.item = @ + 1]
        /\ UNCHANGED <<watch, channel, route, utxo, loop, folded, crashes>>
    BY DEF AddItem, NextId, loopVars
  <1>2. /\ id \in Nat /\ id \notin 1..sequence.item /\ id \notin DOMAIN tenantOf.item
        /\ id \notin DOMAIN item /\ row \in ItemRow
    BY DEF Rows, Shape, ItemRow, Statuses
  <1>3. /\ sequence' \in [watch : Nat, item : Nat, channel : Nat] /\ sequence'.item = id
        /\ sequence'.channel = sequence.channel
        /\ 1..sequence'.item = 1..sequence.item \cup {id}
    BY <1>1 DEF Rows, Shape
  <1>4. /\ DOMAIN item' = DOMAIN item \cup {id}
        /\ item'[id].watch = w /\ item'[id].status = "arming"
        /\ \A j \in DOMAIN item : item'[j] = item[j]
        /\ item' \in [DOMAIN item' -> ItemRow]
    BY <1>1, <1>2 DEF With, Rows, Shape
  <1>5. /\ tenantOf' = [item |-> With(tenantOf.item, id, w), channel |-> tenantOf.channel]
        /\ DOMAIN tenantOf'.item = DOMAIN tenantOf.item \cup {id}
        /\ tenantOf'.item[id] = w /\ \A j \in DOMAIN tenantOf.item : tenantOf'.item[j] = tenantOf.item[j]
        /\ tenantOf'.channel = tenantOf.channel
    <2>1. tenantOf' = [tenantOf EXCEPT !["item"] = With(tenantOf["item"], id, w)]
      BY <1>1, <1>2 DEF FirstIssue
    <2>2. tenantOf' = [item |-> With(tenantOf.item, id, w), channel |-> tenantOf.channel]
      BY <2>1 DEF Rows, Shape
    <2>3. QED
      BY <1>2, <2>2 DEF With
  <1> HIDE DEF id, row
  <1>6. Shape'
    BY <1>1, <1>2, <1>3, <1>4, <1>5 DEF Rows, Shape
  <1>7. Looked'
    BY <1>1, <1>2, <1>3, <1>4 DEF Rows, Looked
  <1>8. RowsStayInTenant' /\ IdsKeepMeaning'
    BY <1>1, <1>2, <1>4, <1>5 DEF Rows, Shape, RowsStayInTenant, IdsKeepMeaning
  <1>9. ActiveIsProven'
    <2>1. SUFFICES ASSUME NEW i \in DOMAIN item', item'[i].status \in {"active", "paused"}
                   PROVE  \E c \in DOMAIN channel : <<i, c>> \in route /\ channel[c].verified
      BY <1>1 DEF ActiveIsProven
    <2>2. i \in DOMAIN item /\ item[i].status \in {"active", "paused"}
      BY <1>4, <2>1
    <2>3. QED
      BY <2>2 DEF Rows, ActiveIsProven
  <1>10. RecordIsTracked'
    <2>1. \A i : IsTracked(i)' <=> IsTracked(i)
      BY <1>2, <1>4 DEF IsTracked, Tracked
    <2>2. \A u \in utxo : IsTracked(u[1])' /\ item'[u[1]].spk = Pays[u[2]]
      BY <1>4, <2>1 DEF Rows, RecordIsTracked, IsTracked
    <2>3. QED
      BY <1>1, <2>1, <2>2 DEF Rows, RecordIsTracked
  <1>11. QED
    BY <1>6, <1>7, <1>8, <1>9, <1>10 DEF Rows

LEMMA AddChannelRows == ASSUME Rows, NEW w \in watch, AddChannel(w) PROVE Rows'
  <1> DEFINE id == sequence.channel + 1
             row == [watch |-> w, verified |-> FALSE]
  <1>1. /\ channel' = With(channel, id, row) /\ FirstIssue("channel", id, w)
        /\ sequence' = [sequence EXCEPT !.channel = @ + 1]
        /\ UNCHANGED <<watch, item, route, utxo, loop, folded, crashes>>
    BY DEF AddChannel, NextId, loopVars
  <1>2. /\ id \in Nat /\ id \notin DOMAIN tenantOf.channel /\ id \notin DOMAIN channel
        /\ row \in ChannelRow
    BY DEF Rows, Shape, ChannelRow
  <1>3. /\ sequence' \in [watch : Nat, item : Nat, channel : Nat] /\ sequence'.item = sequence.item
        /\ 1..sequence'.channel = 1..sequence.channel \cup {id}
    BY <1>1 DEF Rows, Shape
  <1>4. /\ DOMAIN channel' = DOMAIN channel \cup {id} /\ channel'[id].watch = w
        /\ \A j \in DOMAIN channel : channel'[j] = channel[j]
        /\ channel' \in [DOMAIN channel' -> ChannelRow]
    BY <1>1, <1>2 DEF With, Rows, Shape
  <1>5. /\ tenantOf' = [item |-> tenantOf.item, channel |-> With(tenantOf.channel, id, w)]
        /\ DOMAIN tenantOf'.channel = DOMAIN tenantOf.channel \cup {id}
        /\ tenantOf'.channel[id] = w
        /\ \A j \in DOMAIN tenantOf.channel : tenantOf'.channel[j] = tenantOf.channel[j]
        /\ tenantOf'.item = tenantOf.item
    <2>1. tenantOf' = [tenantOf EXCEPT !["channel"] = With(tenantOf["channel"], id, w)]
      BY <1>1, <1>2 DEF FirstIssue
    <2>2. tenantOf' = [item |-> tenantOf.item, channel |-> With(tenantOf.channel, id, w)]
      BY <2>1 DEF Rows, Shape
    <2>3. QED
      BY <1>2, <2>2 DEF With
  <1> HIDE DEF id, row
  <1>6. Shape'
    BY <1>1, <1>2, <1>3, <1>4, <1>5 DEF Rows, Shape
  <1>7. Looked' /\ RecordIsTracked'
    <2>1. \A i : IsTracked(i)' <=> IsTracked(i)
      BY <1>1 DEF IsTracked
    <2>2. Looked'
      BY <1>1, <1>3 DEF Rows, Looked
    <2>3. RecordIsTracked'
      BY <1>1, <2>1 DEF Rows, RecordIsTracked
    <2>4. QED
      BY <2>2, <2>3
  <1>8. RowsStayInTenant' /\ IdsKeepMeaning'
    BY <1>1, <1>2, <1>4, <1>5 DEF Rows, Shape, RowsStayInTenant, IdsKeepMeaning
  <1>9. ActiveIsProven'
    BY <1>1, <1>2, <1>4 DEF Rows, Shape, ActiveIsProven
  <1>10. QED
    BY <1>6, <1>7, <1>8, <1>9 DEF Rows

(* What a change of status leaves as it was: everything but the record and the proof. *)
LEMMA StatusRows ==
  ASSUME Rows, NEW i \in DOMAIN item, NEW s \in Statuses, SetStatus(i, s), s # "arming",
         UNCHANGED <<watch, channel, route, sequence, tenantOf, loop, folded, crashes>>
  PROVE  /\ utxo' \in SUBSET (Nat \X Coins) => Shape'
         /\ Looked' /\ RowsStayInTenant' /\ IdsKeepMeaning'
         /\ (s \in {"active", "paused"} => \E c \in DOMAIN channel : <<i, c>> \in route /\ channel[c].verified)
              => ActiveIsProven'
  <1>1. /\ DOMAIN item' = DOMAIN item /\ item' \in [DOMAIN item -> ItemRow]
        /\ \A j \in DOMAIN item :
             /\ item'[j].watch = item[j].watch /\ item'[j].spk = item[j].spk
             /\ item'[j].status = IF j = i THEN s ELSE item[j].status
    BY StatusSet DEF Rows
  <1>2. utxo' \in SUBSET (Nat \X Coins) => Shape'
    BY <1>1 DEF Rows, Shape
  <1>3. Looked'
    BY <1>1 DEF Rows, Looked
  <1>4. RowsStayInTenant' /\ IdsKeepMeaning'
    BY <1>1 DEF Rows, RowsStayInTenant, IdsKeepMeaning
  <1>5. ASSUME s \in {"active", "paused"} => \E c \in DOMAIN channel : <<i, c>> \in route /\ channel[c].verified
        PROVE  ActiveIsProven'
    BY <1>1, <1>5 DEF Rows, ActiveIsProven
  <1>6. QED
    BY <1>2, <1>3, <1>4, <1>5

(* The baseline is of coins that pay to the item's script, and the matching thread did *)
(* not find the item, since it was not armed.                                          *)
LEMMA ArmRows ==
  ASSUME Rows, NEW i \in DOMAIN item, NEW baseline \in SUBSET {c \in Coins : Pays[c] = item[i].spk},
         Arm(i, baseline)
  PROVE  Rows'
  <1>1. /\ item[i].status = "arming" /\ SetStatus(i, "armed") /\ utxo' = utxo \cup {i} \X baseline
        /\ UNCHANGED <<watch, channel, route, sequence, tenantOf, loop, folded, crashes>>
        /\ "armed" \in Statuses
    BY DEF Arm, loopVars, Statuses, Tracked
  <1>2. utxo' \in SUBSET (Nat \X Coins)
    BY <1>1 DEF Rows, Shape
  <1>3. Shape' /\ Looked' /\ RowsStayInTenant' /\ IdsKeepMeaning' /\ ActiveIsProven'
    BY <1>1, <1>2, StatusRows
  <1>4. /\ DOMAIN item' = DOMAIN item
        /\ \A j \in DOMAIN item : /\ item'[j].spk = item[j].spk
                                 /\ item'[j].status = IF j = i THEN "armed" ELSE item[j].status
    BY <1>1, StatusSet DEF Rows
  <1>5. /\ IsTracked(i)' /\ \A j : j # i => (IsTracked(j)' <=> IsTracked(j))
    BY <1>4 DEF IsTracked, Tracked
  <1>6. \A u \in utxo' : IsTracked(u[1])' /\ item'[u[1]].spk = Pays[u[2]]
    <2>1. SUFFICES ASSUME NEW u \in utxo' PROVE IsTracked(u[1])' /\ item'[u[1]].spk = Pays[u[2]]
      OBVIOUS
    <2>2. CASE u \in utxo
      <3>1. IsTracked(u[1]) /\ item[u[1]].spk = Pays[u[2]] /\ u[1] \in DOMAIN item
        BY <2>2 DEF Rows, RecordIsTracked, IsTracked
      <3>2. QED
        BY <1>4, <1>5, <3>1
    <2>3. CASE u \in {i} \X baseline
      BY <1>4, <1>5, <2>3
    <2>4. QED
      BY <1>1, <2>1, <2>2, <2>3
  <1>7. RecordIsTracked'
    <2>1. loop # Idle => i \notin loop.found
      BY <1>1 DEF Rows, Looked
    <2>2. \A j : j # i => \A c : <<j, c>> \in utxo' <=> <<j, c>> \in utxo
      BY <1>1
    <2>3. QED
      BY <1>1, <1>5, <1>6, <2>1, <2>2 DEF Rows, RecordIsTracked
  <1>8. QED
    BY <1>3, <1>7 DEF Rows

(* From one tracked status to another. *)
LEMMA TransitionRows ==
  ASSUME Rows, NEW i \in DOMAIN item, NEW from \in Tracked, NEW to \in Tracked, Transition(i, from, to),
         to \in {"active", "paused"} => from \in {"active", "paused"} \/ HasProvenChannel(i)
  PROVE  Rows'
  <1>1. /\ item[i].status = from /\ SetStatus(i, to) /\ UNCHANGED utxo
        /\ UNCHANGED <<watch, channel, route, sequence, tenantOf, loop, folded, crashes>>
        /\ to \in Statuses /\ to # "arming"
    BY DEF Transition, loopVars, Statuses, Tracked
  <1>2. to \in {"active", "paused"} => \E c \in DOMAIN channel : <<i, c>> \in route /\ channel[c].verified
    BY <1>1 DEF Rows, ActiveIsProven, HasProvenChannel
  <1>3. utxo' \in SUBSET (Nat \X Coins)
    BY <1>1 DEF Rows, Shape
  <1>4. Shape' /\ Looked' /\ RowsStayInTenant' /\ IdsKeepMeaning' /\ ActiveIsProven'
    BY <1>1, <1>2, <1>3, StatusRows
  <1>5. /\ DOMAIN item' = DOMAIN item
        /\ \A j \in DOMAIN item : /\ item'[j].spk = item[j].spk
                                 /\ item'[j].status = IF j = i THEN to ELSE item[j].status
    BY <1>1, StatusSet DEF Rows
  <1>6. \A j : IsTracked(j)' <=> IsTracked(j)
    BY <1>1, <1>5 DEF IsTracked
  <1>7. RecordIsTracked'
    BY <1>1, <1>5, <1>6 DEF Rows, RecordIsTracked, IsTracked
  <1>8. QED
    BY <1>4, <1>7 DEF Rows

LEMMA StopItemRows == ASSUME Rows, NEW i \in DOMAIN item, StopItem(i) PROVE Rows'
  <1>1. /\ SetStatus(i, "stopped") /\ utxo' = {u \in utxo : u[1] # i}
        /\ UNCHANGED <<watch, channel, route, sequence, tenantOf, loop, folded, crashes>>
        /\ "stopped" \in Statuses
    BY DEF StopItem, loopVars, Statuses
  <1>2. utxo' \in SUBSET (Nat \X Coins)
    BY <1>1 DEF Rows, Shape
  <1>3. Shape' /\ Looked' /\ RowsStayInTenant' /\ IdsKeepMeaning' /\ ActiveIsProven'
    BY <1>1, <1>2, StatusRows
  <1>4. /\ DOMAIN item' = DOMAIN item
        /\ \A j \in DOMAIN item : /\ item'[j].spk = item[j].spk
                                 /\ item'[j].status = IF j = i THEN "stopped" ELSE item[j].status
    BY <1>1, StatusSet DEF Rows
  <1>5. ~IsTracked(i)' /\ \A j : j # i => (IsTracked(j)' <=> IsTracked(j))
    BY <1>4 DEF IsTracked, Tracked
  <1>6. \A j : j # i => \A c : <<j, c>> \in utxo' <=> <<j, c>> \in utxo
    BY <1>1
  <1>7. \A u \in utxo' : IsTracked(u[1])' /\ item'[u[1]].spk = Pays[u[2]]
    BY <1>1, <1>4, <1>5 DEF Rows, RecordIsTracked, IsTracked
  <1>8. RecordIsTracked'
    BY <1>1, <1>5, <1>6, <1>7 DEF Rows, RecordIsTracked
  <1>9. QED
    BY <1>3, <1>8 DEF Rows

LEMMA MarkVerifiedRows == ASSUME Rows, NEW c \in DOMAIN channel, MarkVerified(c) PROVE Rows'
  <1>1. /\ channel' = [channel EXCEPT ![c].verified = TRUE]
        /\ UNCHANGED <<watch, item, route, utxo, sequence, tenantOf, loop, folded, crashes>>
    BY DEF MarkVerified, loopVars
  <1>2. /\ DOMAIN channel' = DOMAIN channel /\ channel' \in [DOMAIN channel -> ChannelRow]
        /\ \A d \in DOMAIN channel : /\ channel'[d].watch = channel[d].watch
                                    /\ channel[d].verified => channel'[d].verified
    BY <1>1 DEF Rows, Shape, ChannelRow
  <1>3. Shape' /\ Looked' /\ RecordIsTracked'
    <2>1. \A i : IsTracked(i)' <=> IsTracked(i)
      BY <1>1 DEF IsTracked
    <2>2. Shape' /\ Looked'
      BY <1>1, <1>2 DEF Rows, Shape, Looked
    <2>3. RecordIsTracked'
      BY <1>1, <2>1 DEF Rows, RecordIsTracked
    <2>4. QED
      BY <2>2, <2>3
  <1>4. RowsStayInTenant' /\ IdsKeepMeaning'
    BY <1>1, <1>2 DEF Rows, RowsStayInTenant, IdsKeepMeaning
  <1>5. ActiveIsProven'
    <2>1. SUFFICES ASSUME NEW i \in DOMAIN item, item[i].status \in {"active", "paused"}
                   PROVE  \E d \in DOMAIN channel' : <<i, d>> \in route' /\ channel'[d].verified
      BY <1>1 DEF ActiveIsProven
    <2>2. PICK d \in DOMAIN channel : <<i, d>> \in route /\ channel[d].verified
      BY <2>1 DEF Rows, ActiveIsProven
    <2>3. d \in DOMAIN channel' /\ <<i, d>> \in route' /\ channel'[d].verified
      BY <1>1, <1>2, <2>2
    <2>4. QED
      BY <2>3
  <1>6. QED
    BY <1>3, <1>4, <1>5 DEF Rows

LEMMA RouteRows == ASSUME Rows, NEW i \in DOMAIN item, NEW c \in DOMAIN channel, Route(i, c) PROVE Rows'
  <1>1. /\ item[i].watch = channel[c].watch /\ route' = route \cup {<<i, c>>}
        /\ UNCHANGED <<watch, item, channel, utxo, sequence, tenantOf, loop, folded, crashes>>
        /\ <<i, c>> \in Nat \X Nat
    BY DEF Route, loopVars, Rows, Shape
  <1>2. Shape' /\ Looked' /\ RecordIsTracked'
    BY <1>1 DEF Rows, Shape, Looked, RecordIsTracked, IsTracked
  <1>3. RowsStayInTenant' /\ IdsKeepMeaning' /\ ActiveIsProven'
    BY <1>1 DEF Rows, RowsStayInTenant, IdsKeepMeaning, ActiveIsProven
  <1>4. QED
    BY <1>2, <1>3 DEF Rows

LEMMA ApiRows == ASSUME Rows, Api PROVE Rows'
  <1>1. ASSUME NEW i \in DOMAIN item, Activate(i) \/ Pause(i) \/ Resume(i) PROVE Rows'
    <2>1. {"armed", "active", "paused"} \subseteq Tracked
      BY DEF Tracked
    <2>2. CASE Activate(i)
      <3>1. Transition(i, "armed", "active") /\ HasProvenChannel(i)
        BY <2>2 DEF Activate, Transition
      <3>2. QED
        BY <2>1, <3>1, TransitionRows
    <2>3. CASE Pause(i)
      BY <2>1, <2>3, TransitionRows DEF Pause
    <2>4. CASE Resume(i)
      BY <2>1, <2>4, TransitionRows DEF Resume
    <2>5. QED
      BY <1>1, <2>2, <2>3, <2>4
  <1>2. QED
    BY <1>1, CreateWatchRows, AddChannelRows, AddItemRows, ArmRows, StopItemRows, RouteRows,
       MarkVerifiedRows DEF Api

-----------------------------------------------------------------------------
(* The cascade takes a tenant's rows and what hangs on them, and nothing else; an item *)
(* and the channels it is routed to are one tenant's.                                  *)
LEMMA DeleteWatchRows ==
  ASSUME Rows, NEW w \in watch, DeleteWatch(w), crashes' \in Nat, loop' = loop \/ loop' = Idle
  PROVE  Rows'
  <1> DEFINE items == {i \in DOMAIN item : item[i].watch # w}
             channels == {c \in DOMAIN channel : channel[c].watch # w}
  <1>1. /\ watch' = watch \ {w} /\ item' = Only(item, items) /\ channel' = Only(channel, channels)
        /\ route' = {r \in route : r[1] \in items /\ r[2] \in channels}
        /\ utxo' = {u \in utxo : u[1] \in items}
        /\ UNCHANGED <<sequence, tenantOf>>
    BY DEF DeleteWatch
  <1>2. /\ DOMAIN item' = items /\ \A i \in items : item'[i] = item[i]
        /\ item' \in [DOMAIN item' -> ItemRow]
    BY <1>1 DEF Only, Rows, Shape
  <1>3. /\ DOMAIN channel' = channels /\ \A c \in channels : channel'[c] = channel[c]
        /\ channel' \in [DOMAIN channel' -> ChannelRow]
    BY <1>1 DEF Only, Rows, Shape
  <1>4. /\ items \subseteq DOMAIN item /\ \A i \in items : item[i].watch # w
        /\ channels \subseteq DOMAIN channel
        /\ \A c \in DOMAIN channel : c \in channels <=> channel[c].watch # w
    OBVIOUS
  <1> HIDE DEF items, channels
  <1>5. Shape'
    BY <1>1, <1>2, <1>3, <1>4 DEF Rows, Shape
  <1>6. Looked'
    BY <1>1, <1>2, <1>4 DEF Rows, Looked
  <1>7. RowsStayInTenant' /\ IdsKeepMeaning'
    BY <1>1, <1>2, <1>3, <1>4 DEF Rows, RowsStayInTenant, IdsKeepMeaning
  <1>8. ActiveIsProven'
    <2>1. SUFFICES ASSUME NEW i \in items, item[i].status \in {"active", "paused"}
                   PROVE  \E c \in DOMAIN channel' : <<i, c>> \in route' /\ channel'[c].verified
      BY <1>2 DEF ActiveIsProven
    <2>2. PICK c \in DOMAIN channel : <<i, c>> \in route /\ channel[c].verified
      BY <1>4, <2>1 DEF Rows, ActiveIsProven
    <2>3. item[i].watch = channel[c].watch
      BY <2>2 DEF Rows, RowsStayInTenant
    <2>4. c \in channels /\ <<i, c>> \in route'
      BY <1>1, <1>4, <2>2, <2>3
    <2>5. channel'[c].verified
      BY <1>3, <2>2, <2>4
    <2>6. QED
      BY <1>3, <2>4, <2>5
  <1>9. RecordIsTracked'
    <2>1. \A i : IsTracked(i)' => IsTracked(i) /\ i \in items
      BY <1>2, <1>4 DEF IsTracked
    <2>2. \A i \in items : IsTracked(i) => IsTracked(i)'
      BY <1>2 DEF IsTracked
    <2>3. \A u \in utxo' : IsTracked(u[1])' /\ item'[u[1]].spk = Pays[u[2]]
      BY <1>1, <1>2, <2>2 DEF Rows, RecordIsTracked
    <2>4. \A i \in items : \A c : <<i, c>> \in utxo' <=> <<i, c>> \in utxo
      BY <1>1
    <2>5. QED
      BY <2>1, <2>3, <2>4 DEF Rows, RecordIsTracked
  <1>10. QED
    BY <1>5, <1>6, <1>7, <1>8, <1>9 DEF Rows

-----------------------------------------------------------------------------
(* The matching thread: a look-up finds items that pay to the script and are armed, *)
(* and none of them is written yet.                                                 *)
LEMMA LookRows == ASSUME Rows, NEW c \in Coins, LookAdd(c) \/ LookDrop(c) PROVE Rows'
  <1>1. /\ UNCHANGED rowVars /\ UNCHANGED crashes
        /\ Looks("add", c, WatchingSpk(Pays[c])) \/ Looks("drop", c, OwningOutpoint(c))
    BY DEF LookAdd, LookDrop
  <1>2. PICK found \in {WatchingSpk(Pays[c]), OwningOutpoint(c)} :
          loop' = [at |-> loop'.at, coin |-> c, found |-> found, left |-> found]
          /\ loop'.at \in {"add", "drop"}
    BY <1>1 DEF Looks
  <1>3. /\ found \subseteq DOMAIN item
        /\ \A i \in found : item[i].status # "arming" /\ item[i].spk = Pays[c]
    BY <1>2 DEF WatchingSpk, OwningOutpoint, Rows, RecordIsTracked, IsTracked, Tracked
  <1>4. DOMAIN item \subseteq 1..sequence.item /\ DOMAIN item \subseteq Nat
    BY DEF Rows, Shape
  <1>5. loop' \in Looking /\ loop'.found = found /\ loop'.left = found /\ loop'.coin = c
    BY <1>2, <1>3, <1>4 DEF Looking
  <1>6. Looked'
    BY <1>1, <1>3, <1>4, <1>5 DEF Looked, rowVars
  <1>7. Shape' /\ RowsStayInTenant' /\ IdsKeepMeaning' /\ ActiveIsProven'
    BY <1>1 DEF rowVars, Rows, Shape, RowsStayInTenant, IdsKeepMeaning, ActiveIsProven
  <1>8. RecordIsTracked'
    BY <1>1, <1>5 DEF rowVars, Rows, RecordIsTracked, IsTracked
  <1>9. QED
    BY <1>6, <1>7, <1>8 DEF Rows

(* A write is for an item that still exists and is tracked, or it is none. *)
LEMMA WriteOneRows == ASSUME Rows, NEW i \in 1..sequence.item, WriteOne(i) PROVE Rows'
  <1>1. /\ loop # Idle /\ loop \in Looking /\ i \in loop.left /\ i \in loop.found
        /\ loop' = [loop EXCEPT !.left = @ \ {i}]
        /\ UNCHANGED <<watch, item, channel, route, sequence, tenantOf, crashes>>
    BY DEF WriteOne, Rows, Looked
  <1>2. /\ loop' \in Looking /\ loop'.at = loop.at /\ loop'.coin = loop.coin
        /\ loop'.found = loop.found /\ loop'.left = loop.left \ {i} /\ loop.coin \in Coins
    BY <1>1 DEF Looking
  <1>3. Looked'
    BY <1>1, <1>2 DEF Rows, Looked
  <1>4. \A j : IsTracked(j)' <=> IsTracked(j)
    BY <1>1 DEF IsTracked
  <1>5. RowsStayInTenant' /\ IdsKeepMeaning' /\ ActiveIsProven'
    BY <1>1 DEF Rows, RowsStayInTenant, IdsKeepMeaning, ActiveIsProven
  <1>6. CASE loop.at = "add"
    <2>1. utxo' = IF IsTracked(i) THEN utxo \cup {<<i, loop.coin>>} ELSE utxo
      BY <1>1, <1>6 DEF WriteOne, AddOutpoint
    <2>2. IsTracked(i) => item[i].spk = Pays[loop.coin]
      BY <1>1 DEF Rows, Looked, IsTracked
    <2>3. i \in Nat /\ utxo' \in SUBSET (Nat \X Coins)
      BY <1>2, <2>1 DEF Rows, Shape
    <2>4. Shape'
      BY <1>1, <2>3 DEF Rows, Shape
    <2>5. \A u \in utxo' : IsTracked(u[1])' /\ item'[u[1]].spk = Pays[u[2]]
      BY <1>1, <1>4, <2>1, <2>2 DEF Rows, RecordIsTracked
    <2>6. \A j \in loop.found \ loop'.left : IsTracked(j) => <<j, loop.coin>> \in utxo'
      BY <1>1, <1>2, <1>6, <2>1 DEF Rows, RecordIsTracked
    <2>7. RecordIsTracked'
      BY <1>2, <1>4, <1>6, <2>5, <2>6 DEF RecordIsTracked
    <2>8. QED
      BY <1>3, <1>5, <2>4, <2>7 DEF Rows
  <1>7. CASE loop.at = "drop"
    <2>1. utxo' = utxo \ {<<i, loop.coin>>}
      BY <1>1, <1>7 DEF WriteOne, DropOutpoint
    <2>2. Shape'
      BY <1>1, <2>1 DEF Rows, Shape
    <2>3. \A u \in utxo' : IsTracked(u[1])' /\ item'[u[1]].spk = Pays[u[2]]
      BY <1>1, <1>4, <2>1 DEF Rows, RecordIsTracked
    <2>4. \A j \in loop.found \ loop'.left : IsTracked(j) => <<j, loop.coin>> \notin utxo'
      BY <1>1, <1>2, <1>7, <2>1 DEF Rows, RecordIsTracked
    <2>5. RecordIsTracked'
      BY <1>2, <1>4, <1>7, <2>3, <2>4 DEF RecordIsTracked
    <2>6. QED
      BY <1>3, <1>5, <2>2, <2>5 DEF Rows
  <1>8. QED
    BY <1>1, <1>6, <1>7 DEF Looking

(* Steps that leave the rows alone, or the loop idle. *)
LEMMA RestRows ==
  ASSUME Rows, UNCHANGED rowVars, crashes' \in Nat, loop' = loop \/ loop' = Idle
  PROVE  Rows'
  <1>1. Shape' /\ RowsStayInTenant' /\ IdsKeepMeaning' /\ ActiveIsProven'
    BY DEF rowVars, Rows, Shape, RowsStayInTenant, IdsKeepMeaning, ActiveIsProven
  <1>2. Looked' /\ RecordIsTracked'
    BY DEF rowVars, Rows, Looked, RecordIsTracked, IsTracked
  <1>3. QED
    BY <1>1, <1>2 DEF Rows

LEMMA RowsNext == ASSUME IInv, [Next]_vars PROVE Rows'
  <1>0. Rows /\ crashes \in Nat
    BY DEF IInv, Rows, Shape
  <1>1. CASE Api
    BY <1>0, <1>1, ApiRows
  <1>2. ASSUME NEW w \in watch, Purge(w) PROVE Rows'
    BY <1>0, <1>2, DeleteWatchRows DEF Purge, loopVars
  <1>3. CASE FinishPurge \/ Obstruct \/ UNCHANGED vars
    BY <1>0, <1>3, RestRows DEF FinishPurge, Obstruct, vars, rowVars, loopVars
  <1>4. CASE Loop
    <2>1. CASE LoopRests
      BY <1>0, <2>1, RestRows DEF LoopRests
    <2>2. QED
      BY <1>0, <1>4, <2>1, LookRows, WriteOneRows DEF Loop
  <1>5. CASE Crash
    <2>1. crashes' \in Nat /\ loop' = Idle
      BY <1>0, <1>5 DEF Crash
    <2>2. CASE UNCHANGED rowVars
      BY <1>0, <2>1, <2>2, RestRows
    <2>3. CASE \E w \in watch : DeleteWatch(w)
      BY <1>0, <2>1, <2>3, DeleteWatchRows
    <2>4. QED
      BY <1>5, <2>2, <2>3 DEF Crash
  <1>6. QED
    BY <1>1, <1>2, <1>3, <1>4, <1>5 DEF Next

THEOREM Invariance == Spec => []IInv
  <1>1. IInv /\ [Next]_vars => IInv'
    BY RowsNext, PurgedNext DEF IInv
  <1>2. QED
    BY <1>1, InitIInv, PTL DEF Spec

-----------------------------------------------------------------------------
(* store.py:496-512, 257-263: no row outlives its tenant, and no route crosses from one *)
(* tenant to another.                                                                   *)
THEOREM TenantsStayApart == Spec => []RowsStayInTenant
  BY Invariance, PTL DEF IInv, Rows

(* store.py:413-430: an item that alerts has a proven channel, as long as it exists. *)
THEOREM ActiveStaysProven == Spec => []ActiveIsProven
  BY Invariance, PTL DEF IInv, Rows

(* store.py:19-20: an id that was issued never comes to mean another tenant's row. *)
THEOREM IdsStay == Spec => []IdsKeepMeaning
  BY Invariance, PTL DEF IInv, Rows

(* store.py:544-560: recorded coins are live, tracked items' and pay to their scripts, and *)
(* an item that stays tracked has what the block did to it written.                        *)
THEOREM RecordStaysTracked == Spec => []RecordIsTracked
  BY Invariance, PTL DEF IInv, Rows

(* store.py:266-287: while the process lives, a purge that left bytes in the file has been *)
(* reported unfinished.                                                                    *)
THEOREM PurgeIsOwed == Spec => []PurgedOrOwed
  BY Invariance, PTL DEF IInv
=============================================================================
