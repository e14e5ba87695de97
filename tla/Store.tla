-------------------------------- MODULE Store --------------------------------
(***************************************************************************)
(* storage.store.Store over storage.schema: tenants, their items and       *)
(* channels, the routes between them and the recorded coins, shared by the *)
(* API thread and the matching thread.  A method holds the lock and one    *)
(* transaction from end to end, so it is one action, and a call that       *)
(* raises UnknownRow, NotArmable or BadTransition changes nothing.  The    *)
(* matching thread makes several calls for one coin: what it looked up may *)
(* be stopped, or purged, before it writes.                                *)
(*                                                                         *)
(* Encryption and hashing are left out: a script stands for its HMAC and   *)
(* its ciphertext.                                                         *)
(***************************************************************************)
EXTENDS Integers, FiniteSets

CONSTANTS
  Scripts, Coins,
  Pays,         \* Pays[c]: the script coin c pays
  MaxWatches, MaxItems, MaxChannels,  \* bounds: rows ever inserted
  MayBlock,     \* whether a scrub of the file may ever be kept from finishing
  MaxCrashes    \* bound

ASSUME StoreAssumption ==
  /\ Pays \in [Coins -> Scripts]
  /\ MaxWatches \in Nat /\ MaxItems \in Nat /\ MaxChannels \in Nat
  /\ MaxCrashes \in Nat
  /\ MayBlock \in BOOLEAN

VARIABLES
  watch,        \* the ids of the tenants
  item,         \* item[id]: watch, spk and status of the row
  channel,      \* channel[id]: watch, and whether verified_at is set
  route,        \* <<item, channel>> pairs
  utxo,         \* <<item, coin>> pairs
  sequence,     \* sqlite_sequence: the highest id each table ever issued
  blocked,      \* another connection, or the disk, keeps VACUUM or the checkpoint from succeeding
  residue,      \* deleted tenants whose bytes are still in the file or its WAL
  owed,         \* a scrub raised an error to its caller and none has returned since
  loop,         \* the matching thread: what it does, for which coin and items
  folded,       \* folded[c]: how far the chain took the coin
  tenantOf,     \* ghost: the tenant an item or channel id was first issued for
  crashes

rowVars == <<watch, item, channel, route, utxo, sequence, tenantOf>>
fileVars == <<blocked, residue, owed>>
loopVars == <<loop, folded>>
vars == <<watch, item, channel, route, utxo, sequence, blocked, residue, owed, loop,
          folded, tenantOf, crashes>>

Tracked == {"armed", "active", "paused"}
Statuses == Tracked \cup {"arming", "stopped"}

Idle == [at |-> "idle"]

Init ==
  /\ watch = {} /\ item = << >> /\ channel = << >> /\ route = {} /\ utxo = {}
  /\ sequence = [watch |-> 0, item |-> 0, channel |-> 0]
  /\ blocked = FALSE /\ residue = {} /\ owed = FALSE
  /\ loop = Idle
  /\ folded = [c \in Coins |-> "none"]
  /\ tenantOf = [item |-> << >>, channel |-> << >>] /\ crashes = 0

-----------------------------------------------------------------------------
(* Rows. *)

(* Seeded fault: plain INTEGER PRIMARY KEY, which hands the highest id out again *)
(* once its row is deleted.                                                       *)
NextId_reused(table) ==
  LET ids == IF table = "watch" THEN watch
             ELSE IF table = "item" THEN DOMAIN item ELSE DOMAIN channel
  IN  1 + CHOOSE n \in ids \cup {0} : \A m \in ids : m <= n

(* AUTOINCREMENT: an id above every one the table ever issued. *)
NextId(table) == sequence[table] + 1

With(f, id, row) == [k \in DOMAIN f \cup {id} |-> IF k = id THEN row ELSE f[k]]
Only(f, ids) == [k \in DOMAIN f \cap ids |-> f[k]]

FirstIssue(table, id, w) ==
  tenantOf' = IF id \in DOMAIN tenantOf[table] THEN tenantOf
              ELSE [tenantOf EXCEPT ![table] = With(@, id, w)]

IsTracked(i) == i \in DOMAIN item /\ item[i].status \in Tracked

CreateWatch ==
  /\ sequence.watch < MaxWatches
  /\ watch' = watch \cup {NextId("watch")}
  /\ sequence' = [sequence EXCEPT !.watch = @ + 1]
  /\ UNCHANGED <<item, channel, route, utxo, tenantOf, fileVars, loopVars, crashes>>

AddItem(w, s) ==
  /\ w \in watch /\ sequence.item < MaxItems
  /\ LET id == NextId("item")
     IN  /\ item' = With(item, id, [watch |-> w, spk |-> s, status |-> "arming"])
         /\ FirstIssue("item", id, w)
  /\ sequence' = [sequence EXCEPT !.item = @ + 1]
  /\ UNCHANGED <<watch, channel, route, utxo, fileVars, loopVars, crashes>>

AddChannel(w) ==
  /\ w \in watch /\ sequence.channel < MaxChannels
  /\ LET id == NextId("channel")
     IN  /\ channel' = With(channel, id, [watch |-> w, verified |-> FALSE])
         /\ FirstIssue("channel", id, w)
  /\ sequence' = [sequence EXCEPT !.channel = @ + 1]
  /\ UNCHANGED <<watch, item, route, utxo, fileVars, loopVars, crashes>>

SetStatus(i, status) == item' = [item EXCEPT ![i].status = status]

(* The baseline: the coins of the item's script that the scan reported. *)
Arm(i, baseline) ==
  /\ item[i].status = "arming"
  /\ SetStatus(i, "armed")
  /\ utxo' = utxo \cup {i} \X baseline
  /\ UNCHANGED <<watch, channel, route, sequence, tenantOf, fileVars, loopVars, crashes>>

(* Seeded fault: any routed channel will do. *)
HasProvenChannel_unverified(i) == \E c \in DOMAIN channel : <<i, c>> \in route

HasProvenChannel(i) == \E c \in DOMAIN channel : <<i, c>> \in route /\ channel[c].verified

Activate(i) ==
  /\ item[i].status = "armed" /\ HasProvenChannel(i)
  /\ SetStatus(i, "active")
  /\ UNCHANGED <<watch, channel, route, utxo, sequence, tenantOf, fileVars, loopVars, crashes>>

Transition(i, from, to) ==
  /\ item[i].status = from
  /\ SetStatus(i, to)
  /\ UNCHANGED <<watch, channel, route, utxo, sequence, tenantOf, fileVars, loopVars, crashes>>

Pause(i) == Transition(i, "active", "paused")
Resume(i) == Transition(i, "paused", "active")

StopItem(i) ==
  /\ item[i].status # "stopped"    \* stopping it again changes nothing
  /\ SetStatus(i, "stopped")
  /\ utxo' = {u \in utxo : u[1] # i}
  /\ UNCHANGED <<watch, channel, route, sequence, tenantOf, fileVars, loopVars, crashes>>

MarkVerified(c) ==
  /\ channel' = [channel EXCEPT ![c].verified = TRUE]
  /\ UNCHANGED <<watch, item, route, utxo, sequence, tenantOf, fileVars, loopVars, crashes>>

(* Seeded fault: the owners are not compared. *)
Route_across(i, c) ==
  /\ route' = route \cup {<<i, c>>}
  /\ UNCHANGED <<watch, item, channel, utxo, sequence, tenantOf, fileVars, loopVars, crashes>>

Route(i, c) ==
  /\ item[i].watch = channel[c].watch
  /\ route' = route \cup {<<i, c>>}
  /\ UNCHANGED <<watch, item, channel, utxo, sequence, tenantOf, fileVars, loopVars, crashes>>

Api ==
  \/ CreateWatch
  \/ \E w \in watch : AddChannel(w) \/ \E s \in Scripts : AddItem(w, s)
  \/ \E i \in DOMAIN item :
       \/ \E baseline \in SUBSET {c \in Coins : Pays[c] = item[i].spk} : Arm(i, baseline)
       \/ Activate(i) \/ Pause(i) \/ Resume(i) \/ StopItem(i)
       \/ \E c \in DOMAIN channel : Route(i, c)
  \/ \E c \in DOMAIN channel : MarkVerified(c)

-----------------------------------------------------------------------------
(* The purge. *)

(* ON DELETE CASCADE. *)
DeleteWatch(w) ==
  LET items == {i \in DOMAIN item : item[i].watch # w}
      channels == {c \in DOMAIN channel : channel[c].watch # w}
  IN  /\ watch' = watch \ {w}
      /\ item' = Only(item, items)
      /\ channel' = Only(channel, channels)
      /\ route' = {r \in route : r[1] \in items /\ r[2] \in channels}
      /\ utxo' = {u \in utxo : u[1] \in items}
      /\ UNCHANGED <<sequence, tenantOf>>

(* Seeded fault: the checkpoint's `busy` is not looked at. *)
Scrub_ignores_busy(left) ==
  IF blocked
    THEN residue' = left /\ UNCHANGED owed
    ELSE residue' = {} /\ owed' = FALSE

(* VACUUM and a TRUNCATE checkpoint.  A writer elsewhere blocks the first, a      *)
(* reader the second: PurgeIncomplete; a disk that fails raises its own error.    *)
Scrub(left) ==
  IF blocked
    THEN residue' = left /\ owed' = TRUE
    ELSE residue' = {} /\ owed' = FALSE

Purge(w) ==
  /\ w \in watch
  /\ DeleteWatch(w)
  /\ Scrub(residue \cup {w})
  /\ UNCHANGED <<blocked, loopVars, crashes>>

FinishPurge ==
  /\ owed
  /\ Scrub(residue)
  /\ UNCHANGED <<rowVars, blocked, loopVars, crashes>>

Obstruct ==
  /\ MayBlock
  /\ blocked' = ~blocked
  /\ UNCHANGED <<rowVars, residue, owed, loopVars, crashes>>

-----------------------------------------------------------------------------
(* The matching thread, for one coin at a time. *)

WatchingSpk(s) == {i \in DOMAIN item : item[i].spk = s /\ item[i].status \in Tracked}
OwningOutpoint(c) == {i \in DOMAIN item : <<i, c>> \in utxo}

Looks(what, c, items) ==
  loop' = [at |-> what, coin |-> c, found |-> items, left |-> items]

(* A block creates coin c. *)
LookAdd(c) ==
  /\ loop = Idle /\ folded[c] = "none"
  /\ Looks("add", c, WatchingSpk(Pays[c]))
  /\ folded' = [folded EXCEPT ![c] = "unspent"]
  /\ UNCHANGED <<rowVars, fileVars, crashes>>

(* A block spends coin c. *)
LookDrop(c) ==
  /\ loop = Idle /\ folded[c] = "unspent"
  /\ Looks("drop", c, OwningOutpoint(c))
  /\ folded' = [folded EXCEPT ![c] = "spent"]
  /\ UNCHANGED <<rowVars, fileVars, crashes>>

(* Seeded fault: the plain insert. *)
AddOutpoint_plain(i, c) == utxo' = utxo \cup {<<i, c>>}

(* add_outpoint: only while the item exists and is tracked. *)
AddOutpoint(i, c) == utxo' = IF IsTracked(i) THEN utxo \cup {<<i, c>>} ELSE utxo
DropOutpoint(i, c) == utxo' = utxo \ {<<i, c>>}

(* One of the items the loop found: the coin is written for it, or taken away. *)
WriteOne(i) ==
  /\ loop # Idle
  /\ i \in loop.left
  /\ loop' = [loop EXCEPT !.left = @ \ {i}]
  /\ \/ loop.at = "add" /\ AddOutpoint(i, loop.coin)
     \/ loop.at = "drop" /\ DropOutpoint(i, loop.coin)
  /\ UNCHANGED <<watch, item, channel, route, sequence, tenantOf, fileVars, folded, crashes>>

(* All are written. *)
LoopRests ==
  /\ loop # Idle
  /\ loop.left = {}
  /\ loop' = Idle
  /\ UNCHANGED <<rowVars, fileVars, folded, crashes>>

Loop == \/ \E c \in Coins : LookAdd(c) \/ LookDrop(c)
        \/ \E i \in 1 .. sequence.item : WriteOne(i)
        \/ LoopRests

(* The process dies, perhaps after a purge committed its deletes and before it *)
(* could scrub.  The file stays; what the threads knew is gone.                *)
Crash ==
  /\ crashes < MaxCrashes /\ crashes' = crashes + 1
  /\ \/ UNCHANGED <<rowVars, residue>>
     \/ \E w \in watch : DeleteWatch(w) /\ residue' = residue \cup {w}
  /\ owed' = FALSE
  /\ loop' = Idle
  /\ UNCHANGED <<blocked, folded>>

Next == Api \/ (\E w \in watch : Purge(w)) \/ FinishPurge \/ Obstruct \/ Loop \/ Crash

Spec == Init /\ [][Next]_vars

-----------------------------------------------------------------------------
(* Properties. *)

(* store.py:544-560: whatever the API does between the loop's look-up and its      *)
(* write, a recorded coin belongs to a live, tracked item whose script it pays; and *)
(* an item that was tracked when the loop looked, and is when the loop has written, *)
(* holds the coin, or has lost it, as the block says.                               *)
RecordIsTracked ==
  /\ \A u \in utxo : IsTracked(u[1]) /\ item[u[1]].spk = Pays[u[2]]
  /\ loop # Idle =>
       \A i \in loop.found \ loop.left : IsTracked(i) =>
         /\ loop.at = "add" => <<i, loop.coin>> \in utxo
         /\ loop.at = "drop" => <<i, loop.coin>> \notin utxo

(* store.py:496-512, 257-263: no row outlives its tenant, and a route never leads  *)
(* from one tenant's item to another's channel.                                    *)
RowsStayInTenant ==
  /\ \A i \in DOMAIN item : item[i].watch \in watch
  /\ \A c \in DOMAIN channel : channel[c].watch \in watch
  /\ \A r \in route : /\ r[1] \in DOMAIN item /\ r[2] \in DOMAIN channel
                      /\ item[r[1]].watch = channel[r[2]].watch

(* store.py:413-430, 123-128: an item that alerts, or alerted before it was paused,*)
(* has a channel whose test-fire was confirmed, for as long as it exists.          *)
ActiveIsProven ==
  \A i \in DOMAIN item : item[i].status \in {"active", "paused"} =>
    \E c \in DOMAIN channel : <<i, c>> \in route /\ channel[c].verified

(* store.py:19-20, docs/architecture.md:166-170: an id held across a purge never   *)
(* comes to mean another tenant's row.                                             *)
IdsKeepMeaning ==
  /\ \A i \in DOMAIN item : item[i].watch = tenantOf.item[i]
  /\ \A c \in DOMAIN channel : channel[c].watch = tenantOf.channel[c]

(* store.py:266-272, 280-287: while the process lives, a purged tenant's bytes stay *)
(* in the file only as long as a caller has been told that the purge is unfinished. *)
(* A process that dies before it has scrubbed leaves them, and nobody to tell.      *)
PurgedOrOwed == crashes = 0 /\ residue # {} => owed
=============================================================================
