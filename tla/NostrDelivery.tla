---------------------------- MODULE NostrDelivery ----------------------------
(***************************************************************************)
(* channels.nostr.channel.NostrChannel.send: one gift-wrapped event is     *)
(* offered to the configured relays in turn, until one acknowledges it.    *)
(* A relay is code of someone else's: it may keep the event and say        *)
(* nothing, talk of other things without end, or hang up.                  *)
(*                                                                         *)
(* The text of the alert and its encryption are left out.  Connecting and  *)
(* sending are one step each, though each takes up to a timeout; time is   *)
(* counted while a reply is awaited.                                       *)
(***************************************************************************)
EXTENDS Integers, Sequences

CONSTANTS
  NRelays,     \* the length of _relays
  Notes,       \* what a relay may give as a reason, up to the first colon
  Timeout,     \* _timeout, in ticks
  MaxUnread    \* bound: frames waiting on the connection

ASSUME DeliveryAssumption ==
  /\ NRelays \in Nat \ {0} /\ Timeout \in Nat \ {0} /\ MaxUnread \in Nat \ {0}
  /\ "silent" \notin Notes

Relays == 1..NRelays

VARIABLES
  pc,            \* where send() is
  relay,         \* the relay it is at
  any_retriable, report,
  elapsed,       \* ticks since the deadline was set
  silence,       \* ticks since recv() was called
  frames,        \* what the relay has sent on the connection and was not read
  got,           \* the relays that the event has reached
  stored,        \* those that keep it
  denied,        \* those that have refused it
  no,            \* those that have refused it, or the connection, for good
  heard          \* ghost: heard[r], what send() took r's attempt to be

sendVars == <<pc, relay, any_retriable, report, heard>>
timeVars == <<elapsed, silence>>
relayVars == <<got, stored, denied, no>>
vars == <<sendVars, timeVars, frames, relayVars>>

KnownPrefixes ==
  {"duplicate", "pow", "blocked", "rate-limited", "invalid", "restricted", "mute", "error"}
PermanentPrefixes == {"blocked", "invalid", "restricted"}

(* A frame: for an OK, whether it is about this event, and whether it accepts it; *)
(* "silent" stands for a reason that is missing or empty.                         *)
Frame == [kind : {"OK", "CLOSED", "NOTICE", "malformed"}, mine : BOOLEAN, flag : BOOLEAN,
          note : Notes \cup {"silent"}]
Reply(kind, mine, flag, note) == [kind |-> kind, mine |-> mine, flag |-> flag, note |-> note]

Classify(note) == IF note \in KnownPrefixes THEN note ELSE "rejected"

Init ==
  /\ pc = "connect" /\ relay = 1 /\ any_retriable = FALSE /\ report = "none"
  /\ elapsed = 0 /\ silence = 0 /\ frames = << >>
  /\ got = {} /\ stored = {} /\ denied = {} /\ no = {}
  /\ heard = [r \in Relays |-> "nothing"]

-----------------------------------------------------------------------------
(* The relay at the other end of the connection, and those before it, which *)
(* may still store what they were sent.                                     *)

Connected == pc \in {"loop", "recv"}

Push(frame) == Connected /\ Len(frames) < MaxUnread /\ frames' = Append(frames, frame)

(* It keeps the event, and says so or does not. *)
RelayStores(r) ==
  /\ r \in got \ (stored \cup denied)
  /\ stored' = stored \cup {r}
  /\ \/ r = relay /\ Push(Reply("OK", TRUE, TRUE, "silent"))
     \/ UNCHANGED frames
  /\ UNCHANGED <<sendVars, timeVars, got, denied, no>>

(* It refuses the event, with any reason. *)
RelayDenies ==
  /\ relay \in got \ (stored \cup denied)
  /\ denied' = denied \cup {relay}
  /\ \E note \in Notes :
       /\ Push(Reply("OK", TRUE, FALSE, note))
       /\ no' = IF note \in PermanentPrefixes THEN no \cup {relay} ELSE no
  /\ UNCHANGED <<sendVars, timeVars, got, stored>>

(* A notice, or an OK for an event of somebody else's. *)
RelayTalks ==
  /\ \/ Push(Reply("NOTICE", FALSE, FALSE, "silent"))
     \/ Push(Reply("OK", FALSE, TRUE, "silent"))
  /\ UNCHANGED <<sendVars, timeVars, relayVars>>

(* It closes the connection, with a reason or without. *)
RelayCloses ==
  /\ \/ \E note \in Notes :
          /\ Push(Reply("CLOSED", FALSE, FALSE, note))
          /\ no' = IF note \in PermanentPrefixes THEN no \cup {relay} ELSE no
     \/ Push(Reply("malformed", FALSE, FALSE, "silent")) /\ UNCHANGED no
  /\ UNCHANGED <<sendVars, timeVars, got, stored, denied>>

(* Time passes; recv() gives up after Timeout of silence. *)
Tick ==
  /\ \/ pc = "loop" /\ elapsed < Timeout /\ UNCHANGED silence
     \/ pc = "recv" /\ silence < Timeout /\ silence' = silence + 1
  /\ elapsed' = elapsed + 1
  /\ UNCHANGED <<sendVars, frames, relayVars>>

-----------------------------------------------------------------------------
(* send() *)

(* Seeded fault: the last relay decides whether a retry is worth it. *)
Failed_last_only(how) ==
  LET retriable == how # "permanent"
  IN  /\ any_retriable' = retriable
      /\ heard' = [heard EXCEPT ![relay] = how]
      /\ frames' = << >> /\ elapsed' = 0 /\ silence' = 0
      /\ IF relay < NRelays
           THEN relay' = relay + 1 /\ pc' = "connect" /\ UNCHANGED report
           ELSE /\ pc' = "done" /\ UNCHANGED relay
                /\ report' = IF retriable THEN "retriable" ELSE "permanent"

(* The attempt is over.  The connection is closed, and the next relay is tried, if *)
(* there is one.                                                                   *)
Failed(how) ==
  LET retriable == any_retriable \/ how # "permanent"
  IN  /\ any_retriable' = retriable
      /\ heard' = [heard EXCEPT ![relay] = how]
      /\ frames' = << >> /\ elapsed' = 0 /\ silence' = 0
      /\ IF relay < NRelays
           THEN relay' = relay + 1 /\ pc' = "connect" /\ UNCHANGED report
           ELSE /\ pc' = "done" /\ UNCHANGED relay
                /\ report' = IF retriable THEN "retriable" ELSE "permanent"

Accepted ==
  /\ report' = "ok" /\ pc' = "done"
  /\ heard' = [heard EXCEPT ![relay] = "accepted"]
  /\ frames' = << >> /\ elapsed' = 0 /\ silence' = 0
  /\ UNCHANGED <<relay, any_retriable>>

Refused(note) == Failed(IF Classify(note) \in PermanentPrefixes THEN "permanent" ELSE "temporary")

Connect ==
  /\ pc = "connect"
  /\ \/ pc' = "send" /\ UNCHANGED <<relay, any_retriable, report, heard, timeVars, frames>>
     \/ Failed("transport")
  /\ UNCHANGED relayVars

(* conn.send() may fail with the event sent or not. *)
SendEvent ==
  /\ pc = "send"
  /\ \/ /\ pc' = "loop" /\ got' = got \cup {relay}
        /\ UNCHANGED <<relay, any_retriable, report, heard, timeVars, frames>>
     \/ Failed("transport") /\ got' \in {got, got \cup {relay}}
  /\ UNCHANGED <<stored, denied, no>>

(* Seeded fault: every frame moves the deadline. *)
Loop_restarts ==
  /\ pc = "loop"
  /\ pc' = "recv" /\ elapsed' = 0 /\ silence' = 0
  /\ UNCHANGED <<relay, any_retriable, report, heard, frames>>
  /\ UNCHANGED relayVars

(* Seeded fault: there is no deadline. *)
Loop_unbounded ==
  /\ pc = "loop"
  /\ pc' = "recv" /\ silence' = 0
  /\ UNCHANGED <<relay, any_retriable, report, heard, elapsed, frames>>
  /\ UNCHANGED relayVars

(* The deadline bounds the loop as a whole. *)
Loop ==
  /\ pc = "loop"
  /\ IF elapsed >= Timeout THEN Failed("transport")
     ELSE /\ pc' = "recv" /\ silence' = 0
          /\ UNCHANGED <<relay, any_retriable, report, heard, elapsed, frames>>
  /\ UNCHANGED relayVars

KeepWaiting ==
  /\ pc' = "loop" /\ frames' = Tail(frames)
  /\ UNCHANGED <<relay, any_retriable, report, heard, timeVars>>

(* Seeded fault: any OK is taken for this event's. *)
Recv_any_id ==
  /\ pc = "recv" /\ frames # << >>
  /\ LET frame == Head(frames)
     IN  \/ frame.kind = "OK" /\ frame.flag /\ Accepted
         \/ frame.kind = "OK" /\ ~frame.flag /\ Refused(frame.note)
         \/ frame.kind \in {"CLOSED", "malformed"} /\ Refused(frame.note)
         \/ frame.kind = "NOTICE" /\ KeepWaiting
  /\ UNCHANGED relayVars

Recv ==
  /\ pc = "recv" /\ frames # << >>
  /\ LET frame == Head(frames)
         about_it == frame.kind = "OK" /\ frame.mine
     IN  \/ about_it /\ frame.flag /\ Accepted
         \/ about_it /\ ~frame.flag /\ Refused(frame.note)
         \/ frame.kind \in {"CLOSED", "malformed"} /\ Refused(frame.note)
         \/ ~about_it /\ frame.kind \in {"OK", "NOTICE"} /\ KeepWaiting
  /\ UNCHANGED relayVars

RecvTimesOut ==
  /\ pc = "recv" /\ silence = Timeout
  /\ Failed("transport")
  /\ UNCHANGED relayVars

Send == Connect \/ SendEvent \/ Loop \/ Recv \/ RecvTimesOut

Next ==
  \/ Send \/ Tick \/ RelayDenies \/ RelayTalks \/ RelayCloses
  \/ \E r \in Relays : RelayStores(r)

Spec == Init /\ [][Next]_vars

-----------------------------------------------------------------------------
(* A reply is awaited for no longer than the deadline and one more recv(). *)
TypeOK ==
  /\ pc \in {"connect", "send", "loop", "recv", "done"}
  /\ relay \in Relays /\ any_retriable \in BOOLEAN
  /\ report \in {"none", "ok", "retriable", "permanent"}
  /\ elapsed \in 0..2 * Timeout /\ silence \in 0..Timeout
  /\ frames \in Seq(Frame) /\ Len(frames) <= MaxUnread
  /\ got \subseteq Relays /\ no \subseteq got
  /\ stored \subseteq got /\ denied \subseteq got /\ stored \cap denied = {}
  /\ heard \in [Relays -> {"nothing", "transport", "temporary", "permanent", "accepted"}]

(* channel.py:306-328, base.py:95-97, tests/test_nostr_channel.py:317-343: a failure *)
(* is permanent exactly when every relay was tried and gave a reason that a retry    *)
(* will meet again; one failure worth a retry keeps the whole send worth one.        *)
RetryIsJudgedByAll ==
  report # "none" =>
    /\ report = "ok" <=> \E r \in Relays : heard[r] = "accepted"
    /\ report = "permanent" <=> \A r \in Relays : heard[r] = "permanent"
    /\ report = "retriable" => \A r \in Relays : heard[r] # "nothing"

(* channel.py:287-294, base.py:92-99: the result says of the relays what a           *)
(* DeliveryResult promises, whatever they say besides and in which order.            *)
Promise == INSTANCE Delivery WITH Servers <- Relays, took <- stored
ImplementsDelivery == Promise!Spec
=============================================================================
