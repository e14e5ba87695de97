--------------------------- MODULE ChannelsProofs ---------------------------
(***************************************************************************)
(* What a DeliveryResult is worth: for any number of relays, whatever they *)
(* answer, with any timeout; for a mail server that answers any command    *)
(* with anything; and so for an alert that goes out by either channel.     *)
(***************************************************************************)
EXTENDS Channels, TLAPS

-----------------------------------------------------------------------------
(* The relays. *)

Failures == {"transport", "temporary", "permanent"}

(* What a frame says is true of the relay at the other end. *)
Honest(f) ==
  /\ f.kind = "OK" /\ f.mine /\ f.flag => relay \in stored
  /\ f.kind = "OK" /\ f.mine /\ ~f.flag /\ f.note \in PermanentPrefixes => relay \in no
  /\ f.kind = "CLOSED" /\ f.note \in PermanentPrefixes => relay \in no
  /\ f.kind = "malformed" => f.note = "silent"

(* The frames of the connection, and of no earlier one. *)
Told ==
  /\ \A i \in 1..Len(frames) : Honest(frames[i])
  /\ ~Connected => frames = << >>
  /\ Connected => relay \in got

(* What send() took the attempts to be, and what it makes of them. *)
Judged ==
  /\ \A r \in Relays : /\ heard[r] = "permanent" => r \in no
                       /\ heard[r] = "accepted" => r \in stored
                       /\ r < relay => heard[r] \in Failures
                       /\ r > relay => heard[r] = "nothing"
  /\ pc # "done" => heard[relay] = "nothing" /\ report = "none"
  /\ any_retriable <=> \E r \in Relays : heard[r] \in {"transport", "temporary"}
  /\ pc = "done" =>
       \/ heard[relay] = "accepted" /\ report = "ok"
       \/ /\ heard[relay] \in Failures /\ relay = NRelays
          /\ report = IF any_retriable THEN "retriable" ELSE "permanent"

(* recv() is called before the deadline only. *)
Timed ==
  /\ pc \in {"connect", "send"} => elapsed = 0
  /\ pc = "recv" => elapsed < Timeout + silence

IInv == TypeOK /\ Told /\ Judged /\ Timed

LEMMA InitIInv == Init => IInv
  <1> SUFFICES ASSUME Init PROVE IInv
    OBVIOUS
  <1> USE DeliveryAssumption DEF Init, Relays
  <1>1. TypeOK
    <2>1. frames \in Seq(Frame) /\ Len(frames) <= MaxUnread
      OBVIOUS
    <2>2. elapsed \in 0..2 * Timeout /\ silence \in 0..Timeout /\ relay \in Relays
      OBVIOUS
    <2>3. heard \in [Relays -> {"nothing", "transport", "temporary", "permanent", "accepted"}]
      OBVIOUS
    <2>4. /\ pc = "connect" /\ any_retriable = FALSE /\ report = "none"
          /\ got = {} /\ stored = {} /\ denied = {} /\ no = {}
      OBVIOUS
    <2> HIDE DEF Init, Relays
    <2>5. QED
      BY <2>1, <2>2, <2>3, <2>4 DEF TypeOK
  <1>2. Told /\ Timed
    BY DEF Told, Timed, Connected
  <1>3. Judged
    BY DEF Judged
  <1>4. QED
    BY <1>1, <1>2, <1>3 DEF IInv

(* An attempt that is over leaves the invariant standing, for whichever of the *)
(* three reasons, provided that a permanent one was the relay's.               *)
LEMMA FailedIInv ==
  ASSUME IInv, pc # "done", NEW how \in Failures, Failed(how),
         how = "permanent" => relay \in no',
         got' \in SUBSET Relays, got \subseteq got', stored' = stored, denied' = denied,
         no' = no
  PROVE  IInv'
  <1> USE DeliveryAssumption DEF Relays
  <1>1. /\ relay \in Relays /\ heard[relay] = "nothing" /\ relay \in 1..NRelays
        /\ \A r \in Relays : heard'[r] = IF r = relay THEN how ELSE heard[r]
    BY DEF IInv, TypeOK, Judged, Failed
  <1>2. TypeOK'
    BY <1>1 DEF IInv, TypeOK, Failed, Failures
  <1>3. Told'
    BY DEF Failed, Told, Connected
  <1>4. Timed'
    BY DEF Failed, Timed
  <1>5. any_retriable' <=> \E r \in Relays : heard'[r] \in {"transport", "temporary"}
    <2>1. any_retriable' <=> any_retriable \/ how # "permanent"
      BY DEF Failed
    <2>2. any_retriable <=> \E r \in Relays : heard[r] \in {"transport", "temporary"}
      BY DEF IInv, Judged
    <2>3. QED
      BY <1>1, <2>1, <2>2 DEF Failures
  <1>6. \A r \in Relays : /\ heard'[r] = "permanent" => r \in no'
                          /\ heard'[r] = "accepted" => r \in stored'
    BY <1>1 DEF IInv, Judged, Failures
  <1>7. CASE relay < NRelays
    <2>1. relay' = relay + 1 /\ pc' = "connect" /\ report' = "none"
      BY <1>7 DEF Failed, IInv, Judged
    <2>2. \A r \in Relays : /\ r < relay' => heard'[r] \in Failures
                            /\ r > relay' => heard'[r] = "nothing"
      BY <1>1, <2>1 DEF IInv, Judged
    <2>3. heard'[relay'] = "nothing"
      BY <1>1, <1>7, <2>1 DEF IInv, Judged
    <2>4. Judged'
      BY <1>5, <1>6, <2>1, <2>2, <2>3 DEF Judged
    <2>5. QED
      BY <1>2, <1>3, <1>4, <2>4 DEF IInv
  <1>8. CASE ~(relay < NRelays)
    <2>1. relay' = relay /\ pc' = "done" /\ relay = NRelays
      BY <1>1, <1>8 DEF Failed
    <2>2. report' = IF any_retriable' THEN "retriable" ELSE "permanent"
      BY <1>8 DEF Failed
    <2>3. \A r \in Relays : /\ r < relay' => heard'[r] \in Failures
                            /\ r > relay' => heard'[r] = "nothing"
      BY <1>1, <2>1 DEF IInv, Judged
    <2>4. Judged'
      BY <1>1, <1>5, <1>6, <2>1, <2>2, <2>3 DEF Judged
    <2>5. QED
      BY <1>2, <1>3, <1>4, <2>4 DEF IInv
  <1>9. QED
    BY <1>7, <1>8

(* The frame at hand is an honest one. *)
LEMMA HeadHonest ==
  ASSUME IInv, frames # << >>
  PROVE  Honest(Head(frames)) /\ Head(frames) \in Frame
  BY DEF IInv, TypeOK, Told

(* A refusal that send() takes for a permanent one is the relay's. *)
LEMMA RefusedIInv ==
  ASSUME IInv, pc = "recv", NEW note, Refused(note), note \in PermanentPrefixes => relay \in no,
         UNCHANGED relayVars
  PROVE  IInv'
  <1> DEFINE how == IF Classify(note) \in PermanentPrefixes THEN "permanent" ELSE "temporary"
  <1>1. how \in Failures /\ Failed(how)
    BY DEF Failures, Refused
  <1>2. how = "permanent" => relay \in no
    BY DEF Classify, PermanentPrefixes
  <1>3. got' \in SUBSET Relays /\ got' = got /\ stored' = stored /\ denied' = denied /\ no' = no
    BY DEF IInv, TypeOK, relayVars
  <1> HIDE DEF how
  <1>4. QED
    BY <1>1, <1>2, <1>3, FailedIInv

(* Another frame arrives, which says no more than is so. *)
LEMMA PushTold ==
  ASSUME IInv, NEW f \in Frame, Push(f), UNCHANGED sendVars,
         stored \subseteq stored', no \subseteq no', got' = got, Honest(f)'
  PROVE  Told' /\ frames' \in Seq(Frame) /\ Len(frames') <= MaxUnread
  <1>1. frames' = Append(frames, f) /\ frames \in Seq(Frame) /\ Len(frames) < MaxUnread
        /\ MaxUnread \in Nat
    BY DeliveryAssumption DEF Push, IInv, TypeOK
  <1>2. /\ frames' \in Seq(Frame) /\ Len(frames') = Len(frames) + 1
        /\ \A i \in 1..Len(frames) : frames'[i] = frames[i]
        /\ frames'[Len(frames) + 1] = f
    BY <1>1
  <1>3. \A i \in 1..Len(frames') : Honest(frames[i])'
    <2> SUFFICES ASSUME NEW i \in 1..Len(frames') PROVE Honest(frames[i])'
      OBVIOUS
    <2>1. CASE i = Len(frames) + 1
      BY <1>2, <2>1 DEF Honest
    <2>2. CASE i \in 1..Len(frames)
      <3>1. Honest(frames[i])
        BY <2>2 DEF IInv, Told
      <3>2. QED
        BY <1>2, <2>2, <3>1 DEF Honest, sendVars
    <2>3. QED
      BY <1>1, <1>2, <2>1, <2>2
  <1>4. Connected /\ Connected' /\ relay' = relay /\ relay \in got
    BY DEF Push, Connected, sendVars, IInv, Told
  <1>5. QED
    BY <1>1, <1>2, <1>3, <1>4 DEF Told

LEMMA StoresIInv ==
  ASSUME IInv, NEW r \in Relays, RelayStores(r)
  PROVE  IInv'
  <1>1. /\ UNCHANGED sendVars /\ UNCHANGED timeVars /\ UNCHANGED <<got, denied, no>>
        /\ stored' = stored \cup {r} /\ r \in got /\ r \notin denied
    BY DEF RelayStores
  <1>2. Judged' /\ Timed'
    BY <1>1 DEF IInv, Judged, Timed, sendVars, timeVars
  <1>3. Told' /\ frames' \in Seq(Frame) /\ Len(frames') <= MaxUnread
    <2>1. CASE r = relay /\ Push(Reply("OK", TRUE, TRUE, "silent"))
      <3>1. Reply("OK", TRUE, TRUE, "silent") \in Frame
        BY DEF Reply, Frame
      <3>2. Honest(Reply("OK", TRUE, TRUE, "silent"))'
        BY <1>1, <2>1 DEF Honest, Reply, sendVars
      <3>3. QED
        BY <1>1, <2>1, <3>1, <3>2, PushTold
    <2>2. CASE UNCHANGED frames
      BY <1>1, <2>2 DEF IInv, TypeOK, Told, Honest, Connected, sendVars
    <2>3. QED
      BY <2>1, <2>2 DEF RelayStores
  <1>4. TypeOK'
    BY <1>1, <1>3 DEF IInv, TypeOK, sendVars, timeVars
  <1>5. QED
    BY <1>2, <1>3, <1>4 DEF IInv

LEMMA DeniesIInv == ASSUME IInv, RelayDenies PROVE IInv'
  <1>1. PICK note \in Notes :
          /\ Push(Reply("OK", TRUE, FALSE, note))
          /\ no' = IF note \in PermanentPrefixes THEN no \cup {relay} ELSE no
    BY DEF RelayDenies
  <1>2. /\ UNCHANGED sendVars /\ UNCHANGED timeVars /\ UNCHANGED <<got, stored>>
        /\ denied' = denied \cup {relay} /\ relay \in got /\ relay \notin stored
    BY DEF RelayDenies
  <1>3. Judged' /\ Timed'
    BY <1>1, <1>2 DEF IInv, Judged, Timed, sendVars, timeVars
  <1>4. Reply("OK", TRUE, FALSE, note) \in Frame /\ Honest(Reply("OK", TRUE, FALSE, note))'
    BY <1>1, <1>2 DEF Reply, Frame, Honest, sendVars
  <1>5. Told' /\ frames' \in Seq(Frame) /\ Len(frames') <= MaxUnread
    BY <1>1, <1>2, <1>4, PushTold
  <1>6. TypeOK'
    BY <1>1, <1>2, <1>5 DEF IInv, TypeOK, sendVars, timeVars
  <1>7. QED
    BY <1>3, <1>5, <1>6 DEF IInv

LEMMA TalksIInv == ASSUME IInv, RelayTalks PROVE IInv'
  <1>1. PICK f \in {Reply("NOTICE", FALSE, FALSE, "silent"), Reply("OK", FALSE, TRUE, "silent")} : Push(f)
    BY DEF RelayTalks
  <1>2. UNCHANGED sendVars /\ UNCHANGED timeVars /\ UNCHANGED <<got, stored, denied, no>>
    BY DEF RelayTalks, relayVars
  <1>3. Judged' /\ Timed'
    BY <1>2 DEF IInv, Judged, Timed, sendVars, timeVars
  <1>4. f \in Frame /\ Honest(f)'
    <2>1. CASE f = Reply("NOTICE", FALSE, FALSE, "silent")
      BY <2>1 DEF Reply, Frame, Honest
    <2>2. CASE f = Reply("OK", FALSE, TRUE, "silent")
      BY <2>2 DEF Reply, Frame, Honest
    <2>3. QED
      BY <1>1, <2>1, <2>2
  <1>5. Told' /\ frames' \in Seq(Frame) /\ Len(frames') <= MaxUnread
    BY <1>1, <1>2, <1>4, PushTold
  <1>6. TypeOK'
    BY <1>2, <1>5 DEF IInv, TypeOK, sendVars, timeVars
  <1>7. QED
    BY <1>3, <1>5, <1>6 DEF IInv

LEMMA ClosesIInv == ASSUME IInv, RelayCloses PROVE IInv'
  <1>1. UNCHANGED sendVars /\ UNCHANGED timeVars /\ UNCHANGED <<got, stored, denied>>
    BY DEF RelayCloses
  <1>2. PICK f \in Frame : Push(f) /\ Honest(f)' /\ no' \in {no, no \cup {relay}}
    <2>1. CASE \E note \in Notes :
                 /\ Push(Reply("CLOSED", FALSE, FALSE, note))
                 /\ no' = IF note \in PermanentPrefixes THEN no \cup {relay} ELSE no
      <3>1. PICK note \in Notes :
              /\ Push(Reply("CLOSED", FALSE, FALSE, note))
              /\ no' = IF note \in PermanentPrefixes THEN no \cup {relay} ELSE no
        BY <2>1
      <3>2. /\ Reply("CLOSED", FALSE, FALSE, note) \in Frame
            /\ Honest(Reply("CLOSED", FALSE, FALSE, note))'
        BY <1>1, <3>1 DEF Reply, Frame, Honest, sendVars
      <3>3. QED
        BY <3>1, <3>2
    <2>2. CASE Push(Reply("malformed", FALSE, FALSE, "silent")) /\ UNCHANGED no
      BY <2>2 DEF Reply, Frame, Honest
    <2>3. QED
      BY <2>1, <2>2 DEF RelayCloses
  <1>3. no \subseteq no' /\ no' \subseteq no \cup {relay} /\ relay \in got
    BY <1>2 DEF Push, IInv, Told
  <1>4. Judged' /\ Timed'
    BY <1>1, <1>3 DEF IInv, Judged, Timed, sendVars, timeVars
  <1>5. Told' /\ frames' \in Seq(Frame) /\ Len(frames') <= MaxUnread
    BY <1>1, <1>2, <1>3, PushTold
  <1>6. TypeOK'
    BY <1>1, <1>3, <1>5 DEF IInv, TypeOK, sendVars, timeVars
  <1>7. QED
    BY <1>4, <1>5, <1>6 DEF IInv

LEMMA TickIInv == ASSUME IInv, Tick PROVE IInv'
  <1>1. UNCHANGED sendVars /\ UNCHANGED frames /\ UNCHANGED <<got, stored, denied, no>>
    BY DEF Tick, relayVars
  <1>2. Told' /\ Judged'
    BY <1>1 DEF IInv, Told, Honest, Connected, Judged, sendVars
  <1>3. Timed' /\ elapsed' \in 0..2 * Timeout /\ silence' \in 0..Timeout
    BY DeliveryAssumption, <1>1 DEF IInv, TypeOK, Timed, Tick, sendVars
  <1>4. TypeOK'
    BY <1>1, <1>3 DEF IInv, TypeOK, sendVars
  <1>5. QED
    BY <1>2, <1>3, <1>4 DEF IInv

(* A step of send() that does not end the attempt. *)
LEMMA GoesOn ==
  ASSUME IInv, UNCHANGED <<relay, any_retriable, report, heard, stored, denied, no>>,
         pc # "done", pc' \in {"send", "loop", "recv"},
         got' \in SUBSET Relays, got \subseteq got', Connected' => relay \in got',
         frames' \in Seq(Frame), Len(frames') <= Len(frames),
         \A i \in 1..Len(frames') : frames'[i] \in {frames[j] : j \in 1..Len(frames)},
         ~Connected' => frames' = << >>,
         elapsed' \in 0..2 * Timeout, silence' \in 0..Timeout, Timed'
  PROVE  IInv'
  <1>1. Judged'
    BY DEF IInv, Judged
  <1>2. \A i \in 1..Len(frames') : Honest(frames[i])'
    <2> SUFFICES ASSUME NEW i \in 1..Len(frames') PROVE Honest(frames[i])'
      OBVIOUS
    <2>1. PICK j \in 1..Len(frames) : frames'[i] = frames[j]
      OBVIOUS
    <2>2. Honest(frames[j])
      BY <2>1 DEF IInv, Told
    <2>3. QED
      BY <2>1, <2>2 DEF Honest
  <1>3. Told'
    BY <1>2 DEF Told
  <1>4. TypeOK'
    BY DeliveryAssumption DEF IInv, TypeOK
  <1>5. QED
    BY <1>1, <1>3, <1>4 DEF IInv

LEMMA AcceptedIInv ==
  ASSUME IInv, pc = "recv", Accepted, relay \in stored, UNCHANGED relayVars
  PROVE  IInv'
  <1> USE DeliveryAssumption DEF Relays
  <1>1. /\ relay \in Relays /\ heard[relay] = "nothing"
        /\ \A r \in Relays : heard'[r] = IF r = relay THEN "accepted" ELSE heard[r]
    BY DEF IInv, TypeOK, Judged, Accepted
  <1>2. Judged'
    BY <1>1 DEF IInv, Judged, Accepted, relayVars
  <1>3. Told' /\ Timed'
    BY DEF Accepted, Told, Timed, Connected
  <1>4. TypeOK'
    BY <1>1 DEF IInv, TypeOK, Accepted, relayVars
  <1>5. QED
    BY <1>2, <1>3, <1>4 DEF IInv

LEMMA SendIInv == ASSUME IInv, Send PROVE IInv'
  <1> USE DeliveryAssumption DEF Relays
  <1>1. CASE Connect
    <2>1. CASE pc' = "send" /\ UNCHANGED <<relay, any_retriable, report, heard, timeVars, frames>>
      <3>1. frames = << >> /\ elapsed = 0
        BY <1>1 DEF IInv, Told, Timed, Connect, Connected
      <3>2. QED
        BY <1>1, <2>1, <3>1, GoesOn
        DEF Connect, IInv, TypeOK, Timed, Connected, timeVars, relayVars
    <2>2. CASE Failed("transport")
      BY <1>1, <2>2, FailedIInv DEF Connect, relayVars, IInv, TypeOK, Failures
    <2>3. QED
      BY <1>1, <2>1, <2>2 DEF Connect
  <1>2. CASE SendEvent
    <2>0. relay \in Relays /\ got \subseteq Relays
      BY DEF IInv, TypeOK
    <2>1. CASE /\ pc' = "loop" /\ got' = got \cup {relay}
               /\ UNCHANGED <<relay, any_retriable, report, heard, timeVars, frames>>
      <3>1. frames = << >>
        BY <1>2 DEF IInv, Told, SendEvent, Connected
      <3>2. QED
        BY <1>2, <2>0, <2>1, <3>1, GoesOn
        DEF SendEvent, IInv, TypeOK, Timed, Connected, timeVars
    <2>2. CASE Failed("transport") /\ got' \in {got, got \cup {relay}}
      BY <1>2, <2>0, <2>2, FailedIInv DEF SendEvent, Failures
    <2>3. QED
      BY <1>2, <2>1, <2>2 DEF SendEvent
  <1>3. CASE Loop
    <2>1. CASE elapsed >= Timeout
      BY <1>3, <2>1, FailedIInv DEF Loop, relayVars, IInv, TypeOK, Failures
    <2>2. CASE ~(elapsed >= Timeout)
      <3>1. /\ pc' = "recv" /\ silence' = 0
            /\ UNCHANGED <<relay, any_retriable, report, heard, elapsed, frames>>
            /\ UNCHANGED relayVars
        BY <1>3, <2>2 DEF Loop
      <3>2. relay \in got /\ elapsed \in Nat
        BY <1>3 DEF Loop, IInv, Told, Connected, TypeOK
      <3>3. Timed'
        BY <2>2, <3>1, <3>2 DEF Timed
      <3>4. QED
        BY <1>3, <3>1, <3>2, <3>3, GoesOn DEF Loop, IInv, TypeOK, Connected, relayVars
    <2>3. QED
      BY <2>1, <2>2
  <1>4. CASE Recv
    <2>1. /\ pc = "recv" /\ frames # << >> /\ UNCHANGED relayVars
          /\ Honest(Head(frames)) /\ Head(frames) \in Frame
      BY <1>4, HeadHonest DEF Recv
    <2> DEFINE f == Head(frames)
               about_it == f.kind = "OK" /\ f.mine
    <2>2. CASE about_it /\ f.flag /\ Accepted
      BY <2>1, <2>2, AcceptedIInv DEF Honest
    <2>3. CASE about_it /\ ~f.flag /\ Refused(f.note)
      BY <2>1, <2>3, RefusedIInv DEF Honest
    <2>4. CASE f.kind \in {"CLOSED", "malformed"} /\ Refused(f.note)
      BY <2>1, <2>4, RefusedIInv DEF Honest, PermanentPrefixes
    <2>5. CASE KeepWaiting
      <3>1. /\ pc' = "loop" /\ frames' = Tail(frames)
            /\ UNCHANGED <<relay, any_retriable, report, heard>> /\ UNCHANGED timeVars
        BY <2>5 DEF KeepWaiting
      <3>2. frames \in Seq(Frame) /\ relay \in got
        BY <2>1 DEF IInv, TypeOK, Told, Connected
      <3>3. /\ frames' \in Seq(Frame) /\ Len(frames') = Len(frames) - 1
            /\ \A i \in 1..Len(frames') : frames'[i] = frames[i + 1]
        BY <2>1, <3>1, <3>2
      <3>4. \A i \in 1..Len(frames') : frames'[i] \in {frames[j] : j \in 1..Len(frames)}
        BY <3>2, <3>3
      <3>5. Len(frames') <= Len(frames)
        BY <3>2, <3>3
      <3>6. QED
        BY <2>1, <3>1, <3>2, <3>3, <3>4, <3>5, GoesOn
        DEF IInv, TypeOK, Timed, Connected, timeVars, relayVars
    <2>6. QED
      BY <1>4, <2>2, <2>3, <2>4, <2>5 DEF Recv
  <1>5. CASE RecvTimesOut
    BY <1>5, FailedIInv DEF RecvTimesOut, relayVars, IInv, TypeOK, Failures
  <1>6. QED
    BY <1>1, <1>2, <1>3, <1>4, <1>5 DEF Send

LEMMA Inductive == Spec => []IInv
  <1>1. IInv /\ [Next]_vars => IInv'
    <2> SUFFICES ASSUME IInv, [Next]_vars PROVE IInv'
      OBVIOUS
    <2>1. CASE Next
      BY <2>1, SendIInv, TickIInv, DeniesIInv, TalksIInv, ClosesIInv, StoresIInv DEF Next
    <2>2. CASE UNCHANGED vars
      BY <2>2 DEF vars, sendVars, timeVars, relayVars, IInv, TypeOK, Told, Honest, Connected,
                  Judged, Timed
    <2>3. QED
      BY <2>1, <2>2
  <1>2. QED
    BY <1>1, InitIInv, PTL DEF Spec

(* Types, and the bound on the wait for a reply: a deadline and one more recv(). *)
THEOREM TypeCorrect == Spec => []TypeOK
  BY Inductive, PTL DEF IInv

(* channel.py:306-328: whether a failure is worth a retry is judged by the attempts *)
(* at all the relays, and at no fewer.                                              *)
THEOREM RetryJudged == Spec => []RetryIsJudgedByAll
  <1>1. IInv => RetryIsJudgedByAll
    <2> SUFFICES ASSUME IInv, report # "none" PROVE RetryIsJudgedByAll
      BY DEF RetryIsJudgedByAll
    <2> USE DeliveryAssumption DEF Relays
    <2>1. pc = "done" /\ relay \in Relays
      BY DEF IInv, TypeOK, Judged
    <2>2. CASE heard[relay] = "accepted" /\ report = "ok"
      BY <2>1, <2>2 DEF RetryIsJudgedByAll
    <2>3. CASE /\ heard[relay] \in Failures /\ relay = NRelays
               /\ report = IF any_retriable THEN "retriable" ELSE "permanent"
      <3>1. \A r \in Relays : heard[r] \in Failures
        BY <2>1, <2>3 DEF IInv, TypeOK, Judged
      <3>2. any_retriable <=> \E r \in Relays : heard[r] \in {"transport", "temporary"}
        BY DEF IInv, Judged
      <3>3. QED
        BY <2>3, <3>1, <3>2 DEF RetryIsJudgedByAll, Failures
    <2>4. QED
      BY <2>1, <2>2, <2>3 DEF IInv, Judged
  <1>2. QED
    BY <1>1, Inductive, PTL

(* The result follows the attempts, and the attempts the relays. *)
LEMMA ReportIsTrue ==
  ASSUME IInv', report' # report, report = "none", stored' = stored, no' = no
  PROVE  Promise!Report
  <1> USE DeliveryAssumption DEF Relays
  <1>1. pc' = "done" /\ relay' \in Relays
    BY DEF IInv, TypeOK, Judged
  <1>2. CASE heard'[relay'] = "accepted" /\ report' = "ok"
    BY <1>1, <1>2 DEF IInv, Judged, Promise!Report
  <1>3. CASE /\ heard'[relay'] \in Failures /\ relay' = NRelays
             /\ report' = IF any_retriable' THEN "retriable" ELSE "permanent"
    <2>1. CASE any_retriable'
      BY <1>3, <2>1 DEF Promise!Report
    <2>2. CASE ~any_retriable'
      <3>1. \A r \in Relays : heard'[r] = "permanent"
        BY <1>1, <1>3, <2>2 DEF IInv, TypeOK, Judged, Failures
      <3>2. no' = Relays
        BY <3>1 DEF IInv, TypeOK, Judged
      <3>3. QED
        BY <1>3, <2>2, <3>2 DEF Promise!Report
    <2>3. QED
      BY <2>1, <2>2
  <1>4. QED
    BY <1>1, <1>2, <1>3 DEF IInv, Judged

LEMMA StepImplements ==
  ASSUME IInv, IInv', [Next]_vars PROVE [Promise!Next]_<<stored, no, report>>
  <1>1. CASE Send
    <2>1. stored' = stored /\ no' = no /\ pc # "done" /\ report = "none"
      BY <1>1 DEF Send, Connect, SendEvent, Loop, Recv, RecvTimesOut, relayVars, IInv, Judged
    <2>2. QED
      BY <2>1, ReportIsTrue DEF Promise!Next
  <1>2. CASE Tick
    BY <1>2 DEF Tick, sendVars, relayVars
  <1>3. CASE RelayTalks
    BY <1>3 DEF RelayTalks, sendVars, relayVars
  <1>4. CASE RelayDenies \/ RelayCloses
    <2>1. stored' = stored /\ report' = report /\ no' \in {no, no \cup {relay}}
      BY <1>4 DEF RelayDenies, RelayCloses, sendVars
    <2>2. relay \in Relays
      BY DEF IInv, TypeOK
    <2>3. QED
      BY <2>1, <2>2 DEF Promise!Next, Promise!SayNo
  <1>5. CASE \E r \in Relays : RelayStores(r)
    <2>1. PICK r \in Relays : RelayStores(r)
      BY <1>5
    <2>2. Promise!Take(r)
      BY <2>1 DEF RelayStores, sendVars, Promise!Take
    <2>3. QED
      BY <2>2 DEF Promise!Next
  <1>6. CASE UNCHANGED vars
    BY <1>6 DEF vars, sendVars, relayVars
  <1>7. QED
    BY <1>1, <1>2, <1>3, <1>4, <1>5, <1>6 DEF Next

(* channel.py:287-294, base.py:92-99: the channel keeps the promise of a           *)
(* DeliveryResult.                                                                 *)
THEOREM KeepsPromise == Spec => ImplementsDelivery
  <1>1. Init => Promise!Init
    BY DEF Init, Promise!Init
  <1>2. QED
    BY <1>1, StepImplements, Inductive, PTL DEF Spec, ImplementsDelivery, Promise!Spec

-----------------------------------------------------------------------------
(* The mail server. *)

BeforeQuit == {"connect", "login", "mail", "rcpt", "data", "body"}

(* What one reply to the command c makes of the outcome. *)
Final(c, reply) ==
  \/ reply \in {"refused", "overlong"}
  \/ c = "login" /\ reply = "not supported"
  \/ c = "rcpt" /\ reply \in {"transient", "closing", "garbled"}

(* Up to the first failure every reply was the expected one; from then on the *)
(* exception on its way is the one that reply raised, until QUIT is answered.  *)
MailInv ==
  /\ stage \in BeforeQuit \cup {"quit", "done"} /\ taken \in BOOLEAN
  /\ said \in [Email!Commands -> Email!Replies
                 \cup {"unasked", "not supported", "no mechanism"}]
  /\ stage \in BeforeQuit =>
       /\ \A c \in Email!Commands : said[c] \in {"unasked", "positive"}
       /\ taken = FALSE
  /\ stage # "done" => said["quit"] = "unasked" /\ verdict = "none"
  /\ stage = "quit" =>
       /\ Email!Judged(raised) = "ok" => taken
       /\ taken => Email!Judged(raised) = "ok" \/ said["body"] \in Email!Unreadable
       /\ Email!Judged(raised) = "permanent" <=>
            Email!RefusedForGood \/ Email!TakenForRefusal
  /\ Email!VerdictIsTrue

(* While all is well, one reply decides what is taken for a refusal. *)
LEMMA OneReplyDecides ==
  ASSUME MailInv, stage \in BeforeQuit,
         NEW reply \in Email!Replies \cup {"not supported", "no mechanism"},
         said' = [said EXCEPT ![stage] = reply]
  PROVE  /\ (Email!RefusedForGood \/ Email!TakenForRefusal)' <=> Final(stage, reply)
         /\ said'["quit"] = "unasked" /\ said'[stage] = reply
         /\ said' \in [Email!Commands -> Email!Replies
                         \cup {"unasked", "not supported", "no mechanism"}]
  <1> USE DEF Email!Commands, BeforeQuit
  <1>1. \A c \in Email!Commands : said'[c] = IF c = stage THEN reply ELSE said[c]
    BY DEF MailInv
  <1>2. \A c \in Email!Commands : c # stage => said'[c] \in {"unasked", "positive"}
    BY <1>1 DEF MailInv
  <1>3. stage \in Email!Commands /\ said'[stage] = reply
    BY <1>1
  <1>4. Email!RefusedForGood' <=> reply = "refused" \/ (stage = "login" /\ reply = "not supported")
    BY <1>2, <1>3 DEF Email!RefusedForGood
  <1>5. Email!TakenForRefusal' <=>
          \/ reply = "overlong"
          \/ stage = "rcpt" /\ reply \in {"transient", "closing", "garbled"}
    BY <1>2, <1>3 DEF Email!TakenForRefusal
  <1>6. said'["quit"] = "unasked"
    BY <1>1 DEF MailInv
  <1>7. said' \in [Email!Commands -> Email!Replies
                     \cup {"unasked", "not supported", "no mechanism"}]
    BY DEF MailInv
  <1>8. QED
    BY <1>3, <1>4, <1>5, <1>6, <1>7 DEF Final

(* A command that failed: its exception is judged as the reply deserves. *)
LEMMA Raised ==
  ASSUME MailInv, stage \in BeforeQuit,
         NEW reply \in Email!Replies \cup {"not supported", "no mechanism"},
         said' = [said EXCEPT ![stage] = reply],
         stage' = "quit", verdict' = verdict, Email!Judged(raised') # "ok",
         Email!Judged(raised') = "permanent" <=> Final(stage, reply),
         taken' \in BOOLEAN, taken' => stage = "body" /\ reply \in Email!Unreadable
  PROVE  MailInv'
  <1>1. /\ (Email!RefusedForGood \/ Email!TakenForRefusal)' <=> Final(stage, reply)
        /\ said'["quit"] = "unasked" /\ said'[stage] = reply
        /\ said' \in [Email!Commands -> Email!Replies
                        \cup {"unasked", "not supported", "no mechanism"}]
    BY OneReplyDecides
  <1>2. verdict' = "none" /\ Email!VerdictIsTrue'
    BY DEF MailInv, Email!VerdictIsTrue, BeforeQuit
  <1>3. Email!Judged(raised)' = Email!Judged(raised')
    BY DEF Email!Judged
  <1>4. QED
    BY <1>1, <1>2, <1>3 DEF MailInv, BeforeQuit

(* A command that went well. *)
LEMMA Went ==
  ASSUME MailInv, stage \in BeforeQuit, said' = [said EXCEPT ![stage] = "positive"],
         Email!Goes(stage), verdict' = verdict, taken' = (stage = "body")
  PROVE  MailInv'
  <1>1. /\ (Email!RefusedForGood \/ Email!TakenForRefusal)' <=> Final(stage, "positive")
        /\ said'["quit"] = "unasked" /\ said'[stage] = "positive"
        /\ said' \in [Email!Commands -> Email!Replies
                        \cup {"unasked", "not supported", "no mechanism"}]
    BY OneReplyDecides DEF Email!Replies
  <1>2. verdict' = "none" /\ Email!VerdictIsTrue'
    BY DEF MailInv, Email!VerdictIsTrue, BeforeQuit
  <1>3. \A c \in Email!Commands : said'[c] \in {"unasked", "positive"}
    BY DEF MailInv
  <1>4. stage' \in BeforeQuit \cup {"quit"} /\ (stage' = "quit" <=> stage = "body")
    BY DEF Email!Goes, Email!Following, BeforeQuit
  <1>5. raised' = "none" /\ Email!Judged(raised)' = "ok" /\ ~Final(stage, "positive")
    BY DEF Email!Goes, Email!Judged, Final
  <1>6. QED
    BY <1>1, <1>2, <1>3, <1>4, <1>5 DEF MailInv, BeforeQuit

(* What any command but RCPT makes of a reply. *)
LEMMA ExceptionIsJudged ==
  ASSUME NEW c \in BeforeQuit, c # "rcpt", NEW reply \in Email!Replies, reply # "positive"
  PROVE  /\ Email!Judged(Email!Exception(reply)) # "ok"
         /\ Email!Judged(Email!Exception(reply)) = "permanent" <=> Final(c, reply)
  BY DEF Email!Replies, Email!Exception, Email!Judged, Final

LEMMA CommandMailInv ==
  ASSUME MailInv,
         Email!Connect \/ Email!Login \/ Email!MailFrom \/ Email!RcptTo \/ Email!Data \/ Email!Body
  PROVE  MailInv'
  <1> USE DEF BeforeQuit
  <1>1. CASE Email!Connect
    <2>1. PICK reply \in Email!Replies :
            /\ stage = "connect" /\ said' = [said EXCEPT !["connect"] = reply]
            /\ IF reply = "positive" THEN Email!Goes("connect")
               ELSE /\ raised' \in IF reply = "lost" THEN {"os error", "disconnected"}
                                                     ELSE {Email!Exception(reply)}
                    /\ stage' = "quit"
            /\ taken' = taken /\ verdict' = verdict
      BY <1>1 DEF Email!Connect, Email!Ask
    <2>2. taken = FALSE
      BY <2>1 DEF MailInv
    <2>3. CASE reply = "positive"
      BY <2>1, <2>2, <2>3, Went
    <2>4. CASE reply = "lost"
      <3>1. /\ Email!Judged(raised') # "ok"
            /\ Email!Judged(raised') = "permanent" <=> Final("connect", reply)
        BY <2>1, <2>4 DEF Email!Judged, Final
      <3>2. QED
        BY <2>1, <2>2, <2>4, <3>1, Raised
    <2>5. CASE reply \notin {"positive", "lost"}
      <3>1. raised' = Email!Exception(reply)
        BY <2>1, <2>5
      <3>2. QED
        BY <2>1, <2>2, <2>5, <3>1, ExceptionIsJudged, Raised
    <2>6. QED
      BY <2>3, <2>4, <2>5
  <1>2. CASE Email!Login
    <2>1. stage = "login" /\ taken' = taken /\ verdict' = verdict /\ taken = FALSE
      BY <1>2 DEF Email!Login, Email!Ask, MailInv
    <2>2. CASE \E reply \in Email!Replies :
                 /\ Email!Ask("login", reply)
                 /\ IF reply = "positive" THEN Email!Goes("login")
                    ELSE Email!Raise("login", reply, Email!Exception(reply))
      <3>1. PICK reply \in Email!Replies :
              /\ said' = [said EXCEPT !["login"] = reply]
              /\ IF reply = "positive" THEN Email!Goes("login")
                 ELSE raised' = Email!Exception(reply) /\ stage' = "quit"
        BY <2>2 DEF Email!Ask, Email!Raise
      <3>2. CASE reply = "positive"
        BY <2>1, <3>1, <3>2, Went
      <3>3. CASE reply # "positive"
        BY <2>1, <3>1, <3>3, ExceptionIsJudged, Raised
      <3>4. QED
        BY <3>2, <3>3
    <2>3. CASE \E lacks \in {"not supported", "no mechanism"} :
                 Email!Ask("login", lacks) /\ Email!Raise("login", lacks, lacks)
      <3>1. PICK lacks \in {"not supported", "no mechanism"} :
              said' = [said EXCEPT !["login"] = lacks] /\ raised' = lacks /\ stage' = "quit"
        BY <2>3 DEF Email!Ask, Email!Raise
      <3>2. /\ Email!Judged(raised') # "ok"
            /\ Email!Judged(raised') = "permanent" <=> Final("login", lacks)
        BY <3>1 DEF Email!Judged, Final
      <3>3. QED
        BY <2>1, <3>1, <3>2, Raised
    <2>4. QED
      BY <1>2, <2>2, <2>3 DEF Email!Login
  <1>3. CASE Email!MailFrom
    <2>1. PICK reply \in Email!Replies :
            /\ stage = "mail" /\ said' = [said EXCEPT !["mail"] = reply]
            /\ IF reply = "positive" THEN Email!Goes("mail")
               ELSE raised' = Email!Exception(reply) /\ stage' = "quit"
            /\ taken' = taken /\ verdict' = verdict
      BY <1>3 DEF Email!MailFrom, Email!Ask, Email!Raise
    <2>2. taken = FALSE
      BY <2>1 DEF MailInv
    <2>3. QED
      BY <2>1, <2>2, ExceptionIsJudged, Raised, Went
  <1>4. CASE Email!RcptTo
    <2>1. PICK reply \in Email!Replies :
            /\ stage = "rcpt" /\ said' = [said EXCEPT !["rcpt"] = reply]
            /\ IF reply = "positive" THEN Email!Goes("rcpt")
               ELSE /\ raised' = IF reply \in {"lost", "overlong"} THEN Email!Exception(reply)
                                                                   ELSE "recipients refused"
                    /\ stage' = "quit"
            /\ taken' = taken /\ verdict' = verdict
      BY <1>4 DEF Email!RcptTo, Email!Ask, Email!Raise
    <2>2. taken = FALSE
      BY <2>1 DEF MailInv
    <2>3. CASE reply = "positive"
      BY <2>1, <2>2, <2>3, Went
    <2>4. CASE reply # "positive"
      <3>1. /\ Email!Judged(raised') # "ok"
            /\ Email!Judged(raised') = "permanent" <=> Final("rcpt", reply)
        BY <2>1, <2>4 DEF Email!Replies, Email!Exception, Email!Judged, Final
      <3>2. QED
        BY <2>1, <2>2, <2>4, <3>1, Raised
    <2>5. QED
      BY <2>3, <2>4
  <1>5. CASE Email!Data
    <2>1. PICK reply \in Email!Replies :
            /\ stage = "data" /\ said' = [said EXCEPT !["data"] = reply]
            /\ IF reply = "positive" THEN Email!Goes("data")
               ELSE raised' = Email!Exception(reply) /\ stage' = "quit"
            /\ taken' = taken /\ verdict' = verdict
      BY <1>5 DEF Email!Data, Email!Ask, Email!Raise
    <2>2. taken = FALSE
      BY <2>1 DEF MailInv
    <2>3. QED
      BY <2>1, <2>2, ExceptionIsJudged, Raised, Went
  <1>6. CASE Email!Body
    <2>1. PICK reply \in Email!Replies :
            /\ stage = "body" /\ said' = [said EXCEPT !["body"] = reply]
            /\ IF reply = "positive" THEN Email!Goes("body")
               ELSE raised' = Email!Exception(reply) /\ stage' = "quit"
            /\ taken' \in IF reply = "positive" THEN {TRUE}
                          ELSE IF reply \in Email!Unreadable THEN BOOLEAN ELSE {FALSE}
            /\ verdict' = verdict
      BY <1>6 DEF Email!Body, Email!Ask, Email!Raise
    <2>2. CASE reply = "positive"
      BY <2>1, <2>2, Went
    <2>3. CASE reply # "positive"
      <3>1. taken' \in BOOLEAN /\ (taken' => reply \in Email!Unreadable)
        BY <2>1, <2>3
      <3>2. QED
        BY <2>1, <2>3, <3>1, ExceptionIsJudged, Raised
    <2>4. QED
      BY <2>2, <2>3
  <1>7. QED
    BY <1>1, <1>2, <1>3, <1>4, <1>5, <1>6

LEMMA QuitMailInv == ASSUME MailInv, Email!Quit PROVE MailInv'
  <1>1. /\ stage = "quit" /\ stage' = "done" /\ taken' = taken /\ taken \in BOOLEAN
        /\ verdict' = Email!Judged(raised') /\ said["quit"] = "unasked"
    BY DEF Email!Quit, MailInv
  <1>2. CASE UNCHANGED <<said, raised>>
    <2>1. Email!VerdictIsTrue'
      BY <1>1, <1>2 DEF MailInv, Email!VerdictIsTrue, Email!RefusedForGood,
                        Email!TakenForRefusal, Email!Judged
    <2>2. QED
      BY <1>1, <1>2, <2>1 DEF MailInv, BeforeQuit
  <1>3. CASE \E reply \in Email!Replies :
               /\ said' = [said EXCEPT !["quit"] = reply]
               /\ raised' = IF reply \in {"positive", "lost"} THEN raised
                                                              ELSE Email!Exception(reply)
    <2>1. PICK reply \in Email!Replies :
            /\ said' = [said EXCEPT !["quit"] = reply]
            /\ raised' = IF reply \in {"positive", "lost"} THEN raised
                                                           ELSE Email!Exception(reply)
      BY <1>3
    <2>2. /\ said' \in [Email!Commands -> Email!Replies
                          \cup {"unasked", "not supported", "no mechanism"}]
          /\ said'["quit"] = reply
          /\ \A c \in Email!Commands : c # "quit" => said'[c] = said[c]
      BY <2>1 DEF MailInv, Email!Commands
    <2>3. CASE reply \in {"positive", "lost"}
      <3>1. Email!RefusedForGood' <=> Email!RefusedForGood
        BY <1>1, <2>2, <2>3 DEF Email!RefusedForGood, Email!Commands
      <3>2. Email!TakenForRefusal' <=> Email!TakenForRefusal
        BY <1>1, <2>2, <2>3 DEF Email!TakenForRefusal, Email!Commands
      <3>3. raised' = raised /\ said'["body"] = said["body"]
        BY <2>1, <2>2, <2>3 DEF Email!Commands
      <3>4. Email!VerdictIsTrue'
        BY <1>1, <3>1, <3>2, <3>3 DEF MailInv, Email!VerdictIsTrue, Email!Judged
      <3>5. QED
        BY <1>1, <2>2, <3>4 DEF MailInv, BeforeQuit
    <2>4. CASE reply \notin {"positive", "lost"}
      <3>1. Email!QuitDecides' /\ verdict' # "ok"
        BY <1>1, <2>1, <2>2, <2>4
        DEF Email!QuitDecides, Email!Replies, Email!Exception, Email!Judged
      <3>2. QED
        BY <1>1, <2>2, <3>1 DEF MailInv, BeforeQuit, Email!VerdictIsTrue
    <2>5. QED
      BY <2>3, <2>4
  <1>4. QED
    BY <1>2, <1>3 DEF Email!Quit

-----------------------------------------------------------------------------
(* The seam. *)

LEMMA SeamInit == ChannelsInit => Init /\ MailInv
  <1> SUFFICES ASSUME ChannelsInit PROVE Init /\ MailInv
    OBVIOUS
  <1>1. /\ stage = "connect" /\ verdict = "none" /\ taken = FALSE
        /\ said = [c \in Email!Commands |-> "unasked"]
    BY DEF ChannelsInit, Email!Init
  <1>2. QED
    BY <1>1 DEF ChannelsInit, MailInv, BeforeQuit, Email!VerdictIsTrue, Email!Commands

LEMMA SeamStep == MailInv /\ [ChannelsNext]_seamVars => [Next]_vars /\ MailInv'
  <1> SUFFICES ASSUME MailInv, [ChannelsNext]_seamVars PROVE [Next]_vars /\ MailInv'
    OBVIOUS
  <1>1. ASSUME UNCHANGED emailVars
        PROVE  MailInv'
    BY <1>1 DEF emailVars, MailInv, Email!VerdictIsTrue, Email!RefusedForGood,
                Email!TakenForRefusal, Email!QuitDecides, Email!Judged
  <1>2. CASE ByNostr(Next)
    BY <1>1, <1>2 DEF ByNostr
  <1>3. CASE ByEmail
    BY <1>3, CommandMailInv, QuitMailInv DEF ByEmail, Email!Mail
  <1>4. CASE UNCHANGED seamVars
    BY <1>1, <1>4 DEF seamVars
  <1>5. QED
    BY <1>2, <1>3, <1>4 DEF ChannelsNext

(* email.py:239-251: what a DeliveryResult of the mail channel says of the message *)
(* is true, whatever the server answers to which command.                          *)
THEOREM MailVerdictHolds == FairChannels => []MailVerdictIsTrue
  <1>1. MailInv => MailVerdictIsTrue
    BY DEF MailInv, MailVerdictIsTrue
  <1>2. QED
    BY <1>1, SeamInit, SeamStep, PTL DEF FairChannels

(* base.py:92-99: an alert that goes out by either channel gets the result that the *)
(* channel alone would give, and the promise is kept.                               *)
THEOREM SeamKeepsPromises ==
  FairChannels => [](TypeOK /\ RetryIsJudgedByAll /\ MailVerdictIsTrue) /\ ImplementsDelivery
  <1>1. FairChannels => Spec
    BY SeamInit, SeamStep, PTL DEF FairChannels, Spec
  <1>2. QED
    BY <1>1, MailVerdictHolds, TypeCorrect, RetryJudged, KeepsPromise, PTL
=============================================================================
