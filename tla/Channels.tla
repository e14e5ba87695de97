------------------------------ MODULE Channels ------------------------------
(***************************************************************************)
(* The seam of channels/base.py: one alert goes out by one Channel, which  *)
(* may be either implementation, and its DeliveryResult is all the caller  *)
(* sees.  The channel that was not chosen stays as it is.                  *)
(***************************************************************************)
EXTENDS NostrDelivery

VARIABLES
  kind,                                          \* the channel in use
  stage, raised, open, said, taken, verdict      \* of EmailDelivery

Email == INSTANCE EmailDelivery

emailVars == <<stage, raised, open, said, taken, verdict>>
seamVars == <<kind, vars, emailVars>>

ChannelsInit == Init /\ Email!Init /\ kind \in {"nostr", "email"}

ByNostr(A) == kind = "nostr" /\ A /\ UNCHANGED <<kind, emailVars>>
ByEmail == kind = "email" /\ Email!Mail /\ UNCHANGED <<kind, vars>>

ChannelsNext == ByNostr(Next) \/ ByEmail

(* The sending thread runs, and time passes.  Nothing is assumed of relays or of   *)
(* the mail server, whose silence is an answer too, since every read has a timeout.*)
FairChannels ==
  /\ ChannelsInit /\ [][ChannelsNext]_seamVars
  /\ WF_seamVars(ByNostr(Send)) /\ WF_seamVars(ByNostr(Tick)) /\ WF_seamVars(ByEmail)

MailVerdictIsTrue == Email!VerdictIsTrue

(* base.py:122-129, channel.py:262-266, tests/test_nostr_channel.py:476-494: send() *)
(* returns a result, even from relays that never stop talking and never acknowledge,*)
(* and from a mail server that fails at any command.                                *)
SendEnds == <>(report # "none" \/ verdict # "none")
=============================================================================
