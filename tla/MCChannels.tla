----------------------------- MODULE MCChannels -----------------------------
(* Three relays and a reason of each class; one mail server. *)
EXTENDS Channels

MCNotes == {"blocked", "rate-limited", "go away"}
=============================================================================
