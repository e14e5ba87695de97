---------------------------- MODULE MCSubscriber ----------------------------
(* Three messages to a socket, so that one can wait behind another. *)
EXTENDS Subscriber
=============================================================================
