---------------------------- MODULE EmailDelivery ----------------------------
(***************************************************************************)
(* channels.email.EmailChannel.send: one session with one mail server, and *)
(* what DeliveryResult is made of it.  The session is smtplib's: a command *)
(* at a time, an exception for a reply that is not the expected one, and a *)
(* QUIT when the `with` block is left, for whatever reason, as long as the *)
(* connection is open.  An answer to that QUIT other than 221 is raised    *)
(* too, in place of the outcome there was.                                 *)
(***************************************************************************)
EXTENDS Naturals

Commands == {"connect", "login", "mail", "rcpt", "data", "body", "quit"}

(* "positive" is the code the command expects, "closing" is 421, "garbled" is no  *)
(* code at all, "overlong" a line that smtplib reads no further, "lost" stands    *)
(* for a closed connection and for silence until the timeout.                     *)
Replies == {"positive", "transient", "closing", "refused", "garbled", "overlong", "lost"}

VARIABLES
  stage,    \* the command that is next, or "done"
  raised,   \* the exception on its way, or "none"
  open,     \* smtplib still has the connection
  said,     \* ghost: said[c], the reply to c
  taken,    \* ghost: the server has the message
  verdict   \* the DeliveryResult

mailVars == <<stage, raised, open, said, taken, verdict>>

Init ==
  /\ stage = "connect" /\ raised = "none" /\ open = FALSE
  /\ said = [c \in Commands |-> "unasked"] /\ taken = FALSE /\ verdict = "none"

-----------------------------------------------------------------------------
(* smtplib *)

(* The class and code of the exception that a reply other than the expected one *)
(* raises: SMTPServerDisconnected, or SMTPResponseException with its code.      *)
Exception(reply) ==
  CASE reply = "positive" -> "none"
    [] reply = "lost" -> "disconnected"
    [] reply \in {"refused", "overlong"} -> "code 5xx"
    [] reply \in {"transient", "closing"} -> "code 4xx"
    [] reply = "garbled" -> "code -1"

(* The command that follows c when it went well. *)
Following(c) ==
  CASE c = "connect" -> "login" [] c = "login" -> "mail" [] c = "mail" -> "rcpt"
    [] c = "rcpt" -> "data" [] c = "data" -> "body" [] c = "body" -> "quit"

(* smtplib closes the connection that was lost, that sent a line too long, or that *)
(* is closing, unless it was asked to log in or for DATA.                          *)
Closes(c, reply) ==
  \/ reply \in {"lost", "overlong"}
  \/ reply = "closing" /\ c \in {"mail", "rcpt", "body"}

Ask(c, reply) == stage = c /\ said' = [said EXCEPT ![c] = reply]

(* The exception e leaves the `with` block, by way of QUIT if c left a connection. *)
Raise(c, reply, e) ==
  /\ raised' = e
  /\ open' = ~Closes(c, reply)
  /\ stage' = "quit"

Goes(c) == stage' = Following(c) /\ open' = TRUE /\ raised' = "none"

-----------------------------------------------------------------------------
(* send() *)

(* The connection, TLS and the greeting.  A failure here is outside of the `with`, *)
(* so no QUIT follows.                                                             *)
Connect ==
  \E reply \in Replies :
    /\ Ask("connect", reply)
    /\ IF reply = "positive" THEN Goes("connect")
       ELSE /\ raised' \in IF reply = "lost" THEN {"os error", "disconnected"}
                                             ELSE {Exception(reply)}
            /\ open' = FALSE /\ stage' = "quit"
    /\ UNCHANGED <<taken, verdict>>

(* A server that offers no AUTH at all, or none of the mechanisms smtplib knows. *)
Login ==
  /\ \/ \E reply \in Replies :
          /\ Ask("login", reply)
          /\ IF reply = "positive" THEN Goes("login") ELSE Raise("login", reply, Exception(reply))
     \/ \E lacks \in {"not supported", "no mechanism"} :
          /\ Ask("login", lacks)
          /\ Raise("login", lacks, lacks)
  /\ UNCHANGED <<taken, verdict>>

MailFrom ==
  \E reply \in Replies :
    /\ Ask("mail", reply)
    /\ IF reply = "positive" THEN Goes("mail") ELSE Raise("mail", reply, Exception(reply))
    /\ UNCHANGED <<taken, verdict>>

(* Any code but 250 and 251 refuses the one recipient there is. *)
RcptTo ==
  \E reply \in Replies :
    /\ Ask("rcpt", reply)
    /\ IF reply = "positive" THEN Goes("rcpt")
       ELSE Raise("rcpt", reply, IF reply \in {"lost", "overlong"} THEN Exception(reply)
                                                               ELSE "recipients refused")
    /\ UNCHANGED <<taken, verdict>>

Data ==
  \E reply \in Replies :
    /\ Ask("data", reply)
    /\ IF reply = "positive" THEN Goes("data") ELSE Raise("data", reply, Exception(reply))
    /\ UNCHANGED <<taken, verdict>>

Unreadable == {"garbled", "overlong", "lost"}

(* The server takes the message or not; its answer may not arrive, or not as one. *)
Body ==
  \E reply \in Replies :
    /\ Ask("body", reply)
    /\ taken' \in IF reply = "positive" THEN {TRUE}
                  ELSE IF reply \in Unreadable THEN BOOLEAN ELSE {FALSE}
    /\ IF reply = "positive" THEN Goes("body") ELSE Raise("body", reply, Exception(reply))
    /\ UNCHANGED verdict

-----------------------------------------------------------------------------
(* Leaving the `with` block, and the except clauses in their order. *)

(* Seeded fault: every answer of the server, also a 4xx, is taken to be final. *)
Judged_all_final(e) ==
  CASE e = "none" -> "ok"
    [] e \in {"recipients refused", "not supported", "code 5xx", "code 4xx"} -> "permanent"
    [] e \in {"code -1", "no mechanism", "disconnected", "os error"} -> "retriable"

Judged(e) ==
  CASE e = "none" -> "ok"
    [] e \in {"recipients refused", "not supported", "code 5xx"} -> "permanent"
    [] e \in {"code 4xx", "code -1", "no mechanism", "disconnected", "os error"} -> "retriable"

(* A QUIT that is answered with 221, or not at all, leaves the outcome as it was. *)
Quit ==
  /\ stage = "quit"
  /\ \/ /\ open
        /\ \E reply \in Replies :
             /\ said' = [said EXCEPT !["quit"] = reply]
             /\ raised' = IF reply \in {"positive", "lost"} THEN raised ELSE Exception(reply)
     \/ ~open /\ UNCHANGED <<said, raised>>
  /\ verdict' = Judged(raised')
  /\ stage' = "done" /\ open' = FALSE
  /\ UNCHANGED taken

Mail == Connect \/ Login \/ MailFrom \/ RcptTo \/ Data \/ Body \/ Quit

Spec == Init /\ [][Mail]_mailVars

-----------------------------------------------------------------------------
RefusedForGood == (\E c \in Commands : said[c] = "refused") \/ said["login"] = "not supported"

(* What send() takes for a refusal for good although it is none: any answer to RCPT *)
(* but the expected one, and a line too long, for which smtplib makes up a 500.     *)
TakenForRefusal ==
  \/ said["rcpt"] \in {"transient", "closing", "garbled"}
  \/ \E c \in Commands : said[c] = "overlong"

(* The answer to QUIT is raised in place of what there was, good or bad. *)
QuitDecides == said["quit"] \notin {"unasked", "positive", "lost"}

(* email.py:239-251, base.py:95-99: the result is ok only when the server has the  *)
(* message.  Unless the answer to QUIT decides, a message it took is otherwise one *)
(* whose acceptance could not be read, and then worth a retry or taken for refused;*)
(* and a failure is permanent exactly when a reply was a refusal for good, or is   *)
(* taken for one.                                                                  *)
VerdictIsTrue ==
  verdict # "none" =>
    /\ verdict = "ok" => taken
    /\ ~QuitDecides =>
         /\ taken => verdict = "ok" \/ said["body"] \in Unreadable
         /\ verdict = "permanent" <=> RefusedForGood \/ TakenForRefusal
=============================================================================
