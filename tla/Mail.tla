--------------------------------- MODULE Mail ---------------------------------
(***************************************************************************)
(* The mail providers: the goroutine that sends one message, step by step, *)
(* and the mail server at the other end.                                   *)
(*                                                                         *)
(* Nobody waits for the goroutine, its result is only logged, nothing is   *)
(* tried again, and none of its calls has a deadline: it may hang in any   *)
(* of them, so no step of this module is fair.  A message to an empty      *)
(* address is refused by every server.                                     *)
(***************************************************************************)
EXTENDS Naturals

CONSTANTS
    Mails,    \* messages; bound: as many are ever sent
    Nobody    \* of no process

VARIABLE
    mail      \* per message: its process, its step, its address, how often it was accepted

Step == {"none", "dial", "auth", "envelope", "dot", "quit", "post", "sent", "failed", "lost"}

Provider == {"smtp", "resend", "noop", "empty"}

\* A message is to the user, or to the empty address.
Address == {"user", "empty"}

NoMail == [on |-> Nobody, at |-> "none", to |-> "user", accepted |-> 0]

MailInit == mail = [m \in Mails |-> NoMail]

Under(m) == mail[m].at \notin {"none", "sent", "failed", "lost"}

\* The first step of Send.
FirstStep(provider) ==
    CASE provider = "smtp" -> "dial"
      [] provider = "resend" -> "post"
      [] OTHER -> "sent"

\* go func() { mailer.Send(...) }()
StartMail(m, process, provider, to) ==
    /\ mail[m].at = "none"
    /\ mail' = [mail EXCEPT ![m] = [on |-> process, at |-> FirstStep(provider),
                                    to |-> to, accepted |-> 0]]

\* The process is gone, and its goroutines with it.
LoseMails(process) ==
    mail' = [m \in Mails |-> IF Under(m) /\ mail[m].on = process
                             THEN [mail[m] EXCEPT !.at = "lost"] ELSE mail[m]]

Talk(m, from, next) == mail[m].at = from /\ mail' = [mail EXCEPT ![m].at = next]

\* The greeting; SendMail also asks for TLS if the server offers it, and on port 465 the
\* connection is TLS already.  Then AUTH, if a user name is configured.
SmtpDial(m, user) == Talk(m, "dial", IF user THEN "auth" ELSE "envelope")

SmtpAuth(m) == Talk(m, "auth", "envelope")

\* MAIL FROM, RCPT TO, DATA and the text.
SmtpEnvelope(m) == mail[m].to # "empty" /\ Talk(m, "envelope", "dot")

\* The server accepts the message; the sender learns it or not.
Taken(m, next) ==
    mail' = [mail EXCEPT ![m] = [on |-> @.on, at |-> next, to |-> @.to, accepted |-> @.accepted + 1]]

\* Mutation: the end of the message is not waited for.
SmtpDotUnchecked(m, tls) ==
    \/ Talk(m, "dot", "sent")
    \/ mail[m].at = "dot" /\ Taken(m, "sent")

\* The end of the message (w.Close): the server accepts it or not, and its reply may be
\* lost.  SendMail says QUIT before it returns; sendTLS does not.
SmtpDot(m, tls) ==
    /\ mail[m].at = "dot"
    /\ Taken(m, IF tls THEN "sent" ELSE "quit") \/ Taken(m, "failed")

SmtpQuit(m) == Talk(m, "quit", "sent")

\* One POST: a status outside 200 .. 299, or none, is an error.
ResendPost(m) ==
    /\ mail[m].at = "post"
    /\ mail[m].to # "empty"
    /\ Taken(m, "sent") \/ Taken(m, "failed")

\* Any step of the dialogue may fail, with nothing done: nobody answers, TLS or the
\* password is refused, PlainAuth does not speak without TLS to any but a local server.
MailFails(m) == Under(m) /\ mail' = [mail EXCEPT ![m].at = "failed"]

SendStep(m, tls, user) ==
    \/ SmtpDial(m, user)
    \/ SmtpAuth(m)
    \/ SmtpEnvelope(m)
    \/ SmtpDot(m, tls)
    \/ SmtpQuit(m)
    \/ ResendPost(m)
    \/ MailFails(m)

MailTypeOK ==
    mail \in [Mails -> [on : Nat \cup {Nobody}, at : Step, to : Address, accepted : Nat]]
=============================================================================
