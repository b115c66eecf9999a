---------------------------- MODULE MailService ----------------------------
(***************************************************************************)
(* Events and e-mails.  A handler emits its event and answers without      *)
(* waiting: the listener runs later, sends one e-mail, and nobody retries  *)
(* it when the transporter refuses.                                        *)
(***************************************************************************)
EXTENDS AuthStore

RegisterMail(r, email) == [kind |-> "register", to |-> email, value |-> r]
ResetMail(r, email) == [kind |-> "reset", to |-> email, value |-> r]

\* Mutation: the handler answers and forgets the event.
AnswerOnly(r, m, from) ==
  /\ pc[r] = from
  /\ Answer(r, "AWAITING_EMAIL_VERIFICATION")
  /\ UNCHANGED <<accounts, tokens, now, mail, faults>>

\* eventEmitter.emit, then the handler returns AWAITING_EMAIL_VERIFICATION.
EmitAndAnswer(r, m, from) ==
  /\ pc[r] = from
  /\ mailQueue' = mailQueue \cup {m}
  /\ Answer(r, "AWAITING_EMAIL_VERIFICATION")
  /\ UNCHANGED <<accounts, tokens, now, mailbox, faults>>

\* onUserRegisteredEvent or onPasswordResetEvent: the transporter accepts.
SendMail(m) ==
  /\ m \in mailQueue
  /\ mailQueue' = mailQueue \ {m}
  /\ mailbox' = mailbox \cup {m}
  /\ UNCHANGED <<accounts, tokens, now, requests, faults>>

\* The transporter rejects, or does not accept the address: the e-mail is lost.
MailRefused(m) ==
  /\ m \in mailQueue
  /\ faults < MaxFaults
  /\ faults' = faults + 1
  /\ mailQueue' = mailQueue \ {m}
  /\ UNCHANGED <<accounts, tokens, now, requests, mailbox>>

\* The links of a kind a client can follow.
Links(kind) == {m.value : m \in {n \in mailbox : n.kind = kind}}

=============================================================================
