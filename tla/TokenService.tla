---------------------------- MODULE TokenService ----------------------------
(***************************************************************************)
(* The registrationtokens and passwordresettokens collections.  Each holds *)
(* at most one token per e-mail; the value of a token is drawn once and    *)
(* names the document, so a handler that saves a token it read earlier     *)
(* finds it only while the e-mail still carries that value.                *)
(***************************************************************************)
EXTENDS AuthStore

\* The token generateTokensForNewUser mails: 15 minutes from now.
RegistrationToken(r) == [value |-> r, expiryDate |-> now + TokenTTL]

\* Mutation: the placeholder is given the 15 minutes of a real token.
UsablePlaceholder(r) == [value |-> r, expiryDate |-> now + TokenTTL]

\* The password reset token created with it: it holds the place of the e-mail
\* in the collection and is expired from the start.
PlaceholderToken(r) == [value |-> r, expiryDate |-> now]

Stored(collection, email, value) ==
  collection[email] # None /\ collection[email].value = value

\* findOne({ value }): the documents that match, at most one.
Holders(collection, value) == {e \in Emails : Stored(collection, e, value)}

\* The token document a handler keeps while it awaits.
Held(collection, email) ==
  [email |-> email, expiryDate |-> collection[email].expiryDate]

\* deleteTokensForEmail is two awaits, one per collection.
DeleteRegistrationToken(r, email, from, to) ==
  /\ pc[r] = from
  /\ registrationTokens' = [registrationTokens EXCEPT ![email] = None]
  /\ Goto(r, to)
  /\ UNCHANGED <<accounts, passwordResetTokens, now, mail, faults>>

DeletePasswordResetToken(r, email, from, to) ==
  /\ pc[r] = from
  /\ passwordResetTokens' = [passwordResetTokens EXCEPT ![email] = None]
  /\ Goto(r, to)
  /\ UNCHANGED <<accounts, registrationTokens, now, mail, faults>>

CreateRegistrationToken(r, email, from, to) ==
  /\ pc[r] = from
  /\ \/ /\ UniqueEmail(registrationTokens, email)
        /\ registrationTokens' =
             [registrationTokens EXCEPT ![email] = RegistrationToken(r)]
        /\ Goto(r, to)
     \/ /\ ~UniqueEmail(registrationTokens, email)
        /\ Answer(r, "500")
        /\ UNCHANGED registrationTokens
  /\ UNCHANGED <<accounts, passwordResetTokens, now, mail, faults>>

CreatePasswordResetToken(r, email, token, from, to) ==
  /\ pc[r] = from
  /\ \/ /\ UniqueEmail(passwordResetTokens, email)
        /\ passwordResetTokens' =
             [passwordResetTokens EXCEPT ![email] = token]
        /\ Goto(r, to)
     \/ /\ ~UniqueEmail(passwordResetTokens, email)
        /\ Answer(r, "500")
        /\ UNCHANGED passwordResetTokens
  /\ UNCHANGED <<accounts, registrationTokens, now, mail, faults>>

\* Mutation: a confirmation extends the token instead of ending it.
RenewedExpiry == now + TokenTTL

\* token.expiryDate = DateTime.now()
SpentExpiry == now

\* Mutations: the confirmed token is not saved, or is deleted.
KeepToken(collection, email, value) == collection
DropToken(collection, email, value) ==
  IF Stored(collection, email, value)
  THEN [collection EXCEPT ![email] = None]
  ELSE collection

\* The collection after that save of the token of value.
Spend(collection, email, value) ==
  IF Stored(collection, email, value)
  THEN [collection EXCEPT ![email].expiryDate = SpentExpiry]
  ELSE collection

\* Saving a document that is gone rejects with DocumentNotFoundError.
SpendAnswer(collection, email, value) ==
  IF Stored(collection, email, value) THEN "SUCCESS" ELSE "500"

=============================================================================
