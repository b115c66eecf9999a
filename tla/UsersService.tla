---------------------------- MODULE UsersService ----------------------------
(***************************************************************************)
(* The users and userprofiles collections: the two inserts registration    *)
(* and the Google login share, with the unique indexes that refuse them,   *)
(* and the saves of a user document.  A document stays where it was        *)
(* created: no handler deletes a user or a profile.                        *)
(***************************************************************************)
EXTENDS AuthStore

\* createUserProfile: insert the profile with the names of request r.
CreateUserProfile(r, email, from, to) ==
  /\ pc[r] = from
  /\ \/ /\ UniqueEmail(profiles, email)
        /\ profiles' = [profiles EXCEPT ![email] = r]
        /\ Goto(r, to)
     \/ /\ ~UniqueEmail(profiles, email)
        /\ Answer(r, "500")
        /\ UNCHANGED profiles
  /\ UNCHANGED <<users, tokens, now, mail, faults>>

\* Mutation: the insert is not awaited, so a refusal goes unnoticed.
CreateUserUnawaited(r, email, user, from, to) ==
  /\ pc[r] = from
  /\ users' = IF UniqueUser(email, user.googleId)
              THEN [users EXCEPT ![email] = user] ELSE users
  /\ Goto(r, to)
  /\ UNCHANGED <<profiles, tokens, now, mail, faults>>

\* createUser, or userModel.create.
CreateUser(r, email, user, from, to) ==
  /\ pc[r] = from
  /\ \/ /\ UniqueUser(email, user.googleId)
        /\ users' = [users EXCEPT ![email] = user]
        /\ Goto(r, to)
     \/ /\ ~UniqueUser(email, user.googleId)
        /\ Answer(r, "500")
        /\ UNCHANGED users
  /\ UNCHANGED <<profiles, tokens, now, mail, faults>>

\* user.save() writes the one field the handler assigned: what another request
\* changed in the document since it was read is kept.
SaveUser(r, email, user, from, to) ==
  /\ pc[r] = from
  /\ users' = [users EXCEPT ![email] = user]
  /\ Goto(r, to)
  /\ UNCHANGED <<profiles, tokens, now, mail, faults>>

=============================================================================
