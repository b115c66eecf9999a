---------------------------- MODULE MCReregister ----------------------------
(***************************************************************************)
(* A small instance of AuthSystem with a history variable: the user that   *)
(* the first findOne of registerUser met, which decides the branch of      *)
(* handleExistingUser the request takes.                                   *)
(***************************************************************************)
EXTENDS MCAuthSystem

VARIABLE met   \* what handleExistingUser found for each registration

MeetingInit == Init /\ met = [r \in Requests |-> None]

Meets(r) == pc[r] = "idle" /\ pc'[r] # "idle" /\ input'[r].op = "register"

MeetingNext ==
  /\ Next
  /\ met' = [r \in Requests |->
               IF Meets(r) THEN users[input'[r].email] ELSE met[r]]

MeetingSpec == MeetingInit /\ [][MeetingNext]_<<vars, met>>

\* registration.service.ts:67, of a registration that met a user who is neither
\* verified nor linked (the branch of lines 84-94): handleExistingUser "deletes
\* the user and associated tokens".  So when it has returned, the user document
\* it met is not there any more.  (A user is told apart by the hash of its
\* password, which is drawn once.)
UnverifiedUserIsDeleted ==
  \A r \in Requests :
    /\ pc[r] = "findRegistered"
    /\ met[r] # None
    /\ NotVerifiedYet(met[r])
    => users[Email(r)] # met[r]

=============================================================================
