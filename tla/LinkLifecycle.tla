--------------------------- MODULE LinkLifecycle ---------------------------
(***************************************************************************)
(* What the API promises about the value of a mailed link.  It becomes     *)
(* live at most once, when its token is stored, and once it is dead - by   *)
(* expiry, by use, or because a newer request replaced it - it stays dead. *)
(* A confirmation opens a link only while it is live.  What was opened may *)
(* be used after the link died, so confirmations that opened a link at the *)
(* same time may all use it; but its first use ends it, and no             *)
(* confirmation that comes later uses it again.                            *)
(***************************************************************************)
CONSTANTS Values, Confirmations

VARIABLES
  state,   \* of the value of each link
  open,    \* <<c, v>> when confirmation c has opened the link of v
  used     \* <<c, v>> when c has succeeded with it

link == <<state, open, used>>

Init ==
  /\ state = [v \in Values |-> "unissued"]
  /\ open = {}
  /\ used = {}

\* The token of v is stored.
Issue(v) ==
  /\ state[v] = "unissued"
  /\ state' = [state EXCEPT ![v] = "live"]
  /\ UNCHANGED <<open, used>>

\* c reads the token of v and has found nothing wrong with it.
Open(c, v) ==
  /\ state[v] = "live"
  /\ \A w \in Values : <<c, w>> \notin open \cup used
  /\ open' = open \cup {<<c, v>>}
  /\ UNCHANGED <<state, used>>

\* c succeeds.
Use(c, v) ==
  /\ <<c, v>> \in open
  /\ open' = open \ {<<c, v>>}
  /\ used' = used \cup {<<c, v>>}
  /\ state' = [state EXCEPT ![v] = "dead"]

\* Time passes, a crash or a newer request ends the life of some links, or the
\* chance of some to be issued; some confirmations give up.
Fade ==
  /\ \E vs \in SUBSET Values :
       state' = [v \in Values |-> IF v \in vs THEN "dead" ELSE state[v]]
  /\ open' \in SUBSET open
  /\ UNCHANGED used

Next ==
  \/ Fade
  \/ \E v \in Values : Issue(v)
  \/ \E c \in Confirmations, v \in Values : Open(c, v) \/ Use(c, v)

Spec == Init /\ [][Next]_link

=============================================================================
