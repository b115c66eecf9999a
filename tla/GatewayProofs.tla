---------------------------- MODULE GatewayProofs ----------------------------
(***************************************************************************)
(* The limits of ThrottlerGuard hold for any number of clients, handlers,  *)
(* requests and hits, any Limit and any TTL.                               *)
(*                                                                         *)
(* A window is kept by the storage only through the timers, which refused  *)
(* hits have too and which fire late.  The invariant lays the hits that    *)
(* were let in beside the timers, both from the newest on: a timer lasts   *)
(* at least as long as the hit beside it.                                  *)
(*                                                                         *)
(* What passes the ValidationPipe, for any handlers, lengths and bodies,   *)
(* whatever other requests do: the validators say enough of an instance    *)
(* for its handler, and not too much for a value that was drawn.           *)
(***************************************************************************)
EXTENDS Gateway, FoldLemmas

Hits == Seq(0..TTL)

Ascending(t) == \A i, j \in 1..Len(t) : i <= j => t[i] <= t[j]

\* The hits of a, from the newest, are over with the timers of t or before.
Covered(a, t) ==
  \A j \in 1..Len(a), i \in Int :
    i = j + Len(t) - Len(a) =>
      IF i \in 1..Len(t) THEN a[j] <= t[i] ELSE a[j] = 0

\* Of Limit + 1 hits of a in a row the first is over: as WindowWithinLimit says,
\* of the newest, which is all that a step can disturb.
Spread(a) == Len(a) > Limit => a[Len(a) - Limit] = 0

ThrottlingInv ==
  /\ timers \in [Keys -> Hits]
  /\ admitted \in [Keys -> Hits]
  /\ sent \in [Keys -> Nat]
  /\ \A k \in Keys :
       /\ Ascending(timers[k])
       /\ Covered(admitted[k], timers[k])
       /\ Spread(admitted[k])
       /\ Len(timers[k]) <= sent[k]

\* A refused request is over the limit of its own hits.
RefusalInv ==
  \A r \in Requests : stage[r] = "429" =>
    /\ <<request[r].client, request[r].handler>> \in Keys
    /\ sent[<<request[r].client, request[r].handler>>] > Limit

RequestsOK ==
  /\ DOMAIN stage = Requests
  /\ DOMAIN request = Requests

GatewayInv == ThrottlingInv /\ RefusalInv /\ RequestsOK

-----------------------------------------------------------------------------
\* A new hit has the longest time of all.
LEMMA HitKeepsOrder ==
  ASSUME NEW t \in Hits, Ascending(t)
  PROVE  Append(t, TTL) \in Hits /\ Ascending(Append(t, TTL))
<1> USE ThrottlingAssumption DEF Hits
<1> DEFINE u == Append(t, TTL)
<1>1. u \in Seq(0..TTL) /\ Len(u) = Len(t) + 1
  OBVIOUS
<1>2. u[Len(u)] = TTL /\ \A i \in 1..Len(t) : u[i] = t[i]
  OBVIOUS
<1>3. \A i \in 1..Len(u) : u[i] \in 0..TTL /\ (i \in 1..Len(t) \/ i = Len(u))
  BY <1>1
<1> QED
  BY <1>1, <1>2, <1>3 DEF Ascending

\* A hit that is let in, and one that is refused, leave the hits covered.
LEMMA HitKeepsCover ==
  ASSUME NEW t \in Hits, NEW a \in Hits, Ascending(t), Covered(a, t)
  PROVE  /\ Covered(Append(a, TTL), Append(t, TTL))
         /\ Covered(a, Append(t, TTL))
<1> USE ThrottlingAssumption
<1> DEFINE u == Append(t, TTL)
           b == Append(a, TTL)
<1>1. /\ Len(u) = Len(t) + 1 /\ Len(b) = Len(a) + 1
      /\ Len(t) \in Nat /\ Len(a) \in Nat
      /\ u[Len(u)] = TTL /\ b[Len(b)] = TTL
      /\ \A i \in 1..Len(t) : u[i] = t[i] /\ t[i] \in 0..TTL
      /\ \A i \in 1..Len(a) : b[i] = a[i] /\ a[i] \in 0..TTL
  BY DEF Hits
<1> HIDE DEF u, b
<1>2. \A i \in 1..Len(u) : u[i] \in 0..TTL
  <2> SUFFICES ASSUME NEW i \in 1..Len(u) PROVE u[i] \in 0..TTL
    OBVIOUS
  <2>1. i \in 1..Len(t) \/ i = Len(u)
    BY <1>1
  <2> QED
    BY <1>1, <2>1
<1>3. \A i \in 1..Len(t) : t[i] <= u[i + 1]
  <2> SUFFICES ASSUME NEW i \in 1..Len(t) PROVE t[i] <= u[i + 1]
    OBVIOUS
  <2>1. CASE i = Len(t)
    BY <1>1, <2>1
  <2>2. CASE i < Len(t)
    BY <1>1, <2>2 DEF Ascending
  <2> QED
    BY <1>1, <2>1, <2>2
<1>4. ASSUME NEW j \in 1..Len(a), NEW i \in Int, i = j + Len(t) - Len(a)
      PROVE  /\ i \in 1..Len(t) => a[j] <= t[i]
             /\ i \notin 1..Len(t) => a[j] = 0
  BY <1>4 DEF Covered
<1>5. ASSUME NEW j \in 1..Len(b), NEW i \in Int, i = j + Len(u) - Len(b)
      PROVE  IF i \in 1..Len(u) THEN b[j] <= u[i] ELSE b[j] = 0
  <2>1. i = j + Len(t) - Len(a)
    BY <1>1, <1>5
  <2>2. CASE j = Len(b)
    BY <1>1, <2>1, <2>2
  <2>3. CASE j # Len(b)
    <3>1. j \in 1..Len(a) /\ (i \in 1..Len(t) <=> i \in 1..Len(u))
      BY <1>1, <2>1, <2>3
    <3> QED
      BY <1>1, <1>4, <2>1, <3>1
  <2> QED
    BY <2>2, <2>3
<1>6. ASSUME NEW j \in 1..Len(a), NEW i \in Int, i = j + Len(u) - Len(a)
      PROVE  IF i \in 1..Len(u) THEN a[j] <= u[i] ELSE a[j] = 0
  <2>1. i - 1 \in Int /\ i - 1 = j + Len(t) - Len(a) /\ i - 1 <= Len(t)
    BY <1>1, <1>6
  <2>2. CASE i - 1 \in 1..Len(t)
    <3>1. a[j] <= t[i - 1] /\ t[i - 1] <= u[(i - 1) + 1]
      BY <1>3, <1>4, <2>1, <2>2
    <3>2. (i - 1) + 1 = i /\ i \in 1..Len(u)
      BY <1>1, <2>2
    <3>3. a[j] \in 0..TTL /\ t[i - 1] \in 0..TTL /\ u[i] \in 0..TTL
      BY <1>1, <1>2, <2>2, <3>2
    <3> QED
      BY <3>1, <3>2, <3>3
  <2>3. CASE i - 1 \notin 1..Len(t)
    <3>1. a[j] = 0
      BY <1>4, <2>1, <2>3
    <3>2. i \in 1..Len(u) => u[i] >= 0
      BY <1>2
    <3> QED
      BY <3>1, <3>2
  <2> QED
    BY <2>2, <2>3
<1>7. Covered(b, u) /\ Covered(a, u)
  BY <1>5, <1>6 DEF Covered
<1> QED
  BY <1>7 DEF u, b

\* A hit is only let in when the timers leave room, and then a hit Limit hits
\* ago has none.
LEMMA AdmittedHitKeepsSpread ==
  ASSUME NEW t \in Hits, NEW a \in Hits, Covered(a, t), Len(t) < Limit
  PROVE  Append(a, TTL) \in Hits /\ Spread(Append(a, TTL))
<1> USE ThrottlingAssumption DEF Hits
<1> DEFINE b == Append(a, TTL)
           j == Len(b) - Limit
<1>1. /\ Len(b) = Len(a) + 1 /\ Len(a) \in Nat /\ Len(t) \in Nat
      /\ b \in Seq(0..TTL)
      /\ \A i \in 1..Len(a) : b[i] = a[i]
  OBVIOUS
<1>2. ASSUME Len(b) > Limit PROVE b[j] = 0
  <2>1. j \in 1..Len(a)
    BY <1>1, <1>2
  <2>2. PICK i \in Int : i = j + Len(t) - Len(a)
    <3>1. j + Len(t) - Len(a) \in Int
      BY <1>1
    <3> QED
      BY <3>1, Zenon
  <2>3. i \notin 1..Len(t)
    BY <1>1, <2>2
  <2> HIDE DEF j, b
  <2>4. a[j] = 0
    BY <2>1, <2>2, <2>3 DEF Covered
  <2> QED
    BY <1>1, <2>1, <2>4
<1> QED
  BY <1>1, <1>2 DEF Spread

\* The oldest timer that is due has nothing left to cover.
LEMMA FireKeepsCover ==
  ASSUME NEW t \in Hits, NEW a \in Hits, Ascending(t), Covered(a, t),
         t # <<>>, Head(t) = 0
  PROVE  /\ Tail(t) \in Hits /\ Len(Tail(t)) <= Len(t)
         /\ Ascending(Tail(t)) /\ Covered(a, Tail(t))
<1> USE ThrottlingAssumption
<1> DEFINE u == Tail(t)
<1>1. /\ Len(t) \in Nat \ {0} /\ Len(u) = Len(t) - 1 /\ Len(a) \in Nat
      /\ u \in Seq(0..TTL) /\ t[1] = 0
      /\ \A i \in 1..Len(u) : u[i] = t[i + 1]
      /\ \A i \in 1..Len(a) : a[i] \in 0..TTL
  BY DEF Hits
<1> HIDE DEF u
<1>2. Ascending(u)
  <2> SUFFICES ASSUME NEW i \in 1..Len(u), NEW j \in 1..Len(u), i <= j
               PROVE  u[i] <= u[j]
    BY DEF Ascending
  <2>1. i + 1 \in 1..Len(t) /\ j + 1 \in 1..Len(t) /\ i + 1 <= j + 1
    BY <1>1
  <2>2. t[i + 1] <= t[j + 1]
    BY <2>1 DEF Ascending
  <2> QED
    BY <1>1, <2>2
<1>3. ASSUME NEW j \in 1..Len(a), NEW i \in Int, i = j + Len(u) - Len(a)
      PROVE  IF i \in 1..Len(u) THEN a[j] <= u[i] ELSE a[j] = 0
  <2>1. i + 1 \in Int /\ i + 1 = j + Len(t) - Len(a) /\ i <= Len(u)
    BY <1>1, <1>3
  <2>2. /\ i + 1 \in 1..Len(t) => a[j] <= t[i + 1]
        /\ i + 1 \notin 1..Len(t) => a[j] = 0
    BY <2>1 DEF Covered
  <2>3. CASE i \in 1..Len(u)
    BY <1>1, <2>2, <2>3
  <2>4. CASE i \notin 1..Len(u)
    <3>1. i + 1 = 1 \/ i + 1 \notin 1..Len(t)
      BY <1>1, <2>4
    <3>2. a[j] = 0
      BY <1>1, <2>2, <3>1
    <3> QED
      BY <2>4, <3>2
  <2> QED
    BY <2>3, <2>4
<1>4. Covered(a, u)
  BY <1>3 DEF Covered
<1> QED
  BY <1>1, <1>2, <1>4 DEF u, Hits

\* Time takes as much from a hit as from the timer beside it.
LEMMA TickKeepsCover ==
  ASSUME NEW t \in Hits, NEW a \in Hits,
         Ascending(t), Covered(a, t), Spread(a)
  PROVE  /\ Shortened(t) \in Hits /\ Shortened(a) \in Hits
         /\ Len(Shortened(t)) = Len(t)
         /\ Ascending(Shortened(t)) /\ Covered(Shortened(a), Shortened(t))
         /\ Spread(Shortened(a))
<1> USE ThrottlingAssumption DEF Hits
<1>1. ASSUME NEW s \in Seq(0..TTL)
      PROVE  /\ Shortened(s) \in Seq(0..TTL)
             /\ Len(Shortened(s)) = Len(s)
             /\ \A i \in 1..Len(s) :
                  /\ s[i] \in 0..TTL
                  /\ Shortened(s)[i] = IF s[i] = 0 THEN 0 ELSE s[i] - 1
  <2>1. Len(s) \in Nat /\ DOMAIN s = 1..Len(s) /\ \A i \in 1..Len(s) : s[i] \in 0..TTL
    OBVIOUS
  <2>2. Shortened(s) \in [1..Len(s) -> 0..TTL]
    BY <2>1 DEF Shortened
  <2> QED
    BY <2>1, <2>2 DEF Shortened
<1>2. Len(t) \in Nat /\ Len(a) \in Nat
  OBVIOUS
<1>3. Ascending(Shortened(t))
  <2> SUFFICES ASSUME NEW i \in 1..Len(t), NEW j \in 1..Len(t), i <= j
               PROVE  Shortened(t)[i] <= Shortened(t)[j]
    BY <1>1 DEF Ascending
  <2>1. /\ t[i] \in 0..TTL /\ Shortened(t)[i] = IF t[i] = 0 THEN 0 ELSE t[i] - 1
        /\ t[j] \in 0..TTL /\ Shortened(t)[j] = IF t[j] = 0 THEN 0 ELSE t[j] - 1
    BY <1>1
  <2>2. t[i] <= t[j]
    BY DEF Ascending
  <2> QED
    BY <2>1, <2>2
<1>4. ASSUME NEW j \in 1..Len(a), NEW i \in Int, i = j + Len(t) - Len(a)
      PROVE  IF i \in 1..Len(t) THEN Shortened(a)[j] <= Shortened(t)[i]
                                ELSE Shortened(a)[j] = 0
  <2>1. IF i \in 1..Len(t) THEN a[j] <= t[i] ELSE a[j] = 0
    BY <1>4 DEF Covered
  <2>2. a[j] \in 0..TTL /\ Shortened(a)[j] = IF a[j] = 0 THEN 0 ELSE a[j] - 1
    BY <1>1
  <2>3. i \in 1..Len(t) =>
          t[i] \in 0..TTL /\ Shortened(t)[i] = IF t[i] = 0 THEN 0 ELSE t[i] - 1
    BY <1>1
  <2> QED
    BY <2>1, <2>2, <2>3
<1>6. Covered(Shortened(a), Shortened(t))
  <2>1. Len(Shortened(a)) = Len(a) /\ Len(Shortened(t)) = Len(t)
    BY <1>1
  <2> QED
    BY <1>4, <2>1 DEF Covered
<1>5. Spread(Shortened(a))
  <2> SUFFICES ASSUME Len(a) > Limit PROVE Shortened(a)[Len(a) - Limit] = 0
    BY <1>1 DEF Spread
  <2>1. Len(a) - Limit \in 1..Len(a) /\ a[Len(a) - Limit] = 0
    BY <1>2 DEF Spread
  <2> QED
    BY <1>1, <2>1
<1> QED
  BY <1>1, <1>3, <1>6, <1>5

-----------------------------------------------------------------------------
\* An empty storage, of a process that starts, has nothing to cover.
LEMMA QuietKeepsInv == timers = Quiet /\ admitted = Quiet
                         /\ sent = [k \in Keys |-> 0] => ThrottlingInv
  BY ThrottlingAssumption
     DEF ThrottlingInv, Quiet, Hits, Ascending, Covered, Spread

\* A hit, let in or refused, keeps hits and timers side by side.
LEMMA HitKeepsInv ==
  ASSUME ThrottlingInv, NEW c \in Clients, NEW h \in Handlers, Hit(c, h)
  PROVE  /\ ThrottlingInv'
         /\ \A k \in Keys : sent'[k] >= sent[k]
         /\ ~Admits(GenerateKey(c, h)) => sent'[<<c, h>>] > Limit
<1> DEFINE k == <<c, h>>
<1>1. k \in Keys
  BY DEF Keys
<1>2. /\ timers' = [timers EXCEPT ![k] = Append(timers[k], TTL)]
      /\ admitted' = IF Admits(k)
                       THEN [admitted EXCEPT ![k] = Append(admitted[k], TTL)]
                       ELSE admitted
      /\ sent' = [sent EXCEPT ![k] = sent[k] + 1]
  BY DEF Hit, GenerateKey
<1>3. /\ timers[k] \in Hits /\ admitted[k] \in Hits /\ sent[k] \in Nat
      /\ Ascending(timers[k]) /\ Covered(admitted[k], timers[k])
      /\ Spread(admitted[k]) /\ Len(timers[k]) <= sent[k]
      /\ Len(timers[k]) \in Nat
  BY <1>1 DEF ThrottlingInv, Hits
<1> HIDE DEF k
<1>4. /\ timers'[k] = Append(timers[k], TTL)
      /\ sent'[k] = sent[k] + 1
      /\ admitted'[k] = IF Admits(k) THEN Append(admitted[k], TTL)
                                     ELSE admitted[k]
      /\ \A o \in Keys \ {k} : /\ timers'[o] = timers[o]
                               /\ admitted'[o] = admitted[o]
                               /\ sent'[o] = sent[o]
  BY <1>1, <1>2 DEF ThrottlingInv
<1>5. /\ timers'[k] \in Hits /\ Ascending(timers'[k])
      /\ Len(timers'[k]) = Len(timers[k]) + 1
  BY <1>3, <1>4, HitKeepsOrder DEF Hits
<1>6. /\ admitted'[k] \in Hits
      /\ Covered(admitted'[k], timers'[k])
      /\ Spread(admitted'[k])
  <2>1. CASE Admits(k)
    BY <1>3, <1>4, <2>1, HitKeepsCover, AdmittedHitKeepsSpread DEF Admits
  <2>2. CASE ~Admits(k)
    BY <1>3, <1>4, <2>2, HitKeepsCover
  <2> QED
    BY <2>1, <2>2
<1>7. /\ timers' \in [Keys -> Hits] /\ admitted' \in [Keys -> Hits]
      /\ sent' \in [Keys -> Nat]
  <2>1. Append(timers[k], TTL) \in Hits /\ sent[k] + 1 \in Nat
    BY <1>3, <1>4, <1>5
  <2>2. Admits(k) => Append(admitted[k], TTL) \in Hits
    BY <1>4, <1>6
  <2> QED
    BY <1>1, <1>2, <2>1, <2>2 DEF ThrottlingInv
<1>8. ThrottlingInv'
  <2>1. \A o \in Keys : /\ Ascending(timers'[o])
                        /\ Covered(admitted'[o], timers'[o])
                        /\ Spread(admitted'[o])
                        /\ Len(timers'[o]) <= sent'[o]
    <3> SUFFICES ASSUME NEW o \in Keys
                 PROVE  /\ Ascending(timers'[o])
                        /\ Covered(admitted'[o], timers'[o])
                        /\ Spread(admitted'[o])
                        /\ Len(timers'[o]) <= sent'[o]
      OBVIOUS
    <3>1. CASE o = k
      <4>1. Len(timers'[k]) <= sent'[k]
        BY <1>3, <1>4, <1>5
      <4> QED
        BY <1>5, <1>6, <3>1, <4>1, Zenon
    <3>2. CASE o # k
      BY <1>4, <3>2 DEF ThrottlingInv
    <3> QED
      BY <3>1, <3>2
  <2> QED
    BY <1>7, <2>1 DEF ThrottlingInv, Ascending, Covered, Spread
<1>9. \A o \in Keys : sent'[o] >= sent[o]
  <2> SUFFICES ASSUME NEW o \in Keys PROVE sent'[o] >= sent[o]
    OBVIOUS
  <2>1. sent[o] \in Nat
    BY DEF ThrottlingInv
  <2> QED
    BY <1>3, <1>4, <2>1
<1>10. ~Admits(k) => sent'[k] > Limit
  BY <1>3, <1>4, ThrottlingAssumption DEF Admits
<1> QED
  BY <1>8, <1>9, <1>10 DEF k, GenerateKey

\* A timer that fires keeps hits and timers side by side.
LEMMA FireKeepsInv ==
  ASSUME ThrottlingInv, NEW k \in Keys, Fire(k)
  PROVE  ThrottlingInv' /\ UNCHANGED sent
<1>1. /\ timers[k] \in Hits /\ admitted[k] \in Hits /\ sent[k] \in Nat
      /\ Ascending(timers[k]) /\ Covered(admitted[k], timers[k])
      /\ Len(timers[k]) <= sent[k]
      /\ timers[k] # <<>> /\ Head(timers[k]) = 0
  BY DEF ThrottlingInv, Fire
<1>2. /\ Tail(timers[k]) \in Hits /\ Len(Tail(timers[k])) <= Len(timers[k])
      /\ Ascending(Tail(timers[k]))
      /\ Covered(admitted[k], Tail(timers[k]))
  BY <1>1, FireKeepsCover
<1>3. /\ timers' = [timers EXCEPT ![k] = Tail(timers[k])]
      /\ admitted' = admitted /\ sent' = sent
  BY DEF Fire, Discounted
<1>4. timers' \in [Keys -> Hits]
  BY <1>2, <1>3 DEF ThrottlingInv
<1>5. \A o \in Keys : /\ Ascending(timers'[o])
                      /\ Covered(admitted'[o], timers'[o])
                      /\ Len(timers'[o]) <= sent'[o]
  <2> SUFFICES ASSUME NEW o \in Keys
               PROVE  /\ Ascending(timers'[o])
                      /\ Covered(admitted'[o], timers'[o])
                      /\ Len(timers'[o]) <= sent'[o]
    OBVIOUS
  <2>1. CASE o = k
    <3>1. timers'[k] = Tail(timers[k])
      BY <1>3 DEF ThrottlingInv
    <3>2. Len(timers[k]) \in Nat /\ Len(Tail(timers[k])) \in Nat
      BY <1>1, <1>2 DEF Hits
    <3> QED
      BY <1>1, <1>2, <1>3, <2>1, <3>1, <3>2
  <2>2. CASE o # k
    BY <1>3, <2>2 DEF ThrottlingInv
  <2> QED
    BY <2>1, <2>2
<1> QED
  BY <1>3, <1>4, <1>5 DEF ThrottlingInv, Ascending, Covered, Spread

\* Time that passes keeps hits and timers side by side.
LEMMA TickKeepsInv ==
  ASSUME ThrottlingInv, ThrottlingTick
  PROVE  ThrottlingInv' /\ UNCHANGED sent
<1>1. /\ timers' = [k \in Keys |-> Shortened(timers[k])]
      /\ admitted' = [k \in Keys |-> Shortened(admitted[k])]
      /\ sent' = sent
  BY DEF ThrottlingTick
<1>2. ASSUME NEW k \in Keys
      PROVE  /\ timers'[k] \in Hits /\ admitted'[k] \in Hits
             /\ Ascending(timers'[k]) /\ Covered(admitted'[k], timers'[k])
             /\ Spread(admitted'[k]) /\ Len(timers'[k]) <= sent'[k]
  <2>1. /\ timers[k] \in Hits /\ admitted[k] \in Hits
        /\ Ascending(timers[k]) /\ Covered(admitted[k], timers[k])
        /\ Spread(admitted[k]) /\ Len(timers[k]) <= sent[k]
    BY DEF ThrottlingInv
  <2>2. /\ timers'[k] = Shortened(timers[k])
        /\ admitted'[k] = Shortened(admitted[k])
    BY <1>1
  <2> QED
    BY <1>1, <2>1, <2>2, TickKeepsCover
<1>3. timers' \in [Keys -> Hits] /\ admitted' \in [Keys -> Hits]
  <2>1. \A k \in Keys : /\ Shortened(timers[k]) \in Hits
                        /\ Shortened(admitted[k]) \in Hits
    BY <1>1, <1>2
  <2> QED
    BY <1>1, <2>1
<1> QED
  BY <1>1, <1>2, <1>3 DEF ThrottlingInv, Ascending, Covered, Spread

-----------------------------------------------------------------------------
\* The invariant holds before any request.
LEMMA InitOK == GatewayInit => GatewayInv
  BY QuietKeepsInv
     DEF GatewayInit, ThrottlingInit, GatewayInv, RefusalInv, RequestsOK

\* Every step of the gateway preserves the invariant.
LEMMA StepOK == GatewayInv /\ [GatewayNext]_gatewayVars => GatewayInv'
<1> SUFFICES ASSUME GatewayInv, [GatewayNext]_gatewayVars PROVE GatewayInv'
  OBVIOUS
<1> USE DEF GatewayInv
<1>1. ASSUME NEW r \in Requests, CanActivate(r) PROVE GatewayInv'
  <2>1. PICK c \in Clients, h \in Handlers : \E body \in Bodies(h) :
          /\ Hit(c, h)
          /\ request' = [request EXCEPT
                           ![r] = [client |-> c, handler |-> h, body |-> body]]
          /\ Reaches(r, IF Admits(GenerateKey(c, h)) THEN "pipe" ELSE "429")
    BY <1>1 DEF CanActivate
  <2>2. /\ ThrottlingInv'
        /\ \A k \in Keys : sent'[k] >= sent[k]
        /\ ~Admits(GenerateKey(c, h)) => sent'[<<c, h>>] > Limit
    BY <2>1, HitKeepsInv
  <2>3. RequestsOK'
    BY <2>1 DEF RequestsOK, Reaches
  <2>4. ASSUME NEW q \in Requests, stage'[q] = "429"
        PROVE  /\ <<request'[q].client, request'[q].handler>> \in Keys
               /\ sent'[<<request'[q].client, request'[q].handler>>] > Limit
    <3>1. CASE q = r
      <4>1. request'[q].client = c /\ request'[q].handler = h
        BY <2>1, <3>1 DEF RequestsOK
      <4>2. ~Admits(GenerateKey(c, h))
        BY <2>1, <2>4, <3>1 DEF RequestsOK, Reaches
      <4> QED
        BY <2>2, <4>1, <4>2 DEF Keys
    <3>2. CASE q # r
      <4>1. request'[q] = request[q] /\ stage[q] = "429"
        BY <2>1, <2>4, <3>2 DEF RequestsOK, Reaches
      <4> DEFINE k == <<request[q].client, request[q].handler>>
      <4>2. k \in Keys /\ sent[k] > Limit
        BY <4>1 DEF RefusalInv
      <4>3. sent'[k] >= sent[k] /\ sent[k] \in Nat /\ sent'[k] \in Nat
        BY <2>2, <4>2 DEF ThrottlingInv
      <4>4. sent'[k] > Limit
        BY <4>2, <4>3, ThrottlingAssumption
      <4> QED
        BY <4>1, <4>2, <4>4
    <3> QED
      BY <3>1, <3>2
  <2> QED
    BY <2>2, <2>3, <2>4 DEF RefusalInv
<1>2. ASSUME NEW r \in Requests, ValidationPipe(r) PROVE GatewayInv'
  <2>1. /\ UNCHANGED <<request, timers, admitted, sent>>
        /\ stage' \in {[stage EXCEPT ![r] = next] :
                         next \in {"500", "400", "handler"}}
    BY <1>2 DEF ValidationPipe, Reaches, throttling
  <2> QED
    BY <2>1 DEF RefusalInv, RequestsOK, ThrottlingInv, Ascending, Covered, Spread
<1>3. ASSUME NEW r \in Requests, Responds(r) PROVE GatewayInv'
  BY <1>3 DEF Responds, Reaches, throttling, RefusalInv, RequestsOK,
              ThrottlingInv, Ascending, Covered, Spread
<1>4. CASE StorageStep
  <2>1. UNCHANGED <<request, stage>>
    BY <1>4 DEF StorageStep, gateway
  <2>2. ThrottlingInv' /\ UNCHANGED sent
    BY <1>4, FireKeepsInv, TickKeepsInv DEF StorageStep
  <2> QED
    BY <2>1, <2>2 DEF RefusalInv, RequestsOK
<1>5. CASE Restart
  <2>1. (timers = Quiet /\ admitted = Quiet /\ sent = [k \in Keys |-> 0])'
    BY <1>5 DEF Restart, Forget, Quiet
  <2>2. ThrottlingInv'
    BY <2>1, QuietKeepsInv, PTL
  <2> QED
    BY <1>5, <2>2 DEF Restart, RefusalInv, RequestsOK
<1>6. CASE UNCHANGED gatewayVars
  BY <1>6 DEF gatewayVars, gateway, throttling, RefusalInv, RequestsOK,
              ThrottlingInv, Ascending, Covered, Spread
<1> QED
  BY <1>1, <1>2, <1>3, <1>4, <1>5, <1>6 DEF GatewayNext

\* The hits, the timers and the requests stay as GatewayInv says.
THEOREM GatewayInvariance == GatewaySpec => []GatewayInv
  BY InitOK, StepOK, PTL DEF GatewaySpec

\* However the hits of a client are spread, however late the timers fire and
\* whatever was refused, no TTL holds more than Limit runs of a handler.
THEOREM WindowsWithinLimit == GatewaySpec => []WindowWithinLimit
<1>1. GatewayInv => WindowWithinLimit
  BY DEF GatewayInv, ThrottlingInv, Spread, WindowWithinLimit
<1> QED
  BY <1>1, GatewayInvariance, PTL

\* 429 is for the client's own hits of that handler.
THEOREM RefusalsForOwnHits == GatewaySpec => []RefusedForOwnHits
<1>1. GatewayInv => RefusedForOwnHits
  BY DEF GatewayInv, RefusalInv, RefusedForOwnHits
<1> QED
  BY <1>1, GatewayInvariance, PTL

-----------------------------------------------------------------------------

\* What the pipe has decided of a request, and on which body.
Decided(r) ==
  LET h == request[r].handler
      body == request[r].body
  IN  /\ stage[r] # "idle" => h \in Handlers /\ body \in Bodies(h)
      /\ stage[r] = "handler" =>
           received[r] = PlainToInstance(h, body) /\ Valid(h, received[r])
      /\ stage[r] = "400" => ~Valid(h, PlainToInstance(h, body))

InputInv ==
  /\ DOMAIN request = Requests
  /\ DOMAIN stage = Requests
  /\ DOMAIN received = Requests
  /\ \A r \in Requests : Decided(r)

-----------------------------------------------------------------------------
\* What a property of a body may be.
Kinds == {"email", "Email", "word", "other word", "absent", "true", "odd"}

Value == [is : Kinds, length : Int]

Rules == {"email", "text", "newPassword", "match", "token", "terms"}

\* Every rule is of Rules; a DTO with a password that is typed again has one.
LEMMA DtosHaveRules ==
  ASSUME NEW h \in Handlers
  PROVE  \A f \in DOMAIN Dtos[h] :
           /\ Dtos[h][f] \in Rules
           /\ Dtos[h][f] = "match" =>
                /\ "password" \in DOMAIN Dtos[h]
                /\ Dtos[h].password \in {"text", "newPassword"}
<1>1. h \in {"login", "getTokenHold", "register", "confirmRegister",
             "resetPassword", "confirmPasswordReset", "googleAuthRedirect"}
  BY HandlersHaveDtos DEF Dtos
<1>2. CASE h \in {"login", "getTokenHold", "confirmRegister", "resetPassword"}
  BY <1>2 DEF Dtos, LoginRequestDto, GetTokenHoldRequestDto,
       ConfirmRegisterRequestDto, ResetPasswordRequestDto, Rules
<1>3. CASE h = "register"
  BY <1>3 DEF Dtos, RegisterRequestDto, Rules
<1>4. CASE h = "confirmPasswordReset"
  BY <1>4 DEF Dtos, ConfirmPasswordResetRequestDto, Rules
<1>5. CASE h = "googleAuthRedirect"
  BY <1>5 DEF Dtos
<1> QED
  BY <1>1, <1>2, <1>3, <1>4, <1>5

\* A body has the properties of its DTO, and values.
LEMMA BodiesHaveValues ==
  ASSUME NEW h \in Handlers, NEW body \in Bodies(h)
  PROVE  /\ DOMAIN body = DOMAIN Dtos[h]
         /\ \A f \in DOMAIN body : body[f] \in Value
<1> DEFINE rules == Dtos[h]
<1>1. PICK changed \in SUBSET DOMAIN rules :
        \E how \in [changed -> Unusual] :
          body = [f \in DOMAIN rules |->
                    IF f \in changed THEN how[f] ELSE Usual[rules[f]]]
  BY DEF Bodies
<1>2. \A v \in Unusual : v \in Value
  <2>1. TokenLength \in Int /\ TokenLength - 1 \in Int /\ TokenLength + 1 \in Int
    BY LengthsAreEven
  <2>2. Absent \in Value /\ Odd \in Value /\ True \in Value
    BY DEF Absent, Odd, True, Value, Kinds
  <2>3. /\ Text("email", 6) \in Value
        /\ Text("word", 0) \in Value /\ Text("word", 7) \in Value
        /\ Text("other word", 8) \in Value
    BY DEF Text, Value, Kinds
  <2>4. /\ Text("word", TokenLength - 1) \in Value
        /\ Text("word", TokenLength + 1) \in Value
    BY <2>1 DEF Text, Value, Kinds
  <2> QED
    BY <2>2, <2>3, <2>4 DEF Unusual
<1>3. \A rule \in Rules : Usual[rule] \in Value
  <2>1. DrawnToken \in Value
    BY LengthsAreEven DEF DrawnToken, GenerateRandomId, Text, Value, Kinds
  <2>2. /\ Usual["email"] \in Value /\ Usual["text"] \in Value
        /\ Usual["newPassword"] \in Value /\ Usual["match"] \in Value
    BY DEF Usual, Text, Value, Kinds
  <2>3. Usual["token"] \in Value /\ Usual["terms"] \in Value
    <3>1. Usual["token"] = DrawnToken /\ Usual["terms"] = True
      BY DEF Usual
    <3>2. True \in Value
      BY DEF True, Value, Kinds
    <3> QED
      BY <2>1, <3>1, <3>2
  <2> QED
    BY <2>2, <2>3 DEF Rules
<1> QED
  BY <1>1, <1>2, <1>3, DtosHaveRules

\* The validators of a DTO imply what its handler counts on.
LEMMA ValidIsEnough ==
  ASSUME NEW h \in Handlers, NEW body \in Bodies(h), NEW dto,
         dto = PlainToInstance(h, body), Valid(h, dto)
  PROVE  \A f \in DOMAIN Dtos[h] :
           /\ Dtos[h][f] = "email" => dto[f].is = "email"
           /\ Dtos[h][f] = "match" => dto[f] = dto.password
           /\ Dtos[h][f] = "terms" => dto[f] \in {True, False}
           /\ Dtos[h][f] # "terms" => IsNotEmptyText(dto[f])
           /\ Dtos[h][f] = "token" => dto[f].length = DrawnToken.length
<1> SUFFICES ASSUME NEW f \in DOMAIN Dtos[h]
             PROVE  /\ Dtos[h][f] = "email" => dto[f].is = "email"
                    /\ Dtos[h][f] = "match" => dto[f] = dto.password
                    /\ Dtos[h][f] = "terms" => dto[f] \in {True, False}
                    /\ Dtos[h][f] # "terms" => IsNotEmptyText(dto[f])
                    /\ Dtos[h][f] = "token" =>
                         dto[f].length = DrawnToken.length
  OBVIOUS
<1>1. /\ dto[f] = Transformed(Dtos[h][f], body[f])
      /\ Meets(Dtos[h][f], dto, dto[f])
      /\ body[f] \in Value
  BY BodiesHaveValues DEF PlainToInstance, Valid
<1>2. CASE Dtos[h][f] = "email"
  <2>1. IsNotEmptyText(dto[f]) /\ dto[f].is \in {"email", "Email"}
    BY <1>1, <1>2 DEF Meets
  <2>2. body[f] # Absent
    BY <1>1, <1>2, <2>1 DEF Transformed, Absent
  <2>3. dto[f] = ToLowerCase(body[f])
    BY <1>1, <1>2, <2>2 DEF Transformed
  <2>4. dto[f].is = "email"
    BY <1>1, <2>1, <2>3 DEF ToLowerCase, Value
  <2> QED
    BY <1>2, <2>1, <2>4
<1>3. CASE Dtos[h][f] = "terms"
  BY <1>1, <1>3 DEF Meets
<1>4. CASE Dtos[h][f] = "match"
  BY <1>1, <1>4 DEF Meets, Match
<1>5. CASE Dtos[h][f] = "token"
  <2>1. DrawnToken.length = TokenLength
    BY LengthsAreEven DEF DrawnToken, GenerateRandomId, Text
  <2> QED
    BY <1>1, <1>5, <2>1 DEF Meets
<1>6. CASE Dtos[h][f] \notin {"email", "terms", "match", "token"}
  BY <1>1, <1>6 DEF Meets
<1> QED
  BY <1>2, <1>3, <1>4, <1>5, <1>6

\* A body as the front end sends it meets the validators of its DTO.
LEMMA UsualIsValid ==
  ASSUME NEW h \in Handlers, NEW body \in Bodies(h),
         \A f \in DOMAIN body : body[f] = Usual[Dtos[h][f]]
  PROVE  Valid(h, PlainToInstance(h, body))
<1> DEFINE dto == PlainToInstance(h, body)
<1>1. /\ DOMAIN dto = DOMAIN Dtos[h]
      /\ \A f \in DOMAIN dto :
           dto[f] = Transformed(Dtos[h][f], Usual[Dtos[h][f]])
  BY BodiesHaveValues DEF PlainToInstance
<1>2. SUFFICES ASSUME NEW f \in DOMAIN dto
               PROVE  Meets(Dtos[h][f], dto, dto[f])
  BY DEF Valid
<1>3. Dtos[h][f] \in Rules
  BY <1>1, DtosHaveRules
<1>4. CASE Dtos[h][f] = "email"
  <2>1. dto[f] = [is |-> "email", length |-> 6]
    BY <1>1, <1>4 DEF Transformed, Usual, ToLowerCase, Text, Absent
  <2> QED
    BY <1>4, <2>1 DEF Meets, IsNotEmptyText, IsText
<1>5. CASE Dtos[h][f] \in {"text", "newPassword"}
  <2>1. dto[f] = [is |-> "word", length |-> 8]
    BY <1>1, <1>5 DEF Transformed, Usual, Text, Absent
  <2> QED
    BY <1>5, <2>1 DEF Meets, IsNotEmptyText, IsText
<1>6. CASE Dtos[h][f] = "match"
  <2>1. "password" \in DOMAIN dto
        /\ Dtos[h]["password"] \in {"text", "newPassword"}
    BY <1>1, <1>6, DtosHaveRules
  <2>2. dto[f] = [is |-> "word", length |-> 8]
        /\ dto["password"] = [is |-> "word", length |-> 8]
    BY <1>1, <1>6, <2>1 DEF Transformed, Usual, Text, Absent
  <2> QED
    BY <1>6, <2>2 DEF Meets, Match, IsNotEmptyText, IsText
<1>7. CASE Dtos[h][f] = "token"
  <2>1. dto[f] = [is |-> "word", length |-> TokenLength]
    BY <1>1, <1>7, LengthsAreEven
       DEF Transformed, Usual, DrawnToken, GenerateRandomId, Text, Absent
  <2> QED
    BY <1>7, <2>1, LengthsAreEven DEF Meets, IsNotEmptyText, IsText
<1>8. CASE Dtos[h][f] = "terms"
  <2>1. dto[f] = True
    BY <1>1, <1>8 DEF Transformed, Usual, IsTrue, True, Absent
  <2> QED
    BY <1>8, <2>1 DEF Meets
<1> QED
  BY <1>3, <1>4, <1>5, <1>6, <1>7, <1>8 DEF Rules

-----------------------------------------------------------------------------
\* The pipe decides of one request, and nobody touches it until it is answered.
LEMMA InputPreserved == InputInv /\ [GatewayNext]_gatewayVars => InputInv'
<1> SUFFICES ASSUME InputInv, [GatewayNext]_gatewayVars PROVE InputInv'
  OBVIOUS
<1> USE DEF InputInv
<1>1. ASSUME NEW r \in Requests, CanActivate(r) PROVE InputInv'
  <2>1. PICK c \in Clients, h \in Handlers : \E body \in Bodies(h) :
          /\ request' = [request EXCEPT
                           ![r] = [client |-> c, handler |-> h, body |-> body]]
          /\ Reaches(r, IF Admits(GenerateKey(c, h)) THEN "pipe" ELSE "429")
    BY <1>1 DEF CanActivate
  <2>2. PICK body \in Bodies(h) :
          /\ request' = [request EXCEPT
                           ![r] = [client |-> c, handler |-> h, body |-> body]]
          /\ stage' = [stage EXCEPT
               ![r] = IF Admits(GenerateKey(c, h)) THEN "pipe" ELSE "429"]
    BY <2>1 DEF Reaches
  <2>3. Decided(r)'
    BY <2>2 DEF Decided
  <2>4. ASSUME NEW q \in Requests \ {r} PROVE Decided(q)'
    BY <1>1, <2>2 DEF Decided, CanActivate
  <2> QED
    BY <1>1, <2>2, <2>3, <2>4 DEF CanActivate
<1>2. ASSUME NEW r \in Requests, ValidationPipe(r) PROVE InputInv'
  <2> DEFINE h == request[r].handler
             body == request[r].body
  <2>1. /\ request' = request /\ stage[r] = "pipe"
        /\ \/ stage' = [stage EXCEPT ![r] = "500"] /\ received' = received
           \/ /\ stage' = [stage EXCEPT ![r] = "400"] /\ received' = received
              /\ ~Valid(h, PlainToInstance(h, body))
           \/ /\ stage' = [stage EXCEPT ![r] = "handler"]
              /\ received' = [received EXCEPT ![r] = PlainToInstance(h, body)]
              /\ Valid(h, PlainToInstance(h, body))
    BY <1>2 DEF ValidationPipe, Reaches, Transform
  <2>2. Decided(r)'
    BY <2>1 DEF Decided
  <2>3. ASSUME NEW q \in Requests \ {r} PROVE Decided(q)'
    BY <2>1 DEF Decided
  <2> QED
    BY <2>1, <2>2, <2>3
<1>3. ASSUME NEW r \in Requests, Responds(r) PROVE InputInv'
  BY <1>3 DEF Responds, Reaches, Decided
<1>4. CASE StorageStep \/ UNCHANGED gatewayVars
  BY <1>4 DEF StorageStep, gatewayVars, gateway, Decided
<1>5. CASE Restart
  BY <1>5 DEF Restart, Decided
<1> QED
  BY <1>1, <1>2, <1>3, <1>4, <1>5 DEF GatewayNext

\* What the pipe has decided stays true of every request.
THEOREM InputInvariance == GatewaySpec => []InputInv
<1>1. GatewayInit => InputInv
  BY DEF GatewayInit, InputInv, Decided
<1> QED
  BY <1>1, InputPreserved, PTL DEF GatewaySpec

\* No handler is called with input it cannot work on, of any body.
THEOREM HandlersGetValidInput == GatewaySpec => []HandlersReceiveValidInput
<1>1. InputInv => HandlersReceiveValidInput
  BY ValidIsEnough DEF InputInv, Decided, HandlersReceiveValidInput
<1> QED
  BY <1>1, InputInvariance, PTL

\* A body with a drawn value, and the rest as usual, is never malformed.
THEOREM DrawnTokensPass == GatewaySpec => []DrawnTokensAreAccepted
<1>1. InputInv => DrawnTokensAreAccepted
  BY UsualIsValid DEF InputInv, Decided, DrawnTokensAreAccepted
<1> QED
  BY <1>1, InputInvariance, PTL

-----------------------------------------------------------------------------
\* The hits of one process are at most MaxHits, and so are those of each key.
SentInv == sent \in [Keys -> 0..MaxHits]

\* A request has what its stage needs.
Staged(r) ==
  /\ stage[r] \in Refusals \cup {"idle", "pipe", "handler"}
  /\ stage[r] = "idle" => request[r] = None
  /\ stage[r] # "idle" =>
       \E c \in Clients, h \in Handlers : \E body \in Bodies(h) :
         request[r] = [client |-> c, handler |-> h, body |-> body]
  /\ stage[r] # "handler" => received[r] = None

StagesInv == \A r \in Requests : Staged(r)

\* A step counts a hit below the bound, or forgets all.
LEMMA SentPreserved == SentInv /\ [GatewayNext]_gatewayVars => SentInv'
<1> SUFFICES ASSUME SentInv, [GatewayNext]_gatewayVars PROVE SentInv'
  OBVIOUS
<1> USE ThrottlingAssumption DEF SentInv
<1>1. ASSUME NEW c \in Clients, NEW h \in Handlers, Hit(c, h) PROVE SentInv'
  <2> DEFINE k == <<c, h>>
  <2>1. /\ k \in Keys /\ SumFunction(sent) < MaxHits
        /\ sent' = [sent EXCEPT ![k] = sent[k] + 1]
    BY <1>1 DEF Hit, Keys
  <2> HIDE DEF k
  <2>2. sent \in [Keys -> Nat]
    OBVIOUS
  <2>3. SumFunction(sent) \in Nat /\ sent[k] <= SumFunction(sent)
    BY <2>1, <2>2, KeysAreFinite, SumIsBound
  <2>4. sent[k] + 1 \in 0..MaxHits
    BY <2>1, <2>2, <2>3
  <2> QED
    BY <2>1, <2>4
<1>2. ASSUME NEW r \in Requests, CanActivate(r) PROVE SentInv'
  BY <1>1, <1>2 DEF CanActivate
<1>3. ASSUME NEW r \in Requests, ValidationPipe(r) \/ Responds(r)
      PROVE  SentInv'
  BY <1>3 DEF ValidationPipe, Responds, throttling
<1>4. CASE StorageStep \/ UNCHANGED gatewayVars
  BY <1>4 DEF StorageStep, ThrottlingTick, Fire, gatewayVars, throttling
<1>5. CASE Restart
  BY <1>5 DEF Restart, Forget
<1> QED
  BY <1>2, <1>3, <1>4, <1>5 DEF GatewayNext

\* A request goes from stage to stage with what it has.
LEMMA StagesPreserved ==
  InputInv /\ StagesInv /\ [GatewayNext]_gatewayVars => StagesInv'
<1> SUFFICES ASSUME InputInv, StagesInv, [GatewayNext]_gatewayVars
             PROVE  StagesInv'
  OBVIOUS
<1> USE DEF InputInv, StagesInv
<1>1. ASSUME NEW r \in Requests, CanActivate(r) PROVE StagesInv'
  <2>1. PICK c \in Clients, h \in Handlers : \E body \in Bodies(h) :
          /\ request' = [request EXCEPT
                           ![r] = [client |-> c, handler |-> h, body |-> body]]
          /\ Reaches(r, IF Admits(GenerateKey(c, h)) THEN "pipe" ELSE "429")
    BY <1>1 DEF CanActivate
  <2>2. PICK body \in Bodies(h) :
          /\ request' = [request EXCEPT
                           ![r] = [client |-> c, handler |-> h, body |-> body]]
          /\ stage' = [stage EXCEPT
               ![r] = IF Admits(GenerateKey(c, h)) THEN "pipe" ELSE "429"]
    BY <2>1 DEF Reaches
  <2>3. stage[r] = "idle" /\ received' = received
    BY <1>1 DEF CanActivate
  <2>4. Staged(r)'
    <3>1. /\ stage'[r] \in {"pipe", "429"}
          /\ request'[r] = [client |-> c, handler |-> h, body |-> body]
      BY <2>2
    <3>2. \E d \in Clients, i \in Handlers : \E b \in Bodies(i) :
            request'[r] = [client |-> d, handler |-> i, body |-> b]
      BY <3>1, Zenon
    <3>3. received'[r] = None
      BY <2>3 DEF Staged
    <3>4. (/\ stage[r] \in Refusals \cup {"idle", "pipe", "handler"}
           /\ stage[r] # "idle" /\ stage[r] # "handler")'
      BY <3>1 DEF Refusals
    <3> QED
      BY <3>2, <3>3, <3>4 DEF Staged
  <2>5. ASSUME NEW q \in Requests \ {r} PROVE Staged(q)'
    BY <2>2, <2>3 DEF Staged
  <2> QED
    BY <2>4, <2>5
<1>2. ASSUME NEW r \in Requests, ValidationPipe(r) PROVE StagesInv'
  <2>1. /\ request' = request /\ stage[r] = "pipe"
        /\ \A q \in Requests \ {r} :
             stage'[q] = stage[q] /\ received'[q] = received[q]
        /\ stage'[r] \in {"500", "400", "handler"}
        /\ stage'[r] # "handler" => received'[r] = received[r]
    BY <1>2 DEF ValidationPipe, Reaches
  <2>2. Staged(r)'
    BY <2>1 DEF Staged, Refusals
  <2>3. ASSUME NEW q \in Requests \ {r} PROVE Staged(q)'
    BY <2>1 DEF Staged
  <2> QED
    BY <2>2, <2>3
<1>3. ASSUME NEW r \in Requests, Responds(r) PROVE StagesInv'
  BY <1>3 DEF Responds, Reaches, Staged
<1>4. CASE StorageStep \/ UNCHANGED gatewayVars
  BY <1>4 DEF StorageStep, gatewayVars, gateway, Staged
<1>5. CASE Restart
  BY <1>5 DEF Restart, Staged
<1> QED
  BY <1>1, <1>2, <1>3, <1>4, <1>5 DEF GatewayNext

\* What is valid is a text, or the yes or no of the terms.
LEMMA ValidIsTextOrTerms ==
  ASSUME NEW h \in Handlers, NEW body \in Bodies(h),
         Valid(h, PlainToInstance(h, body)),
         NEW f \in DOMAIN PlainToInstance(h, body)
  PROVE  PlainToInstance(h, body)[f] \in Texts \cup {True, False}
<1> DEFINE rule == Dtos[h][f]
           value == PlainToInstance(h, body)[f]
<1>1. /\ f \in DOMAIN Dtos[h] /\ f \in DOMAIN body /\ body[f] \in Value
      /\ value = Transformed(rule, body[f])
      /\ Meets(rule, PlainToInstance(h, body), value)
  BY BodiesHaveValues DEF PlainToInstance, Valid
<1>2. CASE rule = "terms"
  BY <1>1, <1>2 DEF Meets
<1>3. CASE rule # "terms"
  <2>1. IsText(value) /\ value.length > 0
    BY <1>1, <1>3 DEF Meets, IsNotEmptyText
  <2>2. value \in Value
    <3>1. ToLowerCase(body[f]) \in Value
      BY <1>1 DEF ToLowerCase, Value, Kinds
    <3> QED
      BY <1>1, <1>3, <3>1 DEF Transformed
  <2> HIDE DEF value
  <2>3. value \in Texts
    <3>1. \A v \in Value : v.length > 0 => v.length \in Nat
      BY DEF Value
    <3>2. value = [is |-> value.is, length |-> value.length]
      BY <2>2 DEF Value
    <3> QED
      BY <2>1, <2>2, <3>1, <3>2 DEF IsText, Texts
  <2> QED
    BY <2>3 DEF value
<1> QED
  BY <1>2, <1>3

\* Everything of the gateway has its shape, for any clients, handlers, limits
\* and lengths: the hits of a process stay within their bound, a request has
\* what its stage needs, and only texts and a yes or no reach a handler.
THEOREM GatewayTypes == GatewaySpec => []GatewayTypeOK
<1>1. GatewayInit => SentInv /\ StagesInv
  BY ThrottlingAssumption
     DEF GatewayInit, ThrottlingInit, SentInv, StagesInv, Staged
<1>2. GatewayInv /\ SentInv => ThrottlingTypeOK
  BY DEF GatewayInv, ThrottlingInv, SentInv, ThrottlingTypeOK, Hits
<1>3. ASSUME InputInv, StagesInv, NEW r \in Requests
      PROVE  /\ stage[r] \in Refusals \cup {"idle", "pipe", "handler"}
             /\ stage[r] = "idle" <=> request[r] = None
             /\ stage[r] = "handler" <=> received[r] # None
             /\ request[r] # None =>
                  /\ request[r].client \in Clients
                  /\ request[r].handler \in Handlers
                  /\ DOMAIN request[r].body = DOMAIN Dtos[request[r].handler]
             /\ received[r] # None =>
                  \A f \in DOMAIN received[r] :
                    received[r][f] \in Texts \cup {True, False}
  <2>1. Staged(r) /\ Decided(r)
    BY <1>3 DEF InputInv, StagesInv
  <2>2. CASE stage[r] = "idle"
    BY <2>1, <2>2 DEF Staged
  <2>3. CASE stage[r] # "idle"
    <3>1. PICK c \in Clients, h \in Handlers : \E body \in Bodies(h) :
            request[r] = [client |-> c, handler |-> h, body |-> body]
      BY <2>1, <2>3 DEF Staged
    <3>2. PICK body \in Bodies(h) :
            request[r] = [client |-> c, handler |-> h, body |-> body]
      BY <3>1
    <3>3. /\ request[r] # None /\ request[r].client \in Clients
          /\ request[r].handler = h /\ request[r].body = body
          /\ DOMAIN request[r].body = DOMAIN Dtos[request[r].handler]
      BY <3>2, NoneIsNoInput, BodiesHaveValues
    <3>4. ASSUME stage[r] = "handler"
          PROVE  /\ received[r] # None
                 /\ \A f \in DOMAIN received[r] :
                      received[r][f] \in Texts \cup {True, False}
      <4>1. /\ received[r] = PlainToInstance(h, body)
            /\ Valid(h, PlainToInstance(h, body))
        BY <2>1, <3>3, <3>4 DEF Decided
      <4> QED
        BY <4>1, NoneIsNoInput, ValidIsTextOrTerms
    <3> QED
      BY <2>1, <2>3, <3>3, <3>4 DEF Staged
  <2> QED
    BY <2>2, <2>3
<1>4. GatewayInv /\ InputInv /\ SentInv /\ StagesInv => GatewayTypeOK
  BY <1>2, <1>3 DEF GatewayTypeOK
<1> QED
  BY <1>1, <1>4, GatewayInvariance, InputInvariance, SentPreserved,
     StagesPreserved, PTL DEF GatewaySpec

=============================================================================
