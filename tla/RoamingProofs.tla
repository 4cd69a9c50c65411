--------------------------- MODULE RoamingProofs ----------------------------
(***************************************************************************)
(* What a handover guarantees a station that joins once and then only      *)
(* moves, proved for every set of stations, access points, threads and     *)
(* signal strengths.                                                       *)
(***************************************************************************)
EXTENDS StationProofs

-----------------------------------------------------------------------------

(***************************************************************************)
(* Queues.  Some element of q is in S; at most one is; every element in S  *)
(* has one in T behind it.                                                 *)
(***************************************************************************)
Some(q, S) == \E i \in 1 .. Len(q) : q[i] \in S

Single(q, S) == \A i, j \in 1 .. Len(q) : q[i] \in S /\ q[j] \in S => i = j

Behind(q, S, T) ==
    \A i \in 1 .. Len(q) : q[i] \in S => \E j \in i + 1 .. Len(q) : q[j] \in T

(***************************************************************************)
(* Something that an element of S switches on and one of K switches off:   *)
(* it will be on once q has been worked off, if it is now as st says.      *)
(***************************************************************************)
Stands(q, st, S, K) ==
    \/ \E i \in 1 .. Len(q) : /\ q[i] \in S
                              /\ \A j \in i + 1 .. Len(q) : q[j] \notin K
    \/ st = "ASSOCIATED" /\ ~Some(q, K)

(***************************************************************************)
(* A message more at the end.                                              *)
(***************************************************************************)
LEMMA SomeAppend ==
    ASSUME NEW V, NEW q \in Seq(V), NEW m \in V, NEW S
    PROVE  Some(Append(q, m), S) <=> Some(q, S) \/ m \in S
<1> DEFINE r == Append(q, m)
<1>1. /\ Len(q) \in Nat /\ Len(r) = Len(q) + 1 /\ r[Len(q) + 1] = m
      /\ \A i \in 1 .. Len(q) : r[i] = q[i]
  BY Appended
<1> HIDE DEF r
<1>2. Some(r, S) => Some(q, S) \/ m \in S
  BY <1>1 DEF Some
<1>3. Some(q, S) => Some(r, S)
  BY <1>1 DEF Some
<1>4. m \in S => Some(r, S)
  BY <1>1 DEF Some
<1> QED BY <1>2, <1>3, <1>4 DEF r

(* One of S stays one unless the new element is another.                   *)
LEMMA SingleAppend ==
    ASSUME NEW V, NEW q \in Seq(V), NEW m \in V, NEW S
    PROVE  Single(q, S) /\ (m \in S => ~Some(q, S)) => Single(Append(q, m), S)
<1> DEFINE r == Append(q, m)
<1>1. /\ Len(q) \in Nat /\ Len(r) = Len(q) + 1 /\ r[Len(q) + 1] = m
      /\ \A i \in 1 .. Len(q) : r[i] = q[i]
  BY Appended
<1> HIDE DEF r
<1>2. Single(q, S) /\ (m \in S => ~Some(q, S)) => Single(r, S)
  BY <1>1 DEF Some, Single
<1> QED BY <1>2 DEF r

(* What is behind stays behind; a new element of T is behind all others.   *)
LEMMA BehindAppend ==
    ASSUME NEW V, NEW q \in Seq(V), NEW m \in V, NEW S, NEW T
    PROVE  /\ Behind(q, S, T) /\ m \notin S => Behind(Append(q, m), S, T)
           /\ m \in T /\ m \notin S => Behind(Append(q, m), S, T)
<1> DEFINE r == Append(q, m)
<1>1. /\ Len(q) \in Nat /\ Len(r) = Len(q) + 1 /\ r[Len(q) + 1] = m
      /\ \A i \in 1 .. Len(q) : r[i] = q[i]
  BY Appended
<1> HIDE DEF r
<1>2. ASSUME Behind(q, S, T), m \notin S PROVE Behind(r, S, T)
  <2> SUFFICES ASSUME NEW i \in 1 .. Len(r), r[i] \in S
               PROVE  \E j \in i + 1 .. Len(r) : r[j] \in T
    BY DEF Behind
  <2>1. i \in 1 .. Len(q) /\ q[i] \in S
    BY <1>1, <1>2
  <2>2. PICK j \in i + 1 .. Len(q) : q[j] \in T
    BY <1>2, <2>1 DEF Behind
  <2>3. j \in i + 1 .. Len(r) /\ r[j] \in T
    BY <1>1, <2>1, <2>2
  <2> QED BY <2>3
<1>3. ASSUME m \in T, m \notin S PROVE Behind(r, S, T)
  <2> SUFFICES ASSUME NEW i \in 1 .. Len(r), r[i] \in S
               PROVE  \E j \in i + 1 .. Len(r) : r[j] \in T
    BY DEF Behind
  <2>1. Len(r) \in i + 1 .. Len(r) /\ r[Len(r)] \in T
    BY <1>1, <1>3
  <2> QED BY <2>1
<1> QED BY <1>2, <1>3 DEF r

(* The new element decides, if it is of S or of K.                         *)
LEMMA StandsAppend ==
    ASSUME NEW V, NEW q \in Seq(V), NEW m \in V, NEW st, NEW S, NEW K
    PROVE  Stands(Append(q, m), st, S, K) <=>
              m \in S \/ (m \notin K /\ Stands(q, st, S, K))
<1> DEFINE r == Append(q, m)
<1>1. /\ Len(q) \in Nat /\ Len(r) = Len(q) + 1 /\ r[Len(q) + 1] = m
      /\ \A i \in 1 .. Len(q) : r[i] = q[i]
  BY Appended
<1> HIDE DEF r
<1>2. m \in S => Stands(r, st, S, K)
  <2> SUFFICES ASSUME m \in S PROVE Stands(r, st, S, K)
    OBVIOUS
  <2>1. Len(r) \in 1 .. Len(r) /\ r[Len(r)] \in S
        /\ \A j \in Len(r) + 1 .. Len(r) : r[j] \notin K
    BY <1>1
  <2> QED BY <2>1 DEF Stands
<1>3. m \notin K /\ Stands(q, st, S, K) => Stands(r, st, S, K)
  <2> SUFFICES ASSUME m \notin K, Stands(q, st, S, K) PROVE Stands(r, st, S, K)
    OBVIOUS
  <2>1. CASE st = "ASSOCIATED" /\ ~Some(q, K)
    BY <1>1, <2>1 DEF Stands, Some
  <2>2. CASE \E i \in 1 .. Len(q) : /\ q[i] \in S
                                    /\ \A j \in i + 1 .. Len(q) : q[j] \notin K
    <3>1. PICK i \in 1 .. Len(q) : /\ q[i] \in S
                                   /\ \A j \in i + 1 .. Len(q) : q[j] \notin K
      BY <2>2
    <3>2. i \in 1 .. Len(r) /\ r[i] \in S /\ \A j \in i + 1 .. Len(r) : r[j] \notin K
      BY <1>1, <3>1
    <3> QED BY <3>2 DEF Stands
  <2> QED BY <2>1, <2>2 DEF Stands
<1>4. Stands(r, st, S, K) => m \in S \/ (m \notin K /\ Stands(q, st, S, K))
  <2> SUFFICES ASSUME Stands(r, st, S, K), m \notin S
               PROVE  m \notin K /\ Stands(q, st, S, K)
    OBVIOUS
  <2>1. CASE st = "ASSOCIATED" /\ ~Some(r, K)
    BY <1>1, <2>1 DEF Stands, Some
  <2>2. CASE \E i \in 1 .. Len(r) : /\ r[i] \in S
                                    /\ \A j \in i + 1 .. Len(r) : r[j] \notin K
    <3>1. PICK i \in 1 .. Len(r) : /\ r[i] \in S
                                   /\ \A j \in i + 1 .. Len(r) : r[j] \notin K
      BY <2>2
    <3>2. i \in 1 .. Len(q) /\ Len(r) \in i + 1 .. Len(r)
      BY <1>1, <3>1
    <3>3. q[i] \in S /\ m \notin K /\ \A j \in i + 1 .. Len(q) : q[j] \notin K
      BY <1>1, <3>1, <3>2
    <3> QED BY <3>2, <3>3 DEF Stands
  <2> QED BY <2>1, <2>2 DEF Stands
<1> QED BY <1>2, <1>3, <1>4 DEF r

(***************************************************************************)
(* A message less: the one at position i, or the first.                    *)
(***************************************************************************)
LEMMA SomeWithout ==
    ASSUME NEW V, NEW q \in Seq(V), NEW i \in 1 .. Len(q), NEW S
    PROVE  Some(q, S) <=> Some(Without(q, i), S) \/ q[i] \in S
<1> DEFINE r == Without(q, i)
<1>1. /\ Len(q) \in Nat /\ Len(r) = Len(q) - 1
      /\ \A j \in 1 .. Len(q) - 1 : r[j] = IF j < i THEN q[j] ELSE q[j + 1]
  BY WithoutType
<1> HIDE DEF r
<1>2. Some(r, S) => Some(q, S)
  BY <1>1 DEF Some
<1>3. q[i] \in S => Some(q, S)
  BY DEF Some
<1>4. ASSUME Some(q, S), q[i] \notin S PROVE Some(r, S)
  <2>1. PICK k \in 1 .. Len(q) : q[k] \in S
    BY <1>4 DEF Some
  <2>2. CASE k < i
    BY <1>1, <2>1, <2>2 DEF Some
  <2>3. CASE k > i
    <3>1. k - 1 \in 1 .. Len(r) /\ r[k - 1] = q[k]
      BY <1>1, <2>3
    <3> QED BY <2>1, <3>1 DEF Some
  <2> QED BY <1>4, <2>1, <2>2, <2>3
<1> QED BY <1>2, <1>3, <1>4 DEF r

(* One of S stays one, and none is left if that one is taken out.          *)
LEMMA SingleWithout ==
    ASSUME NEW V, NEW q \in Seq(V), NEW i \in 1 .. Len(q), NEW S, Single(q, S)
    PROVE  /\ Single(Without(q, i), S)
           /\ q[i] \in S => ~Some(Without(q, i), S)
<1> DEFINE r == Without(q, i)
           p(j) == IF j < i THEN j ELSE j + 1
<1>1. /\ Len(q) \in Nat /\ Len(r) = Len(q) - 1
      /\ \A j \in 1 .. Len(q) - 1 : r[j] = IF j < i THEN q[j] ELSE q[j + 1]
  BY WithoutType
<1> HIDE DEF r
<1>2. \A j \in 1 .. Len(r) : p(j) \in 1 .. Len(q) /\ p(j) # i /\ r[j] = q[p(j)]
  BY <1>1
<1>3. \A j, k \in 1 .. Len(r) : p(j) = p(k) => j = k
  BY <1>1
<1> HIDE DEF p
<1>4. Single(r, S)
  BY <1>2, <1>3 DEF Single
<1>5. q[i] \in S => ~Some(r, S)
  BY <1>2 DEF Single, Some
<1> QED BY <1>4, <1>5 DEF r

(* What is behind stays behind unless an element of T is taken out that is *)
(* not the first.                                                          *)
LEMMA BehindWithout ==
    ASSUME NEW V, NEW q \in Seq(V), NEW i \in 1 .. Len(q), NEW S, NEW T,
           Behind(q, S, T), i = 1 \/ q[i] \notin T
    PROVE  /\ Behind(Without(q, i), S, T)
           /\ q[i] \in S => Some(q, T)
<1> DEFINE r == Without(q, i)
<1>1. /\ Len(q) \in Nat /\ Len(r) = Len(q) - 1
      /\ \A j \in 1 .. Len(q) - 1 : r[j] = IF j < i THEN q[j] ELSE q[j + 1]
  BY SMTT(30), WithoutType
<1> HIDE DEF r
<1>2. ASSUME NEW j \in 1 .. Len(r), r[j] \in S
      PROVE  \E k \in j + 1 .. Len(r) : r[k] \in T
  <2>1. PICK h \in 1 .. Len(q) : /\ q[h] \in S
                                 /\ h = IF j < i THEN j ELSE j + 1
    BY <1>1, <1>2
  <2>2. PICK l \in h + 1 .. Len(q) : q[l] \in T
    BY <2>1 DEF Behind
  <2>3. l # i
    BY <2>1, <2>2
  <2>4. CASE l < i
    BY <1>1, <2>1, <2>2, <2>4
  <2>5. CASE l > i
    <3>1. l - 1 \in j + 1 .. Len(r) /\ r[l - 1] = q[l]
      BY <1>1, <2>1, <2>2, <2>5
    <3> QED BY <2>2, <3>1
  <2> QED BY <2>2, <2>3, <2>4, <2>5
<1>3. q[i] \in S => Some(q, T)
  BY <1>1 DEF Behind, Some
<1> QED BY <1>2, <1>3 DEF r, Behind

(* Taking out the first element leaves the tail.                           *)
LEMMA TailWithout ==
    ASSUME NEW V, NEW q \in Seq(V), q # <<>>
    PROVE  1 \in 1 .. Len(q) /\ Head(q) = q[1] /\ Tail(q) = Without(q, 1)
<1>1. Len(q) \in Nat /\ Len(q) >= 1 /\ Head(q) = q[1]
  OBVIOUS
<1>2. /\ Tail(q) \in Seq(V) /\ Len(Tail(q)) = Len(q) - 1
      /\ \A j \in 1 .. Len(q) - 1 : Tail(q)[j] = q[j + 1]
  BY HeadTail
<1>3. /\ Without(q, 1) \in Seq(V) /\ Len(Without(q, 1)) = Len(q) - 1
      /\ \A j \in 1 .. Len(q) - 1 : Without(q, 1)[j] = q[j + 1]
  BY <1>1, WithoutType
<1>4. Tail(q) = Without(q, 1)
  BY <1>1, <1>2, <1>3
<1> QED BY <1>1, <1>4

(***************************************************************************)
(* q is worked off from its head: the message h switches on or off, and    *)
(* what will stand in the end is the same before and after.                *)
(***************************************************************************)
LEMMA StandsTail ==
    ASSUME NEW V, NEW q \in Seq(V), q # <<>>, NEW S, NEW K,
           NEW old, NEW now,
           now = "ASSOCIATED" => Head(q) \in S \/ (old = "ASSOCIATED" /\ Head(q) \notin K)
    PROVE  /\ Stands(Tail(q), now, S, K) => Stands(q, old, S, K)
           /\ /\ Stands(q, old, S, K)
              /\ Head(q) \in S \/ (old = "ASSOCIATED" /\ Head(q) \notin K)
                    => now = "ASSOCIATED"
              => Stands(Tail(q), now, S, K)
<1> DEFINE r == Tail(q)
<1>1. /\ Len(q) \in Nat /\ Len(r) = Len(q) - 1 /\ Head(q) = q[1] /\ Len(q) >= 1
      /\ \A j \in 1 .. Len(q) - 1 : r[j] = q[j + 1]
  BY HeadTail
<1> HIDE DEF r
<1>2. ASSUME NEW i \in 1 .. Len(r), r[i] \in S, \A j \in i + 1 .. Len(r) : r[j] \notin K
      PROVE  Stands(q, old, S, K)
  <2>1. i + 1 \in 1 .. Len(q) /\ q[i + 1] \in S
    BY <1>1, <1>2
  <2>2. ASSUME NEW j \in (i + 1) + 1 .. Len(q) PROVE q[j] \notin K
    <3>1. j - 1 \in i + 1 .. Len(r) /\ r[j - 1] = q[j]
      BY <1>1
    <3> QED BY <1>2, <3>1
  <2> QED BY <2>1, <2>2 DEF Stands
<1>3. ~Some(r, K) => \A j \in 2 .. Len(q) : q[j] \notin K
  <2> SUFFICES ASSUME ~Some(r, K), NEW j \in 2 .. Len(q) PROVE q[j] \notin K
    OBVIOUS
  <2>1. j - 1 \in 1 .. Len(r) /\ r[j - 1] = q[j]
    BY <1>1
  <2> QED BY <2>1 DEF Some
<1>4. ASSUME now = "ASSOCIATED", ~Some(r, K) PROVE Stands(q, old, S, K)
  <2>1. CASE Head(q) \in S
    <3>1. 1 \in 1 .. Len(q) /\ q[1] \in S /\ \A j \in 1 + 1 .. Len(q) : q[j] \notin K
      BY <1>1, <1>3, <1>4, <2>1
    <3> QED BY <3>1 DEF Stands
  <2>2. CASE old = "ASSOCIATED" /\ Head(q) \notin K
    <3>1. \A j \in 1 .. Len(q) : q[j] \notin K
      BY <1>1, <1>3, <1>4, <2>2
    <3> QED BY <2>2, <3>1 DEF Stands, Some
  <2> QED BY <1>4, <2>1, <2>2
<1>5. Stands(r, now, S, K) => Stands(q, old, S, K)
  BY <1>2, <1>4 DEF Stands
<1>6. ASSUME Stands(q, old, S, K),
             Head(q) \in S \/ (old = "ASSOCIATED" /\ Head(q) \notin K)
                => now = "ASSOCIATED"
      PROVE  Stands(r, now, S, K)
  <2>1. CASE old = "ASSOCIATED" /\ ~Some(q, K)
    <3>1. now = "ASSOCIATED"
      BY <1>1, <1>6, <2>1 DEF Some
    <3>2. ~Some(r, K)
      BY <1>1, <2>1 DEF Some
    <3> QED BY <3>1, <3>2 DEF Stands
  <2>2. CASE \E i \in 1 .. Len(q) : /\ q[i] \in S
                                    /\ \A j \in i + 1 .. Len(q) : q[j] \notin K
    <3>1. PICK i \in 1 .. Len(q) : /\ q[i] \in S
                                   /\ \A j \in i + 1 .. Len(q) : q[j] \notin K
      BY <2>2
    <3>2. CASE i = 1
      <4>1. now = "ASSOCIATED" /\ ~Some(r, K)
        BY <1>1, <1>6, <3>1, <3>2 DEF Some
      <4> QED BY <4>1 DEF Stands
    <3>3. CASE i > 1
      <4>1. i - 1 \in 1 .. Len(r) /\ r[i - 1] \in S
        BY <1>1, <3>1, <3>3
      <4>2. \A j \in (i - 1) + 1 .. Len(r) : r[j] \notin K
        BY <1>1, <3>1, <3>3
      <4> QED BY <4>1, <4>2 DEF Stands
    <3> QED BY <3>1, <3>2, <3>3
  <2> QED BY <1>6, <2>1, <2>2 DEF Stands
<1> QED BY <1>5, <1>6 DEF r

-----------------------------------------------------------------------------

(***************************************************************************)
(* What the environment is assumed to do.  Stations join once: they        *)
(* authenticate when they have not yet, and neither disassociate nor       *)
(* deauthenticate.                                                         *)
(***************************************************************************)
OnlyMoves ==
    \A s \in STA, H \in SUBSET AP :
       /\ Auth(H, s) => phase[s] = "idle"
       /\ ~Disassoc(H, s)
       /\ ~Deauth(H, s)

(***************************************************************************)
(* An AP has at most one RSSI thread at work on a station.                 *)
(***************************************************************************)
OneThread ==
    \A a \in AP, t, u \in Thread :
       rssiThread[a][t].sta \in STA /\ rssiThread[a][t].sta = rssiThread[a][u].sta
          => t = u

(***************************************************************************)
(* The messages about s, by kind.                                          *)
(***************************************************************************)
Mail(s, T) == {m \in UpMsg : m.sta = s /\ m.type \in T}

Order(s, T) == {m \in DownMsg : m.sta = s /\ m.type \in T}

Answer(s) == {m \in Reply : m.sta = s}

Leaves == {"DISASSOC_REQ", "DEAUTH_REQ"}

(***************************************************************************)
(* What is under way about s: from a, to a, and as an answer of a.         *)
(***************************************************************************)
Sent(a, s, T) == Some(up[a], Mail(s, T))

Bound(a, s, T) == Some(down[a], Order(s, T))

AskedAt(a, s) == Bound(a, s, {"LAST_REC_POW"}) \/ Some(replies[a], Answer(s))

Pair(s, a) == STAAPList[s][a].status

(***************************************************************************)
(* The event loop of a has checked a frame of s and is to commit it.       *)
(***************************************************************************)
Working(a, s, T) == frame[a].sta = s /\ frame[a].type \in T

(***************************************************************************)
(* a serves s once it has worked off its orders, ADD_STA left aside in     *)
(* Keeps.                                                                  *)
(***************************************************************************)
Keeps(a, s) ==
    Stands(down[a], Status(a, s), Order(s, {"UPDATE_STA_ADD"}),
           Order(s, {"REMOVE_STA"}))

Stays(a, s) ==
    Stands(down[a], Status(a, s), Order(s, {"UPDATE_STA_ADD"}),
           Order(s, {"REMOVE_STA", "ADD_STA"}))

(***************************************************************************)
(* Everything that makes a the AP of s, for the controller or at a.  Only  *)
(* one AP has such a claim.                                                *)
(***************************************************************************)
Claims(a, s) ==
    \/ Pair(s, a) = "ASSOCIATED"
    \/ Keeps(a, s)
    \/ AskedAt(a, s)
    \/ Sent(a, s, Joins)

OneClaims(s) == \A a, b \in AP : Claims(a, s) /\ Claims(b, s) => a = b

(***************************************************************************)
(* A question is under way at most once, and isSent while it is.           *)
(***************************************************************************)
OneQuestion(s) ==
    \A a \in AP :
       /\ Single(down[a], Order(s, {"LAST_REC_POW"}))
       /\ Single(replies[a], Answer(s))
       /\ ~(Bound(a, s, {"LAST_REC_POW"}) /\ Some(replies[a], Answer(s)))
       /\ AskedAt(a, s) => STAAPRSSIList[s].isSent

(***************************************************************************)
(* The station does not leave.                                             *)
(***************************************************************************)
Staying(s) == \A a \in AP : timer[a][s] = 0 /\ ~Sent(a, s, Leaves)

(***************************************************************************)
(* Before the station has authenticated, APs let in only where it is       *)
(* SELECTED; before the controller knows that it is associated, nothing of *)
(* a handover has begun.                                                   *)
(***************************************************************************)
Joining(s) ==
    \A a \in AP :
       /\ phase[s] = "idle" =>
            /\ ~Sent(a, s, {"AUTH_REQ"})
            /\ Status(a, s) = "SELECTED" \/ Bound(a, s, {"ADD_STA"})
                  => Pair(s, a) = "SELECTED"
       /\ phase[s] # "associated" =>
            /\ ~Sent(a, s, Joins)
            /\ Status(a, s) # "ASSOCIATED"
            /\ \A t \in Thread : rssiThread[a][t].sta # s
       /\ phase[s] # "associated" \/ Sent(a, s, Joins) =>
            /\ ~STAAPRSSIList[s].isSent
            /\ \A b \in AP : /\ Pair(s, b) # "ASSOCIATED"
                             /\ ~Bound(b, s, {"UPDATE_STA_ADD"})
       /\ Single(up[a], Mail(s, Joins))

(***************************************************************************)
(* One AP lets the station in, and the controller has chosen it.           *)
(***************************************************************************)
Entering(s) ==
    \A a \in AP : Status(a, s) = "AUTHENTICATED" =>
       /\ phase[s] = "authenticated"
       /\ Pair(s, a) \in {"SELECTED", "AUTHENTICATED"}
       /\ \A b \in AP : Status(b, s) = "AUTHENTICATED" => b = a

(***************************************************************************)
(* What has been checked still holds when it is committed, but for the     *)
(* status: the order ADD_STA may have changed it in between.               *)
(***************************************************************************)
Framed(s) ==
    \A a \in AP :
       /\ frame[a].sta = s => /\ frame[a].type \in {"AUTH_REQ"} \cup Joins
                              /\ Status(a, s) # "null"
       /\ Working(a, s, {"AUTH_REQ"}) =>
             phase[s] = "idle" /\ Pair(s, a) = "SELECTED"
       /\ Working(a, s, Joins) =>
             /\ phase[s] = "authenticated"
             /\ Pair(s, a) \in {"SELECTED", "AUTHENTICATED"}
             /\ \A b \in AP :
                   Status(b, s) = "AUTHENTICATED" \/ Working(b, s, Joins) => b = a

Roams(s) == /\ Staying(s)
            /\ OneClaims(s)
            /\ OneQuestion(s)
            /\ Joining(s)
            /\ Entering(s)

-----------------------------------------------------------------------------

(***************************************************************************)
(* What becomes of these predicates when a queue changes.  Nothing, as far *)
(* as s is concerned:                                                      *)
(***************************************************************************)
UpSame(a, s) ==
    \A T : /\ Some(up'[a], Mail(s, T)) <=> Some(up[a], Mail(s, T))
           /\ Single(up[a], Mail(s, T)) => Single(up'[a], Mail(s, T))
           /\ \A S : Behind(up[a], Mail(s, S), Mail(s, T)) =>
                        Behind(up'[a], Mail(s, S), Mail(s, T))

DownSame(a, s) ==
    /\ \A T : /\ Some(down'[a], Order(s, T)) <=> Some(down[a], Order(s, T))
              /\ Single(down[a], Order(s, T)) => Single(down'[a], Order(s, T))
    /\ Keeps(a, s)' <=> Keeps(a, s)
    /\ Stays(a, s)' <=> Stays(a, s)

RepliesSame(a, s) ==
    /\ Some(replies'[a], Answer(s)) <=> Some(replies[a], Answer(s))
    /\ Single(replies[a], Answer(s)) => Single(replies'[a], Answer(s))

(* The types of the three queues of a.                                     *)
LEMMA QueueTypes ==
    ASSUME TypeOK, NEW a \in AP
    PROVE  /\ up[a] \in Seq(UpMsg) /\ down[a] \in Seq(DownMsg)
           /\ replies[a] \in Seq(Reply)
  BY DEF TypeOK, LinkTypeOK

(* a sends m to the controller.                                            *)
LEMMA UpAppend ==
    ASSUME TypeOK, NEW a \in AP, NEW m \in UpMsg, up'[a] = Append(up[a], m), NEW s
    PROVE  \A T : /\ Some(up'[a], Mail(s, T)) <=>
                        Some(up[a], Mail(s, T)) \/ m \in Mail(s, T)
                  /\ Single(up[a], Mail(s, T))
                     /\ (m \in Mail(s, T) => ~Some(up[a], Mail(s, T)))
                        => Single(up'[a], Mail(s, T))
                  /\ \A S : /\ m \notin Mail(s, S)
                            /\ \/ m \in Mail(s, T)
                               \/ Behind(up[a], Mail(s, S), Mail(s, T))
                            => Behind(up'[a], Mail(s, S), Mail(s, T))
<1>1. up[a] \in Seq(UpMsg)
  BY QueueTypes
<1> TAKE T
<1>2. Some(up'[a], Mail(s, T)) <=> Some(up[a], Mail(s, T)) \/ m \in Mail(s, T)
  BY <1>1, SomeAppend
<1>3. Single(up[a], Mail(s, T)) /\ (m \in Mail(s, T) => ~Some(up[a], Mail(s, T)))
         => Single(up'[a], Mail(s, T))
  BY <1>1, SingleAppend
<1>4. ASSUME NEW S, m \notin Mail(s, S),
             m \in Mail(s, T) \/ Behind(up[a], Mail(s, S), Mail(s, T))
      PROVE  Behind(up'[a], Mail(s, S), Mail(s, T))
  BY <1>1, <1>4, BehindAppend
<1> QED BY <1>2, <1>3, <1>4

(* The controller takes the i-th message of a.                             *)
LEMMA UpWithout ==
    ASSUME TypeOK, NEW a \in AP, NEW i \in 1 .. Len(up[a]),
           up'[a] = Without(up[a], i), NEW s
    PROVE  \A T : /\ Some(up[a], Mail(s, T)) <=>
                        Some(up'[a], Mail(s, T)) \/ up[a][i] \in Mail(s, T)
                  /\ Single(up[a], Mail(s, T)) =>
                        /\ Single(up'[a], Mail(s, T))
                        /\ up[a][i] \in Mail(s, T) => ~Some(up'[a], Mail(s, T))
                  /\ \A S : /\ Behind(up[a], Mail(s, S), Mail(s, T))
                            /\ i = 1 \/ up[a][i] \notin Mail(s, T)
                            => /\ Behind(up'[a], Mail(s, S), Mail(s, T))
                               /\ up[a][i] \in Mail(s, S) => Some(up[a], Mail(s, T))
<1>1. up[a] \in Seq(UpMsg)
  BY QueueTypes
<1> TAKE T
<1>2. Some(up[a], Mail(s, T)) <=> Some(up'[a], Mail(s, T)) \/ up[a][i] \in Mail(s, T)
  BY <1>1, SomeWithout
<1>3. Single(up[a], Mail(s, T)) =>
        /\ Single(up'[a], Mail(s, T))
        /\ up[a][i] \in Mail(s, T) => ~Some(up'[a], Mail(s, T))
  BY <1>1, SingleWithout
<1>4. ASSUME NEW S, Behind(up[a], Mail(s, S), Mail(s, T)),
             i = 1 \/ up[a][i] \notin Mail(s, T)
      PROVE  /\ Behind(up'[a], Mail(s, S), Mail(s, T))
             /\ up[a][i] \in Mail(s, S) => Some(up[a], Mail(s, T))
  BY <1>1, <1>4, BehindWithout
<1> QED BY <1>2, <1>3, <1>4

(* The controller sends m to a.                                            *)
LEMMA DownAppend ==
    ASSUME TypeOK, NEW a \in AP, NEW m \in DownMsg, down'[a] = Append(down[a], m),
           NEW s, Status(a, s)' = Status(a, s)
    PROVE  /\ \A T : /\ Some(down'[a], Order(s, T)) <=>
                           Some(down[a], Order(s, T)) \/ m \in Order(s, T)
                     /\ Single(down[a], Order(s, T))
                        /\ (m \in Order(s, T) => ~Some(down[a], Order(s, T)))
                           => Single(down'[a], Order(s, T))
           /\ Keeps(a, s)' <=>
                 \/ m \in Order(s, {"UPDATE_STA_ADD"})
                 \/ m \notin Order(s, {"REMOVE_STA"}) /\ Keeps(a, s)
           /\ Stays(a, s)' <=>
                 \/ m \in Order(s, {"UPDATE_STA_ADD"})
                 \/ m \notin Order(s, {"REMOVE_STA", "ADD_STA"}) /\ Stays(a, s)
<1>1. down[a] \in Seq(DownMsg)
  BY QueueTypes
<1>2. ASSUME NEW T
      PROVE  /\ Some(down'[a], Order(s, T)) <=>
                   Some(down[a], Order(s, T)) \/ m \in Order(s, T)
             /\ Single(down[a], Order(s, T))
                /\ (m \in Order(s, T) => ~Some(down[a], Order(s, T)))
                   => Single(down'[a], Order(s, T))
  <2>1. Some(down'[a], Order(s, T)) <=>
           Some(down[a], Order(s, T)) \/ m \in Order(s, T)
    BY <1>1, SomeAppend
  <2>2. Single(down[a], Order(s, T))
        /\ (m \in Order(s, T) => ~Some(down[a], Order(s, T)))
           => Single(down'[a], Order(s, T))
    BY <1>1, SingleAppend
  <2> QED BY <2>1, <2>2
<1>3. ASSUME NEW K
      PROVE  Stands(down'[a], Status(a, s),
                    Order(s, {"UPDATE_STA_ADD"}), K) <=>
                \/ m \in Order(s, {"UPDATE_STA_ADD"})
                \/ /\ m \notin K
                   /\ Stands(down[a], Status(a, s),
                             Order(s, {"UPDATE_STA_ADD"}), K)
  BY <1>1, StandsAppend
<1>4. /\ Keeps(a, s)' <=> Stands(down'[a], Status(a, s),
                            Order(s, {"UPDATE_STA_ADD"}), Order(s, {"REMOVE_STA"}))
      /\ Stays(a, s)' <=> Stands(down'[a], Status(a, s),
                            Order(s, {"UPDATE_STA_ADD"}),
                            Order(s, {"REMOVE_STA", "ADD_STA"}))
  BY DEF Keeps, Stays
<1> QED BY <1>2, <1>3, <1>4 DEF Keeps, Stays

(***************************************************************************)
(* a serves s after the first order, which is no removal (of the kinds T). *)
(***************************************************************************)
Serves(a, s, T) ==
    \/ Head(down[a]) \in Order(s, {"UPDATE_STA_ADD"})
    \/ Status(a, s) = "ASSOCIATED" /\ Head(down[a]) \notin Order(s, T)

(* a takes its next order.                                                 *)
LEMMA DownTail ==
    ASSUME TypeOK, NEW a \in AP, down[a] # <<>>, down'[a] = Tail(down[a]), NEW s,
           Status(a, s)' = "ASSOCIATED" => Serves(a, s, {"REMOVE_STA", "ADD_STA"})
    PROVE  /\ \A T : /\ Some(down[a], Order(s, T)) <=>
                           Some(down'[a], Order(s, T)) \/ Head(down[a]) \in Order(s, T)
                     /\ Single(down[a], Order(s, T)) =>
                           /\ Single(down'[a], Order(s, T))
                           /\ Head(down[a]) \in Order(s, T) =>
                                 ~Some(down'[a], Order(s, T))
           /\ Keeps(a, s)' => Keeps(a, s)
           /\ Stays(a, s)' => Stays(a, s)
           /\ /\ Keeps(a, s)
              /\ Serves(a, s, {"REMOVE_STA"}) => Status(a, s)' = "ASSOCIATED"
              => Keeps(a, s)'
           /\ /\ Stays(a, s)
              /\ Serves(a, s, {"REMOVE_STA", "ADD_STA"}) => Status(a, s)' = "ASSOCIATED"
              => Stays(a, s)'
<1> DEFINE q == down[a]
           U == Order(s, {"UPDATE_STA_ADD"})
           old == Status(a, s)
           now == Status(a, s)'
           In(K) == Head(q) \in U \/ (old = "ASSOCIATED" /\ Head(q) \notin K)
<1>1. q \in Seq(DownMsg) /\ q # <<>>
  BY QueueTypes
<1>2. 1 \in 1 .. Len(q) /\ Head(q) = q[1] /\ Tail(q) = Without(q, 1)
  BY <1>1, TailWithout
<1>3. ASSUME NEW T
      PROVE  /\ Some(q, Order(s, T)) <=>
                   Some(down'[a], Order(s, T)) \/ Head(q) \in Order(s, T)
             /\ Single(q, Order(s, T)) =>
                   /\ Single(down'[a], Order(s, T))
                   /\ Head(q) \in Order(s, T) => ~Some(down'[a], Order(s, T))
  <2>1. Some(q, Order(s, T)) <=>
           Some(down'[a], Order(s, T)) \/ Head(q) \in Order(s, T)
    BY <1>1, <1>2, SomeWithout
  <2>2. Single(q, Order(s, T)) =>
           /\ Single(down'[a], Order(s, T))
           /\ Head(q) \in Order(s, T) => ~Some(down'[a], Order(s, T))
    BY <1>1, <1>2, SingleWithout
  <2> QED BY <2>1, <2>2
<1>4. Order(s, {"REMOVE_STA"}) \subseteq Order(s, {"REMOVE_STA", "ADD_STA"})
  BY DEF Order
<1>5. /\ now = "ASSOCIATED" => In(Order(s, {"REMOVE_STA"}))
      /\ now = "ASSOCIATED" => In(Order(s, {"REMOVE_STA", "ADD_STA"}))
  BY <1>4 DEF Serves
<1>6. ASSUME NEW K, now = "ASSOCIATED" => In(K)
      PROVE  /\ Stands(down'[a], now, U, K) => Stands(q, old, U, K)
             /\ Stands(q, old, U, K) /\ (In(K) => now = "ASSOCIATED")
                   => Stands(down'[a], now, U, K)
  <2> HIDE DEF q, U, old, now
  <2>1. down'[a] = Tail(q)
    BY DEF q
  <2>2. /\ Stands(Tail(q), now, U, K) => Stands(q, old, U, K)
        /\ Stands(q, old, U, K) /\ (In(K) => now = "ASSOCIATED")
              => Stands(Tail(q), now, U, K)
    BY <1>1, <1>6, StandsTail, Zenon
  <2> QED BY <2>1, <2>2
<1>7. /\ Keeps(a, s) <=> Stands(q, old, U, Order(s, {"REMOVE_STA"}))
      /\ Keeps(a, s)' <=> Stands(down'[a], now, U, Order(s, {"REMOVE_STA"}))
      /\ Stays(a, s) <=> Stands(q, old, U, Order(s, {"REMOVE_STA", "ADD_STA"}))
      /\ Stays(a, s)' <=> Stands(down'[a], now, U, Order(s, {"REMOVE_STA", "ADD_STA"}))
  BY DEF Keeps, Stays
<1>8. /\ Keeps(a, s)' => Keeps(a, s)
      /\ Keeps(a, s) /\ (In(Order(s, {"REMOVE_STA"})) => now = "ASSOCIATED")
            => Keeps(a, s)'
  BY <1>5, <1>6, <1>7
<1>9. /\ Stays(a, s)' => Stays(a, s)
      /\ Stays(a, s) /\ (In(Order(s, {"REMOVE_STA", "ADD_STA"})) => now = "ASSOCIATED")
            => Stays(a, s)'
  BY <1>5, <1>6, <1>7
<1> QED BY <1>3, <1>8, <1>9 DEF Serves

(* a answers.                                                              *)
LEMMA RepliesAppend ==
    ASSUME TypeOK, NEW a \in AP, NEW m \in Reply, replies'[a] = Append(replies[a], m),
           NEW s
    PROVE  /\ Some(replies'[a], Answer(s)) <=>
                 Some(replies[a], Answer(s)) \/ m \in Answer(s)
           /\ Single(replies[a], Answer(s))
              /\ (m \in Answer(s) => ~Some(replies[a], Answer(s)))
                 => Single(replies'[a], Answer(s))
<1>1. replies[a] \in Seq(Reply)
  BY QueueTypes
<1>2. Some(replies'[a], Answer(s)) <=> Some(replies[a], Answer(s)) \/ m \in Answer(s)
  BY <1>1, SomeAppend
<1>3. Single(replies[a], Answer(s))
      /\ (m \in Answer(s) => ~Some(replies[a], Answer(s)))
         => Single(replies'[a], Answer(s))
  BY <1>1, SingleAppend
<1> QED BY <1>2, <1>3

(* The controller takes the next answer of a.                              *)
LEMMA RepliesTail ==
    ASSUME TypeOK, NEW a \in AP, replies[a] # <<>>, replies'[a] = Tail(replies[a]),
           NEW s
    PROVE  /\ Some(replies[a], Answer(s)) <=>
                 Some(replies'[a], Answer(s)) \/ Head(replies[a]) \in Answer(s)
           /\ Single(replies[a], Answer(s)) =>
                 /\ Single(replies'[a], Answer(s))
                 /\ Head(replies[a]) \in Answer(s) => ~Some(replies'[a], Answer(s))
<1> DEFINE q == replies[a]
<1>1. q \in Seq(Reply) /\ q # <<>>
  BY QueueTypes
<1>2. 1 \in 1 .. Len(q) /\ Head(q) = q[1] /\ Tail(q) = Without(q, 1)
  BY <1>1, TailWithout
<1>3. Some(q, Answer(s)) <=> Some(replies'[a], Answer(s)) \/ Head(q) \in Answer(s)
  BY <1>1, <1>2, SomeWithout
<1>4. Single(q, Answer(s)) =>
         /\ Single(replies'[a], Answer(s))
         /\ Head(q) \in Answer(s) => ~Some(replies'[a], Answer(s))
  BY <1>1, <1>2, SingleWithout
<1> QED BY <1>3, <1>4

(***************************************************************************)
(* A queue that does not change, or changes by messages about a station u  *)
(* other than s.                                                           *)
(***************************************************************************)
UpStep(a, u) ==
    \/ up'[a] = up[a]
    \/ \E m \in UpMsg : m.sta = u /\ up'[a] = Append(up[a], m)
    \/ \E i \in 1 .. Len(up[a]) : up[a][i].sta = u /\ up'[a] = Without(up[a], i)

DownStep(a, u) ==
    \/ down'[a] = down[a]
    \/ \E m \in DownMsg : m.sta = u /\ down'[a] = Append(down[a], m)
    \/ \E m, n \in DownMsg : /\ m.sta = u /\ n.sta = u
                             /\ down'[a] = Append(Append(down[a], m), n)
    \/ down[a] # <<>> /\ Head(down[a]).sta = u /\ down'[a] = Tail(down[a])

RepliesStep(a, u) ==
    \/ replies'[a] = replies[a]
    \/ \E m \in Reply : m.sta = u /\ replies'[a] = Append(replies[a], m)
    \/ /\ replies[a] # <<>> /\ Head(replies[a]).sta = u
       /\ replies'[a] = Tail(replies[a])

(* A message about u means nothing for s.                                  *)
LEMMA UpOther ==
    ASSUME TypeOK, NEW a \in AP, NEW u, NEW s, u # s, UpStep(a, u)
    PROVE  UpSame(a, s)
<1>1. CASE up'[a] = up[a]
  BY <1>1 DEF UpSame
<1>2. ASSUME NEW m \in UpMsg, m.sta = u, up'[a] = Append(up[a], m)
      PROVE  UpSame(a, s)
  <2>1. \A T : m \notin Mail(s, T)
    BY <1>2 DEF Mail
  <2> QED BY <1>2, <2>1, UpAppend DEF UpSame
<1>3. ASSUME NEW i \in 1 .. Len(up[a]), up[a][i].sta = u, up'[a] = Without(up[a], i)
      PROVE  UpSame(a, s)
  <2>1. \A T : up[a][i] \notin Mail(s, T)
    BY <1>3 DEF Mail
  <2> QED BY <1>3, <2>1, UpWithout DEF UpSame
<1> QED BY <1>1, <1>2, <1>3 DEF UpStep

(* An answer about u means nothing for s.                                  *)
LEMMA RepliesOther ==
    ASSUME TypeOK, NEW a \in AP, NEW u, NEW s, u # s, RepliesStep(a, u)
    PROVE  RepliesSame(a, s)
<1>1. CASE replies'[a] = replies[a]
  BY <1>1 DEF RepliesSame
<1>2. ASSUME NEW m \in Reply, m.sta = u, replies'[a] = Append(replies[a], m)
      PROVE  RepliesSame(a, s)
  <2>1. m \notin Answer(s)
    BY <1>2 DEF Answer
  <2> QED BY <1>2, <2>1, RepliesAppend DEF RepliesSame
<1>3. CASE /\ replies[a] # <<>> /\ Head(replies[a]).sta = u
           /\ replies'[a] = Tail(replies[a])
  <2>1. Head(replies[a]) \notin Answer(s)
    BY <1>3 DEF Answer
  <2> QED BY <1>3, <2>1, RepliesTail DEF RepliesSame
<1> QED BY <1>1, <1>2, <1>3 DEF RepliesStep

(* An order about u means nothing for s.                                   *)
LEMMA DownOther ==
    ASSUME TypeOK, NEW a \in AP, NEW u, NEW s, u # s, DownStep(a, u),
           Status(a, s)' = Status(a, s)
    PROVE  DownSame(a, s)
<1>1. CASE down'[a] = down[a]
  <2>1. (Keeps(a, s)' <=> Keeps(a, s)) /\ (Stays(a, s)' <=> Stays(a, s))
    BY <1>1 DEF Keeps, Stays
  <2> QED BY <1>1, <2>1 DEF DownSame
<1>2. ASSUME NEW m \in DownMsg, m.sta = u, down'[a] = Append(down[a], m)
      PROVE  DownSame(a, s)
  <2>1. \A T : m \notin Order(s, T)
    BY <1>2 DEF Order
  <2> QED BY <1>2, <2>1, DownAppend DEF DownSame
<1>3. ASSUME NEW m \in DownMsg, NEW n \in DownMsg, m.sta = u, n.sta = u,
             down'[a] = Append(Append(down[a], m), n)
      PROVE  DownSame(a, s)
  <2>1. \A T : m \notin Order(s, T) /\ n \notin Order(s, T)
    BY <1>3 DEF Order
  <2> DEFINE q == down[a]
             r == Append(q, m)
  <2>2. q \in Seq(DownMsg) /\ r \in Seq(DownMsg)
    BY QueueTypes, Appended
  <2> HIDE DEF q, r
  <2>3. ASSUME NEW T
        PROVE  /\ Some(Append(r, n), Order(s, T)) <=> Some(q, Order(s, T))
               /\ Single(q, Order(s, T)) => Single(Append(r, n), Order(s, T))
    <3>1. /\ Some(r, Order(s, T)) <=> Some(q, Order(s, T))
          /\ Some(Append(r, n), Order(s, T)) <=> Some(r, Order(s, T))
      BY <2>1, <2>2, SomeAppend DEF r
    <3>2. /\ Single(q, Order(s, T)) => Single(r, Order(s, T))
          /\ Single(r, Order(s, T)) => Single(Append(r, n), Order(s, T))
      BY <2>1, <2>2, SingleAppend DEF r
    <3> QED BY <3>1, <3>2
  <2>4. ASSUME NEW st, NEW T, NEW K
        PROVE  Stands(Append(r, n), st, Order(s, T), Order(s, K)) <=>
                  Stands(q, st, Order(s, T), Order(s, K))
    <3>1. Stands(r, st, Order(s, T), Order(s, K)) <=>
             m \in Order(s, T)
             \/ (m \notin Order(s, K) /\ Stands(q, st, Order(s, T), Order(s, K)))
      BY <2>2, StandsAppend DEF r
    <3>2. Stands(Append(r, n), st, Order(s, T), Order(s, K)) <=>
             n \in Order(s, T)
             \/ (n \notin Order(s, K) /\ Stands(r, st, Order(s, T), Order(s, K)))
      BY <2>2, StandsAppend
    <3> QED BY <2>1, <3>1, <3>2
  <2>5. down'[a] = Append(r, n) /\ down[a] = q
    BY <1>3 DEF q, r
  <2>6. (Keeps(a, s)' <=> Keeps(a, s)) /\ (Stays(a, s)' <=> Stays(a, s))
    BY <2>4, <2>5 DEF Keeps, Stays
  <2> QED BY <2>3, <2>5, <2>6 DEF DownSame
<1>4. CASE down[a] # <<>> /\ Head(down[a]).sta = u /\ down'[a] = Tail(down[a])
  <2>1. \A T : Head(down[a]) \notin Order(s, T)
    BY <1>4 DEF Order
  <2>2. \A T : Serves(a, s, T) <=> Status(a, s)' = "ASSOCIATED"
    BY <2>1 DEF Serves
  <2> QED BY <1>4, <2>1, <2>2, DownTail DEF DownSame
<1> QED BY <1>1, <1>2, <1>3, <1>4 DEF DownStep

-----------------------------------------------------------------------------

(***************************************************************************)
(* What a step leaves alone.  Of a and s: everything; of threads only that *)
(* a thread at work on s was at the same place before.                     *)
(***************************************************************************)
ThreadsSame(a, s) ==
    \A t \in Thread : \/ rssiThread'[a][t].sta # s
                      \/ rssiThread'[a][t] = rssiThread[a][t]

SameAt(a, s) ==
    /\ Pair(s, a)' = Pair(s, a)
    /\ Status(a, s)' = Status(a, s)
    /\ timer'[a][s] = timer[a][s]
    /\ ThreadsSame(a, s)
    /\ UpSame(a, s)
    /\ DownSame(a, s)
    /\ RepliesSame(a, s)

Same(s) ==
    /\ phase'[s] = phase[s]
    /\ STAAPRSSIList'[s] = STAAPRSSIList[s]
    /\ \A a \in AP : SameAt(a, s)

(***************************************************************************)
(* An AP whose part of the state does not change.                          *)
(***************************************************************************)
LEMMA Untouched ==
    ASSUME NEW a \in AP, NEW s \in STA,
           Pair(s, a)' = Pair(s, a), Status(a, s)' = Status(a, s),
           timer'[a][s] = timer[a][s], ThreadsSame(a, s),
           up'[a] = up[a], down'[a] = down[a], replies'[a] = replies[a]
    PROVE  SameAt(a, s)
<1>1. UpSame(a, s) /\ RepliesSame(a, s)
  BY DEF UpSame, RepliesSame
<1>2. (Keeps(a, s)' <=> Keeps(a, s)) /\ (Stays(a, s)' <=> Stays(a, s))
  BY DEF Keeps, Stays
<1>3. DownSame(a, s)
  BY <1>2 DEF DownSame
<1> QED BY <1>1, <1>3 DEF SameAt

(***************************************************************************)
(* A step about u changes nothing for the other stations, nor does it      *)
(* begin or end the work on a frame of theirs.                             *)
(***************************************************************************)
FrameSame(a, s) ==
    frame[a].sta = s \/ frame'[a].sta = s => frame'[a] = frame[a]

About(u) ==
    /\ \A a \in AP : UpStep(a, u) /\ DownStep(a, u) /\ RepliesStep(a, u)
    /\ \A s \in STA : s # u =>
         /\ phase'[s] = phase[s]
         /\ STAAPRSSIList'[s] = STAAPRSSIList[s]
         /\ \A a \in AP : /\ Pair(s, a)' = Pair(s, a)
                          /\ Status(a, s)' = Status(a, s)
                          /\ timer'[a][s] = timer[a][s]
                          /\ ThreadsSame(a, s)
                          /\ FrameSame(a, s)

(* All of s is the same after a step about another station.                *)
LEMMA OthersSame ==
    ASSUME TypeOK, NEW u, About(u), NEW s \in STA, s # u
    PROVE  Same(s)
<1> SUFFICES ASSUME NEW a \in AP PROVE SameAt(a, s)
  BY DEF Same, About
<1>1. UpStep(a, u) /\ DownStep(a, u) /\ RepliesStep(a, u)
  BY DEF About
<1>2. /\ Pair(s, a)' = Pair(s, a) /\ Status(a, s)' = Status(a, s)
      /\ timer'[a][s] = timer[a][s] /\ ThreadsSame(a, s)
  BY DEF About
<1>3. UpSame(a, s) /\ DownSame(a, s) /\ RepliesSame(a, s)
  BY <1>1, <1>2, UpOther, DownOther, RepliesOther
<1> QED BY <1>2, <1>3 DEF SameAt

-----------------------------------------------------------------------------

(***************************************************************************)
(* The steps, as long as no connection fails, by their effect on the       *)
(* station they are about.                                                 *)
(***************************************************************************)

(***************************************************************************)
(* The controller takes the message up[a][i].                              *)
(***************************************************************************)
Takes(a, i, s) ==
    /\ i \in 1 .. Len(up[a])
    /\ up[a][i] \in UpMsg /\ up[a][i].sta = s
    /\ i = 1 \/ Reorder
    /\ up' = [up EXCEPT ![a] = Without(@, i)]
    /\ UNCHANGED <<replies, infoSTA, rssiThread, timer, frame, phase>>
    /\ \A u \in STA, b \in AP : u # s \/ b # a => Pair(u, b)' = Pair(u, b)
    /\ \A u \in STA : u # s => STAAPRSSIList'[u] = STAAPRSSIList[u]

(***************************************************************************)
(* It sends one to b.                                                      *)
(***************************************************************************)
Writes(b, type, s) ==
    down' = [down EXCEPT ![b] = Append(@, [type |-> type, sta |-> s])]

(***************************************************************************)
(* handleProbeReq, handleAuthReq and the handlers of association, and      *)
(* handleLastRSSI.                                                         *)
(***************************************************************************)
ProbeTaken(a, s) ==
    /\ STAAPRSSIList' = STAAPRSSIList
    /\ \/ Pair(s, a)' = Pair(s, a) /\ down' = down
       \/ /\ Pair(s, a) \in {"null", "NOT_AUTHENTICATED"}
          /\ \A b \in AP : Pair(s, b) # "ASSOCIATED"
          /\ Pair(s, a)' = "SELECTED"
          /\ Writes(a, "ADD_STA", s)

StatusTaken(a, s, status) ==
    /\ STAAPRSSIList' = STAAPRSSIList
    /\ down' = down
    /\ Pair(s, a)' = IF Pair(s, a) = "null" THEN "null" ELSE status

ReportTaken(a, s) ==
    /\ Pair(s, a)' = Pair(s, a)
    /\ STAAPRSSIList'[s].ap \in {a, STAAPRSSIList[s].ap}
    /\ \/ down' = down /\ STAAPRSSIList'[s].isSent = STAAPRSSIList[s].isSent
       \/ /\ ~STAAPRSSIList[s].isSent
          /\ STAAPRSSIList'[s].isSent
          /\ \E b \in AP : Pair(s, b) = "ASSOCIATED" /\ Writes(b, "LAST_REC_POW", s)

(* receive is one of these, or takes a message that the station leaves.    *)
LEMMA ReceiveCases ==
    ASSUME TypeOK, Numbered, AllUp, NEW a \in AP, Receive(a)
    PROVE  \E s \in STA, i \in 1 .. Len(up[a]) :
              /\ Takes(a, i, s)
              /\ \/ up[a][i].type = "PROBE" /\ ProbeTaken(a, s)
                 \/ up[a][i].type = "AUTH_REQ" /\ StatusTaken(a, s, "AUTHENTICATED")
                 \/ up[a][i].type \in Joins /\ StatusTaken(a, s, "ASSOCIATED")
                 \/ up[a][i].type \in Leaves
                 \/ up[a][i].type = "REC_POW" /\ ReportTaken(a, s)
<1> USE DEF TypeOK, LinkTypeOK, ControllerTypeOK
<1>1. PICK i \in 1 .. Len(up[a]) :
        /\ i = 1 \/ Reorder
        /\ \/ handleProbeReq(a, up[a][i])
           \/ handleAuthReq(a, up[a][i])
           \/ handleAssocReq(a, up[a][i])
           \/ handleReassocReq(a, up[a][i])
           \/ handleDisassocReq(a, up[a][i])
           \/ handleDeauthReq(a, up[a][i])
           \/ handleLastRSSI(a, up[a][i])
        /\ up' = [up EXCEPT ![a] = Without(@, i)]
  BY DEF Receive, receive
<1>2. UNCHANGED <<replies, infoSTA, rssiThread, timer, frame, phase>>
  BY DEF Receive, receive, agentVars, envVars
<1> DEFINE m == up[a][i]
<1>3. m \in UpMsg
  OBVIOUS
<1>4. PICK s \in STA : s = m.sta
  BY <1>3 DEF UpMsg
<1> DEFINE entry == STAAPList[s][a]
<1>5. /\ \A b \in AP : Live(b, link[b].sw)
      /\ \A b \in AP : lookupSenderSTAAP(s, b) => Live(b, STAAPList[s][b].sw)
  <2>1. \A b \in AP : Live(b, 1) /\ link[b].sw = 1
    BY UpMeans DEF AllUp
  <2>2. \A b \in AP : lookupSenderSTAAP(s, b) => STAAPList[s][b].sw = 1
    BY <1>4, UpMeans
  <2> QED BY <2>1, <2>2
<1> HIDE DEF m
<1>6. ASSUME NEW new, STAAPList' = [STAAPList EXCEPT ![s][a] = new]
      PROVE  /\ Pair(s, a)' = new.status
             /\ \A u \in STA, b \in AP : u # s \/ b # a => Pair(u, b)' = Pair(u, b)
  <2>1. /\ STAAPList'[s][a] = new
        /\ \A u \in STA, b \in AP : u # s \/ b # a => STAAPList'[u][b] = STAAPList[u][b]
    BY <1>4, <1>6
  <2> QED BY <2>1 DEF Pair
<1>7. STAAPList' = STAAPList => \A u \in STA, b \in AP : Pair(u, b)' = Pair(u, b)
  BY DEF Pair
<1>8. ASSUME NEW status, SetStatus(s, a, status)
      PROVE  /\ Pair(s, a)' = IF Pair(s, a) = "null" THEN "null" ELSE status
             /\ \A u \in STA, b \in AP : u # s \/ b # a => Pair(u, b)' = Pair(u, b)
  <2>1. CASE lookupSenderSTAAP(s, a)
    <3>1. STAAPList' = [STAAPList EXCEPT ![s][a] = WithStatus(entry, status)]
      BY <1>4, <1>8, <2>1 DEF SetStatus
    <3>2. WithStatus(entry, status).status = status
      BY DEF WithStatus
    <3> QED BY <1>6, <2>1, <3>1, <3>2 DEF lookupSenderSTAAP, Pair
  <2>2. CASE ~lookupSenderSTAAP(s, a)
    BY <1>4, <1>7, <1>8, <2>2 DEF SetStatus, lookupSenderSTAAP, Pair
  <2> QED BY <2>1, <2>2
<1> DEFINE Rest == /\ \A u \in STA, b \in AP : u # s \/ b # a => Pair(u, b)' = Pair(u, b)
                   /\ \A u \in STA : u # s => STAAPRSSIList'[u] = STAAPRSSIList[u]
<1>9. Rest => Takes(a, i, s)
  BY <1>1, <1>2, <1>3, <1>4 DEF Takes, m
<1>10. ASSUME NEW b \in AP, NEW sw, NEW type, Live(b, sw),
              down' = write(down, b, sw, type, s)
       PROVE  Writes(b, type, s)
  BY <1>10 DEF write, Writes
<1>11. CASE handleProbeReq(a, m)
  <2> DEFINE new == [status |-> "SELECTED", rates |-> entry.rates,
                     sw |-> IF lookupSenderSTAAP(s, a) THEN entry.sw ELSE link[a].sw]
  <2>1. /\ STAAPRSSIList' = STAAPRSSIList /\ m.type = "PROBE"
        /\ \/ UNCHANGED <<STAAPList, down>>
           \/ /\ entry.status \in {"null", "NOT_AUTHENTICATED"}
              /\ findSTAAPInfo(s) = {}
              /\ STAAPList' = [STAAPList EXCEPT ![s][a] = new]
              /\ down' = write(down, a, link[a].sw, "ADD_STA", s)
    BY <1>4, <1>11 DEF handleProbeReq
  <2>2. new.status = "SELECTED"
    OBVIOUS
  <2> HIDE DEF new
  <2>3. Rest
    BY <1>6, <1>7, <2>1
  <2>4. findSTAAPInfo(s) = {} => \A b \in AP : Pair(s, b) # "ASSOCIATED"
    BY DEF findSTAAPInfo, Pair
  <2>5. ProbeTaken(a, s)
    <3>1. CASE UNCHANGED <<STAAPList, down>>
      BY <1>4, <1>7, <2>1, <3>1 DEF ProbeTaken
    <3>2. CASE /\ entry.status \in {"null", "NOT_AUTHENTICATED"}
               /\ findSTAAPInfo(s) = {}
               /\ STAAPList' = [STAAPList EXCEPT ![s][a] = new]
               /\ down' = write(down, a, link[a].sw, "ADD_STA", s)
      <4>1. Pair(s, a)' = "SELECTED" /\ Writes(a, "ADD_STA", s)
        BY <1>5, <1>6, <1>10, <2>2, <3>2
      <4> QED BY <2>1, <2>4, <3>2, <4>1 DEF ProbeTaken, Pair
    <3> QED BY <2>1, <3>1, <3>2
  <2> QED BY <1>4, <1>9, <2>1, <2>3, <2>5 DEF m
<1>12. CASE handleAuthReq(a, m)
  <2>1. Rest /\ m.type = "AUTH_REQ" /\ StatusTaken(a, s, "AUTHENTICATED")
    BY <1>4, <1>8, <1>12 DEF handleAuthReq, StatusTaken
  <2> QED BY <1>4, <1>9, <2>1 DEF m
<1>13. CASE handleReassocReq(a, m)
  <2>1. Rest /\ m.type \in Joins /\ StatusTaken(a, s, "ASSOCIATED")
    BY <1>4, <1>8, <1>13 DEF handleReassocReq, StatusTaken, Joins
  <2> QED BY <1>4, <1>9, <2>1 DEF m
<1>14. CASE handleAssocReq(a, m)
  <2> DEFINE new == [status |-> "ASSOCIATED", rates |-> TRUE, sw |-> entry.sw]
  <2>1. /\ UNCHANGED <<STAAPRSSIList, down>> /\ m.type \in Joins
        /\ STAAPList' = IF lookupSenderSTAAP(s, a)
                        THEN [STAAPList EXCEPT ![s][a] = new] ELSE STAAPList
    BY <1>4, <1>14 DEF handleAssocReq, Joins
  <2>2. new.status = "ASSOCIATED"
    OBVIOUS
  <2> HIDE DEF new
  <2>3. Rest /\ Pair(s, a)' = IF Pair(s, a) = "null" THEN "null" ELSE "ASSOCIATED"
    <3>1. CASE lookupSenderSTAAP(s, a)
      BY <1>6, <2>1, <2>2, <3>1 DEF lookupSenderSTAAP, Pair
    <3>2. CASE ~lookupSenderSTAAP(s, a)
      BY <1>4, <1>7, <2>1, <3>2 DEF lookupSenderSTAAP, Pair
    <3> QED BY <3>1, <3>2
  <2> QED BY <1>4, <1>9, <2>1, <2>3 DEF m, StatusTaken
<1>15. CASE handleDisassocReq(a, m) \/ handleDeauthReq(a, m)
  <2>1. Rest /\ m.type \in Leaves
    BY <1>4, <1>8, <1>15 DEF handleDisassocReq, handleDeauthReq, Leaves
  <2> QED BY <1>4, <1>9, <2>1 DEF m
<1>16. CASE handleLastRSSI(a, m)
  <2> DEFINE old == STAAPRSSIList[s]
             cand == Better(s, a, readByte(m.rssi))
  <2>1. /\ STAAPList' = STAAPList /\ m.type = "REC_POW"
        /\ \/ STAAPRSSIList' = [STAAPRSSIList EXCEPT ![s] = cand] /\ down' = down
           \/ /\ ~cand.isSent
              /\ STAAPRSSIList' = [STAAPRSSIList EXCEPT ![s] = WithSent(cand, TRUE)]
              /\ \E b \in findSTAAPInfo(s) :
                    down' = write(down, b, STAAPList[s][b].sw, "LAST_REC_POW", s)
    BY <1>4, <1>16 DEF handleLastRSSI
  <2>2. cand.ap \in {a, old.ap} /\ cand.isSent = old.isSent
    BY <1>4 DEF Better, APInfo
  <2>3. WithSent(cand, TRUE).ap = cand.ap /\ WithSent(cand, TRUE).isSent
    BY DEF WithSent
  <2> HIDE DEF cand
  <2>4. Rest
    BY <1>4, <1>7, <2>1
  <2>5. Pair(s, a)' = Pair(s, a)
    BY <1>4, <1>7, <2>1
  <2>6. ReportTaken(a, s)
    <3>1. CASE STAAPRSSIList' = [STAAPRSSIList EXCEPT ![s] = cand] /\ down' = down
      <4>1. STAAPRSSIList'[s] = cand
        BY <1>4, <3>1
      <4> QED BY <2>2, <2>5, <3>1, <4>1 DEF ReportTaken
    <3>2. CASE /\ ~cand.isSent
               /\ STAAPRSSIList' = [STAAPRSSIList EXCEPT ![s] = WithSent(cand, TRUE)]
               /\ \E b \in findSTAAPInfo(s) :
                     down' = write(down, b, STAAPList[s][b].sw, "LAST_REC_POW", s)
      <4>1. STAAPRSSIList'[s] = WithSent(cand, TRUE)
        BY <1>4, <3>2
      <4>2. PICK b \in findSTAAPInfo(s) :
               down' = write(down, b, STAAPList[s][b].sw, "LAST_REC_POW", s)
        BY <3>2
      <4>3. b \in AP /\ Pair(s, b) = "ASSOCIATED" /\ Live(b, STAAPList[s][b].sw)
        BY <1>5 DEF findSTAAPInfo, Pair, lookupSenderSTAAP
      <4>4. Writes(b, "LAST_REC_POW", s)
        BY <1>10, <4>2, <4>3
      <4> QED BY <2>2, <2>3, <2>5, <3>2, <4>1, <4>3, <4>4 DEF ReportTaken
    <3> QED BY <2>1, <3>1, <3>2
  <2> QED BY <1>4, <1>9, <2>1, <2>4, <2>6 DEF m
<1> QED BY <1>1, <1>11, <1>12, <1>13, <1>14, <1>15, <1>16 DEF m

(***************************************************************************)
(* The controller takes the answer of a.                                   *)
(***************************************************************************)
AnswerTaken(a, s) ==
    /\ replies[a] # <<>> /\ Head(replies[a]) \in Answer(s)
    /\ replies' = [replies EXCEPT ![a] = Tail(@)]
    /\ UNCHANGED <<up, infoSTA, rssiThread, timer, frame, phase>>
    /\ \A u \in STA : u # s => /\ STAAPRSSIList'[u] = STAAPRSSIList[u]
                               /\ \A b \in AP : Pair(u, b)' = Pair(u, b)
    /\ ~STAAPRSSIList'[s].isSent

NoMove(s) ==
    /\ down' = down
    /\ STAAPRSSIList'[s].ap = STAAPRSSIList[s].ap
    /\ \A b \in AP : Pair(s, b)' = Pair(s, b)

Move(a, s, c) ==
    LET remove == [type |-> "REMOVE_STA", sta |-> s]
        update == [type |-> "UPDATE_STA_ADD", sta |-> s]
    IN  /\ STAAPRSSIList[s].ap = c /\ STAAPRSSIList'[s].ap = a
        /\ Pair(s, c)' = "ASSOCIATED"
        /\ a # c => Pair(s, a)' = "NOT_AUTHENTICATED"
        /\ \A b \in AP : b # a /\ b # c => /\ Pair(s, b)' = Pair(s, b)
                                           /\ down'[b] = down[b]
        /\ a # c => /\ down'[a] = Append(down[a], remove)
                    /\ down'[c] = Append(down[c], update)
        /\ a = c => down'[a] = Append(Append(down[a], remove), update)

(* handleAPRSSI is one of these.                                           *)
LEMMA AnswerCases ==
    ASSUME TypeOK, Numbered, AllUp, link' = link, NEW a \in AP, HandleAPRSSI(a)
    PROVE  \E s \in STA : /\ AnswerTaken(a, s)
                          /\ NoMove(s) \/ \E c \in AP : Move(a, s, c)
<1> USE DEF TypeOK, LinkTypeOK, ControllerTypeOK
<1> DEFINE m == Head(replies[a])
<1>1. replies[a] # <<>> /\ UNCHANGED <<up, infoSTA, rssiThread, timer, frame, phase>>
  BY DEF HandleAPRSSI, handleAPRSSI, NoHandover, Handover, agentVars, envVars
<1>2. m \in Reply
  BY <1>1, HeadTail
<1>3. PICK s \in STA : s = m.sta
  BY <1>2 DEF Reply
<1>4. m \in Answer(s)
  BY <1>2, <1>3 DEF Answer
<1>5. CASE NoHandover(a)
  <2>1. /\ STAAPRSSIList' = [STAAPRSSIList EXCEPT ![s] = WithSent(@, FALSE)]
        /\ replies' = [replies EXCEPT ![a] = Tail(@)]
        /\ UNCHANGED <<STAAPList, down>>
    BY <1>3, <1>5 DEF NoHandover
  <2>2. /\ \A u \in STA : u # s => STAAPRSSIList'[u] = STAAPRSSIList[u]
        /\ ~STAAPRSSIList'[s].isSent
        /\ STAAPRSSIList'[s].ap = STAAPRSSIList[s].ap
    BY <2>1 DEF WithSent
  <2>3. \A u \in STA, b \in AP : Pair(u, b)' = Pair(u, b)
    BY <2>1 DEF Pair
  <2>4. AnswerTaken(a, s) /\ NoMove(s)
    BY <1>1, <1>4, <2>1, <2>2, <2>3 DEF AnswerTaken, NoMove
  <2> QED BY <2>4
<1>6. CASE Handover(a)
  <2>1. PICK c \in AP : c = STAAPRSSIList[s].ap
    BY <1>3, <1>6 DEF Handover, Moves, APInfo
  <2> DEFINE sw == Moved(s, a)[s][c].sw
             removed == write(down, a, link[a].sw, "REMOVE_STA", s)
             next == [ap |-> a, rssi |-> -128, isSent |-> FALSE, sw |-> link[a].sw]
             new == [status |-> "ASSOCIATED", rates |-> STAAPList[s][a].rates,
                     sw |-> IF STAAPList[s][c].status = "null"
                            THEN STAAPRSSIList[s].sw ELSE STAAPList[s][c].sw]
  <2>2. /\ STAAPList' = Moved(s, a)
        /\ STAAPRSSIList' = [STAAPRSSIList EXCEPT ![s] = next]
        /\ \/ /\ replies' = [replies EXCEPT ![a] = Tail(@)]
              /\ STAAPList[s][a].rates \/ ~Live(c, sw)
           \/ link' = Closed(c) /\ Live(c, sw)
        /\ STAAPList[s][a].rates => down' = write(removed, c, sw, "UPDATE_STA_ADD", s)
    BY <1>3, <1>6, <2>1 DEF Handover
  <2>3. next.ap = a /\ ~next.isSent
    OBVIOUS
  <2>4. new.status = "ASSOCIATED" /\ new.sw = IF STAAPList[s][c].status = "null"
                            THEN STAAPRSSIList[s].sw ELSE STAAPList[s][c].sw
    OBVIOUS
  <2>5. /\ Moved(s, a)[s][c] = new
        /\ \A u \in STA : u # s => STAAPList'[u] = STAAPList[u]
        /\ \A b \in AP : b # a /\ b # c => STAAPList'[s][b] = STAAPList[s][b]
        /\ a # c => STAAPList'[s][a] = WithStatus(STAAPList[s][a], "NOT_AUTHENTICATED")
    BY <2>1, <2>2 DEF Moved
  <2>6. \A b \in AP : Live(b, 1) /\ link[b].sw = 1
    BY UpMeans DEF AllUp
  <2>7. sw = 1
    <3>1. STAAPList[s][c].status # "null" => STAAPList[s][c].sw = 1
      BY UpMeans DEF lookupSenderSTAAP
    <3>2. STAAPRSSIList[s].sw \in 1 .. 1
      BY <2>1, <2>6, NoneAssumption DEF Numbered
    <3> HIDE DEF new
    <3> QED BY <2>4, <2>5, <3>1, <3>2
  <2> HIDE DEF sw, next, new
  <2>8. link' # Closed(c)
    <3>1. Closed(c)[c].up = FALSE
      BY DEF Closed
    <3> QED BY <2>6, <3>1 DEF Live
  <2>9. /\ replies' = [replies EXCEPT ![a] = Tail(@)]
        /\ down' = write(removed, c, 1, "UPDATE_STA_ADD", s)
    BY <2>2, <2>6, <2>7, <2>8
  <2>10. /\ \A u \in STA : u # s => STAAPRSSIList'[u] = STAAPRSSIList[u]
         /\ STAAPRSSIList'[s].ap = a /\ ~STAAPRSSIList'[s].isSent
    BY <2>2, <2>3
  <2>11. /\ Pair(s, c)' = "ASSOCIATED"
         /\ \A u \in STA : u # s => \A b \in AP : Pair(u, b)' = Pair(u, b)
         /\ \A b \in AP : b # a /\ b # c => Pair(s, b)' = Pair(s, b)
         /\ a # c => Pair(s, a)' = "NOT_AUTHENTICATED"
    BY <2>2, <2>4, <2>5 DEF Pair, WithStatus
  <2>12. AnswerTaken(a, s)
    BY <1>1, <1>4, <2>9, <2>10, <2>11 DEF AnswerTaken
  <2> DEFINE remove == [type |-> "REMOVE_STA", sta |-> s]
             update == [type |-> "UPDATE_STA_ADD", sta |-> s]
  <2>13. removed = [down EXCEPT ![a] = Append(@, remove)]
    BY <2>6 DEF write
  <2> HIDE DEF removed
  <2>14. down' = [removed EXCEPT ![c] = Append(@, update)]
    BY <2>6, <2>9 DEF write
  <2> HIDE DEF remove, update
  <2>15. /\ \A b \in AP : b # a /\ b # c => down'[b] = down[b]
         /\ a # c => down'[a] = Append(down[a], remove) /\ down'[c] = Append(down[c], update)
         /\ a = c => down'[a] = Append(Append(down[a], remove), update)
    BY <2>13, <2>14
  <2>16. Move(a, s, c)
    BY <2>1, <2>10, <2>11, <2>15 DEF Move, remove, update
  <2> QED BY <2>12, <2>16
<1> QED BY <1>5, <1>6 DEF HandleAPRSSI, handleAPRSSI

(***************************************************************************)
(* a carries out its next order, which is about s.                         *)
(***************************************************************************)
OrderTaken(a, s) ==
    /\ down[a] # <<>> /\ Head(down[a]) \in DownMsg /\ Head(down[a]).sta = s
    /\ down' = [down EXCEPT ![a] = Tail(@)]
    /\ UNCHANGED <<STAAPList, STAAPRSSIList, up, rssiThread, timer, frame, phase>>
    /\ \A b \in AP, u \in STA : b # a \/ u # s => Status(b, u)' = Status(b, u)

(***************************************************************************)
(* What the order is decides what becomes of the entry.                    *)
(***************************************************************************)
Done(a, s) ==
    LET type == Head(down[a]).type
        old == Status(a, s)
        new == Status(a, s)'
    IN  \/ /\ type = "ADD_STA" /\ replies' = replies
           /\ new = "SELECTED" \/ (old = "null" /\ new = "null")
        \/ /\ type = "UPDATE_STA_ADD" /\ replies' = replies
           /\ new = IF old = "null" THEN "null" ELSE "ASSOCIATED"
        \/ /\ type = "REMOVE_STA" /\ replies' = replies
           /\ new = IF old = "null" THEN "null" ELSE "NOT_AUTHENTICATED"
        \/ /\ type = "LAST_REC_POW" /\ new = old
           /\ \E m \in Answer(s) : replies' = [replies EXCEPT ![a] = Append(@, m)]

(* handle_vendor is this.                                                  *)
LEMMA VendorCases ==
    ASSUME TypeOK, AllUp, NEW a \in AP, HandleVendor(a)
    PROVE  \E s \in STA : OrderTaken(a, s) /\ Done(a, s)
<1> USE DEF TypeOK, LinkTypeOK, AgentTypeOK
<1> DEFINE m == Head(down[a])
<1>1. /\ down[a] # <<>>
      /\ UNCHANGED <<STAAPList, STAAPRSSIList, up, rssiThread, timer, frame, phase>>
  BY DEF HandleVendor, handle_vendor, ADD_STA, UPDATE_STA_ADD, REMOVE_STA,
         handle_ap_rssi, Received, Change, ctrlVars, envVars
<1>2. m \in DownMsg
  BY <1>1, HeadTail
<1>3. PICK s \in STA : s = m.sta
  BY <1>2 DEF DownMsg
<1> DEFINE info == infoSTA[a][s]
<1>4. ASSUME NEW new, Change(a, new)
      PROVE  OrderTaken(a, s) /\ Status(a, s)' = new.status
  <2>1. /\ infoSTA' = [infoSTA EXCEPT ![a][s] = new]
        /\ down' = [down EXCEPT ![a] = Tail(@)]
    BY <1>3, <1>4 DEF Change
  <2>2. /\ infoSTA'[a][s] = new
        /\ \A b \in AP, u \in STA : b # a \/ u # s => infoSTA'[b][u] = infoSTA[b][u]
    BY <2>1
  <2> QED BY <1>1, <1>2, <1>3, <2>1, <2>2 DEF OrderTaken, Status
<1>5. CASE ADD_STA(a)
  <2> DEFINE new == IF info.status = "null" /\ Full(a) THEN info
                    ELSE changeStatus(addSTA(info), "SELECTED")
  <2>1. /\ m.type = "ADD_STA" /\ replies' = replies
        /\ Change(a, new)
    BY <1>3, <1>5 DEF ADD_STA, Received
  <2>2. new.status = "SELECTED" \/ (info.status = "null" /\ new.status = "null")
    BY DEF changeStatus
  <2> HIDE DEF new
  <2> QED BY <1>4, <2>1, <2>2 DEF Status, Done
<1>6. CASE UPDATE_STA_ADD(a)
  <2> DEFINE new == IF info.status = "null" THEN info ELSE changeStatus(info, "ASSOCIATED")
  <2>1. /\ m.type = "UPDATE_STA_ADD" /\ replies' = replies
        /\ Change(a, new)
    BY <1>3, <1>6 DEF UPDATE_STA_ADD, Received
  <2>2. new.status = IF info.status = "null" THEN "null" ELSE "ASSOCIATED"
    BY DEF changeStatus
  <2> HIDE DEF new
  <2> QED BY <1>4, <2>1, <2>2 DEF Status, Done
<1>7. CASE REMOVE_STA(a)
  <2> DEFINE new == IF info.status = "null" THEN info
                    ELSE changeStatus(info, "NOT_AUTHENTICATED")
  <2>1. /\ m.type = "REMOVE_STA" /\ replies' = replies
        /\ Change(a, new)
    BY <1>3, <1>7 DEF REMOVE_STA, Received
  <2>2. new.status = IF info.status = "null" THEN "null" ELSE "NOT_AUTHENTICATED"
    BY DEF changeStatus
  <2> HIDE DEF new
  <2> QED BY <1>4, <2>1, <2>2 DEF Status, Done
<1>8. CASE handle_ap_rssi(a)
  <2> DEFINE r == [sta |-> s, rssi |-> info.last]
  <2>1. link[a].up
    BY DEF AllUp
  <2>2. /\ m.type = "LAST_REC_POW" /\ Change(a, info)
        /\ replies' = [replies EXCEPT ![a] = Append(@, r)]
    BY <1>3, <1>8, <2>1 DEF handle_ap_rssi, Received
  <2>3. info \in Info
    OBVIOUS
  <2>4. r \in Answer(s)
    BY <2>3 DEF Info, Reply, Answer
  <2>5. OrderTaken(a, s) /\ Status(a, s)' = Status(a, s)
    BY <1>4, <2>2 DEF Status
  <2> QED BY <2>2, <2>4, <2>5 DEF Done
<1> QED BY <1>5, <1>6, <1>7, <1>8 DEF HandleVendor, handle_vendor

(***************************************************************************)
(* Thread t of a, at work on s, takes its next step.                       *)
(***************************************************************************)
ThreadRuns(a, t, s) ==
    /\ rssiThread[a][t].sta = s
    /\ UNCHANGED <<STAAPList, STAAPRSSIList, down, replies, timer, frame, phase>>
    /\ \A b \in AP, u \in STA : b # a \/ u # s => Status(b, u)' = Status(b, u)
    /\ \A b \in AP, x \in Thread :
          b # a \/ x # t => rssiThread'[b][x] = rssiThread[b][x]
    /\ rssiThread'[a][t].sta \in {s, None}

(***************************************************************************)
(* Where the thread stands decides what becomes of the entry.              *)
(***************************************************************************)
Advanced(a, t, s) ==
    LET old == Status(a, s)
        new == Status(a, s)'
        pc == rssiThread[a][t].pc
        next == rssiThread'[a][t].pc
    IN  \/ /\ pc = "lookup" /\ new = old /\ up' = up
           /\ next = IF old = "ASSOCIATED" THEN "set"
                     ELSE IF old = "null" THEN "add" ELSE "compare"
        \/ /\ pc = "set" /\ new = old /\ up' = up /\ next = "idle"
        \/ /\ pc = "add" /\ up' = up
           /\ \/ old = "null" /\ new = old /\ next = "idle"
              \/ /\ new = IF old = "null" THEN "SELECTED" ELSE old
                 /\ next = "mark"
        \/ /\ pc = "mark" /\ up' = up
           /\ new = "NOT_AUTHENTICATED" /\ next = "compare"
        \/ /\ pc = "compare" /\ new = old /\ up' = up
           /\ next \in {"report", "idle"}
        \/ /\ pc = "report" /\ new = old /\ next = "idle"
           /\ \E m \in Mail(s, {"REC_POW"}) :
                 up' = [up EXCEPT ![a] = Append(@, m)]

(* process_sta_data is this.                                               *)
LEMMA ThreadCases ==
    ASSUME TypeOK, NEW a \in AP, NEW t \in Thread, ProcessStaData(a, t)
    PROVE  \E s \in STA : ThreadRuns(a, t, s) /\ Advanced(a, t, s)
<1> USE DEF TypeOK, LinkTypeOK, AgentTypeOK
<1> DEFINE thread == rssiThread[a][t]
<1>1. /\ thread.pc # "idle"
      /\ UNCHANGED <<STAAPList, STAAPRSSIList, down, replies, timer, frame, phase>>
  BY DEF ProcessStaData, process_sta_data, Lookup, Set, Add, Mark, Compare, Report,
         Proceed, ctrlVars, envVars
<1>2. thread \in [pc : PC, sta : STA, rssi : 0 .. 255]
  BY <1>1 DEF RSSIThread, IdleThread
<1>3. PICK s \in STA : s = thread.sta
  BY <1>2
<1> DEFINE info == infoSTA[a][s]
<1>4. ASSUME NEW pc, NEW new, Proceed(a, t, pc, new)
      PROVE  /\ ThreadRuns(a, t, s) /\ Status(a, s)' = new.status
             /\ rssiThread'[a][t].pc = pc
  <2> DEFINE nt == IF pc = "idle" THEN IdleThread
                   ELSE [pc |-> pc, sta |-> thread.sta, rssi |-> thread.rssi]
  <2>1. /\ infoSTA' = [infoSTA EXCEPT ![a][s] = new]
        /\ rssiThread' = [rssiThread EXCEPT ![a][t] = nt]
    BY <1>3, <1>4 DEF Proceed
  <2>2. /\ infoSTA'[a][s] = new
        /\ \A b \in AP, u \in STA : b # a \/ u # s => infoSTA'[b][u] = infoSTA[b][u]
    BY <2>1
  <2>3. nt.pc = pc /\ nt.sta \in {s, None}
    BY <1>3 DEF IdleThread
  <2> HIDE DEF nt
  <2>4. /\ rssiThread'[a][t] = nt
        /\ \A b \in AP, x \in Thread :
              b # a \/ x # t => rssiThread'[b][x] = rssiThread[b][x]
    BY <2>1
  <2> QED BY <1>1, <1>3, <2>2, <2>3, <2>4 DEF ThreadRuns, Status
<1>5. CASE Lookup(a, t)
  <2> DEFINE pc == IF info.status = "ASSOCIATED" THEN "set"
                   ELSE IF info.status = "null" THEN "add" ELSE "compare"
  <2>1. thread.pc = "lookup" /\ up' = up /\ Proceed(a, t, pc, info)
    BY <1>3, <1>5 DEF Lookup
  <2>2. ThreadRuns(a, t, s) /\ Status(a, s)' = Status(a, s) /\ rssiThread'[a][t].pc = pc
    BY <1>4, <2>1 DEF Status
  <2> QED BY <2>1, <2>2 DEF Status, Advanced
<1>6. CASE Set(a, t)
  <2>1. /\ thread.pc = "set" /\ up' = up
        /\ Proceed(a, t, "idle", changeRSSI(info, thread.rssi))
    BY <1>3, <1>6 DEF Set
  <2>2. changeRSSI(info, thread.rssi).status = info.status
    BY DEF changeRSSI
  <2>3. /\ ThreadRuns(a, t, s) /\ Status(a, s)' = Status(a, s)
        /\ rssiThread'[a][t].pc = "idle"
    BY <1>4, <2>1, <2>2 DEF Status
  <2> QED BY <2>1, <2>3 DEF Advanced
<1>7. CASE Add(a, t)
  <2>1. /\ thread.pc = "add" /\ up' = up
        /\ \/ info.status = "null" /\ Proceed(a, t, "idle", info)
           \/ Proceed(a, t, "mark", addSTA(info))
    BY <1>3, <1>7 DEF Add
  <2>2. addSTA(info).status = IF info.status = "null" THEN "SELECTED" ELSE info.status
    BY DEF addSTA
  <2>3. CASE info.status = "null" /\ Proceed(a, t, "idle", info)
    <3>1. /\ ThreadRuns(a, t, s) /\ Status(a, s)' = Status(a, s) /\ Status(a, s) = "null"
          /\ rssiThread'[a][t].pc = "idle"
      BY <1>4, <2>3 DEF Status
    <3> QED BY <2>1, <3>1 DEF Advanced
  <2>4. CASE Proceed(a, t, "mark", addSTA(info))
    <3>1. /\ ThreadRuns(a, t, s)
          /\ Status(a, s)' = IF Status(a, s) = "null" THEN "SELECTED" ELSE Status(a, s)
          /\ rssiThread'[a][t].pc = "mark"
      BY <1>4, <2>2, <2>4 DEF Status
    <3> QED BY <2>1, <3>1 DEF Advanced
  <2> QED BY <2>1, <2>3, <2>4 DEF Advanced
<1>8. CASE Mark(a, t)
  <2>1. /\ thread.pc = "mark" /\ up' = up
        /\ Proceed(a, t, "compare", changeStatus(info, "NOT_AUTHENTICATED"))
    BY <1>3, <1>8 DEF Mark
  <2>2. changeStatus(info, "NOT_AUTHENTICATED").status = "NOT_AUTHENTICATED"
    BY DEF changeStatus
  <2>3. /\ ThreadRuns(a, t, s) /\ Status(a, s)' = "NOT_AUTHENTICATED"
        /\ rssiThread'[a][t].pc = "compare"
    BY <1>4, <2>1, <2>2 DEF Status
  <2> QED BY <2>1, <2>3 DEF Advanced
<1>9. CASE Compare(a, t)
  <2> DEFINE pc == IF info.last < thread.rssi THEN "report" ELSE "idle"
  <2>1. thread.pc = "compare" /\ up' = up /\ Proceed(a, t, pc, info)
    BY <1>3, <1>9 DEF Compare
  <2>2. ThreadRuns(a, t, s) /\ Status(a, s)' = Status(a, s) /\ rssiThread'[a][t].pc = pc
    BY <1>4, <2>1 DEF Status
  <2> QED BY <2>1, <2>2 DEF Advanced
<1>10. CASE Report(a, t)
  <2> DEFINE m == [type |-> "REC_POW", sta |-> s, rssi |-> thread.rssi]
  <2>1. /\ thread.pc = "report" /\ up' = [up EXCEPT ![a] = Append(@, m)]
        /\ Proceed(a, t, "idle", changeRSSI(info, thread.rssi))
    BY <1>3, <1>10 DEF Report
  <2>2. m \in Mail(s, {"REC_POW"})
    BY <1>2 DEF Mail, UpMsg, UpType
  <2>3. changeRSSI(info, thread.rssi).status = info.status
    BY DEF changeRSSI
  <2>4. /\ ThreadRuns(a, t, s) /\ Status(a, s)' = Status(a, s)
        /\ rssiThread'[a][t].pc = "idle"
    BY <1>4, <2>1, <2>3 DEF Status
  <2> QED BY <2>1, <2>2, <2>4 DEF Advanced
<1> QED BY <1>5, <1>6, <1>7, <1>8, <1>9, <1>10 DEF ProcessStaData, process_sta_data

(***************************************************************************)
(* A frame of s: nothing changes at the controller, nor for another        *)
(* station.                                                                *)
(***************************************************************************)
FrameHeard(s) ==
    /\ UNCHANGED <<STAAPList, STAAPRSSIList, down, replies, timer>>
    /\ \A u \in STA : u # s => /\ phase'[u] = phase[u]
                               /\ \A a \in AP : FrameSame(a, u)

ProbeHeard(a, s) ==
    /\ UNCHANGED <<infoSTA, rssiThread, frame, phase>>
    /\ \E m \in Mail(s, {"PROBE"}) : up' = [up EXCEPT ![a] = Append(@, m)]

DataHeard(a, t, s) ==
    /\ phase[s] = "associated"
    /\ UNCHANGED <<infoSTA, up, frame, phase>>
    /\ rssiThread'[a][t].pc = "lookup" /\ rssiThread'[a][t].sta = s
    /\ \A b \in AP, x \in Thread :
          b # a \/ x # t => rssiThread'[b][x] = rssiThread[b][x]

(***************************************************************************)
(* The checks of handle_auth and handle_assoc.                             *)
(***************************************************************************)
FrameChecked(s, from, at, T) ==
    /\ UNCHANGED <<infoSTA, rssiThread, up, phase>>
    /\ phase[s] = at
    /\ \A a \in AP :
          \/ frame'[a] = frame[a]
          \/ /\ frame[a] = NoFrame /\ Status(a, s) = from
             /\ frame'[a].sta = s /\ frame'[a].type \in T

(***************************************************************************)
(* Their commits.  Only a is concerned, and s takes the answer.            *)
(***************************************************************************)
FrameCommitted(a, s, to, T) ==
    /\ Working(a, s, T)
    /\ frame' = [frame EXCEPT ![a] = NoFrame]
    /\ rssiThread' = rssiThread
    /\ \A b \in AP, u \in STA :
          Status(b, u)' = IF u = s /\ b = a THEN to ELSE Status(b, u)
    /\ \E m \in Mail(s, T) : \A b \in AP :
          up'[b] = IF b = a THEN Append(up[b], m) ELSE up[b]

AuthChecked(s) == FrameChecked(s, "SELECTED", "idle", {"AUTH_REQ"})

AssocChecked(s) == FrameChecked(s, "AUTHENTICATED", "authenticated", Joins)

AuthCommitted(a, s) ==
    /\ phase[s] = "idle" /\ phase'[s] = "authenticated"
    /\ FrameCommitted(a, s, "AUTHENTICATED", {"AUTH_REQ"})

AssocCommitted(a, s) ==
    /\ phase[s] = "authenticated" /\ phase'[s] = "associated"
    /\ FrameCommitted(a, s, "ASSOCIATED", Joins)

(* handle_auth and handle_assoc have the effect of FrameChecked.           *)
LEMMA CheckCases ==
    ASSUME TypeOK, NEW H \in SUBSET AP, NEW s \in STA, NEW type, type # "none",
           Check(H, s, type), ctrlVars' = ctrlVars, phase' = phase, NEW T, type \in T
    PROVE  FrameHeard(s) /\ FrameChecked(s, Demanded(type), phase[s], T)
<1> DEFINE new == [type |-> type, sta |-> s]
<1>1. UNCHANGED <<STAAPList, STAAPRSSIList, down, replies, timer, infoSTA, rssiThread,
                  up, phase>>
  BY DEF Check, linkVars, ctrlVars
<1>2. new.sta = s /\ new.type = type
  OBVIOUS
<1>3. frame' = [a \in AP |-> IF a \in Accepting(H, s, type) THEN new ELSE frame[a]]
  BY DEF Check
<1> HIDE DEF new
<1>4. ASSUME NEW a \in AP
      PROVE  \/ frame'[a] = frame[a]
             \/ /\ frame[a] = NoFrame /\ Status(a, s) = Demanded(type)
                /\ frame'[a] = new
  BY <1>3 DEF Accepting
<1>5. \A a \in AP, u \in STA : u # s => FrameSame(a, u)
  <2>1. NoFrame.sta = None /\ None \notin STA
    BY NoneAssumption DEF NoFrame
  <2> QED BY <1>2, <1>4, <2>1 DEF FrameSame
<1>6. FrameHeard(s)
  BY <1>1, <1>5 DEF FrameHeard
<1>7. FrameChecked(s, Demanded(type), phase[s], T)
  BY <1>1, <1>2, <1>4 DEF FrameChecked
<1> QED BY <1>6, <1>7

(* What a station that only moves does.                                    *)
LEMMA StationCases ==
    ASSUME TypeOK, OnlyMoves, NEW s \in STA, Station(s)
    PROVE  /\ FrameHeard(s)
           /\ \/ \E a \in AP : ProbeHeard(a, s)
              \/ AuthChecked(s) \/ AssocChecked(s)
              \/ \E a \in AP, t \in Thread : DataHeard(a, t, s)
<1> USE DEF TypeOK, LinkTypeOK, AgentTypeOK
<1>1. ASSUME NEW a \in AP, Probe(a, s) PROVE FrameHeard(s) /\ ProbeHeard(a, s)
  <2> DEFINE m == up_msg("PROBE", s)
  <2>1. m \in Mail(s, {"PROBE"})
    BY up_msgType DEF Mail, up_msg, UpType
  <2> HIDE DEF m
  <2>2. up' = [up EXCEPT ![a] = Append(@, m)]
    BY <1>1 DEF Probe, handle_probe_request, m
  <2> QED BY <1>1, <2>1, <2>2 DEF Probe, handle_probe_request, FrameHeard, ProbeHeard,
             FrameSame, ctrlVars, agentVars
<1>2. ASSUME NEW H \in SUBSET AP, Auth(H, s) PROVE FrameHeard(s) /\ AuthChecked(s)
  <2>1. phase[s] = "idle"
    BY <1>2 DEF OnlyMoves
  <2>2. Check(H, s, "AUTH_REQ") /\ ctrlVars' = ctrlVars /\ phase' = phase
    BY <1>2 DEF Auth, handle_auth
  <2>3. Demanded("AUTH_REQ") = "SELECTED"
    BY DEF Demanded
  <2> DEFINE T == {"AUTH_REQ"}
  <2>4. "AUTH_REQ" \in T /\ "AUTH_REQ" # "none"
    OBVIOUS
  <2> HIDE DEF T
  <2>5. FrameHeard(s) /\ FrameChecked(s, Demanded("AUTH_REQ"), phase[s], T)
    BY <2>2, <2>4, CheckCases
  <2> QED BY <2>1, <2>3, <2>5 DEF AuthChecked, T
<1>3. ASSUME NEW H \in SUBSET AP, NEW reassoc \in BOOLEAN, Assoc(H, s, reassoc)
      PROVE  FrameHeard(s) /\ AssocChecked(s)
  <2> DEFINE type == IF reassoc THEN "REASSOC_REQ" ELSE "ASSOC_REQ"
  <2>1. Check(H, s, type) /\ ctrlVars' = ctrlVars /\ phase' = phase
    BY <1>3 DEF Assoc, handle_assoc
  <2>2. type \in Joins /\ type # "none" /\ Demanded(type) = "AUTHENTICATED"
    BY DEF Joins, Demanded
  <2>3. phase[s] = "authenticated"
    BY <1>3 DEF Assoc
  <2> HIDE DEF type
  <2>4. FrameHeard(s) /\ FrameChecked(s, Demanded(type), phase[s], Joins)
    BY <2>1, <2>2, CheckCases
  <2> QED BY <2>2, <2>3, <2>4 DEF AssocChecked
<1>4. ASSUME NEW a \in AP, NEW t \in Thread, NEW rssi \in RSSI, Data(a, t, s, rssi)
      PROVE  FrameHeard(s) /\ DataHeard(a, t, s)
  <2> DEFINE new == [pc |-> "lookup", sta |-> s, rssi |-> rssi]
  <2>1. rssiThread' = [rssiThread EXCEPT ![a][t] = new]
    BY <1>4 DEF Data, data_frames_rssi
  <2>2. new.pc = "lookup" /\ new.sta = s
    OBVIOUS
  <2> HIDE DEF new
  <2>3. /\ rssiThread'[a][t] = new
        /\ \A b \in AP, x \in Thread :
              b # a \/ x # t => rssiThread'[b][x] = rssiThread[b][x]
    BY <2>1
  <2> QED BY <1>4, <2>2, <2>3 DEF Data, data_frames_rssi, FrameHeard, DataHeard,
             FrameSame, ctrlVars, linkVars
<1> QED BY ZenonT(30), <1>1, <1>2, <1>3, <1>4 DEF Station, OnlyMoves

(***************************************************************************)
(* What becomes of a checked frame of a station that only moves.           *)
(***************************************************************************)
LEMMA CommitCases ==
    ASSUME TypeOK, NEW a \in AP, CommitFrame(a), \A s \in STA : Framed(s)
    PROVE  \E s \in STA : /\ FrameHeard(s)
                          /\ AuthCommitted(a, s) \/ AssocCommitted(a, s)
<1> USE DEF TypeOK, LinkTypeOK, AgentTypeOK
<1> DEFINE type == frame[a].type
<1>1. frame[a] \in [type : FrameType, sta : STA]
  BY DEF CommitFrame, Commit, Frame, NoFrame
<1>2. PICK s \in STA : s = frame[a].sta
  BY <1>1
<1> DEFINE m == up_msg(type, s)
           to == Committed(type)
           info == changeStatus(infoSTA[a][s], to)
<1>3. type \in {"AUTH_REQ"} \cup Joins
  BY <1>2 DEF Framed
<1>4. /\ infoSTA' = [infoSTA EXCEPT ![a][s] = info]
      /\ up' = [up EXCEPT ![a] = Append(@, m)]
      /\ frame' = [frame EXCEPT ![a] = NoFrame]
      /\ UNCHANGED <<rssiThread, down, replies, STAAPList, STAAPRSSIList>>
  BY <1>2 DEF CommitFrame, Commit, ctrlVars
<1>5. timer' = timer
  BY <1>3 DEF CommitFrame, Commit, Joins
<1>6. phase' = [phase EXCEPT ![s] =
                  IF type = "AUTH_REQ" /\ @ = "idle" THEN "authenticated"
                  ELSE IF type \in Joins /\ @ = "authenticated" THEN "associated"
                  ELSE @]
  BY <1>2 DEF CommitFrame, AnswerHeard
<1>7. \A T : type \in T => m \in Mail(s, T)
  <2>1. type \in UpType
    BY <1>3 DEF Joins, UpType
  <2>2. m \in UpMsg
    BY <2>1, up_msgType
  <2> QED BY <2>2 DEF Mail, up_msg
<1>8. info.status = to
  BY DEF changeStatus
<1> HIDE DEF m, info
<1>9. /\ infoSTA'[a][s] = info
      /\ \A b \in AP, u \in STA : b # a \/ u # s => infoSTA'[b][u] = infoSTA[b][u]
  BY <1>4
<1>10. \A b \in AP, u \in STA :
          Status(b, u)' = IF u = s /\ b = a THEN to ELSE Status(b, u)
  BY <1>8, <1>9 DEF Status
<1>11. \A b \in AP : up'[b] = IF b = a THEN Append(up[b], m) ELSE up[b]
  BY <1>4
<1>12. FrameHeard(s)
  <2>1. /\ frame'[a].sta = None /\ None \notin STA
        /\ \A b \in AP : b # a => frame'[b] = frame[b]
    BY <1>4, NoneAssumption DEF NoFrame
  <2>2. \A b \in AP, u \in STA : u # s => FrameSame(b, u)
    BY <1>2, <2>1 DEF FrameSame
  <2> QED BY <1>4, <1>5, <1>6, <2>2 DEF FrameHeard
<1>13. \A T : type \in T => FrameCommitted(a, s, to, T)
  BY <1>2, <1>4, <1>7, <1>10, <1>11 DEF FrameCommitted, Working
<1>14. CASE type = "AUTH_REQ"
  <2>1. to = "AUTHENTICATED" /\ type \in {"AUTH_REQ"}
    BY <1>14 DEF Committed, Joins
  <2>2. phase[s] = "idle"
    BY <1>2, <1>14 DEF Framed, Working
  <2>3. phase'[s] = "authenticated"
    BY <1>6, <1>14, <2>2
  <2>4. FrameCommitted(a, s, "AUTHENTICATED", {"AUTH_REQ"})
    BY <1>13, <2>1
  <2> QED BY <1>12, <2>2, <2>3, <2>4 DEF AuthCommitted
<1>15. CASE type \in Joins
  <2>1. to = "ASSOCIATED" /\ type # "AUTH_REQ"
    BY <1>15 DEF Committed, Joins
  <2>2. phase[s] = "authenticated"
    BY <1>2, <1>15 DEF Framed, Working
  <2>3. phase'[s] = "associated"
    BY <1>6, <1>15, <2>1, <2>2
  <2>4. FrameCommitted(a, s, "ASSOCIATED", Joins)
    BY <1>13, <1>15, <2>1
  <2> QED BY <1>12, <2>2, <2>3, <2>4 DEF AssocCommitted
<1> QED BY <1>3, <1>14, <1>15

(***************************************************************************)
(* No other step is possible while stations stay and connections last.     *)
(***************************************************************************)
LEMMA RoamSteps ==
    ASSUME TypeOK, Numbered, AllUp', [Next]_vars, [OnlyMoves]_vars,
           \A s \in STA, a \in AP : timer[a][s] = 0, \A s \in STA : Framed(s)
    PROVE  \/ \E a \in AP : \/ Receive(a) \/ HandleAPRSSI(a) \/ HandleVendor(a)
                             \/ CommitFrame(a)
           \/ \E a \in AP, t \in Thread : ProcessStaData(a, t)
           \/ \E s \in STA : Station(s) /\ OnlyMoves
           \/ UNCHANGED vars
<1>1. AllUp /\ link' = link
  BY StillUp
<1>2. removal = {} /\ \A a \in AP : link[a].up
  BY <1>1, UpMeans DEF AllUp
<1>3. ~RemovedSwitch
  BY <1>2 DEF RemovedSwitch, removedSwitch
<1>4. \A a \in AP : ~SendFails(a) /\ ~ConnOpen(a)
  BY <1>2 DEF SendFails, ConnOpen, controller_send_fails, controller_conn_open
<1>5. \A a \in AP, s \in STA : ~Timer(a, s)
  BY DEF Timer, notify_controller_disassoc
<1>6. ~Failure
  <2>1. ASSUME NEW a \in AP, link' = Closed(a) PROVE FALSE
    <3>1. link'[a] = [up |-> FALSE, sw |-> link[a].sw]
      BY <2>1 DEF Closed, TypeOK, LinkTypeOK
    <3>2. link'[a].up = FALSE
      BY <3>1
    <3> QED BY <1>1, <1>2, <3>2
  <2> QED BY <2>1 DEF Failure, Cut, Restart
<1>7. ASSUME NEW a \in AP PROVE ~RecheckFrame(a)
  <2>1. frame[a] \in Frame
    BY DEF TypeOK, AgentTypeOK
  <2>2. frame[a].sta \in STA => frame[a].type # "DISASSOC"
    BY DEF Framed, Joins
  <2> QED BY <2>1, <2>2 DEF Frame, NoFrame, RecheckFrame, Recheck
<1>8. CASE Next /\ OnlyMoves
  BY <1>3, <1>4, <1>5, <1>6, <1>7, <1>8 DEF Next
<1>9. CASE UNCHANGED vars
  BY <1>9
<1> QED BY <1>8, <1>9

-----------------------------------------------------------------------------

(***************************************************************************)
(* The first invariant: one AP has a claim on a station.                   *)
(***************************************************************************)
LEMMA RoamsSame ==
    ASSUME NEW s \in STA, Roams(s), Same(s)
    PROVE  Roams(s)'
<1>1. /\ phase'[s] = phase[s] /\ STAAPRSSIList'[s] = STAAPRSSIList[s]
      /\ \A a \in AP : /\ Pair(s, a)' = Pair(s, a) /\ Status(a, s)' = Status(a, s)
                       /\ timer'[a][s] = timer[a][s]
                       /\ ThreadsSame(a, s)
  BY DEF Same, SameAt
<1>2. \A a \in AP : \A T : /\ Some(up'[a], Mail(s, T)) <=> Some(up[a], Mail(s, T))
                           /\ Single(up[a], Mail(s, T)) => Single(up'[a], Mail(s, T))
                           /\ Some(down'[a], Order(s, T)) <=> Some(down[a], Order(s, T))
                           /\ Single(down[a], Order(s, T)) => Single(down'[a], Order(s, T))
  BY DEF Same, SameAt, UpSame, DownSame
<1>3. \A a \in AP : /\ Keeps(a, s)' <=> Keeps(a, s)
                    /\ Some(replies'[a], Answer(s)) <=> Some(replies[a], Answer(s))
                    /\ Single(replies[a], Answer(s)) => Single(replies'[a], Answer(s))
  BY DEF Same, SameAt, DownSame, RepliesSame
<1>4. Staying(s)'
  BY <1>1, <1>2 DEF Roams, Staying, Sent
<1>5. OneClaims(s)'
  BY <1>1, <1>2, <1>3 DEF Roams, OneClaims, Claims, AskedAt, Sent, Bound
<1>6. OneQuestion(s)'
  BY <1>1, <1>2, <1>3 DEF Roams, OneQuestion, AskedAt, Bound
<1>7. Joining(s)'
  BY <1>1, <1>2 DEF Roams, Joining, Sent, Bound, ThreadsSame
<1>8. Entering(s)'
  BY <1>1 DEF Roams, Entering
<1> QED BY <1>4, <1>5, <1>6, <1>7, <1>8 DEF Roams

(***************************************************************************)
(* What is left alone when the controller takes a message.                 *)
(***************************************************************************)
LEMMA TakenSame ==
    ASSUME TypeOK, NEW a \in AP, NEW s \in STA, NEW i, Takes(a, i, s)
    PROVE  /\ phase'[s] = phase[s]
           /\ \A b \in AP : /\ RepliesSame(b, s) /\ ThreadsSame(b, s)
                            /\ Status(b, s)' = Status(b, s)
                            /\ timer'[b][s] = timer[b][s]
           /\ \A b \in AP : b # a => UpSame(b, s) /\ Pair(s, b)' = Pair(s, b)
           /\ \A T : /\ Some(up[a], Mail(s, T)) <=>
                           Some(up'[a], Mail(s, T)) \/ up[a][i].type \in T
                     /\ Single(up[a], Mail(s, T)) =>
                           /\ Single(up'[a], Mail(s, T))
                           /\ up[a][i].type \in T => ~Some(up'[a], Mail(s, T))
<1>1. /\ i \in 1 .. Len(up[a]) /\ up'[a] = Without(up[a], i)
      /\ \A b \in AP : b # a => up'[b] = up[b] /\ Pair(s, b)' = Pair(s, b)
      /\ UNCHANGED <<replies, infoSTA, rssiThread, timer, phase>>
  BY DEF Takes, TypeOK, LinkTypeOK
<1>2. \A T : up[a][i] \in Mail(s, T) <=> up[a][i].type \in T
  BY DEF Takes, Mail
<1>3. \A b \in AP : b # a => UpSame(b, s)
  BY <1>1 DEF UpSame
<1>4. \A b \in AP : RepliesSame(b, s) /\ ThreadsSame(b, s)
  BY <1>1 DEF RepliesSame, ThreadsSame
<1>5. \A b \in AP : Status(b, s)' = Status(b, s)
  BY <1>1 DEF Status
<1>6. \A T : /\ Some(up[a], Mail(s, T)) <=>
                   Some(up'[a], Mail(s, T)) \/ up[a][i] \in Mail(s, T)
             /\ Single(up[a], Mail(s, T)) =>
                   /\ Single(up'[a], Mail(s, T))
                   /\ up[a][i] \in Mail(s, T) => ~Some(up'[a], Mail(s, T))
  BY <1>1, UpWithout
<1> QED BY <1>1, <1>2, <1>3, <1>4, <1>5, <1>6

(* No order is sent and no entry changes.                                  *)
LEMMA NotWritten ==
    ASSUME down' = down, NEW s, \A b \in AP : Status(b, s)' = Status(b, s)
    PROVE  \A b \in AP : DownSame(b, s)
<1> TAKE b \in AP
<1>1. (Keeps(b, s)' <=> Keeps(b, s)) /\ (Stays(b, s)' <=> Stays(b, s))
  BY DEF Keeps, Stays
<1> QED BY <1>1 DEF DownSame

(* One order is sent, to a.                                                *)
LEMMA Written ==
    ASSUME TypeOK, NEW a \in AP, NEW type \in DownType, NEW s \in STA,
           Writes(a, type, s), \A b \in AP : Status(b, s)' = Status(b, s)
    PROVE  /\ \A b \in AP : b # a => DownSame(b, s)
           /\ \A T : /\ Some(down'[a], Order(s, T)) <=>
                           Some(down[a], Order(s, T)) \/ type \in T
                     /\ Single(down[a], Order(s, T))
                        /\ (type \in T => ~Some(down[a], Order(s, T)))
                           => Single(down'[a], Order(s, T))
           /\ Keeps(a, s)' <=> \/ type = "UPDATE_STA_ADD"
                               \/ type # "REMOVE_STA" /\ Keeps(a, s)
           /\ Stays(a, s)' <=> \/ type = "UPDATE_STA_ADD"
                               \/ type \notin {"REMOVE_STA", "ADD_STA"} /\ Stays(a, s)
<1> DEFINE m == [type |-> type, sta |-> s]
<1>1. /\ m \in DownMsg
      /\ \A T : m \in Order(s, T) <=> type \in T
  BY DEF DownMsg, Order
<1>2. \A T : type \in {T} <=> type = T
  OBVIOUS
<1> HIDE DEF m
<1>3. down' = [down EXCEPT ![a] = Append(@, m)]
  BY DEF Writes, m
<1>4. /\ down'[a] = Append(down[a], m)
      /\ \A b \in AP : b # a => down'[b] = down[b]
  BY <1>3 DEF TypeOK, LinkTypeOK
<1>5. \A b \in AP : b # a => DownSame(b, s)
  <2> TAKE b \in AP
  <2> HAVE b # a
  <2>1. (Keeps(b, s)' <=> Keeps(b, s)) /\ (Stays(b, s)' <=> Stays(b, s))
    BY <1>4 DEF Keeps, Stays
  <2> QED BY <1>4, <2>1 DEF DownSame
<1>6. /\ \A T : /\ Some(down'[a], Order(s, T)) <=>
                      Some(down[a], Order(s, T)) \/ m \in Order(s, T)
                /\ Single(down[a], Order(s, T))
                   /\ (m \in Order(s, T) => ~Some(down[a], Order(s, T)))
                      => Single(down'[a], Order(s, T))
      /\ Keeps(a, s)' <=>
            \/ m \in Order(s, {"UPDATE_STA_ADD"})
            \/ m \notin Order(s, {"REMOVE_STA"}) /\ Keeps(a, s)
      /\ Stays(a, s)' <=>
            \/ m \in Order(s, {"UPDATE_STA_ADD"})
            \/ m \notin Order(s, {"REMOVE_STA", "ADD_STA"}) /\ Stays(a, s)
  BY <1>1, <1>4, DownAppend
<1> QED BY <1>1, <1>2, <1>5, <1>6

(***************************************************************************)
(* The message is about nothing that Roams speaks of, but for the kinds T  *)
(* it is of.                                                               *)
(***************************************************************************)
LEMMA TakenUp ==
    ASSUME TypeOK, NEW a \in AP, NEW s \in STA, NEW i, Takes(a, i, s)
    PROVE  \A b \in AP : \A T :
              /\ Some(up'[b], Mail(s, T)) => Some(up[b], Mail(s, T))
              /\ Some(up[b], Mail(s, T)) =>
                    Some(up'[b], Mail(s, T)) \/ (b = a /\ up[a][i].type \in T)
              /\ Single(up[b], Mail(s, T)) => Single(up'[b], Mail(s, T))
              /\ b = a /\ up[a][i].type \in T =>
                    /\ Some(up[b], Mail(s, T))
                    /\ Single(up[b], Mail(s, T)) => ~Some(up'[b], Mail(s, T))
<1>1. \A b \in AP : b # a => UpSame(b, s)
  BY TakenSame
<1>2. \A T : /\ Some(up[a], Mail(s, T)) <=>
                   Some(up'[a], Mail(s, T)) \/ up[a][i].type \in T
             /\ Single(up[a], Mail(s, T)) =>
                   /\ Single(up'[a], Mail(s, T))
                   /\ up[a][i].type \in T => ~Some(up'[a], Mail(s, T))
  BY TakenSame
<1> QED BY <1>1, <1>2 DEF UpSame

(***************************************************************************)
(* handleProbeReq.  Only the entry of a and the orders to a change.        *)
(***************************************************************************)
LEMMA ProbeRoams ==
    ASSUME TypeOK, NEW a \in AP, NEW s \in STA, NEW i, Takes(a, i, s),
           ProbeTaken(a, s), Roams(s)
    PROVE  Roams(s)'
<1>1. /\ phase'[s] = phase[s]
      /\ \A b \in AP : /\ RepliesSame(b, s) /\ ThreadsSame(b, s)
                       /\ Status(b, s)' = Status(b, s)
                       /\ timer'[b][s] = timer[b][s]
      /\ \A b \in AP : b # a => Pair(s, b)' = Pair(s, b)
  BY TakenSame
<1>2. \A b \in AP : \A T : /\ Some(up'[b], Mail(s, T)) => Some(up[b], Mail(s, T))
                           /\ Single(up[b], Mail(s, T)) => Single(up'[b], Mail(s, T))
  BY TakenUp
<1>3. STAAPRSSIList' = STAAPRSSIList
  BY DEF ProbeTaken
<1>4. /\ \A b \in AP : \A T :
            /\ Some(down'[b], Order(s, T)) =>
                  \/ Some(down[b], Order(s, T))
                  \/ b = a /\ "ADD_STA" \in T /\ Pair(s, a)' = "SELECTED"
            /\ Single(down[b], Order(s, T)) /\ "ADD_STA" \notin T =>
                  Single(down'[b], Order(s, T))
      /\ \A b \in AP : Keeps(b, s)' => Keeps(b, s)
      /\ Pair(s, a)' \in {Pair(s, a), "SELECTED"}
  <2>1. CASE Pair(s, a)' = Pair(s, a) /\ down' = down
    <3>1. \A b \in AP : DownSame(b, s)
      BY <1>1, <2>1, NotWritten
    <3> QED BY <2>1, <3>1 DEF DownSame
  <2>2. CASE Pair(s, a)' = "SELECTED" /\ Writes(a, "ADD_STA", s)
    <3>1. /\ \A b \in AP : b # a => DownSame(b, s)
          /\ \A T : /\ Some(down'[a], Order(s, T)) <=>
                          Some(down[a], Order(s, T)) \/ "ADD_STA" \in T
                    /\ Single(down[a], Order(s, T))
                       /\ ("ADD_STA" \in T => ~Some(down[a], Order(s, T)))
                          => Single(down'[a], Order(s, T))
          /\ Keeps(a, s)' => Keeps(a, s)
      BY <1>1, <2>2, Written DEF DownType
    <3> QED BY <2>2, <3>1 DEF DownSame
  <2> QED BY <2>1, <2>2 DEF ProbeTaken
<1>5. Staying(s)'
  BY <1>1, <1>2 DEF Roams, Staying, Sent
<1>6. \A b \in AP : /\ Some(down'[b], Order(s, {"LAST_REC_POW"})) =>
                          Some(down[b], Order(s, {"LAST_REC_POW"}))
                    /\ Single(down[b], Order(s, {"LAST_REC_POW"})) =>
                          Single(down'[b], Order(s, {"LAST_REC_POW"}))
                    /\ Some(down'[b], Order(s, {"UPDATE_STA_ADD"})) =>
                          Some(down[b], Order(s, {"UPDATE_STA_ADD"}))
                    /\ Some(down'[b], Order(s, {"ADD_STA"})) =>
                          \/ Some(down[b], Order(s, {"ADD_STA"}))
                          \/ b = a /\ Pair(s, a)' = "SELECTED"
  BY <1>4
<1>7. \A b \in AP : Pair(s, b)' = "ASSOCIATED" => Pair(s, b) = "ASSOCIATED"
  BY <1>1, <1>4
<1>8. OneClaims(s)'
  BY <1>1, <1>2, <1>4, <1>6, <1>7
     DEF Roams, OneClaims, Claims, AskedAt, Sent, Bound, RepliesSame
<1>9. OneQuestion(s)'
  BY <1>1, <1>3, <1>6 DEF Roams, OneQuestion, AskedAt, Bound, RepliesSame
<1>10. Joining(s)'
  BY <1>1, <1>2, <1>3, <1>4, <1>6, <1>7 DEF Roams, Joining, Sent, Bound, ThreadsSame
<1>11. Entering(s)'
  BY <1>1, <1>4 DEF Roams, Entering
<1> QED BY <1>5, <1>8, <1>9, <1>10, <1>11 DEF Roams

(***************************************************************************)
(* handleAuthReq.  The station has authenticated, so it is not idle.       *)
(***************************************************************************)
LEMMA AuthRoams ==
    ASSUME TypeOK, NEW a \in AP, NEW s \in STA, NEW i, Takes(a, i, s),
           up[a][i].type = "AUTH_REQ", StatusTaken(a, s, "AUTHENTICATED"), Roams(s)
    PROVE  Roams(s)'
<1>1. /\ phase'[s] = phase[s]
      /\ \A b \in AP : /\ RepliesSame(b, s) /\ ThreadsSame(b, s)
                       /\ Status(b, s)' = Status(b, s)
                       /\ timer'[b][s] = timer[b][s]
      /\ \A b \in AP : b # a => Pair(s, b)' = Pair(s, b)
  BY TakenSame
<1>2. \A b \in AP : \A T : /\ Some(up'[b], Mail(s, T)) => Some(up[b], Mail(s, T))
                           /\ Single(up[b], Mail(s, T)) => Single(up'[b], Mail(s, T))
  BY TakenUp
<1>3. /\ STAAPRSSIList' = STAAPRSSIList /\ down' = down
      /\ Pair(s, a)' = IF Pair(s, a) = "null" THEN "null" ELSE "AUTHENTICATED"
  BY DEF StatusTaken
<1>4. \A b \in AP : Keeps(b, s)' <=> Keeps(b, s)
  BY <1>1, <1>3, NotWritten DEF DownSame
<1>5. Some(up[a], Mail(s, {"AUTH_REQ"}))
  BY TakenUp
<1>6. phase[s] # "idle"
  BY <1>5 DEF Roams, Joining, Sent
<1>7. \A b \in AP : Pair(s, b)' = "ASSOCIATED" => Pair(s, b) = "ASSOCIATED"
  BY <1>1, <1>3
<1>8. Staying(s)'
  BY <1>1, <1>2 DEF Roams, Staying, Sent
<1>9. OneClaims(s)'
  BY <1>1, <1>2, <1>3, <1>4, <1>7
     DEF Roams, OneClaims, Claims, AskedAt, Sent, Bound, RepliesSame
<1>10. OneQuestion(s)'
  BY <1>1, <1>3 DEF Roams, OneQuestion, AskedAt, Bound, RepliesSame
<1>11. Joining(s)'
  BY <1>1, <1>2, <1>3, <1>6, <1>7 DEF Roams, Joining, Sent, Bound, ThreadsSame
<1>12. Entering(s)'
  BY <1>1, <1>3 DEF Roams, Entering
<1> QED BY <1>8, <1>9, <1>10, <1>11, <1>12 DEF Roams

(***************************************************************************)
(* handleAssocReq and handleReassocReq.  The message was the only claim on *)
(* the station; the entry takes its place.                                 *)
(***************************************************************************)
LEMMA JoinRoams ==
    ASSUME TypeOK, NEW a \in AP, NEW s \in STA, NEW i, Takes(a, i, s),
           up[a][i].type \in Joins, StatusTaken(a, s, "ASSOCIATED"), Roams(s)
    PROVE  /\ Roams(s)'
           /\ phase[s] = "associated"
           /\ ~STAAPRSSIList[s].isSent
           /\ \A b \in AP : Pair(s, b) # "ASSOCIATED" /\ ~Sent(b, s, Joins)'
<1>1. /\ phase'[s] = phase[s]
      /\ \A b \in AP : /\ RepliesSame(b, s) /\ ThreadsSame(b, s)
                       /\ Status(b, s)' = Status(b, s)
                       /\ timer'[b][s] = timer[b][s]
      /\ \A b \in AP : b # a => Pair(s, b)' = Pair(s, b)
  BY TakenSame
<1>2. \A b \in AP : \A T : /\ Some(up'[b], Mail(s, T)) => Some(up[b], Mail(s, T))
                           /\ Single(up[b], Mail(s, T)) => Single(up'[b], Mail(s, T))
  BY TakenUp
<1>3. /\ STAAPRSSIList' = STAAPRSSIList /\ down' = down
      /\ Pair(s, a)' = IF Pair(s, a) = "null" THEN "null" ELSE "ASSOCIATED"
  BY DEF StatusTaken
<1>4. \A b \in AP : Keeps(b, s)' <=> Keeps(b, s)
  BY <1>1, <1>3, NotWritten DEF DownSame
<1>5. /\ Some(up[a], Mail(s, Joins))
      /\ Single(up[a], Mail(s, Joins)) => ~Some(up'[a], Mail(s, Joins))
  BY TakenUp
<1>6. /\ Sent(a, s, Joins) /\ Claims(a, s)
      /\ phase[s] = "associated"
      /\ ~STAAPRSSIList[s].isSent
      /\ \A b \in AP : Pair(s, b) # "ASSOCIATED"
      /\ ~Some(up'[a], Mail(s, Joins))
  BY <1>5 DEF Roams, Joining, Sent, Claims
<1>7. \A b \in AP : ~Some(up'[b], Mail(s, Joins))
  BY <1>2, <1>6 DEF Roams, OneClaims, Claims, Sent
<1>8. Staying(s)'
  BY <1>1, <1>2 DEF Roams, Staying, Sent
<1>9. OneClaims(s)'
  <2>1. ASSUME NEW b \in AP, Claims(b, s)' PROVE b = a
    <3>1. b = a \/ Claims(b, s)
      BY <1>1, <1>2, <1>3, <1>4, <2>1 DEF Claims, AskedAt, Sent, Bound, RepliesSame
    <3> QED BY <1>6, <3>1 DEF Roams, OneClaims
  <2> QED BY <2>1 DEF OneClaims
<1>10. OneQuestion(s)'
  BY <1>1, <1>3 DEF Roams, OneQuestion, AskedAt, Bound, RepliesSame
<1>11. Joining(s)'
  BY <1>1, <1>2, <1>6, <1>7 DEF Roams, Joining, Sent
<1>12. Entering(s)'
  BY <1>1, <1>6 DEF Roams, Entering
<1> QED BY <1>6, <1>7, <1>8, <1>9, <1>10, <1>11, <1>12 DEF Roams, Sent

(***************************************************************************)
(* handleLastRSSI.  It asks only if no question is under way, and an AP    *)
(* that has a claim already.                                               *)
(***************************************************************************)
LEMMA ReportRoams ==
    ASSUME TypeOK, NEW a \in AP, NEW s \in STA, NEW i, Takes(a, i, s),
           ReportTaken(a, s), Roams(s)
    PROVE  Roams(s)'
<1>1. /\ phase'[s] = phase[s]
      /\ \A b \in AP : /\ RepliesSame(b, s) /\ ThreadsSame(b, s)
                       /\ Status(b, s)' = Status(b, s)
                       /\ timer'[b][s] = timer[b][s]
                       /\ Pair(s, b)' = Pair(s, b)
  BY TakenSame DEF ReportTaken
<1>2. \A b \in AP : \A T : /\ Some(up'[b], Mail(s, T)) => Some(up[b], Mail(s, T))
                           /\ Single(up[b], Mail(s, T)) => Single(up'[b], Mail(s, T))
  BY TakenUp
<1>3. CASE down' = down /\ STAAPRSSIList'[s].isSent = STAAPRSSIList[s].isSent
  <2>1. \A b \in AP : Keeps(b, s)' <=> Keeps(b, s)
    BY <1>1, <1>3, NotWritten DEF DownSame
  <2>2. Staying(s)'
    BY <1>1, <1>2 DEF Roams, Staying, Sent
  <2>3. OneClaims(s)'
    BY <1>1, <1>2, <1>3, <2>1
       DEF Roams, OneClaims, Claims, AskedAt, Sent, Bound, RepliesSame
  <2>4. OneQuestion(s)'
    BY <1>1, <1>3 DEF Roams, OneQuestion, AskedAt, Bound, RepliesSame
  <2>5. Joining(s)'
    BY <1>1, <1>2, <1>3 DEF Roams, Joining, Sent, Bound, ThreadsSame
  <2>6. Entering(s)'
    BY <1>1 DEF Roams, Entering
  <2> QED BY <2>2, <2>3, <2>4, <2>5, <2>6 DEF Roams
<1>4. ASSUME ~STAAPRSSIList[s].isSent, STAAPRSSIList'[s].isSent, NEW c \in AP,
             Pair(s, c) = "ASSOCIATED", Writes(c, "LAST_REC_POW", s)
      PROVE  Roams(s)'
  <2>1. \A b \in AP : ~Some(down[b], Order(s, {"LAST_REC_POW"}))
                      /\ ~Some(replies[b], Answer(s))
    BY <1>4 DEF Roams, OneQuestion, AskedAt, Bound
  <2>2. phase[s] = "associated" /\ \A b \in AP : ~Some(up[b], Mail(s, Joins))
    BY <1>4 DEF Roams, Joining, Sent
  <2>3. /\ \A b \in AP : b # c => DownSame(b, s)
        /\ \A T : /\ Some(down'[c], Order(s, T)) <=>
                        Some(down[c], Order(s, T)) \/ "LAST_REC_POW" \in T
                  /\ Single(down[c], Order(s, T))
                     /\ ("LAST_REC_POW" \in T => ~Some(down[c], Order(s, T)))
                        => Single(down'[c], Order(s, T))
        /\ Keeps(c, s)' => Keeps(c, s)
    BY <1>1, <1>4, Written DEF DownType
  <2>4. \A b \in AP :
           /\ Some(down'[b], Order(s, {"LAST_REC_POW"})) => b = c
           /\ Keeps(b, s)' => Keeps(b, s)
           /\ Single(down[b], Order(s, {"LAST_REC_POW"}))
                 => Single(down'[b], Order(s, {"LAST_REC_POW"}))
    BY <2>1, <2>3 DEF DownSame
  <2>5. Staying(s)'
    BY <1>1, <1>2 DEF Roams, Staying, Sent
  <2>6. OneClaims(s)'
    <3>1. \A b \in AP : Claims(b, s)' => Claims(b, s)
      BY <1>1, <1>2, <1>4, <2>4 DEF Claims, AskedAt, Sent, Bound, RepliesSame
    <3> QED BY <3>1 DEF Roams, OneClaims
  <2>7. OneQuestion(s)'
    BY <1>1, <1>4, <2>1, <2>4 DEF Roams, OneQuestion, AskedAt, Bound, RepliesSame
  <2>8. Joining(s)'
    BY <1>1, <1>2, <2>2 DEF Roams, Joining, Sent
  <2>9. Entering(s)'
    BY <1>1 DEF Roams, Entering
  <2> QED BY <2>5, <2>6, <2>7, <2>8, <2>9 DEF Roams
<1> QED BY <1>3, <1>4 DEF ReportTaken

(***************************************************************************)
(* The orders of a handover.                                               *)
(***************************************************************************)
LEMMA MoveDown ==
    ASSUME TypeOK, NEW a \in AP, NEW c \in AP, NEW s \in STA, Move(a, s, c),
           \A b \in AP : Status(b, s)' = Status(b, s)
    PROVE  /\ \A b \in AP : \A T :
                 /\ Some(down'[b], Order(s, T)) <=>
                       \/ Some(down[b], Order(s, T))
                       \/ b = a /\ "REMOVE_STA" \in T
                       \/ b = c /\ "UPDATE_STA_ADD" \in T
                 /\ /\ Single(down[b], Order(s, T))
                    /\ "REMOVE_STA" \notin T /\ "UPDATE_STA_ADD" \notin T
                    => Single(down'[b], Order(s, T))
           /\ \A b \in AP : /\ Keeps(b, s)' => b = c \/ (b # a /\ Keeps(b, s))
                            /\ Stays(b, s)' => b = c \/ (b # a /\ Stays(b, s))
           /\ Stays(c, s)'
<1> DEFINE remove == [type |-> "REMOVE_STA", sta |-> s]
           update == [type |-> "UPDATE_STA_ADD", sta |-> s]
           Effect(b) ==
             /\ \A T :
                  /\ Some(down'[b], Order(s, T)) <=>
                        \/ Some(down[b], Order(s, T))
                        \/ b = a /\ "REMOVE_STA" \in T
                        \/ b = c /\ "UPDATE_STA_ADD" \in T
                  /\ /\ Single(down[b], Order(s, T))
                     /\ "REMOVE_STA" \notin T /\ "UPDATE_STA_ADD" \notin T
                     => Single(down'[b], Order(s, T))
             /\ Keeps(b, s)' => b = c \/ (b # a /\ Keeps(b, s))
             /\ Stays(b, s)' => b = c \/ (b # a /\ Stays(b, s))
             /\ b = c => Stays(b, s)'
<1>1. /\ remove \in DownMsg /\ update \in DownMsg
      /\ \A T : remove \in Order(s, T) <=> "REMOVE_STA" \in T
      /\ \A T : update \in Order(s, T) <=> "UPDATE_STA_ADD" \in T
  BY DEF DownMsg, DownType, Order
<1> HIDE DEF remove, update
<1>2. /\ \A b \in AP : b # a /\ b # c => down'[b] = down[b]
      /\ a # c => down'[a] = Append(down[a], remove) /\ down'[c] = Append(down[c], update)
      /\ a = c => down'[a] = Append(Append(down[a], remove), update)
  BY DEF Move, remove, update
<1>3. ASSUME NEW b \in AP, b # a, b # c PROVE Effect(b)
  <2>1. (Keeps(b, s)' <=> Keeps(b, s)) /\ (Stays(b, s)' <=> Stays(b, s))
    BY <1>2, <1>3 DEF Keeps, Stays
  <2> QED BY <1>2, <1>3, <2>1
<1>4. ASSUME a # c PROVE Effect(a) /\ Effect(c)
  <2>1. Effect(a)
    <3>1. /\ \A T : /\ Some(down'[a], Order(s, T)) <=>
                          Some(down[a], Order(s, T)) \/ remove \in Order(s, T)
                    /\ Single(down[a], Order(s, T))
                       /\ (remove \in Order(s, T) => ~Some(down[a], Order(s, T)))
                          => Single(down'[a], Order(s, T))
          /\ Keeps(a, s)' <=>
                \/ remove \in Order(s, {"UPDATE_STA_ADD"})
                \/ remove \notin Order(s, {"REMOVE_STA"}) /\ Keeps(a, s)
          /\ Stays(a, s)' <=>
                \/ remove \in Order(s, {"UPDATE_STA_ADD"})
                \/ remove \notin Order(s, {"REMOVE_STA", "ADD_STA"}) /\ Stays(a, s)
      BY <1>1, <1>2, <1>4, DownAppend
    <3> QED BY <1>1, <1>4, <3>1
  <2>2. Effect(c)
    <3>1. /\ \A T : /\ Some(down'[c], Order(s, T)) <=>
                          Some(down[c], Order(s, T)) \/ update \in Order(s, T)
                    /\ Single(down[c], Order(s, T))
                       /\ (update \in Order(s, T) => ~Some(down[c], Order(s, T)))
                          => Single(down'[c], Order(s, T))
          /\ Stays(c, s)' <=>
                \/ update \in Order(s, {"UPDATE_STA_ADD"})
                \/ update \notin Order(s, {"REMOVE_STA", "ADD_STA"}) /\ Stays(c, s)
      BY <1>1, <1>2, <1>4, DownAppend
    <3> QED BY <1>1, <1>4, <3>1
  <2> QED BY <2>1, <2>2
<1>5. ASSUME a = c PROVE Effect(a)
  <2> DEFINE q == down[a]
             r == Append(q, remove)
  <2>1. q \in Seq(DownMsg) /\ r \in Seq(DownMsg)
    BY <1>1, QueueTypes, Appended
  <2> HIDE DEF q, r
  <2>2. ASSUME NEW T
        PROVE  /\ Some(Append(r, update), Order(s, T)) <=>
                     \/ Some(q, Order(s, T))
                     \/ "REMOVE_STA" \in T
                     \/ "UPDATE_STA_ADD" \in T
               /\ /\ Single(q, Order(s, T))
                  /\ "REMOVE_STA" \notin T /\ "UPDATE_STA_ADD" \notin T
                  => Single(Append(r, update), Order(s, T))
    <3>1. /\ Some(r, Order(s, T)) <=> Some(q, Order(s, T)) \/ "REMOVE_STA" \in T
          /\ Some(Append(r, update), Order(s, T)) <=>
                Some(r, Order(s, T)) \/ "UPDATE_STA_ADD" \in T
      BY <1>1, <2>1, SomeAppend DEF r
    <3>2. ASSUME Single(q, Order(s, T)), "REMOVE_STA" \notin T, "UPDATE_STA_ADD" \notin T
          PROVE  Single(Append(r, update), Order(s, T))
      <4>1. Single(r, Order(s, T))
        BY <1>1, <2>1, <3>2, SingleAppend DEF r
      <4> QED BY <1>1, <2>1, <3>2, <4>1, SingleAppend
    <3> QED BY <3>1, <3>2
  <2>3. ASSUME NEW st, NEW K
        PROVE  Stands(Append(r, update), st, Order(s, {"UPDATE_STA_ADD"}), K)
    BY <1>1, <2>1, StandsAppend
  <2>4. down'[a] = Append(r, update) /\ down[a] = q
    BY <1>2, <1>5 DEF q, r
  <2>5. Stays(a, s)'
    BY <2>3, <2>4 DEF Stays
  <2> QED BY <1>5, <2>2, <2>4, <2>5
<1>6. \A b \in AP : Effect(b)
  BY <1>3, <1>4, <1>5
<1> QED BY <1>6

(***************************************************************************)
(* An answer of a: a has the only claim on the station, and the question   *)
(* is over.                                                                *)
(***************************************************************************)
LEMMA AnswerMeans ==
    ASSUME TypeOK, NEW a \in AP, NEW s \in STA, AnswerTaken(a, s), Roams(s)
    PROVE  /\ AskedAt(a, s) /\ Claims(a, s)
           /\ phase[s] = "associated"
           /\ \A b \in AP : ~Sent(b, s, Joins)
           /\ \A b \in AP : Claims(b, s) => b = a
           /\ \A b \in AP : /\ ~Some(replies'[b], Answer(s))
                            /\ ~Bound(b, s, {"LAST_REC_POW"})
<1>1. /\ replies[a] # <<>> /\ Head(replies[a]) \in Answer(s)
      /\ replies'[a] = Tail(replies[a])
      /\ \A b \in AP : b # a => replies'[b] = replies[b]
  BY DEF AnswerTaken, TypeOK, LinkTypeOK
<1>2. /\ Some(replies[a], Answer(s))
      /\ Single(replies[a], Answer(s)) => ~Some(replies'[a], Answer(s))
  BY <1>1, RepliesTail
<1>3. /\ AskedAt(a, s) /\ Claims(a, s) /\ STAAPRSSIList[s].isSent
      /\ ~Bound(a, s, {"LAST_REC_POW"})
      /\ ~Some(replies'[a], Answer(s))
  BY <1>2 DEF AskedAt, Claims, Roams, OneQuestion
<1>4. \A b \in AP : Claims(b, s) => b = a
  BY <1>3 DEF Roams, OneClaims
<1>5. ASSUME NEW b \in AP, b # a
      PROVE  ~Some(replies'[b], Answer(s)) /\ ~Bound(b, s, {"LAST_REC_POW"})
  BY <1>1, <1>4, <1>5 DEF Claims, AskedAt
<1>6. phase[s] = "associated" /\ \A b \in AP : ~Sent(b, s, Joins)
  BY <1>3 DEF Roams, Joining
<1> QED BY <1>3, <1>4, <1>5, <1>6

(* handleAPRSSI: the claim of a passes to the candidate, or stays.         *)
LEMMA AnswerRoams ==
    ASSUME TypeOK, NEW a \in AP, NEW s \in STA, AnswerTaken(a, s), Roams(s),
           NoMove(s) \/ \E c \in AP : Move(a, s, c)
    PROVE  Roams(s)'
<1>1. /\ AskedAt(a, s) /\ Claims(a, s)
      /\ phase[s] = "associated"
      /\ \A b \in AP : ~Sent(b, s, Joins)
      /\ \A b \in AP : Claims(b, s) => b = a
      /\ \A b \in AP : /\ ~Some(replies'[b], Answer(s))
                       /\ ~Bound(b, s, {"LAST_REC_POW"})
  BY AnswerMeans
<1>2. UNCHANGED <<up, infoSTA, rssiThread, timer, phase>>
  BY DEF AnswerTaken
<1>3. \A b \in AP : Status(b, s)' = Status(b, s)
  BY <1>2 DEF Status
<1>4. /\ \A b \in AP : /\ ~Bound(b, s, {"LAST_REC_POW"})'
                       /\ Single(down'[b], Order(s, {"LAST_REC_POW"}))
      /\ \E c \in AP : \A b \in AP : Pair(s, b)' = "ASSOCIATED" \/ Keeps(b, s)' => b = c
  <2>1. CASE NoMove(s)
    <3>1. \A b \in AP : (Keeps(b, s)' <=> Keeps(b, s)) /\ Pair(s, b)' = Pair(s, b)
      BY <1>3, <2>1, NotWritten DEF NoMove, DownSame
    <3>2. \A b \in AP : Pair(s, b)' = "ASSOCIATED" \/ Keeps(b, s)' => b = a
      BY <1>1, <3>1 DEF Claims
    <3>3. down' = down
      BY <2>1 DEF NoMove
    <3> QED BY <1>1, <3>2, <3>3 DEF Roams, OneQuestion, Bound
  <2>2. ASSUME NEW c \in AP, Move(a, s, c)
        PROVE  /\ \A b \in AP : /\ ~Bound(b, s, {"LAST_REC_POW"})'
                                /\ Single(down'[b], Order(s, {"LAST_REC_POW"}))
               /\ \A b \in AP : Pair(s, b)' = "ASSOCIATED" \/ Keeps(b, s)' => b = c
    <3>1. /\ \A b \in AP : \A T :
                /\ Some(down'[b], Order(s, T)) <=>
                      \/ Some(down[b], Order(s, T))
                      \/ b = a /\ "REMOVE_STA" \in T
                      \/ b = c /\ "UPDATE_STA_ADD" \in T
                /\ /\ Single(down[b], Order(s, T))
                   /\ "REMOVE_STA" \notin T /\ "UPDATE_STA_ADD" \notin T
                   => Single(down'[b], Order(s, T))
          /\ \A b \in AP : Keeps(b, s)' => b = c \/ (b # a /\ Keeps(b, s))
      BY <1>3, <2>2, MoveDown
    <3>2. \A b \in AP : /\ ~Bound(b, s, {"LAST_REC_POW"})'
                        /\ Single(down'[b], Order(s, {"LAST_REC_POW"}))
      BY <1>1, <3>1 DEF Bound, Roams, OneQuestion
    <3>3. \A b \in AP : Keeps(b, s)' => b = c
      BY <1>1, <3>1 DEF Claims
    <3>4. \A b \in AP : b # c => IF b = a THEN Pair(s, b)' = "NOT_AUTHENTICATED"
                                          ELSE Pair(s, b)' = Pair(s, b)
      BY <2>2 DEF Move
    <3>5. \A b \in AP : Pair(s, b)' = "ASSOCIATED" => b = c
      BY <1>1, <3>4 DEF Claims
    <3> QED BY <3>2, <3>3, <3>5
  <2> QED BY <2>1, <2>2
<1>5. Staying(s)'
  BY <1>2 DEF Roams, Staying, Sent
<1>6. OneClaims(s)'
  BY <1>1, <1>2, <1>4 DEF OneClaims, Claims, AskedAt, Sent
<1>7. OneQuestion(s)'
  <2>1. \A b \in AP : Single(replies'[b], Answer(s))
    BY <1>1 DEF Some, Single
  <2> QED BY <1>1, <1>4, <2>1 DEF OneQuestion, AskedAt
<1>8. Joining(s)'
  BY <1>1, <1>2 DEF Roams, Joining, Sent
<1>9. Entering(s)'
  BY <1>1, <1>3 DEF Roams, Entering
<1> QED BY <1>5, <1>6, <1>7, <1>8, <1>9 DEF Roams

(***************************************************************************)
(* What handle_vendor leaves alone, and its part in the orders of a.       *)
(***************************************************************************)
LEMMA OrderSame ==
    ASSUME TypeOK, NEW a \in AP, NEW s \in STA, OrderTaken(a, s),
           Status(a, s)' = "ASSOCIATED" => Serves(a, s, {"REMOVE_STA", "ADD_STA"})
    PROVE  /\ \A b \in AP : b # a => DownSame(b, s)
           /\ \A b \in AP : Pair(s, b)' = Pair(s, b)
           /\ \A T : /\ Some(down[a], Order(s, T)) <=>
                           Some(down'[a], Order(s, T)) \/ Head(down[a]).type \in T
                     /\ Single(down[a], Order(s, T)) =>
                           /\ Single(down'[a], Order(s, T))
                           /\ Head(down[a]).type \in T => ~Some(down'[a], Order(s, T))
           /\ Keeps(a, s)' => Keeps(a, s)
           /\ Stays(a, s)' => Stays(a, s)
           /\ /\ Stays(a, s)
              /\ Serves(a, s, {"REMOVE_STA", "ADD_STA"}) => Status(a, s)' = "ASSOCIATED"
              => Stays(a, s)'
<1>1. /\ down[a] # <<>> /\ down'[a] = Tail(down[a])
      /\ \A b \in AP : b # a => down'[b] = down[b]
  BY DEF OrderTaken, TypeOK, LinkTypeOK
<1>2. \A b \in AP : b # a => Status(b, s)' = Status(b, s)
  BY DEF OrderTaken
<1>3. \A b \in AP : Pair(s, b)' = Pair(s, b)
  BY DEF OrderTaken, Pair
<1>4. ASSUME NEW b \in AP, b # a PROVE DownSame(b, s)
  <2>1. (Keeps(b, s)' <=> Keeps(b, s)) /\ (Stays(b, s)' <=> Stays(b, s))
    BY <1>1, <1>2, <1>4 DEF Keeps, Stays
  <2> QED BY <1>1, <1>4, <2>1 DEF DownSame
<1>5. \A T : Head(down[a]) \in Order(s, T) <=> Head(down[a]).type \in T
  BY DEF OrderTaken, Order
<1>6. /\ \A T : /\ Some(down[a], Order(s, T)) <=>
                      Some(down'[a], Order(s, T)) \/ Head(down[a]) \in Order(s, T)
                /\ Single(down[a], Order(s, T)) =>
                      /\ Single(down'[a], Order(s, T))
                      /\ Head(down[a]) \in Order(s, T) => ~Some(down'[a], Order(s, T))
      /\ Keeps(a, s)' => Keeps(a, s)
      /\ Stays(a, s)' => Stays(a, s)
      /\ /\ Stays(a, s)
         /\ Serves(a, s, {"REMOVE_STA", "ADD_STA"}) => Status(a, s)' = "ASSOCIATED"
         => Stays(a, s)'
  BY <1>1, DownTail
<1> QED BY <1>3, <1>4, <1>5, <1>6

(* Only UPDATE_STA_ADD makes a serve the station.                          *)
LEMMA DoneServes ==
    ASSUME NEW a \in AP, NEW s \in STA, OrderTaken(a, s), Done(a, s)
    PROVE  Status(a, s)' = "ASSOCIATED" => Serves(a, s, {"REMOVE_STA", "ADD_STA"})
<1>1. \A T : Head(down[a]) \in Order(s, T) <=> Head(down[a]).type \in T
  BY DEF OrderTaken, Order
<1> QED BY <1>1 DEF Done, Serves

(* handle_vendor: an order that is carried out gives a no new claim.       *)
LEMMA VendorRoams ==
    ASSUME TypeOK, NEW a \in AP, NEW s \in STA, OrderTaken(a, s), Done(a, s), Roams(s)
    PROVE  Roams(s)'
<1> DEFINE type == Head(down[a]).type
<1>1. UNCHANGED <<STAAPRSSIList, up, rssiThread, timer, phase>>
      /\ \A b \in AP : b # a => Status(b, s)' = Status(b, s)
  BY DEF OrderTaken
<1>2. /\ \A b \in AP : b # a => DownSame(b, s)
      /\ \A b \in AP : Pair(s, b)' = Pair(s, b)
      /\ \A T : /\ Some(down[a], Order(s, T)) <=>
                      Some(down'[a], Order(s, T)) \/ type \in T
                /\ Single(down[a], Order(s, T)) =>
                      /\ Single(down'[a], Order(s, T))
                      /\ type \in T => ~Some(down'[a], Order(s, T))
      /\ Keeps(a, s)' => Keeps(a, s)
  BY DoneServes, OrderSame
<1>3. \A b \in AP : \A T : /\ Some(down'[b], Order(s, T)) => Some(down[b], Order(s, T))
                           /\ Single(down[b], Order(s, T)) => Single(down'[b], Order(s, T))
  BY <1>2 DEF DownSame
<1>4. \A b \in AP : Keeps(b, s)' => Keeps(b, s)
  BY <1>2 DEF DownSame
<1>5. /\ \A b \in AP : AskedAt(b, s)' => AskedAt(b, s)
      /\ OneQuestion(s)'
  <2>1. CASE replies' = replies
    <3>1. \A b \in AP : AskedAt(b, s)' => AskedAt(b, s)
      BY <1>3, <2>1 DEF AskedAt, Bound
    <3> QED BY <1>1, <1>3, <2>1, <3>1 DEF Roams, OneQuestion, Bound
  <2>2. ASSUME type = "LAST_REC_POW", NEW m \in Answer(s),
               replies' = [replies EXCEPT ![a] = Append(@, m)]
        PROVE  /\ \A b \in AP : AskedAt(b, s)' => AskedAt(b, s)
               /\ OneQuestion(s)'
    <3>1. /\ replies'[a] = Append(replies[a], m) /\ m \in Reply
          /\ \A b \in AP : b # a => replies'[b] = replies[b]
      BY <2>2 DEF TypeOK, LinkTypeOK, Answer
    <3>2. /\ Bound(a, s, {"LAST_REC_POW"}) /\ AskedAt(a, s)
          /\ ~Some(replies[a], Answer(s))
          /\ ~Some(down'[a], Order(s, {"LAST_REC_POW"}))
      BY <1>2, <2>2 DEF Bound, AskedAt, Roams, OneQuestion
    <3>3. Single(replies'[a], Answer(s))
      BY <3>1, <3>2, RepliesAppend DEF Roams, OneQuestion
    <3>4. \A b \in AP : AskedAt(b, s)' => AskedAt(b, s)
      BY <1>3, <3>1, <3>2 DEF AskedAt, Bound
    <3> QED BY <1>1, <1>3, <3>1, <3>2, <3>3, <3>4 DEF Roams, OneQuestion, Bound
  <2> QED BY <2>1, <2>2 DEF Done
<1>6. Staying(s)'
  BY <1>1 DEF Roams, Staying, Sent
<1>7. OneClaims(s)'
  <2>1. \A b \in AP : Claims(b, s)' => Claims(b, s)
    BY <1>1, <1>2, <1>4, <1>5 DEF Claims, Sent
  <2> QED BY <2>1 DEF Roams, OneClaims
<1>8. /\ Status(a, s)' = "SELECTED" => Status(a, s) = "SELECTED" \/ Bound(a, s, {"ADD_STA"})
      /\ Status(a, s)' = "AUTHENTICATED" => Status(a, s) = "AUTHENTICATED"
      /\ Status(a, s)' = "ASSOCIATED" =>
            Status(a, s) = "ASSOCIATED" \/ Bound(a, s, {"UPDATE_STA_ADD"})
  BY <1>2 DEF Done, Bound
<1>9. \A b \in AP :
         /\ Status(b, s)' = "SELECTED" => Status(b, s) = "SELECTED" \/ Bound(b, s, {"ADD_STA"})
         /\ Status(b, s)' = "AUTHENTICATED" => Status(b, s) = "AUTHENTICATED"
         /\ Status(b, s)' = "ASSOCIATED" =>
               Status(b, s) = "ASSOCIATED" \/ Bound(b, s, {"UPDATE_STA_ADD"})
  BY <1>1, <1>8
<1>10. Joining(s)'
  BY <1>1, <1>2, <1>3, <1>9 DEF Roams, Joining, Sent, Bound
<1>11. Entering(s)'
  BY <1>1, <1>2, <1>9 DEF Roams, Entering
<1> QED BY <1>5, <1>6, <1>7, <1>10, <1>11 DEF Roams

(***************************************************************************)
(* process_sta_data.  A thread works on the station only once it is        *)
(* associated; it never lets the station in.                               *)
(***************************************************************************)
LEMMA ThreadSame ==
    ASSUME TypeOK, NEW a \in AP, NEW t \in Thread, NEW s \in STA, ThreadRuns(a, t, s),
           Advanced(a, t, s)
    PROVE  /\ \A b \in AP : b # a => UpSame(b, s) /\ DownSame(b, s)
           /\ \A b \in AP : Pair(s, b)' = Pair(s, b)
           /\ \A T : /\ Some(up'[a], Mail(s, T)) <=>
                           \/ Some(up[a], Mail(s, T))
                           \/ "REC_POW" \in T /\ rssiThread[a][t].pc = "report"
                     /\ Single(up[a], Mail(s, T)) /\ "REC_POW" \notin T =>
                           Single(up'[a], Mail(s, T))
                     /\ \A S : /\ Behind(up[a], Mail(s, S), Mail(s, T))
                               /\ "REC_POW" \notin S
                               => Behind(up'[a], Mail(s, S), Mail(s, T))
           /\ Keeps(a, s)' => Keeps(a, s)
           /\ Stays(a, s)' => Stays(a, s)
           /\ Status(a, s)' = Status(a, s) /\ Stays(a, s) => Stays(a, s)'
<1>1. /\ UNCHANGED <<STAAPList, down>>
      /\ \A b \in AP : b # a => Status(b, s)' = Status(b, s)
  BY DEF ThreadRuns
<1>2. \A b \in AP : b # a => up'[b] = up[b]
  BY DEF Advanced, TypeOK, LinkTypeOK
<1>3. ASSUME NEW b \in AP, b # a PROVE UpSame(b, s) /\ DownSame(b, s)
  <2>1. (Keeps(b, s)' <=> Keeps(b, s)) /\ (Stays(b, s)' <=> Stays(b, s))
    BY <1>1, <1>3 DEF Keeps, Stays
  <2> QED BY <1>1, <1>2, <1>3, <2>1 DEF DownSame, UpSame
<1>4. /\ Keeps(a, s)' => Keeps(a, s)
      /\ Stays(a, s)' => Stays(a, s)
      /\ Status(a, s)' = Status(a, s) /\ Stays(a, s) => Stays(a, s)'
  <2>1. Status(a, s)' = "ASSOCIATED" => Status(a, s) = "ASSOCIATED"
    BY DEF Advanced
  <2> QED BY <1>1, <2>1 DEF Keeps, Stays, Stands
<1>5. \A T : /\ Some(up'[a], Mail(s, T)) <=>
                   \/ Some(up[a], Mail(s, T))
                   \/ "REC_POW" \in T /\ rssiThread[a][t].pc = "report"
             /\ Single(up[a], Mail(s, T)) /\ "REC_POW" \notin T =>
                   Single(up'[a], Mail(s, T))
             /\ \A S : /\ Behind(up[a], Mail(s, S), Mail(s, T))
                       /\ "REC_POW" \notin S
                       => Behind(up'[a], Mail(s, S), Mail(s, T))
  <2>1. CASE up' = up /\ rssiThread[a][t].pc # "report"
    BY <2>1
  <2>2. ASSUME NEW m \in Mail(s, {"REC_POW"}), up' = [up EXCEPT ![a] = Append(@, m)],
               rssiThread[a][t].pc = "report"
        PROVE  \A T : /\ Some(up'[a], Mail(s, T)) <=>
                            Some(up[a], Mail(s, T)) \/ "REC_POW" \in T
                      /\ Single(up[a], Mail(s, T)) /\ "REC_POW" \notin T =>
                            Single(up'[a], Mail(s, T))
                      /\ \A S : /\ Behind(up[a], Mail(s, S), Mail(s, T))
                                /\ "REC_POW" \notin S
                                => Behind(up'[a], Mail(s, S), Mail(s, T))
    <3>1. m \in UpMsg /\ \A T : m \in Mail(s, T) <=> "REC_POW" \in T
      BY DEF Mail
    <3>2. up'[a] = Append(up[a], m)
      BY <2>2 DEF TypeOK, LinkTypeOK
    <3> QED BY <3>1, <3>2, UpAppend
  <2> QED BY <2>1, <2>2 DEF Advanced
<1>6. \A b \in AP : Pair(s, b)' = Pair(s, b)
  BY <1>1 DEF Pair
<1> QED BY <1>3, <1>4, <1>5, <1>6

(* process_sta_data preserves Roams.                                       *)
LEMMA ThreadRoams ==
    ASSUME TypeOK, NEW a \in AP, NEW t \in Thread, NEW s \in STA, ThreadRuns(a, t, s),
           Advanced(a, t, s), Roams(s)
    PROVE  Roams(s)'
<1>1. /\ UNCHANGED <<STAAPRSSIList, down, replies, timer, phase>>
      /\ \A b \in AP : b # a => Status(b, s)' = Status(b, s)
  BY DEF ThreadRuns
<1>2. phase[s] = "associated"
  BY DEF ThreadRuns, Roams, Joining
<1>3. /\ \A b \in AP : b # a => UpSame(b, s) /\ DownSame(b, s)
      /\ \A b \in AP : Pair(s, b)' = Pair(s, b)
      /\ \A T : "REC_POW" \notin T =>
                  /\ Some(up'[a], Mail(s, T)) <=> Some(up[a], Mail(s, T))
                  /\ Single(up[a], Mail(s, T)) => Single(up'[a], Mail(s, T))
      /\ Keeps(a, s)' => Keeps(a, s)
  BY ThreadSame
<1>4. \A b \in AP : \A T : "REC_POW" \notin T =>
                  /\ Some(up'[b], Mail(s, T)) => Some(up[b], Mail(s, T))
                  /\ Single(up[b], Mail(s, T)) => Single(up'[b], Mail(s, T))
  BY <1>3 DEF UpSame
<1>5. \A b \in AP : /\ Some(up'[b], Mail(s, Joins)) => Some(up[b], Mail(s, Joins))
                    /\ Some(up'[b], Mail(s, Leaves)) => Some(up[b], Mail(s, Leaves))
                    /\ Single(up[b], Mail(s, Joins)) => Single(up'[b], Mail(s, Joins))
                    /\ Keeps(b, s)' => Keeps(b, s)
  BY <1>3, <1>4 DEF Joins, Leaves, DownSame
<1>6. Status(a, s)' \in {Status(a, s), "SELECTED", "NOT_AUTHENTICATED"}
  BY DEF Advanced
<1>7. Staying(s)'
  BY <1>1, <1>5 DEF Roams, Staying, Sent
<1>8. OneClaims(s)'
  <2>1. \A b \in AP : Claims(b, s)' => Claims(b, s)
    BY <1>1, <1>3, <1>5 DEF Claims, AskedAt, Sent, Bound
  <2> QED BY <2>1 DEF Roams, OneClaims
<1>9. OneQuestion(s)'
  BY <1>1 DEF Roams, OneQuestion, AskedAt, Bound
<1>10. Joining(s)'
  BY <1>1, <1>2, <1>3, <1>5 DEF Roams, Joining, Sent, Bound
<1>11. Entering(s)'
  BY <1>1, <1>2, <1>6 DEF Roams, Entering
<1> QED BY <1>7, <1>8, <1>9, <1>10, <1>11 DEF Roams

(* An AP that keeps the station serves it or has the order to.             *)
LEMMA KeepsMeans ==
    ASSUME NEW a, NEW s
    PROVE  /\ Keeps(a, s) => Status(a, s) = "ASSOCIATED" \/ Bound(a, s, {"UPDATE_STA_ADD"})
           /\ Stays(a, s) => Status(a, s) = "ASSOCIATED" \/ Bound(a, s, {"UPDATE_STA_ADD"})
           /\ Stays(a, s) => Keeps(a, s)
<1>1. Order(s, {"REMOVE_STA"}) \subseteq Order(s, {"REMOVE_STA", "ADD_STA"})
  BY DEF Order
<1>2. \A st, S, K : Stands(down[a], st, S, K) => st = "ASSOCIATED" \/ Some(down[a], S)
  BY DEF Stands, Some
<1>3. \A st, S, K, L : K \subseteq L /\ Stands(down[a], st, S, L) => Stands(down[a], st, S, K)
  BY DEF Stands, Some
<1> QED BY <1>1, <1>2, <1>3 DEF Keeps, Stays, Bound

(***************************************************************************)
(* What a frame leaves alone.  Where it is accepted a message goes out.    *)
(***************************************************************************)
LEMMA CommittedSame ==
    ASSUME TypeOK, NEW a \in AP, NEW s \in STA, NEW to, NEW T, FrameHeard(s),
           FrameCommitted(a, s, to, T)
    PROVE  /\ \A b \in AP : Pair(s, b)' = Pair(s, b)
           /\ \A b \in AP :
                 Status(b, s)' = IF b = a THEN to ELSE Status(b, s)
           /\ \A b \in AP : b # a => UpSame(b, s) /\ DownSame(b, s)
           /\ \E type \in T : \A b \in AP : b = a => \A S :
                 /\ Some(up'[b], Mail(s, S)) <=> Some(up[b], Mail(s, S)) \/ type \in S
                 /\ Single(up[b], Mail(s, S)) /\ (type \in S => ~Some(up[b], Mail(s, S)))
                       => Single(up'[b], Mail(s, S))
                 /\ \A R : type \notin R /\ (type \in S \/ Behind(up[b], Mail(s, R), Mail(s, S)))
                             => Behind(up'[b], Mail(s, R), Mail(s, S))
<1>1. /\ UNCHANGED <<STAAPList, down>>
      /\ \A b \in AP : Status(b, s)' = IF b = a THEN to ELSE Status(b, s)
  BY DEF FrameHeard, FrameCommitted
<1>2. PICK m \in Mail(s, T) : \A b \in AP :
         up'[b] = IF b = a THEN Append(up[b], m) ELSE up[b]
  BY DEF FrameCommitted
<1>3. /\ m \in UpMsg /\ m.type \in T
      /\ \A S : m \in Mail(s, S) <=> m.type \in S
  BY DEF Mail
<1>4. ASSUME NEW b \in AP, b # a PROVE UpSame(b, s) /\ DownSame(b, s)
  <2>1. Status(b, s)' = Status(b, s)
    BY <1>1, <1>4
  <2>2. (Keeps(b, s)' <=> Keeps(b, s)) /\ (Stays(b, s)' <=> Stays(b, s))
    BY <1>1, <2>1 DEF Keeps, Stays
  <2> QED BY <1>1, <1>2, <1>4, <2>2 DEF DownSame, UpSame
<1>5. ASSUME NEW b \in AP, b = a
      PROVE  \A S :
                 /\ Some(up'[b], Mail(s, S)) <=> Some(up[b], Mail(s, S)) \/ m.type \in S
                 /\ Single(up[b], Mail(s, S)) /\ (m.type \in S => ~Some(up[b], Mail(s, S)))
                       => Single(up'[b], Mail(s, S))
                 /\ \A R : m.type \notin R /\ (m.type \in S \/ Behind(up[b], Mail(s, R), Mail(s, S)))
                             => Behind(up'[b], Mail(s, R), Mail(s, S))
  <2>1. up'[b] = Append(up[b], m)
    BY <1>2, <1>5
  <2> QED BY <1>3, <2>1, UpAppend
<1>6. \A b \in AP : Pair(s, b)' = Pair(s, b)
  BY <1>1 DEF Pair
<1> QED BY <1>1, <1>3, <1>4, <1>5, <1>6

(***************************************************************************)
(* The end of handle_auth.  Only the AP that the controller has selected   *)
(* lets the station in.                                                    *)
(***************************************************************************)
LEMMA AuthCommittedRoams ==
    ASSUME TypeOK, NEW a \in AP, NEW s \in STA, FrameHeard(s), AuthCommitted(a, s),
           Roams(s), Framed(s)
    PROVE  Roams(s)'
<1> DEFINE In(b) == b = a
<1>1. /\ phase[s] = "idle" /\ phase'[s] = "authenticated"
      /\ UNCHANGED <<STAAPRSSIList, down, replies, timer, rssiThread>>
      /\ FrameCommitted(a, s, "AUTHENTICATED", {"AUTH_REQ"})
  BY DEF AuthCommitted, FrameHeard, FrameCommitted
<1>2. /\ \A b \in AP : Pair(s, b)' = Pair(s, b)
      /\ \A b \in AP : Status(b, s)' = IF In(b) THEN "AUTHENTICATED" ELSE Status(b, s)
      /\ \A b \in AP : ~In(b) => UpSame(b, s) /\ DownSame(b, s)
      /\ \A b \in AP : In(b) => \A S :
            /\ Some(up'[b], Mail(s, S)) <=> Some(up[b], Mail(s, S)) \/ "AUTH_REQ" \in S
            /\ /\ Single(up[b], Mail(s, S))
               /\ "AUTH_REQ" \in S => ~Some(up[b], Mail(s, S))
               => Single(up'[b], Mail(s, S))
  <2> HIDE DEF In
  <2> DEFINE T == {"AUTH_REQ"}
  <2>1. \A type \in T : type = "AUTH_REQ"
    OBVIOUS
  <2>2. FrameCommitted(a, s, "AUTHENTICATED", T)
    BY <1>1
  <2> HIDE DEF T
  <2> QED BY <2>1, <2>2, CommittedSame DEF In
<1>3. \A b \in AP : \A S : "AUTH_REQ" \notin S =>
         /\ Some(up'[b], Mail(s, S)) => Some(up[b], Mail(s, S))
         /\ Single(up[b], Mail(s, S)) => Single(up'[b], Mail(s, S))
  BY <1>2 DEF UpSame
<1>4. \A b \in AP : /\ Some(up'[b], Mail(s, Joins)) => Some(up[b], Mail(s, Joins))
                    /\ Some(up'[b], Mail(s, Leaves)) => Some(up[b], Mail(s, Leaves))
                    /\ Single(up[b], Mail(s, Joins)) => Single(up'[b], Mail(s, Joins))
  BY <1>3 DEF Joins, Leaves
<1>5. \A b \in AP : Keeps(b, s)' => Keeps(b, s)
  <2>1. \A b \in AP : Status(b, s)' = "ASSOCIATED" => Status(b, s) = "ASSOCIATED"
    BY <1>2
  <2> QED BY <1>1, <2>1 DEF Keeps, Stands
<1>6. \A b \in AP : In(b) => Pair(s, b) = "SELECTED"
  BY <1>1 DEF FrameCommitted, Framed
<1>7. Staying(s)'
  BY <1>1, <1>4 DEF Roams, Staying, Sent
<1>8. OneClaims(s)'
  <2>1. \A b \in AP : Claims(b, s)' => Claims(b, s)
    BY <1>1, <1>2, <1>4, <1>5 DEF Claims, AskedAt, Sent, Bound
  <2> QED BY <2>1 DEF Roams, OneClaims
<1>9. OneQuestion(s)'
  BY <1>1 DEF Roams, OneQuestion, AskedAt, Bound
<1>10. Joining(s)'
  BY <1>1, <1>2, <1>4 DEF Roams, Joining, Sent, Bound
<1>11. Entering(s)'
  <2>1. \A b \in AP : Status(b, s) # "AUTHENTICATED"
    BY <1>1 DEF Roams, Entering
  <2> QED BY <1>1, <1>2, <1>6, <2>1 DEF Entering
<1> QED BY <1>7, <1>8, <1>9, <1>10, <1>11 DEF Roams

(***************************************************************************)
(* The end of handle_assoc.  One AP works on the request, and before it    *)
(* accepts the station nobody has a claim.                                 *)
(***************************************************************************)
LEMMA AssocCommittedRoams ==
    ASSUME TypeOK, NEW a \in AP, NEW s \in STA, FrameHeard(s), AssocCommitted(a, s),
           Roams(s), Framed(s)
    PROVE  Roams(s)'
<1> DEFINE In(b) == b = a
<1>1. /\ phase[s] = "authenticated" /\ phase'[s] = "associated"
      /\ UNCHANGED <<STAAPRSSIList, down, replies, timer, rssiThread>>
  BY DEF AssocCommitted, FrameHeard, FrameCommitted
<1>2. PICK type \in Joins :
      /\ \A b \in AP : Pair(s, b)' = Pair(s, b)
      /\ \A b \in AP : Status(b, s)' = IF In(b) THEN "ASSOCIATED" ELSE Status(b, s)
      /\ \A b \in AP : ~In(b) => UpSame(b, s) /\ DownSame(b, s)
      /\ \A b \in AP : In(b) => \A S :
            /\ Some(up'[b], Mail(s, S)) <=> Some(up[b], Mail(s, S)) \/ type \in S
            /\ Single(up[b], Mail(s, S)) /\ (type \in S => ~Some(up[b], Mail(s, S)))
                  => Single(up'[b], Mail(s, S))
  BY CommittedSame DEF AssocCommitted
<1>3. \A b \in AP : Status(b, s) = "AUTHENTICATED" => b = a
  BY DEF AssocCommitted, FrameCommitted, Framed
<1>4. In(a) /\ \A b \in AP : In(b) => b = a
  OBVIOUS
<1> HIDE DEF In
<1>5. /\ ~STAAPRSSIList[s].isSent
      /\ \A b \in AP : /\ ~Some(up[b], Mail(s, Joins))
                       /\ Status(b, s) # "ASSOCIATED"
                       /\ Pair(s, b) # "ASSOCIATED"
                       /\ ~Bound(b, s, {"UPDATE_STA_ADD"})
                       /\ ~AskedAt(b, s)
  BY <1>1 DEF Roams, Joining, Sent, OneQuestion
<1>6. \A b \in AP : /\ Some(up'[b], Mail(s, Joins)) => b = a
                    /\ Single(up[b], Mail(s, Joins)) => Single(up'[b], Mail(s, Joins))
  BY <1>2, <1>4, <1>5 DEF UpSame
<1>7. \A b \in AP : Some(up'[b], Mail(s, Leaves)) => Some(up[b], Mail(s, Leaves))
  BY <1>2 DEF UpSame, Joins, Leaves
<1>8. \A b \in AP : Keeps(b, s)' => b = a
  <2>1. \A b \in AP : Keeps(b, s)' => \/ Status(b, s)' = "ASSOCIATED"
                                      \/ Bound(b, s, {"UPDATE_STA_ADD"})'
    <3>1. \A st, S, K, b : Stands(down[b], st, S, K) => st = "ASSOCIATED" \/ Some(down[b], S)
      BY DEF Stands, Some
    <3> QED BY <1>1, <3>1 DEF Keeps, Bound
  <2> QED BY <1>1, <1>2, <1>4, <1>5, <2>1 DEF Bound
<1>9. Staying(s)'
  BY <1>1, <1>7 DEF Roams, Staying, Sent
<1>10. OneClaims(s)'
  <2>1. \A b \in AP : Claims(b, s)' => b = a
    BY <1>1, <1>2, <1>5, <1>6, <1>8 DEF Claims, AskedAt, Sent, Bound
  <2> QED BY <2>1 DEF OneClaims
<1>11. OneQuestion(s)'
  BY <1>1 DEF Roams, OneQuestion, AskedAt, Bound
<1>12. Joining(s)'
  BY <1>1, <1>2, <1>5, <1>6 DEF Roams, Joining, Sent, Bound
<1>13. Entering(s)'
  BY <1>2, <1>3, <1>4 DEF Entering
<1> QED BY <1>9, <1>10, <1>11, <1>12, <1>13 DEF Roams

(***************************************************************************)
(* The checks of handle_auth and handle_assoc only begin the work on a     *)
(* frame.                                                                  *)
(***************************************************************************)
LEMMA CheckedSame ==
    ASSUME NEW s \in STA, FrameHeard(s), AuthChecked(s) \/ AssocChecked(s)
    PROVE  Same(s)
<1>1. UNCHANGED <<STAAPList, STAAPRSSIList, down, up, replies, infoSTA, rssiThread,
                  timer, phase>>
  BY DEF FrameHeard, AuthChecked, AssocChecked, FrameChecked
<1>2. ASSUME NEW a \in AP PROVE SameAt(a, s)
  <2>1. /\ Pair(s, a)' = Pair(s, a) /\ Status(a, s)' = Status(a, s)
        /\ timer'[a][s] = timer[a][s] /\ ThreadsSame(a, s)
    BY <1>1 DEF Pair, Status, ThreadsSame
  <2> QED BY <1>1, <2>1, Untouched
<1> QED BY <1>1, <1>2 DEF Same

(***************************************************************************)
(* handle_probe_request and data_frames_rssi.                              *)
(***************************************************************************)
LEMMA ProbeHeardSame ==
    ASSUME TypeOK, NEW a \in AP, NEW s \in STA, FrameHeard(s), ProbeHeard(a, s)
    PROVE  /\ \A b \in AP : /\ Pair(s, b)' = Pair(s, b) /\ Status(b, s)' = Status(b, s)
                            /\ DownSame(b, s)
           /\ \A b \in AP : \A T : "PROBE" \notin T =>
                 /\ Some(up'[b], Mail(s, T)) <=> Some(up[b], Mail(s, T))
                 /\ Single(up[b], Mail(s, T)) => Single(up'[b], Mail(s, T))
                 /\ \A S : "PROBE" \notin S /\ Behind(up[b], Mail(s, S), Mail(s, T)) =>
                              Behind(up'[b], Mail(s, S), Mail(s, T))
<1>1. UNCHANGED <<STAAPList, down, infoSTA>>
  BY DEF FrameHeard, ProbeHeard
<1>2. \A b \in AP : /\ Pair(s, b)' = Pair(s, b) /\ Status(b, s)' = Status(b, s)
                    /\ DownSame(b, s)
  BY <1>1, NotWritten DEF Pair, Status
<1>3. PICK m \in Mail(s, {"PROBE"}) : up' = [up EXCEPT ![a] = Append(@, m)]
  BY DEF ProbeHeard
<1>4. m \in UpMsg /\ \A T : m \in Mail(s, T) <=> "PROBE" \in T
  BY DEF Mail
<1>5. /\ up'[a] = Append(up[a], m)
      /\ \A b \in AP : b # a => up'[b] = up[b]
  BY <1>3 DEF TypeOK, LinkTypeOK
<1>6. \A T : "PROBE" \notin T =>
         /\ Some(up'[a], Mail(s, T)) <=> Some(up[a], Mail(s, T))
         /\ Single(up[a], Mail(s, T)) => Single(up'[a], Mail(s, T))
         /\ \A S : "PROBE" \notin S /\ Behind(up[a], Mail(s, S), Mail(s, T)) =>
                      Behind(up'[a], Mail(s, S), Mail(s, T))
  BY <1>4, <1>5, UpAppend
<1> QED BY <1>2, <1>5, <1>6

(* handle_probe_request preserves Roams.                                   *)
LEMMA ProbeHeardRoams ==
    ASSUME TypeOK, NEW a \in AP, NEW s \in STA, FrameHeard(s), ProbeHeard(a, s), Roams(s)
    PROVE  Roams(s)'
<1>1. UNCHANGED <<STAAPRSSIList, down, replies, timer, rssiThread, phase>>
  BY DEF FrameHeard, ProbeHeard
<1>2. /\ \A b \in AP : /\ Pair(s, b)' = Pair(s, b) /\ Status(b, s)' = Status(b, s)
                       /\ Keeps(b, s)' <=> Keeps(b, s)
      /\ \A b \in AP : \A T : "PROBE" \notin T =>
            /\ Some(up'[b], Mail(s, T)) <=> Some(up[b], Mail(s, T))
            /\ Single(up[b], Mail(s, T)) => Single(up'[b], Mail(s, T))
  BY ProbeHeardSame DEF DownSame
<1>3. \A b \in AP :
         /\ Some(up'[b], Mail(s, Joins)) <=> Some(up[b], Mail(s, Joins))
         /\ Some(up'[b], Mail(s, Leaves)) <=> Some(up[b], Mail(s, Leaves))
         /\ Some(up'[b], Mail(s, {"AUTH_REQ"})) <=> Some(up[b], Mail(s, {"AUTH_REQ"}))
         /\ Single(up[b], Mail(s, Joins)) => Single(up'[b], Mail(s, Joins))
  BY <1>2 DEF Joins, Leaves
<1>4. Staying(s)'
  BY <1>1, <1>3 DEF Roams, Staying, Sent
<1>5. OneClaims(s)'
  BY <1>1, <1>2, <1>3 DEF Roams, OneClaims, Claims, AskedAt, Sent, Bound
<1>6. OneQuestion(s)'
  BY <1>1 DEF Roams, OneQuestion, AskedAt, Bound
<1>7. Joining(s)'
  BY <1>1, <1>2, <1>3 DEF Roams, Joining, Sent, Bound
<1>8. Entering(s)'
  BY <1>1, <1>2 DEF Roams, Entering
<1> QED BY <1>4, <1>5, <1>6, <1>7, <1>8 DEF Roams

(* data_frames_rssi only starts a thread.                                  *)
LEMMA DataHeardSame ==
    ASSUME NEW a \in AP, NEW t \in Thread, NEW s \in STA, FrameHeard(s),
           DataHeard(a, t, s)
    PROVE  \A b \in AP : /\ Pair(s, b)' = Pair(s, b) /\ Status(b, s)' = Status(b, s)
                         /\ UpSame(b, s) /\ DownSame(b, s)
<1>1. UNCHANGED <<STAAPList, down, infoSTA, up>>
  BY DEF FrameHeard, DataHeard
<1>2. \A b \in AP : Pair(s, b)' = Pair(s, b) /\ Status(b, s)' = Status(b, s)
  BY <1>1 DEF Pair, Status
<1> QED BY <1>1, <1>2, NotWritten DEF UpSame

(* data_frames_rssi preserves Roams.                                       *)
LEMMA DataHeardRoams ==
    ASSUME NEW a \in AP, NEW t \in Thread, NEW s \in STA, FrameHeard(s),
           DataHeard(a, t, s), Roams(s)
    PROVE  Roams(s)'
<1>1. /\ UNCHANGED <<STAAPRSSIList, down, replies, timer, phase, up>>
      /\ phase[s] = "associated"
  BY DEF FrameHeard, DataHeard
<1>2. \A b \in AP : /\ Pair(s, b)' = Pair(s, b) /\ Status(b, s)' = Status(b, s)
                    /\ Keeps(b, s)' <=> Keeps(b, s)
  BY DataHeardSame DEF DownSame
<1>3. Staying(s)'
  BY <1>1 DEF Roams, Staying, Sent
<1>4. OneClaims(s)'
  BY <1>1, <1>2 DEF Roams, OneClaims, Claims, AskedAt, Sent, Bound
<1>5. OneQuestion(s)'
  BY <1>1 DEF Roams, OneQuestion, AskedAt, Bound
<1>6. Joining(s)'
  BY <1>1, <1>2 DEF Roams, Joining, Sent, Bound
<1>7. Entering(s)'
  BY <1>1, <1>2 DEF Roams, Entering
<1> QED BY <1>3, <1>4, <1>5, <1>6, <1>7 DEF Roams

-----------------------------------------------------------------------------

(***************************************************************************)
(* A step is an event of one station, and about that station only.         *)
(***************************************************************************)
Taken(a, i, s) ==
    /\ Takes(a, i, s)
    /\ \/ up[a][i].type = "PROBE" /\ ProbeTaken(a, s)
       \/ up[a][i].type = "AUTH_REQ" /\ StatusTaken(a, s, "AUTHENTICATED")
       \/ up[a][i].type \in Joins /\ StatusTaken(a, s, "ASSOCIATED")
       \/ up[a][i].type = "REC_POW" /\ ReportTaken(a, s)

AnswerHandled(a, s) ==
    AnswerTaken(a, s) /\ (NoMove(s) \/ \E c \in AP : Move(a, s, c))

Heard(s) ==
    /\ FrameHeard(s)
    /\ \/ \E a \in AP : ProbeHeard(a, s)
       \/ AuthChecked(s) \/ AssocChecked(s)
       \/ \E a \in AP : AuthCommitted(a, s) \/ AssocCommitted(a, s)
       \/ \E a \in AP, t \in Thread : DataHeard(a, t, s)

Event(s) ==
    \/ \E a \in AP : \E i \in 1 .. Len(up[a]) : Taken(a, i, s)
    \/ \E a \in AP : AnswerHandled(a, s)
    \/ \E a \in AP : OrderTaken(a, s) /\ Done(a, s)
    \/ \E a \in AP, t \in Thread : ThreadRuns(a, t, s) /\ Advanced(a, t, s)
    \/ Heard(s)

(* receive is about one station only.                                      *)
LEMMA TakenAbout ==
    ASSUME TypeOK, NEW a \in AP, NEW s \in STA, NEW i \in 1 .. Len(up[a]), Taken(a, i, s)
    PROVE  About(s)
<1>1. /\ up'[a] = Without(up[a], i) /\ up[a][i].sta = s
      /\ \A b \in AP : b # a => up'[b] = up[b]
      /\ UNCHANGED <<replies, infoSTA, rssiThread, timer, frame, phase>>
      /\ \A u \in STA : u # s => /\ STAAPRSSIList'[u] = STAAPRSSIList[u]
                                 /\ \A b \in AP : Pair(u, b)' = Pair(u, b)
  BY DEF Taken, Takes, TypeOK, LinkTypeOK
<1>2. \A b \in AP : UpStep(b, s) /\ RepliesStep(b, s)
  BY <1>1 DEF UpStep, RepliesStep
<1>3. \A b \in AP : DownStep(b, s)
  <2>1. CASE down' = down
    BY <2>1 DEF DownStep
  <2>2. ASSUME NEW c \in AP, NEW type \in DownType, Writes(c, type, s)
        PROVE  \A b \in AP : DownStep(b, s)
    <3> DEFINE m == [type |-> type, sta |-> s]
    <3>1. m \in DownMsg /\ m.sta = s
      BY DEF DownMsg
    <3>2. down' = [down EXCEPT ![c] = Append(@, m)]
      BY <2>2 DEF Writes
    <3> HIDE DEF m
    <3>3. /\ down'[c] = Append(down[c], m)
          /\ \A b \in AP : b # c => down'[b] = down[b]
      BY <3>2 DEF TypeOK, LinkTypeOK
    <3> QED BY <3>1, <3>3 DEF DownStep
  <2>3. \/ down' = down
        \/ Writes(a, "ADD_STA", s)
        \/ \E c \in AP : Writes(c, "LAST_REC_POW", s)
    BY DEF Taken, ProbeTaken, StatusTaken, ReportTaken
  <2> QED BY <2>1, <2>2, <2>3 DEF DownType
<1>4. \A b \in AP, u \in STA : /\ Status(b, u)' = Status(b, u)
                               /\ timer'[b][u] = timer[b][u]
                               /\ ThreadsSame(b, u) /\ FrameSame(b, u)
  BY <1>1 DEF Status, ThreadsSame, FrameSame
<1> QED BY <1>1, <1>2, <1>3, <1>4 DEF About

(* handleAPRSSI is about one station only.                                 *)
LEMMA AnswerAbout ==
    ASSUME TypeOK, NEW a \in AP, NEW s \in STA, AnswerHandled(a, s)
    PROVE  About(s)
<1>1. /\ UNCHANGED <<up, infoSTA, rssiThread, timer, frame, phase>>
      /\ replies[a] # <<>> /\ Head(replies[a]).sta = s
      /\ replies'[a] = Tail(replies[a])
      /\ \A b \in AP : b # a => replies'[b] = replies[b]
      /\ \A u \in STA : u # s => /\ STAAPRSSIList'[u] = STAAPRSSIList[u]
                                 /\ \A b \in AP : Pair(u, b)' = Pair(u, b)
  BY DEF AnswerHandled, AnswerTaken, Answer, TypeOK, LinkTypeOK
<1>2. \A b \in AP : UpStep(b, s) /\ RepliesStep(b, s)
  BY <1>1 DEF UpStep, RepliesStep
<1>3. \A b \in AP : DownStep(b, s)
  <2>1. CASE NoMove(s)
    BY <2>1 DEF NoMove, DownStep
  <2>2. ASSUME NEW c \in AP, Move(a, s, c) PROVE \A b \in AP : DownStep(b, s)
    <3> DEFINE remove == [type |-> "REMOVE_STA", sta |-> s]
               update == [type |-> "UPDATE_STA_ADD", sta |-> s]
    <3>1. remove \in DownMsg /\ update \in DownMsg /\ remove.sta = s /\ update.sta = s
      BY DEF DownMsg, DownType
    <3> HIDE DEF remove, update
    <3>2. /\ \A b \in AP : b # a /\ b # c => down'[b] = down[b]
          /\ a # c => down'[a] = Append(down[a], remove) /\ down'[c] = Append(down[c], update)
          /\ a = c => down'[a] = Append(Append(down[a], remove), update)
      BY <2>2 DEF Move, remove, update
    <3> QED BY <3>1, <3>2 DEF DownStep
  <2> QED BY <2>1, <2>2 DEF AnswerHandled
<1>4. \A b \in AP, u \in STA : /\ Status(b, u)' = Status(b, u)
                               /\ timer'[b][u] = timer[b][u]
                               /\ ThreadsSame(b, u) /\ FrameSame(b, u)
  BY <1>1 DEF Status, ThreadsSame, FrameSame
<1> QED BY <1>1, <1>2, <1>3, <1>4 DEF About

(* handle_vendor is about one station only.                                *)
LEMMA OrderAbout ==
    ASSUME TypeOK, NEW a \in AP, NEW s \in STA, OrderTaken(a, s), Done(a, s)
    PROVE  About(s)
<1>1. /\ UNCHANGED <<STAAPList, STAAPRSSIList, up, rssiThread, timer, frame, phase>>
      /\ down[a] # <<>> /\ Head(down[a]).sta = s
      /\ down'[a] = Tail(down[a])
      /\ \A b \in AP : b # a => down'[b] = down[b]
      /\ \A b \in AP, u \in STA : b # a \/ u # s => Status(b, u)' = Status(b, u)
  BY DEF OrderTaken, TypeOK, LinkTypeOK
<1>2. \A b \in AP : UpStep(b, s) /\ DownStep(b, s)
  BY <1>1 DEF UpStep, DownStep
<1>3. \A b \in AP : RepliesStep(b, s)
  <2>1. CASE replies' = replies
    BY <2>1 DEF RepliesStep
  <2>2. ASSUME NEW m \in Answer(s), replies' = [replies EXCEPT ![a] = Append(@, m)]
        PROVE  \A b \in AP : RepliesStep(b, s)
    <3>1. m \in Reply /\ m.sta = s
      BY DEF Answer
    <3>2. /\ replies'[a] = Append(replies[a], m)
          /\ \A b \in AP : b # a => replies'[b] = replies[b]
      BY <2>2 DEF TypeOK, LinkTypeOK
    <3> QED BY <3>1, <3>2 DEF RepliesStep
  <2> QED BY <2>1, <2>2 DEF Done
<1>4. \A b \in AP, u \in STA : /\ Pair(u, b)' = Pair(u, b)
                               /\ timer'[b][u] = timer[b][u]
                               /\ ThreadsSame(b, u) /\ FrameSame(b, u)
  BY <1>1 DEF Pair, ThreadsSame, FrameSame
<1> QED BY <1>1, <1>2, <1>3, <1>4 DEF About

(* process_sta_data is about one station only.                             *)
LEMMA ThreadAbout ==
    ASSUME TypeOK, NEW a \in AP, NEW t \in Thread, NEW s \in STA, ThreadRuns(a, t, s),
           Advanced(a, t, s)
    PROVE  About(s)
<1>1. /\ UNCHANGED <<STAAPList, STAAPRSSIList, down, replies, timer, frame, phase>>
      /\ \A b \in AP, u \in STA : b # a \/ u # s => Status(b, u)' = Status(b, u)
      /\ \A b \in AP, x \in Thread :
            b # a \/ x # t => rssiThread'[b][x] = rssiThread[b][x]
      /\ rssiThread'[a][t].sta \in {s, None}
  BY DEF ThreadRuns
<1>2. \A b \in AP : DownStep(b, s) /\ RepliesStep(b, s)
  BY <1>1 DEF DownStep, RepliesStep
<1>3. \A b \in AP : UpStep(b, s)
  <2>1. CASE up' = up
    BY <2>1 DEF UpStep
  <2>2. ASSUME NEW m \in Mail(s, {"REC_POW"}), up' = [up EXCEPT ![a] = Append(@, m)]
        PROVE  \A b \in AP : UpStep(b, s)
    <3>1. m \in UpMsg /\ m.sta = s
      BY DEF Mail
    <3>2. /\ up'[a] = Append(up[a], m)
          /\ \A b \in AP : b # a => up'[b] = up[b]
      BY <2>2 DEF TypeOK, LinkTypeOK
    <3> QED BY <3>1, <3>2 DEF UpStep
  <2> QED BY <2>1, <2>2 DEF Advanced
<1>4. \A b \in AP, u \in STA : /\ Pair(u, b)' = Pair(u, b)
                               /\ timer'[b][u] = timer[b][u]
                               /\ FrameSame(b, u)
  BY <1>1 DEF Pair, FrameSame
<1>5. \A b \in AP, u \in STA : u # s => ThreadsSame(b, u)
  BY <1>1, NoneAssumption DEF ThreadsSame
<1> QED BY <1>1, <1>2, <1>3, <1>4, <1>5 DEF About

(* A frame is about its station only.                                      *)
LEMMA HeardAbout ==
    ASSUME TypeOK, NEW s \in STA, Heard(s)
    PROVE  About(s)
<1>1. /\ UNCHANGED <<STAAPList, STAAPRSSIList, down, replies, timer>>
      /\ \A u \in STA : u # s => /\ phase'[u] = phase[u]
                                 /\ \A b \in AP : FrameSame(b, u)
  BY DEF Heard, FrameHeard
<1>2. \A b \in AP : DownStep(b, s) /\ RepliesStep(b, s)
  BY <1>1 DEF DownStep, RepliesStep
<1>3. \A b \in AP, u \in STA : /\ Pair(u, b)' = Pair(u, b)
                               /\ timer'[b][u] = timer[b][u]
  BY <1>1 DEF Pair
<1> SUFFICES /\ \A b \in AP : UpStep(b, s)
             /\ \A u \in STA, b \in AP : u # s => /\ Status(b, u)' = Status(b, u)
                                                  /\ ThreadsSame(b, u)
  BY <1>1, <1>2, <1>3 DEF About
<1>4. ASSUME NEW a \in AP, ProbeHeard(a, s)
      PROVE  /\ \A b \in AP : UpStep(b, s)
             /\ \A u \in STA, b \in AP : Status(b, u)' = Status(b, u) /\ ThreadsSame(b, u)
  <2>1. PICK m \in Mail(s, {"PROBE"}) : up' = [up EXCEPT ![a] = Append(@, m)]
    BY <1>4 DEF ProbeHeard
  <2>2. m \in UpMsg /\ m.sta = s
    BY DEF Mail
  <2>3. /\ up'[a] = Append(up[a], m)
        /\ \A b \in AP : b # a => up'[b] = up[b]
    BY <2>1 DEF TypeOK, LinkTypeOK
  <2>4. \A u \in STA, b \in AP : Status(b, u)' = Status(b, u) /\ ThreadsSame(b, u)
    BY <1>4 DEF ProbeHeard, Status, ThreadsSame
  <2> QED BY <2>2, <2>3, <2>4 DEF UpStep
<1>5. ASSUME NEW a \in AP, NEW to, NEW T, FrameCommitted(a, s, to, T)
      PROVE  /\ \A b \in AP : UpStep(b, s)
             /\ \A u \in STA, b \in AP : u # s => /\ Status(b, u)' = Status(b, u)
                                                  /\ ThreadsSame(b, u)
  <2>1. PICK m \in Mail(s, T) : \A b \in AP :
           up'[b] = IF b = a THEN Append(up[b], m) ELSE up[b]
    BY <1>5 DEF FrameCommitted
  <2>2. m \in UpMsg /\ m.sta = s
    BY DEF Mail
  <2>3. \A b \in AP : UpStep(b, s)
    BY <2>1, <2>2 DEF UpStep
  <2> QED BY <1>5, <2>3 DEF FrameCommitted, ThreadsSame
<1>6. ASSUME NEW a \in AP, NEW t \in Thread, DataHeard(a, t, s)
      PROVE  /\ \A b \in AP : UpStep(b, s)
             /\ \A u \in STA, b \in AP : u # s => /\ Status(b, u)' = Status(b, u)
                                                  /\ ThreadsSame(b, u)
  BY <1>6 DEF DataHeard, UpStep, Status, ThreadsSame
<1>7. ASSUME AuthChecked(s) \/ AssocChecked(s)
      PROVE  /\ \A b \in AP : UpStep(b, s)
             /\ \A u \in STA, b \in AP : Status(b, u)' = Status(b, u) /\ ThreadsSame(b, u)
  BY <1>7 DEF AuthChecked, AssocChecked, FrameChecked, UpStep, Status, ThreadsSame
<1> QED BY <1>4, <1>5, <1>6, <1>7 DEF Heard, AuthCommitted, AssocCommitted

(***************************************************************************)
(* Every step is such an event.                                            *)
(***************************************************************************)
LEMMA Events ==
    ASSUME TypeOK, Numbered, AllUp', [Next]_vars, [OnlyMoves]_vars,
           \A s \in STA : Roams(s), \A s \in STA : Framed(s)
    PROVE  \/ \E s \in STA : Event(s) /\ About(s)
           \/ UNCHANGED vars
<1>1. AllUp /\ link' = link
  BY StillUp
<1>2. \A s \in STA, a \in AP : timer[a][s] = 0 /\ ~Sent(a, s, Leaves)
  BY DEF Roams, Staying
<1>3. ASSUME NEW a \in AP, Receive(a) PROVE \E s \in STA : Event(s) /\ About(s)
  <2>1. PICK s \in STA, i \in 1 .. Len(up[a]) :
          /\ Takes(a, i, s)
          /\ \/ up[a][i].type = "PROBE" /\ ProbeTaken(a, s)
             \/ up[a][i].type = "AUTH_REQ" /\ StatusTaken(a, s, "AUTHENTICATED")
             \/ up[a][i].type \in Joins /\ StatusTaken(a, s, "ASSOCIATED")
             \/ up[a][i].type \in Leaves
             \/ up[a][i].type = "REC_POW" /\ ReportTaken(a, s)
    BY <1>1, <1>3, ReceiveCases
  <2>2. up[a][i].type \in Leaves => Some(up[a], Mail(s, Leaves))
    BY <2>1, TakenUp
  <2>3. Taken(a, i, s)
    BY <1>2, <2>1, <2>2 DEF Taken, Sent
  <2> QED BY <2>3, TakenAbout DEF Event
<1>4. ASSUME NEW a \in AP, HandleAPRSSI(a) PROVE \E s \in STA : Event(s) /\ About(s)
  <2>1. PICK s \in STA : /\ AnswerTaken(a, s)
                         /\ NoMove(s) \/ \E c \in AP : Move(a, s, c)
    BY <1>1, <1>4, AnswerCases
  <2>2. AnswerHandled(a, s)
    BY <2>1 DEF AnswerHandled
  <2> QED BY <2>2, AnswerAbout DEF Event
<1>5. ASSUME NEW a \in AP, HandleVendor(a) PROVE \E s \in STA : Event(s) /\ About(s)
  <2>1. PICK s \in STA : OrderTaken(a, s) /\ Done(a, s)
    BY <1>1, <1>5, VendorCases
  <2> QED BY <2>1, OrderAbout DEF Event
<1>6. ASSUME NEW a \in AP, NEW t \in Thread, ProcessStaData(a, t)
      PROVE  \E s \in STA : Event(s) /\ About(s)
  <2>1. PICK s \in STA : ThreadRuns(a, t, s) /\ Advanced(a, t, s)
    BY <1>6, ThreadCases
  <2> QED BY <2>1, ThreadAbout DEF Event
<1>7. ASSUME NEW s \in STA, Station(s), OnlyMoves PROVE Event(s) /\ About(s)
  <2>1. Heard(s)
    BY <1>7, StationCases DEF Heard
  <2> QED BY <2>1, HeardAbout DEF Event
<1>8. ASSUME NEW a \in AP, CommitFrame(a) PROVE \E s \in STA : Event(s) /\ About(s)
  <2>1. PICK s \in STA : FrameHeard(s) /\ (AuthCommitted(a, s) \/ AssocCommitted(a, s))
    BY <1>8, CommitCases
  <2>2. Heard(s)
    BY <2>1 DEF Heard
  <2> QED BY <2>2, HeardAbout DEF Event
<1>9. \/ \E a \in AP : \/ Receive(a) \/ HandleAPRSSI(a) \/ HandleVendor(a)
                        \/ CommitFrame(a)
      \/ \E a \in AP, t \in Thread : ProcessStaData(a, t)
      \/ \E s \in STA : Station(s) /\ OnlyMoves
      \/ UNCHANGED vars
  BY <1>2, RoamSteps
<1> QED BY <1>3, <1>4, <1>5, <1>6, <1>7, <1>8, <1>9

(* A step that changes nothing.                                            *)
LEMMA StutterSame ==
    ASSUME UNCHANGED vars, NEW s \in STA
    PROVE  Same(s)
<1>1. UNCHANGED <<STAAPList, STAAPRSSIList, down, up, replies, infoSTA, rssiThread,
                  timer, phase>>
  BY DEF vars, linkVars, ctrlVars, agentVars, envVars
<1>2. ASSUME NEW a \in AP PROVE SameAt(a, s)
  <2>1. /\ Pair(s, a)' = Pair(s, a) /\ Status(a, s)' = Status(a, s)
        /\ timer'[a][s] = timer[a][s] /\ ThreadsSame(a, s)
    BY <1>1 DEF Pair, Status, ThreadsSame
  <2> QED BY <1>1, <2>1, Untouched
<1> QED BY <1>1, <1>2 DEF Same

(***************************************************************************)
(* The first invariant is inductive.                                       *)
(***************************************************************************)
LEMMA EventRoams ==
    ASSUME TypeOK, NEW s \in STA, Event(s), Roams(s), Framed(s)
    PROVE  Roams(s)'
<1>1. ASSUME NEW a \in AP, NEW i \in 1 .. Len(up[a]), Taken(a, i, s) PROVE Roams(s)'
  BY <1>1, ProbeRoams, AuthRoams, JoinRoams, ReportRoams DEF Taken
<1>2. ASSUME NEW a \in AP, AnswerHandled(a, s) PROVE Roams(s)'
  BY <1>2, AnswerRoams DEF AnswerHandled
<1>3. ASSUME NEW a \in AP, OrderTaken(a, s), Done(a, s) PROVE Roams(s)'
  BY <1>3, VendorRoams
<1>4. ASSUME NEW a \in AP, NEW t \in Thread, ThreadRuns(a, t, s), Advanced(a, t, s)
      PROVE  Roams(s)'
  BY <1>4, ThreadRoams
<1>5. CASE Heard(s)
  <2>1. FrameHeard(s)
    BY <1>5 DEF Heard
  <2>2. CASE AuthChecked(s) \/ AssocChecked(s)
    BY <2>1, <2>2, CheckedSame, RoamsSame
  <2>3. ASSUME NEW a \in AP, AuthCommitted(a, s) \/ AssocCommitted(a, s)
        PROVE  Roams(s)'
    BY <2>1, <2>3, AuthCommittedRoams, AssocCommittedRoams
  <2> QED BY <1>5, <2>1, <2>2, <2>3, ProbeHeardRoams, DataHeardRoams DEF Heard
<1> QED BY <1>1, <1>2, <1>3, <1>4, <1>5 DEF Event

(***************************************************************************)
(* The frames that are worked on.  Framed is kept by a step that leaves    *)
(* them alone, as long as the station does not come further, the entries   *)
(* of the APs at work stay as they are, and no AP forgets it or has it     *)
(* authenticated.                                                          *)
(***************************************************************************)
LEMMA FramedKept ==
    ASSUME NEW s \in STA, Framed(s), phase'[s] = phase[s],
           \A a \in AP : FrameSame(a, s),
           \A a \in AP : frame[a].sta = s =>
              /\ Status(a, s) # "null" => Status(a, s)' # "null"
              /\ Pair(s, a) = "SELECTED" /\ phase[s] = "idle" => Pair(s, a)' = "SELECTED"
              /\ /\ Pair(s, a) \in {"SELECTED", "AUTHENTICATED"}
                 /\ phase[s] = "authenticated"
                 => Pair(s, a)' \in {"SELECTED", "AUTHENTICATED"},
           \A a \in AP : Status(a, s)' = "AUTHENTICATED" => Status(a, s) = "AUTHENTICATED"
    PROVE  Framed(s)'
<1>1. \A a \in AP : frame'[a].sta = s => frame'[a] = frame[a]
  BY DEF FrameSame
<1>2. \A a \in AP : \A T : Working(a, s, T)' => Working(a, s, T)
  BY <1>1 DEF Working
<1>3. ASSUME NEW a \in AP, frame'[a].sta = s
      PROVE  frame'[a].type \in {"AUTH_REQ"} \cup Joins /\ Status(a, s)' # "null"
  BY <1>1, <1>3 DEF Framed
<1>4. ASSUME NEW a \in AP, Working(a, s, {"AUTH_REQ"})'
      PROVE  phase'[s] = "idle" /\ Pair(s, a)' = "SELECTED"
  BY <1>2, <1>4 DEF Framed, Working
<1>5. ASSUME NEW a \in AP, Working(a, s, Joins)'
      PROVE  /\ phase'[s] = "authenticated"
             /\ Pair(s, a)' \in {"SELECTED", "AUTHENTICATED"}
             /\ \A b \in AP :
                   Status(b, s)' = "AUTHENTICATED" \/ Working(b, s, Joins)' => b = a
  <2>1. Working(a, s, Joins)
    BY <1>2, <1>5
  <2>2. /\ phase[s] = "authenticated" /\ Pair(s, a) \in {"SELECTED", "AUTHENTICATED"}
        /\ \A b \in AP : Status(b, s) = "AUTHENTICATED" \/ Working(b, s, Joins) => b = a
    BY <2>1 DEF Framed
  <2> QED BY <1>2, <2>1, <2>2 DEF Working
<1> QED BY <1>3, <1>4, <1>5 DEF Framed

(* A step about another station.                                           *)
LEMMA FramedSame ==
    ASSUME NEW s \in STA, Framed(s), Same(s), \A a \in AP : FrameSame(a, s)
    PROVE  Framed(s)'
<1>1. /\ phase'[s] = phase[s]
      /\ \A a \in AP : Pair(s, a)' = Pair(s, a) /\ Status(a, s)' = Status(a, s)
  BY DEF Same, SameAt
<1> QED BY <1>1, FramedKept

(***************************************************************************)
(* receive: an AP is at work only before the request of association, and   *)
(* on one of authentication only before any.                               *)
(***************************************************************************)
LEMMA ReceiveFramed ==
    ASSUME TypeOK, NEW a \in AP, NEW s \in STA, NEW i \in 1 .. Len(up[a]),
           Taken(a, i, s), Roams(s), Framed(s)
    PROVE  Framed(s)'
<1>1. Takes(a, i, s)
  BY DEF Taken
<1>2. /\ phase' = phase /\ frame' = frame /\ infoSTA' = infoSTA
      /\ \A b \in AP : b # a => Pair(s, b)' = Pair(s, b)
  BY <1>1 DEF Takes
<1>3. /\ \A b \in AP : FrameSame(b, s) /\ Status(b, s)' = Status(b, s)
      /\ phase'[s] = phase[s]
  BY <1>2 DEF FrameSame, Status
<1>4. up[a][i].type = "AUTH_REQ" => phase[s] # "idle"
  <2>1. up[a][i].type = "AUTH_REQ" => Some(up[a], Mail(s, {"AUTH_REQ"}))
    BY <1>1, TakenUp
  <2> QED BY <2>1 DEF Roams, Joining, Sent
<1>5. up[a][i].type \in Joins => phase[s] = "associated"
  <2>1. up[a][i].type \in Joins => Some(up[a], Mail(s, Joins))
    BY <1>1, TakenUp
  <2> QED BY <2>1 DEF Roams, Joining, Sent
<1>6. ASSUME phase[s] = "idle", Pair(s, a) = "SELECTED" PROVE Pair(s, a)' = "SELECTED"
  BY <1>4, <1>5, <1>6 DEF Taken, ProbeTaken, StatusTaken, ReportTaken
<1>7. ASSUME phase[s] = "authenticated", Pair(s, a) \in {"SELECTED", "AUTHENTICATED"}
      PROVE  Pair(s, a)' \in {"SELECTED", "AUTHENTICATED"}
  BY <1>5, <1>7 DEF Taken, ProbeTaken, StatusTaken, ReportTaken
<1> QED BY <1>2, <1>3, <1>6, <1>7, FramedKept

(***************************************************************************)
(* handle_auth and handle_assoc.  The check finds one AP: the one that is  *)
(* SELECTED, or the one where the station is AUTHENTICATED.                *)
(***************************************************************************)
LEMMA CheckedFramed ==
    ASSUME NEW s \in STA, FrameHeard(s), AuthChecked(s) \/ AssocChecked(s), Roams(s),
           Framed(s)
    PROVE  Framed(s)'
<1>1. /\ phase' = phase
      /\ \A a \in AP : Pair(s, a)' = Pair(s, a) /\ Status(a, s)' = Status(a, s)
  BY CheckedSame DEF AuthChecked, AssocChecked, FrameChecked, Same, SameAt
<1>2. CASE AuthChecked(s)
  <2>1. /\ phase[s] = "idle"
        /\ \A a \in AP : \/ frame'[a] = frame[a]
                         \/ /\ Status(a, s) = "SELECTED"
                            /\ frame'[a].sta = s /\ frame'[a].type = "AUTH_REQ"
    BY <1>2 DEF AuthChecked, FrameChecked
  <2>2. \A a \in AP : Status(a, s) = "SELECTED" => Pair(s, a) = "SELECTED"
    BY <2>1 DEF Roams, Joining
  <2>3. \A a \in AP : ~Working(a, s, Joins)
    BY <2>1 DEF Framed
  <2>4. \A a \in AP : ~Working(a, s, Joins)'
    BY <2>1, <2>3 DEF Working, Joins
  <2>5. \A a \in AP : frame'[a].sta = s => frame'[a].type \in {"AUTH_REQ"} \cup Joins
                                           /\ Status(a, s) # "null"
    BY <2>1 DEF Framed
  <2>6. \A a \in AP : Working(a, s, {"AUTH_REQ"})' => Pair(s, a) = "SELECTED"
    BY <2>1, <2>2 DEF Framed, Working
  <2> QED BY <1>1, <2>1, <2>4, <2>5, <2>6 DEF Framed
<1>3. CASE AssocChecked(s)
  <2>1. /\ phase[s] = "authenticated"
        /\ \A a \in AP : \/ frame'[a] = frame[a]
                         \/ /\ Status(a, s) = "AUTHENTICATED"
                            /\ frame'[a].sta = s /\ frame'[a].type \in Joins
    BY <1>3 DEF AssocChecked, FrameChecked
  <2>2. \A a \in AP : ~Working(a, s, {"AUTH_REQ"})
    BY <2>1 DEF Framed
  <2>3. \A a \in AP : ~Working(a, s, {"AUTH_REQ"})'
    BY <2>1, <2>2 DEF Working, Joins
  <2>4. \A a \in AP : frame'[a].sta = s => frame'[a].type \in {"AUTH_REQ"} \cup Joins
                                           /\ Status(a, s) # "null"
    BY <2>1 DEF Framed
  <2>5. \A a \in AP : Working(a, s, Joins)' =>
                         Working(a, s, Joins) \/ Status(a, s) = "AUTHENTICATED"
    BY <2>1 DEF Working
  <2>6. ASSUME NEW a \in AP, Working(a, s, Joins) \/ Status(a, s) = "AUTHENTICATED"
        PROVE  /\ Pair(s, a) \in {"SELECTED", "AUTHENTICATED"}
               /\ \A b \in AP :
                    Working(b, s, Joins) \/ Status(b, s) = "AUTHENTICATED" => b = a
    BY <2>6 DEF Framed, Roams, Entering
  <2> QED BY <1>1, <2>1, <2>3, <2>4, <2>5, <2>6 DEF Framed
<1> QED BY <1>2, <1>3

(***************************************************************************)
(* The ends of handle_auth and handle_assoc.  No other AP is at work.      *)
(***************************************************************************)
LEMMA CommittedFramed ==
    ASSUME TypeOK, OneSelected, NEW a \in AP, NEW s \in STA, FrameHeard(s),
           AuthCommitted(a, s) \/ AssocCommitted(a, s), Framed(s)
    PROVE  Framed(s)'
<1> SUFFICES \A b \in AP : frame'[b].sta # s
  BY DEF Framed, Working
<1>1. /\ frame[a].sta = s
      /\ frame'[a] = NoFrame /\ \A b \in AP : b # a => frame'[b] = frame[b]
  BY DEF AuthCommitted, AssocCommitted, FrameCommitted, Working, TypeOK, AgentTypeOK
<1>2. frame'[a].sta # s
  BY <1>1, NoneAssumption DEF NoFrame
<1>3. \A b \in AP : frame[b].sta = s => Working(b, s, {"AUTH_REQ"}) \/ Working(b, s, Joins)
  BY DEF Framed, Working
<1>4. ASSUME NEW b \in AP, frame[b].sta = s PROVE b = a
  <2>1. CASE phase[s] = "idle"
    <3>1. Working(a, s, {"AUTH_REQ"}) /\ Working(b, s, {"AUTH_REQ"})
      BY <1>1, <1>3, <1>4, <2>1 DEF Framed
    <3>2. Pair(s, a) = "SELECTED" /\ Pair(s, b) = "SELECTED"
      BY <3>1 DEF Framed
    <3> QED BY <3>2 DEF OneSelected, Pair
  <2>2. CASE phase[s] # "idle"
    <3>1. Working(a, s, Joins) /\ Working(b, s, Joins)
      BY <1>1, <1>3, <1>4, <2>2 DEF Framed
    <3> QED BY <3>1 DEF Framed
  <2> QED BY <2>1, <2>2
<1> QED BY <1>1, <1>2, <1>4

(* Every event of s preserves Framed(s).                                   *)
LEMMA EventFramed ==
    ASSUME TypeOK, OneSelected, NEW s \in STA, Event(s), Roams(s), Framed(s)
    PROVE  Framed(s)'
<1>1. ASSUME NEW a \in AP, NEW i \in 1 .. Len(up[a]), Taken(a, i, s) PROVE Framed(s)'
  BY <1>1, ReceiveFramed
<1>2. ASSUME phase[s] = "associated", phase' = phase, frame' = frame PROVE Framed(s)'
  <2>1. \A a \in AP : frame[a].sta # s
    BY <1>2 DEF Framed, Working
  <2> QED BY <1>2, <2>1 DEF Framed, Working
<1>3. ASSUME NEW a \in AP, AnswerHandled(a, s) PROVE Framed(s)'
  <2>1. AskedAt(a, s) /\ phase' = phase /\ frame' = frame
    BY <1>3, AnswerMeans DEF AnswerHandled, AnswerTaken
  <2>2. phase[s] = "associated"
    BY <2>1 DEF Roams, OneQuestion, Joining
  <2> QED BY <1>2, <2>1, <2>2
<1>4. ASSUME NEW a \in AP, OrderTaken(a, s), Done(a, s) PROVE Framed(s)'
  <2>1. /\ phase'[s] = phase[s] /\ \A b \in AP : Pair(s, b)' = Pair(s, b)
        /\ \A b \in AP : FrameSame(b, s)
        /\ \A b \in AP : b # a => Status(b, s)' = Status(b, s)
    BY <1>4 DEF OrderTaken, Pair, FrameSame
  <2>2. /\ Status(a, s) # "null" => Status(a, s)' # "null"
        /\ Status(a, s)' = "AUTHENTICATED" => Status(a, s) = "AUTHENTICATED"
    BY <1>4 DEF Done
  <2> QED BY <2>1, <2>2, FramedKept
<1>5. ASSUME NEW a \in AP, NEW t \in Thread, ThreadRuns(a, t, s), Advanced(a, t, s)
      PROVE  Framed(s)'
  <2>1. phase[s] = "associated" /\ phase' = phase /\ frame' = frame
    BY <1>5 DEF ThreadRuns, Roams, Joining
  <2> QED BY <1>2, <2>1
<1>6. CASE Heard(s)
  <2>1. FrameHeard(s)
    BY <1>6 DEF Heard
  <2>2. ASSUME NEW a \in AP, ProbeHeard(a, s) \/ \E t \in Thread : DataHeard(a, t, s)
        PROVE  Framed(s)'
    <3>1. UNCHANGED <<STAAPList, infoSTA, frame, phase>>
      BY <2>1, <2>2 DEF FrameHeard, ProbeHeard, DataHeard
    <3>2. /\ phase'[s] = phase[s]
          /\ \A b \in AP : /\ FrameSame(b, s) /\ Pair(s, b)' = Pair(s, b)
                           /\ Status(b, s)' = Status(b, s)
      BY <3>1 DEF FrameSame, Pair, Status
    <3> QED BY <3>2, FramedKept
  <2> QED BY <1>6, <2>1, <2>2, CheckedFramed, CommittedFramed DEF Heard
<1> QED BY <1>1, <1>3, <1>4, <1>5, <1>6 DEF Event

(* Every step preserves Roams and Framed, for the station it is about and  *)
(* for all others.                                                         *)
LEMMA RoamsStep ==
    ASSUME TypeOK, Numbered, OneSelected, AllUp', [Next]_vars, [OnlyMoves]_vars,
           \A s \in STA : Roams(s), \A s \in STA : Framed(s)
    PROVE  \A s \in STA : Roams(s)' /\ Framed(s)'
<1>1. ASSUME NEW u \in STA, Event(u), About(u), NEW s \in STA
      PROVE  Roams(s)' /\ Framed(s)'
  <2>1. CASE s = u
    BY <1>1, <2>1, EventRoams, EventFramed
  <2>2. CASE s # u
    <3>1. Same(s) /\ \A a \in AP : FrameSame(a, s)
      BY <1>1, <2>2, OthersSame DEF About
    <3> QED BY <3>1, RoamsSame, FramedSame
  <2> QED BY <2>1, <2>2
<1>2. CASE UNCHANGED vars
  <2>1. frame' = frame
    BY <1>2 DEF vars, agentVars
  <2>2. \A s \in STA, a \in AP : FrameSame(a, s)
    BY <2>1 DEF FrameSame
  <2> QED BY <1>2, <2>2, StutterSame, RoamsSame, FramedSame
<1> QED BY <1>1, <1>2, Events

(* Roams holds before anything has happened.                               *)
LEMMA RoamsInit == Init => \A s \in STA : Roams(s) /\ Framed(s)
<1> SUFFICES ASSUME Init, NEW s \in STA PROVE Roams(s) /\ Framed(s)
  OBVIOUS
<1>1. \A a \in AP : /\ up[a] = <<>> /\ down[a] = <<>> /\ replies[a] = <<>>
                    /\ timer[a][s] = 0
                    /\ Status(a, s) = "null" /\ Pair(s, a) = "null"
                    /\ \A t \in Thread : rssiThread[a][t].sta = None
  BY DEF Init, LinkInit, ControllerInit, AgentInit, Status, Pair, NoInfo, NoSTAAP,
         IdleThread
<1>2. ~STAAPRSSIList[s].isSent /\ phase[s] = "idle"
  BY DEF Init, ControllerInit, NoAPInfo
<1>3. \A S : ~Some(<<>>, S) /\ Single(<<>>, S)
  BY DEF Some, Single
<1>4. \A a \in AP : ~Keeps(a, s)
  <2>1. \A st, S, K : Stands(<<>>, st, S, K) => st = "ASSOCIATED"
    BY DEF Stands
  <2> QED BY <1>1, <2>1 DEF Keeps
<1>5. Staying(s) /\ Entering(s)
  BY <1>1, <1>3 DEF Staying, Entering, Sent
<1>6. OneClaims(s) /\ OneQuestion(s)
  BY <1>1, <1>3, <1>4 DEF OneClaims, OneQuestion, Claims, AskedAt, Sent, Bound
<1>7. Joining(s)
  BY <1>1, <1>2, <1>3, NoneAssumption DEF Joining, Sent, Bound
<1>8. Framed(s)
  <2>1. \A a \in AP : frame[a].sta # s
    BY NoneAssumption DEF Init, AgentInit, NoFrame
  <2> QED BY <2>1 DEF Framed, Working
<1> QED BY <1>5, <1>6, <1>7, <1>8 DEF Roams

-----------------------------------------------------------------------------

(***************************************************************************)
(* The behaviours that the guarantees of a handover are about: stations    *)
(* join once and then only move, and no connection fails.                  *)
(***************************************************************************)
Roaming == Spec /\ []AllUp /\ [][OnlyMoves]_vars

AllRoam == \A s \in STA : Roams(s) /\ Framed(s)

(* Roams and Framed hold in every state, for all stations.                           *)
LEMMA AllRoams == Roaming => [](AllRoam /\ Numbered)
<1>1. Init => AllRoam /\ Numbered
  BY RoamsInit, NumberedInit DEF AllRoam
<1>2. /\ TypeOK /\ TypeOK' /\ OneSelected /\ AllUp'
      /\ (AllRoam /\ Numbered)
      /\ [Next]_vars /\ [OnlyMoves]_vars
      => (AllRoam /\ Numbered)'
  BY RoamsStep, NumberedStep DEF AllRoam
<1> QED
  BY <1>1, <1>2, TypeCorrect, SelectedOnce, PTL DEF Spec, Roaming

(***************************************************************************)
(* handleAssocReq, handleReassocReq, handleAPRSSI: the controller never    *)
(* has a station associated at two APs at once, whichever requests, probe  *)
(* requests, reports and answers about it and about others are under way,  *)
(* and in whatever order the threads of the APs send them.                 *)
(***************************************************************************)
THEOREM AssociatedOnce == Roaming => []OneAssociated
<1>1. AllRoam => OneAssociated
  <2> SUFFICES ASSUME AllRoam, NEW s \in STA, NEW a \in findSTAAPInfo(s),
                      NEW b \in findSTAAPInfo(s)
               PROVE  a = b
    BY DEF OneAssociated
  <2>1. a \in AP /\ b \in AP /\ Pair(s, a) = "ASSOCIATED" /\ Pair(s, b) = "ASSOCIATED"
    BY DEF findSTAAPInfo, Pair
  <2> QED BY <2>1 DEF AllRoam, Roams, OneClaims, Claims
<1> QED BY <1>1, AllRoams, PTL

(***************************************************************************)
(* REMOVE_STA, UPDATE_STA_ADD: of two APs that serve a station, from the   *)
(* same BSSID, one has the order to stop in its queue.                     *)
(***************************************************************************)
THEOREM ServesOnce == Roaming => []OneServes
<1>1. TypeOK /\ AllRoam => OneServes
  <2> SUFFICES ASSUME TypeOK, AllRoam, NEW s \in STA, NEW a \in AP, NEW b \in AP, a # b,
                      Status(a, s) = "ASSOCIATED", Status(b, s) = "ASSOCIATED"
               PROVE  Coming(a, s, "REMOVE_STA") \/ Coming(b, s, "REMOVE_STA")
    BY DEF OneServes
  <2>1. ASSUME NEW c \in AP, Status(c, s) = "ASSOCIATED", ~Keeps(c, s)
        PROVE  Coming(c, s, "REMOVE_STA")
    <3>1. Some(down[c], Order(s, {"REMOVE_STA"}))
      BY <2>1 DEF Keeps, Stands
    <3>2. PICK i \in 1 .. Len(down[c]) : down[c][i] \in Order(s, {"REMOVE_STA"})
      BY <3>1 DEF Some
    <3>3. down[c][i] = [type |-> "REMOVE_STA", sta |-> s]
      BY <3>2 DEF Order, DownMsg
    <3> QED BY <3>3 DEF Coming
  <2>2. ~Keeps(a, s) \/ ~Keeps(b, s)
    BY DEF AllRoam, Roams, OneClaims, Claims
  <2> QED BY <2>1, <2>2
<1> QED BY <1>1, AllRoams, TypeCorrect, PTL DEF Roaming

-----------------------------------------------------------------------------

(***************************************************************************)
(* The second invariant: an AP serves the station, or is about to.         *)
(*                                                                         *)
(* a knows s, and no thread of a is about to mark it NOT_AUTHENTICATED.    *)
(***************************************************************************)
Safe(a, s) ==
    /\ Status(a, s) # "null"
    /\ \A t \in Thread : rssiThread[a][t].sta = s =>
          rssiThread[a][t].pc \notin {"add", "mark"}

(***************************************************************************)
(* All that makes a the AP of s, or may in the next handover.              *)
(***************************************************************************)
Trusted(a, s) ==
    \/ Pair(s, a) = "ASSOCIATED"
    \/ Status(a, s) = "AUTHENTICATED"
    \/ STAAPRSSIList[s].ap = a
    \/ AskedAt(a, s)
    \/ Sent(a, s, Joins)
    \/ Sent(a, s, {"REC_POW"})
    \/ Bound(a, s, {"UPDATE_STA_ADD"})
    \/ Stays(a, s)

Safely(s) ==
    \A a \in AP :
       /\ Trusted(a, s) => Safe(a, s)
       /\ Pair(s, a) \in {"null", "NOT_AUTHENTICATED"} => ~Stays(a, s)
       /\ \A t \in Thread :
             rssiThread[a][t].sta = s /\ rssiThread[a][t].pc \in Relying
                => Status(a, s) # "null"

(***************************************************************************)
(* Before the station is associated, an ADD_STA is the first that an AP    *)
(* hears of it.                                                            *)
(***************************************************************************)
FirstAdded(s) ==
    phase[s] # "associated" =>
       \A a \in AP :
          /\ ~Bound(a, s, {"REMOVE_STA"})
          /\ Pair(s, a) # "NOT_AUTHENTICATED"
          /\ Single(down[a], Order(s, {"ADD_STA"}))
          /\ Bound(a, s, {"ADD_STA"}) => Status(a, s) = "null"
          /\ Pair(s, a) = "null" => /\ ~Bound(a, s, {"ADD_STA"})
                                    /\ Status(a, s) = "null"

Has(s) == phase[s] = "associated" => \E a \in AP : Stays(a, s)

Lasting(s) == Safely(s) /\ FirstAdded(s) /\ Has(s)

(***************************************************************************)
(* Nothing makes an AP forget a station, and a thread adds only one that   *)
(* is not known.                                                           *)
(***************************************************************************)
LEMMA SafeKept ==
    ASSUME TypeOK, NEW s \in STA, Event(s), NEW b \in AP
    PROVE  /\ Status(b, s) # "null" => Status(b, s)' # "null"
           /\ Safe(b, s) => Safe(b, s)'
<1>1. CASE UNCHANGED <<infoSTA, rssiThread>>
  BY <1>1 DEF Safe, Status
<1>2. ASSUME NEW a \in AP, OrderTaken(a, s), Done(a, s)
      PROVE  /\ Status(b, s) # "null" => Status(b, s)' # "null"
             /\ Safe(b, s) => Safe(b, s)'
  <2>1. rssiThread' = rssiThread /\ (b # a => Status(b, s)' = Status(b, s))
    BY <1>2 DEF OrderTaken
  <2>2. Status(b, s) # "null" => Status(b, s)' # "null"
    BY <1>2, <2>1 DEF Done
  <2> QED BY <2>1, <2>2 DEF Safe
<1>3. ASSUME NEW a \in AP, NEW t \in Thread, ThreadRuns(a, t, s), Advanced(a, t, s)
      PROVE  /\ Status(b, s) # "null" => Status(b, s)' # "null"
             /\ Safe(b, s) => Safe(b, s)'
  <2>1. /\ b # a => Status(b, s)' = Status(b, s)
        /\ rssiThread[a][t].sta = s
        /\ \A x \in Thread : b # a \/ x # t => rssiThread'[b][x] = rssiThread[b][x]
    BY <1>3 DEF ThreadRuns
  <2>2. Status(b, s) # "null" => Status(b, s)' # "null"
    BY <1>3, <2>1 DEF Advanced
  <2>3. ASSUME Safe(b, s), b = a PROVE rssiThread'[a][t].pc \notin {"add", "mark"}
    BY <1>3, <2>1, <2>3 DEF Advanced, Safe
  <2> QED BY <2>1, <2>2, <2>3 DEF Safe
<1>4. ASSUME NEW a \in AP, NEW to, NEW T, FrameCommitted(a, s, to, T), to # "null"
      PROVE  /\ Status(b, s) # "null" => Status(b, s)' # "null"
             /\ Safe(b, s) => Safe(b, s)'
  BY <1>4 DEF FrameCommitted, Safe
<1>5. ASSUME NEW a \in AP, NEW t \in Thread, DataHeard(a, t, s)
      PROVE  /\ Status(b, s) # "null" => Status(b, s)' # "null"
             /\ Safe(b, s) => Safe(b, s)'
  <2>1. /\ infoSTA' = infoSTA
        /\ rssiThread'[a][t].pc = "lookup"
        /\ \A x \in Thread : b # a \/ x # t => rssiThread'[b][x] = rssiThread[b][x]
    BY <1>5 DEF DataHeard
  <2> QED BY <2>1 DEF Safe, Status
<1>6. \A a \in AP : \A i : Taken(a, i, s) => UNCHANGED <<infoSTA, rssiThread>>
  BY DEF Taken, Takes
<1>7. \A a \in AP : AnswerHandled(a, s) => UNCHANGED <<infoSTA, rssiThread>>
  BY DEF AnswerHandled, AnswerTaken
<1>8. /\ \A a \in AP : ProbeHeard(a, s) => UNCHANGED <<infoSTA, rssiThread>>
      /\ AuthChecked(s) \/ AssocChecked(s) => UNCHANGED <<infoSTA, rssiThread>>
  BY DEF ProbeHeard, AuthChecked, AssocChecked, FrameChecked
<1> QED BY <1>1, <1>2, <1>3, <1>4, <1>5, <1>6, <1>7, <1>8
           DEF Event, Heard, AuthCommitted, AssocCommitted

(* Lasting depends on nothing that a step about another station changes.   *)
LEMMA LastingSame ==
    ASSUME NEW s \in STA, Lasting(s), Same(s)
    PROVE  Lasting(s)'
<1>1. /\ phase'[s] = phase[s] /\ STAAPRSSIList'[s] = STAAPRSSIList[s]
      /\ \A a \in AP : /\ Pair(s, a)' = Pair(s, a) /\ Status(a, s)' = Status(a, s)
                       /\ ThreadsSame(a, s)
  BY DEF Same, SameAt
<1>2. \A a \in AP : \A T : /\ Some(up'[a], Mail(s, T)) <=> Some(up[a], Mail(s, T))
                           /\ Some(down'[a], Order(s, T)) <=> Some(down[a], Order(s, T))
                           /\ Single(down[a], Order(s, T)) => Single(down'[a], Order(s, T))
  BY DEF Same, SameAt, UpSame, DownSame
<1>3. \A a \in AP : /\ Stays(a, s)' <=> Stays(a, s)
                    /\ Some(replies'[a], Answer(s)) <=> Some(replies[a], Answer(s))
  BY DEF Same, SameAt, DownSame, RepliesSame
<1>4. \A a \in AP : /\ Trusted(a, s)' => Trusted(a, s)
                    /\ Safe(a, s) => Safe(a, s)'
  <2>1. \A a \in AP : Trusted(a, s)' => Trusted(a, s)
    BY <1>1, <1>2, <1>3 DEF Trusted, AskedAt, Sent, Bound
  <2> QED BY <1>1, <2>1 DEF Safe, ThreadsSame
<1>5. Safely(s)'
  BY <1>1, <1>3, <1>4 DEF Lasting, Safely, ThreadsSame
<1>6. FirstAdded(s)'
  BY <1>1, <1>2 DEF Lasting, FirstAdded, Bound
<1>7. Has(s)'
  BY <1>1, <1>3 DEF Lasting, Has
<1> QED BY <1>5, <1>6, <1>7 DEF Lasting

(***************************************************************************)
(* A thread goes on only with a station that its AP knows.                 *)
(***************************************************************************)
LEMMA RelyingKept ==
    ASSUME TypeOK, NEW s \in STA, Event(s), Safely(s), NEW b \in AP, NEW x \in Thread,
           rssiThread'[b][x].sta = s, rssiThread'[b][x].pc \in Relying
    PROVE  Status(b, s)' # "null"
<1>1. CASE rssiThread'[b][x] = rssiThread[b][x]
  BY <1>1, SafeKept DEF Safely
<1>2. ASSUME NEW a \in AP, NEW t \in Thread, ThreadRuns(a, t, s), Advanced(a, t, s)
      PROVE  Status(b, s)' # "null"
  <2>1. CASE b # a \/ x # t
    BY <1>1, <1>2, <2>1 DEF ThreadRuns
  <2>2. CASE b = a /\ x = t
    <3>1. rssiThread[a][t].pc \in Relying => Status(a, s) # "null"
      BY <1>2 DEF ThreadRuns, Safely
    <3>2. rssiThread[a][t].pc \in Relying => Status(a, s)' # "null"
      BY <3>1, SafeKept
    <3>3. CASE rssiThread[a][t].pc = "lookup"
      BY <1>2, <2>2, <3>3 DEF Advanced, Relying
    <3>4. CASE rssiThread[a][t].pc = "add"
      BY <1>2, <2>2, <3>4 DEF Advanced, Relying
    <3>5. CASE rssiThread[a][t].pc \notin {"lookup", "add"}
      BY <1>2, <2>2, <3>2, <3>5 DEF Advanced, Relying
    <3> QED BY <3>3, <3>4, <3>5
  <2> QED BY <2>1, <2>2
<1>3. ASSUME NEW a \in AP, NEW t \in Thread, DataHeard(a, t, s)
      PROVE  Status(b, s)' # "null"
  <2>1. CASE b # a \/ x # t
    BY <1>1, <1>3, <2>1 DEF DataHeard
  <2>2. CASE b = a /\ x = t
    BY <1>3, <2>2 DEF DataHeard, Relying
  <2> QED BY <2>1, <2>2
<1>4. \/ rssiThread' = rssiThread
      \/ \E a \in AP, t \in Thread : ThreadRuns(a, t, s) /\ Advanced(a, t, s)
      \/ \E a \in AP, t \in Thread : DataHeard(a, t, s)
  BY DEF Event, Taken, Takes, AnswerHandled, AnswerTaken, OrderTaken, Heard, ProbeHeard,
         AuthChecked, AssocChecked, FrameChecked, AuthCommitted, AssocCommitted,
         FrameCommitted
<1> QED BY <1>1, <1>2, <1>3, <1>4

(***************************************************************************)
(* What is left to show of an event.                                       *)
(***************************************************************************)
LEMMA SafelyKept ==
    ASSUME TypeOK, NEW s \in STA, Event(s), Safely(s),
           \A b \in AP : Trusted(b, s)' => Trusted(b, s) \/ Safe(b, s) \/ Safe(b, s)',
           \A b \in AP : Pair(s, b)' \in {"null", "NOT_AUTHENTICATED"} => ~Stays(b, s)'
    PROVE  Safely(s)'
<1>1. \A b \in AP : Trusted(b, s)' => Safe(b, s)'
  BY SafeKept DEF Safely
<1>2. \A b \in AP, x \in Thread :
         rssiThread'[b][x].sta = s /\ rssiThread'[b][x].pc \in Relying
            => Status(b, s)' # "null"
  BY RelyingKept
<1> QED BY <1>1, <1>2 DEF Safely

(***************************************************************************)
(* handleProbeReq.  It does not send ADD_STA to an AP that serves.         *)
(***************************************************************************)
LEMMA ProbeLasts ==
    ASSUME TypeOK, NEW a \in AP, NEW s \in STA, NEW i, Takes(a, i, s),
           ProbeTaken(a, s), Event(s), Lasting(s)
    PROVE  Lasting(s)'
<1>1. /\ phase'[s] = phase[s]
      /\ \A b \in AP : /\ RepliesSame(b, s)
                       /\ Status(b, s)' = Status(b, s)
      /\ \A b \in AP : b # a => Pair(s, b)' = Pair(s, b)
  BY TakenSame
<1>2. \A b \in AP : \A T : Some(up'[b], Mail(s, T)) => Some(up[b], Mail(s, T))
  BY TakenUp
<1>3. STAAPRSSIList' = STAAPRSSIList
  BY DEF ProbeTaken
<1>4. CASE Pair(s, a)' = Pair(s, a) /\ down' = down
  <2>1. \A b \in AP : Pair(s, b)' = Pair(s, b) /\ (Stays(b, s)' <=> Stays(b, s))
    BY <1>1, <1>4, NotWritten DEF DownSame
  <2>2. \A b \in AP : Trusted(b, s)' => Trusted(b, s)
    BY <1>1, <1>2, <1>3, <1>4, <2>1 DEF Trusted, AskedAt, Sent, Bound, RepliesSame
  <2>3. Safely(s)'
    <3>1. \A b \in AP : Pair(s, b)' \in {"null", "NOT_AUTHENTICATED"} => ~Stays(b, s)'
      BY <2>1 DEF Lasting, Safely
    <3> QED BY <2>2, <3>1, SafelyKept DEF Lasting
  <2>4. FirstAdded(s)' /\ Has(s)'
    BY <1>1, <1>4, <2>1 DEF Lasting, FirstAdded, Has, Bound
  <2> QED BY <2>3, <2>4 DEF Lasting
<1>5. CASE /\ Pair(s, a) \in {"null", "NOT_AUTHENTICATED"}
           /\ Pair(s, a)' = "SELECTED"
           /\ Writes(a, "ADD_STA", s)
  <2>1. /\ \A b \in AP : b # a => DownSame(b, s)
        /\ \A T : /\ Some(down'[a], Order(s, T)) <=>
                        Some(down[a], Order(s, T)) \/ "ADD_STA" \in T
                  /\ Single(down[a], Order(s, T))
                     /\ ("ADD_STA" \in T => ~Some(down[a], Order(s, T)))
                        => Single(down'[a], Order(s, T))
        /\ Stays(a, s)' => Stays(a, s)
    BY <1>1, <1>5, Written DEF DownType
  <2>2. \A b \in AP : /\ Stays(b, s)' => Stays(b, s)
                      /\ Some(down'[b], Order(s, {"LAST_REC_POW"})) =>
                            Some(down[b], Order(s, {"LAST_REC_POW"}))
                      /\ Some(down'[b], Order(s, {"UPDATE_STA_ADD"})) =>
                            Some(down[b], Order(s, {"UPDATE_STA_ADD"}))
                      /\ Some(down'[b], Order(s, {"REMOVE_STA"})) =>
                            Some(down[b], Order(s, {"REMOVE_STA"}))
    BY <2>1 DEF DownSame
  <2>3. \A b \in AP : Pair(s, b)' \in {"null", "NOT_AUTHENTICATED", "ASSOCIATED"}
                         => b # a /\ Pair(s, b)' = Pair(s, b)
    BY <1>1, <1>5
  <2>4. \A b \in AP : Trusted(b, s)' => Trusted(b, s)
    BY <1>1, <1>2, <1>3, <2>2, <2>3 DEF Trusted, AskedAt, Sent, Bound, RepliesSame
  <2>5. Safely(s)'
    <3>1. \A b \in AP : Pair(s, b)' \in {"null", "NOT_AUTHENTICATED"} => ~Stays(b, s)'
      BY <2>2, <2>3 DEF Lasting, Safely
    <3> QED BY <2>4, <3>1, SafelyKept DEF Lasting
  <2>6. FirstAdded(s)'
    <3> SUFFICES ASSUME phase[s] # "associated", NEW b \in AP
                 PROVE  /\ ~Some(down'[b], Order(s, {"REMOVE_STA"}))
                        /\ Pair(s, b)' # "NOT_AUTHENTICATED"
                        /\ Single(down'[b], Order(s, {"ADD_STA"}))
                        /\ Some(down'[b], Order(s, {"ADD_STA"})) => Status(b, s)' = "null"
                        /\ Pair(s, b)' = "null" =>
                              /\ ~Some(down'[b], Order(s, {"ADD_STA"}))
                              /\ Status(b, s)' = "null"
      BY <1>1 DEF FirstAdded, Bound
    <3>1. /\ ~Some(down[b], Order(s, {"REMOVE_STA"}))
          /\ Pair(s, b) # "NOT_AUTHENTICATED"
          /\ Single(down[b], Order(s, {"ADD_STA"}))
          /\ Some(down[b], Order(s, {"ADD_STA"})) => Status(b, s) = "null"
          /\ Pair(s, b) = "null" => /\ ~Some(down[b], Order(s, {"ADD_STA"}))
                                    /\ Status(b, s) = "null"
      BY DEF Lasting, FirstAdded, Bound
    <3>2. CASE b # a
      BY <1>1, <2>1, <3>1, <3>2 DEF DownSame
    <3>3. CASE b = a
      BY <1>1, <1>5, <2>1, <3>1, <3>3
    <3> QED BY <3>2, <3>3
  <2>7. Has(s)'
    <3>1. \A b \in AP : Stays(b, s) => b # a
      BY <1>5 DEF Lasting, Safely
    <3> QED BY <1>1, <2>1, <3>1 DEF Lasting, Has, DownSame
  <2> QED BY <2>5, <2>6, <2>7 DEF Lasting
<1> QED BY <1>4, <1>5 DEF ProbeTaken

(***************************************************************************)
(* handleAuthReq and the handlers of association.                          *)
(***************************************************************************)
LEMMA StatusLasts ==
    ASSUME TypeOK, NEW a \in AP, NEW s \in STA, NEW i, Takes(a, i, s),
           NEW status \in {"AUTHENTICATED", "ASSOCIATED"}, StatusTaken(a, s, status),
           status = "ASSOCIATED" => up[a][i].type \in Joins,
           Event(s), Roams(s), Lasting(s)
    PROVE  Lasting(s)'
<1>1. /\ phase'[s] = phase[s]
      /\ \A b \in AP : /\ RepliesSame(b, s)
                       /\ Status(b, s)' = Status(b, s)
      /\ \A b \in AP : b # a => Pair(s, b)' = Pair(s, b)
  BY TakenSame
<1>2. \A b \in AP : \A T : Some(up'[b], Mail(s, T)) => Some(up[b], Mail(s, T))
  BY TakenUp
<1>3. /\ STAAPRSSIList' = STAAPRSSIList /\ down' = down
      /\ Pair(s, a)' = IF Pair(s, a) = "null" THEN "null" ELSE status
  BY DEF StatusTaken
<1>4. \A b \in AP : Stays(b, s)' <=> Stays(b, s)
  BY <1>1, <1>3, NotWritten DEF DownSame
<1>5. status = "ASSOCIATED" => Some(up[a], Mail(s, Joins))
  BY TakenUp
<1>6. \A b \in AP : /\ Pair(s, b)' = "ASSOCIATED" => Trusted(b, s)
                    /\ Pair(s, b)' = "NOT_AUTHENTICATED" => Pair(s, b) = "NOT_AUTHENTICATED"
                    /\ Pair(s, b)' = "null" => Pair(s, b) = "null"
  BY <1>1, <1>3, <1>5 DEF Trusted, Sent
<1>7. Safely(s)'
  <2>1. \A b \in AP : Trusted(b, s)' => Trusted(b, s)
    BY <1>1, <1>2, <1>3, <1>4, <1>6 DEF Trusted, AskedAt, Sent, Bound, RepliesSame
  <2>2. \A b \in AP : Pair(s, b)' \in {"null", "NOT_AUTHENTICATED"} => ~Stays(b, s)'
    BY <1>4, <1>6 DEF Lasting, Safely
  <2> QED BY <2>1, <2>2, SafelyKept DEF Lasting
<1>8. FirstAdded(s)' /\ Has(s)'
  BY <1>1, <1>3, <1>4, <1>6 DEF Lasting, FirstAdded, Has, Bound
<1> QED BY <1>7, <1>8 DEF Lasting

(***************************************************************************)
(* handleLastRSSI.  Whoever reports is safe to become the candidate.       *)
(***************************************************************************)
LEMMA ReportLasts ==
    ASSUME TypeOK, NEW a \in AP, NEW s \in STA, NEW i, Takes(a, i, s),
           up[a][i].type = "REC_POW", ReportTaken(a, s), Event(s), Lasting(s)
    PROVE  Lasting(s)'
<1>1. /\ phase'[s] = phase[s]
      /\ \A b \in AP : /\ RepliesSame(b, s)
                       /\ Status(b, s)' = Status(b, s)
                       /\ Pair(s, b)' = Pair(s, b)
  BY TakenSame DEF ReportTaken
<1>2. /\ \A b \in AP : \A T : Some(up'[b], Mail(s, T)) => Some(up[b], Mail(s, T))
      /\ Some(up[a], Mail(s, {"REC_POW"}))
  BY TakenUp
<1>3. \A b \in AP : STAAPRSSIList'[s].ap = b => Trusted(b, s)
  BY <1>2 DEF ReportTaken, Trusted, Sent
<1>4. /\ \A b \in AP : Stays(b, s)' <=> Stays(b, s)
      /\ \A b \in AP : \A T : "LAST_REC_POW" \notin T =>
            /\ Some(down'[b], Order(s, T)) <=> Some(down[b], Order(s, T))
            /\ Single(down[b], Order(s, T)) => Single(down'[b], Order(s, T))
      /\ \A b \in AP : Some(down'[b], Order(s, {"LAST_REC_POW"})) =>
            Some(down[b], Order(s, {"LAST_REC_POW"})) \/ Pair(s, b) = "ASSOCIATED"
  <2>1. CASE down' = down
    BY <1>1, <2>1, NotWritten DEF DownSame
  <2>2. ASSUME NEW c \in AP, Pair(s, c) = "ASSOCIATED", Writes(c, "LAST_REC_POW", s)
        PROVE  /\ \A b \in AP : Stays(b, s)' <=> Stays(b, s)
               /\ \A b \in AP : \A T : "LAST_REC_POW" \notin T =>
                     /\ Some(down'[b], Order(s, T)) <=> Some(down[b], Order(s, T))
                     /\ Single(down[b], Order(s, T)) => Single(down'[b], Order(s, T))
               /\ \A b \in AP : Some(down'[b], Order(s, {"LAST_REC_POW"})) =>
                     Some(down[b], Order(s, {"LAST_REC_POW"})) \/ Pair(s, b) = "ASSOCIATED"
    <3>1. /\ \A b \in AP : b # c => DownSame(b, s)
          /\ \A T : /\ Some(down'[c], Order(s, T)) <=>
                          Some(down[c], Order(s, T)) \/ "LAST_REC_POW" \in T
                    /\ Single(down[c], Order(s, T))
                       /\ ("LAST_REC_POW" \in T => ~Some(down[c], Order(s, T)))
                          => Single(down'[c], Order(s, T))
          /\ Stays(c, s)' <=> Stays(c, s)
      BY <1>1, <2>2, Written DEF DownType
    <3> QED BY <2>2, <3>1 DEF DownSame
  <2> QED BY <2>1, <2>2 DEF ReportTaken
<1>5. Safely(s)'
  <2>1. \A b \in AP : Some(down'[b], Order(s, {"UPDATE_STA_ADD"})) =>
                         Some(down[b], Order(s, {"UPDATE_STA_ADD"}))
    BY <1>4
  <2>2. \A b \in AP : Trusted(b, s)' => Trusted(b, s)
    BY <1>1, <1>2, <1>3, <1>4, <2>1 DEF Trusted, AskedAt, Sent, Bound, RepliesSame
  <2>3. \A b \in AP : Pair(s, b)' \in {"null", "NOT_AUTHENTICATED"} => ~Stays(b, s)'
    BY <1>1, <1>4 DEF Lasting, Safely
  <2> QED BY <2>2, <2>3, SafelyKept DEF Lasting
<1>6. \A b \in AP : /\ Some(down'[b], Order(s, {"ADD_STA"})) <=>
                          Some(down[b], Order(s, {"ADD_STA"}))
                    /\ Some(down'[b], Order(s, {"REMOVE_STA"})) <=>
                          Some(down[b], Order(s, {"REMOVE_STA"}))
                    /\ Single(down[b], Order(s, {"ADD_STA"})) =>
                          Single(down'[b], Order(s, {"ADD_STA"}))
  BY <1>4
<1>7. FirstAdded(s)' /\ Has(s)'
  BY <1>1, <1>4, <1>6 DEF Lasting, FirstAdded, Has, Bound
<1> QED BY <1>5, <1>7 DEF Lasting

(***************************************************************************)
(* handleAPRSSI.  A handover goes to the candidate, which is safe, and     *)
(* makes the old AP, which is safe too, the next candidate.                *)
(***************************************************************************)
LEMMA AnswerLasts ==
    ASSUME TypeOK, NEW a \in AP, NEW s \in STA, AnswerHandled(a, s), Event(s), Roams(s),
           Lasting(s)
    PROVE  Lasting(s)'
<1>1. /\ AskedAt(a, s)
      /\ phase[s] = "associated"
      /\ \A b \in AP : /\ ~Some(replies'[b], Answer(s))
                       /\ ~Bound(b, s, {"LAST_REC_POW"})
  BY AnswerMeans DEF AnswerHandled
<1>2. UNCHANGED <<up, infoSTA, rssiThread, timer, phase>>
  BY DEF AnswerHandled, AnswerTaken
<1>3. \A b \in AP : Status(b, s)' = Status(b, s)
  BY <1>2 DEF Status
<1>4. CASE NoMove(s)
  <2>1. \A b \in AP : Pair(s, b)' = Pair(s, b) /\ (Stays(b, s)' <=> Stays(b, s))
    BY <1>3, <1>4, NotWritten DEF NoMove, DownSame
  <2>2. down' = down /\ STAAPRSSIList'[s].ap = STAAPRSSIList[s].ap
    BY <1>4 DEF NoMove
  <2>3. \A b \in AP : Trusted(b, s)' => Trusted(b, s)
    BY <1>1, <1>2, <1>3, <2>1, <2>2 DEF Trusted, AskedAt, Sent, Bound
  <2>4. \A b \in AP : Pair(s, b)' \in {"null", "NOT_AUTHENTICATED"} => ~Stays(b, s)'
    BY <2>1 DEF Lasting, Safely
  <2>5. Safely(s)'
    BY <2>3, <2>4, SafelyKept DEF Lasting
  <2> QED BY <1>1, <1>2, <2>1, <2>5 DEF Lasting, FirstAdded, Has
<1>5. ASSUME NEW c \in AP, Move(a, s, c) PROVE Lasting(s)'
  <2>1. /\ \A b \in AP : \A T :
              Some(down'[b], Order(s, T)) <=>
                 \/ Some(down[b], Order(s, T))
                 \/ b = a /\ "REMOVE_STA" \in T
                 \/ b = c /\ "UPDATE_STA_ADD" \in T
        /\ \A b \in AP : Stays(b, s)' => b = c \/ (b # a /\ Stays(b, s))
        /\ Stays(c, s)'
    BY <1>3, <1>5, MoveDown
  <2>2. \A b \in AP : /\ Some(down'[b], Order(s, {"UPDATE_STA_ADD"})) =>
                            Some(down[b], Order(s, {"UPDATE_STA_ADD"})) \/ b = c
                      /\ Some(down'[b], Order(s, {"LAST_REC_POW"})) =>
                            Some(down[b], Order(s, {"LAST_REC_POW"}))
    BY <2>1
  <2>3. /\ STAAPRSSIList[s].ap = c /\ STAAPRSSIList'[s].ap = a
        /\ Pair(s, c)' = "ASSOCIATED"
        /\ a # c => Pair(s, a)' = "NOT_AUTHENTICATED"
        /\ \A b \in AP : b # a /\ b # c => Pair(s, b)' = Pair(s, b)
    BY <1>5 DEF Move
  <2>4. Trusted(a, s) /\ Trusted(c, s)
    BY <1>1, <2>3 DEF Trusted
  <2>5. \A b \in AP : Trusted(b, s)' => Trusted(b, s)
    <3> SUFFICES ASSUME NEW b \in AP, b # a, b # c, Trusted(b, s)' PROVE Trusted(b, s)
      BY <2>4
    <3> QED BY <1>1, <1>2, <1>3, <2>1, <2>2, <2>3 DEF Trusted, AskedAt, Sent, Bound
  <2>6. ASSUME NEW b \in AP, Pair(s, b)' \in {"null", "NOT_AUTHENTICATED"}
        PROVE  ~Stays(b, s)'
    <3>1. b # c /\ (b # a => Pair(s, b) \in {"null", "NOT_AUTHENTICATED"})
      BY <2>3, <2>6
    <3> QED BY <2>1, <3>1 DEF Lasting, Safely
  <2>7. Safely(s)'
    BY <2>5, <2>6, SafelyKept DEF Lasting
  <2> QED BY <1>1, <1>2, <2>1, <2>7 DEF Lasting, FirstAdded, Has
<1> QED BY <1>4, <1>5 DEF AnswerHandled

(***************************************************************************)
(* handle_vendor.  UPDATE_STA_ADD finds the station known.                 *)
(***************************************************************************)
LEMMA VendorLasts ==
    ASSUME TypeOK, NEW a \in AP, NEW s \in STA, OrderTaken(a, s), Done(a, s), Event(s),
           Roams(s), Lasting(s)
    PROVE  Lasting(s)'
<1> DEFINE type == Head(down[a]).type
<1>1. UNCHANGED <<STAAPRSSIList, up, rssiThread, timer, phase>>
      /\ \A b \in AP : b # a => Status(b, s)' = Status(b, s)
  BY DEF OrderTaken
<1>2. /\ \A b \in AP : b # a => DownSame(b, s)
      /\ \A b \in AP : Pair(s, b)' = Pair(s, b)
      /\ \A T : /\ Some(down[a], Order(s, T)) <=>
                      Some(down'[a], Order(s, T)) \/ type \in T
                /\ Single(down[a], Order(s, T)) =>
                      /\ Single(down'[a], Order(s, T))
                      /\ type \in T => ~Some(down'[a], Order(s, T))
      /\ Stays(a, s)' => Stays(a, s)
      /\ /\ Stays(a, s)
         /\ Serves(a, s, {"REMOVE_STA", "ADD_STA"}) => Status(a, s)' = "ASSOCIATED"
         => Stays(a, s)'
  BY DoneServes, OrderSame
<1>3. \A b \in AP : \A T : Some(down'[b], Order(s, T)) => Some(down[b], Order(s, T))
  BY <1>2 DEF DownSame
<1>4. \A b \in AP : AskedAt(b, s)' => AskedAt(b, s)
  <2>1. CASE replies' = replies
    BY <1>3, <2>1 DEF AskedAt, Bound
  <2>2. ASSUME type = "LAST_REC_POW", NEW m \in Answer(s),
               replies' = [replies EXCEPT ![a] = Append(@, m)]
        PROVE  \A b \in AP : AskedAt(b, s)' => AskedAt(b, s)
    <3>1. \A b \in AP : b # a => replies'[b] = replies[b]
      BY <2>2 DEF TypeOK, LinkTypeOK
    <3>2. AskedAt(a, s)
      BY <1>2, <2>2 DEF AskedAt, Bound
    <3> QED BY <1>3, <3>1, <3>2 DEF AskedAt, Bound
  <2> QED BY <2>1, <2>2 DEF Done
<1>5. \A b \in AP : Stays(b, s)' => Stays(b, s)
  BY <1>2 DEF DownSame
<1>6. \A b \in AP : Status(b, s)' = "AUTHENTICATED" => Status(b, s) = "AUTHENTICATED"
  BY <1>1 DEF Done
<1>7. Safely(s)'
  <2>1. \A b \in AP : Trusted(b, s)' => Trusted(b, s)
    BY <1>1, <1>2, <1>3, <1>4, <1>5, <1>6 DEF Trusted, Sent, Bound
  <2>2. \A b \in AP : Pair(s, b)' \in {"null", "NOT_AUTHENTICATED"} => ~Stays(b, s)'
    BY <1>2, <1>5 DEF Lasting, Safely
  <2> QED BY <2>1, <2>2, SafelyKept DEF Lasting
<1>8. FirstAdded(s)'
  <2> SUFFICES ASSUME phase[s] # "associated", NEW b \in AP
               PROVE  /\ ~Some(down'[b], Order(s, {"REMOVE_STA"}))
                      /\ Pair(s, b)' # "NOT_AUTHENTICATED"
                      /\ Single(down'[b], Order(s, {"ADD_STA"}))
                      /\ Some(down'[b], Order(s, {"ADD_STA"})) => Status(b, s)' = "null"
                      /\ Pair(s, b)' = "null" =>
                            /\ ~Some(down'[b], Order(s, {"ADD_STA"}))
                            /\ Status(b, s)' = "null"
    BY <1>1 DEF FirstAdded, Bound
  <2>1. /\ ~Some(down[b], Order(s, {"REMOVE_STA"}))
        /\ Pair(s, b) # "NOT_AUTHENTICATED"
        /\ Single(down[b], Order(s, {"ADD_STA"}))
        /\ Some(down[b], Order(s, {"ADD_STA"})) => Status(b, s) = "null"
        /\ Pair(s, b) = "null" => /\ ~Some(down[b], Order(s, {"ADD_STA"}))
                                  /\ Status(b, s) = "null"
        /\ ~Some(down[b], Order(s, {"UPDATE_STA_ADD"}))
    BY DEF Lasting, FirstAdded, Roams, Joining, Bound
  <2>2. CASE b # a
    BY <1>1, <1>2, <2>1, <2>2 DEF DownSame
  <2>3. CASE b = a
    <3>1. type = "ADD_STA" => Some(down[a], Order(s, {"ADD_STA"}))
                              /\ ~Some(down'[a], Order(s, {"ADD_STA"}))
      BY <1>2, <2>1, <2>3
    <3>2. type # "REMOVE_STA" /\ type # "UPDATE_STA_ADD"
      BY <1>2, <2>1, <2>3
    <3>3. Status(a, s)' = Status(a, s) \/ type = "ADD_STA"
      BY <3>2 DEF Done
    <3> QED BY <1>2, <2>1, <2>3, <3>1, <3>3
  <2> QED BY <2>2, <2>3
<1>9. Has(s)'
  <2>1. Stays(a, s) => Stays(a, s)'
    <3>1. \A T : Head(down[a]) \in Order(s, T) <=> type \in T
      BY DEF OrderTaken, Order
    <3>2. type = "UPDATE_STA_ADD" => Status(a, s) # "null"
      BY <1>2 DEF Lasting, Safely, Trusted, Safe, Bound
    <3>3. Serves(a, s, {"REMOVE_STA", "ADD_STA"}) => Status(a, s)' = "ASSOCIATED"
      BY <3>1, <3>2 DEF Serves, Done
    <3> QED BY <1>2, <3>3
  <2> QED BY <1>1, <1>2, <2>1 DEF Lasting, Has, DownSame
<1> QED BY <1>7, <1>8, <1>9 DEF Lasting

(***************************************************************************)
(* process_sta_data.  A thread that reports is the only one at work on the *)
(* station, so none will mark it NOT_AUTHENTICATED afterwards.             *)
(***************************************************************************)
LEMMA ThreadLasts ==
    ASSUME TypeOK, OneThread, NEW a \in AP, NEW t \in Thread, NEW s \in STA,
           ThreadRuns(a, t, s), Advanced(a, t, s), Event(s), Roams(s), Lasting(s)
    PROVE  Lasting(s)'
<1>1. /\ UNCHANGED <<STAAPRSSIList, down, replies, timer, phase>>
      /\ \A b \in AP : b # a => Status(b, s)' = Status(b, s)
      /\ rssiThread[a][t].sta = s
      /\ \A x \in Thread : x # t => rssiThread'[a][x] = rssiThread[a][x]
  BY DEF ThreadRuns
<1>2. phase[s] = "associated"
  BY <1>1 DEF Roams, Joining
<1>3. /\ \A b \in AP : b # a => UpSame(b, s) /\ DownSame(b, s)
      /\ \A b \in AP : Pair(s, b)' = Pair(s, b)
      /\ \A T : Some(up'[a], Mail(s, T)) <=>
                   \/ Some(up[a], Mail(s, T))
                   \/ "REC_POW" \in T /\ rssiThread[a][t].pc = "report"
      /\ Stays(a, s)' => Stays(a, s)
      /\ Status(a, s)' = Status(a, s) /\ Stays(a, s) => Stays(a, s)'
  BY ThreadSame
<1>4. \A b \in AP : /\ Some(up'[b], Mail(s, Joins)) => Some(up[b], Mail(s, Joins))
                    /\ Some(up'[b], Mail(s, {"REC_POW"})) =>
                          \/ Some(up[b], Mail(s, {"REC_POW"}))
                          \/ b = a /\ rssiThread[a][t].pc = "report"
                    /\ Stays(b, s)' => Stays(b, s)
  BY <1>3 DEF Joins, UpSame, DownSame
<1>5. \A b \in AP : Status(b, s)' = "AUTHENTICATED" => Status(b, s) = "AUTHENTICATED"
  BY <1>1 DEF Advanced
<1>6. rssiThread[a][t].pc = "report" => Safe(a, s)'
  <2> SUFFICES ASSUME rssiThread[a][t].pc = "report" PROVE Safe(a, s)'
    OBVIOUS
  <2>1. Status(a, s)' # "null"
    <3>1. Status(a, s) # "null"
      BY <1>1 DEF Lasting, Safely, Relying
    <3> QED BY <3>1, SafeKept
  <2>2. rssiThread'[a][t].pc = "idle"
    BY DEF Advanced
  <2>3. ASSUME NEW x \in Thread, x # t PROVE rssiThread'[a][x].sta # s
    BY <1>1, <2>3 DEF OneThread
  <2> QED BY <2>1, <2>2, <2>3 DEF Safe
<1>7. Safely(s)'
  <2>1. \A b \in AP : Trusted(b, s)' => Trusted(b, s) \/ Safe(b, s)'
    BY <1>1, <1>3, <1>4, <1>5, <1>6 DEF Trusted, AskedAt, Sent, Bound
  <2>2. \A b \in AP : Pair(s, b)' \in {"null", "NOT_AUTHENTICATED"} => ~Stays(b, s)'
    BY <1>3, <1>4 DEF Lasting, Safely
  <2> QED BY <2>1, <2>2, SafelyKept DEF Lasting
<1>8. Stays(a, s) => Stays(a, s)'
  <2> SUFFICES ASSUME Stays(a, s) PROVE Stays(a, s)'
    OBVIOUS
  <2>1. rssiThread[a][t].pc \notin {"add", "mark"}
    BY <1>1 DEF Lasting, Safely, Trusted, Safe
  <2>2. Status(a, s)' = Status(a, s)
    BY <2>1 DEF Advanced
  <2> QED BY <1>3, <2>2
<1>9. FirstAdded(s)' /\ Has(s)'
  BY <1>1, <1>2, <1>3, <1>8 DEF Lasting, FirstAdded, Has, DownSame
<1> QED BY <1>7, <1>9 DEF Lasting

(***************************************************************************)
(* Frames.  Nobody works on a station that has not associated, so the AP   *)
(* that lets it in is safe; the ADD_STA that made it known is behind it.   *)
(***************************************************************************)
LEMMA AuthCommittedLasts ==
    ASSUME TypeOK, NEW a \in AP, NEW s \in STA, FrameHeard(s), AuthCommitted(a, s),
           Event(s), Roams(s), Framed(s), Lasting(s)
    PROVE  Lasting(s)'
<1> DEFINE In(b) == b = a
<1>1. /\ phase[s] = "idle" /\ phase'[s] = "authenticated"
      /\ UNCHANGED <<STAAPRSSIList, down, replies, timer, rssiThread>>
      /\ FrameCommitted(a, s, "AUTHENTICATED", {"AUTH_REQ"})
  BY DEF AuthCommitted, FrameHeard, FrameCommitted
<1>2. /\ \A b \in AP : Pair(s, b)' = Pair(s, b)
      /\ \A b \in AP : Status(b, s)' = IF In(b) THEN "AUTHENTICATED" ELSE Status(b, s)
      /\ \A b \in AP : \A S : "AUTH_REQ" \notin S =>
            (Some(up'[b], Mail(s, S)) => Some(up[b], Mail(s, S)))
  <2> HIDE DEF In
  <2> DEFINE T == {"AUTH_REQ"}
  <2>1. \A type \in T : type = "AUTH_REQ"
    OBVIOUS
  <2>2. FrameCommitted(a, s, "AUTHENTICATED", T)
    BY <1>1
  <2> HIDE DEF T
  <2>3. /\ \A b \in AP : Pair(s, b)' = Pair(s, b)
        /\ \A b \in AP : Status(b, s)' = IF In(b) THEN "AUTHENTICATED" ELSE Status(b, s)
        /\ \A b \in AP : ~In(b) => UpSame(b, s)
        /\ \A b \in AP : In(b) => \A S :
              Some(up'[b], Mail(s, S)) <=> Some(up[b], Mail(s, S)) \/ "AUTH_REQ" \in S
    BY <2>1, <2>2, CommittedSame DEF In
  <2> QED BY <2>3 DEF UpSame
<1>3. Status(a, s) # "null"
  BY <1>1 DEF FrameCommitted, Framed, Working
<1>4. \A b \in AP : /\ Some(up'[b], Mail(s, Joins)) => Some(up[b], Mail(s, Joins))
                    /\ Some(up'[b], Mail(s, {"REC_POW"})) =>
                          Some(up[b], Mail(s, {"REC_POW"}))
  BY <1>2 DEF Joins
<1>5. \A b \in AP : Stays(b, s)' => Stays(b, s)
  <2>1. \A b \in AP : Status(b, s)' = "ASSOCIATED" => Status(b, s) = "ASSOCIATED"
    BY <1>2
  <2> QED BY <1>1, <2>1 DEF Stays, Stands
<1>6. \A b \in AP : Status(b, s)' = "AUTHENTICATED" =>
                       Status(b, s) = "AUTHENTICATED" \/ Safe(b, s)
  BY <1>1, <1>2, <1>3 DEF Safe, Roams, Joining
<1>7. Safely(s)'
  <2>1. \A b \in AP : Trusted(b, s)' => Trusted(b, s) \/ Safe(b, s)
    BY <1>1, <1>2, <1>4, <1>5, <1>6 DEF Trusted, AskedAt, Sent, Bound
  <2>2. \A b \in AP : Pair(s, b)' \in {"null", "NOT_AUTHENTICATED"} => ~Stays(b, s)'
    BY <1>2, <1>5 DEF Lasting, Safely
  <2> QED BY <2>1, <2>2, SafelyKept DEF Lasting
<1>8. \A b \in AP : Status(b, s) = "null" <=> Status(b, s)' = "null"
  BY <1>2, <1>3
<1>9. FirstAdded(s)' /\ Has(s)'
  BY <1>1, <1>2, <1>8 DEF Lasting, FirstAdded, Has, Bound
<1> QED BY <1>7, <1>9 DEF Lasting

(* handle_assoc: the AP that accepts the station has it.                   *)
LEMMA AssocCommittedLasts ==
    ASSUME TypeOK, NEW a \in AP, NEW s \in STA, FrameHeard(s), AssocCommitted(a, s),
           Event(s), Roams(s), Framed(s), Lasting(s)
    PROVE  Lasting(s)'
<1> DEFINE In(b) == b = a
<1>1. /\ phase[s] = "authenticated" /\ phase'[s] = "associated"
      /\ UNCHANGED <<STAAPRSSIList, down, replies, timer, rssiThread>>
  BY DEF AssocCommitted, FrameHeard, FrameCommitted
<1>2. PICK type \in Joins :
      /\ \A b \in AP : Pair(s, b)' = Pair(s, b)
      /\ \A b \in AP : Status(b, s)' = IF In(b) THEN "ASSOCIATED" ELSE Status(b, s)
      /\ \A b \in AP : ~In(b) => UpSame(b, s) /\ DownSame(b, s)
      /\ \A b \in AP : In(b) => \A S :
            Some(up'[b], Mail(s, S)) <=> Some(up[b], Mail(s, S)) \/ type \in S
  BY CommittedSame DEF AssocCommitted
<1>3. In(a)
  OBVIOUS
<1>4. Working(a, s, Joins)
  BY DEF AssocCommitted, FrameCommitted
<1>5. Status(a, s) # "null" /\ Pair(s, a) \in {"SELECTED", "AUTHENTICATED"}
  BY <1>4 DEF Framed, Working
<1>6. \A b \in AP : In(b) => Safe(b, s) /\ Pair(s, b) \in {"SELECTED", "AUTHENTICATED"}
  BY <1>1, <1>3, <1>5 DEF Safe, Roams, Joining
<1> HIDE DEF In
<1>7. \A b \in AP : /\ Some(up'[b], Mail(s, {"REC_POW"})) =>
                          Some(up[b], Mail(s, {"REC_POW"}))
                    /\ Some(up'[b], Mail(s, Joins)) => Some(up[b], Mail(s, Joins)) \/ In(b)
                    /\ Stays(b, s)' => Stays(b, s) \/ In(b)
                    /\ Status(b, s)' = "AUTHENTICATED" => Status(b, s) = "AUTHENTICATED"
  BY <1>2 DEF UpSame, DownSame, Joins
<1>8. Safely(s)'
  <2>1. \A b \in AP : Trusted(b, s)' => Trusted(b, s) \/ Safe(b, s)
    BY <1>1, <1>2, <1>6, <1>7 DEF Trusted, AskedAt, Sent, Bound
  <2>2. \A b \in AP : Pair(s, b)' \in {"null", "NOT_AUTHENTICATED"} => ~Stays(b, s)'
    BY <1>2, <1>6, <1>7 DEF Lasting, Safely
  <2> QED BY <2>1, <2>2, SafelyKept DEF Lasting
<1>9. Has(s)'
  <2>1. ~Bound(a, s, {"REMOVE_STA"}) /\ ~Bound(a, s, {"ADD_STA"})
    BY <1>1, <1>5 DEF Lasting, FirstAdded
  <2>2. ~Some(down[a], Order(s, {"REMOVE_STA", "ADD_STA"}))
    BY <2>1 DEF Bound, Some, Order
  <2>3. Status(a, s)' = "ASSOCIATED"
    BY <1>2, <1>3
  <2>4. Stays(a, s)'
    BY <1>1, <2>2, <2>3 DEF Stays, Stands
  <2> QED BY <2>4 DEF Has
<1>10. FirstAdded(s)'
  BY <1>1 DEF FirstAdded
<1> QED BY <1>8, <1>9, <1>10 DEF Lasting

(* handle_probe_request and data_frames_rssi preserve Lasting.             *)
LEMMA OtherHeardLasts ==
    ASSUME TypeOK, NEW s \in STA, FrameHeard(s),
           \/ \E a \in AP : ProbeHeard(a, s)
           \/ \E a \in AP, t \in Thread : DataHeard(a, t, s),
           Event(s), Lasting(s)
    PROVE  Lasting(s)'
<1>1. UNCHANGED <<STAAPRSSIList, down, replies, phase>>
  BY DEF FrameHeard, ProbeHeard, DataHeard
<1>2. /\ \A b \in AP : /\ Pair(s, b)' = Pair(s, b) /\ Status(b, s)' = Status(b, s)
                       /\ DownSame(b, s)
      /\ \A b \in AP : \A T : "PROBE" \notin T =>
            (Some(up'[b], Mail(s, T)) <=> Some(up[b], Mail(s, T)))
  <2>1. ASSUME NEW a \in AP, ProbeHeard(a, s)
        PROVE  /\ \A b \in AP : /\ Pair(s, b)' = Pair(s, b)
                                /\ Status(b, s)' = Status(b, s)
                                /\ DownSame(b, s)
               /\ \A b \in AP : \A T : "PROBE" \notin T =>
                     (Some(up'[b], Mail(s, T)) <=> Some(up[b], Mail(s, T)))
    BY <2>1, ProbeHeardSame
  <2>2. ASSUME NEW a \in AP, NEW t \in Thread, DataHeard(a, t, s)
        PROVE  \A b \in AP : /\ Pair(s, b)' = Pair(s, b)
                             /\ Status(b, s)' = Status(b, s)
                             /\ DownSame(b, s) /\ UpSame(b, s)
    BY <2>2, DataHeardSame
  <2> QED BY <2>1, <2>2 DEF UpSame
<1>3. \A b \in AP : /\ Some(up'[b], Mail(s, Joins)) => Some(up[b], Mail(s, Joins))
                    /\ Some(up'[b], Mail(s, {"REC_POW"})) =>
                          Some(up[b], Mail(s, {"REC_POW"}))
                    /\ Stays(b, s)' <=> Stays(b, s)
  BY <1>2 DEF Joins, DownSame
<1>4. Safely(s)'
  <2>1. \A b \in AP : Trusted(b, s)' => Trusted(b, s)
    BY <1>1, <1>2, <1>3 DEF Trusted, AskedAt, Sent, Bound
  <2>2. \A b \in AP : Pair(s, b)' \in {"null", "NOT_AUTHENTICATED"} => ~Stays(b, s)'
    BY <1>2, <1>3 DEF Lasting, Safely
  <2> QED BY <2>1, <2>2, SafelyKept DEF Lasting
<1>5. FirstAdded(s)' /\ Has(s)'
  BY <1>1, <1>2, <1>3 DEF Lasting, FirstAdded, Has, Bound
<1> QED BY <1>4, <1>5 DEF Lasting

(* Every event of s preserves Lasting(s).                                  *)
LEMMA EventLasts ==
    ASSUME TypeOK, OneThread, NEW s \in STA, Event(s), Roams(s), Framed(s), Lasting(s)
    PROVE  Lasting(s)'
<1>1. ASSUME NEW a \in AP, NEW i \in 1 .. Len(up[a]), Taken(a, i, s) PROVE Lasting(s)'
  <2>1. CASE ProbeTaken(a, s)
    BY <1>1, <2>1, ProbeLasts DEF Taken
  <2>2. CASE StatusTaken(a, s, "AUTHENTICATED")
    BY <1>1, <2>2, StatusLasts DEF Taken
  <2>3. CASE up[a][i].type \in Joins /\ StatusTaken(a, s, "ASSOCIATED")
    BY <1>1, <2>3, StatusLasts DEF Taken
  <2>4. CASE up[a][i].type = "REC_POW" /\ ReportTaken(a, s)
    BY <1>1, <2>4, ReportLasts DEF Taken
  <2> QED BY <1>1, <2>1, <2>2, <2>3, <2>4 DEF Taken
<1>2. ASSUME NEW a \in AP, AnswerHandled(a, s) PROVE Lasting(s)'
  BY <1>2, AnswerLasts
<1>3. ASSUME NEW a \in AP, OrderTaken(a, s), Done(a, s) PROVE Lasting(s)'
  BY <1>3, VendorLasts
<1>4. ASSUME NEW a \in AP, NEW t \in Thread, ThreadRuns(a, t, s), Advanced(a, t, s)
      PROVE  Lasting(s)'
  BY <1>4, ThreadLasts
<1>5. CASE Heard(s)
  <2>1. FrameHeard(s)
    BY <1>5 DEF Heard
  <2>2. CASE AuthChecked(s) \/ AssocChecked(s)
    BY <2>1, <2>2, CheckedSame, LastingSame
  <2>3. ASSUME NEW a \in AP, AuthCommitted(a, s) \/ AssocCommitted(a, s)
        PROVE  Lasting(s)'
    BY <2>1, <2>3, AuthCommittedLasts, AssocCommittedLasts
  <2> QED BY <1>5, <2>1, <2>2, <2>3, OtherHeardLasts DEF Heard
<1> QED BY <1>1, <1>2, <1>3, <1>4, <1>5 DEF Event

(* Every step preserves Lasting.                                           *)
LEMMA LastingStep ==
    ASSUME TypeOK, Numbered, OneThread, AllUp', [Next]_vars, [OnlyMoves]_vars,
           \A s \in STA : Roams(s), \A s \in STA : Framed(s),
           \A s \in STA : Lasting(s)
    PROVE  \A s \in STA : Lasting(s)'
<1>1. ASSUME NEW u \in STA, Event(u), About(u), NEW s \in STA PROVE Lasting(s)'
  <2>1. CASE s = u
    BY <1>1, <2>1, EventLasts
  <2>2. CASE s # u
    BY <1>1, <2>2, OthersSame, LastingSame
  <2> QED BY <2>1, <2>2
<1>2. CASE UNCHANGED vars
  BY <1>2, StutterSame, LastingSame
<1> QED BY <1>1, <1>2, Events

(* Lasting holds before anything has happened.                             *)
LEMMA LastingInit == Init => \A s \in STA : Lasting(s)
<1> SUFFICES ASSUME Init, NEW s \in STA PROVE Lasting(s)
  OBVIOUS
<1>1. \A a \in AP : /\ up[a] = <<>> /\ down[a] = <<>> /\ replies[a] = <<>>
                    /\ Status(a, s) = "null" /\ Pair(s, a) = "null"
                    /\ \A t \in Thread : rssiThread[a][t].sta = None
  BY DEF Init, LinkInit, ControllerInit, AgentInit, Status, Pair, NoInfo, NoSTAAP,
         IdleThread
<1>2. STAAPRSSIList[s].ap = None /\ phase[s] = "idle"
  BY DEF Init, ControllerInit, NoAPInfo
<1>3. \A S : ~Some(<<>>, S) /\ Single(<<>>, S)
  BY DEF Some, Single
<1>4. \A a \in AP : ~Stays(a, s)
  <2>1. \A st, S, K : Stands(<<>>, st, S, K) => st = "ASSOCIATED"
    BY DEF Stands
  <2> QED BY <1>1, <2>1 DEF Stays
<1>5. \A a \in AP : ~Trusted(a, s)
  BY <1>1, <1>2, <1>3, <1>4, NoneAssumption DEF Trusted, AskedAt, Sent, Bound
<1>6. Safely(s)
  BY <1>1, <1>4, <1>5, NoneAssumption DEF Safely
<1>7. FirstAdded(s) /\ Has(s)
  BY <1>1, <1>2, <1>3 DEF FirstAdded, Has, Bound
<1> QED BY <1>6, <1>7 DEF Lasting

(***************************************************************************)
(* The handover is seamless: while a station believes to be associated,    *)
(* some AP serves it or has the UPDATE_STA_ADD to do so in its queue.  This *)
(* rests on an AP working on one frame of the station at a time: a second  *)
(* process_sta_data thread may still mark the station NOT_AUTHENTICATED    *)
(* after the first has offered the AP as a candidate.                      *)
(***************************************************************************)
THEOREM AlwaysServed == Roaming /\ []OneThread => []Served
<1> DEFINE L == \A s \in STA : Lasting(s)
<1>1. Init => L
  BY LastingInit
<1>2. /\ TypeOK /\ OneThread /\ AllUp' /\ (AllRoam /\ Numbered) /\ L
      /\ [Next]_vars /\ [OnlyMoves]_vars
      => L'
  BY LastingStep DEF AllRoam
<1>3. L => Served
  <2> SUFFICES ASSUME L, NEW s \in STA, phase[s] = "associated"
               PROVE  \E a \in AP : \/ Status(a, s) = "ASSOCIATED"
                                    \/ Coming(a, s, "UPDATE_STA_ADD")
    BY DEF Served
  <2>1. PICK a \in AP : Stays(a, s)
    BY DEF Lasting, Has
  <2>2. CASE Status(a, s) = "ASSOCIATED"
    BY <2>2
  <2>3. CASE Bound(a, s, {"UPDATE_STA_ADD"})
    <3>1. PICK i \in 1 .. Len(down[a]) : down[a][i] \in Order(s, {"UPDATE_STA_ADD"})
      BY <2>3 DEF Bound, Some
    <3>2. down[a][i] = [type |-> "UPDATE_STA_ADD", sta |-> s]
      BY <3>1 DEF Order, DownMsg
    <3> QED BY <3>2 DEF Coming
  <2> QED BY <2>1, <2>2, <2>3, KeepsMeans
<1> HIDE DEF L
<1> QED BY <1>1, <1>2, <1>3, AllRoams, TypeCorrect, PTL DEF Spec, Roaming

-----------------------------------------------------------------------------

(***************************************************************************)
(* The third invariant, if the threads of an AP do not overtake each other *)
(* (Reorder is FALSE).  The request of authentication that is still under  *)
(* way when the station associates is ahead of the request of association, *)
(* so that it does not undo it; the AP that is asked is the one that the   *)
(* controller has the station associated at.                               *)
(***************************************************************************)
InOrder(s) ==
    \A a \in AP :
       /\ phase[s] = "associated" =>
            Behind(up[a], Mail(s, {"AUTH_REQ"}), Mail(s, Joins))
       /\ phase[s] = "authenticated" /\ Sent(a, s, {"AUTH_REQ"}) =>
            \A b \in AP :
               Status(b, s) = "AUTHENTICATED" \/ Working(b, s, Joins) => a = b
       /\ AskedAt(a, s) => Pair(s, a) = "ASSOCIATED"

(* InOrder depends on nothing that a step about another station changes.   *)
LEMMA InOrderSame ==
    ASSUME NEW s \in STA, InOrder(s), Same(s),
           \A b \in AP : Working(b, s, Joins)' =>
                            Working(b, s, Joins) \/ Status(b, s) = "AUTHENTICATED"
    PROVE  InOrder(s)'
<1>1. /\ phase'[s] = phase[s]
      /\ \A a \in AP : Pair(s, a)' = Pair(s, a) /\ Status(a, s)' = Status(a, s)
  BY DEF Same, SameAt
<1>2. \A a \in AP : \A T :
         /\ Some(up'[a], Mail(s, T)) <=> Some(up[a], Mail(s, T))
         /\ \A S : Behind(up[a], Mail(s, S), Mail(s, T)) =>
                      Behind(up'[a], Mail(s, S), Mail(s, T))
         /\ Some(down'[a], Order(s, T)) <=> Some(down[a], Order(s, T))
         /\ Some(replies'[a], Answer(s)) <=> Some(replies[a], Answer(s))
  BY DEF Same, SameAt, UpSame, DownSame, RepliesSame
<1> QED BY <1>1, <1>2 DEF InOrder, AskedAt, Sent, Bound

(***************************************************************************)
(* The message that the controller takes is the first: what is behind      *)
(* another one stays there.                                                *)
(***************************************************************************)
LEMMA TakenInOrder ==
    ASSUME TypeOK, ~Reorder, NEW a \in AP, NEW s \in STA, NEW i, Takes(a, i, s),
           InOrder(s), \A b \in AP : AskedAt(b, s)' => Pair(s, b)' = "ASSOCIATED"
    PROVE  InOrder(s)'
<1>1. /\ phase'[s] = phase[s]
      /\ \A b \in AP : Status(b, s)' = Status(b, s)
      /\ \A b \in AP : b # a => UpSame(b, s)
  BY TakenSame
<1>2. \A b \in AP : Some(up'[b], Mail(s, {"AUTH_REQ"})) => Some(up[b], Mail(s, {"AUTH_REQ"}))
  BY TakenUp
<1>3. frame' = frame
  BY DEF Takes
<1>4. ASSUME Behind(up[a], Mail(s, {"AUTH_REQ"}), Mail(s, Joins))
      PROVE  Behind(up'[a], Mail(s, {"AUTH_REQ"}), Mail(s, Joins))
  <2>1. i = 1 /\ i \in 1 .. Len(up[a]) /\ up'[a] = Without(up[a], i)
    BY DEF Takes, TypeOK, LinkTypeOK
  <2> QED BY <1>4, <2>1, UpWithout
<1>5. \A b \in AP : /\ b # a
                    /\ Behind(up[b], Mail(s, {"AUTH_REQ"}), Mail(s, Joins))
                    => Behind(up'[b], Mail(s, {"AUTH_REQ"}), Mail(s, Joins))
  BY <1>1 DEF UpSame
<1> QED BY <1>1, <1>2, <1>4, <1>5, <1>3 DEF InOrder, Sent, Working

(***************************************************************************)
(* handleAuthReq: when its message is taken, no entry is ASSOCIATED and no *)
(* AP is asked.                                                            *)
(***************************************************************************)
LEMMA AuthBefore ==
    ASSUME TypeOK, NEW a \in AP, NEW s \in STA, NEW i, Takes(a, i, s),
           up[a][i].type = "AUTH_REQ", Roams(s), InOrder(s)
    PROVE  \A b \in AP : Pair(s, b) # "ASSOCIATED" /\ ~AskedAt(b, s)
<1>1. i \in 1 .. Len(up[a]) /\ up[a][i] \in Mail(s, {"AUTH_REQ"})
  BY DEF Takes, Mail
<1>2. phase[s] = "associated" => Some(up[a], Mail(s, Joins))
  <2>1. ASSUME Behind(up[a], Mail(s, {"AUTH_REQ"}), Mail(s, Joins))
        PROVE  Some(up[a], Mail(s, Joins))
    <3>1. PICK j \in i + 1 .. Len(up[a]) : up[a][j] \in Mail(s, Joins)
      BY <1>1, <2>1 DEF Behind
    <3>2. j \in 1 .. Len(up[a])
      BY <1>1, QueueTypes
    <3> QED BY <3>1, <3>2 DEF Some
  <2> QED BY <2>1 DEF InOrder
<1>3. phase[s] # "associated" \/ Sent(a, s, Joins)
  BY <1>2 DEF Sent
<1>4. ~STAAPRSSIList[s].isSent /\ \A b \in AP : Pair(s, b) # "ASSOCIATED"
  BY <1>3 DEF Roams, Joining
<1> QED BY <1>4 DEF Roams, OneQuestion

(***************************************************************************)
(* receive.                                                                *)
(***************************************************************************)
LEMMA ReceiveInOrder ==
    ASSUME TypeOK, ~Reorder, NEW a \in AP, NEW s \in STA, NEW i \in 1 .. Len(up[a]),
           Taken(a, i, s), Roams(s), InOrder(s)
    PROVE  InOrder(s)'
<1> SUFFICES \A b \in AP : AskedAt(b, s)' => Pair(s, b)' = "ASSOCIATED"
  BY TakenInOrder DEF Taken
<1>1. Takes(a, i, s)
  BY DEF Taken
<1>2. /\ \A b \in AP : Some(replies'[b], Answer(s)) <=> Some(replies[b], Answer(s))
      /\ \A b \in AP : Status(b, s)' = Status(b, s)
      /\ \A b \in AP : b # a => Pair(s, b)' = Pair(s, b)
  BY <1>1, TakenSame DEF RepliesSame
<1>3. ASSUME down' = down
      PROVE  \A b \in AP : AskedAt(b, s)' <=> AskedAt(b, s)
  BY <1>2, <1>3 DEF AskedAt, Bound
<1>4. CASE up[a][i].type = "PROBE" /\ ProbeTaken(a, s)
  <2>1. CASE Pair(s, a)' = Pair(s, a) /\ down' = down
    BY <1>2, <1>3, <2>1 DEF InOrder
  <2>2. ASSUME Pair(s, a) \in {"null", "NOT_AUTHENTICATED"}, Writes(a, "ADD_STA", s)
        PROVE  \A b \in AP : AskedAt(b, s)' => Pair(s, b)' = "ASSOCIATED"
    <3>1. \A b \in AP : Some(down'[b], Order(s, {"LAST_REC_POW"})) <=>
                           Some(down[b], Order(s, {"LAST_REC_POW"}))
      BY <1>2, <2>2, Written DEF DownType, DownSame
    <3>2. \A b \in AP : AskedAt(b, s)' <=> AskedAt(b, s)
      BY <1>2, <3>1 DEF AskedAt, Bound
    <3>3. ~AskedAt(a, s)
      BY <2>2 DEF InOrder
    <3> QED BY <1>2, <3>2, <3>3 DEF InOrder
  <2> QED BY <1>4, <2>1, <2>2 DEF ProbeTaken
<1>5. CASE up[a][i].type = "AUTH_REQ" /\ StatusTaken(a, s, "AUTHENTICATED")
  <2>1. \A b \in AP : ~AskedAt(b, s)
    BY <1>1, <1>5, AuthBefore
  <2> QED BY <1>3, <1>5, <2>1 DEF StatusTaken
<1>6. CASE up[a][i].type \in Joins /\ StatusTaken(a, s, "ASSOCIATED")
  <2>1. ~STAAPRSSIList[s].isSent
    BY <1>1, <1>6, JoinRoams
  <2>2. \A b \in AP : ~AskedAt(b, s)
    BY <2>1 DEF Roams, OneQuestion
  <2> QED BY <1>3, <1>6, <2>2 DEF StatusTaken
<1>7. CASE up[a][i].type = "REC_POW" /\ ReportTaken(a, s)
  <2>1. \A b \in AP : Pair(s, b)' = Pair(s, b)
    BY <1>2, <1>7 DEF ReportTaken
  <2>2. CASE down' = down
    BY <1>3, <2>1, <2>2 DEF InOrder
  <2>3. ASSUME NEW c \in AP, Pair(s, c) = "ASSOCIATED", Writes(c, "LAST_REC_POW", s)
        PROVE  \A b \in AP : AskedAt(b, s)' => Pair(s, b)' = "ASSOCIATED"
    <3>1. \A b \in AP : b # c => (Some(down'[b], Order(s, {"LAST_REC_POW"})) <=>
                                    Some(down[b], Order(s, {"LAST_REC_POW"})))
      BY <1>2, <2>3, Written DEF DownType, DownSame
    <3>2. \A b \in AP : b # c => (AskedAt(b, s)' <=> AskedAt(b, s))
      BY <1>2, <3>1 DEF AskedAt, Bound
    <3> QED BY <2>1, <2>3, <3>2 DEF InOrder
  <2> QED BY <1>7, <2>2, <2>3 DEF ReportTaken
<1> QED BY <1>4, <1>5, <1>6, <1>7 DEF Taken

(***************************************************************************)
(* handleAPRSSI: the question is over.                                     *)
(***************************************************************************)
LEMMA AnswerInOrder ==
    ASSUME TypeOK, NEW a \in AP, NEW s \in STA, AnswerHandled(a, s), Roams(s), InOrder(s)
    PROVE  InOrder(s)'
<1>1. \A b \in AP : /\ ~Some(replies'[b], Answer(s))
                    /\ ~Some(down[b], Order(s, {"LAST_REC_POW"}))
  BY AnswerMeans DEF AnswerHandled, Bound
<1>2. UNCHANGED <<up, infoSTA, frame, phase>>
  BY DEF AnswerHandled, AnswerTaken
<1>3. \A b \in AP : Status(b, s)' = Status(b, s)
  BY <1>2 DEF Status
<1>4. \A b \in AP : ~Some(down'[b], Order(s, {"LAST_REC_POW"}))
  <2>1. CASE NoMove(s)
    BY <1>1, <2>1 DEF NoMove
  <2>2. ASSUME NEW c \in AP, Move(a, s, c)
        PROVE  \A b \in AP : ~Some(down'[b], Order(s, {"LAST_REC_POW"}))
    BY <1>1, <1>3, <2>2, MoveDown
  <2> QED BY <2>1, <2>2 DEF AnswerHandled
<1>5. \A b \in AP : ~AskedAt(b, s)'
  BY <1>1, <1>4 DEF AskedAt, Bound
<1> QED BY <1>2, <1>3, <1>5 DEF InOrder, Sent, Working

(***************************************************************************)
(* handle_vendor: nobody new is asked, and no order authenticates.         *)
(***************************************************************************)
LEMMA VendorInOrder ==
    ASSUME TypeOK, NEW a \in AP, NEW s \in STA, OrderTaken(a, s), Done(a, s), InOrder(s)
    PROVE  InOrder(s)'
<1> DEFINE type == Head(down[a]).type
<1>1. /\ UNCHANGED <<up, frame, phase>>
      /\ \A b \in AP : b # a => Status(b, s)' = Status(b, s)
  BY DEF OrderTaken
<1>2. /\ \A b \in AP : b # a => DownSame(b, s)
      /\ \A b \in AP : Pair(s, b)' = Pair(s, b)
      /\ \A T : Some(down[a], Order(s, T)) <=> Some(down'[a], Order(s, T)) \/ type \in T
  BY DoneServes, OrderSame
<1>3. \A b \in AP : Status(b, s)' = "AUTHENTICATED" => Status(b, s) = "AUTHENTICATED"
  BY <1>1 DEF Done
<1>4. ASSUME NEW b \in AP, AskedAt(b, s)' PROVE AskedAt(b, s)
  <2>1. Some(down'[b], Order(s, {"LAST_REC_POW"})) => Some(down[b], Order(s, {"LAST_REC_POW"}))
    BY <1>2 DEF DownSame
  <2>2. CASE replies' = replies
    BY <1>4, <2>1, <2>2 DEF AskedAt, Bound
  <2>3. ASSUME type = "LAST_REC_POW", NEW m,
               replies' = [replies EXCEPT ![a] = Append(@, m)]
        PROVE  AskedAt(b, s)
    <3>1. Some(down[a], Order(s, {"LAST_REC_POW"}))
      BY <1>2, <2>3
    <3>2. b # a => replies'[b] = replies[b]
      BY <2>3 DEF TypeOK, LinkTypeOK
    <3> QED BY <1>4, <2>1, <3>1, <3>2 DEF AskedAt, Bound
  <2> QED BY <2>2, <2>3 DEF Done
<1> QED BY <1>1, <1>2, <1>3, <1>4 DEF InOrder, Sent, Working

(***************************************************************************)
(* process_sta_data sends signal strengths only.                           *)
(***************************************************************************)
LEMMA ThreadInOrder ==
    ASSUME TypeOK, NEW a \in AP, NEW t \in Thread, NEW s \in STA, ThreadRuns(a, t, s),
           Advanced(a, t, s), Roams(s), InOrder(s)
    PROVE  InOrder(s)'
<1>1. UNCHANGED <<down, replies, phase>>
  BY DEF ThreadRuns
<1>2. phase[s] = "associated"
  BY DEF ThreadRuns, Roams, Joining
<1>3. /\ \A b \in AP : b # a => UpSame(b, s)
      /\ \A b \in AP : Pair(s, b)' = Pair(s, b)
      /\ Behind(up[a], Mail(s, {"AUTH_REQ"}), Mail(s, Joins)) =>
            Behind(up'[a], Mail(s, {"AUTH_REQ"}), Mail(s, Joins))
  <2>1. "REC_POW" \notin {"AUTH_REQ"}
    OBVIOUS
  <2> QED BY <2>1, ThreadSame
<1>4. \A b \in AP : Behind(up[b], Mail(s, {"AUTH_REQ"}), Mail(s, Joins)) =>
                       Behind(up'[b], Mail(s, {"AUTH_REQ"}), Mail(s, Joins))
  BY <1>3 DEF UpSame
<1> QED BY <1>1, <1>2, <1>3, <1>4 DEF InOrder, AskedAt, Bound

(***************************************************************************)
(* handle_auth: the AP that lets the station in is the only one to say so. *)
(***************************************************************************)
LEMMA AuthCommittedInOrder ==
    ASSUME TypeOK, NEW a \in AP, NEW s \in STA, FrameHeard(s), AuthCommitted(a, s),
           Roams(s), Framed(s), InOrder(s)
    PROVE  InOrder(s)'
<1> DEFINE In(b) == b = a
<1>1. /\ phase[s] = "idle" /\ phase'[s] = "authenticated"
      /\ UNCHANGED <<down, replies>>
      /\ FrameCommitted(a, s, "AUTHENTICATED", {"AUTH_REQ"})
  BY DEF AuthCommitted, FrameHeard
<1>2. /\ \A b \in AP : Pair(s, b)' = Pair(s, b)
      /\ \A b \in AP : Status(b, s)' = IF In(b) THEN "AUTHENTICATED" ELSE Status(b, s)
      /\ \A b \in AP : ~In(b) => UpSame(b, s)
  BY <1>1, CommittedSame
<1>3. \A b \in AP : ~Working(b, s, Joins)'
  <2>1. frame'[a] = NoFrame /\ \A b \in AP : b # a => frame'[b] = frame[b]
    BY <1>1 DEF FrameCommitted, TypeOK, AgentTypeOK
  <2>2. \A b \in AP : ~Working(b, s, Joins)
    BY <1>1 DEF Framed
  <2> QED BY <2>1, <2>2, NoneAssumption DEF Working, NoFrame
<1>4. \A b \in AP : /\ Status(b, s) # "AUTHENTICATED"
                    /\ ~Some(up[b], Mail(s, {"AUTH_REQ"}))
  BY <1>1 DEF Roams, Entering, Joining, Sent
<1>5. \A b \in AP : /\ Status(b, s)' = "AUTHENTICATED" => In(b)
                    /\ Some(up'[b], Mail(s, {"AUTH_REQ"})) => In(b)
  BY <1>2, <1>4 DEF UpSame
<1> QED BY <1>1, <1>2, <1>3, <1>5 DEF InOrder, AskedAt, Bound, Sent

(***************************************************************************)
(* handle_assoc: the AP that accepts the station is the one whose request  *)
(* of authentication may be under way, and its next request is behind it.  *)
(***************************************************************************)
LEMMA AssocCommittedInOrder ==
    ASSUME TypeOK, NEW a \in AP, NEW s \in STA, FrameHeard(s), AssocCommitted(a, s),
           InOrder(s)
    PROVE  InOrder(s)'
<1> DEFINE In(b) == b = a
<1>1. /\ phase[s] = "authenticated" /\ phase'[s] = "associated"
      /\ UNCHANGED <<down, replies>>
      /\ FrameCommitted(a, s, "ASSOCIATED", Joins)
  BY DEF AssocCommitted, FrameHeard
<1>2. PICK type \in Joins :
      /\ \A b \in AP : Pair(s, b)' = Pair(s, b)
      /\ \A b \in AP : ~In(b) => UpSame(b, s)
      /\ \A b \in AP : In(b) => \A S : \A R :
            type \notin R /\ (type \in S \/ Behind(up[b], Mail(s, R), Mail(s, S)))
               => Behind(up'[b], Mail(s, R), Mail(s, S))
  <2> HIDE DEF In
  <2> QED BY <1>1, CommittedSame DEF In
<1>3. \A b \in AP : Sent(b, s, {"AUTH_REQ"}) => b = a
  BY <1>1 DEF InOrder, FrameCommitted
<1>4. type \notin {"AUTH_REQ"}
  BY DEF Joins
<1>5. ASSUME NEW b \in AP
      PROVE  Behind(up'[b], Mail(s, {"AUTH_REQ"}), Mail(s, Joins))
  <2>1. CASE In(b)
    BY <1>2, <1>4, <2>1
  <2>2. CASE ~In(b)
    <3>1. ~Some(up[b], Mail(s, {"AUTH_REQ"}))
      BY <1>3, <2>2 DEF Sent
    <3>2. ~Some(up'[b], Mail(s, {"AUTH_REQ"}))
      BY <1>2, <2>2, <3>1 DEF UpSame
    <3> QED BY <3>2 DEF Some, Behind
  <2> QED BY <2>1, <2>2
<1> QED BY <1>1, <1>2, <1>5 DEF InOrder, AskedAt, Bound

(***************************************************************************)
(* handle_probe_request and data_frames_rssi.                              *)
(***************************************************************************)
LEMMA OtherHeardInOrder ==
    ASSUME TypeOK, NEW a \in AP, NEW s \in STA, FrameHeard(s),
           ProbeHeard(a, s) \/ \E t \in Thread : DataHeard(a, t, s), InOrder(s)
    PROVE  InOrder(s)'
<1>1. UNCHANGED <<down, replies, frame, phase>>
  BY DEF FrameHeard, ProbeHeard, DataHeard
<1>2. ASSUME ProbeHeard(a, s)
      PROVE  \A b \in AP :
               /\ Pair(s, b)' = Pair(s, b) /\ Status(b, s)' = Status(b, s)
               /\ Some(up'[b], Mail(s, {"AUTH_REQ"})) <=> Some(up[b], Mail(s, {"AUTH_REQ"}))
               /\ Behind(up[b], Mail(s, {"AUTH_REQ"}), Mail(s, Joins)) =>
                     Behind(up'[b], Mail(s, {"AUTH_REQ"}), Mail(s, Joins))
  <2>1. "PROBE" \notin {"AUTH_REQ"} /\ "PROBE" \notin Joins
    BY DEF Joins
  <2> QED BY <1>2, <2>1, ProbeHeardSame
<1>3. ASSUME NEW t \in Thread, DataHeard(a, t, s)
      PROVE  \A b \in AP :
               /\ Pair(s, b)' = Pair(s, b) /\ Status(b, s)' = Status(b, s)
               /\ Some(up'[b], Mail(s, {"AUTH_REQ"})) <=> Some(up[b], Mail(s, {"AUTH_REQ"}))
               /\ Behind(up[b], Mail(s, {"AUTH_REQ"}), Mail(s, Joins)) =>
                     Behind(up'[b], Mail(s, {"AUTH_REQ"}), Mail(s, Joins))
  BY <1>3, DataHeardSame DEF UpSame
<1> QED BY <1>1, <1>2, <1>3 DEF InOrder, AskedAt, Bound, Sent, Working

(* Every event of s preserves InOrder(s).                                  *)
LEMMA EventInOrder ==
    ASSUME TypeOK, ~Reorder, NEW s \in STA, Event(s), Roams(s), Framed(s), InOrder(s)
    PROVE  InOrder(s)'
<1>1. ASSUME NEW a \in AP, NEW i \in 1 .. Len(up[a]), Taken(a, i, s) PROVE InOrder(s)'
  BY <1>1, ReceiveInOrder
<1>2. ASSUME NEW a \in AP, AnswerHandled(a, s) PROVE InOrder(s)'
  BY <1>2, AnswerInOrder
<1>3. ASSUME NEW a \in AP, OrderTaken(a, s), Done(a, s) PROVE InOrder(s)'
  BY <1>3, VendorInOrder
<1>4. ASSUME NEW a \in AP, NEW t \in Thread, ThreadRuns(a, t, s), Advanced(a, t, s)
      PROVE  InOrder(s)'
  BY <1>4, ThreadInOrder
<1>5. CASE Heard(s)
  <2>1. FrameHeard(s)
    BY <1>5 DEF Heard
  <2>2. CASE AuthChecked(s) \/ AssocChecked(s)
    <3>1. \A b \in AP : Working(b, s, Joins)' =>
                           Working(b, s, Joins) \/ Status(b, s) = "AUTHENTICATED"
      BY <2>2 DEF AuthChecked, AssocChecked, FrameChecked, Working, Joins
    <3> QED BY <2>1, <2>2, <3>1, CheckedSame, InOrderSame
  <2>3. ASSUME NEW a \in AP, AuthCommitted(a, s) \/ AssocCommitted(a, s)
        PROVE  InOrder(s)'
    BY <2>1, <2>3, AuthCommittedInOrder, AssocCommittedInOrder
  <2> QED BY <1>5, <2>1, <2>2, <2>3, OtherHeardInOrder DEF Heard
<1> QED BY <1>1, <1>2, <1>3, <1>4, <1>5 DEF Event

(* Every step preserves InOrder.                                           *)
LEMMA InOrderStep ==
    ASSUME TypeOK, Numbered, ~Reorder, AllUp', [Next]_vars, [OnlyMoves]_vars,
           \A s \in STA : Roams(s), \A s \in STA : Framed(s),
           \A s \in STA : InOrder(s)
    PROVE  \A s \in STA : InOrder(s)'
<1>1. ASSUME NEW u \in STA, Event(u), About(u), NEW s \in STA PROVE InOrder(s)'
  <2>1. CASE s = u
    BY <1>1, <2>1, EventInOrder
  <2>2. CASE s # u
    <3>1. \A b \in AP : Working(b, s, Joins)' => Working(b, s, Joins)
      BY <1>1, <2>2 DEF About, FrameSame, Working
    <3> QED BY <1>1, <2>2, <3>1, OthersSame, InOrderSame
  <2> QED BY <2>1, <2>2
<1>2. CASE UNCHANGED vars
  <2>1. \A s \in STA, b \in AP : Working(b, s, Joins)' => Working(b, s, Joins)
    BY <1>2 DEF vars, agentVars, Working
  <2> QED BY <1>2, <2>1, StutterSame, InOrderSame
<1> QED BY <1>1, <1>2, Events

(* InOrder holds before anything has happened.                             *)
LEMMA InOrderInit == Init => \A s \in STA : InOrder(s)
<1> SUFFICES ASSUME Init, NEW s \in STA PROVE InOrder(s)
  OBVIOUS
<1>1. /\ \A a \in AP : down[a] = <<>> /\ replies[a] = <<>>
      /\ phase[s] = "idle"
  BY DEF Init, LinkInit
<1>2. \A S : ~Some(<<>>, S)
  BY DEF Some
<1> QED BY <1>1, <1>2 DEF InOrder, AskedAt, Bound

AllInOrder == \A s \in STA : InOrder(s)

(* InOrder holds in every state, for all stations.                         *)
LEMMA AllOrdered ==
    ASSUME ~Reorder
    PROVE  Roaming => []AllInOrder
<1>1. Init => AllInOrder
  BY InOrderInit DEF AllInOrder
<1>2. /\ TypeOK /\ AllUp' /\ (AllRoam /\ Numbered) /\ AllInOrder
      /\ [Next]_vars /\ [OnlyMoves]_vars
      => AllInOrder'
  BY InOrderStep DEF AllRoam, AllInOrder
<1> QED
  BY <1>1, <1>2, AllRoams, TypeCorrect, PTL DEF Spec, Roaming

(***************************************************************************)
(* An AP that is asked is the only one with an ASSOCIATED entry.           *)
(***************************************************************************)
LEMMA AskedServes ==
    ASSUME NEW s \in STA, NEW a \in AP, AskedAt(a, s), Roams(s), InOrder(s)
    PROVE  findSTAAPInfo(s) = {a}
<1>1. Pair(s, a) = "ASSOCIATED"
  BY DEF InOrder
<1>2. \A b \in AP : Pair(s, b) = "ASSOCIATED" => b = a
  BY <1>1 DEF Roams, OneClaims, Claims
<1> QED BY <1>1, <1>2 DEF findSTAAPInfo, Pair

(***************************************************************************)
(* handleAPRSSI moves a station only away from the one AP that serves it:  *)
(* no answer is left over from before an earlier handover, however often   *)
(* and between whichever APs the station is moved.                         *)
(***************************************************************************)
THEOREM MovesServing ==
    ASSUME ~Reorder
    PROVE  Roaming => MovesFromServing
<1> DEFINE From == \A a \in AP : Handover(a) => findSTAAPInfo(Head(replies[a]).sta) = {a}
<1>1. TypeOK /\ AllRoam /\ AllInOrder => From
  <2> SUFFICES ASSUME TypeOK, AllRoam, AllInOrder, NEW a \in AP, Handover(a)
               PROVE  findSTAAPInfo(Head(replies[a]).sta) = {a}
    OBVIOUS
  <2> DEFINE m == Head(replies[a])
  <2>1. replies[a] # <<>> /\ replies[a] \in Seq(Reply)
    BY QueueTypes DEF Handover
  <2>2. m \in Reply /\ 1 \in 1 .. Len(replies[a]) /\ replies[a][1] = m
    BY <2>1
  <2>3. m.sta \in STA /\ m \in Answer(m.sta)
    BY <2>2 DEF Reply, Answer
  <2>4. AskedAt(a, m.sta)
    BY <2>2, <2>3 DEF AskedAt, Some
  <2> QED BY <2>3, <2>4, AskedServes DEF AllRoam, AllInOrder
<1>2. From => [From]_vars
  OBVIOUS
<1> HIDE DEF From
<1>3. Roaming => [][From]_vars
  BY <1>1, <1>2, AllRoams, AllOrdered, TypeCorrect, PTL DEF Roaming
<1> QED BY <1>3 DEF MovesFromServing, From

-----------------------------------------------------------------------------

(***************************************************************************)
(* The promise of module Attachment.  What an event of s does to the APs   *)
(* where the controller has it associated.                                 *)
(***************************************************************************)
LEMMA EventAttaches ==
    ASSUME TypeOK, ~Reorder, NEW s \in STA, Event(s), Roams(s), InOrder(s)
    PROVE  \/ findSTAAPInfo(s)' = findSTAAPInfo(s)
           \/ \E a \in AP : findSTAAPInfo(s) = {} /\ findSTAAPInfo(s)' = {a}
           \/ \E a, c \in AP :
                 a # c /\ findSTAAPInfo(s) = {a} /\ findSTAAPInfo(s)' = {c}
<1> DEFINE Stutters == findSTAAPInfo(s)' = findSTAAPInfo(s)
<1>1. /\ findSTAAPInfo(s) = {b \in AP : Pair(s, b) = "ASSOCIATED"}
      /\ findSTAAPInfo(s)' = {b \in AP : Pair(s, b)' = "ASSOCIATED"}
  BY DEF findSTAAPInfo, Pair
<1>2. ASSUME \A b \in AP : Pair(s, b)' = "ASSOCIATED" <=> Pair(s, b) = "ASSOCIATED"
      PROVE  Stutters
  BY <1>1, <1>2
<1>3. ASSUME NEW a \in AP, NEW i \in 1 .. Len(up[a]), Taken(a, i, s)
      PROVE  Stutters \/ (findSTAAPInfo(s) = {} /\ findSTAAPInfo(s)' = {a})
  <2>1. Takes(a, i, s)
    BY <1>3 DEF Taken
  <2>2. \A b \in AP : b # a => Pair(s, b)' = Pair(s, b)
    BY <2>1, TakenSame
  <2>3. CASE ProbeTaken(a, s) \/ ReportTaken(a, s)
    BY <1>2, <2>2, <2>3 DEF ProbeTaken, ReportTaken
  <2>4. CASE up[a][i].type = "AUTH_REQ" /\ StatusTaken(a, s, "AUTHENTICATED")
    <3>1. Pair(s, a) # "ASSOCIATED"
      BY <2>1, <2>4, AuthBefore
    <3> QED BY <1>2, <2>2, <2>4, <3>1 DEF StatusTaken
  <2>5. CASE up[a][i].type \in Joins /\ StatusTaken(a, s, "ASSOCIATED")
    <3>1. \A b \in AP : Pair(s, b) # "ASSOCIATED"
      BY <2>1, <2>5, JoinRoams
    <3>2. CASE Pair(s, a)' = "ASSOCIATED"
      BY <1>1, <2>2, <3>1, <3>2
    <3>3. CASE Pair(s, a)' # "ASSOCIATED"
      BY <1>2, <2>2, <3>1, <3>3
    <3> QED BY <3>2, <3>3
  <2> QED BY <1>3, <2>3, <2>4, <2>5 DEF Taken
<1>4. ASSUME NEW a \in AP, AnswerTaken(a, s), NEW c \in AP, Move(a, s, c)
      PROVE  Stutters \/ (a # c /\ findSTAAPInfo(s) = {a} /\ findSTAAPInfo(s)' = {c})
  <2>1. findSTAAPInfo(s) = {a}
    BY <1>4, AnswerMeans, AskedServes
  <2>2. \A b \in AP : Pair(s, b)' = "ASSOCIATED" <=> b = c
    <3>1. /\ Pair(s, c)' = "ASSOCIATED"
          /\ \A b \in AP : b # c => IF b = a THEN Pair(s, b)' = "NOT_AUTHENTICATED"
                                             ELSE Pair(s, b)' = Pair(s, b)
      BY <1>4 DEF Move
    <3> QED BY <1>1, <2>1, <3>1
  <2> QED BY <1>1, <2>1, <2>2
<1>5. ASSUME NoMove(s) PROVE Stutters
  BY <1>2, <1>5 DEF NoMove
<1>6. ASSUME UNCHANGED STAAPList PROVE Stutters
  BY <1>2, <1>6 DEF Pair
<1>7. ASSUME NEW a \in AP, AnswerHandled(a, s)
      PROVE  \/ Stutters
             \/ \E c \in AP : a # c /\ findSTAAPInfo(s) = {a} /\ findSTAAPInfo(s)' = {c}
  BY <1>4, <1>5, <1>7 DEF AnswerHandled
<1>8. \/ \E a \in AP : \E i \in 1 .. Len(up[a]) : Taken(a, i, s)
      \/ \E a \in AP : AnswerHandled(a, s)
      \/ UNCHANGED STAAPList
  BY DEF Event, OrderTaken, ThreadRuns, Heard, FrameHeard
<1> QED BY <1>3, <1>6, <1>7, <1>8

(***************************************************************************)
(* The controller's lists implement Attachment: a station gets an AP in    *)
(* one step, and from then on has exactly one, which is replaced by        *)
(* another in the single step of a handover.                               *)
(***************************************************************************)
THEOREM AttachmentImplemented ==
    ASSUME ~Reorder
    PROVE  Roaming => ImplementsAttachment
<1> DEFINE serving == [s \in STA |-> findSTAAPInfo(s)]
<1>1. Init => Promise!Init
  <2> SUFFICES ASSUME Init PROVE \A s \in STA : findSTAAPInfo(s) = {}
    BY DEF Promise!Init
  <2> QED BY DEF Init, ControllerInit, findSTAAPInfo, NoSTAAP
<1>2. ASSUME TypeOK, Numbered, AllUp', [Next]_vars, [OnlyMoves]_vars, AllRoam, AllInOrder
      PROVE  [Promise!Next]_serving
  <2>1. CASE UNCHANGED vars
    BY <2>1 DEF vars, ctrlVars, findSTAAPInfo
  <2>2. ASSUME NEW s \in STA, Event(s), About(s) PROVE [Promise!Next]_serving
    <3>1. \A u \in STA : u # s => findSTAAPInfo(u)' = findSTAAPInfo(u)
      BY <2>2 DEF About, findSTAAPInfo, Pair
    <3>2. CASE findSTAAPInfo(s)' = findSTAAPInfo(s)
      BY <3>1, <3>2
    <3>3. ASSUME NEW a \in AP, findSTAAPInfo(s) = {}, findSTAAPInfo(s)' = {a}
          PROVE  Promise!Join(s, a)
      BY <3>1, <3>3 DEF Promise!Join
    <3>4. ASSUME NEW a \in AP, NEW c \in AP, a # c,
                 findSTAAPInfo(s) = {a}, findSTAAPInfo(s)' = {c}
          PROVE  Promise!Move(s, a, c)
      BY <3>1, <3>4 DEF Promise!Move
    <3>5. Promise!Next \/ findSTAAPInfo(s)' = findSTAAPInfo(s)
      BY <1>2, <2>2, <3>3, <3>4, EventAttaches DEF Promise!Next, AllRoam, AllInOrder
    <3> QED BY <3>2, <3>5
  <2> QED BY <1>2, <2>1, <2>2, Events DEF AllRoam
<1>3. /\ TypeOK /\ AllUp' /\ (AllRoam /\ Numbered) /\ AllInOrder
      /\ [Next]_vars /\ [OnlyMoves]_vars
      => [Promise!Next]_serving
  BY <1>2
<1> QED
  BY <1>1, <1>3, AllRoams, AllOrdered, TypeCorrect, PTL
     DEF Spec, Roaming, ImplementsAttachment, Promise!Spec
=============================================================================
