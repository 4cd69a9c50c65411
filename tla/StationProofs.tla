--------------------------- MODULE StationProofs ----------------------------
(***************************************************************************)
(* Proofs about Handover that relate the controller, the queues and the    *)
(* tables of the access points: QuestionPending, OnlyChosen and OnlyKnown. *)
(***************************************************************************)
EXTENDS HandoverProofs, FiniteSetTheorems

-----------------------------------------------------------------------------

(***************************************************************************)
(* What the steps of the controller do, in the form in which the           *)
(* invariants need it.                                                     *)
(***************************************************************************)

(***************************************************************************)
(* d holds what c holds, in the same places, and perhaps more.             *)
(***************************************************************************)
Longer(c, d) ==
    \A a \in AP : /\ Len(c[a]) <= Len(d[a])
                  /\ \A i \in 1 .. Len(c[a]) : d[a][i] = c[a][i]

(***************************************************************************)
(* What d has more is m, at the end of the queue of a.                     *)
(***************************************************************************)
OnlyMore(c, d, a, m) ==
    \A b \in AP : \A i \in 1 .. Len(d[b]) :
       i <= Len(c[b]) \/ (b = a /\ d[b][i] = m)

(***************************************************************************)
(* A queue with one more message.                                          *)
(***************************************************************************)
LEMMA Appended ==
    ASSUME NEW S, NEW q \in Seq(S), NEW m \in S
    PROVE  /\ Append(q, m) \in Seq(S)
           /\ Len(Append(q, m)) = Len(q) + 1
           /\ Append(q, m)[Len(q) + 1] = m
           /\ \A i \in 1 .. Len(q) : Append(q, m)[i] = q[i]
  OBVIOUS

(***************************************************************************)
(* sw.write() appends the message if the connection is open.               *)
(***************************************************************************)
LEMMA writeEffect ==
    ASSUME NEW d \in [AP -> Seq(DownMsg)], NEW a \in AP, NEW sw,
           NEW type \in DownType, NEW s \in STA
    PROVE  LET m == [type |-> type, sta |-> s]
               e == write(d, a, sw, type, s)
           IN  /\ e \in [AP -> Seq(DownMsg)]
               /\ Longer(d, e)
               /\ OnlyMore(d, e, a, m)
               /\ ~Live(a, sw) => e = d
               /\ Live(a, sw) => /\ Len(e[a]) = Len(d[a]) + 1
                                 /\ e[a][Len(d[a]) + 1] = m
<1> DEFINE m == [type |-> type, sta |-> s]
           e == write(d, a, sw, type, s)
<1>1. m \in DownMsg
  BY DEF DownMsg
<1>2. e = IF Live(a, sw) THEN [d EXCEPT ![a] = Append(@, m)] ELSE d
  BY DEF write
<1>3. \A b \in AP : d[b] \in Seq(DownMsg) /\ Len(d[b]) \in Nat
  OBVIOUS
<1> HIDE DEF m, e
<1>4. CASE ~Live(a, sw)
  BY <1>2, <1>3, <1>4 DEF Longer, OnlyMore, m, e
<1>5. CASE Live(a, sw)
  <2>1. e = [d EXCEPT ![a] = Append(@, m)]
    BY <1>2, <1>5
  <2>2. /\ e \in [AP -> Seq(DownMsg)]
        /\ e[a] = Append(d[a], m)
        /\ \A b \in AP : b # a => e[b] = d[b]
    BY <1>1, <1>3, <2>1
  <2>3. /\ Len(e[a]) = Len(d[a]) + 1
        /\ e[a][Len(d[a]) + 1] = m
        /\ \A i \in 1 .. Len(d[a]) : e[a][i] = d[a][i]
    BY <1>1, <1>3, <2>2, Appended
  <2>4. Longer(d, e)
    <3>1. ASSUME NEW b \in AP
          PROVE  Len(d[b]) <= Len(e[b]) /\ \A i \in 1 .. Len(d[b]) : e[b][i] = d[b][i]
      <4>1. CASE b = a
        BY <1>3, <2>3, <4>1
      <4>2. CASE b # a
        BY <1>3, <2>2, <4>2
      <4> QED
        BY <4>1, <4>2
    <3> QED
      BY <3>1 DEF Longer
  <2>5. OnlyMore(d, e, a, m)
    BY <1>3, <2>2, <2>3 DEF OnlyMore
  <2> QED
    BY <1>5, <2>2, <2>3, <2>4, <2>5 DEF m, e
<1> QED
  BY <1>4, <1>5

(***************************************************************************)
(* The message on which receive(a) acts is gone from up[a].                *)
(***************************************************************************)
LEMMA ReceiveUp ==
    ASSUME TypeOK, NEW a \in AP, NEW i \in 1 .. Len(up[a]),
           up' = [up EXCEPT ![a] = Without(@, i)]
    PROVE  \A b \in AP : \A j \in 1 .. Len(up'[b]) :
              \E k \in 1 .. Len(up[b]) : up'[b][j] = up[b][k]
<1> USE DEF TypeOK, LinkTypeOK
<1>1. up[a] \in Seq(UpMsg)
  OBVIOUS
<1>2. /\ Len(Without(up[a], i)) = Len(up[a]) - 1
      /\ \A j \in 1 .. Len(up[a]) - 1 :
           Without(up[a], i)[j] = IF j < i THEN up[a][j] ELSE up[a][j + 1]
  BY <1>1, WithoutType
<1>3. SUFFICES ASSUME NEW b \in AP, NEW j \in 1 .. Len(up'[b])
               PROVE  \E k \in 1 .. Len(up[b]) : up'[b][j] = up[b][k]
  OBVIOUS
<1>4. CASE b # a
  BY <1>4
<1>5. CASE b = a
  <2>1. up'[b] = Without(up[a], i) /\ Len(up[a]) \in Nat
    BY <1>5
  <2>2. j \in 1 .. Len(up[a]) - 1
    BY <1>2, <2>1
  <2>3. j \in 1 .. Len(up[a]) /\ j + 1 \in 1 .. Len(up[a])
    BY <2>1, <2>2
  <2> QED
    BY <1>2, <1>5, <2>1, <2>2, <2>3
<1> QED
  BY <1>4, <1>5

(***************************************************************************)
(* The handlers of receive, by what they do to the pair (s, a), to the     *)
(* candidate of s and to the queues: handleProbeReq selects a; a handler   *)
(* changes the status of a pair that exists, and perhaps forgets the       *)
(* candidate; handleLastRSSI reports a, and may ask; or nothing happens.   *)
(***************************************************************************)
Selects(a, s) ==
    /\ STAAPList[s][a].status \in {"null", "NOT_AUTHENTICATED"}
    /\ STAAPList'[s][a].status = "SELECTED"
    /\ STAAPList'[s][a].sw = IF lookupSenderSTAAP(s, a) THEN STAAPList[s][a].sw
                                                        ELSE link[a].sw
    /\ down' = write(down, a, link[a].sw, "ADD_STA", s)
    /\ STAAPRSSIList' = STAAPRSSIList

Changes(a, s) ==
    /\ lookupSenderSTAAP(s, a)
    /\ STAAPList'[s][a].status \in STAStatus \ {"SELECTED"}
    /\ STAAPList'[s][a].sw = STAAPList[s][a].sw
    /\ STAAPRSSIList'[s] \in {STAAPRSSIList[s], NoAPInfo}
    /\ down' = down

Reports(a, s) ==
    LET old == STAAPRSSIList[s]
        new == STAAPRSSIList'[s]
    IN  /\ STAAPList' = STAAPList
        /\ \/ new.ap = a /\ new.sw = link[a].sw
           \/ new.ap = old.ap /\ new.sw = old.sw
        /\ \/ down' = down /\ new.isSent = old.isSent
           \/ \E b \in findSTAAPInfo(s) :
                /\ down' = write(down, b, STAAPList[s][b].sw, "LAST_REC_POW", s)
                /\ new.isSent

Received1(a, m) ==
    LET s == m.sta
    IN  /\ \A u \in STA, b \in AP : u # s \/ b # a => STAAPList'[u][b] = STAAPList[u][b]
        /\ \A u \in STA : u # s => STAAPRSSIList'[u] = STAAPRSSIList[u]
        /\ \/ Selects(a, s)
           \/ Changes(a, s)
           \/ Reports(a, s) /\ m.type = "REC_POW"
           \/ UNCHANGED <<STAAPList, STAAPRSSIList, down>>

LEMMA ReceiveEffect ==
    ASSUME TypeOK, NEW a \in AP, Receive(a)
    PROVE  /\ link[a].up
           /\ UNCHANGED <<link, replies, removal, infoSTA, rssiThread>>
           /\ \A b \in AP : \A j \in 1 .. Len(up'[b]) :
                 \E k \in 1 .. Len(up[b]) : up'[b][j] = up[b][k]
           /\ \E i \in 1 .. Len(up[a]) : up[a][i] \in UpMsg /\ Received1(a, up[a][i])
<1> USE DEF TypeOK, LinkTypeOK, ControllerTypeOK
<1>1. PICK i \in 1 .. Len(up[a]) :
        /\ \/ handleProbeReq(a, up[a][i])
           \/ handleAuthReq(a, up[a][i])
           \/ handleAssocReq(a, up[a][i])
           \/ handleReassocReq(a, up[a][i])
           \/ handleDisassocReq(a, up[a][i])
           \/ handleDeauthReq(a, up[a][i])
           \/ handleLastRSSI(a, up[a][i])
        /\ up' = [up EXCEPT ![a] = Without(@, i)]
  BY DEF Receive, receive
<1>2. /\ link[a].up
      /\ UNCHANGED <<link, replies, removal, infoSTA, rssiThread>>
  BY DEF Receive, receive, agentVars
<1>3. \A b \in AP : \A j \in 1 .. Len(up'[b]) :
         \E k \in 1 .. Len(up[b]) : up'[b][j] = up[b][k]
  BY <1>1, ReceiveUp
<1> DEFINE m == up[a][i]
           s == m.sta
           entry == STAAPList[s][a]
<1>4. m \in UpMsg
  OBVIOUS
<1>5. s \in STA
  BY <1>4 DEF UpMsg
<1>6. Received1(a, m)
  <2> HIDE DEF m
  <2>1. ASSUME NEW st \in {"AUTHENTICATED", "ASSOCIATED", "NOT_AUTHENTICATED"},
               SetStatus(s, a, st),
               \A u \in STA : u # s => STAAPRSSIList'[u] = STAAPRSSIList[u],
               STAAPRSSIList'[s] \in {STAAPRSSIList[s], NoAPInfo},
               lookupSenderSTAAP(s, a) \/ UNCHANGED STAAPRSSIList,
               down' = down
        PROVE  Received1(a, m)
    <3>1. CASE lookupSenderSTAAP(s, a)
      <4>1. /\ STAAPList'[s][a] = WithStatus(entry, st)
            /\ \A u \in STA, b \in AP : u # s \/ b # a => STAAPList'[u][b] = STAAPList[u][b]
        BY <1>5, <2>1, <3>1 DEF SetStatus
      <4>2. STAAPList'[s][a].status = st /\ STAAPList'[s][a].sw = entry.sw
        BY <4>1 DEF WithStatus
      <4>3. Changes(a, s)
        BY <2>1, <3>1, <4>2 DEF Changes, STAStatus
      <4> QED
        BY <2>1, <4>1, <4>3 DEF Received1
    <3>2. CASE ~lookupSenderSTAAP(s, a)
      BY <2>1, <3>2 DEF SetStatus, Received1
    <3> QED
      BY <3>1, <3>2
  <2>2. CASE handleProbeReq(a, m)
    <3> DEFINE new == [status |-> "SELECTED", rates |-> entry.rates,
                       sw |-> IF lookupSenderSTAAP(s, a) THEN entry.sw
                                                         ELSE link[a].sw]
    <3>1. \/ UNCHANGED <<STAAPList, down, STAAPRSSIList>>
          \/ /\ entry.status \in {"null", "NOT_AUTHENTICATED"}
             /\ STAAPList' = [STAAPList EXCEPT ![s][a] = new]
             /\ down' = write(down, a, link[a].sw, "ADD_STA", s)
             /\ STAAPRSSIList' = STAAPRSSIList
      BY <2>2 DEF handleProbeReq
    <3>2. /\ new.status = "SELECTED"
          /\ new.sw = IF lookupSenderSTAAP(s, a) THEN entry.sw ELSE link[a].sw
      OBVIOUS
    <3> HIDE DEF new
    <3>3. CASE UNCHANGED <<STAAPList, down, STAAPRSSIList>>
      BY <3>3 DEF Received1
    <3>4. CASE /\ entry.status \in {"null", "NOT_AUTHENTICATED"}
               /\ STAAPList' = [STAAPList EXCEPT ![s][a] = new]
               /\ down' = write(down, a, link[a].sw, "ADD_STA", s)
               /\ STAAPRSSIList' = STAAPRSSIList
      <4>1. /\ STAAPList'[s][a] = new
            /\ \A u \in STA, b \in AP : u # s \/ b # a => STAAPList'[u][b] = STAAPList[u][b]
        BY <1>5, <3>4
      <4>2. Selects(a, s)
        BY <3>2, <3>4, <4>1 DEF Selects
      <4> QED
        BY <3>4, <4>1, <4>2 DEF Received1
    <3> QED
      BY <3>1, <3>3, <3>4
  <2>3. CASE handleAuthReq(a, m)
    BY <2>1, <2>3 DEF handleAuthReq
  <2>4. CASE handleReassocReq(a, m)
    BY <2>1, <2>4 DEF handleReassocReq
  <2>5. CASE handleDeauthReq(a, m)
    BY <2>1, <2>5 DEF handleDeauthReq
  <2>6. CASE handleDisassocReq(a, m)
    BY <1>5, <2>1, <2>6 DEF handleDisassocReq
  <2>7. CASE handleAssocReq(a, m)
    <3> DEFINE new == [status |-> "ASSOCIATED", rates |-> TRUE, sw |-> entry.sw]
    <3>1. new.status = "ASSOCIATED" /\ new.sw = entry.sw
      OBVIOUS
    <3>2. /\ UNCHANGED <<STAAPRSSIList, down>>
          /\ STAAPList' = IF lookupSenderSTAAP(s, a)
                          THEN [STAAPList EXCEPT ![s][a] = new] ELSE STAAPList
      BY <1>5, <2>7 DEF handleAssocReq
    <3> HIDE DEF new
    <3>3. CASE lookupSenderSTAAP(s, a)
      <4>1. /\ STAAPList'[s][a] = new
            /\ \A u \in STA, b \in AP : u # s \/ b # a => STAAPList'[u][b] = STAAPList[u][b]
        BY <1>5, <3>2, <3>3
      <4>2. Changes(a, s)
        BY <3>1, <3>2, <3>3, <4>1 DEF Changes, STAStatus
      <4> QED
        BY <3>2, <4>1, <4>2 DEF Received1
    <3>4. CASE ~lookupSenderSTAAP(s, a)
      BY <3>2, <3>4 DEF Received1
    <3> QED
      BY <3>3, <3>4
  <2>8. CASE handleLastRSSI(a, m)
    <3> DEFINE cand == Better(s, a, readByte(m.rssi))
               sent == WithSent(cand, TRUE)
    <3>1. /\ cand.isSent = STAAPRSSIList[s].isSent
          /\ \/ cand.ap = a /\ cand.sw = link[a].sw
             \/ cand.ap = STAAPRSSIList[s].ap /\ cand.sw = STAAPRSSIList[s].sw
      BY DEF Better
    <3>2. sent.ap = cand.ap /\ sent.sw = cand.sw /\ sent.isSent
      BY DEF WithSent
    <3>3. /\ STAAPList' = STAAPList /\ m.type = "REC_POW"
          /\ \/ /\ STAAPRSSIList' = [STAAPRSSIList EXCEPT ![s] = cand]
                /\ UNCHANGED down
             \/ \E b \in findSTAAPInfo(s) :
                  /\ down' = write(down, b, STAAPList[s][b].sw, "LAST_REC_POW", s)
                  /\ STAAPRSSIList' = [STAAPRSSIList EXCEPT ![s] = sent]
      BY <2>8 DEF handleLastRSSI
    <3> HIDE DEF cand, sent
    <3>4. \A u \in STA : u # s => STAAPRSSIList'[u] = STAAPRSSIList[u]
      BY <1>5, <3>3
    <3>5. \/ STAAPRSSIList'[s] = cand /\ UNCHANGED down
          \/ \E b \in findSTAAPInfo(s) :
               /\ down' = write(down, b, STAAPList[s][b].sw, "LAST_REC_POW", s)
               /\ STAAPRSSIList'[s] = sent
      BY <1>5, <3>3
    <3>6. Reports(a, s)
      BY <3>1, <3>2, <3>3, <3>5 DEF Reports
    <3> QED
      BY <3>3, <3>4, <3>6 DEF Received1
  <2> QED
    BY <1>1, <2>2, <2>3, <2>4, <2>5, <2>6, <2>7, <2>8 DEF m
<1> QED
  BY <1>2, <1>3, <1>4, <1>6

(***************************************************************************)
(* What handleAPRSSI does to station s when it moves s from a to c.        *)
(***************************************************************************)
MovesTo(a, s, c) ==
    LET sw == IF lookupSenderSTAAP(s, c) THEN STAAPList[s][c].sw
                                         ELSE STAAPRSSIList[s].sw
        removed == write(down, a, link[a].sw, "REMOVE_STA", s)
    IN  /\ c = STAAPRSSIList[s].ap
        /\ lookupSenderSTAAP(s, a)
        /\ \A b \in AP : b # a /\ b # c => STAAPList'[s][b] = STAAPList[s][b]
        /\ STAAPList'[s][c].status = "ASSOCIATED"
        /\ STAAPList'[s][c].sw = sw
        /\ a # c => /\ STAAPList'[s][a].status = "NOT_AUTHENTICATED"
                    /\ STAAPList'[s][a].sw = STAAPList[s][a].sw
        /\ STAAPRSSIList'[s].ap = a
        /\ STAAPRSSIList'[s].sw = link[a].sw
        /\ \/ down' = removed
           \/ down' = write(removed, c, sw, "UPDATE_STA_ADD", s)
        /\ \/ UNCHANGED <<link, removal>>
           \/ link' = Closed(c) /\ removal' = Removing(c)

(***************************************************************************)
(* Every element of r is one of q; r lacks only elements of q about s.     *)
(***************************************************************************)
PartOf(r, q) ==
    \A j \in 1 .. Len(r) : \E k \in 1 .. Len(q) : r[j] = q[k]

LacksOnly(r, q, s) ==
    \A k \in 1 .. Len(q) : \/ q[k].sta = s
                          \/ \E j \in 1 .. Len(r) : r[j] = q[k]

LEMMA TailPart ==
    ASSUME NEW S, NEW q \in Seq(S), q # <<>>
    PROVE  /\ Head(q) = q[1] /\ 1 \in 1 .. Len(q)
           /\ PartOf(Tail(q), q)
           /\ LacksOnly(Tail(q), q, Head(q).sta)
<1>1. /\ Len(q) \in Nat /\ Len(q) >= 1
      /\ Head(q) = q[1]
      /\ Len(Tail(q)) = Len(q) - 1
      /\ \A j \in 1 .. Len(q) - 1 : Tail(q)[j] = q[j + 1]
  OBVIOUS
<1>2. ASSUME NEW j \in 1 .. Len(Tail(q))
      PROVE  \E k \in 1 .. Len(q) : Tail(q)[j] = q[k]
  <2>1. j + 1 \in 1 .. Len(q) /\ Tail(q)[j] = q[j + 1]
    BY <1>1
  <2> QED
    BY <2>1
<1>3. ASSUME NEW k \in 1 .. Len(q), q[k].sta # Head(q).sta
      PROVE  \E j \in 1 .. Len(Tail(q)) : Tail(q)[j] = q[k]
  <2>1. k # 1
    BY <1>1, <1>3
  <2>2. k - 1 \in 1 .. Len(q) - 1 /\ (k - 1) + 1 = k
    BY <1>1, <2>1
  <2>3. Tail(q)[k - 1] = q[k]
    BY <1>1, <2>2
  <2> QED
    BY <1>1, <2>2, <2>3
<1> QED
  BY <1>1, <1>2, <1>3 DEF PartOf, LacksOnly

LEMMA PartItself ==
    ASSUME NEW q, NEW s
    PROVE  PartOf(q, q) /\ PartOf(<<>>, q) /\ LacksOnly(q, q, s)
<1>1. Len(<<>>) = 0
  OBVIOUS
<1> QED
  BY <1>1 DEF PartOf, LacksOnly

(***************************************************************************)
(* The answers that handleAPRSSI(a) leaves are old ones, and it loses only *)
(* the one of s that it handles, unless it closes a connection.            *)
(***************************************************************************)
Handled(s) ==
    \A b \in AP : /\ PartOf(replies'[b], replies[b])
                  /\ link' = link => LacksOnly(replies'[b], replies[b], s)

LEMMA AnswerEffect ==
    ASSUME TypeOK, NEW a \in AP, HandleAPRSSI(a)
    PROVE  /\ link[a].up
           /\ UNCHANGED <<up, infoSTA, rssiThread>>
           /\ \E k \in 1 .. Len(replies[a]) : \E s \in STA :
                /\ replies[a][k].sta = s
                /\ Handled(s)
                /\ \A u \in STA : u # s => /\ STAAPList'[u] = STAAPList[u]
                                           /\ STAAPRSSIList'[u] = STAAPRSSIList[u]
                /\ ~STAAPRSSIList'[s].isSent
                /\ \/ /\ UNCHANGED <<STAAPList, link, down, removal>>
                      /\ STAAPRSSIList'[s].ap = STAAPRSSIList[s].ap
                      /\ STAAPRSSIList'[s].sw = STAAPRSSIList[s].sw
                   \/ \E c \in AP : MovesTo(a, s, c)
<1> USE DEF TypeOK, LinkTypeOK, ControllerTypeOK
<1> DEFINE m == Head(replies[a])
           s == m.sta
           cand == STAAPRSSIList[s]
<1>1. link[a].up /\ replies[a] # <<>> /\ UNCHANGED <<up, infoSTA, rssiThread>>
  BY DEF HandleAPRSSI, handleAPRSSI, NoHandover, Handover, agentVars
<1>2. m \in Reply /\ replies[a] \in Seq(Reply)
  BY <1>1, HeadTail
<1>3. s \in STA
  BY <1>2 DEF Reply
<1>4. /\ m = replies[a][1] /\ 1 \in 1 .. Len(replies[a])
      /\ PartOf(Tail(replies[a]), replies[a])
      /\ LacksOnly(Tail(replies[a]), replies[a], s)
  BY <1>1, <1>2, TailPart
<1>5. CASE NoHandover(a)
  <2>1. /\ STAAPRSSIList' = [STAAPRSSIList EXCEPT ![s] = WithSent(@, FALSE)]
        /\ replies' = [replies EXCEPT ![a] = Tail(@)]
        /\ UNCHANGED <<STAAPList, link, down, removal>>
    BY <1>5 DEF NoHandover
  <2>2. Handled(s)
    <3> HIDE DEF s
    <3> QED
      BY <1>4, <2>1, PartItself DEF Handled
  <2>3. /\ \A u \in STA : u # s => STAAPRSSIList'[u] = STAAPRSSIList[u]
        /\ ~STAAPRSSIList'[s].isSent
        /\ STAAPRSSIList'[s].ap = STAAPRSSIList[s].ap
        /\ STAAPRSSIList'[s].sw = STAAPRSSIList[s].sw
    <3> HIDE DEF s
    <3> QED
      BY <1>3, <2>1 DEF WithSent
  <2> QED
    BY <1>1, <1>3, <1>4, <2>1, <2>2, <2>3
<1>6. CASE Handover(a)
  <2> DEFINE c == cand.ap
             sw == Moved(s, a)[s][c].sw
             removed == write(down, a, link[a].sw, "REMOVE_STA", s)
             next == [ap |-> a, rssi |-> -128, isSent |-> FALSE, sw |-> link[a].sw]
  <2>1. c \in AP /\ lookupSenderSTAAP(s, a)
    BY <1>3, <1>6 DEF Handover, Moves, APInfo
  <2>2. /\ STAAPList' = Moved(s, a)
        /\ STAAPRSSIList' = [STAAPRSSIList EXCEPT ![s] = next]
        /\ \/ down' = removed
           \/ down' = write(removed, c, sw, "UPDATE_STA_ADD", s)
        /\ \/ /\ replies' = [replies EXCEPT ![a] = Tail(@)]
              /\ UNCHANGED <<link, removal>>
           \/ /\ link' = Closed(c) /\ removal' = Removing(c) /\ Live(c, sw)
              /\ replies' = [replies EXCEPT ![a] = Tail(@), ![c] = <<>>]
    BY <1>6 DEF Handover
  <2>3. next.ap = a /\ ~next.isSent /\ next.sw = link[a].sw
    OBVIOUS
  <2> HIDE DEF next, s, c
  <2>4. /\ \A u \in STA : u # s => STAAPRSSIList'[u] = STAAPRSSIList[u]
        /\ STAAPRSSIList'[s] = next
    BY <1>3, <2>2
  <2>5. /\ \A u \in STA : u # s => STAAPList'[u] = STAAPList[u]
        /\ \A b \in AP : b # a /\ b # c => STAAPList'[s][b] = STAAPList[s][b]
        /\ STAAPList'[s][c] =
             [status |-> "ASSOCIATED", rates |-> STAAPList[s][a].rates,
              sw |-> IF STAAPList[s][c].status = "null" THEN cand.sw
                                                        ELSE STAAPList[s][c].sw]
        /\ a # c => STAAPList'[s][a] = WithStatus(STAAPList[s][a], "NOT_AUTHENTICATED")
    BY <1>3, <2>1, <2>2 DEF Moved, c
  <2>6. /\ STAAPList'[s][c].status = "ASSOCIATED"
        /\ STAAPList'[s][c].sw = IF lookupSenderSTAAP(s, c) THEN STAAPList[s][c].sw
                                                            ELSE cand.sw
        /\ a # c => /\ STAAPList'[s][a].status = "NOT_AUTHENTICATED"
                    /\ STAAPList'[s][a].sw = STAAPList[s][a].sw
    BY <2>5 DEF WithStatus, lookupSenderSTAAP
  <2>7. sw = STAAPList'[s][c].sw
    BY <2>2
  <2>8. MovesTo(a, s, c)
    <3> HIDE DEF sw
    <3> QED
      BY <2>1, <2>2, <2>3, <2>4, <2>5, <2>6, <2>7 DEF MovesTo, c
  <2>9. Handled(s)
    <3>1. CASE replies' = [replies EXCEPT ![a] = Tail(@)]
      BY <1>4, <3>1, PartItself DEF Handled
    <3>2. CASE /\ link' = Closed(c) /\ Live(c, sw)
               /\ replies' = [replies EXCEPT ![a] = Tail(@), ![c] = <<>>]
      <4>1. link' # link
        <5>1. link'[c] = [up |-> FALSE, sw |-> link[c].sw]
          BY <2>1, <3>2 DEF Closed
        <5> QED
          BY <3>2, <5>1 DEF Live
      <4>2. \A b \in AP : replies'[b] = IF b = c THEN <<>> ELSE
                              IF b = a THEN Tail(replies[a]) ELSE replies[b]
        BY <2>1, <3>2
      <4> QED
        BY <1>4, <4>1, <4>2, PartItself DEF Handled
    <3> QED
      BY <2>2, <3>1, <3>2
  <2> QED
    BY ZenonT(30), <1>1, <1>3, <1>4, <2>1, <2>3, <2>4, <2>5, <2>8, <2>9 DEF s
<1> QED
  BY <1>5, <1>6 DEF HandleAPRSSI, handleAPRSSI

-----------------------------------------------------------------------------

(***************************************************************************)
(* What the steps of the access points do.                                 *)
(***************************************************************************)
(***************************************************************************)
(* Only the entry of s at a may change, and it is not removed.             *)
(***************************************************************************)
OnlyEntry(a, s) ==
    /\ \A b \in AP, u \in STA : b # a \/ u # s => infoSTA'[b][u] = infoSTA[b][u]
    /\ lookupSenderSTA(a, s) => infoSTA'[a][s].status # "null"

LEMMA OneEntry ==
    ASSUME TypeOK, NEW a \in AP, NEW s \in STA, NEW info,
           infoSTA' = [infoSTA EXCEPT ![a][s] = info],
           infoSTA[a][s].status # "null" => info.status # "null"
    PROVE  OnlyEntry(a, s) /\ infoSTA'[a][s] = info
<1>1. /\ infoSTA'[a][s] = info
      /\ \A b \in AP, u \in STA : b # a \/ u # s => infoSTA'[b][u] = infoSTA[b][u]
  BY DEF TypeOK, AgentTypeOK
<1> QED
  BY <1>1 DEF OnlyEntry, lookupSenderSTA

(***************************************************************************)
(* handle_vendor: the message is taken, an AP answers a question that      *)
(* comes over an open connection, and ADD_STA makes the station known if   *)
(* there is room for it.                                                   *)
(***************************************************************************)
LEMMA VendorEffect ==
    ASSUME TypeOK, NEW a \in AP, HandleVendor(a)
    PROVE  \E m \in DownMsg :
               /\ down[a] # <<>> /\ m = Head(down[a]) /\ m.sta \in STA
               /\ UNCHANGED <<STAAPList, STAAPRSSIList, link, up, removal, rssiThread>>
               /\ down' = [down EXCEPT ![a] = Tail(@)]
               /\ OnlyEntry(a, m.sta)
               /\ m.type = "ADD_STA" /\ ~Full(a) => lookupSenderSTA(a, m.sta)'
               /\ \/ Status(a, m.sta)' # "SELECTED"
                  \/ Status(a, m.sta)' = Status(a, m.sta)
                  \/ m.type \in {"ADD_STA", "UPDATE_STA_ADD"}
               /\ \/ replies' = replies /\ (m.type = "LAST_REC_POW" => ~link[a].up)
                  \/ /\ m.type = "LAST_REC_POW"
                     /\ replies' = [replies EXCEPT ![a] =
                          Append(@, [sta |-> m.sta, rssi |-> infoSTA[a][m.sta].last])]
<1> USE DEF TypeOK, LinkTypeOK
<1>1. down[a] # <<>> /\ UNCHANGED <<STAAPList, STAAPRSSIList>>
  BY DEF HandleVendor, handle_vendor, ADD_STA, UPDATE_STA_ADD, REMOVE_STA,
         handle_ap_rssi, Received, ctrlVars
<1>2. PICK m \in DownMsg : m = Head(down[a])
  BY <1>1, HeadTail
<1> DEFINE s == m.sta
           info == infoSTA[a][s]
           added == changeStatus(addSTA(info), "SELECTED")
<1>3. s \in STA
  BY <1>2 DEF DownMsg
<1>4. /\ added.status = "SELECTED"
      /\ changeStatus(info, "ASSOCIATED").status = "ASSOCIATED"
      /\ changeStatus(info, "NOT_AUTHENTICATED").status = "NOT_AUTHENTICATED"
  BY DEF changeStatus
<1>5. ASSUME NEW new, Change(a, new), info.status # "null" => new.status # "null"
      PROVE  /\ UNCHANGED <<link, up, removal, rssiThread>>
             /\ down' = [down EXCEPT ![a] = Tail(@)]
             /\ OnlyEntry(a, s) /\ infoSTA'[a][s] = new
  BY <1>2, <1>3, <1>5, OneEntry DEF Change
<1>6. CASE ADD_STA(a)
  <2> DEFINE new == IF info.status = "null" /\ Full(a) THEN info ELSE added
  <2>1. /\ m.type = "ADD_STA" /\ replies' = replies
        /\ Change(a, new)
    BY <1>2, <1>6 DEF ADD_STA, Received
  <2> HIDE DEF added, info
  <2>2. /\ info.status # "null" => new.status # "null"
        /\ ~Full(a) => new.status # "null"
    BY <1>4
  <2> HIDE DEF new
  <2>3. /\ UNCHANGED <<link, up, removal, rssiThread>>
        /\ down' = [down EXCEPT ![a] = Tail(@)]
        /\ OnlyEntry(a, s) /\ infoSTA'[a][s] = new
    BY <1>5, <2>1, <2>2
  <2>4. ~Full(a) => lookupSenderSTA(a, s)'
    BY <2>2, <2>3 DEF lookupSenderSTA
  <2> QED
    BY <1>1, <1>2, <1>3, <2>1, <2>3, <2>4
<1>7. CASE UPDATE_STA_ADD(a)
  <2>1. /\ m.type = "UPDATE_STA_ADD" /\ replies' = replies
        /\ Change(a, IF info.status = "null" THEN info
                     ELSE changeStatus(info, "ASSOCIATED"))
    BY <1>2, <1>7 DEF UPDATE_STA_ADD, Received
  <2> HIDE DEF info
  <2> QED
    BY <1>1, <1>2, <1>3, <1>4, <1>5, <2>1
<1>8. CASE REMOVE_STA(a)
  <2> DEFINE new == IF info.status = "null" THEN info
                    ELSE changeStatus(info, "NOT_AUTHENTICATED")
  <2>1. /\ m.type = "REMOVE_STA" /\ replies' = replies
        /\ Change(a, new)
    BY <1>2, <1>8 DEF REMOVE_STA, Received
  <2> HIDE DEF info
  <2>2. /\ info.status # "null" => new.status # "null"
        /\ new.status # "SELECTED"
    BY <1>4
  <2> HIDE DEF new
  <2>3. /\ UNCHANGED <<link, up, removal, rssiThread>>
        /\ down' = [down EXCEPT ![a] = Tail(@)]
        /\ OnlyEntry(a, s) /\ infoSTA'[a][s] = new
    BY <1>5, <2>1, <2>2
  <2>4. Status(a, s)' # "SELECTED"
    BY <2>2, <2>3 DEF Status
  <2> QED
    BY <1>1, <1>2, <1>3, <2>1, <2>3, <2>4
<1>9. CASE handle_ap_rssi(a)
  <2>1. /\ m.type = "LAST_REC_POW" /\ Change(a, info)
        /\ replies' = IF link[a].up
                      THEN [replies EXCEPT ![a] =
                              Append(@, [sta |-> s, rssi |-> info.last])]
                      ELSE replies
    BY <1>2, <1>9 DEF handle_ap_rssi, Received
  <2>2. /\ UNCHANGED <<link, up, removal, rssiThread>>
        /\ down' = [down EXCEPT ![a] = Tail(@)]
        /\ OnlyEntry(a, s) /\ infoSTA'[a][s] = info
    BY <1>5, <2>1
  <2>3. Status(a, s)' = Status(a, s)
    BY <2>2 DEF Status
  <2> QED
    BY <1>1, <1>2, <1>3, <2>1, <2>2, <2>3
<1> QED
  BY <1>6, <1>7, <1>8, <1>9 DEF HandleVendor, handle_vendor

(***************************************************************************)
(* Where a thread of process_sta_data relies on the station's entry.       *)
(***************************************************************************)
Relying == {"mark", "compare", "report", "set"}

LEMMA ProceedEffect ==
    ASSUME TypeOK, NEW a \in AP, NEW t \in Thread, NEW s \in STA, NEW pc, NEW new,
           rssiThread[a][t].sta = s, Proceed(a, t, pc, new),
           infoSTA[a][s].status # "null" => new.status # "null"
    PROVE  /\ UNCHANGED <<link, down, replies, removal>>
           /\ OnlyEntry(a, s) /\ infoSTA'[a][s] = new
           /\ \A b \in AP, x \in Thread :
                 b # a \/ x # t => rssiThread'[b][x] = rssiThread[b][x]
           /\ rssiThread'[a][t].pc = pc
           /\ pc # "idle" => rssiThread'[a][t].sta = s
<1> USE DEF TypeOK, AgentTypeOK
<1> DEFINE next == IF pc = "idle" THEN IdleThread
                   ELSE [pc |-> pc, sta |-> s, rssi |-> rssiThread[a][t].rssi]
<1>1. /\ rssiThread' = [rssiThread EXCEPT ![a][t] = next]
      /\ infoSTA' = [infoSTA EXCEPT ![a][s] = new]
      /\ UNCHANGED <<link, down, replies, removal>>
  BY DEF Proceed
<1>2. OnlyEntry(a, s) /\ infoSTA'[a][s] = new
  BY <1>1, OneEntry
<1>3. next.pc = pc /\ (pc # "idle" => next.sta = s)
  BY DEF IdleThread
<1> HIDE DEF next
<1>4. /\ rssiThread'[a][t] = next
      /\ \A b \in AP, x \in Thread :
            b # a \/ x # t => rssiThread'[b][x] = rssiThread[b][x]
  BY <1>1
<1> QED
  BY <1>1, <1>2, <1>3, <1>4

(***************************************************************************)
(* process_sta_data: what thread t, which works on s, does to the entry of *)
(* s, to itself and to up[a].                                              *)
(***************************************************************************)
Worked(a, t, s) ==
    /\ OnlyEntry(a, s)
    /\ \A b \in AP, x \in Thread :
          b # a \/ x # t => rssiThread'[b][x] = rssiThread[b][x]
    /\ rssiThread'[a][t].pc = "idle" \/ rssiThread'[a][t].sta = s
    /\ rssiThread'[a][t].pc \in Relying =>
          infoSTA'[a][s].status # "null" \/ rssiThread[a][t].pc \in Relying
    /\ infoSTA'[a][s].status = "SELECTED" =>
          \/ infoSTA[a][s].status = "SELECTED" /\ rssiThread[a][t].pc # "mark"
          \/ rssiThread'[a][t].pc = "mark"

LEMMA ThreadEffect ==
    ASSUME TypeOK, NEW a \in AP, NEW t \in Thread, ProcessStaData(a, t)
    PROVE  /\ UNCHANGED <<STAAPList, STAAPRSSIList, link, down, replies, removal>>
           /\ \E s \in STA, m \in UpMsg :
                /\ rssiThread[a][t].sta = s
                /\ Worked(a, t, s)
                /\ \/ up' = up
                   \/ /\ rssiThread[a][t].pc = "report" /\ m.sta = s
                      /\ up' = [up EXCEPT ![a] = Append(@, m)]
<1> USE DEF TypeOK, LinkTypeOK, ControllerTypeOK, AgentTypeOK
<1>1. rssiThread[a][t].pc # "idle" /\ UNCHANGED <<STAAPList, STAAPRSSIList>>
  BY DEF ProcessStaData, process_sta_data, Lookup, Set, Add, Mark, Compare,
         Report, ctrlVars
<1>2. rssiThread[a][t].sta \in STA /\ rssiThread[a][t].rssi \in 0 .. 255
  <2>1. rssiThread[a][t] \in RSSIThread /\ rssiThread[a][t] # IdleThread
    BY <1>1 DEF IdleThread
  <2> QED
    BY <2>1 DEF RSSIThread
<1>3. PICK s \in STA : rssiThread[a][t].sta = s
  BY <1>2
<1>4. PICK rssi \in 0 .. 255 : rssiThread[a][t].rssi = rssi
  BY <1>2
<1> DEFINE info == infoSTA[a][s]
           m == [type |-> "REC_POW", sta |-> s, rssi |-> rssi]
<1>5. m \in UpMsg /\ m.sta = s
  BY DEF UpMsg, UpType
<1>6. /\ changeStatus(info, "NOT_AUTHENTICATED").status = "NOT_AUTHENTICATED"
      /\ changeRSSI(info, rssi).status = info.status
      /\ addSTA(info).status # "null"
  BY DEF changeStatus, changeRSSI, addSTA
<1> HIDE DEF info, m
<1>7. ASSUME NEW pc, NEW new, Proceed(a, t, pc, new),
             info.status # "null" => new.status # "null",
             pc \in Relying => new.status # "null" \/ rssiThread[a][t].pc \in Relying,
             \/ new.status # "SELECTED"
             \/ new.status = info.status /\ rssiThread[a][t].pc # "mark"
             \/ pc = "mark"
      PROVE  Worked(a, t, s) /\ UNCHANGED <<link, down, replies, removal>>
  <2>1. /\ UNCHANGED <<link, down, replies, removal>>
        /\ OnlyEntry(a, s) /\ infoSTA'[a][s] = new
        /\ \A b \in AP, x \in Thread :
              b # a \/ x # t => rssiThread'[b][x] = rssiThread[b][x]
        /\ rssiThread'[a][t].pc = pc
        /\ pc # "idle" => rssiThread'[a][t].sta = s
    BY <1>3, <1>7, ProceedEffect DEF info
  <2> QED
    BY <1>7, <2>1 DEF Worked, info
<1>8. CASE Lookup(a, t)
  <2> DEFINE pc == IF info.status = "ASSOCIATED" THEN "set"
                   ELSE IF info.status = "null" THEN "add" ELSE "compare"
  <2>1. /\ rssiThread[a][t].pc = "lookup" /\ up' = up
        /\ Proceed(a, t, pc, info)
    BY <1>3, <1>8 DEF Lookup, info
  <2>2. pc \in Relying => info.status # "null"
    BY DEF Relying
  <2> HIDE DEF pc
  <2>3. Worked(a, t, s) /\ UNCHANGED <<link, down, replies, removal>>
    BY <1>7, <2>1, <2>2
  <2> QED
    BY <1>1, <1>3, <1>5, <2>1, <2>3
<1>9. CASE Set(a, t)
  <2>1. /\ rssiThread[a][t].pc = "set" /\ up' = up
        /\ Proceed(a, t, "idle", changeRSSI(info, rssi))
    BY <1>3, <1>4, <1>9 DEF Set, info
  <2>2. Worked(a, t, s) /\ UNCHANGED <<link, down, replies, removal>>
    BY <1>6, <1>7, <2>1 DEF Relying
  <2> QED
    BY <1>1, <1>3, <1>5, <2>1, <2>2
<1>10. CASE Add(a, t)
  <2>1. /\ rssiThread[a][t].pc = "add" /\ up' = up
        /\ \/ info.status = "null" /\ Proceed(a, t, "idle", info)
           \/ Proceed(a, t, "mark", addSTA(info))
    BY <1>3, <1>10 DEF Add, info
  <2>2. Worked(a, t, s) /\ UNCHANGED <<link, down, replies, removal>>
    BY <1>6, <1>7, <2>1 DEF Relying
  <2> QED
    BY <1>1, <1>3, <1>5, <2>1, <2>2
<1>11. CASE Mark(a, t)
  <2>1. /\ rssiThread[a][t].pc = "mark" /\ up' = up
        /\ Proceed(a, t, "compare", changeStatus(info, "NOT_AUTHENTICATED"))
    BY <1>3, <1>11 DEF Mark, info
  <2>2. Worked(a, t, s) /\ UNCHANGED <<link, down, replies, removal>>
    BY <1>6, <1>7, <2>1 DEF Relying
  <2> QED
    BY <1>1, <1>3, <1>5, <2>1, <2>2
<1>12. CASE Compare(a, t)
  <2> DEFINE pc == IF info.last < rssi THEN "report" ELSE "idle"
  <2>1. /\ rssiThread[a][t].pc = "compare" /\ up' = up
        /\ Proceed(a, t, pc, info)
    BY <1>3, <1>4, <1>12 DEF Compare, info
  <2> HIDE DEF pc
  <2>2. Worked(a, t, s) /\ UNCHANGED <<link, down, replies, removal>>
    BY <1>7, <2>1 DEF Relying
  <2> QED
    BY <1>1, <1>3, <1>5, <2>1, <2>2
<1>13. CASE Report(a, t)
  <2>1. /\ rssiThread[a][t].pc = "report"
        /\ up' = [up EXCEPT ![a] = Append(@, m)]
        /\ Proceed(a, t, "idle", changeRSSI(info, rssi))
    BY <1>3, <1>4, <1>13 DEF Report, info, m
  <2>2. Worked(a, t, s) /\ UNCHANGED <<link, down, replies, removal>>
    BY <1>6, <1>7, <2>1 DEF Relying
  <2> QED
    BY <1>1, <1>3, <1>5, <2>1, <2>2
<1> QED
  BY <1>8, <1>9, <1>10, <1>11, <1>12, <1>13 DEF ProcessStaData, process_sta_data

(***************************************************************************)
(* The frames of a station, the event loop and failing sends, by what they *)
(* leave in the tables and in up.                                          *)
(***************************************************************************)
OldOrKnown(a) ==
    \A j \in 1 .. Len(up'[a]) :
       \/ \E k \in 1 .. Len(up[a]) : up'[a][j] = up[a][k]
       \/ up'[a][j].type = "PROBE"
       \/ infoSTA'[a][up'[a][j].sta].status # "null"

FrameStep ==
    /\ UNCHANGED <<STAAPList, STAAPRSSIList, link, down, replies, removal>>
    /\ \A a \in AP, u \in STA :
          /\ lookupSenderSTA(a, u) => infoSTA'[a][u].status # "null"
          /\ infoSTA'[a][u].status = "SELECTED" => infoSTA[a][u].status = "SELECTED"
    /\ \A a \in AP, t \in Thread :
          \/ rssiThread'[a][t] = rssiThread[a][t]
          \/ rssiThread[a][t].pc = "idle" /\ rssiThread'[a][t].pc = "lookup"
    /\ \A a \in AP : OldOrKnown(a)

LEMMA AppendedOld ==
    ASSUME TypeOK, NEW a \in AP, NEW m \in UpMsg,
           up'[a] = Append(up[a], m),
           m.type = "PROBE" \/ infoSTA'[a][m.sta].status # "null"
    PROVE  OldOrKnown(a)
<1>1. up[a] \in Seq(UpMsg)
  BY DEF TypeOK, LinkTypeOK
<1>2. /\ Len(up[a]) \in Nat
      /\ Len(up'[a]) = Len(up[a]) + 1
      /\ up'[a][Len(up[a]) + 1] = m
      /\ \A i \in 1 .. Len(up[a]) : up'[a][i] = up[a][i]
  BY <1>1, Appended
<1>3. ASSUME NEW j \in 1 .. Len(up'[a])
      PROVE  j \in 1 .. Len(up[a]) \/ j = Len(up[a]) + 1
  BY <1>2
<1> QED
  BY <1>2, <1>3 DEF OldOrKnown

LEMMA CheckEffect ==
    ASSUME NEW H \in SUBSET AP, NEW s \in STA, NEW type,
           Check(H, s, type), UNCHANGED <<STAAPList, STAAPRSSIList>>
    PROVE  FrameStep
<1>1. UNCHANGED <<link, down, up, replies, removal, infoSTA, rssiThread>>
  BY DEF Check, linkVars
<1> QED
  BY <1>1 DEF FrameStep, OldOrKnown, lookupSenderSTA

LEMMA StationEffect == ASSUME TypeOK, NEW s \in STA, Station(s) PROVE FrameStep
<1> USE DEF TypeOK, LinkTypeOK, AgentTypeOK
<1>1. ASSUME NEW a \in AP, Probe(a, s) PROVE FrameStep
  <2> DEFINE m == up_msg("PROBE", s)
  <2>1. m \in UpMsg
    BY up_msgType DEF UpType
  <2>2. m.type = "PROBE"
    BY DEF up_msg
  <2>3. /\ up' = [up EXCEPT ![a] = Append(@, m)]
        /\ UNCHANGED <<STAAPList, STAAPRSSIList, link, down, replies, removal,
                       infoSTA, rssiThread>>
    BY <1>1 DEF Probe, handle_probe_request, ctrlVars, agentVars
  <2> HIDE DEF m
  <2>4. ASSUME NEW b \in AP PROVE OldOrKnown(b)
    <3>1. CASE b = a
      BY <2>1, <2>2, <2>3, <3>1, AppendedOld
    <3>2. CASE b # a
      BY <2>3, <3>2 DEF OldOrKnown
    <3> QED
      BY <3>1, <3>2
  <2> QED
    BY <2>3, <2>4 DEF FrameStep, lookupSenderSTA
<1>2. ASSUME NEW H \in SUBSET AP, Auth(H, s) PROVE FrameStep
  BY <1>2, CheckEffect DEF Auth, handle_auth, ctrlVars
<1>3. ASSUME NEW H \in SUBSET AP, NEW reassoc \in BOOLEAN, Assoc(H, s, reassoc)
      PROVE  FrameStep
  BY <1>3, CheckEffect DEF Assoc, handle_assoc, ctrlVars
<1>4. ASSUME NEW H \in SUBSET AP, Disassoc(H, s) PROVE FrameStep
  BY <1>4, CheckEffect DEF Disassoc, handle_disassoc, ctrlVars
<1>5. ASSUME NEW H \in SUBSET AP, Deauth(H, s) PROVE FrameStep
  BY <1>5, CheckEffect DEF Deauth, handle_deauth, ctrlVars
<1>6. ASSUME NEW a \in AP, NEW t \in Thread, NEW rssi \in RSSI,
             Data(a, t, s, rssi)
      PROVE  FrameStep
  <2>1. /\ rssiThread[a][t].pc = "idle"
        /\ rssiThread' = [rssiThread EXCEPT ![a][t] =
                            [pc |-> "lookup", sta |-> s, rssi |-> rssi]]
        /\ UNCHANGED <<STAAPList, STAAPRSSIList, link, down, replies, removal,
                       infoSTA, up>>
    BY <1>6 DEF Data, data_frames_rssi, ctrlVars, linkVars
  <2>2. \A b \in AP, x \in Thread :
          \/ rssiThread'[b][x] = rssiThread[b][x]
          \/ rssiThread[b][x].pc = "idle" /\ rssiThread'[b][x].pc = "lookup"
    BY <2>1
  <2> QED
    BY <2>1, <2>2 DEF FrameStep, OldOrKnown, lookupSenderSTA
<1> QED
  BY <1>1, <1>2, <1>3, <1>4, <1>5, <1>6 DEF Station

LEMMA TimerEffect ==
    ASSUME NEW a \in AP, NEW s \in STA, Timer(a, s) PROVE FrameStep
<1>1. UNCHANGED <<STAAPList, STAAPRSSIList, link, down, up, replies, removal, infoSTA,
                  rssiThread>>
  BY DEF Timer, notify_controller_disassoc, ctrlVars, linkVars
<1> QED
  BY <1>1 DEF FrameStep, OldOrKnown, lookupSenderSTA

LEMMA RecheckEffect == ASSUME NEW a \in AP, RecheckFrame(a) PROVE FrameStep
<1>1. UNCHANGED <<STAAPList, STAAPRSSIList, link, down, up, replies, removal, infoSTA,
                  rssiThread>>
  BY DEF RecheckFrame, Recheck, ctrlVars, linkVars
<1> QED
  BY <1>1 DEF FrameStep, OldOrKnown, lookupSenderSTA

LEMMA CommitEffect == ASSUME TypeOK, NEW a \in AP, CommitFrame(a) PROVE FrameStep
<1> USE DEF TypeOK, LinkTypeOK, AgentTypeOK
<1>1. PICK s \in STA, type \in FrameType :
        s = frame[a].sta /\ type = frame[a].type /\ type # "DISASSOC"
  BY FrameSta DEF CommitFrame, Commit
<1> DEFINE info == changeStatus(infoSTA[a][s], Committed(type))
           m == up_msg(type, s)
<1>2. m \in UpMsg
  BY <1>1, up_msgType DEF FrameType, Joins, UpType
<1>3. m.sta = s
  BY DEF up_msg
<1>4. info.status # "SELECTED" /\ info.status # "null"
  BY DEF changeStatus, Committed
<1>5. /\ UNCHANGED <<STAAPList, STAAPRSSIList, link, down, replies, removal, rssiThread>>
      /\ infoSTA' = [infoSTA EXCEPT ![a][s] = info]
      /\ up' = [up EXCEPT ![a] = Append(@, m)]
  BY <1>1 DEF CommitFrame, Commit, ctrlVars
<1> HIDE DEF info, m
<1>6. OnlyEntry(a, s) /\ infoSTA'[a][s] = info
  BY <1>4, <1>5, OneEntry
<1>7. ASSUME NEW b \in AP PROVE OldOrKnown(b)
  <2>1. CASE b = a
    BY <1>2, <1>3, <1>4, <1>5, <1>6, <2>1, AppendedOld
  <2>2. CASE b # a
    BY <1>5, <2>2 DEF OldOrKnown
  <2> QED
    BY <2>1, <2>2
<1>8. \A b \in AP, u \in STA :
        /\ lookupSenderSTA(b, u) => infoSTA'[b][u].status # "null"
        /\ infoSTA'[b][u].status = "SELECTED" => infoSTA[b][u].status = "SELECTED"
  BY <1>4, <1>6 DEF OnlyEntry, lookupSenderSTA
<1> QED
  BY <1>5, <1>7, <1>8 DEF FrameStep

LEMMA SendFailsEffect ==
    ASSUME TypeOK, NEW a \in AP, SendFails(a) PROVE FrameStep
<1>1. /\ up[a] # <<>>
      /\ up' = [up EXCEPT ![a] = Tail(@)]
      /\ UNCHANGED <<STAAPList, STAAPRSSIList, link, down, replies, removal,
                     infoSTA, rssiThread>>
  BY DEF SendFails, controller_send_fails, ctrlVars, agentVars
<1>2. PartOf(Tail(up[a]), up[a])
  BY <1>1, TailPart DEF TypeOK, LinkTypeOK
<1>3. \A b \in AP : PartOf(up'[b], up[b])
  BY <1>1, <1>2, PartItself DEF TypeOK, LinkTypeOK
<1> QED
  BY <1>1, <1>3 DEF FrameStep, OldOrKnown, PartOf, lookupSenderSTA

-----------------------------------------------------------------------------

(***************************************************************************)
(* Every pair, candidate and removal names a connection that has existed,  *)
(* a removal one that is closed.                                           *)
(***************************************************************************)
Numbered ==
    /\ \A a \in AP : link[a].sw >= 1
    /\ \A s \in STA, a \in AP : lookupSenderSTAAP(s, a) =>
          STAAPList[s][a].sw \in 1 .. link[a].sw
    /\ \A s \in STA : STAAPRSSIList[s].ap # None =>
          STAAPRSSIList[s].sw \in 1 .. link[STAAPRSSIList[s].ap].sw
    /\ \A r \in removal : r.sw \in 1 .. link[r.ap].sw /\ ~Live(r.ap, r.sw)

(***************************************************************************)
(* Where the connection of a pair and of a candidate may come from.        *)
(***************************************************************************)
PairFrom(s, a) ==
    LET new == STAAPList'[s][a]
    IN  \/ new.status = "null"
        \/ new.sw = link[a].sw
        \/ new.sw = STAAPList[s][a].sw /\ lookupSenderSTAAP(s, a)
        \/ new.sw = STAAPRSSIList[s].sw /\ STAAPRSSIList[s].ap = a

CandidateFrom(s) ==
    LET new == STAAPRSSIList'[s]
    IN  \/ new.ap = None
        \/ new.ap \in AP /\ new.sw = link[new.ap].sw
        \/ new.ap = STAAPRSSIList[s].ap /\ new.sw = STAAPRSSIList[s].sw

LEMMA NumberedKept ==
    ASSUME TypeOK, TypeOK', Numbered,
           \A a \in AP : link'[a].sw >= link[a].sw,
           \A a \in AP : \A sw \in 1 .. link[a].sw : Live(a, sw)' => Live(a, sw),
           \A s \in STA, a \in AP : PairFrom(s, a),
           \A s \in STA : CandidateFrom(s),
           \A r \in removal' :
              \/ \E q \in removal : r.ap = q.ap /\ r.sw = q.sw
              \/ r.ap \in AP /\ r.sw = link[r.ap].sw /\ ~link'[r.ap].up
    PROVE  Numbered'
<1>1. \A a \in AP : link[a].sw \in Nat /\ link'[a].sw \in Nat
  BY DEF TypeOK, LinkTypeOK, Link
<1>2. \A a \in AP : link'[a].sw >= 1
  BY <1>1 DEF Numbered
<1>3. ASSUME NEW a \in AP, NEW sw \in 1 .. link[a].sw
      PROVE  sw \in 1 .. link'[a].sw
  BY <1>1
<1>4. \A a \in AP : link[a].sw \in 1 .. link[a].sw
  BY <1>1 DEF Numbered
<1>5. ASSUME NEW s \in STA, NEW a \in AP, STAAPList'[s][a].status # "null"
      PROVE  STAAPList'[s][a].sw \in 1 .. link'[a].sw
  <2>1. a # None
    BY NoneAssumption
  <2>2. STAAPList'[s][a].sw \in 1 .. link[a].sw
    BY <1>4, <1>5, <2>1 DEF PairFrom, Numbered
  <2> QED
    BY <1>3, <2>2
<1>6. ASSUME NEW s \in STA, STAAPRSSIList'[s].ap # None
      PROVE  STAAPRSSIList'[s].sw \in 1 .. link'[STAAPRSSIList'[s].ap].sw
  <2>1. STAAPRSSIList'[s].ap \in AP
    BY <1>6 DEF TypeOK, ControllerTypeOK, APInfo
  <2>2. STAAPRSSIList'[s].sw \in 1 .. link[STAAPRSSIList'[s].ap].sw
    BY <1>4, <1>6, <2>1 DEF CandidateFrom, Numbered
  <2> QED
    BY <1>3, <2>1, <2>2
<1>7. ASSUME NEW r \in removal'
      PROVE  r.sw \in 1 .. link'[r.ap].sw /\ ~Live(r.ap, r.sw)'
  <2>1. r.ap \in AP
    BY DEF TypeOK, LinkTypeOK, Removal
  <2>2. CASE r.sw = link[r.ap].sw /\ ~link'[r.ap].up
    BY <1>3, <1>4, <2>1, <2>2 DEF Live
  <2>3. CASE \E q \in removal : r.ap = q.ap /\ r.sw = q.sw
    <3>1. r.sw \in 1 .. link[r.ap].sw /\ ~Live(r.ap, r.sw)
      BY <2>3 DEF Numbered
    <3> QED
      BY <1>3, <2>1, <3>1
  <2> QED
    BY <2>2, <2>3
<1> QED
  BY <1>2, <1>5, <1>6, <1>7 DEF Numbered, lookupSenderSTAAP

(***************************************************************************)
(* A connection is closed.                                                 *)
(***************************************************************************)
LEMMA ClosedLess ==
    ASSUME TypeOK, NEW c \in AP, link' = Closed(c), removal' = Removing(c)
    PROVE  /\ \A a \in AP : link'[a].sw = link[a].sw
           /\ ~link'[c].up
           /\ \A a \in AP, sw \in Nat : Live(a, sw)' => Live(a, sw)
           /\ \A r \in removal' : \/ \E q \in removal : r.ap = q.ap /\ r.sw = q.sw
                                  \/ r.ap = c /\ r.sw = link[c].sw
<1>1. /\ link'[c] = [up |-> FALSE, sw |-> link[c].sw]
      /\ \A a \in AP : a # c => link'[a] = link[a]
  BY DEF TypeOK, LinkTypeOK, Closed
<1>2. ~link'[c].up /\ link'[c].sw = link[c].sw
  BY <1>1
<1>3. ASSUME NEW a \in AP, NEW sw \in Nat PROVE Live(a, sw)' => Live(a, sw)
  BY <1>1, <1>2 DEF Live
<1>4. \A r \in removal' : \/ \E q \in removal : r.ap = q.ap /\ r.sw = q.sw
                          \/ r.ap = c /\ r.sw = link[c].sw
  BY DEF Removing
<1> QED
  BY <1>1, <1>2, <1>3, <1>4

LEMMA NumberedStep == TypeOK /\ TypeOK' /\ Numbered /\ [Next]_vars => Numbered'
<1> SUFFICES ASSUME TypeOK, TypeOK', Numbered, [Next]_vars PROVE Numbered'
  OBVIOUS
<1>t. \A a \in AP : link[a].sw \in Nat
  BY DEF TypeOK, LinkTypeOK, Link
<1>s. ASSUME UNCHANGED <<link, removal>>,
             \A s \in STA, a \in AP : PairFrom(s, a),
             \A s \in STA : CandidateFrom(s)
      PROVE  Numbered'
  BY <1>s, <1>t, NumberedKept DEF Live
<1>c. ASSUME NEW c \in AP, link' = Closed(c), removal' = Removing(c),
             \A s \in STA, a \in AP : PairFrom(s, a),
             \A s \in STA : CandidateFrom(s)
      PROVE  Numbered'
  <2>1. /\ \A a \in AP : link'[a].sw >= link[a].sw
        /\ \A a \in AP : \A sw \in 1 .. link[a].sw : Live(a, sw)' => Live(a, sw)
        /\ \A r \in removal' :
              \/ \E q \in removal : r.ap = q.ap /\ r.sw = q.sw
              \/ r.ap \in AP /\ r.sw = link[r.ap].sw /\ ~link'[r.ap].up
    BY <1>c, <1>t, ClosedLess
  <2> QED
    BY <1>c, <2>1, NumberedKept
<1>u. ASSUME UNCHANGED <<STAAPList, STAAPRSSIList>>
      PROVE  (\A s \in STA, a \in AP : PairFrom(s, a)) /\ (\A s \in STA : CandidateFrom(s))
  BY <1>u DEF PairFrom, CandidateFrom, lookupSenderSTAAP
<1>1. ASSUME NEW a \in AP, Receive(a) PROVE Numbered'
  <2>1. PICK i \in 1 .. Len(up[a]) : up[a][i] \in UpMsg /\ Received1(a, up[a][i])
    BY <1>1, ReceiveEffect
  <2>2. PICK s \in STA : s = up[a][i].sta
    BY <2>1 DEF UpMsg
  <2>3. UNCHANGED <<link, removal>>
    BY <1>1, ReceiveEffect
  <2>4. /\ \A u \in STA, b \in AP : u # s \/ b # a => STAAPList'[u][b] = STAAPList[u][b]
        /\ \A u \in STA : u # s => STAAPRSSIList'[u] = STAAPRSSIList[u]
        /\ \/ Selects(a, s)
           \/ Changes(a, s)
           \/ Reports(a, s)
           \/ UNCHANGED <<STAAPList, STAAPRSSIList>>
    BY <2>1, <2>2 DEF Received1
  <2>5. PairFrom(s, a) /\ CandidateFrom(s)
    BY <1>u, <2>4 DEF Selects, Changes, Reports, PairFrom, CandidateFrom,
                      NoAPInfo, lookupSenderSTAAP
  <2>6. /\ \A u \in STA, b \in AP : PairFrom(u, b)
        /\ \A u \in STA : CandidateFrom(u)
    BY <2>4, <2>5 DEF PairFrom, CandidateFrom, lookupSenderSTAAP
  <2> QED
    BY <1>s, <2>3, <2>6
<1>2. ASSUME NEW a \in AP, HandleAPRSSI(a) PROVE Numbered'
  <2>1. PICK s \in STA :
          /\ \A u \in STA : u # s => /\ STAAPList'[u] = STAAPList[u]
                                     /\ STAAPRSSIList'[u] = STAAPRSSIList[u]
          /\ \/ /\ UNCHANGED <<STAAPList, link, removal>>
                /\ STAAPRSSIList'[s].ap = STAAPRSSIList[s].ap
                /\ STAAPRSSIList'[s].sw = STAAPRSSIList[s].sw
             \/ \E c \in AP : MovesTo(a, s, c)
    BY <1>2, AnswerEffect
  <2>2. ASSUME NEW u \in STA, u # s
        PROVE  (\A b \in AP : PairFrom(u, b)) /\ CandidateFrom(u)
    BY <2>1, <2>2 DEF PairFrom, CandidateFrom, lookupSenderSTAAP
  <2>3. CASE /\ UNCHANGED <<STAAPList, link, removal>>
             /\ STAAPRSSIList'[s].ap = STAAPRSSIList[s].ap
             /\ STAAPRSSIList'[s].sw = STAAPRSSIList[s].sw
    <3>1. (\A b \in AP : PairFrom(s, b)) /\ CandidateFrom(s)
      BY <2>3 DEF PairFrom, CandidateFrom, lookupSenderSTAAP
    <3> QED
      BY <1>s, <2>2, <2>3, <3>1
  <2>4. ASSUME NEW c \in AP, MovesTo(a, s, c) PROVE Numbered'
    <3>1. CandidateFrom(s)
      BY <2>4 DEF MovesTo, CandidateFrom
    <3>2. ASSUME NEW b \in AP PROVE PairFrom(s, b)
      <4>1. CASE b = c
        BY <2>4, <4>1 DEF MovesTo, PairFrom
      <4>2. CASE b # c
        BY <2>4, <4>2 DEF MovesTo, PairFrom, lookupSenderSTAAP
      <4> QED
        BY <4>1, <4>2
    <3>3. CASE UNCHANGED <<link, removal>>
      BY <1>s, <2>2, <3>1, <3>2, <3>3
    <3>4. CASE link' = Closed(c) /\ removal' = Removing(c)
      BY <1>c, <2>2, <3>1, <3>2, <3>4
    <3> QED
      BY <2>4, <3>3, <3>4 DEF MovesTo
  <2> QED
    BY <2>1, <2>3, <2>4
<1>3. CASE RemovedSwitch
  <2>1. PICK r \in removal : SweepSTAAPList(r) \/ SweepSTAAPRSSIList(r)
    BY <1>3 DEF RemovedSwitch, removedSwitch
  <2>2. /\ \A s \in STA, a \in AP : PairFrom(s, a)
        /\ \A s \in STA : CandidateFrom(s)
    BY <2>1 DEF SweepSTAAPList, SweepSTAAPRSSIList, PairFrom, CandidateFrom,
                NoSTAAP, NoAPInfo, lookupSenderSTAAP
  <2>3. link' = link /\ \A p \in removal' : \E q \in removal : p.ap = q.ap /\ p.sw = q.sw
    BY <2>1 DEF SweepSTAAPList, SweepSTAAPRSSIList
  <2> QED
    BY <1>t, <2>2, <2>3, NumberedKept DEF Live
<1>4. ASSUME NEW a \in AP, ConnOpen(a) PROVE Numbered'
  <2>1. /\ UNCHANGED <<STAAPList, STAAPRSSIList, removal>>
        /\ link' = [link EXCEPT ![a] = [up |-> TRUE, sw |-> @.sw + 1]]
    BY <1>4 DEF ConnOpen, controller_conn_open, ctrlVars
  <2>2. /\ link'[a] = [up |-> TRUE, sw |-> link[a].sw + 1]
        /\ \A b \in AP : b # a => link'[b] = link[b]
    BY <2>1 DEF TypeOK, LinkTypeOK
  <2>3. /\ \A b \in AP : link'[b].sw >= link[b].sw
        /\ \A b \in AP : \A sw \in 1 .. link[b].sw : Live(b, sw)' => Live(b, sw)
    BY <1>t, <2>2 DEF Live
  <2> QED
    BY <1>u, <2>1, <2>3, NumberedKept
<1>5. CASE Failure
  <2>1. PICK c \in AP : Cut(c) \/ Restart(c)
    BY <1>5 DEF Failure
  <2>2. /\ link' = Closed(c) /\ removal' = Removing(c)
        /\ UNCHANGED <<STAAPList, STAAPRSSIList>>
    BY <2>1 DEF Cut, Restart, ctrlVars
  <2> QED
    BY <1>c, <1>u, <2>2
<1>6. CASE FrameStep
  BY <1>s, <1>u, <1>6 DEF FrameStep
<1>7. ASSUME NEW a \in AP, HandleVendor(a) PROVE Numbered'
  BY <1>s, <1>u, <1>7, VendorEffect
<1>8. ASSUME NEW a \in AP, NEW t \in Thread, ProcessStaData(a, t) PROVE Numbered'
  BY <1>s, <1>u, <1>8, ThreadEffect
<1>9. CASE UNCHANGED vars
  BY <1>s, <1>u, <1>9 DEF vars, linkVars, ctrlVars
<1> QED
  BY <1>1, <1>2, <1>3, <1>4, <1>5, <1>6, <1>7, <1>8, <1>9, StationEffect,
     TimerEffect, RecheckEffect, CommitEffect, SendFailsEffect DEF Next

LEMMA NumberedInit == Init => Numbered
  BY DEF Init, LinkInit, ControllerInit, NoSTAAP, NoAPInfo, Numbered,
         lookupSenderSTAAP

-----------------------------------------------------------------------------

(***************************************************************************)
(* No connection has failed yet.                                           *)
(***************************************************************************)
AllUp == \A a \in AP : link[a] = [up |-> TRUE, sw |-> 1]

LEMMA UpMeans ==
    ASSUME TypeOK, Numbered, AllUp
    PROVE  /\ removal = {}
           /\ \A a \in AP : Live(a, 1)
           /\ \A s \in STA, a \in AP : lookupSenderSTAAP(s, a) =>
                 STAAPList[s][a].sw = 1
<1>1. \A a \in AP : link[a].up /\ link[a].sw = 1
  BY DEF AllUp
<1>2. \A s \in STA, a \in AP : lookupSenderSTAAP(s, a) => STAAPList[s][a].sw = 1
  <2> SUFFICES ASSUME NEW s \in STA, NEW a \in AP, lookupSenderSTAAP(s, a)
               PROVE  STAAPList[s][a].sw = 1
    OBVIOUS
  <2>1. STAAPList[s][a].sw \in 1 .. 1
    BY <1>1 DEF Numbered
  <2> QED
    BY <2>1
<1>3. ASSUME NEW r \in removal PROVE FALSE
  <2>1. r.ap \in AP
    BY DEF TypeOK, LinkTypeOK, Removal
  <2>2. r.sw \in 1 .. 1 /\ ~Live(r.ap, r.sw)
    BY <1>1, <2>1 DEF Numbered
  <2> QED
    BY <1>1, <2>1, <2>2 DEF Live
<1> QED
  BY <1>1, <1>2, <1>3 DEF Live

(***************************************************************************)
(* Connections change only when one is closed or opened again: once one    *)
(* has failed, AllUp stays false.                                          *)
(***************************************************************************)
LEMMA StillUp ==
    ASSUME TypeOK, Numbered, [Next]_vars, AllUp'
    PROVE  AllUp /\ link' = link
<1>1. \A a \in AP : link'[a].up /\ link'[a].sw = 1
  BY DEF AllUp
<1>2. ASSUME NEW c \in AP, link' = Closed(c) PROVE FALSE
  <2>1. link'[c] = [up |-> FALSE, sw |-> link[c].sw]
    BY <1>2 DEF Closed, TypeOK, LinkTypeOK
  <2> QED
    BY <1>1, <2>1
<1>3. ASSUME NEW a \in AP, ConnOpen(a) PROVE FALSE
  <2>1. link'[a] = [up |-> TRUE, sw |-> link[a].sw + 1]
    BY <1>3 DEF ConnOpen, controller_conn_open, TypeOK, LinkTypeOK
  <2>2. link[a].sw \in Nat /\ link[a].sw >= 1
    BY DEF TypeOK, LinkTypeOK, Link, Numbered
  <2>3. link'[a].sw = link[a].sw + 1
    BY <2>1
  <2> QED
    BY <1>1, <2>2, <2>3
<1>4. ASSUME NEW a \in AP, Receive(a) PROVE link' = link
  BY <1>4 DEF Receive, receive
<1>5. ASSUME NEW a \in AP, HandleAPRSSI(a) PROVE link' = link
  BY <1>2, <1>5, AnswerEffect DEF MovesTo
<1>6. CASE RemovedSwitch
  BY <1>6 DEF RemovedSwitch, removedSwitch, SweepSTAAPList, SweepSTAAPRSSIList,
              AllUp
<1>7. CASE Failure
  BY <1>2, <1>7 DEF Failure, Cut, Restart
<1>8. CASE FrameStep
  BY <1>8 DEF FrameStep, AllUp
<1>9. ASSUME NEW a \in AP, HandleVendor(a) PROVE link' = link
  BY <1>9, VendorEffect
<1>10. ASSUME NEW a \in AP, NEW t \in Thread, ProcessStaData(a, t) PROVE link' = link
  BY <1>10, ThreadEffect
<1>11. link' = link
  BY <1>3, <1>4, <1>5, <1>6, <1>7, <1>8, <1>9, <1>10, StationEffect, TimerEffect,
     RecheckEffect, CommitEffect, SendFailsEffect DEF Next, vars, linkVars, FrameStep
<1> QED
  BY <1>11 DEF AllUp

(***************************************************************************)
(* The steps that leave all connections as they are, by what matters.      *)
(***************************************************************************)
LEMMA UpSteps ==
    ASSUME TypeOK, Numbered, [Next]_vars, AllUp'
    PROVE  \/ \E a \in AP : Receive(a) \/ HandleAPRSSI(a) \/ HandleVendor(a)
           \/ \E a \in AP, t \in Thread : ProcessStaData(a, t)
           \/ FrameStep
           \/ UNCHANGED vars
<1>1. AllUp /\ link' = link
  BY StillUp
<1>2. \A a \in AP : link[a].up
  BY <1>1 DEF AllUp
<1>3. ~RemovedSwitch
  BY <1>1, UpMeans DEF RemovedSwitch, removedSwitch
<1>4. \A a \in AP : ~ConnOpen(a)
  BY <1>2 DEF ConnOpen, controller_conn_open
<1>5. ~Failure
  <2>1. ASSUME NEW c \in AP, link' = Closed(c) PROVE FALSE
    <3>1. link'[c] = [up |-> FALSE, sw |-> link[c].sw]
      BY <2>1 DEF Closed, TypeOK, LinkTypeOK
    <3>2. ~link'[c].up
      BY <3>1
    <3> QED
      BY <1>1, <1>2, <3>2
  <2> QED
    BY <2>1 DEF Failure, Cut, Restart
<1> QED
  BY <1>3, <1>4, <1>5, StationEffect, TimerEffect,
     RecheckEffect, CommitEffect, SendFailsEffect DEF Next

-----------------------------------------------------------------------------

(***************************************************************************)
(* Messages under way: what is coming stays, what is written is coming.    *)
(***************************************************************************)
LEMMA LongerTypes ==
    ASSUME NEW c \in [AP -> Seq(DownMsg)], NEW a \in AP
    PROVE  Len(c[a]) \in Nat /\ Longer(c, c)
<1>1. \A b \in AP : c[b] \in Seq(DownMsg)
  OBVIOUS
<1>2. \A b \in AP : Len(c[b]) \in Nat
  BY <1>1
<1> QED
  BY <1>2 DEF Longer

LEMMA LongerTwice ==
    ASSUME NEW c \in [AP -> Seq(DownMsg)], NEW d \in [AP -> Seq(DownMsg)],
           NEW e \in [AP -> Seq(DownMsg)], Longer(c, d), Longer(d, e)
    PROVE  Longer(c, e)
<1>1. \A a \in AP : Len(c[a]) \in Nat /\ Len(d[a]) \in Nat /\ Len(e[a]) \in Nat
  BY LongerTypes
<1>2. ASSUME NEW a \in AP PROVE Len(c[a]) <= Len(e[a])
  BY <1>1 DEF Longer
<1>3. ASSUME NEW a \in AP, NEW i \in 1 .. Len(c[a]) PROVE e[a][i] = c[a][i]
  <2>1. i \in 1 .. Len(d[a])
    BY <1>1 DEF Longer
  <2> QED
    BY <2>1 DEF Longer
<1> QED
  BY <1>2, <1>3 DEF Longer

LEMMA ComingKept ==
    ASSUME TypeOK, TypeOK', Longer(down, down'), NEW a \in AP, NEW s, NEW type,
           Coming(a, s, type)
    PROVE  Coming(a, s, type)'
<1>1. Len(down[a]) \in Nat /\ Len(down'[a]) \in Nat
  BY LongerTypes DEF TypeOK, LinkTypeOK
<1>2. PICK i \in 1 .. Len(down[a]) : down[a][i] = [type |-> type, sta |-> s]
  BY DEF Coming
<1>3. i \in 1 .. Len(down'[a]) /\ down'[a][i] = down[a][i]
  BY <1>1 DEF Longer
<1> QED
  BY <1>2, <1>3 DEF Coming

LEMMA WrittenComing ==
    ASSUME TypeOK, NEW a \in AP, NEW sw, NEW type \in DownType, NEW s \in STA,
           down' = write(down, a, sw, type, s)
    PROVE  /\ Longer(down, down')
           /\ OnlyMore(down, down', a, [type |-> type, sta |-> s])
           /\ Live(a, sw) => Coming(a, s, type)'
           /\ ~Live(a, sw) => down' = down
<1> DEFINE m == [type |-> type, sta |-> s]
<1>1. down \in [AP -> Seq(DownMsg)]
  BY DEF TypeOK, LinkTypeOK
<1>2. /\ Longer(down, down')
      /\ OnlyMore(down, down', a, m)
      /\ ~Live(a, sw) => down' = down
      /\ Live(a, sw) => /\ Len(down'[a]) = Len(down[a]) + 1
                        /\ down'[a][Len(down[a]) + 1] = m
  BY <1>1, writeEffect
<1>3. Len(down[a]) \in Nat
  BY <1>1, LongerTypes
<1> HIDE DEF m
<1>4. ASSUME Live(a, sw) PROVE \E i \in 1 .. Len(down'[a]) : down'[a][i] = m
  <2>1. Len(down[a]) + 1 \in 1 .. Len(down'[a])
    BY <1>2, <1>3, <1>4
  <2> QED
    BY <1>2, <1>4, <2>1
<1> QED
  BY <1>2, <1>4 DEF Coming, m

(***************************************************************************)
(* A move writes REMOVE_STA to a, and UPDATE_STA_ADD to c over the         *)
(* connection of the new pair, if this is open.                            *)
(***************************************************************************)
LEMMA MoveWrites ==
    ASSUME TypeOK, NEW a \in AP, NEW c \in AP, NEW s \in STA, MovesTo(a, s, c)
    PROVE  /\ Longer(down, down')
           /\ \A b \in AP : \A i \in 1 .. Len(down'[b]) :
                \/ i <= Len(down[b])
                \/ b = a /\ down'[b][i] = [type |-> "REMOVE_STA", sta |-> s]
                \/ /\ b = c /\ down'[b][i] = [type |-> "UPDATE_STA_ADD", sta |-> s]
                   /\ Live(c, STAAPList'[s][c].sw)
<1>0. PICK sw : sw = STAAPList'[s][c].sw
  OBVIOUS
<1> DEFINE d == write(down, a, link[a].sw, "REMOVE_STA", s)
           r == [type |-> "REMOVE_STA", sta |-> s]
           m == [type |-> "UPDATE_STA_ADD", sta |-> s]
           e == write(d, c, sw, "UPDATE_STA_ADD", s)
<1>1. down' = d \/ down' = e
  <2> DEFINE from == IF lookupSenderSTAAP(s, c) THEN STAAPList[s][c].sw
                                                ELSE STAAPRSSIList[s].sw
  <2>1. /\ down' = d \/ down' = write(d, c, from, "UPDATE_STA_ADD", s)
        /\ sw = from
    BY <1>0 DEF MovesTo
  <2> HIDE DEF from, d
  <2> QED
    BY <2>1
<1>2. down \in [AP -> Seq(DownMsg)]
  BY DEF TypeOK, LinkTypeOK
<1>3. d \in [AP -> Seq(DownMsg)] /\ Longer(down, d) /\ OnlyMore(down, d, a, r)
  BY <1>2, writeEffect DEF DownType
<1> HIDE DEF d, r
<1>4. /\ e \in [AP -> Seq(DownMsg)] /\ Longer(d, e) /\ OnlyMore(d, e, c, m)
      /\ ~Live(c, sw) => e = d
  <2>1. "UPDATE_STA_ADD" \in DownType
    BY DEF DownType
  <2> QED
    BY ZenonT(30), <1>3, <2>1, writeEffect
<1> HIDE DEF e, m
<1>5. Longer(down, down')
  BY <1>1, <1>2, <1>3, <1>4, LongerTwice
<1>6. ASSUME NEW b \in AP, NEW i \in 1 .. Len(d[b])
      PROVE  i <= Len(down[b]) \/ (b = a /\ d[b][i] = r)
  BY <1>3 DEF OnlyMore
<1>7. ASSUME NEW b \in AP, NEW i \in 1 .. Len(e[b]), Live(c, sw)
      PROVE  \/ i <= Len(down[b])
             \/ b = a /\ e[b][i] = r
             \/ b = c /\ e[b][i] = m
  <2>1. Len(d[b]) \in Nat /\ Len(e[b]) \in Nat
    BY <1>3, <1>4, LongerTypes
  <2>2. CASE i <= Len(d[b])
    <3>1. i \in 1 .. Len(d[b])
      BY <2>1, <2>2
    <3>2. e[b][i] = d[b][i]
      BY <1>4, <3>1 DEF Longer
    <3> QED
      BY <1>6, <3>1, <3>2
  <2>3. CASE ~(i <= Len(d[b]))
    BY <1>4, <2>3 DEF OnlyMore
  <2> QED
    BY <2>2, <2>3
<1> QED
  BY <1>0, <1>1, <1>4, <1>5, <1>6, <1>7 DEF r, m

-----------------------------------------------------------------------------

(***************************************************************************)
(* A question about s, or the answer to it, is under way.                  *)
(***************************************************************************)
Asked(s) ==
    \E a \in AP : \/ Coming(a, s, "LAST_REC_POW")
                  \/ \E i \in 1 .. Len(replies[a]) : replies[a][i].sta = s

LEMMA AskedKept ==
    ASSUME TypeOK, TypeOK', NEW s \in STA, NEW u, u # s, Asked(s),
           Longer(down, down'), \A a \in AP : LacksOnly(replies'[a], replies[a], u)
    PROVE  Asked(s)'
<1>1. PICK a \in AP : \/ Coming(a, s, "LAST_REC_POW")
                      \/ \E i \in 1 .. Len(replies[a]) : replies[a][i].sta = s
  BY DEF Asked
<1>2. CASE Coming(a, s, "LAST_REC_POW")
  BY <1>2, ComingKept DEF Asked
<1>3. CASE \E i \in 1 .. Len(replies[a]) : replies[a][i].sta = s
  BY <1>3 DEF Asked, LacksOnly
<1> QED
  BY <1>1, <1>2, <1>3

(***************************************************************************)
(* An AP answers the question it takes from its queue.                     *)
(***************************************************************************)
LEMMA VendorAsked ==
    ASSUME TypeOK, TypeOK', NEW s \in STA, NEW a \in AP, Asked(s), link[a].up,
           HandleVendor(a)
    PROVE  Asked(s)'
<1> USE DEF TypeOK, LinkTypeOK
<1>1. PICK m \in DownMsg :
        /\ down[a] # <<>> /\ m = Head(down[a])
        /\ down' = [down EXCEPT ![a] = Tail(@)]
        /\ \/ replies' = replies /\ m.type # "LAST_REC_POW"
           \/ /\ m.type = "LAST_REC_POW"
              /\ replies' = [replies EXCEPT ![a] =
                   Append(@, [sta |-> m.sta, rssi |-> infoSTA[a][m.sta].last])]
  BY VendorEffect
<1>2. \A b \in AP : Len(replies[b]) \in Nat /\ replies[b] \in Seq(Reply)
  OBVIOUS
<1>3. \A b \in AP : \A i \in 1 .. Len(replies[b]) :
        i \in 1 .. Len(replies'[b]) /\ replies'[b][i] = replies[b][i]
  <2>1. CASE replies' = replies
    BY <2>1
  <2>2. CASE replies' # replies
    <3> DEFINE r == [sta |-> m.sta, rssi |-> infoSTA[a][m.sta].last]
    <3>1. replies' = [replies EXCEPT ![a] = Append(@, r)]
      BY <1>1, <2>2
    <3>2. r \in Reply
      BY DEF Reply, DownMsg, AgentTypeOK, Info
    <3> HIDE DEF r
    <3>3. /\ Len(replies'[a]) = Len(replies[a]) + 1
          /\ \A i \in 1 .. Len(replies[a]) : replies'[a][i] = replies[a][i]
      BY <1>2, <3>1, <3>2, Appended
    <3>4. \A b \in AP : b # a => replies'[b] = replies[b]
      BY <3>1
    <3>5. \A i \in 1 .. Len(replies[a]) :
            i \in 1 .. Len(replies'[a]) /\ replies'[a][i] = replies[a][i]
      BY <1>2, <3>3
    <3> QED
      BY <3>4, <3>5
  <2> QED
    BY <2>1, <2>2
<1>4. PICK b \in AP : \/ Coming(b, s, "LAST_REC_POW")
                      \/ \E i \in 1 .. Len(replies[b]) : replies[b][i].sta = s
  BY DEF Asked
<1>5. CASE \E i \in 1 .. Len(replies[b]) : replies[b][i].sta = s
  <2>1. PICK i \in 1 .. Len(replies[b]) : replies[b][i].sta = s
    BY <1>5
  <2>2. i \in 1 .. Len(replies'[b]) /\ replies'[b][i].sta = s
    BY <1>3, <2>1
  <2> QED
    BY <2>2 DEF Asked
<1>6. CASE Coming(b, s, "LAST_REC_POW")
  <2> DEFINE q == [type |-> "LAST_REC_POW", sta |-> s]
  <2>1. PICK i \in 1 .. Len(down[b]) : down[b][i] = q
    BY <1>6 DEF Coming
  <2>2. q.type = "LAST_REC_POW" /\ q.sta = s
    OBVIOUS
  <2> HIDE DEF q
  <2>3. CASE b # a
    <3>1. down'[b] = down[b]
      BY <1>1, <2>3
    <3> QED
      BY <2>1, <3>1 DEF Asked, Coming, q
  <2>4. CASE b = a /\ i # 1
    <3>1. /\ Len(down[a]) \in Nat
          /\ Len(down'[a]) = Len(down[a]) - 1
          /\ \A j \in 1 .. Len(down[a]) - 1 : down'[a][j] = down[a][j + 1]
      BY <1>1
    <3>2. i - 1 \in 1 .. Len(down[a]) - 1 /\ (i - 1) + 1 = i
      BY <2>1, <2>4, <3>1
    <3>3. i - 1 \in 1 .. Len(down'[a]) /\ down'[a][i - 1] = q
      BY <2>1, <2>4, <3>1, <3>2
    <3> QED
      BY <3>3 DEF Asked, Coming, q
  <2>5. CASE b = a /\ i = 1
    <3> DEFINE r == [sta |-> m.sta, rssi |-> infoSTA[a][m.sta].last]
    <3>1. m = q
      BY <1>1, <2>1, <2>5
    <3>2. r.sta = s
      BY <2>2, <3>1
    <3>3. replies' = [replies EXCEPT ![a] = Append(@, r)]
      BY <1>1, <2>2, <3>1
    <3>4. r \in Reply
      BY SMTT(30) DEF Reply, DownMsg, AgentTypeOK, Info
    <3> HIDE DEF r
    <3>5. /\ Len(replies'[a]) = Len(replies[a]) + 1
          /\ replies'[a][Len(replies[a]) + 1] = r
      BY <1>2, <3>3, <3>4, Appended
    <3>6. Len(replies[a]) + 1 \in 1 .. Len(replies'[a])
      BY <1>2, <3>5
    <3> QED
      BY <3>2, <3>5, <3>6 DEF Asked
  <2> QED
    BY <2>3, <2>4, <2>5
<1> QED
  BY <1>4, <1>5, <1>6

LEMMA QuestionStep ==
    TypeOK /\ TypeOK' /\ Numbered /\ QuestionPending /\ [Next]_vars => QuestionPending'
<1> SUFFICES ASSUME TypeOK, TypeOK', Numbered, QuestionPending, [Next]_vars, AllUp',
                    NEW s \in STA, STAAPRSSIList'[s].isSent
             PROVE  Asked(s)'
  BY DEF QuestionPending, AllUp, Asked
<1>1. AllUp /\ link' = link
  BY StillUp
<1>2. STAAPRSSIList[s].isSent => Asked(s)
  BY <1>1 DEF QuestionPending, AllUp, Asked
<1>3. ASSUME NEW u, u # s, STAAPRSSIList[s].isSent,
             Longer(down, down'), \A a \in AP : LacksOnly(replies'[a], replies[a], u)
      PROVE  Asked(s)'
  BY <1>2, <1>3, AskedKept
<1>4. None # s
  BY NoneAssumption
<1>5. ASSUME UNCHANGED replies PROVE \A a \in AP : LacksOnly(replies'[a], replies[a], None)
  BY <1>5, PartItself
<1>6. ASSUME UNCHANGED down PROVE Longer(down, down')
  BY <1>6, LongerTypes DEF TypeOK, LinkTypeOK, Longer
<1>7. ASSUME NEW a \in AP, Receive(a) PROVE Asked(s)'
  <2>1. PICK i \in 1 .. Len(up[a]) : up[a][i] \in UpMsg /\ Received1(a, up[a][i])
    BY <1>7, ReceiveEffect
  <2>2. PICK u \in STA : u = up[a][i].sta
    BY <2>1 DEF UpMsg
  <2>3. UNCHANGED replies
    BY <1>7, ReceiveEffect
  <2>4. \/ Selects(a, u) /\ STAAPRSSIList'[s] = STAAPRSSIList[s]
        \/ Changes(a, u)
        \/ Reports(a, u)
        \/ UNCHANGED <<STAAPList, STAAPRSSIList, down>>
    BY <2>1, <2>2 DEF Received1, Selects
  <2>5. u # s => STAAPRSSIList'[s] = STAAPRSSIList[s]
    BY <2>1, <2>2 DEF Received1
  <2>6. CASE Selects(a, u)
    <3>1. Longer(down, down')
      BY <2>6, WrittenComing DEF Selects, DownType
    <3> QED
      BY <1>3, <1>4, <1>5, <2>3, <2>6, <3>1 DEF Selects
  <2>7. CASE Changes(a, u)
    <3>1. STAAPRSSIList[s].isSent /\ UNCHANGED down
      BY <2>5, <2>7 DEF Changes, NoAPInfo
    <3> QED
      BY <1>3, <1>4, <1>5, <1>6, <2>3, <3>1
  <2>8. CASE Reports(a, u)
    <3>1. CASE UNCHANGED down /\ STAAPRSSIList'[u].isSent = STAAPRSSIList[u].isSent
      <4>1. STAAPRSSIList[s].isSent
        BY <2>5, <3>1
      <4> QED
        BY <1>3, <1>4, <1>5, <1>6, <2>3, <3>1, <4>1
    <3>2. ASSUME NEW b \in findSTAAPInfo(u),
                 down' = write(down, b, STAAPList[u][b].sw, "LAST_REC_POW", u)
          PROVE  Asked(s)'
      <4>1. b \in AP /\ lookupSenderSTAAP(u, b)
        BY DEF findSTAAPInfo, lookupSenderSTAAP
      <4>2. Live(b, STAAPList[u][b].sw)
        BY <1>1, <4>1, UpMeans
      <4>3. Longer(down, down') /\ Coming(b, u, "LAST_REC_POW")'
        BY <3>2, <4>1, <4>2, WrittenComing DEF DownType
      <4>4. CASE u = s
        BY <4>1, <4>3, <4>4 DEF Asked
      <4>5. CASE u # s
        BY <1>3, <1>4, <1>5, <2>3, <2>5, <4>3, <4>5
      <4> QED
        BY <4>4, <4>5
    <3> QED
      BY <2>8, <3>1, <3>2 DEF Reports
  <2>9. CASE UNCHANGED <<STAAPList, STAAPRSSIList, down>>
    BY <1>3, <1>4, <1>5, <1>6, <2>3, <2>9
  <2> QED
    BY <2>4, <2>6, <2>7, <2>8, <2>9
<1>8. ASSUME NEW a \in AP, HandleAPRSSI(a) PROVE Asked(s)'
  <2>1. PICK u \in STA :
          /\ Handled(u)
          /\ \A x \in STA : x # u => STAAPRSSIList'[x] = STAAPRSSIList[x]
          /\ ~STAAPRSSIList'[u].isSent
          /\ down' = down \/ \E c \in AP : MovesTo(a, u, c)
    BY <1>8, AnswerEffect
  <2>2. u # s /\ STAAPRSSIList[s].isSent
    BY <2>1
  <2>3. \A b \in AP : LacksOnly(replies'[b], replies[b], u)
    BY <1>1, <2>1 DEF Handled
  <2>4. Longer(down, down')
    BY <1>6, <2>1, MoveWrites
  <2> QED
    BY <1>3, <2>2, <2>3, <2>4
<1>9. ASSUME NEW a \in AP, HandleVendor(a) PROVE Asked(s)'
  <2>1. UNCHANGED STAAPRSSIList
    BY <1>9, VendorEffect
  <2>2. link[a].up
    BY <1>1 DEF AllUp
  <2> QED
    BY <1>2, <1>9, <2>1, <2>2, VendorAsked
<1>10. ASSUME UNCHANGED <<STAAPRSSIList, down, replies>> PROVE Asked(s)'
  BY <1>3, <1>4, <1>5, <1>6, <1>10
<1>11. CASE FrameStep
  BY <1>10, <1>11 DEF FrameStep
<1>12. ASSUME NEW a \in AP, NEW t \in Thread, ProcessStaData(a, t) PROVE Asked(s)'
  BY <1>10, <1>12, ThreadEffect
<1>13. CASE UNCHANGED vars
  BY <1>10, <1>13 DEF vars, linkVars, ctrlVars
<1> QED
  BY <1>7, <1>8, <1>9, <1>11, <1>12, <1>13, UpSteps

(***************************************************************************)
(* isSent does not outlive the question: as long as no connection has      *)
(* failed, whichever reports, moves, departures and answers of the same    *)
(* and of other stations interleave, handleLastRSSI is not kept from       *)
(* asking by a question that nobody will answer.                           *)
(***************************************************************************)
THEOREM QuestionsPending == Spec => []QuestionPending
<1>1. Init => Numbered /\ QuestionPending
  <2>1. Init => QuestionPending
    BY DEF Init, ControllerInit, NoAPInfo, QuestionPending
  <2> QED
    BY <2>1, NumberedInit
<1>2. TypeOK /\ TypeOK' /\ (Numbered /\ QuestionPending) /\ [Next]_vars
         => (Numbered /\ QuestionPending)'
  BY NumberedStep, QuestionStep
<1> QED
  BY <1>1, <1>2, TypeCorrect, PTL DEF Spec

-----------------------------------------------------------------------------

(***************************************************************************)
(* An AP is told to let a station in only if the controller has the pair.  *)
(***************************************************************************)
LetIn ==
    AllUp => \A s \in STA, a \in AP :
       Coming(a, s, "ADD_STA") \/ Coming(a, s, "UPDATE_STA_ADD")
          => lookupSenderSTAAP(s, a)

(***************************************************************************)
(* The station has a pair, or a thread is still to close its window.       *)
(***************************************************************************)
Chosen(s, a) ==
    \/ lookupSenderSTAAP(s, a)
    \/ \E t \in Thread : rssiThread[a][t].pc = "mark" /\ rssiThread[a][t].sta = s

(***************************************************************************)
(* What is coming after something was written was coming before, or is     *)
(* what was written.                                                       *)
(***************************************************************************)
LEMMA ComingFrom ==
    ASSUME TypeOK, NEW a \in AP, NEW s \in STA, NEW type \in DownType, NEW b \in AP,
           NEW sw, NEW u \in STA, NEW t \in DownType,
           down' = write(down, b, sw, t, u), Coming(a, s, type)'
    PROVE  Coming(a, s, type) \/ (a = b /\ s = u /\ type = t)
<1> DEFINE m == [type |-> type, sta |-> s]
           n == [type |-> t, sta |-> u]
<1>1. PICK i \in 1 .. Len(down'[a]) : down'[a][i] = m
  BY DEF Coming
<1>2. m = n => s = u /\ type = t
  <2>1. m.type = type /\ m.sta = s /\ n.type = t /\ n.sta = u
    OBVIOUS
  <2> HIDE DEF m, n
  <2> QED
    BY <2>1
<1>3. Longer(down, down') /\ OnlyMore(down, down', b, n)
  BY WrittenComing
<1>4. Len(down[a]) \in Nat
  BY LongerTypes DEF TypeOK, LinkTypeOK
<1> HIDE DEF m, n
<1>5. CASE i <= Len(down[a])
  <2>1. i \in 1 .. Len(down[a])
    BY <1>4, <1>5
  <2>2. down[a][i] = m
    BY <1>1, <1>3, <2>1 DEF Longer
  <2> QED
    BY <2>1, <2>2 DEF Coming, m
<1>6. CASE ~(i <= Len(down[a]))
  BY <1>1, <1>2, <1>3, <1>6 DEF OnlyMore
<1> QED
  BY <1>5, <1>6

LEMMA ComingFromMove ==
    ASSUME TypeOK, NEW a \in AP, NEW s \in STA, NEW type \in {"ADD_STA", "UPDATE_STA_ADD"},
           NEW b \in AP, NEW c \in AP, NEW u \in STA, MovesTo(b, u, c),
           Coming(a, s, type)'
    PROVE  Coming(a, s, type) \/ (a = c /\ s = u)
<1> DEFINE m == [type |-> type, sta |-> s]
           r == [type |-> "REMOVE_STA", sta |-> u]
           n == [type |-> "UPDATE_STA_ADD", sta |-> u]
<1>1. PICK i \in 1 .. Len(down'[a]) : down'[a][i] = m
  BY DEF Coming
<1>2. m # r /\ (m = n => s = u)
  <2>1. m.type = type /\ m.sta = s /\ n.sta = u /\ r.type = "REMOVE_STA"
    OBVIOUS
  <2> HIDE DEF m, n, r
  <2> QED
    BY <2>1
<1>3. /\ Longer(down, down')
      /\ \/ i <= Len(down[a])
         \/ a = b /\ down'[a][i] = r
         \/ a = c /\ down'[a][i] = n
  BY MoveWrites
<1>4. Len(down[a]) \in Nat
  BY LongerTypes DEF TypeOK, LinkTypeOK
<1> HIDE DEF m, n, r
<1>5. CASE i <= Len(down[a])
  <2>1. i \in 1 .. Len(down[a])
    BY <1>4, <1>5
  <2>2. down[a][i] = m
    BY <1>1, <1>3, <2>1 DEF Longer
  <2> QED
    BY <2>1, <2>2 DEF Coming, m
<1> QED
  BY <1>1, <1>2, <1>3, <1>5

LEMMA ComingBefore ==
    ASSUME TypeOK, NEW b \in AP, down[b] # <<>>, down' = [down EXCEPT ![b] = Tail(@)],
           NEW a \in AP, NEW s, NEW type, Coming(a, s, type)'
    PROVE  Coming(a, s, type)
<1>1. PartOf(Tail(down[b]), down[b])
  BY TailPart DEF TypeOK, LinkTypeOK
<1>2. PartOf(down'[a], down[a])
  BY <1>1, PartItself DEF TypeOK, LinkTypeOK
<1> QED
  BY <1>2 DEF PartOf, Coming

LEMMA ChosenStep ==
    ASSUME TypeOK, TypeOK', Numbered, LetIn, OnlyChosen, [Next]_vars
    PROVE  LetIn' /\ OnlyChosen'
<1> SUFFICES ASSUME AllUp', NEW s \in STA, NEW a \in AP
             PROVE  /\ (Coming(a, s, "ADD_STA") \/ Coming(a, s, "UPDATE_STA_ADD"))'
                          => lookupSenderSTAAP(s, a)'
                    /\ infoSTA'[a][s].status = "SELECTED" => Chosen(s, a)'
  BY DEF LetIn, OnlyChosen, AllUp, Chosen, Status
<1> DEFINE Telling == Coming(a, s, "ADD_STA") \/ Coming(a, s, "UPDATE_STA_ADD")
<1>1. AllUp /\ link' = link
  BY StillUp
<1>2. /\ Telling => lookupSenderSTAAP(s, a)
      /\ infoSTA[a][s].status = "SELECTED" => Chosen(s, a)
  BY <1>1 DEF LetIn, OnlyChosen, AllUp, Chosen, Status
<1>3. ASSUME UNCHANGED <<infoSTA, rssiThread>>,
             lookupSenderSTAAP(s, a) => STAAPList'[s][a].status # "null",
             Telling' => Telling \/ STAAPList'[s][a].status # "null"
      PROVE  /\ Telling' => lookupSenderSTAAP(s, a)'
             /\ infoSTA'[a][s].status = "SELECTED" => Chosen(s, a)'
  BY <1>2, <1>3 DEF Chosen, lookupSenderSTAAP
<1>4. ASSUME NEW b \in AP, Receive(b)
      PROVE  /\ Telling' => lookupSenderSTAAP(s, a)'
             /\ infoSTA'[a][s].status = "SELECTED" => Chosen(s, a)'
  <2>1. PICK i \in 1 .. Len(up[b]) : up[b][i] \in UpMsg /\ Received1(b, up[b][i])
    BY <1>4, ReceiveEffect
  <2>2. PICK u \in STA : u = up[b][i].sta
    BY <2>1 DEF UpMsg
  <2>3. UNCHANGED <<infoSTA, rssiThread>>
    BY <1>4, ReceiveEffect
  <2>4. s # u \/ a # b => STAAPList'[s][a] = STAAPList[s][a]
    BY <2>1, <2>2 DEF Received1
  <2>5. \/ Selects(b, u)
        \/ Changes(b, u)
        \/ Reports(b, u)
        \/ UNCHANGED <<STAAPList, down>>
    BY <2>1, <2>2 DEF Received1
  <2>6. lookupSenderSTAAP(s, a) => STAAPList'[s][a].status # "null"
    BY <2>4, <2>5 DEF Selects, Changes, Reports, lookupSenderSTAAP, STAStatus
  <2>7. ASSUME UNCHANGED down PROVE Telling' => Telling
    BY <2>7 DEF Coming
  <2>8. Telling' => Telling \/ STAAPList'[s][a].status # "null"
    <3>1. CASE Selects(b, u)
      <4>1. Telling' => Telling \/ (a = b /\ s = u)
        BY <3>1, ComingFrom DEF Selects, DownType
      <4>2. STAAPList'[u][b].status # "null"
        BY <3>1 DEF Selects
      <4> QED
        BY <4>1, <4>2
    <3>2. CASE Changes(b, u)
      BY <2>7, <3>2 DEF Changes
    <3>3. CASE Reports(b, u)
      <4>1. ASSUME NEW c \in findSTAAPInfo(u),
                   down' = write(down, c, STAAPList[u][c].sw, "LAST_REC_POW", u)
            PROVE  Telling' => Telling
        BY <4>1, ComingFrom DEF DownType, findSTAAPInfo
      <4> QED
        BY <2>7, <3>3, <4>1 DEF Reports
    <3> QED
      BY <2>5, <2>7, <3>1, <3>2, <3>3
  <2> QED
    BY <1>3, <2>3, <2>6, <2>8
<1>5. ASSUME NEW b \in AP, HandleAPRSSI(b)
      PROVE  /\ Telling' => lookupSenderSTAAP(s, a)'
             /\ infoSTA'[a][s].status = "SELECTED" => Chosen(s, a)'
  <2>1. PICK u \in STA :
          /\ \A x \in STA : x # u => STAAPList'[x] = STAAPList[x]
          /\ \/ UNCHANGED <<STAAPList, down>>
             \/ \E c \in AP : MovesTo(b, u, c)
    BY <1>5, AnswerEffect
  <2>2. UNCHANGED <<infoSTA, rssiThread>>
    BY <1>5, AnswerEffect
  <2>3. CASE UNCHANGED <<STAAPList, down>>
    BY <1>3, <2>2, <2>3 DEF Coming, lookupSenderSTAAP
  <2>4. ASSUME NEW c \in AP, MovesTo(b, u, c)
        PROVE  /\ lookupSenderSTAAP(s, a) => STAAPList'[s][a].status # "null"
               /\ Telling' => Telling \/ STAAPList'[s][a].status # "null"
    <3>1. /\ STAAPList'[u][c].status # "null"
          /\ STAAPList'[u][b].status # "null"
          /\ \A d \in AP : d # b /\ d # c => STAAPList'[u][d] = STAAPList[u][d]
      BY <2>4 DEF MovesTo
    <3>2. Telling' => Telling \/ (a = c /\ s = u)
      BY <2>4, ComingFromMove
    <3> QED
      BY <2>1, <3>1, <3>2 DEF lookupSenderSTAAP
  <2> QED
    BY <1>3, <2>1, <2>2, <2>3, <2>4
<1>6. ASSUME NEW b \in AP, HandleVendor(b)
      PROVE  /\ Telling' => lookupSenderSTAAP(s, a)'
             /\ infoSTA'[a][s].status = "SELECTED" => Chosen(s, a)'
  <2>1. PICK m \in DownMsg :
          /\ down[b] # <<>> /\ m = Head(down[b]) /\ m.sta \in STA
          /\ UNCHANGED <<STAAPList, rssiThread>>
          /\ down' = [down EXCEPT ![b] = Tail(@)]
          /\ OnlyEntry(b, m.sta)
          /\ \/ infoSTA'[b][m.sta].status # "SELECTED"
             \/ infoSTA'[b][m.sta].status = infoSTA[b][m.sta].status
             \/ m.type \in {"ADD_STA", "UPDATE_STA_ADD"}
    BY <1>6, VendorEffect DEF Status
  <2>2. Telling' => Telling
    BY <2>1, ComingBefore
  <2>3. CASE a # b \/ s # m.sta
    <3>1. infoSTA'[a][s] = infoSTA[a][s]
      BY <2>1, <2>3 DEF OnlyEntry
    <3> QED
      BY <1>2, <2>1, <2>2, <3>1 DEF Chosen, lookupSenderSTAAP
  <2>4. CASE a = b /\ s = m.sta /\ m.type \in {"ADD_STA", "UPDATE_STA_ADD"}
    <3>1. m = down[a][1] /\ 1 \in 1 .. Len(down[a])
      BY <2>1, <2>4, TailPart DEF TypeOK, LinkTypeOK
    <3>2. m = [type |-> m.type, sta |-> s]
      BY <2>4 DEF DownMsg
    <3>3. Telling
      BY <2>4, <3>1, <3>2 DEF Coming
    <3> QED
      BY <1>2, <2>1, <3>3 DEF Chosen, lookupSenderSTAAP
  <2>5. CASE /\ a = b /\ s = m.sta
             /\ \/ infoSTA'[a][s].status # "SELECTED"
                \/ infoSTA'[a][s].status = infoSTA[a][s].status
    BY <1>2, <2>1, <2>2, <2>5 DEF Chosen, lookupSenderSTAAP
  <2> QED
    BY <2>1, <2>3, <2>4, <2>5
<1>7. ASSUME NEW b \in AP, NEW t \in Thread, ProcessStaData(b, t)
      PROVE  /\ Telling' => lookupSenderSTAAP(s, a)'
             /\ infoSTA'[a][s].status = "SELECTED" => Chosen(s, a)'
  <2>1. UNCHANGED <<STAAPList, down>>
    BY <1>7, ThreadEffect
  <2>2. PICK u \in STA : rssiThread[b][t].sta = u /\ Worked(b, t, u)
    BY <1>7, ThreadEffect
  <2>3. Telling' => lookupSenderSTAAP(s, a)'
    BY <1>2, <2>1 DEF Coming, lookupSenderSTAAP
  <2>4. ASSUME NEW x \in Thread, rssiThread[a][x].pc = "mark", rssiThread[a][x].sta = s,
               a # b \/ x # t
        PROVE  Chosen(s, a)'
    <3>1. rssiThread'[a][x] = rssiThread[a][x]
      BY <2>2, <2>4 DEF Worked
    <3> QED
      BY <2>4, <3>1 DEF Chosen
  <2>5. CASE a # b \/ s # u
    <3>1. infoSTA'[a][s] = infoSTA[a][s]
      BY <2>2, <2>5 DEF Worked, OnlyEntry
    <3> QED
      BY <1>2, <2>1, <2>2, <2>3, <2>4, <2>5, <3>1 DEF Chosen, lookupSenderSTAAP
  <2>6. CASE a = b /\ s = u
    <3>1. CASE rssiThread'[a][t].pc = "mark"
      <4>1. rssiThread'[a][t].sta = s
        BY <2>2, <2>6, <3>1 DEF Worked
      <4> QED
        BY <2>3, <3>1, <4>1 DEF Chosen
    <3>2. CASE infoSTA[a][s].status = "SELECTED" /\ rssiThread[a][t].pc # "mark"
      BY <1>2, <2>1, <2>3, <2>4, <3>2 DEF Chosen, lookupSenderSTAAP
    <3>3. CASE infoSTA'[a][s].status # "SELECTED"
      BY <2>3, <3>3
    <3> QED
      BY <2>2, <2>6, <3>1, <3>2, <3>3 DEF Worked
  <2> QED
    BY <2>5, <2>6
<1>8. CASE FrameStep
  <2>1. /\ UNCHANGED <<STAAPList, down>>
        /\ infoSTA'[a][s].status = "SELECTED" => infoSTA[a][s].status = "SELECTED"
        /\ \A t \in Thread : rssiThread[a][t].pc = "mark" =>
             rssiThread'[a][t] = rssiThread[a][t]
    BY <1>8 DEF FrameStep
  <2> QED
    BY <1>2, <2>1 DEF Chosen, Coming, lookupSenderSTAAP
<1>9. CASE UNCHANGED vars
  BY <1>2, <1>9 DEF vars, linkVars, ctrlVars, agentVars, Chosen, Coming,
                    lookupSenderSTAAP
<1> QED
  BY <1>4, <1>5, <1>6, <1>7, <1>8, <1>9, UpSteps

(***************************************************************************)
(* The window of addSTA: as long as no connection has failed, whatever the *)
(* RSSI threads of an AP, the frames its event loop works on and the       *)
(* messages of the controller do to each other, an AP passes the check of  *)
(* an authentication of a station that the controller has no pair for only *)
(* while a thread of process_sta_data is between addSTA and changeStatus   *)
(* for this station.                                                       *)
(***************************************************************************)
THEOREM ChosenOnly == Spec => []OnlyChosen
<1>1. Init => Numbered /\ LetIn /\ OnlyChosen
  <2>1. Init => LetIn
    <3>1. Len(<<>>) = 0
      OBVIOUS
    <3> QED
      BY <3>1 DEF Init, LinkInit, LetIn, Coming
  <2>2. Init => OnlyChosen
    BY DEF Init, AgentInit, NoInfo, OnlyChosen, Status
  <2> QED
    BY <2>1, <2>2, NumberedInit
<1>2. TypeOK /\ TypeOK' /\ (Numbered /\ LetIn /\ OnlyChosen) /\ [Next]_vars
         => (Numbered /\ LetIn /\ OnlyChosen)'
  BY NumberedStep, ChosenStep
<1> QED
  BY <1>1, <1>2, TypeCorrect, PTL DEF Spec

-----------------------------------------------------------------------------

(***************************************************************************)
(* OnlyKnown.  a knows s, or the ADD_STA that makes it known is coming.    *)
(***************************************************************************)
Told(a, s) == lookupSenderSTA(a, s) \/ Coming(a, s, "ADD_STA")

(***************************************************************************)
(* Pairs, candidates and reports of an open connection are about stations  *)
(* that the AP knows, or will know before it reads anything written later. *)
(***************************************************************************)
PairsKnown ==
    \A s \in STA, a \in AP :
       lookupSenderSTAAP(s, a) /\ Live(a, STAAPList[s][a].sw) => Told(a, s)

CandidatesKnown ==
    \A s \in STA :
       LET cand == STAAPRSSIList[s]
       IN  cand.ap # None /\ Live(cand.ap, cand.sw) => lookupSenderSTA(cand.ap, s)

ReportsKnown ==
    \A a \in AP :
       /\ \A i \in 1 .. Len(up[a]) :
             up[a][i].type # "PROBE" => lookupSenderSTA(a, up[a][i].sta)
       /\ \A i \in 1 .. Len(replies[a]) : lookupSenderSTA(a, replies[a][i].sta)
       /\ \A t \in Thread :
             rssiThread[a][t].pc \in Relying =>
                lookupSenderSTA(a, rssiThread[a][t].sta)

Known == PairsKnown /\ CandidatesKnown /\ ReportsKnown /\ OnlyKnown

(***************************************************************************)
(* The messages and threads of a are about stations.                       *)
(***************************************************************************)
LEMMA AboutStations ==
    ASSUME TypeOK, NEW a \in AP
    PROVE  /\ Len(up[a]) \in Nat /\ Len(down[a]) \in Nat /\ Len(replies[a]) \in Nat
           /\ \A i \in 1 .. Len(up[a]) : up[a][i].sta \in STA
           /\ \A i \in 1 .. Len(down[a]) : down[a][i].sta \in STA
           /\ \A i \in 1 .. Len(replies[a]) : replies[a][i].sta \in STA
           /\ \A t \in Thread : rssiThread[a][t].pc \in Relying =>
                 rssiThread[a][t].sta \in STA
<1> USE DEF TypeOK, LinkTypeOK, AgentTypeOK
<1>1. up[a] \in Seq(UpMsg) /\ down[a] \in Seq(DownMsg) /\ replies[a] \in Seq(Reply)
  OBVIOUS
<1>2. /\ \A i \in 1 .. Len(up[a]) : up[a][i] \in UpMsg
      /\ \A i \in 1 .. Len(down[a]) : down[a][i] \in DownMsg
      /\ \A i \in 1 .. Len(replies[a]) : replies[a][i] \in Reply
  BY <1>1
<1>3. ASSUME NEW t \in Thread, rssiThread[a][t].pc \in Relying
      PROVE  rssiThread[a][t].sta \in STA
  <2>1. rssiThread[a][t] \in RSSIThread /\ rssiThread[a][t] # IdleThread
    BY <1>3 DEF IdleThread, Relying
  <2> QED
    BY <2>1 DEF RSSIThread
<1> QED
  BY <1>1, <1>2, <1>3 DEF UpMsg, DownMsg, Reply

(***************************************************************************)
(* OnlyKnown is kept when what is written is ADD_STA, or about a station   *)
(* that the AP has been told of.                                           *)
(***************************************************************************)
LEMMA QueueKnown ==
    ASSUME TypeOK, TypeOK', OnlyKnown, Longer(down, down'),
           \A a \in AP, s \in STA :
              lookupSenderSTA(a, s) => infoSTA'[a][s].status # "null",
           \A a \in AP : \A i \in 1 .. Len(down'[a]) :
              \/ i <= Len(down[a])
              \/ down'[a][i].type = "ADD_STA"
              \/ Told(a, down'[a][i].sta)
    PROVE  OnlyKnown'
<1> SUFFICES ASSUME NEW a \in AP, NEW i \in 1 .. Len(down'[a]),
                    down'[a][i].type # "ADD_STA",
                    infoSTA'[a][down'[a][i].sta].status = "null"
             PROVE  \E j \in 1 .. i - 1 :
                      down'[a][j] = [type |-> "ADD_STA", sta |-> down'[a][i].sta]
  BY DEF OnlyKnown, lookupSenderSTA
<1>1. PICK s \in STA : s = down'[a][i].sta
  <2>1. down'[a] \in Seq(DownMsg)
    BY DEF TypeOK, LinkTypeOK
  <2>2. down'[a][i] \in DownMsg
    BY <2>1
  <2> QED
    BY <2>2 DEF DownMsg
<1> DEFINE m == [type |-> "ADD_STA", sta |-> s]
<1> HIDE DEF m
<1>2. ~lookupSenderSTA(a, s)
  BY <1>1
<1>3. Len(down[a]) \in Nat /\ Len(down'[a]) \in Nat
  BY LongerTypes DEF TypeOK, LinkTypeOK
<1>4. \A j \in 1 .. Len(down[a]) : down'[a][j] = down[a][j]
  BY DEF Longer
<1>5. CASE i <= Len(down[a])
  <2>1. i \in 1 .. Len(down[a])
    BY <1>3, <1>5
  <2>2. down[a][i] = down'[a][i]
    BY <1>4, <2>1
  <2>3. PICK j \in 1 .. i - 1 : down[a][j] = m
    BY <1>1, <1>2, <2>1, <2>2 DEF OnlyKnown, m
  <2>4. j \in 1 .. Len(down[a])
    BY <1>3, <2>1
  <2> QED
    BY <1>1, <1>4, <2>3, <2>4 DEF m
<1>6. CASE ~(i <= Len(down[a]))
  <2>1. Told(a, s)
    BY <1>1, <1>6
  <2>2. PICK j \in 1 .. Len(down[a]) : down[a][j] = m
    BY <1>2, <2>1 DEF Told, Coming, m
  <2>3. j \in 1 .. i - 1
    BY <1>3, <1>6
  <2> QED
    BY <1>1, <1>4, <2>2, <2>3 DEF m
<1> QED
  BY <1>5, <1>6

(***************************************************************************)
(* Connection sw of a is open after the step.                              *)
(***************************************************************************)
StaysLive(a, sw) == link'[a].up /\ link'[a].sw = sw

(***************************************************************************)
(* Steps of the controller.                                                *)
(***************************************************************************)
LEMMA ControllerKnown ==
    ASSUME TypeOK, TypeOK', Known, Longer(down, down'),
           UNCHANGED <<infoSTA, rssiThread>>,
           \A a \in AP : PartOf(up'[a], up[a]) /\ PartOf(replies'[a], replies[a]),
           \A a \in AP : \A i \in 1 .. Len(down'[a]) :
              \/ i <= Len(down[a])
              \/ down'[a][i].type = "ADD_STA"
              \/ Told(a, down'[a][i].sta),
           \A s \in STA, a \in AP :
              LET new == STAAPList'[s][a]
              IN  new.status # "null" /\ StaysLive(a, new.sw) =>
                     Told(a, s) \/ Coming(a, s, "ADD_STA")',
           \A s \in STA :
              LET new == STAAPRSSIList'[s]
              IN  new.ap \in AP /\ StaysLive(new.ap, new.sw) => lookupSenderSTA(new.ap, s)
    PROVE  Known'
<1>1. OnlyKnown'
  BY QueueKnown DEF Known, lookupSenderSTA
<1>2. \A s \in STA, a \in AP : Told(a, s) => Told(a, s)'
  BY ComingKept DEF Told, lookupSenderSTA
<1>3. PairsKnown'
  <2> SUFFICES ASSUME NEW s \in STA, NEW a \in AP, STAAPList'[s][a].status # "null",
                      StaysLive(a, STAAPList'[s][a].sw)
               PROVE  Told(a, s)'
    BY DEF PairsKnown, lookupSenderSTAAP, Live, StaysLive
  <2>1. Told(a, s) \/ Coming(a, s, "ADD_STA")'
    OBVIOUS
  <2> QED
    BY <1>2, <2>1 DEF Told
<1>4. CandidatesKnown'
  <2>1. \A s \in STA : STAAPRSSIList'[s].ap # None => STAAPRSSIList'[s].ap \in AP
    BY DEF TypeOK, ControllerTypeOK, APInfo
  <2> QED
    BY <2>1 DEF CandidatesKnown, lookupSenderSTA, Live, StaysLive
<1>5. ReportsKnown'
  <2> SUFFICES ASSUME NEW a \in AP
               PROVE  /\ \A i \in 1 .. Len(up'[a]) :
                           up'[a][i].type # "PROBE" => lookupSenderSTA(a, up'[a][i].sta)
                      /\ \A i \in 1 .. Len(replies'[a]) :
                           lookupSenderSTA(a, replies'[a][i].sta)
                      /\ \A t \in Thread :
                           rssiThread[a][t].pc \in Relying =>
                              lookupSenderSTA(a, rssiThread[a][t].sta)
    BY DEF ReportsKnown, lookupSenderSTA
  <2> QED
    BY DEF Known, ReportsKnown, PartOf
<1> QED
  BY <1>1, <1>3, <1>4, <1>5 DEF Known

(***************************************************************************)
(* Steps of an access point.                                               *)
(***************************************************************************)
LEMMA AgentKnown ==
    ASSUME TypeOK, TypeOK', Known,
           UNCHANGED <<STAAPList, STAAPRSSIList, link, down, replies>>,
           \A a \in AP, s \in STA :
              lookupSenderSTA(a, s) => infoSTA'[a][s].status # "null",
           \A a \in AP : OldOrKnown(a),
           \A a \in AP, t \in Thread : rssiThread'[a][t].pc \in Relying =>
              infoSTA'[a][rssiThread'[a][t].sta].status # "null"
    PROVE  Known'
<1>1. OnlyKnown'
  <2>1. Longer(down, down')
    BY LongerTypes DEF TypeOK, LinkTypeOK, Longer
  <2>2. \A a \in AP : \A i \in 1 .. Len(down'[a]) : i <= Len(down[a])
    BY AboutStations
  <2> QED
    BY <2>1, <2>2, QueueKnown DEF Known
<1>2. PairsKnown'
  BY DEF Known, PairsKnown, Told, Coming, lookupSenderSTAAP, lookupSenderSTA, Live
<1>3. CandidatesKnown'
  <2>1. \A s \in STA : STAAPRSSIList[s].ap # None => STAAPRSSIList[s].ap \in AP
    BY DEF TypeOK, ControllerTypeOK, APInfo
  <2> QED
    BY <2>1 DEF Known, CandidatesKnown, lookupSenderSTA, Live
<1>4. ReportsKnown'
  <2> SUFFICES ASSUME NEW a \in AP
               PROVE  /\ \A i \in 1 .. Len(up'[a]) :
                           up'[a][i].type # "PROBE" =>
                              infoSTA'[a][up'[a][i].sta].status # "null"
                      /\ \A i \in 1 .. Len(replies[a]) :
                           infoSTA'[a][replies[a][i].sta].status # "null"
                      /\ \A t \in Thread :
                           rssiThread'[a][t].pc \in Relying =>
                              infoSTA'[a][rssiThread'[a][t].sta].status # "null"
    BY DEF ReportsKnown, lookupSenderSTA
  <2>1. \A k \in 1 .. Len(up[a]) : up[a][k].type # "PROBE" =>
          infoSTA'[a][up[a][k].sta].status # "null"
    BY AboutStations DEF Known, ReportsKnown
  <2>2. \A i \in 1 .. Len(replies[a]) : infoSTA'[a][replies[a][i].sta].status # "null"
    BY AboutStations DEF Known, ReportsKnown
  <2> QED
    BY <2>1, <2>2 DEF OldOrKnown
<1> QED
  BY <1>1, <1>2, <1>3, <1>4 DEF Known

(***************************************************************************)
(* Where every station has room, a station is not known only if the table  *)
(* is not full.                                                            *)
(***************************************************************************)
Room == Cardinality(STA) <= max_num_sta

LEMMA RoomLeft ==
    ASSUME Room, NEW a \in AP, NEW s \in STA, ~lookupSenderSTA(a, s)
    PROVE  ~Full(a)
<1> DEFINE T == {u \in STA : lookupSenderSTA(a, u)}
           rest == STA \ {s}
<1>1. /\ IsFiniteSet(rest)
      /\ Cardinality(rest) = Cardinality(STA) - 1
  BY STAAssumption, FS_RemoveElement
<1>2. T \in SUBSET rest
  OBVIOUS
<1>3. IsFiniteSet(T) /\ Cardinality(T) <= Cardinality(rest)
  BY <1>1, <1>2, FS_Subset
<1>4. Cardinality(T) \in Nat /\ Cardinality(STA) \in Nat
  BY <1>3, STAAssumption, FS_CardinalityType
<1>5. Full(a) <=> Cardinality(T) >= max_num_sta
  BY DEF Full
<1> HIDE DEF T, rest
<1> QED
  BY <1>1, <1>3, <1>4, <1>5, MaxNumStaAssumption DEF Room

(***************************************************************************)
(* An AP that takes a message from its queue.                              *)
(***************************************************************************)
LEMMA VendorKnown ==
    ASSUME Room, TypeOK, TypeOK', Known, NEW a \in AP, HandleVendor(a)
    PROVE  Known'
<1> DEFINE add(s) == [type |-> "ADD_STA", sta |-> s]
<1>1. PICK m \in DownMsg :
        /\ down[a] # <<>> /\ m = Head(down[a]) /\ m.sta \in STA
        /\ UNCHANGED <<STAAPList, STAAPRSSIList, link, up, rssiThread>>
        /\ down' = [down EXCEPT ![a] = Tail(@)]
        /\ OnlyEntry(a, m.sta)
        /\ m.type = "ADD_STA" /\ ~Full(a) => lookupSenderSTA(a, m.sta)'
        /\ \/ replies' = replies
           \/ /\ m.type = "LAST_REC_POW"
              /\ replies' = [replies EXCEPT ![a] =
                   Append(@, [sta |-> m.sta, rssi |-> infoSTA[a][m.sta].last])]
  BY VendorEffect
<1>2. \A b \in AP, s \in STA : lookupSenderSTA(b, s) => infoSTA'[b][s].status # "null"
  BY <1>1 DEF OnlyEntry, lookupSenderSTA
<1>3. m.type = "ADD_STA" => infoSTA'[a][m.sta].status # "null"
  <2>1. CASE lookupSenderSTA(a, m.sta)
    BY <1>1, <1>2, <2>1
  <2>2. CASE ~lookupSenderSTA(a, m.sta)
    BY <1>1, <2>2, RoomLeft DEF lookupSenderSTA
  <2> QED
    BY <2>1, <2>2
<1>4. /\ Len(down[a]) \in Nat /\ Len(down[a]) >= 1
      /\ Len(down'[a]) = Len(down[a]) - 1
      /\ m = down[a][1]
      /\ \A i \in 1 .. Len(down[a]) - 1 : down'[a][i] = down[a][i + 1]
      /\ \A b \in AP : b # a => down'[b] = down[b]
  BY <1>1 DEF TypeOK, LinkTypeOK
<1>5. ASSUME NEW s \in STA, NEW j \in 1 .. Len(down[a]), down[a][j] = add(s)
      PROVE  \/ infoSTA'[a][s].status # "null"
             \/ j - 1 \in 1 .. Len(down'[a]) /\ down'[a][j - 1] = add(s)
  <2>1. add(s).type = "ADD_STA" /\ add(s).sta = s
    OBVIOUS
  <2> HIDE DEF add
  <2>2. CASE j = 1
    BY <1>3, <1>4, <1>5, <2>1, <2>2
  <2>3. CASE j # 1
    <3>1. j - 1 \in 1 .. Len(down[a]) - 1 /\ (j - 1) + 1 = j
      BY <1>4, <2>3
    <3> QED
      BY <1>4, <1>5, <3>1
  <2> QED
    BY <2>2, <2>3
<1> HIDE DEF add
<1>6. ASSUME NEW b \in AP, NEW s \in STA, Told(b, s) PROVE Told(b, s)'
  <2>1. CASE lookupSenderSTA(b, s)
    BY <1>2, <2>1 DEF Told, lookupSenderSTA
  <2>2. CASE Coming(b, s, "ADD_STA") /\ b # a
    BY <1>4, <2>2 DEF Told, Coming
  <2>3. CASE Coming(b, s, "ADD_STA") /\ b = a
    <3>1. PICK j \in 1 .. Len(down[a]) : down[a][j] = add(s)
      BY <2>3 DEF Coming, add
    <3>2. \/ infoSTA'[a][s].status # "null"
          \/ \E k \in 1 .. Len(down'[a]) : down'[a][k] = add(s)
      BY <1>5, <3>1
    <3> QED
      BY <2>3, <3>2 DEF Told, Coming, add, lookupSenderSTA
  <2> QED
    BY <1>6, <2>1, <2>2, <2>3 DEF Told
<1>7. PairsKnown'
  BY <1>1, <1>6 DEF Known, PairsKnown, lookupSenderSTAAP, Live
<1>8. CandidatesKnown'
  <2>1. \A s \in STA : STAAPRSSIList[s].ap # None => STAAPRSSIList[s].ap \in AP
    BY DEF TypeOK, ControllerTypeOK, APInfo
  <2> QED
    BY <1>1, <1>2, <2>1 DEF Known, CandidatesKnown, lookupSenderSTA, Live
<1>9. OnlyKnown'
  <2> SUFFICES ASSUME NEW b \in AP, NEW i \in 1 .. Len(down'[b]),
                      down'[b][i].type # "ADD_STA",
                      infoSTA'[b][down'[b][i].sta].status = "null"
               PROVE  \E j \in 1 .. i - 1 : down'[b][j] = add(down'[b][i].sta)
    BY DEF OnlyKnown, lookupSenderSTA, add
  <2>1. CASE b # a
    <3>1. down'[b] = down[b]
      BY <1>4, <2>1
    <3>2. down[b][i].sta \in STA
      BY <3>1, AboutStations
    <3>3. ~lookupSenderSTA(b, down[b][i].sta)
      BY <1>2, <3>1, <3>2
    <3> QED
      BY <3>1, <3>3 DEF Known, OnlyKnown, add
  <2>2. CASE b = a
    <3>1. i \in Nat /\ i >= 1 /\ i + 1 \in 1 .. Len(down[a]) /\ down'[a][i] = down[a][i + 1]
      BY <1>4, <2>2
    <3>2. PICK s \in STA : s = down[a][i + 1].sta
      BY <3>1, AboutStations
    <3>3. ~lookupSenderSTA(a, s)
      BY <1>2, <2>2, <3>1, <3>2
    <3>4. PICK j \in 1 .. (i + 1) - 1 : down[a][j] = add(s)
      BY <2>2, <3>1, <3>2, <3>3 DEF Known, OnlyKnown, add
    <3>5. j \in 1 .. Len(down[a])
      BY <1>4, <3>1, <3>4
    <3>6. j - 1 \in 1 .. Len(down'[a]) /\ down'[a][j - 1] = add(s)
      BY <1>5, <2>2, <3>1, <3>2, <3>4, <3>5
    <3>7. j - 1 \in 1 .. i - 1
      BY <3>1, <3>4, <3>6
    <3> QED
      BY <2>2, <3>1, <3>2, <3>6, <3>7
  <2> QED
    BY <2>1, <2>2
<1>10. ReportsKnown'
  <2> SUFFICES ASSUME NEW b \in AP
               PROVE  /\ \A i \in 1 .. Len(up[b]) :
                           up[b][i].type # "PROBE" =>
                              infoSTA'[b][up[b][i].sta].status # "null"
                      /\ \A i \in 1 .. Len(replies'[b]) :
                           infoSTA'[b][replies'[b][i].sta].status # "null"
                      /\ \A t \in Thread :
                           rssiThread[b][t].pc \in Relying =>
                              infoSTA'[b][rssiThread[b][t].sta].status # "null"
    BY <1>1 DEF ReportsKnown, lookupSenderSTA
  <2>1. \A i \in 1 .. Len(up[b]) : up[b][i].type # "PROBE" =>
          infoSTA'[b][up[b][i].sta].status # "null"
    BY <1>2, AboutStations DEF Known, ReportsKnown
  <2>2. \A t \in Thread : rssiThread[b][t].pc \in Relying =>
          infoSTA'[b][rssiThread[b][t].sta].status # "null"
    BY <1>2, AboutStations DEF Known, ReportsKnown
  <2>3. \A i \in 1 .. Len(replies[b]) : infoSTA'[b][replies[b][i].sta].status # "null"
    BY <1>2, AboutStations DEF Known, ReportsKnown
  <2>4. \A i \in 1 .. Len(replies'[b]) : infoSTA'[b][replies'[b][i].sta].status # "null"
    <3> DEFINE r == [sta |-> m.sta, rssi |-> infoSTA[a][m.sta].last]
    <3>1. CASE replies'[b] = replies[b]
      BY <2>3, <3>1
    <3>2. CASE b = a /\ m.type = "LAST_REC_POW" /\ replies'[a] = Append(replies[a], r)
      <4>1. r \in Reply
        <5>1. m.sta \in STA /\ infoSTA[a][m.sta] \in Info
          BY <1>1 DEF TypeOK, AgentTypeOK
        <5> QED
          BY <5>1 DEF Reply, Info
      <4>2. r.sta = m.sta
        OBVIOUS
      <4> HIDE DEF r
      <4>3. lookupSenderSTA(a, m.sta)
        <5>1. 1 \in 1 .. Len(down[a]) /\ ~\E j \in 1 .. 1 - 1 : TRUE
          BY <1>4
        <5> QED
          BY <1>4, <3>2, <5>1 DEF Known, OnlyKnown
      <4>4. replies[a] \in Seq(Reply) /\ Len(replies[a]) \in Nat
        BY DEF TypeOK, LinkTypeOK
      <4>5. /\ Len(replies'[a]) = Len(replies[a]) + 1
            /\ replies'[a][Len(replies[a]) + 1] = r
            /\ \A i \in 1 .. Len(replies[a]) : replies'[a][i] = replies[a][i]
        BY <3>2, <4>1, <4>4, Appended
      <4>6. ASSUME NEW i \in 1 .. Len(replies'[a])
            PROVE  i \in 1 .. Len(replies[a]) \/ i = Len(replies[a]) + 1
        BY <4>4, <4>5
      <4>7. infoSTA'[a][replies'[a][Len(replies[a]) + 1].sta].status # "null"
        BY <1>1, <1>2, <4>2, <4>3, <4>5
      <4>8. \A i \in 1 .. Len(replies[a]) : infoSTA'[a][replies'[a][i].sta].status # "null"
        BY <2>3, <3>2, <4>5
      <4> QED
        BY <3>2, <4>6, <4>7, <4>8
    <3> QED
      BY <1>1, <3>1, <3>2 DEF TypeOK, LinkTypeOK
  <2> QED
    BY <2>1, <2>2, <2>4
<1> QED
  BY <1>7, <1>8, <1>9, <1>10 DEF Known

(***************************************************************************)
(* A report of a: the station is known at a, and a question goes to an AP  *)
(* that has the pair over an open connection.                              *)
(***************************************************************************)
LEMMA ReceiveKnown ==
    ASSUME TypeOK, TypeOK', Known, NEW a \in AP, Receive(a) PROVE Known'
<1>1. PICK i \in 1 .. Len(up[a]) : up[a][i] \in UpMsg /\ Received1(a, up[a][i])
  BY ReceiveEffect
<1>2. PICK s \in STA : s = up[a][i].sta
  BY <1>1 DEF UpMsg
<1>3. /\ link[a].up /\ UNCHANGED <<link, replies, infoSTA, rssiThread>>
      /\ \A b \in AP : PartOf(up'[b], up[b])
  BY ReceiveEffect DEF PartOf
<1>4. \A b \in AP : PartOf(up'[b], up[b]) /\ PartOf(replies'[b], replies[b])
  BY <1>3, PartItself
<1>5. /\ \A u \in STA, b \in AP : u # s \/ b # a => STAAPList'[u][b] = STAAPList[u][b]
      /\ \A u \in STA : u # s => STAAPRSSIList'[u] = STAAPRSSIList[u]
      /\ \/ Selects(a, s)
         \/ Changes(a, s)
         \/ Reports(a, s) /\ up[a][i].type = "REC_POW"
         \/ UNCHANGED <<STAAPList, STAAPRSSIList, down>>
  BY <1>1, <1>2 DEF Received1
<1>6. /\ \A u \in STA, b \in AP :
            lookupSenderSTAAP(u, b) /\ StaysLive(b, STAAPList[u][b].sw) => Told(b, u)
      /\ \A u \in STA : STAAPRSSIList[u].ap \in AP
            /\ StaysLive(STAAPRSSIList[u].ap, STAAPRSSIList[u].sw)
               => lookupSenderSTA(STAAPRSSIList[u].ap, u)
  BY <1>3, NoneAssumption DEF Known, PairsKnown, CandidatesKnown, StaysLive, Live
<1> DEFINE NewPair(u, b) ==
             STAAPList'[u][b].status # "null" /\ StaysLive(b, STAAPList'[u][b].sw)
                => Told(b, u) \/ Coming(b, u, "ADD_STA")'
           NewCand(u) ==
             STAAPRSSIList'[u].ap \in AP
             /\ StaysLive(STAAPRSSIList'[u].ap, STAAPRSSIList'[u].sw)
                => lookupSenderSTA(STAAPRSSIList'[u].ap, u)
<1>7. /\ \A u \in STA, b \in AP : u # s \/ b # a => NewPair(u, b)
      /\ \A u \in STA : u # s => NewCand(u)
  BY <1>5, <1>6 DEF lookupSenderSTAAP
<1>8. ASSUME NewPair(s, a), NewCand(s), Longer(down, down'),
             \A b \in AP : \A j \in 1 .. Len(down'[b]) :
                \/ j <= Len(down[b])
                \/ down'[b][j].type = "ADD_STA"
                \/ Told(b, down'[b][j].sta)
      PROVE  Known'
  <2>1. /\ \A u \in STA, b \in AP : NewPair(u, b)
        /\ \A u \in STA : NewCand(u)
    <3> HIDE DEF NewPair, NewCand
    <3> QED
      BY <1>7, <1>8
  <2> QED
    BY <1>3, <1>4, <1>8, <2>1, ControllerKnown
<1>9. ASSUME UNCHANGED down
      PROVE  /\ Longer(down, down')
             /\ \A b \in AP : \A j \in 1 .. Len(down'[b]) : j <= Len(down[b])
  BY <1>9, AboutStations DEF Longer
<1>10. CASE Selects(a, s)
  <2> DEFINE m == [type |-> "ADD_STA", sta |-> s]
  <2>1. /\ down' = write(down, a, link[a].sw, "ADD_STA", s)
        /\ STAAPRSSIList' = STAAPRSSIList
        /\ STAAPList'[s][a].sw = IF lookupSenderSTAAP(s, a) THEN STAAPList[s][a].sw
                                                            ELSE link[a].sw
    BY <1>10 DEF Selects
  <2>2. Live(a, link[a].sw)
    BY <1>3 DEF Live
  <2>3. Longer(down, down') /\ OnlyMore(down, down', a, m) /\ Coming(a, s, "ADD_STA")'
    BY <2>1, <2>2, WrittenComing DEF DownType
  <2>4. m.type = "ADD_STA"
    OBVIOUS
  <2> HIDE DEF m
  <2>5. \A b \in AP : \A j \in 1 .. Len(down'[b]) :
          j <= Len(down[b]) \/ down'[b][j].type = "ADD_STA"
    BY <2>3, <2>4 DEF OnlyMore
  <2>6. NewPair(s, a) /\ NewCand(s)
    BY <1>6, <2>1, <2>3
  <2> HIDE DEF NewPair, NewCand
  <2> QED
    BY <1>8, <2>3, <2>5, <2>6
<1>11. CASE Changes(a, s)
  <2>1. /\ lookupSenderSTAAP(s, a) /\ STAAPList'[s][a].sw = STAAPList[s][a].sw
        /\ STAAPRSSIList'[s] \in {STAAPRSSIList[s], NoAPInfo}
        /\ UNCHANGED down
    BY <1>11 DEF Changes
  <2>2. NewPair(s, a) /\ NewCand(s)
    BY <1>6, <2>1, NoneAssumption DEF NoAPInfo
  <2> HIDE DEF NewPair, NewCand
  <2> QED
    BY <1>8, <1>9, <2>1, <2>2
<1>12. CASE Reports(a, s) /\ up[a][i].type = "REC_POW"
  <2>1. lookupSenderSTA(a, s)
    BY <1>2, <1>12 DEF Known, ReportsKnown
  <2>2. NewPair(s, a) /\ NewCand(s)
    BY <1>6, <1>12, <2>1 DEF Reports, lookupSenderSTAAP
  <2> HIDE DEF NewPair, NewCand
  <2>3. ASSUME NEW b \in findSTAAPInfo(s),
               down' = write(down, b, STAAPList[s][b].sw, "LAST_REC_POW", s)
        PROVE  Known'
    <3> DEFINE m == [type |-> "LAST_REC_POW", sta |-> s]
    <3>1. b \in AP /\ lookupSenderSTAAP(s, b)
      BY DEF findSTAAPInfo, lookupSenderSTAAP
    <3>2. /\ Longer(down, down') /\ OnlyMore(down, down', b, m)
          /\ ~Live(b, STAAPList[s][b].sw) => down' = down
      BY <2>3, <3>1, WrittenComing DEF DownType
    <3>3. m.sta = s
      OBVIOUS
    <3> HIDE DEF m
    <3>4. CASE Live(b, STAAPList[s][b].sw)
      <4>1. Told(b, s)
        BY <3>1, <3>4 DEF Known, PairsKnown
      <4>2. \A c \in AP : \A j \in 1 .. Len(down'[c]) :
              j <= Len(down[c]) \/ Told(c, down'[c][j].sta)
        BY <3>2, <3>3, <4>1 DEF OnlyMore
      <4> QED
        BY <1>8, <2>2, <3>2, <4>2
    <3>5. CASE ~Live(b, STAAPList[s][b].sw)
      BY <1>8, <1>9, <2>2, <3>2, <3>5
    <3> QED
      BY <3>4, <3>5
  <2> QED
    BY <1>8, <1>9, <1>12, <2>2, <2>3 DEF Reports
<1>13. CASE UNCHANGED <<STAAPList, STAAPRSSIList, down>>
  <2>1. NewPair(s, a) /\ NewCand(s)
    BY <1>6, <1>13 DEF lookupSenderSTAAP
  <2> HIDE DEF NewPair, NewCand
  <2> QED
    BY <1>8, <1>9, <1>13, <2>1
<1> QED
  BY <1>5, <1>10, <1>11, <1>12, <1>13

(***************************************************************************)
(* An answer of a: a knows the station that moves away, and the target     *)
(* knows it or has been told, whichever connection the move is sent over.  *)
(***************************************************************************)
LEMMA AnswerKnown ==
    ASSUME TypeOK, TypeOK', Known, NEW a \in AP, HandleAPRSSI(a) PROVE Known'
<1>1. PICK k \in 1 .. Len(replies[a]), s \in STA :
        /\ replies[a][k].sta = s
        /\ Handled(s)
        /\ \A u \in STA : u # s => /\ STAAPList'[u] = STAAPList[u]
                                   /\ STAAPRSSIList'[u] = STAAPRSSIList[u]
        /\ \/ /\ UNCHANGED <<STAAPList, link, down>>
              /\ STAAPRSSIList'[s].ap = STAAPRSSIList[s].ap
              /\ STAAPRSSIList'[s].sw = STAAPRSSIList[s].sw
           \/ \E c \in AP : MovesTo(a, s, c)
  BY AnswerEffect
<1>2. UNCHANGED <<up, infoSTA, rssiThread>> /\ link[a].up
  BY AnswerEffect
<1>3. \A b \in AP : PartOf(up'[b], up[b]) /\ PartOf(replies'[b], replies[b])
  BY <1>1, <1>2, PartItself DEF Handled
<1>4. lookupSenderSTA(a, s)
  BY <1>1 DEF Known, ReportsKnown
<1>5. ASSUME NEW b \in AP, NEW sw, StaysLive(b, sw) PROVE Live(b, sw)
  <2>1. CASE link' = link
    BY <1>5, <2>1 DEF StaysLive, Live
  <2>2. ASSUME NEW c \in AP, link' = Closed(c) PROVE Live(b, sw)
    <3>1. /\ link'[c] = [up |-> FALSE, sw |-> link[c].sw]
          /\ b # c => link'[b] = link[b]
      BY <2>2 DEF Closed, TypeOK, LinkTypeOK
    <3>2. ~link'[c].up
      BY <3>1
    <3> QED
      BY <1>5, <3>1, <3>2 DEF StaysLive, Live
  <2> QED
    BY <1>1, <2>1, <2>2 DEF MovesTo
<1>6. /\ \A u \in STA, b \in AP :
            lookupSenderSTAAP(u, b) /\ StaysLive(b, STAAPList[u][b].sw) => Told(b, u)
      /\ \A u \in STA : STAAPRSSIList[u].ap \in AP
            /\ StaysLive(STAAPRSSIList[u].ap, STAAPRSSIList[u].sw)
               => lookupSenderSTA(STAAPRSSIList[u].ap, u)
  BY <1>5, NoneAssumption DEF Known, PairsKnown, CandidatesKnown
<1> DEFINE NewPair(u, b) ==
             STAAPList'[u][b].status # "null" /\ StaysLive(b, STAAPList'[u][b].sw)
                => Told(b, u)
           NewCand(u) ==
             STAAPRSSIList'[u].ap \in AP
             /\ StaysLive(STAAPRSSIList'[u].ap, STAAPRSSIList'[u].sw)
                => lookupSenderSTA(STAAPRSSIList'[u].ap, u)
<1>7. \A u \in STA : u # s => NewCand(u) /\ \A b \in AP : NewPair(u, b)
  BY <1>1, <1>6 DEF lookupSenderSTAAP
<1>8. ASSUME \A b \in AP : NewPair(s, b), NewCand(s), Longer(down, down'),
             \A b \in AP : \A j \in 1 .. Len(down'[b]) :
                j <= Len(down[b]) \/ Told(b, down'[b][j].sta)
      PROVE  Known'
  <2>1. /\ \A u \in STA, b \in AP : NewPair(u, b)
        /\ \A u \in STA : NewCand(u)
    <3> HIDE DEF NewPair, NewCand
    <3> QED
      BY <1>7, <1>8
  <2> QED
    BY <1>2, <1>3, <1>8, <2>1, ControllerKnown
<1>9. CASE /\ UNCHANGED <<STAAPList, link, down>>
           /\ STAAPRSSIList'[s].ap = STAAPRSSIList[s].ap
           /\ STAAPRSSIList'[s].sw = STAAPRSSIList[s].sw
  <2>1. (\A b \in AP : NewPair(s, b)) /\ NewCand(s)
    BY <1>6, <1>9 DEF lookupSenderSTAAP
  <2>2. Longer(down, down') /\ \A b \in AP : \A j \in 1 .. Len(down'[b]) : j <= Len(down[b])
    BY <1>9, AboutStations DEF Longer
  <2> HIDE DEF NewPair, NewCand
  <2> QED
    BY <1>8, <2>1, <2>2
<1>10. ASSUME NEW c \in AP, MovesTo(a, s, c) PROVE Known'
  <2> DEFINE r == [type |-> "REMOVE_STA", sta |-> s]
             m == [type |-> "UPDATE_STA_ADD", sta |-> s]
  <2>1. ASSUME Live(c, STAAPList'[s][c].sw) PROVE Told(c, s)
    <3>1. CASE lookupSenderSTAAP(s, c)
      BY <1>10, <2>1, <3>1 DEF MovesTo, Known, PairsKnown
    <3>2. CASE ~lookupSenderSTAAP(s, c)
      <4>1. c = STAAPRSSIList[s].ap /\ Live(c, STAAPRSSIList[s].sw) /\ c # None
        BY <1>10, <2>1, <3>2, NoneAssumption DEF MovesTo
      <4> QED
        BY <4>1 DEF Known, CandidatesKnown, Told
    <3> QED
      BY <3>1, <3>2
  <2>2. NewCand(s)
    BY <1>4, <1>10 DEF MovesTo
  <2>3. ASSUME NEW b \in AP PROVE NewPair(s, b)
    <3>1. CASE b = a
      BY <1>4, <3>1 DEF Told
    <3>2. CASE b = c
      BY <1>5, <2>1, <3>2
    <3>3. CASE b # a /\ b # c
      BY <1>6, <1>10, <3>3 DEF MovesTo, lookupSenderSTAAP
    <3> QED
      BY <3>1, <3>2, <3>3
  <2>4. /\ Longer(down, down')
        /\ \A b \in AP : \A j \in 1 .. Len(down'[b]) :
             \/ j <= Len(down[b])
             \/ b = a /\ down'[b][j] = r
             \/ b = c /\ down'[b][j] = m /\ Live(c, STAAPList'[s][c].sw)
    BY <1>10, MoveWrites
  <2>5. r.sta = s /\ m.sta = s
    OBVIOUS
  <2> HIDE DEF r, m, NewPair, NewCand
  <2>6. \A b \in AP : \A j \in 1 .. Len(down'[b]) :
          j <= Len(down[b]) \/ Told(b, down'[b][j].sta)
    BY <1>4, <2>1, <2>4, <2>5 DEF Told
  <2> QED
    BY <1>8, <2>2, <2>3, <2>4, <2>6
<1> QED
  BY <1>1, <1>9, <1>10

(***************************************************************************)
(* A failure of c: nothing is under way to c, and no pair or candidate     *)
(* has an open connection there.                                           *)
(***************************************************************************)
LEMMA FailureKnown == ASSUME TypeOK, TypeOK', Known, Failure PROVE Known'
<1> USE DEF TypeOK, LinkTypeOK, AgentTypeOK
<1>1. PICK c \in AP : Cut(c) \/ Restart(c)
  BY DEF Failure
<1>2. /\ link' = Closed(c)
      /\ down' = [down EXCEPT ![c] = <<>>]
      /\ replies' = [replies EXCEPT ![c] = <<>>]
      /\ UNCHANGED <<STAAPList, STAAPRSSIList>>
      /\ \/ UNCHANGED <<up, infoSTA, rssiThread>>
         \/ /\ up' = [up EXCEPT ![c] = <<>>]
            /\ infoSTA' = [infoSTA EXCEPT ![c] = [s \in STA |-> NoInfo]]
            /\ rssiThread' = [rssiThread EXCEPT ![c] = [t \in Thread |-> IdleThread]]
  BY <1>1 DEF Cut, Restart, ctrlVars, agentVars
<1>3. ASSUME NEW b \in AP, b # c
      PROVE  /\ link'[b] = link[b] /\ down'[b] = down[b] /\ replies'[b] = replies[b]
             /\ up'[b] = up[b] /\ infoSTA'[b] = infoSTA[b]
             /\ rssiThread'[b] = rssiThread[b]
  BY <1>2, <1>3 DEF Closed
<1>4. ~link'[c].up
  <2>1. link'[c] = [up |-> FALSE, sw |-> link[c].sw]
    BY <1>2 DEF Closed
  <2> QED
    BY <2>1
<1>5. Len(down'[c]) = 0 /\ Len(replies'[c]) = 0
  <2>1. down'[c] = <<>> /\ replies'[c] = <<>> /\ Len(<<>>) = 0
    BY <1>2
  <2> QED
    BY <2>1
<1>6. OnlyKnown'
  <2>1. ASSUME NEW b \in AP, NEW i \in 1 .. Len(down'[b])
        PROVE  \/ down'[b][i].type = "ADD_STA"
               \/ infoSTA'[b][down'[b][i].sta].status # "null"
               \/ \E j \in 1 .. i - 1 :
                    down'[b][j] = [type |-> "ADD_STA", sta |-> down'[b][i].sta]
    <3>1. b # c
      BY <1>5
    <3>2. down'[b] = down[b] /\ infoSTA'[b] = infoSTA[b]
      BY <1>3, <3>1
    <3>3. \/ down[b][i].type = "ADD_STA"
          \/ infoSTA[b][down[b][i].sta].status # "null"
          \/ \E j \in 1 .. i - 1 :
               down[b][j] = [type |-> "ADD_STA", sta |-> down[b][i].sta]
      BY <3>2 DEF Known, OnlyKnown, lookupSenderSTA
    <3> QED
      BY <3>2, <3>3
  <2> QED
    BY <2>1 DEF OnlyKnown, lookupSenderSTA
<1>7. PairsKnown'
  <2> SUFFICES ASSUME NEW s \in STA, NEW b \in AP, lookupSenderSTAAP(s, b),
                      link'[b].up, link'[b].sw = STAAPList[s][b].sw
               PROVE  Told(b, s)'
    BY <1>2 DEF PairsKnown, lookupSenderSTAAP, Live
  <2>1. b # c
    BY <1>4
  <2>2. Told(b, s)
    BY <1>3, <2>1 DEF Known, PairsKnown, Live
  <2> QED
    BY <1>3, <2>1, <2>2 DEF Told, Coming, lookupSenderSTA
<1>8. CandidatesKnown'
  <2> SUFFICES ASSUME NEW s \in STA, NEW b \in AP, b = STAAPRSSIList[s].ap,
                      link'[b].up, link'[b].sw = STAAPRSSIList[s].sw
               PROVE  infoSTA'[b][s].status # "null"
    <3>1. \A s \in STA : STAAPRSSIList[s].ap # None => STAAPRSSIList[s].ap \in AP
      BY DEF ControllerTypeOK, APInfo
    <3> QED
      BY <1>2, <3>1 DEF CandidatesKnown, lookupSenderSTA, Live
  <2>1. b # c /\ b # None
    BY <1>4, NoneAssumption
  <2> QED
    BY SMTT(30), <1>3, <2>1 DEF Known, CandidatesKnown, lookupSenderSTA, Live
<1>9. ReportsKnown'
  <2> SUFFICES ASSUME NEW b \in AP
               PROVE  /\ \A i \in 1 .. Len(up'[b]) :
                           up'[b][i].type # "PROBE" =>
                              infoSTA'[b][up'[b][i].sta].status # "null"
                      /\ \A i \in 1 .. Len(replies'[b]) :
                           infoSTA'[b][replies'[b][i].sta].status # "null"
                      /\ \A t \in Thread :
                           rssiThread'[b][t].pc \in Relying =>
                              infoSTA'[b][rssiThread'[b][t].sta].status # "null"
    BY DEF ReportsKnown, lookupSenderSTA
  <2>1. CASE b # c
    <3>1. /\ up'[b] = up[b] /\ replies'[b] = replies[b]
          /\ infoSTA'[b] = infoSTA[b] /\ rssiThread'[b] = rssiThread[b]
      BY <1>3, <2>1
    <3>2. /\ \A i \in 1 .. Len(up[b]) :
               up[b][i].type # "PROBE" => infoSTA[b][up[b][i].sta].status # "null"
          /\ \A i \in 1 .. Len(replies[b]) :
               infoSTA[b][replies[b][i].sta].status # "null"
          /\ \A t \in Thread :
               rssiThread[b][t].pc \in Relying =>
                  infoSTA[b][rssiThread[b][t].sta].status # "null"
      BY DEF Known, ReportsKnown, lookupSenderSTA
    <3> QED BY <3>1, <3>2
  <2>2. CASE b = c /\ UNCHANGED <<up, infoSTA, rssiThread>>
    BY <1>5, <2>2 DEF Known, ReportsKnown, lookupSenderSTA
  <2>3. CASE /\ b = c /\ up' = [up EXCEPT ![c] = <<>>]
             /\ rssiThread' = [rssiThread EXCEPT ![c] = [t \in Thread |-> IdleThread]]
    <3>1. up'[b] = <<>> /\ Len(<<>>) = 0 /\ \A t \in Thread : rssiThread'[b][t] = IdleThread
      BY <2>3
    <3>2. IdleThread.pc \notin Relying
      BY DEF IdleThread, Relying
    <3>3. Len(up'[b]) = 0
      BY <3>1
    <3>4. \A t \in Thread : rssiThread'[b][t].pc \notin Relying
      BY <3>1, <3>2
    <3> QED
      BY <1>5, <2>3, <3>3, <3>4
  <2> QED
    BY <1>2, <2>1, <2>2, <2>3
<1> QED
  BY <1>6, <1>7, <1>8, <1>9 DEF Known

(***************************************************************************)
(* A new connection has a number that no pair or candidate has.            *)
(***************************************************************************)
LEMMA ConnOpenKnown ==
    ASSUME TypeOK, TypeOK', Numbered, Known, NEW a \in AP, ConnOpen(a) PROVE Known'
<1>1. /\ UNCHANGED <<STAAPList, STAAPRSSIList, down, up, replies, infoSTA, rssiThread>>
      /\ link' = [link EXCEPT ![a] = [up |-> TRUE, sw |-> @.sw + 1]]
  BY DEF ConnOpen, controller_conn_open, ctrlVars, agentVars
<1>2. /\ link'[a] = [up |-> TRUE, sw |-> link[a].sw + 1]
      /\ \A b \in AP : b # a => link'[b] = link[b]
      /\ link[a].sw \in Nat
  BY <1>1 DEF TypeOK, LinkTypeOK, Link
<1>3. ASSUME NEW b \in AP, NEW sw \in 1 .. link[b].sw, Live(b, sw)'
      PROVE  Live(b, sw)
  <2>1. b # a
    BY <1>2, <1>3 DEF Live
  <2> QED
    BY <1>2, <1>3, <2>1 DEF Live
<1>4. PairsKnown'
  BY <1>1, <1>3 DEF Known, PairsKnown, Numbered, lookupSenderSTAAP, lookupSenderSTA,
                    Told, Coming, Live
<1>5. CandidatesKnown'
  <2> SUFFICES ASSUME NEW s \in STA, NEW b \in AP, b = STAAPRSSIList[s].ap,
                      link'[b].up, link'[b].sw = STAAPRSSIList[s].sw
               PROVE  lookupSenderSTA(b, s)
    <3>1. \A s \in STA : STAAPRSSIList[s].ap # None => STAAPRSSIList[s].ap \in AP
      BY DEF TypeOK, ControllerTypeOK, APInfo
    <3> QED
      BY <1>1, <3>1 DEF CandidatesKnown, lookupSenderSTA, Live
  <2>1. b # None
    BY NoneAssumption
  <2>2. STAAPRSSIList[s].sw \in 1 .. link[b].sw
    BY <2>1 DEF Numbered
  <2>3. Live(b, STAAPRSSIList[s].sw)
    <3>1. PICK sw \in 1 .. link[b].sw : sw = STAAPRSSIList[s].sw
      BY <2>2
    <3> QED
      BY <1>3, <3>1 DEF Live
  <2> QED
    BY <2>1, <2>3 DEF Known, CandidatesKnown
<1>6. ReportsKnown' /\ OnlyKnown'
  BY <1>1 DEF Known, ReportsKnown, OnlyKnown, lookupSenderSTA
<1> QED
  BY <1>4, <1>5, <1>6 DEF Known

(***************************************************************************)
(* removedSwitch only forgets.                                             *)
(***************************************************************************)
LEMMA RemovedSwitchKnown ==
    ASSUME TypeOK, TypeOK', Known, RemovedSwitch PROVE Known'
<1>1. PICK r \in removal : SweepSTAAPList(r) \/ SweepSTAAPRSSIList(r)
  BY DEF RemovedSwitch, removedSwitch
<1>2. UNCHANGED <<link, down, up, replies, infoSTA, rssiThread>>
  BY <1>1 DEF SweepSTAAPList, SweepSTAAPRSSIList, RemovedSwitch, agentVars
<1>3. /\ \A s \in STA, a \in AP : \/ STAAPList'[s][a] = STAAPList[s][a]
                                  \/ STAAPList'[s][a] = NoSTAAP
      /\ \A s \in STA : \/ STAAPRSSIList'[s] = STAAPRSSIList[s]
                        \/ STAAPRSSIList'[s] = NoAPInfo
  BY <1>1 DEF SweepSTAAPList, SweepSTAAPRSSIList
<1>4. NoSTAAP.status = "null" /\ NoAPInfo.ap \notin AP
  BY NoneAssumption DEF NoSTAAP, NoAPInfo
<1>5. /\ \A s \in STA, a \in AP :
           STAAPList'[s][a].status # "null" /\ StaysLive(a, STAAPList'[s][a].sw)
              => Told(a, s)
      /\ \A s \in STA :
           STAAPRSSIList'[s].ap \in AP
           /\ StaysLive(STAAPRSSIList'[s].ap, STAAPRSSIList'[s].sw)
              => lookupSenderSTA(STAAPRSSIList'[s].ap, s)
  BY <1>2, <1>3, <1>4, NoneAssumption
  DEF Known, PairsKnown, CandidatesKnown, lookupSenderSTAAP, StaysLive, Live
<1>6. /\ Longer(down, down')
      /\ \A b \in AP : \A j \in 1 .. Len(down'[b]) : j <= Len(down[b])
  BY <1>2, AboutStations DEF Longer
<1>7. \A a \in AP : PartOf(up'[a], up[a]) /\ PartOf(replies'[a], replies[a])
  BY <1>2, PartItself
<1> QED
  BY <1>2, <1>5, <1>6, <1>7, ControllerKnown

LEMMA KnownStep ==
    ASSUME Room, TypeOK, TypeOK', Numbered, Known, [Next]_vars PROVE Known'
<1>1. CASE FrameStep
  <2>1. ASSUME NEW a \in AP, NEW t \in Thread, rssiThread'[a][t].pc \in Relying
        PROVE  infoSTA'[a][rssiThread'[a][t].sta].status # "null"
    <3>1. rssiThread'[a][t] = rssiThread[a][t]
      BY <1>1, <2>1 DEF FrameStep, Relying
    <3>2. rssiThread[a][t].sta \in STA /\ lookupSenderSTA(a, rssiThread[a][t].sta)
      BY <2>1, <3>1, AboutStations DEF Known, ReportsKnown
    <3> QED
      BY <1>1, <3>1, <3>2 DEF FrameStep
  <2> QED
    BY <1>1, <2>1, AgentKnown DEF FrameStep
<1>2. ASSUME NEW a \in AP, NEW t \in Thread, ProcessStaData(a, t) PROVE Known'
  <2>1. UNCHANGED <<STAAPList, STAAPRSSIList, link, down, replies>>
    BY <1>2, ThreadEffect
  <2>2. PICK s \in STA, m \in UpMsg :
          /\ rssiThread[a][t].sta = s
          /\ Worked(a, t, s)
          /\ \/ up' = up
             \/ /\ rssiThread[a][t].pc = "report" /\ m.sta = s
                /\ up' = [up EXCEPT ![a] = Append(@, m)]
    BY <1>2, ThreadEffect
  <2>3. \A b \in AP, u \in STA : lookupSenderSTA(b, u) => infoSTA'[b][u].status # "null"
    BY <2>2 DEF Worked, OnlyEntry, lookupSenderSTA
  <2>4. rssiThread[a][t].pc \in Relying => infoSTA'[a][s].status # "null"
    BY <2>2, <2>3 DEF Known, ReportsKnown
  <2>5. ASSUME NEW b \in AP, NEW x \in Thread, rssiThread'[b][x].pc \in Relying
        PROVE  infoSTA'[b][rssiThread'[b][x].sta].status # "null"
    <3>1. CASE b = a /\ x = t
      <4>1. rssiThread'[a][t].sta = s
        BY <2>2, <2>5, <3>1 DEF Worked, Relying
      <4>2. infoSTA'[a][s].status # "null"
        BY <2>2, <2>4, <2>5, <3>1 DEF Worked
      <4> QED
        BY <3>1, <4>1, <4>2
    <3>2. CASE b # a \/ x # t
      <4>1. rssiThread'[b][x] = rssiThread[b][x]
        BY <2>2, <3>2 DEF Worked
      <4>2. rssiThread[b][x].sta \in STA /\ lookupSenderSTA(b, rssiThread[b][x].sta)
        BY <2>5, <4>1, AboutStations DEF Known, ReportsKnown
      <4> QED
        BY <2>3, <4>1, <4>2
    <3> QED
      BY <3>1, <3>2
  <2>6. ASSUME NEW b \in AP PROVE OldOrKnown(b)
    <3>1. CASE up'[b] = up[b]
      BY <3>1 DEF OldOrKnown
    <3>2. CASE b = a /\ rssiThread[a][t].pc = "report" /\ m.sta = s
               /\ up'[a] = Append(up[a], m)
      <4>1. infoSTA'[a][m.sta].status # "null"
        BY <2>4, <3>2 DEF Relying
      <4> QED
        BY <3>2, <4>1, AppendedOld
    <3> QED
      BY <2>2, <3>1, <3>2 DEF TypeOK, LinkTypeOK
  <2> QED
    BY <2>1, <2>3, <2>5, <2>6, AgentKnown
<1>3. CASE UNCHANGED vars
  BY <1>3 DEF vars, linkVars, ctrlVars, agentVars, Known, PairsKnown, CandidatesKnown,
              ReportsKnown, OnlyKnown, Told, Coming, lookupSenderSTA,
              lookupSenderSTAAP, Live
<1> QED
  BY <1>1, <1>2, <1>3, ReceiveKnown, AnswerKnown, VendorKnown, ConnOpenKnown,
     RemovedSwitchKnown, FailureKnown, StationEffect, TimerEffect,
     RecheckEffect, CommitEffect, SendFailsEffect
  DEF Next

(***************************************************************************)
(* Whatever fails and in whatever order messages, sweeps and reconnections *)
(* are handled, an AP is asked about, told to take over and told to give   *)
(* up only stations in its table, provided that the table has room for     *)
(* all stations: handle_ap_rssi never dereferences NULL, UPDATE_STA_ADD is *)
(* never dropped.                                                          *)
(***************************************************************************)
THEOREM KnownOnly ==
    ASSUME Cardinality(STA) <= max_num_sta PROVE Spec => []OnlyKnown
<1>r. Room
  BY DEF Room
<1>1. Init => Numbered /\ Known
  <2>1. Init => Known
    <3>1. Len(<<>>) = 0
      OBVIOUS
    <3>2. IdleThread.pc \notin Relying
      BY DEF IdleThread, Relying
    <3>3. NoSTAAP.status = "null" /\ NoAPInfo.ap = None
      BY DEF NoSTAAP, NoAPInfo
    <3> QED
      BY <3>1, <3>2, <3>3
      DEF Init, LinkInit, ControllerInit, AgentInit, Known, PairsKnown,
          CandidatesKnown, ReportsKnown, OnlyKnown, lookupSenderSTAAP
  <2> QED
    BY <2>1, NumberedInit
<1>2. TypeOK /\ TypeOK' /\ (Numbered /\ Known) /\ [Next]_vars => (Numbered /\ Known)'
  BY <1>r, NumberedStep, KnownStep
<1>3. Known => OnlyKnown
  BY DEF Known
<1> QED
  BY <1>1, <1>2, <1>3, TypeCorrect, PTL DEF Spec

=============================================================================
