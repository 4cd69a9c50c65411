-------------------------- MODULE ConnectionProofs --------------------------
(***************************************************************************)
(* Proofs about Connection, for every number of connections, every set of  *)
(* sending threads, every MaxError and every budget.                       *)
(***************************************************************************)
EXTENDS Connection, TLAPS

-----------------------------------------------------------------------------

(***************************************************************************)
(* Queues.                                                                 *)
(***************************************************************************)

(***************************************************************************)
(* The first element of a queue, and the rest.                             *)
(***************************************************************************)
LEMMA HeadTail ==
    ASSUME NEW S, NEW q \in Seq(S), q # <<>>
    PROVE  /\ Len(q) \in Nat /\ Len(q) >= 1
           /\ Head(q) \in S /\ Head(q) = q[1]
           /\ Tail(q) \in Seq(S)
           /\ Len(Tail(q)) = Len(q) - 1
           /\ \A j \in 1 .. Len(q) - 1 : Tail(q)[j] = q[j + 1]
  OBVIOUS

(***************************************************************************)
(* What is left of a queue that keeps its first n elements.                *)
(***************************************************************************)
LEMMA Prefix ==
    ASSUME NEW S, NEW q \in Seq(S), NEW n \in 0 .. Len(q)
    PROVE  /\ SubSeq(q, 1, n) \in Seq(S)
           /\ Len(SubSeq(q, 1, n)) = n
           /\ \A j \in 1 .. n : SubSeq(q, 1, n)[j] = q[j]
  OBVIOUS

(***************************************************************************)
(* A queue and what is appended to it.                                     *)
(***************************************************************************)
LEMMA Appended ==
    ASSUME NEW S, NEW q \in Seq(S), NEW r \in Seq(S)
    PROVE  /\ q \o r \in Seq(S)
           /\ Len(q \o r) = Len(q) + Len(r)
           /\ \A j \in 1 .. Len(q) : (q \o r)[j] = q[j]
           /\ \A j \in 1 .. Len(r) : (q \o r)[Len(q) + j] = r[j]
  OBVIOUS

-----------------------------------------------------------------------------

(***************************************************************************)
(* TypeOK is inductive.                                                    *)
(***************************************************************************)
LEMMA TypeInit == Init => TypeOK
  BY MaxConnAssumption
  DEF Init, WireInit, ClientInit, ControllerInit, TypeOK, WireTypeOK,
      ClientTypeOK, ControllerTypeOK, Tcp, NewChannel, NoChannel, Channel,
      HandshakeState, Dpid, NoConn, Kind

(***************************************************************************)
(* The answers of the switch are messages.                                 *)
(***************************************************************************)
LEMMA AnswerType ==
    ASSUME TypeOK, NEW r \in Request PROVE AnswerTo(r) \in Seq(Answer)
<1>1. dpid \in Dpid
  BY DEF TypeOK, ClientTypeOK
<1>2. \A type \in {"HELLO", "FEATURES_REPLY", "GET_CONFIG_REPLY", "STATS_REPLY",
                   "GW_CONNECT"} : Reply(type) \in Seq(Answer)
  BY <1>1 DEF Reply, Answer
<1> QED
  BY <1>2 DEF AnswerTo, Request

(***************************************************************************)
(* controller_send keeps the types of what it changes.                     *)
(***************************************************************************)
LEMMA SendType ==
    ASSUME TypeOK, sock \in Conn, NEW t \in Thread, NEW msgs \in Seq(Answer),
           controller_send(t, msgs)
    PROVE  /\ tcp' \in [Conn -> Tcp]
           /\ toCtl' \in [Conn -> Seq(Answer)]
           /\ sending' \in [Thread -> {"idle", "failed", "counted"}]
<1> USE DEF TypeOK, WireTypeOK, ClientTypeOK
<1>1. CASE Delivered(msgs)
  <2>1. toCtl[sock] \o msgs \in Seq(Answer)
    BY Appended
  <2> QED
    BY <1>1, <2>1 DEF Delivered
<1>2. CASE Vanished(msgs)
  BY <1>2 DEF Vanished, Tcp
<1>3. CASE Failed(t, msgs)
  BY <1>3 DEF Failed
<1> QED
  BY <1>1, <1>2, <1>3 DEF controller_send

(***************************************************************************)
(* A step of the switch keeps TypeOK.                                      *)
(***************************************************************************)
LEMMA ClientType == ASSUME TypeOK, Client PROVE TypeOK'
<1> USE DEF TypeOK, WireTypeOK, ClientTypeOK
<1>1. ControllerTypeOK'
  BY DEF Client, ctrlVars, ControllerTypeOK
<1>2. \A k \in Kind : Spend(k) => spent' \in [Kind -> Nat]
  BY DEF Spend
<1>3. "fault" \in Kind /\ "send" \in Kind
  BY DEF Kind
<1>4. CASE Socket
  <2>1. last + 1 \in Conn
    BY <1>4, MaxConnAssumption DEF Socket, Conn, NoConn
  <2> QED
    BY <1>1, <1>4, <2>1 DEF Socket, Tcp
<1>5. CASE Connected
  BY <1>1, <1>5 DEF Connected, Dpid, wireVars
<1>6. CASE Refused
  BY <1>1, <1>6 DEF Refused, wireVars
<1>7. CASE TimedOut
  BY <1>1, <1>2, <1>3, <1>7 DEF TimedOut
<1>8. CASE GivenUp
  BY <1>1, <1>8 DEF GivenUp, wireVars
<1>9. CASE RecvMessage
  <2>1. sock \in Conn /\ rx \in Thread
    BY <1>9 DEF RecvMessage, Receiving, Thread
  <2>2. Head(toSw[sock]) \in Request /\ Tail(toSw[sock]) \in Seq(Request)
    BY <1>9, <2>1, HeadTail DEF RecvMessage
  <2>3. AnswerTo(Head(toSw[sock])) \in Seq(Answer)
    BY <2>2, AnswerType
  <2>4. /\ tcp' \in [Conn -> Tcp]
        /\ toCtl' \in [Conn -> Seq(Answer)]
        /\ sending' \in [Thread -> {"idle", "failed", "counted"}]
    BY <1>9, <2>1, <2>3, SendType DEF RecvMessage
  <2> QED
    BY <1>1, <1>9, <2>1, <2>2, <2>4 DEF RecvMessage
<1>10. CASE RecvEnd
  BY <1>1, <1>10 DEF RecvEnd, wireVars
<1>11. CASE Exit \/ SIGPIPE
  <2>1. Dies /\ spent' \in [Kind -> Nat]
    BY <1>2, <1>3, <1>11 DEF Exit, SIGPIPE
  <2>2. tcp' \in [Conn -> Tcp]
    BY <2>1 DEF Dies, Tcp
  <2>3. toSw' \in [Conn -> Seq(Request)]
    BY <2>1 DEF Dies
  <2> QED
    BY <1>1, <2>1, <2>2, <2>3 DEF Dies, Dpid
<1>12. ASSUME NEW t \in Thread, CountError(t) PROVE TypeOK'
  BY <1>1, <1>12 DEF CountError, wireVars
<1>13. ASSUME NEW t \in Thread, CompareError(t) PROVE TypeOK'
  BY <1>1, <1>13 DEF CompareError, wireVars
<1>14. ASSUME NEW t \in Thread, process_sta_msg(t) PROVE TypeOK'
  <2> DEFINE msgs == <<[type |-> "WLAN", dpid |-> 0]>>
  <2>1. sock \in Conn /\ msgs \in Seq(Answer)
    BY <1>14 DEF process_sta_msg, Answer, Dpid
  <2>2. /\ tcp' \in [Conn -> Tcp]
        /\ toCtl' \in [Conn -> Seq(Answer)]
        /\ sending' \in [Thread -> {"idle", "failed", "counted"}]
    <3> HIDE DEF msgs
    <3>1. controller_send(t, msgs)
      BY <1>14 DEF process_sta_msg, msgs
    <3> QED
      BY <2>1, <3>1, SendType
  <2> QED
    BY <1>1, <1>2, <1>3, <1>14, <2>2 DEF process_sta_msg
<1>15. CASE Start
  BY <1>1, <1>15 DEF Start, wireVars
<1> QED
  BY <1>4, <1>5, <1>6, <1>7, <1>8, <1>9, <1>10, <1>11, <1>12, <1>13, <1>14, <1>15
  DEF Client, conn_open, controller_receive

(***************************************************************************)
(* What the controller writes to a connection, and what is left of one     *)
(* that it closes.                                                         *)
(***************************************************************************)
LEMMA WrittenType ==
    ASSUME TypeOK, NEW c \in Conn, NEW msgs \in Seq(Request)
    PROVE  Written(c, msgs) \in [Conn -> Seq(Request)]
<1>1. toSw[c] \o msgs \in Seq(Request)
  BY Appended DEF TypeOK, WireTypeOK
<1> QED
  BY <1>1 DEF Written, TypeOK, WireTypeOK

LEMMA HangupType ==
    ASSUME TypeOK, NEW c \in Conn, NEW msgs \in Seq(Answer), Hangup(c, msgs)
    PROVE  tcp' \in [Conn -> Tcp] /\ toCtl' \in [Conn -> Seq(Answer)]
<1> USE DEF TypeOK, WireTypeOK
<1>1. PICK n \in 0 .. Len(msgs) : toCtl' = [toCtl EXCEPT ![c] = SubSeq(msgs, 1, n)]
  BY DEF Hangup
<1>2. SubSeq(msgs, 1, n) \in Seq(Answer)
  BY Prefix
<1>3. tcp' \in [Conn -> Tcp]
  BY DEF Hangup, Tcp
<1> QED
  BY <1>1, <1>2, <1>3

(***************************************************************************)
(* The thread of a channel keeps TypeOK.                                   *)
(***************************************************************************)
LEMMA TakenType ==
    ASSUME TypeOK, NEW c \in Conn, toCtl[c] # <<>>
    PROVE  /\ Head(toCtl[c]) \in Answer
           /\ Tail(toCtl[c]) \in Seq(Answer)
           /\ [toCtl EXCEPT ![c] = Tail(@)] \in [Conn -> Seq(Answer)]
<1>1. toCtl[c] \in Seq(Answer)
  BY DEF TypeOK, WireTypeOK
<1>2. Head(toCtl[c]) \in Answer /\ Tail(toCtl[c]) \in Seq(Answer)
  BY <1>1, HeadTail
<1> QED
  BY <1>2 DEF TypeOK, WireTypeOK

LEMMA CloseType ==
    ASSUME TypeOK, NEW c \in Conn, NEW msgs \in Seq(Answer), Close(c, msgs),
           spent' \in [Kind -> Nat], UNCHANGED clientVars
    PROVE  TypeOK'
<1> USE DEF TypeOK, WireTypeOK, ControllerTypeOK
<1>1. tcp' \in [Conn -> Tcp] /\ toCtl' \in [Conn -> Seq(Answer)]
  BY HangupType DEF Close
<1>2. chan' \in [Conn -> Channel]
  BY ZenonT(30) DEF Close, Channel
<1>3. ClientTypeOK'
  BY DEF ClientTypeOK, clientVars
<1> QED
  BY <1>1, <1>2, <1>3 DEF Close

LEMMA CheckSwitchReadyType ==
    ASSUME TypeOK, NEW c \in Conn, NEW ch \in Channel, checkSwitchReady(c, ch),
           Taken(c), toCtl[c] # <<>>, UNCHANGED clientVars
    PROVE  TypeOK'
<1> USE DEF TypeOK, WireTypeOK, ControllerTypeOK
<1> DEFINE old == activeSwitches[ch.id]
           new == [ch EXCEPT !.hsState = "READY",
                             !.replacing = IF old = c THEN NoConn ELSE old]
<1>1. ch.id \in Dpid /\ old \in Conn \cup {NoConn}
  BY DEF Channel
<1>2. new \in Channel
  BY <1>1 DEF Channel, HandshakeState
<1>3. chan' \in [Conn -> Channel]
  <2> HIDE DEF new
  <2>1. chan' = [chan EXCEPT ![c] = IF Complete(ch) THEN new ELSE ch]
    BY DEF checkSwitchReady, new
  <2> QED
    BY <1>2, <2>1
<1>4. <<"FLOW_MOD">> \in Seq(Request)
  BY DEF Request
<1>5. toSw' \in [Conn -> Seq(Request)]
  BY <1>4, WrittenType DEF checkSwitchReady
<1>6. activeSwitches' \in [Dpid -> Conn \cup {NoConn}] /\ UNCHANGED <<gwSwitch, clearing>>
  BY <1>1 DEF checkSwitchReady
<1>7. /\ toCtl' \in [Conn -> Seq(Answer)]
      /\ UNCHANGED <<tcp, spent, updates>>
  BY TakenType DEF Taken
<1>8. ClientTypeOK'
  BY DEF ClientTypeOK, clientVars
<1> QED
  BY <1>3, <1>5, <1>6, <1>7, <1>8

LEMMA ProcessType ==
    ASSUME TypeOK, NEW c \in Conn, processOFMessage(c), UNCHANGED clientVars
    PROVE  TypeOK'
<1> USE DEF TypeOK, WireTypeOK, ControllerTypeOK
<1>1. toCtl[c] # <<>>
  BY DEF processOFMessage, Hello, FeaturesReply, GetConfigReply, StatsReply,
         Vendor, Handles
<1>2. /\ Head(toCtl[c]) \in Answer
      /\ Tail(toCtl[c]) \in Seq(Answer)
      /\ [toCtl EXCEPT ![c] = Tail(@)] \in [Conn -> Seq(Answer)]
  BY <1>1, TakenType
<1>3. CASE SwitchStateException(c)
  BY <1>2, <1>3, CloseType DEF SwitchStateException
<1>4. ClientTypeOK'
  BY DEF ClientTypeOK, clientVars
<1>5. ASSUME Hello(c), ~SwitchStateException(c) PROVE TypeOK'
  <2>1. /\ chan' = [chan EXCEPT ![c].hsState = "HELLO"]
        /\ toSw' = Written(c, <<"FEATURES_REQUEST">>)
        /\ Taken(c)
        /\ UNCHANGED <<activeSwitches, gwSwitch, clearing>>
    BY <1>5 DEF Hello
  <2>2. <<"FEATURES_REQUEST">> \in Seq(Request)
    BY DEF Request
  <2>3. toSw' \in [Conn -> Seq(Request)]
    BY <2>1, <2>2, WrittenType
  <2>4. chan' \in [Conn -> Channel]
    BY ZenonT(30), <2>1 DEF Channel, HandshakeState
  <2> QED
    BY <1>2, <1>4, <2>1, <2>3, <2>4 DEF Taken
<1>6. ASSUME FeaturesReply(c) PROVE TypeOK'
  <2>1. <<"SET_CONFIG", "GET_CONFIG_REQUEST", "STATS_REQUEST">> \in Seq(Request)
    BY DEF Request
  <2>2. toSw' \in [Conn -> Seq(Request)]
    BY <1>6, <2>1, WrittenType DEF FeaturesReply
  <2>3. Head(toCtl[c]).dpid \in Dpid
    BY <1>2 DEF Answer
  <2>4. chan' \in [Conn -> Channel]
    <3> DEFINE chan1 == [chan EXCEPT ![c].id = Head(toCtl[c]).dpid]
    <3>1. chan1 \in [Conn -> Channel]
      BY <2>3 DEF Channel
    <3> HIDE DEF chan1
    <3> DEFINE st == IF chan1[c].hsState = "HELLO" THEN "FEATURES_REPLY"
                                                   ELSE chan1[c].hsState
    <3>2. st \in HandshakeState
      BY <3>1 DEF Channel, HandshakeState
    <3>3. chan' = [chan1 EXCEPT ![c].hsState = st]
      BY <1>6 DEF FeaturesReply, chan1
    <3> HIDE DEF st
    <3> QED
      BY ZenonT(30), <3>1, <3>2, <3>3 DEF Channel
  <2> QED
    BY <1>2, <1>4, <1>6, <2>2, <2>4 DEF FeaturesReply, Taken
<1>7. ASSUME GetConfigReply(c), ~SwitchStateException(c) PROVE TypeOK'
  <2> DEFINE ch == [chan[c] EXCEPT !.hasGetConfigReply = TRUE]
  <2>1. ch \in Channel
    BY ZenonT(30) DEF Channel
  <2> HIDE DEF ch
  <2>2. checkSwitchReady(c, ch) /\ Taken(c)
    BY <1>7 DEF GetConfigReply, ch
  <2> QED
    BY <1>1, <2>1, <2>2, CheckSwitchReadyType
<1>8. ASSUME StatsReply(c), ~SwitchStateException(c) PROVE TypeOK'
  <2> DEFINE ch == [chan[c] EXCEPT !.hasDescription = TRUE]
  <2>1. ch \in Channel
    BY ZenonT(30) DEF Channel
  <2> HIDE DEF ch
  <2>2. checkSwitchReady(c, ch) /\ Taken(c)
    BY <1>8 DEF StatsReply, ch
  <2> QED
    BY <1>1, <2>1, <2>2, CheckSwitchReadyType
<1>9. ASSUME Vendor(c) PROVE TypeOK'
  BY <1>2, <1>4, <1>9 DEF Vendor, Taken
<1> QED
  BY <1>3, <1>5, <1>6, <1>7, <1>8, <1>9 DEF processOFMessage

LEMMA CloseOldType ==
    ASSUME TypeOK, NEW c \in Conn, CloseOld(c)
    PROVE  /\ chan' \in [Conn -> Channel]
           /\ tcp' \in [Conn -> Tcp]
           /\ toCtl' \in [Conn -> Seq(Answer)]
<1> USE DEF TypeOK, WireTypeOK, ControllerTypeOK
<1> DEFINE old == chan[c].replacing
<1>1. old \in Conn
  BY DEF CloseOld, Channel
<1>2. toCtl[old] \in Seq(Answer)
  BY <1>1
<1>3. tcp' \in [Conn -> Tcp] /\ toCtl' \in [Conn -> Seq(Answer)]
  BY <1>1, <1>2, HangupType DEF CloseOld
<1>4. chan' \in [Conn -> Channel]
  <2> HIDE DEF old
  <2> DEFINE chan1 == [chan EXCEPT ![c].replacing = NoConn]
             chan2 == [chan1 EXCEPT ![old].connected = FALSE]
             chan3 == [chan2 EXCEPT ![old].open = FALSE]
  <2>1. chan1 \in [Conn -> Channel]
    BY DEF Channel
  <2>2. chan2 \in [Conn -> Channel]
    <3> HIDE DEF chan1
    <3> QED
      BY <1>1, <2>1 DEF Channel
  <2>3. chan3 \in [Conn -> Channel]
    <3> HIDE DEF chan2
    <3> QED
      BY <1>1, <2>2 DEF Channel
  <2> QED
    BY <2>3 DEF CloseOld, old
<1> QED
  BY <1>3, <1>4

(***************************************************************************)
(* All steps of the controller keep TypeOK.                                *)
(***************************************************************************)
LEMMA ServerType == ASSUME TypeOK, NEW c \in Conn, Server(c) PROVE TypeOK'
<1> USE DEF TypeOK, WireTypeOK, ControllerTypeOK
<1>1. UNCHANGED clientVars /\ ClientTypeOK'
  BY DEF Server, ClientTypeOK, clientVars
<1>2. Spend("fault") => spent' \in [Kind -> Nat]
  BY DEF Spend, Kind
<1>3. toCtl[c] \in Seq(Answer) /\ <<>> \in Seq(Answer) /\ <<>> \in Seq(Request)
  OBVIOUS
<1>4. CASE channelConnected(c)
  <2>1. NewChannel \in Channel
    BY DEF NewChannel, Channel, HandshakeState, Dpid
  <2>2. <<"HELLO">> \in Seq(Request)
    BY DEF Request
  <2> QED
    BY <1>1, <1>4, <2>1, <2>2 DEF channelConnected, Tcp
<1>5. CASE processOFMessage(c)
  BY <1>1, <1>5, ProcessType
<1>6. CASE addSwitch(c)
  <2> DEFINE old == chan[c].replacing
  <2>1. old \in Conn
    BY <1>6 DEF addSwitch, Channel
  <2>2. clearing' \subseteq Conn \cup {NoConn}
    BY <1>6 DEF addSwitch, removedSwitch
  <2>3. CASE gwSwitch = old
    <3>1. chan' \in [Conn -> Channel]
      <4> HIDE DEF old
      <4>1. chan' = [chan EXCEPT ![old].connected = FALSE]
        BY <1>6, <2>3 DEF addSwitch, old
      <4> QED
        BY <2>1, <4>1 DEF Channel
    <3> QED
      BY <1>1, <1>6, <2>2, <2>3, <3>1 DEF addSwitch
  <2>4. CASE gwSwitch # old
    BY <1>1, <1>6, <2>2, <2>4, CloseOldType DEF addSwitch
  <2> QED
    BY <2>3, <2>4
<1>12. CASE addSwitchEnd(c)
  <2>1. clearing' \subseteq Conn \cup {NoConn}
    BY <1>12 DEF addSwitchEnd, ClearGwSwitch
  <2> QED
    BY <1>1, <1>12, <2>1, CloseOldType DEF addSwitchEnd, ClearGwSwitch
<1>7. CASE channelDisconnected(c)
  <2>1. [NoChannel EXCEPT !.replacing = chan[c].replacing] \in Channel
    BY DEF NoChannel, Channel, HandshakeState, Dpid
  <2>2. chan' \in [Conn -> Channel]
    BY <1>7, <2>1 DEF channelDisconnected
  <2>3. Append(updates, c) \in Seq(Conn) /\ chan[c].id \in Dpid
    BY DEF Channel
  <2> QED
    BY <1>1, <1>7, <2>2, <2>3 DEF channelDisconnected, wireVars
<1>8. CASE RemoteClosed(c)
  BY <1>1, <1>3, <1>8, CloseType DEF RemoteClosed
<1>9. CASE Reset(c)
  <2>1. tcp' \in [Conn -> Tcp] /\ toCtl' \in [Conn -> Seq(Answer)]
    BY <1>3, <1>9, HangupType DEF Reset
  <2>2. chan' \in [Conn -> Channel]
    BY ZenonT(30), <1>9 DEF Reset, Channel
  <2> QED
    BY <1>1, <1>2, <1>3, <1>9, <2>1, <2>2 DEF Reset
<1>10. CASE ReadTimeout(c, Answers(c))
  BY <1>1, <1>3, <1>10, CloseType DEF ReadTimeout
<1>11. CASE HandshakeTimeout(c)
  BY <1>1, <1>2, <1>3, <1>11, CloseType DEF HandshakeTimeout
<1> QED
  BY <1>4, <1>5, <1>6, <1>7, <1>8, <1>9, <1>10, <1>11, <1>12 DEF Server

(***************************************************************************)
(* Every step keeps TypeOK.                                                *)
(***************************************************************************)
LEMMA TypeStep == TypeOK /\ [Next]_vars => TypeOK'
<1> SUFFICES ASSUME TypeOK, [Next]_vars PROVE TypeOK'
  OBVIOUS
<1> USE DEF TypeOK, WireTypeOK, ControllerTypeOK
<1>1. CASE Dispatch
  <2>1. ClientTypeOK'
    BY <1>1 DEF Dispatch, ClientTypeOK, clientVars
  <2>2. CASE dispatch
    <3>1. Tail(updates) \in Seq(Conn)
      BY <2>2, HeadTail DEF dispatch
    <3> QED
      BY <2>1, <2>2, <3>1 DEF dispatch, removedSwitch, wireVars
  <2>3. CASE dispatchEnd
    BY <2>1, <2>3 DEF dispatchEnd, ClearGwSwitch, wireVars
  <2> QED
    BY <1>1, <2>2, <2>3 DEF Dispatch
<1>2. ASSUME NEW c \in Conn, Network(c) PROVE TypeOK'
  <2>1. ClientTypeOK' /\ ControllerTypeOK'
    BY <1>2 DEF Network, ClientTypeOK, ControllerTypeOK, clientVars, ctrlVars
  <2>2. spent' \in [Kind -> Nat]
    BY <1>2 DEF Network, Refuse, Vanish, Spend, Kind
  <2>3. <<>> \in Seq(Request) /\ <<>> \in Seq(Answer)
    OBVIOUS
  <2>4. CASE Refuse(c)
    BY <2>1, <2>2, <2>4 DEF Refuse, Tcp
  <2>5. CASE Vanish(c)
    BY <2>1, <2>2, <2>3, <2>5 DEF Vanish, Tcp
  <2> QED
    BY <1>2, <2>4, <2>5 DEF Network
<1>3. CASE UNCHANGED vars
  BY <1>3 DEF vars, wireVars, clientVars, ctrlVars, ClientTypeOK
<1> QED
  BY <1>1, <1>2, <1>3, ClientType, ServerType DEF Next

(***************************************************************************)
(* Every variable keeps its type: a handshake is in one of its states, a   *)
(* removal and gwSwitch name a connection, the switch answers with         *)
(* messages of the handshake, on however many connections.                 *)
(***************************************************************************)
THEOREM TypeCorrect == Spec => []TypeOK
  BY TypeInit, TypeStep, PTL DEF Spec

-----------------------------------------------------------------------------

(***************************************************************************)
(* The handshake.  NothingUnexpected is not inductive: whether the next    *)
(* message is expected depends on what was asked, and on what is still on  *)
(* its way in both directions.  InOrder says of a channel ch, the requests *)
(* rq that the switch has not read and the answers aq that the controller  *)
(* has not read, that they fit together: in every state of the handshake   *)
(* only the requests of this state are under way, and only their answers,  *)
(* each once and none together with its request.                           *)
(***************************************************************************)
Has(aq, type) == \E i \in 1 .. Len(aq) : aq[i].type = type

OfTypes(aq, types) == \A i \in 1 .. Len(aq) : aq[i].type \in types

Once(aq) ==
    \A i, j \in 1 .. Len(aq) :
       aq[i].type = aq[j].type => i = j \/ aq[i].type \in {"WLAN", "GW_CONNECT"}

InStart(rq, aq) ==
    /\ rq \in {<<>>, <<"HELLO">>}
    /\ OfTypes(aq, {"HELLO", "WLAN"})
    /\ Has(aq, "HELLO") => rq = <<>>

InHello(rq, aq) ==
    /\ rq \in {<<>>, <<"FEATURES_REQUEST">>}
    /\ OfTypes(aq, {"FEATURES_REPLY", "WLAN"})
    /\ Has(aq, "FEATURES_REPLY") => rq = <<>>

InFeaturesReply(ch, rq, aq) ==
    /\ rq \in {<<>>, <<"STATS_REQUEST">>, <<"GET_CONFIG_REQUEST", "STATS_REQUEST">>,
               <<"SET_CONFIG", "GET_CONFIG_REQUEST", "STATS_REQUEST">>}
    /\ OfTypes(aq, {"GET_CONFIG_REPLY", "STATS_REPLY", "WLAN"})
    /\ Has(aq, "GET_CONFIG_REPLY") => ~ch.hasGetConfigReply
    /\ Has(aq, "GET_CONFIG_REPLY") \/ ch.hasGetConfigReply =>
          rq \in {<<>>, <<"STATS_REQUEST">>}
    /\ Has(aq, "STATS_REPLY") => ~ch.hasDescription
    /\ Has(aq, "STATS_REPLY") \/ ch.hasDescription => rq = <<>>

InReady(rq, aq) ==
    /\ rq \in {<<>>, <<"FLOW_MOD">>}
    /\ OfTypes(aq, {"GW_CONNECT", "WLAN"})

InOrder(ch, rq, aq) ==
    /\ Once(aq)
    /\ ch.hsState \in {"START", "HELLO"} => ~ch.hasGetConfigReply /\ ~ch.hasDescription
    /\ ch.hsState = "START" => InStart(rq, aq)
    /\ ch.hsState = "HELLO" => InHello(rq, aq)
    /\ ch.hsState = "FEATURES_REPLY" => InFeaturesReply(ch, rq, aq)
    /\ ch.hsState = "READY" => InReady(rq, aq)

(***************************************************************************)
(* r is a contiguous part of q.                                            *)
(***************************************************************************)
Part(r, q) ==
    \E k \in Nat : /\ Len(r) + k <= Len(q)
                   /\ \A j \in 1 .. Len(r) : r[j] = q[j + k]

(***************************************************************************)
(* Answers that are lost or taken disturb nothing.                         *)
(***************************************************************************)
LEMMA PartOrder ==
    ASSUME NEW ch, NEW rq, NEW aq \in Seq(Answer), NEW bq \in Seq(Answer),
           InOrder(ch, rq, aq), Part(bq, aq)
    PROVE  InOrder(ch, rq, bq)
<1>1. PICK k \in Nat : /\ Len(bq) + k <= Len(aq)
                       /\ \A j \in 1 .. Len(bq) : bq[j] = aq[j + k]
  BY DEF Part
<1>2. \A type : Has(bq, type) => Has(aq, type)
  BY <1>1 DEF Has
<1>3. \A types : OfTypes(aq, types) => OfTypes(bq, types)
  BY <1>1 DEF OfTypes
<1>4. Once(bq)
  <2>1. SUFFICES ASSUME NEW i \in 1 .. Len(bq), NEW j \in 1 .. Len(bq),
                        bq[i].type = bq[j].type
                 PROVE  i = j \/ bq[i].type \in {"WLAN", "GW_CONNECT"}
    BY DEF Once
  <2>2. Len(aq) \in Nat /\ Len(bq) \in Nat
    OBVIOUS
  <2>3. i + k \in 1 .. Len(aq) /\ j + k \in 1 .. Len(aq)
    BY <1>1, <2>2
  <2>4. bq[i] = aq[i + k] /\ bq[j] = aq[j + k]
    BY <1>1
  <2>5. i + k = j + k \/ aq[i + k].type \in {"WLAN", "GW_CONNECT"}
    BY <2>1, <2>3, <2>4 DEF InOrder, Once
  <2> QED
    BY <2>4, <2>5
<1> QED
  BY <1>2, <1>3, <1>4 DEF InOrder, InStart, InHello, InFeaturesReply, InReady

(***************************************************************************)
(* So do requests that are lost.                                           *)
(***************************************************************************)
LEMMA LostOrder ==
    ASSUME NEW ch, NEW rq, NEW aq, InOrder(ch, rq, aq)
    PROVE  InOrder(ch, <<>>, aq)
  BY DEF InOrder, InStart, InHello, InFeaturesReply, InReady

(***************************************************************************)
(* A queue of answers with one more.                                       *)
(***************************************************************************)
LEMMA OneMore ==
    ASSUME NEW aq \in Seq(Answer), NEW m \in Answer
    PROVE  /\ \A type : Has(aq \o <<m>>, type) => Has(aq, type) \/ m.type = type
           /\ \A types : OfTypes(aq, types) /\ m.type \in types =>
                 OfTypes(aq \o <<m>>, types)
           /\ Once(aq) /\ (Has(aq, m.type) => m.type \in {"WLAN", "GW_CONNECT"}) =>
                 Once(aq \o <<m>>)
<1> DEFINE bq == aq \o <<m>>
<1>1. /\ Len(bq) = Len(aq) + 1 /\ Len(aq) \in Nat
      /\ \A j \in 1 .. Len(aq) : bq[j] = aq[j]
      /\ bq[Len(aq) + 1] = m
  BY Appended
<1> HIDE DEF bq
<1>2. \A type : Has(bq, type) => Has(aq, type) \/ m.type = type
  BY <1>1 DEF Has
<1>3. \A types : OfTypes(aq, types) /\ m.type \in types => OfTypes(bq, types)
  BY <1>1 DEF OfTypes
<1>4. ASSUME Once(aq), Has(aq, m.type) => m.type \in {"WLAN", "GW_CONNECT"}
      PROVE  Once(bq)
  <2>1. SUFFICES ASSUME NEW i \in 1 .. Len(bq), NEW j \in 1 .. Len(bq),
                        bq[i].type = bq[j].type, i # j
                 PROVE  bq[i].type \in {"WLAN", "GW_CONNECT"}
    BY DEF Once
  <2>2. CASE i = Len(aq) + 1 \/ j = Len(aq) + 1
    BY <1>1, <1>4, <2>1, <2>2 DEF Has
  <2>3. CASE i \in 1 .. Len(aq) /\ j \in 1 .. Len(aq)
    BY <1>1, <1>4, <2>1, <2>3 DEF Once
  <2> QED
    BY <1>1, <2>2, <2>3
<1> QED
  BY <1>2, <1>3, <1>4 DEF bq

(***************************************************************************)
(* A message of an access point's threads may come at any time.            *)
(***************************************************************************)
LEMMA WlanOrder ==
    ASSUME NEW ch, NEW rq, NEW aq \in Seq(Answer), NEW m \in Answer,
           m.type = "WLAN", InOrder(ch, rq, aq)
    PROVE  InOrder(ch, rq, aq \o <<m>>)
<1> DEFINE bq == aq \o <<m>>
<1>1. \A type : Has(bq, type) => Has(aq, type) \/ m.type = type
  BY OneMore
<1>2. \A types : OfTypes(aq, types) /\ m.type \in types => OfTypes(bq, types)
  BY OneMore
<1>3. Once(bq)
  BY OneMore DEF InOrder
<1> HIDE DEF bq
<1>4. InOrder(ch, rq, bq)
  BY <1>1, <1>2, <1>3 DEF InOrder, InStart, InHello, InFeaturesReply, InReady
<1> QED
  BY <1>4 DEF bq

(***************************************************************************)
(* The switch takes a request off the queue, whose answer is lost.         *)
(***************************************************************************)
LEMMA UnansweredOrder ==
    ASSUME NEW ch \in Channel, NEW rq, NEW aq, rq # <<>>, InOrder(ch, rq, aq)
    PROVE  InOrder(ch, Tail(rq), aq)
<1>1. ch.hsState \in HandshakeState
  BY DEF Channel
<1>2. /\ Tail(<<"HELLO">>) = <<>>
      /\ Tail(<<"FEATURES_REQUEST">>) = <<>>
      /\ Tail(<<"STATS_REQUEST">>) = <<>>
      /\ Tail(<<"FLOW_MOD">>) = <<>>
  OBVIOUS
<1>3. Tail(<<"GET_CONFIG_REQUEST", "STATS_REQUEST">>) = <<"STATS_REQUEST">>
  OBVIOUS
<1>4. Tail(<<"SET_CONFIG", "GET_CONFIG_REQUEST", "STATS_REQUEST">>)
         = <<"GET_CONFIG_REQUEST", "STATS_REQUEST">>
  OBVIOUS
<1>5. CASE ch.hsState = "START"
  BY <1>2, <1>5 DEF InOrder, InStart
<1>6. CASE ch.hsState = "HELLO"
  BY <1>2, <1>6 DEF InOrder, InHello
<1>7. CASE ch.hsState = "FEATURES_REPLY"
  BY <1>2, <1>3, <1>4, <1>7 DEF InOrder, InFeaturesReply
<1>8. CASE ch.hsState = "READY"
  BY <1>2, <1>8 DEF InOrder, InReady
<1> QED
  BY <1>1, <1>5, <1>6, <1>7, <1>8 DEF HandshakeState

(***************************************************************************)
(* process_controller_msg, request by request.                             *)
(***************************************************************************)
LEMMA AnswerToEach ==
    /\ AnswerTo("HELLO") = Reply("HELLO")
    /\ AnswerTo("FEATURES_REQUEST") = Reply("FEATURES_REPLY")
    /\ AnswerTo("SET_CONFIG") = <<>>
    /\ AnswerTo("GET_CONFIG_REQUEST") = Reply("GET_CONFIG_REPLY")
    /\ AnswerTo("STATS_REQUEST") = Reply("STATS_REPLY")
    /\ AnswerTo("FLOW_MOD") \in {<<>>, Reply("GW_CONNECT")}
<1>1. AnswerTo("HELLO") = Reply("HELLO")
  BY Zenon DEF AnswerTo
<1>2. AnswerTo("FEATURES_REQUEST") = Reply("FEATURES_REPLY")
  BY Zenon DEF AnswerTo
<1>3. AnswerTo("SET_CONFIG") = <<>>
  BY Zenon DEF AnswerTo
<1>4. AnswerTo("GET_CONFIG_REQUEST") = Reply("GET_CONFIG_REPLY")
  BY Zenon DEF AnswerTo
<1>5. AnswerTo("STATS_REQUEST") = Reply("STATS_REPLY")
  BY Zenon DEF AnswerTo
<1>6. AnswerTo("FLOW_MOD") \in {<<>>, Reply("GW_CONNECT")}
  BY Zenon DEF AnswerTo
<1> QED
  BY <1>1, <1>2, <1>3, <1>4, <1>5, <1>6

(***************************************************************************)
(* The switch takes a request off the queue and answers it.                *)
(***************************************************************************)
LEMMA AnsweredOrder ==
    ASSUME NEW ch \in Channel, NEW rq, NEW aq \in Seq(Answer), rq # <<>>,
           InOrder(ch, rq, aq), dpid \in Dpid
    PROVE  InOrder(ch, Tail(rq), aq \o AnswerTo(Head(rq)))
<1>1. ch.hsState \in HandshakeState
  BY DEF Channel
<1>2. \A type \in {"HELLO", "FEATURES_REPLY", "GET_CONFIG_REPLY", "STATS_REPLY",
                   "GW_CONNECT"} :
         /\ [type |-> type, dpid |-> dpid] \in Answer
         /\ Reply(type) = <<[type |-> type, dpid |-> dpid]>>
  BY DEF Answer, Reply
<1>3. aq \o <<>> = aq
  OBVIOUS
<1>4. CASE ch.hsState = "START"
  <2>0. rq = <<"HELLO">>
    BY <1>4 DEF InOrder, InStart
  <2>1. rq = <<"HELLO">> /\ Tail(rq) = <<>> /\ Head(rq) = "HELLO"
    BY <2>0
  <2> DEFINE m == [type |-> "HELLO", dpid |-> dpid]
  <2>2. m \in Answer /\ m.type = "HELLO" /\ AnswerTo(Head(rq)) = <<m>>
    BY <1>2, <2>1, AnswerToEach
  <2> HIDE DEF m
  <2>3. ~Has(aq, "HELLO") /\ Once(aq) /\ OfTypes(aq, {"HELLO", "WLAN"})
    BY <1>4, <2>1 DEF InOrder, InStart
  <2>4. Once(aq \o <<m>>) /\ OfTypes(aq \o <<m>>, {"HELLO", "WLAN"})
    BY <2>2, <2>3, OneMore
  <2>5. InStart(Tail(rq), aq \o <<m>>)
    BY <2>1, <2>4 DEF InStart
  <2> QED
    BY <1>4, <2>2, <2>4, <2>5 DEF InOrder
<1>5. CASE ch.hsState = "HELLO"
  <2>0. rq = <<"FEATURES_REQUEST">>
    BY <1>5 DEF InOrder, InHello
  <2>1. /\ rq = <<"FEATURES_REQUEST">> /\ Tail(rq) = <<>>
        /\ Head(rq) = "FEATURES_REQUEST"
    BY <2>0
  <2> DEFINE m == [type |-> "FEATURES_REPLY", dpid |-> dpid]
  <2>2. m \in Answer /\ m.type = "FEATURES_REPLY" /\ AnswerTo(Head(rq)) = <<m>>
    BY <1>2, <2>1, AnswerToEach
  <2> HIDE DEF m
  <2>3. ~Has(aq, "FEATURES_REPLY") /\ Once(aq) /\ OfTypes(aq, {"FEATURES_REPLY", "WLAN"})
    BY <1>5, <2>1 DEF InOrder, InHello
  <2>4. Once(aq \o <<m>>) /\ OfTypes(aq \o <<m>>, {"FEATURES_REPLY", "WLAN"})
    BY <2>2, <2>3, OneMore
  <2>5. InHello(Tail(rq), aq \o <<m>>)
    BY <2>1, <2>4 DEF InHello
  <2> QED
    BY <1>5, <2>2, <2>4, <2>5 DEF InOrder
<1>6. CASE ch.hsState = "FEATURES_REPLY"
  <2> DEFINE types == {"GET_CONFIG_REPLY", "STATS_REPLY", "WLAN"}
  <2>1. Once(aq) /\ OfTypes(aq, types) /\ InFeaturesReply(ch, rq, aq)
    BY <1>6 DEF InOrder, InFeaturesReply
  <2>2. CASE rq = <<"STATS_REQUEST">>
    <3> DEFINE m == [type |-> "STATS_REPLY", dpid |-> dpid]
    <3>1. Head(rq) = "STATS_REQUEST" /\ Tail(rq) = <<>>
      BY <2>2
    <3>2. m \in Answer /\ m.type = "STATS_REPLY" /\ AnswerTo(Head(rq)) = <<m>>
      BY <1>2, <3>1, AnswerToEach
    <3> HIDE DEF m
    <3>3. ~Has(aq, "STATS_REPLY") /\ ~ch.hasDescription
      BY <2>1, <2>2 DEF InFeaturesReply
    <3>4. /\ Once(aq \o <<m>>) /\ OfTypes(aq \o <<m>>, types)
          /\ Has(aq \o <<m>>, "GET_CONFIG_REPLY") => Has(aq, "GET_CONFIG_REPLY")
      BY <2>1, <3>2, <3>3, OneMore
    <3>5. InFeaturesReply(ch, Tail(rq), aq \o <<m>>)
      BY <2>1, <3>1, <3>3, <3>4 DEF InFeaturesReply
    <3> QED
      BY <1>6, <3>2, <3>4, <3>5 DEF InOrder
  <2>3. CASE rq = <<"GET_CONFIG_REQUEST", "STATS_REQUEST">>
    <3> DEFINE m == [type |-> "GET_CONFIG_REPLY", dpid |-> dpid]
    <3>1. Head(rq) = "GET_CONFIG_REQUEST" /\ Tail(rq) = <<"STATS_REQUEST">>
      BY <2>3
    <3>2. m \in Answer /\ m.type = "GET_CONFIG_REPLY" /\ AnswerTo(Head(rq)) = <<m>>
      BY <1>2, <3>1, AnswerToEach
    <3> HIDE DEF m
    <3>3. /\ ~Has(aq, "GET_CONFIG_REPLY") /\ ~ch.hasGetConfigReply
          /\ ~Has(aq, "STATS_REPLY") /\ ~ch.hasDescription
      BY <2>1, <2>3 DEF InFeaturesReply
    <3>4. /\ Once(aq \o <<m>>) /\ OfTypes(aq \o <<m>>, types)
          /\ ~Has(aq \o <<m>>, "STATS_REPLY")
      BY <2>1, <3>2, <3>3, OneMore
    <3>5. InFeaturesReply(ch, Tail(rq), aq \o <<m>>)
      BY <2>1, <3>1, <3>3, <3>4 DEF InFeaturesReply
    <3> QED
      BY <1>6, <3>2, <3>4, <3>5 DEF InOrder
  <2>4. CASE rq = <<"SET_CONFIG", "GET_CONFIG_REQUEST", "STATS_REQUEST">>
    <3>1. Head(rq) = "SET_CONFIG"
      BY <2>4
    <3> QED
      BY <1>3, <3>1, AnswerToEach, UnansweredOrder
  <2> QED
    BY <2>1, <2>2, <2>3, <2>4 DEF InFeaturesReply
<1>7. CASE ch.hsState = "READY"
  <2>0. rq = <<"FLOW_MOD">>
    BY <1>7 DEF InOrder, InReady
  <2>1. rq = <<"FLOW_MOD">> /\ Tail(rq) = <<>> /\ Head(rq) = "FLOW_MOD"
    BY <2>0
  <2> DEFINE m == [type |-> "GW_CONNECT", dpid |-> dpid]
  <2>2. m \in Answer /\ m.type = "GW_CONNECT" /\ AnswerTo(Head(rq)) \in {<<>>, <<m>>}
    BY <1>2, <2>1, AnswerToEach
  <2> HIDE DEF m
  <2>3. Once(aq) /\ OfTypes(aq, {"GW_CONNECT", "WLAN"})
    BY <1>7, <2>1 DEF InOrder, InReady
  <2>4. Once(aq \o <<m>>) /\ OfTypes(aq \o <<m>>, {"GW_CONNECT", "WLAN"})
    BY <2>2, <2>3, OneMore
  <2>5. InReady(Tail(rq), aq) /\ InReady(Tail(rq), aq \o <<m>>)
    BY <2>1, <2>3, <2>4 DEF InReady
  <2> QED
    BY <1>3, <1>7, <2>2, <2>3, <2>4, <2>5 DEF InOrder
<1> QED
  BY <1>1, <1>4, <1>5, <1>6, <1>7 DEF HandshakeState

(***************************************************************************)
(* The controller takes an answer off the queue.                           *)
(***************************************************************************)
LEMMA First ==
    ASSUME NEW aq \in Seq(Answer), aq # <<>>
    PROVE  /\ Has(aq, Head(aq).type)
           /\ Part(Tail(aq), aq)
           /\ \A types : OfTypes(aq, types) =>
                 Head(aq).type \in types /\ OfTypes(Tail(aq), types)
           /\ Once(aq) /\ Head(aq).type \notin {"WLAN", "GW_CONNECT"} =>
                 ~Has(Tail(aq), Head(aq).type)
<1> DEFINE bq == Tail(aq)
           m == Head(aq)
<1>1. /\ Len(aq) \in Nat /\ Len(aq) >= 1
      /\ m = aq[1]
      /\ Len(bq) = Len(aq) - 1
      /\ \A j \in 1 .. Len(aq) - 1 : bq[j] = aq[j + 1]
  BY HeadTail
<1> HIDE DEF bq, m
<1>2. Has(aq, m.type)
  BY <1>1 DEF Has
<1>3. Part(bq, aq)
  BY SMTT(30), <1>1 DEF Part
<1>4. \A types : OfTypes(aq, types) => m.type \in types /\ OfTypes(bq, types)
  BY <1>1 DEF OfTypes
<1>5. ASSUME Once(aq), m.type \notin {"WLAN", "GW_CONNECT"} PROVE ~Has(bq, m.type)
  BY <1>1, <1>5 DEF Once, Has
<1> QED
  BY <1>2, <1>3, <1>4, <1>5 DEF bq, m

LEMMA TakenOrder ==
    ASSUME NEW ch, NEW rq, NEW aq \in Seq(Answer), aq # <<>>, InOrder(ch, rq, aq)
    PROVE  InOrder(ch, rq, Tail(aq))
<1>1. Tail(aq) \in Seq(Answer)
  BY HeadTail
<1> QED
  BY <1>1, First, PartOrder

(***************************************************************************)
(* A Hello is expected, and the first one.                                 *)
(***************************************************************************)
LEMMA HelloOrder ==
    ASSUME NEW ch \in Channel, NEW rq, NEW aq \in Seq(Answer), aq # <<>>,
           InOrder(ch, rq, aq), Head(aq).type = "HELLO"
    PROVE  /\ ch.hsState = "START"
           /\ rq = <<>>
           /\ \A dh, nrq :
                /\ dh.hsState = "HELLO"
                /\ ~dh.hasGetConfigReply /\ ~dh.hasDescription
                /\ nrq \in {<<>>, <<"FEATURES_REQUEST">>}
                => InOrder(dh, nrq, Tail(aq))
<1>1. /\ Has(aq, "HELLO")
      /\ \A types : OfTypes(aq, types) => "HELLO" \in types /\ OfTypes(Tail(aq), types)
  BY First
<1>2. ~Has(Tail(aq), "HELLO") /\ Once(Tail(aq))
  BY First, TakenOrder DEF InOrder
<1>3. ch.hsState = "START"
  BY <1>1 DEF InOrder, InHello, InFeaturesReply, InReady, Channel, HandshakeState
<1>4. rq = <<>>
  BY <1>1, <1>3 DEF InOrder, InStart
<1>5. OfTypes(Tail(aq), {"HELLO", "WLAN"})
  BY <1>1, <1>3 DEF InOrder, InStart
<1>6. OfTypes(Tail(aq), {"FEATURES_REPLY", "WLAN"}) /\ ~Has(Tail(aq), "FEATURES_REPLY")
  BY <1>2, <1>5 DEF OfTypes, Has
<1>7. \A nrq \in {<<>>, <<"FEATURES_REQUEST">>} : InHello(nrq, Tail(aq))
  BY <1>6 DEF InHello
<1> QED
  BY <1>2, <1>3, <1>4, <1>7 DEF InOrder

(***************************************************************************)
(* So is the reply to the features request.                                *)
(***************************************************************************)
LEMMA FeaturesReplyOrder ==
    ASSUME NEW ch \in Channel, NEW rq, NEW aq \in Seq(Answer), aq # <<>>,
           InOrder(ch, rq, aq), Head(aq).type = "FEATURES_REPLY"
    PROVE  /\ ch.hsState = "HELLO"
           /\ rq = <<>>
           /\ \A dh, nrq :
                /\ dh.hsState = "FEATURES_REPLY"
                /\ ~dh.hasGetConfigReply /\ ~dh.hasDescription
                /\ nrq \in {<<>>, <<"SET_CONFIG", "GET_CONFIG_REQUEST", "STATS_REQUEST">>}
                => InOrder(dh, nrq, Tail(aq))
<1>1. /\ Has(aq, "FEATURES_REPLY")
      /\ \A types : OfTypes(aq, types) =>
            "FEATURES_REPLY" \in types /\ OfTypes(Tail(aq), types)
  BY First
<1>2. ~Has(Tail(aq), "FEATURES_REPLY") /\ Once(Tail(aq))
  BY First, TakenOrder DEF InOrder
<1>3. ch.hsState = "HELLO"
  BY <1>1 DEF InOrder, InStart, InFeaturesReply, InReady, Channel, HandshakeState
<1>4. rq = <<>>
  BY <1>1, <1>3 DEF InOrder, InHello
<1>5. OfTypes(Tail(aq), {"FEATURES_REPLY", "WLAN"})
  BY <1>1, <1>3 DEF InOrder, InHello
<1>6. /\ OfTypes(Tail(aq), {"GET_CONFIG_REPLY", "STATS_REPLY", "WLAN"})
      /\ ~Has(Tail(aq), "GET_CONFIG_REPLY") /\ ~Has(Tail(aq), "STATS_REPLY")
  BY <1>2, <1>5 DEF OfTypes, Has
<1>7. ASSUME NEW dh, ~dh.hasGetConfigReply, ~dh.hasDescription,
             NEW nrq \in {<<>>, <<"SET_CONFIG", "GET_CONFIG_REQUEST", "STATS_REQUEST">>}
      PROVE  InFeaturesReply(dh, nrq, Tail(aq))
  BY <1>6, <1>7 DEF InFeaturesReply
<1> QED
  BY <1>2, <1>3, <1>4, <1>7 DEF InOrder

(***************************************************************************)
(* So are the two replies that complete the handshake, in either order.    *)
(***************************************************************************)
LEMMA GetConfigReplyOrder ==
    ASSUME NEW ch \in Channel, NEW rq, NEW aq \in Seq(Answer), aq # <<>>,
           InOrder(ch, rq, aq), Head(aq).type = "GET_CONFIG_REPLY"
    PROVE  /\ ch.hsState = "FEATURES_REPLY"
           /\ \A dh : /\ dh.hsState = "FEATURES_REPLY"
                      /\ dh.hasDescription = ch.hasDescription
                      => InOrder(dh, rq, Tail(aq))
           /\ ch.hasDescription =>
                /\ rq = <<>>
                /\ \A dh, nrq : dh.hsState = "READY" /\ nrq \in {<<>>, <<"FLOW_MOD">>} =>
                      InOrder(dh, nrq, Tail(aq))
<1>1. /\ Has(aq, "GET_CONFIG_REPLY")
      /\ \A types : OfTypes(aq, types) =>
            "GET_CONFIG_REPLY" \in types /\ OfTypes(Tail(aq), types)
  BY First
<1>2. ~Has(Tail(aq), "GET_CONFIG_REPLY") /\ InOrder(ch, rq, Tail(aq))
  BY First, TakenOrder DEF InOrder
<1>3. ch.hsState = "FEATURES_REPLY"
  BY <1>1 DEF InOrder, InStart, InHello, InReady, Channel, HandshakeState
<1>4. InFeaturesReply(ch, rq, aq) /\ InFeaturesReply(ch, rq, Tail(aq)) /\ Once(Tail(aq))
  BY <1>2, <1>3 DEF InOrder
<1>5. ASSUME NEW dh, dh.hasDescription = ch.hasDescription
      PROVE  InFeaturesReply(dh, rq, Tail(aq))
  BY <1>1, <1>2, <1>4, <1>5 DEF InFeaturesReply
<1>6. ASSUME ch.hasDescription PROVE rq = <<>> /\ OfTypes(Tail(aq), {"GW_CONNECT", "WLAN"})
  <2>1. /\ rq = <<>> /\ ~Has(Tail(aq), "STATS_REPLY")
        /\ OfTypes(Tail(aq), {"GET_CONFIG_REPLY", "STATS_REPLY", "WLAN"})
    BY <1>4, <1>6 DEF InFeaturesReply
  <2> QED
    BY <1>2, <2>1 DEF OfTypes, Has
<1>7. ASSUME ch.hasDescription, NEW nrq \in {<<>>, <<"FLOW_MOD">>}
      PROVE  InReady(nrq, Tail(aq))
  BY <1>6, <1>7 DEF InReady
<1> QED
  BY <1>3, <1>4, <1>5, <1>6, <1>7 DEF InOrder

LEMMA StatsReplyOrder ==
    ASSUME NEW ch \in Channel, NEW rq, NEW aq \in Seq(Answer), aq # <<>>,
           InOrder(ch, rq, aq), Head(aq).type = "STATS_REPLY"
    PROVE  /\ ch.hsState = "FEATURES_REPLY"
           /\ \A dh : /\ dh.hsState = "FEATURES_REPLY"
                      /\ dh.hasGetConfigReply = ch.hasGetConfigReply
                      => InOrder(dh, rq, Tail(aq))
           /\ ch.hasGetConfigReply =>
                /\ rq = <<>>
                /\ \A dh, nrq : dh.hsState = "READY" /\ nrq \in {<<>>, <<"FLOW_MOD">>} =>
                      InOrder(dh, nrq, Tail(aq))
<1>1. /\ Has(aq, "STATS_REPLY")
      /\ \A types : OfTypes(aq, types) =>
            "STATS_REPLY" \in types /\ OfTypes(Tail(aq), types)
  BY First
<1>2. ~Has(Tail(aq), "STATS_REPLY") /\ InOrder(ch, rq, Tail(aq))
  BY First, TakenOrder DEF InOrder
<1>3. ch.hsState = "FEATURES_REPLY"
  BY <1>1 DEF InOrder, InStart, InHello, InReady, Channel, HandshakeState
<1>4. InFeaturesReply(ch, rq, aq) /\ InFeaturesReply(ch, rq, Tail(aq)) /\ Once(Tail(aq))
  BY <1>2, <1>3 DEF InOrder
<1>5. rq = <<>>
  BY <1>1, <1>4 DEF InFeaturesReply
<1>6. ASSUME NEW dh, dh.hasGetConfigReply = ch.hasGetConfigReply
      PROVE  InFeaturesReply(dh, rq, Tail(aq))
  BY <1>2, <1>4, <1>5, <1>6 DEF InFeaturesReply
<1>7. ASSUME ch.hasGetConfigReply PROVE OfTypes(Tail(aq), {"GW_CONNECT", "WLAN"})
  <2>1. /\ ~Has(Tail(aq), "GET_CONFIG_REPLY")
        /\ OfTypes(Tail(aq), {"GET_CONFIG_REPLY", "STATS_REPLY", "WLAN"})
    BY <1>4, <1>7 DEF InFeaturesReply
  <2> QED
    BY <1>2, <2>1 DEF OfTypes, Has
<1>8. ASSUME ch.hasGetConfigReply, NEW nrq \in {<<>>, <<"FLOW_MOD">>}
      PROVE  InReady(nrq, Tail(aq))
  BY <1>7, <1>8 DEF InReady
<1> QED
  BY <1>3, <1>4, <1>5, <1>6, <1>8 DEF InOrder

-----------------------------------------------------------------------------

(***************************************************************************)
(* The inductive invariant.  A connection that is not accepted yet carries *)
(* nothing; the handshake of one that is in use is in order; a connection  *)
(* that is ready is in activeSwitches, or the thread of the one that took  *)
(* its place there has still to remove it; and gwSwitch is such a          *)
(* connection or one whose removal is under way, or is about to be cleared *)
(* whatever it is.                                                         *)
(***************************************************************************)
Unopened(c) ==
    tcp[c] \in {"none", "connecting"} =>
       /\ chan[c].done
       /\ chan[c].replacing = NoConn
       /\ toSw[c] = <<>>
       /\ toCtl[c] = <<>>

Unused(c) == c > last => tcp[c] = "none"

OpenNotDone(c) == chan[c].open => ~chan[c].done

Ordered(c) == ~chan[c].done => InOrder(chan[c], toSw[c], toCtl[c])

Ready(c) == ~chan[c].done /\ chan[c].connected /\ chan[c].hsState = "READY"

Replaced(c) == \E d \in Conn : chan[d].replacing = c

Listed(c) == Ready(c) => activeSwitches[chan[c].id] = c \/ Replaced(c)

GwListed ==
    gwSwitch # NoConn =>
       \/ Ready(gwSwitch)
       \/ \E i \in 1 .. Len(updates) : updates[i] = gwSwitch
       \/ Replaced(gwSwitch)
       \/ clearing # {}

Fits(c) == Unopened(c) /\ Unused(c) /\ OpenNotDone(c) /\ Ordered(c) /\ Listed(c)

Inv == TypeOK /\ GwListed /\ \A c \in Conn : Fits(c)

LEMMA InvInit == Init => Inv
<1> SUFFICES ASSUME Init PROVE Inv
  OBVIOUS
<1>1. TypeOK
  BY TypeInit
<1>2. GwListed
  BY DEF Init, ControllerInit, GwListed
<1>3. \A c \in Conn : Fits(c)
  BY DEF Init, WireInit, ControllerInit, NoChannel, Fits, Unopened, Unused,
         OpenNotDone, Ordered, Listed, Ready
<1> QED
  BY <1>1, <1>2, <1>3 DEF Inv

(***************************************************************************)
(* A channel that may have been closed, and is the same otherwise.         *)
(***************************************************************************)
Closed(ch, dh) ==
    /\ dh.open => ch.open
    /\ dh.done = ch.done
    /\ dh.hsState = ch.hsState
    /\ dh.hasDescription = ch.hasDescription
    /\ dh.hasGetConfigReply = ch.hasGetConfigReply
    /\ dh.connected = ch.connected
    /\ dh.id = ch.id
    /\ dh.replacing = ch.replacing

LEMMA SameOrder ==
    ASSUME NEW ch, NEW dh, NEW rq, NEW aq, InOrder(ch, rq, aq),
           dh.hsState = ch.hsState, dh.hasDescription = ch.hasDescription,
           dh.hasGetConfigReply = ch.hasGetConfigReply
    PROVE  InOrder(dh, rq, aq)
  BY DEF InOrder, InFeaturesReply

LEMMA PartItself ==
    ASSUME NEW q \in Seq(Answer)
    PROVE  Part(q, q) /\ Part(<<>>, q)
  BY DEF Part

(***************************************************************************)
(* Steps that only close channels and lose messages keep the invariant.    *)
(***************************************************************************)
Loses(c) ==
    /\ Closed(chan[c], chan[c]')
    /\ toSw[c]' \in {toSw[c], <<>>}
    /\ Part(toCtl[c]', toCtl[c])
    /\ tcp[c]' = tcp[c] \/ tcp[c]' \notin {"none", "connecting"}
    /\ tcp[c] = "none" => tcp[c]' = "none"

LEMMA LosesInv ==
    ASSUME Inv, TypeOK', \A c \in Conn : Loses(c),
           UNCHANGED <<last, activeSwitches, updates, gwSwitch, clearing>>
    PROVE  Inv'
<1>1. ASSUME NEW c \in Conn PROVE Fits(c)'
  <2>1. Unopened(c) /\ Unused(c) /\ OpenNotDone(c) /\ Ordered(c) /\ Listed(c)
    BY DEF Inv, Fits
  <2>2. Loses(c)
    OBVIOUS
  <2>3. toCtl[c] \in Seq(Answer) /\ toCtl[c]' \in Seq(Answer)
    BY DEF Inv, TypeOK, WireTypeOK
  <2>4. toCtl[c] = <<>> => toCtl[c]' = <<>>
    BY <2>2, <2>3 DEF Loses, Part
  <2>5. Unopened(c)' /\ Unused(c)' /\ OpenNotDone(c)'
    BY <2>1, <2>2, <2>4 DEF Unopened, Unused, OpenNotDone, Loses, Closed
  <2>6. Ordered(c)'
    <3> SUFFICES ASSUME ~chan[c]'.done PROVE InOrder(chan[c]', toSw[c]', toCtl[c]')
      BY DEF Ordered
    <3>1. InOrder(chan[c], toSw[c], toCtl[c])
      BY <2>1, <2>2 DEF Ordered, Loses, Closed
    <3>2. InOrder(chan[c], toSw[c], toCtl[c]')
      BY <2>2, <2>3, <3>1, PartOrder DEF Loses
    <3>3. InOrder(chan[c], toSw[c]', toCtl[c]')
      BY <2>2, <3>2, LostOrder DEF Loses
    <3> QED
      BY <2>2, <3>3, SameOrder DEF Loses, Closed
  <2>7. Listed(c)'
    BY <2>1 DEF Listed, Ready, Replaced, Loses, Closed
  <2> QED
    BY <2>5, <2>6, <2>7 DEF Fits
<1>2. GwListed'
  <2>1. gwSwitch # NoConn => gwSwitch \in Conn
    BY DEF Inv, TypeOK, ControllerTypeOK
  <2> QED
    BY <2>1 DEF Inv, GwListed, Ready, Replaced, Loses, Closed
<1> QED
  BY <1>1, <1>2 DEF Inv

(***************************************************************************)
(* A connection that nothing has happened to, in a step that leaves the    *)
(* controller alone.                                                       *)
(***************************************************************************)
LEMMA CtrlSame ==
    ASSUME Inv, UNCHANGED ctrlVars
    PROVE  /\ GwListed'
           /\ \A c \in Conn : Listed(c)' /\ OpenNotDone(c)'
  BY DEF Inv, Fits, GwListed, Listed, OpenNotDone, Ready, Replaced, ctrlVars

LEMMA LosesNothing ==
    ASSUME Inv, NEW c \in Conn, UNCHANGED <<tcp, toSw, toCtl, chan>>
    PROVE  Loses(c)
<1>1. toCtl[c] \in Seq(Answer)
  BY DEF Inv, TypeOK, WireTypeOK
<1> QED
  BY <1>1, PartItself DEF Loses, Closed

(***************************************************************************)
(* The switch sends msgs, at most one, where they are in order, after it   *)
(* has left the requests rq.                                               *)
(***************************************************************************)
LEMMA SendInv ==
    ASSUME Inv, TypeOK', sock \in Conn, NEW t \in Thread, NEW msgs \in Seq(Answer),
           NEW rq, controller_send(t, msgs),
           toSw' = [toSw EXCEPT ![sock] = rq],
           toSw[sock] = <<>> => rq = <<>>,
           ~chan[sock].done =>
              /\ InOrder(chan[sock], rq, toCtl[sock])
              /\ InOrder(chan[sock], rq, toCtl[sock] \o msgs),
           UNCHANGED <<last, ctrlVars>>
    PROVE  Inv'
<1> USE DEF Inv, TypeOK, WireTypeOK
<1>1. toCtl[sock] \in Seq(Answer)
  OBVIOUS
<1>2. \/ toCtl' = toCtl
      \/ /\ tcp[sock] \notin {"none", "connecting"} \/ msgs = <<>>
         /\ toCtl' = [toCtl EXCEPT ![sock] = @ \o msgs]
  BY DEF controller_send, Delivered, Vanished, Failed
<1>3. \/ tcp' = tcp
      \/ /\ tcp[sock] \notin {"none", "connecting"}
         /\ tcp' = [tcp EXCEPT ![sock] = "fin"]
  BY DEF controller_send, Delivered, Vanished, Failed
<1>4. toCtl[sock] \o <<>> = toCtl[sock]
  BY <1>1
<1>5. ASSUME NEW c \in Conn PROVE Fits(c)'
  <2>1. Unopened(c) /\ Unused(c) /\ Ordered(c)
    BY DEF Fits
  <2>2. CASE c # sock
    <3>1. UNCHANGED <<tcp[c], toSw[c], toCtl[c], chan[c], last>>
      BY <1>2, <1>3, <2>2 DEF ctrlVars
    <3> QED
      BY <2>1, <3>1, CtrlSame DEF Fits, Unopened, Unused, Ordered
  <2>3. CASE c = sock
    <3>1. Unopened(c)'
      <4> SUFFICES ASSUME tcp[c]' \in {"none", "connecting"}
                   PROVE  chan[c].done /\ chan[c].replacing = NoConn /\ toSw[c]' = <<>>
                          /\ toCtl[c]' = <<>>
        BY DEF Unopened, ctrlVars
      <4>1. tcp[c] \in {"none", "connecting"}
        BY <1>3, <2>3
      <4> QED
        BY <1>2, <1>4, <2>1, <2>3, <4>1 DEF Unopened
    <3>2. Unused(c)'
      BY <1>3, <2>1, <2>3 DEF Unused
    <3>3. Ordered(c)'
      <4> SUFFICES ASSUME ~chan[c].done PROVE InOrder(chan[c], toSw[c]', toCtl[c]')
        BY DEF Ordered, ctrlVars
      <4>1. toSw[c]' = rq /\ toCtl[c]' \in {toCtl[sock], toCtl[sock] \o msgs}
        BY <1>2, <2>3
      <4> QED
        BY <2>3, <4>1
    <3> QED
      BY <3>1, <3>2, <3>3, CtrlSame DEF Fits
  <2> QED
    BY <2>2, <2>3
<1> QED
  BY <1>5, CtrlSame

(***************************************************************************)
(* A step of the switch keeps the invariant.                               *)
(***************************************************************************)
LEMMA ClientInv == ASSUME Inv, Client PROVE Inv'
<1> USE DEF Inv
<1>1. TypeOK'
  BY ClientType
<1>2. UNCHANGED ctrlVars
  BY DEF Client
<1>3. ASSUME Socket PROVE Inv'
  <2>1. ASSUME NEW c \in Conn PROVE Fits(c)'
    <3>1. Unopened(c) /\ Unused(c) /\ Ordered(c)
      BY DEF Fits
    <3>2. UNCHANGED <<toSw[c], toCtl[c], chan[c]>> /\ last' = last + 1
      BY <1>2, <1>3 DEF Socket, ctrlVars
    <3>3. last \in Nat /\ tcp \in [Conn -> Tcp] /\ c \in Nat
      BY MaxConnAssumption DEF TypeOK, ClientTypeOK, WireTypeOK, Conn, NoConn
    <3>4. \/ tcp[c]' = tcp[c] /\ c # last + 1
          \/ tcp[c]' = "connecting" /\ c = last + 1 /\ tcp[c] = "none"
      BY <1>3, <3>1, <3>3 DEF Socket, Unused
    <3>5. Unopened(c)' /\ Unused(c)' /\ Ordered(c)'
      BY <3>1, <3>2, <3>3, <3>4 DEF Unopened, Unused, Ordered
    <3> QED
      BY <1>2, <3>5, CtrlSame DEF Fits
  <2> QED
    BY <1>1, <1>2, <2>1, CtrlSame
<1>4. ASSUME UNCHANGED <<last, tcp, toSw, toCtl>> PROVE Inv'
  <2>1. \A c \in Conn : Loses(c)
    BY <1>2, <1>4, LosesNothing DEF ctrlVars
  <2> QED
    BY <1>1, <1>2, <1>4, <2>1, LosesInv DEF ctrlVars
<1>5. ASSUME Dies PROVE Inv'
  <2>1. ASSUME NEW c \in Conn PROVE Loses(c)
    <3>1. toCtl[c] \in Seq(Answer) /\ UNCHANGED <<chan[c], toCtl[c]>>
      BY <1>2, <1>5 DEF TypeOK, WireTypeOK, ctrlVars, Dies
    <3>2. /\ toSw[c]' = <<>>
          /\ tcp[c]' = IF tcp[c] \in {"none", "lost"} THEN tcp[c] ELSE "gone"
      BY <1>5 DEF Dies
    <3> QED
      BY <3>1, <3>2, PartItself DEF Loses, Closed
  <2> QED
    BY <1>1, <1>2, <1>5, <2>1, LosesInv DEF Dies, ctrlVars
<1>6. ASSUME NEW t \in Thread, process_sta_msg(t) PROVE Inv'
  <2> DEFINE m == [type |-> "WLAN", dpid |-> 0]
             rq == toSw[sock]
  <2>1. sock \in Conn
    BY <1>6 DEF process_sta_msg, TypeOK, ClientTypeOK
  <2>2. m \in Answer /\ m.type = "WLAN" /\ <<m>> \in Seq(Answer)
    BY DEF Answer, Dpid
  <2>3. toSw' = [toSw EXCEPT ![sock] = rq] /\ last' = last /\ controller_send(t, <<m>>)
    BY <1>6, <2>1 DEF process_sta_msg, TypeOK, WireTypeOK
  <2>4. toCtl[sock] \in Seq(Answer)
    BY <2>1 DEF TypeOK, WireTypeOK
  <2>5. ~chan[sock].done => InOrder(chan[sock], rq, toCtl[sock])
    BY <2>1 DEF Fits, Ordered
  <2> HIDE DEF m
  <2>6. ~chan[sock].done => InOrder(chan[sock], rq, toCtl[sock] \o <<m>>)
    BY <2>2, <2>4, <2>5, WlanOrder
  <2> QED
    BY <1>1, <1>2, <2>1, <2>2, <2>3, <2>5, <2>6, SendInv
<1>7. ASSUME RecvMessage PROVE Inv'
  <2> DEFINE rq == Tail(toSw[sock])
             msgs == AnswerTo(Head(toSw[sock]))
  <2>1. sock \in Conn /\ toSw[sock] # <<>>
    BY <1>7 DEF RecvMessage, Receiving, TypeOK, ClientTypeOK
  <2>2. Head(toSw[sock]) \in Request
    BY <2>1, HeadTail DEF TypeOK, WireTypeOK
  <2>3. msgs \in Seq(Answer)
    BY <2>2, AnswerType
  <2>4. /\ toSw' = [toSw EXCEPT ![sock] = rq]
        /\ last' = last
        /\ controller_send(rx, msgs)
        /\ rx \in Thread
    BY <1>7, <2>1 DEF RecvMessage, Thread
  <2>5. toCtl[sock] \in Seq(Answer) /\ chan[sock] \in Channel /\ dpid \in Dpid
    BY <2>1 DEF TypeOK, WireTypeOK, ClientTypeOK, ControllerTypeOK
  <2>6. ~chan[sock].done => InOrder(chan[sock], toSw[sock], toCtl[sock])
    BY <2>1 DEF Fits, Ordered
  <2>7. ~chan[sock].done => /\ InOrder(chan[sock], rq, toCtl[sock])
                            /\ InOrder(chan[sock], rq, toCtl[sock] \o msgs)
    BY <2>1, <2>5, <2>6, UnansweredOrder, AnsweredOrder
  <2> HIDE DEF rq, msgs
  <2> QED
    BY <1>1, <1>2, <2>1, <2>3, <2>4, <2>7, SendInv
<1> QED
  BY <1>3, <1>4, <1>5, <1>6, <1>7
  DEF Client, conn_open, Connected, Refused, TimedOut, GivenUp, controller_receive,
      RecvEnd, Exit, SIGPIPE, Start, CountError, CompareError, wireVars

(***************************************************************************)
(* Faults of the network.                                                  *)
(***************************************************************************)
LEMMA NetworkInv == ASSUME Inv, NEW c \in Conn, Network(c) PROVE Inv'
<1> USE DEF Inv
<1>1. TypeOK'
  BY TypeStep DEF Next
<1>2. UNCHANGED <<last, chan, activeSwitches, updates, gwSwitch, clearing>>
  BY DEF Network, clientVars, ctrlVars
<1>3. ASSUME NEW d \in Conn PROVE Loses(d)
  <2>1. toCtl[d] \in Seq(Answer) /\ chan[d]' = chan[d] /\ tcp \in [Conn -> Tcp]
    BY <1>2 DEF TypeOK, WireTypeOK
  <2>2. /\ toSw[d]' \in {toSw[d], <<>>}
        /\ toCtl[d]' \in {toCtl[d], <<>>}
        /\ tcp[d]' = tcp[d] \/ tcp[d]' \in {"fin", "lost"}
        /\ tcp[d] = "none" => tcp[d]' = "none"
    BY <2>1 DEF Network, Refuse, Vanish, TypeOK, WireTypeOK
  <2>3. Part(toCtl[d]', toCtl[d])
    BY <2>1, <2>2, PartItself
  <2> QED
    BY <2>1, <2>2, <2>3 DEF Loses, Closed
<1> QED
  BY <1>1, <1>2, <1>3, LosesInv

(***************************************************************************)
(* The main thread of the controller: the removal of gwSwitch is either    *)
(* the one that is dispatched or still to come.                            *)
(***************************************************************************)
LEMMA DispatchInv == ASSUME Inv, Dispatch PROVE Inv'
<1> USE DEF Inv
<1>1. TypeOK'
  BY TypeStep DEF Next
<1>2. UNCHANGED <<last, tcp, toSw, toCtl, chan, activeSwitches>>
  BY DEF Dispatch, dispatch, dispatchEnd, wireVars, clientVars
<1>3. ASSUME NEW c \in Conn PROVE Fits(c)'
  BY <1>2 DEF Fits, Unopened, Unused, OpenNotDone, Ordered, Listed, Ready, Replaced
<1>4. GwListed'
  <2> SUFFICES ASSUME gwSwitch' # NoConn, clearing' = {} PROVE GwListed'
    BY DEF GwListed
  <2>1. /\ gwSwitch' = gwSwitch /\ gwSwitch # Head(updates) /\ updates # <<>>
        /\ clearing' = clearing /\ updates' = Tail(updates)
    BY DEF Dispatch, dispatch, dispatchEnd, removedSwitch, ClearGwSwitch
  <2>2. updates \in Seq(Conn)
    BY DEF TypeOK, ControllerTypeOK
  <2>3. /\ Len(updates) \in Nat /\ Len(updates) >= 1 /\ Head(updates) = updates[1]
        /\ Len(updates') = Len(updates) - 1
        /\ \A j \in 1 .. Len(updates) - 1 : updates'[j] = updates[j + 1]
    BY <2>1, <2>2, HeadTail
  <2>4. ASSUME NEW i \in 1 .. Len(updates), updates[i] = gwSwitch
        PROVE  \E j \in 1 .. Len(updates') : updates'[j] = gwSwitch
    <3>1. i - 1 \in 1 .. Len(updates')
      BY <2>1, <2>3, <2>4
    <3>2. updates'[i - 1] = updates[(i - 1) + 1] /\ (i - 1) + 1 = i
      BY <2>3, <3>1
    <3> QED
      BY <2>4, <3>1, <3>2
  <2>5. \/ Ready(gwSwitch)
        \/ \E i \in 1 .. Len(updates') : updates'[i] = gwSwitch
        \/ Replaced(gwSwitch)
    BY <2>1, <2>4 DEF GwListed
  <2> QED
    BY <1>2, <2>1, <2>5 DEF GwListed, Ready, Replaced
<1> QED
  BY <1>1, <1>3, <1>4

(***************************************************************************)
(* The ends of a channel.                                                  *)
(***************************************************************************)
LEMMA HangupLoses ==
    ASSUME TypeOK, TypeOK', NEW c \in Conn, NEW msgs \in Seq(Answer), Hangup(c, msgs),
           Part(msgs, toCtl[c])
    PROVE  \A d \in Conn : /\ Part(toCtl[d]', toCtl[d])
                           /\ tcp[d]' = tcp[d] \/ tcp[d]' \notin {"none", "connecting"}
                           /\ tcp[d] = "none" => tcp[d]' = "none"
<1> USE DEF TypeOK, WireTypeOK
<1>1. PICK n \in 0 .. Len(msgs) : toCtl' = [toCtl EXCEPT ![c] = SubSeq(msgs, 1, n)]
  BY DEF Hangup
<1> DEFINE r == SubSeq(msgs, 1, n)
<1>2. Len(r) = n /\ \A j \in 1 .. n : r[j] = msgs[j]
  BY Prefix
<1>3. Len(msgs) \in Nat /\ Len(toCtl[c]) \in Nat
  OBVIOUS
<1>4. toCtl' = [toCtl EXCEPT ![c] = r]
  BY <1>1
<1> HIDE DEF r
<1>5. Part(r, toCtl[c])
  <2>1. PICK k \in Nat : /\ Len(msgs) + k <= Len(toCtl[c])
                         /\ \A j \in 1 .. Len(msgs) : msgs[j] = toCtl[c][j + k]
    BY DEF Part
  <2>2. Len(r) + k <= Len(toCtl[c]) /\ \A j \in 1 .. Len(r) : r[j] = toCtl[c][j + k]
    BY <1>2, <1>3, <2>1
  <2> QED
    BY <2>2 DEF Part
<1>6. ASSUME NEW d \in Conn PROVE Part(toCtl[d]', toCtl[d])
  <2>1. toCtl[d] \in Seq(Answer)
    OBVIOUS
  <2>2. CASE d = c
    BY <1>4, <1>5, <2>2
  <2>3. CASE d # c
    BY <1>4, <2>1, <2>3, PartItself
  <2> QED
    BY <2>2, <2>3
<1>7. tcp' = [tcp EXCEPT ![c] = IF @ = "up" THEN "fin" ELSE @]
  BY DEF Hangup
<1>8. ASSUME NEW d \in Conn
      PROVE  /\ tcp[d]' = tcp[d] \/ tcp[d]' \notin {"none", "connecting"}
             /\ tcp[d] = "none" => tcp[d]' = "none"
  BY <1>7
<1> QED
  BY <1>6, <1>8

LEMMA CloseInv ==
    ASSUME Inv, TypeOK', NEW c \in Conn, NEW msgs \in Seq(Answer),
           chan' = [chan EXCEPT ![c].open = FALSE],
           Hangup(c, msgs),
           \A d \in Conn : toSw[d]' \in {toSw[d], <<>>},
           Part(msgs, toCtl[c]),
           UNCHANGED <<last, activeSwitches, updates, gwSwitch, clearing>>
    PROVE  Inv'
<1>1. ASSUME NEW d \in Conn PROVE Closed(chan[d], chan[d]')
  <2>1. chan \in [Conn -> Channel]
    BY DEF Inv, TypeOK, ControllerTypeOK
  <2> QED
    BY <2>1 DEF Channel, Closed
<1>2. TypeOK
  BY DEF Inv
<1>3. \A d \in Conn : Loses(d)
  BY <1>1, <1>2, HangupLoses DEF Loses
<1> QED
  BY <1>3, LosesInv

(***************************************************************************)
(* What the thread of a channel does to the wire, and what it leaves of    *)
(* the other connections.                                                  *)
(***************************************************************************)
LEMMA WrittenTo ==
    ASSUME TypeOK, NEW c \in Conn, toSw[c] = <<>>, NEW msgs \in Seq(Request)
    PROVE  /\ Written(c, msgs)[c] \in {<<>>, msgs}
           /\ \A d \in Conn : d # c => Written(c, msgs)[d] = toSw[d]
<1>1. <<>> \o msgs = msgs
  OBVIOUS
<1> QED
  BY <1>1 DEF Written, TypeOK, WireTypeOK

LEMMA Elsewhere ==
    ASSUME Inv, NEW d \in Conn, UNCHANGED <<tcp[d], toSw[d], toCtl[d], chan[d], last>>
    PROVE  Unopened(d)' /\ Unused(d)' /\ OpenNotDone(d)' /\ Ordered(d)'
  BY DEF Inv, Fits, Unopened, Unused, OpenNotDone, Ordered

(***************************************************************************)
(* A step of the handshake of c that leaves it short of completion.        *)
(***************************************************************************)
LEMMA StepInv ==
    ASSUME Inv, TypeOK', NEW c \in Conn,
           \A d \in Conn : d # c =>
              UNCHANGED <<tcp[d], toSw[d], toCtl[d], chan[d]>>,
           ~chan[c]'.done, tcp[c]' \notin {"none", "connecting"},
           tcp[c] # "none",
           InOrder(chan[c]', toSw[c]', toCtl[c]'),
           chan[c].replacing = NoConn, chan[c]'.replacing = NoConn,
           ~Ready(c), ~Ready(c)',
           UNCHANGED <<last, activeSwitches, updates, gwSwitch, clearing>>
    PROVE  Inv'
<1>1. \A d \in Conn : d # c => Unopened(d)' /\ Unused(d)' /\ OpenNotDone(d)' /\ Ordered(d)'
  BY Elsewhere
<1>2. Unopened(c)' /\ Unused(c)' /\ OpenNotDone(c)' /\ Ordered(c)'
  BY DEF Inv, Fits, Unopened, Unused, OpenNotDone, Ordered
<1>3. NoConn \notin Conn
  BY DEF Conn, NoConn
<1>4. \A d \in Conn : Replaced(d)' = Replaced(d) /\ Ready(d)' = Ready(d)
  BY <1>3 DEF Replaced, Ready
<1>5. ASSUME NEW d \in Conn PROVE Listed(d)'
  <2>1. CASE d = c
    BY <2>1 DEF Listed
  <2>2. CASE d # c
    BY <1>4, <2>2 DEF Inv, Fits, Listed
  <2> QED
    BY <2>1, <2>2
<1>6. GwListed'
  <2>1. gwSwitch # NoConn => gwSwitch \in Conn
    BY DEF Inv, TypeOK, ControllerTypeOK
  <2> QED
    BY <1>4, <2>1 DEF Inv, GwListed, Ready, Replaced
<1> QED
  BY <1>1, <1>2, <1>5, <1>6 DEF Inv, Fits

LEMMA ConnectedInv ==
    ASSUME Inv, TypeOK', NEW c \in Conn, channelConnected(c), UNCHANGED clientVars
    PROVE  Inv'
<1> USE DEF Inv, TypeOK, WireTypeOK, ControllerTypeOK
<1>1. Unopened(c)
  BY DEF Fits
<1>2. chan[c].done /\ chan[c].replacing = NoConn /\ toCtl[c] = <<>>
  BY <1>1 DEF Unopened, channelConnected
<1>3. /\ tcp[c]' = "up" /\ toSw[c]' = <<"HELLO">> /\ toCtl[c]' = <<>>
      /\ chan[c]' = NewChannel
      /\ \A d \in Conn : d # c => UNCHANGED <<tcp[d], toSw[d], toCtl[d], chan[d]>>
  BY <1>2 DEF channelConnected
<1>4. InOrder(chan[c]', <<"HELLO">>, <<>>)
  BY <1>3 DEF NewChannel, InOrder, InStart, Once, OfTypes, Has
<1>5. ~chan[c]'.done /\ chan[c]'.replacing = NoConn /\ chan[c]'.hsState = "START"
  BY <1>3 DEF NewChannel
<1>6. ~Ready(c) /\ ~Ready(c)'
  BY <1>2, <1>5 DEF Ready
<1>7. UNCHANGED <<last, activeSwitches, updates, gwSwitch, clearing>> /\ tcp[c] = "connecting"
  BY DEF channelConnected, clientVars
<1>8. InOrder(chan[c]', toSw[c]', toCtl[c]')
  BY <1>3, <1>4
<1>9. tcp[c]' \notin {"none", "connecting"} /\ tcp[c] # "none"
  BY <1>3, <1>7
<1>10. Inv /\ TypeOK'
  OBVIOUS
<1> HIDE DEF Inv, TypeOK, WireTypeOK, ControllerTypeOK
<1> QED
  BY <1>2, <1>3, <1>5, <1>6, <1>7, <1>8, <1>9, <1>10, StepInv

(***************************************************************************)
(* Where the thread of c stands when it takes a message.                   *)
(***************************************************************************)
LEMMA HandlesIn ==
    ASSUME Inv, NEW c \in Conn, NEW type, Handles(c, type)
    PROVE  /\ toCtl[c] \in Seq(Answer) /\ toCtl[c] # <<>> /\ chan[c] \in Channel
           /\ ~chan[c].done /\ chan[c].replacing = NoConn
           /\ InOrder(chan[c], toSw[c], toCtl[c])
           /\ Head(toCtl[c]).type = type
           /\ tcp[c] \notin {"none", "connecting"}
<1>1. Unopened(c) /\ Ordered(c)
  BY DEF Inv, Fits
<1> QED
  BY <1>1 DEF Inv, TypeOK, WireTypeOK, ControllerTypeOK, Handles, Unopened, Ordered

LEMMA HelloInv ==
    ASSUME Inv, TypeOK', NEW c \in Conn, Hello(c), UNCHANGED clientVars
    PROVE  Inv'
<1>1. /\ toCtl[c] \in Seq(Answer) /\ toCtl[c] # <<>> /\ chan[c] \in Channel
      /\ ~chan[c].done /\ chan[c].replacing = NoConn
      /\ InOrder(chan[c], toSw[c], toCtl[c])
      /\ Head(toCtl[c]).type = "HELLO"
      /\ tcp[c] \notin {"none", "connecting"}
  BY HandlesIn DEF Hello
<1>2. /\ chan[c].hsState = "START"
      /\ toSw[c] = <<>>
      /\ \A dh, nrq :
           /\ dh.hsState = "HELLO"
           /\ ~dh.hasGetConfigReply /\ ~dh.hasDescription
           /\ nrq \in {<<>>, <<"FEATURES_REQUEST">>}
           => InOrder(dh, nrq, Tail(toCtl[c]))
  BY <1>1, HelloOrder
<1>3. Expected(c, Head(toCtl[c]))
  BY <1>1, <1>2, Zenon DEF Expected
<1>4. /\ chan' = [chan EXCEPT ![c].hsState = "HELLO"]
      /\ toSw' = Written(c, <<"FEATURES_REQUEST">>)
      /\ Taken(c)
      /\ UNCHANGED <<activeSwitches, gwSwitch, clearing>>
  BY <1>3 DEF Hello
<1>5. TypeOK /\ chan \in [Conn -> Channel] /\ toCtl \in [Conn -> Seq(Answer)]
  BY DEF Inv, TypeOK, WireTypeOK, ControllerTypeOK
<1>6. <<"FEATURES_REQUEST">> \in Seq(Request)
  BY DEF Request
<1>7. /\ toSw[c]' \in {<<>>, <<"FEATURES_REQUEST">>}
      /\ \A d \in Conn : d # c => toSw[d]' = toSw[d]
  BY <1>2, <1>4, <1>5, <1>6, WrittenTo
<1>8. /\ chan[c]'.hsState = "HELLO" /\ ~chan[c]'.done /\ chan[c]'.replacing = NoConn
      /\ chan[c]'.hasGetConfigReply = chan[c].hasGetConfigReply
      /\ chan[c]'.hasDescription = chan[c].hasDescription
      /\ \A d \in Conn : d # c => chan[d]' = chan[d]
  BY <1>1, <1>4, <1>5 DEF Channel
<1>9. /\ tcp' = tcp /\ updates' = updates /\ toCtl[c]' = Tail(toCtl[c])
      /\ \A d \in Conn : d # c => toCtl[d]' = toCtl[d]
  BY <1>4, <1>5 DEF Taken
<1>10. ~chan[c].hasGetConfigReply /\ ~chan[c].hasDescription
  BY <1>1, <1>2 DEF InOrder
<1>11. InOrder(chan[c]', toSw[c]', toCtl[c]')
  BY <1>2, <1>7, <1>8, <1>9, <1>10
<1>12. ~Ready(c) /\ ~Ready(c)'
  BY <1>2, <1>8 DEF Ready
<1>13. UNCHANGED <<last, activeSwitches, updates, gwSwitch, clearing>>
  BY <1>4, <1>9 DEF clientVars
<1>14. \A d \in Conn : d # c => UNCHANGED <<tcp[d], toSw[d], toCtl[d], chan[d]>>
  BY <1>7, <1>8, <1>9
<1>15. tcp[c]' \notin {"none", "connecting"} /\ tcp[c] # "none"
  BY <1>1, <1>9
<1> QED
  BY <1>1, <1>8, <1>11, <1>12, <1>13, <1>14, <1>15, StepInv

LEMMA FeaturesReplyInv ==
    ASSUME Inv, TypeOK', NEW c \in Conn, FeaturesReply(c), UNCHANGED clientVars
    PROVE  Inv'
<1> DEFINE msgs == <<"SET_CONFIG", "GET_CONFIG_REQUEST", "STATS_REQUEST">>
<1>1. /\ toCtl[c] \in Seq(Answer) /\ toCtl[c] # <<>> /\ chan[c] \in Channel
      /\ ~chan[c].done /\ chan[c].replacing = NoConn
      /\ InOrder(chan[c], toSw[c], toCtl[c])
      /\ Head(toCtl[c]).type = "FEATURES_REPLY"
      /\ tcp[c] \notin {"none", "connecting"}
  BY HandlesIn DEF FeaturesReply
<1>2. /\ chan[c].hsState = "HELLO"
      /\ toSw[c] = <<>>
      /\ \A dh, nrq :
           /\ dh.hsState = "FEATURES_REPLY"
           /\ ~dh.hasGetConfigReply /\ ~dh.hasDescription
           /\ nrq \in {<<>>, msgs}
           => InOrder(dh, nrq, Tail(toCtl[c]))
  BY <1>1, FeaturesReplyOrder
<1>3. TypeOK /\ chan \in [Conn -> Channel] /\ toCtl \in [Conn -> Seq(Answer)]
  BY DEF Inv, TypeOK, WireTypeOK, ControllerTypeOK
<1>4. toSw' = Written(c, msgs) /\ Taken(c) /\ UNCHANGED <<activeSwitches, gwSwitch, clearing>>
  BY <1>2 DEF FeaturesReply
<1>5. /\ chan[c]'.hsState = "FEATURES_REPLY" /\ ~chan[c]'.done
      /\ chan[c]'.replacing = NoConn
      /\ chan[c]'.hasGetConfigReply = chan[c].hasGetConfigReply
      /\ chan[c]'.hasDescription = chan[c].hasDescription
      /\ \A d \in Conn : d # c => chan[d]' = chan[d]
  <2> DEFINE chan1 == [chan EXCEPT ![c].id = Head(toCtl[c]).dpid]
             st == IF chan1[c].hsState = "HELLO" THEN "FEATURES_REPLY"
                                                 ELSE chan1[c].hsState
  <2>0. Head(toCtl[c]) \in Answer
    BY <1>1, HeadTail
  <2>1. Head(toCtl[c]).dpid \in Dpid
    BY <2>0 DEF Answer
  <2>2. chan1 \in [Conn -> Channel]
    BY <1>3, <2>1 DEF Channel
  <2>3. /\ chan1[c].hsState = "HELLO" /\ ~chan1[c].done /\ chan1[c].replacing = NoConn
        /\ chan1[c].hasGetConfigReply = chan[c].hasGetConfigReply
        /\ chan1[c].hasDescription = chan[c].hasDescription
        /\ \A d \in Conn : d # c => chan1[d] = chan[d]
    BY <1>1, <1>2, <1>3 DEF Channel
  <2>4. chan' = [chan1 EXCEPT ![c].hsState = st]
    BY DEF FeaturesReply
  <2> HIDE DEF chan1
  <2>5. st = "FEATURES_REPLY"
    BY <2>3
  <2> HIDE DEF st
  <2> QED
    BY <2>2, <2>3, <2>4, <2>5 DEF Channel
<1>6. msgs \in Seq(Request)
  BY DEF Request
<1>7. /\ toSw[c]' \in {<<>>, msgs}
      /\ \A d \in Conn : d # c => toSw[d]' = toSw[d]
  BY <1>2, <1>3, <1>4, <1>6, WrittenTo
<1>8. /\ tcp' = tcp /\ updates' = updates /\ toCtl[c]' = Tail(toCtl[c])
      /\ \A d \in Conn : d # c => toCtl[d]' = toCtl[d]
  BY <1>3, <1>4 DEF Taken
<1>9. ~chan[c].hasGetConfigReply /\ ~chan[c].hasDescription
  BY <1>1, <1>2 DEF InOrder
<1>10. InOrder(chan[c]', toSw[c]', toCtl[c]')
  BY <1>2, <1>5, <1>7, <1>8, <1>9
<1>11. ~Ready(c) /\ ~Ready(c)'
  BY <1>2, <1>5 DEF Ready
<1>12. UNCHANGED <<last, activeSwitches, updates, gwSwitch, clearing>>
  BY <1>4, <1>8 DEF clientVars
<1>13. \A d \in Conn : d # c => UNCHANGED <<tcp[d], toSw[d], toCtl[d], chan[d]>>
  BY <1>5, <1>7, <1>8
<1>14. tcp[c]' \notin {"none", "connecting"} /\ tcp[c] # "none"
  BY <1>1, <1>8
<1> QED
  BY <1>1, <1>5, <1>10, <1>11, <1>12, <1>13, <1>14, StepInv

(***************************************************************************)
(* checkSwitchReady, after either of the two replies.  When it completes   *)
(* the handshake, the connection that was in the list is replaced.         *)
(***************************************************************************)
LEMMA CheckSwitchReadyInv ==
    ASSUME Inv, TypeOK', NEW c \in Conn, NEW ch \in Channel,
           checkSwitchReady(c, ch), Taken(c), UNCHANGED clientVars,
           toCtl[c] # <<>>, ~chan[c].done, chan[c].replacing = NoConn,
           tcp[c] \notin {"none", "connecting"},
           chan[c].hsState = "FEATURES_REPLY",
           ch.hsState = "FEATURES_REPLY", ~ch.done, ch.replacing = NoConn,
           InOrder(ch, toSw[c], Tail(toCtl[c])),
           Complete(ch) =>
              /\ toSw[c] = <<>>
              /\ \A dh, nrq : dh.hsState = "READY" /\ nrq \in {<<>>, <<"FLOW_MOD">>} =>
                    InOrder(dh, nrq, Tail(toCtl[c]))
    PROVE  Inv'
<1>1. /\ TypeOK /\ chan \in [Conn -> Channel] /\ toCtl \in [Conn -> Seq(Answer)]
      /\ activeSwitches \in [Dpid -> Conn \cup {NoConn}] /\ ch.id \in Dpid
  BY DEF Inv, TypeOK, WireTypeOK, ControllerTypeOK, Channel
<1>2. /\ tcp' = tcp /\ updates' = updates /\ toCtl[c]' = Tail(toCtl[c])
      /\ \A d \in Conn : d # c => toCtl[d]' = toCtl[d]
      /\ UNCHANGED <<gwSwitch, clearing, last>>
  BY <1>1 DEF Taken, clientVars, checkSwitchReady
<1>3. tcp[c]' \notin {"none", "connecting"} /\ tcp[c] # "none"
  BY <1>2
<1>4. NoConn \notin Conn
  BY DEF Conn, NoConn
<1>5. CASE ~Complete(ch)
  <2>1. /\ toSw' = toSw /\ activeSwitches' = activeSwitches
        /\ chan' = [chan EXCEPT ![c] = ch]
    BY <1>5 DEF checkSwitchReady
  <2>2. chan[c]' = ch /\ \A d \in Conn : d # c => chan[d]' = chan[d]
    BY <1>1, <2>1
  <2>3. ~Ready(c) /\ ~Ready(c)'
    BY <2>2 DEF Ready
  <2>4. InOrder(chan[c]', toSw[c]', toCtl[c]')
    BY <1>2, <2>1, <2>2
  <2>5. \A d \in Conn : d # c => UNCHANGED <<tcp[d], toSw[d], toCtl[d], chan[d]>>
    BY <1>2, <2>1, <2>2
  <2>6. ~chan[c]'.done /\ chan[c]'.replacing = NoConn
    BY <2>2
  <2>7. UNCHANGED <<last, activeSwitches, updates, gwSwitch, clearing>>
    BY <1>2, <2>1
  <2> QED
    BY <1>3, <2>3, <2>4, <2>5, <2>6, <2>7, StepInv
<1>6. CASE Complete(ch)
  <2> DEFINE old == activeSwitches[ch.id]
             re == IF old = c THEN NoConn ELSE old
             new == [ch EXCEPT !.hsState = "READY", !.replacing = re]
  <2>1. /\ toSw' = Written(c, <<"FLOW_MOD">>)
        /\ activeSwitches' = [activeSwitches EXCEPT ![ch.id] = c]
        /\ chan' = [chan EXCEPT ![c] = new]
    BY <1>6 DEF checkSwitchReady
  <2> HIDE DEF re
  <2>2. /\ new.hsState = "READY" /\ ~new.done /\ new.replacing = re /\ new.id = ch.id
        /\ new.connected = ch.connected
    BY DEF Channel
  <2> HIDE DEF new
  <2>3. chan[c]' = new /\ \A d \in Conn : d # c => chan[d]' = chan[d]
    BY <1>1, <2>1
  <2>4. <<"FLOW_MOD">> \in Seq(Request)
    BY DEF Request
  <2>5. /\ toSw[c]' \in {<<>>, <<"FLOW_MOD">>}
        /\ \A d \in Conn : d # c => toSw[d]' = toSw[d]
    BY <1>1, <1>6, <2>1, <2>4, WrittenTo
  <2>6. InOrder(chan[c]', toSw[c]', toCtl[c]')
    BY <1>2, <1>6, <2>2, <2>3, <2>5
  <2>7. \A d \in Conn : d # c => UNCHANGED <<tcp[d], toSw[d], toCtl[d], chan[d], last>>
    BY <1>2, <2>3, <2>5
  <2>8. \A d \in Conn : d # c => Unopened(d)' /\ Unused(d)' /\ OpenNotDone(d)' /\ Ordered(d)'
    BY <2>7, Elsewhere
  <2>9. Unopened(c)' /\ Unused(c)' /\ OpenNotDone(c)' /\ Ordered(c)'
    BY <1>2, <1>3, <2>2, <2>3, <2>6
    DEF Inv, Fits, Unopened, Unused, OpenNotDone, Ordered
  <2>10. \A d \in Conn : Replaced(d) => Replaced(d)'
    BY <1>4, <2>3 DEF Replaced
  <2>11. Listed(c)'
    <3>1. activeSwitches'[chan[c]'.id] = c
      BY <1>1, <2>1, <2>2, <2>3
    <3> QED
      BY <3>1 DEF Listed
  <2>12. ASSUME NEW d \in Conn, d # c PROVE Listed(d)'
    <3>1. Listed(d) /\ Ready(d)' = Ready(d) /\ chan[d].id \in Dpid /\ chan[d]' = chan[d]
      BY <1>1, <2>3, <2>12 DEF Inv, Fits, Ready, Channel
    <3>2. CASE activeSwitches[chan[d].id] = d /\ chan[d].id = ch.id
      <4>1. chan[c]'.replacing = d
        BY <2>2, <2>3, <2>12, <3>2 DEF re
      <4> QED
        BY <4>1 DEF Listed, Replaced
    <3>3. CASE activeSwitches[chan[d].id] = d /\ chan[d].id # ch.id
      BY <1>1, <2>1, <3>1, <3>3 DEF Listed
    <3>4. CASE activeSwitches[chan[d].id] # d
      BY <2>10, <3>1, <3>4 DEF Listed
    <3> QED
      BY <3>2, <3>3, <3>4
  <2>13. GwListed'
    <3>1. gwSwitch # NoConn => gwSwitch \in Conn
      BY DEF Inv, TypeOK, ControllerTypeOK
    <3>2. \A d \in Conn : Ready(d) => Ready(d)'
      BY <2>3 DEF Ready
    <3> QED
      BY <1>2, <2>10, <3>1, <3>2 DEF Inv, GwListed
  <2> QED
    BY <2>8, <2>9, <2>11, <2>12, <2>13 DEF Inv, Fits
<1> QED
  BY <1>5, <1>6

LEMMA GetConfigReplyInv ==
    ASSUME Inv, TypeOK', NEW c \in Conn, GetConfigReply(c), UNCHANGED clientVars
    PROVE  Inv'
<1> DEFINE ch == [chan[c] EXCEPT !.hasGetConfigReply = TRUE]
<1>1. /\ toCtl[c] \in Seq(Answer) /\ toCtl[c] # <<>> /\ chan[c] \in Channel
      /\ ~chan[c].done /\ chan[c].replacing = NoConn
      /\ InOrder(chan[c], toSw[c], toCtl[c])
      /\ Head(toCtl[c]).type = "GET_CONFIG_REPLY"
      /\ tcp[c] \notin {"none", "connecting"}
  BY HandlesIn DEF GetConfigReply
<1>2. /\ chan[c].hsState = "FEATURES_REPLY"
      /\ \A dh : /\ dh.hsState = "FEATURES_REPLY"
                 /\ dh.hasDescription = chan[c].hasDescription
                 => InOrder(dh, toSw[c], Tail(toCtl[c]))
      /\ chan[c].hasDescription =>
           /\ toSw[c] = <<>>
           /\ \A dh, nrq : dh.hsState = "READY" /\ nrq \in {<<>>, <<"FLOW_MOD">>} =>
                 InOrder(dh, nrq, Tail(toCtl[c]))
  BY <1>1, GetConfigReplyOrder
<1>3. Expected(c, Head(toCtl[c]))
  BY <1>1, <1>2, Zenon DEF Expected
<1>4. checkSwitchReady(c, ch) /\ Taken(c)
  BY <1>3 DEF GetConfigReply
<1>5. /\ ch \in Channel /\ ch.hsState = "FEATURES_REPLY" /\ ~ch.done
      /\ ch.replacing = NoConn
      /\ ch.hasDescription = chan[c].hasDescription
  BY <1>1, <1>2 DEF Channel
<1> HIDE DEF ch
<1>6. InOrder(ch, toSw[c], Tail(toCtl[c]))
  BY <1>2, <1>5
<1>7. Complete(ch) =>
         /\ toSw[c] = <<>>
         /\ \A dh, nrq : dh.hsState = "READY" /\ nrq \in {<<>>, <<"FLOW_MOD">>} =>
               InOrder(dh, nrq, Tail(toCtl[c]))
  BY <1>2, <1>5 DEF Complete
<1> QED
  BY <1>1, <1>2, <1>4, <1>5, <1>6, <1>7, CheckSwitchReadyInv

LEMMA StatsReplyInv ==
    ASSUME Inv, TypeOK', NEW c \in Conn, StatsReply(c), UNCHANGED clientVars
    PROVE  Inv'
<1> DEFINE ch == [chan[c] EXCEPT !.hasDescription = TRUE]
<1>1. /\ toCtl[c] \in Seq(Answer) /\ toCtl[c] # <<>> /\ chan[c] \in Channel
      /\ ~chan[c].done /\ chan[c].replacing = NoConn
      /\ InOrder(chan[c], toSw[c], toCtl[c])
      /\ Head(toCtl[c]).type = "STATS_REPLY"
      /\ tcp[c] \notin {"none", "connecting"}
  BY HandlesIn DEF StatsReply
<1>2. /\ chan[c].hsState = "FEATURES_REPLY"
      /\ \A dh : /\ dh.hsState = "FEATURES_REPLY"
                 /\ dh.hasGetConfigReply = chan[c].hasGetConfigReply
                 => InOrder(dh, toSw[c], Tail(toCtl[c]))
      /\ chan[c].hasGetConfigReply =>
           /\ toSw[c] = <<>>
           /\ \A dh, nrq : dh.hsState = "READY" /\ nrq \in {<<>>, <<"FLOW_MOD">>} =>
                 InOrder(dh, nrq, Tail(toCtl[c]))
  BY <1>1, StatsReplyOrder
<1>3. Expected(c, Head(toCtl[c]))
  BY <1>1, <1>2, Zenon DEF Expected
<1>4. checkSwitchReady(c, ch) /\ Taken(c)
  BY <1>3 DEF StatsReply
<1>5. /\ ch \in Channel /\ ch.hsState = "FEATURES_REPLY" /\ ~ch.done
      /\ ch.replacing = NoConn
      /\ ch.hasGetConfigReply = chan[c].hasGetConfigReply
  BY <1>1, <1>2 DEF Channel
<1> HIDE DEF ch
<1>6. InOrder(ch, toSw[c], Tail(toCtl[c]))
  BY <1>2, <1>5
<1>7. Complete(ch) =>
         /\ toSw[c] = <<>>
         /\ \A dh, nrq : dh.hsState = "READY" /\ nrq \in {<<>>, <<"FLOW_MOD">>} =>
               InOrder(dh, nrq, Tail(toCtl[c]))
  BY <1>2, <1>5 DEF Complete
<1> QED
  BY <1>1, <1>2, <1>4, <1>5, <1>6, <1>7, CheckSwitchReadyInv

(***************************************************************************)
(* Messages for the application: gwSwitch becomes a connection that is     *)
(* ready.                                                                  *)
(***************************************************************************)
LEMMA VendorInv ==
    ASSUME Inv, TypeOK', NEW c \in Conn, Vendor(c), UNCHANGED clientVars
    PROVE  Inv'
<1>1. /\ toCtl[c] \in Seq(Answer) /\ toCtl[c] # <<>> /\ ~chan[c].done
      /\ InOrder(chan[c], toSw[c], toCtl[c])
      /\ tcp[c] \notin {"none", "connecting"}
  BY HandlesIn DEF Vendor
<1>2. UNCHANGED <<last, tcp, toSw, chan, activeSwitches, updates, clearing>>
  BY DEF Vendor, Taken, clientVars
<1>3. toCtl \in [Conn -> Seq(Answer)]
  BY DEF Inv, TypeOK, WireTypeOK
<1>4. /\ toCtl[c]' = Tail(toCtl[c])
      /\ \A d \in Conn : d # c => toCtl[d]' = toCtl[d]
  BY <1>3 DEF Vendor, Taken
<1>5. InOrder(chan[c], toSw[c], Tail(toCtl[c]))
  BY <1>1, TakenOrder
<1>6. ASSUME NEW d \in Conn PROVE Fits(d)'
  <2>1. Fits(d)
    BY DEF Inv
  <2>2. Listed(d)'
    BY <1>2, <2>1 DEF Fits, Listed, Ready, Replaced
  <2>3. CASE d # c
    BY <1>2, <1>4, <2>2, <2>3, Elsewhere DEF Fits
  <2>4. CASE d = c
    BY <1>1, <1>2, <1>4, <1>5, <2>1, <2>2, <2>4
    DEF Fits, Unopened, Unused, OpenNotDone, Ordered
  <2> QED
    BY <2>3, <2>4
<1>7. GwListed'
  <2>1. gwSwitch' = gwSwitch \/ (gwSwitch' = c /\ Passes(c))
    BY DEF Vendor
  <2>2. CASE gwSwitch' = gwSwitch
    BY <1>2, <2>2 DEF Inv, GwListed, Ready, Replaced
  <2>3. CASE gwSwitch' = c /\ Passes(c)
    BY <1>1, <1>2, <2>3 DEF GwListed, Ready, Passes
  <2> QED
    BY <2>1, <2>2, <2>3
<1> QED
  BY <1>6, <1>7 DEF Inv

(***************************************************************************)
(* The end of addSwitch: only the old connection is taken out of use, when *)
(* gwSwitch is not, or no more, this one.                                  *)
(***************************************************************************)
LEMMA CloseOldInv ==
    ASSUME Inv, TypeOK', NEW c \in Conn, CloseOld(c),
           \/ gwSwitch' = NoConn
           \/ gwSwitch # chan[c].replacing /\ UNCHANGED <<gwSwitch, clearing>>,
           UNCHANGED <<toSw, activeSwitches, updates, last>>
    PROVE  Inv'
<1> DEFINE old == chan[c].replacing
<1>1. /\ TypeOK /\ chan \in [Conn -> Channel] /\ toCtl \in [Conn -> Seq(Answer)]
      /\ gwSwitch # NoConn => gwSwitch \in Conn
  BY DEF Inv, TypeOK, WireTypeOK, ControllerTypeOK
<1>2. old \in Conn
  BY <1>1 DEF CloseOld, Channel
<1>3. /\ Hangup(old, toCtl[old])
      /\ UNCHANGED <<toSw, activeSwitches, updates, last>>
      /\ gwSwitch' # NoConn => gwSwitch # old /\ UNCHANGED <<gwSwitch, clearing>>
  BY DEF CloseOld
<1>4. toCtl[old] \in Seq(Answer) /\ Part(toCtl[old], toCtl[old])
  BY <1>1, <1>2, PartItself
<1>5. \A d \in Conn : /\ Part(toCtl[d]', toCtl[d])
                      /\ tcp[d]' = tcp[d] \/ tcp[d]' \notin {"none", "connecting"}
                      /\ tcp[d] = "none" => tcp[d]' = "none"
  BY <1>1, <1>2, <1>3, <1>4, HangupLoses
<1>6. ASSUME NEW d \in Conn
      PROVE  /\ chan[d]'.open => chan[d].open
             /\ chan[d]'.done = chan[d].done
             /\ chan[d]'.hsState = chan[d].hsState
             /\ chan[d]'.hasDescription = chan[d].hasDescription
             /\ chan[d]'.hasGetConfigReply = chan[d].hasGetConfigReply
             /\ chan[d]'.id = chan[d].id
             /\ chan[d]'.replacing = IF d = c THEN NoConn ELSE chan[d].replacing
             /\ chan[d]'.connected = IF d = old THEN FALSE ELSE chan[d].connected
  <2>1. chan' = [chan EXCEPT ![c].replacing = NoConn,
                             ![old].connected = FALSE,
                             ![old].open = FALSE]
    BY DEF CloseOld
  <2> HIDE DEF old
  <2> DEFINE chan1 == [chan EXCEPT ![c].replacing = NoConn]
             chan2 == [chan1 EXCEPT ![old].connected = FALSE]
             chan3 == [chan2 EXCEPT ![old].open = FALSE]
  <2>2. /\ chan1 \in [Conn -> Channel]
        /\ chan1[d].open = chan[d].open
        /\ chan1[d].done = chan[d].done
        /\ chan1[d].hsState = chan[d].hsState
        /\ chan1[d].hasDescription = chan[d].hasDescription
        /\ chan1[d].hasGetConfigReply = chan[d].hasGetConfigReply
        /\ chan1[d].id = chan[d].id
        /\ chan1[d].replacing = IF d = c THEN NoConn ELSE chan[d].replacing
        /\ chan1[d].connected = chan[d].connected
    BY <1>1 DEF Channel
  <2>3. /\ chan2 \in [Conn -> Channel]
        /\ chan2[d].open = chan1[d].open
        /\ chan2[d].done = chan1[d].done
        /\ chan2[d].hsState = chan1[d].hsState
        /\ chan2[d].hasDescription = chan1[d].hasDescription
        /\ chan2[d].hasGetConfigReply = chan1[d].hasGetConfigReply
        /\ chan2[d].id = chan1[d].id
        /\ chan2[d].replacing = chan1[d].replacing
        /\ chan2[d].connected = IF d = old THEN FALSE ELSE chan1[d].connected
    <3> HIDE DEF chan1
    <3> QED
      BY ZenonT(30), <1>2, <2>2 DEF Channel
  <2>4. /\ chan3[d].open => chan2[d].open
        /\ chan3[d].done = chan2[d].done
        /\ chan3[d].hsState = chan2[d].hsState
        /\ chan3[d].hasDescription = chan2[d].hasDescription
        /\ chan3[d].hasGetConfigReply = chan2[d].hasGetConfigReply
        /\ chan3[d].id = chan2[d].id
        /\ chan3[d].replacing = chan2[d].replacing
        /\ chan3[d].connected = chan2[d].connected
    <3> HIDE DEF chan2
    <3> QED
      BY <1>2, <2>3 DEF Channel
  <2>5. chan' = chan3
    BY <2>1
  <2> HIDE DEF chan1, chan2, chan3
  <2> QED
    BY <2>2, <2>3, <2>4, <2>5
<1>7. NoConn \notin Conn
  BY DEF Conn, NoConn
<1>8. \A d \in Conn : d # old /\ Replaced(d) => Replaced(d)'
  BY <1>6 DEF Replaced
<1>9. \A d \in Conn : Ready(d)' <=> d # old /\ Ready(d)
  BY <1>6 DEF Ready
<1> HIDE DEF old
<1>10. ASSUME NEW d \in Conn PROVE Fits(d)'
  <2>1. Unopened(d) /\ Unused(d) /\ OpenNotDone(d) /\ Ordered(d) /\ Listed(d)
    BY DEF Inv, Fits
  <2>2. toCtl[d] \in Seq(Answer) /\ toCtl[d]' \in Seq(Answer)
    BY <1>1 DEF TypeOK, WireTypeOK
  <2>3. toCtl[d] = <<>> => toCtl[d]' = <<>>
    BY <1>5, <2>2 DEF Part
  <2>4. Unopened(d)' /\ Unused(d)' /\ OpenNotDone(d)'
    BY <1>3, <1>5, <1>6, <2>1, <2>3 DEF Unopened, Unused, OpenNotDone
  <2>5. Ordered(d)'
    <3> SUFFICES ASSUME ~chan[d].done PROVE InOrder(chan[d]', toSw[d], toCtl[d]')
      BY <1>3, <1>6 DEF Ordered
    <3>1. InOrder(chan[d], toSw[d], toCtl[d]')
      BY <1>5, <2>1, <2>2, PartOrder DEF Ordered
    <3> QED
      BY <1>6, <3>1, SameOrder
  <2>6. Listed(d)'
    BY <1>3, <1>6, <1>8, <1>9, <2>1 DEF Listed
  <2> QED
    BY <2>4, <2>5, <2>6 DEF Fits
<1>11. GwListed'
  <2> SUFFICES ASSUME gwSwitch' # NoConn PROVE GwListed'
    BY DEF GwListed
  <2>1. /\ gwSwitch' = gwSwitch /\ gwSwitch # old /\ gwSwitch \in Conn
        /\ clearing' = clearing
    BY <1>1, <1>3
  <2> QED
    BY <1>3, <1>8, <1>9, <2>1 DEF Inv, GwListed
<1> QED
  BY <1>10, <1>11 DEF Inv

(***************************************************************************)
(* addSwitch finds that the connection it replaces is gwSwitch.            *)
(***************************************************************************)
LEMMA AddSwitchInv ==
    ASSUME Inv, TypeOK', NEW c \in Conn, addSwitch(c), UNCHANGED clientVars
    PROVE  Inv'
<1> DEFINE old == chan[c].replacing
<1>1. chan \in [Conn -> Channel] /\ last' = last
  BY DEF Inv, TypeOK, ControllerTypeOK, clientVars
<1>2. old \in Conn
  BY <1>1 DEF addSwitch, Channel
<1>3. CASE gwSwitch # old
  <2>1. /\ CloseOld(c)
        /\ UNCHANGED <<toSw, activeSwitches, updates, gwSwitch, clearing>>
    BY <1>3 DEF addSwitch, removedSwitch
  <2> QED
    BY <1>1, <1>3, <2>1, CloseOldInv
<1>4. CASE gwSwitch = old
  <2>1. /\ chan' = [chan EXCEPT ![old].connected = FALSE]
        /\ UNCHANGED <<tcp, toSw, toCtl, activeSwitches, last>>
        /\ clearing' # {}
    BY <1>1, <1>4 DEF addSwitch, removedSwitch
  <2> HIDE DEF old
  <2>2. ASSUME NEW d \in Conn
        PROVE  /\ chan[d]'.open = chan[d].open
               /\ chan[d]'.done = chan[d].done
               /\ chan[d]'.hsState = chan[d].hsState
               /\ chan[d]'.hasDescription = chan[d].hasDescription
               /\ chan[d]'.hasGetConfigReply = chan[d].hasGetConfigReply
               /\ chan[d]'.id = chan[d].id
               /\ chan[d]'.replacing = chan[d].replacing
               /\ chan[d]'.connected => chan[d].connected
    BY <1>1, <1>2, <2>1 DEF Channel
  <2>3. \A d \in Conn : /\ Replaced(d)' = Replaced(d)
                        /\ Ready(d)' => Ready(d)
    BY <2>2 DEF Replaced, Ready
  <2>4. ASSUME NEW d \in Conn PROVE Fits(d)'
    <3>1. Unopened(d) /\ Unused(d) /\ OpenNotDone(d) /\ Ordered(d) /\ Listed(d)
      BY DEF Inv, Fits
    <3>2. Unopened(d)' /\ Unused(d)' /\ OpenNotDone(d)' /\ Listed(d)'
      BY <2>1, <2>2, <2>3, <3>1 DEF Unopened, Unused, OpenNotDone, Listed
    <3>3. Ordered(d)'
      BY <2>1, <2>2, <3>1, SameOrder DEF Ordered
    <3> QED
      BY <3>2, <3>3 DEF Fits
  <2> QED
    BY <2>1, <2>4 DEF Inv, GwListed
<1> QED
  BY <1>3, <1>4

(***************************************************************************)
(* channelDisconnected: a connection that is ready leaves the list itself, *)
(* and its removal is queued; one that has been replaced leaves that to    *)
(* the thread of the connection in its place.  No other one is taken out.  *)
(***************************************************************************)
LEMMA DisconnectedInv ==
    ASSUME Inv, TypeOK', NEW c \in Conn, channelDisconnected(c), UNCHANGED clientVars
    PROVE  Inv'
<1> DEFINE new == [NoChannel EXCEPT !.replacing = chan[c].replacing]
           out == chan[c].hsState = "READY" /\ activeSwitches[chan[c].id] = c
<1>1. /\ chan \in [Conn -> Channel] /\ updates \in Seq(Conn)
      /\ activeSwitches \in [Dpid -> Conn \cup {NoConn}]
      /\ gwSwitch # NoConn => gwSwitch \in Conn
  BY DEF Inv, TypeOK, ControllerTypeOK
<1>2. /\ ~chan[c].open /\ ~chan[c].done
      /\ chan' = [chan EXCEPT ![c] = new]
      /\ activeSwitches' = IF out THEN [activeSwitches EXCEPT ![chan[c].id] = NoConn]
                                  ELSE activeSwitches
      /\ updates' = IF out /\ chan[c].connected THEN Append(updates, c) ELSE updates
      /\ UNCHANGED <<tcp, toSw, toCtl, gwSwitch, clearing, last>>
  BY DEF channelDisconnected, wireVars, clientVars
<1>3. new.done /\ ~new.open /\ new.replacing = chan[c].replacing
  BY DEF NoChannel
<1> HIDE DEF new
<1>4. chan[c]' = new /\ \A d \in Conn : d # c => chan[d]' = chan[d]
  BY <1>1, <1>2
<1>5. \A d \in Conn : Replaced(d) => Replaced(d)'
  BY <1>3, <1>4 DEF Replaced
<1>6. Fits(c)'
  BY <1>2, <1>3, <1>4
  DEF Inv, Fits, Unopened, Unused, OpenNotDone, Ordered, Listed, Ready
<1>7. ASSUME NEW d \in Conn, d # c PROVE Fits(d)'
  <2>1. Listed(d) /\ chan[d]' = chan[d] /\ chan[d].id \in Dpid /\ chan[c].id \in Dpid
    BY <1>1, <1>4, <1>7 DEF Inv, Fits, Channel
  <2>2. activeSwitches[chan[d].id] = d => activeSwitches'[chan[d].id] = d
    BY <1>1, <1>2, <1>7, <2>1
  <2>3. Listed(d)'
    BY <1>5, <2>1, <2>2 DEF Listed, Ready
  <2> QED
    BY <1>2, <1>7, <2>1, <2>3, Elsewhere DEF Fits
<1>8. GwListed'
  <2> SUFFICES ASSUME gwSwitch # NoConn
               PROVE  \/ Ready(gwSwitch)'
                      \/ \E i \in 1 .. Len(updates') : updates'[i] = gwSwitch
                      \/ Replaced(gwSwitch)'
                      \/ clearing # {}
    BY <1>2 DEF GwListed, Ready, Replaced
  <2>1. gwSwitch \in Conn
    BY <1>1
  <2>2. /\ Len(Append(updates, c)) = Len(updates) + 1 /\ Len(updates) \in Nat
        /\ \A i \in 1 .. Len(updates) : Append(updates, c)[i] = updates[i]
        /\ Append(updates, c)[Len(updates) + 1] = c
    BY <1>1
  <2>3. CASE Replaced(gwSwitch)
    BY <1>2, <1>5, <2>1, <2>3 DEF Replaced
  <2>4. CASE \E i \in 1 .. Len(updates) : updates[i] = gwSwitch
    <3>1. PICK i \in 1 .. Len(updates) : updates[i] = gwSwitch
      BY <2>4
    <3>2. i \in 1 .. Len(updates') /\ updates'[i] = gwSwitch
      BY <1>2, <2>2, <3>1
    <3> QED
      BY <3>2
  <2>5. CASE Ready(gwSwitch) /\ gwSwitch # c
    BY <1>2, <1>4, <2>1, <2>5 DEF Ready
  <2>6. CASE Ready(gwSwitch) /\ gwSwitch = c /\ ~Replaced(c)
    <3>1. out /\ chan[c].connected
      BY <2>6 DEF Inv, Fits, Listed, Ready
    <3>2. Len(updates) + 1 \in 1 .. Len(updates') /\ updates'[Len(updates) + 1] = gwSwitch
      BY <1>2, <2>2, <2>6, <3>1
    <3> QED
      BY <3>2
  <2> QED
    BY <2>3, <2>4, <2>5, <2>6 DEF Inv, GwListed
<1> QED
  BY <1>6, <1>7, <1>8 DEF Inv

(***************************************************************************)
(* A step of the controller keeps the invariant.                           *)
(***************************************************************************)
LEMMA ServerInv == ASSUME Inv, NEW c \in Conn, Server(c) PROVE Inv'
<1>1. TypeOK' /\ UNCHANGED clientVars /\ last' = last
  BY ServerType DEF Inv, Server, clientVars
<1>2. /\ toCtl[c] \in Seq(Answer) /\ <<>> \in Seq(Answer)
      /\ Part(toCtl[c], toCtl[c]) /\ Part(<<>>, toCtl[c])
      /\ toSw \in [Conn -> Seq(Request)]
  BY PartItself DEF Inv, TypeOK, WireTypeOK
<1>3. ASSUME processOFMessage(c) PROVE Inv'
  BY <1>1, <1>3, HelloInv, FeaturesReplyInv, GetConfigReplyInv, StatsReplyInv, VendorInv
  DEF processOFMessage
<1>4. ASSUME NEW msgs \in {<<>>, toCtl[c]}, Close(c, msgs) PROVE Inv'
  <2>1. /\ chan' = [chan EXCEPT ![c].open = FALSE]
        /\ Hangup(c, msgs)
        /\ UNCHANGED <<toSw, activeSwitches, updates, gwSwitch, clearing>>
    BY <1>4 DEF Close
  <2>2. \A d \in Conn : toSw[d]' \in {toSw[d], <<>>}
    BY <2>1
  <2>3. msgs \in Seq(Answer) /\ Part(msgs, toCtl[c])
    BY <1>2, <1>4
  <2> QED
    BY <1>1, <2>1, <2>2, <2>3, CloseInv
<1>5. ASSUME Reset(c) PROVE Inv'
  <2>1. /\ chan' = [chan EXCEPT ![c].open = FALSE]
        /\ Hangup(c, <<>>)
        /\ toSw' = [toSw EXCEPT ![c] = <<>>]
        /\ UNCHANGED <<activeSwitches, updates, gwSwitch, clearing>>
    BY <1>5 DEF Reset
  <2>2. \A d \in Conn : toSw[d]' \in {toSw[d], <<>>}
    BY <1>2, <2>1
  <2> QED
    BY <1>1, <1>2, <2>1, <2>2, CloseInv
<1>6. ASSUME addSwitchEnd(c) PROVE Inv'
  BY <1>1, <1>6, CloseOldInv DEF addSwitchEnd, ClearGwSwitch
<1> QED
  BY <1>1, <1>3, <1>4, <1>5, <1>6, ConnectedInv, AddSwitchInv, DisconnectedInv
  DEF Server, RemoteClosed, ReadTimeout, HandshakeTimeout

LEMMA InvStep == Inv /\ [Next]_vars => Inv'
<1> SUFFICES ASSUME Inv, [Next]_vars PROVE Inv'
  OBVIOUS
<1>1. CASE UNCHANGED vars
  <2>1. TypeOK'
    BY TypeStep DEF Inv
  <2>2. UNCHANGED <<last, tcp, toSw, toCtl, chan, activeSwitches, updates, gwSwitch, clearing>>
    BY <1>1 DEF vars, wireVars, clientVars, ctrlVars
  <2>3. \A c \in Conn : Loses(c)
    BY <2>2, LosesNothing
  <2> QED
    BY <2>1, <2>2, <2>3, LosesInv
<1> QED
  BY <1>1, ClientInv, DispatchInv, ServerInv, NetworkInv DEF Next

LEMMA Invariance == Spec => []Inv
  BY InvInit, InvStep, PTL DEF Spec

(***************************************************************************)
(* A message that is in order is expected.                                 *)
(***************************************************************************)
LEMMA InOrderExpected ==
    ASSUME NEW c \in Conn, chan[c] \in Channel, NEW rq, NEW aq \in Seq(Answer),
           aq # <<>>, InOrder(chan[c], rq, aq)
    PROVE  /\ Expected(c, Head(aq))
           /\ Head(aq).type = "GW_CONNECT" => chan[c].hsState = "READY"
<1> DEFINE m == Head(aq)
<1>1. \A types : OfTypes(aq, types) => m.type \in types
  BY First
<1> HIDE DEF m
<1>2. /\ m.type = "HELLO" => chan[c].hsState = "START"
      /\ m.type = "GET_CONFIG_REPLY" => chan[c].hsState = "FEATURES_REPLY"
      /\ m.type = "STATS_REPLY" => chan[c].hsState = "FEATURES_REPLY"
      /\ m.type = "GW_CONNECT" => chan[c].hsState = "READY"
  BY <1>1 DEF InOrder, InStart, InHello, InFeaturesReply, InReady, Channel,
              HandshakeState
<1>3. Expected(c, m)
  BY <1>2, Zenon DEF Expected
<1> QED
  BY <1>2, <1>3 DEF m

(***************************************************************************)
(* processOFMessage never meets a message that closes the channel, and     *)
(* never drops the message by which the gateway makes itself known, on any *)
(* of the connections.                                                     *)
(***************************************************************************)
THEOREM HandshakeInOrder == Spec => []NothingUnexpected
<1>1. Inv => NothingUnexpected
  <2> SUFFICES ASSUME Inv, NEW c \in Conn, ~chan[c].done, toCtl[c] # <<>>
               PROVE  /\ Expected(c, Head(toCtl[c]))
                      /\ Head(toCtl[c]).type = "GW_CONNECT" => chan[c].hsState = "READY"
    BY DEF NothingUnexpected
  <2>1. /\ chan[c] \in Channel /\ toCtl[c] \in Seq(Answer)
        /\ InOrder(chan[c], toSw[c], toCtl[c])
    BY DEF Inv, Fits, Ordered, TypeOK, WireTypeOK, ControllerTypeOK
  <2> QED
    BY <2>1, InOrderExpected
<1> QED
  BY <1>1, Invariance, PTL

(***************************************************************************)
(* addSwitch and channelDisconnected: the end of an old connection never   *)
(* takes a new one out of activeSwitches.                                  *)
(***************************************************************************)
THEOREM ReadyListed == Spec => []ReadyActive
<1>1. Inv => ReadyActive
  BY DEF Inv, Fits, OpenNotDone, Listed, Ready, Replaced, ReadyActive
<1> QED
  BY <1>1, Invariance, PTL

(***************************************************************************)
(* removedSwitch: the application's gwSwitch never stays at a connection   *)
(* that has ended and that nothing will remove.                            *)
(***************************************************************************)
THEOREM GatewaySwept == Spec => []GwSwitchSwept
<1>1. Inv => GwSwitchSwept
  BY DEF Inv, GwListed, Ready, Replaced, GwSwitchSwept
<1> QED
  BY <1>1, Invariance, PTL

=============================================================================
