--------------------------- MODULE HandoverProofs ---------------------------
(***************************************************************************)
(* Proofs about Handover, for all sets of stations, access points and      *)
(* threads, all budgets, and both values of Reorder.                       *)
(***************************************************************************)
EXTENDS Handover, TLAPS

-----------------------------------------------------------------------------

(***************************************************************************)
(* Sequences: what Head, Tail, Append and Without do to a queue.           *)
(***************************************************************************)

(***************************************************************************)
(* A queue without its i-th element.                                       *)
(***************************************************************************)
LEMMA WithoutType ==
    ASSUME NEW S, NEW q \in Seq(S), NEW i \in 1 .. Len(q)
    PROVE  /\ Without(q, i) \in Seq(S)
           /\ Len(Without(q, i)) = Len(q) - 1
           /\ \A j \in 1 .. Len(q) - 1 :
                Without(q, i)[j] = IF j < i THEN q[j] ELSE q[j + 1]
<1>1. Len(q) \in Nat /\ Len(q) - 1 \in Nat
  OBVIOUS
<1>2. \A j \in 1 .. Len(q) - 1 : (IF j < i THEN q[j] ELSE q[j + 1]) \in S
  OBVIOUS
<1> QED
  BY <1>1, <1>2 DEF Without

(***************************************************************************)
(* The first element of a queue, and the rest.                             *)
(***************************************************************************)
LEMMA HeadTail ==
    ASSUME NEW S, NEW q \in Seq(S), q # <<>>
    PROVE  /\ Len(q) \in Nat /\ Len(q) >= 1
           /\ Head(q) \in S /\ Head(q) = q[1]
           /\ Tail(q) \in Seq(S)
           /\ Len(Tail(q)) = Len(q) - 1
           /\ \A j \in 1 .. Len(q) - 1 : Tail(q)[j] = q[j + 1]
  OBVIOUS

-----------------------------------------------------------------------------

(***************************************************************************)
(* Types of the operators of the model.                                    *)
(***************************************************************************)

(***************************************************************************)
(* The RSSI byte the controller reads is a signed byte.                    *)
(***************************************************************************)
LEMMA readByteType == ASSUME NEW v \in 0 .. 255 PROVE readByte(v) \in Byte
  BY DEF readByte, Byte

(***************************************************************************)
(* A write to a connection leaves queues of messages.                      *)
(***************************************************************************)
LEMMA writeType ==
    ASSUME TypeOK, NEW d \in [AP -> Seq(DownMsg)], NEW a \in AP, NEW sw,
           NEW type \in DownType, NEW s \in STA
    PROVE  write(d, a, sw, type, s) \in [AP -> Seq(DownMsg)]
<1>1. [type |-> type, sta |-> s] \in DownMsg
  BY DEF DownMsg
<1> QED
  BY <1>1 DEF write

-----------------------------------------------------------------------------

(***************************************************************************)
(* TypeOK is inductive: it holds initially, and every step keeps it.       *)
(***************************************************************************)
LEMMA TypeInit == Init => TypeOK
  BY NoneAssumption
  DEF Init, LinkInit, ControllerInit, AgentInit, TypeOK, LinkTypeOK,
      ControllerTypeOK, AgentTypeOK, Link, Removal, STAAPInfo, NoSTAAP,
      APInfo, NoAPInfo, Byte, Info, NoInfo, RSSIThread, IdleThread, PC,
      Frame, NoFrame, Phase, Kind

(***************************************************************************)
(* A message of an AP's threads.                                           *)
(***************************************************************************)
LEMMA up_msgType ==
    ASSUME NEW type \in UpType, NEW s \in STA PROVE up_msg(type, s) \in UpMsg
  BY DEF up_msg, UpMsg

(***************************************************************************)
(* An entry of a pair with another status.                                 *)
(***************************************************************************)
LEMMA EntryType ==
    ASSUME NEW e \in STAAPInfo, NEW st \in STAStatus
    PROVE  WithStatus(e, st) \in STAAPInfo
  BY DEF STAAPInfo, WithStatus

(***************************************************************************)
(* The candidate after a report.                                           *)
(***************************************************************************)
LEMMA BetterType ==
    ASSUME TypeOK, NEW s \in STA, NEW a \in AP, NEW rssi \in Byte
    PROVE  Better(s, a, rssi) \in APInfo
  BY DEF Better, TypeOK, LinkTypeOK, ControllerTypeOK, APInfo, Link

(***************************************************************************)
(* receive, the handlers of the controller, keeps TypeOK.                  *)
(***************************************************************************)
LEMMA ReceiveType == ASSUME TypeOK, NEW a \in AP, Receive(a) PROVE TypeOK'
<1> USE DEF TypeOK, LinkTypeOK, ControllerTypeOK
<1>1. PICK i \in 1 .. Len(up[a]) :
        /\ \/ handleProbeReq(a, up[a][i])
           \/ handleAuthReq(a, up[a][i])
           \/ handleAssocReq(a, up[a][i])
           \/ handleReassocReq(a, up[a][i])
           \/ handleDisassocReq(a, up[a][i])
           \/ handleDeauthReq(a, up[a][i])
           \/ handleLastRSSI(a, up[a][i])
        /\ up' = [up EXCEPT ![a] = Without(@, i)]
  BY DEF Receive, receive
<1> DEFINE m == up[a][i]
<1>2. m \in UpMsg
  OBVIOUS
<1>s. m.sta \in STA /\ m.rssi \in 0 .. 255
  BY <1>2 DEF UpMsg
<1>e. /\ WithStatus(STAAPList[m.sta][a], "AUTHENTICATED") \in STAAPInfo
      /\ WithStatus(STAAPList[m.sta][a], "ASSOCIATED") \in STAAPInfo
      /\ WithStatus(STAAPList[m.sta][a], "NOT_AUTHENTICATED") \in STAAPInfo
      /\ [status |-> "ASSOCIATED", rates |-> TRUE,
          sw |-> STAAPList[m.sta][a].sw] \in STAAPInfo
  BY <1>s DEF STAAPInfo, STAStatus, WithStatus
<1> HIDE DEF m
<1>3. up' \in [AP -> Seq(UpMsg)]
  BY <1>1, WithoutType
<1>4. UNCHANGED <<link, replies, removal, agentVars, envVars>>
  BY DEF Receive, receive
<1>5. AgentTypeOK' /\ phase' \in [STA -> Phase] /\ spent' \in [Kind -> Nat]
  BY <1>4 DEF AgentTypeOK, agentVars, envVars
<1>6. /\ STAAPList' \in [STA -> [AP -> STAAPInfo]]
      /\ STAAPRSSIList' \in [STA -> APInfo]
      /\ down' \in [AP -> Seq(DownMsg)]
  <2>1. CASE handleProbeReq(a, m)
    <3>1. write(down, a, link[a].sw, "ADD_STA", m.sta) \in [AP -> Seq(DownMsg)]
      BY <1>s, writeType DEF DownType
    <3>2. STAAPList[m.sta][a] \in STAAPInfo /\ link[a].sw \in Nat
      BY <1>s DEF Link
    <3> QED
      BY <1>s, <2>1, <3>1, <3>2 DEF handleProbeReq, STAAPInfo, STAStatus
  <2>2. CASE handleAuthReq(a, m)
    BY <1>s, <1>e, <2>2 DEF handleAuthReq, SetStatus
  <2>3. CASE handleAssocReq(a, m)
    BY <1>s, <1>e, <2>3 DEF handleAssocReq
  <2>4. CASE handleReassocReq(a, m)
    BY <1>s, <1>e, <2>4 DEF handleReassocReq, SetStatus
  <2>5. CASE handleDisassocReq(a, m)
    <3>1. NoAPInfo \in APInfo
      BY DEF NoAPInfo, APInfo, Byte
    <3> QED
      BY <1>s, <1>e, <2>5, <3>1
      DEF handleDisassocReq, SetStatus
  <2>6. CASE handleDeauthReq(a, m)
    BY <1>s, <1>e, <2>6 DEF handleDeauthReq, SetStatus
  <2>7. CASE handleLastRSSI(a, m)
    <3> DEFINE cand == Better(m.sta, a, readByte(m.rssi))
    <3>1. cand \in APInfo
      BY <1>s, readByteType, BetterType
    <3>2. WithSent(cand, TRUE) \in APInfo
      BY <3>1 DEF APInfo, WithSent
    <3>3. \A b \in AP : write(down, b, STAAPList[m.sta][b].sw,
                              "LAST_REC_POW", m.sta) \in [AP -> Seq(DownMsg)]
      BY <1>s, writeType DEF DownType
    <3>4. findSTAAPInfo(m.sta) \subseteq AP
      BY DEF findSTAAPInfo
    <3> HIDE DEF cand
    <3>5. \/ /\ STAAPRSSIList' = [STAAPRSSIList EXCEPT ![m.sta] = cand]
             /\ UNCHANGED down
          \/ \E b \in findSTAAPInfo(m.sta) :
               /\ down' = write(down, b, STAAPList[m.sta][b].sw,
                                "LAST_REC_POW", m.sta)
               /\ STAAPRSSIList' = [STAAPRSSIList EXCEPT ![m.sta] =
                                      WithSent(cand, TRUE)]
      BY <2>7 DEF handleLastRSSI, cand
    <3> QED
      BY ZenonT(30), <1>s, <2>7, <3>1, <3>2, <3>3, <3>4, <3>5 DEF handleLastRSSI, findSTAAPInfo
  <2> QED
    BY <1>1, <2>1, <2>2, <2>3, <2>4, <2>5, <2>6, <2>7 DEF m
<1> QED
  BY <1>3, <1>4, <1>5, <1>6

(***************************************************************************)
(* handleAPRSSI keeps TypeOK.                                              *)
(***************************************************************************)
LEMMA HandleAPRSSIType ==
    ASSUME TypeOK, NEW a \in AP, HandleAPRSSI(a) PROVE TypeOK'
<1> USE DEF TypeOK, LinkTypeOK, ControllerTypeOK
<1> DEFINE m == Head(replies[a])
           s == m.sta
<1>1. link[a].up /\ replies[a] # <<>> /\ UNCHANGED <<agentVars, envVars, up>>
  BY DEF HandleAPRSSI, handleAPRSSI, NoHandover, Handover
<1>2. m \in Reply /\ Tail(replies[a]) \in Seq(Reply)
  BY <1>1, HeadTail
<1>3. s \in STA
  BY <1>2 DEF Reply
<1>4. AgentTypeOK' /\ phase' \in [STA -> Phase] /\ spent' \in [Kind -> Nat]
      /\ up' \in [AP -> Seq(UpMsg)]
  BY <1>1 DEF AgentTypeOK, agentVars, envVars
<1>5. CASE NoHandover(a)
  <2>1. WithSent(STAAPRSSIList[s], FALSE) \in APInfo
    BY <1>3 DEF WithSent, APInfo
  <2> QED
    BY <1>2, <1>3, <1>4, <1>5, <2>1 DEF NoHandover
<1>6. CASE Handover(a)
  <2> DEFINE cand == STAAPRSSIList[s]
             removed == write(down, a, link[a].sw, "REMOVE_STA", s)
             sw == Moved(s, a)[s][cand.ap].sw
  <2>1. cand \in APInfo /\ cand.ap \in AP /\ cand.sw \in Nat /\ link[a].sw \in Nat
    BY <1>3, <1>6 DEF Handover, Moves, APInfo, Link
  <2>2. Moved(s, a) \in [STA -> [AP -> STAAPInfo]]
    <3>1. WithStatus(STAAPList[s][a], "NOT_AUTHENTICATED") \in STAAPInfo
      BY <1>3, EntryType DEF STAStatus
    <3>2. [status |-> "ASSOCIATED", rates |-> STAAPList[s][a].rates,
           sw |-> IF STAAPList[s][cand.ap].status = "null"
                  THEN cand.sw ELSE STAAPList[s][cand.ap].sw] \in STAAPInfo
      BY <1>3, <2>1 DEF STAAPInfo, STAStatus
    <3> QED
      BY <1>3, <2>1, <3>1, <3>2 DEF Moved
  <2>3. [ap |-> a, rssi |-> -128, isSent |-> FALSE, sw |-> link[a].sw] \in APInfo
    BY <2>1 DEF APInfo, Byte
  <2>4. removed \in [AP -> Seq(DownMsg)]
    BY <1>3, writeType DEF DownType
  <2>5. write(removed, cand.ap, sw, "UPDATE_STA_ADD", s) \in [AP -> Seq(DownMsg)]
    BY <1>3, <2>1, <2>4, writeType DEF DownType
  <2>6. Closed(cand.ap) \in [AP -> Link] /\ Removing(cand.ap) \subseteq Removal
    BY <2>1 DEF Closed, Removing, Link, Removal
  <2>7. /\ [replies EXCEPT ![a] = Tail(@)] \in [AP -> Seq(Reply)]
        /\ [replies EXCEPT ![a] = Tail(@), ![cand.ap] = <<>>] \in [AP -> Seq(Reply)]
    <3> DEFINE answers == [replies EXCEPT ![a] = Tail(@)]
    <3>1. answers \in [AP -> Seq(Reply)]
      BY <1>2
    <3>2. [answers EXCEPT ![cand.ap] = <<>>] \in [AP -> Seq(Reply)]
      <4> HIDE DEF answers
      <4>1. <<>> \in Seq(Reply)
        OBVIOUS
      <4> QED
        BY <2>1, <3>1, <4>1
    <3> QED
      BY <3>1, <3>2
  <2>8. down' \in [AP -> Seq(DownMsg)]
    BY <1>6, <2>4, <2>5 DEF Handover
  <2>9. link' \in [AP -> Link] /\ removal' \subseteq Removal
        /\ replies' \in [AP -> Seq(Reply)]
    BY <1>6, <2>6, <2>7 DEF Handover
  <2>10. STAAPList' \in [STA -> [AP -> STAAPInfo]] /\ STAAPRSSIList' \in [STA -> APInfo]
    BY <1>3, <1>6, <2>2, <2>3 DEF Handover
  <2> QED
    BY <1>4, <2>8, <2>9, <2>10
<1> QED
  BY <1>5, <1>6 DEF HandleAPRSSI, handleAPRSSI

(***************************************************************************)
(* removedSwitch keeps TypeOK.                                             *)
(***************************************************************************)
LEMMA RemovedSwitchType == ASSUME TypeOK, RemovedSwitch PROVE TypeOK'
<1> USE DEF TypeOK, LinkTypeOK, ControllerTypeOK
<1>1. PICK r \in removal : SweepSTAAPList(r) \/ SweepSTAAPRSSIList(r)
  BY DEF RemovedSwitch, removedSwitch
<1>2. AgentTypeOK' /\ phase' \in [STA -> Phase] /\ spent' \in [Kind -> Nat]
  BY DEF RemovedSwitch, AgentTypeOK, agentVars, envVars
<1>3. CASE SweepSTAAPList(r)
  <2>1. [ap |-> r.ap, sw |-> r.sw, sweep |-> "STAAPRSSIList"] \in Removal
    BY DEF Removal
  <2>2. NoSTAAP \in STAAPInfo
    BY DEF NoSTAAP, STAAPInfo
  <2> QED
    BY <1>2, <1>3, <2>1, <2>2 DEF SweepSTAAPList
<1>4. CASE SweepSTAAPRSSIList(r)
  <2>1. NoAPInfo \in APInfo
    BY DEF NoAPInfo, APInfo, Byte
  <2> QED
    BY <1>2, <1>4, <2>1 DEF SweepSTAAPRSSIList
<1> QED
  BY <1>1, <1>3, <1>4

(***************************************************************************)
(* The entries of an AP's table that changeStatus, changeRSSI and addSTA   *)
(* leave behind.                                                           *)
(***************************************************************************)
LEMMA InfoType ==
    ASSUME NEW info \in Info
    PROVE  /\ \A st \in STAStatus : changeStatus(info, st) \in Info
           /\ \A v \in 0 .. 255 : changeRSSI(info, v) \in Info
           /\ addSTA(info) \in Info
  BY DEF Info, changeStatus, changeRSSI, addSTA, STAStatus

(***************************************************************************)
(* handle_vendor, the messages of the controller, keeps TypeOK.            *)
(***************************************************************************)
LEMMA HandleVendorType ==
    ASSUME TypeOK, NEW a \in AP, HandleVendor(a) PROVE TypeOK'
<1> USE DEF TypeOK, LinkTypeOK, ControllerTypeOK, AgentTypeOK
<1> DEFINE s == Head(down[a]).sta
           info == infoSTA[a][s]
<1>1. down[a] # <<>>
  BY DEF HandleVendor, handle_vendor, ADD_STA, UPDATE_STA_ADD, REMOVE_STA,
         handle_ap_rssi, Received
<1>2. Head(down[a]) \in DownMsg /\ Tail(down[a]) \in Seq(DownMsg)
  BY <1>1, HeadTail
<1>3. s \in STA /\ info \in Info
  BY <1>2 DEF DownMsg
<1>4. PICK new \in Info : Change(a, new)
  <2>1. \A st \in STAStatus : /\ changeStatus(info, st) \in Info
                              /\ changeStatus(addSTA(info), st) \in Info
    BY <1>3, InfoType
  <2> HIDE DEF s, info
  <2>2. CASE ADD_STA(a)
    BY <1>3, <2>1, <2>2 DEF ADD_STA, s, info, STAStatus
  <2>3. CASE UPDATE_STA_ADD(a)
    BY <1>3, <2>1, <2>3 DEF UPDATE_STA_ADD, s, info, STAStatus
  <2>4. CASE REMOVE_STA(a)
    BY <1>3, <2>1, <2>4 DEF REMOVE_STA, s, info, STAStatus
  <2>5. CASE handle_ap_rssi(a)
    BY <1>3, <2>5 DEF handle_ap_rssi, s, info
  <2> QED
    BY <2>2, <2>3, <2>4, <2>5 DEF HandleVendor, handle_vendor
<1>5. replies' \in [AP -> Seq(Reply)]
  <2>1. [sta |-> s, rssi |-> info.last] \in Reply
    BY <1>3 DEF Info, Reply
  <2>2. CASE UNCHANGED replies
    BY <2>2
  <2>3. CASE replies' = [replies EXCEPT ![a] =
                           Append(@, [sta |-> s, rssi |-> info.last])]
    BY <2>1, <2>3
  <2> QED
    BY <2>2, <2>3 DEF HandleVendor, handle_vendor, ADD_STA, UPDATE_STA_ADD,
                      REMOVE_STA, handle_ap_rssi
<1>6. UNCHANGED <<ctrlVars, envVars, rssiThread, timer, frame, link, up, removal>>
  BY <1>4 DEF HandleVendor, Change
<1>7. down' \in [AP -> Seq(DownMsg)] /\ infoSTA' \in [AP -> [STA -> Info]]
  BY <1>2, <1>3, <1>4 DEF Change
<1> QED
  BY <1>5, <1>6, <1>7 DEF ctrlVars, envVars

(***************************************************************************)
(* process_sta_data keeps TypeOK.                                          *)
(***************************************************************************)
LEMMA ProcessStaDataType ==
    ASSUME TypeOK, NEW a \in AP, NEW t \in Thread, ProcessStaData(a, t)
    PROVE  TypeOK'
<1> USE DEF TypeOK, LinkTypeOK, ControllerTypeOK, AgentTypeOK
<1> DEFINE thread == rssiThread[a][t]
           info == infoSTA[a][thread.sta]
<1>1. thread.pc # "idle"
  BY DEF ProcessStaData, process_sta_data, Lookup, Set, Add, Mark, Compare,
         Report
<1>2. thread.sta \in STA /\ thread.rssi \in 0 .. 255 /\ info \in Info
  <2>1. thread \in RSSIThread /\ thread # IdleThread
    BY <1>1 DEF IdleThread
  <2>2. thread.sta \in STA /\ thread.rssi \in 0 .. 255
    BY <2>1 DEF RSSIThread
  <2> QED
    BY <2>2
<1>3. \E new \in Info, pc \in PC \cup {"idle"} : Proceed(a, t, pc, new)
  <2>1. /\ changeStatus(info, "NOT_AUTHENTICATED") \in Info
        /\ changeRSSI(info, thread.rssi) \in Info
        /\ addSTA(info) \in Info
    BY <1>2, InfoType DEF STAStatus
  <2> HIDE DEF thread, info
  <2>2. CASE Lookup(a, t)
    BY <1>2, <2>2 DEF Lookup, PC, thread, info
  <2>3. CASE Set(a, t)
    BY <2>1, <2>3 DEF Set, PC, thread, info
  <2>4. CASE Add(a, t)
    BY <1>2, <2>1, <2>4 DEF Add, PC, thread, info
  <2>5. CASE Mark(a, t)
    BY <2>1, <2>5 DEF Mark, PC, thread, info
  <2>6. CASE Compare(a, t)
    BY <1>2, <2>6 DEF Compare, PC, thread, info
  <2>7. CASE Report(a, t)
    BY <2>1, <2>7 DEF Report, PC, thread, info
  <2> QED
    BY <2>2, <2>3, <2>4, <2>5, <2>6, <2>7 DEF ProcessStaData, process_sta_data
<1>4. PICK new \in Info, pc \in PC \cup {"idle"} : Proceed(a, t, pc, new)
  BY <1>3
<1>5. infoSTA' \in [AP -> [STA -> Info]]
  BY <1>2, <1>4 DEF Proceed
<1>6. rssiThread' \in [AP -> [Thread -> RSSIThread]]
  <2>1. (IF pc = "idle" THEN IdleThread
         ELSE [pc |-> pc, sta |-> thread.sta, rssi |-> thread.rssi]) \in RSSIThread
    BY <1>2 DEF RSSIThread
  <2> QED
    BY <1>4, <2>1 DEF Proceed
<1>7. up' \in [AP -> Seq(UpMsg)]
  <2>1. [type |-> "REC_POW", sta |-> thread.sta, rssi |-> thread.rssi] \in UpMsg
    BY <1>2 DEF UpMsg, UpType
  <2>2. CASE UNCHANGED up
    BY <2>2
  <2>3. CASE up' = [up EXCEPT ![a] =
                      Append(@, [type |-> "REC_POW", sta |-> thread.sta,
                                 rssi |-> thread.rssi])]
    BY <2>1, <2>3
  <2> QED
    BY <2>2, <2>3 DEF ProcessStaData, process_sta_data, Lookup, Set, Add, Mark,
                      Compare, Report
<1>8. UNCHANGED <<ctrlVars, envVars, timer, frame, link, down, replies, removal>>
  BY <1>4 DEF ProcessStaData, Proceed
<1> QED
  BY <1>5, <1>6, <1>7, <1>8 DEF ctrlVars, envVars

(***************************************************************************)
(* Sends that fail and reconnection keep TypeOK.                           *)
(***************************************************************************)
LEMMA AgentStepType ==
    ASSUME TypeOK, NEW a \in AP,
           SendFails(a) \/ ConnOpen(a)
    PROVE  TypeOK'
<1> USE DEF TypeOK, LinkTypeOK, ControllerTypeOK, AgentTypeOK
<1>1. CASE SendFails(a)
  <2>1. Tail(up[a]) \in Seq(UpMsg)
    BY <1>1, HeadTail DEF SendFails, controller_send_fails
  <2> QED
    BY <1>1, <2>1 DEF SendFails, controller_send_fails, ctrlVars, envVars,
                      agentVars
<1>2. CASE ConnOpen(a)
  <2>1. [up |-> TRUE, sw |-> link[a].sw + 1] \in Link
    BY DEF Link
  <2> QED
    BY <1>2, <2>1 DEF ConnOpen, controller_conn_open, ctrlVars, envVars,
                      agentVars
<1> QED
  BY <1>1, <1>2

(***************************************************************************)
(* notify_controller_disassoc keeps TypeOK.                                *)
(***************************************************************************)
LEMMA TimerType ==
    ASSUME TypeOK, NEW a \in AP, NEW s \in STA, Timer(a, s) PROVE TypeOK'
<1> USE DEF TypeOK, LinkTypeOK, ControllerTypeOK, AgentTypeOK
<1>1. [type |-> "DEAUTH_REQ", sta |-> s] \in Frame
  BY DEF Frame, FrameType
<1>2. timer[a][s] \in Nat /\ timer[a][s] > 0
      /\ timer' = [timer EXCEPT ![a][s] = @ - 1]
  BY DEF Timer, notify_controller_disassoc
<1>3. timer' \in [AP -> [STA -> Nat]]
  BY <1>2
<1>4. UNCHANGED <<ctrlVars, envVars, infoSTA, rssiThread, linkVars>>
  BY DEF Timer, notify_controller_disassoc
<1>5. frame' \in [AP -> Frame]
  BY <1>1 DEF Timer, notify_controller_disassoc
<1> QED
  BY <1>3, <1>4, <1>5 DEF ctrlVars, envVars, linkVars

(***************************************************************************)
(* A frame that the event loop is working on.                              *)
(***************************************************************************)
LEMMA FrameSta ==
    ASSUME TypeOK, NEW a \in AP, frame[a].type # "none"
    PROVE  frame[a].type \in FrameType /\ frame[a].sta \in STA
<1>1. frame[a] \in Frame /\ frame[a] # NoFrame
  BY DEF TypeOK, AgentTypeOK, NoFrame
<1> QED
  BY <1>1 DEF Frame

(***************************************************************************)
(* The event loop's work on a frame keeps TypeOK.                          *)
(***************************************************************************)
LEMMA EventLoopType ==
    ASSUME TypeOK, NEW a \in AP, RecheckFrame(a) \/ CommitFrame(a) PROVE TypeOK'
<1> USE DEF TypeOK, LinkTypeOK, ControllerTypeOK, AgentTypeOK
<1> DEFINE s == frame[a].sta
           type == frame[a].type
<1>1. type \in FrameType /\ s \in STA
  BY FrameSta DEF RecheckFrame, Recheck, CommitFrame, Commit
<1>2. NoFrame \in Frame
  BY DEF Frame
<1>3. UNCHANGED timer \/ RegisterTimeout(a, s) => timer' \in [AP -> [STA -> Nat]]
  <2>1. timer \in [AP -> [STA -> Nat]]
    OBVIOUS
  <2>2. [timer EXCEPT ![a][s] = @ + 1] \in [AP -> [STA -> Nat]]
    BY <1>1, <2>1
  <2> QED
    BY ZenonT(30), <2>1, <2>2 DEF RegisterTimeout
<1>4. CASE RecheckFrame(a)
  <2>1. [type |-> "DISASSOC_REQ", sta |-> s] \in Frame
    BY <1>1 DEF Frame, FrameType
  <2>2. frame' \in [AP -> Frame] /\ timer' \in [AP -> [STA -> Nat]]
    BY <1>2, <1>3, <1>4, <2>1 DEF RecheckFrame, Recheck
  <2>3. UNCHANGED <<infoSTA, rssiThread, linkVars, ctrlVars, envVars>>
    BY <1>4 DEF RecheckFrame, Recheck
  <2> QED
    BY <2>2, <2>3 DEF linkVars, ctrlVars, envVars
<1>5. CASE CommitFrame(a)
  <2> DEFINE info == changeStatus(infoSTA[a][s], Committed(type))
             msg == up_msg(type, s)
  <2>1. info \in Info
    BY <1>1, InfoType DEF Committed, STAStatus
  <2>2. msg \in UpMsg
    BY <1>1, <1>5, up_msgType DEF CommitFrame, Commit, FrameType, Joins, UpType
  <2> HIDE DEF info, msg
  <2>3. infoSTA' = [infoSTA EXCEPT ![a][s] = info]
    BY <1>5 DEF CommitFrame, Commit, info
  <2>4. up' = [up EXCEPT ![a] = Append(@, msg)]
    BY <1>5 DEF CommitFrame, Commit, msg
  <2>5. infoSTA' \in [AP -> [STA -> Info]] /\ up' \in [AP -> Seq(UpMsg)]
    BY <1>1, <2>1, <2>2, <2>3, <2>4
  <2>6. frame' \in [AP -> Frame] /\ timer' \in [AP -> [STA -> Nat]]
    BY <1>2, <1>3, <1>5 DEF CommitFrame, Commit
  <2>7. phase' \in [STA -> Phase]
    BY <1>1, <1>5 DEF CommitFrame, AnswerHeard, Phase
  <2>8. UNCHANGED <<rssiThread, link, down, replies, removal, ctrlVars, spent>>
    BY <1>5 DEF CommitFrame, Commit
  <2> QED
    BY <2>5, <2>6, <2>7, <2>8 DEF ctrlVars
<1> QED
  BY <1>4, <1>5

(***************************************************************************)
(* The hook common to the frame handlers.                                  *)
(***************************************************************************)
LEMMA CheckType ==
    ASSUME TypeOK, NEW H \in SUBSET AP, NEW s \in STA, NEW type \in FrameType,
           Check(H, s, type)
    PROVE  /\ frame' \in [AP -> Frame]
           /\ UNCHANGED <<infoSTA, rssiThread, timer, linkVars>>
<1>1. [type |-> type, sta |-> s] \in Frame
  BY DEF Frame
<1> QED
  BY <1>1 DEF Check, TypeOK, AgentTypeOK

(***************************************************************************)
(* What stations do keeps TypeOK.                                          *)
(***************************************************************************)
LEMMA StationType == ASSUME TypeOK, NEW s \in STA, Station(s) PROVE TypeOK'
<1> USE DEF TypeOK, LinkTypeOK, ControllerTypeOK, AgentTypeOK
<1>k. \A k \in Kind : Spend(k) => spent' \in [Kind -> Nat]
  BY DEF Spend
<1>p. \A p \in Phase : Enter(s, p) => phase' \in [STA -> Phase]
  BY DEF Enter
<1>1. ASSUME NEW a \in AP, Probe(a, s) PROVE TypeOK'
  <2>1. up_msg("PROBE", s) \in UpMsg
    BY up_msgType DEF UpType
  <2>2. spent' \in [Kind -> Nat]
    BY <1>1, <1>k DEF Probe, Kind
  <2> QED
    BY <1>1, <2>1, <2>2 DEF Probe, handle_probe_request, ctrlVars, agentVars
<1>c. ASSUME NEW H \in SUBSET AP, NEW type \in FrameType, Check(H, s, type),
             UNCHANGED ctrlVars, phase' \in [STA -> Phase],
             spent' \in [Kind -> Nat]
      PROVE  TypeOK'
  <2>1. /\ frame' \in [AP -> Frame]
        /\ UNCHANGED <<infoSTA, rssiThread, timer, linkVars>>
    BY <1>c, CheckType
  <2> QED
    BY <1>c, <2>1 DEF linkVars, ctrlVars
<1>2. ASSUME NEW H \in SUBSET AP, Auth(H, s) PROVE TypeOK'
  <2>1. "AUTH_REQ" \in FrameType /\ Check(H, s, "AUTH_REQ") /\ UNCHANGED ctrlVars
    BY <1>2 DEF Auth, handle_auth, FrameType
  <2>2. spent' \in [Kind -> Nat] /\ phase' \in [STA -> Phase]
    BY <1>2, <1>k DEF Auth, Kind
  <2> QED
    BY <1>c, <2>1, <2>2
<1>3. ASSUME NEW H \in SUBSET AP, NEW reassoc \in BOOLEAN, Assoc(H, s, reassoc)
      PROVE  TypeOK'
  <2> DEFINE type == IF reassoc THEN "REASSOC_REQ" ELSE "ASSOC_REQ"
             kind == IF reassoc THEN "reassoc" ELSE "assoc"
  <2>1. Check(H, s, type) /\ UNCHANGED ctrlVars
    BY <1>3 DEF Assoc, handle_assoc
  <2>2. type \in FrameType /\ kind \in Kind
    BY DEF FrameType, Joins, Kind
  <2> HIDE DEF type
  <2>3. spent' \in [Kind -> Nat] /\ phase' \in [STA -> Phase]
    BY <1>3, <1>k, <2>2 DEF Assoc
  <2> QED
    BY <1>c, <2>1, <2>2, <2>3
<1>4. ASSUME NEW H \in SUBSET AP, Disassoc(H, s) PROVE TypeOK'
  <2>1. "DISASSOC" \in FrameType /\ Check(H, s, "DISASSOC") /\ UNCHANGED ctrlVars
    BY <1>4 DEF Disassoc, handle_disassoc, FrameType
  <2>2. spent' \in [Kind -> Nat] /\ phase' \in [STA -> Phase]
    BY <1>4, <1>k, <1>p DEF Disassoc, Kind, Phase
  <2> QED
    BY <1>c, <2>1, <2>2
<1>5. ASSUME NEW H \in SUBSET AP, Deauth(H, s) PROVE TypeOK'
  <2>1. "DEAUTH_REQ" \in FrameType /\ Check(H, s, "DEAUTH_REQ")
        /\ UNCHANGED ctrlVars
    BY <1>5 DEF Deauth, handle_deauth, FrameType
  <2>2. spent' \in [Kind -> Nat] /\ phase' \in [STA -> Phase]
    BY <1>5, <1>k, <1>p DEF Deauth, Kind, Phase
  <2> QED
    BY <1>c, <2>1, <2>2
<1>6. ASSUME NEW a \in AP, NEW t \in Thread, NEW rssi \in RSSI,
             Data(a, t, s, rssi)
      PROVE  TypeOK'
  <2>1. [pc |-> "lookup", sta |-> s, rssi |-> rssi] \in RSSIThread
    BY RSSIAssumption DEF RSSIThread, PC
  <2>2. spent' \in [Kind -> Nat]
    BY <1>6, <1>k DEF Data, Kind
  <2>3. rssiThread' \in [AP -> [Thread -> RSSIThread]]
    BY <1>6, <2>1 DEF Data, data_frames_rssi
  <2> QED
    BY <1>6, <2>2, <2>3 DEF Data, data_frames_rssi, linkVars, ctrlVars
<1> QED
  BY <1>1, <1>2, <1>3, <1>4, <1>5, <1>6 DEF Station

(***************************************************************************)
(* Failures keep TypeOK.                                                   *)
(***************************************************************************)
LEMMA FailureType == ASSUME TypeOK, Failure PROVE TypeOK'
<1> USE DEF TypeOK, LinkTypeOK, ControllerTypeOK, AgentTypeOK
<1>1. PICK a \in AP : Cut(a) \/ Restart(a)
  BY DEF Failure
<1>2. Closed(a) \in [AP -> Link] /\ Removing(a) \subseteq Removal
  BY DEF Closed, Removing, Link, Removal
<1>3. /\ [down EXCEPT ![a] = <<>>] \in [AP -> Seq(DownMsg)]
      /\ [replies EXCEPT ![a] = <<>>] \in [AP -> Seq(Reply)]
      /\ [up EXCEPT ![a] = <<>>] \in [AP -> Seq(UpMsg)]
  <2>1. <<>> \in Seq(DownMsg) /\ <<>> \in Seq(Reply) /\ <<>> \in Seq(UpMsg)
    OBVIOUS
  <2> QED
    BY <2>1
<1>4. \A k \in Kind : Spend(k) => spent' \in [Kind -> Nat]
  BY DEF Spend
<1>5. CASE Cut(a)
  <2>1. spent' \in [Kind -> Nat]
    BY <1>4, <1>5 DEF Cut, Kind
  <2> QED
    BY <1>2, <1>3, <1>5, <2>1 DEF Cut, ctrlVars, agentVars
<1>6. CASE Restart(a)
  <2>1. spent' \in [Kind -> Nat]
    BY <1>4, <1>6 DEF Restart, Kind
  <2>2. NoInfo \in Info /\ IdleThread \in RSSIThread /\ NoFrame \in Frame
    BY DEF NoInfo, Info, RSSIThread, Frame
  <2>3. /\ infoSTA' \in [AP -> [STA -> Info]]
        /\ frame' \in [AP -> Frame]
        /\ rssiThread' \in [AP -> [Thread -> RSSIThread]]
        /\ timer' \in [AP -> [STA -> Nat]]
    BY <1>6, <2>2 DEF Restart
  <2> QED
    BY <1>2, <1>3, <1>6, <2>1, <2>3 DEF Restart, ctrlVars
<1> QED
  BY <1>1, <1>5, <1>6

(***************************************************************************)
(* Every step keeps TypeOK.                                                *)
(***************************************************************************)
LEMMA TypeStep == TypeOK /\ [Next]_vars => TypeOK'
<1> SUFFICES ASSUME TypeOK, [Next]_vars PROVE TypeOK'
  OBVIOUS
<1>1. CASE UNCHANGED vars
  BY <1>1 DEF vars, linkVars, ctrlVars, agentVars, envVars, TypeOK, LinkTypeOK,
              ControllerTypeOK, AgentTypeOK
<1>2. CASE Next
  BY <1>2, ReceiveType, HandleAPRSSIType, RemovedSwitchType, HandleVendorType,
     ProcessStaDataType, TimerType, EventLoopType, AgentStepType, StationType,
     FailureType
  DEF Next
<1> QED
  BY <1>1, <1>2

(***************************************************************************)
(* Every variable keeps its type, whatever the budget: the RSSI the        *)
(* controller stores is a signed byte, a message names a station, a timer  *)
(* never goes below zero, a busy RSSI thread has a frame.                  *)
(***************************************************************************)
THEOREM TypeCorrect == Spec => []TypeOK
  BY TypeInit, TypeStep, PTL DEF Spec

-----------------------------------------------------------------------------

(***************************************************************************)
(* OneSelected is inductive: a step either gives some pair the status      *)
(* SELECTED in handleProbeReq, which has seen that no other pair of the    *)
(* station has it, or makes no pair SELECTED.                              *)
(***************************************************************************)

(***************************************************************************)
(* A step that makes no pair SELECTED keeps OneSelected.                   *)
(***************************************************************************)
LEMMA NoneSelected ==
    ASSUME OneSelected,
           \A s \in STA, a \in AP :
              STAAPList'[s][a].status = "SELECTED"
                 => STAAPList[s][a].status = "SELECTED"
    PROVE  OneSelected'
  BY DEF OneSelected

(***************************************************************************)
(* The handlers of receive keep OneSelected.                               *)
(***************************************************************************)
LEMMA ReceiveOneSelected ==
    ASSUME TypeOK, OneSelected, NEW a \in AP, Receive(a) PROVE OneSelected'
<1> USE DEF TypeOK, LinkTypeOK, ControllerTypeOK
<1>1. PICK i \in 1 .. Len(up[a]) :
        \/ handleProbeReq(a, up[a][i])
        \/ handleAuthReq(a, up[a][i])
        \/ handleAssocReq(a, up[a][i])
        \/ handleReassocReq(a, up[a][i])
        \/ handleDisassocReq(a, up[a][i])
        \/ handleDeauthReq(a, up[a][i])
        \/ handleLastRSSI(a, up[a][i])
  BY DEF Receive, receive
<1> DEFINE m == up[a][i]
<1>2. m.sta \in STA
  <2>1. m \in UpMsg
    OBVIOUS
  <2> QED
    BY <2>1 DEF UpMsg
<1> HIDE DEF m
<1>3. CASE handleProbeReq(a, m)
  <2>1. CASE UNCHANGED STAAPList
    BY <2>1 DEF OneSelected
  <2>2. CASE STAAPList' # STAAPList
    <3>1. ~findSTAAPPair(m.sta, a)
      BY <1>3, <2>2 DEF handleProbeReq
    <3>2. \A b \in AP \ {a} : STAAPList'[m.sta][b].status # "SELECTED"
      BY <1>2, <1>3, <3>1 DEF handleProbeReq, findSTAAPPair
    <3>3. \A s \in STA \ {m.sta} : STAAPList'[s] = STAAPList[s]
      BY <1>2, <1>3 DEF handleProbeReq
    <3> QED
      BY <3>2, <3>3 DEF OneSelected
  <2> QED
    BY <2>1, <2>2
<1>4. CASE \E st \in {"AUTHENTICATED", "ASSOCIATED", "NOT_AUTHENTICATED"} :
             SetStatus(m.sta, a, st)
  <2>1. \A s \in STA, b \in AP : STAAPList'[s][b].status = "SELECTED"
                               => STAAPList[s][b].status = "SELECTED"
    BY <1>2, <1>4 DEF SetStatus, WithStatus
  <2> QED
    BY <2>1, NoneSelected
<1>5. CASE handleAssocReq(a, m)
  <2>1. \A s \in STA, b \in AP : STAAPList'[s][b].status = "SELECTED"
                               => STAAPList[s][b].status = "SELECTED"
    BY <1>2, <1>5 DEF handleAssocReq
  <2> QED
    BY <2>1, NoneSelected
<1>6. CASE handleLastRSSI(a, m)
  BY <1>6 DEF handleLastRSSI, OneSelected
<1> QED
  BY <1>1, <1>3, <1>4, <1>5, <1>6
  DEF m, handleAuthReq, handleReassocReq, handleDisassocReq, handleDeauthReq

(***************************************************************************)
(* handleAPRSSI keeps OneSelected.                                         *)
(***************************************************************************)
LEMMA HandleAPRSSIOneSelected ==
    ASSUME TypeOK, OneSelected, NEW a \in AP, HandleAPRSSI(a) PROVE OneSelected'
<1> USE DEF TypeOK, LinkTypeOK, ControllerTypeOK
<1>1. CASE NoHandover(a)
  BY <1>1 DEF NoHandover, OneSelected
<1>2. CASE Handover(a)
  <2> DEFINE s == Head(replies[a]).sta
             c == STAAPRSSIList[s].ap
  <2>1. Head(replies[a]) \in Reply
    BY <1>2, HeadTail DEF Handover
  <2>2. s \in STA
    BY <2>1 DEF Reply
  <2>3. c \in AP
    BY <1>2, <2>2 DEF Handover, Moves, APInfo
  <2>4. STAAPList' = Moved(s, a)
    BY <1>2 DEF Handover
  <2> HIDE DEF s
  <2>5. \A u \in STA, b \in AP : STAAPList'[u][b].status = "SELECTED"
                               => STAAPList[u][b].status = "SELECTED"
    BY <2>2, <2>3, <2>4 DEF Moved, WithStatus
  <2> QED
    BY <2>5, NoneSelected
<1> QED
  BY <1>1, <1>2 DEF HandleAPRSSI, handleAPRSSI

(***************************************************************************)
(* At most one AP at a time is SELECTED for a station: however many APs    *)
(* hear the probe requests of a station, whatever they report, in whatever *)
(* order their threads send it, and whichever connections fail,            *)
(* handleProbeReq has let at most one AP accept the station's              *)
(* authentication.                                                         *)
(***************************************************************************)
THEOREM SelectedOnce == Spec => []OneSelected
<1>1. Init => OneSelected
  BY DEF Init, ControllerInit, NoSTAAP, OneSelected
<1>2. TypeOK /\ OneSelected /\ [Next]_vars => OneSelected'
  <2> SUFFICES ASSUME TypeOK, OneSelected, [Next]_vars PROVE OneSelected'
    OBVIOUS
  <2>1. ASSUME NEW a \in AP, Receive(a) PROVE OneSelected'
    BY <2>1, ReceiveOneSelected
  <2>2. ASSUME NEW a \in AP, HandleAPRSSI(a) PROVE OneSelected'
    BY <2>2, HandleAPRSSIOneSelected
  <2>3. CASE RemovedSwitch
    <3>1. \A s \in STA, b \in AP : STAAPList'[s][b].status = "SELECTED"
                                 => STAAPList[s][b].status = "SELECTED"
      BY <2>3 DEF RemovedSwitch, removedSwitch, SweepSTAAPList,
                  SweepSTAAPRSSIList, NoSTAAP
    <3> QED
      BY <3>1, NoneSelected
  <2>4. CASE UNCHANGED STAAPList
    BY <2>4 DEF OneSelected
  <2> QED
    BY <2>1, <2>2, <2>3, <2>4
    DEF Next, vars, ctrlVars, HandleVendor, ProcessStaData, Timer, RecheckFrame,
        CommitFrame, SendFails, ConnOpen, Station, Probe, Auth, Assoc, Data, Disassoc, Deauth, Failure,
        Cut, Restart
<1> QED
  BY <1>1, <1>2, TypeCorrect, PTL DEF Spec

-----------------------------------------------------------------------------

(***************************************************************************)
(* CandidateSwept is inductive.  It is kept by a step that forgets no      *)
(* removal, closes no connection without one, and makes no candidate of a  *)
(* closed connection.                                                      *)
(***************************************************************************)
LEMMA NothingLost ==
    ASSUME TypeOK, CandidateSwept,
           removal \subseteq removal',
           \A a \in AP, sw \in Nat : Live(a, sw) =>
              \/ Live(a, sw)'
              \/ \E r \in removal' : r.ap = a /\ r.sw = sw,
           \A s \in STA :
              LET new == STAAPRSSIList'[s]
              IN  \/ new.ap = None
                  \/ new.ap = STAAPRSSIList[s].ap /\ new.sw = STAAPRSSIList[s].sw
                  \/ new.ap \in AP /\ new.sw \in Nat /\ Live(new.ap, new.sw)
    PROVE  CandidateSwept'
<1> SUFFICES ASSUME NEW s \in STA,
                    STAAPRSSIList'[s].ap # None,
                    ~Live(STAAPRSSIList[s].ap, STAAPRSSIList[s].sw)'
             PROVE  \E r \in removal' : /\ r.ap = STAAPRSSIList'[s].ap
                                        /\ r.sw = STAAPRSSIList'[s].sw
  BY DEF CandidateSwept, Live
<1> DEFINE new == STAAPRSSIList'[s]
           old == STAAPRSSIList[s]
<1>1. old.ap \in AP \cup {None} /\ old.sw \in Nat
  BY DEF TypeOK, ControllerTypeOK, APInfo
<1>2. CASE Live(new.ap, new.sw) /\ new.ap \in AP /\ new.sw \in Nat
  BY <1>2 DEF Live
<1>3. CASE ~Live(new.ap, new.sw) /\ new.ap = old.ap /\ new.sw = old.sw
  <2>1. \E r \in removal : r.ap = old.ap /\ r.sw = old.sw
    BY <1>3 DEF CandidateSwept
  <2> QED
    BY <1>3, <2>1
<1> QED
  BY <1>1, <1>2, <1>3

(***************************************************************************)
(* A connection that is closed leaves a removal behind.                    *)
(***************************************************************************)
LEMMA ClosedRemoving ==
    ASSUME TypeOK, NEW c \in AP, link' = Closed(c), removal' = Removing(c)
    PROVE  /\ removal \subseteq removal'
           /\ \A a \in AP, sw \in Nat : Live(a, sw) =>
                \/ Live(a, sw)'
                \/ \E r \in removal' : r.ap = a /\ r.sw = sw
<1> DEFINE r == [ap |-> c, sw |-> link[c].sw, sweep |-> "STAAPList"]
<1>1. removal' = removal \cup {r} /\ r.ap = c /\ r.sw = link[c].sw
  BY DEF Removing
<1>2. \A a \in AP \ {c} : link'[a] = link[a]
  BY DEF TypeOK, LinkTypeOK, Closed
<1> HIDE DEF r
<1> QED
  BY <1>1, <1>2 DEF Live

(***************************************************************************)
(* The handlers of receive: a new candidate is the AP whose message is     *)
(* being handled, hence connected.                                         *)
(***************************************************************************)
LEMMA ReceiveCandidate ==
    ASSUME TypeOK, CandidateSwept, NEW a \in AP, Receive(a)
    PROVE  CandidateSwept'
<1> USE DEF TypeOK, LinkTypeOK, ControllerTypeOK
<1>1. PICK i \in 1 .. Len(up[a]) :
        \/ handleDisassocReq(a, up[a][i])
        \/ handleLastRSSI(a, up[a][i])
        \/ UNCHANGED STAAPRSSIList
  BY DEF Receive, receive, handleProbeReq, handleAuthReq, handleAssocReq,
         handleReassocReq, handleDeauthReq
<1> DEFINE m == up[a][i]
           s == m.sta
           new == STAAPRSSIList'[s]
<1>2. /\ link' = link /\ removal' = removal
      /\ link[a].up /\ link[a].sw \in Nat
  BY DEF Receive, receive, Link
<1>3. m \in UpMsg
  OBVIOUS
<1>4. s \in STA
  BY <1>3 DEF UpMsg
<1>5. CASE handleDisassocReq(a, m)
  <2>1. \A u \in STA : STAAPRSSIList'[u] \in {NoAPInfo, STAAPRSSIList[u]}
    BY <1>4, <1>5 DEF handleDisassocReq
  <2> QED
    BY <1>2, <2>1, NothingLost DEF Live, NoAPInfo
<1>6. CASE handleLastRSSI(a, m)
  <2> DEFINE cand == Better(s, a, readByte(m.rssi))
  <2>1. /\ new.ap = cand.ap /\ new.sw = cand.sw
        /\ \A u \in STA \ {s} : STAAPRSSIList'[u] = STAAPRSSIList[u]
    <3> HIDE DEF cand, s
    <3>1. \E c \in {cand, WithSent(cand, TRUE)} :
            STAAPRSSIList' = [STAAPRSSIList EXCEPT ![s] = c]
      BY <1>6 DEF handleLastRSSI, cand, s
    <3>2. /\ WithSent(cand, TRUE).ap = cand.ap
          /\ WithSent(cand, TRUE).sw = cand.sw
      BY DEF WithSent
    <3> QED
      BY <1>4, <3>1, <3>2
  <2>2. \/ cand.ap = a /\ cand.sw = link[a].sw
        \/ cand.ap = STAAPRSSIList[s].ap /\ cand.sw = STAAPRSSIList[s].sw
    BY DEF Better
  <2>3. Live(a, link[a].sw)
    BY <1>2 DEF Live
  <2> QED
    BY <1>2, <2>1, <2>2, <2>3, NothingLost DEF Live
<1>7. CASE UNCHANGED STAAPRSSIList
  BY <1>2, <1>7, NothingLost DEF Live
<1> QED
  BY <1>1, <1>5, <1>6, <1>7

(***************************************************************************)
(* handleAPRSSI: after a handover the candidate is the AP that answered,   *)
(* which is connected unless it is also the one whose channel the failed   *)
(* encoding closes.                                                        *)
(***************************************************************************)
LEMMA HandleAPRSSICandidate ==
    ASSUME TypeOK, CandidateSwept, NEW a \in AP, HandleAPRSSI(a)
    PROVE  CandidateSwept'
<1> USE DEF TypeOK, LinkTypeOK, ControllerTypeOK
<1> DEFINE s == Head(replies[a]).sta
           c == STAAPRSSIList[s].ap
<1>1. link[a].up /\ link[a].sw \in Nat /\ replies[a] # <<>>
  BY DEF HandleAPRSSI, handleAPRSSI, NoHandover, Handover, Link
<1>2. s \in STA
  <2>1. Head(replies[a]) \in Reply
    BY <1>1, HeadTail
  <2> QED
    BY <2>1 DEF Reply
<1>3. CASE NoHandover(a)
  <2>1. \A u \in STA : /\ STAAPRSSIList'[u].ap = STAAPRSSIList[u].ap
                       /\ STAAPRSSIList'[u].sw = STAAPRSSIList[u].sw
    BY <1>2, <1>3 DEF NoHandover, WithSent
  <2>2. link' = link /\ removal' = removal
    BY <1>3 DEF NoHandover
  <2> QED
    BY <2>1, <2>2, NothingLost DEF Live
<1>4. CASE Handover(a)
  <2>1. /\ removal \subseteq removal'
        /\ \A b \in AP, sw \in Nat : Live(b, sw) =>
             \/ Live(b, sw)'
             \/ \E r \in removal' : r.ap = b /\ r.sw = sw
    <3>1. CASE UNCHANGED <<link, removal>>
      BY <3>1 DEF Live
    <3>2. CASE link' = Closed(c) /\ removal' = Removing(c)
      <4>1. c \in AP
        BY <1>2, <1>4 DEF Handover, Moves, APInfo
      <4> QED
        BY <3>2, <4>1, ClosedRemoving
    <3> QED
      BY <1>4, <3>1, <3>2 DEF Handover
  <2>2. \A u \in STA :
          \/ /\ STAAPRSSIList'[u].ap = a
             /\ STAAPRSSIList'[u].sw = link[a].sw
          \/ STAAPRSSIList'[u] = STAAPRSSIList[u]
    <3> HIDE DEF s
    <3>1. STAAPRSSIList' = [STAAPRSSIList EXCEPT ![s] =
             [ap |-> a, rssi |-> -128, isSent |-> FALSE, sw |-> link[a].sw]]
      BY <1>4 DEF Handover, s
    <3> QED
      BY <1>2, <3>1
  <2>3. Live(a, link[a].sw)
    BY <1>1 DEF Live
  <2> QED
    BY <1>1, <2>1, <2>2, <2>3, NothingLost
<1> QED
  BY <1>3, <1>4 DEF HandleAPRSSI, handleAPRSSI

(***************************************************************************)
(* removedSwitch: the first sweep keeps the removal for the second, the    *)
(* second drops every candidate of the connection.                         *)
(***************************************************************************)
LEMMA RemovedSwitchCandidate ==
    ASSUME TypeOK, CandidateSwept, RemovedSwitch PROVE CandidateSwept'
<1> USE DEF TypeOK, LinkTypeOK, ControllerTypeOK
<1>1. PICK r \in removal : SweepSTAAPList(r) \/ SweepSTAAPRSSIList(r)
  BY DEF RemovedSwitch, removedSwitch
<1>2. CASE SweepSTAAPList(r)
  <2>1. \A q \in removal : \E p \in removal' : p.ap = q.ap /\ p.sw = q.sw
    <3> DEFINE later == [ap |-> r.ap, sw |-> r.sw, sweep |-> "STAAPRSSIList"]
    <3>1. /\ removal' = (removal \ {r}) \cup {later}
          /\ later.ap = r.ap /\ later.sw = r.sw
      BY <1>2 DEF SweepSTAAPList
    <3> HIDE DEF later
    <3> QED
      BY <3>1
  <2>2. UNCHANGED <<link, STAAPRSSIList>>
    BY <1>2 DEF SweepSTAAPList
  <2> QED
    BY <2>1, <2>2 DEF CandidateSwept, Live
<1>3. CASE SweepSTAAPRSSIList(r)
  <2>1. removal' = removal \ {r} /\ UNCHANGED link
    BY <1>3 DEF SweepSTAAPRSSIList
  <2>2. ASSUME NEW s \in STA, STAAPRSSIList'[s].ap # None
        PROVE  /\ STAAPRSSIList'[s] = STAAPRSSIList[s]
               /\ ~(/\ STAAPRSSIList[s].ap = r.ap
                    /\ STAAPRSSIList[s].sw = r.sw)
    BY <1>3, <2>2 DEF SweepSTAAPRSSIList, NoAPInfo
  <2> QED
    BY ZenonT(30), <2>1, <2>2 DEF CandidateSwept, Live
<1> QED
  BY <1>1, <1>2, <1>3

(***************************************************************************)
(* A candidate is never forgotten by removedSwitch: whatever AP the        *)
(* controller keeps as the best alternative for a station, its connection  *)
(* is open or a sweep that drops it is still to come.                      *)
(***************************************************************************)
THEOREM CandidatesSwept == Spec => []CandidateSwept
<1>1. Init => CandidateSwept
  BY DEF Init, ControllerInit, NoAPInfo, CandidateSwept
<1>2. TypeOK /\ CandidateSwept /\ [Next]_vars => CandidateSwept'
  <2> SUFFICES ASSUME TypeOK, CandidateSwept, [Next]_vars
               PROVE  CandidateSwept'
    OBVIOUS
  <2>1. ASSUME NEW a \in AP, Receive(a) PROVE CandidateSwept'
    BY <2>1, ReceiveCandidate
  <2>2. ASSUME NEW a \in AP, HandleAPRSSI(a) PROVE CandidateSwept'
    BY <2>2, HandleAPRSSICandidate
  <2>3. CASE RemovedSwitch
    BY <2>3, RemovedSwitchCandidate
  <2>4. ASSUME NEW a \in AP, ConnOpen(a) PROVE CandidateSwept'
    <3>1. UNCHANGED <<removal, STAAPRSSIList>>
      BY <2>4 DEF ConnOpen, controller_conn_open, ctrlVars
    <3>2. \A b \in AP, sw \in Nat : Live(b, sw) => Live(b, sw)'
      BY <2>4 DEF ConnOpen, controller_conn_open, Live, TypeOK, LinkTypeOK
    <3> QED
      BY <3>1, <3>2, NothingLost
  <2>5. CASE Failure
    <3>1. PICK c \in AP : Cut(c) \/ Restart(c)
      BY <2>5 DEF Failure
    <3>2. /\ link' = Closed(c) /\ removal' = Removing(c)
          /\ UNCHANGED STAAPRSSIList
      BY <3>1 DEF Cut, Restart, ctrlVars
    <3> QED
      BY <3>2, ClosedRemoving, NothingLost
  <2>6. CASE UNCHANGED <<STAAPRSSIList, link, removal>>
    BY <2>6 DEF CandidateSwept, Live
  <2>7. ASSUME NEW s \in STA, Station(s)
        PROVE  UNCHANGED <<STAAPRSSIList, link, removal>>
    BY <2>7
    DEF Station, ctrlVars, linkVars, Probe, Auth, Assoc, Data, Disassoc,
        Deauth, handle_probe_request, handle_auth, handle_assoc,
        handle_disassoc, handle_deauth, Check, data_frames_rssi
  <2>8. ASSUME NEW a \in AP,
               \/ HandleVendor(a)
               \/ \E t \in Thread : ProcessStaData(a, t)
               \/ \E s \in STA : Timer(a, s)
               \/ RecheckFrame(a)
               \/ CommitFrame(a)
               \/ SendFails(a)
        PROVE  UNCHANGED <<STAAPRSSIList, link, removal>>
    BY <2>8
    DEF HandleVendor, ProcessStaData, Timer, RecheckFrame, CommitFrame, Recheck, Commit,
        SendFails, ctrlVars, linkVars, handle_vendor,
        ADD_STA, UPDATE_STA_ADD, REMOVE_STA, handle_ap_rssi, Change,
        process_sta_data, Lookup, Set, Add, Mark, Compare, Report, Proceed,
        notify_controller_disassoc, controller_send_fails
  <2>9. CASE UNCHANGED vars
    BY <2>6, <2>9 DEF vars, ctrlVars, linkVars
  <2> QED
    BY <2>1, <2>2, <2>3, <2>4, <2>5, <2>6, <2>7, <2>8, <2>9 DEF Next
<1> QED
  BY <1>1, <1>2, TypeCorrect, PTL DEF Spec

=============================================================================
