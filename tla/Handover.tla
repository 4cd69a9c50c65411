------------------------------ MODULE Handover ------------------------------
(***************************************************************************)
(* The handover protocol: the controller, the agents of all access points, *)
(* the connections between them, and the stations on the air.              *)
(*                                                                         *)
(* Environment.  A station follows 802.11: it authenticates, associates,   *)
(* sends data, and leaves with a frame that any set of APs may hear (none: *)
(* it is out of range or switched off).  Every event of the environment    *)
(* spends from a budget, which bounds the behaviours.                      *)
(***************************************************************************)
EXTENDS OFSwitchAP, APAgent

CONSTANT
    Budget     \* Budget[k]: how often an event of kind k may happen

Kind == {"probe", "auth", "assoc", "reassoc", "data", "leave",
         "cut", "restart"}

ASSUME BudgetAssumption == Budget \in [Kind -> Nat]

VARIABLES
    phase,     \* phase[s]: how far s believes it has come
    spent      \* spent[k]: events of kind k so far

envVars == <<phase, spent>>

vars == <<linkVars, ctrlVars, agentVars, envVars>>

Phase == {"idle", "authenticated", "associated"}

Spend(k) == /\ spent[k] < Budget[k]
            /\ spent' = [spent EXCEPT ![k] = @ + 1]

Enter(s, p) == phase' = [phase EXCEPT ![s] = p]

-----------------------------------------------------------------------------

(***************************************************************************)
(* What stations do.  A request that no AP accepts changes nothing and     *)
(* gets no answer; it is left out.  A frame is checked by the APs that     *)
(* hear it as it is sent; a frame that finds the event loop of an AP busy  *)
(* is not heard there.                                                     *)
(***************************************************************************)
Probe(a, s) ==
    /\ Spend("probe")
    /\ handle_probe_request(a, s)
    /\ UNCHANGED <<ctrlVars, phase>>

Auth(H, s) ==
    /\ phase[s] # "associated"
    /\ Accepting(H, s, "AUTH_REQ") # {}
    /\ Spend("auth")
    /\ handle_auth(H, s)
    /\ UNCHANGED <<ctrlVars, phase>>

Assoc(H, s, reassoc) ==
    /\ phase[s] = "authenticated"
    /\ Accepting(H, s, "ASSOC_REQ") # {}
    /\ Spend(IF reassoc THEN "reassoc" ELSE "assoc")
    /\ handle_assoc(H, s, reassoc)
    /\ UNCHANGED <<ctrlVars, phase>>

Data(a, t, s, rssi) ==
    /\ phase[s] = "associated"
    /\ Spend("data")
    /\ data_frames_rssi(a, t, s, rssi)
    /\ UNCHANGED <<ctrlVars, phase>>

Disassoc(H, s) ==
    /\ phase[s] = "associated"
    /\ Spend("leave")
    /\ handle_disassoc(H, s)
    /\ Enter(s, "authenticated")
    /\ UNCHANGED ctrlVars

Deauth(H, s) ==
    /\ phase[s] # "idle"
    /\ Spend("leave")
    /\ handle_deauth(H, s)
    /\ Enter(s, "idle")
    /\ UNCHANGED ctrlVars

-----------------------------------------------------------------------------

(***************************************************************************)
(* The connection of a breaks.  Messages under way are lost; threads of a  *)
(* that have not sent yet keep theirs.                                     *)
(***************************************************************************)
Cut(a) ==
    /\ link[a].up
    /\ Spend("cut")
    /\ link' = Closed(a)
    /\ down' = [down EXCEPT ![a] = <<>>]
    /\ replies' = [replies EXCEPT ![a] = <<>>]
    /\ removal' = Removing(a)
    /\ UNCHANGED <<up, ctrlVars, agentVars, phase>>

(***************************************************************************)
(* a stops and starts again, with empty tables.                            *)
(***************************************************************************)
Restart(a) ==
    /\ link[a].up
    /\ Spend("restart")
    /\ link' = Closed(a)
    /\ down' = [down EXCEPT ![a] = <<>>]
    /\ replies' = [replies EXCEPT ![a] = <<>>]
    /\ removal' = Removing(a)
    /\ up' = [up EXCEPT ![a] = <<>>]
    /\ infoSTA' = [infoSTA EXCEPT ![a] = [s \in STA |-> NoInfo]]
    /\ rssiThread' = [rssiThread EXCEPT ![a] = [t \in Thread |-> IdleThread]]
    /\ timer' = [timer EXCEPT ![a] = [s \in STA |-> 0]]
    /\ frame' = [frame EXCEPT ![a] = NoFrame]
    /\ UNCHANGED <<ctrlVars, phase>>

-----------------------------------------------------------------------------

Init ==
    /\ LinkInit
    /\ ControllerInit
    /\ AgentInit
    /\ phase = [s \in STA |-> "idle"]
    /\ spent = [k \in Kind |-> 0]

(***************************************************************************)
(* Steps of the controller: the worker of a connection, and the thread     *)
(* that dispatches switch removals.                                        *)
(***************************************************************************)
Receive(a) == receive(a) /\ UNCHANGED <<agentVars, envVars>>

HandleAPRSSI(a) == handleAPRSSI(a) /\ UNCHANGED <<agentVars, envVars>>

RemovedSwitch == removedSwitch /\ UNCHANGED <<agentVars, envVars>>

(***************************************************************************)
(* Steps of the agent of a: the thread of the controller connection, the   *)
(* RSSI threads, and hostapd's event loop: its timers, and the frame it is *)
(* working on.  A station takes the answer to a request for what it waits  *)
(* for only.                                                               *)
(***************************************************************************)
HandleVendor(a) == handle_vendor(a) /\ UNCHANGED <<ctrlVars, envVars>>

ProcessStaData(a, t) == process_sta_data(a, t) /\ UNCHANGED <<ctrlVars, envVars>>

Timer(a, s) ==
    notify_controller_disassoc(a, s) /\ UNCHANGED <<ctrlVars, envVars>>

RecheckFrame(a) == Recheck(a) /\ UNCHANGED <<ctrlVars, envVars>>

AnswerHeard(s, type) ==
    phase' = [phase EXCEPT ![s] =
                IF type = "AUTH_REQ" /\ @ = "idle" THEN "authenticated"
                ELSE IF type \in Joins /\ @ = "authenticated" THEN "associated"
                ELSE @]

CommitFrame(a) ==
    /\ Commit(a)
    /\ AnswerHeard(frame[a].sta, frame[a].type)
    /\ UNCHANGED <<ctrlVars, spent>>

SendFails(a) == controller_send_fails(a) /\ UNCHANGED <<ctrlVars, envVars>>

ConnOpen(a) == controller_conn_open(a) /\ UNCHANGED <<ctrlVars, envVars>>

Station(s) ==
    \/ \E a \in AP : Probe(a, s)
    \/ \E H \in SUBSET AP :
         \/ Auth(H, s)
         \/ \E reassoc \in BOOLEAN : Assoc(H, s, reassoc)
         \/ Disassoc(H, s)
         \/ Deauth(H, s)
    \/ \E a \in AP, t \in Thread, rssi \in RSSI : Data(a, t, s, rssi)

Failure == \E a \in AP : Cut(a) \/ Restart(a)

Next ==
    \/ \E a \in AP :
         \/ Receive(a)
         \/ HandleAPRSSI(a)
         \/ HandleVendor(a)
         \/ \E t \in Thread : ProcessStaData(a, t)
         \/ \E s \in STA : Timer(a, s)
         \/ RecheckFrame(a)
         \/ CommitFrame(a)
         \/ SendFails(a)
         \/ ConnOpen(a)
    \/ RemovedSwitch
    \/ \E s \in STA : Station(s)
    \/ Failure

Spec == Init /\ [][Next]_vars

(***************************************************************************)
(* Threads that can run do run: the netty workers, the controller's main   *)
(* thread, and every thread of an AP.  Nothing is assumed of stations and  *)
(* failures.                                                               *)
(***************************************************************************)
FairSpec ==
    /\ Spec
    /\ WF_vars(RemovedSwitch)
    /\ \A a \in AP :
         /\ WF_vars(Receive(a))
         /\ WF_vars(HandleAPRSSI(a))
         /\ WF_vars(HandleVendor(a))
         /\ WF_vars(ConnOpen(a))
         /\ WF_vars(RecheckFrame(a) \/ CommitFrame(a))
         /\ \A t \in Thread : WF_vars(ProcessStaData(a, t))

-----------------------------------------------------------------------------

(***************************************************************************)
(* Types.                                                                  *)
(***************************************************************************)
TypeOK ==
    /\ LinkTypeOK
    /\ ControllerTypeOK
    /\ AgentTypeOK
    /\ phase \in [STA -> Phase]
    /\ spent \in [Kind -> Nat]

(***************************************************************************)
(* A message of some type about s is on its way to a.                      *)
(***************************************************************************)
Coming(a, s, type) ==
    \E i \in 1 .. Len(down[a]) : down[a][i] = [type |-> type, sta |-> s]

(***************************************************************************)
(* handle_ap_rssi dereferences the station's entry unchecked, and          *)
(* UPDATE_STA_ADD is silently ignored without one.  Whatever fails, the    *)
(* controller asks, moves to and moves away from an AP only if the AP      *)
(* knows the station by then: it does already, or the ADD_STA that makes   *)
(* it known is ahead in the queue.                                         *)
(***************************************************************************)
OnlyKnown ==
    \A a \in AP : \A i \in 1 .. Len(down[a]) :
       \/ down[a][i].type = "ADD_STA"
       \/ lookupSenderSTA(a, down[a][i].sta)
       \/ \E j \in 1 .. i - 1 :
             down[a][j] = [type |-> "ADD_STA", sta |-> down[a][i].sta]

(***************************************************************************)
(* handleProbeReq: at most one AP at a time is SELECTED for a station, in  *)
(* spite of probe requests heard by several APs and switches that come and *)
(* go.                                                                     *)
(***************************************************************************)
OneSelected ==
    \A s \in STA, a, b \in AP :
       STAAPList[s][a].status = "SELECTED" /\ STAAPList[s][b].status = "SELECTED"
          => a = b

(***************************************************************************)
(* addSTA's entry is SELECTED until process_sta_data marks it: a station   *)
(* is taken to be chosen although the controller never did.  As long as no *)
(* connection has failed, the window closes: a station is SELECTED at an   *)
(* AP that the controller has no pair for only while the thread that made  *)
(* the entry is still to mark it.  An authentication that is checked in    *)
(* the window may be committed after it: AUTHENTICATED promises no pair.   *)
(***************************************************************************)
OnlyChosen ==
    (\A a \in AP : link[a] = [up |-> TRUE, sw |-> 1]) =>
       \A s \in STA, a \in AP :
          Status(a, s) = "SELECTED" =>
             \/ lookupSenderSTAAP(s, a)
             \/ \E t \in Thread :
                   rssiThread[a][t].pc = "mark" /\ rssiThread[a][t].sta = s

(***************************************************************************)
(* isSent keeps handleLastRSSI from asking twice; it must not outlive the  *)
(* question.  As long as no connection has failed, a station marked isSent *)
(* has a question or an answer under way.                                  *)
(***************************************************************************)
QuestionPending ==
    (\A a \in AP : link[a] = [up |-> TRUE, sw |-> 1]) =>
       \A s \in STA : STAAPRSSIList[s].isSent =>
         \E a \in AP : \/ Coming(a, s, "LAST_REC_POW")
                       \/ \E i \in 1 .. Len(replies[a]) : replies[a][i].sta = s

(***************************************************************************)
(* removedSwitch: a candidate whose connection is closed will be dropped;  *)
(* the sweep that does it is still to come.                                *)
(***************************************************************************)
CandidateSwept ==
    \A s \in STA :
       LET cand == STAAPRSSIList[s]
       IN  cand.ap # None /\ ~Live(cand.ap, cand.sw) =>
             \E r \in removal : r.ap = cand.ap /\ r.sw = cand.sw

(***************************************************************************)
(* The same for pairs: an entry whose connection is closed will be         *)
(* dropped.  Otherwise handleProbeReq goes on to ignore the station as     *)
(* "already associated" although no AP has it.                             *)
(***************************************************************************)
PairSwept ==
    \A s \in STA, a \in AP :
       LET entry == STAAPList[s][a]
       IN  entry.status # "null" /\ ~Live(a, entry.sw) =>
             \E r \in removal :
                /\ r.ap = a
                /\ r.sw = entry.sw
                /\ r.sweep = "STAAPList"

-----------------------------------------------------------------------------

(***************************************************************************)
(* The guarantees of a handover for a station that joins once and then     *)
(* only moves.                                                             *)
(***************************************************************************)

(***************************************************************************)
(* handleAPRSSI, handleAssocReq: the controller has the station associated *)
(* at one AP only.                                                         *)
(***************************************************************************)
OneAssociated ==
    \A s \in STA : \A a, b \in findSTAAPInfo(s) : a = b

(***************************************************************************)
(* The controller's lists implement the promise of module Attachment: once *)
(* joined, the station has an AP in every state, whichever probe requests, *)
(* signal strengths and answers are still under way, provided that the     *)
(* threads of an AP do not overtake each other.                            *)
(***************************************************************************)
Promise == INSTANCE Attachment
             WITH serving <- [s \in STA |-> findSTAAPInfo(s)]

ImplementsAttachment == Promise!Spec

(***************************************************************************)
(* Two APs serve the station (and answer its frames, from the same BSSID)  *)
(* only while one of them is about to be told to stop.                     *)
(***************************************************************************)
OneServes ==
    \A s \in STA, a, b \in AP :
       a # b /\ Status(a, s) = "ASSOCIATED" /\ Status(b, s) = "ASSOCIATED"
          => Coming(a, s, "REMOVE_STA") \/ Coming(b, s, "REMOVE_STA")

(***************************************************************************)
(* The handover is seamless: as long as the station believes that it is    *)
(* associated, an AP serves it or is about to be told to.                  *)
(***************************************************************************)
Served ==
    \A s \in STA : phase[s] = "associated" =>
       \E a \in AP : Status(a, s) = "ASSOCIATED" \/ Coming(a, s, "UPDATE_STA_ADD")

(***************************************************************************)
(* handleAPRSSI moves a station away from the one AP that serves it: no    *)
(* answer is left over from before a handover to move it from elsewhere.   *)
(***************************************************************************)
MovesFromServing ==
    [][\A a \in AP : Handover(a) => findSTAAPInfo(Head(replies[a]).sta) = {a}]_vars

(***************************************************************************)
(* Every question is answered: a station does not stay marked isSent.      *)
(***************************************************************************)
Answered == \A s \in STA : STAAPRSSIList[s].isSent ~> ~STAAPRSSIList[s].isSent

(***************************************************************************)
(* However often it is moved, the controller and the AP come to agree on   *)
(* which AP serves an associated station.                                  *)
(***************************************************************************)
Agree == \A s \in STA :
    phase[s] = "associated" ~>
       \E a \in AP : findSTAAPInfo(s) = {a} /\ Status(a, s) = "ASSOCIATED"

-----------------------------------------------------------------------------

(***************************************************************************)
(* handleAPRSSI logs "Removing STA as it has moved towards another AP": an *)
(* answer that leads to a handover leads to one towards another AP.        *)
(***************************************************************************)
MovesElsewhere ==
    \A a \in AP : replies[a] # <<>> =>
       LET m == Head(replies[a])
       IN  Moves(m.sta, a, readByte(m.rssi)) => STAAPRSSIList[m.sta].ap # a

=============================================================================
