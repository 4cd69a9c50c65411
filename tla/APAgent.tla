------------------------------ MODULE APAgent -------------------------------
(***************************************************************************)
(* The agent in every access point: controller_interface.c, and the hooks  *)
(* that hostapd's frame handlers (ieee802_11.c) call it from.              *)
(*                                                                         *)
(* Three kinds of threads share the infoSTA table: hostapd's event loop    *)
(* (frames and timers), the thread that receives from the controller, and  *)
(* one thread for every data frame's RSSI.  Messages about frames are sent *)
(* by detached threads of their own, modelled by their place in up[a].     *)
(***************************************************************************)
EXTENDS Wlan

CONSTANTS
    Thread,         \* the RSSI threads an AP may have at a time
    max_num_sta     \* capacity of the infoSTA table

ASSUME MaxNumStaAssumption == max_num_sta \in Nat

VARIABLES
    infoSTA,        \* infoSTA[a][s]: what a knows of s
    rssiThread,     \* rssiThread[a][t]: a thread in process_sta_data
    timer,          \* timer[a][s]: notify_controller_disassoc timers running
    frame           \* frame[a]: the frame that a's event loop is working on

agentVars == <<infoSTA, rssiThread, timer, frame>>

(***************************************************************************)
(* struct infoSTA.  last is lastReceivedSignalStrength.                    *)
(***************************************************************************)
Info == [status : STAStatus \cup {"null"}, last : 0 .. 255]

NoInfo == [status |-> "null", last |-> 0]

(***************************************************************************)
(* Where a thread stands in process_sta_data, and the frame it is about.   *)
(***************************************************************************)
PC == {"lookup", "add", "mark", "compare", "report", "set"}

IdleThread == [pc |-> "idle", sta |-> None, rssi |-> 0]

RSSIThread == [pc : PC, sta : STA, rssi : 0 .. 255] \cup {IdleThread}

(***************************************************************************)
(* A frame that has passed the check of its handler, under the message     *)
(* that its commit sends.  DISASSOC has still to be checked a second time. *)
(***************************************************************************)
Joins == {"ASSOC_REQ", "REASSOC_REQ"}

FrameType == {"AUTH_REQ", "DISASSOC", "DISASSOC_REQ", "DEAUTH_REQ"} \cup Joins

NoFrame == [type |-> "none", sta |-> None]

Frame == [type : FrameType, sta : STA] \cup {NoFrame}

AgentTypeOK ==
    /\ infoSTA \in [AP -> [STA -> Info]]
    /\ rssiThread \in [AP -> [Thread -> RSSIThread]]
    /\ timer \in [AP -> [STA -> Nat]]
    /\ frame \in [AP -> Frame]

AgentInit ==
    /\ infoSTA = [a \in AP |-> [s \in STA |-> NoInfo]]
    /\ rssiThread = [a \in AP |-> [t \in Thread |-> IdleThread]]
    /\ timer = [a \in AP |-> [s \in STA |-> 0]]
    /\ frame = [a \in AP |-> NoFrame]

lookupSenderSTA(a, s) == infoSTA[a][s].status # "null"

Status(a, s) == infoSTA[a][s].status

(***************************************************************************)
(* The infoSTA that changeStatus leaves behind.                            *)
(***************************************************************************)
changeStatus(info, status) ==
    [status |-> status,
     last |-> IF status = "NOT_AUTHENTICATED" THEN 0 ELSE info.last]

(***************************************************************************)
(* The infoSTA that changeRSSI leaves behind.                              *)
(***************************************************************************)
changeRSSI(info, rssi) == [status |-> info.status, last |-> rssi]

(***************************************************************************)
(* addSTA returns NULL when the table is full; entries are never freed.    *)
(* The entry it makes is zeroed, and 0 is SELECTED.                        *)
(***************************************************************************)
Full(a) == Cardinality({s \in STA : lookupSenderSTA(a, s)}) >= max_num_sta

addSTA(info) == IF info.status = "null" THEN [status |-> "SELECTED", last |-> 0]
                                        ELSE info

-----------------------------------------------------------------------------

(***************************************************************************)
(* Frames.  All APs have the same BSSID: H are the APs that hear a frame.  *)
(* A handler reads the status without the mutex, and sets the new one many *)
(* lines later; the other threads run in between.  The event loop is one   *)
(* thread: an AP has one frame at a time between the two.  Check is the    *)
(* hook at the start of handle_auth, handle_assoc, handle_disassoc and     *)
(* handle_deauth: an AP where the station has the status the handler asks  *)
(* for goes on, the others drop the frame.                                 *)
(***************************************************************************)
Demanded(type) == IF type = "AUTH_REQ" THEN "SELECTED"
                  ELSE IF type \in Joins THEN "AUTHENTICATED" ELSE "ASSOCIATED"

Accepting(H, s, type) ==
    {a \in H : frame[a] = NoFrame /\ Status(a, s) = Demanded(type)}

Check(H, s, type) ==
    /\ frame' = [a \in AP |-> IF a \in Accepting(H, s, type)
                              THEN [type |-> type, sta |-> s] ELSE frame[a]]
    /\ UNCHANGED <<infoSTA, rssiThread, timer, linkVars>>

handle_auth(H, s) == Check(H, s, "AUTH_REQ")

handle_assoc(H, s, reassoc) ==
    Check(H, s, IF reassoc THEN "REASSOC_REQ" ELSE "ASSOC_REQ")

handle_disassoc(H, s) == Check(H, s, "DISASSOC")

handle_deauth(H, s) == Check(H, s, "DEAUTH_REQ")

(***************************************************************************)
(* The end of handle_disassoc registers notify_controller_disassoc if      *)
(* hostapd's own timeout_next, which is not modelled, says so.             *)
(***************************************************************************)
RegisterTimeout(a, s) == timer' \in {timer, [timer EXCEPT ![a][s] = @ + 1]}

(***************************************************************************)
(* handle_disassoc looks at the status again before it changes it.         *)
(***************************************************************************)
Recheck(a) ==
    LET s == frame[a].sta
    IN  /\ frame[a].type = "DISASSOC"
        /\ \/ /\ Status(a, s) = "ASSOCIATED"
              /\ frame' = [frame EXCEPT ![a] = [type |-> "DISASSOC_REQ", sta |-> s]]
              /\ UNCHANGED timer
           \/ /\ Status(a, s) # "ASSOCIATED"
              /\ frame' = [frame EXCEPT ![a] = NoFrame]
              /\ RegisterTimeout(a, s)
        /\ UNCHANGED <<infoSTA, rssiThread, linkVars>>

(***************************************************************************)
(* The hook at the end of the handlers: the status changes, whatever it is *)
(* by now, and a thread is started that sends the message.                 *)
(***************************************************************************)
Committed(type) == IF type \in Joins THEN "ASSOCIATED"
                   ELSE IF type = "DEAUTH_REQ" THEN "NOT_AUTHENTICATED"
                   ELSE "AUTHENTICATED"

Commit(a) ==
    LET s == frame[a].sta
        type == frame[a].type
    IN  /\ type \notin {"none", "DISASSOC"}
        /\ infoSTA' = [infoSTA EXCEPT ![a][s] = changeStatus(@, Committed(type))]
        /\ up' = [up EXCEPT ![a] = Append(@, up_msg(type, s))]
        /\ frame' = [frame EXCEPT ![a] = NoFrame]
        /\ IF type = "DISASSOC_REQ" THEN RegisterTimeout(a, s)
                                    ELSE UNCHANGED timer
        /\ UNCHANGED <<rssiThread, link, down, replies, removal>>

(***************************************************************************)
(* A probe request is passed on whatever is known of the station.          *)
(***************************************************************************)
handle_probe_request(a, s) ==
    /\ frame[a] = NoFrame
    /\ up' = [up EXCEPT ![a] = Append(@, up_msg("PROBE", s))]
    /\ UNCHANGED <<agentVars, link, down, replies, removal>>

(***************************************************************************)
(* One second after a disassociation, in the event loop as well.  What it  *)
(* sends and leaves behind is that of a deauthentication.                  *)
(***************************************************************************)
notify_controller_disassoc(a, s) ==
    /\ frame[a] = NoFrame
    /\ timer[a][s] > 0
    /\ timer' = [timer EXCEPT ![a][s] = @ - 1]
    /\ frame' = IF Status(a, s) = "AUTHENTICATED"
                THEN [frame EXCEPT ![a] = [type |-> "DEAUTH_REQ", sta |-> s]]
                ELSE frame
    /\ UNCHANGED <<infoSTA, rssiThread, linkVars>>

-----------------------------------------------------------------------------

(***************************************************************************)
(* process_sta_data, one thread for every data frame heard.  The status    *)
(* and the last RSSI are read without the mutex, each change takes it: one *)
(* step for every such access.  Proceed is a step of thread t to pc, which *)
(* leaves info in the table.                                               *)
(***************************************************************************)
data_frames_rssi(a, t, s, rssi) ==
    /\ rssiThread[a][t].pc = "idle"
    /\ rssiThread' = [rssiThread EXCEPT ![a][t] =
                        [pc |-> "lookup", sta |-> s, rssi |-> rssi]]
    /\ UNCHANGED <<infoSTA, timer, frame, linkVars>>

Proceed(a, t, pc, info) ==
    /\ rssiThread' = [rssiThread EXCEPT ![a][t] =
                        IF pc = "idle" THEN IdleThread
                        ELSE [pc |-> pc, sta |-> @.sta, rssi |-> @.rssi]]
    /\ infoSTA' = [infoSTA EXCEPT ![a][rssiThread[a][t].sta] = info]
    /\ UNCHANGED <<timer, frame, link, down, replies, removal>>

Lookup(a, t) ==
    LET info == infoSTA[a][rssiThread[a][t].sta]
    IN  /\ rssiThread[a][t].pc = "lookup"
        /\ Proceed(a, t,
             IF info.status = "ASSOCIATED" THEN "set"
             ELSE IF info.status = "null" THEN "add" ELSE "compare", info)
        /\ UNCHANGED up

Set(a, t) ==
    LET thread == rssiThread[a][t]
    IN  /\ thread.pc = "set"
        /\ Proceed(a, t, "idle",
                   changeRSSI(infoSTA[a][thread.sta], thread.rssi))
        /\ UNCHANGED up

Add_bug(a, t) ==
    LET info == infoSTA[a][rssiThread[a][t].sta]
    IN  /\ rssiThread[a][t].pc = "add"
        /\ \/ /\ info.status = "null" /\ Full(a)
              /\ Proceed(a, t, "idle", info)
           \/ /\ info.status # "null" \/ ~Full(a)
              /\ Proceed(a, t, "compare", addSTA(info))
        /\ UNCHANGED up

Add(a, t) ==
    LET info == infoSTA[a][rssiThread[a][t].sta]
    IN  /\ rssiThread[a][t].pc = "add"
        /\ \/ /\ info.status = "null" /\ Full(a)
              /\ Proceed(a, t, "idle", info)
           \/ /\ info.status # "null" \/ ~Full(a)
              /\ Proceed(a, t, "mark", addSTA(info))
        /\ UNCHANGED up

Mark(a, t) ==
    /\ rssiThread[a][t].pc = "mark"
    /\ Proceed(a, t, "compare",
         changeStatus(infoSTA[a][rssiThread[a][t].sta], "NOT_AUTHENTICATED"))
    /\ UNCHANGED up

Compare(a, t) ==
    LET thread == rssiThread[a][t]
        info == infoSTA[a][thread.sta]
    IN  /\ thread.pc = "compare"
        /\ Proceed(a, t, IF info.last < thread.rssi THEN "report" ELSE "idle",
                   info)
        /\ UNCHANGED up

Report(a, t) ==
    LET thread == rssiThread[a][t]
    IN  /\ thread.pc = "report"
        /\ Proceed(a, t, "idle",
                   changeRSSI(infoSTA[a][thread.sta], thread.rssi))
        /\ up' = [up EXCEPT ![a] =
                    Append(@, [type |-> "REC_POW", sta |-> thread.sta,
                               rssi |-> thread.rssi])]

process_sta_data(a, t) ==
    \/ Lookup(a, t) \/ Set(a, t) \/ Add(a, t)
    \/ Mark(a, t) \/ Compare(a, t) \/ Report(a, t)

-----------------------------------------------------------------------------

(***************************************************************************)
(* handle_vendor: a receives the next message of the controller, also what *)
(* is left of it on a connection that the controller has closed.           *)
(***************************************************************************)
Received(a, type) == down[a] # <<>> /\ Head(down[a]).type = type

Change(a, info) ==
    /\ infoSTA' = [infoSTA EXCEPT ![a][Head(down[a]).sta] = info]
    /\ down' = [down EXCEPT ![a] = Tail(@)]
    /\ UNCHANGED <<rssiThread, timer, frame, link, up, removal>>

ADD_STA(a) ==
    LET info == infoSTA[a][Head(down[a]).sta]
    IN  /\ Received(a, "ADD_STA")
        /\ Change(a, IF info.status = "null" /\ Full(a) THEN info
                     ELSE changeStatus(addSTA(info), "SELECTED"))
        /\ UNCHANGED replies

(***************************************************************************)
(* A station that a does not know is ignored.                              *)
(***************************************************************************)
UPDATE_STA_ADD_bug(a) ==
    LET info == infoSTA[a][Head(down[a]).sta]
    IN  /\ Received(a, "UPDATE_STA_ADD")
        /\ Change(a, IF info.status # "AUTHENTICATED" THEN info
                     ELSE changeStatus(info, "ASSOCIATED"))
        /\ UNCHANGED replies

UPDATE_STA_ADD(a) ==
    LET info == infoSTA[a][Head(down[a]).sta]
    IN  /\ Received(a, "UPDATE_STA_ADD")
        /\ Change(a, IF info.status = "null" THEN info
                     ELSE changeStatus(info, "ASSOCIATED"))
        /\ UNCHANGED replies

REMOVE_STA_bug(a) ==
    LET info == infoSTA[a][Head(down[a]).sta]
    IN  /\ Received(a, "REMOVE_STA")
        /\ Change(a, IF info.status = "ASSOCIATED" THEN info
                     ELSE changeStatus(info, "NOT_AUTHENTICATED"))
        /\ UNCHANGED replies

REMOVE_STA(a) ==
    LET info == infoSTA[a][Head(down[a]).sta]
    IN  /\ Received(a, "REMOVE_STA")
        /\ Change(a, IF info.status = "null" THEN info
                     ELSE changeStatus(info, "NOT_AUTHENTICATED"))
        /\ UNCHANGED replies

(***************************************************************************)
(* LAST_REC_POW.  The code dereferences the entry without looking whether  *)
(* there is one.                                                           *)
(***************************************************************************)
handle_ap_rssi_bug(a) ==
    LET s == Head(down[a]).sta
    IN  /\ Received(a, "LAST_REC_POW")
        /\ Change(a, infoSTA[a][s])
        /\ replies' = IF link[a].up /\ infoSTA[a][s].last > 0
                      THEN [replies EXCEPT ![a] =
                              Append(@, [sta |-> s, rssi |-> infoSTA[a][s].last])]
                      ELSE replies

handle_ap_rssi(a) ==
    LET s == Head(down[a]).sta
    IN  /\ Received(a, "LAST_REC_POW")
        /\ Change(a, infoSTA[a][s])
        /\ replies' = IF link[a].up
                      THEN [replies EXCEPT ![a] =
                              Append(@, [sta |-> s, rssi |-> infoSTA[a][s].last])]
                      ELSE replies

handle_vendor(a) ==
    ADD_STA(a) \/ UPDATE_STA_ADD(a) \/ REMOVE_STA(a) \/ handle_ap_rssi(a)

-----------------------------------------------------------------------------

(***************************************************************************)
(* controller_send finds no socket: the message of a thread is dropped.    *)
(* This is also a message that was under way when the connection broke.    *)
(***************************************************************************)
controller_send_fails(a) ==
    /\ ~link[a].up
    /\ up[a] # <<>>
    /\ up' = [up EXCEPT ![a] = Tail(@)]
    /\ UNCHANGED <<agentVars, link, down, replies, removal>>

(***************************************************************************)
(* controller_run: the loop reads what is left, then connects again.       *)
(***************************************************************************)
controller_conn_open(a) ==
    /\ ~link[a].up
    /\ down[a] = <<>>
    /\ link' = [link EXCEPT ![a] = [up |-> TRUE, sw |-> @.sw + 1]]
    /\ UNCHANGED <<agentVars, down, up, replies, removal>>

=============================================================================
