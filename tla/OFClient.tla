------------------------------ MODULE OFClient ------------------------------
(***************************************************************************)
(* The switch's side of its connections to the controller: socket, threads *)
(* and handshake.  controller_interface.c of the access point and          *)
(* gatewayNAT.c of the gateway are alike here; only the access point has   *)
(* threads besides controller_run that send.                               *)
(***************************************************************************)
EXTENDS ConnWire

CONSTANTS
    MaxError,   \* 10: failed sends until the socket is given up
    Sender,     \* threads of an access point that send messages
    rx          \* the thread of controller_run

ASSUME MaxErrorAssumption == MaxError \in Nat \ {0}

ASSUME RxAssumption == rx \notin Sender

Thread == Sender \cup {rx}

VARIABLES
    gateway,   \* is the switch the gateway?
    sock,      \* controller->sock, NoConn for -1
    pc,        \* where controller_run stands
    last,      \* the connection opened last
    error,     \* controller->error
    dpid,      \* controller->dpid
    sending    \* sending[t]: where t stands in controller_send

clientVars == <<gateway, sock, pc, last, error, dpid, sending>>

ClientTypeOK ==
    /\ gateway \in BOOLEAN
    /\ sock \in Conn \cup {NoConn}
    /\ pc \in {"open", "connect", "receive", "exited"}
    /\ last \in Conn \cup {NoConn}
    /\ error \in Nat
    /\ dpid \in Dpid
    /\ sending \in [Thread -> {"idle", "failed", "counted"}]

ClientInit ==
    /\ gateway \in BOOLEAN
    /\ sock = NoConn
    /\ pc = "open"
    /\ last = NoConn
    /\ error = 0
    /\ dpid = 0
    /\ sending = [t \in Thread |-> "idle"]

-----------------------------------------------------------------------------

(***************************************************************************)
(* controller_run.  conn_open stores the socket where other threads find   *)
(* it, then waits for the connection.                                      *)
(***************************************************************************)
Socket ==
    /\ pc = "open"
    /\ last < MaxConn
    /\ last' = last + 1
    /\ sock' = last + 1
    /\ tcp' = [tcp EXCEPT ![last + 1] = "connecting"]
    /\ pc' = "connect"
    /\ UNCHANGED <<gateway, error, dpid, sending, toSw, toCtl, spent>>

(***************************************************************************)
(* The wait ends: connected, refused, or ten seconds are over; or another  *)
(* thread has given up the socket meanwhile.  Only a connection made in    *)
(* time sets the datapath id.                                              *)
(***************************************************************************)
Waiting == pc = "connect" /\ sock # NoConn

Connected ==
    /\ Waiting
    /\ tcp[sock] \in {"up", "lost"}
    /\ dpid' = 1
    /\ pc' = "receive"
    /\ UNCHANGED <<gateway, sock, last, error, sending, wireVars>>

Refused ==
    /\ Waiting
    /\ tcp[sock] = "fin"
    /\ sock' = NoConn
    /\ pc' = "open"
    /\ UNCHANGED <<gateway, last, error, dpid, sending, wireVars>>

TimedOut ==
    /\ Waiting
    /\ tcp[sock] = "connecting"
    /\ Spend("fault")
    /\ pc' = "receive"
    /\ UNCHANGED <<gateway, sock, last, error, dpid, sending, tcp, toSw, toCtl>>

conn_open == Socket \/ Connected \/ Refused \/ TimedOut

(***************************************************************************)
(* The socket is -1 when controller_run looks again.                       *)
(***************************************************************************)
GivenUp ==
    /\ pc \in {"connect", "receive"}
    /\ sock = NoConn
    /\ sending[rx] = "idle"
    /\ pc' = "open"
    /\ UNCHANGED <<gateway, sock, last, error, dpid, sending, wireVars>>

-----------------------------------------------------------------------------

(***************************************************************************)
(* controller_send by t of the messages msgs, at most one.  send fails     *)
(* while the socket is not connected yet, or not any more.  A message into *)
(* a connection whose other end is gone may also be written and vanish;    *)
(* after that the kernel knows.                                            *)
(***************************************************************************)
Delivered(msgs) ==
    /\ tcp[sock] = "up" \/ msgs = <<>>
    /\ toCtl' = [toCtl EXCEPT ![sock] = @ \o msgs]
    /\ UNCHANGED <<sending, tcp>>

Vanished(msgs) ==
    /\ tcp[sock] \in {"lost", "fin"}
    /\ msgs # <<>>
    /\ tcp' = [tcp EXCEPT ![sock] = "fin"]
    /\ UNCHANGED <<sending, toCtl>>

Failed(t, msgs) ==
    /\ tcp[sock] \in {"connecting", "fin"}
    /\ msgs # <<>>
    /\ sending' = [sending EXCEPT ![t] = "failed"]
    /\ UNCHANGED <<tcp, toCtl>>

controller_send(t, msgs) == Delivered(msgs) \/ Vanished(msgs) \/ Failed(t, msgs)

(***************************************************************************)
(* controller->error++ and the comparison.  Threads race between the two,  *)
(* and an increment may be lost to another one.                            *)
(***************************************************************************)
CountError(t) ==
    /\ sending[t] = "failed"
    /\ sending' = [sending EXCEPT ![t] = "counted"]
    /\ \/ error' = error + 1
       \/ /\ \E u \in Thread \ {t} : sending[u] = "failed"
          /\ UNCHANGED error
    /\ UNCHANGED <<gateway, sock, pc, last, dpid, wireVars>>

CompareError(t) ==
    /\ sending[t] = "counted"
    /\ sending' = [sending EXCEPT ![t] = "idle"]
    /\ error' = IF error = MaxError THEN 0 ELSE error
    /\ sock' = IF error = MaxError THEN NoConn ELSE sock
    /\ UNCHANGED <<gateway, pc, last, dpid, wireVars>>

(***************************************************************************)
(* A thread of an access point has a message for the controller.           *)
(***************************************************************************)
process_sta_msg(t) ==
    /\ ~gateway
    /\ t # rx
    /\ Spend("send")
    /\ sending[t] = "idle"
    /\ sock # NoConn
    /\ controller_send(t, <<[type |-> "WLAN", dpid |-> 0]>>)
    /\ UNCHANGED <<gateway, sock, pc, last, error, dpid, toSw>>

-----------------------------------------------------------------------------

(***************************************************************************)
(* process_controller_msg: what the switch answers.  The gateway takes the *)
(* deletion of all flows, which ends the handshake, as the moment to make  *)
(* itself known.                                                           *)
(***************************************************************************)
Reply(type) == <<[type |-> type, dpid |-> dpid]>>

AnswerTo_bug(request) ==
    CASE request = "HELLO" -> Reply("HELLO")
      [] request = "FEATURES_REQUEST" ->
            IF gateway THEN Reply("FEATURES_REPLY") \o Reply("GW_CONNECT")
                       ELSE Reply("FEATURES_REPLY")
      [] request = "GET_CONFIG_REQUEST" -> Reply("GET_CONFIG_REPLY")
      [] request = "STATS_REQUEST" -> Reply("STATS_REPLY")
      [] OTHER -> <<>>

AnswerTo(request) ==
    CASE request = "HELLO" -> Reply("HELLO")
      [] request = "FEATURES_REQUEST" -> Reply("FEATURES_REPLY")
      [] request = "GET_CONFIG_REQUEST" -> Reply("GET_CONFIG_REPLY")
      [] request = "STATS_REQUEST" -> Reply("STATS_REPLY")
      [] request = "FLOW_MOD" /\ gateway -> Reply("GW_CONNECT")
      [] OTHER -> <<>>

(***************************************************************************)
(* controller_receive: a message; the end of the connection, which is      *)
(* forgotten and not closed; or a message whose body has not arrived yet:  *)
(* the socket does not block, recv fails, and the process exits.           *)
(***************************************************************************)
Receiving == pc = "receive" /\ sock # NoConn /\ sending[rx] = "idle"

RecvMessage ==
    /\ Receiving
    /\ toSw[sock] # <<>>
    /\ controller_send(rx, AnswerTo(Head(toSw[sock])))
    /\ toSw' = [toSw EXCEPT ![sock] = Tail(@)]
    /\ UNCHANGED <<gateway, sock, pc, last, error, dpid, spent>>

RecvEnd_bug ==
    /\ Receiving
    /\ toSw[sock] = <<>>
    /\ tcp[sock] = "fin"
    /\ UNCHANGED <<clientVars, wireVars>>

RecvEnd ==
    /\ Receiving
    /\ toSw[sock] = <<>>
    /\ tcp[sock] = "fin"
    /\ sock' = NoConn
    /\ pc' = "open"
    /\ UNCHANGED <<gateway, last, error, dpid, sending, wireVars>>

HasBody == {"SET_CONFIG", "STATS_REQUEST", "FLOW_MOD"}

Dies ==
    /\ sock' = NoConn
    /\ pc' = "exited"
    /\ error' = 0
    /\ dpid' = 0
    /\ sending' = [t \in Thread |-> "idle"]
    /\ tcp' = [c \in Conn |-> IF tcp[c] \in {"none", "lost"} THEN tcp[c] ELSE "gone"]
    /\ toSw' = [c \in Conn |-> <<>>]
    /\ UNCHANGED <<gateway, last, toCtl>>

Exit ==
    /\ Receiving
    /\ toSw[sock] # <<>>
    /\ Head(toSw[sock]) \in HasBody
    /\ Spend("fault")
    /\ Dies

controller_receive == RecvMessage \/ RecvEnd \/ Exit

(***************************************************************************)
(* send without MSG_NOSIGNAL into a connection that is no more: the first  *)
(* one may report an error or seem to succeed (Failed, Vanished), but      *)
(* sooner or later one raises SIGPIPE, which neither program handles.      *)
(***************************************************************************)
Answering ==
    /\ Receiving
    /\ toSw[sock] # <<>>
    /\ AnswerTo(Head(toSw[sock])) # <<>>

SIGPIPE ==
    /\ sock # NoConn
    /\ tcp[sock] = "fin"
    /\ \/ Answering /\ UNCHANGED spent
       \/ /\ ~gateway
          /\ \E t \in Sender : sending[t] = "idle"
          /\ Spend("send")
    /\ Dies

(***************************************************************************)
(* Somebody starts the program again; no script does.                      *)
(***************************************************************************)
Start ==
    /\ pc = "exited"
    /\ pc' = "open"
    /\ UNCHANGED <<gateway, sock, last, error, dpid, sending, wireVars>>

=============================================================================
