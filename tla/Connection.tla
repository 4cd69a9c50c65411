----------------------------- MODULE Connection -----------------------------
(***************************************************************************)
(* A switch and Floodlight, with the connections between them.             *)
(***************************************************************************)
EXTENDS OFClient, Controller

vars == <<wireVars, clientVars, ctrlVars>>

Init == WireInit /\ ClientInit /\ ControllerInit

(***************************************************************************)
(* The switch reads from c, so it answers echo requests.                   *)
(***************************************************************************)
Answers(c) == sock = c /\ tcp[c] = "up"

Client ==
    /\ \/ conn_open \/ GivenUp \/ controller_receive \/ SIGPIPE \/ Start
       \/ \E t \in Thread : CountError(t) \/ CompareError(t) \/ process_sta_msg(t)
    /\ UNCHANGED ctrlVars

Server(c) ==
    /\ \/ channelConnected(c) \/ processOFMessage(c) \/ addSwitch(c)
       \/ addSwitchEnd(c) \/ channelDisconnected(c) \/ RemoteClosed(c) \/ Reset(c)
       \/ ReadTimeout(c, Answers(c)) \/ HandshakeTimeout(c)
    /\ UNCHANGED clientVars

Dispatch == (dispatch \/ dispatchEnd) /\ UNCHANGED clientVars

Network(c) == (Refuse(c) \/ Vanish(c)) /\ UNCHANGED <<clientVars, ctrlVars>>

Next ==
    \/ Client
    \/ Dispatch
    \/ \E c \in Conn : Server(c) \/ Network(c)

Spec == Init /\ [][Next]_vars

(***************************************************************************)
(* The loop of controller_run goes round, threads that are in              *)
(* controller_send leave it, the threads of the controller handle what     *)
(* there is, timeouts expire, and a connection request that nobody refuses *)
(* is accepted.  Nothing is assumed of faults, of the threads that have    *)
(* something to send, and of whoever starts a process that has ended.      *)
(***************************************************************************)
Loop ==
    /\ Socket \/ Connected \/ Refused \/ GivenUp \/ RecvMessage \/ RecvEnd
    /\ UNCHANGED ctrlVars

Leave(t) == (CountError(t) \/ CompareError(t)) /\ UNCHANGED ctrlVars

Accepting(c) == channelConnected(c) /\ UNCHANGED clientVars

Handling(c) ==
    /\ \/ processOFMessage(c) \/ addSwitch(c) \/ addSwitchEnd(c)
       \/ RemoteClosed(c) \/ ReadTimeout(c, Answers(c))
    /\ UNCHANGED clientVars

Disconnecting(c) == channelDisconnected(c) /\ UNCHANGED clientVars

FairSpec ==
    /\ Spec
    /\ WF_vars(Loop)
    /\ WF_vars(Dispatch)
    /\ \A t \in Thread : WF_vars(Leave(t))
    /\ \A c \in Conn : /\ WF_vars(Accepting(c))
                       /\ WF_vars(Handling(c))
                       /\ WF_vars(Disconnecting(c))

-----------------------------------------------------------------------------

(***************************************************************************)
(* Types.                                                                  *)
(***************************************************************************)
TypeOK == WireTypeOK /\ ClientTypeOK /\ ControllerTypeOK

(***************************************************************************)
(* gwSwitch: if its connection has ended, the removedSwitch that clears it *)
(* is still to come, from the main thread or from a connection that takes  *)
(* its place, or some thread is about to null it.  Otherwise handleAPRSSI  *)
(* would write to it for ever.                                             *)
(***************************************************************************)
GwSwitchSwept ==
    gwSwitch # NoConn /\ chan[gwSwitch].done =>
       \/ \E i \in 1 .. Len(updates) : updates[i] = gwSwitch
       \/ \E c \in Conn : chan[c].replacing = gwSwitch
       \/ clearing # {}

(***************************************************************************)
(* activeSwitches: a connection that has completed the handshake, and has  *)
(* not been replaced, is in the list; the end of an older connection does  *)
(* not take it out.                                                        *)
(***************************************************************************)
ReadyActive ==
    \A c \in Conn :
       /\ chan[c].open
       /\ chan[c].connected
       /\ chan[c].hsState = "READY"
       => \/ activeSwitches[chan[c].id] = c
          \/ \E d \in Conn : chan[d].replacing = c

(***************************************************************************)
(* processOFMessage: the switch answers in an order in which no exception  *)
(* closes the channel, on old connections as well, and the gateway makes   *)
(* itself known only when the controller is ready to listen.               *)
(***************************************************************************)
NothingUnexpected ==
    \A c \in Conn : ~chan[c].done /\ toCtl[c] # <<>> =>
       /\ Expected(c, Head(toCtl[c]))
       /\ Head(toCtl[c]).type = "GW_CONNECT" => chan[c].hsState = "READY"

(***************************************************************************)
(* controller_run: unless its process has ended, or the other end has      *)
(* vanished without a trace, the switch ends with a connection that the    *)
(* controller uses too, whatever was refused, reset, timed out or given up *)
(* before.  gwSwitch does not stay at an older connection, though a late   *)
(* removal may leave it at null.                                           *)
(***************************************************************************)
Registered(c) ==
    /\ sock = c
    /\ tcp[c] = "up"
    /\ chan[c].hsState = "READY"
    /\ activeSwitches[chan[c].id] = c
    /\ gwSwitch \in (IF gateway THEN {c, NoConn} ELSE {NoConn})

Stuck == sock # NoConn /\ tcp[sock] = "lost"

Reconnects ==
    \/ <>[](pc = "exited")
    \/ <>[]Stuck
    \/ <>[](\E c \in Conn : Registered(c))

(***************************************************************************)
(* conn_open makes the socket non-blocking "so that we don't hang forever  *)
(* if target dies unexpectedly"; of the gateway, whose only sender is the  *)
(* thread that waits in recv.                                              *)
(***************************************************************************)
NoHang == gateway /\ Stuck ~> ~Stuck

=============================================================================
