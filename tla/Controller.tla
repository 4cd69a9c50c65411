----------------------------- MODULE Controller -----------------------------
(***************************************************************************)
(* Floodlight's side of the connections of one switch (Controller.java):   *)
(* the handshake on every channel, the list of active switches, and what   *)
(* the application (OFSwitchAP) hears of them.  The thread of a channel    *)
(* handles its messages one by one.  Removals are dispatched by the main   *)
(* thread, or by the thread of a new connection that finds an old one in   *)
(* its place.                                                              *)
(***************************************************************************)
EXTENDS ConnWire

VARIABLES
    chan,            \* chan[c]: the channel handler of c and its switch
    activeSwitches,  \* activeSwitches[d]: the connection of datapath d
    updates,         \* connections whose removal is to be dispatched
    gwSwitch,        \* the application's gwSwitch
    clearing         \* threads in removedSwitch that have still to null it

ctrlVars == <<chan, activeSwitches, updates, gwSwitch, clearing>>

HandshakeState == {"START", "HELLO", "FEATURES_REPLY", "READY"}

(***************************************************************************)
(* OFChannelState, and what is used of OFSwitchImpl.  done:                *)
(* channelDisconnected has run.  replacing: the connection that addSwitch  *)
(* has found under the same datapath id and has still to remove.           *)
(***************************************************************************)
Channel == [open : BOOLEAN, done : BOOLEAN, hsState : HandshakeState,
            hasDescription : BOOLEAN, hasGetConfigReply : BOOLEAN,
            connected : BOOLEAN, id : Dpid, replacing : Conn \cup {NoConn}]

NewChannel == [open |-> TRUE, done |-> FALSE, hsState |-> "START",
               hasDescription |-> FALSE, hasGetConfigReply |-> FALSE,
               connected |-> TRUE, id |-> 0, replacing |-> NoConn]

NoChannel == [open |-> FALSE, done |-> TRUE, hsState |-> "START",
              hasDescription |-> FALSE, hasGetConfigReply |-> FALSE,
              connected |-> FALSE, id |-> 0, replacing |-> NoConn]

ControllerTypeOK ==
    /\ chan \in [Conn -> Channel]
    /\ activeSwitches \in [Dpid -> Conn \cup {NoConn}]
    /\ updates \in Seq(Conn)
    /\ gwSwitch \in Conn \cup {NoConn}
    /\ clearing \subseteq Conn \cup {NoConn}

ControllerInit ==
    /\ chan = [c \in Conn |-> NoChannel]
    /\ activeSwitches = [d \in Dpid |-> NoConn]
    /\ updates = <<>>
    /\ gwSwitch = NoConn
    /\ clearing = {}

Written(c, msgs) ==
    IF tcp[c] = "up" THEN [toSw EXCEPT ![c] = @ \o msgs] ELSE toSw

(***************************************************************************)
(* channel.close(): the switch reads what was written before; of the       *)
(* messages msgs that are left, those that Netty has read already are      *)
(* still handled, the others are dropped.                                  *)
(***************************************************************************)
Hangup(c, msgs) ==
    /\ tcp' = [tcp EXCEPT ![c] = IF @ = "up" THEN "fin" ELSE @]
    /\ \E n \in 0 .. Len(msgs) :
          toCtl' = [toCtl EXCEPT ![c] = SubSeq(msgs, 1, n)]

Close(c, msgs) ==
    /\ chan' = [chan EXCEPT ![c].open = FALSE]
    /\ Hangup(c, msgs)
    /\ UNCHANGED <<toSw, activeSwitches, updates, gwSwitch, clearing>>

-----------------------------------------------------------------------------

channelConnected(c) ==
    /\ tcp[c] = "connecting"
    /\ tcp' = [tcp EXCEPT ![c] = "up"]
    /\ chan' = [chan EXCEPT ![c] = NewChannel]
    /\ toSw' = [toSw EXCEPT ![c] = <<"HELLO">>]
    /\ UNCHANGED <<toCtl, spent, activeSwitches, updates, gwSwitch, clearing>>

(***************************************************************************)
(* The thread of c takes a message.  One that the handshake does not       *)
(* expect is a SwitchStateException, which closes the channel.             *)
(***************************************************************************)
Handles(c, type) ==
    /\ ~chan[c].done
    /\ chan[c].replacing = NoConn
    /\ toCtl[c] # <<>>
    /\ Head(toCtl[c]).type = type

Expected(c, m) ==
    CASE m.type = "HELLO" -> chan[c].hsState = "START"
      [] m.type = "GET_CONFIG_REPLY" -> chan[c].hsState = "FEATURES_REPLY"
      [] m.type = "STATS_REPLY" -> chan[c].hsState \in {"FEATURES_REPLY", "READY"}
      [] OTHER -> TRUE

Taken(c) == /\ toCtl' = [toCtl EXCEPT ![c] = Tail(@)]
            /\ UNCHANGED <<tcp, spent, updates>>

SwitchStateException(c) == Close(c, Tail(toCtl[c])) /\ UNCHANGED spent

Hello(c) ==
    /\ Handles(c, "HELLO")
    /\ IF Expected(c, Head(toCtl[c]))
       THEN /\ chan' = [chan EXCEPT ![c].hsState = "HELLO"]
            /\ toSw' = Written(c, <<"FEATURES_REQUEST">>)
            /\ Taken(c)
            /\ UNCHANGED <<activeSwitches, gwSwitch, clearing>>
       ELSE SwitchStateException(c)

(***************************************************************************)
(* sendFeatureReplyConfiguration                                           *)
(***************************************************************************)
FeaturesReply(c) ==
    /\ Handles(c, "FEATURES_REPLY")
    /\ chan' = [chan EXCEPT
         ![c].id = Head(toCtl[c]).dpid,
         ![c].hsState = IF @ = "HELLO" THEN "FEATURES_REPLY" ELSE @]
    /\ toSw' = IF chan[c].hsState = "HELLO"
               THEN Written(c, <<"SET_CONFIG", "GET_CONFIG_REQUEST",
                                 "STATS_REQUEST">>)
               ELSE toSw
    /\ Taken(c)
    /\ UNCHANGED <<activeSwitches, gwSwitch, clearing>>

(***************************************************************************)
(* checkSwitchReady for c with its channel handler as ch: clearAllFlowMods *)
(* and the beginning of addSwitch, which takes the place of another        *)
(* connection with the same datapath id.                                   *)
(***************************************************************************)
Complete(ch) ==
    ch.hsState = "FEATURES_REPLY" /\ ch.hasDescription /\ ch.hasGetConfigReply

checkSwitchReady(c, ch) ==
    LET old == activeSwitches[ch.id]
    IN  /\ chan' = [chan EXCEPT ![c] =
              IF Complete(ch)
              THEN [ch EXCEPT !.hsState = "READY",
                              !.replacing = IF old = c THEN NoConn ELSE old]
              ELSE ch]
        /\ toSw' = IF Complete(ch) THEN Written(c, <<"FLOW_MOD">>) ELSE toSw
        /\ activeSwitches' = IF Complete(ch)
                             THEN [activeSwitches EXCEPT ![ch.id] = c]
                             ELSE activeSwitches
        /\ UNCHANGED <<gwSwitch, clearing>>

GetConfigReply(c) ==
    /\ Handles(c, "GET_CONFIG_REPLY")
    /\ IF Expected(c, Head(toCtl[c]))
       THEN /\ checkSwitchReady(c, [chan[c] EXCEPT !.hasGetConfigReply = TRUE])
            /\ Taken(c)
       ELSE SwitchStateException(c)

StatsReply(c) ==
    /\ Handles(c, "STATS_REPLY")
    /\ IF Expected(c, Head(toCtl[c]))
       THEN /\ checkSwitchReady(c, [chan[c] EXCEPT !.hasDescription = TRUE])
            /\ Taken(c)
       ELSE SwitchStateException(c)

(***************************************************************************)
(* Messages for the application pass once the handshake is complete and    *)
(* unless the connection has been replaced.  GW_CONNECT sets gwSwitch.     *)
(***************************************************************************)
Passes_bug(c) == chan[c].hsState = "READY"

Passes(c) == chan[c].hsState = "READY" /\ chan[c].connected

Vendor(c) ==
    /\ Handles(c, "GW_CONNECT") \/ Handles(c, "WLAN")
    /\ gwSwitch' = IF Handles(c, "GW_CONNECT") /\ Passes(c) THEN c ELSE gwSwitch
    /\ Taken(c)
    /\ UNCHANGED <<chan, toSw, activeSwitches, clearing>>

processOFMessage(c) ==
    \/ Hello(c) \/ FeaturesReply(c) \/ GetConfigReply(c) \/ StatsReply(c)
    \/ Vendor(c)

-----------------------------------------------------------------------------

(***************************************************************************)
(* The application's removedSwitch, as far as the gateway is concerned, in *)
(* thread p: the one of a connection, or the main thread (NoConn).  It     *)
(* compares, and clears later, whatever gwSwitch is by then: no lock keeps *)
(* the thread of another connection from setting it in between.            *)
(***************************************************************************)
removedSwitch(p, c) ==
    clearing' = IF gwSwitch = c THEN clearing \cup {p} ELSE clearing

ClearGwSwitch(p) ==
    /\ p \in clearing
    /\ clearing' = clearing \ {p}
    /\ gwSwitch' = NoConn

(***************************************************************************)
(* The rest of addSwitch: the old connection is taken out of use, under    *)
(* its lock, the application is told, and the old connection is closed.    *)
(***************************************************************************)
CloseOld(c) ==
    LET old == chan[c].replacing
    IN  /\ old # NoConn
        /\ chan' = [chan EXCEPT ![c].replacing = NoConn,
                                ![old].connected = FALSE,
                                ![old].open = FALSE]
        /\ Hangup(old, toCtl[old])

addSwitch(c) ==
    LET old == chan[c].replacing
    IN  /\ old # NoConn
        /\ c \notin clearing
        /\ removedSwitch(c, old)
        /\ IF gwSwitch = old
           THEN /\ chan' = [chan EXCEPT ![old].connected = FALSE]
                /\ UNCHANGED <<tcp, toCtl>>
           ELSE CloseOld(c)
        /\ UNCHANGED <<toSw, spent, activeSwitches, updates, gwSwitch>>

addSwitchEnd(c) ==
    /\ ClearGwSwitch(c)
    /\ CloseOld(c)
    /\ UNCHANGED <<toSw, spent, activeSwitches, updates>>

(***************************************************************************)
(* channelDisconnected and removeSwitch, some time after the channel has   *)
(* closed.  That its messages have been handled is what removeSwitch says  *)
(* of netty; it is assumed here.  Netty 3.2.6 may run the event in the     *)
(* thread that calls close().  Nothing is left of the handler afterwards,  *)
(* but its thread may still be in addSwitch.                               *)
(***************************************************************************)
channelDisconnected_bug(c) ==
    LET ready == chan[c].hsState = "READY"
        active == activeSwitches[chan[c].id] # NoConn
    IN  /\ ~chan[c].open
        /\ ~chan[c].done
        /\ toCtl[c] = <<>>
        /\ chan' = [chan EXCEPT ![c] =
              [NoChannel EXCEPT !.replacing = chan[c].replacing]]
        /\ activeSwitches' = IF ready /\ active
                             THEN [activeSwitches EXCEPT ![chan[c].id] = NoConn]
                             ELSE activeSwitches
        /\ updates' = IF ready /\ active /\ chan[c].connected
                      THEN Append(updates, c) ELSE updates
        /\ UNCHANGED <<wireVars, gwSwitch, clearing>>

channelDisconnected_late(c) ==
    LET ready == chan[c].hsState = "READY"
        active == activeSwitches[chan[c].id] = c
    IN  /\ ~chan[c].open
        /\ ~chan[c].done
        /\ toCtl[c] = <<>>
        /\ chan' = [chan EXCEPT ![c] =
              [NoChannel EXCEPT !.replacing = chan[c].replacing]]
        /\ activeSwitches' = IF ready /\ active
                             THEN [activeSwitches EXCEPT ![chan[c].id] = NoConn]
                             ELSE activeSwitches
        /\ updates' = IF ready /\ active /\ chan[c].connected
                      THEN Append(updates, activeSwitches'[chan[c].id])
                      ELSE updates
        /\ UNCHANGED <<wireVars, gwSwitch, clearing>>

channelDisconnected(c) ==
    LET ready == chan[c].hsState = "READY"
        active == activeSwitches[chan[c].id] = c
    IN  /\ ~chan[c].open
        /\ ~chan[c].done
        /\ toCtl[c] = <<>>
        /\ chan' = [chan EXCEPT ![c] =
              [NoChannel EXCEPT !.replacing = chan[c].replacing]]
        /\ activeSwitches' = IF ready /\ active
                             THEN [activeSwitches EXCEPT ![chan[c].id] = NoConn]
                             ELSE activeSwitches
        /\ updates' = IF ready /\ active /\ chan[c].connected
                      THEN Append(updates, c) ELSE updates
        /\ UNCHANGED <<wireVars, gwSwitch, clearing>>

(***************************************************************************)
(* The main loop: SwitchUpdate.dispatch                                    *)
(***************************************************************************)
dispatch ==
    /\ updates # <<>>
    /\ NoConn \notin clearing
    /\ removedSwitch(NoConn, Head(updates))
    /\ updates' = Tail(updates)
    /\ UNCHANGED <<wireVars, chan, activeSwitches, gwSwitch>>

dispatchEnd ==
    /\ ClearGwSwitch(NoConn)
    /\ UNCHANGED <<wireVars, chan, activeSwitches, updates>>

-----------------------------------------------------------------------------

(***************************************************************************)
(* Ends of a channel: the switch has closed it; the thread that reads from *)
(* it finds it reset; the switch has sent nothing for 30 seconds, not even *)
(* answers to echo requests; the handshake takes too long, which a timer   *)
(* finds while the thread of the channel may be at work.                   *)
(***************************************************************************)
RemoteClosed(c) ==
    /\ chan[c].open
    /\ tcp[c] = "gone"
    /\ toCtl[c] = <<>>
    /\ Close(c, <<>>)
    /\ UNCHANGED spent

Reset(c) ==
    /\ chan[c].open
    /\ tcp[c] = "up"
    /\ Spend("fault")
    /\ chan' = [chan EXCEPT ![c].open = FALSE]
    /\ Hangup(c, <<>>)
    /\ toSw' = [toSw EXCEPT ![c] = <<>>]
    /\ UNCHANGED <<activeSwitches, updates, gwSwitch, clearing>>

ReadTimeout(c, answers) ==
    /\ chan[c].open
    /\ ~answers
    /\ toCtl[c] = <<>>
    /\ Close(c, <<>>)
    /\ UNCHANGED spent

HandshakeTimeout(c) ==
    /\ chan[c].open
    /\ chan[c].hsState # "READY"
    /\ Spend("fault")
    /\ Close(c, toCtl[c])

=============================================================================
