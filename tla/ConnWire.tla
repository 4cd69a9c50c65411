------------------------------ MODULE ConnWire ------------------------------
(***************************************************************************)
(* The TCP connections between one switch (an access point or the gateway) *)
(* and Floodlight, shared by OFClient (the switch) and Controller          *)
(* (Floodlight).  Connections are numbered in the order the switch opens   *)
(* them; several may exist, because the two ends do not notice at once     *)
(* that one has ended.                                                     *)
(*                                                                         *)
(* Echo requests are not messages here: what they achieve is in the guards *)
(* of the controller's timeouts.  The controller's role is not configured, *)
(* so there are no role requests.                                          *)
(***************************************************************************)
EXTENDS Integers, Sequences, FiniteSets

CONSTANTS
    MaxConn,    \* bound on the connections opened
    Budget      \* Budget[k]: how often an event of kind k may happen

ASSUME MaxConnAssumption == MaxConn \in Nat

Kind == {"fault", "send"}

ASSUME BudgetAssumption == Budget \in [Kind -> Nat]

Conn == 1 .. MaxConn

NoConn == 0

(***************************************************************************)
(* datapath_id: 0 until the switch has set it.                             *)
(***************************************************************************)
Dpid == {0, 1}

VARIABLES
    tcp,       \* tcp[c]: what the switch's kernel knows of c
    toSw,      \* toSw[c]: controller -> switch
    toCtl,     \* toCtl[c]: switch -> controller
    spent      \* spent[k]: events of kind k so far

wireVars == <<tcp, toSw, toCtl, spent>>

(***************************************************************************)
(* "fin": recv has an end of file or an error to return.  "lost": the peer *)
(* has vanished without a trace.  "gone": the switch has closed its end.   *)
(***************************************************************************)
Tcp == {"none", "connecting", "up", "fin", "lost", "gone"}

Request == {"HELLO", "FEATURES_REQUEST", "SET_CONFIG", "GET_CONFIG_REQUEST",
            "STATS_REQUEST", "FLOW_MOD"}

(***************************************************************************)
(* "WLAN" stands for the messages of an access point's threads.            *)
(***************************************************************************)
Answer == [type : {"HELLO", "FEATURES_REPLY", "GET_CONFIG_REPLY",
                   "STATS_REPLY", "GW_CONNECT", "WLAN"}, dpid : Dpid]

WireTypeOK ==
    /\ tcp \in [Conn -> Tcp]
    /\ toSw \in [Conn -> Seq(Request)]
    /\ toCtl \in [Conn -> Seq(Answer)]
    /\ spent \in [Kind -> Nat]

WireInit ==
    /\ tcp = [c \in Conn |-> "none"]
    /\ toSw = [c \in Conn |-> <<>>]
    /\ toCtl = [c \in Conn |-> <<>>]
    /\ spent = [k \in Kind |-> 0]

Spend(k) == /\ spent[k] < Budget[k]
            /\ spent' = [spent EXCEPT ![k] = @ + 1]

(***************************************************************************)
(* Faults: a connection attempt is refused, a connection is reset, or the  *)
(* other end vanishes and whatever is under way with it.                   *)
(***************************************************************************)
Refuse(c) ==
    /\ tcp[c] = "connecting"
    /\ Spend("fault")
    /\ tcp' = [tcp EXCEPT ![c] = "fin"]
    /\ UNCHANGED <<toSw, toCtl>>

Vanish(c) ==
    /\ tcp[c] = "up"
    /\ Spend("fault")
    /\ tcp' = [tcp EXCEPT ![c] = "lost"]
    /\ toSw' = [toSw EXCEPT ![c] = <<>>]
    /\ toCtl' = [toCtl EXCEPT ![c] = <<>>]

=============================================================================
