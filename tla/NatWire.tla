------------------------------ MODULE NatWire -------------------------------
(***************************************************************************)
(* The vocabulary of address translation, shared by the controller         *)
(* (PortTranslation), the access points (NatQueue) and the gateway         *)
(* (GatewayNAT): flows, ports, packets, and the connections that carry the *)
(* messages WLAN_PORT_TRANSLATION and WLAN_NAT_ADD.                        *)
(***************************************************************************)
EXTENDS Integers, Sequences, FiniteSets

CONSTANTS
    STA,           \* the stations
    AP,            \* the access points
    Host,          \* the remote hosts
    Flow,          \* the flows: station, source port, host, destination port
    PortCount,     \* the number of ports: 2^16, they are uint16_t and short
    DefaultPort,   \* 49151, the port before the first one handed out
    None           \* "null"

Port == 0 .. PortCount - 1

ASSUME NoneAssumption ==
    None \notin AP /\ None \notin STA /\ None \notin Flow /\ None \notin Port

ASSUME PortAssumption == PortCount \in Nat \ {0} /\ DefaultPort \in Port

(***************************************************************************)
(* The station stands for its source address too.                          *)
(***************************************************************************)
ASSUME FlowAssumption ==
    Flow \subseteq [sta : STA, sport : Port, dst : Host, dport : Port]

Packet == [flow : Flow, n : Nat]

(***************************************************************************)
(* Two flows go to the same port of the same host: class PortPair.         *)
(***************************************************************************)
SameTarget(f, g) == f.dst = g.dst /\ f.dport = g.dport

(***************************************************************************)
(* What the controller writes to an AP: NAT_ADD, and of a handover the     *)
(* UPDATE_STA_ADD that lets the station in.                                *)
(***************************************************************************)
NatAdd(f, p) == [type |-> "NAT_ADD", flow |-> f, port |-> p]

UpdateSTAAdd(s) == [type |-> "UPDATE_STA_ADD", sta |-> s]

DownMsg == [type : {"NAT_ADD"}, flow : Flow, port : Port]
             \cup [type : {"UPDATE_STA_ADD"}, sta : STA]

(***************************************************************************)
(* The NAT_ADD of a handover to the gateway: sourceIP is the new AP's.     *)
(***************************************************************************)
GwMsg == [ap : AP, flow : Flow, port : Port]

VARIABLES
    conn,      \* conn[a]: is a connected, and how many connections it had
    natUp,     \* natUp[a]: PORT_TRANSLATION requests, a -> controller
    natDown,   \* natDown[a]: controller -> a
    gwSwitch,  \* is gwSwitch non-null, the gateway connected?
    gwDown     \* controller -> gateway

wireVars == <<conn, natUp, natDown, gwSwitch, gwDown>>

WireTypeOK ==
    /\ conn \in [AP -> [up : BOOLEAN, n : Nat]]
    /\ natUp \in [AP -> Seq(Flow)]
    /\ natDown \in [AP -> Seq(DownMsg)]
    /\ gwSwitch \in BOOLEAN
    /\ gwDown \in Seq(GwMsg)

WireInit ==
    /\ conn = [a \in AP |-> [up |-> TRUE, n |-> 1]]
    /\ natUp = [a \in AP |-> <<>>]
    /\ natDown = [a \in AP |-> <<>>]
    /\ gwSwitch = FALSE
    /\ gwDown = <<>>

(***************************************************************************)
(* Messages written to a, which are lost if its channel is closed.         *)
(***************************************************************************)
Written(a, msgs) ==
    IF conn[a].up THEN [natDown EXCEPT ![a] = @ \o msgs] ELSE natDown

(***************************************************************************)
(* The channel of a closes: what is under way is lost.                     *)
(***************************************************************************)
Close(a) ==
    /\ conn' = [conn EXCEPT ![a] = [up |-> FALSE, n |-> @.n]]
    /\ natUp' = [natUp EXCEPT ![a] = <<>>]
    /\ natDown' = [natDown EXCEPT ![a] = <<>>]

=============================================================================
