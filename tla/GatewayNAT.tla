----------------------------- MODULE GatewayNAT -----------------------------
(***************************************************************************)
(* Address translation in the gateway (gatewayNAT.c): it keeps the ports   *)
(* of the access points and hides their addresses behind its own.  An      *)
(* entry, keyed by source port, remote address and remote port, holds the  *)
(* address of the access point that replies go to.  The mutex protects     *)
(* single accesses to the table; only entries' src_addr change afterwards. *)
(***************************************************************************)
EXTENDS NatWire

VARIABLES
    natMap,      \* the entries
    passed       \* packets of access points, in the order they passed

gwVars == <<natMap, passed>>

NatMap == [src_port : Port, dst : Host, dst_port : Port, src_addr : AP]

GwTypeOK == natMap \subseteq NatMap

GwInit == natMap = {} /\ passed = <<>>

Passed == {passed[i] : i \in 1 .. Len(passed)}

lookupNatMap(src_port, dst, dst_port) ==
    {m \in natMap : m.src_port = src_port /\ m.dst = dst /\ m.dst_port = dst_port}

(***************************************************************************)
(* lookupNatMap, addEntry if there is none, and then its src_addr.         *)
(***************************************************************************)
SetSrcAddr(src_port, dst, dst_port, a) ==
    natMap' = (natMap \ lookupNatMap(src_port, dst, dst_port))
                 \cup {[src_port |-> src_port, dst |-> dst,
                        dst_port |-> dst_port, src_addr |-> a]}

(***************************************************************************)
(* handle_pkt on queue 0: a packet w of an access point.                   *)
(***************************************************************************)
handle_pkt_bug(w) ==
    /\ w \notin Passed
    /\ IF lookupNatMap(w.port, w.pkt.flow.dst, w.pkt.flow.dport) = {}
       THEN SetSrcAddr(w.port, w.pkt.flow.dst, w.pkt.flow.dport, w.ap)
       ELSE UNCHANGED natMap
    /\ passed' = Append(passed, w)

handle_pkt(w) ==
    /\ w \notin Passed
    /\ SetSrcAddr(w.port, w.pkt.flow.dst, w.pkt.flow.dport, w.ap)
    /\ passed' = Append(passed, w)

(***************************************************************************)
(* NAT_ADD of a handover.  The code looks the entry up, and adds it, with  *)
(* tp_src, the station's own port, in the place of both ports.             *)
(***************************************************************************)
NAT_ADD(m) == SetSrcAddr(m.flow.sport, m.flow.dst, m.flow.sport, m.ap)

handle_vendor ==
    /\ gwDown # <<>>
    /\ NAT_ADD(Head(gwDown))
    /\ gwDown' = Tail(gwDown)
    /\ UNCHANGED <<passed, conn, natUp, natDown, gwSwitch>>

(***************************************************************************)
(* handle_pkt on queue 1: the access points that a reply from f's target   *)
(* to port p is sent to.                                                   *)
(***************************************************************************)
Route(p, f) == {m.src_addr : m \in lookupNatMap(p, f.dst, f.dport)}

=============================================================================
