------------------------------ MODULE NatPath -------------------------------
(***************************************************************************)
(* The path of a station's packets: its access point, the gateway, and the *)
(* controller that gives every flow its port and takes the entries along   *)
(* when the station is moved.                                              *)
(*                                                                         *)
(* Environment.  Stations send packets, the controller decides to move a   *)
(* station (module Handover models how), and connections break.  Each of   *)
(* these spends from a budget.                                             *)
(***************************************************************************)
EXTENDS PortTranslation, NatQueue, GatewayNAT

CONSTANT
    Budget     \* Budget[k]: how often an event of kind k may happen

Kind == {"packet", "move", "fault"}

ASSUME BudgetAssumption == Budget \in [Kind -> Nat]

VARIABLES
    count,     \* count[f]: packets of f so far
    spent      \* spent[k]: events of kind k so far

envVars == <<count, spent>>

vars == <<wireVars, transVars, queueVars, gwVars, envVars>>

Spend(k) == /\ spent[k] < Budget[k]
            /\ spent' = [spent EXCEPT ![k] = @ + 1]

-----------------------------------------------------------------------------

(***************************************************************************)
(* A station sends a packet of f through the AP that serves it.            *)
(***************************************************************************)
Send(f) ==
    /\ Spend("packet")
    /\ count' = [count EXCEPT ![f] = @ + 1]
    /\ Lookup(at[f.sta], [flow |-> f, n |-> count[f] + 1])
    /\ UNCHANGED <<wireVars, transVars, gwVars>>

(***************************************************************************)
(* The serving AP has answered and loses the station to b.  It answers     *)
(* only once it has handled the UPDATE_STA_ADD that made it serve.         *)
(***************************************************************************)
Decide(s, b) ==
    /\ Spend("move")
    /\ Move(at[s], s, b)
    /\ UNCHANGED <<queueVars, gwVars, count>>

Cut(a) ==
    /\ conn[a].up
    /\ Spend("fault")
    /\ Close(a)
    /\ UNCHANGED <<gwSwitch, gwDown, transVars, queueVars, gwVars, count>>

(***************************************************************************)
(* controller_run: the AP connects again.                                  *)
(***************************************************************************)
ConnOpen(a) ==
    /\ ~conn[a].up
    /\ worker[a].pc = "idle"
    /\ conn' = [conn EXCEPT ![a] = [up |-> TRUE, n |-> @.n + 1]]
    /\ UNCHANGED <<natUp, natDown, gwSwitch, gwDown, transVars, queueVars, gwVars,
                   envVars>>

(***************************************************************************)
(* GW_CONNECT of the gateway, and removedSwitch for it.                    *)
(***************************************************************************)
GW_CONNECT ==
    /\ ~gwSwitch
    /\ gwSwitch' = TRUE
    /\ UNCHANGED <<conn, natUp, natDown, gwDown, transVars, queueVars, gwVars,
                   envVars>>

RemovedGateway ==
    /\ gwSwitch
    /\ Spend("fault")
    /\ gwSwitch' = FALSE
    /\ gwDown' = <<>>
    /\ UNCHANGED <<conn, natUp, natDown, transVars, queueVars, gwVars, count>>

-----------------------------------------------------------------------------

Init ==
    /\ WireInit
    /\ TransInit
    /\ QueueInit
    /\ at = serving
    /\ GwInit
    /\ count = [f \in Flow |-> 0]
    /\ spent = [k \in Kind |-> 0]

HandlePortTranslation(a) ==
    handlePortTranslation(a) /\ UNCHANGED <<queueVars, gwVars, envVars>>

HandleAPRSSI(a) == handleAPRSSI(a) /\ UNCHANGED <<queueVars, gwVars, envVars>>

HandlePkt(a) ==
    /\ Accept(a) \/ Keep(a)
    /\ UNCHANGED <<wireVars, transVars, gwVars, envVars>>

SendNatPortEntry(a, f) ==
    send_nat_port_entry(a, f) /\ UNCHANGED <<transVars, gwVars, envVars>>

HandleVendor(a) ==
    /\ addEntry(a) \/ SetPort(a) \/ UPDATE_STA_ADD(a)
    /\ UNCHANGED <<transVars, gwVars, envVars>>

ReinjectPkt(a, f) == reinject_pkt(a, f) /\ UNCHANGED <<transVars, gwVars, envVars>>

GwHandlePkt(w) ==
    handle_pkt(w) /\ UNCHANGED <<wireVars, transVars, queueVars, envVars>>

GwHandleVendor == handle_vendor /\ UNCHANGED <<transVars, queueVars, envVars>>

Next ==
    \/ \E a \in AP :
         \/ HandlePortTranslation(a)
         \/ HandleAPRSSI(a)
         \/ HandlePkt(a)
         \/ HandleVendor(a)
         \/ ConnOpen(a)
         \/ Cut(a)
         \/ \E f \in Flow : SendNatPortEntry(a, f) \/ ReinjectPkt(a, f)
    \/ \E w \in out : GwHandlePkt(w)
    \/ GwHandleVendor
    \/ \E f \in Flow : Send(f)
    \/ \E s \in STA, b \in AP : Decide(s, b)
    \/ GW_CONNECT
    \/ RemovedGateway

Spec == Init /\ [][Next]_vars

-----------------------------------------------------------------------------

(***************************************************************************)
(* Types.                                                                  *)
(***************************************************************************)
TypeOK ==
    /\ WireTypeOK
    /\ TransTypeOK
    /\ QueueTypeOK
    /\ GwTypeOK
    /\ Passed \subseteq out
    /\ count \in [Flow -> Nat]
    /\ spent \in [Kind -> Nat]

(***************************************************************************)
(* The entries of all lists, also of lists that were forgotten.            *)
(***************************************************************************)
Entries ==
    UNION {{entries[s][a][i] : i \in 1 .. Len(entries[s][a])} :
             s \in STA, a \in AP}

(***************************************************************************)
(* handlePortTranslation: as long as no two threads have been inside it,   *)
(* two flows to the same target have different ports, and a flow has one   *)
(* port: portMap, natTable and the lists stay in step through handovers,   *)
(* exceptions and lost connections.                                        *)
(***************************************************************************)
PortsDistinct ==
    ~overlapped =>
      \A d, e \in Entries :
         SameTarget(d.flow, e.flow) =>
            (d.newPort = e.newPort <=> d.flow = e.flow)

(***************************************************************************)
(* newPort++ without a bound: ports are from the dynamic range as long as  *)
(* no target has more entries than that range has ports.  (Of threads that *)
(* overlap, one may take a port and lose the entry for it.)                *)
(***************************************************************************)
PortsDynamic ==
    ~overlapped =>
      \A e \in Entries :
        Cardinality({d \in Entries : SameTarget(d.flow, e.flow)})
              < PortCount - DefaultPort
          => e.newPort > DefaultPort

(***************************************************************************)
(* The unlocked write of new_port: a packet leaves with a port that the    *)
(* controller did not hand out for its flow only between addEntry and      *)
(* that write.                                                             *)
(***************************************************************************)
OwnPort ==
    [][\A w \in out' \ out :
         \/ [flow |-> w.pkt.flow, newPort |-> w.port] \in Entries
         \/ overlapped
         \/ /\ w.port = 0
            /\ adding[w.ap].type = "NAT_ADD"
            /\ adding[w.ap].flow = w.pkt.flow]_vars

(***************************************************************************)
(* addPortData and the threads around it: as long as its AP's connection   *)
(* has not failed, a kept packet has a request, an answer or a             *)
(* reinjection for its flow still to come.                                 *)
(***************************************************************************)
KeptAsked ==
    \A a \in AP : conn[a] = [up |-> TRUE, n |-> 1] =>
      \A p \in portQueue[a] :
        LET f == p.flow
        IN  \/ asking[a][f] > 0
            \/ reinjecting[a][f] > 0
            \/ adding[a].type = "NAT_ADD" /\ adding[a].flow = f
            \/ \E i \in 1 .. Len(natUp[a]) : natUp[a][i] = f
            \/ worker[a].pc \in Translating /\ worker[a].flow = f
            \/ \E i \in 1 .. Len(natDown[a]) :
                  natDown[a][i].type = "NAT_ADD" /\ natDown[a][i].flow = f

(***************************************************************************)
(* handle_pkt of gateway and AP on queue 1: a reply to a packet that the   *)
(* gateway has passed on is never delivered to another flow.               *)
(***************************************************************************)
ReplyToOwner ==
    ~overlapped =>
      \A w \in Passed : w.port # 0 =>
        \A a \in Route(w.port, w.pkt.flow) :
          lookupPortMapQ1(a, w.port, w.pkt.flow) \subseteq {w.pkt.flow}

(***************************************************************************)
(* The gateway learns the AP of a flow from its packets: replies to the    *)
(* last packet of a flow go back to the AP it came from, which translates  *)
(* them for this flow, wherever the station was before.                    *)
(***************************************************************************)
RoundTrip ==
    ~overlapped =>
      \A i \in 1 .. Len(passed) :
        LET w == passed[i]
            f == w.pkt.flow
        IN  w.port # 0 /\ (\A j \in i + 1 .. Len(passed) : passed[j].pkt.flow # f)
              => /\ Route(w.port, f) = {w.ap}
                 /\ lookupPortMapQ1(w.ap, w.port, f) = {f}

(***************************************************************************)
(* handleAPRSSI: the entries that go along with a handover are at the new  *)
(* AP before the station is, so its packets are not kept there.            *)
(***************************************************************************)
CarriedFirst ==
    \A s \in STA : at[s] = serving[s] =>
      \A f \in carried[s] : lookupPortMapQ0(at[s], f)

(***************************************************************************)
(* The access points implement a channel that loses and duplicates         *)
(* nothing.                                                                *)
(***************************************************************************)
Pending ==
    (UNION {portQueue[a] : a \in AP})
      \cup {queue0[a].pkt : a \in {b \in AP : queue0[b] # NoPacket}}

Channel == INSTANCE NatChannel WITH pending <- Pending, left <- out

ImplementsChannel == Channel!Spec

-----------------------------------------------------------------------------

(***************************************************************************)
(* The gateway is told of a handover so that replies to a flow that it     *)
(* carries reach the station at its new AP, also before the station has    *)
(* sent again.                                                             *)
(***************************************************************************)
Redirected ==
    [][GwHandleVendor =>
         LET m == Head(gwDown)
         IN  (\E w \in Passed : w.pkt.flow = m.flow /\ w.port = m.port)
               => {e.src_addr : e \in {d \in natMap' :
                     /\ d.src_port = m.port
                     /\ d.dst = m.flow.dst
                     /\ d.dst_port = m.flow.dport}} = {m.ap}]_vars

=============================================================================
