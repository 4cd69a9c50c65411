------------------------------ MODULE NatQueue ------------------------------
(***************************************************************************)
(* Address translation in every access point (controller_interface.c, with *)
(* PORT_TRANSLATION 1).  A packet of a flow without an entry is kept while *)
(* the controller is asked for a port; the answer, NAT_ADD, makes the      *)
(* entry and starts a thread that sends the packets on.                    *)
(*                                                                         *)
(* Threads: the one of netfilter queue 0 (packets of stations), the one    *)
(* that receives from the controller, one for every request and one for    *)
(* every reinjection.  mutex_nat and mutex_port protect single accesses to *)
(* the two tables: a step for each.  An entry's port is read and written   *)
(* through a pointer, without a mutex.                                     *)
(***************************************************************************)
EXTENDS NatWire

VARIABLES
    entryList,   \* entryList[a][f]: new_port of f's entry, None without one
    portQueue,   \* portQueue[a]: the packets kept
    queue0,      \* queue0[a]: the packet handle_pkt works on
    asking,      \* asking[a][f]: threads in send_nat_port_entry
    adding,      \* adding[a]: the NAT_ADD between addEntry and the port
    reinjecting, \* reinjecting[a][f]: threads in reinject_pkt
    out,         \* packets that left an AP, with the AP and the source port
    at           \* at[s]: the AP that serves s on the air

queueVars == <<entryList, portQueue, queue0, asking, adding, reinjecting, out, at>>

Sent == [pkt : Packet, ap : AP, port : Port]

NoPacket == [pc |-> "idle"]

Handling == [pc : {"accept", "keep"}, pkt : Packet] \cup {NoPacket}

NoAdd == [type |-> "none"]

QueueTypeOK ==
    /\ entryList \in [AP -> [Flow -> Port \cup {None}]]
    /\ portQueue \in [AP -> SUBSET Packet]
    /\ queue0 \in [AP -> Handling]
    /\ asking \in [AP -> [Flow -> Nat]]
    /\ adding \in [AP -> DownMsg \cup {NoAdd}]
    /\ reinjecting \in [AP -> [Flow -> Nat]]
    /\ out \subseteq Sent
    /\ at \in [STA -> AP]

QueueInit ==
    /\ entryList = [a \in AP |-> [f \in Flow |-> None]]
    /\ portQueue = [a \in AP |-> {}]
    /\ queue0 = [a \in AP |-> NoPacket]
    /\ asking = [a \in AP |-> [f \in Flow |-> 0]]
    /\ adding = [a \in AP |-> NoAdd]
    /\ reinjecting = [a \in AP |-> [f \in Flow |-> 0]]
    /\ out = {}

(***************************************************************************)
(* The packets of one flow that are kept at a.                             *)
(***************************************************************************)
KeptOf(a, f) == {p \in portQueue[a] : p.flow = f}

-----------------------------------------------------------------------------

(***************************************************************************)
(* handle_pkt on queue 0: lookupPortMapQ0, under mutex_nat.                *)
(***************************************************************************)
lookupPortMapQ0(a, f) == entryList[a][f] # None

Lookup(a, p) ==
    /\ queue0[a] = NoPacket
    /\ queue0' = [queue0 EXCEPT ![a] =
         [pc |-> IF lookupPortMapQ0(a, p.flow) THEN "accept" ELSE "keep",
          pkt |-> p]]
    /\ UNCHANGED <<entryList, portQueue, asking, adding, reinjecting, out, at>>

(***************************************************************************)
(* An entry was found: the packet leaves with whatever port the entry has  *)
(* by now, and the address of a.                                           *)
(***************************************************************************)
Accept(a) ==
    LET p == queue0[a].pkt
    IN  /\ queue0[a].pc = "accept"
        /\ out' = out \cup {[pkt |-> p, ap |-> a, port |-> entryList[a][p.flow]]}
        /\ queue0' = [queue0 EXCEPT ![a] = NoPacket]
        /\ UNCHANGED <<entryList, portQueue, asking, adding, reinjecting, at>>

(***************************************************************************)
(* addPortData, under mutex_port: its lists are read from end to end, so   *)
(* they are a set.                                                         *)
(***************************************************************************)
addPortData(a, p) == portQueue' = [portQueue EXCEPT ![a] = @ \cup {p}]

(***************************************************************************)
(* No entry was found: the packet is kept, and a thread asks for a port.   *)
(***************************************************************************)
Keep_bug(a) ==
    LET p == queue0[a].pkt
    IN  /\ queue0[a].pc = "keep"
        /\ addPortData(a, p)
        /\ asking' = [asking EXCEPT ![a][p.flow] =
                        IF lookupPortMapQ0(a, p.flow) THEN @ ELSE @ + 1]
        /\ queue0' = [queue0 EXCEPT ![a] = NoPacket]
        /\ UNCHANGED <<entryList, adding, reinjecting, out, at>>

Keep(a) ==
    LET p == queue0[a].pkt
    IN  /\ queue0[a].pc = "keep"
        /\ addPortData(a, p)
        /\ asking' = [asking EXCEPT ![a][p.flow] = @ + 1]
        /\ queue0' = [queue0 EXCEPT ![a] = NoPacket]
        /\ UNCHANGED <<entryList, adding, reinjecting, out, at>>

(***************************************************************************)
(* The request; controller_send drops it when there is no connection.      *)
(***************************************************************************)
send_nat_port_entry(a, f) ==
    /\ asking[a][f] > 0
    /\ asking' = [asking EXCEPT ![a][f] = @ - 1]
    /\ natUp' = IF conn[a].up THEN [natUp EXCEPT ![a] = Append(@, f)] ELSE natUp
    /\ UNCHANGED <<entryList, portQueue, queue0, adding, reinjecting, out, at,
                   conn, natDown, gwSwitch, gwDown>>

-----------------------------------------------------------------------------

(***************************************************************************)
(* NAT_ADD.  addEntry inserts an entry unless there is one; calloc has set *)
(* its new_port to 0.                                                      *)
(***************************************************************************)
Receiving(a, type) ==
    /\ adding[a] = NoAdd
    /\ natDown[a] # <<>>
    /\ Head(natDown[a]).type = type
    /\ natDown' = [natDown EXCEPT ![a] = Tail(@)]
    /\ UNCHANGED <<conn, natUp, gwSwitch, gwDown>>

addEntry(a) ==
    LET m == Head(natDown[a])
    IN  /\ Receiving(a, "NAT_ADD")
        /\ entryList' = [entryList EXCEPT ![a][m.flow] = IF @ = None THEN 0 ELSE @]
        /\ adding' = [adding EXCEPT ![a] = m]
        /\ UNCHANGED <<portQueue, queue0, asking, reinjecting, out, at>>

(***************************************************************************)
(* The port is written, and a thread for the kept packets starts.          *)
(***************************************************************************)
SetPort_bug(a) ==
    LET m == adding[a]
    IN  /\ m # NoAdd
        /\ entryList' = [entryList EXCEPT ![a][m.flow] = m.flow.sport]
        /\ reinjecting' = [reinjecting EXCEPT ![a][m.flow] = @ + 1]
        /\ adding' = [adding EXCEPT ![a] = NoAdd]
        /\ UNCHANGED <<portQueue, queue0, asking, out, at, wireVars>>

SetPort(a) ==
    LET m == adding[a]
    IN  /\ m # NoAdd
        /\ entryList' = [entryList EXCEPT ![a][m.flow] = m.port]
        /\ reinjecting' = [reinjecting EXCEPT ![a][m.flow] = @ + 1]
        /\ adding' = [adding EXCEPT ![a] = NoAdd]
        /\ UNCHANGED <<portQueue, queue0, asking, out, at, wireVars>>

(***************************************************************************)
(* reinject_pkt holds mutex_port from beginning to end: every packet of    *)
(* the flow leaves.                                                        *)
(***************************************************************************)
reinject_pkt_bug(a, f) ==
    /\ reinjecting[a][f] > 0
    /\ reinjecting' = [reinjecting EXCEPT ![a][f] = @ - 1]
    /\ out' = out \cup {[pkt |-> p, ap |-> a, port |-> entryList[a][f]] :
                          p \in KeptOf(a, f)}
    /\ UNCHANGED <<entryList, portQueue, queue0, asking, adding, at, wireVars>>

reinject_pkt(a, f) ==
    /\ reinjecting[a][f] > 0
    /\ reinjecting' = [reinjecting EXCEPT ![a][f] = @ - 1]
    /\ out' = out \cup {[pkt |-> p, ap |-> a, port |-> entryList[a][f]] :
                          p \in KeptOf(a, f)}
    /\ portQueue' = [portQueue EXCEPT ![a] = @ \ KeptOf(a, f)]
    /\ UNCHANGED <<entryList, queue0, asking, adding, at, wireVars>>

(***************************************************************************)
(* UPDATE_STA_ADD: from now on the frames of s pass through a.             *)
(***************************************************************************)
UPDATE_STA_ADD(a) ==
    /\ Receiving(a, "UPDATE_STA_ADD")
    /\ at' = [at EXCEPT ![Head(natDown[a]).sta] = a]
    /\ UNCHANGED <<entryList, portQueue, queue0, asking, adding, reinjecting, out>>

-----------------------------------------------------------------------------

(***************************************************************************)
(* handle_pkt on queue 1: the flows whose entry a reply to port p from     *)
(* f's target may match at a.  lookupPortMapQ1 takes the first one.        *)
(***************************************************************************)
lookupPortMapQ1_bug(a, p, f) ==
    {g \in Flow : entryList[a][g] # None /\ SameTarget(f, g)}

lookupPortMapQ1(a, p, f) ==
    {g \in Flow : entryList[a][g] = p /\ SameTarget(f, g)}

=============================================================================
