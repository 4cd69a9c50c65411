-------------------------- MODULE PortTranslation ---------------------------
(***************************************************************************)
(* The NAT state of the controller application (OFSwitchAP.java): which    *)
(* port every flow is translated to, and what a handover tells the new AP  *)
(* and the gateway about it.                                               *)
(*                                                                         *)
(* handlePortTranslation is not synchronized.  The thread of every         *)
(* connection runs it in steps, one for each access to what the threads    *)
(* share: the maps natTable and portMap, and the lists of entries.         *)
(* handleAPRSSI is synchronized, but iterates over the same lists.  An     *)
(* iteration that finds its list changed throws, and the exception closes  *)
(* the connection the thread works for.                                    *)
(***************************************************************************)
EXTENDS NatWire

VARIABLES
    natTable,    \* natTable[s]: the list of s, named by the AP whose thread
                 \* created it, or None
    entries,     \* entries[s][a]: the list created by the thread of a for s
    portMap,     \* portMap[f]: the last port handed out for f's target
    worker,      \* worker[a]: the thread of the connection of a
    serving,     \* serving[s]: the AP that the controller has s associated at
    overlapped,  \* have two threads been inside handlePortTranslation?
    carried      \* carried[s]: flows whose entries went along with the last
                 \* handover of s (a history variable)

transVars == <<natTable, entries, portMap, worker, serving, overlapped, carried>>

(***************************************************************************)
(* class NATMap                                                            *)
(***************************************************************************)
NATMap == [flow : Flow, newPort : Port]

(***************************************************************************)
(* A thread: where it stands, the flow it translates or the station it     *)
(* moves, the list it found and its length then, the port it will hand     *)
(* out, the AP it moves the station to.                                    *)
(***************************************************************************)
Translating == {"search", "put", "port", "store"}

Moving == {"toAP", "toGateway"}

Worker == [pc : Translating \cup Moving \cup {"idle"}, flow : Flow \cup {None},
           sta : STA \cup {None}, list : AP \cup {None}, len : Nat,
           port : Port, to : AP \cup {None}]

NewWorker(pc, f, s, list, to) ==
    [pc |-> pc, flow |-> f, sta |-> s, list |-> list,
     len |-> IF list = None THEN 0 ELSE Len(entries[s][list]),
     port |-> 0, to |-> to]

IdleWorker == [pc |-> "idle", flow |-> None, sta |-> None, list |-> None,
               len |-> 0, port |-> 0, to |-> None]

Proceed(a, pc, port) ==
    [pc |-> pc, flow |-> worker[a].flow, sta |-> worker[a].sta,
     list |-> worker[a].list, len |-> worker[a].len, port |-> port,
     to |-> worker[a].to]

TransTypeOK ==
    /\ natTable \in [STA -> AP \cup {None}]
    /\ entries \in [STA -> [AP -> Seq(NATMap)]]
    /\ portMap \in [Flow -> Port \cup {None}]
    /\ worker \in [AP -> Worker]
    /\ serving \in [STA -> AP]
    /\ overlapped \in BOOLEAN
    /\ carried \in [STA -> SUBSET Flow]

TransInit ==
    /\ natTable = [s \in STA |-> None]
    /\ entries = [s \in STA |-> [a \in AP |-> <<>>]]
    /\ portMap = [f \in Flow |-> None]
    /\ worker = [a \in AP |-> IdleWorker]
    /\ serving \in [STA -> AP]
    /\ overlapped = FALSE
    /\ carried = [s \in STA |-> {}]

(***************************************************************************)
(* newPort++ on a short: modulo 2^16 as the uint16_t the AP reads.         *)
(***************************************************************************)
Increment_bug(p) == p + 1

Increment(p) == (p + 1) % PortCount

nextPort(f) == Increment(IF portMap[f] = None THEN DefaultPort ELSE portMap[f])

(***************************************************************************)
(* The positions of f in the part of the list that the thread of a walks.  *)
(***************************************************************************)
List(a) == entries[worker[a].sta][worker[a].list]

Matches(a) == {k \in 1 .. worker[a].len : List(a)[k].flow = worker[a].flow}

Modified(a) == Len(List(a)) # worker[a].len

Enter(a, w) == worker' = [worker EXCEPT ![a] = w]

(***************************************************************************)
(* An exception in the thread of a: exceptionCaught closes the channel.    *)
(***************************************************************************)
Throw(a) ==
    /\ Enter(a, IdleWorker)
    /\ Close(a)
    /\ UNCHANGED <<gwSwitch, gwDown>>

-----------------------------------------------------------------------------

(***************************************************************************)
(* natTable.get(staAddress), and the iterator of its list.                 *)
(***************************************************************************)
Get(a) ==
    LET f == Head(natUp[a])
        list == natTable[f.sta]
    IN  /\ conn[a].up
        /\ natUp[a] # <<>>
        /\ worker[a].pc = "idle"
        /\ Enter(a, IF list = None THEN NewWorker("put", f, f.sta, a, None)
                                   ELSE NewWorker("search", f, f.sta, list, None))
        /\ natUp' = [natUp EXCEPT ![a] = Tail(@)]
        /\ overlapped' = (overlapped \/ \E b \in AP : worker[b].pc \in Translating)
        /\ UNCHANGED <<natTable, entries, portMap, serving, carried,
                       conn, natDown, gwSwitch, gwDown>>

(***************************************************************************)
(* The flow has an entry: its port is sent once more.                      *)
(***************************************************************************)
Found(a) ==
    /\ worker[a].pc = "search"
    /\ \E first \in Matches(a) :
         /\ \A k \in Matches(a) : first <= k
         /\ natDown' = Written(a, <<NatAdd(List(a)[first].flow,
                                          List(a)[first].newPort)>>)
    /\ Enter(a, IdleWorker)
    /\ UNCHANGED <<natTable, entries, portMap, serving, overlapped, carried,
                   conn, natUp, gwSwitch, gwDown>>

NotFound(a) ==
    /\ worker[a].pc = "search"
    /\ Matches(a) = {}
    /\ ~Modified(a)
    /\ Enter(a, Proceed(a, "port", 0))
    /\ UNCHANGED <<natTable, entries, portMap, serving, overlapped, carried,
                   wireVars>>

(***************************************************************************)
(* ConcurrentModificationException                                         *)
(***************************************************************************)
SearchThrows(a) ==
    /\ worker[a].pc = "search"
    /\ Modified(a)
    /\ Throw(a)
    /\ UNCHANGED <<natTable, entries, portMap, serving, overlapped, carried>>

(***************************************************************************)
(* natTable.put(staAddress, entries) with a new list: one that another     *)
(* thread has put meanwhile is forgotten.                                  *)
(***************************************************************************)
Put(a) ==
    /\ worker[a].pc = "put"
    /\ natTable' = [natTable EXCEPT ![worker[a].sta] = a]
    /\ Enter(a, Proceed(a, "port", 0))
    /\ UNCHANGED <<entries, portMap, serving, overlapped, carried, wireVars>>

(***************************************************************************)
(* portMap.get(...) and newPort++                                          *)
(***************************************************************************)
ReadPort_bug(a) ==
    /\ worker[a].pc = "port"
    /\ Enter(a, Proceed(a, "store", IF portMap[worker[a].flow] = None
                                    THEN DefaultPort
                                    ELSE Increment(portMap[worker[a].flow])))
    /\ UNCHANGED <<natTable, entries, portMap, serving, overlapped, carried,
                   wireVars>>

ReadPort(a) ==
    /\ worker[a].pc = "port"
    /\ Enter(a, Proceed(a, "store", nextPort(worker[a].flow)))
    /\ UNCHANGED <<natTable, entries, portMap, serving, overlapped, carried,
                   wireVars>>

(***************************************************************************)
(* portMap.put(...), entries.add(map), and the answer.  ArrayList.add is   *)
(* not made for two threads: of two additions to one list that overlap,    *)
(* one may be lost.                                                        *)
(***************************************************************************)
Appended(a) ==
    [entries EXCEPT ![worker[a].sta][worker[a].list] =
       Append(@, [flow |-> worker[a].flow, newPort |-> worker[a].port])]

AddOverlaps(a) ==
    \E b \in AP \ {a} : /\ worker[b].pc = "store"
                        /\ worker[b].sta = worker[a].sta
                        /\ worker[b].list = worker[a].list

PutPort_bug(a) == portMap

PutPort(a) ==
    [f \in Flow |-> IF SameTarget(f, worker[a].flow) THEN worker[a].port
                                                     ELSE portMap[f]]

Store(a) ==
    /\ worker[a].pc = "store"
    /\ portMap' = PutPort(a)
    /\ \/ entries' = Appended(a)
       \/ AddOverlaps(a) /\ UNCHANGED entries
    /\ natDown' = Written(a, <<NatAdd(worker[a].flow, worker[a].port)>>)
    /\ Enter(a, IdleWorker)
    /\ UNCHANGED <<natTable, serving, overlapped, carried,
                   conn, natUp, gwSwitch, gwDown>>

handlePortTranslation(a) ==
    \/ Get(a) \/ Found(a) \/ NotFound(a) \/ SearchThrows(a)
    \/ Put(a) \/ ReadPort(a) \/ Store(a)

-----------------------------------------------------------------------------

(***************************************************************************)
(* The NAT part of handleAPRSSI, which moves s from a to b in the thread   *)
(* of a.  The pairs have changed by the time the entries are read.         *)
(***************************************************************************)
Move(a, s, b) ==
    /\ conn[a].up
    /\ worker[a].pc = "idle"
    /\ \A c \in AP : worker[c].pc \notin Moving     \* synchronized
    /\ serving[s] = a
    /\ a # b
    /\ serving' = [serving EXCEPT ![s] = b]
    /\ Enter(a, NewWorker("toAP", None, s, natTable[s], b))
    /\ UNCHANGED <<natTable, entries, portMap, overlapped, carried, wireVars>>

(***************************************************************************)
(* The first k entries as NAT_ADD to an AP, and to the gateway.            *)
(***************************************************************************)
NatAdds(a, k) ==
    [i \in 1 .. k |-> NatAdd(List(a)[i].flow, List(a)[i].newPort)]

GwNatAdds(a, k) ==
    [i \in 1 .. k |-> [ap |-> worker[a].to, flow |-> List(a)[i].flow,
                       port |-> List(a)[i].newPort]]

HasList(a) == worker[a].list # None

(***************************************************************************)
(* The entries go to the new AP, then UPDATE_STA_ADD.  REMOVE_STA, to the  *)
(* old AP, does not concern its NAT state.                                 *)
(***************************************************************************)
NewAPMsgs_bug(a) ==
    <<UpdateSTAAdd(worker[a].sta)>> \o
       (IF HasList(a) THEN NatAdds(a, worker[a].len) ELSE <<>>)

NewAPMsgs(a) ==
    (IF HasList(a) THEN NatAdds(a, worker[a].len) ELSE <<>>)
       \o <<UpdateSTAAdd(worker[a].sta)>>

ToAP(a) ==
    /\ worker[a].pc = "toAP"
    /\ HasList(a) => ~Modified(a)
    /\ natDown' = Written(worker[a].to, NewAPMsgs(a))
    /\ carried' = [carried EXCEPT ![worker[a].sta] =
         IF HasList(a) THEN {List(a)[i].flow : i \in 1 .. worker[a].len} ELSE {}]
    /\ Enter(a, IF HasList(a) /\ gwSwitch THEN Proceed(a, "toGateway", 0)
                                          ELSE IdleWorker)
    /\ UNCHANGED <<natTable, entries, portMap, serving, overlapped,
                   conn, natUp, gwSwitch, gwDown>>

(***************************************************************************)
(* The list has grown: the loop throws after k entries, and neither AP     *)
(* hears of the handover.                                                  *)
(***************************************************************************)
ToAPThrows(a) ==
    /\ worker[a].pc = "toAP"
    /\ HasList(a)
    /\ Modified(a)
    /\ Enter(a, IdleWorker)
    /\ conn' = [conn EXCEPT ![a] = [up |-> FALSE, n |-> @.n]]
    /\ natUp' = [natUp EXCEPT ![a] = <<>>]
    /\ \E k \in 0 .. worker[a].len :
         natDown' = [Written(worker[a].to, NatAdds(a, k)) EXCEPT ![a] = <<>>]
    /\ UNCHANGED <<natTable, entries, portMap, serving, overlapped, carried,
                   gwSwitch, gwDown>>

(***************************************************************************)
(* The entries go to the gateway, with the address of the new AP.  This    *)
(* loop has an iterator of its own: what the list has gained meanwhile is  *)
(* sent too.                                                               *)
(***************************************************************************)
ToGateway(a) ==
    /\ worker[a].pc = "toGateway"
    /\ gwSwitch \/ List(a) = <<>>
    /\ gwDown' = gwDown \o GwNatAdds(a, Len(List(a)))
    /\ Enter(a, IdleWorker)
    /\ UNCHANGED <<natTable, entries, portMap, serving, overlapped, carried,
                   conn, natUp, natDown, gwSwitch>>

(***************************************************************************)
(* The list grows during the loop, which has sent k entries by then, or    *)
(* gwSwitch has become null since it was tested.                           *)
(***************************************************************************)
ToGatewayThrows(a) ==
    /\ worker[a].pc = "toGateway"
    /\ Modified(a) \/ (~gwSwitch /\ List(a) # <<>>)
    /\ Enter(a, IdleWorker)
    /\ Close(a)
    /\ \E k \in 0 .. Len(List(a)) - 1 :
         gwDown' = IF gwSwitch THEN gwDown \o GwNatAdds(a, k) ELSE gwDown
    /\ UNCHANGED <<natTable, entries, portMap, serving, overlapped, carried,
                   gwSwitch>>

handleAPRSSI(a) == ToAP(a) \/ ToAPThrows(a) \/ ToGateway(a) \/ ToGatewayThrows(a)

=============================================================================
