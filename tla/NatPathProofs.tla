---------------------------- MODULE NatPathProofs ---------------------------
(***************************************************************************)
(* Proofs about NatPath for every number of stations, access points,       *)
(* hosts, flows and ports, and for every budget: the types, what a         *)
(* handover takes along, that no kept packet is forgotten, and that the    *)
(* access points implement NatChannel.                                     *)
(***************************************************************************)
EXTENDS NatPath, TLAPS

-----------------------------------------------------------------------------

(***************************************************************************)
(* Types.  The invariant says more than TypeOK: what a thread of the       *)
(* controller knows at each of its steps, and that a packet only leaves    *)
(* after its flow has an entry.                                            *)
(***************************************************************************)
Fit(w, lists) ==
    /\ w.pc \in Translating =>
         w.flow \in Flow /\ w.sta = w.flow.sta /\ w.list \in AP
    /\ w.pc \in Moving => w.sta \in STA /\ w.to \in AP
    /\ w.pc = "toGateway" => w.list \in AP
    /\ w.pc # "idle" /\ w.list \in AP => w.len <= Len(lists[w.sta][w.list])

Busy(a) == Fit(worker[a], entries)

Entered(a) ==
    /\ queue0[a].pc = "accept" => lookupPortMapQ0(a, queue0[a].pkt.flow)
    /\ \A f \in Flow : reinjecting[a][f] > 0 => lookupPortMapQ0(a, f)
    /\ adding[a] # NoAdd => adding[a].type = "NAT_ADD"

TransInv == TransTypeOK /\ \A a \in AP : Busy(a)

QueueInv == QueueTypeOK /\ \A a \in AP : Entered(a)

GwInv == GwTypeOK /\ passed \in Seq(out)

EnvInv == count \in [Flow -> Nat] /\ spent \in [Kind -> Nat]

TypeInv == WireTypeOK /\ TransInv /\ QueueInv /\ GwInv /\ EnvInv


LEMMA LenNat ==
    ASSUME NEW S, NEW q \in Seq(S)
    PROVE  Len(q) \in Nat
  OBVIOUS

LEMMA FlowParts ==
    ASSUME NEW f \in Flow
    PROVE  f.sta \in STA /\ f.sport \in Port /\ f.dst \in Host /\ f.dport \in Port
  BY FlowAssumption

LEMMA PortFacts == 0 \in Port /\ DefaultPort \in Port /\ Port \subseteq Nat
  BY PortAssumption DEF Port

(***************************************************************************)
(* Increment stays within the ports, whatever it is given.                 *)
(***************************************************************************)
LEMMA IncrementType ==
    ASSUME NEW p \in Port
    PROVE  Increment(p) \in Port
  BY PortAssumption DEF Increment, Port

LEMMA InvImpliesTypeOK == TypeInv => TypeOK
  <1> SUFFICES ASSUME TypeInv PROVE Passed \subseteq out
    BY DEF TypeInv, TypeOK, TransInv, QueueInv, GwInv, EnvInv
  <1> QED  BY DEF TypeInv, GwInv, Passed

LEMMA InvInit == Init => TypeInv
  <1> SUFFICES ASSUME Init PROVE TypeInv
    OBVIOUS
  <1> USE DEF Init
  <1>1. WireTypeOK
    <2>1. conn \in [AP -> [up : BOOLEAN, n : Nat]]
      BY DEF WireInit
    <2>2. natUp \in [AP -> Seq(Flow)] /\ natDown \in [AP -> Seq(DownMsg)]
      BY DEF WireInit
    <2>3. gwDown \in Seq(GwMsg)
      BY DEF WireInit
    <2>4. gwSwitch \in BOOLEAN
      BY DEF WireInit
    <2> QED  BY <2>1, <2>2, <2>3, <2>4 DEF WireTypeOK
  <1>2. TransTypeOK
    <2>1. IdleWorker \in Worker
      BY PortFacts DEF IdleWorker, Worker
    <2>2. entries \in [STA -> [AP -> Seq(NATMap)]]
      BY DEF TransInit
    <2>3. worker \in [AP -> Worker]
      BY <2>1 DEF TransInit
    <2> QED  BY <2>2, <2>3 DEF TransInit, TransTypeOK
  <1>3. ASSUME NEW a \in AP PROVE Busy(a)
    BY DEF TransInit, IdleWorker, Busy, Fit, Translating, Moving
  <1>4. QueueInv
    BY DEF QueueInit, TransInit, QueueInv, QueueTypeOK, Entered, NoPacket, Handling, NoAdd
  <1>5. GwInv /\ EnvInv
    BY DEF GwInit, GwInv, GwTypeOK, EnvInv, QueueInit
  <1> QED  BY <1>1, <1>2, <1>3, <1>4, <1>5 DEF TypeInv, TransInv


-----------------------------------------------------------------------------

(***************************************************************************)
(* What the steps of the controller's threads write: messages in, and      *)
(* messages out.                                                           *)
(***************************************************************************)
LEMMA NatAddType ==
    ASSUME NEW f \in Flow, NEW p \in Port
    PROVE  NatAdd(f, p) \in DownMsg
  BY DEF NatAdd, DownMsg

LEMMA UpdateType ==
    ASSUME NEW s \in STA
    PROVE  UpdateSTAAdd(s) \in DownMsg
  BY DEF UpdateSTAAdd, DownMsg

LEMMA WrittenType ==
    ASSUME WireTypeOK, NEW a \in AP, NEW msgs \in Seq(DownMsg)
    PROVE  Written(a, msgs) \in [AP -> Seq(DownMsg)]
  BY DEF WireTypeOK, Written

(***************************************************************************)
(* The list that a thread holds, and its entries.                          *)
(***************************************************************************)
LEMMA ListType ==
    ASSUME TransInv, NEW a \in AP, worker[a].pc # "idle", worker[a].list \in AP
    PROVE  /\ worker[a].sta \in STA
           /\ List(a) \in Seq(NATMap)
           /\ worker[a].len \in Nat
           /\ worker[a].len <= Len(List(a))
           /\ \A k \in 1 .. worker[a].len : 
                /\ List(a)[k] \in NATMap
                /\ List(a)[k].flow \in Flow
                /\ List(a)[k].newPort \in Port
  <1>1. worker[a] \in Worker /\ Busy(a)
    BY DEF TransInv, TransTypeOK
  <1>2. worker[a].pc \in Translating \/ worker[a].pc \in Moving
    BY <1>1 DEF Worker
  <1>3. worker[a].sta \in STA
    BY <1>1, <1>2, FlowParts DEF Busy, Fit
  <1>4. entries[worker[a].sta][worker[a].list] \in Seq(NATMap)
    BY <1>3 DEF TransInv, TransTypeOK
  <1>5. worker[a].len \in Nat
    BY <1>1 DEF Worker
  <1>6. worker[a].len <= Len(List(a))
    BY <1>1 DEF Busy, Fit, List
  <1>7. \A k \in 1 .. worker[a].len : List(a)[k] \in NATMap
    BY <1>4, <1>5, <1>6 DEF List
  <1> QED  BY <1>3, <1>4, <1>5, <1>6, <1>7 DEF List, NATMap

LEMMA NatAddsType ==
    ASSUME TransInv, NEW a \in AP, worker[a].pc # "idle", worker[a].list \in AP,
           NEW k \in 0 .. worker[a].len
    PROVE  /\ NatAdds(a, k) \in Seq(DownMsg)
           /\ Len(NatAdds(a, k)) = k
           /\ \A i \in 1 .. k : NatAdds(a, k)[i] = NatAdd(List(a)[i].flow, List(a)[i].newPort)
  <1>1. k \in Nat /\ \A i \in 1 .. k : i \in 1 .. worker[a].len
    BY ListType
  <1>2. \A i \in 1 .. k : NatAdd(List(a)[i].flow, List(a)[i].newPort) \in DownMsg
    BY <1>1, ListType, NatAddType
  <1> QED  BY <1>1, <1>2 DEF NatAdds

LEMMA GwNatAddsType ==
    ASSUME TransInv, NEW a \in AP, worker[a].pc = "toGateway",
           NEW k \in 0 .. Len(List(a))
    PROVE  /\ GwNatAdds(a, k) \in Seq(GwMsg)
           /\ Len(GwNatAdds(a, k)) = k
           /\ \A i \in 1 .. k : GwNatAdds(a, k)[i] =
                [ap |-> worker[a].to, flow |-> List(a)[i].flow, port |-> List(a)[i].newPort]
  <1>0. worker[a].list \in AP /\ worker[a].to \in AP
    BY DEF TransInv, Busy, Fit, Moving
  <1>1. /\ k \in Nat /\ List(a) \in Seq(NATMap)
        /\ \A i \in 1 .. k : i \in 1 .. Len(List(a))
    BY <1>0, ListType
  <1>2. \A i \in 1 .. k : List(a)[i].flow \in Flow /\ List(a)[i].newPort \in Port
    <2>1. \A i \in 1 .. k : List(a)[i] \in NATMap
      BY <1>1
    <2> QED  BY <2>1 DEF NATMap
  <1>3. \A i \in 1 .. k : [ap |-> worker[a].to, flow |-> List(a)[i].flow,
                           port |-> List(a)[i].newPort] \in GwMsg
    BY <1>0, <1>2 DEF GwMsg
  <1> QED  BY <1>1, <1>3 DEF GwNatAdds

(***************************************************************************)
(* What a handover writes to the new AP.                                   *)
(***************************************************************************)
LEMMA NewAPMsgsType ==
    ASSUME TransInv, NEW a \in AP, worker[a].pc = "toAP"
    PROVE  NewAPMsgs(a) \in Seq(DownMsg)
  <1>1. worker[a] \in Worker /\ Busy(a) /\ worker[a].sta \in STA
    BY DEF TransInv, TransTypeOK, Busy, Fit, Moving
  <1>2. HasList(a) => worker[a].list \in AP
    BY <1>1 DEF HasList, Worker
  <1>3. HasList(a) => NatAdds(a, worker[a].len) \in Seq(DownMsg)
    <2>1. worker[a].len \in 0 .. worker[a].len
      BY <1>1 DEF Worker
    <2> QED  BY <1>2, <2>1, NatAddsType
  <1>4. UpdateSTAAdd(worker[a].sta) \in DownMsg
    BY <1>1, UpdateType
  <1> QED  BY <1>3, <1>4 DEF NewAPMsgs

(***************************************************************************)
(* An entry that Found may send.                                           *)
(***************************************************************************)
LEMMA MatchType ==
    ASSUME TransInv, NEW a \in AP, worker[a].pc = "search", NEW k \in Matches(a)
    PROVE  /\ worker[a].list \in AP
           /\ k \in 1 .. worker[a].len
           /\ List(a)[k] \in NATMap
           /\ List(a)[k].flow = worker[a].flow
           /\ List(a)[k].newPort \in Port
           /\ worker[a].flow \in Flow
  <1>1. worker[a].list \in AP /\ worker[a].flow \in Flow
    BY DEF TransInv, TransTypeOK, Busy, Fit, Translating
  <1> QED  BY <1>1, ListType DEF Matches


-----------------------------------------------------------------------------

(***************************************************************************)
(* The steps of the controller's threads keep the types.                   *)
(***************************************************************************)
LEMMA WorkerStep ==
    ASSUME TransInv, NEW a \in AP, NEW w \in Worker, Enter(a, w), Fit(w, entries'),
           entries' \in [STA -> [AP -> Seq(NATMap)]],
           \A s \in STA, b \in AP : Len(entries[s][b]) <= Len(entries'[s][b])
    PROVE  worker' \in [AP -> Worker] /\ \A b \in AP : Busy(b)'
  <1>1. worker' \in [AP -> Worker]
    BY DEF TransInv, TransTypeOK, Enter
  <1>2. ASSUME NEW b \in AP PROVE Busy(b)'
    <2>1. CASE b = a
      BY <2>1 DEF Busy, Enter, TransInv, TransTypeOK
    <2>2. CASE b # a
      <3>1. worker'[b] = worker[b] /\ Fit(worker[b], entries) /\ worker[b] \in Worker
        BY <2>2 DEF Busy, Enter, TransInv, TransTypeOK
      <3>2. worker[b].pc # "idle" => worker[b].sta \in STA
        BY <3>1, FlowParts DEF Fit, Worker
      <3>3. worker[b].pc # "idle" /\ worker[b].list \in AP =>
              worker[b].len <= Len(entries'[worker[b].sta][worker[b].list])
        <4> SUFFICES ASSUME worker[b].pc # "idle", worker[b].list \in AP
                     PROVE  worker[b].len <= Len(entries'[worker[b].sta][worker[b].list])
          OBVIOUS
        <4>1. worker[b].len <= Len(entries[worker[b].sta][worker[b].list])
          BY <3>1 DEF Fit
        <4>2. /\ worker[b].len \in Nat
              /\ Len(entries[worker[b].sta][worker[b].list]) \in Nat
              /\ Len(entries'[worker[b].sta][worker[b].list]) \in Nat
          <5>1. /\ entries[worker[b].sta][worker[b].list] \in Seq(NATMap)
                /\ entries'[worker[b].sta][worker[b].list] \in Seq(NATMap)
            BY <3>2 DEF TransInv, TransTypeOK
          <5>2. worker[b].len \in Nat
            BY <3>1 DEF Worker
          <5> QED  BY <5>1, <5>2, LenNat
        <4> QED  BY SMTT(30), <3>2, <4>1, <4>2
      <3>4. Fit(worker[b], entries')
        BY <3>1, <3>3 DEF Fit
      <3> QED  BY <3>1, <3>4 DEF Busy
    <2> QED  BY <2>1, <2>2
  <1> QED  BY <1>1, <1>2

(***************************************************************************)
(* The workers a step leaves behind.                                       *)
(***************************************************************************)
LEMMA IdleType == IdleWorker \in Worker /\ \A e : Fit(IdleWorker, e)
  BY PortFacts DEF IdleWorker, Worker, Fit, Translating, Moving

LEMMA ProceedType ==
    ASSUME TransInv, NEW a \in AP, NEW pc \in Translating, NEW p \in Port,
           worker[a].pc \in Translating
    PROVE  Proceed(a, pc, p) \in Worker /\ Fit(Proceed(a, pc, p), entries)
  <1>1. worker[a] \in Worker /\ Fit(worker[a], entries)
    BY DEF TransInv, TransTypeOK, Busy
  <1>2. Proceed(a, pc, p) \in Worker
    BY <1>1 DEF Proceed, Worker
  <1>3. Fit(Proceed(a, pc, p), entries)
    BY <1>1 DEF Proceed, Fit, Worker, Translating, Moving
  <1> QED  BY <1>2, <1>3

LEMMA MoveOnType ==
    ASSUME TransInv, NEW a \in AP, worker[a].pc = "toAP", HasList(a)
    PROVE  /\ Proceed(a, "toGateway", 0) \in Worker
           /\ Fit(Proceed(a, "toGateway", 0), entries)
  <1>1. worker[a] \in Worker /\ Fit(worker[a], entries)
    BY DEF TransInv, TransTypeOK, Busy
  <1>2. Proceed(a, "toGateway", 0) \in Worker
    BY <1>1, PortFacts DEF Proceed, Worker, Moving
  <1>3. Fit(Proceed(a, "toGateway", 0), entries)
    BY <1>1 DEF Proceed, Fit, Worker, HasList, Translating, Moving
  <1> QED  BY <1>2, <1>3

LEMMA NewWorkerType ==
    ASSUME TransTypeOK, NEW pc \in Translating \cup {"toAP"},
           NEW f \in Flow \cup {None}, NEW s \in STA, NEW list \in AP \cup {None},
           NEW to \in AP \cup {None},
           pc \in Translating => f \in Flow /\ s = f.sta /\ list \in AP,
           pc = "toAP" => to \in AP
    PROVE  NewWorker(pc, f, s, list, to) \in Worker
             /\ Fit(NewWorker(pc, f, s, list, to), entries)
  <1>1. list # None => entries[s][list] \in Seq(NATMap)
    BY DEF TransTypeOK
  <1>2. (IF list = None THEN 0 ELSE Len(entries[s][list])) \in Nat
    BY <1>1
  <1>3. NewWorker(pc, f, s, list, to) \in Worker
    BY <1>2, PortFacts DEF NewWorker, Worker, Moving
  <1>4. Fit(NewWorker(pc, f, s, list, to), entries)
    BY <1>2, NoneAssumption DEF NewWorker, Fit, Translating, Moving
  <1> QED  BY <1>3, <1>4


(***************************************************************************)
(* A step that leaves the lists and everything but one worker alone.       *)
(***************************************************************************)
LEMMA OnlyWorker ==
    ASSUME TransInv, NEW a \in AP, NEW w \in Worker, Enter(a, w), Fit(w, entries),
           UNCHANGED <<entries, portMap, serving>>,
           natTable' \in [STA -> AP \cup {None}],
           overlapped' \in BOOLEAN, carried' \in [STA -> SUBSET Flow]
    PROVE  TransInv'
  <1>1. entries' \in [STA -> [AP -> Seq(NATMap)]]
    BY DEF TransInv, TransTypeOK
  <1>2. \A s \in STA, b \in AP : Len(entries[s][b]) <= Len(entries'[s][b])
    <2> SUFFICES ASSUME NEW s \in STA, NEW b \in AP
                 PROVE  Len(entries[s][b]) <= Len(entries'[s][b])
      OBVIOUS
    <2>1. entries[s][b] \in Seq(NATMap)
      BY DEF TransInv, TransTypeOK
    <2> QED  BY <2>1, LenNat
  <1>3. worker' \in [AP -> Worker] /\ \A b \in AP : Busy(b)'
    BY <1>1, <1>2, WorkerStep
  <1> QED  BY <1>1, <1>3 DEF TransInv, TransTypeOK

LEMMA CloseType ==
    ASSUME WireTypeOK, NEW a \in AP, Close(a), gwSwitch' \in BOOLEAN, gwDown' \in Seq(GwMsg)
    PROVE  WireTypeOK'
  <1>1. conn[a].n \in Nat
    BY DEF WireTypeOK
  <1>2. conn' \in [AP -> [up : BOOLEAN, n : Nat]]
    BY <1>1 DEF Close, WireTypeOK
  <1>3. natUp' \in [AP -> Seq(Flow)]
    BY DEF Close, WireTypeOK
  <1>4. natDown' \in [AP -> Seq(DownMsg)]
    BY DEF Close, WireTypeOK
  <1> QED  BY <1>2, <1>3, <1>4 DEF WireTypeOK

LEMMA AppendedType ==
    ASSUME TransInv, NEW a \in AP, worker[a].pc = "store"
    PROVE  /\ worker[a].sta \in STA /\ worker[a].list \in AP
           /\ worker[a].flow \in Flow /\ worker[a].port \in Port
           /\ Appended(a) \in [STA -> [AP -> Seq(NATMap)]]
           /\ \A s \in STA, b \in AP : Len(entries[s][b]) <= Len(Appended(a)[s][b])
           /\ \A s \in STA, b \in AP : \A i \in 1 .. Len(entries[s][b]) :
                /\ i \in 1 .. Len(Appended(a)[s][b])
                /\ Appended(a)[s][b][i] = entries[s][b][i]
  <1>1. worker[a] \in Worker /\ Fit(worker[a], entries)
    BY DEF TransInv, TransTypeOK, Busy
  <1>2. worker[a].sta \in STA /\ worker[a].list \in AP /\ worker[a].flow \in Flow
    BY <1>1, FlowParts DEF Fit, Translating
  <1>3. worker[a].port \in Port
    BY <1>1 DEF Worker
  <1>4. [flow |-> worker[a].flow, newPort |-> worker[a].port] \in NATMap
    BY <1>2, <1>3 DEF NATMap
  <1> DEFINE e == [flow |-> worker[a].flow, newPort |-> worker[a].port]
  <1>5. /\ \A s \in STA, b \in AP : entries[s][b] \in Seq(NATMap)
        /\ entries \in [STA -> [AP -> Seq(NATMap)]]
    BY DEF TransInv, TransTypeOK
  <1> HIDE DEF e
  <1>6. Appended(a) = [entries EXCEPT ![worker[a].sta][worker[a].list] = Append(@, e)]
    BY DEF Appended, e
  <1>7. \A q \in Seq(NATMap) :
          /\ Append(q, e) \in Seq(NATMap)
          /\ Len(q) <= Len(Append(q, e))
          /\ \A i \in 1 .. Len(q) : i \in 1 .. Len(Append(q, e)) /\ Append(q, e)[i] = q[i]
    BY <1>4 DEF e
  <1>8. Appended(a) \in [STA -> [AP -> Seq(NATMap)]]
    BY <1>2, <1>5, <1>6, <1>7
  <1>9. ASSUME NEW s \in STA, NEW b \in AP
        PROVE  Appended(a)[s][b] \in {entries[s][b], Append(entries[s][b], e)}
    BY SMTT(30), <1>2, <1>5, <1>6
  <1>10. ASSUME NEW s \in STA, NEW b \in AP
         PROVE  /\ Len(entries[s][b]) <= Len(Appended(a)[s][b])
                /\ \A i \in 1 .. Len(entries[s][b]) :
                     /\ i \in 1 .. Len(Appended(a)[s][b])
                     /\ Appended(a)[s][b][i] = entries[s][b][i]
    <2>1. CASE Appended(a)[s][b] = entries[s][b]
      BY <2>1, <1>5, LenNat
    <2>2. CASE Appended(a)[s][b] = Append(entries[s][b], e)
      BY <2>2, <1>5, <1>7
    <2> QED  BY <1>9, <2>1, <2>2
  <1> QED  BY <1>2, <1>3, <1>8, <1>10


LEMMA NextPortType ==
    ASSUME TransTypeOK, NEW f \in Flow
    PROVE  nextPort(f) \in Port
  BY IncrementType, PortFacts DEF TransTypeOK, nextPort

(***************************************************************************)
(* handlePortTranslation                                                   *)
(***************************************************************************)
LEMMA TranslateTypes ==
    ASSUME TypeInv, NEW a \in AP, handlePortTranslation(a)
    PROVE  WireTypeOK' /\ TransInv'
  <1>1. WireTypeOK /\ TransInv /\ TransTypeOK
    BY DEF TypeInv, TransInv
  <1>2. worker[a] \in Worker /\ Fit(worker[a], entries)
    BY <1>1 DEF TransInv, TransTypeOK, Busy
  <1>3. CASE Get(a)
    <2> DEFINE f == Head(natUp[a])
    <2>1. f \in Flow /\ natUp' \in [AP -> Seq(Flow)]
      BY <1>1, <1>3 DEF Get, WireTypeOK
    <2>2. f.sta \in STA /\ natTable[f.sta] \in AP \cup {None}
      BY <1>1, <2>1, FlowParts DEF TransTypeOK
    <2> DEFINE w == IF natTable[f.sta] = None THEN NewWorker("put", f, f.sta, a, None)
                     ELSE NewWorker("search", f, f.sta, natTable[f.sta], None)
    <2>3. w \in Worker /\ Fit(w, entries)
      <3>1. "put" \in Translating /\ "search" \in Translating
        BY DEF Translating
      <3> HIDE DEF f
      <3>2. /\ NewWorker("put", f, f.sta, a, None) \in Worker
            /\ Fit(NewWorker("put", f, f.sta, a, None), entries)
        BY <1>1, <2>1, <2>2, <3>1, NewWorkerType
      <3>3. natTable[f.sta] # None =>
              /\ NewWorker("search", f, f.sta, natTable[f.sta], None) \in Worker
              /\ Fit(NewWorker("search", f, f.sta, natTable[f.sta], None), entries)
        BY <1>1, <2>1, <2>2, <3>1, NewWorkerType
      <3> QED  BY <3>2, <3>3
    <2>4. Enter(a, w)
      BY <1>3 DEF Get
    <2> HIDE DEF w, f
    <2>5. overlapped' \in BOOLEAN
      BY <1>3 DEF Get
    <2>6. UNCHANGED <<natTable, entries, portMap, serving, carried>>
      BY <1>3 DEF Get
    <2>7. TransInv'
      BY <1>1, <2>3, <2>4, <2>5, <2>6, OnlyWorker DEF TransTypeOK
    <2>8. WireTypeOK'
      BY <1>1, <1>3, <2>1 DEF Get, WireTypeOK
    <2> QED  BY <2>7, <2>8
  <1>4. CASE Found(a)
    <2>1. TransInv'
      BY <1>1, <1>4, IdleType, OnlyWorker DEF Found, TransTypeOK
    <2>2. PICK k \in Matches(a) :
            natDown' = Written(a, <<NatAdd(List(a)[k].flow, List(a)[k].newPort)>>)
      BY <1>4 DEF Found
    <2>3. NatAdd(List(a)[k].flow, List(a)[k].newPort) \in DownMsg
      BY <1>1, <1>4, MatchType, NatAddType DEF Found
    <2>4. natDown' \in [AP -> Seq(DownMsg)]
      <3>1. <<NatAdd(List(a)[k].flow, List(a)[k].newPort)>> \in Seq(DownMsg)
        BY <2>3
      <3> QED  BY <1>1, <2>2, <3>1, WrittenType
    <2> QED  BY <1>1, <1>4, <2>1, <2>4 DEF Found, WireTypeOK
  <1>5. CASE NotFound(a)
    <2>1. Proceed(a, "port", 0) \in Worker /\ Fit(Proceed(a, "port", 0), entries)
      <3>1. worker[a].pc \in Translating /\ "port" \in Translating
        BY <1>5 DEF NotFound, Translating
      <3> QED  BY <1>1, <3>1, PortFacts, ProceedType
    <2>2. TransInv'
      BY <1>1, <1>5, <2>1, OnlyWorker DEF NotFound, TransTypeOK
    <2> QED  BY <1>1, <1>5, <2>2 DEF NotFound, WireTypeOK, wireVars
  <1>6. CASE SearchThrows(a)
    <2>1. TransInv'
      BY <1>1, <1>6, IdleType, OnlyWorker DEF SearchThrows, Throw, TransTypeOK
    <2>2. WireTypeOK'
      BY <1>1, <1>6, CloseType DEF SearchThrows, Throw, WireTypeOK
    <2> QED  BY <2>1, <2>2
  <1>7. CASE Put(a)
    <2>1. Proceed(a, "port", 0) \in Worker /\ Fit(Proceed(a, "port", 0), entries)
      <3>1. worker[a].pc \in Translating /\ "port" \in Translating
        BY <1>7 DEF Put, Translating
      <3> QED  BY <1>1, <3>1, PortFacts, ProceedType
    <2>2. natTable' \in [STA -> AP \cup {None}]
      BY <1>1, <1>7 DEF Put, TransTypeOK
    <2>3. TransInv'
      BY <1>1, <1>7, <2>1, <2>2, OnlyWorker DEF Put, TransTypeOK
    <2> QED  BY <1>1, <1>7, <2>3 DEF Put, WireTypeOK, wireVars
  <1>8. CASE ReadPort(a)
    <2>1. nextPort(worker[a].flow) \in Port
      BY <1>1, <1>2, <1>8, NextPortType DEF ReadPort, Fit, Translating
    <2>2. /\ Proceed(a, "store", nextPort(worker[a].flow)) \in Worker
          /\ Fit(Proceed(a, "store", nextPort(worker[a].flow)), entries)
      <3>1. worker[a].pc \in Translating /\ "store" \in Translating
        BY <1>8 DEF ReadPort, Translating
      <3> QED  BY <1>1, <2>1, <3>1, ProceedType
    <2>3. TransInv'
      BY <1>1, <1>8, <2>2, OnlyWorker DEF ReadPort, TransTypeOK
    <2> QED  BY <1>1, <1>8, <2>3 DEF ReadPort, WireTypeOK, wireVars
  <1>9. CASE Store(a)
    <2>1. worker[a].pc = "store" /\ (entries' = Appended(a) \/ entries' = entries)
      BY <1>9 DEF Store
    <2>2. worker[a].flow \in Flow /\ worker[a].port \in Port
      BY <1>1, <2>1, AppendedType
    <2>3. /\ entries' \in [STA -> [AP -> Seq(NATMap)]]
          /\ \A s \in STA, b \in AP : Len(entries[s][b]) <= Len(entries'[s][b])
      <3>1. CASE entries' = Appended(a)
        BY <1>1, <2>1, <3>1, AppendedType
      <3>2. CASE entries' = entries
        <4>1. \A s \in STA, b \in AP : entries[s][b] \in Seq(NATMap)
          BY <1>1 DEF TransTypeOK
        <4>2. \A s \in STA, b \in AP : Len(entries[s][b]) \in Nat
          BY <4>1, LenNat
        <4> QED  BY <1>1, <3>2, <4>2 DEF TransTypeOK
      <3> QED  BY <2>1, <3>1, <3>2
    <2>4. worker' \in [AP -> Worker] /\ \A b \in AP : Busy(b)'
      BY <1>1, <1>9, <2>3, IdleType, WorkerStep DEF Store
    <2>5. portMap' \in [Flow -> Port \cup {None}]
      BY <1>1, <1>9, <2>2 DEF Store, PutPort, TransTypeOK
    <2>6. TransInv'
      BY <1>1, <1>9, <2>3, <2>4, <2>5 DEF Store, TransInv, TransTypeOK
    <2>7. natDown' \in [AP -> Seq(DownMsg)]
      <3>1. NatAdd(worker[a].flow, worker[a].port) \in DownMsg
        BY <2>2, NatAddType
      <3>2. <<NatAdd(worker[a].flow, worker[a].port)>> \in Seq(DownMsg)
        BY <3>1
      <3> QED  BY <1>1, <1>9, <3>2, WrittenType DEF Store
    <2> QED  BY <1>1, <1>9, <2>6, <2>7 DEF Store, WireTypeOK
  <1> QED  BY <1>3, <1>4, <1>5, <1>6, <1>7, <1>8, <1>9 DEF handlePortTranslation


(***************************************************************************)
(* handleAPRSSI                                                            *)
(***************************************************************************)
LEMMA MoveTypes ==
    ASSUME TypeInv, NEW a \in AP, NEW s \in STA, NEW b \in AP, Move(a, s, b)
    PROVE  WireTypeOK' /\ TransInv'
  <1>1. WireTypeOK /\ TransInv /\ TransTypeOK
    BY DEF TypeInv, TransInv
  <1>2. "toAP" \notin Translating /\ natTable[s] \in AP \cup {None}
    BY <1>1 DEF Translating, TransTypeOK
  <1>3. /\ NewWorker("toAP", None, s, natTable[s], b) \in Worker
        /\ Fit(NewWorker("toAP", None, s, natTable[s], b), entries)
    BY <1>1, <1>2, NewWorkerType
  <1>4. serving' \in [STA -> AP]
    BY <1>1 DEF Move, TransTypeOK
  <1> DEFINE w == NewWorker("toAP", None, s, natTable[s], b)
  <1>5. Enter(a, w)
    BY DEF Move
  <1> HIDE DEF w
  <1>6. entries' \in [STA -> [AP -> Seq(NATMap)]] /\ Fit(w, entries')
    BY <1>1, <1>3 DEF Move, TransTypeOK, w
  <1>7. \A r \in STA, c \in AP : Len(entries[r][c]) <= Len(entries'[r][c])
    <2> SUFFICES ASSUME NEW r \in STA, NEW c \in AP
                 PROVE  Len(entries[r][c]) <= Len(entries'[r][c])
      OBVIOUS
    <2>1. entries[r][c] \in Seq(NATMap) /\ entries' = entries
      BY <1>1 DEF TransTypeOK, Move
    <2> QED  BY <2>1, LenNat
  <1>8. worker' \in [AP -> Worker] /\ \A c \in AP : Busy(c)'
    BY <1>1, <1>3, <1>5, <1>6, <1>7, WorkerStep DEF w
  <1>9. TransInv'
    BY <1>1, <1>4, <1>6, <1>8 DEF Move, TransInv, TransTypeOK
  <1>10. WireTypeOK'
    BY <1>1 DEF Move, WireTypeOK, wireVars
  <1> QED  BY <1>9, <1>10

LEMMA HandoverTypes ==
    ASSUME TypeInv, NEW a \in AP, handleAPRSSI(a)
    PROVE  WireTypeOK' /\ TransInv'
  <1>1. WireTypeOK /\ TransInv /\ TransTypeOK
    BY DEF TypeInv, TransInv
  <1>2. worker[a] \in Worker /\ Fit(worker[a], entries)
    BY <1>1 DEF TransInv, TransTypeOK, Busy
  <1>3. CASE ToAP(a)
    <2>1. worker[a].pc = "toAP" /\ worker[a].sta \in STA /\ worker[a].to \in AP
      BY <1>2, <1>3 DEF ToAP, Fit, Moving
    <2> DEFINE flows == IF HasList(a) THEN {List(a)[i].flow : i \in 1 .. worker[a].len}
                                      ELSE {}
    <2>2. flows \in SUBSET Flow
      <3>1. HasList(a) => worker[a].list \in AP
        BY <1>2 DEF HasList, Worker
      <3> QED  BY <1>1, <2>1, <3>1, ListType
    <2>3. carried' = [carried EXCEPT ![worker[a].sta] = flows]
      BY <1>3 DEF ToAP
    <2> HIDE DEF flows
    <2>4. carried' \in [STA -> SUBSET Flow]
      BY <1>1, <2>2, <2>3 DEF TransTypeOK
    <2> DEFINE w == IF HasList(a) /\ gwSwitch THEN Proceed(a, "toGateway", 0) ELSE IdleWorker
    <2>5. w \in Worker /\ Fit(w, entries)
      BY <1>1, <2>1, MoveOnType, IdleType
    <2>6. Enter(a, w)
      BY <1>3 DEF ToAP
    <2> HIDE DEF w
    <2>7. UNCHANGED <<natTable, entries, portMap, serving, overlapped, conn, natUp,
                      gwSwitch, gwDown>>
      BY <1>3 DEF ToAP
    <2>8. TransInv'
      BY <1>1, <2>4, <2>5, <2>6, <2>7, OnlyWorker DEF TransTypeOK
    <2>9. natDown' \in [AP -> Seq(DownMsg)]
      BY <1>1, <1>3, <2>1, NewAPMsgsType, WrittenType DEF ToAP
    <2> QED  BY <1>1, <2>7, <2>8, <2>9 DEF WireTypeOK
  <1>4. CASE ToAPThrows(a)
    <2>1. worker[a].pc = "toAP" /\ worker[a].list \in AP /\ worker[a].to \in AP
      BY <1>2, <1>4 DEF ToAPThrows, Fit, Moving, HasList, Worker
    <2>2. TransInv'
      BY <1>1, <1>4, IdleType, OnlyWorker DEF ToAPThrows, TransTypeOK
    <2>3. PICK k \in 0 .. worker[a].len :
            natDown' = [Written(worker[a].to, NatAdds(a, k)) EXCEPT ![a] = <<>>]
      BY <1>4 DEF ToAPThrows
    <2>4. NatAdds(a, k) \in Seq(DownMsg)
      BY <1>1, <2>1, NatAddsType
    <2>5. Written(worker[a].to, NatAdds(a, k)) \in [AP -> Seq(DownMsg)]
      BY <1>1, <2>1, <2>4, WrittenType
    <2>6. natDown' \in [AP -> Seq(DownMsg)]
      BY <2>3, <2>5
    <2>7. natUp' \in [AP -> Seq(Flow)]
      BY <1>1, <1>4 DEF ToAPThrows, WireTypeOK
    <2>8. conn' \in [AP -> [up : BOOLEAN, n : Nat]]
      <3>1. conn[a].n \in Nat
        BY <1>1 DEF WireTypeOK
      <3> QED  BY <1>1, <1>4, <3>1 DEF ToAPThrows, WireTypeOK
    <2> QED  BY <1>1, <1>4, <2>2, <2>6, <2>7, <2>8 DEF ToAPThrows, WireTypeOK
  <1>5. CASE ToGateway(a)
    <2>1. TransInv'
      BY <1>1, <1>5, IdleType, OnlyWorker DEF ToGateway, TransTypeOK
    <2>2. worker[a].pc = "toGateway" /\ Len(List(a)) \in 0 .. Len(List(a))
      <3>1. worker[a].pc = "toGateway" /\ worker[a].list \in AP
        BY <1>2, <1>5 DEF ToGateway, Fit, Moving
      <3>2. List(a) \in Seq(NATMap)
        BY <1>1, <3>1, ListType
      <3> QED  BY <3>1, <3>2
    <2>3. GwNatAdds(a, Len(List(a))) \in Seq(GwMsg)
      BY <1>1, <2>2, GwNatAddsType
    <2>4. gwDown' \in Seq(GwMsg)
      BY <1>1, <1>5, <2>3 DEF ToGateway, WireTypeOK
    <2> QED  BY <1>1, <1>5, <2>1, <2>4 DEF ToGateway, WireTypeOK
  <1>6. CASE ToGatewayThrows(a)
    <2>1. TransInv'
      BY <1>1, <1>6, IdleType, OnlyWorker DEF ToGatewayThrows, TransTypeOK
    <2>2. PICK k \in 0 .. Len(List(a)) - 1 :
            gwDown' = IF gwSwitch THEN gwDown \o GwNatAdds(a, k) ELSE gwDown
      BY <1>6 DEF ToGatewayThrows
    <2>3. GwNatAdds(a, k) \in Seq(GwMsg)
      <3>1. worker[a].pc = "toGateway" /\ worker[a].list \in AP
        BY <1>2, <1>6 DEF ToGatewayThrows, Fit, Moving
      <3>2. List(a) \in Seq(NATMap)
        BY <1>1, <3>1, ListType
      <3>3. k \in 0 .. Len(List(a))
        BY <3>2
      <3> QED  BY <1>1, <3>1, <3>3, GwNatAddsType
    <2>4. gwDown' \in Seq(GwMsg)
      BY <1>1, <2>2, <2>3 DEF WireTypeOK
    <2>5. WireTypeOK'
      BY <1>1, <1>6, <2>4, CloseType DEF ToGatewayThrows, WireTypeOK
    <2> QED  BY <2>1, <2>5
  <1> QED  BY <1>3, <1>4, <1>5, <1>6 DEF handleAPRSSI


-----------------------------------------------------------------------------

(***************************************************************************)
(* The steps of the access points keep the types.  An entry is never taken *)
(* back, so whoever has seen one may rely on it.                           *)
(***************************************************************************)
LEMMA EnteredKept ==
    ASSUME QueueInv, NEW b \in AP,
           \A f \in Flow : entryList[b][f] # None => entryList'[b][f] # None,
           queue0'[b] = queue0[b], reinjecting'[b] = reinjecting[b],
           adding'[b] = adding[b]
    PROVE  Entered(b)'
  <1>1. queue0[b].pc = "accept" => queue0[b].pkt.flow \in Flow
    BY DEF QueueInv, QueueTypeOK, Handling, NoPacket, Packet
  <1> QED  BY <1>1 DEF QueueInv, Entered, lookupPortMapQ0

LEMMA LookupTypes ==
    ASSUME QueueInv, NEW a \in AP, NEW p \in Packet, Lookup(a, p)
    PROVE  QueueInv'
  <1>1. QueueTypeOK'
    BY DEF QueueInv, QueueTypeOK, Lookup, Handling
  <1>2. ASSUME NEW b \in AP PROVE Entered(b)'
    <2>1. CASE b = a
      BY <2>1 DEF QueueInv, QueueTypeOK, Lookup, Entered, lookupPortMapQ0
    <2>2. CASE b # a
      BY <2>2, EnteredKept DEF QueueInv, QueueTypeOK, Lookup
    <2> QED  BY <2>1, <2>2
  <1> QED  BY <1>1, <1>2 DEF QueueInv

LEMMA AcceptTypes ==
    ASSUME QueueInv, NEW a \in AP, Accept(a)
    PROVE  /\ QueueInv'
           /\ queue0[a].pkt \in Packet
           /\ out' = out \cup {[pkt |-> queue0[a].pkt, ap |-> a,
                                port |-> entryList[a][queue0[a].pkt.flow]]}
           /\ queue0[a].pkt.flow \in Flow
           /\ entryList[a][queue0[a].pkt.flow] \in Port
  <1>1. queue0[a].pkt \in Packet /\ queue0[a].pc = "accept"
    BY DEF QueueInv, QueueTypeOK, Accept, Handling, NoPacket
  <1>2. queue0[a].pkt.flow \in Flow /\ entryList[a][queue0[a].pkt.flow] # None
    BY <1>1 DEF QueueInv, Entered, lookupPortMapQ0, Packet
  <1>3. entryList[a][queue0[a].pkt.flow] \in Port
    BY <1>2 DEF QueueInv, QueueTypeOK
  <1>4. [pkt |-> queue0[a].pkt, ap |-> a,
         port |-> entryList[a][queue0[a].pkt.flow]] \in Sent
    BY <1>1, <1>3 DEF Sent
  <1>5. out' = out \cup {[pkt |-> queue0[a].pkt, ap |-> a,
                          port |-> entryList[a][queue0[a].pkt.flow]]}
    BY DEF Accept
  <1>6. out' \subseteq Sent
    BY <1>4, <1>5 DEF QueueInv, QueueTypeOK
  <1>7. QueueTypeOK'
    BY <1>6 DEF QueueInv, QueueTypeOK, Accept, Handling
  <1>8. ASSUME NEW b \in AP PROVE Entered(b)'
    <2>1. CASE b = a
      BY <2>1 DEF QueueInv, QueueTypeOK, Accept, Entered, NoPacket, lookupPortMapQ0
    <2>2. CASE b # a
      BY <2>2, EnteredKept DEF QueueInv, QueueTypeOK, Accept
    <2> QED  BY <2>1, <2>2
  <1> QED  BY <1>1, <1>2, <1>3, <1>5, <1>7, <1>8 DEF QueueInv

LEMMA KeepTypes ==
    ASSUME QueueInv, NEW a \in AP, Keep(a)
    PROVE  QueueInv' /\ queue0[a].pkt \in Packet /\ queue0[a].pkt.flow \in Flow
  <1>1. queue0[a].pkt \in Packet /\ queue0[a].pkt.flow \in Flow
    BY DEF QueueInv, QueueTypeOK, Keep, addPortData, Handling, NoPacket, Packet
  <1>2. asking' \in [AP -> [Flow -> Nat]]
    BY <1>1 DEF QueueInv, QueueTypeOK, Keep, addPortData
  <1>3. portQueue' \in [AP -> SUBSET Packet]
    BY <1>1 DEF QueueInv, QueueTypeOK, Keep, addPortData
  <1>4. QueueTypeOK'
    BY <1>2, <1>3 DEF QueueInv, QueueTypeOK, Keep, addPortData, Handling
  <1>5. ASSUME NEW b \in AP PROVE Entered(b)'
    <2>1. CASE b = a
      BY <2>1 DEF QueueInv, QueueTypeOK, Keep, addPortData, Entered, NoPacket, lookupPortMapQ0
    <2>2. CASE b # a
      BY <2>2, EnteredKept DEF QueueInv, QueueTypeOK, Keep, addPortData
    <2> QED  BY <2>1, <2>2
  <1> QED  BY <1>1, <1>4, <1>5 DEF QueueInv

LEMMA AskTypes ==
    ASSUME QueueInv, WireTypeOK, NEW a \in AP, NEW f \in Flow, send_nat_port_entry(a, f)
    PROVE  QueueInv' /\ WireTypeOK'
  <1>1. asking[a][f] \in Nat /\ asking[a][f] > 0
    BY DEF QueueInv, QueueTypeOK, send_nat_port_entry
  <1>2. asking' \in [AP -> [Flow -> Nat]]
    BY <1>1 DEF QueueInv, QueueTypeOK, send_nat_port_entry
  <1>3. QueueTypeOK'
    BY <1>2 DEF QueueInv, QueueTypeOK, send_nat_port_entry
  <1>4. ASSUME NEW b \in AP PROVE Entered(b)'
    BY EnteredKept DEF QueueInv, QueueTypeOK, send_nat_port_entry
  <1>5. natUp' \in [AP -> Seq(Flow)]
    BY DEF WireTypeOK, send_nat_port_entry
  <1> QED  BY <1>3, <1>4, <1>5 DEF QueueInv, WireTypeOK, send_nat_port_entry

LEMMA ReceivingTypes ==
    ASSUME WireTypeOK, NEW a \in AP, NEW t, Receiving(a, t)
    PROVE  WireTypeOK' /\ Head(natDown[a]) \in DownMsg /\ natDown[a] # <<>>
  <1>1. natDown[a] \in Seq(DownMsg) /\ natDown[a] # <<>>
    BY DEF Receiving, WireTypeOK
  <1>2. Head(natDown[a]) \in DownMsg /\ Tail(natDown[a]) \in Seq(DownMsg)
    BY <1>1
  <1> QED  BY <1>1, <1>2 DEF Receiving, WireTypeOK

LEMMA DownFields ==
    ASSUME NEW m \in DownMsg
    PROVE  /\ m.type = "NAT_ADD" => m.flow \in Flow /\ m.port \in Port
           /\ m.type = "UPDATE_STA_ADD" => m.sta \in STA
           /\ m.type \in {"NAT_ADD", "UPDATE_STA_ADD"}
           /\ m # NoAdd
  BY DEF DownMsg, NoAdd

LEMMA AddEntryTypes ==
    ASSUME QueueInv, WireTypeOK, NEW a \in AP, addEntry(a)
    PROVE  /\ QueueInv' /\ WireTypeOK'
           /\ Head(natDown[a]) \in DownMsg /\ Head(natDown[a]).type = "NAT_ADD"
           /\ Head(natDown[a]).flow \in Flow
           /\ natDown[a] # <<>> /\ natDown' = [natDown EXCEPT ![a] = Tail(@)]
  <1> DEFINE m == Head(natDown[a])
  <1>1. Receiving(a, "NAT_ADD") /\ m.type = "NAT_ADD"
    BY DEF addEntry, Receiving
  <1>2. WireTypeOK' /\ m \in DownMsg /\ natDown[a] # <<>>
    BY <1>1, ReceivingTypes
  <1>3. m.flow \in Flow /\ m # NoAdd
    BY <1>1, <1>2, DownFields
  <1>4. /\ entryList' = [entryList EXCEPT ![a][m.flow] = IF @ = None THEN 0 ELSE @]
        /\ adding' = [adding EXCEPT ![a] = m]
        /\ UNCHANGED <<portQueue, queue0, asking, reinjecting, out, at>>
    BY DEF addEntry
  <1> HIDE DEF m
  <1>5. entryList' \in [AP -> [Flow -> Port \cup {None}]]
    BY <1>3, <1>4, PortFacts DEF QueueInv, QueueTypeOK
  <1>6. QueueTypeOK'
    BY <1>2, <1>4, <1>5 DEF QueueInv, QueueTypeOK
  <1>7. \A b \in AP, f \in Flow : entryList[b][f] # None => entryList'[b][f] # None
    BY <1>3, <1>4, PortFacts, NoneAssumption DEF QueueInv, QueueTypeOK
  <1>8. ASSUME NEW b \in AP PROVE Entered(b)'
    <2>1. CASE b = a
      <3>1. queue0[b].pc = "accept" => queue0[b].pkt.flow \in Flow
        BY DEF QueueInv, QueueTypeOK, Handling, NoPacket, Packet
      <3>2. adding'[b] = m
        BY <1>4, <2>1 DEF QueueInv, QueueTypeOK
      <3>3. Entered(b)
        BY DEF QueueInv
      <3> QED  BY <1>1, <1>4, <1>7, <3>1, <3>2, <3>3 DEF Entered, lookupPortMapQ0, m
    <2>2. CASE b # a
      BY <1>4, <1>7, <2>2, EnteredKept DEF QueueInv, QueueTypeOK
    <2> QED  BY <2>1, <2>2
  <1> QED  BY <1>1, <1>2, <1>3, <1>6, <1>8 DEF QueueInv, m, Receiving

LEMMA SetPortTypes ==
    ASSUME QueueInv, WireTypeOK, NEW a \in AP, SetPort(a)
    PROVE  /\ QueueInv' /\ WireTypeOK'
           /\ adding[a] \in DownMsg /\ adding[a].type = "NAT_ADD"
           /\ adding[a].flow \in Flow /\ adding[a].port \in Port
  <1> DEFINE m == adding[a]
  <1>1. m \in DownMsg /\ m.type = "NAT_ADD"
    BY DEF QueueInv, QueueTypeOK, SetPort, Entered
  <1>2. m.flow \in Flow /\ m.port \in Port
    BY <1>1, DownFields
  <1>3. /\ entryList' = [entryList EXCEPT ![a][m.flow] = m.port]
        /\ reinjecting' = [reinjecting EXCEPT ![a][m.flow] = @ + 1]
        /\ adding' = [adding EXCEPT ![a] = NoAdd]
        /\ UNCHANGED <<portQueue, queue0, asking, out, at, wireVars>>
    BY DEF SetPort
  <1> HIDE DEF m
  <1>4. entryList' \in [AP -> [Flow -> Port \cup {None}]]
    BY <1>2, <1>3 DEF QueueInv, QueueTypeOK
  <1>5. reinjecting' \in [AP -> [Flow -> Nat]]
    BY <1>2, <1>3 DEF QueueInv, QueueTypeOK
  <1>6. QueueTypeOK'
    BY <1>3, <1>4, <1>5 DEF QueueInv, QueueTypeOK
  <1>7. \A b \in AP, f \in Flow : entryList[b][f] # None => entryList'[b][f] # None
    BY <1>2, <1>3, NoneAssumption DEF QueueInv, QueueTypeOK
  <1>8. ASSUME NEW b \in AP PROVE Entered(b)'
    <2>1. CASE b = a
      <3>1. queue0[b].pc = "accept" => queue0[b].pkt.flow \in Flow
        BY DEF QueueInv, QueueTypeOK, Handling, NoPacket, Packet
      <3>2. adding'[b] = NoAdd
        BY <1>3, <2>1 DEF QueueInv, QueueTypeOK
      <3>3. Entered(b)
        BY DEF QueueInv
      <3>4. \A f \in Flow : reinjecting'[b][f] > 0 => entryList'[b][f] # None
        <4> SUFFICES ASSUME NEW f \in Flow, reinjecting'[b][f] > 0
                     PROVE  entryList'[b][f] # None
          OBVIOUS
        <4>1. CASE f = m.flow
          BY <1>2, <1>3, <2>1, <4>1, NoneAssumption DEF QueueInv, QueueTypeOK
        <4>2. CASE f # m.flow
          <5>1. reinjecting'[b][f] = reinjecting[b][f]
            BY <1>3, <4>2 DEF QueueInv, QueueTypeOK
          <5> QED  BY <1>7, <3>3, <5>1 DEF Entered, lookupPortMapQ0
        <4> QED  BY <4>1, <4>2
      <3> QED  BY <1>3, <1>7, <3>1, <3>2, <3>3, <3>4 DEF Entered, lookupPortMapQ0
    <2>2. CASE b # a
      BY <1>3, <1>7, <2>2, EnteredKept DEF QueueInv, QueueTypeOK
    <2> QED  BY <2>1, <2>2
  <1>9. WireTypeOK'
    BY <1>3 DEF WireTypeOK, wireVars
  <1> QED  BY <1>1, <1>2, <1>6, <1>8, <1>9 DEF QueueInv, m


(***************************************************************************)
(* What a reinjection sends on.                                            *)
(***************************************************************************)
LEMMA ReinjectTypes ==
    ASSUME QueueInv, NEW a \in AP, NEW f \in Flow, reinject_pkt(a, f)
    PROVE  /\ QueueInv'
           /\ entryList[a][f] \in Port
           /\ KeptOf(a, f) \subseteq Packet
           /\ out' = out \cup {[pkt |-> p, ap |-> a, port |-> entryList[a][f]] :
                                 p \in KeptOf(a, f)}
           /\ portQueue' = [portQueue EXCEPT ![a] = @ \ KeptOf(a, f)]
  <1>1. reinjecting[a][f] \in Nat /\ reinjecting[a][f] > 0
    BY DEF QueueInv, QueueTypeOK, reinject_pkt
  <1>2. entryList[a][f] \in Port
    BY <1>1 DEF QueueInv, QueueTypeOK, Entered, lookupPortMapQ0
  <1>3. KeptOf(a, f) \subseteq Packet
    BY DEF QueueInv, QueueTypeOK, KeptOf
  <1>4. /\ reinjecting' = [reinjecting EXCEPT ![a][f] = @ - 1]
        /\ out' = out \cup {[pkt |-> p, ap |-> a, port |-> entryList[a][f]] :
                              p \in KeptOf(a, f)}
        /\ portQueue' = [portQueue EXCEPT ![a] = @ \ KeptOf(a, f)]
        /\ UNCHANGED <<entryList, queue0, asking, adding, at>>
    BY DEF reinject_pkt
  <1>5. out' \subseteq Sent
    BY <1>2, <1>3, <1>4 DEF QueueInv, QueueTypeOK, Sent
  <1>6. portQueue' \in [AP -> SUBSET Packet]
    BY <1>4 DEF QueueInv, QueueTypeOK
  <1>7. reinjecting' \in [AP -> [Flow -> Nat]]
    BY <1>1, <1>4 DEF QueueInv, QueueTypeOK
  <1>8. QueueTypeOK'
    BY <1>4, <1>5, <1>6, <1>7 DEF QueueInv, QueueTypeOK
  <1>9. ASSUME NEW b \in AP PROVE Entered(b)'
    <2>1. \A g \in Flow : reinjecting'[b][g] > 0 => reinjecting[b][g] > 0
      BY <1>1, <1>4 DEF QueueInv, QueueTypeOK
    <2>2. Entered(b)
      BY DEF QueueInv
    <2> QED  BY <1>4, <2>1, <2>2 DEF Entered, lookupPortMapQ0
  <1> QED  BY <1>2, <1>3, <1>4, <1>8, <1>9 DEF QueueInv

LEMMA UpdateTypes ==
    ASSUME QueueInv, WireTypeOK, NEW a \in AP, UPDATE_STA_ADD(a)
    PROVE  /\ QueueInv' /\ WireTypeOK'
           /\ Head(natDown[a]) \in DownMsg /\ Head(natDown[a]).type = "UPDATE_STA_ADD"
           /\ Head(natDown[a]).sta \in STA
           /\ natDown[a] # <<>> /\ natDown' = [natDown EXCEPT ![a] = Tail(@)]
  <1>1. Receiving(a, "UPDATE_STA_ADD") /\ Head(natDown[a]).type = "UPDATE_STA_ADD"
    BY DEF UPDATE_STA_ADD, Receiving
  <1>2. WireTypeOK' /\ Head(natDown[a]) \in DownMsg /\ natDown[a] # <<>>
    BY <1>1, ReceivingTypes
  <1>3. Head(natDown[a]).sta \in STA
    BY <1>1, <1>2, DownFields
  <1>4. QueueTypeOK'
    BY <1>3 DEF QueueInv, QueueTypeOK, UPDATE_STA_ADD
  <1>5. ASSUME NEW b \in AP PROVE Entered(b)'
    BY EnteredKept DEF QueueInv, QueueTypeOK, UPDATE_STA_ADD
  <1> QED  BY <1>1, <1>2, <1>3, <1>4, <1>5 DEF QueueInv, Receiving

LEMMA QueueSame ==
    ASSUME QueueInv, UNCHANGED queueVars
    PROVE  QueueInv'
  BY DEF queueVars, QueueInv, QueueTypeOK, Entered, lookupPortMapQ0

LEMMA TransSame ==
    ASSUME TransInv, UNCHANGED transVars
    PROVE  TransInv'
  BY DEF transVars, TransInv, TransTypeOK, Busy

LEMMA WireSame ==
    ASSUME WireTypeOK, UNCHANGED wireVars
    PROVE  WireTypeOK'
  BY DEF wireVars, WireTypeOK

(***************************************************************************)
(* The gateway: what has passed has left an access point before.           *)
(***************************************************************************)
LEMMA GwSame ==
    ASSUME GwInv, UNCHANGED gwVars, out \subseteq out'
    PROVE  GwInv'
  BY DEF gwVars, GwInv, GwTypeOK

LEMMA SetSrcAddrType ==
    ASSUME GwTypeOK, NEW p \in Port, NEW d \in Host, NEW q \in Port, NEW a \in AP,
           SetSrcAddr(p, d, q, a)
    PROVE  GwTypeOK'
  BY DEF GwTypeOK, SetSrcAddr, NatMap, lookupNatMap

LEMMA GwPacketTypes ==
    ASSUME GwInv, out \subseteq Sent, NEW w \in out, handle_pkt(w), UNCHANGED out
    PROVE  GwInv'
  <1>1. w.port \in Port /\ w.pkt.flow \in Flow /\ w.ap \in AP
    BY DEF Sent, Packet
  <1>2. w.pkt.flow.dst \in Host /\ w.pkt.flow.dport \in Port
    BY <1>1, FlowParts
  <1>3. GwTypeOK'
    BY <1>1, <1>2, SetSrcAddrType DEF handle_pkt, GwInv
  <1>4. passed' \in Seq(out)
    BY DEF handle_pkt, GwInv
  <1> QED  BY <1>3, <1>4 DEF GwInv

LEMMA GwVendorTypes ==
    ASSUME GwInv, WireTypeOK, handle_vendor, UNCHANGED out
    PROVE  GwInv' /\ WireTypeOK'
  <1> DEFINE m == Head(gwDown)
  <1>1. m \in GwMsg /\ gwDown' \in Seq(GwMsg)
    BY DEF handle_vendor, WireTypeOK
  <1>2. m.flow \in Flow /\ m.ap \in AP
    BY <1>1 DEF GwMsg
  <1>3. m.flow.sport \in Port /\ m.flow.dst \in Host
    BY <1>2, FlowParts
  <1>4. SetSrcAddr(m.flow.sport, m.flow.dst, m.flow.sport, m.ap)
    BY DEF handle_vendor, NAT_ADD
  <1> HIDE DEF m
  <1>5. GwTypeOK'
    BY <1>2, <1>3, <1>4, SetSrcAddrType DEF GwInv
  <1>6. passed' \in Seq(out')
    BY DEF handle_vendor, GwInv
  <1>7. WireTypeOK'
    BY <1>1 DEF handle_vendor, WireTypeOK
  <1> QED  BY <1>5, <1>6, <1>7 DEF GwInv

LEMMA SpendType ==
    ASSUME EnvInv, NEW k \in Kind, Spend(k)
    PROVE  spent' \in [Kind -> Nat]
  BY DEF EnvInv, Spend

LEMMA EnvSame ==
    ASSUME EnvInv, UNCHANGED envVars
    PROVE  EnvInv'
  BY DEF envVars, EnvInv


LEMMA TypeStep == TypeInv /\ [Next]_vars => TypeInv'
  <1> SUFFICES ASSUME TypeInv, [Next]_vars PROVE TypeInv'
    OBVIOUS
  <1>0. WireTypeOK /\ TransInv /\ QueueInv /\ GwInv /\ EnvInv
    BY DEF TypeInv
  <1>1. ASSUME NEW a \in AP, HandlePortTranslation(a) PROVE TypeInv'
    <2>1. WireTypeOK' /\ TransInv'
      BY <1>1, TranslateTypes DEF HandlePortTranslation
    <2>2. QueueInv' /\ EnvInv'
      BY <1>0, <1>1, QueueSame, EnvSame DEF HandlePortTranslation
    <2>3. GwInv'
      BY <1>0, <1>1, GwSame DEF HandlePortTranslation, queueVars
    <2> QED  BY <2>1, <2>2, <2>3 DEF TypeInv
  <1>2. ASSUME NEW a \in AP, HandleAPRSSI(a) PROVE TypeInv'
    <2>1. WireTypeOK' /\ TransInv'
      BY <1>2, HandoverTypes DEF HandleAPRSSI
    <2>2. QueueInv' /\ EnvInv'
      BY <1>0, <1>2, QueueSame, EnvSame DEF HandleAPRSSI
    <2>3. GwInv'
      BY <1>0, <1>2, GwSame DEF HandleAPRSSI, queueVars
    <2> QED  BY <2>1, <2>2, <2>3 DEF TypeInv
  <1>3. ASSUME NEW a \in AP, HandlePkt(a) PROVE TypeInv'
    <2>1. WireTypeOK' /\ TransInv' /\ EnvInv'
      BY <1>0, <1>3, WireSame, TransSame, EnvSame DEF HandlePkt
    <2>2. QueueInv' /\ out \subseteq out'
      <3>1. CASE Accept(a)
        BY <1>0, <3>1, AcceptTypes
      <3>2. CASE Keep(a)
        BY <1>0, <3>2, KeepTypes DEF Keep
      <3> QED  BY <1>3, <3>1, <3>2 DEF HandlePkt
    <2>3. GwInv'
      BY <1>0, <1>3, <2>2, GwSame DEF HandlePkt
    <2> QED  BY <2>1, <2>2, <2>3 DEF TypeInv
  <1>4. ASSUME NEW a \in AP, HandleVendor(a) PROVE TypeInv'
    <2>1. TransInv' /\ EnvInv'
      BY <1>0, <1>4, TransSame, EnvSame DEF HandleVendor
    <2>2. QueueInv' /\ WireTypeOK' /\ out' = out
      <3>1. CASE addEntry(a)
        BY <1>0, <3>1, AddEntryTypes DEF addEntry
      <3>2. CASE SetPort(a)
        BY <1>0, <3>2, SetPortTypes DEF SetPort
      <3>3. CASE UPDATE_STA_ADD(a)
        BY <1>0, <3>3, UpdateTypes DEF UPDATE_STA_ADD
      <3> QED  BY <1>4, <3>1, <3>2, <3>3 DEF HandleVendor
    <2>3. GwInv'
      BY <1>0, <1>4, <2>2, GwSame DEF HandleVendor
    <2> QED  BY <2>1, <2>2, <2>3 DEF TypeInv
  <1>5. ASSUME NEW a \in AP, ConnOpen(a) PROVE TypeInv'
    <2>1. TransInv' /\ EnvInv' /\ QueueInv'
      BY <1>0, <1>5, TransSame, EnvSame, QueueSame DEF ConnOpen
    <2>2. GwInv'
      BY <1>0, <1>5, GwSame DEF ConnOpen, queueVars
    <2>3. conn' \in [AP -> [up : BOOLEAN, n : Nat]]
      <3>1. conn[a].n + 1 \in Nat
        BY <1>0 DEF WireTypeOK
      <3> QED  BY <1>0, <1>5, <3>1 DEF ConnOpen, WireTypeOK
    <2>4. WireTypeOK'
      BY <1>0, <1>5, <2>3 DEF ConnOpen, WireTypeOK
    <2> QED  BY <2>1, <2>2, <2>4 DEF TypeInv
  <1>6. ASSUME NEW a \in AP, Cut(a) PROVE TypeInv'
    <2>1. TransInv' /\ QueueInv'
      BY <1>0, <1>6, TransSame, QueueSame DEF Cut
    <2>2. GwInv'
      BY <1>0, <1>6, GwSame DEF Cut, queueVars
    <2>3. EnvInv'
      BY <1>0, <1>6, SpendType DEF Cut, EnvInv, Kind
    <2>4. WireTypeOK'
      BY <1>0, <1>6, CloseType DEF Cut, WireTypeOK
    <2> QED  BY <2>1, <2>2, <2>3, <2>4 DEF TypeInv
  <1>7. ASSUME NEW a \in AP, NEW f \in Flow, SendNatPortEntry(a, f) PROVE TypeInv'
    <2>1. TransInv' /\ EnvInv' /\ QueueInv' /\ WireTypeOK'
      BY <1>0, <1>7, TransSame, EnvSame, AskTypes DEF SendNatPortEntry
    <2>2. GwInv'
      BY <1>0, <1>7, GwSame DEF SendNatPortEntry, send_nat_port_entry
    <2> QED  BY <2>1, <2>2 DEF TypeInv
  <1>8. ASSUME NEW a \in AP, NEW f \in Flow, ReinjectPkt(a, f) PROVE TypeInv'
    <2>1. TransInv' /\ EnvInv' /\ QueueInv' /\ out \subseteq out'
      BY <1>0, <1>8, TransSame, EnvSame, ReinjectTypes DEF ReinjectPkt
    <2>2. WireTypeOK'
      BY <1>0, <1>8, WireSame DEF ReinjectPkt, reinject_pkt
    <2>3. GwInv'
      BY <1>0, <1>8, <2>1, GwSame DEF ReinjectPkt
    <2> QED  BY <2>1, <2>2, <2>3 DEF TypeInv
  <1>9. ASSUME NEW w \in out, GwHandlePkt(w) PROVE TypeInv'
    <2>1. WireTypeOK' /\ TransInv' /\ QueueInv' /\ EnvInv'
      BY <1>0, <1>9, WireSame, TransSame, QueueSame, EnvSame DEF GwHandlePkt
    <2>2. GwInv'
      BY <1>0, <1>9, GwPacketTypes DEF GwHandlePkt, queueVars, QueueInv, QueueTypeOK
    <2> QED  BY <2>1, <2>2 DEF TypeInv
  <1>10. CASE GwHandleVendor
    <2>1. TransInv' /\ QueueInv' /\ EnvInv'
      BY <1>0, <1>10, TransSame, QueueSame, EnvSame DEF GwHandleVendor
    <2>2. GwInv' /\ WireTypeOK'
      BY <1>0, <1>10, GwVendorTypes DEF GwHandleVendor, queueVars
    <2> QED  BY <2>1, <2>2 DEF TypeInv
  <1>11. ASSUME NEW f \in Flow, Send(f) PROVE TypeInv'
    <2>1. WireTypeOK' /\ TransInv'
      BY <1>0, <1>11, WireSame, TransSame DEF Send
    <2>2. at[f.sta] \in AP
      BY <1>0, FlowParts DEF QueueInv, QueueTypeOK
    <2>3. [flow |-> f, n |-> count[f] + 1] \in Packet
      BY <1>0 DEF EnvInv, Packet
    <2>4. QueueInv'
      BY <1>0, <1>11, <2>2, <2>3, LookupTypes DEF Send
    <2>5. GwInv'
      BY <1>0, <1>11, GwSame DEF Send, Lookup
    <2>6. EnvInv'
      BY <1>0, <1>11, SpendType DEF Send, EnvInv, Kind
    <2> QED  BY <2>1, <2>4, <2>5, <2>6 DEF TypeInv
  <1>12. ASSUME NEW s \in STA, NEW b \in AP, Decide(s, b) PROVE TypeInv'
    <2>1. at[s] \in AP
      BY <1>0 DEF QueueInv, QueueTypeOK
    <2>2. WireTypeOK' /\ TransInv'
      BY <1>12, <2>1, MoveTypes DEF Decide
    <2>3. QueueInv'
      BY <1>0, <1>12, QueueSame DEF Decide
    <2>4. GwInv'
      BY <1>0, <1>12, GwSame DEF Decide, queueVars
    <2>5. EnvInv'
      BY <1>0, <1>12, SpendType DEF Decide, EnvInv, Kind
    <2> QED  BY <2>2, <2>3, <2>4, <2>5 DEF TypeInv
  <1>13. CASE GW_CONNECT
    <2>1. TransInv' /\ QueueInv' /\ EnvInv'
      BY <1>0, <1>13, TransSame, QueueSame, EnvSame DEF GW_CONNECT
    <2>2. GwInv'
      BY <1>0, <1>13, GwSame DEF GW_CONNECT, queueVars
    <2>3. WireTypeOK'
      BY <1>0, <1>13 DEF GW_CONNECT, WireTypeOK
    <2> QED  BY <2>1, <2>2, <2>3 DEF TypeInv
  <1>14. CASE RemovedGateway
    <2>1. TransInv' /\ QueueInv'
      BY <1>0, <1>14, TransSame, QueueSame DEF RemovedGateway
    <2>2. GwInv'
      BY <1>0, <1>14, GwSame DEF RemovedGateway, queueVars
    <2>3. gwDown' \in Seq(GwMsg) /\ gwSwitch' \in BOOLEAN
      <3>1. gwDown' \in Seq(GwMsg)
        BY <1>14 DEF RemovedGateway
      <3>2. gwSwitch' \in BOOLEAN
        BY <1>14 DEF RemovedGateway
      <3> QED  BY <3>1, <3>2
    <2>4. WireTypeOK'
      BY <1>0, <1>14, <2>3 DEF RemovedGateway, WireTypeOK
    <2>5. EnvInv'
      BY <1>0, <1>14, SpendType DEF RemovedGateway, EnvInv, Kind
    <2> QED  BY <2>1, <2>2, <2>4, <2>5 DEF TypeInv
  <1>15. CASE UNCHANGED vars
    BY <1>0, <1>15, WireSame, TransSame, QueueSame, EnvSame, GwSame
       DEF vars, TypeInv, queueVars
  <1> QED
    BY <1>1, <1>2, <1>3, <1>4, <1>5, <1>6, <1>7, <1>8, <1>9, <1>10, <1>11, <1>12,
       <1>13, <1>14, <1>15 DEF Next

LEMMA TypeInvAlways == Spec => []TypeInv
  BY InvInit, TypeStep, PTL DEF Spec

(***************************************************************************)
(* Types, for every value of the constants.  In particular a packet leaves *)
(* an access point only with a port, never without an entry: entries are   *)
(* never taken back, and handle_pkt and reinject_pkt use one that exists.  *)
(***************************************************************************)
THEOREM TypeCorrect == Spec => []TypeOK
  BY TypeInvAlways, InvImpliesTypeOK, PTL


-----------------------------------------------------------------------------

(***************************************************************************)
(* KeptAsked.  The disjuncts, one for every place where the request or its *)
(* answer can be.  A connection with number 1 has not failed: numbers      *)
(* begin with 1, and only grow.                                            *)
(***************************************************************************)
Up(a, f) == \E i \in 1 .. Len(natUp[a]) : natUp[a][i] = f

Down(a, f) ==
    \E i \in 1 .. Len(natDown[a]) :
       natDown[a][i].type = "NAT_ADD" /\ natDown[a][i].flow = f

Underway(a, f) ==
    \/ asking[a][f] > 0
    \/ reinjecting[a][f] > 0
    \/ adding[a].type = "NAT_ADD" /\ adding[a].flow = f
    \/ Up(a, f)
    \/ worker[a].pc \in Translating /\ worker[a].flow = f
    \/ Down(a, f)

First(a) == conn[a] = [up |-> TRUE, n |-> 1]

Asked(a) == \A p \in portQueue[a] : Underway(a, p.flow)

Numbered == \A a \in AP : conn[a].n >= 1

AskedInv == Numbered /\ \A a \in AP : First(a) => Asked(a)

LEMMA AskedMeans == AskedInv => KeptAsked
  BY DEF AskedInv, First, Asked, Underway, Up, Down, KeptAsked

(***************************************************************************)
(* Messages stay in a queue that only grows.                               *)
(***************************************************************************)
LEMMA LongerHas ==
    ASSUME NEW S, NEW q \in Seq(S), NEW r \in Seq(S), NEW i \in 1 .. Len(q)
    PROVE  i \in 1 .. Len(q \o r) /\ (q \o r)[i] = q[i]
  OBVIOUS

LEMMA TailHas ==
    ASSUME NEW S, NEW q \in Seq(S), q # <<>>, NEW i \in 1 .. Len(q), i # 1
    PROVE  i - 1 \in 1 .. Len(Tail(q)) /\ Tail(q)[i - 1] = q[i]
  <1>1. Len(q) \in Nat /\ Len(Tail(q)) = Len(q) - 1
    OBVIOUS
  <1>2. i - 1 \in 1 .. Len(Tail(q))
    BY <1>1
  <1> QED  BY <1>1, <1>2

LEMMA WrittenKeeps ==
    ASSUME WireTypeOK, NEW a \in AP, NEW b \in AP, NEW msgs \in Seq(DownMsg),
           NEW i \in 1 .. Len(natDown[a])
    PROVE  i \in 1 .. Len(Written(b, msgs)[a]) /\ Written(b, msgs)[a][i] = natDown[a][i]
  <1>1. natDown[a] \in Seq(DownMsg) /\ natDown \in [AP -> Seq(DownMsg)]
    BY DEF WireTypeOK
  <1>2. Written(b, msgs)[a] \in {natDown[a], natDown[a] \o msgs}
    BY <1>1 DEF Written
  <1>3. CASE Written(b, msgs)[a] = natDown[a]
    BY <1>3
  <1>4. CASE Written(b, msgs)[a] = natDown[a] \o msgs
    BY <1>1, <1>4, LongerHas
  <1> QED  BY <1>2, <1>3, <1>4

LEMMA DownKept ==
    ASSUME WireTypeOK, NEW a \in AP, NEW b \in AP, NEW msgs \in Seq(DownMsg), NEW f,
           natDown'[a] = Written(b, msgs)[a], Down(a, f)
    PROVE  Down(a, f)'
  <1>1. PICK i \in 1 .. Len(natDown[a]) :
          natDown[a][i].type = "NAT_ADD" /\ natDown[a][i].flow = f
    BY DEF Down
  <1>2. i \in 1 .. Len(natDown'[a]) /\ natDown'[a][i] = natDown[a][i]
    BY WrittenKeeps
  <1> QED  BY <1>1, <1>2 DEF Down

LEMMA DownWritten ==
    ASSUME WireTypeOK, NEW a \in AP, NEW f \in Flow, NEW p \in Port, conn[a].up,
           natDown' = Written(a, <<NatAdd(f, p)>>)
    PROVE  Down(a, f)'
  <1>1. natDown[a] \in Seq(DownMsg)
    BY DEF WireTypeOK
  <1>2. natDown'[a] = natDown[a] \o <<NatAdd(f, p)>>
    BY DEF Written, WireTypeOK
  <1>3. NatAdd(f, p) \in DownMsg
    BY NatAddType
  <1>4. /\ Len(natDown[a]) + 1 \in 1 .. Len(natDown'[a])
        /\ natDown'[a][Len(natDown[a]) + 1] = NatAdd(f, p)
    BY <1>1, <1>2, <1>3
  <1> QED  BY <1>4 DEF Down, NatAdd

LEMMA DownTail ==
    ASSUME WireTypeOK, NEW a \in AP, natDown[a] # <<>>,
           natDown' = [natDown EXCEPT ![a] = Tail(@)], NEW f, Down(a, f)
    PROVE  \/ Down(a, f)'
           \/ Head(natDown[a]).type = "NAT_ADD" /\ Head(natDown[a]).flow = f
  <1>1. PICK i \in 1 .. Len(natDown[a]) :
          natDown[a][i].type = "NAT_ADD" /\ natDown[a][i].flow = f
    BY DEF Down
  <1>2. natDown[a] \in Seq(DownMsg) /\ natDown'[a] = Tail(natDown[a])
    BY DEF WireTypeOK
  <1>3. CASE i = 1
    BY <1>1, <1>2, <1>3
  <1>4. CASE i # 1
    <2>1. i - 1 \in 1 .. Len(natDown'[a]) /\ natDown'[a][i - 1] = natDown[a][i]
      BY <1>2, <1>4, TailHas
    <2> QED  BY <1>1, <2>1 DEF Down
  <1> QED  BY <1>3, <1>4

(***************************************************************************)
(* A step that leaves alone what is under way for a.                       *)
(***************************************************************************)
LEMMA UnderwaySame ==
    ASSUME NEW a \in AP, NEW f, Underway(a, f),
           asking'[a] = asking[a], reinjecting'[a] = reinjecting[a],
           adding'[a] = adding[a], natUp'[a] = natUp[a],
           worker[a].pc \in Translating => worker'[a] = worker[a],
           Down(a, f) => Down(a, f)'
    PROVE  Underway(a, f)'
  BY DEF Underway, Up


LEMMA TranslateAsked ==
    ASSUME TypeInv, NEW a \in AP, NEW b \in AP, handlePortTranslation(b),
           UNCHANGED queueVars, NEW f \in Flow, Underway(a, f), First(a)'
    PROVE  First(a) /\ Underway(a, f)'
  <1>0. WireTypeOK /\ TransInv /\ TransTypeOK
    BY DEF TypeInv, TransInv
  <1>1. /\ asking' = asking /\ reinjecting' = reinjecting /\ adding' = adding
        /\ First(a) <=> conn[a].up /\ conn[a].n = 1
    BY <1>0 DEF queueVars, First, WireTypeOK
  <1>2. CASE Get(b)
    <2>1. UNCHANGED <<conn, natDown>> /\ natUp' = [natUp EXCEPT ![b] = Tail(@)]
      BY <1>2 DEF Get
    <2>2. natUp[b] # <<>> /\ natUp \in [AP -> Seq(Flow)] /\ natUp[b] \in Seq(Flow)
      BY <1>0, <1>2 DEF Get, WireTypeOK
    <2>3. worker[b].pc = "idle" /\ worker' = [worker EXCEPT ![b] = worker'[b]]
      BY <1>0, <1>2 DEF Get, Enter, TransTypeOK
    <2>4. worker'[b].pc \in Translating /\ worker'[b].flow = Head(natUp[b])
      BY <1>0, <1>2 DEF Get, Enter, TransTypeOK, NewWorker, Translating
    <2>5. CASE a = b /\ Up(a, f)
      <3>1. PICK i \in 1 .. Len(natUp[a]) : natUp[a][i] = f
        BY <2>5 DEF Up
      <3>0. First(a)
        BY <2>1 DEF First
      <3>2. CASE i = 1
        <4>1. Head(natUp[a]) = natUp[a][1]
          BY <2>2, <2>5
        <4>2. worker'[a].pc \in Translating /\ worker'[a].flow = f
          BY <2>4, <2>5, <3>1, <3>2, <4>1
        <4> QED  BY <3>0, <4>2 DEF Underway
      <3>3. CASE i # 1
        <4>1. natUp'[a] = Tail(natUp[a])
          BY <2>1, <2>2, <2>5
        <4>2. i - 1 \in 1 .. Len(natUp'[a]) /\ natUp'[a][i - 1] = f
          BY <2>2, <2>5, <3>1, <3>3, <4>1, TailHas
        <4>3. Up(a, f)'
          BY <4>2 DEF Up
        <4> QED  BY <3>0, <4>3 DEF Underway
      <3> QED  BY <3>2, <3>3
    <2>6. CASE a = b /\ ~Up(a, f)
      BY <1>1, <2>1, <2>3, <2>6 DEF Underway, Down, Translating, First
    <2>7. CASE a # b
      BY <1>0, <1>1, <2>1, <2>2, <2>3, <2>7, UnderwaySame DEF First, TransTypeOK, Down
    <2> QED  BY <2>1, <2>5, <2>6, <2>7 DEF First
  <1>3. CASE Found(b)
    <2>1. UNCHANGED <<conn, natUp>> /\ worker' = [worker EXCEPT ![b] = IdleWorker]
      BY <1>3 DEF Found, Enter
    <2>2. worker[b].pc = "search"
      BY <1>3 DEF Found
    <2>3. PICK k \in Matches(b) :
            natDown' = Written(b, <<NatAdd(List(b)[k].flow, List(b)[k].newPort)>>)
      BY <1>3 DEF Found
    <2>4. /\ List(b)[k].flow = worker[b].flow
          /\ worker[b].flow \in Flow /\ List(b)[k].newPort \in Port
      BY <1>0, <2>2, MatchType
    <2>5. <<NatAdd(List(b)[k].flow, List(b)[k].newPort)>> \in Seq(DownMsg)
      BY <2>4, NatAddType
    <2>6. Down(a, f) => Down(a, f)'
      BY <1>0, <2>3, <2>5, DownKept
    <2>7. CASE a = b /\ worker[a].flow = f
      <3>1. Down(a, f)'
        BY <1>0, <1>1, <2>1, <2>3, <2>4, <2>7, DownWritten DEF First
      <3> QED  BY <2>1, <3>1 DEF Underway, First
    <2>8. CASE a = b /\ worker[a].flow # f
      BY <1>1, <2>1, <2>6, <2>8 DEF Underway, Up, First
    <2>9. CASE a # b
      BY <1>0, <1>1, <2>1, <2>6, <2>9, UnderwaySame DEF First, TransTypeOK
    <2> QED  BY <2>7, <2>8, <2>9
  <1>4. CASE NotFound(b) \/ Put(b) \/ ReadPort(b)
    <2>1. UNCHANGED wireVars
      BY <1>4 DEF NotFound, Put, ReadPort
    <2>2. \E pc \in Translating : \E p :
            worker' = [worker EXCEPT ![b] = Proceed(b, pc, p)]
      <3>1. "port" \in Translating /\ "store" \in Translating
        BY DEF Translating
      <3> QED  BY <1>4, <3>1 DEF NotFound, Put, ReadPort, Enter
    <2>3. worker'[b].pc \in Translating /\ worker'[b].flow = worker[b].flow
      BY <1>0, <2>2 DEF Proceed, TransTypeOK
    <2>4. a # b => worker'[a] = worker[a]
      BY <1>0, <2>2 DEF TransTypeOK
    <2> QED  BY <1>1, <2>1, <2>3, <2>4 DEF wireVars, Underway, Up, Down, First
  <1>5. CASE SearchThrows(b)
    <2>1. Close(b) /\ worker' = [worker EXCEPT ![b] = IdleWorker]
      BY <1>5 DEF SearchThrows, Throw, Enter
    <2>2. a # b
      BY <1>0, <2>1 DEF Close, First, WireTypeOK
    <2>3. conn'[a] = conn[a] /\ natUp'[a] = natUp[a] /\ natDown'[a] = natDown[a]
      BY <1>0, <2>1, <2>2 DEF Close, WireTypeOK
    <2>4. Down(a, f) => Down(a, f)'
      BY <2>3 DEF Down
    <2> QED  BY <1>0, <1>1, <2>1, <2>2, <2>3, <2>4, UnderwaySame DEF First, TransTypeOK
  <1>6. CASE Store(b)
    <2>1. UNCHANGED <<conn, natUp>> /\ worker' = [worker EXCEPT ![b] = IdleWorker]
      BY <1>6 DEF Store, Enter
    <2>2. worker[b].pc = "store"
      BY <1>6 DEF Store
    <2>3. natDown' = Written(b, <<NatAdd(worker[b].flow, worker[b].port)>>)
      BY <1>6 DEF Store
    <2>4. worker[b].flow \in Flow /\ worker[b].port \in Port
      BY <1>0, <2>2, AppendedType
    <2>5. <<NatAdd(worker[b].flow, worker[b].port)>> \in Seq(DownMsg)
      BY <2>4, NatAddType
    <2>6. Down(a, f) => Down(a, f)'
      BY <1>0, <2>3, <2>5, DownKept
    <2>7. CASE a = b /\ worker[a].flow = f
      <3>1. Down(a, f)'
        BY <1>0, <1>1, <2>1, <2>3, <2>4, <2>7, DownWritten DEF First
      <3> QED  BY <2>1, <3>1 DEF Underway, First
    <2>8. CASE a = b /\ worker[a].flow # f
      BY <1>1, <2>1, <2>6, <2>8 DEF Underway, Up, First
    <2>9. CASE a # b
      BY <1>0, <1>1, <2>1, <2>6, <2>9, UnderwaySame DEF First, TransTypeOK
    <2> QED  BY <2>7, <2>8, <2>9
  <1> QED  BY <1>2, <1>3, <1>4, <1>5, <1>6 DEF handlePortTranslation


LEMMA HandoverAsked ==
    ASSUME TypeInv, NEW a \in AP, NEW b \in AP, handleAPRSSI(b),
           UNCHANGED queueVars, NEW f \in Flow, Underway(a, f), First(a)'
    PROVE  First(a) /\ Underway(a, f)'
  <1>0. WireTypeOK /\ TransInv /\ TransTypeOK
    BY DEF TypeInv, TransInv
  <1>1. asking' = asking /\ reinjecting' = reinjecting /\ adding' = adding
    BY DEF queueVars
  <1>2. worker[b] \in Worker /\ Fit(worker[b], entries)
    BY <1>0 DEF TransInv, TransTypeOK, Busy
  <1>3. worker[b].pc \in Moving /\ worker' = [worker EXCEPT ![b] = worker'[b]]
    BY <1>0 DEF handleAPRSSI, ToAP, ToAPThrows, ToGateway, ToGatewayThrows, Moving,
                Enter, TransTypeOK
  <1>4. worker[a].pc \in Translating => worker'[a] = worker[a]
    BY <1>0, <1>3 DEF Translating, Moving, TransTypeOK
  <1>5. worker[b].to \in AP
    BY <1>2, <1>3 DEF Fit
  <1>6. CASE ToAP(b)
    <2>1. UNCHANGED <<conn, natUp>> /\ natDown' = Written(worker[b].to, NewAPMsgs(b))
      BY <1>6 DEF ToAP
    <2>2. NewAPMsgs(b) \in Seq(DownMsg)
      BY <1>0, <1>6, NewAPMsgsType DEF ToAP
    <2>3. Down(a, f) => Down(a, f)'
      BY <1>0, <1>5, <2>1, <2>2, DownKept
    <2> QED  BY <1>1, <1>4, <2>1, <2>3, UnderwaySame DEF First
  <1>7. CASE ToAPThrows(b)
    <2>1. /\ conn' = [conn EXCEPT ![b] = [up |-> FALSE, n |-> @.n]]
          /\ natUp' = [natUp EXCEPT ![b] = <<>>]
      BY <1>7 DEF ToAPThrows
    <2>2. a # b
      BY <1>0, <2>1 DEF First, WireTypeOK
    <2>3. PICK k \in 0 .. worker[b].len :
            natDown' = [Written(worker[b].to, NatAdds(b, k)) EXCEPT ![b] = <<>>]
      BY <1>7 DEF ToAPThrows
    <2>4. worker[b].list \in AP /\ worker[b].pc # "idle"
      BY <1>2, <1>7 DEF ToAPThrows, HasList, Worker
    <2>5. NatAdds(b, k) \in Seq(DownMsg)
      BY <1>0, <2>4, NatAddsType
    <2>6. Written(worker[b].to, NatAdds(b, k)) \in [AP -> Seq(DownMsg)]
      BY <1>0, <1>5, <2>5, WrittenType
    <2>7. natDown'[a] = Written(worker[b].to, NatAdds(b, k))[a]
      BY <2>2, <2>3, <2>6
    <2>8. Down(a, f) => Down(a, f)'
      BY <1>0, <1>5, <2>5, <2>7, DownKept
    <2>9. conn'[a] = conn[a] /\ natUp'[a] = natUp[a]
      BY <1>0, <2>1, <2>2 DEF WireTypeOK
    <2> QED  BY <1>1, <1>4, <2>8, <2>9, UnderwaySame DEF First
  <1>8. CASE ToGateway(b)
    <2>1. UNCHANGED <<conn, natUp, natDown>>
      BY <1>8 DEF ToGateway
    <2> QED  BY <1>1, <1>4, <2>1, UnderwaySame DEF First, Down
  <1>9. CASE ToGatewayThrows(b)
    <2>1. Close(b)
      BY <1>9 DEF ToGatewayThrows
    <2>2. a # b
      BY <1>0, <2>1 DEF Close, First, WireTypeOK
    <2>3. conn'[a] = conn[a] /\ natUp'[a] = natUp[a] /\ natDown'[a] = natDown[a]
      BY <1>0, <2>1, <2>2 DEF Close, WireTypeOK
    <2> QED  BY <1>1, <1>4, <2>3, UnderwaySame DEF First, Down
  <1> QED  BY <1>6, <1>7, <1>8, <1>9 DEF handleAPRSSI

(***************************************************************************)
(* The access point's own steps hand the request on.                       *)
(***************************************************************************)
LEMMA AskAsked ==
    ASSUME TypeInv, NEW a \in AP, NEW b \in AP, NEW g \in Flow, SendNatPortEntry(b, g),
           NEW f \in Flow, Underway(a, f), First(a)
    PROVE  Underway(a, f)'
  <1>0. WireTypeOK /\ QueueTypeOK
    BY DEF TypeInv, QueueInv
  <1>1. /\ asking' = [asking EXCEPT ![b][g] = @ - 1]
        /\ natUp' = IF conn[b].up THEN [natUp EXCEPT ![b] = Append(@, g)] ELSE natUp
        /\ UNCHANGED <<worker, reinjecting, adding, natDown>>
    BY DEF SendNatPortEntry, send_nat_port_entry, transVars
  <1>2. natUp[a] \in Seq(Flow) /\ conn[a].up
    BY <1>0 DEF WireTypeOK, First
  <1>3. CASE a = b /\ f = g
    <2>1. natUp'[a] = Append(natUp[a], f)
      BY <1>0, <1>1, <1>2, <1>3 DEF WireTypeOK
    <2>2. Len(natUp[a]) + 1 \in 1 .. Len(natUp'[a]) /\ natUp'[a][Len(natUp[a]) + 1] = f
      BY <1>2, <2>1
    <2>3. Up(a, f)'
      BY <2>2 DEF Up
    <2> QED  BY <2>3 DEF Underway
  <1>4. CASE a # b \/ f # g
    <2>1. asking'[a][f] = asking[a][f]
      BY <1>0, <1>1, <1>4 DEF QueueTypeOK
    <2>2. Up(a, f) => Up(a, f)'
      <3> SUFFICES ASSUME Up(a, f) PROVE Up(a, f)'
        OBVIOUS
      <3>1. PICK i \in 1 .. Len(natUp[a]) : natUp[a][i] = f
        BY DEF Up
      <3>2. natUp'[a] \in {natUp[a], Append(natUp[a], g)}
        BY <1>0, <1>1 DEF WireTypeOK
      <3>3. i \in 1 .. Len(natUp'[a]) /\ natUp'[a][i] = f
        BY <1>2, <3>1, <3>2
      <3> QED  BY <3>3 DEF Up
    <2> QED  BY <1>1, <2>1, <2>2 DEF Underway, Down
  <1> QED  BY <1>3, <1>4

LEMMA VendorAsked ==
    ASSUME TypeInv, NEW a \in AP, NEW b \in AP, HandleVendor(b),
           NEW f \in Flow, Underway(a, f)
    PROVE  Underway(a, f)'
  <1>0. WireTypeOK /\ QueueInv /\ QueueTypeOK
    BY DEF TypeInv, QueueInv
  <1>1. worker' = worker
    BY DEF HandleVendor, transVars
  <1>2. CASE addEntry(b)
    <2>1. /\ Head(natDown[b]).type = "NAT_ADD"
          /\ natDown[b] # <<>> /\ natDown' = [natDown EXCEPT ![b] = Tail(@)]
      BY <1>0, <1>2, AddEntryTypes
    <2>2. /\ adding[b] = NoAdd /\ adding' = [adding EXCEPT ![b] = Head(natDown[b])]
          /\ UNCHANGED <<asking, reinjecting, natUp>>
      BY <1>2 DEF addEntry, Receiving
    <2>3. CASE a = b
      <3>1. adding'[a] = Head(natDown[a]) /\ adding[a].type # "NAT_ADD"
        BY <1>0, <2>2, <2>3 DEF QueueTypeOK, NoAdd
      <3>2. Down(a, f) => \/ Down(a, f)'
                          \/ adding'[a].type = "NAT_ADD" /\ adding'[a].flow = f
        <4>1. natDown[a] # <<>> /\ natDown' = [natDown EXCEPT ![a] = Tail(@)]
          BY <2>1, <2>3
        <4>2. Down(a, f) => \/ Down(a, f)'
                            \/ /\ Head(natDown[a]).type = "NAT_ADD"
                               /\ Head(natDown[a]).flow = f
          BY <1>0, <4>1, DownTail
        <4> QED  BY <3>1, <4>2
      <3> QED  BY <1>1, <2>2, <3>1, <3>2 DEF Underway, Up
    <2>4. CASE a # b
      <3>1. adding'[a] = adding[a] /\ natDown'[a] = natDown[a]
        BY <1>0, <2>1, <2>2, <2>4 DEF QueueTypeOK, WireTypeOK
      <3> QED  BY <1>1, <2>2, <3>1 DEF Underway, Up, Down
    <2> QED  BY <2>3, <2>4
  <1>3. CASE SetPort(b)
    <2>1. adding[b].flow \in Flow
      BY <1>0, <1>3, SetPortTypes
    <2>2. /\ reinjecting' = [reinjecting EXCEPT ![b][adding[b].flow] = @ + 1]
          /\ adding' = [adding EXCEPT ![b] = NoAdd]
          /\ UNCHANGED <<asking, natUp, natDown>>
      BY <1>3 DEF SetPort, wireVars
    <2>3. reinjecting[a][f] \in Nat /\ reinjecting'[a][f] >= reinjecting[a][f]
      BY <1>0, <2>1, <2>2 DEF QueueTypeOK
    <2>4. a = b /\ adding[a].flow = f => reinjecting'[a][f] > 0
      BY <1>0, <2>1, <2>2, <2>3 DEF QueueTypeOK
    <2>5. a # b => adding'[a] = adding[a]
      BY <1>0, <2>2 DEF QueueTypeOK
    <2> QED  BY <1>1, <2>2, <2>3, <2>4, <2>5 DEF Underway, Up, Down
  <1>4. CASE UPDATE_STA_ADD(b)
    <2>1. /\ Head(natDown[b]).type = "UPDATE_STA_ADD"
          /\ natDown[b] # <<>> /\ natDown' = [natDown EXCEPT ![b] = Tail(@)]
      BY <1>0, <1>4, UpdateTypes
    <2>2. UNCHANGED <<asking, reinjecting, adding, natUp>>
      BY <1>4 DEF UPDATE_STA_ADD, Receiving
    <2>3. Down(a, f) => Down(a, f)'
      <3>1. CASE a = b
        BY <1>0, <2>1, <3>1, DownTail
      <3>2. CASE a # b
        BY <1>0, <2>1, <3>2 DEF WireTypeOK, Down
      <3> QED  BY <3>1, <3>2
    <2> QED  BY <1>1, <2>2, <2>3 DEF Underway, Up
  <1> QED  BY <1>2, <1>3, <1>4 DEF HandleVendor


LEMMA NumberedStep ==
    ASSUME TypeInv, Numbered, [Next]_vars
    PROVE  /\ Numbered'
           /\ \A a \in AP : First(a)' => First(a)
  <1>0. WireTypeOK
    BY DEF TypeInv
  <1>1. CASE UNCHANGED conn
    BY <1>1 DEF Numbered, First
  <1>2. ASSUME NEW b \in AP, conn' = [conn EXCEPT ![b] = [up |-> FALSE, n |-> @.n]]
        PROVE  Numbered' /\ \A a \in AP : First(a)' => First(a)
    BY <1>0, <1>2 DEF WireTypeOK, Numbered, First
  <1>3. ASSUME NEW b \in AP, conn' = [conn EXCEPT ![b] = [up |-> TRUE, n |-> @.n + 1]]
        PROVE  Numbered' /\ \A a \in AP : First(a)' => First(a)
    <2>1. ASSUME NEW a \in AP
          PROVE  /\ a # b => conn'[a] = conn[a]
                 /\ a = b => conn'[a].n = conn[a].n + 1
                 /\ conn[a].n \in Nat
      BY <1>0, <1>3 DEF WireTypeOK
    <2>2. ASSUME NEW a \in AP PROVE conn'[a].n >= 1 /\ (First(a)' => First(a))
      BY <2>1 DEF Numbered, First
    <2> QED  BY <2>2 DEF Numbered
  <1>4. \/ UNCHANGED conn
        \/ \E b \in AP : \/ conn' = [conn EXCEPT ![b] = [up |-> FALSE, n |-> @.n]]
                         \/ conn' = [conn EXCEPT ![b] = [up |-> TRUE, n |-> @.n + 1]]
    <2>1. ASSUME NEW b \in AP, HandlePortTranslation(b)
          PROVE  conn' = conn \/ conn' = [conn EXCEPT ![b] = [up |-> FALSE, n |-> @.n]]
      BY <2>1 DEF HandlePortTranslation, handlePortTranslation, Get, Found, NotFound,
                  SearchThrows, Put, ReadPort, Store, Throw, Close, wireVars
    <2>2. ASSUME NEW b \in AP, HandleAPRSSI(b)
          PROVE  conn' = conn \/ conn' = [conn EXCEPT ![b] = [up |-> FALSE, n |-> @.n]]
      BY <2>2 DEF HandleAPRSSI, handleAPRSSI, ToAP, ToAPThrows, ToGateway,
                  ToGatewayThrows, Close
    <2>3. ASSUME NEW b \in AP, HandlePkt(b) \/ HandleVendor(b) PROVE conn' = conn
      BY <2>3 DEF HandlePkt, HandleVendor, addEntry, SetPort, UPDATE_STA_ADD,
                  Receiving, wireVars
    <2>4. ASSUME NEW b \in AP, Cut(b)
          PROVE  conn' = [conn EXCEPT ![b] = [up |-> FALSE, n |-> @.n]]
      BY <2>4 DEF Cut, Close
    <2>5. ASSUME NEW b \in AP, ConnOpen(b)
          PROVE  conn' = [conn EXCEPT ![b] = [up |-> TRUE, n |-> @.n + 1]]
      BY <2>5 DEF ConnOpen
    <2>6. ASSUME NEW b \in AP, NEW f \in Flow, SendNatPortEntry(b, f) \/ ReinjectPkt(b, f)
          PROVE  conn' = conn
      BY <2>6 DEF SendNatPortEntry, send_nat_port_entry, ReinjectPkt, reinject_pkt, wireVars
    <2>7. ASSUME NEW w \in out, GwHandlePkt(w) PROVE conn' = conn
      BY <2>7 DEF GwHandlePkt, wireVars
    <2>8. ASSUME NEW f \in Flow, Send(f) PROVE conn' = conn
      BY <2>8 DEF Send, wireVars
    <2>9. ASSUME NEW s \in STA, NEW b \in AP, Decide(s, b) PROVE conn' = conn
      BY <2>9 DEF Decide, Move, wireVars
    <2>10. ASSUME GwHandleVendor \/ GW_CONNECT \/ RemovedGateway PROVE conn' = conn
      BY <2>10 DEF GwHandleVendor, handle_vendor, GW_CONNECT, RemovedGateway
    <2>11. ASSUME UNCHANGED vars PROVE conn' = conn
      BY <2>11 DEF vars, wireVars
    <2> QED  BY <2>1, <2>2, <2>3, <2>4, <2>5, <2>6, <2>7, <2>8, <2>9, <2>10, <2>11 DEF Next
  <1> QED  BY <1>1, <1>2, <1>3, <1>4

LEMMA KeptFlow ==
    ASSUME TypeInv, NEW a \in AP, NEW p \in portQueue[a]
    PROVE  p \in Packet /\ p.flow \in Flow
  BY DEF TypeInv, QueueInv, QueueTypeOK, Packet

LEMMA UnderwayStill ==
    ASSUME NEW a \in AP, NEW f,
           UNCHANGED <<asking, reinjecting, adding, natUp, natDown, worker>>
    PROVE  Underway(a, f)' <=> Underway(a, f)
  BY DEF Underway, Up, Down

LEMMA AskedStep == TypeInv /\ AskedInv /\ [Next]_vars => AskedInv'
  <1> SUFFICES ASSUME TypeInv, AskedInv, [Next]_vars, NEW a \in AP, First(a)'
               PROVE  Asked(a)'
    BY NumberedStep DEF AskedInv
  <1>0. First(a) /\ Asked(a) /\ WireTypeOK /\ QueueInv /\ QueueTypeOK /\ TransTypeOK
    BY NumberedStep DEF AskedInv, TypeInv, QueueInv, TransInv
  <1>00. ASSUME portQueue' = portQueue,
                \A f \in Flow : Underway(a, f) => Underway(a, f)'
         PROVE  Asked(a)'
    BY <1>0, <1>00, KeptFlow DEF Asked
  <1>1. ASSUME NEW b \in AP, HandlePortTranslation(b) PROVE Asked(a)'
    <2>1. portQueue' = portQueue /\ UNCHANGED queueVars /\ handlePortTranslation(b)
      BY <1>1 DEF HandlePortTranslation, queueVars
    <2> QED  BY <1>00, <2>1, TranslateAsked
  <1>2. ASSUME NEW b \in AP, HandleAPRSSI(b) PROVE Asked(a)'
    <2>1. portQueue' = portQueue /\ UNCHANGED queueVars /\ handleAPRSSI(b)
      BY <1>2 DEF HandleAPRSSI, queueVars
    <2> QED  BY <1>00, <2>1, HandoverAsked
  <1>3. ASSUME NEW b \in AP, HandlePkt(b) PROVE Asked(a)'
    <2>0. UNCHANGED <<natUp, natDown, worker>>
      BY <1>3 DEF HandlePkt, wireVars, transVars
    <2>1. CASE Accept(b)
      BY <1>00, <2>0, <2>1, UnderwayStill DEF Accept
    <2>2. CASE Keep(b)
      <3> DEFINE q == queue0[b].pkt
      <3>1. q \in Packet /\ q.flow \in Flow
        BY <1>0, <2>2, KeepTypes
      <3>2. /\ portQueue' = [portQueue EXCEPT ![b] = @ \cup {q}]
            /\ asking' = [asking EXCEPT ![b][q.flow] = @ + 1]
            /\ UNCHANGED <<reinjecting, adding>>
        BY <2>2 DEF Keep, addPortData
      <3> HIDE DEF q
      <3>3. ASSUME NEW p \in portQueue'[a] PROVE Underway(a, p.flow)'
        <4>1. CASE a = b /\ p = q
          <5>1. asking'[a][p.flow] = asking[a][p.flow] + 1 /\ asking[a][p.flow] \in Nat
            BY <1>0, <3>1, <3>2, <4>1 DEF QueueTypeOK
          <5> QED  BY <5>1 DEF Underway
        <4>2. CASE ~(a = b /\ p = q)
          <5>1. p \in portQueue[a]
            BY <1>0, <3>2, <3>3, <4>2 DEF QueueTypeOK
          <5>2. p.flow \in Flow /\ Underway(a, p.flow)
            BY <1>0, <5>1, KeptFlow DEF Asked
          <5>3. asking[a][p.flow] \in Nat /\ asking'[a][p.flow] >= asking[a][p.flow]
            BY <1>0, <3>1, <3>2, <5>2 DEF QueueTypeOK
          <5> QED  BY <2>0, <3>2, <5>2, <5>3 DEF Underway, Up, Down
        <4> QED  BY <4>1, <4>2
      <3> QED  BY <3>3 DEF Asked
    <2> QED  BY <1>3, <2>1, <2>2 DEF HandlePkt
  <1>4. ASSUME NEW b \in AP, HandleVendor(b) PROVE Asked(a)'
    <2>1. portQueue' = portQueue
      BY <1>4 DEF HandleVendor, addEntry, SetPort, UPDATE_STA_ADD
    <2> QED  BY <1>00, <1>4, <2>1, VendorAsked
  <1>5. ASSUME NEW b \in AP, ConnOpen(b) PROVE Asked(a)'
    BY <1>00, <1>5, UnderwayStill DEF ConnOpen, queueVars, transVars
  <1>6. ASSUME NEW b \in AP, Cut(b) PROVE Asked(a)'
    <2>1. Close(b) /\ portQueue' = portQueue /\ UNCHANGED <<asking, reinjecting, adding, worker>>
      BY <1>6 DEF Cut, queueVars, transVars
    <2>2. a # b
      BY <1>0, <2>1 DEF Close, First, WireTypeOK
    <2>3. natUp'[a] = natUp[a] /\ natDown'[a] = natDown[a]
      BY <1>0, <2>1, <2>2 DEF Close, WireTypeOK
    <2>4. ASSUME NEW f \in Flow, Underway(a, f) PROVE Underway(a, f)'
      BY <2>1, <2>3, <2>4, UnderwaySame DEF Down
    <2> QED  BY <1>00, <2>1, <2>4
  <1>7. ASSUME NEW b \in AP, NEW g \in Flow, SendNatPortEntry(b, g) PROVE Asked(a)'
    <2>1. portQueue' = portQueue
      BY <1>7 DEF SendNatPortEntry, send_nat_port_entry
    <2> QED  BY <1>0, <1>00, <1>7, <2>1, AskAsked
  <1>8. ASSUME NEW b \in AP, NEW g \in Flow, ReinjectPkt(b, g) PROVE Asked(a)'
    <2>1. /\ portQueue' = [portQueue EXCEPT ![b] = @ \ KeptOf(b, g)]
          /\ reinjecting' = [reinjecting EXCEPT ![b][g] = @ - 1]
          /\ UNCHANGED <<asking, adding, natUp, natDown, worker>>
      BY <1>8 DEF ReinjectPkt, reinject_pkt, wireVars, transVars
    <2>2. ASSUME NEW p \in portQueue'[a] PROVE Underway(a, p.flow)'
      <3>1. p \in portQueue[a] /\ (a = b => p.flow # g)
        BY <1>0, <2>1, <2>2 DEF QueueTypeOK, KeptOf
      <3>2. p.flow \in Flow /\ Underway(a, p.flow)
        BY <1>0, <3>1, KeptFlow DEF Asked
      <3>3. reinjecting'[a][p.flow] = reinjecting[a][p.flow]
        BY <1>0, <2>1, <3>1, <3>2 DEF QueueTypeOK
      <3> QED  BY <2>1, <3>2, <3>3 DEF Underway, Up, Down
    <2> QED  BY <2>2 DEF Asked
  <1>9. ASSUME NEW w \in out, GwHandlePkt(w) PROVE Asked(a)'
    BY <1>00, <1>9, UnderwayStill DEF GwHandlePkt, wireVars, transVars, queueVars
  <1>10. CASE GwHandleVendor
    BY <1>00, <1>10, UnderwayStill DEF GwHandleVendor, handle_vendor, transVars, queueVars
  <1>11. ASSUME NEW f \in Flow, Send(f) PROVE Asked(a)'
    BY <1>00, <1>11, UnderwayStill DEF Send, Lookup, wireVars, transVars
  <1>12. ASSUME NEW s \in STA, NEW b \in AP, Decide(s, b) PROVE Asked(a)'
    <2>1. /\ worker[at[s]].pc = "idle"
          /\ worker' = [worker EXCEPT ![at[s]] = worker'[at[s]]]
          /\ UNCHANGED <<portQueue, asking, reinjecting, adding, natUp, natDown>>
      BY <1>0, <1>12 DEF Decide, Move, Enter, queueVars, wireVars, TransTypeOK
    <2>2. worker[a].pc \in Translating => worker'[a] = worker[a]
      BY <1>0, <2>1 DEF Translating, TransTypeOK
    <2>3. ASSUME NEW f \in Flow, Underway(a, f) PROVE Underway(a, f)'
      BY <2>1, <2>2, <2>3, UnderwaySame DEF Down
    <2> QED  BY <1>00, <2>1, <2>3
  <1>13. CASE GW_CONNECT \/ RemovedGateway
    BY <1>00, <1>13, UnderwayStill DEF GW_CONNECT, RemovedGateway, transVars, queueVars
  <1>14. CASE UNCHANGED vars
    BY <1>00, <1>14, UnderwayStill DEF vars, wireVars, transVars, queueVars
  <1> QED
    BY <1>1, <1>2, <1>3, <1>4, <1>5, <1>6, <1>7, <1>8, <1>9, <1>10, <1>11, <1>12,
       <1>13, <1>14 DEF Next

LEMMA AskedInit == Init => AskedInv
  BY DEF Init, WireInit, QueueInit, AskedInv, Numbered, Asked

(***************************************************************************)
(* No kept packet is forgotten, for every number of APs and flows: as long *)
(* as its AP's connection has not failed, a packet that addPortData keeps  *)
(* has its request, the answer or the reinjection still to come, whatever  *)
(* the threads of AP and controller do meanwhile.                          *)
(***************************************************************************)
THEOREM PacketsAsked == Spec => []KeptAsked
  <1>1. TypeInv /\ AskedInv /\ [Next]_vars => (TypeInv /\ AskedInv)'
    BY TypeStep, AskedStep
  <1> QED  BY <1>1, InvInit, AskedInit, AskedMeans, PTL DEF Spec


-----------------------------------------------------------------------------

(***************************************************************************)
(* CarriedFirst.  The UPDATE_STA_ADD of a handover is under way at most    *)
(* once, to the AP that the controller has the station at, and what is     *)
(* carried is ahead of it or has arrived.                                  *)
(***************************************************************************)
LetsIn(b, i, s) ==
    natDown[b][i].type = "UPDATE_STA_ADD" /\ natDown[b][i].sta = s

Ahead(b, i, f) ==
    \/ entryList[b][f] # None
    \/ \E j \in 1 .. i - 1 : natDown[b][j].type = "NAT_ADD" /\ natDown[b][j].flow = f

Arrival(b, i, s) ==
    /\ b = serving[s]
    /\ at[s] # serving[s]
    /\ \A a \in AP : ~(worker[a].pc = "toAP" /\ worker[a].sta = s)
    /\ \A j \in 1 .. Len(natDown[b]) : LetsIn(b, j, s) => j = i
    /\ \A f \in carried[s] : Ahead(b, i, f)

Arrivals ==
    \A b \in AP, s \in STA : \A i \in 1 .. Len(natDown[b]) :
       LetsIn(b, i, s) => Arrival(b, i, s)

InMotion ==
    \A a \in AP : worker[a].pc = "toAP" =>
       /\ worker[a].to = serving[worker[a].sta]
       /\ at[worker[a].sta] # serving[worker[a].sta]

OneMoves ==
    \A a, b \in AP : worker[a].pc \in Moving /\ worker[b].pc \in Moving => a = b

CarriedInv == Arrivals /\ InMotion /\ OneMoves /\ CarriedFirst

(***************************************************************************)
(* A queue that is emptied, or to which NAT_ADDs are written.              *)
(***************************************************************************)
Adds(q, r) ==
    \/ r = <<>>
    \/ \E ms \in Seq(DownMsg) :
          (\A k \in 1 .. Len(ms) : ms[k].type = "NAT_ADD") /\ r = q \o ms

LEMMA AddsNone ==
    ASSUME NEW q \in Seq(DownMsg)
    PROVE  Adds(q, q)
  <1>1. /\ <<>> \in Seq(DownMsg)
        /\ \A k \in 1 .. Len(<<>>) : <<>>[k].type = "NAT_ADD"
        /\ q = q \o <<>>
    OBVIOUS
  <1>2. \E ms \in Seq(DownMsg) :
          (\A k \in 1 .. Len(ms) : ms[k].type = "NAT_ADD") /\ q = q \o ms
    BY <1>1
  <1> QED  BY <1>2 DEF Adds

LEMMA AddsOld ==
    ASSUME NEW q \in Seq(DownMsg), NEW r, Adds(q, r), NEW i \in 1 .. Len(r),
           r[i].type = "UPDATE_STA_ADD"
    PROVE  i \in 1 .. Len(q) /\ r[i] = q[i] /\ \A j \in 1 .. i - 1 : r[j] = q[j]
  <1>1. r # <<>>
    OBVIOUS
  <1>2. PICK ms \in Seq(DownMsg) :
          (\A k \in 1 .. Len(ms) : ms[k].type = "NAT_ADD") /\ r = q \o ms
    BY <1>1 DEF Adds
  <1>3. /\ Len(q) \in Nat /\ Len(ms) \in Nat /\ Len(r) = Len(q) + Len(ms)
        /\ \A j \in 1 .. Len(q) : r[j] = q[j]
        /\ \A j \in Len(q) + 1 .. Len(r) : r[j] = ms[j - Len(q)]
    BY <1>2
  <1>4. i <= Len(q)
    <2> SUFFICES ASSUME i > Len(q) PROVE FALSE
      BY <1>3
    <2>1. i - Len(q) \in 1 .. Len(ms) /\ r[i] = ms[i - Len(q)]
      BY <1>3
    <2> QED  BY <1>2, <2>1
  <1> QED  BY <1>3, <1>4

LEMMA WrittenAdds ==
    ASSUME WireTypeOK, NEW a \in AP, NEW b \in AP, NEW ms \in Seq(DownMsg),
           \A k \in 1 .. Len(ms) : ms[k].type = "NAT_ADD"
    PROVE  Adds(natDown[b], Written(a, ms)[b])
  <1>1. natDown \in [AP -> Seq(DownMsg)] /\ natDown[b] \in Seq(DownMsg)
    BY DEF WireTypeOK
  <1>2. Written(a, ms)[b] \in {natDown[b], natDown[b] \o ms}
    BY <1>1 DEF Written
  <1>3. CASE Written(a, ms)[b] = natDown[b]
    BY <1>1, <1>3, AddsNone
  <1>4. CASE Written(a, ms)[b] = natDown[b] \o ms
    BY <1>4 DEF Adds
  <1> QED  BY <1>2, <1>3, <1>4

(***************************************************************************)
(* The steps that let no station in and move none.                         *)
(***************************************************************************)
LEMMA CarriedFrame ==
    ASSUME TypeInv, CarriedInv, TypeInv',
           \A b \in AP : Adds(natDown[b], natDown'[b]),
           \A b \in AP, f \in Flow : entryList[b][f] # None => entryList'[b][f] # None,
           UNCHANGED <<serving, at, carried>>,
           \A a \in AP : worker'[a].pc = "toAP" => worker'[a] = worker[a],
           \A a \in AP : worker'[a].pc \in Moving => worker[a].pc \in Moving
    PROVE  CarriedInv'
  <1>0. WireTypeOK /\ TransTypeOK /\ QueueTypeOK
    BY DEF TypeInv, TransInv, QueueInv
  <1>00. \A s \in STA : carried[s] \subseteq Flow /\ at[s] \in AP /\ serving[s] \in AP
    BY <1>0 DEF TransTypeOK, QueueTypeOK
  <1>1. Arrivals'
    <2> SUFFICES ASSUME NEW b \in AP, NEW s \in STA, NEW i \in 1 .. Len(natDown'[b]),
                        LetsIn(b, i, s)'
                 PROVE  Arrival(b, i, s)'
      BY DEF Arrivals
    <2>1. natDown[b] \in Seq(DownMsg)
      BY <1>0 DEF WireTypeOK
    <2>2. ASSUME NEW j \in 1 .. Len(natDown'[b]), LetsIn(b, j, s)'
          PROVE  /\ j \in 1 .. Len(natDown[b]) /\ LetsIn(b, j, s)
                 /\ \A k \in 1 .. j - 1 : natDown'[b][k] = natDown[b][k]
      BY <2>1, <2>2, AddsOld DEF LetsIn
    <2>3. Arrival(b, i, s)
      BY <2>2 DEF CarriedInv, Arrivals
    <2>4. \A j \in 1 .. Len(natDown'[b]) : LetsIn(b, j, s)' => j = i
      BY <2>2, <2>3 DEF Arrival
    <2>5. ASSUME NEW f \in carried[s] PROVE Ahead(b, i, f)'
      <3>1. Ahead(b, i, f) /\ f \in Flow
        BY <1>00, <2>3, <2>5 DEF Arrival
      <3> QED  BY <2>2, <3>1 DEF Ahead
    <2> QED  BY <2>3, <2>4, <2>5 DEF Arrival
  <1>2. InMotion'
    BY DEF CarriedInv, InMotion
  <1>3. OneMoves'
    BY DEF CarriedInv, OneMoves
  <1>4. CarriedFirst'
    BY <1>00 DEF CarriedInv, CarriedFirst, lookupPortMapQ0
  <1> QED  BY <1>1, <1>2, <1>3, <1>4 DEF CarriedInv


LEMMA ThreeParts ==
    ASSUME NEW S, NEW q \in Seq(S), NEW p \in Seq(S), NEW u \in S,
           NEW r, r = q \o (p \o <<u>>)
    PROVE  /\ Len(r) = Len(q) + Len(p) + 1
           /\ \A j \in 1 .. Len(q) : r[j] = q[j]
           /\ \A j \in 1 .. Len(p) : r[Len(q) + j] = p[j]
           /\ r[Len(q) + Len(p) + 1] = u
  OBVIOUS

LEMMA ToAPCarried ==
    ASSUME TypeInv, CarriedInv, TypeInv', NEW a \in AP, ToAP(a),
           UNCHANGED queueVars
    PROVE  CarriedInv'
  <1>0. WireTypeOK /\ TransInv /\ TransTypeOK /\ QueueTypeOK
    BY DEF TypeInv, TransInv, QueueInv
  <1>1. worker[a] \in Worker /\ Fit(worker[a], entries) /\ worker[a].pc = "toAP"
    BY <1>0 DEF TransInv, TransTypeOK, Busy, ToAP
  <1>2. PICK s \in STA, b \in AP, n \in Nat :
          /\ s = worker[a].sta
          /\ b = worker[a].to
          /\ n = IF HasList(a) THEN worker[a].len ELSE 0
    BY <1>1 DEF Fit, Moving, Worker
  <1>3. PICK adds \in Seq(DownMsg) :
          /\ adds = IF HasList(a) THEN NatAdds(a, worker[a].len) ELSE <<>>
          /\ Len(adds) = n
          /\ \A k \in 1 .. n : adds[k] = NatAdd(List(a)[k].flow, List(a)[k].newPort)
    <2>1. CASE HasList(a)
      <3>1. worker[a].list \in AP /\ worker[a].len \in 0 .. worker[a].len
        BY <1>1, <2>1 DEF HasList, Worker
      <3> QED  BY <1>0, <1>1, <1>2, <2>1, <3>1, NatAddsType
    <2>2. CASE ~HasList(a)
      <3>1. <<>> \in Seq(DownMsg) /\ Len(<<>>) = 0
        OBVIOUS
      <3>2. n = 0 /\ <<>> = IF HasList(a) THEN NatAdds(a, worker[a].len) ELSE <<>>
        BY <1>2, <2>2
      <3>3. \A k \in 1 .. n : <<>>[k] = NatAdd(List(a)[k].flow, List(a)[k].newPort)
        BY <3>2
      <3> QED  BY <3>1, <3>2, <3>3
    <2> QED  BY <2>1, <2>2
  <1>4. natDown' = Written(b, adds \o <<UpdateSTAAdd(s)>>)
    BY <1>2, <1>3 DEF ToAP, NewAPMsgs
  <1>5. carried' = [carried EXCEPT ![s] = {List(a)[k].flow : k \in 1 .. n}]
    <2>1. {List(a)[k].flow : k \in 1 .. n} =
            IF HasList(a) THEN {List(a)[k].flow : k \in 1 .. worker[a].len} ELSE {}
      <3>1. CASE HasList(a)
        BY <1>2, <3>1
      <3>2. CASE ~HasList(a)
        BY <1>2, <3>2
      <3> QED  BY <3>1, <3>2
    <2> QED  BY <1>2, <2>1 DEF ToAP
  <1>6. /\ worker' = [worker EXCEPT ![a] = worker'[a]]
        /\ worker'[a].pc # "toAP"
    BY <1>0 DEF ToAP, Enter, TransTypeOK, Proceed, IdleWorker
  <1>7. UNCHANGED <<serving, at, entryList>>
    BY DEF ToAP, queueVars
  <1>8. b = serving[s] /\ at[s] # serving[s]
    BY <1>1, <1>2 DEF CarriedInv, InMotion
  <1>9. \A c \in AP : worker[c].pc = "toAP" => c = a
    BY <1>1 DEF CarriedInv, OneMoves, Moving
  <1>10. \A c \in AP : worker'[c].pc # "toAP"
    BY <1>0, <1>6, <1>9 DEF TransTypeOK
  <1>11. \A c \in AP : \A i \in 1 .. Len(natDown[c]) : ~LetsIn(c, i, s)
    BY <1>1, <1>2 DEF CarriedInv, Arrivals, Arrival
  <1>12. /\ natDown \in [AP -> Seq(DownMsg)] /\ UpdateSTAAdd(s) \in DownMsg
         /\ \A c \in AP : natDown[c] \in Seq(DownMsg)
    BY <1>0, <1>2, UpdateType DEF WireTypeOK
  <1>13. \A c \in AP : c # b \/ ~conn[b].up => natDown'[c] = natDown[c]
    BY <1>2, <1>4, <1>12 DEF Written
  <1>14. conn[b].up => natDown'[b] = natDown[b] \o (adds \o <<UpdateSTAAdd(s)>>)
    BY <1>2, <1>4, <1>12 DEF Written
  <1> DEFINE u == UpdateSTAAdd(s)
  <1>15. PICK m \in Nat : m = Len(natDown[b])
    BY <1>12, LenNat
  <1>150. ASSUME conn[b].up
          PROVE  /\ Len(natDown'[b]) = m + n + 1
                 /\ \A j \in 1 .. m : natDown'[b][j] = natDown[b][j]
                 /\ \A j \in 1 .. n : natDown'[b][m + j] = adds[j]
                 /\ natDown'[b][m + n + 1] = u
    <2>1. natDown'[b] = natDown[b] \o (adds \o <<u>>)
      BY <1>14, <1>150
    <2> HIDE DEF u
    <2>2. natDown[b] \in Seq(DownMsg) /\ u \in DownMsg
      BY <1>12 DEF u
    <2>3. adds \in Seq(DownMsg) /\ Len(adds) = n
      BY <1>3
    <2>4. /\ Len(natDown'[b]) = Len(natDown[b]) + Len(adds) + 1
          /\ \A j \in 1 .. Len(natDown[b]) : natDown'[b][j] = natDown[b][j]
          /\ \A j \in 1 .. Len(adds) : natDown'[b][Len(natDown[b]) + j] = adds[j]
          /\ natDown'[b][Len(natDown[b]) + Len(adds) + 1] = u
      <3>1. ASSUME NEW q \in Seq(DownMsg), NEW v \in DownMsg, NEW w, w = q \o (adds \o <<v>>)
            PROVE  /\ Len(w) = Len(q) + Len(adds) + 1
                   /\ \A j \in 1 .. Len(q) : w[j] = q[j]
                   /\ \A j \in 1 .. Len(adds) : w[Len(q) + j] = adds[j]
                   /\ w[Len(q) + Len(adds) + 1] = v
        <4>1. PICK p \in Seq(DownMsg) : p = adds
          BY <2>3
        <4>2. w = q \o (p \o <<v>>)
          BY <3>1, <4>1
        <4>3. /\ Len(w) = Len(q) + Len(p) + 1
              /\ \A j \in 1 .. Len(q) : w[j] = q[j]
              /\ \A j \in 1 .. Len(p) : w[Len(q) + j] = p[j]
              /\ w[Len(q) + Len(p) + 1] = v
          BY <4>2, ThreeParts
        <4> QED  BY <4>1, <4>3
      <3>2. PICK q \in Seq(DownMsg), v \in DownMsg : q = natDown[b] /\ v = u
        BY <2>2
      <3>3. PICK w : w = natDown'[b]
        OBVIOUS
      <3>4. w = q \o (adds \o <<v>>)
        BY <2>1, <3>2, <3>3
      <3>5. /\ Len(w) = Len(q) + Len(adds) + 1
            /\ \A j \in 1 .. Len(q) : w[j] = q[j]
            /\ \A j \in 1 .. Len(adds) : w[Len(q) + j] = adds[j]
            /\ w[Len(q) + Len(adds) + 1] = v
        BY <3>1, <3>4
      <3> QED  BY <3>2, <3>3, <3>5
    <2> QED  BY <1>15, <2>3, <2>4
  <1>151. ASSUME conn[b].up, NEW j \in 1 .. Len(natDown'[b])
          PROVE  \/ j \in 1 .. m
                 \/ natDown'[b][j].type = "NAT_ADD"
                 \/ j = m + n + 1
    <2> SUFFICES ASSUME j \notin 1 .. m, j # m + n + 1
                 PROVE  natDown'[b][j].type = "NAT_ADD"
      OBVIOUS
    <2>1. j \in Int /\ j - m \in 1 .. n /\ m + (j - m) = j
      BY <1>150, <1>151
    <2>2. natDown'[b][m + (j - m)] = adds[j - m]
      BY <1>150, <1>151, <2>1
    <2>3. adds[j - m].type = "NAT_ADD"
      <3>1. adds[j - m] = NatAdd(List(a)[j - m].flow, List(a)[j - m].newPort)
        BY <1>3, <2>1
      <3> QED  BY <3>1 DEF NatAdd
    <2> QED  BY <2>1, <2>2, <2>3
  <1> HIDE DEF u
  <1>16. Arrivals'
    <2> SUFFICES ASSUME NEW c \in AP, NEW t \in STA, NEW i \in 1 .. Len(natDown'[c]),
                        LetsIn(c, i, t)'
                 PROVE  Arrival(c, i, t)'
      BY DEF Arrivals
    <2>1. CASE t = s
      <3>1. c = b /\ conn[b].up
        BY <1>11, <1>13, <2>1 DEF LetsIn
      <3>2. ASSUME NEW j \in 1 .. Len(natDown'[b]), LetsIn(b, j, s)'
            PROVE  j = m + n + 1
        <4>1. natDown'[b][j].type = "UPDATE_STA_ADD" /\ natDown'[b][j].sta = s
          BY <3>2 DEF LetsIn
        <4>2. j \notin 1 .. m
          BY <1>11, <1>15, <1>150, <3>1, <4>1 DEF LetsIn
        <4> QED  BY <1>151, <3>1, <3>2, <4>1, <4>2
      <3>3. i = m + n + 1
        BY <2>1, <3>1, <3>2
      <3>4. ASSUME NEW f \in carried'[s] PROVE Ahead(b, i, f)'
        <4>1. PICK k \in 1 .. n : f = List(a)[k].flow
          BY <1>0, <1>2, <1>5, <3>4 DEF TransTypeOK
        <4>2. natDown'[b][m + k] = NatAdd(List(a)[k].flow, List(a)[k].newPort)
          BY <1>3, <1>150, <3>1
        <4>3. m + k \in 1 .. i - 1
          BY <3>3
        <4>4. natDown'[b][m + k].type = "NAT_ADD" /\ natDown'[b][m + k].flow = f
          BY <4>1, <4>2 DEF NatAdd
        <4> QED  BY <4>3, <4>4 DEF Ahead
      <3> QED  BY <1>7, <1>8, <1>10, <2>1, <3>1, <3>2, <3>3, <3>4 DEF Arrival
    <2>2. CASE t # s
      <3>1. ASSUME NEW j \in 1 .. Len(natDown'[c]), LetsIn(c, j, t)'
            PROVE  /\ j \in 1 .. Len(natDown[c]) /\ LetsIn(c, j, t)
                   /\ \A k \in 1 .. j - 1 : natDown'[c][k] = natDown[c][k]
        <4>0. natDown'[c][j].type = "UPDATE_STA_ADD" /\ natDown'[c][j].sta = t
          BY <3>1 DEF LetsIn
        <4>1. CASE c # b \/ ~conn[b].up
          BY <1>13, <3>1, <4>1 DEF LetsIn
        <4>2. CASE c = b /\ conn[b].up
          <5>1. j # m + n + 1
            BY <1>150, <2>2, <4>0, <4>2 DEF UpdateSTAAdd, u
          <5>2. j \in 1 .. m
            BY <1>151, <3>1, <4>0, <4>2, <5>1
          <5>3. \A k \in 1 .. j : natDown'[c][k] = natDown[c][k]
            BY <1>150, <4>2, <5>2
          <5>4. natDown'[c][j] = natDown[c][j]
            BY <5>2, <5>3
          <5> QED  BY <1>15, <4>0, <4>2, <5>2, <5>3, <5>4 DEF LetsIn
        <4> QED  BY <4>1, <4>2
      <3>2. Arrival(c, i, t)
        BY <3>1 DEF CarriedInv, Arrivals
      <3>3. carried'[t] = carried[t]
        BY <1>0, <1>5, <2>2 DEF TransTypeOK
      <3>4. ASSUME NEW f \in carried[t] PROVE Ahead(c, i, f)'
        BY SMTT(30), <1>7, <3>1, <3>2, <3>4 DEF Arrival, Ahead
      <3>5. \A j \in 1 .. Len(natDown'[c]) : LetsIn(c, j, t)' => j = i
        BY <3>1, <3>2 DEF Arrival
      <3> QED  BY <1>7, <1>10, <3>2, <3>3, <3>4, <3>5 DEF Arrival
    <2> QED  BY <2>1, <2>2
  <1>17. InMotion'
    BY <1>10 DEF InMotion
  <1>18. OneMoves'
    <2>1. \A c \in AP : worker'[c].pc \in Moving => worker[c].pc \in Moving
      BY <1>0, <1>1, <1>6 DEF TransTypeOK, Moving
    <2> QED  BY <2>1 DEF CarriedInv, OneMoves
  <1>19. CarriedFirst'
    <2> SUFFICES ASSUME NEW t \in STA, at'[t] = serving'[t], NEW f \in carried'[t]
                 PROVE  lookupPortMapQ0(at[t], f)'
      BY <1>7 DEF CarriedFirst
    <2>1. t # s
      BY <1>7, <1>8
    <2>2. carried'[t] = carried[t]
      BY <1>0, <1>5, <2>1 DEF TransTypeOK
    <2> QED  BY <1>7, <2>2 DEF CarriedInv, CarriedFirst, lookupPortMapQ0
  <1> QED  BY <1>16, <1>17, <1>18, <1>19 DEF CarriedInv


(***************************************************************************)
(* A handover begins only when the station is where the controller has it: *)
(* then nothing of an earlier one is under way.                            *)
(***************************************************************************)
LEMMA DecideCarried ==
    ASSUME TypeInv, CarriedInv, NEW s \in STA, NEW b \in AP, Decide(s, b)
    PROVE  CarriedInv'
  <1>0. WireTypeOK /\ TransTypeOK /\ QueueTypeOK
    BY DEF TypeInv, TransInv, QueueInv
  <1>1. PICK a \in AP : a = at[s]
    BY <1>0 DEF QueueTypeOK
  <1>2. /\ serving[s] = a /\ a # b
        /\ serving' = [serving EXCEPT ![s] = b]
        /\ \A c \in AP : worker[c].pc \notin Moving
        /\ UNCHANGED <<natDown, entryList, at, carried>>
    BY <1>1 DEF Decide, Move, wireVars, queueVars
  <1>3. /\ worker' = [worker EXCEPT ![a] = worker'[a]]
        /\ worker'[a].pc = "toAP" /\ worker'[a].sta = s /\ worker'[a].to = b
    BY <1>0, <1>1 DEF Decide, Move, Enter, NewWorker, TransTypeOK
  <1>4. \A c \in AP : c # a => worker'[c].pc \notin Moving
    BY <1>0, <1>2, <1>3 DEF TransTypeOK
  <1>5. serving'[s] = b /\ \A t \in STA : t # s => serving'[t] = serving[t]
    BY <1>0, <1>2 DEF TransTypeOK
  <1>6. Arrivals'
    <2> SUFFICES ASSUME NEW c \in AP, NEW t \in STA, NEW i \in 1 .. Len(natDown'[c]),
                        LetsIn(c, i, t)'
                 PROVE  Arrival(c, i, t)'
      BY DEF Arrivals
    <2>1. i \in 1 .. Len(natDown[c]) /\ LetsIn(c, i, t)
      BY <1>2 DEF LetsIn
    <2>2. Arrival(c, i, t)
      BY <2>1 DEF CarriedInv, Arrivals
    <2>3. t # s
      BY <1>1, <1>2, <2>2 DEF Arrival
    <2>4. \A d \in AP : ~(worker'[d].pc = "toAP" /\ worker'[d].sta = t)
      BY <1>3, <1>4, <2>3 DEF Moving
    <2> QED  BY <1>2, <1>5, <2>2, <2>3, <2>4 DEF Arrival, LetsIn, Ahead
  <1>7. InMotion'
    BY <1>1, <1>2, <1>3, <1>4, <1>5 DEF InMotion, Moving
  <1>8. OneMoves'
    BY <1>4 DEF OneMoves
  <1>9. CarriedFirst'
    <2> SUFFICES ASSUME NEW t \in STA, at'[t] = serving'[t], NEW f \in carried'[t]
                 PROVE  lookupPortMapQ0(at[t], f)'
      BY <1>2 DEF CarriedFirst
    <2>1. t # s
      BY <1>1, <1>2, <1>5
    <2> QED  BY <1>2, <1>5, <2>1 DEF CarriedInv, CarriedFirst, lookupPortMapQ0
  <1> QED  BY <1>6, <1>7, <1>8, <1>9 DEF CarriedInv

(***************************************************************************)
(* The head of a queue is received, the others move up.                    *)
(***************************************************************************)
LEMMA TailWas ==
    ASSUME NEW S, NEW q \in Seq(S), q # <<>>
    PROVE  /\ Len(q) \in Nat /\ Len(q) >= 1 /\ Head(q) = q[1]
           /\ Len(Tail(q)) = Len(q) - 1
           /\ \A i \in 1 .. Len(q) - 1 : Tail(q)[i] = q[i + 1]
  OBVIOUS

LEMMA AddEntryCarried ==
    ASSUME TypeInv, CarriedInv, NEW a \in AP, addEntry(a), UNCHANGED transVars
    PROVE  CarriedInv'
  <1>0. WireTypeOK /\ TransTypeOK /\ QueueTypeOK /\ QueueInv
    BY DEF TypeInv, TransInv, QueueInv
  <1>1. PICK m \in DownMsg : m = Head(natDown[a])
    BY <1>0, AddEntryTypes
  <1>2. /\ m.type = "NAT_ADD" /\ m.flow \in Flow
        /\ natDown[a] # <<>> /\ natDown' = [natDown EXCEPT ![a] = Tail(@)]
    BY <1>0, <1>1, AddEntryTypes
  <1>3. /\ entryList' = [entryList EXCEPT ![a][m.flow] = IF @ = None THEN 0 ELSE @]
        /\ UNCHANGED <<at, serving, worker, carried>>
    BY <1>1 DEF addEntry, transVars
  <1>4. /\ \A b \in AP, f \in Flow : entryList[b][f] # None => entryList'[b][f] # None
        /\ entryList'[a][m.flow] # None
    BY <1>0, <1>2, <1>3, PortFacts, NoneAssumption DEF QueueTypeOK
  <1>5. PICK q \in Seq(DownMsg) : q = natDown[a]
    BY <1>0 DEF WireTypeOK
  <1>6. /\ Len(q) \in Nat /\ Len(q) >= 1 /\ m = q[1]
        /\ Len(natDown'[a]) = Len(q) - 1
        /\ \A i \in 1 .. Len(q) - 1 : natDown'[a][i] = q[i + 1]
    <2>1. natDown'[a] = Tail(q)
      BY <1>0, <1>2, <1>5 DEF WireTypeOK
    <2>2. q # <<>> /\ m = Head(q)
      BY <1>1, <1>2, <1>5
    <2>3. /\ Len(q) \in Nat /\ Len(q) >= 1 /\ Head(q) = q[1]
          /\ Len(Tail(q)) = Len(q) - 1
          /\ \A i \in 1 .. Len(q) - 1 : Tail(q)[i] = q[i + 1]
      BY <2>2, TailWas
    <2> QED  BY <2>1, <2>2, <2>3
  <1>7. \A b \in AP : b # a => natDown'[b] = natDown[b]
    BY <1>0, <1>2 DEF WireTypeOK
  <1>8. \A s \in STA : carried[s] \subseteq Flow
    BY <1>0 DEF TransTypeOK
  <1>9. Arrivals'
    <2> SUFFICES ASSUME NEW b \in AP, NEW s \in STA, NEW i \in 1 .. Len(natDown'[b]),
                        LetsIn(b, i, s)'
                 PROVE  Arrival(b, i, s)'
      BY DEF Arrivals
    <2>1. CASE b # a
      <3>1. i \in 1 .. Len(natDown[b]) /\ LetsIn(b, i, s) /\ natDown'[b] = natDown[b]
        BY <1>7, <2>1 DEF LetsIn
      <3>2. Arrival(b, i, s)
        BY <3>1 DEF CarriedInv, Arrivals
      <3>3. ASSUME NEW f \in carried[s] PROVE Ahead(b, i, f)'
        BY <1>4, <1>8, <3>1, <3>2, <3>3 DEF Arrival, Ahead
      <3> QED  BY <1>3, <3>1, <3>2, <3>3 DEF Arrival, LetsIn
    <2>2. CASE b = a
      <3>1. ASSUME NEW j \in 1 .. Len(natDown'[b]), LetsIn(b, j, s)'
            PROVE  j + 1 \in 1 .. Len(natDown[b]) /\ LetsIn(b, j + 1, s)
        BY SMTT(30), <1>5, <1>6, <2>2, <3>1 DEF LetsIn
      <3>2. Arrival(b, i + 1, s)
        BY <3>1 DEF CarriedInv, Arrivals
      <3>3. ASSUME NEW j \in 1 .. Len(natDown'[b]), LetsIn(b, j, s)' PROVE j = i
        <4>1. j + 1 = i + 1
          BY <3>1, <3>2, <3>3 DEF Arrival
        <4> QED  BY <4>1
      <3>4. ASSUME NEW f \in carried[s] PROVE Ahead(b, i, f)'
        <4>1. Ahead(b, i + 1, f) /\ f \in Flow
          BY <1>8, <3>2, <3>4 DEF Arrival
        <4>2. CASE entryList[b][f] # None
          BY <1>4, <4>1, <4>2 DEF Ahead
        <4>3. CASE entryList[b][f] = None
          <5>1. PICK j \in 1 .. i : natDown[b][j].type = "NAT_ADD" /\ natDown[b][j].flow = f
            BY <4>1, <4>3 DEF Ahead
          <5>2. CASE j = 1
            BY <1>4, <1>5, <1>6, <2>2, <5>1, <5>2 DEF Ahead
          <5>3. CASE j # 1
            <6>1. j - 1 \in 1 .. i - 1 /\ j - 1 \in 1 .. Len(q) - 1 /\ (j - 1) + 1 = j
              BY <1>6, <2>2, <5>3
            <6>2. natDown'[b][j - 1] = natDown[b][j]
              BY <1>5, <1>6, <2>2, <6>1
            <6> QED  BY <5>1, <6>1, <6>2 DEF Ahead
          <5> QED  BY <5>2, <5>3
        <4> QED  BY <4>2, <4>3
      <3> QED  BY <1>3, <3>2, <3>3, <3>4 DEF Arrival
    <2> QED  BY <2>1, <2>2
  <1>10. InMotion' /\ OneMoves'
    BY <1>3 DEF CarriedInv, InMotion, OneMoves
  <1>11. CarriedFirst'
    <2>1. \A s \in STA : at[s] \in AP
      BY <1>0 DEF QueueTypeOK
    <2> QED  BY <1>3, <1>4, <1>8, <2>1 DEF CarriedInv, CarriedFirst, lookupPortMapQ0
  <1> QED  BY <1>9, <1>10, <1>11 DEF CarriedInv

(***************************************************************************)
(* The station arrives, and everything carried is there.                   *)
(***************************************************************************)
LEMMA ArriveCarried ==
    ASSUME TypeInv, CarriedInv, NEW a \in AP, UPDATE_STA_ADD(a), UNCHANGED transVars
    PROVE  CarriedInv'
  <1>0. WireTypeOK /\ TransTypeOK /\ QueueTypeOK /\ QueueInv
    BY DEF TypeInv, TransInv, QueueInv
  <1>1. PICK m \in DownMsg : m = Head(natDown[a])
    BY <1>0, UpdateTypes
  <1>2. PICK t \in STA : t = m.sta
    BY <1>0, <1>1, UpdateTypes
  <1>3. /\ m.type = "UPDATE_STA_ADD"
        /\ natDown[a] # <<>> /\ natDown' = [natDown EXCEPT ![a] = Tail(@)]
    BY <1>0, <1>1, UpdateTypes
  <1>4. at' = [at EXCEPT ![t] = a] /\ UNCHANGED <<entryList, serving, worker, carried>>
    BY <1>1, <1>2 DEF UPDATE_STA_ADD, transVars
  <1>5. PICK q \in Seq(DownMsg) : q = natDown[a]
    BY <1>0 DEF WireTypeOK
  <1>6. /\ Len(q) \in Nat /\ Len(q) >= 1 /\ m = q[1]
        /\ Len(natDown'[a]) = Len(q) - 1
        /\ \A i \in 1 .. Len(q) - 1 : natDown'[a][i] = q[i + 1]
    <2>1. natDown'[a] = Tail(q)
      BY <1>0, <1>3, <1>5 DEF WireTypeOK
    <2>2. q # <<>> /\ m = Head(q)
      BY <1>1, <1>3, <1>5
    <2>3. /\ Len(q) \in Nat /\ Len(q) >= 1 /\ Head(q) = q[1]
          /\ Len(Tail(q)) = Len(q) - 1
          /\ \A i \in 1 .. Len(q) - 1 : Tail(q)[i] = q[i + 1]
      BY <2>2, TailWas
    <2> QED  BY <2>1, <2>2, <2>3
  <1>7. \A b \in AP : b # a => natDown'[b] = natDown[b]
    BY <1>0, <1>3 DEF WireTypeOK
  <1>8. 1 \in 1 .. Len(natDown[a]) /\ LetsIn(a, 1, t)
    BY <1>2, <1>3, <1>5, <1>6 DEF LetsIn
  <1>9. Arrival(a, 1, t)
    BY <1>8 DEF CarriedInv, Arrivals
  <1>10. \A f \in carried[t] : entryList[a][f] # None
    BY <1>9 DEF Arrival, Ahead
  <1>11. at'[t] = a /\ \A s \in STA : s # t => at'[s] = at[s]
    BY <1>0, <1>4 DEF QueueTypeOK
  <1>12. Arrivals'
    <2> SUFFICES ASSUME NEW b \in AP, NEW s \in STA, NEW i \in 1 .. Len(natDown'[b]),
                        LetsIn(b, i, s)'
                 PROVE  Arrival(b, i, s)'
      BY DEF Arrivals
    <2>1. CASE b # a
      <3>1. i \in 1 .. Len(natDown[b]) /\ LetsIn(b, i, s) /\ natDown'[b] = natDown[b]
        BY <1>7, <2>1 DEF LetsIn
      <3>2. Arrival(b, i, s)
        BY <3>1 DEF CarriedInv, Arrivals
      <3>3. s # t
        BY <1>9, <2>1, <3>2 DEF Arrival
      <3> QED  BY <1>4, <1>11, <3>1, <3>2, <3>3 DEF Arrival, LetsIn, Ahead
    <2>2. CASE b = a
      <3>1. ASSUME NEW j \in 1 .. Len(natDown'[b]), LetsIn(b, j, s)'
            PROVE  j + 1 \in 1 .. Len(natDown[b]) /\ LetsIn(b, j + 1, s)
        BY SMTT(30), <1>5, <1>6, <2>2, <3>1 DEF LetsIn
      <3>2. Arrival(b, i + 1, s)
        BY <3>1 DEF CarriedInv, Arrivals
      <3>3. s # t
        <4> SUFFICES ASSUME s = t PROVE FALSE
          OBVIOUS
        <4>1. i + 1 = 1
          BY <1>9, <2>2, <3>1 DEF Arrival
        <4> QED  BY <1>6, <2>2, <4>1
      <3>4. ASSUME NEW j \in 1 .. Len(natDown'[b]), LetsIn(b, j, s)' PROVE j = i
        <4>1. j + 1 = i + 1
          BY <3>1, <3>2, <3>4 DEF Arrival
        <4> QED  BY <4>1
      <3>5. ASSUME NEW f \in carried[s] PROVE Ahead(b, i, f)'
        <4>1. Ahead(b, i + 1, f)
          BY <3>2, <3>5 DEF Arrival
        <4>2. CASE entryList[b][f] # None
          BY <1>4, <4>2 DEF Ahead
        <4>3. CASE entryList[b][f] = None
          <5>1. PICK j \in 1 .. i : natDown[b][j].type = "NAT_ADD" /\ natDown[b][j].flow = f
            BY <4>1, <4>3 DEF Ahead
          <5>2. j # 1
            BY <1>3, <1>5, <1>6, <2>2, <5>1
          <5>3. j - 1 \in 1 .. i - 1 /\ j - 1 \in 1 .. Len(q) - 1 /\ (j - 1) + 1 = j
            BY <1>6, <2>2, <5>2
          <5>4. natDown'[b][j - 1] = natDown[b][j]
            BY <1>5, <1>6, <2>2, <5>3
          <5> QED  BY <5>1, <5>3, <5>4 DEF Ahead
        <4> QED  BY <4>2, <4>3
      <3> QED  BY <1>4, <1>11, <3>2, <3>3, <3>4, <3>5 DEF Arrival
    <2> QED  BY <2>1, <2>2
  <1>13. InMotion'
    <2> SUFFICES ASSUME NEW c \in AP, worker'[c].pc = "toAP"
                 PROVE  /\ worker'[c].to = serving'[worker'[c].sta]
                        /\ at'[worker'[c].sta] # serving'[worker'[c].sta]
      BY DEF InMotion
    <2>1. worker[c].pc = "toAP" /\ worker[c].sta \in STA
      BY <1>4 DEF TypeInv, TransInv, Busy, Fit, Moving
    <2>2. worker[c].sta # t
      BY <1>9, <2>1 DEF Arrival
    <2> QED  BY <1>4, <1>11, <2>1, <2>2 DEF CarriedInv, InMotion
  <1>14. OneMoves'
    BY <1>4 DEF CarriedInv, OneMoves
  <1>15. CarriedFirst'
    <2> SUFFICES ASSUME NEW s \in STA, at'[s] = serving'[s], NEW f \in carried'[s]
                 PROVE  entryList'[at'[s]][f] # None
      BY DEF CarriedFirst, lookupPortMapQ0
    <2>1. CASE s = t
      BY <1>4, <1>10, <1>11, <2>1
    <2>2. CASE s # t
      BY <1>4, <1>11, <2>2 DEF CarriedInv, CarriedFirst, lookupPortMapQ0
    <2> QED  BY <2>1, <2>2
  <1> QED  BY <1>12, <1>13, <1>14, <1>15 DEF CarriedInv


LEMMA CarriedStep == TypeInv /\ CarriedInv /\ [Next]_vars => CarriedInv'
  <1> SUFFICES ASSUME TypeInv, CarriedInv, [Next]_vars PROVE CarriedInv'
    OBVIOUS
  <1>0. WireTypeOK /\ TransInv /\ TransTypeOK /\ QueueTypeOK /\ QueueInv /\ TypeInv'
    BY TypeStep DEF TypeInv, TransInv, QueueInv
  <1>00. ASSUME natDown' = natDown PROVE \A b \in AP : Adds(natDown[b], natDown'[b])
    BY <1>0, <1>00, AddsNone DEF WireTypeOK
  <1>01. ASSUME NEW a \in AP, NEW msg \in DownMsg, msg.type = "NAT_ADD",
                natDown' = Written(a, <<msg>>)
         PROVE  \A b \in AP : Adds(natDown[b], natDown'[b])
    <2>1. <<msg>> \in Seq(DownMsg) /\ \A k \in 1 .. Len(<<msg>>) : <<msg>>[k].type = "NAT_ADD"
      BY <1>01
    <2> QED  BY <1>0, <1>01, <2>1, WrittenAdds
  <1>02. ASSUME NEW a \in AP, natDown' = [natDown EXCEPT ![a] = <<>>]
         PROVE  \A b \in AP : Adds(natDown[b], natDown'[b])
    <2> SUFFICES ASSUME NEW b \in AP PROVE Adds(natDown[b], natDown'[b])
      OBVIOUS
    <2>1. natDown'[b] = <<>> \/ natDown'[b] = natDown[b]
      BY <1>0, <1>02 DEF WireTypeOK
    <2>2. natDown[b] \in Seq(DownMsg)
      BY <1>0 DEF WireTypeOK
    <2> QED  BY <2>1, <2>2, AddsNone DEF Adds
  <1>1. ASSUME NEW a \in AP, HandlePortTranslation(a) PROVE CarriedInv'
    <2>0. handlePortTranslation(a) /\ UNCHANGED <<at, entryList>>
      BY <1>1 DEF HandlePortTranslation, queueVars
    <2>1. UNCHANGED <<serving, carried>>
      BY <2>0 DEF handlePortTranslation, Get, Found, NotFound, SearchThrows, Put,
                  ReadPort, Store
    <2>2. /\ worker' = [worker EXCEPT ![a] = worker'[a]]
          /\ worker'[a].pc \notin Moving
      <3>1. ASSUME NEW w, Enter(a, w), w.pc \notin Moving
            PROVE  worker' = [worker EXCEPT ![a] = worker'[a]] /\ worker'[a].pc \notin Moving
        BY <1>0, <3>1 DEF Enter, TransTypeOK
      <3>2. IdleWorker.pc \notin Moving
        BY DEF IdleWorker, Moving
      <3>3. \A p : Proceed(a, "port", p).pc \notin Moving /\ Proceed(a, "store", p).pc \notin Moving
        BY DEF Proceed, Moving
      <3>4. \A f, s, l : /\ NewWorker("put", f, s, l, None).pc \notin Moving
                         /\ NewWorker("search", f, s, l, None).pc \notin Moving
        BY DEF NewWorker, Moving
      <3>5. CASE Get(a)
        BY <3>1, <3>4, <3>5 DEF Get
      <3>6. CASE Found(a) \/ SearchThrows(a) \/ Store(a)
        BY <3>1, <3>2, <3>6 DEF Found, SearchThrows, Throw, Store
      <3>7. CASE NotFound(a) \/ Put(a) \/ ReadPort(a)
        BY <3>1, <3>3, <3>7 DEF NotFound, Put, ReadPort
      <3> QED  BY <2>0, <3>5, <3>6, <3>7 DEF handlePortTranslation
    <2>3. \A b \in AP : Adds(natDown[b], natDown'[b])
      <3>1. CASE Get(a) \/ NotFound(a) \/ Put(a) \/ ReadPort(a)
        BY <1>00, <3>1 DEF Get, NotFound, Put, ReadPort, wireVars
      <3>2. CASE Found(a)
        <4>1. PICK k \in Matches(a) :
                natDown' = Written(a, <<NatAdd(List(a)[k].flow, List(a)[k].newPort)>>)
          BY <3>2 DEF Found
        <4>2. NatAdd(List(a)[k].flow, List(a)[k].newPort) \in DownMsg
          BY <1>0, <3>2, MatchType, NatAddType DEF Found
        <4>3. NatAdd(List(a)[k].flow, List(a)[k].newPort).type = "NAT_ADD"
          BY DEF NatAdd
        <4> QED  BY <1>01, <4>1, <4>2, <4>3
      <3>3. CASE SearchThrows(a)
        BY <1>02, <3>3 DEF SearchThrows, Throw, Close
      <3>4. CASE Store(a)
        <4>1. NatAdd(worker[a].flow, worker[a].port) \in DownMsg
          BY <1>0, <3>4, AppendedType, NatAddType DEF Store
        <4>2. NatAdd(worker[a].flow, worker[a].port).type = "NAT_ADD"
          BY DEF NatAdd
        <4> QED  BY <1>01, <3>4, <4>1, <4>2 DEF Store
      <3> QED  BY <2>0, <3>1, <3>2, <3>3, <3>4 DEF handlePortTranslation
    <2>4. \A b \in AP : /\ worker'[b].pc = "toAP" => worker'[b] = worker[b]
                        /\ worker'[b].pc \in Moving => worker[b].pc \in Moving
      BY <1>0, <2>2 DEF TransTypeOK, Moving
    <2> QED  BY <1>0, <2>0, <2>1, <2>3, <2>4, CarriedFrame
  <1>2. ASSUME NEW a \in AP, HandleAPRSSI(a) PROVE CarriedInv'
    <2>0. handleAPRSSI(a) /\ UNCHANGED queueVars /\ UNCHANGED <<at, entryList>>
      BY <1>2 DEF HandleAPRSSI, queueVars
    <2>1. CASE ToAP(a)
      BY <1>0, <2>0, <2>1, ToAPCarried
    <2>2. CASE ToAPThrows(a) \/ ToGateway(a) \/ ToGatewayThrows(a)
      <3>1. UNCHANGED <<serving, carried>> /\ Enter(a, IdleWorker)
        BY <2>2 DEF ToAPThrows, ToGateway, ToGatewayThrows
      <3>2. \A b \in AP : /\ worker'[b].pc = "toAP" => worker'[b] = worker[b]
                          /\ worker'[b].pc \in Moving => worker[b].pc \in Moving
        BY <1>0, <3>1 DEF Enter, IdleWorker, TransTypeOK, Moving
      <3>3. \A b \in AP : Adds(natDown[b], natDown'[b])
        <4>1. CASE ToAPThrows(a)
          <5>1. worker[a].list \in AP /\ worker[a].to \in AP /\ worker[a].pc # "idle"
            BY <1>0, <4>1 DEF ToAPThrows, HasList, TransInv, TransTypeOK, Worker, Busy,
                              Fit, Moving
          <5>2. PICK k \in 0 .. worker[a].len :
                  natDown' = [Written(worker[a].to, NatAdds(a, k)) EXCEPT ![a] = <<>>]
            BY <4>1 DEF ToAPThrows
          <5>3. /\ NatAdds(a, k) \in Seq(DownMsg) /\ Len(NatAdds(a, k)) = k
                /\ \A i \in 1 .. k : NatAdds(a, k)[i] =
                                       NatAdd(List(a)[i].flow, List(a)[i].newPort)
            BY <1>0, <5>1, NatAddsType
          <5>4. \A i \in 1 .. Len(NatAdds(a, k)) : NatAdds(a, k)[i].type = "NAT_ADD"
            BY <5>3 DEF NatAdd
          <5>5. Written(worker[a].to, NatAdds(a, k)) \in [AP -> Seq(DownMsg)]
            BY <1>0, <5>1, <5>3, WrittenType
          <5>6. \A b \in AP : Adds(natDown[b], Written(worker[a].to, NatAdds(a, k))[b])
            BY <1>0, <5>1, <5>3, <5>4, WrittenAdds
          <5>7. \A b \in AP : \/ natDown'[b] = <<>>
                              \/ natDown'[b] = Written(worker[a].to, NatAdds(a, k))[b]
            BY <5>2, <5>5
          <5> QED  BY <5>6, <5>7 DEF Adds
        <4>2. CASE ToGateway(a)
          BY <1>00, <4>2 DEF ToGateway
        <4>3. CASE ToGatewayThrows(a)
          BY <1>02, <4>3 DEF ToGatewayThrows, Close
        <4> QED  BY <2>2, <4>1, <4>2, <4>3
      <3> QED  BY <1>0, <2>0, <3>1, <3>2, <3>3, CarriedFrame
    <2> QED  BY <2>0, <2>1, <2>2 DEF handleAPRSSI
  <1>3. ASSUME NEW a \in AP, HandleVendor(a) PROVE CarriedInv'
    <2>0. UNCHANGED transVars /\ UNCHANGED <<serving, carried, worker>>
      BY <1>3 DEF HandleVendor, transVars
    <2>1. CASE addEntry(a)
      BY <2>0, <2>1, AddEntryCarried
    <2>2. CASE SetPort(a)
      <3>1. adding[a].flow \in Flow /\ adding[a].port \in Port
        BY <1>0, <2>2, SetPortTypes
      <3>2. /\ entryList' = [entryList EXCEPT ![a][adding[a].flow] = adding[a].port]
            /\ at' = at /\ natDown' = natDown
        BY <2>2 DEF SetPort, wireVars
      <3>3. \A b \in AP, f \in Flow : entryList[b][f] # None => entryList'[b][f] # None
        BY <1>0, <3>1, <3>2, NoneAssumption DEF QueueTypeOK
      <3> QED  BY <1>0, <1>00, <2>0, <3>2, <3>3, CarriedFrame
    <2>3. CASE UPDATE_STA_ADD(a)
      BY <2>0, <2>3, ArriveCarried
    <2> QED  BY <1>3, <2>1, <2>2, <2>3 DEF HandleVendor
  <1>4. ASSUME NEW s \in STA, NEW b \in AP, Decide(s, b) PROVE CarriedInv'
    BY <1>4, DecideCarried
  <1>5. ASSUME NEW a \in AP, Cut(a) PROVE CarriedInv'
    <2>1. UNCHANGED <<serving, at, carried, entryList, worker>>
      BY <1>5 DEF Cut, transVars, queueVars
    <2>2. \A b \in AP : Adds(natDown[b], natDown'[b])
      BY <1>02, <1>5 DEF Cut, Close
    <2> QED  BY <1>0, <2>1, <2>2, CarriedFrame
  <1>6. ASSUME natDown' = natDown, UNCHANGED <<serving, at, carried, entryList, worker>>
        PROVE  CarriedInv'
    BY <1>0, <1>00, <1>6, CarriedFrame
  <1>7. ASSUME NEW a \in AP, HandlePkt(a) \/ ConnOpen(a) PROVE CarriedInv'
    BY <1>6, <1>7 DEF HandlePkt, Accept, Keep, ConnOpen, wireVars, transVars, queueVars
  <1>8. ASSUME NEW a \in AP, NEW f \in Flow, SendNatPortEntry(a, f) \/ ReinjectPkt(a, f)
        PROVE  CarriedInv'
    BY <1>6, <1>8 DEF SendNatPortEntry, send_nat_port_entry, ReinjectPkt, reinject_pkt,
                      wireVars, transVars
  <1>9. ASSUME NEW w \in out, GwHandlePkt(w) PROVE CarriedInv'
    BY <1>6, <1>9 DEF GwHandlePkt, wireVars, transVars, queueVars
  <1>10. ASSUME NEW f \in Flow, Send(f) PROVE CarriedInv'
    BY <1>6, <1>10 DEF Send, Lookup, wireVars, transVars
  <1>11. CASE GwHandleVendor \/ GW_CONNECT \/ RemovedGateway
    BY <1>6, <1>11 DEF GwHandleVendor, handle_vendor, GW_CONNECT, RemovedGateway,
                       transVars, queueVars
  <1>12. CASE UNCHANGED vars
    BY <1>6, <1>12 DEF vars, wireVars, transVars, queueVars
  <1> QED
    BY <1>1, <1>2, <1>3, <1>4, <1>5, <1>7, <1>8, <1>9, <1>10, <1>11, <1>12 DEF Next

LEMMA CarriedInit == Init => CarriedInv
  <1> SUFFICES ASSUME Init PROVE CarriedInv
    OBVIOUS
  <1>1. \A a \in AP : worker[a].pc = "idle" /\ natDown[a] = <<>>
    BY DEF Init, WireInit, TransInit, IdleWorker
  <1>2. \A s \in STA : carried[s] = {}
    BY DEF Init, TransInit
  <1>3. Arrivals
    BY <1>1 DEF Arrivals
  <1> QED  BY <1>1, <1>2, <1>3 DEF CarriedInv, InMotion, OneMoves, CarriedFirst, Moving

(***************************************************************************)
(* The entries of a station are at its new AP before the station is, for   *)
(* every number of APs, stations and flows, and whatever connections fail: *)
(* handleAPRSSI is synchronized, writes the entries ahead of               *)
(* UPDATE_STA_ADD on one connection, and moves a station again only when   *)
(* the last handover has arrived.                                          *)
(***************************************************************************)
THEOREM EntriesFirst == Spec => []CarriedFirst
  <1>1. TypeInv /\ CarriedInv /\ [Next]_vars => (TypeInv /\ CarriedInv)'
    BY TypeStep, CarriedStep
  <1>2. CarriedInv => CarriedFirst
    BY DEF CarriedInv
  <1> QED  BY <1>1, <1>2, InvInit, CarriedInit, PTL DEF Spec


-----------------------------------------------------------------------------

(***************************************************************************)
(* The access points implement NatChannel.  A packet is at one place at a  *)
(* time: in a queue, in the hands of a thread, or gone.  Its number tells  *)
(* it from every packet that was sent before.                              *)
(***************************************************************************)
InHand(a, p) == queue0[a] # NoPacket /\ queue0[a].pkt = p

Sooner(p) == p.n <= count[p.flow]

Apart ==
    /\ \A a, b \in AP : \A p \in portQueue[a] : p \in portQueue[b] => a = b
    /\ \A a, b \in AP : \A p \in portQueue[a] : ~InHand(b, p)
    /\ \A a, b \in AP : \A p \in Packet : InHand(a, p) /\ InHand(b, p) => a = b

Counted == (\A p \in Pending : Sooner(p)) /\ \A w \in out : Sooner(w.pkt)

Gone == \A w \in out : w.pkt \notin Pending

ChannelInv == Apart /\ Counted /\ Gone

LEMMA PendingIs ==
    \A p : p \in Pending <=> \E a \in AP : p \in portQueue[a] \/ InHand(a, p)
  BY DEF Pending, InHand

LEMMA PendingIsNext ==
    \A p : p \in Pending' <=> \E a \in AP : p \in portQueue'[a] \/ InHand(a, p)'
  BY DEF Pending, InHand

LEMMA HandType ==
    ASSUME QueueTypeOK, NEW a \in AP
    PROVE  /\ queue0[a] # NoPacket <=> queue0[a].pc \in {"accept", "keep"}
           /\ queue0[a] # NoPacket => queue0[a].pkt \in Packet
           /\ \A p : InHand(a, p) => p \in Packet
  BY DEF QueueTypeOK, Handling, NoPacket, InHand

LEMMA PendingType ==
    ASSUME QueueTypeOK, NEW p \in Pending
    PROVE  p \in Packet /\ p.flow \in Flow
  <1>1. PICK a \in AP : p \in portQueue[a] \/ InHand(a, p)
    BY PendingIs
  <1>2. p \in Packet
    BY <1>1, HandType DEF QueueTypeOK
  <1> QED  BY <1>2 DEF Packet

(***************************************************************************)
(* A packet arrives.                                                       *)
(***************************************************************************)
LEMMA ArriveStep ==
    ASSUME TypeInv, ChannelInv, NEW f \in Flow, Send(f)
    PROVE  ChannelInv' /\ Channel!Next
  <1>0. QueueTypeOK /\ count \in [Flow -> Nat] /\ out \subseteq Sent
    BY DEF TypeInv, QueueInv, QueueTypeOK, EnvInv
  <1>1. PICK a \in AP : a = at[f.sta]
    BY <1>0, FlowParts DEF QueueTypeOK
  <1>2. PICK p \in Packet : p = [flow |-> f, n |-> count[f] + 1]
    <2>1. count[f] + 1 \in Nat
      BY <1>0
    <2>2. [flow |-> f, n |-> count[f] + 1] \in Packet
      BY <2>1 DEF Packet
    <2> QED  BY <2>2
  <1>3. /\ count' = [count EXCEPT ![f] = @ + 1] /\ Lookup(a, p)
        /\ UNCHANGED <<portQueue, out>> /\ queue0[a] = NoPacket
    BY <1>1, <1>2 DEF Send, Lookup
  <1>4. queue0' = [queue0 EXCEPT ![a] =
           [pc |-> IF lookupPortMapQ0(a, p.flow) THEN "accept" ELSE "keep", pkt |-> p]]
    BY <1>3 DEF Lookup
  <1>5. \A q : InHand(a, q)' <=> q = p
    <2>1. queue0'[a].pkt = p /\ queue0'[a].pc # "idle"
      BY <1>0, <1>4 DEF QueueTypeOK
    <2> QED  BY <2>1 DEF InHand, NoPacket
  <1>6. \A b \in AP : b # a => queue0'[b] = queue0[b]
    BY <1>0, <1>4 DEF QueueTypeOK
  <1>7. \A b \in AP : \A q : b # a => (InHand(b, q)' <=> InHand(b, q))
    BY <1>6 DEF InHand
  <1>8. \A q : ~InHand(a, q)
    BY <1>3 DEF InHand
  <1>9. ~Sooner(p) /\ p.flow = f /\ p.n \in Nat
    BY <1>0, <1>2 DEF Sooner
  <1>10. p \notin Pending /\ \A w \in out : w.pkt # p
    BY <1>9 DEF ChannelInv, Counted
  <1>11. Pending' = Pending \cup {p}
    <2>1. \A q : q \in Pending' <=> q \in Pending \/ q = p
      BY <1>3, <1>5, <1>7, <1>8, PendingIs, PendingIsNext
    <2> QED  BY <2>1
  <1>12. Apart'
    <2>1. \A b \in AP : p \notin portQueue[b] /\ ~InHand(b, p)
      BY <1>10, PendingIs
    <2> QED  BY <1>3, <1>5, <1>7, <2>1 DEF ChannelInv, Apart
  <1>13. Counted'
    <2>1. ASSUME NEW q \in Packet, Sooner(q) \/ q = p PROVE Sooner(q)'
      <3>1. q.flow \in Flow /\ q.n \in Nat
        BY DEF Packet
      <3>2. /\ count[q.flow] \in Nat /\ count'[q.flow] >= count[q.flow]
            /\ count'[f] = count[f] + 1
        BY <1>0, <1>3, <3>1
      <3>3. CASE q = p
        BY <1>2, <1>9, <3>2, <3>3 DEF Sooner
      <3>4. CASE Sooner(q)
        BY <3>1, <3>2, <3>4, <1>0, <1>3 DEF Sooner
      <3> QED  BY <2>1, <3>3, <3>4
    <2>2. \A q \in Pending' : Sooner(q)'
      BY <1>0, <1>11, <2>1, PendingType DEF ChannelInv, Counted
    <2>3. \A w \in out' : Sooner(w.pkt)'
      BY <1>0, <1>3, <2>1 DEF ChannelInv, Counted, Sent
    <2> QED  BY <2>2, <2>3 DEF Counted
  <1>14. Gone'
    BY <1>3, <1>10, <1>11 DEF ChannelInv, Gone
  <1>15. Channel!Arrive(p)
    BY <1>3, <1>10, <1>11 DEF Channel!Arrive
  <1> QED  BY <1>11, <1>12, <1>13, <1>14, <1>15 DEF ChannelInv, Channel!Next


(***************************************************************************)
(* A packet goes from hand to queue: nothing for the channel.              *)
(***************************************************************************)
LEMMA KeepStep ==
    ASSUME TypeInv, ChannelInv, NEW a \in AP, Keep(a), UNCHANGED count
    PROVE  ChannelInv' /\ UNCHANGED <<Pending, out>>
  <1>0. QueueTypeOK /\ QueueInv
    BY DEF TypeInv, QueueInv
  <1>1. PICK p \in Packet : p = queue0[a].pkt
    BY <1>0, KeepTypes
  <1>2. /\ queue0[a].pc = "keep"
        /\ portQueue' = [portQueue EXCEPT ![a] = @ \cup {p}]
        /\ queue0' = [queue0 EXCEPT ![a] = NoPacket]
        /\ UNCHANGED out
    BY <1>1 DEF Keep, addPortData
  <1>3. \A q : InHand(a, q) <=> q = p
    BY <1>0, <1>1, <1>2, HandType DEF InHand
  <1>4. \A q : ~InHand(a, q)'
    BY <1>0, <1>2 DEF InHand, QueueTypeOK
  <1>5. \A b \in AP : \A q : b # a => (InHand(b, q)' <=> InHand(b, q))
    BY <1>0, <1>2 DEF InHand, QueueTypeOK
  <1>6. /\ portQueue'[a] = portQueue[a] \cup {p}
        /\ \A b \in AP : b # a => portQueue'[b] = portQueue[b]
    BY <1>0, <1>2 DEF QueueTypeOK
  <1>7. Pending' = Pending
    <2>1. \A q : q \in Pending' <=> q \in Pending
      BY <1>3, <1>4, <1>5, <1>6, PendingIs, PendingIsNext
    <2> QED  BY <2>1
  <1>8. Apart'
    <2>1. \A b \in AP : p \notin portQueue[b] /\ (b # a => ~InHand(b, p))
      BY <1>1, <1>3 DEF ChannelInv, Apart
    <2>2. \A b, c \in AP : \A q \in portQueue'[b] : q \in portQueue'[c] => b = c
      BY <1>6, <2>1 DEF ChannelInv, Apart
    <2>3. \A b, c \in AP : \A q \in portQueue'[b] : ~InHand(c, q)'
      BY <1>4, <1>5, <1>6, <2>1 DEF ChannelInv, Apart
    <2>4. \A b, c \in AP : \A q \in Packet : InHand(b, q)' /\ InHand(c, q)' => b = c
      BY <1>4, <1>5 DEF ChannelInv, Apart
    <2> QED  BY <2>2, <2>3, <2>4 DEF Apart
  <1>9. Counted' /\ Gone'
    BY <1>2, <1>7 DEF ChannelInv, Counted, Gone, Sooner
  <1> QED  BY <1>2, <1>7, <1>8, <1>9 DEF ChannelInv

(***************************************************************************)
(* A packet leaves at once.                                                *)
(***************************************************************************)
LEMMA AcceptStep ==
    ASSUME TypeInv, ChannelInv, NEW a \in AP, Accept(a), UNCHANGED count
    PROVE  ChannelInv' /\ Channel!Next
  <1>0. QueueTypeOK /\ QueueInv
    BY DEF TypeInv, QueueInv
  <1>1. PICK p \in Packet : p = queue0[a].pkt
    BY <1>0, AcceptTypes
  <1>2. PICK v : v = [pkt |-> p, ap |-> a, port |-> entryList[a][p.flow]]
    OBVIOUS
  <1>3. /\ queue0[a].pc = "accept"
        /\ out' = out \cup {v}
        /\ queue0' = [queue0 EXCEPT ![a] = NoPacket]
        /\ UNCHANGED portQueue
    BY <1>1, <1>2 DEF Accept
  <1>4. \A q : InHand(a, q) <=> q = p
    BY <1>0, <1>1, <1>3, HandType DEF InHand
  <1>5. \A q : ~InHand(a, q)'
    BY <1>0, <1>3 DEF InHand, QueueTypeOK
  <1>6. \A b \in AP : \A q : b # a => (InHand(b, q)' <=> InHand(b, q))
    BY <1>0, <1>3 DEF InHand, QueueTypeOK
  <1>7. \A b \in AP : p \notin portQueue[b] /\ (b # a => ~InHand(b, p))
    BY <1>1, <1>4 DEF ChannelInv, Apart
  <1>8. Pending' = Pending \ {p} /\ p \in Pending
    <2>1. \A q : q \in Pending' <=> q \in Pending /\ q # p
      BY <1>3, <1>4, <1>5, <1>6, <1>7, PendingIs, PendingIsNext
    <2>2. p \in Pending
      BY <1>4, PendingIs
    <2> QED  BY <2>1, <2>2
  <1>9. v.pkt = p /\ v \notin out
    BY <1>2, <1>8 DEF ChannelInv, Gone
  <1>10. Apart'
    <2>1. \A b, c \in AP : \A q \in portQueue'[b] : ~InHand(c, q)'
      BY <1>3, <1>5, <1>6 DEF ChannelInv, Apart
    <2>2. \A b, c \in AP : \A q \in Packet : InHand(b, q)' /\ InHand(c, q)' => b = c
      BY <1>5, <1>6 DEF ChannelInv, Apart
    <2> QED  BY <1>3, <2>1, <2>2 DEF ChannelInv, Apart
  <1>11. Counted'
    BY <1>3, <1>8, <1>9 DEF ChannelInv, Counted, Sooner
  <1>12. Gone'
    BY <1>3, <1>8, <1>9 DEF ChannelInv, Gone
  <1>13. Channel!Leave(Pending \ Pending')
    <2>1. Pending \ Pending' = {p} /\ out' \ out = {v}
      BY <1>3, <1>8, <1>9
    <2>2. {w.pkt : w \in {v}} = {p}
      BY <1>9
    <2> QED  BY <1>3, <1>8, <2>1, <2>2 DEF Channel!Leave
  <1> QED  BY <1>10, <1>11, <1>12, <1>13 DEF ChannelInv, Channel!Next

(***************************************************************************)
(* reinject_pkt: all kept packets of a flow leave together.                *)
(***************************************************************************)
LEMMA ReinjectStep ==
    ASSUME TypeInv, ChannelInv, NEW a \in AP, NEW f \in Flow, reinject_pkt(a, f),
           UNCHANGED count
    PROVE  ChannelInv' /\ (Channel!Next \/ UNCHANGED <<Pending, out>>)
  <1>0. QueueTypeOK /\ QueueInv
    BY DEF TypeInv, QueueInv
  <1>1. PICK K \in SUBSET Packet : K = KeptOf(a, f)
    BY <1>0, ReinjectTypes
  <1>2. PICK port : port = entryList[a][f]
    OBVIOUS
  <1>3. PICK W : W = {[pkt |-> p, ap |-> a, port |-> port] : p \in K}
    OBVIOUS
  <1>4. /\ out' = out \cup W
        /\ portQueue' = [portQueue EXCEPT ![a] = @ \ K]
        /\ UNCHANGED queue0
    BY <1>1, <1>2, <1>3 DEF reinject_pkt
  <1>5. /\ K \subseteq portQueue[a]
        /\ portQueue'[a] = portQueue[a] \ K
        /\ \A b \in AP : b # a => portQueue'[b] = portQueue[b]
    BY <1>0, <1>1, <1>4 DEF QueueTypeOK, KeptOf
  <1>6. \A b \in AP : \A q : InHand(b, q)' <=> InHand(b, q)
    BY <1>4 DEF InHand
  <1>7. \A q \in K : \A b \in AP : ~InHand(b, q) /\ (b # a => q \notin portQueue[b])
    BY <1>5 DEF ChannelInv, Apart
  <1>8. Pending' = Pending \ K /\ K \subseteq Pending
    <2>1. \A q : q \in Pending' <=> q \in Pending /\ q \notin K
      BY <1>5, <1>6, <1>7, PendingIs, PendingIsNext
    <2>2. K \subseteq Pending
      BY <1>5, PendingIs
    <2> QED  BY <2>1, <2>2
  <1>9. \A w \in W : w.pkt \in K /\ w = [pkt |-> w.pkt, ap |-> a, port |-> port]
    BY <1>3
  <1>10. \A w \in W : w \notin out
    BY <1>8, <1>9 DEF ChannelInv, Gone
  <1>11. Apart'
    <2>1. \A b \in AP : portQueue'[b] \subseteq portQueue[b]
      BY <1>5
    <2> QED  BY <1>6, <2>1 DEF ChannelInv, Apart
  <1>12. Counted'
    BY <1>4, <1>8, <1>9 DEF ChannelInv, Counted, Sooner
  <1>13. Gone'
    BY <1>4, <1>8, <1>9 DEF ChannelInv, Gone
  <1>14. CASE K = {}
    <2>1. W = {}
      BY <1>3, <1>14
    <2>2. UNCHANGED <<Pending, out>>
      BY <1>4, <1>8, <1>14, <2>1
    <2> QED  BY <1>11, <1>12, <1>13, <2>2 DEF ChannelInv
  <1>15. CASE K # {}
    <2>1. Pending \ Pending' = K /\ out' \ out = W
      BY <1>4, <1>8, <1>10
    <2>2. {w.pkt : w \in W} = K
      <3>1. ASSUME NEW q \in K PROVE q \in {w.pkt : w \in W}
        <4>1. [pkt |-> q, ap |-> a, port |-> port] \in W
          BY <1>3
        <4>2. [pkt |-> q, ap |-> a, port |-> port].pkt = q
          OBVIOUS
        <4> QED  BY <4>1, <4>2
      <3>2. {w.pkt : w \in W} \subseteq K
        BY <1>9
      <3> QED  BY <3>1, <3>2
    <2>3. \A u, w \in W : u.pkt = w.pkt => u = w
      BY <1>9
    <2>4. Channel!Leave(Pending \ Pending')
      BY <1>4, <1>8, <1>15, <2>1, <2>2, <2>3 DEF Channel!Leave
    <2> QED  BY <1>11, <1>12, <1>13, <2>4 DEF ChannelInv, Channel!Next
  <1> QED  BY <1>14, <1>15

LEMMA ChannelStep ==
    TypeInv /\ ChannelInv /\ [Next]_vars =>
       ChannelInv' /\ [Channel!Next]_<<Pending, out>>
  <1> SUFFICES ASSUME TypeInv, ChannelInv, [Next]_vars
               PROVE  ChannelInv' /\ (Channel!Next \/ UNCHANGED <<Pending, out>>)
    OBVIOUS
  <1>0. ASSUME UNCHANGED <<portQueue, queue0, out, count>>
        PROVE  ChannelInv' /\ UNCHANGED <<Pending, out>>
    <2>1. Pending' = Pending
      BY <1>0 DEF Pending
    <2> QED  BY <1>0, <2>1 DEF ChannelInv, Apart, InHand, Counted, Gone, Sooner
  <1>1. ASSUME NEW a \in AP, HandlePortTranslation(a) \/ HandleAPRSSI(a)
        PROVE  UNCHANGED <<portQueue, queue0, out, count>>
    BY <1>1 DEF HandlePortTranslation, HandleAPRSSI, queueVars, envVars
  <1>2. ASSUME NEW a \in AP, HandlePkt(a)
        PROVE  ChannelInv' /\ (Channel!Next \/ UNCHANGED <<Pending, out>>)
    <2>1. UNCHANGED count /\ (Accept(a) \/ Keep(a))
      BY <1>2 DEF HandlePkt, envVars
    <2> QED  BY <2>1, AcceptStep, KeepStep
  <1>3. ASSUME NEW a \in AP, HandleVendor(a) \/ ConnOpen(a) \/ Cut(a)
        PROVE  UNCHANGED <<portQueue, queue0, out, count>>
    BY <1>3 DEF HandleVendor, addEntry, SetPort, UPDATE_STA_ADD, ConnOpen, Cut,
                queueVars, envVars
  <1>4. ASSUME NEW a \in AP, NEW f \in Flow, SendNatPortEntry(a, f)
        PROVE  UNCHANGED <<portQueue, queue0, out, count>>
    BY <1>4 DEF SendNatPortEntry, send_nat_port_entry, envVars
  <1>5. ASSUME NEW a \in AP, NEW f \in Flow, ReinjectPkt(a, f)
        PROVE  ChannelInv' /\ (Channel!Next \/ UNCHANGED <<Pending, out>>)
    BY <1>5, ReinjectStep DEF ReinjectPkt, envVars
  <1>6. ASSUME NEW w \in out, GwHandlePkt(w)
        PROVE  UNCHANGED <<portQueue, queue0, out, count>>
    BY <1>6 DEF GwHandlePkt, queueVars, envVars
  <1>7. ASSUME NEW f \in Flow, Send(f) PROVE ChannelInv' /\ Channel!Next
    BY <1>7, ArriveStep
  <1>8. ASSUME NEW s \in STA, NEW b \in AP, Decide(s, b)
        PROVE  UNCHANGED <<portQueue, queue0, out, count>>
    BY <1>8 DEF Decide, queueVars
  <1>9. ASSUME GwHandleVendor \/ GW_CONNECT \/ RemovedGateway
        PROVE  UNCHANGED <<portQueue, queue0, out, count>>
    BY <1>9 DEF GwHandleVendor, GW_CONNECT, RemovedGateway, queueVars, envVars
  <1>10. ASSUME UNCHANGED vars PROVE UNCHANGED <<portQueue, queue0, out, count>>
    BY <1>10 DEF vars, queueVars, envVars
  <1> QED
    BY <1>0, <1>1, <1>2, <1>3, <1>4, <1>5, <1>6, <1>7, <1>8, <1>9, <1>10 DEF Next

LEMMA ChannelInit == Init => ChannelInv /\ Channel!Init
  <1> SUFFICES ASSUME Init PROVE ChannelInv /\ Channel!Init
    OBVIOUS
  <1>1. \A a \in AP : portQueue[a] = {} /\ queue0[a] = NoPacket
    BY DEF Init, QueueInit
  <1>2. \A a \in AP : \A p : ~InHand(a, p)
    BY <1>1 DEF InHand
  <1>3. Pending = {}
    BY <1>1, <1>2, PendingIs
  <1>4. out = {}
    BY DEF Init, QueueInit
  <1> QED  BY <1>1, <1>2, <1>3, <1>4 DEF ChannelInv, Apart, Counted, Gone, Channel!Init

(***************************************************************************)
(* The access points implement NatChannel, for every number of them: the   *)
(* queue, handle_pkt and reinject_pkt together lose no packet and send     *)
(* none twice, across handovers, failures and overlapping threads.         *)
(***************************************************************************)
THEOREM ChannelImplemented == Spec => ImplementsChannel
  <1>1. TypeInv /\ ChannelInv /\ [Next]_vars => (TypeInv /\ ChannelInv)'
    BY TypeStep, ChannelStep
  <1>2. TypeInv /\ ChannelInv /\ [Next]_vars => [Channel!Next]_<<Pending, out>>
    BY ChannelStep
  <1> QED
    BY <1>1, <1>2, InvInit, ChannelInit, PTL DEF Spec, ImplementsChannel, Channel!Spec

=============================================================================
