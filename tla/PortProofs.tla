----------------------------- MODULE PortProofs -----------------------------
(***************************************************************************)
(* Proofs about the ports of NatPath, for every value of the constants:    *)
(* which ports handlePortTranslation hands out, and that packets and       *)
(* replies use no other ones.  As long as no two threads have been inside  *)
(* handlePortTranslation (overlapped is FALSE), natTable, the lists and    *)
(* portMap stay in step.                                                   *)
(***************************************************************************)
EXTENDS NatPathProofs, FiniteSetTheorems

-----------------------------------------------------------------------------

(***************************************************************************)
(* The k-th port handed out for a target, up to the last that differs from *)
(* the ones before: the count starts over at 0 after the largest port.     *)
(***************************************************************************)
Off(k) == IF DefaultPort + k < PortCount THEN DefaultPort + k
                                         ELSE DefaultPort + k - PortCount

LEMMA OffType ==
    ASSUME NEW k \in 0 .. PortCount
    PROVE  Off(k) \in Port /\ Off(k) # None
  <1>1. Off(k) \in Port
    BY PortAssumption DEF Off, Port
  <1> QED  BY <1>1, NoneAssumption

LEMMA OffNext ==
    /\ Off(1) = Increment(DefaultPort)
    /\ \A k \in 1 .. PortCount - 1 : Off(k + 1) = Increment(Off(k))
  <1>1. \A x \in Port : Increment(x) = IF x + 1 < PortCount THEN x + 1 ELSE 0
    BY PortAssumption DEF Increment, Port
  <1>2. Off(1) = Increment(DefaultPort)
    BY <1>1, PortAssumption DEF Off, Port
  <1>3. ASSUME NEW k \in 1 .. PortCount - 1 PROVE Off(k + 1) = Increment(Off(k))
    <2>1. Off(k) \in Port
      BY OffType, PortAssumption
    <2> QED  BY <1>1, <2>1, PortAssumption DEF Off, Port
  <1> QED  BY <1>2, <1>3

LEMMA OffDistinct ==
    ASSUME NEW i \in 1 .. PortCount, NEW j \in 1 .. PortCount, Off(i) = Off(j)
    PROVE  i = j
  BY PortAssumption DEF Off, Port

(***************************************************************************)
(* The entries E of a target have drawn their ports up to p: one after the *)
(* other, and thus different ones as long as there are enough.             *)
(***************************************************************************)
Drawn(E, p) ==
    /\ IsFiniteSet(E)
    /\ Cardinality(E) <= PortCount =>
         /\ p = IF Cardinality(E) = 0 THEN None ELSE Off(Cardinality(E))
         /\ \A e \in E : \E i \in 1 .. Cardinality(E) : e.newPort = Off(i)
         /\ \A d, e \in E : d.newPort = e.newPort => d = e

LEMMA OneMore ==
    ASSUME NEW E, NEW p, Drawn(E, p), NEW e, e \notin E,
           e.newPort = Increment(IF p = None THEN DefaultPort ELSE p)
    PROVE  Drawn(E \cup {e}, e.newPort)
  <1> DEFINE n == Cardinality(E)
  <1>1. IsFiniteSet(E) /\ n \in Nat
    BY FS_CardinalityType DEF Drawn
  <1>2. IsFiniteSet(E \cup {e}) /\ Cardinality(E \cup {e}) = n + 1
    BY <1>1, FS_AddElement
  <1> HIDE DEF n
  <1> SUFFICES ASSUME n + 1 <= PortCount
               PROVE  /\ e.newPort = Off(n + 1)
                      /\ \A d \in E : \E i \in 1 .. n : d.newPort = Off(i)
                      /\ \A d, g \in E \cup {e} : d.newPort = g.newPort => d = g
    <2>1. n + 1 # 0 /\ n + 1 \in 1 .. n + 1 /\ \A i \in 1 .. n : i \in 1 .. n + 1
      BY <1>1
    <2> QED  BY <1>2, <2>1 DEF Drawn
  <1>3. n <= PortCount
    BY <1>1, PortAssumption
  <1>4. /\ p = IF n = 0 THEN None ELSE Off(n)
        /\ \A d \in E : \E i \in 1 .. n : d.newPort = Off(i)
        /\ \A d, g \in E : d.newPort = g.newPort => d = g
    BY <1>3 DEF Drawn, n
  <1>5. e.newPort = Off(n + 1)
    <2>1. CASE n = 0
      BY <1>4, <2>1, OffNext
    <2>2. CASE n # 0
      <3>1. n \in 0 .. PortCount /\ n \in 1 .. PortCount - 1
        BY <1>1, <2>2, PortAssumption
      <3>2. Off(n) # None
        BY <3>1, OffType
      <3> QED  BY <1>4, <2>2, <3>1, <3>2, OffNext
    <2> QED  BY <2>1, <2>2
  <1>6. \A d \in E : d.newPort # e.newPort
    <2> SUFFICES ASSUME NEW d \in E, d.newPort = e.newPort PROVE FALSE
      OBVIOUS
    <2>1. PICK i \in 1 .. n : d.newPort = Off(i)
      BY <1>4
    <2>2. i \in 1 .. PortCount /\ n + 1 \in 1 .. PortCount /\ i # n + 1
      BY <1>1, <1>3, PortAssumption
    <2> QED  BY <1>5, <2>1, <2>2, OffDistinct
  <1> QED  BY <1>4, <1>5, <1>6

-----------------------------------------------------------------------------

(***************************************************************************)
(* The entries for the target of f.                                        *)
(***************************************************************************)
EntriesTo(f) == {e \in Entries : SameTarget(e.flow, f)}

(***************************************************************************)
(* A station has one list, the one that natTable knows.                    *)
(***************************************************************************)
OneList ==
    \A s \in STA, a \in AP : \A i \in 1 .. Len(entries[s][a]) :
       natTable[s] = a /\ entries[s][a][i].flow.sta = s

OneTranslates ==
    \A a, b \in AP :
       worker[a].pc \in Translating /\ worker[b].pc \in Translating => a = b

(***************************************************************************)
(* What the thread in handlePortTranslation may rely on: the list it found *)
(* is still the list of the station, after its search the flow has no      *)
(* entry, and the port it has read is still the next one.                  *)
(***************************************************************************)
Knows(a) ==
    /\ worker[a].pc = "search" =>
         /\ natTable[worker[a].sta] = worker[a].list
         /\ worker[a].len = Len(entries[worker[a].sta][worker[a].list])
    /\ worker[a].pc = "put" =>
         natTable[worker[a].sta] = None /\ worker[a].list = a
    /\ worker[a].pc \in {"port", "store"} =>
         /\ natTable[worker[a].sta] = worker[a].list
         /\ \A e \in Entries : e.flow # worker[a].flow
    /\ worker[a].pc = "store" => worker[a].port = nextPort(worker[a].flow)

(***************************************************************************)
(* portMap holds the last port drawn for every target.                     *)
(***************************************************************************)
Counts == \A f \in Flow : Drawn(EntriesTo(f), portMap[f])

OneEntry == \A d, e \in Entries : d.flow = e.flow => d = e

InStep ==
    /\ OneTranslates
    /\ OneList
    /\ \A a \in AP : Knows(a)
    /\ Counts
    /\ OneEntry

PortsInv == ~overlapped => InStep

(***************************************************************************)
(* An entry, and where it is.                                              *)
(***************************************************************************)
AllOf(lists) ==
    UNION {{lists[s][b][i] : i \in 1 .. Len(lists[s][b])} : s \in STA, b \in AP}

LEMMA ListsHold ==
    ASSUME NEW lists, NEW e
    PROVE  e \in AllOf(lists) <=>
             \E s \in STA, b \in AP : \E i \in 1 .. Len(lists[s][b]) :
                e = lists[s][b][i]
  <1> DEFINE In(s, b) == {lists[s][b][i] : i \in 1 .. Len(lists[s][b])}
  <1>1. \A s, b : e \in In(s, b) <=> \E i \in 1 .. Len(lists[s][b]) : e = lists[s][b][i]
    OBVIOUS
  <1> HIDE DEF In
  <1>2. e \in UNION {In(s, b) : s \in STA, b \in AP} <=>
          \E s \in STA, b \in AP : e \in In(s, b)
    OBVIOUS
  <1>3. e \in UNION {In(s, b) : s \in STA, b \in AP} <=>
          \E s \in STA, b \in AP : \E i \in 1 .. Len(lists[s][b]) : e = lists[s][b][i]
    BY <1>1, <1>2
  <1> QED  BY <1>3 DEF In, AllOf

LEMMA EntryPlace ==
    ASSUME NEW e
    PROVE  e \in Entries <=>
             \E s \in STA, b \in AP : \E i \in 1 .. Len(entries[s][b]) :
                e = entries[s][b][i]
  <1>1. PICK lists : lists = entries
    OBVIOUS
  <1>2. Entries = AllOf(lists)
    BY <1>1 DEF Entries, AllOf
  <1>3. e \in Entries <=>
          \E s \in STA, b \in AP : \E i \in 1 .. Len(lists[s][b]) : e = lists[s][b][i]
    BY <1>2, ListsHold
  <1> QED  BY <1>1, <1>3

LEMMA NextEntryPlace ==
    ASSUME NEW e
    PROVE  e \in Entries' <=>
             \E s \in STA, b \in AP : \E i \in 1 .. Len(entries'[s][b]) :
                e = entries'[s][b][i]
  <1>1. PICK lists : lists = entries'
    OBVIOUS
  <1>2. Entries' = AllOf(lists)
    BY <1>1 DEF Entries, AllOf
  <1>3. e \in Entries' <=>
          \E s \in STA, b \in AP : \E i \in 1 .. Len(lists[s][b]) : e = lists[s][b][i]
    BY <1>2, ListsHold
  <1> QED  BY <1>1, <1>3

LEMMA EntryType ==
    ASSUME TransTypeOK, NEW e \in Entries
    PROVE  e \in NATMap /\ e.flow \in Flow /\ e.newPort \in Port
  <1>1. PICK s \in STA, b \in AP : \E i \in 1 .. Len(entries[s][b]) :
          e = entries[s][b][i]
    BY EntryPlace
  <1>2. PICK i \in 1 .. Len(entries[s][b]) : e = entries[s][b][i]
    BY <1>1
  <1>3. entries[s][b] \in Seq(NATMap)
    BY DEF TransTypeOK
  <1>4. e \in NATMap
    BY <1>2, <1>3
  <1> QED  BY <1>4 DEF NATMap

(***************************************************************************)
(* An entry of a station is in the list that natTable has for it.          *)
(***************************************************************************)
LEMMA EntryListed ==
    ASSUME OneList, NEW e \in Entries
    PROVE  /\ e.flow.sta \in STA /\ natTable[e.flow.sta] \in AP
           /\ \E i \in 1 .. Len(entries[e.flow.sta][natTable[e.flow.sta]]) :
                e = entries[e.flow.sta][natTable[e.flow.sta]][i]
  <1>1. PICK s \in STA, b \in AP : \E i \in 1 .. Len(entries[s][b]) :
          e = entries[s][b][i]
    BY EntryPlace
  <1>2. PICK i \in 1 .. Len(entries[s][b]) : e = entries[s][b][i]
    BY <1>1
  <1>3. natTable[s] = b /\ e.flow.sta = s
    BY <1>2 DEF OneList
  <1> QED  BY <1>2, <1>3

(***************************************************************************)
(* A step that changes one worker, and none of the tables.                 *)
(***************************************************************************)
LEMMA WorkerInStep ==
    ASSUME TransTypeOK, InStep, NEW a \in AP, NEW w, Enter(a, w),
           UNCHANGED <<natTable, entries, portMap>>,
           w.pc \in Translating =>
             \A b \in AP \ {a} : worker[b].pc \notin Translating,
           Knows(a)'
    PROVE  InStep'
  <1>1. worker'[a] = w /\ \A b \in AP \ {a} : worker'[b] = worker[b]
    BY DEF Enter, TransTypeOK
  <1>2. OneTranslates'
    BY <1>1 DEF InStep, OneTranslates
  <1>3. OneList'
    BY DEF InStep, OneList
  <1>4. Entries' = Entries /\ \A f : nextPort(f)' = nextPort(f)
    BY DEF Entries, nextPort
  <1>5. ASSUME NEW b \in AP \ {a} PROVE Knows(b)'
    <2>1. Knows(b) /\ worker'[b] = worker[b]
      BY <1>1 DEF InStep
    <2> QED  BY <1>4, <2>1 DEF Knows
  <1>6. Counts'
    BY <1>4 DEF InStep, Counts, EntriesTo
  <1>7. OneEntry'
    BY <1>4 DEF InStep, OneEntry
  <1> QED  BY <1>2, <1>3, <1>5, <1>6, <1>7 DEF InStep

(***************************************************************************)
(* A thread that leaves handlePortTranslation, or never was in it.         *)
(***************************************************************************)
LEMMA LeavesInStep ==
    ASSUME TransTypeOK, InStep, NEW a \in AP, NEW w, Enter(a, w),
           UNCHANGED <<natTable, entries, portMap>>, w.pc \notin Translating
    PROVE  InStep'
  <1>1. worker'[a] = w
    BY DEF Enter, TransTypeOK
  <1>2. Knows(a)'
    BY <1>1 DEF Knows, Translating
  <1> QED  BY <1>2, WorkerInStep

LEMMA GetInStep ==
    ASSUME TypeInv, InStep, NEW a \in AP, Get(a), ~overlapped'
    PROVE  InStep'
  <1>1. TransTypeOK /\ WireTypeOK
    BY DEF TypeInv, TransInv
  <1>2. \A b \in AP : worker[b].pc \notin Translating
    BY DEF Get
  <1>3. PICK f : f = Head(natUp[a])
    OBVIOUS
  <1>4. f \in Flow
    BY <1>1, <1>3 DEF Get, WireTypeOK
  <1>5. f.sta \in STA /\ natTable[f.sta] \in AP \cup {None}
    BY <1>1, <1>4, FlowParts DEF TransTypeOK
  <1>6. UNCHANGED <<natTable, entries, portMap>>
    BY DEF Get
  <1>7. CASE natTable[f.sta] = None
    <2>1. Enter(a, NewWorker("put", f, f.sta, a, None))
      BY <1>3, <1>7 DEF Get
    <2>2. worker'[a] = NewWorker("put", f, f.sta, a, None)
      BY <1>1, <2>1 DEF Enter, TransTypeOK
    <2>3. worker'[a].pc = "put" /\ worker'[a].sta = f.sta /\ worker'[a].list = a
      BY <2>2 DEF NewWorker
    <2>4. Knows(a)'
      BY <1>6, <1>7, <2>3 DEF Knows
    <2> QED  BY <1>1, <1>2, <1>6, <2>1, <2>4, WorkerInStep
  <1>8. CASE natTable[f.sta] # None
    <2>1. PICK b \in AP : b = natTable[f.sta] /\ b # None
      BY <1>5, <1>8
    <2>2. Enter(a, NewWorker("search", f, f.sta, b, None))
      BY <1>3, <1>8, <2>1 DEF Get
    <2>3. worker'[a] = NewWorker("search", f, f.sta, b, None)
      BY <1>1, <2>2 DEF Enter, TransTypeOK
    <2>4. /\ worker'[a].pc = "search" /\ worker'[a].sta = f.sta /\ worker'[a].list = b
          /\ worker'[a].len = Len(entries[f.sta][b])
      BY <2>1, <2>3 DEF NewWorker
    <2>5. Knows(a)'
      BY <1>6, <2>1, <2>4 DEF Knows
    <2> QED  BY <1>1, <1>2, <1>6, <2>2, <2>5, WorkerInStep
  <1> QED  BY <1>7, <1>8

(***************************************************************************)
(* A complete search that finds nothing: the flow has no entry at all.     *)
(***************************************************************************)
LEMMA NotFoundInStep ==
    ASSUME TypeInv, InStep, NEW a \in AP, NotFound(a)
    PROVE  InStep'
  <1>1. TransTypeOK /\ TransInv /\ Busy(a) /\ Knows(a) /\ OneList /\ OneTranslates
    BY DEF TypeInv, TransInv, InStep
  <1>2. worker[a].pc = "search" /\ worker[a].pc \in Translating
    BY DEF NotFound, Translating
  <1>3. /\ worker[a].flow \in Flow /\ worker[a].sta = worker[a].flow.sta
        /\ worker[a].list \in AP
        /\ natTable[worker[a].sta] = worker[a].list
    BY <1>1, <1>2 DEF Busy, Fit, Knows
  <1>4. \A k \in 1 .. Len(List(a)) : List(a)[k].flow # worker[a].flow
    BY DEF NotFound, Matches, Modified
  <1>5. \A e \in Entries : e.flow # worker[a].flow
    <2> SUFFICES ASSUME NEW e \in Entries, e.flow = worker[a].flow PROVE FALSE
      OBVIOUS
    <2> QED  BY SMTT(30), <1>1, <1>3, <1>4, EntryListed DEF List
  <1>6. worker'[a] = Proceed(a, "port", 0)
    BY <1>1 DEF NotFound, Enter, TransTypeOK
  <1>7. /\ worker'[a].pc = "port" /\ worker'[a].flow = worker[a].flow
        /\ worker'[a].sta = worker[a].sta /\ worker'[a].list = worker[a].list
    BY <1>6 DEF Proceed
  <1>8. UNCHANGED <<natTable, entries, portMap>> /\ Entries' = Entries
    BY DEF NotFound, Entries
  <1>9. Knows(a)'
    BY <1>3, <1>5, <1>7, <1>8 DEF Knows
  <1> QED
    BY <1>1, <1>2, <1>8, <1>9, WorkerInStep DEF NotFound, OneTranslates

LEMMA ReadPortInStep ==
    ASSUME TypeInv, InStep, NEW a \in AP, ReadPort(a)
    PROVE  InStep'
  <1>1. TransTypeOK /\ TransInv /\ Knows(a) /\ OneTranslates
    BY DEF TypeInv, TransInv, InStep
  <1>2. worker[a].pc = "port" /\ worker[a].pc \in Translating
    BY DEF ReadPort, Translating
  <1>3. worker'[a] = Proceed(a, "store", nextPort(worker[a].flow))
    BY <1>1 DEF ReadPort, Enter, TransTypeOK
  <1>4. /\ worker'[a].pc = "store" /\ worker'[a].flow = worker[a].flow
        /\ worker'[a].sta = worker[a].sta /\ worker'[a].list = worker[a].list
        /\ worker'[a].port = nextPort(worker[a].flow)
    BY <1>3 DEF Proceed
  <1>5. UNCHANGED <<natTable, entries, portMap>>
    BY DEF ReadPort
  <1>6. Entries' = Entries
    BY <1>5 DEF Entries
  <1>7. Knows(a)'
    BY <1>1, <1>2, <1>4, <1>5, <1>6 DEF Knows, nextPort
  <1> QED
    BY <1>1, <1>2, <1>5, <1>7, WorkerInStep DEF ReadPort, OneTranslates

(***************************************************************************)
(* A new list: the station had none, and so no entry.                      *)
(***************************************************************************)
LEMMA PutInStep ==
    ASSUME TypeInv, InStep, NEW a \in AP, Put(a)
    PROVE  InStep'
  <1>1. TransTypeOK /\ TransInv /\ Busy(a) /\ Knows(a) /\ OneList /\ OneTranslates
    BY DEF TypeInv, TransInv, InStep
  <1>2. worker[a].pc = "put" /\ worker[a].pc \in Translating
    BY DEF Put, Translating
  <1>3. PICK s : s = worker[a].sta
    OBVIOUS
  <1>4. /\ worker[a].flow \in Flow /\ s = worker[a].flow.sta /\ s \in STA
        /\ natTable[s] = None /\ worker[a].list = a
    BY <1>1, <1>2, <1>3, FlowParts DEF Busy, Fit, Knows
  <1>5. \A e \in Entries : e.flow.sta # s
    BY <1>1, <1>4, EntryListed, NoneAssumption
  <1>6. worker'[a] = Proceed(a, "port", 0) /\ \A b \in AP \ {a} : worker'[b] = worker[b]
    BY <1>1 DEF Put, Enter, TransTypeOK
  <1>7. /\ worker'[a].pc = "port" /\ worker'[a].flow = worker[a].flow
        /\ worker'[a].sta = s /\ worker'[a].list = a
    <2>1. s = worker[a].sta /\ worker[a].list = a
      BY <1>3, <1>4
    <2> QED  BY <1>6, <2>1 DEF Proceed
  <1>8. /\ UNCHANGED <<entries, portMap>> /\ Entries' = Entries
        /\ natTable' = [natTable EXCEPT ![s] = a]
    BY <1>3 DEF Put, Entries
  <1>9. natTable'[s] = a /\ \A r \in STA \ {s} : natTable'[r] = natTable[r]
    BY <1>1, <1>4, <1>8 DEF TransTypeOK
  <1>10. Knows(a)'
    BY <1>4, <1>5, <1>7, <1>8, <1>9 DEF Knows
  <1>11. \A b \in AP \ {a} : worker[b].pc \notin Translating
    BY <1>1, <1>2 DEF OneTranslates
  <1>12. \A b \in AP \ {a} : Knows(b)'
    BY <1>6, <1>11 DEF Knows, Translating
  <1>13. OneTranslates'
    BY <1>6, <1>11 DEF OneTranslates
  <1>14. OneList'
    <2> SUFFICES ASSUME NEW r \in STA, NEW b \in AP, NEW i \in 1 .. Len(entries[r][b])
                 PROVE  natTable'[r] = b /\ entries[r][b][i].flow.sta = r
      BY <1>8 DEF OneList
    <2>1. natTable[r] = b /\ entries[r][b][i].flow.sta = r
      BY <1>1 DEF OneList
    <2>2. r # s
      BY <1>4, <2>1, NoneAssumption
    <2> QED  BY <1>9, <2>1, <2>2
  <1>15. Counts' /\ OneEntry'
    BY <1>8 DEF InStep, Counts, OneEntry, EntriesTo
  <1> QED  BY <1>10, <1>12, <1>13, <1>14, <1>15 DEF InStep

(***************************************************************************)
(* Where Append puts the new entry.                                        *)
(***************************************************************************)
LEMMA AppendHas ==
    ASSUME NEW S, NEW q \in Seq(S), NEW e \in S
    PROVE  /\ Append(q, e) \in Seq(S)
           /\ Len(Append(q, e)) = Len(q) + 1
           /\ \A i \in 1 .. Len(q) : Append(q, e)[i] = q[i]
           /\ Append(q, e)[Len(q) + 1] = e
           /\ \A i \in 1 .. Len(Append(q, e)) : i \in 1 .. Len(q) \/ Append(q, e)[i] = e
  OBVIOUS

(***************************************************************************)
(* entries.add(map) adds this one entry.                                   *)
(***************************************************************************)
LEMMA StoreAdds ==
    ASSUME TransInv, NEW a \in AP, worker[a].pc = "store", entries' = Appended(a),
           NEW new, new = [flow |-> worker[a].flow, newPort |-> worker[a].port]
    PROVE  /\ Entries' = Entries \cup {new}
           /\ \A s \in STA, b \in AP : \A i \in 1 .. Len(entries'[s][b]) :
                \/ i \in 1 .. Len(entries[s][b]) /\ entries'[s][b][i] = entries[s][b][i]
                \/ s = worker[a].sta /\ b = worker[a].list /\ entries'[s][b][i] = new
  <1>1. PICK r \in STA, c \in AP : r = worker[a].sta /\ c = worker[a].list
    BY AppendedType
  <1>2. new \in NATMap
    BY AppendedType DEF NATMap
  <1>3. /\ entries \in [STA -> [AP -> Seq(NATMap)]]
        /\ \A s \in STA, b \in AP : entries[s][b] \in Seq(NATMap)
    BY DEF TransInv, TransTypeOK
  <1>4. entries' = [entries EXCEPT ![r][c] = Append(@, new)]
    BY <1>1 DEF Appended
  <1>5. /\ entries'[r][c] = Append(entries[r][c], new)
        /\ \A s \in STA, b \in AP : (s # r \/ b # c) => entries'[s][b] = entries[s][b]
    <2> DEFINE longer == Append(entries[r][c], new)
    <2>1. entries' = [entries EXCEPT ![r] = [entries[r] EXCEPT ![c] = longer]]
      BY <1>3, <1>4
    <2> HIDE DEF longer
    <2>2. /\ entries'[r] = [entries[r] EXCEPT ![c] = longer]
          /\ \A s \in STA : s # r => entries'[s] = entries[s]
      BY <1>3, <2>1
    <2>3. entries'[r][c] = longer /\ \A b \in AP : b # c => entries'[r][b] = entries[r][b]
      BY <1>3, <2>2
    <2> QED  BY <2>2, <2>3 DEF longer
  <1>6. PICK q \in Seq(NATMap) : q = entries[r][c]
    BY <1>3
  <1>7. PICK w : w = entries'[r][c]
    OBVIOUS
  <1>8. /\ Len(w) = Len(q) + 1 /\ w[Len(q) + 1] = new /\ Len(q) \in Nat
        /\ \A i \in 1 .. Len(q) : w[i] = q[i]
        /\ \A i \in 1 .. Len(w) : i \in 1 .. Len(q) \/ w[i] = new
    <2>1. w = Append(q, new)
      BY <1>5, <1>6, <1>7
    <2> QED  BY <1>2, <2>1, AppendHas, LenNat
  <1>9. ASSUME NEW s \in STA, NEW b \in AP, NEW i \in 1 .. Len(entries'[s][b])
        PROVE  \/ i \in 1 .. Len(entries[s][b]) /\ entries'[s][b][i] = entries[s][b][i]
               \/ s = r /\ b = c /\ entries'[s][b][i] = new
    <2>1. CASE s = r /\ b = c
      <3>1. i \in 1 .. Len(w)
        BY <1>7, <1>9, <2>1
      <3>2. (i \in 1 .. Len(q) /\ w[i] = q[i]) \/ w[i] = new
        BY <1>8, <3>1
      <3> QED  BY <1>6, <1>7, <2>1, <3>2
    <2>2. CASE s # r \/ b # c
      BY <1>5, <1>9, <2>2
    <2> QED  BY <2>1, <2>2
  <1>10. ASSUME NEW e PROVE e \in Entries' <=> e \in Entries \/ e = new
    <2>1. ASSUME e \in Entries' PROVE e \in Entries \/ e = new
      <3>1. PICK s \in STA, b \in AP : \E i \in 1 .. Len(entries'[s][b]) :
              e = entries'[s][b][i]
        BY <2>1, NextEntryPlace
      <3>2. PICK i \in 1 .. Len(entries'[s][b]) : e = entries'[s][b][i]
        BY <3>1
      <3> QED  BY <1>9, <3>2, EntryPlace
    <2>2. ASSUME e \in Entries PROVE e \in Entries'
      <3>1. PICK s \in STA, b \in AP : \E i \in 1 .. Len(entries[s][b]) :
              e = entries[s][b][i]
        BY <2>2, EntryPlace
      <3>2. PICK i \in 1 .. Len(entries[s][b]) : e = entries[s][b][i]
        BY <3>1
      <3>3. i \in 1 .. Len(entries'[s][b]) /\ e = entries'[s][b][i]
        BY <3>2, AppendedType
      <3> QED  BY <3>3, NextEntryPlace
    <2>3. new \in Entries'
      <3>1. Len(q) + 1 \in 1 .. Len(w) /\ w[Len(q) + 1] = new
        BY <1>8
      <3>2. \E i \in 1 .. Len(entries'[r][c]) : new = entries'[r][c][i]
        BY <1>7, <3>1
      <3> QED  BY <3>2, NextEntryPlace
    <2> QED  BY <2>1, <2>2, <2>3
  <1> QED  BY <1>1, <1>9, <1>10

(***************************************************************************)
(* The port and the entry are stored: of the target they count one more,   *)
(* of the others nothing changes.  No addition is lost, since no other     *)
(* thread is at this point.                                                *)
(***************************************************************************)
LEMMA StoreInStep ==
    ASSUME TypeInv, InStep, NEW a \in AP, Store(a)
    PROVE  /\ InStep' /\ entries' = Appended(a)
           /\ Entries' = Entries \cup
                {[flow |-> worker[a].flow, newPort |-> worker[a].port]}
  <1>1. TransTypeOK /\ TransInv /\ Busy(a) /\ Knows(a) /\ OneList /\ OneTranslates
    BY DEF TypeInv, TransInv, InStep
  <1>2. worker[a].pc = "store" /\ worker[a].pc \in Translating
    BY DEF Store, Translating
  <1>3. \A b \in AP \ {a} : worker[b].pc \notin Translating
    BY <1>1, <1>2 DEF OneTranslates
  <1>4. entries' = Appended(a)
    BY <1>3 DEF Store, AddOverlaps, Translating
  <1>5. PICK g, p, s, c : /\ g = worker[a].flow /\ p = worker[a].port
                          /\ s = worker[a].sta /\ c = worker[a].list
    OBVIOUS
  <1>6. g \in Flow /\ p \in Port /\ s = g.sta /\ s \in STA /\ c \in AP
    BY <1>1, <1>2, <1>5, AppendedType DEF Busy, Fit
  <1>7. /\ natTable[s] = c /\ p = nextPort(g)
        /\ \A e \in Entries : e.flow # g
    BY <1>1, <1>2, <1>5 DEF Knows
  <1>8. PICK new : new = [flow |-> g, newPort |-> p]
    OBVIOUS
  <1>9. /\ Entries' = Entries \cup {new}
        /\ \A r \in STA, b \in AP : \A i \in 1 .. Len(entries'[r][b]) :
             \/ i \in 1 .. Len(entries[r][b]) /\ entries'[r][b][i] = entries[r][b][i]
             \/ r = s /\ b = c /\ entries'[r][b][i] = new
    BY <1>1, <1>2, <1>4, <1>5, <1>8, StoreAdds
  <1>10. worker'[a] = IdleWorker /\ \A b \in AP \ {a} : worker'[b] = worker[b]
    BY <1>1 DEF Store, Enter, TransTypeOK
  <1>11. UNCHANGED natTable
    BY DEF Store
  <1>12. OneTranslates'
    BY <1>3, <1>10 DEF OneTranslates, IdleWorker, Translating
  <1>13. OneList'
    <2> SUFFICES ASSUME NEW r \in STA, NEW b \in AP, NEW i \in 1 .. Len(entries'[r][b])
                 PROVE  natTable[r] = b /\ entries'[r][b][i].flow.sta = r
      BY <1>11 DEF OneList
    <2>1. CASE i \in 1 .. Len(entries[r][b]) /\ entries'[r][b][i] = entries[r][b][i]
      BY <1>1, <2>1 DEF OneList
    <2>2. CASE r = s /\ b = c /\ entries'[r][b][i] = new
      BY <1>6, <1>7, <1>8, <2>2
    <2> QED  BY <1>9, <2>1, <2>2
  <1>14. \A b \in AP : Knows(b)'
    BY <1>3, <1>10 DEF Knows, IdleWorker, Translating
  <1>15. new \notin Entries /\ new.flow = g /\ new.newPort = p
    BY <1>7, <1>8
  <1>16. OneEntry'
    BY <1>7, <1>9, <1>15 DEF InStep, OneEntry
  <1>17. Counts'
    <2> SUFFICES ASSUME NEW f \in Flow PROVE Drawn(EntriesTo(f)', portMap'[f])
      BY DEF Counts
    <2>1. portMap' = [h \in Flow |-> IF SameTarget(h, g) THEN p ELSE portMap[h]]
      BY <1>5 DEF Store, PutPort
    <2>2. Drawn(EntriesTo(f), portMap[f]) /\ Drawn(EntriesTo(g), portMap[g])
      BY <1>6 DEF InStep, Counts
    <2>3. CASE SameTarget(f, g)
      <3>1. EntriesTo(f)' = EntriesTo(g) \cup {new} /\ new \notin EntriesTo(g)
        BY <1>9, <1>15, <2>3 DEF EntriesTo, SameTarget
      <3>2. new.newPort = Increment(IF portMap[g] = None THEN DefaultPort ELSE portMap[g])
        BY <1>7, <1>15 DEF nextPort
      <3>3. Drawn(EntriesTo(g) \cup {new}, new.newPort)
        BY <2>2, <3>1, <3>2, OneMore
      <3>4. portMap'[f] = new.newPort
        BY <1>15, <2>1, <2>3
      <3> QED  BY <3>1, <3>3, <3>4
    <2>4. CASE ~SameTarget(f, g)
      <3>1. EntriesTo(f)' = EntriesTo(f)
        BY <1>9, <1>15, <2>4 DEF EntriesTo, SameTarget
      <3>2. portMap'[f] = portMap[f]
        BY <2>1, <2>4
      <3> QED  BY <2>2, <3>1, <3>2
    <2> QED  BY <2>3, <2>4
  <1> QED  BY <1>4, <1>5, <1>8, <1>9, <1>12, <1>13, <1>14, <1>16, <1>17 DEF InStep

LEMMA TranslateInStep ==
    ASSUME TypeInv, PortsInv, NEW a \in AP, handlePortTranslation(a), ~overlapped'
    PROVE  InStep'
  <1>1. TransTypeOK /\ IdleWorker.pc \notin Translating
    BY DEF TypeInv, TransInv, IdleWorker, Translating
  <1>2. ~overlapped
    BY DEF handlePortTranslation, Get, Found, NotFound, SearchThrows, Put, ReadPort, Store
  <1>3. InStep
    BY <1>2 DEF PortsInv
  <1>4. CASE Get(a)
    BY <1>3, <1>4, GetInStep
  <1>5. CASE Found(a)
    BY <1>1, <1>3, <1>5, LeavesInStep DEF Found
  <1>6. CASE NotFound(a)
    BY <1>3, <1>6, NotFoundInStep
  <1>7. CASE SearchThrows(a)
    BY <1>1, <1>3, <1>7, LeavesInStep DEF SearchThrows, Throw
  <1>8. CASE Put(a)
    BY <1>3, <1>8, PutInStep
  <1>9. CASE ReadPort(a)
    BY <1>3, <1>9, ReadPortInStep
  <1>10. CASE Store(a)
    BY <1>3, <1>10, StoreInStep
  <1> QED
    BY <1>4, <1>5, <1>6, <1>7, <1>8, <1>9, <1>10 DEF handlePortTranslation

(***************************************************************************)
(* A handover takes entries along, but leaves the tables as they are.      *)
(***************************************************************************)
LEMMA HandoverFrame ==
    ASSUME NEW a \in AP, handleAPRSSI(a) \/ (\E s \in STA, b \in AP : Move(a, s, b))
    PROVE  /\ UNCHANGED <<natTable, entries, portMap, overlapped>>
           /\ \E w : w.pc \notin Translating /\ Enter(a, w)
  <1>1. IdleWorker.pc \notin Translating
    BY DEF IdleWorker, Translating
  <1>2. CASE ToAP(a)
    <2>1. PICK w : w = IF HasList(a) /\ gwSwitch THEN Proceed(a, "toGateway", 0) ELSE IdleWorker
      OBVIOUS
    <2>2. Enter(a, w) /\ UNCHANGED <<natTable, entries, portMap, overlapped>>
      BY <1>2, <2>1 DEF ToAP
    <2>3. Proceed(a, "toGateway", 0).pc \notin Translating
      BY DEF Proceed, Translating
    <2> QED  BY <1>1, <2>1, <2>2, <2>3
  <1>3. CASE ToAPThrows(a) \/ ToGateway(a) \/ ToGatewayThrows(a)
    BY <1>1, <1>3 DEF ToAPThrows, ToGateway, ToGatewayThrows
  <1>4. CASE \E s \in STA, b \in AP : Move(a, s, b)
    <2>1. PICK s \in STA, b \in AP : Move(a, s, b)
      BY <1>4
    <2>2. NewWorker("toAP", None, s, natTable[s], b).pc \notin Translating
      BY DEF NewWorker, Translating
    <2> QED  BY <2>1, <2>2 DEF Move
  <1> QED  BY <1>2, <1>3, <1>4 DEF handleAPRSSI

LEMMA PortsSame ==
    ASSUME PortsInv, UNCHANGED transVars
    PROVE  PortsInv'
  <1> SUFFICES ASSUME ~overlapped', InStep PROVE InStep'
    BY DEF PortsInv, transVars
  <1>1. UNCHANGED <<natTable, entries, portMap, worker>> /\ Entries' = Entries
    BY DEF transVars, Entries
  <1>2. OneTranslates' /\ OneList' /\ OneEntry'
    BY <1>1 DEF InStep, OneTranslates, OneList, OneEntry
  <1>3. Counts'
    BY <1>1 DEF InStep, Counts, EntriesTo
  <1>4. \A a \in AP : Knows(a)'
    BY <1>1 DEF InStep, Knows, nextPort
  <1> QED  BY <1>2, <1>3, <1>4 DEF InStep

LEMMA PortsStep == TypeInv /\ PortsInv /\ [Next]_vars => PortsInv'
  <1> SUFFICES ASSUME TypeInv, PortsInv, [Next]_vars PROVE PortsInv'
    OBVIOUS
  <1>0. TransTypeOK /\ QueueTypeOK
    BY DEF TypeInv, TransInv, QueueInv
  <1>1. ASSUME NEW a \in AP, HandlePortTranslation(a) PROVE PortsInv'
    BY <1>1, TranslateInStep DEF HandlePortTranslation, PortsInv
  <1>2. ASSUME NEW a \in AP,
               HandleAPRSSI(a) \/ \E s \in STA, b \in AP : Decide(s, b) /\ a = at[s]
        PROVE  PortsInv'
    <2>1. handleAPRSSI(a) \/ (\E s \in STA, b \in AP : Move(a, s, b))
      BY <1>2 DEF HandleAPRSSI, Decide
    <2>2. UNCHANGED <<natTable, entries, portMap, overlapped>>
      BY <2>1, HandoverFrame
    <2>3. PICK w : w.pc \notin Translating /\ Enter(a, w)
      BY <2>1, HandoverFrame
    <2> QED  BY <1>0, <2>2, <2>3, LeavesInStep DEF PortsInv
  <1>3. ASSUME NEW s \in STA, NEW b \in AP, Decide(s, b) PROVE PortsInv'
    <2>1. at[s] \in AP
      BY <1>0 DEF QueueTypeOK
    <2> QED  BY <1>2, <1>3, <2>1
  <1>4. CASE UNCHANGED transVars
    BY <1>4, PortsSame
  <1>5. ASSUME NEW a \in AP,
               \/ HandlePkt(a) \/ HandleVendor(a) \/ ConnOpen(a) \/ Cut(a)
               \/ \E f \in Flow : SendNatPortEntry(a, f) \/ ReinjectPkt(a, f)
        PROVE  UNCHANGED transVars
    BY <1>5 DEF HandlePkt, HandleVendor, ConnOpen, Cut, SendNatPortEntry, ReinjectPkt
  <1>6. ASSUME \/ \E w \in out : GwHandlePkt(w)
               \/ GwHandleVendor \/ (\E f \in Flow : Send(f)) \/ GW_CONNECT
               \/ RemovedGateway
        PROVE  UNCHANGED transVars
    BY <1>6 DEF GwHandlePkt, GwHandleVendor, Send, GW_CONNECT, RemovedGateway
  <1>7. CASE UNCHANGED vars
    BY <1>4, <1>7 DEF vars
  <1> QED  BY <1>1, <1>2, <1>3, <1>4, <1>5, <1>6, <1>7 DEF Next

LEMMA PortsInit == Init => PortsInv
  <1> SUFFICES ASSUME Init PROVE InStep
    BY DEF PortsInv
  <1>1. /\ entries = [s \in STA |-> [a \in AP |-> <<>>]]
        /\ portMap = [f \in Flow |-> None]
        /\ worker = [a \in AP |-> IdleWorker]
    BY DEF Init, TransInit
  <1>2. \A s \in STA, a \in AP : entries[s][a] = <<>> /\ 1 .. Len(entries[s][a]) = {}
    BY <1>1
  <1>3. Entries = {}
    <2> SUFFICES ASSUME NEW e \in Entries PROVE FALSE
      OBVIOUS
    <2> QED  BY <1>2, EntryPlace
  <1>4. OneList /\ OneEntry
    BY <1>2, <1>3 DEF OneList, OneEntry
  <1>5. OneTranslates /\ \A a \in AP : Knows(a)
    BY <1>1 DEF OneTranslates, Knows, IdleWorker, Translating
  <1>6. Drawn({}, None)
    BY FS_EmptySet DEF Drawn
  <1>7. Counts
    BY <1>1, <1>3, <1>6 DEF Counts, EntriesTo
  <1> QED  BY <1>4, <1>5, <1>7 DEF InStep

LEMMA PortsAlways == Spec => []PortsInv
  BY PortsInit, PortsStep, TypeInvAlways, PTL DEF Spec

-----------------------------------------------------------------------------

(***************************************************************************)
(* The ports handed out are from the dynamic range, for every number of    *)
(* ports, as long as a target has fewer entries than that range has ports. *)
(***************************************************************************)
THEOREM FromDynamicRange == Spec => []PortsDynamic
  <1>1. TypeInv /\ PortsInv => PortsDynamic
    <2> SUFFICES ASSUME TypeInv, PortsInv, ~overlapped, NEW e \in Entries,
                        Cardinality(EntriesTo(e.flow)) < PortCount - DefaultPort
                 PROVE  e.newPort > DefaultPort
      BY DEF PortsDynamic, EntriesTo
    <2>1. e.flow \in Flow
      BY EntryType DEF TypeInv, TransInv
    <2>2. Drawn(EntriesTo(e.flow), portMap[e.flow])
      BY <2>1 DEF PortsInv, InStep, Counts
    <2>3. PICK n \in Nat : n = Cardinality(EntriesTo(e.flow))
      BY <2>2, FS_CardinalityType DEF Drawn
    <2>4. n < PortCount - DefaultPort /\ n <= PortCount
      BY <2>3, PortAssumption DEF Port
    <2>5. e \in EntriesTo(e.flow)
      BY DEF EntriesTo, SameTarget
    <2>6. PICK i \in 1 .. n : e.newPort = Off(i)
      BY <2>2, <2>3, <2>4, <2>5 DEF Drawn
    <2> QED  BY <2>4, <2>6, PortAssumption DEF Off, Port
  <1> QED  BY <1>1, TypeInvAlways, PortsAlways, PTL

(***************************************************************************)
(* There are as many ports as flows to one target.  newPort++ has no other *)
(* bound: with more flows ports come round.                                *)
(***************************************************************************)
EnoughPorts ==
    \A f \in Flow :
       /\ IsFiniteSet({g \in Flow : SameTarget(g, f)})
       /\ Cardinality({g \in Flow : SameTarget(g, f)}) <= PortCount

LEMMA EntriesFew ==
    ASSUME EnoughPorts, TypeInv, InStep, NEW f \in Flow
    PROVE  /\ Cardinality(EntriesTo(f)) <= PortCount
           /\ Cardinality(EntriesTo(f)) <= Cardinality({g \in Flow : SameTarget(g, f)})
  <1> DEFINE E == EntriesTo(f)
             G == {g \in Flow : SameTarget(g, f)}
             m == [e \in E |-> e.flow]
  <1>1. \A e \in E : e.flow \in G
    BY EntryType DEF TypeInv, TransInv, EntriesTo
  <1>2. \A d, e \in E : d.flow = e.flow => d = e
    BY DEF InStep, OneEntry, EntriesTo
  <1>3. IsFiniteSet(G) /\ Cardinality(G) <= PortCount
    BY DEF EnoughPorts
  <1>4. IsFiniteSet(E)
    BY DEF InStep, Counts, Drawn
  <1> HIDE DEF E, G
  <1>5. m \in Injection(E, G)
    BY <1>1, <1>2 DEF Injection, IsInjective
  <1>6. Cardinality(E) <= Cardinality(G)
    BY <1>3, <1>4, <1>5, FS_Injection DEF ExistsInjection
  <1>7. Cardinality(E) \in Nat /\ Cardinality(G) \in Nat
    BY <1>3, <1>4, FS_CardinalityType
  <1> QED  BY <1>3, <1>6, <1>7, PortAssumption DEF E, G

LEMMA DistinctMeans ==
    ASSUME EnoughPorts, TypeInv, PortsInv
    PROVE  PortsDistinct
  <1> SUFFICES ASSUME ~overlapped, NEW d \in Entries, NEW e \in Entries,
                      SameTarget(d.flow, e.flow)
               PROVE  d.newPort = e.newPort <=> d.flow = e.flow
    BY DEF PortsDistinct
  <1>1. InStep /\ e.flow \in Flow
    BY EntryType DEF TypeInv, TransInv, PortsInv
  <1>2. d \in EntriesTo(e.flow) /\ e \in EntriesTo(e.flow)
    BY DEF EntriesTo, SameTarget
  <1>3. d.newPort = e.newPort => d = e
    BY <1>1, <1>2, EntriesFew DEF InStep, Counts, Drawn
  <1>4. d.flow = e.flow => d = e
    BY <1>1 DEF InStep, OneEntry
  <1> QED  BY <1>3, <1>4

(***************************************************************************)
(* handlePortTranslation gives different ports to different flows to the   *)
(* same target, and to every flow one, for every number of stations,       *)
(* access points and flows, as long as there are enough ports and no two   *)
(* threads have been inside it.                                            *)
(***************************************************************************)
THEOREM DifferentPorts ==
    ASSUME EnoughPorts
    PROVE  Spec => []PortsDistinct
  BY DistinctMeans, TypeInvAlways, PortsAlways, PTL

-----------------------------------------------------------------------------

(***************************************************************************)
(* What is sent.  Every NAT_ADD in a queue q names an entry of E.          *)
(***************************************************************************)
Given(f, p) == [flow |-> f, newPort |-> p] \in Entries

Backed(q, E) ==
    \A i \in 1 .. Len(q) :
       q[i].type = "NAT_ADD" => [flow |-> q[i].flow, newPort |-> q[i].port] \in E

LEMMA BackedMore ==
    ASSUME NEW q \in Seq(DownMsg), NEW r \in Seq(DownMsg), NEW E,
           Backed(q, E), Backed(r, E)
    PROVE  Backed(q \o r, E)
  <1> SUFFICES ASSUME NEW i \in 1 .. Len(q \o r), (q \o r)[i].type = "NAT_ADD"
               PROVE  [flow |-> (q \o r)[i].flow, newPort |-> (q \o r)[i].port] \in E
    BY DEF Backed
  <1>1. Len(q) \in Nat /\ Len(r) \in Nat /\ Len(q \o r) = Len(q) + Len(r)
    OBVIOUS
  <1>2. CASE i \in 1 .. Len(q)
    <2>1. (q \o r)[i] = q[i]
      BY <1>2
    <2> QED  BY <1>2, <2>1 DEF Backed
  <1>3. CASE i \notin 1 .. Len(q)
    <2>1. i - Len(q) \in 1 .. Len(r) /\ (q \o r)[i] = r[i - Len(q)]
      BY <1>1, <1>3
    <2> QED  BY <2>1 DEF Backed
  <1> QED  BY <1>2, <1>3

LEMMA BackedLess ==
    ASSUME NEW q \in Seq(DownMsg), q # <<>>, NEW E, Backed(q, E)
    PROVE  /\ Backed(Tail(q), E)
           /\ Head(q).type = "NAT_ADD" =>
                [flow |-> Head(q).flow, newPort |-> Head(q).port] \in E
  <1>1. Len(q) \in Nat /\ Len(Tail(q)) = Len(q) - 1 /\ 1 \in 1 .. Len(q) /\ Head(q) = q[1]
    OBVIOUS
  <1>2. ASSUME NEW i \in 1 .. Len(Tail(q)) PROVE i + 1 \in 1 .. Len(q) /\ Tail(q)[i] = q[i + 1]
    BY <1>1
  <1> QED  BY <1>1, <1>2 DEF Backed

LEMMA BackedWritten ==
    ASSUME WireTypeOK, NEW a \in AP, NEW b \in AP, NEW msgs \in Seq(DownMsg), NEW E,
           Backed(natDown[b], E), Backed(msgs, E)
    PROVE  Backed(Written(a, msgs)[b], E)
  <1>1. natDown \in [AP -> Seq(DownMsg)] /\ natDown[b] \in Seq(DownMsg)
    BY DEF WireTypeOK
  <1>2. Written(a, msgs)[b] \in {natDown[b], natDown[b] \o msgs}
    BY <1>1 DEF Written
  <1> QED  BY <1>1, <1>2, BackedMore

LEMMA BackedOne ==
    ASSUME NEW E, NEW f \in Flow, NEW p \in Port, [flow |-> f, newPort |-> p] \in E
    PROVE  <<NatAdd(f, p)>> \in Seq(DownMsg) /\ Backed(<<NatAdd(f, p)>>, E)
  <1>1. NatAdd(f, p) \in DownMsg
    BY NatAddType
  <1>2. /\ NatAdd(f, p).type = "NAT_ADD" /\ NatAdd(f, p).flow = f
        /\ NatAdd(f, p).port = p
    BY DEF NatAdd
  <1>3. PICK m \in DownMsg : m = NatAdd(f, p)
    BY <1>1
  <1>4. <<m>> \in Seq(DownMsg) /\ Len(<<m>>) = 1 /\ <<m>>[1] = m
    OBVIOUS
  <1>5. Backed(<<m>>, E)
    BY <1>2, <1>3, <1>4 DEF Backed
  <1> QED  BY <1>3, <1>4, <1>5

(***************************************************************************)
(* What a thread reads from its list are entries.                          *)
(***************************************************************************)
LEMMA ListEntries ==
    ASSUME TransInv, NEW a \in AP, worker[a].pc # "idle", worker[a].list \in AP,
           NEW k \in 1 .. worker[a].len
    PROVE  /\ List(a)[k].flow \in Flow /\ List(a)[k].newPort \in Port
           /\ Given(List(a)[k].flow, List(a)[k].newPort)
  <1>1. /\ worker[a].sta \in STA /\ List(a)[k] \in NATMap
        /\ List(a)[k].flow \in Flow /\ List(a)[k].newPort \in Port
        /\ worker[a].len \in Nat /\ worker[a].len <= Len(List(a))
        /\ List(a) \in Seq(NATMap)
    BY ListType
  <1>2. k \in 1 .. Len(List(a))
    BY <1>1, LenNat
  <1>3. List(a)[k] \in Entries
    BY <1>1, <1>2, EntryPlace DEF List
  <1>4. List(a)[k] = [flow |-> List(a)[k].flow, newPort |-> List(a)[k].newPort]
    BY <1>1 DEF NATMap
  <1> QED  BY <1>1, <1>3, <1>4 DEF Given

LEMMA AddsBacked ==
    ASSUME TransInv, NEW a \in AP, worker[a].pc # "idle", worker[a].list \in AP,
           NEW k \in 0 .. worker[a].len
    PROVE  NatAdds(a, k) \in Seq(DownMsg) /\ Backed(NatAdds(a, k), Entries)
  <1>1. PICK q \in Seq(DownMsg) : q = NatAdds(a, k)
    BY NatAddsType
  <1>2. /\ Len(q) = k
        /\ \A i \in 1 .. k : q[i] = NatAdd(List(a)[i].flow, List(a)[i].newPort)
    BY <1>1, NatAddsType
  <1>3. k \in Nat /\ \A i \in 1 .. k : i \in 1 .. worker[a].len
    BY ListType
  <1>4. ASSUME NEW i \in 1 .. Len(q)
        PROVE  [flow |-> q[i].flow, newPort |-> q[i].port] \in Entries
    <2>1. i \in 1 .. k /\ i \in 1 .. worker[a].len
      BY <1>2, <1>3
    <2>2. PICK f, p : f = List(a)[i].flow /\ p = List(a)[i].newPort
      OBVIOUS
    <2>3. q[i] = NatAdd(f, p) /\ Given(f, p)
      BY <1>2, <2>1, <2>2, ListEntries
    <2>4. q[i].flow = f /\ q[i].port = p
      BY <2>3 DEF NatAdd
    <2> QED  BY <2>3, <2>4 DEF Given
  <1> QED  BY <1>1, <1>4 DEF Backed

LEMMA NewAPMsgsBacked ==
    ASSUME TransInv, NEW a \in AP, worker[a].pc = "toAP"
    PROVE  NewAPMsgs(a) \in Seq(DownMsg) /\ Backed(NewAPMsgs(a), Entries)
  <1>1. worker[a] \in Worker /\ worker[a].sta \in STA /\ worker[a].len \in Nat
    BY DEF TransInv, TransTypeOK, Busy, Fit, Moving, Worker
  <1>2. HasList(a) => worker[a].list \in AP
    BY <1>1 DEF HasList, Worker
  <1>3. PICK q : q = IF HasList(a) THEN NatAdds(a, worker[a].len) ELSE <<>>
    OBVIOUS
  <1>4. q \in Seq(DownMsg) /\ Backed(q, Entries)
    <2>1. CASE HasList(a)
      <3>1. worker[a].len \in 0 .. worker[a].len
        BY <1>1
      <3> QED  BY <1>2, <1>3, <2>1, <3>1, AddsBacked
    <2>2. CASE ~HasList(a)
      <3>1. q = <<>>
        BY <1>3, <2>2
      <3> QED  BY <3>1 DEF Backed
    <2> QED  BY <2>1, <2>2
  <1>5. PICK u \in DownMsg : u = UpdateSTAAdd(worker[a].sta)
    BY <1>1, UpdateType
  <1>6. u.type # "NAT_ADD"
    BY <1>5 DEF UpdateSTAAdd
  <1>7. <<u>> \in Seq(DownMsg) /\ Backed(<<u>>, Entries)
    BY <1>6 DEF Backed
  <1>8. NewAPMsgs(a) = q \o <<u>>
    BY <1>3, <1>5 DEF NewAPMsgs
  <1>9. q \o <<u>> \in Seq(DownMsg)
    BY <1>4, <1>7
  <1> QED  BY <1>4, <1>7, <1>8, <1>9, BackedMore

(***************************************************************************)
(* Only ports that the controller has handed out are under way to an AP or *)
(* have arrived there, save for the 0 of an entry whose port is still to   *)
(* be written.                                                             *)
(***************************************************************************)
Written0(b, f) == entryList[b][f] = 0 /\ adding[b].type = "NAT_ADD" /\ adding[b].flow = f

Handed ==
    /\ \A b \in AP : Backed(natDown[b], Entries)
    /\ \A b \in AP : adding[b].type = "NAT_ADD" => Given(adding[b].flow, adding[b].port)
    /\ \A b \in AP, f \in Flow : entryList[b][f] # None =>
         Given(f, entryList[b][f]) \/ Written0(b, f)

HandedInv == ~overlapped => Handed

(***************************************************************************)
(* A step that leaves the entries of the access points alone.              *)
(***************************************************************************)
LEMMA HandedFrame ==
    ASSUME Handed, Entries \subseteq Entries', UNCHANGED <<entryList, adding>>,
           \A b \in AP : Backed(natDown'[b], Entries')
    PROVE  Handed'
  <1>1. ASSUME NEW b \in AP, adding'[b].type = "NAT_ADD"
        PROVE  [flow |-> adding'[b].flow, newPort |-> adding'[b].port] \in Entries'
    BY <1>1 DEF Handed, Given
  <1>2. ASSUME NEW b \in AP, NEW f \in Flow, entryList'[b][f] # None
        PROVE  [flow |-> f, newPort |-> entryList'[b][f]] \in Entries' \/ Written0(b, f)'
    BY <1>2 DEF Handed, Given, Written0
  <1> QED  BY <1>1, <1>2 DEF Handed, Given

LEMMA BackedGrows ==
    ASSUME NEW q, NEW E, NEW F, Backed(q, E), E \subseteq F
    PROVE  Backed(q, F)
  BY DEF Backed

(***************************************************************************)
(* handlePortTranslation sends an entry that it has found, or the one that *)
(* it has just stored.                                                     *)
(***************************************************************************)
LEMMA TranslateHanded ==
    ASSUME TypeInv, InStep, Handed, NEW a \in AP, handlePortTranslation(a),
           UNCHANGED queueVars
    PROVE  Handed'
  <1>1. TransInv /\ TransTypeOK /\ WireTypeOK
    BY DEF TypeInv, TransInv
  <1>2. UNCHANGED <<entryList, adding>>
    BY DEF queueVars
  <1>3. \A b \in AP : Backed(natDown[b], Entries)
    BY DEF Handed
  <1>4. CASE Get(a) \/ NotFound(a) \/ Put(a) \/ ReadPort(a)
    <2>1. Entries' = Entries /\ natDown' = natDown
      BY <1>4 DEF Get, NotFound, Put, ReadPort, Entries, wireVars
    <2> QED  BY <1>2, <1>3, <2>1, HandedFrame
  <1>5. CASE Found(a)
    <2>1. Entries' = Entries
      BY <1>5 DEF Found, Entries
    <2>2. PICK k \in Matches(a) :
            natDown' = Written(a, <<NatAdd(List(a)[k].flow, List(a)[k].newPort)>>)
      BY <1>5 DEF Found
    <2>3. worker[a].pc = "search"
      BY <1>5 DEF Found
    <2>4. PICK f, p : f = List(a)[k].flow /\ p = List(a)[k].newPort
      OBVIOUS
    <2>5. f \in Flow /\ p \in Port /\ Given(f, p)
      BY <1>1, <2>3, <2>4, MatchType, ListEntries
    <2>6. PICK msgs \in Seq(DownMsg) : msgs = <<NatAdd(f, p)>> /\ Backed(msgs, Entries)
      BY <2>5, BackedOne DEF Given
    <2>7. natDown' = Written(a, msgs)
      BY <2>2, <2>4, <2>6
    <2>8. \A b \in AP : Backed(natDown'[b], Entries')
      BY <1>1, <1>3, <2>1, <2>6, <2>7, BackedWritten
    <2> QED  BY <1>2, <2>1, <2>8, HandedFrame
  <1>6. CASE SearchThrows(a)
    <2>1. Entries' = Entries /\ natDown' = [natDown EXCEPT ![a] = <<>>]
      BY <1>6 DEF SearchThrows, Throw, Close, Entries
    <2>2. \A b \in AP : natDown'[b] = natDown[b] \/ natDown'[b] = <<>>
      BY <1>1, <2>1 DEF WireTypeOK
    <2>3. Backed(<<>>, Entries)
      BY DEF Backed
    <2>4. \A b \in AP : Backed(natDown'[b], Entries')
      BY <1>3, <2>1, <2>2, <2>3
    <2> QED  BY <1>2, <2>1, <2>4, HandedFrame
  <1>7. CASE Store(a)
    <2>1. PICK f, p : f = worker[a].flow /\ p = worker[a].port
      OBVIOUS
    <2>2. f \in Flow /\ p \in Port
      BY <1>1, <1>7, <2>1, AppendedType DEF Store
    <2>3. Entries' = Entries \cup {[flow |-> f, newPort |-> p]}
      BY <1>7, <2>1, StoreInStep
    <2>4. natDown' = Written(a, <<NatAdd(f, p)>>)
      BY <1>7, <2>1 DEF Store
    <2>5. PICK msgs \in Seq(DownMsg) : msgs = <<NatAdd(f, p)>> /\ Backed(msgs, Entries')
      BY <2>2, <2>3, BackedOne
    <2>6. Entries \subseteq Entries'
      BY <2>3
    <2>7. \A b \in AP : Backed(natDown[b], Entries')
      BY <1>3, <2>6, BackedGrows
    <2>8. \A b \in AP : Backed(natDown'[b], Entries')
      BY <1>1, <2>4, <2>5, <2>7, BackedWritten
    <2> QED  BY <1>2, <2>6, <2>8, HandedFrame
  <1> QED
    BY <1>4, <1>5, <1>6, <1>7 DEF handlePortTranslation

(***************************************************************************)
(* A handover sends entries of the list.                                   *)
(***************************************************************************)
LEMMA HandoverHanded ==
    ASSUME TypeInv, Handed, NEW a \in AP, handleAPRSSI(a), UNCHANGED queueVars
    PROVE  Handed'
  <1>1. TransInv /\ TransTypeOK /\ WireTypeOK /\ worker[a] \in Worker /\ Busy(a)
    BY DEF TypeInv, TransInv, TransTypeOK
  <1>2. UNCHANGED <<entryList, adding>>
    BY DEF queueVars
  <1>3. \A b \in AP : Backed(natDown[b], Entries)
    BY DEF Handed
  <1>4. Entries' = Entries
    BY HandoverFrame DEF Entries
  <1>5. Backed(<<>>, Entries)
    BY DEF Backed
  <1>6. CASE ToAP(a)
    <2>1. worker[a].pc = "toAP" /\ worker[a].to \in AP
      BY <1>1, <1>6 DEF ToAP, Busy, Fit, Moving
    <2>2. PICK msgs \in Seq(DownMsg) : msgs = NewAPMsgs(a) /\ Backed(msgs, Entries)
      BY <1>1, <2>1, NewAPMsgsBacked
    <2>3. natDown' = Written(worker[a].to, msgs)
      BY <1>6, <2>2 DEF ToAP
    <2>4. \A b \in AP : Backed(natDown'[b], Entries')
      BY <1>1, <1>3, <1>4, <2>1, <2>2, <2>3, BackedWritten
    <2> QED  BY <1>2, <1>4, <2>4, HandedFrame
  <1>7. CASE ToAPThrows(a)
    <2>1. worker[a].pc = "toAP" /\ worker[a].to \in AP
      BY <1>1, <1>7 DEF ToAPThrows, Busy, Fit, Moving
    <2>2. worker[a].list \in AP
      BY <1>1, <1>7 DEF ToAPThrows, HasList, Worker
    <2>3. PICK k \in 0 .. worker[a].len :
            natDown' = [Written(worker[a].to, NatAdds(a, k)) EXCEPT ![a] = <<>>]
      BY <1>7 DEF ToAPThrows
    <2>4. PICK msgs \in Seq(DownMsg) : msgs = NatAdds(a, k) /\ Backed(msgs, Entries)
      BY <1>1, <2>1, <2>2, AddsBacked
    <2>5. PICK w \in [AP -> Seq(DownMsg)] : w = Written(worker[a].to, msgs)
      BY <1>1, <2>1, WrittenType
    <2>6. \A b \in AP : Backed(w[b], Entries)
      BY <1>1, <1>3, <2>1, <2>4, <2>5, BackedWritten
    <2>7. natDown' = [w EXCEPT ![a] = <<>>]
      BY <2>3, <2>4, <2>5
    <2>8. \A b \in AP : natDown'[b] = w[b] \/ natDown'[b] = <<>>
      BY <2>7
    <2>9. \A b \in AP : Backed(natDown'[b], Entries')
      BY <1>4, <1>5, <2>6, <2>8
    <2> QED  BY <1>2, <1>4, <2>9, HandedFrame
  <1>8. CASE ToGateway(a)
    <2>1. natDown' = natDown
      BY <1>8 DEF ToGateway
    <2> QED  BY <1>2, <1>3, <1>4, <2>1, HandedFrame
  <1>9. CASE ToGatewayThrows(a)
    <2>1. natDown' = [natDown EXCEPT ![a] = <<>>]
      BY <1>9 DEF ToGatewayThrows, Close
    <2>2. \A b \in AP : natDown'[b] = natDown[b] \/ natDown'[b] = <<>>
      BY <1>1, <2>1 DEF WireTypeOK
    <2>3. \A b \in AP : Backed(natDown'[b], Entries')
      BY <1>3, <1>4, <1>5, <2>2
    <2> QED  BY <1>2, <1>4, <2>3, HandedFrame
  <1> QED  BY <1>6, <1>7, <1>8, <1>9 DEF handleAPRSSI

(***************************************************************************)
(* addEntry and the write of the port.                                     *)
(***************************************************************************)
LEMMA AddEntryHanded ==
    ASSUME TypeInv, Handed, NEW a \in AP, addEntry(a), UNCHANGED transVars
    PROVE  Handed'
  <1>1. QueueInv /\ QueueTypeOK /\ WireTypeOK
    BY DEF TypeInv, QueueInv
  <1>2. PICK m : m = Head(natDown[a])
    OBVIOUS
  <1>3. /\ m \in DownMsg /\ m.type = "NAT_ADD" /\ m.flow \in Flow
        /\ natDown[a] # <<>> /\ natDown' = [natDown EXCEPT ![a] = Tail(@)]
    BY <1>1, <1>2, AddEntryTypes
  <1>4. /\ entryList' = [entryList EXCEPT ![a][m.flow] = IF @ = None THEN 0 ELSE @]
        /\ adding' = [adding EXCEPT ![a] = m]
        /\ adding[a] = NoAdd
    BY <1>2 DEF addEntry, Receiving
  <1>5. Entries' = Entries
    BY DEF transVars, Entries
  <1>6. natDown[a] \in Seq(DownMsg) /\ natDown \in [AP -> Seq(DownMsg)]
        /\ \A b \in AP : Backed(natDown[b], Entries)
    BY <1>1 DEF WireTypeOK, Handed
  <1>7. Backed(Tail(natDown[a]), Entries) /\ [flow |-> m.flow, newPort |-> m.port] \in Entries
    BY <1>2, <1>3, <1>6, BackedLess
  <1>8. \A b \in AP : Backed(natDown'[b], Entries')
    BY <1>3, <1>5, <1>6, <1>7
  <1>9. adding'[a] = m /\ \A b \in AP \ {a} : adding'[b] = adding[b]
    BY <1>1, <1>4 DEF QueueTypeOK
  <1>10. ASSUME NEW b \in AP, adding'[b].type = "NAT_ADD"
         PROVE  [flow |-> adding'[b].flow, newPort |-> adding'[b].port] \in Entries'
    BY <1>5, <1>7, <1>9, <1>10 DEF Handed, Given
  <1>11. ASSUME NEW b \in AP, NEW f \in Flow, entryList'[b][f] # None
         PROVE  [flow |-> f, newPort |-> entryList'[b][f]] \in Entries' \/ Written0(b, f)'
    <2>1. CASE b # a
      <3>1. entryList'[b][f] = entryList[b][f] /\ adding'[b] = adding[b]
        BY <1>1, <1>3, <1>4, <1>9, <2>1 DEF QueueTypeOK
      <3> QED  BY <1>5, <1>11, <3>1 DEF Handed, Given, Written0
    <2>2. CASE b = a /\ entryList[a][f] # None
      <3>1. entryList'[b][f] = entryList[b][f]
        BY <1>1, <1>3, <1>4, <2>2 DEF QueueTypeOK
      <3>2. ~Written0(b, f)
        BY <1>4, <2>2 DEF Written0, NoAdd
      <3> QED  BY <1>5, <2>2, <3>1, <3>2 DEF Handed, Given
    <2>3. CASE b = a /\ entryList[a][f] = None
      <3>1. f = m.flow /\ entryList'[b][f] = 0
        BY <1>1, <1>3, <1>4, <1>11, <2>3 DEF QueueTypeOK
      <3> QED  BY <1>3, <1>9, <2>3, <3>1 DEF Written0
    <2> QED  BY <2>1, <2>2, <2>3
  <1> QED  BY <1>8, <1>10, <1>11 DEF Handed, Given

LEMMA SetPortHanded ==
    ASSUME TypeInv, Handed, NEW a \in AP, SetPort(a), UNCHANGED transVars
    PROVE  Handed'
  <1>1. QueueInv /\ QueueTypeOK /\ WireTypeOK
    BY DEF TypeInv, QueueInv
  <1>2. PICK m : m = adding[a]
    OBVIOUS
  <1>3. m \in DownMsg /\ m.type = "NAT_ADD" /\ m.flow \in Flow /\ m.port \in Port
    BY <1>1, <1>2, SetPortTypes
  <1>4. /\ entryList' = [entryList EXCEPT ![a][m.flow] = m.port]
        /\ adding' = [adding EXCEPT ![a] = NoAdd]
        /\ natDown' = natDown
    BY <1>2 DEF SetPort, wireVars
  <1>5. Entries' = Entries
    BY DEF transVars, Entries
  <1>6. [flow |-> m.flow, newPort |-> m.port] \in Entries
    BY <1>2, <1>3 DEF Handed, Given
  <1>7. \A b \in AP : Backed(natDown'[b], Entries')
    BY <1>4, <1>5 DEF Handed
  <1>8. adding'[a] = NoAdd /\ \A b \in AP \ {a} : adding'[b] = adding[b]
    BY <1>1, <1>4 DEF QueueTypeOK
  <1>9. ASSUME NEW b \in AP, adding'[b].type = "NAT_ADD"
        PROVE  [flow |-> adding'[b].flow, newPort |-> adding'[b].port] \in Entries'
    <2>1. b # a
      BY <1>8, <1>9 DEF NoAdd
    <2> QED  BY <1>5, <1>8, <1>9, <2>1 DEF Handed, Given
  <1>10. ASSUME NEW b \in AP, NEW f \in Flow, entryList'[b][f] # None
         PROVE  [flow |-> f, newPort |-> entryList'[b][f]] \in Entries' \/ Written0(b, f)'
    <2>1. CASE b # a
      <3>1. entryList'[b][f] = entryList[b][f] /\ adding'[b] = adding[b]
        BY <1>1, <1>3, <1>4, <1>8, <2>1 DEF QueueTypeOK
      <3> QED  BY <1>5, <1>10, <3>1 DEF Handed, Given, Written0
    <2>2. CASE b = a /\ f # m.flow
      <3>1. entryList'[b][f] = entryList[b][f]
        BY <1>1, <1>3, <1>4, <2>2 DEF QueueTypeOK
      <3>2. ~Written0(b, f)
        BY <1>2, <2>2 DEF Written0
      <3> QED  BY <1>5, <1>10, <3>1, <3>2, <2>2 DEF Handed, Given
    <2>3. CASE b = a /\ f = m.flow
      <3>1. entryList'[b][f] = m.port
        BY <1>1, <1>3, <1>4, <2>3 DEF QueueTypeOK
      <3> QED  BY <1>5, <1>6, <2>3, <3>1
    <2> QED  BY <2>1, <2>2, <2>3
  <1> QED  BY <1>7, <1>9, <1>10 DEF Handed, Given

LEMMA UpdateHanded ==
    ASSUME TypeInv, Handed, NEW a \in AP, UPDATE_STA_ADD(a), UNCHANGED transVars
    PROVE  Handed'
  <1>1. QueueInv /\ WireTypeOK /\ natDown[a] \in Seq(DownMsg)
        /\ natDown \in [AP -> Seq(DownMsg)]
    BY DEF TypeInv, WireTypeOK
  <1>2. natDown[a] # <<>> /\ natDown' = [natDown EXCEPT ![a] = Tail(@)]
    BY <1>1, UpdateTypes
  <1>3. Entries' = Entries /\ UNCHANGED <<entryList, adding>>
    BY DEF transVars, Entries, UPDATE_STA_ADD
  <1>4. \A b \in AP : Backed(natDown[b], Entries)
    BY DEF Handed
  <1>5. Backed(Tail(natDown[a]), Entries)
    BY <1>1, <1>2, <1>4, BackedLess
  <1>6. \A b \in AP : Backed(natDown'[b], Entries')
    BY <1>1, <1>2, <1>3, <1>4, <1>5
  <1> QED  BY <1>3, <1>6, HandedFrame

(***************************************************************************)
(* Once two threads have overlapped this is not forgotten.                 *)
(***************************************************************************)
LEMMA OverlapStays ==
    ASSUME TypeInv, [Next]_vars, ~overlapped'
    PROVE  ~overlapped
  <1>0. \A s \in STA : at[s] \in AP
    BY DEF TypeInv, QueueInv, QueueTypeOK
  <1>1. ASSUME NEW a \in AP, HandlePortTranslation(a) PROVE ~overlapped
    BY <1>1 DEF HandlePortTranslation, handlePortTranslation, Get, Found, NotFound,
                SearchThrows, Put, ReadPort, Store
  <1>2. ASSUME NEW a \in AP, HandleAPRSSI(a) PROVE ~overlapped
    BY <1>2, HandoverFrame DEF HandleAPRSSI
  <1>3. ASSUME NEW s \in STA, NEW b \in AP, Decide(s, b) PROVE ~overlapped
    BY <1>0, <1>3, HandoverFrame DEF Decide
  <1>4. CASE UNCHANGED transVars
    BY <1>4 DEF transVars
  <1>5. ASSUME NEW a \in AP,
               \/ HandlePkt(a) \/ HandleVendor(a) \/ ConnOpen(a) \/ Cut(a)
               \/ \E f \in Flow : SendNatPortEntry(a, f) \/ ReinjectPkt(a, f)
        PROVE  UNCHANGED transVars
    BY <1>5 DEF HandlePkt, HandleVendor, ConnOpen, Cut, SendNatPortEntry, ReinjectPkt
  <1>6. ASSUME \/ \E w \in out : GwHandlePkt(w)
               \/ GwHandleVendor \/ (\E f \in Flow : Send(f)) \/ GW_CONNECT
               \/ RemovedGateway
        PROVE  UNCHANGED transVars
    BY <1>6 DEF GwHandlePkt, GwHandleVendor, Send, GW_CONNECT, RemovedGateway
  <1>7. CASE UNCHANGED vars
    BY <1>4, <1>7 DEF vars
  <1> QED  BY <1>1, <1>2, <1>3, <1>4, <1>5, <1>6, <1>7 DEF Next

LEMMA HandedStep == TypeInv /\ PortsInv /\ HandedInv /\ [Next]_vars => HandedInv'
  <1> SUFFICES ASSUME TypeInv, PortsInv, HandedInv, [Next]_vars, ~overlapped'
               PROVE  Handed'
    BY DEF HandedInv
  <1>0. InStep /\ Handed /\ WireTypeOK
    BY OverlapStays DEF PortsInv, HandedInv, TypeInv
  <1>1. ASSUME NEW a \in AP, HandlePortTranslation(a) PROVE Handed'
    BY <1>0, <1>1, TranslateHanded DEF HandlePortTranslation
  <1>2. ASSUME NEW a \in AP, HandleAPRSSI(a) PROVE Handed'
    BY <1>0, <1>2, HandoverHanded DEF HandleAPRSSI
  <1>3. ASSUME NEW a \in AP, HandleVendor(a) PROVE Handed'
    BY <1>0, <1>3, AddEntryHanded, SetPortHanded, UpdateHanded DEF HandleVendor
  <1>4. CASE UNCHANGED <<entries, natDown, entryList, adding>>
    <2>1. Entries' = Entries
      BY <1>4 DEF Entries
    <2> QED  BY <1>0, <1>4, <2>1, HandedFrame DEF Handed
  <1>5. ASSUME NEW a \in AP, Cut(a) PROVE Handed'
    <2>1. Entries' = Entries /\ UNCHANGED <<entryList, adding>>
      BY <1>5 DEF Cut, transVars, queueVars, Entries
    <2>2. natDown' = [natDown EXCEPT ![a] = <<>>]
      BY <1>5 DEF Cut, Close
    <2>3. \A b \in AP : natDown'[b] = natDown[b] \/ natDown'[b] = <<>>
      BY <1>0, <2>2 DEF WireTypeOK
    <2>4. \A b \in AP : Backed(natDown[b], Entries) /\ Backed(<<>>, Entries)
      BY <1>0 DEF Handed, Backed
    <2>5. \A b \in AP : Backed(natDown'[b], Entries')
      BY <2>1, <2>3, <2>4
    <2> QED  BY <1>0, <2>1, <2>5, HandedFrame
  <1>6. ASSUME NEW a \in AP,
               \/ HandlePkt(a) \/ ConnOpen(a)
               \/ \E f \in Flow : SendNatPortEntry(a, f) \/ ReinjectPkt(a, f)
        PROVE  UNCHANGED <<entries, natDown, entryList, adding>>
    BY <1>6 DEF HandlePkt, Accept, Keep, ConnOpen, SendNatPortEntry, send_nat_port_entry,
                ReinjectPkt, reinject_pkt, transVars, wireVars, queueVars
  <1>7. ASSUME \/ \E w \in out : GwHandlePkt(w)
               \/ GwHandleVendor \/ (\E f \in Flow : Send(f)) \/ GW_CONNECT
               \/ RemovedGateway \/ (\E s \in STA, b \in AP : Decide(s, b))
        PROVE  UNCHANGED <<entries, natDown, entryList, adding>>
    BY <1>7 DEF GwHandlePkt, GwHandleVendor, handle_vendor, Send, Lookup, GW_CONNECT,
                RemovedGateway, Decide, Move, transVars, wireVars, queueVars
  <1>8. CASE UNCHANGED vars
    BY <1>4, <1>8 DEF vars, transVars, wireVars, queueVars
  <1> QED  BY <1>1, <1>2, <1>3, <1>4, <1>5, <1>6, <1>7, <1>8 DEF Next

LEMMA HandedInit == Init => HandedInv
  <1> SUFFICES ASSUME Init PROVE Handed
    BY DEF HandedInv
  <1>1. \A b \in AP : natDown[b] = <<>> /\ adding[b] = NoAdd
    BY DEF Init, WireInit, QueueInit
  <1>2. \A b \in AP, f \in Flow : entryList[b][f] = None
    BY DEF Init, QueueInit
  <1>3. \A b \in AP : Backed(natDown[b], Entries)
    BY <1>1 DEF Backed
  <1> QED  BY <1>1, <1>2, <1>3 DEF Handed, NoAdd

LEMMA HandedAlways == Spec => []HandedInv
  BY HandedInit, HandedStep, TypeInvAlways, PortsAlways, PTL DEF Spec

(***************************************************************************)
(* The packets that a step sends, and the port they leave with.            *)
(***************************************************************************)
LEMMA OutNew ==
    ASSUME TypeInv, [Next]_vars, NEW w \in out' \ out
    PROVE  /\ w.ap \in AP /\ w.pkt \in Packet /\ w.pkt.flow \in Flow
           /\ w.port = entryList[w.ap][w.pkt.flow] /\ w.port \in Port
           /\ UNCHANGED <<entryList, adding, transVars, passed>>
  <1>0. QueueInv /\ QueueTypeOK
    BY DEF TypeInv, QueueInv
  <1>1. ASSUME NEW a \in AP, HandlePkt(a), Accept(a)
        PROVE  /\ w.ap \in AP /\ w.pkt \in Packet /\ w.pkt.flow \in Flow
               /\ w.port = entryList[w.ap][w.pkt.flow]
               /\ UNCHANGED <<entryList, adding, transVars, passed>>
    <2>1. PICK p : p = queue0[a].pkt
      OBVIOUS
    <2>2. p \in Packet /\ p.flow \in Flow
      BY <1>0, <1>1, <2>1 DEF Accept, QueueTypeOK, Handling, NoPacket, Packet
    <2>3. w = [pkt |-> p, ap |-> a, port |-> entryList[a][p.flow]]
      BY <1>1, <2>1 DEF Accept
    <2> QED  BY <1>1, <2>2, <2>3 DEF HandlePkt, Accept, gwVars
  <1>2. ASSUME NEW a \in AP, NEW f \in Flow, ReinjectPkt(a, f)
        PROVE  /\ w.ap \in AP /\ w.pkt \in Packet /\ w.pkt.flow \in Flow
               /\ w.port = entryList[w.ap][w.pkt.flow]
               /\ UNCHANGED <<entryList, adding, transVars, passed>>
    <2>1. /\ KeptOf(a, f) \subseteq Packet
          /\ out' = out \cup {[pkt |-> p, ap |-> a, port |-> entryList[a][f]] :
                                p \in KeptOf(a, f)}
      BY <1>0, <1>2, ReinjectTypes DEF ReinjectPkt
    <2>2. PICK p \in KeptOf(a, f) : w = [pkt |-> p, ap |-> a, port |-> entryList[a][f]]
      BY <2>1
    <2>3. p.flow = f
      BY <2>2 DEF KeptOf
    <2> QED  BY <1>2, <2>1, <2>2, <2>3 DEF ReinjectPkt, reinject_pkt, gwVars
  <1>3. ASSUME NEW a \in AP,
               \/ HandlePortTranslation(a) \/ HandleAPRSSI(a) \/ HandleVendor(a)
               \/ HandlePkt(a) /\ Keep(a)
               \/ ConnOpen(a) \/ Cut(a) \/ \E f \in Flow : SendNatPortEntry(a, f)
        PROVE  FALSE
    BY <1>3 DEF HandlePortTranslation, HandleAPRSSI, HandleVendor, addEntry, SetPort,
                UPDATE_STA_ADD, Keep, ConnOpen, Cut, SendNatPortEntry,
                send_nat_port_entry, queueVars
  <1>4. ASSUME \/ \E v \in out : GwHandlePkt(v)
               \/ GwHandleVendor \/ (\E f \in Flow : Send(f)) \/ GW_CONNECT
               \/ RemovedGateway \/ (\E s \in STA, b \in AP : Decide(s, b))
               \/ UNCHANGED vars
        PROVE  FALSE
    BY <1>4 DEF GwHandlePkt, GwHandleVendor, Send, Lookup, GW_CONNECT, RemovedGateway,
                Decide, queueVars, vars
  <1>5. /\ w.ap \in AP /\ w.pkt \in Packet /\ w.pkt.flow \in Flow
        /\ w.port = entryList[w.ap][w.pkt.flow]
        /\ UNCHANGED <<entryList, adding, transVars, passed>>
    BY <1>1, <1>2, <1>3, <1>4 DEF Next, HandlePkt
  <1>6. w.port \in Port
    <2>1. QueueTypeOK'
      BY TypeStep DEF TypeInv, QueueInv
    <2> QED  BY <2>1 DEF QueueTypeOK, Sent
  <1> QED  BY <1>5, <1>6

(***************************************************************************)
(* A packet leaves with the port that the controller has handed out for    *)
(* its flow, or with the 0 of an entry that is just being made.            *)
(***************************************************************************)
THEOREM PacketsOwnPort == Spec => OwnPort
  <1>1. ASSUME TypeInv, HandedInv, [Next]_vars, NEW w \in out' \ out
        PROVE  \/ [flow |-> w.pkt.flow, newPort |-> w.port] \in Entries
               \/ overlapped
               \/ /\ w.port = 0
                  /\ adding[w.ap].type = "NAT_ADD"
                  /\ adding[w.ap].flow = w.pkt.flow
    <2>1. /\ w.ap \in AP /\ w.pkt.flow \in Flow
          /\ w.port = entryList[w.ap][w.pkt.flow] /\ w.port # None
      BY <1>1, OutNew, NoneAssumption
    <2> QED  BY <1>1, <2>1 DEF HandedInv, Handed, Given, Written0
  <1>2. TypeInv /\ HandedInv /\ [Next]_vars =>
          [\A w \in out' \ out :
             \/ [flow |-> w.pkt.flow, newPort |-> w.port] \in Entries
             \/ overlapped
             \/ /\ w.port = 0
                /\ adding[w.ap].type = "NAT_ADD"
                /\ adding[w.ap].flow = w.pkt.flow]_vars
    BY <1>1
  <1> QED  BY <1>2, TypeInvAlways, HandedAlways, PTL DEF Spec, OwnPort

-----------------------------------------------------------------------------

(***************************************************************************)
(* Replies.  What has left with a port other than 0 has the port of its    *)
(* flow, and its AP still has the entry: entries are neither taken back    *)
(* nor given another port.                                                 *)
(***************************************************************************)
SentInv ==
    ~overlapped => \A w \in out : w.port # 0 =>
       Given(w.pkt.flow, w.port) /\ entryList[w.ap][w.pkt.flow] = w.port

LEMMA EntriesGrow ==
    ASSUME TypeInv, InStep, [Next]_vars
    PROVE  Entries \subseteq Entries'
  <1>0. \A s \in STA : at[s] \in AP
    BY DEF TypeInv, QueueInv, QueueTypeOK
  <1>1. CASE UNCHANGED entries
    BY <1>1 DEF Entries
  <1>2. ASSUME NEW a \in AP, HandlePortTranslation(a)
        PROVE  Store(a) \/ UNCHANGED entries
    BY <1>2 DEF HandlePortTranslation, handlePortTranslation, Get, Found, NotFound,
                SearchThrows, Put, ReadPort
  <1>3. ASSUME NEW a \in AP, Store(a) PROVE Entries \subseteq Entries'
    BY <1>3, StoreInStep
  <1>4. ASSUME NEW a \in AP, HandleAPRSSI(a) PROVE UNCHANGED entries
    BY <1>4, HandoverFrame DEF HandleAPRSSI
  <1>5. ASSUME NEW s \in STA, NEW b \in AP, Decide(s, b) PROVE UNCHANGED entries
    BY <1>0, <1>5, HandoverFrame DEF Decide
  <1>6. ASSUME NEW a \in AP,
               \/ HandlePkt(a) \/ HandleVendor(a) \/ ConnOpen(a) \/ Cut(a)
               \/ \E f \in Flow : SendNatPortEntry(a, f) \/ ReinjectPkt(a, f)
        PROVE  UNCHANGED entries
    BY <1>6 DEF HandlePkt, HandleVendor, ConnOpen, Cut, SendNatPortEntry, ReinjectPkt,
                transVars
  <1>7. ASSUME \/ \E w \in out : GwHandlePkt(w)
               \/ GwHandleVendor \/ (\E f \in Flow : Send(f)) \/ GW_CONNECT
               \/ RemovedGateway \/ UNCHANGED vars
        PROVE  UNCHANGED entries
    BY <1>7 DEF GwHandlePkt, GwHandleVendor, Send, GW_CONNECT, RemovedGateway, transVars,
                vars
  <1> QED  BY <1>1, <1>2, <1>3, <1>4, <1>5, <1>6, <1>7 DEF Next

(***************************************************************************)
(* A port other than 0 stays: the flow has one entry with the controller,  *)
(* and so the second NAT_ADD for it brings the same port again.            *)
(***************************************************************************)
LEMMA EntryStays ==
    ASSUME TypeInv, InStep, Handed, [Next]_vars, NEW b \in AP, NEW f \in Flow,
           entryList[b][f] # None, entryList[b][f] # 0
    PROVE  entryList'[b][f] = entryList[b][f]
  <1>0. QueueInv /\ QueueTypeOK /\ WireTypeOK /\ Given(f, entryList[b][f])
    BY DEF TypeInv, QueueInv, Handed, Written0
  <1>1. CASE UNCHANGED entryList
    BY <1>1
  <1>2. ASSUME NEW a \in AP, addEntry(a) PROVE entryList'[b][f] = entryList[b][f]
    <2>1. PICK m : m = Head(natDown[a])
      OBVIOUS
    <2>2. m.flow \in Flow
      BY <1>0, <1>2, <2>1, AddEntryTypes
    <2>3. entryList' = [entryList EXCEPT ![a][m.flow] = IF @ = None THEN 0 ELSE @]
      BY <1>2, <2>1 DEF addEntry
    <2> QED  BY <1>0, <2>2, <2>3 DEF QueueTypeOK
  <1>3. ASSUME NEW a \in AP, SetPort(a) PROVE entryList'[b][f] = entryList[b][f]
    <2>1. PICK m : m = adding[a]
      OBVIOUS
    <2>2. m.type = "NAT_ADD" /\ m.flow \in Flow /\ m.port \in Port
      BY <1>0, <1>3, <2>1, SetPortTypes
    <2>3. entryList' = [entryList EXCEPT ![a][m.flow] = m.port]
      BY <1>3, <2>1 DEF SetPort
    <2>4. CASE b = a /\ f = m.flow
      <3>1. Given(f, m.port)
        BY <2>1, <2>2, <2>4 DEF Handed
      <3>2. m.port = entryList[b][f]
        BY <1>0, <3>1 DEF Given, InStep, OneEntry
      <3> QED  BY <1>0, <2>2, <2>3, <2>4, <3>2 DEF QueueTypeOK
    <2>5. CASE b # a \/ f # m.flow
      BY <1>0, <2>2, <2>3, <2>5 DEF QueueTypeOK
    <2> QED  BY <2>4, <2>5
  <1>4. ASSUME NEW a \in AP, HandleVendor(a) PROVE entryList'[b][f] = entryList[b][f]
    BY <1>1, <1>2, <1>3, <1>4 DEF HandleVendor, UPDATE_STA_ADD
  <1>5. ASSUME NEW a \in AP,
               \/ HandlePortTranslation(a) \/ HandleAPRSSI(a) \/ HandlePkt(a)
               \/ ConnOpen(a) \/ Cut(a)
               \/ \E g \in Flow : SendNatPortEntry(a, g) \/ ReinjectPkt(a, g)
        PROVE  UNCHANGED entryList
    BY <1>5 DEF HandlePortTranslation, HandleAPRSSI, HandlePkt, Accept, Keep, ConnOpen,
                Cut, SendNatPortEntry, send_nat_port_entry, ReinjectPkt, reinject_pkt,
                queueVars
  <1>6. ASSUME \/ \E v \in out : GwHandlePkt(v)
               \/ GwHandleVendor \/ (\E g \in Flow : Send(g)) \/ GW_CONNECT
               \/ RemovedGateway \/ (\E s \in STA, c \in AP : Decide(s, c))
               \/ UNCHANGED vars
        PROVE  UNCHANGED entryList
    BY <1>6 DEF GwHandlePkt, GwHandleVendor, Send, Lookup, GW_CONNECT, RemovedGateway,
                Decide, queueVars, vars
  <1> QED  BY <1>1, <1>4, <1>5, <1>6 DEF Next

LEMMA SentStep ==
    TypeInv /\ PortsInv /\ HandedInv /\ SentInv /\ [Next]_vars => SentInv'
  <1> SUFFICES ASSUME TypeInv, PortsInv, HandedInv, SentInv, [Next]_vars, ~overlapped',
                      NEW w \in out', w.port # 0
               PROVE  /\ [flow |-> w.pkt.flow, newPort |-> w.port] \in Entries'
                      /\ entryList'[w.ap][w.pkt.flow] = w.port
    BY DEF SentInv, Given
  <1>1. InStep /\ Handed /\ ~overlapped
    BY OverlapStays DEF PortsInv, HandedInv
  <1>2. CASE w \in out
    <2>1. w.ap \in AP /\ w.pkt.flow \in Flow /\ w.port \in Port
      BY <1>2 DEF TypeInv, QueueInv, QueueTypeOK, Sent, Packet
    <2>2. Given(w.pkt.flow, w.port) /\ entryList[w.ap][w.pkt.flow] = w.port
      BY <1>1, <1>2 DEF SentInv
    <2>3. entryList[w.ap][w.pkt.flow] # None
      BY <2>1, <2>2, NoneAssumption
    <2>4. entryList'[w.ap][w.pkt.flow] = w.port
      BY <1>1, <2>1, <2>2, <2>3, EntryStays
    <2> QED  BY <1>1, <2>2, <2>4, EntriesGrow DEF Given
  <1>3. CASE w \notin out
    <2>1. /\ w.ap \in AP /\ w.pkt.flow \in Flow /\ w.port \in Port
          /\ w.port = entryList[w.ap][w.pkt.flow]
          /\ UNCHANGED <<entryList, adding, transVars>>
      BY <1>3, OutNew
    <2>2. Given(w.pkt.flow, w.port)
      BY <1>1, <2>1, NoneAssumption DEF Handed, Written0
    <2> QED  BY <1>1, <2>1, <2>2, EntriesGrow DEF Given
  <1> QED  BY <1>2, <1>3

LEMMA SentInit == Init => SentInv
  BY DEF Init, QueueInit, SentInv

LEMMA SentAlways == Spec => []SentInv
  BY SentInit, SentStep, TypeInvAlways, PortsAlways, HandedAlways, PTL DEF Spec

(***************************************************************************)
(* Two packets or entries with the same port, other than 0, and target.    *)
(***************************************************************************)
LEMMA SameFlow ==
    ASSUME EnoughPorts, TypeInv, PortsInv, ~overlapped, NEW f, NEW g, NEW p,
           Given(f, p), Given(g, p), SameTarget(f, g)
    PROVE  f = g
  <1>1. PortsDistinct
    BY DistinctMeans
  <1>2. PICK d, e : d = [flow |-> f, newPort |-> p] /\ e = [flow |-> g, newPort |-> p]
    OBVIOUS
  <1>3. d \in Entries /\ e \in Entries
    BY <1>2 DEF Given
  <1>4. d.flow = f /\ e.flow = g /\ d.newPort = p /\ e.newPort = p
    BY <1>2
  <1> QED  BY <1>1, <1>3, <1>4 DEF PortsDistinct

LEMMA OwnerOnly ==
    ASSUME EnoughPorts, TypeInv, PortsInv, HandedInv, SentInv, ~overlapped,
           NEW w \in out, w.port # 0, NEW a \in AP
    PROVE  lookupPortMapQ1(a, w.port, w.pkt.flow) \subseteq {w.pkt.flow}
  <1> SUFFICES ASSUME NEW g \in Flow, entryList[a][g] = w.port,
                      SameTarget(w.pkt.flow, g)
               PROVE  g = w.pkt.flow
    BY DEF lookupPortMapQ1
  <1>1. w.port \in Port /\ w.port # None
    BY NoneAssumption DEF TypeInv, QueueInv, QueueTypeOK, Sent
  <1>2. Given(g, w.port)
    BY <1>1 DEF HandedInv, Handed, Written0
  <1>3. Given(w.pkt.flow, w.port)
    BY DEF SentInv
  <1> QED  BY <1>2, <1>3, SameFlow

(***************************************************************************)
(* Whatever access point a reply reaches, it is not delivered to another   *)
(* flow than the one that it answers, as long as there are enough ports.   *)
(***************************************************************************)
THEOREM RepliesToOwner ==
    ASSUME EnoughPorts
    PROVE  Spec => []ReplyToOwner
  <1>1. TypeInv /\ PortsInv /\ HandedInv /\ SentInv => ReplyToOwner
    <2> SUFFICES ASSUME TypeInv, PortsInv, HandedInv, SentInv, ~overlapped,
                        NEW w \in Passed, w.port # 0,
                        NEW a \in Route(w.port, w.pkt.flow)
                 PROVE  lookupPortMapQ1(a, w.port, w.pkt.flow) \subseteq {w.pkt.flow}
      BY DEF ReplyToOwner
    <2>1. w \in out
      BY InvImpliesTypeOK DEF TypeOK
    <2>2. a \in AP
      BY DEF Route, lookupNatMap, TypeInv, GwInv, GwTypeOK, NatMap
    <2> QED  BY <2>1, <2>2, OwnerOnly
  <1> QED
    BY <1>1, TypeInvAlways, PortsAlways, HandedAlways, SentAlways, PTL

-----------------------------------------------------------------------------

(***************************************************************************)
(* Routes.  The gateway's NAT_ADD looks up a key with the station's own    *)
(* port in the place of both ports.  That is the key of a translated flow  *)
(* only if its remote port is also a port that may be handed out for it.   *)
(***************************************************************************)
Drawable(f) == {Off(i) : i \in 1 .. Cardinality({g \in Flow : SameTarget(g, f)})}

KeysApart ==
    \A f, g \in Flow :
       f.dst = g.dst /\ g.sport = f.dport => f.dport \notin Drawable(f)

LEMMA GivenDrawable ==
    ASSUME EnoughPorts, TypeInv, InStep, NEW f \in Flow, NEW p, Given(f, p)
    PROVE  p \in Drawable(f)
  <1>1. PICK e : e = [flow |-> f, newPort |-> p]
    OBVIOUS
  <1>2. e \in EntriesTo(f) /\ e.newPort = p
    BY <1>1 DEF Given, EntriesTo, SameTarget
  <1>3. Drawn(EntriesTo(f), portMap[f])
    BY DEF InStep, Counts
  <1>4. PICK n \in Nat : n = Cardinality(EntriesTo(f))
    BY <1>3, FS_CardinalityType DEF Drawn
  <1>5. PICK k \in Nat : k = Cardinality({g \in Flow : SameTarget(g, f)})
    BY FS_CardinalityType DEF EnoughPorts
  <1>6. n <= PortCount /\ n <= k
    BY <1>4, <1>5, EntriesFew
  <1>7. PICK i \in 1 .. n : p = Off(i)
    BY <1>2, <1>3, <1>4, <1>6 DEF Drawn
  <1>8. i \in 1 .. k
    BY <1>6
  <1> QED  BY <1>5, <1>7, <1>8 DEF Drawable

(***************************************************************************)
(* The gateway's entry for w, the last packet of its flow.                 *)
(***************************************************************************)
Home(w) == [src_port |-> w.port, dst |-> w.pkt.flow.dst,
            dst_port |-> w.pkt.flow.dport, src_addr |-> w.ap]

Routed(w) == lookupNatMap(w.port, w.pkt.flow.dst, w.pkt.flow.dport) = {Home(w)}

LastOf(q, i) == \A j \in i + 1 .. Len(q) : q[j].pkt.flow # q[i].pkt.flow

RoutedInv ==
    ~overlapped => \A i \in 1 .. Len(passed) :
       passed[i].port # 0 /\ LastOf(passed, i) => Routed(passed[i])

LEMMA SetsKey ==
    ASSUME NEW p, NEW d, NEW q, NEW a, SetSrcAddr(p, d, q, a)
    PROVE  /\ lookupNatMap(p, d, q)' =
                {[src_port |-> p, dst |-> d, dst_port |-> q, src_addr |-> a]}
           /\ \A x, y, z : x # p \/ y # d \/ z # q =>
                lookupNatMap(x, y, z)' = lookupNatMap(x, y, z)
  <1>1. PICK e : e = [src_port |-> p, dst |-> d, dst_port |-> q, src_addr |-> a]
    OBVIOUS
  <1>2. natMap' = (natMap \ lookupNatMap(p, d, q)) \cup {e}
    BY <1>1 DEF SetSrcAddr
  <1>3. e.src_port = p /\ e.dst = d /\ e.dst_port = q
    BY <1>1
  <1>4. lookupNatMap(p, d, q)' = {e}
    BY <1>2, <1>3 DEF lookupNatMap
  <1>5. ASSUME NEW x, NEW y, NEW z, x # p \/ y # d \/ z # q
        PROVE  lookupNatMap(x, y, z)' = lookupNatMap(x, y, z)
    BY <1>2, <1>3, <1>5 DEF lookupNatMap
  <1> QED  BY <1>1, <1>4, <1>5

(***************************************************************************)
(* handle_pkt: of packets with this key only those of this flow have       *)
(* passed.                                                                 *)
(***************************************************************************)
LEMMA PassedRouted ==
    ASSUME EnoughPorts, TypeInv, PortsInv, SentInv, RoutedInv, ~overlapped,
           NEW v \in out, handle_pkt(v), NEW i \in 1 .. Len(passed'),
           NEW w, w = passed'[i], w.port # 0, LastOf(passed', i)
    PROVE  Routed(w)'
  <1>1. passed \in Seq(out)
    BY DEF TypeInv, GwInv
  <1>2. PICK q \in Seq(out) : q = passed
    BY <1>1
  <1>3. PICK r : r = passed' /\ r = Append(q, v)
    BY <1>2 DEF handle_pkt
  <1>4. /\ Len(r) = Len(q) + 1 /\ r[Len(q) + 1] = v /\ Len(q) \in Nat
        /\ \A k \in 1 .. Len(q) : r[k] = q[k]
    BY <1>3, AppendHas, LenNat
  <1>5. SetSrcAddr(v.port, v.pkt.flow.dst, v.pkt.flow.dport, v.ap)
    BY DEF handle_pkt
  <1>6. CASE i = Len(q) + 1
    <2>1. w = v
      BY <1>3, <1>4, <1>6
    <2>2. lookupNatMap(v.port, v.pkt.flow.dst, v.pkt.flow.dport)' = {Home(v)}
      BY <1>5, SetsKey DEF Home
    <2> QED  BY <2>1, <2>2 DEF Routed
  <1>7. CASE i # Len(q) + 1
    <2>1. i \in 1 .. Len(q)
      BY <1>3, <1>4, <1>7
    <2>2. w \in out /\ w = q[i] /\ w = passed[i]
      BY <1>2, <1>3, <1>4, <2>1
    <2>3. \A j \in i + 1 .. Len(r) : r[j].pkt.flow # w.pkt.flow
      BY <1>3, <2>2 DEF LastOf
    <2>4. v.pkt.flow # w.pkt.flow
      <3>1. Len(q) + 1 \in i + 1 .. Len(r)
        BY <1>4, <2>1
      <3> QED  BY <1>4, <2>3, <3>1
    <2>5. LastOf(passed, i)
      <3>1. \A j \in i + 1 .. Len(q) : j \in i + 1 .. Len(r) /\ r[j] = q[j]
        BY <1>4, <2>1
      <3> QED  BY <1>2, <2>2, <2>3, <3>1 DEF LastOf
    <2>6. Routed(w) /\ w.port # 0
      BY <1>2, <2>1, <2>2, <2>5 DEF RoutedInv
    <2>7. ~(v.port = w.port /\ v.pkt.flow.dst = w.pkt.flow.dst
              /\ v.pkt.flow.dport = w.pkt.flow.dport)
      <3> SUFFICES ASSUME v.port = w.port, SameTarget(v.pkt.flow, w.pkt.flow)
                   PROVE  FALSE
        BY DEF SameTarget
      <3>1. v \in out /\ w \in out /\ v.port # 0 /\ w.port # 0
        BY <2>2, <2>6
      <3>2. Given(v.pkt.flow, v.port) /\ Given(w.pkt.flow, w.port)
        BY <3>1 DEF SentInv
      <3>3. Given(v.pkt.flow, w.port)
        BY <3>2
      <3> QED  BY <2>4, <3>2, <3>3, SameFlow
    <2>8. lookupNatMap(w.port, w.pkt.flow.dst, w.pkt.flow.dport)' =
            lookupNatMap(w.port, w.pkt.flow.dst, w.pkt.flow.dport)
      BY <1>5, <2>7, SetsKey
    <2> QED  BY <2>6, <2>8 DEF Routed
  <1> QED  BY <1>6, <1>7

(***************************************************************************)
(* NAT_ADD of a handover does not touch the entry of a translated flow.    *)
(***************************************************************************)
LEMMA VendorRouted ==
    ASSUME EnoughPorts, KeysApart, TypeInv, PortsInv, SentInv, ~overlapped,
           handle_vendor, NEW w \in out, w.port # 0, Routed(w)
    PROVE  Routed(w)'
  <1>1. PICK m : m = Head(gwDown)
    OBVIOUS
  <1>2. m.flow \in Flow
    <2>1. m \in GwMsg
      BY <1>1 DEF handle_vendor, TypeInv, WireTypeOK
    <2> QED  BY <2>1 DEF GwMsg
  <1>3. SetSrcAddr(m.flow.sport, m.flow.dst, m.flow.sport, m.ap)
    BY <1>1 DEF handle_vendor, NAT_ADD
  <1>4. w.pkt.flow \in Flow
    BY DEF TypeInv, QueueInv, QueueTypeOK, Sent, Packet
  <1>5. w.port \in Drawable(w.pkt.flow)
    <2>1. Given(w.pkt.flow, w.port) /\ InStep
      BY DEF SentInv, PortsInv
    <2> QED  BY <1>4, <2>1, GivenDrawable
  <1>6. ~(w.port = m.flow.sport /\ w.pkt.flow.dst = m.flow.dst
            /\ w.pkt.flow.dport = m.flow.sport)
    BY <1>2, <1>4, <1>5 DEF KeysApart
  <1>7. lookupNatMap(w.port, w.pkt.flow.dst, w.pkt.flow.dport)' =
          lookupNatMap(w.port, w.pkt.flow.dst, w.pkt.flow.dport)
    BY <1>3, <1>6, SetsKey
  <1> QED  BY <1>7 DEF Routed

LEMMA RoutedStep ==
    ASSUME EnoughPorts, KeysApart, TypeInv, PortsInv, SentInv, RoutedInv, [Next]_vars
    PROVE  RoutedInv'
  <1> SUFFICES ASSUME ~overlapped', NEW i \in 1 .. Len(passed'), passed'[i].port # 0,
                      LastOf(passed', i), NEW w, w = passed'[i]
               PROVE  Routed(w)'
    BY DEF RoutedInv, LastOf, Routed, lookupNatMap, Home
  <1>1. ~overlapped
    BY OverlapStays
  <1>2. ASSUME NEW v \in out, GwHandlePkt(v) PROVE Routed(w)'
    BY <1>1, <1>2, PassedRouted DEF GwHandlePkt
  <1>3. ASSUME passed' = passed PROVE w \in out /\ w.port # 0 /\ Routed(w)
    <2>1. passed \in Seq(out) /\ i \in 1 .. Len(passed)
      BY <1>3 DEF TypeInv, GwInv
    <2> QED  BY <1>1, <1>3, <2>1 DEF RoutedInv
  <1>4. CASE GwHandleVendor
    <2>1. passed' = passed /\ handle_vendor
      BY <1>4 DEF GwHandleVendor, handle_vendor
    <2> QED  BY <1>1, <1>3, <2>1, VendorRouted
  <1>5. CASE UNCHANGED gwVars
    <2>1. passed' = passed /\ natMap' = natMap
      BY <1>5 DEF gwVars
    <2> QED  BY <1>3, <2>1 DEF Routed, lookupNatMap
  <1>6. ASSUME NEW a \in AP,
               \/ HandlePortTranslation(a) \/ HandleAPRSSI(a) \/ HandlePkt(a)
               \/ HandleVendor(a) \/ ConnOpen(a) \/ Cut(a)
               \/ \E g \in Flow : SendNatPortEntry(a, g) \/ ReinjectPkt(a, g)
        PROVE  UNCHANGED gwVars
    BY <1>6 DEF HandlePortTranslation, HandleAPRSSI, HandlePkt, HandleVendor, ConnOpen,
                Cut, SendNatPortEntry, ReinjectPkt
  <1>7. ASSUME \/ (\E g \in Flow : Send(g)) \/ GW_CONNECT \/ RemovedGateway
               \/ (\E s \in STA, c \in AP : Decide(s, c)) \/ UNCHANGED vars
        PROVE  UNCHANGED gwVars
    BY <1>7 DEF Send, GW_CONNECT, RemovedGateway, Decide, vars
  <1> QED  BY <1>2, <1>4, <1>5, <1>6, <1>7 DEF Next

LEMMA RoutedInit == Init => RoutedInv
  <1> SUFFICES ASSUME Init PROVE 1 .. Len(passed) = {}
    BY DEF RoutedInv
  <1>1. passed = <<>>
    BY DEF Init, GwInit
  <1> QED  BY <1>1

LEMMA RoundTripMeans ==
    ASSUME EnoughPorts, TypeInv, PortsInv, HandedInv, SentInv, RoutedInv
    PROVE  RoundTrip
  <1> SUFFICES ASSUME ~overlapped, NEW i \in 1 .. Len(passed), passed[i].port # 0,
                      \A j \in i + 1 .. Len(passed) :
                         passed[j].pkt.flow # passed[i].pkt.flow
               PROVE  /\ Route(passed[i].port, passed[i].pkt.flow) = {passed[i].ap}
                      /\ lookupPortMapQ1(passed[i].ap, passed[i].port, passed[i].pkt.flow)
                           = {passed[i].pkt.flow}
    BY DEF RoundTrip
  <1>1. passed \in Seq(out)
    BY DEF TypeInv, GwInv
  <1>2. PICK w \in out : w = passed[i]
    BY <1>1
  <1>3. w.port # 0 /\ Routed(w)
    BY <1>2 DEF RoutedInv, LastOf
  <1>4. w.ap \in AP /\ w.pkt.flow \in Flow
    BY DEF TypeInv, QueueInv, QueueTypeOK, Sent, Packet
  <1>5. Route(w.port, w.pkt.flow) = {w.ap}
    BY <1>3 DEF Route, Routed, Home
  <1>6. lookupPortMapQ1(w.ap, w.port, w.pkt.flow) \subseteq {w.pkt.flow}
    BY <1>3, <1>4, OwnerOnly
  <1>7. w.pkt.flow \in lookupPortMapQ1(w.ap, w.port, w.pkt.flow)
    BY <1>3, <1>4 DEF lookupPortMapQ1, SentInv, SameTarget
  <1> QED  BY <1>2, <1>5, <1>6, <1>7

(***************************************************************************)
(* Replies to the last packet of a flow find the way back to the access    *)
(* point it came from, which translates them for this flow, as long as     *)
(* there are enough ports and the keys of the gateway do not meet.         *)
(***************************************************************************)
THEOREM RepliesReturn ==
    ASSUME EnoughPorts, KeysApart
    PROVE  Spec => []RoundTrip
  <1>1. Init => RoutedInv
    BY RoutedInit
  <1>2. TypeInv /\ PortsInv /\ SentInv /\ RoutedInv /\ [Next]_vars => RoutedInv'
    BY RoutedStep
  <1>3. TypeInv /\ PortsInv /\ HandedInv /\ SentInv /\ RoutedInv => RoundTrip
    BY RoundTripMeans
  <1> QED
    BY <1>1, <1>2, <1>3, TypeInvAlways, PortsAlways, HandedAlways, SentAlways, PTL DEF Spec

=============================================================================
