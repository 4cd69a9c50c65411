# Handover: a verification project for the SDEW testbed

The repository implements a software-defined enterprise WLAN: a station (a
mobile device) keeps its association and its connections while a central
controller moves it from one access point to another. This directory holds TLA+
models of that handover, of the address translation that goes along with it and
of the connections it runs over, the TLC runs that check them, and TLAPS proofs.

Paths below are relative to `src/`; `OFSwitchAP.java` is
`Floodlightv0.90/floodlight/src/main/java/net/floodlightcontroller/ofSwitchAP/OFSwitchAP.java`,
`controller_interface.c` is `hostapd-2.8/src/ofSwitchAP/controller_interface.c`,
`Controller.java` is
`Floodlightv0.90/floodlight/src/main/java/net/floodlightcontroller/core/internal/Controller.java`.

## 1. The system

| Part | State | Operations |
|---|---|---|
| Controller application, stations (`OFSwitchAP.java:119-627`) | `STAAPList`: status of every (station, AP) pair and the connection it writes to; `STAAPRSSIList`: the candidate AP of a station, its RSSI, `isSent` | handlers of probe, auth, (re)assoc, disassoc, deauth, RSSI report and RSSI answer; `removedSwitch` |
| Controller application, NAT (`OFSwitchAP.java:629-733`) | `natTable`, `portMap` | `handleNATUpdate`, `handlePortTranslation`, the NAT messages of a handover |
| Agent in every AP (`controller_interface.c`) | `infoSTA` table: status and last RSSI of a station; the socket to the controller | `handle_vendor`, `process_sta_msg`, `process_sta_data`, `controller_run` |
| Hooks in hostapd (`hostapd-2.8/src/ap/ieee802_11.c`) | hostapd's `sta_info`, the disassociation timer | guards and commits in `handle_auth`, `handle_assoc`, `handle_disassoc`, `handle_deauth`, the probe hook, `notify_controller_disassoc` |
| NAT queue of an AP (`controller_interface.c:160-716`) | NAT entries, packets waiting for a port | `handle_pkt`, `reinject_pkt`, `NAT_ADD` |
| Gateway (`Gateway/gatewayNAT.c`) | NAT entries | `handle_pkt`, `NAT_ADD`, OpenFlow handshake |
| Floodlight core (`Controller.java`, `OFSwitchImpl.java`) | active switches, the queue of switch updates | connect, disconnect, write, dispatch of removals |
| Click element (`PrintSignalStrength.cc`) | none | writes the RSSI of a data frame to a file |

How the parts interact. All APs use one BSSID, so a station does not notice
which one serves it. Every AP reports probe requests; the controller selects one
AP (`ADD_STA`), which alone answers the authentication and association and
reports both. Every AP reads the RSSI of the data frames it hears; one that does
not serve the station reports a new maximum (`REC_POW`). The controller keeps
the loudest as the candidate, asks the serving AP for its own value
(`LAST_REC_POW`, answered by `AP_REC_POW`), and if the candidate is louder tells
the old AP to stop (`REMOVE_STA`) and the new one to serve (`UPDATE_STA_ADD`).

Address translation. An AP gives the packets of its stations its own address and
a source port that the controller hands out per flow. A packet of a flow without
an entry is kept, the controller is asked (`PORT_TRANSLATION`), and the answer
(`NAT_ADD`) makes the entry and releases the packets. With a handover the
controller sends the station's entries to the new AP, and to the gateway, which
hides the APs' addresses behind its own and sends replies back to the AP that a
flow's packets came from.

Connections. AP and gateway are OpenFlow switches to Floodlight. Each has one
thread that connects, reads and answers; it reconnects when a read ends, or when
ten sends have failed. The process ends when the body of a message has not
arrived with its header, and when it writes to a connection that has been reset
(`SIGPIPE`); no script of the repository starts it again. Floodlight runs a
handshake on every connection, keeps the last one of a datapath id in
`activeSwitches`, and tells the application of removals from another thread. The
gateway makes itself known (`GW_CONNECT`) at the end of the handshake.

What is hard. The controller's handlers are `synchronized`, but
`removedSwitch` and `handlePortTranslation` are not. At an AP three kinds of
threads share the table, and most of what they read is read without the mutex.
Messages about frames are sent by detached threads of their own and overtake
each other. Connections break between the two halves of a handover. What makes
the system correct is that the controller's view and the APs' tables never come
apart for good: one AP selected, one AP serving, never none, every question
answered, nothing left over of an AP that has gone; ports handed out once, no
packet lost or delivered to another flow; and a switch that ends up connected
after any failure that its process survives and notices.

The hazards in `PROJECT.json` list these places one by one, each with the
properties aimed at it, or a note why none is.

## 2. Modules

| Module | What it is |
|---|---|
| `Wlan` | vocabulary of both sides: statuses, messages, the connections; `readByte` (the AP's `uint8_t` read as a Java `byte`), `write` (a write to a closed channel is lost) |
| `OFSwitchAP` | the controller application: one operator per handler, with the handler's name |
| `APAgent` | the agent of every AP and the hooks of hostapd that call it |
| `Attachment` | what the controller promises a station that joins once: one AP, changed in single steps |
| `Handover` | composes both with the connections and the stations; `Spec`, `FairSpec`, all properties |
| `MCHandover` | budgets for the runs |
| `HandoverProofs`, `StationProofs` | theorems about `Handover` in every environment |
| `RoamingProofs` | theorems about `Handover` for stations that join once and then only move |
| `NatWire` | flows, ports, packets and the connections that carry `PORT_TRANSLATION` and `NAT_ADD` |
| `PortTranslation` | the controller's `natTable` and `portMap`: `handlePortTranslation`, and the NAT part of `handleAPRSSI` |
| `NatQueue` | an AP's entries and kept packets, with the threads that use them |
| `GatewayNAT` | the gateway's entries |
| `NatChannel` | what the APs promise of packets: each leaves at most once, none is forgotten |
| `NatPath` | composes the four, with the stations' packets, handovers and failures |
| `MCNatPath` | flows and budgets for the runs |
| `NatPathProofs`, `PortProofs` | theorems about `NatPath` |
| `ConnWire` | the TCP connections between one switch and Floodlight |
| `OFClient` | the switch: `conn_open`, `controller_send`, `controller_receive`, the answers of the handshake (AP and gateway) |
| `Controller` | Floodlight: handshake, `activeSwitches`, `addSwitch`, `channelDisconnected`, dispatch, timeouts |
| `Connection` | composes both; `FairSpec` and the properties |
| `MCConnection` | budgets for the runs |
| `ConnectionProofs` | theorems about `Connection` |

The three compositions meet at named places: `Decide` in `NatPath` is the
handover that `Handover` models in full; the connection numbers of `Wlan` and
`conn` of `NatWire` are what the application sees of `Connection`.

State corresponds to the code by name. `STAAPList[s][a].status = "null"` is a
pair that is not in the map, `infoSTA[a][s].status = "null"` a station not in
the AP's table. `sw` numbers the connections of an AP, because the code compares
`IOFSwitch` objects, of which every connection has its own. `down[a]`,
`replies[a]` are TCP streams; `up[a]` holds the messages of the detached
threads, and with `Reorder = TRUE` any of them may arrive next.

Atomicity. A `synchronized` handler is one step. `removedSwitch` is two steps,
one per list. `process_sta_data` is one step for every access to the shared
entry (`Lookup`, `Set`, `Add`, `Mark`, `Compare`, `Report`). A handler of frames
reads the status at its start and sets the new one, whatever it is by then, at its
end (ieee802_11.c:2229 and 2362): `Check` and `Commit` are two steps, with
`Recheck` between them in `handle_disassoc`, and all other threads run in between.
`frame[a]` is the frame that the event loop of `a` has checked and not committed;
as the event loop is one thread, it takes no other frame, probe request or timer
meanwhile. A frame is checked when it is sent, by all APs that hear it: an AP that
is busy with another one, or refuses the frame for reasons of hostapd's own, is
among those that do not. A station goes on when the
first AP has committed its request (`AnswerHeard`). `handle_vendor` is one step per
message.

In the NAT modules every thread takes one step per access to what threads share.
`handlePortTranslation` runs as `Get`, `Found` or `NotFound` or `SearchThrows`,
`Put`, `ReadPort`, `Store`; the lists it appends to are named by the thread that
created them, so that a list that loses the race in `natTable.put` is a list that
is forgotten. An iteration that finds its list longer than at its own start
throws (the two loops of a handover, for the AP and for the gateway, each have an
iterator of their own); an `ArrayList.add` that overlaps another may be lost. At an AP, `addEntry` and the
write of `new_port` are two steps, `reinject_pkt` is one since it holds
`mutex_port` throughout. `portQueue` and `entryList` are hash tables in the code;
a bucket is only a part of them, and the lists of `portQueue` are a set of
packets, since `reinject_pkt` reads its list from end to end. At the gateway, looking an entry up and setting
its address is one step: the two threads that do it use different keys, except
for flows whose own port, translated port and remote port are equal.

In the connection modules a step is what a thread does with one message, one
socket call or one timeout. `controller->error++` and the comparison are two
steps, and an increment may be lost. `addSwitch` is two steps: `activeSwitches`
changes first, the old connection is taken out of use later, under its lock.
`removedSwitch` compares `gwSwitch` in one step and clears it in another, in the
main thread or in that of a new connection (`clearing` has the threads between the
two), and `GW_CONNECT` may set it in between. When
a channel is closed from another thread, the messages that its own thread has
read already are still handled, and `channelDisconnected` comes after them. This
is an assumption: the comment in `removeSwitch` (Controller.java:1456-1458) states
it, and the code relies on it by not taking the lock, but with netty 3.2.6 the
event may run in the thread that calls `close()`. A process may end, by `Exit` or
by `SIGPIPE`, and all its connections with it; `Start` is somebody starting it
again, which may never happen. A `send` on a connection that has been reset may
also fail or seem to succeed; the model lets that happen more than once
(`Failed`, `Vanished`), where the kernel reports one error and then raises the
signal. Echo requests are no messages: what they
achieve is in the guard of `ReadTimeout` (the switch does not read from this
connection any more, and nothing it sent is left).

Environment. A station follows 802.11: it authenticates, associates, sends data,
and leaves; any set of APs may hear a frame that it leaves with. Connections may
break (`Cut`) and APs may restart with empty tables (`Restart`). Every such event
is counted against `Budget`, the one bound of the model: with a finite number of
events all queues, connection numbers and timers are finite. No bound appears in
the actions of the program itself.

## 3. Runs

The runs of `MCHandover` have one station, and the RSSI values 196 and 206 (-60
and -50 dBm), in `roam` and `self_move` 190 (-66 dBm) as well; all lie in the
half of the byte where the sign matters. Two values are enough for "stronger",
"equal" and "weaker"; the third lets an AP compare a frame with one that was
weaker still, which is what a station that is moved to itself takes
(`self_move`). `settle` keeps to two for the sake of its third AP; with three it
passes as well, in more time. One station is enough because no handler looks at
two (in the proofs, lemma `OthersSame`); `max_num_sta` is its table size.

| Run | Instance | Shows |
|---|---|---|
| `roam` | 2 APs, 3 RSSI values, messages overtaking, 4 data frames, 2 probes | `OneAssociated`, `OneServes`, `Served`, `QuestionPending` |
| `settle` | 3 APs, fair, 4 data frames | `MovesFromServing`, `Answered`, `Agree`, `ImplementsAttachment` |
| `leave` | 2 APs, messages overtaking, 2 probes, authentications and associations, 1 data frame, 1 departure (disassociation with its timer, or deauthentication) | `TypeOK`, `OneSelected`, `QuestionPending`, `OnlyChosen` |
| `fail` | 2 APs, messages overtaking, association or reassociation, two broken connections and a restart at any time | `OnlyKnown`, `CandidateSwept` |
| `stale_pair` | 2 APs, one broken connection | `PairSwept` is violated |
| `mark_race` | 2 APs, two RSSI threads | `Served` is violated |
| `reordered` | 2 APs, fair, messages overtaking | `Agree` is violated |
| `self_move` | 2 APs, 3 RSSI values | `MovesElsewhere` is violated |
| `nat` | 2 APs, 2 flows to one target, 4 ports of which 1 is dynamic, 2 packets, 2 handovers, 1 failure | `PortsDistinct`, `PortsDynamic`, `KeptAsked`, `ReplyToOwner`, `RoundTrip`, `CarriedFirst`, `OwnPort`, `ImplementsChannel` |
| `redirect` | 2 APs, 1 flow, 1 handover | `Redirected` is violated |
| `connect` | an AP with one sending thread, or the gateway; 6 connections, 2 faults, 1 message; fair | `TypeOK`, `GwSwitchSwept`, `ReadyActive`, `NothingUnexpected`, `Reconnects` |
| `hang` | the gateway (the property speaks of it), 1 fault; fair | `NoHang` is violated |

Four data frames allow a station to be moved and moved back (each handover takes
a frame at the candidate, and one at the serving AP makes its answer matter); a
third AP lets a new candidate appear while the question about another is under
way. In `leave` one data frame is enough for a window at the AP that does not serve
and for a question that the station's departure overtakes; repeated questions are
in `roam`. Deadlock is not checked: a station that has spent its budget stops, and so
does the system. `Symmetry` permutes APs and threads, which the specification
never tells apart; `settle` uses none, as it checks liveness.

In `nat` a port is a number below `PortCount` = 4 in place of 2^16, and the
first one handed out follows `DefaultPort` = 2 in place of 49151: the second flow
already makes the counter wrap, as it does after 16384 flows to one target in
the code. Two packets are one per flow or two of one flow, kept together or at
two APs; two handovers take a station away and back. The one failure is a broken
connection of an AP or of the gateway.

In `connect` the socket is given up after `MaxError` = 3 failed sends in place of
10; the run reaches that case. Two faults of any kind (refused, reset, vanished,
connect timeout, handshake timeout, process exit) leave up to six connections:
with fewer, `MaxConn` and not the program stops the switch from reconnecting,
which `Reconnects` would report.
Processes that end may be started again at any time or never.
A thread of an AP and `controller_run` may both be in `controller_send`.

The passing runs state the guarantees in the environments where they hold.
`roam` and `settle` are about a station that joins once and then only moves, as
in the README's promise; `settle` takes messages of an AP in order, since
otherwise `Agree` and `MovesFromServing` do not hold (run `reordered`, and the
same with an answer that finds the pair back at `AUTHENTICATED`). `QuestionPending` speaks of times without a
failed connection: after one, `isSent` may stay set with no question under way.
`OneAssociated` does not extend to a station that authenticates again while its
old frames are still being handled.

`OnlyChosen` is about the zeroed entry of `addSTA`, which is `SELECTED` until its
thread has marked it. In `leave` a station that has been associated, and whose
data frame started an RSSI thread, leaves and authenticates again while
such an entry is unmarked, so that its frame passes the check of an AP that was
not chosen. The property says that the window closes: `SELECTED` without a pair
never outlasts the thread. It does not say the same of `AUTHENTICATED`: a frame
that is checked within the window may be committed after `changeStatus`, and the
AP then has an authenticated station that the controller has no pair for.
`handleAuthReq` ignores the report, and no line of the repository forbids it.

`Reconnects` says that the switch ends with a connection that the controller uses
too, unless its process has ended or the peer has vanished without a trace, and
that `gwSwitch` does not end at another connection. It admits `null`:
`removedSwitch` may clear the `gwSwitch` that the new connection has just set, and
as `GW_CONNECT` is sent once per connection, the gateway is then unknown for good.
TLC reaches that state; nothing in the repository promises the contrary, so it is
listed with the hazards. `GwSwitchSwept` says that a `gwSwitch` whose connection
has ended is cleared by somebody.

The violated properties:

* `stale_pair`. `removedSwitch` sweeps the pairs, then the candidates. Between
  the two, `handleAPRSSI` moves a station to the candidate on the dead
  connection and recreates its pair, which no sweep will remove.
  `handleProbeReq` from then on ignores the station as "already associated".
* `mark_race`. Two RSSI threads of an AP both find no entry. The slower one gets
  the faster one's entry from `addSTA` and sets it to `NOT_AUTHENTICATED`, even
  if the station has been moved to this AP in the meantime.
* `reordered`. The thread that reports the authentication is slower than the one
  that reports the association; `handleAuthReq` sets the pair back to
  `AUTHENTICATED`, and the controller never moves the station again.
* `self_move`. A thread of the new AP that found the station not associated
  reports it after the handover. `handleAPRSSI` has reset the candidate to -128,
  so the serving AP becomes its own candidate; it is asked, its own answer is
  weaker than its own report, and `handleAPRSSI` sends it `REMOVE_STA` and
  `UPDATE_STA_ADD` one after the other ("New AP has better RSSI"). No guarantee
  is lost: `ImplementsAttachment` sees a stutter, and `Served` holds as the
  second order is in the queue.
* `redirect`. The gateway's `NAT_ADD` handler uses the station's own source port
  in the place of both ports of the key. It adds an entry that no packet matches;
  replies keep going to the old AP until the station sends again. From then on
  they are right (`RoundTrip`, run `nat`).
* `hang`. The socket does not block, but `controller_receive` selects on it again
  and again. The gateway sends nothing of its own accord, so it never learns that
  the controller has died silently. `Reconnects` excludes this case.

What the NAT properties say of overlaps: two threads inside
`handlePortTranslation` may hand out one port twice, and may take a port and lose
the entry for it, so `PortsDistinct`, `PortsDynamic`, `OwnPort`, `ReplyToOwner` and
`RoundTrip` are stated until that has happened (`overlapped`); `CarriedFirst`,
`KeptAsked` and `ImplementsChannel` hold regardless. `OwnPort` names the one
window in which a packet leaves with port 0. `RoundTrip` speaks of the last packet
that has passed the gateway, which may be one that an old AP has kept and
reinjects late.
`KeptAsked` is about connections that have not failed: a request that is lost with
one is not repeated, and its packets wait for the next packet of the flow.

Refinement. `ImplementsAttachment` maps the pairs that `findSTAAPInfo` finds
ASSOCIATED to the abstract `serving`; `ImplementsChannel` maps kept packets and
the one being handled to `pending`, and packets sent to `left`. `NatChannel`
keeps no order: packets are released last in, first out, while later ones pass.

Fairness. In `Connection`, `FairSpec` assumes weak fairness of the loop of
`controller_run`, of every thread that is inside `controller_send`, of the thread
of every channel, of `channelDisconnected` and of the main thread's dispatch, and
that a connection request nobody refuses is accepted. Read timeouts expire.
Faults, messages of stations and the start of a process that has ended are not
fair. In `Handover`, `FairSpec` assumes weak fairness of the controller's workers (per
connection), of the thread that dispatches removals, of the agent's receiving
thread (which also reconnects), of the event loop once it has checked a frame, and
of every RSSI thread. These are operating
system threads that are always runnable when their input is there; none waits
for another except for a short mutex. Nothing is assumed of stations, of
connections breaking, or of timers.

Mutants. For every property of a passing run there is a plausible mistake in the
code under which TLC finds it violated (operators `..._bug`, before the operator
they replace): a handover that forgets the old pair, an AP that ignores
`REMOVE_STA` while it serves, a first sweep that ends the removal, an RSSI read
as unsigned, and so on.

## 4. Proofs

Every theorem is about `Spec` (no fairness), for every set of stations, APs,
threads, flows and hosts and for every budget; sets of stations and APs need not
be finite unless a hypothesis says so. `Invariance`-style lemmas show that the
inductive invariant holds initially and survives every action; each was checked
as an invariant of a run before it was proved.

Assumptions of all theorems are the `ASSUME`s of the modules: `None` is no
station, AP, flow or port; RSSI values are within a byte; `DefaultPort` is a
port; flows are records of their four parts; budgets are functions to `Nat`.
Further hypotheses are stated in the theorem itself and named below.

### Handover (`HandoverProofs`, `StationProofs`)

* `TypeCorrect`: `TypeOK` is inductive as it stands; one lemma per action.
* `SelectedOnce` (`OneSelected`): only `handleProbeReq` makes a pair `SELECTED`,
  after `findSTAAPPair` has seen no other one; lemma `NoneSelected` covers all
  other steps.
* `CandidatesSwept` (`CandidateSwept`): lemma `NothingLost` states what a step
  must respect: it forgets no removal, closes no connection without one, and
  makes no candidate of a closed connection. Only the second sweep of
  `removedSwitch` forgets a removal, and it has dropped the candidates.
* `QuestionsPending` (`QuestionPending`): `Asked` follows the question from
  `down` to `replies`. The handlers are first brought into the form the
  invariants need (`Selects`, `Changes`, `Reports`, `MovesTo`): what each does to
  the pair, to the candidate and to the queues.
* `ChosenOnly` (`OnlyChosen`): `LetIn` says that `ADD_STA` and `UPDATE_STA_ADD`
  are under way only for pairs that exist, `Chosen` that a thread between `addSTA`
  and `changeStatus` is the only other way to become `SELECTED`. No step that
  commits a frame makes an entry `SELECTED`, whatever happened since its check.
* `KnownOnly` (`OnlyKnown`): the invariant `Known` follows what the controller
  has of an AP back to its table: pairs, candidates, reports, answers and threads
  of an open connection are about stations that the AP knows, or `ADD_STA` is
  ahead of whatever will rely on it. `Numbered` is needed to tell the entries of
  an old connection from those of the present one. Hypothesis: the table has
  room for all stations (`Cardinality(STA) <= max_num_sta`). Without it the
  theorem is false: `addSTA` returns `NULL` when the table is full, and the AP
  is asked about a station that it does not know.

### Stations that only move (`RoamingProofs`)

The guarantees of a handover are false of a station that authenticates again
while its old frames are still being handled, so the theorems have the
environment of the runs `roam` and `settle` as hypotheses on the behaviour, in
place of a budget:

* `Roaming` is `Spec` with two hypotheses. `[]AllUp`: no connection is ever down
  (`Cut`, `Restart`, a lost send). `[][OnlyMoves]_vars`: a station authenticates
  only when it has not yet, and neither disassociates nor deauthenticates. Probe
  requests, data frames, their strengths and the APs that hear them are free, and
  so are the numbers of stations, APs, threads and handovers.
* `OneThread` (of `AlwaysServed` only): an AP has at most one `process_sta_data`
  thread at work on a station. Without it the theorem is false (`mark_race`).
* `~Reorder` (of `MovesServing` and `AttachmentImplemented` only): the threads of
  an AP do not overtake each other. Without it they are false (`reordered`).

The steps are first stated by their effect on the one station they are about
(`Event`); lemma `Events` shows that every step is such an event and leaves all
other stations alone. Queues are spoken of through four predicates (`Some`,
`Single`, `Behind`, `Stands`), with one lemma each for appending and removing. On
top of this stand three inductive invariants, each checked by TLC beforehand:

Beside them stands `Framed`, about the frame that an event loop has checked and
not committed. Its status may have changed since (by a second `ADD_STA`), but the
station is still waiting for the answer, the controller still has its pair before
the association, and no other AP is about to associate it: committing late is
therefore the same as committing at once.

* `Roams`, for `AssociatedOnce` (`OneAssociated`) and `ServesOnce` (`OneServes`).
  Neither property is inductive: a second AP may come to be ASSOCIATED by an
  association still in `up`, an answer still in `replies`, or an order still in
  `down`. `OneClaims` says that all of these together name one AP at most;
  `OneQuestion`, that a question is asked once and `isSent` lasts as long;
  `Joining` and `Entering` carry the argument from the first probe request to
  the association, `OneSelected` being why only one AP lets the station in.
* `Lasting`, for `AlwaysServed` (`Served`). `Has`: for an associated station some
  AP will serve it once it has worked off its orders. A step could break this by
  letting an order go to an AP without an entry, or by a late
  `changeStatus(NOT_AUTHENTICATED)`; `Safely` says that every AP that is a
  candidate, is asked, reports or serves has an entry and no thread about to mark
  it. `FirstAdded` is the same for the time before the association.
* `InOrder`, for `MovesServing` (`MovesFromServing`) and `AttachmentImplemented`
  (`ImplementsAttachment`). A report of the authentication that is still under way
  when the station associates has the association behind it, so that
  `handleAuthReq` never takes back an ASSOCIATED pair; hence the AP that is asked
  is the one AP that `findSTAAPInfo` finds. With this every event is a `Join`, a
  `Move` or a stutter of `Attachment`.

The first attempt at `MovesServing` failed for a reason: it also claimed that the
candidate is another AP, which is false (`self_move`).

### NAT path (`NatPathProofs`, `PortProofs`)

* `TypeCorrect` (`TypeOK`): not inductive as it stands. `Fit` says what a thread
  of the controller knows at each of its steps, in particular that the length it
  remembers is at most that of the list (lists only grow); `Entered`, that a
  packet on its way out and a reinjection have an entry, which is why the port of
  a packet is a port.
* `PacketsAsked` (`KeptAsked`): `Underway` lists the places where the request of
  a kept packet, its answer or its reinjection can be; one lemma per kind of step
  passes it on from one place to the next. `Numbered` (connection numbers start
  at 1 and only grow) makes "has not failed" a fact about the past.
* `EntriesFirst` (`CarriedFirst`): `Arrivals` says of every `UPDATE_STA_ADD` under
  way that it is the only one for its station, goes to the AP that the controller
  has it at, and has every carried entry ahead of it; `InMotion` and `OneMoves`
  make a handover in progress the only source of new ones.
* `ChannelImplemented` (`ImplementsChannel`): initial states map to initial
  states, and every step to a step of `NatChannel` or to a stutter. Needed:
  `Apart` (a packet is at one AP, kept or being handled, never both), `Counted`
  (numbers of packets are at most `count`), `Gone` (what has left is not pending).
* `FromDynamicRange` (`PortsDynamic`) and `DifferentPorts` (`PortsDistinct`): the
  invariant `InStep` holds until two threads overlap. `Knows` is what a thread may
  rely on between its steps: the list it found is still the station's, after the
  search its flow has no entry in any list, the port it has read is still the
  next. `Drawn` ties `portMap` to the lists: with n entries for a target, the last
  port is the n-th after `DefaultPort`, and the ports of the entries are among the
  first n and differ, for n up to the number of ports. `OneList` (all entries of a
  station are in the list that `natTable` has) is why the search is complete.
* `PacketsOwnPort` (`OwnPort`): `Handed` follows ports from the controller's
  lists through `natDown` and `adding` into `entryList`.
* `RepliesToOwner` (`ReplyToOwner`), `RepliesReturn` (`RoundTrip`): `SentInv` says
  that a packet that has left with a port has the port of its flow, and that its
  AP's entry still has it: a second `NAT_ADD` for a flow brings the same port.
  `RoutedInv` says that the gateway's entry for the last packet of a flow leads to
  the AP it came from; no other flow has the same key, by `PortsDistinct`.

Hypotheses, both of which the instances of the runs satisfy:

* `EnoughPorts`, of `DifferentPorts`, `RepliesToOwner` and `RepliesReturn`: no
  target has more flows than there are ports. `newPort++` has no other bound;
  with one more flow the counter reaches a port that is in use.
* `KeysApart`, of `RepliesReturn`: no flow to a host has a source port that is at
  once the remote port of a flow to this host and one of the ports that may be
  handed out for that flow. The gateway's `NAT_ADD` (run `redirect`) uses the key
  (source port, host, source port), and where that is the key of a translated flow
  it sends this flow's replies to the AP of the other. Servers that listen below
  `DefaultPort` satisfy it as long as the counter has not wrapped.

### Connections (`ConnectionProofs`)

* `TypeCorrect` (`TypeOK`).
* `HandshakeInOrder` (`NothingUnexpected`), `ReadyListed` (`ReadyActive`),
  `GatewaySwept` (`GwSwitchSwept`) follow from one invariant, `Inv`. `Ordered`
  says for every state of the handshake which requests and answers may be under
  way (`InOrder`), so that the next answer is always one the state expects.
  `Listed`: a ready connection is in `activeSwitches`, or the thread of the one
  that took its place has still to remove it (`replacing`). `GwListed`: the
  connection in `gwSwitch` is ready, or its removal is queued or still to be
  made, or some thread is about to clear it. `Unopened` and `Unused` are about
  connections that do not exist yet.

### Only model-checked

* `Answered`, `Agree` and `Reconnects` are liveness properties, which are outside
  the prover's reach.
* All safety properties of the passing runs are proved. What the violation runs
  check is false of the code.

## 5. What is left out

* `handleNATUpdate` and the branches for `PORT_TRANSLATION 0`: access points are
  built with 1 and never send `NAT_UPDATE`.
* Checksums, header layout and message encoding; packets are a flow and a number.
* An AP that restarts loses its NAT entries and kept packets, and netfilter the
  packets: `NatPath` has no restart.
* A TCP stream that is out of step after a short read: what is read then is
  arbitrary. The exit on a body that has not arrived is modelled.
* Barrier, role and statistics requests other than the handshake's, which this
  controller does not send; Floodlight's storage and link discovery.
* hostapd's `sta_info` and the kernel's station entries, which `add_STA` and
  `remove_STA` bring in line with the `infoSTA` status; encryption, RADIUS.
* Association parameters other than whether the supported rates are known: they
  are copied.
* `addSTA` is one step, although the code looks up and inserts in two: two nodes
  for one address are not modelled.
* A sweep of one list is one step. Handlers touch entries of one station, so a
  sweep among a handler's accesses has the effect of one before or after it,
  except that a candidate dropped within `handleAPRSSI` is not replaced by the
  old AP.
* Flow rules, which are shell commands; `calculateCheckSum`; Click's element.
* The rest of the repository: hostapd, Floodlight and Click as their projects
  publish them, vendored with their drivers and tests. It is over 99% of the
  source lines and none of it is this system's own logic; the models cover the
  files that were written or changed for the handover, and the parts of
  Floodlight's core that decide what the application sees.

## 6. Plan

1. Done: handover of stations, port translation, NAT queue, gateway, connections,
   the abstract specifications `Attachment` and `NatChannel`.
2. Done: proofs of all safety properties of the passing runs, `Handover`'s in the
   environment in which they hold, and of both refinements.
3. Left: a restart of an AP in `NatPath`, which would lose its entries and kept
   packets; the timer of `notify_controller_disassoc` against a station that has
   associated again, once it is decided what should happen then.
