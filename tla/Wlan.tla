-------------------------------- MODULE Wlan --------------------------------
(***************************************************************************)
(* The vocabulary that the controller module (OFSwitchAP.java) and the     *)
(* access point module (controller_interface.c and its hooks in hostapd)   *)
(* share: stations, access points, station states, the vendor messages of  *)
(* the station protocol, and the TCP connections that carry them.          *)
(***************************************************************************)
EXTENDS Integers, Sequences, FiniteSets

CONSTANTS
    STA,      \* the stations (mobile devices)
    AP,       \* the access points
    RSSI,     \* the signal strengths a data frame can be heard with
    None      \* "null": neither a station nor an access point

ASSUME NoneAssumption == None \notin AP /\ None \notin STA

(***************************************************************************)
(* RSSI is a uint8_t at the access point (fscanf "%hhu").                  *)
(***************************************************************************)
ASSUME RSSIAssumption == RSSI \subseteq 0 .. 255

ASSUME STAAssumption == IsFiniteSet(STA)

(***************************************************************************)
(* enum STAStatus, on both sides.  "null" marks a pair or a station that   *)
(* has no entry.                                                           *)
(***************************************************************************)
STAStatus == {"SELECTED", "NOT_AUTHENTICATED", "AUTHENTICATED", "ASSOCIATED"}

(***************************************************************************)
(* The access point sends the uint8_t, the controller reads a Java byte.   *)
(* (Operators named ..._bug are plausible mistakes in the operator that    *)
(* follows; no specification uses them.)                                   *)
(***************************************************************************)
readByte_bug(v) == v

readByte(v) == IF v < 128 THEN v ELSE v - 256

Byte == -128 .. 127

(***************************************************************************)
(* Messages of the access point's frame and RSSI threads.                  *)
(***************************************************************************)
UpType == {"PROBE", "AUTH_REQ", "ASSOC_REQ", "REASSOC_REQ",
           "DISASSOC_REQ", "DEAUTH_REQ", "REC_POW"}

UpMsg == [type : UpType, sta : STA, rssi : 0 .. 255]

up_msg(type, s) == [type |-> type, sta |-> s, rssi |-> 0]

(***************************************************************************)
(* AP_REC_POW, the answer to LAST_REC_POW.  The thread that receives from  *)
(* the controller sends it, so answers stay in order and are never pending *)
(* in a thread of their own.                                               *)
(***************************************************************************)
Reply == [sta : STA, rssi : 0 .. 255]

(***************************************************************************)
(* Messages of the controller to an access point.                          *)
(***************************************************************************)
DownType == {"ADD_STA", "LAST_REC_POW", "UPDATE_STA_ADD", "REMOVE_STA"}

DownMsg == [type : DownType, sta : STA]

VARIABLES
    link,      \* link[a]: is a connected, and the number of its connection
    down,      \* down[a]: controller -> a, in order
    up,        \* up[a]: messages of a's threads, created in this order
    replies,   \* replies[a]: AP_REC_POW, a -> controller, in order
    removal    \* switch removals the controller has still to work on

linkVars == <<link, down, up, replies, removal>>

(***************************************************************************)
(* A connection of a is named by its number; IOFSwitch objects are never   *)
(* reused.  removal holds the removedSwitch() calls not finished, each     *)
(* with the list it sweeps next.  They have no order: the controller's     *)
(* main thread makes them from its queue of updates, and addSwitch makes   *)
(* them itself, in the thread of the connection that replaces another.     *)
(***************************************************************************)
Link == [up : BOOLEAN, sw : Nat]

Removal == [ap : AP, sw : Nat, sweep : {"STAAPList", "STAAPRSSIList"}]

LinkTypeOK ==
    /\ link \in [AP -> Link]
    /\ down \in [AP -> Seq(DownMsg)]
    /\ up \in [AP -> Seq(UpMsg)]
    /\ replies \in [AP -> Seq(Reply)]
    /\ removal \subseteq Removal

LinkInit ==
    /\ link = [a \in AP |-> [up |-> TRUE, sw |-> 1]]
    /\ down = [a \in AP |-> <<>>]
    /\ up = [a \in AP |-> <<>>]
    /\ replies = [a \in AP |-> <<>>]
    /\ removal = {}

(***************************************************************************)
(* Is connection number sw of a still open?                                *)
(***************************************************************************)
Live(a, sw) == link[a].up /\ link[a].sw = sw

(***************************************************************************)
(* sw.write(): netty queues the message on the channel.  A write to a      *)
(* channel that has been closed fails later and is lost, without an        *)
(* IOException.                                                            *)
(***************************************************************************)
write_bug(d, a, sw, type, s) ==
    IF link[a].up
    THEN [d EXCEPT ![a] = Append(@, [type |-> type, sta |-> s])]
    ELSE d

write(d, a, sw, type, s) ==
    IF Live(a, sw)
    THEN [d EXCEPT ![a] = Append(@, [type |-> type, sta |-> s])]
    ELSE d

(***************************************************************************)
(* The element at position i taken out of a sequence.                      *)
(***************************************************************************)
Without(q, i) == [j \in 1 .. Len(q) - 1 |-> IF j < i THEN q[j] ELSE q[j + 1]]

=============================================================================
