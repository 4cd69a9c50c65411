----------------------------- MODULE OFSwitchAP -----------------------------
(***************************************************************************)
(* The controller application (OFSwitchAP.java): which access point serves *)
(* a station, and when the station is moved to another one.                *)
(*                                                                         *)
(* Every station handler is "synchronized", hence one step.  removedSwitch *)
(* is not, and runs in another thread than the handlers: it is two steps,  *)
(* one for each list it sweeps.  Handlers only touch entries of one        *)
(* station, so a sweep of one list may be one step.                        *)
(***************************************************************************)
EXTENDS Wlan

CONSTANT
    Reorder    \* may the threads of an AP overtake each other?

ASSUME ReorderAssumption == Reorder \in BOOLEAN

VARIABLES
    STAAPList,       \* STAAPList[s][a]: the entry of pair (s, a)
    STAAPRSSIList    \* STAAPRSSIList[s]: the candidate AP of s

ctrlVars == <<STAAPList, STAAPRSSIList>>

(***************************************************************************)
(* class STAAPInfo.  rates: are supported_rates known (non-null)?  sw: the *)
(* connection of a that the entry writes to.  The other parameters of the  *)
(* association are only copied and are left out, isHomeAP is never read.   *)
(***************************************************************************)
STAAPInfo == [status : STAStatus \cup {"null"}, rates : BOOLEAN, sw : Nat]

NoSTAAP == [status |-> "null", rates |-> FALSE, sw |-> 0]

(***************************************************************************)
(* class APInfo: the best alternative AP heard of so far, its RSSI, and    *)
(* whether the serving AP has been asked for its own.                      *)
(***************************************************************************)
APInfo == [ap : AP \cup {None}, rssi : Byte, isSent : BOOLEAN, sw : Nat]

NoAPInfo == [ap |-> None, rssi |-> 0, isSent |-> FALSE, sw |-> 0]

ControllerTypeOK ==
    /\ STAAPList \in [STA -> [AP -> STAAPInfo]]
    /\ STAAPRSSIList \in [STA -> APInfo]

ControllerInit ==
    /\ STAAPList = [s \in STA |-> [a \in AP |-> NoSTAAP]]
    /\ STAAPRSSIList = [s \in STA |-> NoAPInfo]

(***************************************************************************)
(* lookupSenderSTAAP(s, a) != null                                         *)
(***************************************************************************)
lookupSenderSTAAP(s, a) == STAAPList[s][a].status # "null"

(***************************************************************************)
(* Another AP than a is SELECTED for s.                                    *)
(***************************************************************************)
findSTAAPPair_bug(s, a) == STAAPList[s][a].status = "SELECTED"

findSTAAPPair(s, a) == \E b \in AP \ {a} : STAAPList[s][b].status = "SELECTED"

(***************************************************************************)
(* The APs findSTAAPInfo may return: it takes the first ASSOCIATED entry   *)
(* in the order of a hash map.                                             *)
(***************************************************************************)
findSTAAPInfo(s) == {a \in AP : STAAPList[s][a].status = "ASSOCIATED"}

(***************************************************************************)
(* An entry with another status, and the step that gives it to a pair if   *)
(* the pair exists.                                                        *)
(***************************************************************************)
WithStatus(entry, status) ==
    [status |-> status, rates |-> entry.rates, sw |-> entry.sw]

SetStatus(s, a, status) ==
    STAAPList' = IF lookupSenderSTAAP(s, a)
                 THEN [STAAPList EXCEPT ![s][a] = WithStatus(@, status)]
                 ELSE STAAPList

-----------------------------------------------------------------------------

(***************************************************************************)
(* The handlers.  m is a message that arrived on the open connection of a. *)
(***************************************************************************)
handleProbeReq(a, m) ==
    LET s == m.sta
        entry == STAAPList[s][a]
        select == /\ ~findSTAAPPair(s, a)
                  /\ findSTAAPInfo(s) = {}
                  /\ entry.status \in {"null", "NOT_AUTHENTICATED"}
    IN  /\ m.type = "PROBE"
        /\ STAAPList' =
             IF select
             THEN [STAAPList EXCEPT ![s][a] =
                     [status |-> "SELECTED",
                      rates |-> entry.rates,
                      sw |-> IF lookupSenderSTAAP(s, a) THEN entry.sw
                                                        ELSE link[a].sw]]
             ELSE STAAPList
        /\ down' = IF select THEN write(down, a, link[a].sw, "ADD_STA", s)
                             ELSE down
        /\ UNCHANGED STAAPRSSIList

handleAuthReq(a, m) ==
    /\ m.type = "AUTH_REQ"
    /\ SetStatus(m.sta, a, "AUTHENTICATED")
    /\ UNCHANGED <<STAAPRSSIList, down>>

handleAssocReq(a, m) ==
    /\ m.type = "ASSOC_REQ"
    /\ STAAPList' = IF lookupSenderSTAAP(m.sta, a)
                    THEN [STAAPList EXCEPT ![m.sta][a] =
                            [status |-> "ASSOCIATED", rates |-> TRUE, sw |-> @.sw]]
                    ELSE STAAPList
    /\ UNCHANGED <<STAAPRSSIList, down>>

(***************************************************************************)
(* Unlike handleAssocReq, this handler keeps no parameter of the request.  *)
(***************************************************************************)
handleReassocReq(a, m) ==
    /\ m.type = "REASSOC_REQ"
    /\ SetStatus(m.sta, a, "ASSOCIATED")
    /\ UNCHANGED <<STAAPRSSIList, down>>

handleDisassocReq(a, m) ==
    /\ m.type = "DISASSOC_REQ"
    /\ SetStatus(m.sta, a, "AUTHENTICATED")
    /\ STAAPRSSIList' = IF lookupSenderSTAAP(m.sta, a)
                        THEN [STAAPRSSIList EXCEPT ![m.sta] = NoAPInfo]
                        ELSE STAAPRSSIList
    /\ UNCHANGED down

handleDeauthReq(a, m) ==
    /\ m.type = "DEAUTH_REQ"
    /\ SetStatus(m.sta, a, "NOT_AUTHENTICATED")
    /\ UNCHANGED <<STAAPRSSIList, down>>

(***************************************************************************)
(* A candidate with isSent set or cleared.                                 *)
(***************************************************************************)
WithSent(cand, sent) ==
    [ap |-> cand.ap, rssi |-> cand.rssi, isSent |-> sent, sw |-> cand.sw]

(***************************************************************************)
(* The candidate of s once a has reported rssi: a becomes the candidate if *)
(* there was none or if it is stronger.                                    *)
(***************************************************************************)
Better(s, a, rssi) ==
    LET cand == STAAPRSSIList[s]
    IN  IF cand.ap = None \/ cand.rssi < rssi
        THEN [ap |-> a, rssi |-> rssi, isSent |-> cand.isSent, sw |-> link[a].sw]
        ELSE cand

handleLastRSSI_bug(a, m) ==
    LET s == m.sta
        cand == Better(s, a, readByte(m.rssi))
    IN  /\ m.type = "REC_POW"
        /\ IF findSTAAPInfo(s) = {}
           THEN /\ STAAPRSSIList' = [STAAPRSSIList EXCEPT ![s] = cand]
                /\ UNCHANGED down
           ELSE \E b \in findSTAAPInfo(s) :
                  /\ down' = write(down, b, STAAPList[s][b].sw,
                                   "LAST_REC_POW", s)
                  /\ STAAPRSSIList' =
                       [STAAPRSSIList EXCEPT ![s] = WithSent(cand, TRUE)]
        /\ UNCHANGED STAAPList

handleLastRSSI(a, m) ==
    LET s == m.sta
        cand == Better(s, a, readByte(m.rssi))
    IN  /\ m.type = "REC_POW"
        /\ IF cand.isSent \/ findSTAAPInfo(s) = {}
           THEN /\ STAAPRSSIList' = [STAAPRSSIList EXCEPT ![s] = cand]
                /\ UNCHANGED down
           ELSE \E b \in findSTAAPInfo(s) :
                  /\ down' = write(down, b, STAAPList[s][b].sw,
                                   "LAST_REC_POW", s)
                  /\ STAAPRSSIList' =
                       [STAAPRSSIList EXCEPT ![s] = WithSent(cand, TRUE)]
        /\ UNCHANGED STAAPList

(***************************************************************************)
(* The netty worker of a hands a message of a to its handler.              *)
(***************************************************************************)
receive(a) ==
    /\ link[a].up
    /\ \E i \in 1 .. Len(up[a]) :
         /\ i = 1 \/ Reorder
         /\ \/ handleProbeReq(a, up[a][i])
            \/ handleAuthReq(a, up[a][i])
            \/ handleAssocReq(a, up[a][i])
            \/ handleReassocReq(a, up[a][i])
            \/ handleDisassocReq(a, up[a][i])
            \/ handleDeauthReq(a, up[a][i])
            \/ handleLastRSSI(a, up[a][i])
         /\ up' = [up EXCEPT ![a] = Without(@, i)]
    /\ UNCHANGED <<link, replies, removal>>

-----------------------------------------------------------------------------

(***************************************************************************)
(* The channel of a closes: the controller queues a removedSwitch() for    *)
(* the connection.                                                         *)
(***************************************************************************)
Closed(a) == [link EXCEPT ![a] = [up |-> FALSE, sw |-> @.sw]]

Removing(a) == removal \cup {[ap |-> a, sw |-> link[a].sw, sweep |-> "STAAPList"]}

(***************************************************************************)
(* handleAPRSSI moves the station to the candidate if its RSSI beats the   *)
(* one that a, the serving AP, has just answered.                          *)
(***************************************************************************)
Moves(s, a, rssi) ==
    /\ STAAPRSSIList[s].ap # None
    /\ lookupSenderSTAAP(s, a)
    /\ STAAPRSSIList[s].rssi > rssi

(***************************************************************************)
(* The entries after the move from a to the candidate.  When both are the  *)
(* same AP the entry ends as ASSOCIATED.                                   *)
(***************************************************************************)
Moved_bug(s, a) ==
    LET cand == STAAPRSSIList[s]
        new == STAAPList[s][cand.ap]
    IN  [STAAPList EXCEPT
           ![s][cand.ap] =
              [status |-> "ASSOCIATED",
               rates |-> STAAPList[s][a].rates,
               sw |-> IF new.status = "null" THEN cand.sw ELSE new.sw]]

Moved(s, a) ==
    LET cand == STAAPRSSIList[s]
        new == STAAPList[s][cand.ap]
    IN  [STAAPList EXCEPT
           ![s][a] = WithStatus(@, "NOT_AUTHENTICATED"),
           ![s][cand.ap] =
              [status |-> "ASSOCIATED",
               rates |-> STAAPList[s][a].rates,
               sw |-> IF new.status = "null" THEN cand.sw ELSE new.sw]]

(***************************************************************************)
(* No candidate: the answer is ignored.  Otherwise the next REC_POW may    *)
(* ask again, whether or not the station moves.                            *)
(***************************************************************************)
NoHandover_bug(a) ==
    LET m == Head(replies[a])
    IN  /\ link[a].up
        /\ replies[a] # <<>>
        /\ ~Moves(m.sta, a, readByte(m.rssi))
        /\ replies' = [replies EXCEPT ![a] = Tail(@)]
        /\ UNCHANGED <<ctrlVars, link, down, up, removal>>

NoHandover(a) ==
    LET m == Head(replies[a])
    IN  /\ link[a].up
        /\ replies[a] # <<>>
        /\ ~Moves(m.sta, a, readByte(m.rssi))
        /\ STAAPRSSIList' = [STAAPRSSIList EXCEPT ![m.sta] = WithSent(@, FALSE)]
        /\ replies' = [replies EXCEPT ![a] = Tail(@)]
        /\ UNCHANGED <<STAAPList, link, down, up, removal>>

(***************************************************************************)
(* The station moves.  UPDATE_STA_ADD carries the supported rates of the   *)
(* old entry; if these are null, encoding it throws a                      *)
(* NullPointerException in the pipeline of the target, whose exception     *)
(* handler closes the target's channel: the target still receives what was *)
(* written before, its unread answers are lost.  The NAT entries that go   *)
(* with a move are not part of this module.                                *)
(***************************************************************************)
Handover(a) ==
    LET m == Head(replies[a])
        s == m.sta
        cand == STAAPRSSIList[s]
        sw == Moved(s, a)[s][cand.ap].sw
        removed == write(down, a, link[a].sw, "REMOVE_STA", s)
    IN  /\ link[a].up
        /\ replies[a] # <<>>
        /\ Moves(s, a, readByte(m.rssi))
        /\ STAAPList' = Moved(s, a)
        /\ STAAPRSSIList' =
             [STAAPRSSIList EXCEPT ![s] =
                [ap |-> a, rssi |-> -128, isSent |-> FALSE, sw |-> link[a].sw]]
        /\ UNCHANGED up
        /\ down' = IF STAAPList[s][a].rates
                   THEN write(removed, cand.ap, sw, "UPDATE_STA_ADD", s)
                   ELSE removed
        /\ \/ /\ STAAPList[s][a].rates \/ ~Live(cand.ap, sw)
              /\ replies' = [replies EXCEPT ![a] = Tail(@)]
              /\ UNCHANGED <<link, removal>>
           \/ /\ ~STAAPList[s][a].rates /\ Live(cand.ap, sw)
              /\ link' = Closed(cand.ap)
              /\ replies' = [replies EXCEPT ![a] = Tail(@), ![cand.ap] = <<>>]
              /\ removal' = Removing(cand.ap)

handleAPRSSI(a) == NoHandover(a) \/ Handover(a)

-----------------------------------------------------------------------------

(***************************************************************************)
(* removedSwitch(sw): first the pairs of that connection are dropped, then *)
(* the candidates.                                                         *)
(***************************************************************************)
SweepSTAAPList_bug(r) ==
    /\ r \in removal
    /\ r.sweep = "STAAPList"
    /\ STAAPList' = [s \in STA |-> [a \in AP |->
                       IF a = r.ap /\ STAAPList[s][a].sw = r.sw
                       THEN NoSTAAP ELSE STAAPList[s][a]]]
    /\ removal' = removal \ {r}
    /\ UNCHANGED <<STAAPRSSIList, link, down, up, replies>>

SweepSTAAPList(r) ==
    /\ r \in removal
    /\ r.sweep = "STAAPList"
    /\ STAAPList' = [s \in STA |-> [a \in AP |->
                       IF a = r.ap /\ STAAPList[s][a].sw = r.sw
                       THEN NoSTAAP ELSE STAAPList[s][a]]]
    /\ removal' = (removal \ {r})
                   \cup {[ap |-> r.ap, sw |-> r.sw, sweep |-> "STAAPRSSIList"]}
    /\ UNCHANGED <<STAAPRSSIList, link, down, up, replies>>

SweepSTAAPRSSIList(r) ==
    /\ r \in removal
    /\ r.sweep = "STAAPRSSIList"
    /\ STAAPRSSIList' = [s \in STA |->
                           IF /\ STAAPRSSIList[s].ap = r.ap
                              /\ STAAPRSSIList[s].sw = r.sw
                           THEN NoAPInfo ELSE STAAPRSSIList[s]]
    /\ removal' = removal \ {r}
    /\ UNCHANGED <<STAAPList, link, down, up, replies>>

removedSwitch == \E r \in removal : SweepSTAAPList(r) \/ SweepSTAAPRSSIList(r)

=============================================================================
