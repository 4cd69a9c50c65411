----------------------------- MODULE NatChannel -----------------------------
(***************************************************************************)
(* What the access points promise about the packets of their stations: a   *)
(* channel that loses and duplicates nothing.  It promises no order, and   *)
(* none is kept.  A packet that has arrived is pending until it leaves,    *)
(* alone or together with others.                                          *)
(***************************************************************************)
VARIABLES
    pending,   \* packets that have arrived and not left
    left       \* what has left: packets, with where and how they did

Init == pending = {} /\ left = {}

Arrive(p) ==
    /\ p \notin pending
    /\ \A w \in left : w.pkt # p
    /\ pending' = pending \cup {p}
    /\ UNCHANGED left

Leave(P) ==
    /\ P \subseteq pending
    /\ P # {}
    /\ pending' = pending \ P
    /\ left \subseteq left'
    /\ {w.pkt : w \in left' \ left} = P
    /\ \A v, w \in left' \ left : v.pkt = w.pkt => v = w

Next ==
    \/ \E p \in pending' : Arrive(p)
    \/ Leave(pending \ pending')

Spec == Init /\ [][Next]_<<pending, left>>

=============================================================================
