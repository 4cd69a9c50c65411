----------------------------- MODULE Attachment -----------------------------
(***************************************************************************)
(* What the framework promises a mobile station that joins once: an access *)
(* point is chosen for it, and from then on it always has exactly one,     *)
(* which changes from one access point to another in a single step.        *)
(***************************************************************************)
CONSTANTS STA, AP

VARIABLE
    serving    \* serving[s]: the AP that serves s, as a set of at most one

Init == serving = [s \in STA |-> {}]

Join(s, a) ==
    /\ serving[s] = {}
    /\ serving' = [serving EXCEPT ![s] = {a}]

Move(s, a, b) ==
    /\ serving[s] = {a}
    /\ a # b
    /\ serving' = [serving EXCEPT ![s] = {b}]

Next ==
    \E s \in STA, a \in AP :
       Join(s, a) \/ \E b \in AP : Move(s, a, b)

Spec == Init /\ [][Next]_serving

=============================================================================
