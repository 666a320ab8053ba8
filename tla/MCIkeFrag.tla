----------------------------- MODULE MCIkeFrag -----------------------------
(* Instances of IkeFrag for TLC. *)
EXTENDS IkeFrag

\* Both ends start exchanges, one of them a second one.
MCMaxReq == [e \in End |-> IF e = "I" THEN 2 ELSE 1]
OneEach  == [e \in End |-> 1]

\* The messages of one end are whole or in two fragments, those of the other
\* also in one, or in more than are accepted.
MCSizes   == [e \in End |-> IF e = "I" THEN {0, 2} ELSE {0, 1, 2, 3}]
WholeOrTwo == [e \in End |-> {0, 2}]

\* What does not hold: a complete message has its own fragments only, and a
\* request is queued as long as its answer is awaited.
NeverMixed == \A e \in End : \A r \in delivered[e] : WholeMessage(r.parts, r.msg)
NeverLost  == \A e \in End : sa[e].flags # {} => sa[e].requests # {}

=============================================================================
