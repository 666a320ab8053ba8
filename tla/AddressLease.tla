---------------------------- MODULE AddressLease ----------------------------
(***************************************************************************)
(* What the address pools promise a client, without SAs, trees and walks:  *)
(* a lease of an address belongs to one client from the time it is granted *)
(* until it is given back.                                                 *)
(***************************************************************************)
CONSTANT Clients

VARIABLE lease      \* a set of records [fam, addr, who]

SameAddress(l, m) == l.fam = m.fam /\ l.addr = m.addr

Init == lease = {}

\* The client gets addresses nobody has, and nobody loses one.
Grant(c) ==
    /\ lease \subseteq lease'
    /\ \A l \in lease' \ lease :
          l.who = c /\ \A m \in lease : ~SameAddress(l, m)

\* The client gives some of its addresses back.
GiveBack(c) ==
    /\ lease' \subseteq lease
    /\ \A l \in lease \ lease' : l.who = c

Next == \E c \in Clients : Grant(c) \/ GiveBack(c)

Spec == Init /\ [][Next]_lease
=============================================================================
