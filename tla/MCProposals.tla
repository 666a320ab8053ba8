----------------------------- MODULE MCProposals -----------------------------
(* Pairs of configuration files for the negotiation.                       *)
EXTENDS Proposals

File(ike, child, saproto, linux) ==
    [ike |-> ike, child |-> child, saproto |-> saproto, linux |-> linux]

(* ikesa clauses: the defaults, groups in either order, AES-GCM, a cipher  *)
(* with and without its MAC, two clauses.                                  *)
IkeClauses == {
    <<>>,
    << <<Modp2048>> >>,
    << <<Gcm128, Modp2048, Ecp256>> >>,
    << <<Aes128, Auth256, Prf1>> >>,
    << <<Aes256, Aes128, Auth1, Auth256, Modp2048>>, <<Gcm256, Ecp256>> >> }

(* childsa clauses: the defaults, with one group, with two, with and       *)
(* without the choice of none, AES-GCM first or last.                      *)
ChildClauses == {
    <<>>,
    << <<Ecp256>> >>,
    << <<Aes128, Auth1, Modp2048, Ecp256>> >>,
    << <<Aes256, Aes128, Auth1, Ecp256, NoDh, NoEsn>> >>,
    << <<Auth1, NoDh, Modp2048>> >>,
    << <<Gcm128, Ecp256>>, <<Aes128, Auth256, Auth1, Modp2048, Esn, NoEsn>> >> }

Ike(s) == {File(i, <<>>, "ESP", FALSE) : i \in s}
Child(s, p, l) == {File(<<>>, c, p, l) : c \in s}

IkePairs == {[a |-> x, b |-> y] : x, y \in Ike(IkeClauses)}
EspPairs == {[a |-> x, b |-> y] : x \in Child(ChildClauses, "ESP", FALSE),
                                  y \in Child(ChildClauses, "ESP", FALSE)
                                          \cup Child(ChildClauses, "ESP", TRUE)}
AhPairs == {[a |-> x, b |-> y] : x, y \in Child(ChildClauses, "AH", FALSE)}

MCConfs == IkePairs \cup EspPairs \cup AhPairs
=============================================================================
