----------------------------- MODULE MCAddrPool -----------------------------
(* Instances of AddrPool for TLC. *)
EXTENDS AddrPool, TLC

CONSTANTS s1, s2, s3, c1, c2

Symmetry == Permutations({s1, s2, s3}) \cup Permutations({c1, c2})

\* Host numbers of the pools: a /30, one that starts at host 2, a /31, a /32.
Pool(net, host, upper) == [net |-> net, host |-> host, upper |-> upper]

Config(pool4, pool6, sticky, single) ==
    [pool |-> [f \in Family |-> IF f = 4 THEN pool4 ELSE pool6],
     sticky |-> sticky, single |-> single]

\* Pools of both families, or of IPv6 only.
MCConfigs ==
    {Config(<<Pool(1, 0, 3)>>, <<Pool(1, 2, 4)>>, TRUE, FALSE),
     Config(<<Pool(2, 0, 1), Pool(3, 0, 0)>>, <<Pool(1, 0, 3)>>, FALSE, TRUE),
     Config(<<>>, <<Pool(1, 0, 3)>>, TRUE, FALSE)}

\* What does not hold: the trees are exact.
AlwaysExact == Exact(env)

\* Free or used, the broadcast address, and out of range.
SomeRequests == {<<1, 1>>, <<1, 3>>, <<2, 4>>}

=============================================================================
