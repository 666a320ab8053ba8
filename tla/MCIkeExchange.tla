--------------------------- MODULE MCIkeExchange ---------------------------
(* Instances of IkeExchange for TLC. *)
EXTENDS IkeExchange

\* After IKE_SA_INIT and IKE_AUTH the initiator has used the ids 0 and 1.
AfterAuth == [e \in End |-> IF e = "I" THEN 2 ELSE 0]

\* After an IKE SA rekey both ends start from 0.
AfterRekey == [e \in End |-> 0]

\* Requests the ends may start.
OneEach  == [e \in End |-> 1]
TwoEach  == [e \in End |-> 2]
TwoByOne == [e \in End |-> IF e = "I" THEN 2 ELSE 1]

Setup(kinds, events, sticky) == [kinds |-> kinds, events |-> events, sticky |-> sticky]

\* Probes and child SAs with failures of the kernel, and the rekeying of the
\* IKE SA with all that may happen to an SA meanwhile.
SafetySetups ==
    {Setup({"alive", "crekey"}, {"resetid", "kernelfail"}, FALSE),
     Setup({"rekey", "child"}, {"reload", "replace", "addrlost"}, TRUE)}

\* Requests of all exchanges, with a reload and a reset that frees the SA at once.
LiveSetups ==
    {Setup({"alive", "rekey", "delchild", "child"}, {"reload", "resetsa"}, FALSE)}
=============================================================================
