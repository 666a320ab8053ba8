---------------------------- MODULE MCIpsecLoad ----------------------------
(* Instances of IpsecLoad for TLC. *)
EXTENDS IpsecLoad

TwoIkes == {1, 2}

Base ==
    [build |-> "openbsd", satype |-> "esp", outer |-> "inet6", inner |-> "inet",
     transport |-> FALSE, natt |-> TRUE, enc |-> 20, integ |-> 20, lifetime |-> TRUE,
     srcid |-> 6, dstid |-> 7, tag |-> 5, iface |-> FALSE, tap |-> TRUE,
     rdomain |-> TRUE, mapped |-> TRUE, ipcomp |-> FALSE,
     initiator |-> FALSE, ikes |-> 2, acts |-> {}, moves |-> "none", faults |-> 0, events |-> 4]

\* Every layout of the messages, through a pair, a move and its end.
Layouts ==
    {[Base EXCEPT !.build = b, !.satype = t, !.outer = o, !.inner = n, !.natt = x,
                  !.enc = k[1], !.integ = k[2], !.ipcomp = z /\ t = "esp",
                  !.iface = y, !.tag = g, !.transport = y, !.initiator = z,
                  !.acts = {"establish", "create", "delete", "free"}, !.events = 2,
                  !.moves = "update"] :
        b \in Builds, t \in {"esp", "ah"}, o \in Families, n \in Families,
        x \in BOOLEAN, k \in {<<20, 0>>, <<16, 20>>, <<0, 32>>}, z \in BOOLEAN,
        y \in BOOLEAN, g \in {0, 5}}

\* Two IKE SAs over the same flows, with failing requests.
Troubles ==
    {[Base EXCEPT !.ipcomp = TRUE, !.faults = 8, !.events = 4, !.moves = "update",
                  !.acts = {"establish", "create", "rekey", "delete", "free"}],
     [Base EXCEPT !.build = "linux", !.faults = 6, !.events = 4, !.moves = "update",
                  !.acts = {"establish", "create", "rekey", "delete", "ikerekey", "free"}]}

\* Longer histories without failures.  "couple" is for one IKE SA at a time:
\* of two with the same selectors it would load the flows of both.
Histories ==
    {[Base EXCEPT !.moves = "update", !.events = 5,
                  !.acts = {"establish", "rekey", "delete", "ikerekey", "free"}],
     [Base EXCEPT !.ipcomp = TRUE, !.events = 5, !.ikes = 1,
                  !.acts = {"establish", "create", "delete", "couple", "free"}],
     [Base EXCEPT !.mapped = FALSE, !.events = 3,
                  !.acts = {"establish", "create", "free"}],
     [Base EXCEPT !.build = "linux", !.events = 5, !.inner = "inet6", !.ikes = 1,
                  !.moves = "update",
                  !.acts = {"establish", "rekey", "couple", "free"}]}

\* A peer whose requests arrive from a new address before it says so.
Roaming ==
    {[Base EXCEPT !.moves = "any", !.events = 5, !.ikes = 1, !.ipcomp = z,
                  !.acts = {"establish", "create", "rekey", "delete", "ikerekey", "couple",
                            "free"}] : z \in BOOLEAN}

AllConfs == Layouts \cup Troubles \cup Histories \cup Roaming

\* PeerLoadedMatches without its exceptions: it fails.
NoneAstray == AtPeerLoaded(st.blind)

\* A peer that moves on Linux.
MovesOnLinux ==
    {[Base EXCEPT !.build = "linux", !.moves = "update", !.events = 2, !.acts = {"establish"}]}

\* Child SAs are negotiated while iked is decoupled.
Decoupling ==
    {[Base EXCEPT !.events = 4, !.acts = {"establish", "couple"}]}
=============================================================================
