------------------------------ MODULE MCDaemon ------------------------------
(* Instances of Daemon.                                                    *)
EXTENDS Daemon

Addr(af, bits, mask) == [af |-> af, bits |-> bits, mask |-> mask]
V4(bits) == Addr("v4", bits, 2)

V6(bits) == Addr("v6", bits, 2)

\* Peers: their address, the one they send to, a proposal and an identity.
Peer1 == [addr |-> V4(<<0, 0>>), local |-> V4(<<1, 1>>), prop |-> "a", id |-> "one"]
Peer2 == [addr |-> V4(<<1, 0>>), local |-> V4(<<0, 1>>), prop |-> "b", id |-> "two"]
Peer6 == [addr |-> V6(<<0, 1>>), local |-> V6(<<1, 1>>), prop |-> "a", id |-> "one"]

Pol(af, peer, props, id, quick, active, flows) ==
    [af |-> af, peer |-> peer, local |-> AnyAddr, skip |-> FALSE, quick |-> quick,
     transport |-> FALSE, active |-> active, peerid |-> id, localid |-> "",
     props |-> props, flows |-> flows, dflt |-> FALSE]

Joe(pass)  == <<[name |-> "joe", pass |-> pass]>>
File(pols) == [pols |-> pols, users |-> Joe("x"), error |-> FALSE, passive |-> FALSE]

\* Policies by identity, by network, and for everybody.
ById   == Pol("v4", Peer1.addr, {"a"}, "one", FALSE, FALSE, {"f"})
ByNet  == Pol("v4", Addr("v4", <<0, 0>>, 1), {"a", "b"}, "", FALSE, FALSE, {"f"})
AnyOne == Pol("v4", Addr("v4", <<0, 0>>, 0), {"a"}, "", TRUE, FALSE, {"f"})
Here   == [ByNet EXCEPT !.local = Addr("v4", <<0, 0>>, 1)]
Six    == Pol("v6", Addr("v6", <<0, 0>>, 1), {"a"}, "", FALSE, FALSE, {})
Opens  == Pol("v4", Peer1.addr, {"a"}, "", FALSE, TRUE, {"f"})

Quiet == [files |-> {File(<<ById>>)}, faults |-> {}, loads |-> 1, peers |-> {},
          ops |-> {}, clients |-> 0, requests |-> 0, sas |-> 0, rekey |-> FALSE,
          running |-> TRUE, natt |-> "default", certreqs |-> 1]

\* Any process ends at any time.
Ending == [Quiet EXCEPT !.faults = {"term", "crash"}, !.running = FALSE,
                        !.files = @ \cup {[File(<<ById>>) EXCEPT !.error = TRUE]}]

EndingNatt == [Ending EXCEPT !.faults = {}, !.natt = "force", !.certreqs = 2]

\* Operators come and go, with more connections than descriptors.
Asking == [Quiet EXCEPT !.clients = 3, !.requests = 3,
    !.ops = {[type |-> "show_sa"], [type |-> "show_certstore"], [type |-> "notify"]}]

\* They come and go while the daemon ends.
AskingLate == [Asking EXCEPT !.faults = {"term", "crash"}, !.clients = 2, !.requests = 1]

\* An operator gives commands while an SA is there.
Commands == [Quiet EXCEPT !.clients = 1, !.requests = 2, !.peers = {Peer1}, !.sas = 1,
    !.ops = {[type |-> "reset_id", id |-> "one"], [type |-> "verbose"],
             [type |-> "couple"], [type |-> "mode", passive |-> TRUE],
             [type |-> "reload"], [type |-> "reset", mode |-> "all"],
             [type |-> "reset", mode |-> "user"],
             [type |-> "reset", mode |-> "sa"], [type |-> "reset", mode |-> "policy"],
             [type |-> "reset", mode |-> "ca"]}]

\* SAs live through reloads of different files, also of one with errors.
Reloads == [Quiet EXCEPT
    !.files = {File(<<AnyOne, ByNet>>), [File(<<ByNet, ById>>) EXCEPT !.users = Joe("y")]},
    !.loads = 2, !.peers = {Peer1}, !.sas = 2]
Again == [Reloads EXCEPT !.loads = 3, !.sas = 1,
    !.files = {File(<<AnyOne>>), [File(<<ByNet>>) EXCEPT !.users = <<>>, !.error = TRUE]}]

\* The daemon ends during reloads.
ReloadsEnd == [Quiet EXCEPT !.loads = 3, !.faults = {"term"}]

\* An SA is being rekeyed, or opened again, during a reload, and an operator
\* resets it.
Rekeys == [Quiet EXCEPT !.files = {File(<<Opens>>)}, !.loads = 2, !.peers = {Peer1},
                        !.sas = 2, !.rekey = TRUE, !.clients = 1, !.requests = 1,
                        !.ops = {[type |-> "reset_id", id |-> "one"]}]

\* A file with a default policy is loaded again, or one without it.
Default == [Quiet EXCEPT !.files = {File(<<[ById EXCEPT !.dflt = TRUE]>>), File(<<ByNet>>)},
                         !.loads = 2, !.peers = {Peer1}, !.sas = 1]

\* Searches over longer lists.
Searches(pols) ==
    [Quiet EXCEPT !.files = {File(pols)}, !.peers = {Peer1, Peer2, Peer6}, !.loads = 2]
Lists == {Searches(<<a, b, c, d>>) : a \in {ById, Six}, b \in {ByNet, Here, Six},
                                     c \in {Here, AnyOne}, d \in {ById, AnyOne, Six}}

\* A policy that is not to be evaluated for incoming connections comes first.
Skips == Searches(<<[ById EXCEPT !.skip = TRUE], ByNet, AnyOne>>)

MCConfs ==
    {Ending, EndingNatt, Asking, AskingLate, Commands, Reloads, Again, ReloadsEnd,
     Rekeys, Default, Skips} \cup Lists

DefaultConfs == {Default}
RekeyConfs   == {Rekeys}
SkipConfs    == {[Skips EXCEPT !.running = FALSE]}

\* PolicyRefs and ActivatedWhole without their exceptions: they fail.
RefsExact    == Refs
ReadyForThis ==
    Takes(Parent, "ikev2") /\ Next1(Parent, "ikev2").type = "mode" =>
        ca.loaded >= Next1(Parent, "ikev2").cur
AgainConfs   == {Again}
=============================================================================
