------------------------------ MODULE ChildSa ------------------------------
(***************************************************************************)
(* The Child SAs of one established IKE SA: two daemons, each with the SA  *)
(* database and the PF_KEY socket of its kernel, that create, rekey and    *)
(* delete ESP security associations.                                       *)
(*                                                                         *)
(* Source: iked/ikev2.c (CREATE_CHILD_SA and INFORMATIONAL with Delete),   *)
(* iked/pfkey.c (what the kernel starts), iked/policy.c and iked/config.c  *)
(* (the Child SA list).  The record host[e] is the struct iked_sa of end e *)
(* with the parts of struct iked it works on: the list sa_childsas is      *)
(* "csas", the tree sc_activesas is "active".  Every handler runs to its   *)
(* end before the next event (one libevent loop per daemon), so one        *)
(* handler is one action.  Retransmission and message IDs are the subject  *)
(* of IkeExchange: here a request is lost only with its IKE SA (Die).      *)
(* IPCOMP, IKE SA rekeying and flows are left to other modules.            *)
(***************************************************************************)
EXTENDS Pfkey, FiniteSets, SequencesExt

CONSTANTS Initiator, Responder, \* the ends of the IKE SA
          Nonces,               \* a set of numbers: nonces are compared
          Confs                 \* the scenarios (see Init)

VARIABLES conf,     \* the scenario of this behaviour
          left,     \* what the environment may still do
          host,     \* the two daemons with their kernels
          wire      \* the messages in flight

vars == <<conf, left, host, wire>>

Ends == {Initiator, Responder}

Other(e) == IF e = Initiator THEN Responder ELSE Initiator

NoNonce == 0

NoPend == [id |-> 0, spi |-> NoSpi, n |-> NoNonce]

\* struct iked_childsa.  The key stands for the piece of KEYMAT: the nonces
\* of the exchange and which of the two pieces it is.
Csa(spi, peerspi, dir, key) ==
    [spi |-> spi, peerspi |-> peerspi, dir |-> dir, key |-> key,
     alloc |-> dir = "in", paired |-> TRUE, loaded |-> FALSE, rekey |-> FALSE]

Message(to, kind, resp, id, spi, rekey, n, group) ==
    [to |-> to, kind |-> kind, resp |-> resp, id |-> id, spi |-> spi,
     rekey |-> rekey, n |-> n, group |-> group]

-----------------------------------------------------------------------------
(* The list of Child SAs *)

\* TAILQ_FOREACH over a list whose elements are changed in place.
Mapped(s, Op(_)) == FoldLeft(LAMBDA acc, x : Append(acc, Op(x)), <<>>, s)

\* childsa_lookup: the position in the list, 0 if there is none.
Lookup(h, spi) ==
    IF spi = NoSpi THEN 0 ELSE SelectInSeq(h.csas, LAMBDA c : c.spi = spi)

\* Mutant: only the SA with this SPI is removed, not its partner.
MatchesSpiOnly(c, spi, cleanup) ==
    /\ spi = NoSpi \/ c.spi = spi
    /\ ~(cleanup /\ c.loaded)

\* ikev2_childsa_delete, childsa_free: without an SPI every SA that is not
\* loaded (the cleanup of a failed exchange) or, without cleanup, every SA.
Matches(c, spi, cleanup) ==
    /\ spi = NoSpi \/ c.spi = spi \/ c.peerspi = spi
    /\ ~(cleanup /\ c.loaded)

\* childsa_free: the partner of a freed SA has no partner any more.
Unpaired(c, gone) == [c EXCEPT !.paired = @ /\ \A d \in gone : d.spi # c.peerspi]

ChildsaDelete(h, spi, cleanup) ==
    LET gone == {c \in Range(h.csas) : Matches(c, spi, cleanup)}
        stay == SelectSeq(h.csas, LAMBDA c : ~Matches(c, spi, cleanup))
        Unload(a, c) == IF c \in gone THEN SaDelete(a, c) ELSE a
        Unpair(c) == Unpaired(c, gone)
    IN  [FoldLeft(Unload, h, h.csas) EXCEPT
            !.active = @ \ {c.spi : c \in {d \in gone : d.loaded}},
            !.csas = Mapped(stay, Unpair)]

\* config_free_childsas: all of them, when the IKE SA goes.
FreeChildsas(h) == ChildsaDelete(h, NoSpi, FALSE)

\* csa_rekey of an SA and of its partner.
MarkRekey(h, i, mark) ==
    LET c == h.csas[i]
        Mark(d) == IF d.spi = c.spi \/ (c.paired /\ d.spi = c.peerspi)
                   THEN [d EXCEPT !.rekey = mark] ELSE d
    IN  [h EXCEPT !.csas = Mapped(@, Mark)]

\* ikev2_childsa_negotiate: the SA of the exchange's responder direction
\* comes first in the list, its partner after it.
Negotiated(h, dir, spi, peerspi, ni, nr) ==
    LET d2 == IF dir = "in" THEN "out" ELSE "in"
    IN  [h EXCEPT !.csas = @ \o << Csa(spi, peerspi, dir, <<ni, nr, 1>>),
                                   Csa(peerspi, spi, d2, <<ni, nr, 2>>) >>]

\* One turn of the loop of ikev2_childsa_enable.
EnableOne(a, i, outcome) ==
    LET c == a.host.csas[i]
        r == SaAdd(a.host, c, outcome)
    IN  IF ~a.ok \/ c.rekey \/ c.loaded THEN a
        ELSE IF ~r.ok THEN [host |-> r.host, ok |-> FALSE]
        ELSE [host |-> [r.host EXCEPT !.csas[i].loaded = TRUE,
                                      !.active = @ \cup {c.spi}],
              ok   |-> TRUE]

\* ikev2_childsa_enable: loads the SAs that are not loaded yet, up to the
\* first one that fails.  o[2] and o[3] are the outcomes for the first and
\* for the second one.
ChildsaEnable(h, o) ==
    LET new == {i \in DOMAIN h.csas : ~h.csas[i].loaded /\ ~h.csas[i].rekey}
        Turn(a, i) == EnableOne(a, i, IF i = Min(new) THEN o[2] ELSE o[3])
    IN  FoldLeft(Turn, [host |-> h, ok |-> TRUE], [i \in DOMAIN h.csas |-> i])

-----------------------------------------------------------------------------
(* Sending: the operators below return the host and the messages it sends *)

Result(h, out) == [host |-> h, out |-> out]

\* ikev2_send_create_child_sa.  "rekey" is the SPI of the SA to replace or
\* NoSpi; the REKEY_SA notification names its partner.  The reply of the
\* kernel to GETSPI is o[1].
SendCreate(h, e, rekey, group, n, o) ==
    LET c == [h EXCEPT !.simult = NoNonce, !.rekeyspi = NoSpi]
        i == Lookup(h, rekey)
        r == SaInit(c, e, o[1])
        b == [r.host EXCEPT !.flags = @ \cup {"CHILDSA"}, !.reqid = @ + 1,
                            !.pend = [id |-> h.reqid, spi |-> r.spi, n |-> n]]
        Send(spi) == << Message(Other(e), "create", FALSE, h.reqid, r.spi,
                                spi, n, group) >>
    IN  IF h.flags # {} THEN Result(h, <<>>)
        ELSE IF rekey = NoSpi
        THEN IF r.ok THEN Result(b, Send(NoSpi)) ELSE Result(r.host, <<>>)
        ELSE IF i = 0 \/ ~h.csas[i].paired THEN Result(c, <<>>)
        ELSE IF ~r.ok THEN Result(r.host, <<>>)
        ELSE Result([MarkRekey(b, i, TRUE) EXCEPT !.rekeyspi = h.csas[i].peerspi],
                    Send(h.csas[i].peerspi))

\* ikev2_send_ike_e with a Delete payload, IKED_REQ_INF.
SendDelete(h, e, spi) ==
    Result([h EXCEPT !.flags = @ \cup {"INF"}, !.reqid = @ + 1,
                     !.pend = [NoPend EXCEPT !.id = h.reqid]],
           << Message(Other(e), "delete", FALSE, h.reqid, spi, NoSpi, NoNonce, 0) >>)

-----------------------------------------------------------------------------
(* Events from the kernel *)

Busy(h) == h.flags # {}

\* ikev2_child_sa_rekey: both SPIs of a pair lead to the outbound SA.
ChildSaRekey(h, e, spi, n, o) ==
    LET c == h.csas[Lookup(h, spi)]
    IN  IF spi \notin h.active \/ c.rekey THEN [busy |-> FALSE, res |-> Result(h, <<>>)]
        ELSE IF Busy(h) THEN [busy |-> TRUE, res |-> Result(h, <<>>)]
        ELSE [busy |-> FALSE,
              res |-> SendCreate(h, e, IF c.alloc THEN c.peerspi ELSE spi, 1, n, o)]

\* ikev2_child_sa_drop: the kernel has removed this SA, its partner goes too
\* and the peer is told the inbound SPI.
ChildSaDrop(h, e, spi) ==
    LET i == Lookup(h, spi)
        c == h.csas[i]
        g == ChildsaDelete([h EXCEPT !.active = @ \ {spi}, !.csas[i].loaded = FALSE],
                           c.peerspi, FALSE)
    IN  IF spi \notin h.active \/ c.rekey THEN [busy |-> FALSE, res |-> Result(h, <<>>)]
        ELSE IF Busy(h) THEN [busy |-> TRUE, res |-> Result(h, <<>>)]
        ELSE [busy |-> FALSE,
              res |-> SendDelete(g, e, IF c.alloc THEN spi ELSE c.peerspi)]

\* ikev2_child_sa_acquire for a flow of this IKE SA.
ChildSaAcquire(h, e, n, o) ==
    [busy |-> Busy(h), res |-> SendCreate(h, e, NoSpi, 1, n, o)]

\* pfkey_process: an ACQUIRE first asks the kernel for the policy.  Answers
\* that come late are not processed.
Process(h, e, m, n, o) ==
    CASE ~h.up -> [busy |-> FALSE, res |-> Result(h, <<>>)]
      [] h.up /\ m.type = "soft" -> ChildSaRekey(h, e, m.spi, n, o)
      [] h.up /\ m.type = "hard" -> ChildSaDrop(h, e, m.spi)
      [] h.up /\ m.type = "acquire" ->
            ChildSaAcquire(Reply(h, "ok").host, e, n, o)
      [] OTHER -> [busy |-> FALSE, res |-> Result(h, <<>>)]

\* pfkey_timer_cb: until pfkey_postponed is empty; what is busy waits for the
\* next round, behind what the requests of this round have postponed.
RECURSIVE TimerCb(_, _, _, _, _, _)
TimerCb(h, e, out, retry, n, o) ==
    IF h.post = <<>> THEN Result([h EXCEPT !.post = retry], out)
    ELSE LET m == Head(h.post)
             p == Process([h EXCEPT !.post = Tail(@)], e, m, n, o)
         IN  TimerCb(p.res.host, e, out \o p.res.out,
                     IF p.busy THEN Append(retry, m) ELSE retry, n, o)

\* pfkey_dispatch: a readable socket.
DispatchMessage(h, e, n, o) ==
    LET m == Head(h.sock)
        t == TimerCb([h EXCEPT !.sock = Tail(@)], e, <<>>, <<>>, n, o)
        p == Process(t.host, e, m, n, o)
    IN  Result(IF p.busy THEN [p.res.host EXCEPT !.post = Append(@, m)]
               ELSE p.res.host,
               t.out \o p.res.out)

-----------------------------------------------------------------------------
(* Messages from the peer *)

\* ikev2_nonce_cmp(a, b) < 0; equal nonces are not less than each other.
NonceMin(a, b) == IF a < b THEN a ELSE b

\* sa_free with config_free_sa and config_free_childsas.
SaFree(h) ==
    [FreeChildsas(h) EXCEPT
        !.up = FALSE, !.flags = {}, !.pend = NoPend, !.rekeyspi = NoSpi,
        !.simult = NoNonce]

\* Mutant: the nonce of the other exchange is not remembered.
RememberSimultNot(h, csa, ni, nr) == h

\* Simultaneous rekeying: the peer rekeys the SA that we are rekeying.
RememberSimult(h, csa, ni, nr) ==
    IF "CHILDSA" \in h.flags /\ h.rekeyspi = csa.peerspi
    THEN [h EXCEPT !.simult = NonceMin(ni, nr)] ELSE h

\* Why ikev2_resp_create_child_sa refuses a request before it has changed
\* anything: the group of the KE payload, or the SA to be rekeyed.
Refusal(h, e, m) ==
    LET i == Lookup(h, m.rekey)
    IN  IF conf.badke = e /\ m.group = 1 THEN "invalidke"
        ELSE IF m.rekey # NoSpi /\ (i = 0 \/ ~h.csas[i].loaded \/ ~h.csas[i].paired
                                     \/ ~h.csas[Lookup(h, h.csas[i].peerspi)].loaded)
        THEN "notfound" ELSE "none"

\* ikev2_resp_create_child_sa for a Child SA, with the error that
\* ikev2_resp_recv sends when it fails; after the reply went out that is a
\* second response to the same request.
RespCreate(h, e, m, n, o) ==
    LET Answer(kind, spi, nr) ==
            Message(Other(e), kind, TRUE, m.id, spi, NoSpi, nr, 2)
        i  == Lookup(h, m.rekey)
        rekeying == m.rekey # NoSpi
        r  == SaInit(h, e, o[1])
        h1 == Negotiated(r.host, "in", r.spi, m.spi, m.n, n)
        h2 == IF rekeying
              THEN MarkRekey(RememberSimult(h1, h.csas[i], m.n, n), i, TRUE)
              ELSE h1
        en == ChildsaEnable(h2, o)
        h3 == IF rekeying THEN MarkRekey(en.host, i, FALSE) ELSE en.host
    IN  IF Refusal(h, e, m) # "none"
        THEN Result(h, << Answer(Refusal(h, e, m), NoSpi, NoNonce) >>)
        ELSE IF ~r.ok THEN Result(r.host, << Answer("noprop", NoSpi, NoNonce) >>)
        ELSE IF en.ok THEN Result(en.host, << Answer("create", r.spi, n) >>)
        ELSE Result(ChildsaDelete(h3, NoSpi, TRUE),
                    << Answer("create", r.spi, n), Answer("noprop", NoSpi, NoNonce) >>)

\* Mutant: both ends give way.
LosesAlways(h, ni, nr) == h.simult # NoNonce

\* "If the exchange initated by us has smaller nonce, then we have to delete
\* our SAs."
Loses(h, ni, nr) == h.simult # NoNonce /\ NonceMin(ni, nr) < h.simult

\* ikev2_childsa_delete_proposed: the peer is told to drop the new pair.
DeleteProposed(h, e, spi) == SendDelete(h, e, spi)

\* Mutant: with the last argument of the cleanup.
DeleteRekeyedCleanup(h, c) == ChildsaDelete(h, c.peerspi, TRUE)

\* "delete the rekeyed SA pair"
DeleteRekeyed(h, c) == ChildsaDelete(h, c.peerspi, FALSE)

\* ikev2_init_create_child_sa for a Child SA: the answer to our request.  The
\* loser of a simultaneous rekeying deletes what it has proposed, the others
\* load the new pair; then the old pair goes.
InitCreate(h, e, m, o) ==
    LET g  == [h EXCEPT !.pend = NoPend]
        p  == h.pend
        i  == Lookup(h, h.rekeyspi)
        c  == h.csas[i]
        d  == DeleteProposed(g, e, p.spi)
        h1 == Negotiated(g, "out", m.spi, p.spi, p.n, m.n)
        r1 == IF i = 0 THEN Result(h1, <<>>) ELSE SendDelete(h1, e, c.spi)
        en == ChildsaEnable(r1.host, o)
        Done(a) == [a EXCEPT !.flags = @ \ {"CHILDSA"}]
    IN  IF i # 0 /\ Loses(h, p.n, m.n)
        THEN Result(DeleteRekeyed(Done(d.host), c), d.out)
        ELSE IF ~en.ok
        THEN Result(ChildsaDelete(Done(en.host), NoSpi, TRUE), r1.out)
        ELSE IF i # 0
        THEN Result(DeleteRekeyed(Done(en.host), c), r1.out)
        ELSE Result(Done(en.host), <<>>)

\* ikev2_handle_delete in a request, ikev2_resp_informational.
RespDelete(h, e, m) ==
    Result(IF Lookup(h, m.spi) = 0 THEN h ELSE ChildsaDelete(h, m.spi, FALSE),
           << Message(Other(e), "delete", TRUE, m.id, NoSpi, NoSpi, NoNonce, 0) >>)

\* ikev2_handle_notifies: INVALID_KE_PAYLOAD.  The retry rekeys the SPI that
\* the first request has put into sa_rekeyspi.
RetryWithGroup(h, e, m, n, o) ==
    SendCreate([h EXCEPT !.pend = NoPend, !.flags = @ \ {"CHILDSA"}],
               e, h.rekeyspi, m.group, n, o)

\* ikev2_handle_notifies: CHILD_SA_NOT_FOUND.
NotFound(h) == [h EXCEPT !.pend = NoPend, !.flags = @ \ {"CHILDSA"}]

\* ikev2_init_recv and ikev2_resp_recv: a response to a request that is not
\* outstanding is dropped by the exchange layer.
Receive(h, e, m, n, o) ==
    CASE ~h.up \/ (m.resp /\ m.id # h.pend.id) -> Result(h, <<>>)
      [] h.up /\ ~m.resp /\ m.kind = "create" -> RespCreate(h, e, m, n, o)
      [] h.up /\ ~m.resp /\ m.kind = "delete" -> RespDelete(h, e, m)
      [] OTHER ->
          CASE m.kind = "create"    -> InitCreate(h, e, m, o)
            [] m.kind = "delete"    -> Result([h EXCEPT !.pend = NoPend,
                                               !.flags = @ \ {"INF"}], <<>>)
            [] m.kind = "invalidke" -> RetryWithGroup(h, e, m, n, o)
            [] m.kind = "notfound"  -> Result(NotFound(h), <<>>)
            [] m.kind = "noprop"    -> Result(SaFree(h), <<>>)

-----------------------------------------------------------------------------
(* The system *)

\* What the IKE_AUTH exchange leaves behind: one pair, loaded on both sides.
Established(e) ==
    LET r == <<Responder, 0>>
        i == <<Initiator, 0>>
        c == IF e = Initiator
             THEN << Csa(r, i, "out", <<0, 0, 1>>), Csa(i, r, "in", <<0, 0, 2>>) >>
             ELSE << Csa(r, i, "in", <<0, 0, 1>>), Csa(i, r, "out", <<0, 0, 2>>) >>
    IN  [up |-> TRUE, flags |-> {}, rekeyspi |-> NoSpi, simult |-> NoNonce,
         pend |-> NoPend,
         csas |-> << [c[1] EXCEPT !.loaded = TRUE], [c[2] EXCEPT !.loaded = TRUE] >>,
         active |-> {i, r}, sadb |-> {KernelSa(c[1]), KernelSa(c[2])},
         sock |-> <<>>, post |-> <<>>, reqid |-> 1, nspi |-> 1]

Init ==
    /\ conf \in Confs
    /\ left = [soft |-> conf.soft, hard |-> conf.hard, acq |-> conf.acq,
               die |-> conf.die, fault |-> conf.fault]
    /\ host = [e \in Ends |-> Established(e)]
    /\ wire = <<>>

\* 256 random bits: no nonce that is still in use is drawn again.
FreshNonces ==
    Nonces \ UNION ({{c.key[1], c.key[2]} : c \in UNION {Range(host[e].csas) : e \in Ends}}
                    \cup {{host[e].pend.n, host[e].simult} : e \in Ends}
                    \cup {{wire[j].n} : j \in DOMAIN wire})

NoFault == <<"ok", "ok", "ok">>

\* The kernel's answers to GETSPI and to the two requests that load a pair:
\* one of them may go wrong.
KernelAnswers ==
    IF left.fault = 0 THEN {NoFault}
    ELSE {NoFault} \cup {[NoFault EXCEPT ![j] = x] : j \in 1..3, x \in Outcomes}

Step(e, r, rest, o) ==
    /\ host' = [host EXCEPT ![e] = r.host]
    /\ wire' = rest \o r.out
    /\ left' = IF o = NoFault THEN left ELSE [left EXCEPT !.fault = @ - 1]
    /\ UNCHANGED conf

\* One of the messages for e; in order, or overtaken on the way.
Deliver(e) ==
    \E j \in DOMAIN wire, n \in FreshNonces, o \in KernelAnswers :
        /\ wire[j].to = e
        /\ conf.fifo => \A k \in 1..(j - 1) : wire[k].to # e
        /\ Step(e, Receive(host[e], e, wire[j], n, o), RemoveAt(wire, j), o)

\* The event on the PF_KEY socket.
Dispatch(e) ==
    \E n \in FreshNonces, o \in KernelAnswers :
        /\ host[e].sock # <<>>
        /\ Step(e, DispatchMessage(host[e], e, n, o), wire, o)

\* pfkey_timer_ev.
Timer(e) ==
    \E n \in FreshNonces, o \in KernelAnswers :
        /\ host[e].post # <<>>
        /\ Step(e, TimerCb(host[e], e, <<>>, <<>>, n, o), wire, o)

FromKernel(e, sadb, m) ==
    /\ host' = [host EXCEPT ![e].sadb = sadb, ![e].sock = Append(@, m)]
    /\ UNCHANGED <<conf, wire>>

\* The kernel: the soft lifetime of an SA is over.  It is longer than an
\* exchange: the answer that creates the pair has been read by then.
SoftExpire(e) ==
    \E k \in host[e].sadb :
        /\ left.soft > 0 /\ ~k.old
        /\ \A m \in Range(wire) : ~(m.resp /\ m.kind = "create" /\ m.n = k.key[2])
        /\ left' = [left EXCEPT !.soft = @ - 1]
        /\ FromKernel(e, (host[e].sadb \ {k}) \cup {[k EXCEPT !.old = TRUE]}, Soft(k.spi))

\* The kernel: the hard lifetime, which is longer, is over.
HardExpire(e) ==
    \E k \in host[e].sadb :
        /\ left.hard > 0 /\ k.old
        /\ left' = [left EXCEPT !.hard = @ - 1]
        /\ FromKernel(e, host[e].sadb \ {k}, Hard(k.spi))

\* The kernel: a packet for a loaded flow and no outbound SA.
AcquireSa(e) ==
    /\ left.acq > 0 /\ host[e].up
    /\ \A k \in host[e].sadb : k.spi[1] = e
    /\ left' = [left EXCEPT !.acq = @ - 1]
    /\ FromKernel(e, host[e].sadb, Acquire)

\* The IKE SA is given up: the retransmissions of a request or a liveness
\* check have gone unanswered, or the administrator resets it.
Die(e) ==
    /\ host[e].up
    /\ ~host[Other(e)].up \/ left.die > 0
    /\ left' = IF host[Other(e)].up THEN [left EXCEPT !.die = @ - 1] ELSE left
    /\ host' = [host EXCEPT ![e] = SaFree(@)]
    /\ UNCHANGED <<conf, wire>>

Quiet == /\ wire = <<>>
         /\ \A e \in Ends : /\ host[e].sock = <<>> /\ host[e].post = <<>>
                            /\ host[e].pend = NoPend

\* Nothing left to do.
Finished == Quiet /\ UNCHANGED vars

Next == \/ \E e \in Ends : \/ Deliver(e) \/ Dispatch(e) \/ Timer(e) \/ Die(e)
                           \/ SoftExpire(e) \/ HardExpire(e) \/ AcquireSa(e)
        \/ Finished

\* An event is pending at one of the daemons: a message, a readable socket,
\* the timer with something that is not busy, an IKE SA without its peer.
Pending ==
    \/ wire # <<>>
    \/ \E e \in Ends : \/ host[e].sock # <<>>
                       \/ host[e].post # <<>> /\ host[e].flags = {}
                       \/ host[e].up /\ ~host[Other(e)].up

\* A step of a daemon, as opposed to one of the kernels' clocks.
DaemonStep == /\ left'.soft = left.soft /\ left'.hard = left.hard
              /\ left'.acq = left.acq

\* Weak fairness of the daemons' steps together: the event loops serve what
\* is pending, and a request that is lost for good ends the IKE SA.
Fairness == ([]<>~Pending) \/ ([]<><<DaemonStep>>_vars)

Spec == Init /\ [][Next]_vars /\ Fairness

-----------------------------------------------------------------------------
(* Properties *)

Up(e) == host[e].up

BothUp == \A e \in Ends : Up(e)

InKernel(e, c) == \E k \in host[e].sadb : k.spi = c.spi /\ k.key = c.key

\* An SA that iked takes for loaded, and that no exchange is about to
\* replace, is in the kernel with the negotiated key, or the message that
\* says otherwise is waiting to be processed: no failed, late or misattributed
\* answer of the kernel makes iked believe in an SA that is not there.  The
\* tree sc_activesas, through which EXPIRE messages find their SA, holds
\* exactly the loaded SAs, on every path that frees one.
LoadedIsReal ==
    \A e \in Ends :
        /\ \A c \in Range(host[e].csas) :
              c.loaded /\ ~c.rekey =>
                \/ InKernel(e, c)
                \/ Hard(c.spi) \in Range(host[e].sock) \cup Range(host[e].post)
        /\ host[e].active = {c.spi : c \in {d \in Range(host[e].csas) : d.loaded}}

\* When everything has been processed and the kernels made no errors, the
\* kernel of each end has exactly the Child SAs of its IKE SA (none once that
\* is gone); if both IKE SAs are up they have the same pairs with the same
\* keys, and none is left marked as being rekeyed.
Agreement ==
    LET Pairs(S) == {<<x.spi, x.key>> : x \in S}
    IN  Quiet /\ conf.fault = 0 =>
            /\ \A e \in Ends : Pairs(host[e].sadb) = Pairs(Range(host[e].csas))
            /\ BothUp => /\ Pairs(host[Initiator].sadb) = Pairs(host[Responder].sadb)
                         /\ \A e \in Ends : \A c \in Range(host[e].csas) : ~c.rekey

\* Both ends rekeyed the pair at the same time: the comparison of the nonces
\* leaves exactly one new pair, as long as no message overtakes another.
OnePairLeft ==
    Quiet /\ BothUp /\ conf.fifo /\ conf.badke \notin Ends
        /\ conf.hard + conf.acq + conf.fault = 0
    => \A e \in Ends : Len(host[e].csas) = 2

\* The exchanges, named by their nonces, whose pair end e has in its kernel,
\* and the one whose pair it installs when it reads the answer on its way.
Installed(e) ==
    {<<c.key[1], c.key[2]>> : c \in {d \in Range(host[e].csas) :
        d.dir = "out" /\ InKernel(e, d) /\ \E b \in Range(host[e].csas) :
            d.paired /\ b.spi = d.peerspi /\ InKernel(e, b)}}

Coming(e) ==
    {<<host[e].pend.n, m.n>> : m \in {x \in Range(wire) :
        x.to = e /\ x.resp /\ x.kind = "create" /\ x.id = host[e].pend.id}}

\* Rekeying makes before it breaks: as long as no SA reaches its hard lifetime
\* there is a pair that each end has in its kernel, or will have when it
\* reads an answer that is on its way; even while both ends rekey.
TrafficKept ==
    BothUp /\ conf.hard + conf.fault = 0 =>
        (Installed(Initiator) \cup Coming(Initiator))
            \cap (Installed(Responder) \cup Coming(Responder)) # {}

\* An SA in trouble: it is being replaced, or it is loaded according to iked
\* and gone from the kernel.
Unsettled(e) ==
    \E c \in Range(host[e].csas) : c.rekey \/ (c.loaded /\ ~InKernel(e, c))

\* Every rekeying and every expiry comes to an end: the soft or hard EXPIRE
\* may arrive while an exchange is running and be postponed, both lifetimes
\* may race the peer's own exchange, but the SA is replaced or removed.
ExpiryServed ==
    \A e \in Ends : (conf.fault = 0 /\ Unsettled(e)) ~> ~Unsettled(e)
=============================================================================
