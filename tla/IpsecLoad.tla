------------------------------ MODULE IpsecLoad -----------------------------
(***************************************************************************)
(* What iked keeps in the kernel: the child SAs with their IPCOMP SAs and  *)
(* the flows of the IKE SAs, through negotiation, rekeying, the address    *)
(* changes of MOBIKE, the end of an IKE SA, and "ikectl couple" and        *)
(* "ikectl decouple".                                                      *)
(*                                                                         *)
(* Source: iked/pfkey.c, iked/ikev2.c, iked/policy.c, iked/config.c.  The  *)
(* kernel is external: it finds an SA by its SPI and its destination       *)
(* address and a flow by its selectors.  The functions of the code are     *)
(* operators from the record st to its next value.  One request of an      *)
(* action may go wrong (st.bad): "refused" by the kernel, or "late", which *)
(* is carried out and answered after the timeout.                          *)
(***************************************************************************)
EXTENDS PfkeyMsg, FiniteSets

CONSTANTS
    Ikes,      \* the places of the IKE SAs, 1..n
    Confs      \* build, message fields, and the events of an instance

ASSUME IkesAssumption == Ikes \subseteq Nat /\ IsFiniteSet(Ikes)

VARIABLES
    conf,      \* the configuration, chosen once
    st,        \* the daemon and its kernel
    left       \* events that may still happen

vars == <<conf, st, left>>

Peers == {"a", "b"}

\* The selectors of the policy's flow; Linux needs one for forwarding, too.
FlowKeys == IF conf.build = "linux" THEN <<"fwd", "out", "in">> ELSE <<"out", "in">>

NoSa == [live |-> FALSE, est |-> FALSE, peer |-> "none", peer_loaded |-> "none"]

NoFault == [at |-> 0, how |-> "ok"]

Init ==
    /\ conf \in Confs
    /\ left = conf.events
    /\ st = [sas |-> [i \in Ikes |-> NoSa], csas |-> <<>>, flows |-> <<>>,
             activesas |-> {}, activeflows |-> {}, decoupled |-> FALSE,
             sadb |-> {}, larval |-> {}, spd |-> {},
             n |-> 0, bad |-> NoFault, ret |-> "ok", sent |-> {},
             blind |-> {}, astray |-> {}, apart |-> FALSE, trouble |-> FALSE]

-----------------------------------------------------------------------------
(* Objects.  A child SA is known by its place in csas, which stands for    *)
(* its SPI, and by "e" (ESP or AH) or "z" (the IPCOMP SA bundled to it).   *)

Pair(n) == IF n % 2 = 1 THEN {n, n + 1} ELSE {n - 1, n}

OfSa(s, i) == {n \in DOMAIN s.csas : s.csas[n].sa = i /\ ~s.csas[n].gone}
FlowsOf(s, i) == {n \in DOMAIN s.flows : s.flows[n].sa = i /\ ~s.flows[n].gone}

IsLoaded(s, n, t) == IF t = "e" THEN s.csas[n].loaded ELSE s.csas[n].zloaded

\* csa_loaded; "blind" remembers what was marked while decoupled.
MarkSa(s, n, t, b) ==
    LET id == <<n, t>>
        c == IF t = "e" THEN [s.csas[n] EXCEPT !.loaded = b]
             ELSE [s.csas[n] EXCEPT !.zloaded = b]
    IN  [s EXCEPT !.csas[n] = c,
                  !.blind = IF b /\ s.decoupled THEN @ \cup {id} ELSE @ \ {id}]

\* flow_loaded
MarkFlow(s, n, b) ==
    LET id == <<n, "f">>
    IN  [s EXCEPT !.flows[n].loaded = b, !.astray = @ \ {id},
                  !.blind = IF b /\ s.decoupled THEN @ \cup {id} ELSE @ \ {id}]

\* The SAs to the peer of the IKE SA i that are loaded while sa_peer is not
\* sa_peer_loaded; "astray" remembers the SAs and flows that have in the kernel
\* another address than iked thinks.
AwayFrom(s, i) == s.sas[i].peer_loaded \notin {"none", s.sas[i].peer}
OutLoaded(s, i) ==
    {id \in OfSa(s, i) \X {"e", "z"} : s.csas[id[1]].out /\ IsLoaded(s, id[1], id[2])}
Away(s, i) == IF AwayFrom(s, i) THEN OutLoaded(s, i) ELSE {}

Ret(s, r) == [s EXCEPT !.ret = r]

\* The walks over the lists, in the order of insertion.
ForEach(s, ids, Turn(_, _)) ==
    LET last == IF ids = {} THEN 0 ELSE CHOOSE m \in ids : \A n \in ids : n <= m
        walk[n \in 0..last] ==
            IF n = 0 THEN s
            ELSE IF n \in ids THEN Turn(walk[n - 1], n) ELSE walk[n - 1]
    IN  walk[last]

-----------------------------------------------------------------------------
(* pfkey.c *)

\* pfkey_write and pfkey_reply: nothing is written while decoupled, and a
\* request that wants an answer then fails.  "done" is the state after the
\* kernel has carried out the request, "err" its answer.
pfkey_write(s, m, wants, done, err) ==
    LET n == s.n + 1
        how == IF n = s.bad.at THEN s.bad.how ELSE "ok"
        out == IF how # "refused" /\ err = "ok" THEN done ELSE s
    IN  IF s.decoupled THEN Ret(s, IF wants THEN "error" ELSE "ok")
        ELSE IF Written(m) # Declared(m) THEN [Ret(s, "error") EXCEPT !.sent = @ \cup {m}]
        ELSE [out EXCEPT !.n = n, !.sent = @ \cup {m},
                         !.trouble = @ \/ how # "ok",
                         !.ret = CASE how = "refused" -> "error"
                                   [] how = "late"    -> "timeout"
                                   [] OTHER           -> err]

\* The destination by which the kernel knows the SA n.
Dst(s, n, addr) == IF s.csas[n].out THEN addr ELSE "local"

SaConf(t) == [conf EXCEPT !.satype = IF t = "z" THEN "ipcomp" ELSE @,
                          !.enc = IF t = "z" THEN 0 ELSE @,
                          !.integ = IF t = "z" THEN 0 ELSE @]

\* What the kernel answers to a request about the SA id, of which it has the
\* entries e.
SaAnswer(s, action, id, e) ==
    IF action = "add" \/ e # {} \/ (action = "update" /\ id \in s.larval)
    THEN "ok" ELSE "esrch"

\* The request done: an SA that is there is not added again.
SaDone(s, action, id, e, new) ==
    CASE action = "delete" -> [s EXCEPT !.sadb = @ \ e]
      [] action = "add" /\ e # {} -> s
      [] OTHER -> [s EXCEPT !.sadb = (@ \ e) \cup {new}, !.larval = @ \ {id}]

\* pfkey_sa
SaRequest(s, action, n, t) ==
    LET sa  == s.sas[s.csas[n].sa]
        old == IF Moved(conf.build, action, s.csas[n].out) THEN sa.peer_loaded ELSE sa.peer
        e   == {x \in s.sadb : x.id = <<n, t>> /\ x.dst = Dst(s, n, old)}
        new == [id |-> <<n, t>>, dst |-> Dst(s, n, sa.peer), peer |-> sa.peer]
    IN  IF ~Loadable(action, SaConf(t)) THEN Ret(s, "error")
        ELSE pfkey_write(s, pfkey_sa(conf.build, action, s.csas[n].out, SaConf(t)), FALSE,
                         SaDone(s, action, <<n, t>>, e, new),
                         SaAnswer(s, action, <<n, t>>, e))

\* pfkey_sa_check_exists
Exists(s, n, t) ==
    LET dst == Dst(s, n, s.sas[s.csas[n].sa].peer)
    IN  pfkey_write(s, pfkey_sa_lookup(conf.build, SaConf(t)), TRUE, s,
                    IF \E x \in s.sadb : x.id = <<n, t>> /\ x.dst = dst
                    THEN "ok" ELSE "esrch")

\* Mutant: an SA counts as unloaded whatever the kernel said.
SaDeleteUnchecked(s, n, t) ==
    IF ~IsLoaded(s, n, t) THEN Ret(s, "ok") ELSE Ret(MarkSa(s, n, t, FALSE), "ok")

\* A refused deletion is an error only if the SA is there.
Refused(x, n, t) ==
    IF x.ret = "ok" THEN Ret(x, "error") ELSE Ret(MarkSa(x, n, t, FALSE), "ok")
Deleted(r, n, t) ==
    IF r.ret \in {"ok", "timeout"} THEN Ret(MarkSa(r, n, t, FALSE), "ok")
    ELSE Refused(Exists(r, n, t), n, t)

\* pfkey_sa_delete: it names sa_peer, whatever the kernel knows the SA by.
pfkey_sa_delete(s, n, t) ==
    IF ~IsLoaded(s, n, t) THEN Ret(s, "ok")
    ELSE Deleted(SaRequest([s EXCEPT !.astray = @ \cup ({<<n, t>>} \cap Away(s, s.csas[n].sa))],
                           "delete", n, t), n, t)

\* The end of pfkey_sa_add: an IPCOMP SA is grouped with its ESP SA.
Grouped(g, n, t) ==
    IF g.ret = "error" THEN Ret(pfkey_sa_delete(g, n, t), "error")
    ELSE Ret(MarkSa(g, n, t, TRUE), "ok")
Loaded(s, n, t) ==
    IF t = "e" \/ conf.build # "openbsd" THEN Ret(MarkSa(s, n, t, TRUE), "ok")
    ELSE Grouped(pfkey_write(s, pfkey_sagroup(conf), FALSE, s, "ok"), n, t)

\* A new SA: after a timeout iked looks whether the kernel has it.
AddLate(x, n, t) ==
    IF x.ret = "ok" THEN Ret(x, "ok") ELSE Ret(pfkey_sa_delete(x, n, t), "error")
AddNew(r, n, t) ==
    CASE r.ret = "ok"      -> r
      [] r.ret = "timeout" -> AddLate(Exists(r, n, t), n, t)
      [] OTHER             -> Ret(pfkey_sa_delete(r, n, t), "error")

\* An SPI allocated by GETSPI: if the kernel has forgotten it, the SA is added.
UpdateOld(r, n, t) ==
    IF r.ret = "esrch" /\ r.csas[n].alloc /\ ~IsLoaded(r, n, t)
    THEN SaRequest(r, "add", n, t) ELSE Ret(r, IF r.ret = "ok" THEN "ok" ELSE "error")

\* pfkey_sa_add
AfterAdd(r, n, t) == IF r.ret = "error" THEN r ELSE Loaded(r, n, t)
pfkey_sa_add(s, n, t) ==
    AfterAdd(IF s.csas[n].alloc \/ IsLoaded(s, n, t)
             THEN UpdateOld(SaRequest(s, "update", n, t), n, t)
             ELSE AddNew(SaRequest(s, "add", n, t), n, t), n, t)

\* pfkey_flow_add: a timeout counts as success.
FlowAdded(r, n) == IF r.ret = "error" THEN r ELSE Ret(MarkFlow(r, n, TRUE), "ok")
pfkey_flow_add(s, n) ==
    LET f == s.flows[n]
        done == [s EXCEPT !.spd = {x \in @ : x.key # f.key}
                                  \cup {[key |-> f.key, peer |-> s.sas[f.sa].peer]}]
    IN  IF f.loaded THEN Ret(s, "ok")
        ELSE FlowAdded(pfkey_write(s, pfkey_flow(conf.build, conf, TRUE), FALSE, done, "ok"), n)

\* pfkey_flow_delete
FlowDeleted(r, n) ==
    IF r.ret \in {"error", "esrch"} THEN Ret(r, "error") ELSE Ret(MarkFlow(r, n, FALSE), "ok")
pfkey_flow_delete(s, n) ==
    LET e == {x \in s.spd : x.key = s.flows[n].key}
    IN  IF ~s.flows[n].loaded THEN Ret(s, "ok")
        ELSE FlowDeleted(pfkey_write(s, pfkey_flow(conf.build, conf, FALSE), FALSE,
                                     [s EXCEPT !.spd = @ \ e],
                                     IF e = {} THEN "esrch" ELSE "ok"), n)

\* pfkey_sa_update_addresses: nothing to do when the peer is where it was.
pfkey_sa_update_addresses(s, n, t) ==
    LET sa == s.sas[s.csas[n].sa]
    IN  IF sa.peer_loaded \in {"none", sa.peer} THEN Ret(s, "ok")
        ELSE SaRequest(s, "update_addresses", n, t)

\* pfkey_couple: everything is loaded, with the address sa_peer, or everything
\* is unloaded.
pfkey_couple(s, couple) ==
    LET ids == {n \in DOMAIN s.csas : ~s.csas[n].gone}
        One(a, n, t) ==
            IF couple THEN IF IsLoaded(a, n, t) THEN a ELSE pfkey_sa_add(a, n, t)
            ELSE pfkey_sa_delete(a, n, t)
        Bundled(b, n) == IF conf.ipcomp THEN One(b, n, "z") ELSE b
        Csa(a, n) == Bundled(One(a, n, "e"), n)
        Flow(a, n) == IF couple THEN pfkey_flow_add(a, n) ELSE pfkey_flow_delete(a, n)
        PerSa(a, i) == ForEach(ForEach(a, OfSa(s, i), Csa), FlowsOf(s, i), Flow)
        walked == ForEach([s EXCEPT !.decoupled = FALSE], Ikes, PerSa)
        away == {i \in Ikes : couple /\ AwayFrom(s, i)}
        lost == UNION {OutLoaded(walked, i) \cup (FlowsOf(s, i) \X {"f"}) : i \in away}
    IN  IF s.decoupled = ~couple THEN Ret(s, "ok")
        ELSE [walked EXCEPT !.decoupled = ~couple, !.apart = TRUE, !.ret = "ok",
                            !.astray = @ \cup lost]

-----------------------------------------------------------------------------
(* ikev2.c, policy.c, config.c *)

\* The first part of ikev2_childsa_negotiate: the flows of the policy, unless
\* the IKE SA has them already.
NegotiateFlows(s, i) ==
    LET Flow(k) == [sa |-> i, key |-> k, loaded |-> FALSE, gone |-> FALSE]
    IN  IF FlowsOf(s, i) # {} THEN s
        ELSE [s EXCEPT !.flows = @ \o [k \in DOMAIN FlowKeys |-> Flow(FlowKeys[k])]]

\* The second part: a pair of child SAs; GETSPI has allocated the inbound one.
NegotiatePair(s, i, initiator) ==
    LET Csa(out) == [sa |-> i, out |-> out, alloc |-> ~out, loaded |-> FALSE,
                     zloaded |-> FALSE, rekey |-> FALSE, gone |-> FALSE]
        n == Len(s.csas) + IF initiator THEN 2 ELSE 1
    IN  [s EXCEPT !.csas = @ \o <<Csa(initiator), Csa(~initiator)>>,
                  !.larval = @ \cup {<<n, "e">>} \cup IF conf.ipcomp THEN {<<n, "z">>} ELSE {},
                  !.sent = @ \cup {pfkey_sa_getspi(conf)}]

ChildsaNegotiate(s, i, initiator) == NegotiatePair(NegotiateFlows(s, i), i, initiator)

\* sc_activesas.  RB_FIND can find the SA itself, when it was unloaded by
\* "ikectl decouple".
Activate(s, n) ==
    IF n \in s.activesas
    THEN [MarkSa(s, n, "e", FALSE) EXCEPT !.csas[n].rekey = TRUE]
    ELSE [s EXCEPT !.activesas = @ \cup {n}]

\* One turn of the first loop of ikev2_childsa_enable; an IPCOMP SA that
\* cannot be loaded is not missed.
Enabled(e, n) ==
    IF e.ret # "ok" THEN Ret(e, "error")
    ELSE Ret(Activate(IF conf.ipcomp THEN pfkey_sa_add(e, n, "z") ELSE e, n), "ok")
EnableSa(s, n) ==
    LET c == s.csas[n]
    IN  IF s.ret # "ok" \/ c.rekey \/ c.loaded \/ c.zloaded THEN s
        ELSE Enabled(pfkey_sa_add(s, n, "e"), n)

\* Mutant: the flow that is replaced keeps its mark.
ReplaceFlowOnly(s, n) ==
    LET same == {o \in s.activeflows : s.flows[o].key = s.flows[n].key}
    IN  [s EXCEPT !.activeflows = (@ \ same) \cup {n}]

\* sc_activeflows: a flow with the same selectors, perhaps of another IKE
\* SA, gives way to the new one.
ReplaceFlow(s, n) ==
    LET same == {o \in s.activeflows : s.flows[o].key = s.flows[n].key}
        Unmark(a, o) == MarkFlow(a, o, FALSE)
    IN  [ForEach(s, same, Unmark) EXCEPT !.activeflows = (@ \ same) \cup {n}]

\* What both users of a loaded flow do before they load it again.
UnloadFlow(s, n) ==
    IF s.flows[n].loaded
    THEN MarkFlow(pfkey_flow_delete([s EXCEPT !.activeflows = @ \ {n}], n), n, FALSE) ELSE s
ReloadFlow(s, n) == pfkey_flow_add(UnloadFlow(s, n), n)

\* One turn of the second loop of ikev2_childsa_enable.
FlowEnabled(r, n) == IF r.ret # "ok" THEN r ELSE ReplaceFlow(r, n)
EnableFlow(s, n, changed) ==
    IF s.ret # "ok" \/ (s.flows[n].loaded /\ ~changed) THEN s
    ELSE FlowEnabled(ReloadFlow(s, n), n)

\* The end of ikev2_childsa_enable and ikev2_update_sa_addresses; "stay" are
\* the SAs that the kernel still knows by the address before.
PeerLoaded(s, i, stay) ==
    IF s.ret # "ok" THEN s
    ELSE [s EXCEPT !.sas[i].peer_loaded = s.sas[i].peer, !.astray = @ \cup stay]

\* ikev2_childsa_enable: a policy that routes to an interface loads no flows.
\* The SAs that are loaded already stay where they are.
ikev2_childsa_enable(s, i) ==
    LET Flow(a, n) == EnableFlow(a, n, s.sas[i].peer_loaded # s.sas[i].peer)
    IN  PeerLoaded(ForEach(ForEach(Ret(s, "ok"), OfSa(s, i), EnableSa),
                           IF conf.iface THEN {} ELSE FlowsOf(s, i), Flow), i, Away(s, i))

\* ikev2_childsa_delete of the SAs "which"
DeleteBundled(e, n) == IF e.csas[n].zloaded THEN pfkey_sa_delete(e, n, "z") ELSE e
ChildsaDelete(s, which) ==
    LET One(a, n) ==
            LET b == [a EXCEPT !.activesas = IF a.csas[n].loaded THEN @ \ {n} ELSE @]
            IN  [DeleteBundled(pfkey_sa_delete(b, n, "e"), n)
                 EXCEPT !.csas[n].gone = TRUE, !.ret = "ok"]
    IN  ForEach(s, which, One)

\* After a failure: what is not loaded is deleted.
Cleanup(s, i) == ChildsaDelete(s, {n \in OfSa(s, i) : ~s.csas[n].loaded})

MarkRekey(s, which, b) ==
    [s EXCEPT !.csas = [n \in DOMAIN s.csas |->
                          IF n \in which THEN [s.csas[n] EXCEPT !.rekey = b] ELSE s.csas[n]]]

\* config_free_childsas, sa_free_flows and their caller config_free_sa
FreeChildsas(s, i) == ChildsaDelete(s, OfSa(s, i))
FreeFlows(s, i) ==
    LET One(a, n) ==
            LET d == pfkey_flow_delete([a EXCEPT !.activeflows =
                                          IF a.flows[n].loaded THEN @ \ {n} ELSE @], n)
            IN  [d EXCEPT !.flows[n].gone = TRUE, !.ret = "ok"]
    IN  ForEach(s, FlowsOf(s, i), One)
SaFree(s, i) == [FreeFlows(FreeChildsas(s, i), i) EXCEPT !.sas[i] = NoSa]

\* Mutant: the IPCOMP SA stays where it is.
MoveBundledNot(e, n) == e

\* ikev2_update_sa_addresses: the IPCOMP SA moves with its ESP SA.  Only on
\* OpenBSD does the request name the address by which the kernel knows an SA
\* to the peer; elsewhere it is refused, which nobody looks at.
MoveBundled(e, n) ==
    IF e.csas[n].zloaded THEN pfkey_sa_update_addresses(e, n, "z") ELSE e
FlowMoved(r, n) == IF r.flows[n].loaded THEN ReplaceFlow(r, n) ELSE r
UpdateSaAddresses(s, i) ==
    LET Sa(a, n) == IF ~a.csas[n].loaded THEN a
                    ELSE MoveBundled(pfkey_sa_update_addresses(a, n, "e"), n)
        Flow(a, n) == FlowMoved(ReloadFlow(a, n), n)
    IN  PeerLoaded(Ret(ForEach(ForEach(s, OfSa(s, i), Sa), FlowsOf(s, i), Flow), "ok"), i,
                   IF conf.build = "openbsd" THEN {} ELSE Away(s, i))

\* ikev2_ikesa_enable: the new IKE SA inherits the addresses, the flows and
\* the child SAs.
IkesaEnable(s, i, j) ==
    [s EXCEPT !.sas = [@ EXCEPT ![j] = s.sas[i], ![i] = [s.sas[i] EXCEPT !.est = FALSE]],
              !.csas = [n \in DOMAIN @ |-> IF n \in OfSa(s, i) THEN [@[n] EXCEPT !.sa = j] ELSE @[n]],
              !.flows = [n \in DOMAIN @ |-> IF n \in FlowsOf(s, i) THEN [@[n] EXCEPT !.sa = j] ELSE @[n]]]

-----------------------------------------------------------------------------
(* Actions *)

\* At most one request of a history goes wrong.
Faults ==
    {NoFault} \cup IF st.trouble THEN {} ELSE [at : 1..conf.faults, how : {"refused", "late"}]

\* The state in which the handler starts.
Fresh(bad) == [st EXCEPT !.n = 0, !.bad = bad, !.sent = {}, !.ret = "ok"]

\* A handler has run: an event less is left.
Done(s) ==
    /\ left > 0
    /\ left' = left - 1
    /\ st' = [s EXCEPT !.n = 0, !.bad = NoFault, !.ret = "ok"]
    /\ UNCHANGED conf

\* Addresses from which a message of the IKE SA i may come.
From(i) == IF conf.moves = "any" THEN Peers ELSE {st.sas[i].peer}

\* The end of IKE_AUTH at either end.
Establish(i, p, bad) ==
    LET s == [Fresh(bad) EXCEPT !.sas[i] = [NoSa EXCEPT !.live = TRUE, !.peer = p]]
        Est(e) == [e EXCEPT !.sas[i].est = e.ret = "ok"]
    IN  /\ "establish" \in conf.acts
        /\ i <= conf.ikes /\ ~st.sas[i].live
        /\ \A j \in Ikes : j < i => st.sas[j].live
        /\ Done(Est(ikev2_childsa_enable(ChildsaNegotiate(s, i, conf.initiator), i)))

\* ikev2_resp_create_child_sa: a new pair, or one in place of the pair of n
\* (0: none), which the peer is going to delete.  A pair that is not loaded
\* is not replaced.
RespCreate(i, p, n, bad) ==
    LET old == IF n = 0 THEN {} ELSE Pair(n)
        s == MarkRekey([Fresh(bad) EXCEPT !.sas[i].peer = p], old, TRUE)
        End(e) == IF e.ret = "ok" THEN e ELSE Cleanup(MarkRekey(e, old, FALSE), i)
    IN  /\ "create" \in conf.acts
        /\ st.sas[i].est
        /\ \A m \in old : m \in OfSa(st, i) /\ st.csas[m].loaded /\ ~st.csas[m].rekey
        /\ Done(End(ikev2_childsa_enable(ChildsaNegotiate(s, i, FALSE), i)))

\* ikev2_child_sa_rekey and ikev2_init_create_child_sa: an SA that expires is
\* in sc_activesas; the rekeyed pair is deleted at once.
InitCreate(i, p, n, bad) ==
    LET old == Pair(n)
        s == MarkRekey([Fresh(bad) EXCEPT !.sas[i].peer = p], old, TRUE)
        End(e) == IF e.ret = "ok" THEN ChildsaDelete(e, old) ELSE Cleanup(e, i)
    IN  /\ "rekey" \in conf.acts
        /\ st.sas[i].est
        /\ n \in st.activesas /\ ~st.csas[n].rekey
        /\ old \subseteq OfSa(st, i)
        /\ Done(End(ikev2_childsa_enable(ChildsaNegotiate(s, i, TRUE), i)))

\* ikev2_handle_delete: the peer deletes a pair.
HandleDelete(i, p, n, bad) ==
    /\ "delete" \in conf.acts
    /\ n \in OfSa(st, i)
    /\ st.sas[i].est
    /\ Done(ChildsaDelete([Fresh(bad) EXCEPT !.sas[i].peer = p], Pair(n) \cap OfSa(st, i)))

\* An INFORMATIONAL request with UPDATE_SA_ADDRESSES.
Move(i, p, bad) ==
    /\ conf.moves # "none"
    /\ st.sas[i].est
    /\ p # st.sas[i].peer \/ p # st.sas[i].peer_loaded
    /\ Done(UpdateSaAddresses([Fresh(bad) EXCEPT !.sas[i].peer = p], i))

\* The IKE SA i is replaced by j; the old one is freed later.
RekeyIke(i, j) ==
    /\ "ikerekey" \in conf.acts
    /\ st.sas[i].est
    /\ ~st.sas[j].live
    /\ Done(IkesaEnable(Fresh(NoFault), i, j))

\* An IKE SA ends.
Free(i, bad) ==
    /\ "free" \in conf.acts
    /\ st.sas[i].live
    /\ Done(SaFree(Fresh(bad), i))

\* config_getcoupled
Couple(b, bad) ==
    /\ "couple" \in conf.acts
    /\ st.decoupled = b
    /\ Done(pfkey_couple(Fresh(bad), b))

Next ==
    \/ \E i \in Ikes, p \in Peers, bad \in Faults : Establish(i, p, bad)
    \/ \E i \in Ikes : \E p \in From(i), n \in {0} \cup OfSa(st, i), bad \in Faults :
          RespCreate(i, p, n, bad)
    \/ \E i \in Ikes : \E p \in From(i), n \in OfSa(st, i), bad \in Faults :
          InitCreate(i, p, n, bad) \/ HandleDelete(i, p, n, bad)
    \/ \E i \in Ikes, p \in Peers, bad \in Faults : Move(i, p, bad)
    \/ \E i, j \in Ikes : RekeyIke(i, j)
    \/ \E i \in Ikes, bad \in Faults : Free(i, bad)
    \/ \E b \in BOOLEAN, bad \in Faults : Couple(b, bad)

Spec == Init /\ [][Next]_vars

-----------------------------------------------------------------------------
(* Properties *)

\* Every message iked has written fits its array of pieces, is as long as its
\* header says, and is walked by the declared lengths from extension to
\* extension as it was put together, whatever the system, the address
\* families, the lengths of keys and names and the options of the policy
\* (pfkey_flow, pfkey_sa, pfkey_sa_lookup, pfkey_sa_getspi, pfkey_sagroup).
MessageWhole == \A m \in st.sent : WellFormed(m)

LoadedSas ==
    {id \in (DOMAIN st.csas) \X {"e", "z"} :
        ~st.csas[id[1]].gone /\ IsLoaded(st, id[1], id[2])}

LoadedFlows == {n \in DOMAIN st.flows : st.flows[n].loaded /\ ~st.flows[n].gone}

\* While coupled, an SA or a flow that iked takes to be loaded is in the
\* kernel, whichever requests failed or were answered late; and as long as
\* none did, the kernel holds nothing else, and nothing at all while iked is
\* decoupled (csa_loaded, flow_loaded against pfkey_sa_add, pfkey_sa_delete,
\* pfkey_flow_add, pfkey_flow_delete).  Two exceptions: what was marked as
\* loaded while iked was decoupled may be missing, and an SA to the peer whose
\* address iked has lost (astray, see PeerLoadedMatches) may stay behind.
KernelHolds ==
    LET sas == LoadedSas \ st.blind
        flows == {st.flows[n].key : n \in {n \in LoadedFlows : <<n, "f">> \notin st.blind}}
        inKernel == {x.id : x \in st.sadb}
        keys == {x.key : x \in st.spd}
    IN  IF st.decoupled THEN st.trouble \/ (inKernel \subseteq st.astray /\ keys = {})
        ELSE /\ sas \subseteq inKernel /\ flows \subseteq keys
             /\ st.trouble \/ (inKernel \subseteq sas \cup st.astray /\ keys = flows)

\* As long as no request failed, the SAs to the peer and the flows of an
\* established IKE SA, but for those of "except", are in the kernel with the
\* address sa_peer_loaded.
AtPeerLoaded(except) ==
    st.trouble \/ st.decoupled \/
        /\ \A id \in LoadedSas \ except :
              st.csas[id[1]].out =>
                 \E x \in st.sadb : x.id = id /\ x.dst = st.sas[st.csas[id[1]].sa].peer_loaded
        /\ \A n \in LoadedFlows :
              <<n, "f">> \notin except =>
                 [key |-> st.flows[n].key, peer |-> st.sas[st.flows[n].sa].peer_loaded] \in st.spd

\* As long as no request failed, the SAs to the peer and the flows of an
\* established IKE SA are in the kernel with the address sa_peer_loaded, which
\* the next ikev2_update_sa_addresses names as the old one ("Update
\* sa_peer_loaded, to match in-kernel information").  Excepted (astray) is what
\* follows from a request that came from a new address before any
\* UPDATE_SA_ADDRESSES (ikev2_resp_recv): the SAs that are loaded when
\* ikev2_childsa_enable then takes over sa_peer, and all that "ikectl couple"
\* then loads; and, on systems other than OpenBSD, the SAs that are loaded when
\* the peer moves (pfkey_sa).
PeerLoadedMatches == AtPeerLoaded(st.blind \cup st.astray)

\* As long as iked was never decoupled, sc_activesas and sc_activeflows hold
\* just the child SAs and the flows that are loaded, none that was freed and
\* no two flows with the same selectors, whichever requests failed.
TreesExact ==
    st.apart \/
        /\ st.activesas = {id[1] : id \in {id \in LoadedSas : id[2] = "e"}}
        /\ st.activeflows = LoadedFlows
        /\ \A m, n \in st.activeflows : st.flows[m].key = st.flows[n].key => m = n

\* "Load the negotiated security associations (SAs) and flows into the
\* kernel" (ikectl couple): while iked is coupled and no request failed, the
\* child SAs that are not being replaced are in the kernel.
CoupledHasAll ==
    st.decoupled \/ st.trouble \/
        \A n \in DOMAIN st.csas :
            ~st.csas[n].gone /\ ~st.csas[n].rekey => \E x \in st.sadb : x.id = <<n, "e">>
=============================================================================
