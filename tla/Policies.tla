------------------------------ MODULE Policies ------------------------------
(***************************************************************************)
(* The policies of the ikev2 process and the IKE SAs that refer to them:   *)
(* how a policy is found for a message or an SA, how skip steps shorten    *)
(* the search, and who frees a policy that a reload has taken off the      *)
(* list while SAs still use it.                                            *)
(*                                                                         *)
(* Source: iked/policy.c, iked/config.c, iked/ikev2.c.  The functions are  *)
(* operators on a record "e" for struct iked:                              *)
(*   list    sc_policies, a sequence of policy numbers (pol_id),           *)
(*   pol     the policies that are allocated, by number,                   *)
(*   defcon  sc_defaultcon,                                                *)
(*   sas     the IKE SAs of sc_sas, by a number that stands for the SPIs,  *)
(*   passive sc_passive,                                                   *)
(*   users   sc_users, passwords by name,                                  *)
(*   socks   the number of UDP sockets of each family,                     *)
(*   on      TRUE once they are enabled,                                   *)
(*   fatal   TRUE once an imsg was refused, which ends the process,        *)
(*   used    TRUE once memory was used that had been freed.                *)
(* A policy that is freed leaves DOMAIN e.pol, an SA leaves DOMAIN e.sas.  *)
(***************************************************************************)
EXTENDS Naturals, Sequences, FiniteSets, SequencesExt

NoPolicy == 0
NoSa     == 0

-----------------------------------------------------------------------------
(* Addresses: a family and two bits; AF_UNSPEC is "any".                   *)

Unspec == "unspec"
AnyAddr == [af |-> Unspec, bits |-> <<0, 0>>, mask |-> 0]

\* sockaddr_cmp(a, b, prefixlen) == 0
SockaddrEq(a, b, prefixlen) ==
    \/ a.af = Unspec
    \/ b.af = Unspec
    \/ a.af = b.af /\ \A i \in 1..prefixlen : a.bits[i] = b.bits[i]

IKED_ADDR_NEQ(a, b) == a.mask # b.mask \/ ~SockaddrEq(a, b, a.mask)

-----------------------------------------------------------------------------
(* Skip steps.                                                             *)

SkipKinds == {"flags", "af", "dst", "src"}
NoSteps   == [i \in SkipKinds |-> NoPolicy]

\* The policies at which the steps of kind i end; prev is the policy before
\* cur, or cur itself for the first one.
StepEnds(i, cur, prev) ==
    CASE i = "flags" -> cur.skip
      [] i = "af"    -> cur.af # Unspec /\ prev.af # Unspec /\ cur.af # prev.af
      [] i = "dst"   -> IKED_ADDR_NEQ(cur.peer, prev.peer)
      [] i = "src"   -> IKED_ADDR_NEQ(cur.local, prev.local)

\* Mutant: cur is compared with the head of the step, not with its
\* predecessor, and the first policy that differs is passed over.
StepsPastEnd(e) ==
    LET At(n) == e.pol[e.list[n]]
        Step(i, n) ==
            LET ends == {c \in n + 1..Len(e.list) : StepEnds(i, At(c), At(c - 1))}
                far  == {c \in ends : c > n + 1}
            IN  IF far = {} THEN NoPolicy
                ELSE e.list[CHOOSE c \in far : \A d \in far : c <= d]
    IN  [e EXCEPT !.pol = [o \in DOMAIN @ |->
            IF \E n \in 1..Len(e.list) : e.list[n] = o
            THEN [@[o] EXCEPT !.step = [i \in SkipKinds |->
                     Step(i, CHOOSE n \in 1..Len(e.list) : e.list[n] = o)]]
            ELSE @[o]]]

\* policy_calc_skip_steps: the step of kind i leads to the next policy at
\* which a step of that kind ends, or to the end of the list.
policy_calc_skip_steps(e) ==
    LET At(n) == e.pol[e.list[n]]
        Step(i, n) ==
            LET ends == {c \in n + 1..Len(e.list) : StepEnds(i, At(c), At(c - 1))}
            IN  IF ends = {} THEN NoPolicy
                ELSE e.list[CHOOSE c \in ends : \A d \in ends : c <= d]
    IN  [e EXCEPT !.pol = [o \in DOMAIN @ |->
            IF \E n \in 1..Len(e.list) : e.list[n] = o
            THEN [@[o] EXCEPT !.step = [i \in SkipKinds |->
                     Step(i, CHOOSE n \in 1..Len(e.list) : e.list[n] = o)]]
            ELSE @[o]]]

-----------------------------------------------------------------------------
(* The search.  A key has the fields of the policy that policy_lookup and  *)
(* policy_lookup_sa fill in: af, peer, local, peerid, localid ("" for      *)
(* none), transport, flows, prop ("" for none).                            *)

\* The tests of policy_test that are not subject to skip steps.
PolicyFits(p, key) ==
    /\ key.flows \subseteq p.flows
    /\ key.peerid # "" /\ p.peerid # "" => key.peerid = p.peerid
    /\ key.localid # "" /\ p.localid # "" => key.localid = p.localid
    /\ key.transport => p.transport
    /\ key.prop # "" => key.prop \in p.props

\* The kind of the step to take at p, or "none".
SkipAt(p, key) ==
    IF p.skip THEN "flags"
    ELSE IF key.af # Unspec /\ p.af # Unspec /\ key.af # p.af THEN "af"
    ELSE IF ~SockaddrEq(key.peer, p.peer, p.peer.mask) THEN "dst"
    ELSE IF ~SockaddrEq(key.local, p.local, p.local.mask) THEN "src"
    ELSE "none"

\* policy_test from policy o on; "found" is the last one that matched.
RECURSIVE PolicyTestFrom(_, _, _, _)
PolicyTestFrom(e, key, o, found) ==
    IF o = NoPolicy THEN found
    ELSE LET p    == e.pol[o]
             at   == CHOOSE n \in 1..Len(e.list) : e.list[n] = o
             next == IF at = Len(e.list) THEN NoPolicy ELSE e.list[at + 1]
             kind == SkipAt(p, key)
         IN  IF kind # "none" THEN PolicyTestFrom(e, key, p.step[kind], found)
             ELSE IF ~PolicyFits(p, key) THEN PolicyTestFrom(e, key, next, found)
             ELSE IF p.quick THEN o
             ELSE PolicyTestFrom(e, key, next, o)

policy_test(e, key) ==
    PolicyTestFrom(e, key, IF e.list = <<>> THEN NoPolicy ELSE e.list[1], NoPolicy)

\* What iked.conf(5) promises: the policies are evaluated in sequential order
\* and the last matching one decides; "quick" makes a match the last one and
\* "skip" disables the evaluation of this policy.
Matches(p, key) == SkipAt(p, key) = "none" /\ PolicyFits(p, key)

LastMatch(e, key) ==
    LET matching == {n \in 1..Len(e.list) : Matches(e.pol[e.list[n]], key)}
        quick    == {n \in matching : e.pol[e.list[n]].quick}
    IN  IF matching = {} THEN NoPolicy
        ELSE IF quick # {}
             THEN e.list[CHOOSE n \in quick : \A m \in quick : n <= m]
             ELSE e.list[CHOOSE n \in matching : \A m \in matching : n >= m]

\* policy_lookup for a message whose SA has no policy.
policy_lookup(e, key) ==
    IF policy_test(e, key) # NoPolicy THEN policy_test(e, key) ELSE e.defcon

-----------------------------------------------------------------------------
(* References from SAs.                                                    *)

policy_ref(e, o) ==
    IF o \notin DOMAIN e.pol THEN [e EXCEPT !.used = TRUE]
    ELSE IF e.pol[o].refd THEN [e EXCEPT !.pol[o].refcnt = @ + 1] ELSE e

\* The memory is returned (the label "remove" of config_free_policy).
Release(e, o) == [e EXCEPT !.pol = [x \in DOMAIN @ \ {o} |-> @[x]]]

\* config_free_policy: the first call takes the policy off the list and counts
\* the SAs that refer to it, the next one frees it.  A pointer to a policy that
\* was freed before is a use of freed memory.
config_free_policy(e, o) ==
    IF o \notin DOMAIN e.pol THEN [e EXCEPT !.used = TRUE]
    ELSE IF e.pol[o].refd THEN Release(e, o)
    ELSE LET refs == {s \in e.pol[o].sapeers : e.sas[s].pol = o}
             off  == [e EXCEPT !.list = SelectSeq(@, LAMBDA x : x # o),
                               !.pol[o].refd = TRUE,
                               !.pol[o].refcnt = @ + Cardinality(refs)]
         IN  IF off.pol[o].refcnt = 0 THEN Release(off, o) ELSE off

policy_unref(e, o) ==
    IF o = NoPolicy \/ o \notin DOMAIN e.pol
    THEN [e EXCEPT !.used = @ \/ o # NoPolicy]
    ELSE IF ~e.pol[o].refd THEN e
    ELSE IF e.pol[o].refcnt <= 1 THEN config_free_policy(e, o)
    ELSE [e EXCEPT !.pol[o].refcnt = @ - 1]

\* TAILQ_REMOVE and TAILQ_INSERT_TAIL on pol_sapeers
Leave(e, s, o) ==
    IF o \in DOMAIN e.pol THEN [e EXCEPT !.pol[o].sapeers = @ \ {s}]
    ELSE [e EXCEPT !.used = TRUE]

Join(e, s, o) ==
    IF o \in DOMAIN e.pol THEN [e EXCEPT !.pol[o].sapeers = @ \cup {s}]
    ELSE [e EXCEPT !.used = TRUE]

\* The SA moves from one policy to another, as in ikev2_sa_responder,
\* ikev2_ike_auth_recv and the reload.
MovePolicy(e, s, from, to) ==
    LET left == policy_unref(Leave(e, s, from), from)
    IN  Join(policy_ref([left EXCEPT !.sas[s].pol = to], to), s, to)

-----------------------------------------------------------------------------
(* Configuration messages.                                                 *)

\* config_getpolicy: the policy joins the list without skip steps, SAs or
\* flows; a default policy replaces the one before.
config_getpolicy(e, o, attr) ==
    LET p   == [af |-> attr.af, peer |-> attr.peer, local |-> attr.local,
                skip |-> attr.skip, quick |-> attr.quick,
                transport |-> attr.transport, active |-> attr.active,
                peerid |-> attr.peerid, localid |-> attr.localid,
                props |-> attr.props, flows |-> {}, ts |-> {},
                step |-> NoSteps, refd |-> FALSE, refcnt |-> 0, sapeers |-> {}]
        new == [e EXCEPT !.list = Append(@, o),
                         !.pol = [x \in DOMAIN @ \cup {o} |->
                                     IF x = o THEN p ELSE @[x]]]
        old == IF attr.dflt /\ e.defcon # NoPolicy
               THEN config_free_policy(new, e.defcon) ELSE new
    IN  IF attr.dflt THEN [old EXCEPT !.defcon = o] ELSE old

\* config_getflow: the flow goes to the policy of the list with this number;
\* an unknown policy or a flow that is there already is an error.
config_getflow(e, o, flow) ==
    IF (\E n \in 1..Len(e.list) : e.list[n] = o) /\ flow \notin e.pol[o].flows
    THEN [e EXCEPT !.pol[o].flows = @ \cup {flow}]
    ELSE [e EXCEPT !.fatal = TRUE]

\* config_new_user: an existing user gets the new password.
config_new_user(users, usr) ==
    [n \in DOMAIN users \cup {usr.name} |-> IF n = usr.name THEN usr.pass ELSE users[n]]

config_getuser(e, usr) == [e EXCEPT !.users = config_new_user(@, usr)]

\* config_getsocket: there are places for two sockets of each family.
config_getsocket(e, af) ==
    IF e.socks[af] < 2 THEN [e EXCEPT !.socks[af] = @ + 1] ELSE [e EXCEPT !.fatal = TRUE]

\* config_enablesocket for the sockets that are there, and config_getmode
config_enablesocket(e)      == [e EXCEPT !.on = \E af \in DOMAIN e.socks : e.socks[af] > 0]
config_getmode(e, passive)  == [e EXCEPT !.passive = passive]

\* policy_generate_ts for all policies of the list: a selector that is there
\* already is not added again.
policy_generate_ts(e) ==
    [e EXCEPT !.pol = [o \in DOMAIN @ |->
        IF \E n \in 1..Len(e.list) : e.list[n] = o
        THEN [@[o] EXCEPT !.ts = @ \cup e.pol[o].flows] ELSE @[o]]]

-----------------------------------------------------------------------------
(* IKE SAs, as far as they refer to policies and to each other.            *)

\* What policy_lookup looks for: a datagram of peer p, before and after the
\* proposals and the identity are known.
MsgKey(p, prop, peerid, flows) ==
    [af |-> p.addr.af, peer |-> p.addr, local |-> p.local, peerid |-> peerid,
     localid |-> "", transport |-> FALSE, flows |-> flows, prop |-> prop]

\* What policy_lookup_sa looks for.
SaKey(e, sa) == MsgKey(sa.peer, sa.peer.prop, sa.peer.id, e.pol[sa.pol].flows)

\* sa_new: the SA is entered in sc_sas and refers to policy o.
sa_new(e, s, o, init, peer) ==
    LET sa  == [pol |-> o, state |-> "half", init |-> init, peer |-> peer,
                nexti |-> NoSa, previ |-> NoSa]
        ref == policy_ref(e, o)
    IN  Join([ref EXCEPT !.sas = [x \in DOMAIN @ \cup {s} |->
                                     IF x = s THEN sa ELSE @[x]]], s, o)

\* config_free_sa, after RB_REMOVE.
config_free_sa(e, s) ==
    LET o    == e.sas[s].pol
        left == IF o = NoPolicy THEN e ELSE policy_unref(Leave(e, s, o), o)
    IN  [left EXCEPT !.sas = [x \in DOMAIN @ \ {s} |-> @[x]]]

\* sa_free: with the SA goes the one that was to replace it, and the SA it was
\* to replace forgets about it.
sa_free(e, s) ==
    LET n   == e.sas[s].nexti
        o   == e.sas[s].previ
        one == IF n # NoSa THEN config_free_sa(e, n) ELSE e
        two == IF o = NoSa THEN one
               ELSE IF o \notin DOMAIN one.sas THEN [one EXCEPT !.used = TRUE]
               ELSE IF one.sas[o].nexti = s
               THEN [one EXCEPT !.sas[o].nexti = NoSa] ELSE one
    IN  config_free_sa(two, s)

\* ikev2_init_ike_sa: the policies that are to be active and have no SA.
Initiates(e) ==
    {o \in DOMAIN e.pol : /\ \E n \in 1..Len(e.list) : e.list[n] = o
                          /\ e.pol[o].active
                          /\ e.pol[o].sapeers = {}}

\* A first message of peer p: ikev2_recv looks for a policy by address, and
\* ikev2_sa_responder again with the proposals.
RespondInit(e, s, p) ==
    LET o == policy_lookup(e, MsgKey(p, "", "", {}))
        q == policy_lookup(e, MsgKey(p, p.prop, "", {}))
        n == sa_new(e, s, o, FALSE, p)
    IN  IF o = NoPolicy THEN e
        ELSE IF q = NoPolicy THEN [n EXCEPT !.sas[s].state = "closed"]
        ELSE MovePolicy(n, s, o, q)

\* ikev2_ike_auth_recv: the responder looks for the policy of the identity,
\* the initiator checks that the policy is still the one it used.  On a failure
\* the SA is left without a policy and closing.
AuthRecv(e, s) ==
    LET sa  == e.sas[s]
        key == IF sa.init THEN MsgKey(sa.peer, sa.peer.prop, sa.peer.id, e.pol[sa.pol].flows)
               ELSE MsgKey(sa.peer, sa.peer.prop, sa.peer.id, {})
        q   == policy_lookup(e, key)
        bad == q = NoPolicy \/ (sa.init /\ q # sa.pol)
    IN  IF sa.pol \notin DOMAIN e.pol THEN [e EXCEPT !.used = TRUE]
        ELSE IF bad
        THEN [policy_unref(Leave(e, s, sa.pol), sa.pol)
                 EXCEPT !.sas[s].pol = NoPolicy, !.sas[s].state = "closed"]
        ELSE [(IF q = sa.pol THEN e ELSE MovePolicy(e, s, sa.pol, q))
                 EXCEPT !.sas[s].state = "est"]

\* The IKE SA s is rekeyed: the new SA takes over the policy, and the two refer
\* to each other until the new one is enabled.
StartRekey(e, s, n) ==
    LET new == sa_new(e, n, e.sas[s].pol, TRUE, e.sas[s].peer)
    IN  [new EXCEPT !.sas[s].nexti = n, !.sas[n].previ = s]

\* ikev2_ikesa_enable and the two assignments after it: the links are cut.
EnableRekey(e, s) ==
    [e EXCEPT !.sas[e.sas[s].nexti].state = "est",
              !.sas[e.sas[s].nexti].previ = NoSa,
              !.sas[s].state = "closed", !.sas[s].nexti = NoSa]

-----------------------------------------------------------------------------
(* Reset and activation.                                                   *)

\* config_doreset(RESET_POLICY)
FlushPolicies(e) == FoldLeft(config_free_policy, e, e.list)

\* config_doreset(RESET_SA): an established SA gets a DELETE and is freed by
\* the next round of the loop.
FlushSas(e) == FoldSet(LAMBDA s, f : config_free_sa(f, s), e, DOMAIN e.sas)

config_doreset(e, mode) ==
    CASE mode = "policy" -> FlushPolicies(e)
      [] mode = "sa"     -> FlushSas(e)
      [] mode = "user"   -> [e EXCEPT !.users = <<>>]
      [] mode = "all"    -> [FlushSas(FlushPolicies(e)) EXCEPT !.users = <<>>]
      [] OTHER           -> e

\* Mutant: the old policy is released before the SA has left it.
AdoptPolicyUnlinked(e, s) ==
    LET old == e.sas[s].pol
        q   == policy_test(e, SaKey(e, e.sas[s]))
    IN  IF q = NoPolicy THEN [e EXCEPT !.sas[s].state = "closed"]
        ELSE IF q = old THEN e
        ELSE Join([Leave(e, s, old) EXCEPT !.sas[s].pol = q], s, q)

\* policy_lookup_sa and the change of policy that follows it: an SA whose
\* flows and identity no policy of the list admits is closed and keeps its
\* policy.
AdoptPolicy(e, s) ==
    LET old == e.sas[s].pol
        q   == policy_test(e, SaKey(e, e.sas[s]))
    IN  IF old \notin DOMAIN e.pol THEN [e EXCEPT !.used = TRUE]
        ELSE IF q = NoPolicy THEN [e EXCEPT !.sas[s].state = "closed"]
        ELSE IF q = old THEN e
        ELSE MovePolicy(e, s, old, q)

\* RB_FOREACH_SAFE in the order of the SPIs: the next SA is looked up before
\* the current one is dealt with.
RECURSIVE WalkSas(_, _, _)
WalkSas(e, order, s) ==
    LET at   == CHOOSE n \in 1..Len(order) : order[n] = s
        rest == SelectSeq(SubSeq(order, at + 1, Len(order)),
                          LAMBDA x : x \in DOMAIN e.sas)
        done == IF e.sas[s].state # "est" THEN sa_free(e, s) ELSE AdoptPolicy(e, s)
    IN  IF rest = <<>> THEN done
        ELSE IF rest[1] \notin DOMAIN done.sas THEN [done EXCEPT !.used = TRUE]
        ELSE WalkSas(done, order, rest[1])

\* IMSG_CTL_ACTIVE and IMSG_CTL_PASSIVE in ikev2_dispatch_parent; "order" is
\* the order of the SAs in sc_sas, by their random SPIs.
DispatchMode(e, passive, order) ==
    LET on == policy_generate_ts(config_enablesocket(config_getmode(e, passive)))
    IN  IF order = <<>> THEN on ELSE WalkSas(on, order, order[1])

=============================================================================
