------------------------------ MODULE AddrPool ------------------------------
(***************************************************************************)
(* The address pools of a responder: how an IKE SA gets an address from    *)
(* the pools of its policy (ikev2_cp_setaddr), how the address moves to    *)
(* another IKE SA of the same client (sticky addresses, rekeying) and how  *)
(* it is given back (config_free_sa).                                      *)
(*                                                                         *)
(* Source: iked/ikev2.c, iked/policy.c (the trees), iked/config.c.         *)
(*                                                                         *)
(* An address is a pair of a network and a host number.  sa_addrpool and   *)
(* sa_addrpool6 are addr[4][sa] and addr[6][sa]: the set of the address,   *)
(* or {} for NULL.  sc_addrpool and sc_addrpool6 are tree[4] and tree[6],  *)
(* sets of SAs that are ordered by the addresses the SAs hold at the time  *)
(* of a lookup.  sc_dstid_sas is dstid.                                    *)
(***************************************************************************)
EXTENDS Naturals, Sequences, FiniteSets

CONSTANTS
    Sas,        \* struct iked_sa, allocated or not
    Clients,    \* identities of peers (IKESA_DSTID)
    NoId,       \* the identity of an SA that is not in use
    Requests,   \* the IPv4 addresses a client may ask for
    Configs     \* what the configuration file may say

Family == {4, 6}

\* pool[f]: the address pools of family f, [net, host, upper]: the network,
\* the host part given in the configuration and the largest host number.
ASSUME ConfigAssumption ==
    \A c \in Configs :
        /\ c.sticky \in BOOLEAN /\ c.single \in BOOLEAN
        /\ c.pool \in [Family -> Seq([net : Nat, host : Nat, upper : Nat])]

VARIABLES env, cfg

vars == <<env, cfg>>

-----------------------------------------------------------------------------
(* The trees *)

\* RB_FIND: some member of the tree has this address.
InTree(t, f, a) == \E sa \in t.tree[f] : a \in t.addr[f][sa]

\* RB_INSERT: a member that compares equal keeps the new one out.
Insert(t, f, sa) ==
    IF \E other \in t.tree[f] : t.addr[f][other] = t.addr[f][sa]
    THEN t ELSE [t EXCEPT !.tree[f] = @ \cup {sa}]

\* The address of osa goes to sa.
Move(t, osa, sa, f) ==
    [t EXCEPT !.tree[f] = IF t.addr[f][osa] # {} THEN @ \ {osa} ELSE @,
              !.addr[f] = [@ EXCEPT ![osa] = {}, ![sa] = t.addr[f][osa]]]

\* The address of osa, if there is one, goes to sa, and sa into the tree
\* instead of osa; if there is none, sa has none either.
Transfer(t, osa, sa, f) ==
    IF t.addr[f][osa] = {} THEN Move(t, osa, sa, f)
    ELSE Insert(Move(t, osa, sa, f), f, sa)

\* Mutant: the identity is not compared.
DstidLookupAny(t, c) == t.dstid

\* sa_dstid_lookup
DstidLookup(t, c) == {sa \in t.dstid : t.who[sa] = c}

-----------------------------------------------------------------------------
(* ikev2_cp_setaddr_pool *)

\* "skip .0 address if possible"
Lower(p) == IF p.host = 0 /\ p.upper > 0 THEN 1 ELSE p.host
Upper(p) == IF p.upper < Lower(p) THEN Lower(p) ELSE p.upper

\* arc4random_uniform(upper - lower) + lower; arc4random_uniform(0) is 0.
Starts(p) == Lower(p) .. (IF Upper(p) = Lower(p) THEN Lower(p) ELSE Upper(p) - 1)

\* Mutant: the broadcast address is not skipped.
NextHostAll(p, h) == IF h + 1 > Upper(p) THEN Lower(p) ELSE h + 1

\* "try next address, but skip broadcast and network address"
NextHost(p, h) == IF h + 1 >= Upper(p) \/ h + 1 < Lower(p)
                  THEN Lower(p) ELSE h + 1

\* host[i] is the host number the loop tries in its i-th round.
Hosts(p, start) ==
    LET host[i \in 0 .. Upper(p)] ==
            IF i = 0 THEN start ELSE NextHost(p, host[i - 1])
    IN  host

\* The address found in the walk from start: the set of it, or {} if the walk
\* comes back to start ("address pool exhausted").
Walk(t, f, p, start) ==
    LET host  == Hosts(p, start)
        round == {i \in DOMAIN host : \A j \in 1 .. i : host[j] # start}
        free  == {i \in round : ~InTree(t, f, <<p.net, host[i]>>)}
    IN  {<<p.net, host[i]>> : i \in {k \in free : \A j \in free : k <= j}}

\* A specific address was requested: it is given if it is in the network and
\* not in use.
Requested(t, f, p, a) ==
    {b \in {a} : b[1] = p.net /\ b[2] <= p.upper /\ ~InTree(t, f, b)}

\* The SA gets an address it found, and enters the tree.
Assign(t, sa, f, found) == Insert([t EXCEPT !.addr[f][sa] = found], f, sa)

\* ikev2_ikesa_delete on the old SA, unless it is closing already.
Delete(t, osa, state) ==
    IF t.state[osa] = "established" THEN [t EXCEPT !.state[osa] = state] ELSE t

\* "check if old IKESA for same DSTID already exists and transfer IPs": "we
\* have to transfer both, even if we just need one".
StickyTransfer(t, osa, sa) ==
    Delete(Transfer(Transfer([t EXCEPT !.dstid = @ \ {osa}], osa, sa, 4),
                    osa, sa, 6),
           osa, "closed")

\* The SAs an address may be taken over from.
StickySas(t, sa, f) ==
    {osa \in DstidLookup(t, t.who[sa]) : cfg.sticky /\ t.addr[f][osa] # {}}

\* The environments after an address was looked for, {} for failure.
Found(t, sa, f, found) == IF found = {} THEN {} ELSE {Assign(t, sa, f, found)}

\* An address for the SA, if one was asked for in the request (cp): the old
\* one of the client, the requested one, or the next free one of the pool.
NewAddress(t, sa, f, p, req) ==
    IF StickySas(t, sa, f) # {}
    THEN {{StickyTransfer(t, osa, sa)} : osa \in StickySas(t, sa, f)}
    ELSE IF req # {} /\ f = 4
    THEN {Found(t, sa, f, UNION {Requested(t, f, p, a) : a \in req})}
    ELSE {Found(t, sa, f, Walk(t, f, p, start)) : start \in Starts(p)}

\* ikev2_cp_setaddr_pool: the outcomes, each the set of the new environment or
\* {} for failure.  req is the set of the requested address, or {}.
SetaddrPool(t, sa, f, p, cp, req) ==
    IF cp THEN NewAddress(t, sa, f, p, req) ELSE {{}}

\* ikev2_cp_setaddr: every pool of the family is tried, first with the
\* requested address, if there is one, and then without; no pool is no failure.
Setaddr(t, sa, f, cp, req) ==
    LET pools  == cfg.pool[f]
        passes == IF req = {} THEN <<{}>> ELSE <<req, {}>>
        tries  == [i \in 1 .. Len(pools) * Len(passes) |->
                    SetaddrPool(t, sa, f, pools[1 + ((i - 1) % Len(pools))], cp,
                                passes[1 + ((i - 1) \div Len(pools))])]
        fails(n) == \A i \in 1 .. n : {} \in tries[i]
    IN  IF t.addr[f][sa] # {} \/ pools = <<>> THEN {{t}}
        ELSE UNION {tries[i] \ {{}} : i \in {k \in DOMAIN tries : fails(k - 1)}}
             \cup (IF fails(Len(tries)) THEN {{}} ELSE {})

-----------------------------------------------------------------------------
(* The life of an IKE SA *)

\* ikev2_record_dstid
RecordDstid(t, sa) ==
    LET old == DstidLookup(t, t.who[sa]) \ {sa}
    IN  [t EXCEPT
            !.dstid = (@ \ old) \cup {sa},
            !.state = [s \in Sas |-> IF s \in old /\ cfg.single
                                        /\ @[s] = "established"
                                     THEN "closing" ELSE @[s]]]

\* ikev2_resp_ike_auth, for a client that has proved its identity: addresses
\* for both families, then the child SA, which may be refused.  An SA that
\* fails is CLOSED and keeps what it has until it is freed.
Auth(sa, c, cp, req) ==
    LET t == [env EXCEPT !.state[sa] = "closed", !.who[sa] = c]
    IN  /\ env.state[sa] = "none"
        /\ \E o4 \in Setaddr(t, sa, 4, cp, req) :
              \/ o4 = {} /\ env' = t
              \/ \E t4 \in o4 : \E o6 \in Setaddr(t4, sa, 6, cp, {}) :
                    \/ o6 = {} /\ env' = t4
                    \/ \E t6 \in o6 :
                          \/ env' = t6
                          \/ env' = RecordDstid(
                                [t6 EXCEPT !.state[sa] = "established"], sa)
        /\ UNCHANGED cfg

\* ikev2_ikesa_enable: the new SA of a rekeying takes over from the old one.
\* (That a simultaneous rekeying is resolved on an SA that is closing already,
\* ikev2_ikesa_recv_delete, is left out.)
IkesaEnable(sa, nsa) ==
    LET t == [env EXCEPT !.state[nsa] = "established", !.who[nsa] = env.who[sa]]
        moved == Transfer(Transfer(t, sa, nsa, 4), sa, nsa, 6)
    IN  /\ env.state[sa] = "established"
        /\ env.state[nsa] = "none"
        /\ \E state \in {"closed", "closing"} :
              env' = [moved EXCEPT
                        !.state[sa] = state,
                        !.dstid = IF sa \in @ THEN (@ \ {sa}) \cup {nsa} ELSE @]
        /\ UNCHANGED cfg

\* ikev2_ikesa_recv_delete: "delay deletion if client reconnects soon"
RecvDelete(sa) ==
    /\ env.state[sa] = "established"
    /\ env' = [env EXCEPT !.state[sa] =
                IF cfg.sticky THEN "closing" ELSE "closed"]
    /\ UNCHANGED cfg

\* Mutant: the address is freed, the SA stays in the tree.
FreeAddrOnly(t, sa, f) == [t EXCEPT !.addr[f][sa] = {}]

\* config_free_sa
FreeAddr(t, sa, f) == [t EXCEPT !.addr[f][sa] = {},
                        !.tree[f] = IF t.addr[f][sa] # {} THEN @ \ {sa} ELSE @]

\* sa_free: timeouts, lost peers, operator requests.
SaFree(sa) ==
    /\ env.state[sa] # "none"
    /\ env' = [FreeAddr(FreeAddr(env, sa, 4), sa, 6) EXCEPT
                !.state[sa] = "none", !.who[sa] = NoId, !.dstid = @ \ {sa}]
    /\ UNCHANGED cfg

\* A new configuration; the SAs stay.
Reload ==
    /\ cfg' \in Configs \ {cfg}
    /\ UNCHANGED env

-----------------------------------------------------------------------------
Init ==
    /\ env = [state |-> [sa \in Sas |-> "none"],
              who   |-> [sa \in Sas |-> NoId],
              addr  |-> [f \in Family |-> [sa \in Sas |-> {}]],
              tree  |-> [f \in Family |-> {}],
              dstid |-> {}]
    /\ cfg \in Configs

Next ==
    \/ \E sa \in Sas :
          \/ \E c \in Clients, cp \in BOOLEAN :
                \E req \in {{}} \cup {{a} : a \in Requests} : Auth(sa, c, cp, req)
          \/ \E nsa \in Sas : IkesaEnable(sa, nsa)
          \/ RecvDelete(sa)
          \/ SaFree(sa)
    \/ Reload

Spec == Init /\ [][Next]_vars

-----------------------------------------------------------------------------
(* Properties *)

Address == Nat \X Nat
States  == {"none", "established", "closing", "closed"}

\* Types; an SA that was freed (sa_free) holds no address and is no longer
\* in sc_dstid_sas.
TypeOK ==
    /\ cfg \in Configs
    /\ env.state \in [Sas -> States] /\ env.who \in [Sas -> Clients \cup {NoId}]
    /\ \A f \in Family : \A sa \in Sas :
          /\ env.addr[f][sa] \subseteq Address
          /\ Cardinality(env.addr[f][sa]) <= 1
          /\ env.state[sa] = "none" => env.addr[f][sa] = {}
    /\ \A f \in Family : env.tree[f] \subseteq Sas
    /\ env.dstid \subseteq {sa \in Sas : env.state[sa] # "none"}

\* No address is given to two IKE SAs, through any sequence of logins,
\* requests for specific addresses, rekeyings, take-overs, closings and
\* reloads.
UniqueAddresses ==
    \A f \in Family : \A sa, other \in Sas :
        sa # other => env.addr[f][sa] \cap env.addr[f][other] = {}

\* The tree holds exactly the SAs that have an address, so that a lookup never
\* meets an SA without one (sa_addrpool_cmp dereferences it) and config_free_sa
\* removes every entry.
Exact(t) == \A f \in Family : t.tree[f] = {sa \in Sas : t.addr[f][sa] # {}}

\* A client logs in that has an SA with an IPv6 address only, from the time
\* before a reload added IPv4 pools.
GainsFamily(sa) ==
    /\ env.state[sa] = "none" /\ env'.state[sa] # "none"
    /\ cfg.sticky /\ cfg.pool[4] # <<>>
    /\ \E osa \in DstidLookup(env, env'.who[sa]) :
          env.addr[4][osa] = {} /\ env.addr[6][osa] # {}

\* Every step keeps the trees exact: logins that fail half-way, take-overs,
\* rekeyings, the end of an SA in any state, and all of these after a reload.
\* The exception is the take-over of an SA without an IPv4 address, which
\* overwrites the one that was assigned to the new SA a moment before, and
\* leaves the SA in sc_addrpool without it (ikev2_cp_setaddr_pool).
TreeExact ==
    [][Exact(env) => Exact(env') \/ \E sa \in Sas : GainsFamily(sa)]_vars

\* The hosts a pool is meant to provide: neither network nor broadcast
\* address, from the configured host on; one address if there is no other.
Usable(p) ==
    LET inner == {h \in 1 .. p.upper : h >= p.host /\ h < p.upper}
    IN  IF inner # {} THEN inner ELSE {Lower(p)}

\* From every random start, and for every set of addresses in use, the walk
\* finds a usable free address, and reports an exhausted pool only if every
\* usable address is in use.
WalkFindsFree ==
    \A f \in Family : \A i \in DOMAIN cfg.pool[f] :
        LET p    == cfg.pool[f][i]
            free == {<<p.net, h>> : h \in {u \in Usable(p) :
                                            ~InTree(env, f, <<p.net, u>>)}}
        IN  \A start \in Starts(p) :
                LET found == Walk(env, f, p, start)
                IN  found \subseteq free /\ (found = {} <=> free = {})

\* "If we continue, we might end up with flows where 0.0.0.0 is NOT replaced
\* with an address from the pool": an established SA has an address of every
\* family the policy has pools for, also after rekeying and take-overs.
EstablishedHasAddress ==
    \A sa \in Sas : env.state[sa] = "established" =>
        \A f \in Family : cfg.pool[f] # <<>> => env.addr[f][sa] # {}

\* With sticky addresses a client that logs in again gets the addresses of
\* its previous SA, even if that SA is being deleted.
StickyKeeps ==
    [][cfg.sticky =>
        \A sa \in env'.dstid, f \in Family :
            env.state[sa] = "none" =>
                \A osa \in DstidLookup(env, env'.who[sa]) :
                    env.addr[f][osa] # {} /\ cfg.pool[f] # <<>> =>
                        env'.addr[f][sa] = env.addr[f][osa]]_vars

\* The addresses as leases of the clients the SAs belong to.
Leases(t) ==
    LET held == UNION UNION {{t.addr[f][sa] : sa \in Sas} : f \in Family}
    IN  {l \in [fam : Family, addr : held, who : Clients] :
            \E sa \in Sas : l.addr \in t.addr[l.fam][sa] /\ t.who[sa] = l.who}

Lease == INSTANCE AddressLease WITH lease <- Leases(env)

\* The pools implement the leases of AddressLease: rekeying an IKE SA, taking
\* over the addresses of an earlier one, closing and reloading are invisible
\* to the clients, a login takes no address from anybody, and an address goes
\* from one client to another only after it was given back
\* (ikev2_cp_setaddr_pool, ikev2_ikesa_enable, config_free_sa).
LeaseKept == Lease!Spec

=============================================================================
