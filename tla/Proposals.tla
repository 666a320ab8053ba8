------------------------------ MODULE Proposals ------------------------------
(***************************************************************************)
(* How two daemons come to use the same algorithms.  Each end's policy     *)
(* gets its proposals from the `ikesa' and `childsa' clauses of its        *)
(* configuration file (parse.y), the initiator of an exchange puts them on *)
(* the wire (ikev2_add_proposals), the responder scores what it is offered *)
(* against its own list (policy.c) and answers with one transform of each  *)
(* type, and the initiator scores that answer again.  A key exchange value *)
(* of a group the responder does not choose is refused with                *)
(* INVALID_KE_PAYLOAD and the initiator tries again with the group named.  *)
(*                                                                         *)
(* The exchanges of one IKE SA are modelled one at a time, in the order    *)
(* IKE_SA_INIT, IKE_AUTH and then up to Rounds CREATE_CHILD_SA exchanges   *)
(* of any kind, started by either end.  Losing, repeating and interleaving *)
(* messages is the subject of IkeExchange and ChildSa; here the messages   *)
(* arrive, and what matters is the state that one exchange leaves for the  *)
(* next: sa_proposals, which is rebuilt, extended and handed over in a     *)
(* different way by each exchange, and sa_dhgroup.                         *)
(***************************************************************************)
EXTENDS Integers, FiniteSets, FiniteSetsExt, SequencesExt

CONSTANTS
    Confs,      \* pairs of configurations (see MCProposals)
    Rounds      \* how many CREATE_CHILD_SA exchanges follow IKE_AUTH

ASSUME RoundsAssumption == Rounds \in Nat

VARIABLES
    conf,       \* the two configuration files, fixed
    pol,        \* end -> pol_proposals of its policy
    sa,         \* end -> its IKE SA: sa_proposals, sa_dhgroup
    peerdh,     \* pol_peerdh of the end that started the IKE SA
    msg,        \* the message under way
    exch,       \* the exchange under way: kind, initiator, INVALID_KEs so far
    res         \* what the last exchange came to, as each end sees it

vars == <<conf, pol, sa, peerdh, msg, exch, res>>

End == {"a", "b"}
Other(e) == CHOOSE f \in End : f # e

----------------------------------------------------------------------------
(* Transforms.  The tables of parse.y are cut to a few algorithms of each  *)
(* type; a transform is its type, id and key length.                       *)

Types == {"ENCR", "PRF", "INTEGR", "DH", "ESN"}
None == [type |-> "none"]
NoGroup == "-1"                    \* the groupid -1 of proposals_negotiate

Xf(t, id, len) == [type |-> t, id |-> id, length |-> len]
Aes256 == Xf("ENCR", "AES_CBC", 256)
Aes128 == Xf("ENCR", "AES_CBC", 128)
Gcm128 == Xf("ENCR", "AES_GCM_16", 128)
Gcm256 == Xf("ENCR", "AES_GCM_16", 256)
Prf256 == Xf("PRF", "HMAC_SHA2_256", 0)
Prf1 == Xf("PRF", "HMAC_SHA1", 0)
Auth256 == Xf("INTEGR", "HMAC_SHA2_256_128", 0)
Auth1 == Xf("INTEGR", "HMAC_SHA1_96", 0)
Ecp256 == Xf("DH", "ECP_256", 0)
Modp2048 == Xf("DH", "MODP_2048", 0)
NoDh == Xf("DH", "none", 0)
Esn == Xf("ESN", "ESN", 0)
NoEsn == Xf("ESN", "NONE", 0)

ikev2_default_ike_transforms ==
    <<Aes256, Aes128, Prf256, Prf1, Auth256, Auth1, Ecp256, Modp2048>>
ikev2_default_ike_transforms_noauth ==
    <<Gcm128, Gcm256, Prf256, Prf1, Ecp256, Modp2048>>

(* On Linux the PF_KEY interface has neither AES-GCM nor ESN, and its      *)
(* SHA2-256 is truncated in a way of its own.                              *)
ikev2_default_esp_transforms(linux) ==
    IF linux THEN <<Aes256, Aes128, Auth1, NoDh, NoEsn>>
             ELSE <<Aes256, Aes128, Auth256, Auth1, NoDh, Esn, NoEsn>>
ikev2_default_esp_transforms_noauth == <<Gcm128, Gcm256, NoDh, Esn, NoEsn>>

encxf_noauth(x) == x.id = "AES_GCM_16"

OfType(xs, t) == FoldLeft(LAMBDA s, x : IF x.type = t THEN Append(s, x) ELSE s, <<>>, xs)

----------------------------------------------------------------------------
(* From the configuration file to the policy.                              *)

(* The transform rules: each keyword appends to the list of its type.      *)
transforms(words) == [t \in Types |-> OfType(words, t)]

copy_transforms(t, xfs, default) ==
    IF xfs[t] # <<>> THEN xfs[t] ELSE OfType(default, t)

config_add_proposal(head, id, protoid) ==
    IF \E i \in DOMAIN head : head[i].id = id /\ head[i].protoid = protoid
    THEN head
    ELSE Append(head, [id |-> id, protoid |-> protoid, xforms |-> <<>>])

(* A transform the proposal has already is not added; the score grows with *)
(* each earlier transform of the type, so the first configured is the      *)
(* preferred one, and it grows fastest for ciphers and MACs.               *)
Weight(t) == CASE t \in {"ENCR", "INTEGR"} -> 3 [] t = "DH" -> 2 [] OTHER -> 1

(* Mutant: every transform is as good as the next                          *)
config_add_transform_flat(prop, x) ==
    IF \E i \in DOMAIN prop.xforms : prop.xforms[i].type = x.type /\ prop.xforms[i].id = x.id
            /\ prop.xforms[i].length = x.length
    THEN prop
    ELSE [prop EXCEPT !.xforms = Append(@,
            [type |-> x.type, id |-> x.id, length |-> x.length, score |-> 1])]

config_add_transform(prop, x) ==
    IF \E i \in DOMAIN prop.xforms :
          prop.xforms[i].type = x.type /\ prop.xforms[i].id = x.id
            /\ prop.xforms[i].length = x.length
    THEN prop
    ELSE [prop EXCEPT !.xforms = Append(@,
            [type |-> x.type, id |-> x.id, length |-> x.length,
             score |-> 1 + Weight(x.type) * Len(OfType(@, x.type))])]

(* Lists of [id, protoid, xforms] built up with the two functions above:   *)
(* by the policy's message from the parent, by the parser of an SA payload *)
(* and by the copy of the policy's proposals for an exchange.              *)
Fill(head, p) ==
    LET i == CHOOSE k \in DOMAIN head : head[k].id = p.id /\ head[k].protoid = p.protoid
    IN  [head EXCEPT ![i] = FoldLeft(config_add_transform, @, p.xforms)]
Build(head, props) ==
    FoldLeft(LAMBDA h, p : Fill(config_add_proposal(h, p.id, p.protoid), p), head, props)

config_getpolicy(props) == Build(<<>>, props)

(* A clause mixes ciphers with and without implicit authentication, or     *)
(* names a MAC for a cipher that needs none.                               *)
Implicit(xfs) == Cardinality({i \in DOMAIN xfs["ENCR"] : encxf_noauth(xfs["ENCR"][i])})
BadMix(xfs) ==
    /\ Implicit(xfs) > 0
    /\ Implicit(xfs) # Len(xfs["ENCR"]) \/ xfs["INTEGR"] # <<>>

BadIke(xfs) ==
    \/ \E i \in DOMAIN xfs["DH"] : xfs["DH"][i].id = "none"
    \/ xfs["ESN"] # <<>>
    \/ BadMix(xfs)

(* `auth' of create_ike: a cipher that needs a MAC, or a MAC, was named.   *)
Explicit(xfs) == Len(xfs["ENCR"]) > Implicit(xfs) \/ xfs["INTEGR"] # <<>>

Numbered(protoid, lists) ==
    [i \in DOMAIN lists |-> [id |-> i, protoid |-> protoid, xforms |-> lists[i]]]

Gather(order, xfs, default) ==
    FoldLeft(LAMBDA s, t : s \o copy_transforms(t, xfs, default), <<>>, order)

(* The IKE proposals of create_ike: one with and one without implicit      *)
(* authentication for each clause that leaves the choice open.             *)
IkeProposals(clauses) ==
    IF clauses = <<>>
    THEN <<ikev2_default_ike_transforms_noauth, ikev2_default_ike_transforms>>
    ELSE FoldLeft(LAMBDA s, words :
           LET xfs == transforms(words)
               aead == IF Explicit(xfs) THEN <<>>
                       ELSE <<Gather(<<"ENCR", "DH", "PRF">>, xfs,
                                     ikev2_default_ike_transforms_noauth)>>
               mac == IF Implicit(xfs) > 0 THEN <<>>
                      ELSE <<Gather(<<"INTEGR", "ENCR", "DH", "PRF">>, xfs,
                                    ikev2_default_ike_transforms)>>
           IN  s \o aead \o mac, <<>>, clauses)

(* The ESP or AH proposals.  In the Linux build a clause that names only   *)
(* AES-GCM yields no proposal at all.                                      *)
ChildProposals(clauses, linux) ==
    IF clauses = <<>>
    THEN (IF linux THEN <<>> ELSE <<ikev2_default_esp_transforms_noauth>>)
           \o <<ikev2_default_esp_transforms(linux)>>
    ELSE FoldLeft(LAMBDA s, words :
           LET xfs == transforms(words)
               aead == IF Explicit(xfs) \/ linux THEN <<>>
                       ELSE <<Gather(<<"ENCR", "DH", "ESN">>, xfs,
                                     ikev2_default_esp_transforms_noauth)>>
               mac == IF Implicit(xfs) > 0 THEN <<>>
                      ELSE <<Gather(<<"INTEGR", "ENCR", "DH", "ESN">>, xfs,
                                    ikev2_default_esp_transforms(linux))>>
           IN  s \o aead \o mac, <<>>, clauses)

(* The file is refused when a clause makes no sense.                       *)
Loads(c) ==
    /\ \A i \in DOMAIN c.ike : ~BadIke(transforms(c.ike[i]))
    /\ \A i \in DOMAIN c.child : ~BadMix(transforms(c.child[i]))

create_ike(c) ==
    Numbered("IKE", IkeProposals(c.ike))
      \o Numbered(c.saproto, ChildProposals(c.child, c.linux))

----------------------------------------------------------------------------
(* Choosing: policy.c.                                                     *)

(* The body of the double loop of proposals_match for the peer's i-th and  *)
(* the local j-th transform, which are the same one.  x holds the local    *)
(* transform chosen for each type so far, byke says that the group of the  *)
(* KE payload is to be preferred.                                          *)
Consider(m, tlocal, byke, dhgroup) ==
    LET t == tlocal.type
    IN  IF byke /\ m.dhforced THEN m
        ELSE IF byke /\ tlocal.id = dhgroup
             THEN [x |-> [m.x EXCEPT ![t] = tlocal], dhforced |-> TRUE]
        ELSE IF m.x[t] = None \/ tlocal.score < m.x[t].score
             THEN [m EXCEPT !.x[t] = tlocal]
             ELSE m

(* The types without which a proposal is of no use; dh is requiredh and    *)
(* not nodh.                                                               *)
Needed(protoid, noauth, dh) ==
    CASE protoid = "IKE" -> {"ENCR", "PRF", "DH"} \cup (IF noauth THEN {} ELSE {"INTEGR"})
      [] protoid = "AH"  -> {"INTEGR", "ESN"}
      [] protoid = "ESP" -> {"ENCR", "ESN"} \cup (IF dh THEN {"DH"} ELSE {})

(* The score of what was chosen: 0 if a type is missing.                   *)
Scored(m, needed, usable) ==
    LET chosen == {t \in Types : m.x[t] # None}
    IN  [score |-> IF usable /\ needed \subseteq chosen
                   THEN MapThenSumSet(LAMBDA t : m.x[t].score, chosen) ELSE 0,
         x |-> m.x]

(* requiredh and nodh are set, for a rekeyed ESP SA, as the loop passes    *)
(* the local groups: all have been seen after the peer's first transform.  *)
proposals_match(local, peer, rekey, dhgroup) ==
    LET px == peer.xforms
        lx == local.xforms
        pfs == rekey /\ peer.protoid = "ESP"
        nones == {j \in DOMAIN lx : lx[j].type = "DH" /\ lx[j].id = "none"}
        groups == {j \in DOMAIN lx : lx[j].type = "DH" /\ lx[j].id # "none"}
        nodh(i, j) == pfs /\ \E k \in nones : i > 1 \/ k <= j
        noauth == \E i \in DOMAIN px : px[i].type = "ENCR" /\ encxf_noauth(px[i])
        offered == {px[i].type : i \in DOMAIN px}
        same(i) == {j \in DOMAIN lx : /\ px[i].type = lx[j].type
                                      /\ px[i].id = lx[j].id
                                      /\ px[i].length = lx[j].length}
        dh == pfs /\ groups # {} /\ nones = {}
    IN  Scored(FoldLeft(LAMBDA m, i :
                   IF same(i) = {} THEN m
                   ELSE LET j == CHOOSE k \in same(i) : TRUE
                        IN  Consider(m, lx[j],
                                     lx[j].type = "DH" /\ ~nodh(i, j) /\ dhgroup # NoGroup,
                                     dhgroup),
                   [x |-> [t \in Types |-> None], dhforced |-> FALSE],
                   [i \in DOMAIN px |-> i]),
               Needed(peer.protoid, noauth, dh) \cup offered,
               ~(noauth /\ "INTEGR" \in offered))

(* Mutant: the result keeps what it had                                    *)
config_free_proposals_kept(head, protoid) == head

config_free_proposals(head, protoid) ==
    FoldLeft(LAMBDA s, p : IF p.protoid = protoid THEN s ELSE Append(s, p), <<>>, head)

(* What proposals_negotiate does with the best match it has found.         *)
Settle(result, best) ==
    LET xs == FoldLeft(LAMBDA s, t : IF best.x[t] = None THEN s ELSE Append(s, best.x[t]),
                       <<>>, <<"ENCR", "PRF", "INTEGR", "DH", "ESN">>)
    IN  [ok |-> best.score # 0,
         result |-> IF best.score = 0 THEN result
                    ELSE Build(config_free_proposals(result, best.peer.protoid),
                               <<[id |-> best.peer.id, protoid |-> best.peer.protoid,
                                  xforms |-> xs]>>)]

Better(best, s, ppeer) ==
    IF s.score # 0 /\ (best.score = 0 \/ s.score < best.score)
    THEN [score |-> s.score, x |-> s.x, peer |-> ppeer] ELSE best

(* The lowest score among the peer's proposals for the first local one     *)
(* that has any; `ok' is the return value 0.                               *)
proposals_negotiate(result, local, peer, rekey, groupid) ==
    Settle(result, FoldLeft(LAMBDA b, plocal :
        IF b.score # 0 THEN b
        ELSE FoldLeft(LAMBDA c, ppeer :
               IF ppeer.protoid # plocal.protoid THEN c
               ELSE Better(c, proposals_match(plocal, ppeer, rekey, groupid), ppeer),
               b, peer),
        [score |-> 0, x |-> [t \in Types |-> None], peer |-> None], local))

(* "any" stands for protocol 0 of the lookups.                             *)
config_findtransform_ext(props, t, id, protoid) ==
    LET Is(x) == x.type = t /\ (id = NoGroup \/ x.id = id)
        First(xs) == xs[CHOOSE i \in DOMAIN xs : Is(xs[i]) /\ \A j \in 1..(i - 1) : ~Is(xs[j])]
    IN  FoldLeft(LAMBDA found, p :
                   IF found = None /\ protoid \in {"any", p.protoid}
                        /\ \E i \in DOMAIN p.xforms : Is(p.xforms[i])
                   THEN First(p.xforms) ELSE found,
                 None, props)

config_findtransform(props, t, protoid) == config_findtransform_ext(props, t, NoGroup, protoid)

----------------------------------------------------------------------------
(* On the wire.                                                            *)

(* A single DH transform NONE is the same as none at all and is left out,  *)
(* as every DH transform is in IKE_AUTH.  The receiver's parser builds the *)
(* list up again (ikev2_pld_sa, ikev2_pld_xform).                          *)
ikev2_add_proposals(props, protoid, skipdh) ==
    LET sent == FoldLeft(LAMBDA s, p :
                   IF (IF protoid = "any" THEN p.protoid = "IKE" ELSE p.protoid # protoid)
                   THEN s ELSE Append(s, p), <<>>, props)
        nodh(p) == \/ skipdh
                   \/ /\ protoid # "IKE"
                      /\ \A i \in DOMAIN p.xforms :
                            p.xforms[i].type = "DH" => p.xforms[i].id = "none"
        keep(p) == IF nodh(p)
                   THEN FoldLeft(LAMBDA s, x : IF x.type = "DH" THEN s ELSE Append(s, x),
                                 <<>>, p.xforms)
                   ELSE p.xforms
    IN  Build(<<>>, [i \in DOMAIN sent |-> [sent[i] EXCEPT !.xforms = keep(sent[i])]])

(* Mutant: the proposals left over from IKE_AUTH are offered               *)
ikev2_set_sa_proposal_old(props, policy, protoid) == props

ikev2_set_sa_proposal(props, policy, protoid) ==
    Build(config_free_proposals(props, protoid),
          FoldLeft(LAMBDA s, p : IF p.protoid = protoid THEN Append(s, p) ELSE s, <<>>, policy))

----------------------------------------------------------------------------
(* Key exchange groups and keys.                                           *)

GroupOf(x) == IF x = None THEN "none" ELSE x.id

(* The group the initiator's key exchange value is in.                     *)
ikev2_sa_initiator_dh(dhgroup, props, protoid) ==
    IF dhgroup # "none" THEN dhgroup
    ELSE GroupOf(config_findtransform(props, "DH", protoid))

(* The group the responder wants; ok when the KE payload is in it.         *)
ikev2_sa_responder_dh(props, ke, protoid) ==
    LET Result(x) == [ok |-> x # None /\ GroupOf(x) = ke, group |-> GroupOf(x)]
    IN  Result(config_findtransform(props, "DH", protoid))

(* The algorithms of an IKE SA, as looked up in its proposals.  With an    *)
(* AEAD cipher no INTEGR transform is looked up.                           *)
ikev2_sa_negotiate_common(n) ==
    [ok |-> n.ok,
     props |-> n.result,
     alg |-> [t \in {"ENCR", "PRF", "INTEGR"} |->
                LET x == config_findtransform(n.result, t, "any")
                    e == config_findtransform(n.result, "ENCR", "any")
                IN  IF x = None \/ (t = "INTEGR" /\ encxf_noauth(e)) THEN None
                    ELSE Xf(x.type, x.id, x.length)]]

(* What ikev2_childsa_negotiate builds a pair of SAs from: each ESP or AH  *)
(* proposal with a cipher or a MAC, the last of each type.                 *)
ikev2_valid_proposal(p) ==
    LET last(t) == LET xs == OfType(p.xforms, t) IN
                   IF xs = <<>> THEN None
                   ELSE Xf(t, xs[Len(xs)].id, xs[Len(xs)].length)
    IN  [ok |-> \/ p.protoid = "ESP" /\ last("ENCR") # None
                \/ p.protoid = "AH" /\ last("INTEGR") # None,
         alg |-> [ENCR |-> last("ENCR"), INTEGR |-> last("INTEGR"),
                  ESN |-> \E i \in DOMAIN p.xforms : p.xforms[i].id = "ESN"]]

Pairs(props) == {ikev2_valid_proposal(props[i]).alg :
                    i \in {j \in DOMAIN props : ikev2_valid_proposal(props[j]).ok}}

----------------------------------------------------------------------------
NoMsg == [to |-> "nobody"]
Request(e, props, ke) == [to |-> Other(e), req |-> TRUE, props |-> props, ke |-> ke]
Answer(e, props, ke) ==
    [to |-> Other(e), req |-> FALSE, err |-> "", props |-> props, ke |-> ke]
Refusal(e, err, group) ==
    [to |-> Other(e), req |-> FALSE, err |-> err, props |-> <<>>, ke |-> group]

NewSa == [props |-> <<>>, dhgroup |-> "none", next |-> "none", rekeyspi |-> FALSE, open |-> TRUE]
Failed == [ok |-> FALSE]
Made(alg, group) == [ok |-> TRUE, alg |-> alg, group |-> group]

Idle == msg = NoMsg /\ \A e \in End : sa[e].open

(* IKE_SA_INIT.                                                            *)
ikev2_init_ike_sa_peer ==
    /\ msg = NoMsg
    /\ exch.kind \in {"start", "again"}
    /\ LET g == ikev2_sa_initiator_dh(IF peerdh # NoGroup THEN peerdh ELSE "none",
                                      pol["a"], "any")
       IN  /\ sa' = [sa EXCEPT !["a"] = [NewSa EXCEPT !.dhgroup = g]]
           /\ msg' = Request("a", ikev2_add_proposals(pol["a"], "IKE", FALSE), g)
    /\ exch' = [exch EXCEPT !.kind = "init"]
    /\ res' = [e \in End |-> Failed]
    /\ UNCHANGED <<conf, pol, peerdh>>

(* ikev2_sa_responder for a new IKE SA looks the policy up again, by the   *)
(* proposals; when an IKE SA is rekeyed it does not.                       *)
ikev2_sa_responder(e, m, osa) ==
    LET found == osa \/ proposals_negotiate(<<>>, pol[e], m.props, FALSE, NoGroup).ok
        Result(n, d) ==
            [ok |-> found /\ n.ok /\ d.ok,
             err |-> IF found /\ n.ok THEN "INVALID_KE" ELSE "NO_PROPOSAL",
             props |-> n.props, alg |-> n.alg, group |-> d.group]
        Group(n) == Result(n, ikev2_sa_responder_dh(n.props, m.ke, "any"))
    IN  Group(ikev2_sa_negotiate_common(
                  proposals_negotiate(<<>>, pol[e], m.props, FALSE, m.ke)))

(* The IKE SA r of an accepted request takes over the proposals `more'.    *)
Respond(e, r, more) ==
    IF r.ok
    THEN /\ sa' = [sa EXCEPT ![e] = [NewSa EXCEPT !.props = r.props \o more,
                                                !.dhgroup = r.group]]
         /\ msg' = Answer(e, ikev2_add_proposals(r.props, "IKE", FALSE), r.group)
         /\ res' = [res EXCEPT ![e] = Made(r.alg, r.group)]
    ELSE /\ msg' = Refusal(e, r.err, r.group)
         /\ UNCHANGED <<sa, res>>

ikev2_resp_ike_sa_init ==
    /\ msg # NoMsg /\ msg.to = "b" /\ msg.req /\ exch.kind = "init"
    /\ Respond("b", ikev2_sa_responder("b", msg, FALSE), <<>>)
    /\ UNCHANGED <<conf, pol, peerdh, exch>>

Closed(e) == sa' = [sa EXCEPT ![e] = [@ EXCEPT !.open = FALSE]]

(* The answer's proposal is taken or the IKE SA is closed.                 *)
ikev2_sa_initiator(n) ==
    IF n.ok
    THEN /\ sa' = [sa EXCEPT !["a"].props = n.props]
         /\ res' = [res EXCEPT !["a"] = Made(n.alg, sa["a"].dhgroup)]
    ELSE Closed("a") /\ UNCHANGED res

(* ikev2_handle_notifies and the IKE_SA_INIT case of ikev2_init_recv.      *)
InitAnswer ==
    /\ msg # NoMsg /\ msg.to = "a" /\ ~msg.req /\ exch.kind = "init"
    /\ msg' = NoMsg
    /\ CASE msg.err = "INVALID_KE" ->
              /\ Closed("a")
              /\ UNCHANGED res
              /\ IF config_findtransform_ext(pol["a"], "DH", msg.ke, "IKE") = None
                 THEN UNCHANGED <<peerdh, exch>>
                 ELSE /\ peerdh' = msg.ke
                      /\ exch' = [exch EXCEPT !.kind = "again", !.ke = @ + 1]
         [] msg.err = "NO_PROPOSAL" -> Closed("a") /\ UNCHANGED <<res, peerdh, exch>>
         [] OTHER ->
              /\ ikev2_sa_initiator(ikev2_sa_negotiate_common(
                     proposals_negotiate(<<>>, pol["a"], msg.props, FALSE, NoGroup)))
              /\ UNCHANGED <<peerdh, exch>>
    /\ UNCHANGED <<conf, pol>>

(* IKE_AUTH: no groups are offered, there is no key exchange to use them.  *)
ikev2_init_ike_auth ==
    /\ Idle /\ exch.kind = "init" /\ res["a"].ok
    /\ msg' = Request("a", ikev2_add_proposals(pol["a"], "any", TRUE), "none")
    /\ exch' = [exch EXCEPT !.kind = "auth", !.ke = 0]
    /\ res' = [e \in End |-> Failed]
    /\ UNCHANGED <<conf, pol, sa, peerdh>>

(* The proposal part of ikev2_ike_auth_recv, which both ends run, and the  *)
(* Child SA made from it.                                                  *)
AuthSettled(e, n) ==
    IF n.ok
    THEN /\ sa' = [sa EXCEPT ![e].props = n.result]
         /\ res' = [res EXCEPT ![e] = Made(Pairs(n.result), "none")]
         /\ msg' = IF msg.req
                   THEN Answer(e, ikev2_add_proposals(n.result, "any", TRUE), "none")
                   ELSE NoMsg
    ELSE /\ Closed(e)
         /\ msg' = IF msg.req THEN Refusal(e, "NO_PROPOSAL", "none") ELSE NoMsg
         /\ UNCHANGED res

ikev2_ike_auth_recv(e) ==
    AuthSettled(e, proposals_negotiate(sa[e].props, pol[e], msg.props, FALSE, NoGroup))

AuthRequest ==
    /\ msg # NoMsg /\ msg.to = "b" /\ msg.req /\ exch.kind = "auth"
    /\ ikev2_ike_auth_recv("b")
    /\ UNCHANGED <<conf, pol, peerdh, exch>>

AuthAnswer ==
    /\ msg # NoMsg /\ msg.to = "a" /\ ~msg.req /\ exch.kind = "auth"
    /\ IF msg.err = "" THEN ikev2_ike_auth_recv("a")
                       ELSE Closed("a") /\ msg' = NoMsg /\ UNCHANGED res
    /\ UNCHANGED <<conf, pol, peerdh, exch>>

----------------------------------------------------------------------------
(* CREATE_CHILD_SA.                                                        *)

CanStart == /\ Idle
            /\ exch.kind = "auth" \/ exch.round > 0
            /\ \A e \in End : res[e].ok \/ exch.kind # "auth"
            /\ exch.round < Rounds

Started(kind, e) == exch' = [kind |-> kind, by |-> e, ke |-> 0, round |-> exch.round + 1]

Proto(e) == conf[e].saproto

(* proposed is the group of an INVALID_KE answer.                          *)
ikev2_send_create_child_sa(e, rekey, proposed) ==
    LET Send(props, pfs, g) ==
            /\ sa' = [sa EXCEPT ![e].props = props,
                                ![e].rekeyspi = rekey,
                                ![e].dhgroup = IF pfs THEN g ELSE @]
            /\ msg' = Request(e, ikev2_add_proposals(props, Proto(e), FALSE),
                              IF pfs THEN g ELSE "none")
    IN  Send(ikev2_set_sa_proposal(sa[e].props, pol[e], Proto(e)),
             GroupOf(config_findtransform(pol[e], "DH", Proto(e))) # "none",
             IF proposed # NoGroup THEN proposed
             ELSE ikev2_sa_initiator_dh("none", pol[e], Proto(e)))

(* A Child SA is rekeyed, or made for an ACQUIRE of the kernel.            *)
ChildRequest(e, kind) ==
    /\ CanStart
    /\ Started(kind, e)
    /\ ikev2_send_create_child_sa(e, kind = "rekey", NoGroup)
    /\ res' = [f \in End |-> Failed]
    /\ UNCHANGED <<conf, pol, peerdh>>

ChildKind == {"rekey", "new"}

(* The Child SA part of ikev2_resp_create_child_sa.  The SA payload names  *)
(* the protocol.                                                           *)
ikev2_resp_create_child_sa(e) ==
    /\ msg # NoMsg /\ msg.to = e /\ msg.req /\ exch.kind \in ChildKind
    /\ LET protoid == Last(msg.props).protoid
           Choose(n, d) ==
               LET pfs == d.group # "none" /\ msg.ke # "none"
                   g == IF pfs THEN d.group ELSE "none"
               IN  IF pfs /\ ~d.ok
                   THEN msg' = Refusal(e, "INVALID_KE", d.group) /\ UNCHANGED res
                   ELSE /\ msg' = Answer(e, ikev2_add_proposals(n.result, protoid, FALSE), g)
                        /\ res' = [res EXCEPT ![e] = Made(Pairs(n.result), g)]
           Settled(n) ==
               IF ~n.ok THEN msg' = Refusal(e, "NO_PROPOSAL", "none") /\ UNCHANGED res
               ELSE Choose(n, ikev2_sa_responder_dh(n.result, msg.ke, protoid))
       IN  Settled(proposals_negotiate(<<>>, pol[e], msg.props, TRUE, msg.ke))
    /\ UNCHANGED <<conf, pol, sa, peerdh, exch>>

(* INVALID_KE for a CREATE_CHILD_SA: the group must be one of the policy's *)
(* for ESP when sa_rekeyspi is set and for the IKE SA when it is not, else *)
(* the IKE SA is closed.  Without sa_rekeyspi it is the IKE SA that will   *)
(* be rekeyed.                                                             *)
ikev2_handle_notifies(e) ==
    LET protoid == IF sa[e].rekeyspi THEN "ESP" ELSE "IKE"
    IN  /\ exch' = [exch EXCEPT !.ke = @ + 1]
        /\ IF config_findtransform_ext(pol[e], "DH", msg.ke, protoid) = None
           THEN Closed(e) /\ msg' = NoMsg
           ELSE IF protoid = "ESP"
           THEN ikev2_send_create_child_sa(e, TRUE, msg.ke)
           ELSE sa' = [sa EXCEPT ![e].dhgroup = msg.ke] /\ msg' = NoMsg

(* The Child SA part of ikev2_init_create_child_sa: the answer is scored   *)
(* against what was offered.                                               *)
ChildAnswer(e) ==
    /\ msg # NoMsg /\ msg.to = e /\ ~msg.req /\ exch.kind \in ChildKind
    /\ CASE msg.err = "INVALID_KE" -> ikev2_handle_notifies(e) /\ UNCHANGED res
         [] msg.err = "NO_PROPOSAL" ->
              Closed(e) /\ msg' = NoMsg /\ UNCHANGED <<exch, res>>
         [] OTHER ->
              LET g == IF msg.ke = "none" THEN "none" ELSE sa[e].dhgroup
                  Settled(n) ==
                      /\ sa' = [sa EXCEPT ![e].props = n.result]
                      /\ res' = [res EXCEPT ![e] =
                                   IF n.ok THEN Made(Pairs(n.result), g) ELSE Failed]
              IN  /\ msg' = NoMsg
                  /\ Settled(proposals_negotiate(sa[e].props, sa[e].props, msg.props,
                                                 TRUE, NoGroup))
                  /\ UNCHANGED exch
    /\ UNCHANGED <<conf, pol, peerdh>>

(* The IKE SA is rekeyed with the algorithms it has: the group is the      *)
(* first of any protocol in its proposals, where the IKE proposal is.      *)
ikev2_ike_sa_rekey(e) ==
    /\ CanStart
    /\ Started("ike", e)
    /\ LET g == ikev2_sa_initiator_dh("none", sa[e].props, "any")
       IN  /\ sa' = [sa EXCEPT ![e].next = g]
           /\ msg' = Request(e, ikev2_add_proposals(sa[e].props, "IKE", FALSE), g)
    /\ res' = [f \in End |-> Failed]
    /\ UNCHANGED <<conf, pol, peerdh>>

(* The proposals the new IKE SA has besides its own: the old one's others. *)
ikev2_ikesa_enable(old) == config_free_proposals(old, "IKE")

IkeRequest(e) ==
    /\ msg # NoMsg /\ msg.to = e /\ msg.req /\ exch.kind = "ike"
    /\ Respond(e, ikev2_sa_responder(e, msg, TRUE), ikev2_ikesa_enable(sa[e].props))
    /\ UNCHANGED <<conf, pol, peerdh, exch>>

(* Scored against the old SA's proposals first, then against the policy.   *)
IkeAnswer(e) ==
    /\ msg # NoMsg /\ msg.to = e /\ ~msg.req /\ exch.kind = "ike"
    /\ CASE msg.err = "INVALID_KE" -> ikev2_handle_notifies(e) /\ UNCHANGED res
         [] msg.err = "NO_PROPOSAL" ->
              Closed(e) /\ msg' = NoMsg /\ UNCHANGED <<exch, res>>
         [] OTHER ->
              LET Settled(n1, n2) ==
                      IF n1.ok /\ n2.ok
                      THEN /\ sa' = [sa EXCEPT ![e] =
                                 [NewSa EXCEPT
                                    !.props = n2.props \o ikev2_ikesa_enable(n1.result),
                                    !.dhgroup = sa[e].next]]
                           /\ res' = [res EXCEPT ![e] = Made(n2.alg, sa[e].next)]
                      ELSE sa' = [sa EXCEPT ![e].props = n1.result] /\ UNCHANGED res
              IN  /\ msg' = NoMsg
                  /\ Settled(proposals_negotiate(sa[e].props, sa[e].props, msg.props,
                                                 TRUE, NoGroup),
                             ikev2_sa_negotiate_common(proposals_negotiate(
                                 <<>>, pol[e], msg.props, FALSE, NoGroup)))
                  /\ UNCHANGED exch
    /\ UNCHANGED <<conf, pol, peerdh>>

----------------------------------------------------------------------------
Init ==
    /\ conf \in Confs
    /\ \A e \in End : Loads(conf[e])
    /\ pol = [e \in End |-> config_getpolicy(create_ike(conf[e]))]
    /\ sa = [e \in End |-> [NewSa EXCEPT !.open = FALSE]]
    /\ peerdh = NoGroup
    /\ msg = NoMsg
    /\ exch = [kind |-> "start", by |-> "a", ke |-> 0, round |-> 0]
    /\ res = [e \in End |-> Failed]

Next ==
    \/ ikev2_init_ike_sa_peer
    \/ ikev2_resp_ike_sa_init
    \/ InitAnswer
    \/ ikev2_init_ike_auth
    \/ AuthRequest
    \/ AuthAnswer
    \/ \E e \in End :
          \/ \E kind \in ChildKind : ChildRequest(e, kind)
          \/ ikev2_resp_create_child_sa(e)
          \/ ChildAnswer(e)
          \/ ikev2_ike_sa_rekey(e)
          \/ IkeRequest(e)
          \/ IkeAnswer(e)

Spec == Init /\ [][Next]_vars

----------------------------------------------------------------------------
(* The properties.                                                         *)

Ended == msg = NoMsg /\ exch.kind \notin {"start", "again"}

(* When an exchange has ended both ends made the same SAs, with the same   *)
(* ciphers, MACs and sequence numbers and keyed by the same group, or      *)
(* neither made any: the responder, which makes its SAs before the answer  *)
(* leaves, never chooses what the initiator's own scoring then refuses.    *)
Agreement == Ended => res["a"] = res["b"]

(* What an administrator reads off the two files: proposals of the same    *)
(* protocol with a transform in common for each type that is on the wire,  *)
(* every type the protocol needs, and a group if the responder insists on  *)
(* one.                                                                    *)
Ids(p, t) == {<<p.xforms[i].id, p.xforms[i].length>> :
                 i \in {j \in DOMAIN p.xforms : p.xforms[j].type = t}}
NoneId == <<"none", 0>>
OnWire(p, kind) ==
    {t \in Types : /\ Ids(p, t) # {}
                   /\ t = "DH" => (p.protoid = "IKE"
                                   \/ (kind # "auth" /\ Ids(p, t) # {NoneId}))}
Musts(pi, pr, kind) ==
    CASE pi.protoid = "IKE" ->
           {"ENCR", "PRF", "DH"}
             \cup (IF \E c \in Ids(pi, "ENCR") : c[1] = "AES_GCM_16" THEN {} ELSE {"INTEGR"})
      [] pi.protoid = "AH" -> {"INTEGR", "ESN"}
      [] pi.protoid = "ESP" ->
           {"ENCR", "ESN"}
             \cup (IF kind # "auth" /\ Ids(pr, "DH") # {} /\ NoneId \notin Ids(pr, "DH")
                   THEN {"DH"} ELSE {})
Common(pi, pr, kind) ==
    /\ pi.protoid = pr.protoid
    /\ (pi.protoid = "IKE") <=> (kind \in {"init", "ike"})
    /\ Musts(pi, pr, kind) \subseteq OnWire(pi, kind)
    /\ \A t \in OnWire(pi, kind) : Ids(pi, t) \cap Ids(pr, t) # {}

Compatible(i, r, kind) ==
    \E x \in DOMAIN pol[i], y \in DOMAIN pol[r] : Common(pol[i][x], pol[r][y], kind)

(* An INVALID_KE answer sends the initiator astray when the Child SA is a  *)
(* new one, or an AH one: ikev2_handle_notifies looks for the group among  *)
(* the IKE, or the ESP, proposals.                                         *)
Astray == /\ exch.ke > 0
          /\ exch.kind = "new" \/ (exch.kind = "rekey" /\ Proto(exch.by) = "AH")

(* An exchange succeeds exactly when the two policies have something in    *)
(* common: refusing the group of a KE payload, the two passes over the     *)
(* proposals and the proposals that earlier exchanges left in the SA never *)
(* turn a compatible pair away or let an incompatible one through.  One    *)
(* INVALID_KE answer is enough: the group the responder names is one that  *)
(* it accepts when it is tried.                                            *)
SettledByPolicy ==
    /\ exch.ke <= 1
    /\ Ended /\ ~Astray =>
          (res[exch.by].ok <=> Compatible(exch.by, Other(exch.by), exch.kind))

(* The answer is the responder's first proposal that has anything in       *)
(* common with an offered one, and in it the responder's first transform   *)
(* of each type that the offer has; a KE payload goes with the chosen      *)
(* group, if the initiator's first choice is a group at all.               *)
FirstIn(p, t, ids) ==
    LET ok == {j \in DOMAIN p.xforms : /\ p.xforms[j].type = t
                                       /\ <<p.xforms[j].id, p.xforms[j].length>> \in ids}
        k == CHOOSE j \in ok : \A l \in ok : j <= l
    IN  {<<p.xforms[k].id, p.xforms[k].length>>}

FirstChoice ==
    (msg # NoMsg /\ ~msg.req /\ msg.err = "" /\ exch.kind # "ike") =>
        LET i == msg.to
            r == Other(i)
            c == msg.props[1]
            fits == {y \in DOMAIN pol[r] : \E x \in DOMAIN pol[i] :
                        Common(pol[i][x], pol[r][y], exch.kind)}
            y == CHOOSE k \in fits : \A l \in fits : k <= l
            x1 == config_findtransform(pol[i], "DH", c.protoid)
        IN  /\ Len(msg.props) = 1
            /\ \E x \in DOMAIN pol[i] :
                  /\ Common(pol[i][x], pol[r][y], exch.kind)
                  /\ \A t \in Types \ {"DH"} :
                        Ids(c, t) = (IF t \in OnWire(pol[i][x], exch.kind)
                                     THEN FirstIn(pol[r][y], t, Ids(pol[i][x], t)) ELSE {})
            /\ \A g \in Ids(c, "DH") : x1.id # "none" => msg.ke = g[1]
=============================================================================
