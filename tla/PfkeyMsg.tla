------------------------------ MODULE PfkeyMsg ------------------------------
(***************************************************************************)
(* The PF_KEY messages iked writes: a header and a list of extensions that *)
(* are put together from pieces (struct iovec) of an array of IOV_CNT.     *)
(*                                                                         *)
(* Source: iked/pfkey.c, iked/util.c, compat/openbsd-compat.h.  A message  *)
(* is the sequence of its pieces.  A piece that begins an extension (or is *)
(* the header) has in "words" the length the code declares for it, in      *)
(* units of 8 bytes, which is also what the code adds to sadb_msg_len; a   *)
(* piece of data or of padding has 0 there.  What the fields of an         *)
(* extension hold is left out, lengths and order are kept.                 *)
(***************************************************************************)
EXTENDS Naturals, Sequences

Builds == {"openbsd", "linux", "apple"}
Families == {"inet", "inet6"}

\* Sizes of the structures of net/pfkeyv2.h, in bytes.
SizeOf ==
    [msg |-> 16, sa |-> 16, natt |-> 8, sa2 |-> 16, address |-> 8,
     lifetime |-> 32, udpencap |-> 8, nattype |-> 8, natport |-> 8, key |-> 8,
     ident |-> 16, tag |-> 8, iface |-> 16, tap |-> 8, rdomain |-> 8,
     protocol |-> 8, policy |-> 16, ipsecrequest |-> 16, spirange |-> 16]

IOV_CNT == 28

ROUNDUP(n) == ((n + 7) \div 8) * 8

\* socket_af sets the length of the two families, SS_LEN reads it.
SS_LEN(af) == IF af = "inet" THEN 16 ELSE 28

-----------------------------------------------------------------------------
(* Pieces *)

Header(ext, words) == <<[ext |-> ext, len |-> SizeOf[ext], words |-> words]>>

\* An extension that consists of its structure only.
Plain(ext) == Header(ext, SizeOf[ext] \div 8)

\* Mutant: the macro PAD is forgotten.
UnpaddedData(n) == <<[ext |-> "data", len |-> n, words |-> 0]>>

\* A buffer, and the macro PAD.
PaddedData(n) ==
    LET padlen == ROUNDUP(n) - n
    IN  <<[ext |-> "data", len |-> n, words |-> 0]>>
        \o IF padlen > 0 THEN <<[ext |-> "data", len |-> padlen, words |-> 0]>>
           ELSE <<>>

Address(af) ==
    Header("address", (SizeOf.address + ROUNDUP(SS_LEN(af))) \div 8)
    \o PaddedData(SS_LEN(af))

Key(n) == Header("key", (SizeOf.key + ROUNDUP(n)) \div 8) \o PaddedData(n)

Tag(n) == Header("tag", (ROUNDUP(n + 1) + SizeOf.tag) \div 8) \o PaddedData(n + 1)

If(c, pieces) == IF c THEN pieces ELSE <<>>

\* pfkey_id2ident: one buffer for the structure and the printed identity;
\* NULL for the types PF_KEY has no name for (idlen 0 here).
pfkey_id2ident(idlen) ==
    LET len == ROUNDUP(idlen + 1) + SizeOf.ident
    IN  If(idlen > 0, <<[ext |-> "ident", len |-> (len \div 8) * 8,
                         words |-> len \div 8]>>)

-----------------------------------------------------------------------------
(* Flows.  f has the families of the selectors and of the tunnel's ends,   *)
(* transport mode, the lengths of the identities and the routing domain.   *)

\* pfkey_flow on OpenBSD: a flow is removed without naming the tunnel.
OpenBsdFlow(f, add) ==
    Plain("msg") \o Plain("protocol")
    \o If(add, Address(f.outer))
    \o Address(f.inner) \o Address(f.inner)
    \o Address(f.inner) \o Address(f.inner)
    \o Plain("protocol")
    \o If(add, pfkey_id2ident(f.srcid) \o pfkey_id2ident(f.dstid))
    \o If(f.rdomain, Plain("rdomain"))

\* sadb_x_policy_len on the other systems: the policy, the request and in
\* tunnel mode the two ends, which are rounded up together.
PolicyWords(f) ==
    LET ends == ROUNDUP(SS_LEN(f.outer) + SS_LEN(f.outer))
    IN  (SizeOf.policy + SizeOf.ipsecrequest
         + IF f.transport THEN 0 ELSE ends) \div 8

\* struct sadb_x_ipsecrequest lies inside of the policy extension.
RequestInside ==
    <<[ext |-> "data", len |-> SizeOf.ipsecrequest, words |-> 0]>>

TunnelEnds(f) ==
    LET n == SS_LEN(f.outer) + SS_LEN(f.outer)
        padlen == ROUNDUP(n) - n
        Piece(k) == <<[ext |-> "data", len |-> k, words |-> 0]>>
    IN  Piece(SS_LEN(f.outer)) \o Piece(SS_LEN(f.outer))
        \o If(padlen > 0, Piece(padlen))

OtherFlow(f) ==
    Plain("msg") \o Plain("sa2")
    \o Address(f.inner) \o Address(f.inner)
    \o Header("policy", PolicyWords(f)) \o RequestInside
    \o If(~f.transport, TunnelEnds(f))

pfkey_flow(build, f, add) ==
    IF build = "openbsd" THEN OpenBsdFlow(f, add) ELSE OtherFlow(f)

-----------------------------------------------------------------------------
(* Security associations.  c has the SA type, the family of the ends, NAT  *)
(* traversal, the lengths of the keys (0: none), whether lifetimes are     *)
(* configured, the lengths of the identities and of the tag, and what the  *)
(* policy asks for.                                                        *)

\* "goto send": SADB_DELETE and the update of addresses skip the rest.
AddressesOnly(action) == action \in {"delete", "update_addresses"}

\* The new peer goes in a proxy extension when an outbound SA is moved.
Moved(build, action, out) ==
    build = "openbsd" /\ action = "update_addresses" /\ out

\* UDP encapsulation of ESP.  On Apple's kernel the data is part of the SA
\* extension, and it is there for every type and action.
SaPieces(build, c) ==
    LET natt == build = "apple" /\ c.natt
    IN  Header("sa", (SizeOf.sa + IF natt THEN SizeOf.natt ELSE 0) \div 8)
        \o If(natt, <<[ext |-> "data", len |-> SizeOf.natt, words |-> 0]>>)

NatPieces(build, action, c) ==
    If(action # "delete" /\ c.satype = "esp" /\ c.natt,
       CASE build = "openbsd" -> Plain("udpencap")
         [] build = "linux"   -> Plain("nattype") \o Plain("natport") \o Plain("natport")
         [] build = "apple"   -> <<>>)

\* Soft and hard lifetime.
Lifetimes(action, c) ==
    If(action \in {"add", "update"} /\ c.lifetime, Plain("lifetime") \o Plain("lifetime"))

Keys(action, c) ==
    If(~AddressesOnly(action), If(c.enc > 0, Key(c.enc)) \o If(c.integ > 0, Key(c.integ)))

\* The identities change places for an inbound SA.
Idents(action, c) ==
    IF action = "update" THEN pfkey_id2ident(c.dstid) \o pfkey_id2ident(c.srcid)
    ELSE pfkey_id2ident(c.srcid) \o pfkey_id2ident(c.dstid)

Options(c) ==
    If(c.tag > 0, Tag(c.tag)) \o If(c.iface, Plain("iface")) \o If(c.tap, Plain("tap"))

\* Identities, tag, interface and enc(4) unit are known to OpenBSD only; the
\* routing domain is told in every message.
OpenBsdPieces(build, action, c) ==
    If(build = "openbsd",
       If(~AddressesOnly(action), Idents(action, c) \o Options(c))
       \o If(c.rdomain, Plain("rdomain")))

\* pfkey_sa; the checks that return before anything is written are in
\* Loadable.
pfkey_sa(build, action, out, c) ==
    Plain("msg") \o SaPieces(build, c)
    \o If(build # "openbsd", Plain("sa2"))
    \o Address(c.outer) \o Address(c.outer)
    \o If(Moved(build, action, out), Address(c.outer))
    \o Lifetimes(action, c)
    \o NatPieces(build, action, c)
    \o Keys(action, c)
    \o OpenBsdPieces(build, action, c)

\* An SA without a key is not added, unless it compresses; the algorithms
\* must be known to the kernel.
Loadable(action, c) ==
    \/ AddressesOnly(action)
    \/ /\ action = "add" => c.enc > 0 \/ c.integ > 0 \/ c.satype = "ipcomp"
       /\ c.mapped

\* pfkey_sa_lookup
pfkey_sa_lookup(build, c) ==
    Plain("msg") \o Plain("sa") \o Address(c.outer) \o Address(c.outer)
    \o If(build = "openbsd" /\ c.rdomain, Plain("rdomain"))

\* pfkey_sa_getspi
pfkey_sa_getspi(c) ==
    Plain("msg") \o Plain("spirange") \o Address(c.outer) \o Address(c.outer)

\* pfkey_sagroup: on OpenBSD an IPCOMP SA is chained to the SA it is bundled
\* with; only ESP is told of the routing domain.
pfkey_sagroup(c) ==
    Plain("msg") \o Plain("sa") \o Address(c.outer)
    \o Plain("sa") \o Address(c.outer) \o Plain("protocol")
    \o If(c.rdomain /\ c.satype = "esp", Plain("rdomain"))

-----------------------------------------------------------------------------
(* What the kernel makes of a message *)

\* Where the pieces begin, and where the last one ends.
Offsets(m) ==
    LET off[i \in 1..(Len(m) + 1)] ==
            IF i = 1 THEN 0 ELSE off[i - 1] + m[i - 1].len
    IN  off

\* What writev(2) counts, and sadb_msg_len in bytes.
Written(m) == Offsets(m)[Len(m) + 1]
Declared(m) ==
    LET words[i \in 0..Len(m)] == IF i = 0 THEN 0 ELSE words[i - 1] + m[i].words
    IN  8 * words[Len(m)]

\* The offsets of the extensions that were put in, and their declared lengths.
Extensions(m) ==
    {<<Offsets(m)[i], 8 * m[i].words>> : i \in {i \in 2..Len(m) : m[i].words > 0}}

\* pfkey_find_ext and the kernel walk over a message from the declared
\* length of one extension to the next: the offsets they visit.
Walk(m) ==
    LET exts == Extensions(m)
        visit[n \in 0..Len(m)] ==
            IF n = 0 THEN <<SizeOf.msg>>
            ELSE LET v == visit[n - 1]
                     here == {x \in exts : x[1] = v[Len(v)]}
                 IN  IF here = {} THEN v
                     ELSE Append(v, v[Len(v)] + (CHOOSE x \in here : TRUE)[2])
    IN  visit[Len(m)]

\* The message fits the array, the write is not short, and the walk visits
\* just the extensions that were put in and ends with the message.
WellFormed(m) ==
    LET walk == Walk(m)
    IN  /\ Len(m) <= IOV_CNT
        /\ Written(m) = Declared(m)
        /\ walk[Len(walk)] = Declared(m)
        /\ {walk[k] : k \in 1..(Len(walk) - 1)} = {x[1] : x \in Extensions(m)}
=============================================================================
