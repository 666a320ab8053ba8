--------------------------- MODULE AddrPoolProofs ---------------------------
(***************************************************************************)
(* Proof that no address of a pool is ever held by two IKE SAs, for any    *)
(* set of SAs, clients, configurations and requested addresses.            *)
(*                                                                         *)
(* UniqueAddresses is not inductive: an address is given away if the tree  *)
(* does not have it, so every SA with an address must be in the tree       *)
(* (Covered).  The converse, the rest of Exact, is not needed, and does    *)
(* not hold for every set of configurations.                               *)
(***************************************************************************)
EXTENDS AddrPool, TLAPS

\* The shape of the environment, without the values of the addresses.
EnvOK(t) ==
    /\ t = [state |-> t.state, who |-> t.who, addr |-> t.addr,
            tree |-> t.tree, dstid |-> t.dstid]
    /\ t.addr = [f \in Family |-> [sa \in Sas |-> t.addr[f][sa]]]
    /\ t.tree = [f \in Family |-> t.tree[f]]
    /\ \A f \in Family : t.tree[f] \subseteq Sas
    /\ t.dstid \subseteq Sas

\* Every SA that has an address is in the tree.
Covered(t) == \A f \in Family : \A sa \in Sas :
                t.addr[f][sa] # {} => sa \in t.tree[f]

Unique(t) == \A f \in Family : \A sa, other \in Sas :
                sa # other => t.addr[f][sa] \cap t.addr[f][other] = {}

PoolInv(t) == EnvOK(t) /\ Covered(t) /\ Unique(t)

\* The environment after addr[f] and tree[f] are replaced.
With(t, f, addr, tree) ==
    [t EXCEPT !.addr = [t.addr EXCEPT ![f] = addr],
              !.tree = [t.tree EXCEPT ![f] = tree]]

-----------------------------------------------------------------------------
\* A record with the five fields has the shape of an environment.
LEMMA EnvShape ==
    ASSUME NEW u, NEW state, NEW who, NEW addr, NEW tree, NEW dstid,
           u = [state |-> state, who |-> who, addr |-> addr, tree |-> tree,
                dstid |-> dstid],
           addr = [f \in Family |-> [sa \in Sas |-> addr[f][sa]]],
           tree = [f \in Family |-> tree[f]],
           \A f \in Family : tree[f] \subseteq Sas,
           dstid \subseteq Sas
    PROVE  /\ EnvOK(u)
           /\ u.addr = addr /\ u.tree = tree
<1>1. /\ u.state = state /\ u.who = who /\ u.addr = addr
      /\ u.tree = tree /\ u.dstid = dstid
  OBVIOUS
<1>2. u = [state |-> u.state, who |-> u.who, addr |-> u.addr,
           tree |-> u.tree, dstid |-> u.dstid]
  BY <1>1
<1>3. /\ u.addr = [f \in Family |-> [sa \in Sas |-> u.addr[f][sa]]]
      /\ u.tree = [f \in Family |-> u.tree[f]]
      /\ \A f \in Family : u.tree[f] \subseteq Sas
  BY <1>1
<1> QED BY <1>1, <1>2, <1>3 DEF EnvOK

\* Replacing the addresses and the tree of one family preserves the invariant
\* if the new ones satisfy it.
LEMMA WithInv ==
    ASSUME NEW t, NEW f \in Family, NEW addr, NEW tree, PoolInv(t),
           addr = [sa \in Sas |-> addr[sa]], tree \subseteq Sas,
           \A sa \in Sas : addr[sa] # {} => sa \in tree,
           \A sa, other \in Sas : sa # other => addr[sa] \cap addr[other] = {}
    PROVE  PoolInv(With(t, f, addr, tree))
<1> DEFINE A == [t.addr EXCEPT ![f] = addr]
           T == [t.tree EXCEPT ![f] = tree]
           u == With(t, f, addr, tree)
<1>1. /\ \A g \in Family : A[g] = IF g = f THEN addr ELSE t.addr[g]
      /\ \A g \in Family : T[g] = IF g = f THEN tree ELSE t.tree[g]
  BY DEF PoolInv, EnvOK
<1>2. u = [state |-> t.state, who |-> t.who, addr |-> A, tree |-> T,
           dstid |-> t.dstid]
  <2>1. u = [t EXCEPT !.addr = A, !.tree = T]  BY DEF With
  <2>2. t = [state |-> t.state, who |-> t.who, addr |-> t.addr,
             tree |-> t.tree, dstid |-> t.dstid]
    BY DEF PoolInv, EnvOK
  <2> HIDE DEF A, T, u
  <2> QED BY ONLY <2>1, <2>2
<1>3. T = [g \in Family |-> T[g]]
  BY DEF PoolInv, EnvOK
<1>4. A = [g \in Family |-> [sa \in Sas |-> A[g][sa]]]
  <2>1. A = [g \in Family |-> A[g]]  BY DEF PoolInv, EnvOK
  <2>2. ASSUME NEW g \in Family PROVE A[g] = [sa \in Sas |-> A[g][sa]]
    <3>1. CASE g = f  BY <1>1, <3>1
    <3>2. CASE g # f  BY <1>1, <3>2 DEF PoolInv, EnvOK
    <3> QED BY <3>1, <3>2
  <2> HIDE DEF A
  <2> QED BY <2>1, <2>2
<1>5. \A g \in Family : T[g] \subseteq Sas
  BY <1>1 DEF PoolInv, EnvOK
<1>a. t.dstid \subseteq Sas
  BY DEF PoolInv, EnvOK
<1> HIDE DEF A, T, u
<1>b. EnvOK(u) /\ u.addr = A /\ u.tree = T
  BY <1>2, <1>3, <1>4, <1>5, <1>a, EnvShape
<1>6. Covered(u)
  BY <1>1, <1>b DEF PoolInv, Covered
<1>7. Unique(u)
  BY <1>1, <1>b DEF PoolInv, Unique
<1> QED BY <1>b, <1>6, <1>7 DEF PoolInv, u

\* An SA that gets an address nobody in the tree has: RB_INSERT succeeds, or
\* the SA is in the tree already.
LEMMA AssignInv ==
    ASSUME NEW t, NEW sa \in Sas, NEW f \in Family, NEW found, PoolInv(t),
           \A a \in found : ~InTree(t, f, a), found # {}
    PROVE  PoolInv(Assign(t, sa, f, found))
<1> DEFINE addr == [t.addr[f] EXCEPT ![sa] = found]
           u    == [t EXCEPT !.addr[f][sa] = found]
           in   == With(t, f, addr, t.tree[f] \cup {sa})
           out  == With(t, f, addr, t.tree[f])
<1>1. \A s \in Sas : addr[s] = IF s = sa THEN found ELSE t.addr[f][s]
  BY DEF PoolInv, EnvOK
<1>2. addr = [s \in Sas |-> addr[s]]
  BY DEF PoolInv, EnvOK
<1>3. \A s, o \in Sas : s # o => addr[s] \cap addr[o] = {}
  BY <1>1 DEF PoolInv, Covered, Unique, InTree
<1>4. PoolInv(in)
  <2>1. \A s \in Sas : addr[s] # {} => s \in t.tree[f] \cup {sa}
    BY <1>1 DEF PoolInv, Covered
  <2>2. t.tree[f] \cup {sa} \subseteq Sas  BY DEF PoolInv, EnvOK
  <2> QED BY <1>2, <1>3, <2>1, <2>2, WithInv
<1>5. /\ u = out
      /\ u.tree[f] = t.tree[f] /\ u.addr[f] = addr
  BY DEF With, PoolInv, EnvOK
<1>6. [u EXCEPT !.tree[f] = @ \cup {sa}] = in
  BY DEF With, PoolInv, EnvOK
<1>7. ASSUME NEW o \in t.tree[f], addr[o] = addr[sa], PoolInv(t)
      PROVE  sa \in t.tree[f]
  <2>1. CASE o = sa  BY <1>7, <2>1
  <2>2. CASE o # sa
    <3>1. addr[sa] = found BY <1>1
    <3>2. t.addr[f][o] = found BY <1>7, <2>2, <3>1 DEF PoolInv, EnvOK
    <3> QED BY <1>7, <3>2 DEF InTree
  <2> QED BY <2>1, <2>2
<1>8. CASE \E o \in u.tree[f] : u.addr[f][o] = u.addr[f][sa]
  <2>1. sa \in t.tree[f] BY <1>5, <1>7, <1>8
  <2>2. Assign(t, sa, f, found) = u BY <1>8 DEF Assign, Insert
  <2>3. \A s \in Sas : addr[s] # {} => s \in t.tree[f]
    BY <1>1, <2>1 DEF PoolInv, Covered
  <2>4. t.tree[f] \subseteq Sas  BY DEF PoolInv, EnvOK
  <2> QED BY <1>2, <1>3, <1>5, <2>2, <2>3, <2>4, WithInv
<1>9. CASE ~ \E o \in u.tree[f] : u.addr[f][o] = u.addr[f][sa]
  BY <1>4, <1>6, <1>9 DEF Assign, Insert
<1> QED BY <1>8, <1>9

\* A step that changes neither addresses nor trees preserves the invariant.
LEMMA SameInv ==
    ASSUME NEW t, NEW state, NEW who, NEW dstid, PoolInv(t),
           dstid \subseteq Sas
    PROVE  PoolInv([t EXCEPT !.state = state, !.who = who, !.dstid = dstid])
<1> DEFINE u == [t EXCEPT !.state = state, !.who = who, !.dstid = dstid]
<1>1. t = [state |-> t.state, who |-> t.who, addr |-> t.addr,
           tree |-> t.tree, dstid |-> t.dstid]
  BY DEF PoolInv, EnvOK
<1>2. u = [state |-> state, who |-> who, addr |-> t.addr, tree |-> t.tree,
           dstid |-> dstid]
  <2>1. u = [t EXCEPT !.state = state, !.who = who, !.dstid = dstid]
    OBVIOUS
  <2> HIDE DEF u
  <2> QED BY ONLY <1>1, <2>1
<1> HIDE DEF u
<1>3. /\ t.addr = [f \in Family |-> [sa \in Sas |-> t.addr[f][sa]]]
      /\ t.tree = [f \in Family |-> t.tree[f]]
      /\ \A f \in Family : t.tree[f] \subseteq Sas
  BY DEF PoolInv, EnvOK
<1>4. EnvOK(u) /\ u.addr = t.addr /\ u.tree = t.tree
  BY <1>2, <1>3, EnvShape
<1>5. Covered(u) /\ Unique(u)
  BY <1>4 DEF PoolInv, Covered, Unique
<1> QED BY <1>4, <1>5 DEF PoolInv, u

\* Transfer moves the address of one SA to another and keeps both the tree
\* and the uniqueness intact, whatever the new owner had.
LEMMA TransferInv ==
    ASSUME NEW t, NEW osa \in Sas, NEW sa \in Sas, NEW f \in Family, PoolInv(t)
    PROVE  PoolInv(Transfer(t, osa, sa, f))
<1> DEFINE old  == t.addr[f][osa]
           addr == [t.addr[f] EXCEPT ![osa] = {}, ![sa] = old]
           tree == IF old # {} THEN t.tree[f] \ {osa} ELSE t.tree[f]
           u    == Move(t, osa, sa, f)
<1>0. t.addr[f] = [s \in Sas |-> t.addr[f][s]]
  BY DEF PoolInv, EnvOK
<1>1. \A s \in Sas : addr[s] = IF s = sa THEN old
                              ELSE IF s = osa THEN {} ELSE t.addr[f][s]
  <2> HIDE DEF old
  <2> QED BY ONLY <1>0, osa \in Sas, sa \in Sas DEF addr
<1>2. addr = [s \in Sas |-> addr[s]]
  <2> HIDE DEF old
  <2> QED BY ONLY <1>0 DEF addr
<1>a. \A s, o \in Sas : s # o => t.addr[f][s] \cap t.addr[f][o] = {}
  BY DEF PoolInv, Unique
<1>3. ASSUME NEW s \in Sas, NEW o \in Sas, s # o
      PROVE  addr[s] \cap addr[o] = {}
  <2> HIDE DEF addr
  <2>1. CASE s = sa  BY <1>1, <1>a, <1>3, <2>1
  <2>2. CASE o = sa  BY <1>1, <1>a, <1>3, <2>2
  <2>3. CASE s # sa /\ o # sa  BY <1>1, <1>a, <1>3, <2>3
  <2> QED BY <2>1, <2>2, <2>3
<1>b. tree \subseteq Sas /\ tree \cup {sa} \subseteq Sas
  BY DEF PoolInv, EnvOK
<1>4. /\ u = With(t, f, addr, tree)
      /\ u.tree[f] = tree /\ u.addr[f] = addr
      /\ [u EXCEPT !.tree[f] = @ \cup {sa}] = With(t, f, addr, tree \cup {sa})
  <2> DEFINE A == [t.addr EXCEPT ![f] = addr]
             T == [t.tree EXCEPT ![f] = tree]
             S == [t.tree EXCEPT ![f] = tree \cup {sa}]
  <2>1. u = [t EXCEPT !.tree = T, !.addr = A]  BY DEF Move
  <2>2. /\ With(t, f, addr, tree) = [t EXCEPT !.addr = A, !.tree = T]
        /\ With(t, f, addr, tree \cup {sa}) = [t EXCEPT !.addr = A, !.tree = S]
    BY DEF With
  <2>3. t = [state |-> t.state, who |-> t.who, addr |-> t.addr,
             tree |-> t.tree, dstid |-> t.dstid]
    BY DEF PoolInv, EnvOK
  <2>4. /\ T[f] = tree /\ A[f] = addr
        /\ [T EXCEPT ![f] = T[f] \cup {sa}] = S
    BY DEF PoolInv, EnvOK
  <2>5. [u EXCEPT !.tree[f] = @ \cup {sa}]
            = [u EXCEPT !.tree = [u.tree EXCEPT ![f] = u.tree[f] \cup {sa}]]
    OBVIOUS
  <2> HIDE DEF A, T, S, u, addr, tree
  <2>6. u = [state |-> t.state, who |-> t.who, addr |-> A, tree |-> T,
             dstid |-> t.dstid]
    BY ONLY <2>1, <2>3
  <2>7. u.tree = T /\ u.addr = A  BY ONLY <2>6
  <2>8. u = With(t, f, addr, tree)  BY ONLY <2>2, <2>3, <2>6
  <2>9. [u EXCEPT !.tree = S] = With(t, f, addr, tree \cup {sa})
    <3>1. PICK st, w, a, r, d : t = [state |-> st, who |-> w, addr |-> a,
                                     tree |-> r, dstid |-> d]
      BY ONLY <2>3
    <3>2. t.state = st /\ t.who = w /\ t.dstid = d
      BY ONLY <3>1
    <3>3. u = [state |-> st, who |-> w, addr |-> A, tree |-> T, dstid |-> d]
      BY ONLY <2>6, <3>2
    <3> DEFINE v == [state |-> st, who |-> w, addr |-> A, tree |-> S, dstid |-> d]
    <3>4. [u EXCEPT !.tree = S] = v
      BY ONLY <3>3
    <3>5. [t EXCEPT !.addr = A, !.tree = S] = v
      <4> DEFINE t1 == [t EXCEPT !.addr = A]
      <4>1. t1 = [state |-> st, who |-> w, addr |-> A, tree |-> r, dstid |-> d]
        BY ONLY <3>1
      <4>2. [t EXCEPT !.addr = A, !.tree = S] = [t1 EXCEPT !.tree = S]
        OBVIOUS
      <4> HIDE DEF t1
      <4>3. [t1 EXCEPT !.tree = S] = v
        BY ONLY <4>1
      <4> QED BY ONLY <4>2, <4>3
    <3> HIDE DEF v
    <3> QED BY ONLY <2>2, <3>4, <3>5
  <2> QED BY <2>4, <2>5, <2>7, <2>8, <2>9
<1>5. \A s \in Sas : addr[s] # {} => s \in tree \cup {sa}
  BY <1>1 DEF PoolInv, Covered
<1>6. PoolInv(With(t, f, addr, tree \cup {sa}))
  BY <1>2, <1>3, <1>5, <1>b, WithInv
<1>7. CASE old = {}
  <2>1. \A s \in Sas : addr[s] # {} => s \in tree
    BY <1>1, <1>7 DEF PoolInv, Covered
  <2>2. PoolInv(u)
    <3> HIDE DEF addr, tree, u
    <3>1. PoolInv(With(t, f, addr, tree))  BY <1>2, <1>3, <1>b, <2>1, WithInv
    <3> QED BY <1>4, <3>1
  <2> QED BY <1>7, <2>2 DEF Transfer
<1>8. CASE old # {} /\ \E o \in u.tree[f] : u.addr[f][o] = u.addr[f][sa]
  <2>1. PICK o \in tree : addr[o] = addr[sa]
    BY <1>4, <1>8
  <2>2. addr[sa] = old  BY <1>1
  <2>3. sa \in tree
    <3>1. CASE o = sa  BY <2>1, <3>1
    <3>2. CASE o # sa
      <4>1. o # osa  BY <1>8, <2>1
      <4>2. t.addr[f][o] = old  BY <1>1, <1>b, <2>1, <2>2, <3>2, <4>1
      <4> QED BY <1>8, <1>a, <1>b, <2>1, <4>1, <4>2
    <3> QED BY <3>1, <3>2
  <2>4. tree \cup {sa} = tree  BY <2>3
  <2>5. PoolInv(u)  BY <1>4, <1>6, <2>4
  <2> QED BY <1>8, <2>5 DEF Transfer, Insert
<1>9. CASE old # {} /\ ~ \E o \in u.tree[f] : u.addr[f][o] = u.addr[f][sa]
  BY <1>4, <1>6, <1>9 DEF Transfer, Insert
<1> QED BY <1>7, <1>8, <1>9

------------------------------------------------------------------------

\* Taking over the addresses of an old SA of the same client.
LEMMA StickyInv ==
    ASSUME NEW t, NEW osa \in Sas, NEW sa \in Sas, PoolInv(t)
    PROVE  PoolInv(StickyTransfer(t, osa, sa))
<1> DEFINE a == [t EXCEPT !.dstid = @ \ {osa}]
           b == Transfer(a, osa, sa, 4)
           c == Transfer(b, osa, sa, 6)
<1>1. PoolInv(a)
  <2>1. a = [t EXCEPT !.state = t.state, !.who = t.who,
                      !.dstid = t.dstid \ {osa}]
    BY DEF PoolInv, EnvOK
  <2>2. t.dstid \ {osa} \subseteq Sas  BY DEF PoolInv, EnvOK
  <2> HIDE DEF a
  <2> QED BY <2>1, <2>2, SameInv
<1>2. PoolInv(b)  BY <1>1, TransferInv DEF Family
<1>3. PoolInv(c)  BY <1>2, TransferInv DEF Family
<1>4. PoolInv(Delete(c, osa, "closed"))
  <2> HIDE DEF c
  <2> DEFINE st == [c.state EXCEPT ![osa] = "closed"]
  <2>1. [c EXCEPT !.state[osa] = "closed"]
            = [c EXCEPT !.state = st, !.who = c.who, !.dstid = c.dstid]
    BY <1>3 DEF PoolInv, EnvOK
  <2>2. c.dstid \subseteq Sas  BY <1>3 DEF PoolInv, EnvOK
  <2> HIDE DEF st
  <2>a. PoolInv([c EXCEPT !.state = st, !.who = c.who, !.dstid = c.dstid])
    BY <1>3, <2>2, SameInv
  <2>3. PoolInv([c EXCEPT !.state[osa] = "closed"])
    BY <2>1, <2>a
  <2> QED BY <1>3, <2>3 DEF Delete
<1> QED BY <1>4 DEF StickyTransfer

\* What the walk through a pool finds is not in the tree.
LEMMA WalkFree ==
    ASSUME NEW t, NEW f, NEW p, NEW start
    PROVE  \A a \in Walk(t, f, p, start) : ~InTree(t, f, a)
BY DEF Walk

\* Every outcome of ikev2_cp_setaddr_pool that is not a failure.
LEMMA SetaddrPoolInv ==
    ASSUME NEW t, NEW sa \in Sas, NEW f \in Family, NEW p, NEW cp, NEW req,
           PoolInv(t),
           NEW o \in SetaddrPool(t, sa, f, p, cp, req), NEW u \in o
    PROVE  PoolInv(u)
<1>1. cp /\ o \in NewAddress(t, sa, f, p, req)
  BY DEF SetaddrPool
<1>2. ASSUME NEW found, o = Found(t, sa, f, found),
             \A a \in found : ~InTree(t, f, a)
      PROVE  PoolInv(u)
  BY <1>2, AssignInv DEF Found
<1>3. CASE StickySas(t, sa, f) # {}
  <2>1. PICK osa \in StickySas(t, sa, f) : u = StickyTransfer(t, osa, sa)
    BY <1>1, <1>3 DEF NewAddress
  <2>2. osa \in Sas  BY DEF StickySas, DstidLookup, PoolInv, EnvOK
  <2> QED BY <2>1, <2>2, StickyInv
<1>4. CASE StickySas(t, sa, f) = {} /\ req # {} /\ f = 4
  <2>1. o = Found(t, sa, f, UNION {Requested(t, f, p, a) : a \in req})
    BY <1>1, <1>4 DEF NewAddress
  <2>2. \A b \in UNION {Requested(t, f, p, a) : a \in req} : ~InTree(t, f, b)
    BY DEF Requested
  <2> QED BY <1>2, <2>1, <2>2
<1>5. CASE StickySas(t, sa, f) = {} /\ ~(req # {} /\ f = 4)
  <2>1. PICK start \in Starts(p) : o = Found(t, sa, f, Walk(t, f, p, start))
    BY <1>1, <1>5 DEF NewAddress
  <2> QED BY <1>2, <2>1, WalkFree
<1> QED BY <1>3, <1>4, <1>5

\* Every outcome of ikev2_cp_setaddr that is not a failure.
LEMMA SetaddrInv ==
    ASSUME NEW t, NEW sa \in Sas, NEW f \in Family, NEW cp, NEW req,
           PoolInv(t), NEW o \in Setaddr(t, sa, f, cp, req), NEW u \in o
    PROVE  PoolInv(u)
<1>1. CASE o = {t}  BY <1>1
<1>2. CASE o # {t}
  <2>1. \E p, r : o \in SetaddrPool(t, sa, f, p, cp, r)
    <3> DEFINE pools  == cfg.pool[f]
               passes == IF req = {} THEN <<{}>> ELSE <<req, {}>>
               I      == 1 .. Len(pools) * Len(passes)
               Try(i) == SetaddrPool(t, sa, f, pools[1 + ((i - 1) % Len(pools))],
                                     cp, passes[1 + ((i - 1) \div Len(pools))])
               tries  == [i \in I |-> Try(i)]
               fails(n) == \A i \in 1 .. n : {} \in tries[i]
               K      == {k \in DOMAIN tries : fails(k - 1)}
    <3>0. Setaddr(t, sa, f, cp, req) =
            IF t.addr[f][sa] # {} \/ pools = <<>> THEN {{t}}
            ELSE UNION {tries[i] \ {{}} : i \in K}
                 \cup (IF fails(Len(tries)) THEN {{}} ELSE {})
      BY Zenon DEF Setaddr
    <3>1. \E i \in DOMAIN tries : o \in tries[i]
      <4>1. K \subseteq DOMAIN tries
        OBVIOUS
      <4> HIDE DEF tries, fails, K, pools
      <4> QED BY <1>2, <3>0, <4>1
    <3>2. PICK i \in I : o \in Try(i)
      <4> HIDE DEF I, Try
      <4> QED BY <3>1
    <3> QED BY <3>2
  <2> QED BY <2>1, SetaddrPoolInv
<1> QED BY <1>1, <1>2

------------------------------------------------------------------------

\* ikev2_record_dstid leaves addresses and trees alone.
LEMMA RecordDstidInv ==
    ASSUME NEW t, NEW sa \in Sas, PoolInv(t)
    PROVE  PoolInv(RecordDstid([t EXCEPT !.state[sa] = "established"], sa))
<1> DEFINE a  == [t EXCEPT !.state[sa] = "established"]
           st == [t.state EXCEPT ![sa] = "established"]
<1>1. t.dstid \subseteq Sas  BY DEF PoolInv, EnvOK
<1>2. PoolInv(a)
  <2>1. a = [t EXCEPT !.state = st, !.who = t.who, !.dstid = t.dstid]
    BY DEF PoolInv, EnvOK
  <2> HIDE DEF a, st
  <2> QED BY <1>1, <2>1, SameInv
<1> HIDE DEF a
<1> DEFINE old == DstidLookup(a, a.who[sa]) \ {sa}
           d   == (a.dstid \ old) \cup {sa}
           s   == [x \in Sas |-> IF x \in old /\ cfg.single
                                    /\ a.state[x] = "established"
                                 THEN "closing" ELSE a.state[x]]
<1>3. RecordDstid(a, sa) = [a EXCEPT !.dstid = d, !.state = s]
  BY DEF RecordDstid
<1>4. d \subseteq Sas  BY <1>2 DEF PoolInv, EnvOK
<1> HIDE DEF old, d, s
<1>5. [a EXCEPT !.dstid = d, !.state = s]
        = [a EXCEPT !.state = s, !.who = a.who, !.dstid = d]
  BY <1>2 DEF PoolInv, EnvOK
<1>a. PoolInv([a EXCEPT !.state = s, !.who = a.who, !.dstid = d])
  BY <1>2, <1>4, SameInv
<1>6. PoolInv(RecordDstid(a, sa))
  BY <1>3, <1>5, <1>a
<1> QED BY <1>6 DEF a

\* Freeing an SA, one family at a time.
LEMMA FreeAddrInv ==
    ASSUME NEW t, NEW sa \in Sas, NEW f \in Family, PoolInv(t)
    PROVE  PoolInv(FreeAddr(t, sa, f))
<1> DEFINE addr == [t.addr[f] EXCEPT ![sa] = {}]
           tree == IF t.addr[f][sa] # {} THEN t.tree[f] \ {sa} ELSE t.tree[f]
           A == [t.addr EXCEPT ![f] = addr]
           T == [t.tree EXCEPT ![f] = tree]
<1>0. t.addr[f] = [s \in Sas |-> t.addr[f][s]]
  BY DEF PoolInv, EnvOK
<1>1. \A s \in Sas : addr[s] = IF s = sa THEN {} ELSE t.addr[f][s]
  BY ONLY <1>0, sa \in Sas DEF addr
<1>2. addr = [s \in Sas |-> addr[s]]
  BY ONLY <1>0 DEF addr
<1>3. FreeAddr(t, sa, f) = [t EXCEPT !.addr = A, !.tree = T]
  BY DEF FreeAddr
<1>4. With(t, f, addr, tree) = [t EXCEPT !.addr = A, !.tree = T]
  BY DEF With
<1>5. tree \subseteq Sas  BY DEF PoolInv, EnvOK
<1>6. \A s \in Sas : addr[s] # {} => s \in tree
  BY <1>1 DEF PoolInv, Covered
<1>7. \A s, o \in Sas : s # o => addr[s] \cap addr[o] = {}
  BY <1>1 DEF PoolInv, Unique
<1> HIDE DEF addr, tree, A, T
<1>8. PoolInv(With(t, f, addr, tree))
  BY <1>2, <1>5, <1>6, <1>7, WithInv
<1> QED BY <1>3, <1>4, <1>8

-----------------------------------------------------------------------------
\* ikev2_resp_ike_auth: addresses for both families, then the child SA.
LEMMA AuthInv ==
    ASSUME NEW sa \in Sas, NEW c, NEW cp, NEW req,
           PoolInv(env), Auth(sa, c, cp, req)
    PROVE  PoolInv(env')
<1> DEFINE t == [env EXCEPT !.state[sa] = "closed", !.who[sa] = c]
           st == [env.state EXCEPT ![sa] = "closed"]
           wh == [env.who EXCEPT ![sa] = c]
<1>1. PoolInv(t)
  <2>1. t = [env EXCEPT !.state = st, !.who = wh, !.dstid = env.dstid]
    BY DEF PoolInv, EnvOK
  <2>2. env.dstid \subseteq Sas  BY DEF PoolInv, EnvOK
  <2> HIDE DEF t, st, wh
  <2> QED BY <2>1, <2>2, SameInv
<1>2. PICK o4 \in Setaddr(t, sa, 4, cp, req) :
        \/ o4 = {} /\ env' = t
        \/ \E t4 \in o4 : \E o6 \in Setaddr(t4, sa, 6, cp, {}) :
              \/ o6 = {} /\ env' = t4
              \/ \E t6 \in o6 :
                    \/ env' = t6
                    \/ env' = RecordDstid(
                          [t6 EXCEPT !.state[sa] = "established"], sa)
  BY DEF Auth
<1> HIDE DEF t
<1>3. \A t4 \in o4 : PoolInv(t4)
  BY <1>1, SetaddrInv DEF Family
<1>4. \A t4 \in o4 : \A o6 \in Setaddr(t4, sa, 6, cp, {}) :
        \A t6 \in o6 : PoolInv(t6)
  BY <1>3, SetaddrInv DEF Family
<1> QED BY <1>1, <1>2, <1>3, <1>4, RecordDstidInv

\* ikev2_ikesa_enable: the addresses move to the new SA.
LEMMA IkesaEnableInv ==
    ASSUME NEW sa \in Sas, NEW nsa \in Sas, PoolInv(env), IkesaEnable(sa, nsa)
    PROVE  PoolInv(env')
<1> DEFINE t == [env EXCEPT !.state[nsa] = "established",
                            !.who[nsa] = env.who[sa]]
           st == [env.state EXCEPT ![nsa] = "established"]
           wh == [env.who EXCEPT ![nsa] = env.who[sa]]
           a == Transfer(t, sa, nsa, 4)
           m == Transfer(a, sa, nsa, 6)
<1>1. PoolInv(t)
  <2>1. t = [env EXCEPT !.state = st, !.who = wh, !.dstid = env.dstid]
    BY DEF PoolInv, EnvOK
  <2>2. env.dstid \subseteq Sas  BY DEF PoolInv, EnvOK
  <2> HIDE DEF t, st, wh
  <2> QED BY <2>1, <2>2, SameInv
<1>2. PoolInv(a)  BY <1>1, TransferInv DEF Family
<1>3. PoolInv(m)  BY <1>2, TransferInv DEF Family
<1>4. PICK state : env' = [m EXCEPT !.state[sa] = state,
            !.dstid = IF sa \in @ THEN (@ \ {sa}) \cup {nsa} ELSE @]
  BY DEF IkesaEnable
<1> HIDE DEF m
<1> DEFINE sn == [m.state EXCEPT ![sa] = state]
           dn == IF sa \in m.dstid THEN (m.dstid \ {sa}) \cup {nsa} ELSE m.dstid
<1>5. env' = [m EXCEPT !.state = sn, !.who = m.who, !.dstid = dn]
  BY <1>3, <1>4 DEF PoolInv, EnvOK
<1>6. dn \subseteq Sas  BY <1>3 DEF PoolInv, EnvOK
<1> HIDE DEF sn, dn
<1> QED BY <1>3, <1>5, <1>6, SameInv

\* sa_free: both addresses are given back.
LEMMA SaFreeInv ==
    ASSUME NEW sa \in Sas, PoolInv(env), SaFree(sa)
    PROVE  PoolInv(env')
<1> DEFINE a == FreeAddr(env, sa, 4)
           m == FreeAddr(a, sa, 6)
           sn == [m.state EXCEPT ![sa] = "none"]
           wn == [m.who EXCEPT ![sa] = NoId]
<1>1. PoolInv(a)  BY FreeAddrInv DEF Family
<1>2. PoolInv(m)  BY <1>1, FreeAddrInv DEF Family
<1>3. env' = [m EXCEPT !.state[sa] = "none", !.who[sa] = NoId,
                       !.dstid = @ \ {sa}]
  BY DEF SaFree
<1> HIDE DEF m
<1>4. env' = [m EXCEPT !.state = sn, !.who = wn, !.dstid = m.dstid \ {sa}]
  BY <1>3
<1>5. m.dstid \ {sa} \subseteq Sas  BY <1>2 DEF PoolInv, EnvOK
<1> HIDE DEF sn, wn
<1> QED BY <1>2, <1>4, <1>5, SameInv

\* ikev2_ikesa_recv_delete only changes the state.
LEMMA RecvDeleteInv ==
    ASSUME NEW sa \in Sas, PoolInv(env), RecvDelete(sa)
    PROVE  PoolInv(env')
<1>1. PICK s : env' = [env EXCEPT !.state[sa] = s]
  BY DEF RecvDelete
<1> DEFINE sn == [env.state EXCEPT ![sa] = s]
<1>2. env' = [env EXCEPT !.state = sn, !.who = env.who, !.dstid = env.dstid]
  BY <1>1 DEF PoolInv, EnvOK
<1>3. env.dstid \subseteq Sas  BY DEF PoolInv, EnvOK
<1> HIDE DEF sn
<1> QED BY <1>2, <1>3, SameInv

-----------------------------------------------------------------------------
\* The environment satisfies the invariant in every state.
THEOREM PoolInvariant == Spec => []PoolInv(env)
<1>1. Init => PoolInv(env)
  <2> SUFFICES ASSUME Init PROVE PoolInv(env)  OBVIOUS
  <2> DEFINE addr == [f \in Family |-> [sa \in Sas |-> {}]]
             tree == [f \in Family |-> {}]
  <2>1. env = [state |-> [sa \in Sas |-> "none"], who |-> [sa \in Sas |-> NoId],
               addr |-> addr, tree |-> tree, dstid |-> {}]
    BY DEF Init
  <2>2. EnvOK(env) /\ env.addr = addr /\ env.tree = tree
    BY <2>1, EnvShape
  <2> QED BY <2>2 DEF PoolInv, Covered, Unique
<1>2. PoolInv(env) /\ [Next]_vars => PoolInv(env)'
  <2> SUFFICES ASSUME PoolInv(env), [Next]_vars PROVE PoolInv(env')
    BY DEF PoolInv, EnvOK, Covered, Unique
  <2>1. CASE Next
    BY <2>1, AuthInv, IkesaEnableInv, RecvDeleteInv, SaFreeInv DEF Next, Reload
  <2>2. CASE UNCHANGED vars
    BY <2>2 DEF vars
  <2> QED BY <2>1, <2>2
<1> QED BY <1>1, <1>2, PTL DEF Spec

\* No address of a pool is held by two IKE SAs, whatever the configurations,
\* and through reloads (UniqueAddresses).
THEOREM AddressesUnique == Spec => []UniqueAddresses
<1>1. PoolInv(env) => UniqueAddresses
  BY DEF PoolInv, Unique, UniqueAddresses
<1> QED BY <1>1, PoolInvariant, PTL

=============================================================================
