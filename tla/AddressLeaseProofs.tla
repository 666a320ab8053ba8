------------------------- MODULE AddressLeaseProofs -------------------------
(***************************************************************************)
(* Proof that the address pools implement the leases of AddressLease, for  *)
(* any set of SAs, clients, configurations and requested addresses.        *)
(*                                                                         *)
(* Beside PoolInv the argument needs what the bookkeeping of SAs says      *)
(* (Book): an SA that is not in use has no address and no entry in         *)
(* sc_dstid_sas, and a client has at most one entry there.                 *)
(***************************************************************************)
EXTENDS AddrPoolProofs

Book(t) ==
    /\ PoolInv(t)
    /\ t.state = [s \in Sas |-> t.state[s]] /\ t.who = [s \in Sas |-> t.who[s]]
    /\ \A s \in Sas : t.state[s] = "none" => \A f \in Family : t.addr[f][s] = {}
    /\ \A s \in Sas : t.state[s] # "none" => t.who[s] \in Clients
    /\ \A s \in t.dstid : t.state[s] # "none"
    /\ \A s, o \in t.dstid : t.who[s] = t.who[o] => s = o

\* The client c has the address a.
Owned(t, f, a, c) == \E s \in Sas : a \in t.addr[f][s] /\ t.who[s] = c

\* What the steps of AddressLease say, in terms of the environments.
Granted(t, u, c) ==
    \A f \in Family : \A a :
        /\ \A d : Owned(t, f, a, d) => Owned(u, f, a, d)
        /\ \A d : Owned(u, f, a, d) => \/ Owned(t, f, a, d)
                                       \/ d = c /\ \A e : ~Owned(t, f, a, e)

GivenBack(t, u, c) ==
    \A f \in Family : \A a, d :
        /\ Owned(u, f, a, d) => Owned(t, f, a, d)
        /\ Owned(t, f, a, d) => Owned(u, f, a, d) \/ d = c

\* The fields other than addr and tree are the same.
SameRest(t, u) == u.state = t.state /\ u.who = t.who /\ u.dstid = t.dstid

\* The address of osa went to sa.
MovedAddr(t, u, osa, sa, f) ==
    \A g \in Family : \A s \in Sas :
        u.addr[g][s] = IF g # f THEN t.addr[g][s]
                       ELSE IF s = sa THEN t.addr[f][osa]
                       ELSE IF s = osa THEN {} ELSE t.addr[f][s]

\* The SA has got the addresses in found, or {} in the place of its own.
SetAddr(t, u, sa, f, found) ==
    \A g \in Family : \A s \in Sas :
        u.addr[g][s] = IF g = f /\ s = sa THEN found ELSE t.addr[g][s]

-----------------------------------------------------------------------------
\* What Insert, Assign, Transfer and FreeAddr do to the addresses.
LEMMA InsertFacts ==
    ASSUME NEW t, NEW f \in Family, NEW sa, EnvOK(t)
    PROVE  SameRest(t, Insert(t, f, sa)) /\ Insert(t, f, sa).addr = t.addr
<1> DEFINE T == [t.tree EXCEPT ![f] = @ \cup {sa}]
<1>1. t = [state |-> t.state, who |-> t.who, addr |-> t.addr,
           tree |-> t.tree, dstid |-> t.dstid]
  BY DEF EnvOK
<1>2. [t EXCEPT !.tree[f] = @ \cup {sa}] = [t EXCEPT !.tree = T]
  OBVIOUS
<1> HIDE DEF T
<1> DEFINE v == [t EXCEPT !.tree = T]
<1>3. SameRest(t, v) /\ v.addr = t.addr
  BY ONLY <1>1 DEF SameRest
<1>4. SameRest(t, t)  BY DEF SameRest
<1> QED BY <1>2, <1>3, <1>4 DEF Insert

LEMMA AssignFacts ==
    ASSUME NEW t, NEW f \in Family, NEW sa \in Sas, NEW found, PoolInv(t),
           found # {}, \A a \in found : ~InTree(t, f, a)
    PROVE  /\ SameRest(t, Assign(t, sa, f, found))
           /\ SetAddr(t, Assign(t, sa, f, found), sa, f, found)
<1> DEFINE A == [t.addr EXCEPT ![f][sa] = found]
           v == [t EXCEPT !.addr = A]
<1>1. t = [state |-> t.state, who |-> t.who, addr |-> t.addr,
           tree |-> t.tree, dstid |-> t.dstid]
      /\ t.addr = [g \in Family |-> [s \in Sas |-> t.addr[g][s]]]
      /\ t.tree = [g \in Family |-> t.tree[g]]
      /\ (\A g \in Family : t.tree[g] \subseteq Sas)
      /\ t.dstid \subseteq Sas
  BY DEF PoolInv, EnvOK
<1>2. [t EXCEPT !.addr[f][sa] = found] = v
  OBVIOUS
<1>3. \A g \in Family : \A s \in Sas :
        A[g][s] = IF g = f /\ s = sa THEN found ELSE t.addr[g][s]
  BY <1>1
<1>4. A = [g \in Family |-> [s \in Sas |-> A[g][s]]]
  BY <1>1
<1> HIDE DEF A
<1>5. v = [state |-> t.state, who |-> t.who, addr |-> A, tree |-> t.tree,
           dstid |-> t.dstid]
  BY ONLY <1>1
<1>6. SameRest(t, v) /\ v.addr = A
  BY ONLY <1>5 DEF SameRest
<1>7. EnvOK(v)
  BY <1>1, <1>4, <1>5, EnvShape
<1>8. SameRest(v, Insert(v, f, sa)) /\ Insert(v, f, sa).addr = A
  BY <1>6, <1>7, InsertFacts
<1>9. Assign(t, sa, f, found) = Insert(v, f, sa)
  BY <1>2 DEF Assign
<1> HIDE DEF v
<1> QED BY <1>3, <1>6, <1>8, <1>9 DEF SameRest, SetAddr

LEMMA TransferFacts ==
    ASSUME NEW t, NEW f \in Family, NEW osa \in Sas, NEW sa \in Sas, PoolInv(t)
    PROVE  /\ SameRest(t, Transfer(t, osa, sa, f))
           /\ MovedAddr(t, Transfer(t, osa, sa, f), osa, sa, f)
<1> DEFINE old  == t.addr[f][osa]
           addr == [t.addr[f] EXCEPT ![osa] = {}, ![sa] = old]
           tree == IF old # {} THEN t.tree[f] \ {osa} ELSE t.tree[f]
           A == [t.addr EXCEPT ![f] = addr]
           T == [t.tree EXCEPT ![f] = tree]
           v == [t EXCEPT !.tree = T, !.addr = A]
<1>1. t = [state |-> t.state, who |-> t.who, addr |-> t.addr,
           tree |-> t.tree, dstid |-> t.dstid]
      /\ t.addr = [g \in Family |-> [s \in Sas |-> t.addr[g][s]]]
      /\ t.tree = [g \in Family |-> t.tree[g]]
      /\ (\A g \in Family : t.tree[g] \subseteq Sas)
      /\ t.dstid \subseteq Sas
  BY DEF PoolInv, EnvOK
<1>0. t.addr[f] = [s \in Sas |-> t.addr[f][s]]
  BY <1>1
<1>2. Move(t, osa, sa, f) = v
  BY DEF Move
<1>3. \A s \in Sas : addr[s] = IF s = sa THEN old
                              ELSE IF s = osa THEN {} ELSE t.addr[f][s]
  <2> HIDE DEF old
  <2> QED BY ONLY <1>0, osa \in Sas, sa \in Sas DEF addr
<1>4. addr = [s \in Sas |-> addr[s]]
  <2> HIDE DEF old
  <2> QED BY ONLY <1>0 DEF addr
<1>5. tree \subseteq Sas
  BY <1>1
<1>6. /\ \A g \in Family : A[g] = IF g = f THEN addr ELSE t.addr[g]
      /\ \A g \in Family : T[g] = IF g = f THEN tree ELSE t.tree[g]
      /\ T = [g \in Family |-> T[g]]
      /\ A = [g \in Family |-> A[g]]
  <2> HIDE DEF addr, tree
  <2> QED BY <1>1
<1> HIDE DEF A, T, addr, tree
<1>7. A = [g \in Family |-> [s \in Sas |-> A[g][s]]]
  <2>1. \A g \in Family : A[g] = [s \in Sas |-> A[g][s]]
    BY <1>1, <1>4, <1>6
  <2> QED BY <1>6, <2>1
<1>8. \A g \in Family : T[g] \subseteq Sas
  BY <1>1, <1>5, <1>6
<1>9. v = [state |-> t.state, who |-> t.who, addr |-> A, tree |-> T,
           dstid |-> t.dstid]
  <2>1. t = [state |-> t.state, who |-> t.who, addr |-> t.addr,
             tree |-> t.tree, dstid |-> t.dstid]
    BY <1>1
  <2>2. v = [t EXCEPT !.tree = T, !.addr = A]  OBVIOUS
  <2> HIDE DEF v
  <2> QED BY ONLY <2>1, <2>2
<1>10. SameRest(t, v) /\ v.addr = A
  BY ONLY <1>9 DEF SameRest
<1>11. EnvOK(v)
  <2>1. t.dstid \subseteq Sas /\ T = [g \in Family |-> T[g]]
    BY <1>1, <1>6
  <2> HIDE DEF v, old
  <2> QED BY ONLY <1>7, <1>8, <1>9, <2>1, EnvShape
<1>12. SameRest(v, Insert(v, f, sa)) /\ Insert(v, f, sa).addr = A
  BY <1>10, <1>11, InsertFacts
<1>13. Transfer(t, osa, sa, f) = v \/ Transfer(t, osa, sa, f) = Insert(v, f, sa)
  BY <1>2 DEF Transfer
<1> HIDE DEF v, old
<1>14. SameRest(t, Transfer(t, osa, sa, f)) /\ Transfer(t, osa, sa, f).addr = A
  BY <1>10, <1>12, <1>13 DEF SameRest
<1> QED BY <1>3, <1>6, <1>14 DEF old, MovedAddr

LEMMA FreeAddrFacts ==
    ASSUME NEW t, NEW f \in Family, NEW sa \in Sas, PoolInv(t)
    PROVE  /\ SameRest(t, FreeAddr(t, sa, f))
           /\ SetAddr(t, FreeAddr(t, sa, f), sa, f, {})
<1> DEFINE A == [t.addr EXCEPT ![f][sa] = {}]
           T == [t.tree EXCEPT ![f] = IF t.addr[f][sa] # {} THEN @ \ {sa} ELSE @]
           v == [t EXCEPT !.addr = A, !.tree = T]
<1>1. t = [state |-> t.state, who |-> t.who, addr |-> t.addr,
           tree |-> t.tree, dstid |-> t.dstid]
      /\ t.addr = [g \in Family |-> [s \in Sas |-> t.addr[g][s]]]
  BY DEF PoolInv, EnvOK
<1>2. FreeAddr(t, sa, f) = v
  BY DEF FreeAddr
<1>3. \A g \in Family : \A s \in Sas :
        A[g][s] = IF g = f /\ s = sa THEN {} ELSE t.addr[g][s]
  BY <1>1
<1> HIDE DEF A, T
<1>4. SameRest(t, v) /\ v.addr = A
  BY ONLY <1>1 DEF SameRest
<1> HIDE DEF v
<1> QED BY <1>2, <1>3, <1>4 DEF SetAddr

-----------------------------------------------------------------------------
\* Bookkeeping that depends on neither addresses nor trees.
LEMMA BookKept ==
    ASSUME NEW t, NEW u, Book(t), PoolInv(u), SameRest(t, u),
           \A s \in Sas : t.state[s] = "none" => \A f \in Family : u.addr[f][s] = {}
    PROVE  Book(u)
BY DEF Book, SameRest

\* A new address for an SA in use.
LEMMA AssignBook ==
    ASSUME NEW t, NEW f \in Family, NEW sa \in Sas, NEW found, Book(t),
           t.state[sa] # "none",
           found # {}, \A a \in found : ~InTree(t, f, a)
    PROVE  Book(Assign(t, sa, f, found))
<1> DEFINE u == Assign(t, sa, f, found)
<1>1. PoolInv(t) /\ PoolInv(u)  BY AssignInv DEF Book
<1>2. SameRest(t, u) /\ SetAddr(t, u, sa, f, found)
  BY <1>1, AssignFacts
<1> HIDE DEF u
<1>3. \A s \in Sas : t.state[s] = "none" => \A g \in Family : u.addr[g][s] = {}
  BY <1>2 DEF Book, SetAddr
<1>4. Book(u)  BY <1>1, <1>2, <1>3, BookKept
<1> QED BY <1>4 DEF u

\* The addresses of both families move from one SA in use to another.
LEMMA TransferBoth ==
    ASSUME NEW t, NEW osa \in Sas, NEW sa \in Sas, Book(t), sa # osa,
           t.state[sa] # "none", NEW u,
           u = Transfer(Transfer(t, osa, sa, 4), osa, sa, 6)
    PROVE  /\ Book(u) /\ SameRest(t, u)
           /\ \A g \in Family : \A s \in Sas :
                u.addr[g][s] = IF s = sa THEN t.addr[g][osa]
                               ELSE IF s = osa THEN {} ELSE t.addr[g][s]
<1> DEFINE v == Transfer(t, osa, sa, 4)
<1>0. 4 \in Family /\ 6 \in Family /\ \A g \in Family : g = 4 \/ g = 6
  BY DEF Family
<1>1. PoolInv(t)  BY DEF Book
<1>2. PoolInv(v)  BY <1>0, <1>1, TransferInv
<1>3. SameRest(t, v) /\ MovedAddr(t, v, osa, sa, 4)
  BY <1>0, <1>1, TransferFacts
<1> HIDE DEF v
<1>4. u = Transfer(v, osa, sa, 6)  BY DEF v
<1>5. PoolInv(u)  BY <1>0, <1>2, <1>4, TransferInv
<1>6. SameRest(v, u) /\ MovedAddr(v, u, osa, sa, 6)
  BY <1>0, <1>2, <1>4, TransferFacts
<1>7. SameRest(t, u)  BY <1>3, <1>6 DEF SameRest
<1>8. ASSUME NEW g \in Family, NEW s \in Sas
      PROVE  u.addr[g][s] = IF s = sa THEN t.addr[g][osa]
                            ELSE IF s = osa THEN {} ELSE t.addr[g][s]
  <2>1. CASE g = 4  BY <1>3, <1>6, <2>1 DEF MovedAddr
  <2>2. CASE g = 6  BY <1>3, <1>6, <2>2 DEF MovedAddr
  <2> QED BY <1>0, <2>1, <2>2
<1>9. \A s \in Sas : t.state[s] = "none" => \A g \in Family : u.addr[g][s] = {}
  BY <1>8 DEF Book
<1>10. Book(u)  BY <1>5, <1>7, <1>9, BookKept
<1> QED BY <1>7, <1>8, <1>10

\* Both addresses of osa went to sa.
TookOver(t, u, osa, sa) ==
    \A g \in Family : \A s \in Sas :
        u.addr[g][s] = IF s = sa THEN t.addr[g][osa]
                       ELSE IF s = osa THEN {} ELSE t.addr[g][s]

\* The same SAs are in use.
SameUse(t, u) == \A s \in Sas : u.state[s] = "none" <=> t.state[s] = "none"

\* An SA takes over from the SA in sc_dstid_sas, which leaves the tree.
LEMMA StickyFacts ==
    ASSUME NEW t, NEW osa \in t.dstid, NEW sa \in Sas, Book(t), sa # osa,
           t.state[sa] # "none", NEW u, u = StickyTransfer(t, osa, sa)
    PROVE  /\ Book(u) /\ SameUse(t, u) /\ u.who = t.who
           /\ u.dstid = t.dstid \ {osa}
           /\ TookOver(t, u, osa, sa)
<1> DEFINE a == [t EXCEPT !.dstid = @ \ {osa}]
           b == Transfer(Transfer(a, osa, sa, 4), osa, sa, 6)
<1>0. osa \in Sas /\ t.dstid \subseteq Sas
  BY DEF Book, PoolInv, EnvOK
<1>1. t = [state |-> t.state, who |-> t.who, addr |-> t.addr,
           tree |-> t.tree, dstid |-> t.dstid]
  BY DEF Book, PoolInv, EnvOK
<1>2. a.state = t.state /\ a.who = t.who /\ a.addr = t.addr
      /\ a.dstid = t.dstid \ {osa}
  BY ONLY <1>1
<1>3. PoolInv(a)
  <2>1. a = [t EXCEPT !.state = t.state, !.who = t.who,
                      !.dstid = t.dstid \ {osa}]
    BY <1>1
  <2>2. t.dstid \ {osa} \subseteq Sas  BY <1>0
  <2>3. PoolInv(t)  BY DEF Book
  <2> HIDE DEF a
  <2> QED BY <2>1, <2>2, <2>3, SameInv
<1> HIDE DEF a
<1>4. Book(a)
  BY <1>2, <1>3 DEF Book
<1>5. /\ Book(b) /\ SameRest(a, b)
      /\ \A g \in Family : \A s \in Sas :
            b.addr[g][s] = IF s = sa THEN a.addr[g][osa]
                           ELSE IF s = osa THEN {} ELSE a.addr[g][s]
  BY <1>0, <1>2, <1>4, TransferBoth
<1>6. u = Delete(b, osa, "closed")
  BY DEF StickyTransfer, a
<1>7. PoolInv(u)
  BY <1>0, StickyInv DEF Book
<1> HIDE DEF b
<1> DEFINE st == [b.state EXCEPT ![osa] = "closed"]
           v  == [b EXCEPT !.state = st]
<1>8. u = b \/ (u = v /\ b.state[osa] = "established")
  BY <1>6 DEF Delete
<1>9. b = [state |-> b.state, who |-> b.who, addr |-> b.addr,
           tree |-> b.tree, dstid |-> b.dstid]
      /\ b.state = [s \in Sas |-> b.state[s]]
  BY <1>5 DEF Book, PoolInv, EnvOK
<1>10. \A s \in Sas : st[s] = IF s = osa THEN "closed" ELSE b.state[s]
  BY <1>0, <1>9
<1>11. st = [s \in Sas |-> st[s]]
  BY <1>9
<1> HIDE DEF st
<1>12. v.state = st /\ v.who = b.who /\ v.addr = b.addr /\ v.dstid = b.dstid
  BY ONLY <1>9
<1> HIDE DEF v
<1>13. /\ u.who = b.who /\ u.addr = b.addr /\ u.dstid = b.dstid
       /\ u.state = [s \in Sas |-> u.state[s]]
  BY <1>8, <1>9, <1>11, <1>12
<1>14. SameUse(b, u)
  BY <1>8, <1>10, <1>12 DEF SameUse
<1>15. Book(u)
  <2>1. \A s \in u.dstid : u.state[s] # "none"
    BY <1>5, <1>13, <1>14 DEF Book, SameUse, PoolInv, EnvOK
  <2>2. \A s \in Sas : u.state[s] # "none" => u.who[s] \in Clients
    BY <1>5, <1>13, <1>14 DEF Book, SameUse
  <2>3. \A s \in Sas : u.state[s] = "none" => \A f \in Family : u.addr[f][s] = {}
    BY <1>5, <1>13, <1>14 DEF Book, SameUse
  <2>4. u.who = [s \in Sas |-> u.who[s]]
        /\ \A s, o \in u.dstid : u.who[s] = u.who[o] => s = o
    BY <1>5, <1>13 DEF Book
  <2> QED BY <1>7, <1>13, <2>1, <2>2, <2>3, <2>4 DEF Book
<1>16. SameUse(t, u) /\ u.who = t.who /\ u.dstid = t.dstid \ {osa}
  BY <1>2, <1>5, <1>13, <1>14 DEF SameUse, SameRest
<1>17. TookOver(t, u, osa, sa)
  BY <1>2, <1>5, <1>13 DEF TookOver
<1> QED BY <1>15, <1>16, <1>17

\* The three outcomes of ikev2_cp_setaddr that are not a failure: nothing to
\* do, an address that is not in the tree, or those of the client's SA.
LEMMA SetaddrCases ==
    ASSUME NEW t, NEW sa \in Sas, NEW f \in Family, NEW cp, NEW req,
           NEW o \in Setaddr(t, sa, f, cp, req), NEW u \in o
    PROVE  \/ u = t
           \/ /\ t.addr[f][sa] = {}
              /\ \E found : /\ found # {} /\ \A a \in found : ~InTree(t, f, a)
                            /\ u = Assign(t, sa, f, found)
           \/ \E osa \in t.dstid : /\ t.who[osa] = t.who[sa]
                                   /\ u = StickyTransfer(t, osa, sa)
<1>1. CASE o = {t}  BY <1>1
<1>2. CASE o # {t}
  <2>0. t.addr[f][sa] = {}
    BY <1>2 DEF Setaddr
  <2>1. PICK p, r : o \in SetaddrPool(t, sa, f, p, cp, r)
    BY <1>2 DEF Setaddr
  <2>2. o \in NewAddress(t, sa, f, p, r)
    BY <2>1 DEF SetaddrPool
  <2>3. ASSUME NEW found, o = Found(t, sa, f, found),
               \A a \in found : ~InTree(t, f, a)
        PROVE  /\ found # {} /\ \A a \in found : ~InTree(t, f, a)
               /\ u = Assign(t, sa, f, found)
    BY <2>3 DEF Found
  <2>4. CASE StickySas(t, sa, f) # {}
    <3>1. PICK osa \in StickySas(t, sa, f) : u = StickyTransfer(t, osa, sa)
      BY <2>2, <2>4 DEF NewAddress
    <3>2. osa \in t.dstid /\ t.who[osa] = t.who[sa]
      BY DEF StickySas, DstidLookup
    <3> QED BY <3>1, <3>2
  <2>5. CASE StickySas(t, sa, f) = {} /\ r # {} /\ f = 4
    <3>1. o = Found(t, sa, f, UNION {Requested(t, f, p, a) : a \in r})
      BY <2>2, <2>5 DEF NewAddress
    <3>2. \A b \in UNION {Requested(t, f, p, a) : a \in r} : ~InTree(t, f, b)
      BY DEF Requested
    <3> QED BY <2>0, <2>3, <3>1, <3>2
  <2>6. CASE StickySas(t, sa, f) = {} /\ ~(r # {} /\ f = 4)
    <3>1. PICK start \in Starts(p) : o = Found(t, sa, f, Walk(t, f, p, start))
      BY <2>2, <2>6 DEF NewAddress
    <3> QED BY <2>0, <2>3, <3>1, WalkFree
  <2> QED BY <2>4, <2>5, <2>6
<1> QED BY <1>1, <1>2

-----------------------------------------------------------------------------
\* Addresses and their owners are the same.
LEMMA GrantNothing ==
    ASSUME NEW t, NEW u, NEW c, u.addr = t.addr,
           \A f \in Family : \A s \in Sas : t.addr[f][s] # {} => u.who[s] = t.who[s]
    PROVE  Granted(t, u, c)
BY DEF Granted, Owned

\* An SA without an address gets one that is not in the tree.
LEMMA GrantFound ==
    ASSUME NEW t, NEW u, NEW c, NEW f \in Family, NEW sa \in Sas, NEW found,
           PoolInv(t), u.who = t.who, t.who[sa] = c, t.addr[f][sa] = {},
           \A a \in found : ~InTree(t, f, a), SetAddr(t, u, sa, f, found)
    PROVE  Granted(t, u, c)
<1>1. \A a \in found : \A e : ~Owned(t, f, a, e)
  BY DEF InTree, Owned, PoolInv, Covered
<1> SUFFICES ASSUME NEW g \in Family, NEW a, NEW d
    PROVE  /\ Owned(t, g, a, d) => Owned(u, g, a, d)
           /\ Owned(u, g, a, d) =>
             Owned(t, g, a, d) \/ (d = c /\ \A e : ~Owned(t, g, a, e))
  BY DEF Granted
<1>2. CASE g # f  BY <1>2 DEF SetAddr, Owned
<1>3. CASE g = f
  <2>1. \A s \in Sas : u.addr[f][s] = IF s = sa THEN found ELSE t.addr[f][s]
    BY DEF SetAddr
  <2>2. ASSUME Owned(t, g, a, d) PROVE Owned(u, g, a, d)
    BY <1>3, <2>1, <2>2 DEF Owned
  <2>3. ASSUME Owned(u, g, a, d)
        PROVE  Owned(t, g, a, d) \/ (d = c /\ \A e : ~Owned(t, g, a, e))
    <3>1. PICK s \in Sas : a \in u.addr[g][s] /\ u.who[s] = d
      BY <2>3 DEF Owned
    <3>2. CASE s = sa  BY <1>1, <1>3, <2>1, <3>1, <3>2
    <3>3. CASE s # sa  BY <1>3, <2>1, <3>1, <3>3 DEF Owned
    <3> QED BY <3>2, <3>3
  <2> QED BY <2>2, <2>3
<1> QED BY <1>2, <1>3

\* An SA without addresses takes over those of another SA of its client.
LEMMA GrantTookOver ==
    ASSUME NEW t, NEW u, NEW c, NEW osa \in Sas, NEW sa \in Sas, sa # osa,
           u.who = t.who, t.who[osa] = t.who[sa],
           \A f \in Family : t.addr[f][sa] = {}, TookOver(t, u, osa, sa)
    PROVE  Granted(t, u, c)
<1>1. ASSUME NEW g \in Family, NEW a, NEW d, Owned(t, g, a, d)
      PROVE  Owned(u, g, a, d)
  <2>1. PICK s \in Sas : a \in t.addr[g][s] /\ t.who[s] = d
    BY <1>1 DEF Owned
  <2>2. CASE s = osa  BY <2>1, <2>2 DEF Owned, TookOver
  <2>3. CASE s # osa  BY <2>1, <2>3 DEF Owned, TookOver
  <2> QED BY <2>2, <2>3
<1>2. ASSUME NEW g \in Family, NEW a, NEW d, Owned(u, g, a, d)
      PROVE  Owned(t, g, a, d)
  <2>1. PICK s \in Sas : a \in u.addr[g][s] /\ u.who[s] = d
    BY <1>2 DEF Owned
  <2>2. CASE s = sa  BY <2>1, <2>2 DEF Owned, TookOver
  <2>3. CASE s # sa  BY <2>1, <2>3 DEF Owned, TookOver
  <2> QED BY <2>2, <2>3
<1> QED BY <1>1, <1>2 DEF Granted

LEMMA GrantTrans ==
    ASSUME NEW t, NEW u, NEW v, NEW c, Granted(t, u, c), Granted(u, v, c)
    PROVE  Granted(t, v, c)
<1> SUFFICES ASSUME NEW g \in Family, NEW a, NEW d
    PROVE  /\ Owned(t, g, a, d) => Owned(v, g, a, d)
           /\ Owned(v, g, a, d) =>
             Owned(t, g, a, d) \/ (d = c /\ \A e : ~Owned(t, g, a, e))
  BY DEF Granted
<1>1. \A e : Owned(t, g, a, e) => Owned(u, g, a, e)  BY DEF Granted
<1>2. \A e : Owned(u, g, a, e) => Owned(v, g, a, e)  BY DEF Granted
<1>3. Owned(v, g, a, d) =>
             Owned(u, g, a, d) \/ (d = c /\ \A e : ~Owned(u, g, a, e))
  BY DEF Granted
<1>4. Owned(u, g, a, d) =>
             Owned(t, g, a, d) \/ (d = c /\ \A e : ~Owned(t, g, a, e))
  BY DEF Granted
<1> QED BY <1>1, <1>2, <1>3, <1>4

-----------------------------------------------------------------------------
\* What the steps of a login say of two environments.
Login(t, u, c) == Book(u) /\ SameUse(t, u) /\ u.who = t.who /\ Granted(t, u, c)

\* One family, for an SA whose client has no other SA in sc_dstid_sas.
LEMMA LoginAlone ==
    ASSUME NEW t, NEW u, NEW c, NEW sa \in Sas, NEW f \in Family, NEW cp, NEW req,
           NEW o \in Setaddr(t, sa, f, cp, req), u \in o, Book(t),
           t.state[sa] # "none", t.who[sa] = c,
           \A osa \in t.dstid : t.who[osa] # c
    PROVE  Login(t, u, c)
<1>1. CASE u = t
  <2>1. Granted(t, t, c)  BY GrantNothing
  <2> QED BY <1>1, <2>1 DEF Login, SameUse
<1>2. CASE /\ t.addr[f][sa] = {}
           /\ \E found : /\ found # {} /\ \A a \in found : ~InTree(t, f, a)
                         /\ u = Assign(t, sa, f, found)
  <2>1. PICK found : /\ found # {} /\ \A a \in found : ~InTree(t, f, a)
                     /\ u = Assign(t, sa, f, found)
    BY <1>2
  <2>2. PoolInv(t)  BY DEF Book
  <2>3. Book(u)  BY <2>1, AssignBook
  <2>4. SameRest(t, u) /\ SetAddr(t, u, sa, f, found)
    BY <2>1, <2>2, AssignFacts
  <2>5. Granted(t, u, c)
    BY <1>2, <2>1, <2>2, <2>4, GrantFound DEF SameRest
  <2> QED BY <2>3, <2>4, <2>5 DEF Login, SameRest, SameUse
<1> QED BY <1>1, <1>2, SetaddrCases

\* Taking over, by an SA whose own addresses, if it has any, were just found.
LEMMA LoginSticky ==
    ASSUME NEW t, NEW v, NEW u, NEW c, NEW sa \in Sas, NEW osa \in t.dstid,
           Book(t), Book(v), SameRest(t, v),
           \A f \in Family : t.addr[f][sa] = {},
           \A f \in Family : \A s \in Sas \ {sa} : v.addr[f][s] = t.addr[f][s],
           sa \notin t.dstid, t.state[sa] # "none", t.who[sa] = c,
           t.who[osa] = c, u = StickyTransfer(v, osa, sa)
    PROVE  Login(t, u, c) /\ \A o \in u.dstid : u.who[o] # c
<1>1. osa \in Sas /\ osa # sa
  BY DEF Book, PoolInv, EnvOK
<1>2. osa \in v.dstid /\ v.state[sa] # "none"
  BY DEF SameRest
<1>3. /\ Book(u) /\ SameUse(v, u) /\ u.who = v.who
      /\ u.dstid = v.dstid \ {osa} /\ TookOver(v, u, osa, sa)
  BY <1>1, <1>2, StickyFacts
<1>4. TookOver(t, u, osa, sa)
  BY <1>1, <1>3 DEF TookOver
<1>5. SameUse(t, u) /\ u.who = t.who /\ u.dstid = t.dstid \ {osa}
  BY <1>3 DEF SameRest, SameUse
<1>6. Granted(t, u, c)
  BY <1>1, <1>4, <1>5, GrantTookOver
<1>7. \A o \in u.dstid : u.who[o] # c
  BY <1>5 DEF Book
<1> QED BY <1>3, <1>5, <1>6, <1>7 DEF Login

LEMMA LoginTrans ==
    ASSUME NEW t, NEW u, NEW v, NEW c, Login(t, u, c), Login(u, v, c)
    PROVE  Login(t, v, c)
<1>1. Granted(t, v, c)  BY GrantTrans DEF Login
<1> QED BY <1>1 DEF Login, SameUse

\* Both families.
LEMMA LoginBoth ==
    ASSUME NEW t, NEW sa \in Sas, NEW c, NEW cp, NEW req,
           Book(t), t.state[sa] # "none", t.who[sa] = c, sa \notin t.dstid,
           \A f \in Family : t.addr[f][sa] = {},
           NEW o4 \in Setaddr(t, sa, 4, cp, req), NEW t4 \in o4
    PROVE  /\ Login(t, t4, c)
           /\ \A o6 \in Setaddr(t4, sa, 6, cp, {}) : \A t6 \in o6 : Login(t, t6, c)
<1>0. 4 \in Family /\ 6 \in Family /\ 4 # 6  BY DEF Family
<1>a. PoolInv(t)  BY DEF Book
<1>1. CASE \E osa \in t.dstid : /\ t.who[osa] = t.who[sa]
                                /\ t4 = StickyTransfer(t, osa, sa)
  <2>1. PICK osa \in t.dstid : /\ t.who[osa] = t.who[sa]
                               /\ t4 = StickyTransfer(t, osa, sa)
    BY <1>1
  <2>2. SameRest(t, t)  BY DEF SameRest
  <2>3. Login(t, t4, c) /\ \A o \in t4.dstid : t4.who[o] # c
    BY <2>1, <2>2, LoginSticky
  <2>4. t4.state[sa] # "none" /\ t4.who[sa] = c /\ Book(t4)
    BY <2>3 DEF Login, SameUse
  <2>5. ASSUME NEW o6 \in Setaddr(t4, sa, 6, cp, {}), NEW t6 \in o6
        PROVE  Login(t, t6, c)
    <3>1. Login(t4, t6, c)  BY <1>0, <2>3, <2>4, LoginAlone
    <3> QED BY <2>3, <3>1, LoginTrans
  <2> QED BY <2>3, <2>5
<1>2. CASE \/ t4 = t
           \/ \E found : /\ found # {} /\ \A a \in found : ~InTree(t, 4, a)
                         /\ t4 = Assign(t, sa, 4, found)
  <2>1. /\ Login(t, t4, c) /\ SameRest(t, t4)
        /\ \A f \in Family : \A s \in Sas \ {sa} : t4.addr[f][s] = t.addr[f][s]
    <3>1. CASE t4 = t
      <4>1. Granted(t, t, c)  BY GrantNothing
      <4> QED BY <3>1, <4>1 DEF Login, SameUse, SameRest
    <3>2. CASE t4 # t
      <4>1. PICK found : /\ found # {} /\ \A a \in found : ~InTree(t, 4, a)
                         /\ t4 = Assign(t, sa, 4, found)
        BY <1>2, <3>2
      <4>2. Book(t4)  BY <1>0, <4>1, AssignBook
      <4>3. SameRest(t, t4) /\ SetAddr(t, t4, sa, 4, found)
        BY <1>0, <1>a, <4>1, AssignFacts
      <4>4. Granted(t, t4, c)
        BY <1>0, <1>a, <4>1, <4>3, GrantFound DEF SameRest
      <4>5. \A f \in Family : \A s \in Sas \ {sa} : t4.addr[f][s] = t.addr[f][s]
        BY <4>3 DEF SetAddr
      <4> QED BY <4>2, <4>3, <4>4, <4>5 DEF Login, SameUse, SameRest
    <3> QED BY <3>1, <3>2
  <2>2. Book(t4) /\ t4.state[sa] # "none" /\ t4.who[sa] = c
    BY <2>1 DEF Login, SameRest
  <2>3. ASSUME NEW o6 \in Setaddr(t4, sa, 6, cp, {}), NEW t6 \in o6
        PROVE  Login(t, t6, c)
    <3>1. CASE \E osa \in t4.dstid : /\ t4.who[osa] = t4.who[sa]
                                     /\ t6 = StickyTransfer(t4, osa, sa)
      <4>1. PICK osa \in t4.dstid : /\ t4.who[osa] = t4.who[sa]
                                    /\ t6 = StickyTransfer(t4, osa, sa)
        BY <3>1
      <4>2. osa \in t.dstid /\ t.who[osa] = c
        BY <2>1, <2>2, <4>1 DEF SameRest
      <4> QED BY <2>1, <2>2, <4>1, <4>2, LoginSticky
    <3>2. CASE t6 = t4  BY <2>1, <3>2
    <3>3. CASE /\ t4.addr[6][sa] = {}
               /\ \E found : /\ found # {} /\ \A a \in found : ~InTree(t4, 6, a)
                             /\ t6 = Assign(t4, sa, 6, found)
      <4>1. PICK found : /\ found # {} /\ \A a \in found : ~InTree(t4, 6, a)
                         /\ t6 = Assign(t4, sa, 6, found)
        BY <3>3
      <4>a. PoolInv(t4)  BY <2>2 DEF Book
      <4>2. Book(t6)  BY <1>0, <2>2, <4>1, AssignBook
      <4>3. SameRest(t4, t6) /\ SetAddr(t4, t6, sa, 6, found)
        BY <1>0, <4>a, <4>1, AssignFacts
      <4>4. Granted(t4, t6, c)
        BY <1>0, <2>2, <3>3, <4>a, <4>1, <4>3, GrantFound DEF SameRest
      <4>5. Login(t4, t6, c)
        BY <4>2, <4>3, <4>4 DEF Login, SameUse, SameRest
      <4> QED BY <2>1, <4>5, LoginTrans
    <3> QED BY <1>0, <3>1, <3>2, <3>3, SetaddrCases
  <2> QED BY <2>1, <2>3
<1> QED BY <1>0, <1>1, <1>2, SetaddrCases

-----------------------------------------------------------------------------
\* ikev2_record_dstid: the SA replaces every other SA of its client.
LEMMA RecordBook ==
    ASSUME NEW t, NEW sa \in Sas, Book(t), t.state[sa] # "none", NEW u,
           u = RecordDstid([t EXCEPT !.state[sa] = "established"], sa)
    PROVE  Book(u) /\ u.addr = t.addr /\ u.who = t.who
<1> DEFINE st == [t.state EXCEPT ![sa] = "established"]
           a  == [t EXCEPT !.state = st]
<1>1. t = [state |-> t.state, who |-> t.who, addr |-> t.addr,
           tree |-> t.tree, dstid |-> t.dstid]
  BY DEF Book, PoolInv, EnvOK
<1>2. \A s \in Sas : st[s] = IF s = sa THEN "established" ELSE t.state[s]
  BY DEF Book
<1>3. u = RecordDstid(a, sa)
  OBVIOUS
<1>4. PoolInv(u)
  BY RecordDstidInv DEF Book
<1> HIDE DEF st
<1>5. a = [state |-> st, who |-> t.who, addr |-> t.addr,
           tree |-> t.tree, dstid |-> t.dstid]
  BY ONLY <1>1
<1> HIDE DEF a
<1>6. /\ a.state = st /\ a.who = t.who /\ a.addr = t.addr
      /\ a.tree = t.tree /\ a.dstid = t.dstid
  BY ONLY <1>5
<1> DEFINE old == DstidLookup(a, a.who[sa]) \ {sa}
           d   == (a.dstid \ old) \cup {sa}
           n   == [s \in Sas |-> IF s \in old /\ cfg.single
                                    /\ a.state[s] = "established"
                                 THEN "closing" ELSE a.state[s]]
           v   == [a EXCEPT !.dstid = d, !.state = n]
<1>7. u = v
  BY <1>3 DEF RecordDstid
<1>8. /\ \A s \in d : s \in t.dstid \/ s = sa
      /\ \A s \in d : s = sa \/ t.who[s] # t.who[sa]
  BY <1>6 DEF DstidLookup
<1>9. /\ \A s \in Sas : n[s] = "none" <=> t.state[s] = "none"
      /\ n = [s \in Sas |-> n[s]]
  <2>1. \A s \in Sas : n[s] = IF s \in old /\ cfg.single
                                 /\ a.state[s] = "established"
                              THEN "closing" ELSE a.state[s]
    OBVIOUS
  <2>2. n = [s \in Sas |-> n[s]]  OBVIOUS
  <2> HIDE DEF old, n
  <2> QED BY <1>2, <1>6, <2>1, <2>2
<1> HIDE DEF old, d, n
<1>10. v = [state |-> n, who |-> t.who, addr |-> t.addr,
            tree |-> t.tree, dstid |-> d]
  <2>1. v = [a EXCEPT !.dstid = d, !.state = n]  OBVIOUS
  <2> HIDE DEF v
  <2> QED BY ONLY <1>5, <2>1
<1> HIDE DEF v
<1>11. u.state = n /\ u.who = t.who /\ u.addr = t.addr /\ u.dstid = d
  BY ONLY <1>7, <1>10
<1>12. t.dstid \subseteq Sas  BY DEF Book, PoolInv, EnvOK
<1>13. \A s \in d : n[s] # "none"
  BY <1>8, <1>9, <1>12 DEF Book
<1>14. \A s, o \in d : t.who[s] = t.who[o] => s = o
  BY <1>8 DEF Book
<1>15. \A s \in Sas : n[s] = "none" => \A f \in Family : t.addr[f][s] = {}
  BY <1>9 DEF Book
<1>16. \A s \in Sas : n[s] # "none" => t.who[s] \in Clients
  BY <1>9 DEF Book
<1>17. t.who = [s \in Sas |-> t.who[s]]
  BY DEF Book
<1>18. Book(u)
  BY <1>4, <1>9, <1>11, <1>13, <1>14, <1>15, <1>16, <1>17 DEF Book
<1> QED BY <1>11, <1>18

\* An SA that was not in use gets a state and a client.
Start(t, sa, st, c) == [t EXCEPT !.state[sa] = st, !.who[sa] = c]

Started(t, u, sa, st, c) ==
    /\ Book(u) /\ u.addr = t.addr /\ u.dstid = t.dstid
    /\ u.state = [t.state EXCEPT ![sa] = st]
    /\ u.who = [t.who EXCEPT ![sa] = c]
    /\ sa \notin u.dstid
    /\ \A f \in Family : u.addr[f][sa] = {}
    /\ \A d : Granted(t, u, d)

LEMMA StartBook ==
    ASSUME NEW t, NEW sa \in Sas, NEW c \in Clients, NEW st, st # "none",
           Book(t), t.state[sa] = "none"
    PROVE  Started(t, Start(t, sa, st, c), sa, st, c)
<1> DEFINE u == Start(t, sa, st, c)
           S == [t.state EXCEPT ![sa] = st]
           W == [t.who EXCEPT ![sa] = c]
<1>1. t = [state |-> t.state, who |-> t.who, addr |-> t.addr,
           tree |-> t.tree, dstid |-> t.dstid]
  BY DEF Book, PoolInv, EnvOK
<1>2. u = [t EXCEPT !.state = S, !.who = W, !.dstid = t.dstid]
  BY <1>1 DEF Start
<1> HIDE DEF u
<1>3. /\ \A s \in Sas : S[s] = IF s = sa THEN st ELSE t.state[s]
      /\ \A s \in Sas : W[s] = IF s = sa THEN c ELSE t.who[s]
      /\ S = [s \in Sas |-> S[s]] /\ W = [s \in Sas |-> W[s]]
  BY DEF Book
<1>4. t.dstid \subseteq Sas  BY DEF Book, PoolInv, EnvOK
<1> HIDE DEF S, W
<1>5. PoolInv(u)
  <2>1. PoolInv(t)  BY DEF Book
  <2>2. PoolInv([t EXCEPT !.state = S, !.who = W, !.dstid = t.dstid])
    BY ONLY <1>4, <2>1, SameInv
  <2> QED BY ONLY <1>2, <2>2
<1>6. u.state = S /\ u.who = W /\ u.addr = t.addr /\ u.dstid = t.dstid
  BY ONLY <1>1, <1>2
<1>7. sa \notin t.dstid /\ \A f \in Family : t.addr[f][sa] = {}
  BY DEF Book
<1>8. \A s \in t.dstid : S[s] # "none" /\ W[s] = t.who[s]
  BY <1>3, <1>4, <1>7 DEF Book
<1>9. \A s \in Sas : S[s] = "none" => \A f \in Family : t.addr[f][s] = {}
  BY <1>3 DEF Book
<1>10. \A s \in Sas : S[s] # "none" => W[s] \in Clients
  BY <1>3 DEF Book
<1>11. \A s, o \in t.dstid : W[s] = W[o] => s = o
  BY <1>8 DEF Book
<1>12. Book(u)
  BY ONLY <1>3, <1>5, <1>6, <1>8, <1>9, <1>10, <1>11 DEF Book
<1>13. \A d : Granted(t, u, d)
  <2>1. \A f \in Family : \A s \in Sas : t.addr[f][s] # {} => u.who[s] = t.who[s]
    BY <1>3, <1>6, <1>7
  <2> QED BY <1>6, <2>1, GrantNothing
<1>14. Started(t, u, sa, st, c)
  BY <1>6, <1>7, <1>12, <1>13 DEF S, W, Started
<1> QED BY <1>14 DEF u

-----------------------------------------------------------------------------
\* ikev2_resp_ike_auth: the client gets addresses nobody has.
LEMMA AuthGrants ==
    ASSUME NEW sa \in Sas, NEW c \in Clients, NEW cp, NEW req,
           Book(env), Auth(sa, c, cp, req)
    PROVE  Book(env') /\ Granted(env, env', c)
<1> DEFINE t == [env EXCEPT !.state[sa] = "closed", !.who[sa] = c]
<1>1. env.state[sa] = "none"  BY DEF Auth
<1>2. PICK o4 \in Setaddr(t, sa, 4, cp, req) :
        \/ o4 = {} /\ env' = t
        \/ \E t4 \in o4 : \E o6 \in Setaddr(t4, sa, 6, cp, {}) :
              \/ o6 = {} /\ env' = t4
              \/ \E t6 \in o6 :
                    \/ env' = t6
                    \/ env' = RecordDstid(
                          [t6 EXCEPT !.state[sa] = "established"], sa)
  BY DEF Auth
<1>3. /\ Book(t) /\ t.addr = env.addr /\ t.dstid = env.dstid
      /\ t.state = [env.state EXCEPT ![sa] = "closed"]
      /\ t.who = [env.who EXCEPT ![sa] = c]
      /\ sa \notin t.dstid
      /\ \A f \in Family : t.addr[f][sa] = {}
      /\ \A d : Granted(env, t, d)
  <2>1. t = Start(env, sa, "closed", c)  BY DEF Start
  <2> HIDE DEF t
  <2>2. "closed" # "none"  OBVIOUS
  <2>3. Started(env, Start(env, sa, "closed", c), sa, "closed", c)
    BY <1>1, <2>2, StartBook
  <2>4. Started(env, t, sa, "closed", c)  BY ONLY <2>1, <2>3
  <2> QED BY ONLY <2>4 DEF Started
<1> HIDE DEF t
<1>4. t.state[sa] # "none" /\ t.who[sa] = c
  BY <1>3 DEF Book
<1>5. \A t4 \in o4 :
        /\ Login(t, t4, c)
        /\ \A o6 \in Setaddr(t4, sa, 6, cp, {}) : \A t6 \in o6 : Login(t, t6, c)
  BY <1>3, <1>4, LoginBoth
<1>6. ASSUME NEW u, Login(t, u, c)
      PROVE  Book(u) /\ Granted(env, u, c) /\ u.state[sa] # "none"
  <2>1. Granted(env, u, c)  BY <1>3, <1>6, GrantTrans DEF Login
  <2> QED BY <1>4, <1>6, <2>1 DEF Login, SameUse
<1>7. CASE env' = t  BY <1>3, <1>7
<1>8. CASE \E u : Login(t, u, c) /\ env' = u  BY <1>6, <1>8
<1>9. CASE \E u : /\ Login(t, u, c)
                  /\ env' = RecordDstid(
                        [u EXCEPT !.state[sa] = "established"], sa)
  <2>1. PICK u : /\ Login(t, u, c)
                 /\ env' = RecordDstid(
                       [u EXCEPT !.state[sa] = "established"], sa)
    BY <1>9
  <2>2. Book(u) /\ Granted(env, u, c) /\ u.state[sa] # "none"
    BY <1>6, <2>1
  <2>3. Book(env') /\ env'.addr = u.addr /\ env'.who = u.who
    BY <2>1, <2>2, RecordBook
  <2>4. Granted(u, env', c)  BY <2>3, GrantNothing
  <2> QED BY <2>2, <2>3, <2>4, GrantTrans
<1> QED BY <1>2, <1>5, <1>7, <1>8, <1>9

\* ikev2_ikesa_enable: the client keeps what it has.
LEMMA IkesaEnableGrants ==
    ASSUME NEW sa \in Sas, NEW nsa \in Sas, Book(env), IkesaEnable(sa, nsa)
    PROVE  Book(env') /\ \E c \in Clients : Granted(env, env', c)
<1> DEFINE c == env.who[sa]
           t == [env EXCEPT !.state[nsa] = "established",
                            !.who[nsa] = c]
           m == Transfer(Transfer(t, sa, nsa, 4), sa, nsa, 6)
<1>1. /\ env.state[sa] = "established" /\ env.state[nsa] = "none"
      /\ sa # nsa /\ c \in Clients
  BY DEF IkesaEnable, Book
<1>2. PICK state \in {"closed", "closing"} :
        env' = [m EXCEPT !.state[sa] = state,
                         !.dstid = IF sa \in @ THEN (@ \ {sa}) \cup {nsa} ELSE @]
  BY DEF IkesaEnable
<1> HIDE DEF c
<1>3. /\ Book(t) /\ t.addr = env.addr /\ t.dstid = env.dstid
      /\ t.state = [env.state EXCEPT ![nsa] = "established"]
      /\ t.who = [env.who EXCEPT ![nsa] = c]
      /\ nsa \notin t.dstid
      /\ \A f \in Family : t.addr[f][nsa] = {}
      /\ \A d : Granted(env, t, d)
  <2>1. t = Start(env, nsa, "established", c)  BY DEF Start
  <2> HIDE DEF t
  <2>2. "established" # "none"  OBVIOUS
  <2>3. Started(env, Start(env, nsa, "established", c), nsa, "established", c)
    BY <1>1, <2>2, StartBook
  <2>4. Started(env, t, nsa, "established", c)  BY ONLY <2>1, <2>3
  <2> QED BY ONLY <2>4 DEF Started
<1> HIDE DEF t
<1>4. t.state[nsa] # "none" /\ t.state[sa] # "none" /\ t.who[nsa] = c /\ t.who[sa] = c
  BY <1>1, <1>3 DEF Book, c
<1>5. /\ Book(m) /\ SameRest(t, m)
      /\ \A g \in Family : \A s \in Sas :
            m.addr[g][s] = IF s = nsa THEN t.addr[g][sa]
                           ELSE IF s = sa THEN {} ELSE t.addr[g][s]
  BY <1>1, <1>3, <1>4, TransferBoth
<1> HIDE DEF m
<1>6. Granted(t, m, c)
  <2>1. TookOver(t, m, sa, nsa)  BY <1>5 DEF TookOver
  <2>2. m.who = t.who  BY <1>5 DEF SameRest
  <2> QED BY <1>1, <1>3, <1>4, <2>1, <2>2, GrantTookOver
<1> DEFINE S == [m.state EXCEPT ![sa] = state]
           D == IF sa \in m.dstid THEN (m.dstid \ {sa}) \cup {nsa} ELSE m.dstid
<1>7. m = [state |-> m.state, who |-> m.who, addr |-> m.addr,
           tree |-> m.tree, dstid |-> m.dstid]
  BY <1>5 DEF Book, PoolInv, EnvOK
<1>8. env' = [m EXCEPT !.state = S, !.who = m.who, !.dstid = D]
  BY <1>2, <1>7
<1>9. /\ \A s \in Sas : S[s] = IF s = sa THEN state ELSE m.state[s]
      /\ S = [s \in Sas |-> S[s]]
  BY <1>5 DEF Book
<1>10. m.dstid \subseteq Sas /\ D \subseteq Sas
  BY <1>5 DEF Book, PoolInv, EnvOK
<1>11. \A s \in D : \/ s \in m.dstid
                    \/ s = nsa /\ sa \in m.dstid
  OBVIOUS
<1>12. sa \in m.dstid => sa \notin D
  BY <1>1
<1>13. PoolInv(env')
  <2>1. PoolInv(m)  BY <1>5 DEF Book
  <2>2. D \subseteq Sas  BY <1>10
  <2> HIDE DEF S, D
  <2>3. PoolInv([m EXCEPT !.state = S, !.who = m.who, !.dstid = D])
    BY ONLY <2>1, <2>2, SameInv
  <2> QED BY ONLY <1>8, <2>3
<1> HIDE DEF S, D
<1>14. /\ env'.state = S /\ env'.who = m.who /\ env'.addr = m.addr
       /\ env'.dstid = D
  BY ONLY <1>7, <1>8
<1>15. \A s \in Sas : S[s] = "none" <=> m.state[s] = "none"
  BY <1>4, <1>5, <1>9 DEF SameRest
<1>16. \A s \in D : S[s] # "none"
  BY <1>4, <1>5, <1>10, <1>11, <1>15 DEF Book, SameRest
<1>17. m.who[nsa] = m.who[sa]
  BY <1>4, <1>5 DEF SameRest
<1>18. \A s, o \in D : m.who[s] = m.who[o] => s = o
  BY <1>5, <1>11, <1>12, <1>17 DEF Book
<1>19. Book(env')
  <2>1. /\ m.who = [s \in Sas |-> m.who[s]]
        /\ \A s \in Sas : S[s] = "none" => \A f \in Family : m.addr[f][s] = {}
        /\ \A s \in Sas : S[s] # "none" => m.who[s] \in Clients
    BY <1>5, <1>15 DEF Book
  <2> QED BY ONLY <1>9, <1>13, <1>14, <1>16, <1>18, <2>1 DEF Book
<1>20. Granted(m, env', c)  BY <1>14, GrantNothing
<1>21. Granted(env, env', c)  BY <1>3, <1>6, <1>20, GrantTrans
<1> QED BY <1>1, <1>19, <1>21

\* sa_free: the client of the SA gives its addresses back.
LEMMA SaFreeGivesBack ==
    ASSUME NEW sa \in Sas, Book(env), SaFree(sa)
    PROVE  Book(env') /\ \E c \in Clients : GivenBack(env, env', c)
<1> DEFINE c == env.who[sa]
           a == FreeAddr(env, sa, 4)
           m == FreeAddr(a, sa, 6)
<1>0. 4 \in Family /\ 6 \in Family /\ \A g \in Family : g = 4 \/ g = 6
  BY DEF Family
<1>1. env.state[sa] # "none" /\ c \in Clients
  BY DEF SaFree, Book
<1>2. env' = [m EXCEPT !.state[sa] = "none", !.who[sa] = NoId, !.dstid = @ \ {sa}]
  BY DEF SaFree
<1>3. PoolInv(env)  BY DEF Book
<1>a. PoolInv(env')  BY <1>3, SaFreeInv
<1>4. PoolInv(a) /\ SameRest(env, a) /\ SetAddr(env, a, sa, 4, {})
  BY <1>0, <1>3, FreeAddrInv, FreeAddrFacts
<1> HIDE DEF a
<1>5. PoolInv(m) /\ SameRest(a, m) /\ SetAddr(a, m, sa, 6, {})
  BY <1>0, <1>4, FreeAddrInv, FreeAddrFacts
<1> HIDE DEF m
<1>6. \A g \in Family : \A s \in Sas :
        m.addr[g][s] = IF s = sa THEN {} ELSE env.addr[g][s]
  BY <1>0, <1>4, <1>5 DEF SetAddr
<1>7. SameRest(env, m)  BY <1>4, <1>5 DEF SameRest
<1> DEFINE S == [m.state EXCEPT ![sa] = "none"]
           W == [m.who EXCEPT ![sa] = NoId]
           D == m.dstid \ {sa}
<1>8. m = [state |-> m.state, who |-> m.who, addr |-> m.addr,
           tree |-> m.tree, dstid |-> m.dstid]
  BY <1>5 DEF PoolInv, EnvOK
<1>9. env' = [m EXCEPT !.state = S, !.who = W, !.dstid = D]
  BY <1>2
<1>10. /\ \A s \in Sas : S[s] = IF s = sa THEN "none" ELSE env.state[s]
       /\ \A s \in Sas : W[s] = IF s = sa THEN NoId ELSE env.who[s]
       /\ S = [s \in Sas |-> S[s]] /\ W = [s \in Sas |-> W[s]]
  BY <1>7 DEF SameRest, Book
<1>11. D = env.dstid \ {sa} /\ env.dstid \subseteq Sas
  BY <1>3, <1>7 DEF SameRest, PoolInv, EnvOK
<1> HIDE DEF S, W, D
<1>12. env'.state = S /\ env'.who = W /\ env'.addr = m.addr /\ env'.dstid = D
  BY ONLY <1>8, <1>9
<1>13. Book(env')
  <2>1. /\ \A s \in Sas : S[s] = "none" => \A f \in Family : m.addr[f][s] = {}
        /\ \A s \in Sas : S[s] # "none" => W[s] \in Clients
    BY <1>6, <1>10 DEF Book
  <2>2. \A s \in D : S[s] # "none" /\ W[s] = env.who[s] /\ s \in env.dstid
    BY <1>10, <1>11 DEF Book
  <2>3. \A s, o \in D : W[s] = W[o] => s = o
    BY <2>2 DEF Book
  <2> QED BY ONLY <1>10, <1>12, <1>a, <2>1, <2>2, <2>3 DEF Book
<1>14. GivenBack(env, env', c)
  <2>1. ASSUME NEW g \in Family, NEW x, NEW d, Owned(env', g, x, d)
        PROVE  Owned(env, g, x, d)
    <3>1. PICK s \in Sas : x \in env'.addr[g][s] /\ env'.who[s] = d
      BY <2>1 DEF Owned
    <3>2. s # sa /\ x \in env.addr[g][s] /\ env.who[s] = d
      BY <1>6, <1>10, <1>12, <3>1
    <3> QED BY <3>2 DEF Owned
  <2>2. ASSUME NEW g \in Family, NEW x, NEW d, Owned(env, g, x, d), d # c
        PROVE  Owned(env', g, x, d)
    <3>1. PICK s \in Sas : x \in env.addr[g][s] /\ env.who[s] = d
      BY <2>2 DEF Owned
    <3>2. s # sa  BY <2>2, <3>1
    <3>3. x \in env'.addr[g][s] /\ env'.who[s] = d
      BY <1>6, <1>10, <1>12, <3>1, <3>2
    <3> QED BY <3>3 DEF Owned
  <2> QED BY <2>1, <2>2 DEF GivenBack
<1> QED BY <1>1, <1>13, <1>14

\* ikev2_ikesa_recv_delete changes no address and no owner.
LEMMA RecvDeleteBook ==
    ASSUME NEW sa \in Sas, Book(env), RecvDelete(sa)
    PROVE  Book(env') /\ env'.addr = env.addr /\ env'.who = env.who
<1>1. PICK s \in {"closing", "closed"} : env' = [env EXCEPT !.state[sa] = s]
  BY DEF RecvDelete
<1> DEFINE S == [env.state EXCEPT ![sa] = s]
<1>2. env = [state |-> env.state, who |-> env.who, addr |-> env.addr,
             tree |-> env.tree, dstid |-> env.dstid]
  BY DEF Book, PoolInv, EnvOK
<1>3. env' = [env EXCEPT !.state = S]
  BY <1>1
<1>4. /\ \A x \in Sas : S[x] = "none" <=> env.state[x] = "none"
      /\ S = [x \in Sas |-> S[x]]
  <2>1. env.state[sa] = "established"  BY DEF RecvDelete
  <2>2. /\ \A x \in Sas : S[x] = IF x = sa THEN s ELSE env.state[x]
        /\ S = [x \in Sas |-> S[x]]
    BY DEF Book
  <2> HIDE DEF S
  <2> QED BY <2>1, <2>2
<1> HIDE DEF S
<1>5. /\ env'.state = S /\ env'.who = env.who /\ env'.addr = env.addr
      /\ env'.dstid = env.dstid
  BY ONLY <1>2, <1>3
<1>6. PoolInv(env')
  BY RecvDeleteInv DEF Book
<1>7. env.dstid \subseteq Sas  BY DEF Book, PoolInv, EnvOK
<1>8. /\ \A x \in env.dstid : S[x] # "none"
      /\ \A x \in Sas : S[x] = "none" => \A f \in Family : env.addr[f][x] = {}
      /\ \A x \in Sas : S[x] # "none" => env.who[x] \in Clients
      /\ env.who = [x \in Sas |-> env.who[x]]
      /\ \A x, o \in env.dstid : env.who[x] = env.who[o] => x = o
  BY <1>4, <1>7 DEF Book
<1>9. Book(env')
  BY ONLY <1>4, <1>5, <1>6, <1>8 DEF Book
<1> QED BY <1>5, <1>9

-----------------------------------------------------------------------------
\* The leases are the addresses the clients have.
LEMMA LeaseOwned ==
    ASSUME NEW t, Book(t)
    PROVE  /\ \A l \in Leases(t) :
                /\ l.fam \in Family /\ l.who \in Clients
                /\ l = [fam |-> l.fam, addr |-> l.addr, who |-> l.who]
                /\ Owned(t, l.fam, l.addr, l.who)
           /\ \A f \in Family : \A a, c :
                Owned(t, f, a, c) => [fam |-> f, addr |-> a, who |-> c] \in Leases(t)
<1> DEFINE held == UNION UNION {{t.addr[f][sa] : sa \in Sas} : f \in Family}
<1>1. Leases(t) = {l \in [fam : Family, addr : held, who : Clients] :
                     \E sa \in Sas : l.addr \in t.addr[l.fam][sa] /\ t.who[sa] = l.who}
  BY DEF Leases
<1>2. ASSUME NEW f \in Family, NEW a, NEW c, Owned(t, f, a, c)
      PROVE  [fam |-> f, addr |-> a, who |-> c] \in Leases(t)
  <2>1. PICK s \in Sas : a \in t.addr[f][s] /\ t.who[s] = c
    BY <1>2 DEF Owned
  <2>2. a \in held  BY <2>1
  <2>3. c \in Clients  BY <2>1 DEF Book
  <2> HIDE DEF held
  <2> QED BY <1>1, <2>1, <2>2, <2>3
<1> HIDE DEF held
<1>3. ASSUME NEW l \in Leases(t)
      PROVE  /\ l.fam \in Family /\ l.who \in Clients
             /\ l = [fam |-> l.fam, addr |-> l.addr, who |-> l.who]
             /\ Owned(t, l.fam, l.addr, l.who)
  BY <1>1 DEF Owned
<1> QED BY <1>2, <1>3

\* Granted and GivenBack are the steps of AddressLease.
LEMMA GrantStep ==
    ASSUME Book(env), Book(env'), NEW c \in Clients, Granted(env, env', c)
    PROVE  Lease!Grant(c)
<1> DEFINE L == Leases(env)
           M == Leases(env')
<1>1. L \subseteq M
  <2> SUFFICES ASSUME NEW l \in L PROVE l \in M  OBVIOUS
  <2>1. /\ l.fam \in Family /\ Owned(env, l.fam, l.addr, l.who)
        /\ l = [fam |-> l.fam, addr |-> l.addr, who |-> l.who]
    BY LeaseOwned
  <2>2. Owned(env', l.fam, l.addr, l.who)  BY <2>1 DEF Granted
  <2>3. [fam |-> l.fam, addr |-> l.addr, who |-> l.who] \in M
    BY <2>1, <2>2, LeaseOwned
  <2> QED BY ONLY <2>1, <2>3
<1>2. ASSUME NEW l \in M \ L
      PROVE  l.who = c /\ \A m \in L : ~Lease!SameAddress(l, m)
  <2>1. /\ l.fam \in Family /\ Owned(env', l.fam, l.addr, l.who)
        /\ l = [fam |-> l.fam, addr |-> l.addr, who |-> l.who]
    BY LeaseOwned
  <2>2. ~Owned(env, l.fam, l.addr, l.who)
    <3>1. ASSUME Owned(env, l.fam, l.addr, l.who) PROVE FALSE
      <4>1. [fam |-> l.fam, addr |-> l.addr, who |-> l.who] \in L
        BY <2>1, <3>1, LeaseOwned
      <4>2. l \in L  BY ONLY <2>1, <4>1
      <4> QED BY <4>2
    <3> QED BY <3>1
  <2>3. l.who = c /\ \A e : ~Owned(env, l.fam, l.addr, e)
    BY <2>1, <2>2 DEF Granted
  <2>4. \A m \in L : Owned(env, m.fam, m.addr, m.who)  BY LeaseOwned
  <2> QED BY <2>3, <2>4 DEF Lease!SameAddress
<1> QED BY <1>1, <1>2 DEF Lease!Grant

LEMMA GiveBackStep ==
    ASSUME Book(env), Book(env'), NEW c \in Clients, GivenBack(env, env', c)
    PROVE  Lease!GiveBack(c)
<1> DEFINE L == Leases(env)
           M == Leases(env')
<1>1. M \subseteq L
  <2> SUFFICES ASSUME NEW l \in M PROVE l \in L  OBVIOUS
  <2>1. /\ l.fam \in Family /\ Owned(env', l.fam, l.addr, l.who)
        /\ l = [fam |-> l.fam, addr |-> l.addr, who |-> l.who]
    BY LeaseOwned
  <2>2. Owned(env, l.fam, l.addr, l.who)  BY <2>1 DEF GivenBack
  <2>3. [fam |-> l.fam, addr |-> l.addr, who |-> l.who] \in L
    BY <2>1, <2>2, LeaseOwned
  <2> QED BY ONLY <2>1, <2>3
<1>2. ASSUME NEW l \in L \ M PROVE l.who = c
  <2>1. /\ l.fam \in Family /\ Owned(env, l.fam, l.addr, l.who)
        /\ l = [fam |-> l.fam, addr |-> l.addr, who |-> l.who]
    BY LeaseOwned
  <2>2. ~Owned(env', l.fam, l.addr, l.who)
    <3>1. ASSUME Owned(env', l.fam, l.addr, l.who) PROVE FALSE
      <4>1. [fam |-> l.fam, addr |-> l.addr, who |-> l.who] \in M
        BY <2>1, <3>1, LeaseOwned
      <4>2. l \in M  BY ONLY <2>1, <4>1
      <4> QED BY <4>2
    <3> QED BY <3>1
  <2> QED BY <2>1, <2>2 DEF GivenBack
<1> QED BY <1>1, <1>2 DEF Lease!GiveBack

\* No step without a login or the end of an SA changes the leases.
LEMMA LeasesSame ==
    ASSUME env'.addr = env.addr, env'.who = env.who
    PROVE  Leases(env') = Leases(env)
BY DEF Leases

-----------------------------------------------------------------------------
\* The bookkeeping of the SAs is right in every state, for every set of
\* configurations: sa_free leaves nothing behind, and ikev2_record_dstid and
\* ikev2_ikesa_enable keep one entry per client in sc_dstid_sas.
THEOREM Bookkeeping == Spec => []Book(env)
<1>1. Init => Book(env)
  <2> SUFFICES ASSUME Init PROVE Book(env)  OBVIOUS
  <2> DEFINE addr == [f \in Family |-> [sa \in Sas |-> {}]]
             tree == [f \in Family |-> {}]
             st == [sa \in Sas |-> "none"]
             wh == [sa \in Sas |-> NoId]
  <2>1. env = [state |-> st, who |-> wh, addr |-> addr, tree |-> tree, dstid |-> {}]
    BY DEF Init
  <2>2. EnvOK(env) /\ env.addr = addr /\ env.tree = tree
    BY <2>1, EnvShape
  <2>3. PoolInv(env)
    BY <2>2 DEF PoolInv, Covered, Unique
  <2>4. env.state = st /\ env.who = wh /\ env.dstid = {}
    BY <2>1
  <2> QED BY <2>2, <2>3, <2>4 DEF Book
<1>2. Book(env) /\ [Next]_vars => Book(env')
  <2> SUFFICES ASSUME Book(env), [Next]_vars PROVE Book(env')
    OBVIOUS
  <2>1. CASE Next
    BY <2>1, AuthGrants, IkesaEnableGrants, RecvDeleteBook, SaFreeGivesBack
       DEF Next, Reload
  <2>2. CASE UNCHANGED vars
    BY <2>2 DEF vars
  <2> QED BY <2>1, <2>2
<1>3. Book(env)' <=> Book(env')
  BY DEF Book, PoolInv, EnvOK, Covered, Unique
<1> QED BY <1>1, <1>2, <1>3, PTL DEF Spec

\* The pools implement AddressLease (LeaseKept): a login adds leases of
\* addresses nobody has, sa_free takes away leases of one client, and nothing
\* else changes any, whatever the configurations and through reloads.
THEOREM PoolsImplementLeases == Spec => LeaseKept
<1>1. Init => Lease!Init
  <2> SUFFICES ASSUME Init PROVE Leases(env) = {}
    BY DEF Lease!Init
  <2>1. env.addr = [f \in Family |-> [sa \in Sas |-> {}]]
    BY DEF Init
  <2> QED BY <2>1 DEF Leases
<1>2. Book(env) /\ Book(env') /\ [Next]_vars => [Lease!Next]_(Leases(env))
  <2> SUFFICES ASSUME Book(env), Book(env'), [Next]_vars
               PROVE  Lease!Next \/ Leases(env') = Leases(env)
    BY DEF Leases
  <2>1. ASSUME NEW sa \in Sas, NEW c \in Clients, NEW cp, NEW req,
               Auth(sa, c, cp, req)
        PROVE  Lease!Next
    <3>1. Granted(env, env', c)  BY <2>1, AuthGrants
    <3>2. Lease!Grant(c)  BY <3>1, GrantStep
    <3> QED BY <3>2 DEF Lease!Next
  <2>2. ASSUME NEW sa \in Sas, NEW nsa \in Sas, IkesaEnable(sa, nsa)
        PROVE  Lease!Next
    <3>1. PICK c \in Clients : Granted(env, env', c)
      BY <2>2, IkesaEnableGrants
    <3>2. Lease!Grant(c)  BY <3>1, GrantStep
    <3> QED BY <3>2 DEF Lease!Next
  <2>3. ASSUME NEW sa \in Sas, RecvDelete(sa)
        PROVE  Leases(env') = Leases(env)
    BY <2>3, RecvDeleteBook, LeasesSame
  <2>4. ASSUME NEW sa \in Sas, SaFree(sa)
        PROVE  Lease!Next
    <3>1. PICK c \in Clients : GivenBack(env, env', c)
      BY <2>4, SaFreeGivesBack
    <3>2. Lease!GiveBack(c)  BY <3>1, GiveBackStep
    <3> QED BY <3>2 DEF Lease!Next
  <2>5. ASSUME env' = env PROVE Leases(env') = Leases(env)
    BY <2>5
  <2>6. CASE Next
    BY <2>1, <2>2, <2>3, <2>4, <2>5, <2>6 DEF Next, Reload
  <2>7. CASE UNCHANGED vars
    BY <2>5, <2>7 DEF vars
  <2> QED BY <2>6, <2>7
<1>3. Book(env)' <=> Book(env')
  BY DEF Book, PoolInv, EnvOK, Covered, Unique
<1> QED BY <1>1, <1>2, <1>3, Bookkeeping, PTL DEF Spec, LeaseKept, Lease!Spec

=============================================================================
