------------------------- MODULE IkeExchangeProofs -------------------------
(***************************************************************************)
(* Proofs about IkeExchange, for every value of its constants: type        *)
(* correctness, at-most-once and in-order execution of requests, and that  *)
(* accepted answers are answers the peer gave to that request.             *)
(*                                                                         *)
(* Each operator on SA records is summarised by one lemma.  Most operators *)
(* answer no request (Quiet); the others answer one (Replies).             *)
(***************************************************************************)
EXTENDS IkeExchange, TLAPS, SequenceTheorems

-----------------------------------------------------------------------------
(* What the operators on SA records do *)

\* No id at or above sa_reqid was used, and all requests with one id, queued
\* or on the wire, ask for the same.
RequestsAgree(s) ==
    /\ \A r \in s.requests : r.id < s.reqid
    /\ \A p \in s.wire : ~p.resp => p.id < s.reqid
    /\ \A q, r \in s.requests : q.id = r.id => q.kind = r.kind
    /\ \A p \in s.wire, r \in s.requests :
          ~p.resp /\ p.id = r.id => p.kind = r.kind
    /\ \A p, q \in s.wire :
          ~p.resp /\ ~q.resp /\ p.id = q.id => p.kind = q.kind

\* t is what an operator that answers no request may make of s.
Quiet(s, t) ==
    /\ t \in SaType
    /\ s.wire \subseteq t.wire
    /\ RequestsAgree(s) => RequestsAgree(t)
    /\ t.msgid = s.msgid /\ t.msgidSet = s.msgidSet
    /\ t.responses \subseteq s.responses
    /\ \A p \in t.wire : p \in s.wire \/ ~p.resp

\* t is what an operator that answers request m with the results in R may
\* make of s.
Replies(s, t, m, R) ==
    /\ t \in SaType
    /\ s.wire \subseteq t.wire
    /\ RequestsAgree(s) => RequestsAgree(t)
    /\ t.msgid = s.msgid /\ t.msgidSet = s.msgidSet
    /\ \A c \in t.responses :
          \/ c \in s.responses
          \/ /\ c.id = m.id /\ c.kind = m.kind
             /\ c.res \subseteq R /\ c.res # {}
    /\ \A p \in t.wire :
          \/ p \in s.wire
          \/ ~p.resp
          \/ p.id = m.id /\ p.kind = m.kind /\ p.res \in R

\* An operator that sends no request keeps RequestsAgree.
LEMMA RequestsKept ==
    \A s, t :
        /\ t.reqid = s.reqid /\ t.requests \subseteq s.requests
        /\ \A p \in t.wire : p \in s.wire \/ p.resp
        => (RequestsAgree(s) => RequestsAgree(t))
BY DEF RequestsAgree

\* Doing nothing sends no response.
LEMMA QuietRefl == \A s \in SaType : Quiet(s, s)
BY DEF Quiet

\* Quiet steps compose.
LEMMA QuietTrans ==
    \A s, t, u : Quiet(s, t) /\ Quiet(t, u) => Quiet(s, u)
BY DEF Quiet

\* A quiet step followed by one that answers is one that answers.
LEMMA QuietReplies ==
    \A s, t, u, m, R : Quiet(s, t) /\ Replies(t, u, m, R) => Replies(s, u, m, R)
BY DEF Quiet, Replies

\* A step that answers followed by a quiet one is one that answers.
LEMMA RepliesQuiet ==
    \A s, t, u, m, R : Replies(s, t, m, R) /\ Quiet(t, u) => Replies(s, u, m, R)
BY DEF Quiet, Replies

\* The peer of an end is an end.
LEMMA OtherType == \A e \in End : Other(e) \in End
BY DEF Other, End

\* Sending a request uses the next id and answers nothing.
LEMMA SendRequestQuiet ==
    ASSUME NEW s \in SaType, NEW e \in End, NEW kind \in AllKinds
    PROVE  Quiet(s, SendRequest(s, e, kind))
<1> DEFINE p == RequestPacket(e, s.reqid, kind)
           t == Transmit(s, p)
           r == [id |-> s.reqid, kind |-> kind, tries |-> 0]
<1>1. s.reqid \in Nat
  BY DEF SaType
<1>2. p \in Packet /\ ~p.resp /\ p.id = s.reqid /\ p.kind = kind
  BY <1>1 DEF RequestPacket, Packet
<1>3. /\ r \in Request /\ Exchange(kind) \in {"INF", "CHILDSA"}
      /\ r.id = s.reqid /\ r.kind = kind
  BY <1>1 DEF Request, Exchange
<1> HIDE DEF p, r
<1>4. /\ t \in SaType
      /\ t.wire = s.wire \/ t.wire = s.wire \cup {p}
      /\ t.reqid = s.reqid /\ t.requests = s.requests
      /\ t.msgid = s.msgid /\ t.msgidSet = s.msgidSet
      /\ t.responses = s.responses
  BY <1>2 DEF Transmit, SaType, States
<1> HIDE DEF t
<1>6. /\ t.reqid + 1 \in Nat
      /\ t.requests \cup {r} \in SUBSET Request
      /\ t.flags \cup {Exchange(kind)} \in SUBSET {"INF", "CHILDSA"}
  BY <1>3, <1>4 DEF SaType
<1> DEFINE u == SendRequest(s, e, kind)
<1>5. ASSUME NEW x, NEW y, NEW z, x = t.reqid + 1, y = t.requests \cup {r},
             z = t.flags \cup {Exchange(kind)}
      PROVE  u = [t EXCEPT !.reqid = x, !.requests = y, !.flags = z]
  BY <1>5 DEF SendRequest, t, p, r
<1> HIDE DEF u
<1>8. /\ u \in SaType
      /\ u.wire = s.wire \/ u.wire = s.wire \cup {p}
      /\ u.reqid = s.reqid + 1 /\ u.requests = s.requests \cup {r}
      /\ u.msgid = s.msgid /\ u.msgidSet = s.msgidSet
      /\ u.responses = s.responses
  <2>1. /\ u \in SaType /\ u.wire = t.wire
        /\ u.reqid = t.reqid + 1 /\ u.requests = t.requests \cup {r}
        /\ u.msgid = t.msgid /\ u.msgidSet = t.msgidSet
        /\ u.responses = t.responses
    <3> DEFINE x == t.reqid + 1
               y == t.requests \cup {r}
               z == t.flags \cup {Exchange(kind)}
    <3>1. x \in Nat /\ y \in SUBSET Request /\ z \in SUBSET {"INF", "CHILDSA"}
      BY <1>6
    <3>2. u = [t EXCEPT !.reqid = x, !.requests = y, !.flags = z]
      BY <1>5
    <3> HIDE DEF x, y, z
    <3>3. /\ u \in SaType /\ u.wire = t.wire
          /\ u.reqid = x /\ u.requests = y
          /\ u.msgid = t.msgid /\ u.msgidSet = t.msgidSet
          /\ u.responses = t.responses
      BY <1>4, <3>1, <3>2 DEF SaType
    <3> QED
      BY <3>3 DEF x, y
  <2> QED
    BY <1>4, <2>1
<1>9. RequestsAgree(s) => RequestsAgree(u)
  <2> SUFFICES ASSUME RequestsAgree(s) PROVE RequestsAgree(u)
    OBVIOUS
  <2>1. /\ \A q \in s.requests : q.id < s.reqid /\ q.id \in Nat
        /\ \A q \in s.wire : q.id \in Nat /\ (~q.resp => q.id < s.reqid)
    BY DEF RequestsAgree, SaType, Request, Packet
  <2>2. /\ \A q \in u.requests : q.id < u.reqid
        /\ \A q \in u.wire : ~q.resp => q.id < u.reqid
    BY <1>1, <1>2, <1>3, <1>8, <2>1
  <2>3. \A x, y \in u.requests : x.id = y.id => x.kind = y.kind
    BY <1>1, <1>3, <1>8, <2>1 DEF RequestsAgree
  <2>4. \A x \in u.wire, y \in u.requests :
            ~x.resp /\ x.id = y.id => x.kind = y.kind
    BY <1>1, <1>2, <1>3, <1>8, <2>1 DEF RequestsAgree
  <2>5. \A x, y \in u.wire :
            ~x.resp /\ ~y.resp /\ x.id = y.id => x.kind = y.kind
    BY <1>1, <1>2, <1>8, <2>1 DEF RequestsAgree
  <2> QED
    BY <2>2, <2>3, <2>4, <2>5 DEF RequestsAgree
<1> QED
  BY <1>2, <1>8, <1>9 DEF Quiet, u

\* sa_free keeps the message ids and what is on the wire.
LEMMA FreeQuiet ==
    ASSUME NEW s \in SaType
    PROVE  Quiet(s, Free(s))
<1>1. /\ Free(s) \in SaType /\ Free(s).reqid = s.reqid
      /\ Free(s).requests = {} /\ Free(s).responses = {}
      /\ Free(s).wire = s.wire /\ Free(s).msgid = s.msgid
      /\ Free(s).msgidSet = s.msgidSet
  BY DEF Free, SaType, States
<1> QED
  BY <1>1, RequestsKept DEF Quiet

\* So does freeing an SA left CLOSED at the end of ikev2_recv.
LEMMA ReapQuiet == \A s \in SaType : Quiet(s, Reap(s))
BY FreeQuiet, QuietRefl DEF Reap

\* ikev2_disable_timer touches timers only.
LEMMA DisableTimerQuiet ==
    ASSUME NEW s \in SaType
    PROVE  Quiet(s, DisableTimer(s))
BY RequestsKept DEF Quiet, DisableTimer, SaType

\* ikev2_ikesa_delete sends at most a request.
LEMMA IkesaDeleteQuiet ==
    ASSUME NEW s \in SaType, NEW e \in End, NEW initiator \in BOOLEAN
    PROVE  Quiet(s, IkesaDelete(s, e, initiator))
<1> DEFINE t == IF initiator /\ "INF" \notin s.flags
                THEN SendRequest(s, e, "delike") ELSE s
<1>1. Quiet(s, t)
  BY SendRequestQuiet, QuietRefl DEF AllKinds, InfKinds
<1> HIDE DEF t
<1>2. Quiet(t, [t EXCEPT
                  !.state = IF initiator THEN "CLOSED" ELSE "CLOSING",
                  !.timer = "timeout"])
  BY <1>1, RequestsKept DEF Quiet, SaType, States
<1> QED
  BY <1>1, <1>2, QuietTrans DEF IkesaDelete, t

\* So does ikev2_ikesa_enable, as far as the old SA is concerned.
LEMMA IkesaEnableQuiet ==
    ASSUME NEW s \in SaType, NEW e \in End, NEW owner \in End
    PROVE  Quiet(s, IkesaEnable(s, e, owner))
<1> DEFINE t == IF s.state = "ESTABLISHED" THEN DisableTimer(s) ELSE s
           u == [t EXCEPT !.moved = owner]
<1>1. Quiet(s, t)
  BY DisableTimerQuiet, QuietRefl
<1> HIDE DEF t
<1>2. Quiet(t, u)
  BY <1>1, RequestsKept DEF Quiet, SaType
<1>3. u \in SaType
  BY <1>2 DEF Quiet
<1> HIDE DEF u
<1>4. Quiet(u, IkesaDelete(u, e, owner = e))
  BY <1>3, IkesaDeleteQuiet
<1> QED
  BY <1>1, <1>2, <1>4, QuietTrans DEF IkesaEnable, t, u

\* So does ikev2_ikesa_recv_delete.
LEMMA RecvDeleteQuiet ==
    ASSUME NEW s \in SaType, NEW e \in End
    PROVE  Quiet(s, RecvDelete(s, e))
<1> DEFINE v == IkesaEnable(s, e, Other(e))
           t == IF s.nexti /\ s.nextr THEN [v EXCEPT !.nextr = FALSE] ELSE s
           u == [t EXCEPT !.nexti = FALSE]
<1>1. Quiet(s, v)
  BY IkesaEnableQuiet, OtherType
<1> HIDE DEF v
<1>2. Quiet(v, [v EXCEPT !.nextr = FALSE])
  BY <1>1, RequestsKept DEF Quiet, SaType
<1>3. Quiet(s, t)
  BY <1>1, <1>2, QuietTrans, QuietRefl
<1> HIDE DEF t
<1>4. Quiet(t, u)
  BY <1>3, RequestsKept DEF Quiet, SaType
<1> HIDE DEF u
<1>5. Quiet(u, IF conf.sticky
               THEN [u EXCEPT !.state = "CLOSING", !.timer = "timeout"]
               ELSE [u EXCEPT !.state = "CLOSED"])
  BY <1>4, RequestsKept DEF Quiet, SaType, States
<1> QED
  BY <1>3, <1>4, <1>5, QuietTrans DEF RecvDelete, u, t, v

\* The responses cached for request m have results in R only.
Cached(s, m, R) == \A c \in Lookup(s.responses, m) : c.res \subseteq R

\* A quiet step adds nothing to the response cache.
LEMMA QuietCached ==
    \A s, t, m, R : Quiet(s, t) /\ Cached(s, m, R) => Cached(t, m, R)
BY DEF Quiet, Cached, Lookup

\* Sending a response answers the request being worked on, and nothing else.
LEMMA SendResponseReplies ==
    ASSUME NEW s \in SaType, NEW e \in End, NEW m \in Packet,
           NEW R \in SUBSET Results, NEW res \in R, Cached(s, m, R)
    PROVE  /\ Replies(s, SendResponse(s, e, m, res), m, R)
           /\ Cached(SendResponse(s, e, m, res), m, R)
<1> DEFINE p == ResponsePacket(e, m.id, m.kind, res)
           t == Transmit(s, p)
           there == Lookup(s.responses, m)
           all == {res} \cup UNION {r.res : r \in there}
           new == [id |-> m.id, kind |-> m.kind, res |-> all]
<1>1. m.id \in Nat /\ m.kind \in AllKinds
  BY DEF Packet
<1>2. /\ p \in Packet /\ p.id = m.id /\ p.kind = m.kind /\ p.res \in R
      /\ p.resp
  BY <1>1 DEF ResponsePacket, Packet
<1>3. all \subseteq R /\ all # {}
  BY DEF Cached
<1>4. new \in Answers /\ new.id = m.id /\ new.kind = m.kind /\ new.res = all
  BY <1>1, <1>3 DEF Answers
<1> HIDE DEF p, all, new
<1>5. /\ t \in SaType
      /\ t.msgid = s.msgid /\ t.msgidSet = s.msgidSet
      /\ t.responses = s.responses
      /\ t.reqid = s.reqid /\ t.requests = s.requests
      /\ t.wire = s.wire \/ t.wire = s.wire \cup {p}
  BY <1>2 DEF Transmit, SaType, States
<1> HIDE DEF t
<1>6. (t.responses \ there) \cup {new} \in SUBSET Answers
  BY <1>4, <1>5 DEF SaType
<1>7. ASSUME NEW x \in SUBSET Answers
      PROVE  LET u == [t EXCEPT !.responses = x]
             IN  /\ u \in SaType
                 /\ u.msgid = s.msgid /\ u.msgidSet = s.msgidSet
                 /\ u.responses = x /\ u.wire = t.wire
                 /\ u.reqid = t.reqid /\ u.requests = t.requests
  BY <1>5 DEF SaType
<1> DEFINE u == SendResponse(s, e, m, res)
<1>8. /\ u \in SaType
      /\ u.msgid = s.msgid /\ u.msgidSet = s.msgidSet
      /\ u.responses = (s.responses \ there) \cup {new}
      /\ u.reqid = s.reqid /\ u.requests = s.requests
      /\ u.wire = s.wire \/ u.wire = s.wire \cup {p}
  BY <1>5, <1>6, <1>7 DEF SendResponse, t, p, new, all
<1> HIDE DEF u
<1>9. Replies(s, u, m, R)
  BY <1>2, <1>3, <1>4, <1>8, RequestsKept DEF Replies
<1>10. Cached(u, m, R)
  BY <1>3, <1>4, <1>8 DEF Cached, Lookup
<1> QED
  BY <1>9, <1>10 DEF u

\* ikev2_resp_create_child_sa answers an IKE SA rekey with what it reports.
LEMMA RespRekeyReplies ==
    ASSUME NEW s \in SaType, NEW e \in End, NEW m \in Packet,
           Lookup(s.responses, m) = {}, NEW o \in RespRekey(s, e, m)
    PROVE  o.res \in SUBSET Results /\ Replies(s, o.sa, m, o.res)
<1> DEFINE ok == SendResponse(s, e, m, "ok")
<1>1. Cached(s, m, {"ok"}) /\ Cached(s, m, {"noprop"})
  BY DEF Cached
<1>2. Replies(s, ok, m, {"ok"})
  BY <1>1, SendResponseReplies DEF Results
<1>3. Replies(s, SendResponse(s, e, m, "noprop"), m, {"noprop"})
  BY <1>1, SendResponseReplies DEF Results
<1> HIDE DEF ok
<1>4. ok \in SaType
  BY <1>2 DEF Replies
<1>5. Quiet(ok, [ok EXCEPT !.nextr = TRUE])
  BY <1>4, RequestsKept DEF Quiet, SaType
<1>6. Quiet(ok, IkesaEnable(ok, e, Other(e)))
  BY <1>4, IkesaEnableQuiet, OtherType
<1> DEFINE n == IF s.nexti THEN [ok EXCEPT !.nextr = TRUE]
                           ELSE IkesaEnable(ok, e, Other(e))
<1>7. Replies(s, n, m, {"ok"})
  BY <1>2, <1>5, <1>6, RepliesQuiet
<1>8. Replies(s, s, m, {})
  BY DEF Replies
<1>9. \/ o = [sa |-> s, res |-> {}]
      \/ o = [sa |-> n, res |-> {"ok"}]
      \/ o = [sa |-> SendResponse(s, e, m, "noprop"), res |-> {"noprop"}]
  BY DEF RespRekey, ok
<1> HIDE DEF n
<1> QED
  BY <1>3, <1>7, <1>8, <1>9 DEF Results

\* ikev2_resp_create_child_sa answers a child SA request with what it reports.
LEMMA RespChildReplies ==
    ASSUME NEW s \in SaType, NEW e \in End, NEW m \in Packet,
           Lookup(s.responses, m) = {}, NEW o \in RespChild(s, e, m)
    PROVE  o.res \in SUBSET Results /\ Replies(s, o.sa, m, o.res)
<1>1. \A R : Cached(s, m, R)
  BY DEF Cached
<1>2. CASE \E res \in Results :
              o = [sa |-> SendResponse(s, e, m, res), res |-> {res}]
  <2>1. PICK res \in Results :
              o = [sa |-> SendResponse(s, e, m, res), res |-> {res}]
    BY <1>2
  <2>2. Replies(s, SendResponse(s, e, m, res), m, {res})
    BY <1>1, SendResponseReplies
  <2> QED
    BY <2>1, <2>2
<1>3. CASE o = [sa |-> SendResponse(SendResponse(s, e, m, "ok"), e, m, "noprop"),
                res |-> {"ok", "noprop"}]
  <2> DEFINE R == {"ok", "noprop"}
             t == SendResponse(s, e, m, "ok")
             u == SendResponse(t, e, m, "noprop")
  <2>1. R \in SUBSET Results
    BY DEF Results
  <2>2. Replies(s, t, m, R) /\ Cached(t, m, R)
    BY <1>1, <2>1, SendResponseReplies
  <2> HIDE DEF t
  <2>3. Replies(t, u, m, R)
    BY <2>1, <2>2, SendResponseReplies DEF Replies
  <2> HIDE DEF u
  <2>4. Replies(s, u, m, R)
    BY <2>2, <2>3 DEF Replies
  <2> QED
    BY <1>3, <2>1, <2>4 DEF t, u
<1> QED
  BY <1>2, <1>3 DEF RespChild

\* ikev2_resp_recv answers a request with what it reports.
LEMMA RespRecvReplies ==
    ASSUME NEW s \in SaType, NEW e \in End, NEW m \in Packet,
           Lookup(s.responses, m) = {}, NEW o \in RespRecv(s, e, m)
    PROVE  o.res \in SUBSET Results /\ Replies(s, o.sa, m, o.res)
<1>1. \A t : Quiet(s, t) => Cached(t, m, {"ok"})
  BY QuietCached DEF Cached
<1>2. \A t : Quiet(s, t) => Replies(s, SendResponse(t, e, m, "ok"), m, {"ok"})
  <2> SUFFICES ASSUME NEW t, Quiet(s, t)
               PROVE  Replies(s, SendResponse(t, e, m, "ok"), m, {"ok"})
    OBVIOUS
  <2>1. Replies(t, SendResponse(t, e, m, "ok"), m, {"ok"})
    BY <1>1, SendResponseReplies DEF Quiet, Results
  <2> QED
    BY <2>1, QuietReplies
<1>3. CASE m.kind \in {"alive", "delchild"}
  BY <1>2, <1>3, QuietRefl DEF RespRecv, Results
<1>4. CASE m.kind = "delike"
  BY <1>2, <1>4, RecvDeleteQuiet DEF RespRecv, Results
<1>5. CASE m.kind = "rekey"
  BY <1>5, RespRekeyReplies DEF RespRecv
<1>6. CASE m.kind \notin {"alive", "delchild", "delike", "rekey"}
  BY <1>6, RespChildReplies DEF RespRecv
<1> QED
  BY <1>3, <1>4, <1>5, <1>6

\* ikev2_init_recv answers nothing.
LEMMA InitRecvQuiet ==
    ASSUME NEW s \in SaType, NEW e \in End, NEW m \in Packet,
           NEW u \in InitRecv(s, e, m)
    PROVE  Quiet(s, u)
<1> DEFINE t == [s EXCEPT !.flags = @ \ {"CHILDSA"}]
           x == [s EXCEPT !.flags = @ \ {"CHILDSA"},
                          !.nexti = FALSE, !.nextr = FALSE]
<1>1. /\ Quiet(s, t)
      /\ Quiet(s, x)
      /\ Quiet(s, [s EXCEPT !.flags = @ \ {"INF"}])
      /\ Quiet(s, [s EXCEPT !.state = "CLOSED"])
  <2>1. s.flags \ {"CHILDSA"} \in SUBSET {"INF", "CHILDSA"} /\
        s.flags \ {"INF"} \in SUBSET {"INF", "CHILDSA"}
    BY DEF SaType
  <2>2. ASSUME NEW f \in SUBSET {"INF", "CHILDSA"}
        PROVE  /\ Quiet(s, [s EXCEPT !.flags = f])
               /\ Quiet(s, [s EXCEPT !.flags = f, !.nexti = FALSE,
                                      !.nextr = FALSE])
    BY RequestsKept DEF Quiet, SaType
  <2>3. Quiet(s, [s EXCEPT !.state = "CLOSED"])
    BY RequestsKept DEF Quiet, SaType, States
  <2> QED
    BY <2>1, <2>2, <2>3
<1> HIDE DEF t, x
<1>2. t \in SaType /\ x \in SaType
  BY <1>1 DEF Quiet
<1>3. /\ Quiet(t, [t EXCEPT !.state = "CLOSED"])
      /\ Quiet(t, [t EXCEPT !.rekeytmr = "rekey"])
      /\ Quiet(t, SendRequest(t, e, "crekey"))
      /\ Quiet(t, SendRequest(t, e, "delchild"))
  BY <1>2, SendRequestQuiet, RequestsKept
     DEF Quiet, SaType, States, AllKinds, InfKinds, ChildKinds
<1>4. \A owner \in End : Quiet(x, IkesaEnable(x, e, owner))
  BY <1>2, IkesaEnableQuiet
<1>5. u \in InitBadKe(s, e, m.kind) => Quiet(s, u)
  BY <1>1, <1>3, QuietTrans DEF InitBadKe, t
<1>6. u \in InitChildOk(s, e, m.kind) => Quiet(s, u)
  BY <1>1, <1>3, QuietTrans DEF InitChildOk, t
<1>7. u \in InitRekeyOk(s, e) => Quiet(s, u)
  BY <1>1, <1>4, QuietTrans, QuietRefl, OtherType DEF InitRekeyOk, x
<1> QED
  BY <1>1, <1>5, <1>6, <1>7 DEF InitRecv, InitInformational, t

-----------------------------------------------------------------------------
(* Type correctness *)

\* The initial states are well typed.
LEMMA InitTypeOK == Init => TypeOK
<1> SUFFICES ASSUME Init PROVE TypeOK
  OBVIOUS
<1>1. \A e \in End : NewSa(e) \in SaType
  BY ExchangeAssumption, OtherType DEF NewSa, SaType, States
<1>2. <<>> \in Seq(Answers)
  OBVIOUS
<1> QED
  BY <1>1, <1>2 DEF Init, TypeOK

\* Every action replaces the SA record of one end by a well-typed one, and
\* adds well-typed entries to the histories.
LEMMA WireType ==
    ASSUME TypeOK, NEW e \in End, NEW m \in sa[Other(e)].wire
    PROVE  m \in Packet /\ sa[e] \in SaType
BY OtherType DEF TypeOK, SaType

\* What a step of end e that only updates its own SA does.
LocalStep(e) ==
    /\ \E t : Quiet(sa[e], t) /\ sa' = [sa EXCEPT ![e] = t]
    /\ UNCHANGED <<conf, lownonce, ran, got>>

\* The steps of end e other than those that run a request or accept an
\* answer.
LocalAction(e) ==
    \/ RetransmitTimeout(e)
    \/ ResponseTimeout(e)
    \/ Alive(e)
    \/ SaTimeout(e)
    \/ Rekey(e)
    \/ RekeyTimeout(e)
    \/ \E kind \in {"child", "crekey", "delchild"} : ChildRequest(e, kind)
    \/ CtlResetId(e)
    \/ CtlResetSa(e)
    \/ Reload(e)
    \/ Replaced(e)
    \/ AddrLost(e)

\* An action that replaces one SA by a quiet successor is a local step.
LEMMA UpdateLocal ==
    ASSUME NEW e \in End, NEW t, Quiet(sa[e], t), Update(e, t)
    PROVE  LocalStep(e)
BY DEF Update, LocalStep

\* Timers, kernel events and operator requests are local steps.
LEMMA LocalActions ==
    ASSUME TypeOK, NEW e \in End, LocalAction(e)
    PROVE  LocalStep(e)
<1> DEFINE s == sa[e]
<1>0. s \in SaType
  BY DEF TypeOK
<1>f. Quiet(s, Free(s))
  BY <1>0, FreeQuiet
<1>s. \A kind \in AllKinds : Quiet(s, SendRequest(s, e, kind))
  BY <1>0, SendRequestQuiet
<1>d. /\ Quiet(s, DisableTimer(s))
      /\ \A b \in BOOLEAN : /\ Quiet(s, IkesaDelete(s, e, b))
                            /\ Quiet(s, IkesaDelete(DisableTimer(s), e, b))
  BY <1>0, DisableTimerQuiet, IkesaDeleteQuiet, QuietTrans DEF Quiet
<1>1. CASE RetransmitTimeout(e)
  <2>1. PICK r \in s.requests :
          IF r.tries < Tries /\ s.addr
          THEN Update(e, [Transmit(s, RequestPacket(e, r.id, r.kind)) EXCEPT
                    !.requests = (@ \ {r}) \cup {[r EXCEPT !.tries = @ + 1]}])
          ELSE Update(e, Free(s))
    BY <1>1 DEF RetransmitTimeout
  <2> DEFINE p == RequestPacket(e, r.id, r.kind)
             q == [r EXCEPT !.tries = @ + 1]
  <2>2. r \in Request
    BY <1>0 DEF SaType
  <2>3. /\ p \in Packet /\ ~p.resp /\ p.id = r.id /\ p.kind = r.kind
        /\ q \in Request /\ q.id = r.id /\ q.kind = r.kind
    BY <2>2 DEF RequestPacket, Packet, Request
  <2> HIDE DEF p, q
  <2> DEFINE t == Transmit(s, p)
             u == [t EXCEPT !.requests = (@ \ {r}) \cup {q}]
  <2>4. /\ t \in SaType
        /\ t.wire = s.wire \/ t.wire = s.wire \cup {p}
        /\ t.reqid = s.reqid /\ t.requests = s.requests
        /\ t.msgid = s.msgid /\ t.msgidSet = s.msgidSet
        /\ t.responses = s.responses
    BY <1>0, <2>3 DEF Transmit, SaType, States
  <2> HIDE DEF t
  <2>5. (t.requests \ {r}) \cup {q} \in SUBSET Request
    BY <2>3, <2>4 DEF SaType
  <2>6. \A x \in SUBSET Request :
            LET v == [t EXCEPT !.requests = x]
            IN  /\ v \in SaType /\ v.wire = t.wire
                /\ v.reqid = t.reqid /\ v.requests = x
                /\ v.msgid = t.msgid /\ v.msgidSet = t.msgidSet
                /\ v.responses = t.responses
    BY <2>4 DEF SaType
  <2>7. /\ u \in SaType
        /\ u.wire = s.wire \/ u.wire = s.wire \cup {p}
        /\ u.reqid = s.reqid /\ u.requests = (s.requests \ {r}) \cup {q}
        /\ u.msgid = s.msgid /\ u.msgidSet = s.msgidSet
        /\ u.responses = s.responses
    BY <2>4, <2>5, <2>6
  <2> HIDE DEF u
  <2>8. RequestsAgree(s) => RequestsAgree(u)
    BY <2>1, <2>3, <2>7 DEF RequestsAgree
  <2>9. Quiet(s, u)
    BY <2>3, <2>7, <2>8 DEF Quiet
  <2> QED
    BY <1>f, <2>1, <2>9, UpdateLocal DEF u, t, p, q
<1>2. CASE ResponseTimeout(e)
  <2>1. PICK r \in s.responses :
            Update(e, [s EXCEPT !.responses = @ \ {r}])
    BY <1>2 DEF ResponseTimeout
  <2>2. \A x \in SUBSET s.responses : Quiet(s, [s EXCEPT !.responses = x])
    BY <1>0, RequestsKept DEF Quiet, SaType
  <2> QED
    BY <2>1, <2>2, UpdateLocal
<1>3. CASE Alive(e)
  BY <1>3, <1>s, UpdateLocal DEF Alive, AllKinds, InfKinds
<1>4. CASE SaTimeout(e)
  BY <1>4, <1>f, UpdateLocal DEF SaTimeout
<1>5. CASE Rekey(e)
  <2> DEFINE t == SendRequest(s, e, "rekey")
  <2>1. Quiet(s, t)
    BY <1>s DEF AllKinds, ChildKinds
  <2> HIDE DEF t
  <2>2. Quiet(s, [t EXCEPT !.nexti = TRUE, !.rekeytmr = "timeout"])
    BY <2>1, RequestsKept DEF Quiet, SaType
  <2>3. Quiet(s, [s EXCEPT !.rekeytmr = "off"])
    BY <1>0, RequestsKept DEF Quiet, SaType
  <2> QED
    BY <1>5, <2>2, <2>3, UpdateLocal DEF Rekey, t
<1>6. CASE RekeyTimeout(e)
  BY <1>6, <1>f, UpdateLocal DEF RekeyTimeout
<1>7. ASSUME NEW kind \in {"child", "crekey", "delchild"}, ChildRequest(e, kind)
      PROVE  LocalStep(e)
  BY <1>7, <1>s, UpdateLocal DEF ChildRequest, AllKinds, InfKinds, ChildKinds
<1>8. CASE CtlResetId(e)
  BY <1>8, <1>d, UpdateLocal DEF CtlResetId
<1>9. CASE CtlResetSa(e)
  <2>1. \A t : Quiet(s, t) => Quiet(s, Free(t))
    BY FreeQuiet, QuietTrans DEF Quiet
  <2>2. Quiet(s, Free(IF s.state = "ESTABLISHED" /\ s.flags = {}
                      THEN IkesaDelete(DisableTimer(s), e, TRUE) ELSE s))
    BY <1>0, <1>d, <2>1, QuietRefl
  <2> QED
    BY <1>9, <2>2, UpdateLocal DEF CtlResetSa
<1>10. CASE Reload(e)
  <2> DEFINE t == [s EXCEPT !.nexti = FALSE, !.nextr = FALSE]
  <2>1. Quiet(s, t)
    BY <1>0, RequestsKept DEF Quiet, SaType
  <2> HIDE DEF t
  <2>2. \A b \in BOOLEAN : Quiet(s, IkesaDelete(t, e, b))
    BY <2>1, IkesaDeleteQuiet, QuietTrans DEF Quiet
  <2> QED
    BY <1>10, <1>f, <2>1, <2>2, UpdateLocal DEF Reload, t
<1>11. CASE Replaced(e)
  BY <1>11, <1>d, UpdateLocal DEF Replaced
<1>12. CASE AddrLost(e)
  <2>1. Quiet(s, [s EXCEPT !.addr = FALSE])
    BY <1>0, RequestsKept DEF Quiet, SaType
  <2> QED
    BY <1>12, <2>1, UpdateLocal DEF AddrLost
<1> QED
  BY <1>1, <1>2, <1>3, <1>4, <1>5, <1>6, <1>7, <1>8, <1>9, <1>10, <1>11,
     <1>12 DEF LocalAction

-----------------------------------------------------------------------------
(* At most once, in order, and with real answers *)

\* End e has carried out request id of that kind and answered it with res.
HasRun(e, id, kind, res) ==
    \E i \in DOMAIN ran[e] :
        /\ ran[e][i].id = id
        /\ ran[e][i].kind = kind
        /\ res \in ran[e][i].res

\* sa_msgid is the largest id that was carried out; sa_msgid_set tells
\* whether there is one.
MsgidCovers ==
    \A e \in End :
        IF sa[e].msgidSet
        THEN \A i \in DOMAIN ran[e] : ran[e][i].id <= sa[e].msgid
        ELSE ran[e] = <<>>

\* Responses on the wire and in the cache were produced by a run.
WireReal ==
    \A e \in End : \A p \in sa[e].wire :
        p.resp => HasRun(e, p.id, p.kind, p.res)

CacheReal ==
    \A e \in End : \A c \in sa[e].responses : \A x \in c.res :
        HasRun(e, c.id, c.kind, x)

\* Only requests of the peer are carried out.
RunsOnWire ==
    \A e \in End : \A i \in DOMAIN ran[e] :
        \E p \in sa[Other(e)].wire :
            ~p.resp /\ p.id = ran[e][i].id /\ p.kind = ran[e][i].kind

AllRequestsAgree == \A e \in End : RequestsAgree(sa[e])

ExchangeInv ==
    /\ TypeOK
    /\ AllRequestsAgree
    /\ RunsOnWire
    /\ RunsInOrder
    /\ MsgidCovers
    /\ WireReal
    /\ CacheReal
    /\ AnswersAreReal

\* The invariant holds initially.
LEMMA InitExchangeInv == Init => ExchangeInv
<1> SUFFICES ASSUME Init PROVE ExchangeInv
  OBVIOUS
<1>1. TypeOK
  BY InitTypeOK
<1>2. \A e \in End : /\ ran[e] = <<>> /\ got[e] = {}
                     /\ sa[e].wire = {} /\ sa[e].responses = {}
                     /\ sa[e].requests = {}
  BY DEF Init, NewSa
<1>3. RunsInOrder /\ MsgidCovers
  BY <1>2 DEF RunsInOrder, MsgidCovers
<1>4. WireReal /\ CacheReal /\ AnswersAreReal
  BY <1>2 DEF WireReal, CacheReal, AnswersAreReal
<1>5. AllRequestsAgree /\ RunsOnWire
  BY <1>2 DEF AllRequestsAgree, RequestsAgree, RunsOnWire
<1> QED
  BY <1>1, <1>3, <1>4, <1>5 DEF ExchangeInv

\* Appending to the history keeps its earlier entries.
LEMMA AppendRun ==
    ASSUME NEW q \in Seq(Answers), NEW x \in Answers
    PROVE  /\ Append(q, x) \in Seq(Answers)
           /\ DOMAIN q = 1 .. Len(q) /\ Len(q) \in Nat
           /\ DOMAIN Append(q, x) = 1 .. Len(q) + 1
           /\ \A i \in 1 .. Len(q) : Append(q, x)[i] = q[i] /\ q[i] \in Answers
           /\ Append(q, x)[Len(q) + 1] = x
OBVIOUS

\* Steps that run nothing and accept nothing.
LEMMA LocalStepInv ==
    ASSUME ExchangeInv, NEW e \in End, LocalStep(e)
    PROVE  ExchangeInv'
<1>1. PICK t : Quiet(sa[e], t) /\ sa' = [sa EXCEPT ![e] = t]
  BY DEF LocalStep
<1>2. UNCHANGED <<conf, lownonce, ran, got>>
  BY DEF LocalStep
<1>3. sa'[e] = t /\ \A d \in End : d # e => sa'[d] = sa[d]
  BY <1>1 DEF ExchangeInv, TypeOK
<1>4. TypeOK'
  BY <1>1, <1>2 DEF ExchangeInv, TypeOK, Quiet
<1>5. RunsInOrder' /\ AnswersAreReal'
  BY <1>2 DEF ExchangeInv, RunsInOrder, AnswersAreReal
<1>6. MsgidCovers'
  BY <1>1, <1>2, <1>3 DEF ExchangeInv, MsgidCovers, Quiet
<1>7. WireReal'
  BY <1>1, <1>2, <1>3 DEF ExchangeInv, WireReal, HasRun, Quiet
<1>8. CacheReal'
  BY <1>1, <1>2, <1>3 DEF ExchangeInv, CacheReal, HasRun, Quiet
<1>9. AllRequestsAgree'
  BY <1>1, <1>3 DEF ExchangeInv, AllRequestsAgree, Quiet
<1>10. RunsOnWire'
  BY <1>1, <1>2, <1>3, OtherType DEF ExchangeInv, RunsOnWire, Quiet
<1> QED
  BY <1>4, <1>5, <1>6, <1>7, <1>8, <1>9, <1>10 DEF ExchangeInv

\* Receiving a response preserves the invariant.
LEMMA RecvResponseInv ==
    ASSUME ExchangeInv, NEW e \in End, NEW m \in sa[Other(e)].wire,
           RecvResponse(e, m)
    PROVE  ExchangeInv'
<1> DEFINE s == sa[e]
           t == [s EXCEPT !.requests = @ \ Lookup(s.requests, m)]
           G == {[id |-> r.id, kind |-> r.kind, res |-> m.res] :
                    r \in Awaited(s)}
<1>1. m \in Packet /\ s \in SaType
  BY WireType DEF ExchangeInv
<1>2. Quiet(s, t)
  <2>1. s.requests \ Lookup(s.requests, m) \in SUBSET s.requests
    OBVIOUS
  <2>2. ASSUME NEW x \in SUBSET s.requests
        PROVE  Quiet(s, [s EXCEPT !.requests = x])
    BY <1>1, RequestsKept DEF Quiet, SaType
  <2> QED
    BY <2>1, <2>2
<1>3. t \in SaType
  BY <1>2 DEF Quiet
<1> HIDE DEF t
<1>4. CASE ~ValidIkeSa(s, m)
  <2>1. Quiet(s, Reap(t))
    BY <1>2, <1>3, ReapQuiet, QuietTrans
  <2>2. LocalStep(e)
    BY <1>4, <2>1 DEF RecvResponse, LocalStep, t
  <2> QED
    BY <2>2, LocalStepInv
<1>5. CASE ValidIkeSa(s, m)
  <2>1. PICK u \in InitRecv(t, e, m) : sa' = [sa EXCEPT ![e] = Reap(u)]
    BY <1>5 DEF RecvResponse, t
  <2>2. Quiet(t, u)
    BY <1>1, <1>3, InitRecvQuiet
  <2>3. Quiet(s, Reap(u))
    BY <1>2, <2>2, ReapQuiet, QuietTrans DEF Quiet
  <2>4. UNCHANGED <<conf, lownonce, ran>> /\ got' = [got EXCEPT ![e] = @ \cup G]
    BY <1>5 DEF RecvResponse
  <2>5. HasRun(Other(e), m.id, m.kind, m.res)
    BY OtherType DEF RecvResponse, ExchangeInv, WireReal
  <2>6. \A g \in G : g \in Answer /\ HasRun(Other(e), g.id, g.kind, g.res)
    <3> SUFFICES ASSUME NEW r \in Awaited(s)
                 PROVE  LET g == [id |-> r.id, kind |-> r.kind, res |-> m.res]
                        IN  g \in Answer /\ HasRun(Other(e), g.id, g.kind, g.res)
      OBVIOUS
    <3>1. PICK i \in DOMAIN ran[Other(e)] :
                 /\ ran[Other(e)][i].id = m.id /\ ran[Other(e)][i].kind = m.kind
                 /\ m.res \in ran[Other(e)][i].res
      BY <2>5 DEF HasRun
    <3>2. ran[Other(e)] \in Seq(Answers)
      BY OtherType DEF ExchangeInv, TypeOK
    <3>3. ran[Other(e)][i] \in Answers
      BY <3>2
    <3>4. m.res \in Results
      BY <3>1, <3>3 DEF Answers
    <3>5. r \in s.requests /\ r.id + 1 = s.reqid /\ r \in Request
      BY <1>1 DEF Awaited, SaType
    <3>6. m.id + 1 = s.reqid
      BY DEF RecvResponse, ExpectedResponse
    <3>7. r.id = m.id
      BY <1>1, <3>5, <3>6 DEF Packet, Request, SaType
    <3>8. PICK p \in sa[Other(Other(e))].wire :
                 ~p.resp /\ p.id = m.id /\ p.kind = m.kind
      BY <3>1, OtherType DEF ExchangeInv, RunsOnWire
    <3>9. p \in s.wire
      BY <3>8 DEF Other, End
    <3>10. r.kind = m.kind
      BY <3>5, <3>7, <3>8, <3>9 DEF ExchangeInv, AllRequestsAgree, RequestsAgree
    <3> QED
      BY <2>5, <3>4, <3>5, <3>7, <3>10 DEF Answer, Request
  <2> HIDE DEF G
  <2>7. TypeOK'
    BY <2>1, <2>3, <2>4, <2>6 DEF ExchangeInv, TypeOK, Quiet
  <2>8. RunsInOrder'
    BY <2>4 DEF ExchangeInv, RunsInOrder
  <2>9. AnswersAreReal'
    <3> SUFFICES ASSUME NEW d \in End, NEW h \in got'[d]
                 PROVE  HasRun(Other(d), h.id, h.kind, h.res)
      BY <2>4 DEF AnswersAreReal, HasRun
    <3>1. CASE h \in got[d]
      BY <3>1 DEF ExchangeInv, AnswersAreReal, HasRun
    <3>2. CASE d = e /\ h \in G
      BY <2>6, <3>2
    <3> QED
      BY <2>4, <3>1, <3>2 DEF ExchangeInv, TypeOK
  <2>10. sa'[e] = Reap(u) /\ \A d \in End : d # e => sa'[d] = sa[d]
    BY <2>1 DEF ExchangeInv, TypeOK
  <2>11. MsgidCovers'
    BY <2>3, <2>4, <2>10 DEF ExchangeInv, MsgidCovers, Quiet
  <2>12. WireReal'
    BY <2>3, <2>4, <2>10 DEF ExchangeInv, WireReal, HasRun, Quiet
  <2>13. CacheReal'
    BY <2>3, <2>4, <2>10 DEF ExchangeInv, CacheReal, HasRun, Quiet
  <2>14. AllRequestsAgree'
    BY <2>3, <2>10 DEF ExchangeInv, AllRequestsAgree, Quiet
  <2>15. RunsOnWire'
    BY <2>3, <2>4, <2>10, OtherType DEF ExchangeInv, RunsOnWire, Quiet
  <2> QED
    BY <2>7, <2>8, <2>9, <2>11, <2>12, <2>13, <2>14, <2>15 DEF ExchangeInv
<1> QED
  BY <1>4, <1>5

\* Sending a cached response again preserves the invariant.
LEMMA RetransmitResponseInv ==
    ASSUME ExchangeInv, NEW e \in End, NEW m \in sa[Other(e)].wire,
           RetransmitResponse(e, m)
    PROVE  ExchangeInv'
<1> DEFINE s == sa[e]
<1>1. m \in Packet /\ s \in SaType
  BY WireType DEF ExchangeInv
<1>2. PICK r \in Lookup(s.responses, m) :
          sa' = [sa EXCEPT ![e] =
            IF s.addr
            THEN [s EXCEPT !.wire = @ \cup
                    {ResponsePacket(e, r.id, r.kind, x) : x \in r.res}]
            ELSE Free(s)]
  BY DEF RetransmitResponse
<1>3. UNCHANGED <<conf, lownonce, ran, got>>
  BY DEF RetransmitResponse
<1>4. CASE ~s.addr
  <2>1. LocalStep(e)
    BY <1>1, <1>2, <1>3, <1>4, FreeQuiet DEF LocalStep
  <2> QED
    BY <2>1, LocalStepInv
<1>5. CASE s.addr
  <2> DEFINE P == {ResponsePacket(e, r.id, r.kind, x) : x \in r.res}
             t == [s EXCEPT !.wire = @ \cup P]
  <2>1. r \in Answers /\ r \in s.responses
    BY <1>1, <1>2 DEF Lookup, SaType
  <2>2. \A p \in P : p \in Packet /\ p.resp /\ HasRun(e, p.id, p.kind, p.res)
    <3> SUFFICES ASSUME NEW x \in r.res
                 PROVE  LET p == ResponsePacket(e, r.id, r.kind, x)
                        IN  p \in Packet /\ p.resp /\ HasRun(e, p.id, p.kind, p.res)
      OBVIOUS
    <3>1. HasRun(e, r.id, r.kind, x)
      BY <2>1 DEF ExchangeInv, CacheReal
    <3> QED
      BY <2>1, <3>1 DEF ResponsePacket, Packet, Answers
  <2> HIDE DEF P
  <2>3. s.wire \cup P \in SUBSET Packet
    BY <1>1, <2>2 DEF SaType
  <2>4. \A w \in SUBSET Packet :
            LET v == [s EXCEPT !.wire = w]
            IN  /\ v \in SaType /\ v.wire = w
                /\ v.msgid = s.msgid /\ v.msgidSet = s.msgidSet
                /\ v.responses = s.responses
                /\ v.reqid = s.reqid /\ v.requests = s.requests
    BY <1>1 DEF SaType
  <2>5. /\ t \in SaType /\ t.wire = s.wire \cup P
        /\ t.msgid = s.msgid /\ t.msgidSet = s.msgidSet
        /\ t.responses = s.responses
        /\ t.reqid = s.reqid /\ t.requests = s.requests
    BY <2>3, <2>4
  <2> HIDE DEF t
  <2>6. sa' = [sa EXCEPT ![e] = t]
    BY <1>2, <1>5 DEF t, P
  <2>7. sa'[e] = t /\ \A d \in End : d # e => sa'[d] = sa[d]
    BY <2>6 DEF ExchangeInv, TypeOK
  <2>8. TypeOK'
    BY <1>3, <2>5, <2>6 DEF ExchangeInv, TypeOK
  <2>9. RunsInOrder' /\ AnswersAreReal'
    BY <1>3 DEF ExchangeInv, RunsInOrder, AnswersAreReal
  <2>10. MsgidCovers' /\ CacheReal'
    BY <1>3, <2>5, <2>7 DEF ExchangeInv, MsgidCovers, CacheReal, HasRun
  <2>11. WireReal'
    BY <1>3, <2>2, <2>5, <2>7 DEF ExchangeInv, WireReal, HasRun
  <2>12. AllRequestsAgree'
    BY <2>2, <2>5, <2>7, RequestsKept DEF ExchangeInv, AllRequestsAgree
  <2>13. RunsOnWire'
    BY <1>3, <2>5, <2>7, OtherType DEF ExchangeInv, RunsOnWire
  <2> QED
    BY <2>8, <2>9, <2>10, <2>11, <2>12, <2>13 DEF ExchangeInv
<1> QED
  BY <1>4, <1>5

\* Carrying out a request preserves the invariant.
LEMMA RecvRequestInv ==
    ASSUME ExchangeInv, NEW e \in End, NEW m \in sa[Other(e)].wire,
           RecvRequest(e, m)
    PROVE  ExchangeInv'
<1> DEFINE s == sa[e]
<1>1. m \in Packet /\ s \in SaType
  BY WireType DEF ExchangeInv
<1>2. UNCHANGED <<conf, lownonce, got>> /\ Lookup(s.responses, m) = {}
  BY DEF RecvRequest, NewRequest
<1>3. CASE ~ValidIkeSa(s, m)
  <2>1. LocalStep(e)
    BY <1>1, <1>2, <1>3, ReapQuiet DEF RecvRequest, LocalStep
  <2> QED
    BY <2>1, LocalStepInv
<1>4. CASE ValidIkeSa(s, m)
  <2>1. PICK o \in RespRecv(s, e, m) :
          IF o.res = {}
          THEN sa' = [sa EXCEPT ![e] = Reap(o.sa)] /\ UNCHANGED ran
          ELSE /\ sa' = [sa EXCEPT ![e] = Reap(Accept(o.sa, m))]
               /\ ran' = [ran EXCEPT ![e] = Append(@,
                    [id |-> m.id, kind |-> m.kind, res |-> o.res])]
    BY <1>4 DEF RecvRequest
  <2>2. o.res \in SUBSET Results /\ Replies(s, o.sa, m, o.res)
    BY <1>1, <1>2, RespRecvReplies
  <2>3. CASE o.res = {}
    <3>1. Quiet(s, o.sa)
      BY <2>2, <2>3 DEF Replies, Quiet
    <3>2. Quiet(s, Reap(o.sa))
      <4>1. o.sa \in SaType
        BY <3>1 DEF Quiet
      <4>2. Quiet(o.sa, Reap(o.sa))
        BY ONLY <4>1, ReapQuiet
      <4> QED BY ONLY <3>1, <4>2, QuietTrans
    <3>3. sa' = [sa EXCEPT ![e] = Reap(o.sa)] /\ UNCHANGED <<conf, lownonce, ran, got>>
      BY <1>2, <2>1, <2>3
    <3>4. LocalStep(e)
      BY ONLY <3>2, <3>3 DEF LocalStep, s
    <3> QED
      BY <3>4, LocalStepInv
  <2>4. CASE o.res # {}
    <3> DEFINE u == o.sa
               v == Accept(u, m)
               w == Reap(v)
               x == [id |-> m.id, kind |-> m.kind, res |-> o.res]
               q == ran[e]
    <3>1. m.id \in Nat /\ m.kind \in AllKinds /\ u \in SaType
      BY <1>1, <2>2 DEF Packet, Replies
    <3>2. x \in Answers /\ x.id = m.id /\ x.kind = m.kind /\ x.res = o.res
      BY <2>2, <3>1 DEF Answers
    <3>3. /\ sa' = [sa EXCEPT ![e] = w]
          /\ ran' = [ran EXCEPT ![e] = Append(q, x)]
      BY <2>1, <2>4
    <3>4. \A y \in SUBSET u.responses :
            LET z == [u EXCEPT !.msgid = m.id, !.msgidSet = TRUE,
                               !.responses = y]
            IN  /\ z \in SaType /\ z.msgid = m.id /\ z.msgidSet = TRUE
                /\ z.responses = y /\ z.wire = u.wire
                /\ z.reqid = u.reqid /\ z.requests = u.requests
      BY <3>1 DEF SaType
    <3>5. /\ v \in SaType /\ v.msgid = m.id /\ v.msgidSet = TRUE
          /\ v.responses \subseteq u.responses /\ v.wire = u.wire
          /\ v.reqid = u.reqid /\ v.requests = u.requests
      BY <3>4 DEF Accept
    <3> HIDE DEF v
    <3>6. Quiet(v, w)
      BY <3>5, ReapQuiet
    <3> HIDE DEF w, x
    <3>7. /\ w \in SaType /\ w.msgid = m.id /\ w.msgidSet = TRUE
          /\ s.wire \subseteq w.wire
          /\ \A c \in w.responses :
                \/ c \in s.responses
                \/ c.id = m.id /\ c.kind = m.kind /\ c.res \subseteq o.res
          /\ \A p \in w.wire :
                \/ p \in s.wire
                \/ ~p.resp
                \/ p.id = m.id /\ p.kind = m.kind /\ p.res \in o.res
      BY <2>2, <3>5, <3>6 DEF Replies, Quiet
    <3>8. q \in Seq(Answers)
      BY DEF ExchangeInv, TypeOK
    <3>9. /\ sa'[e] = w /\ ran'[e] = Append(q, x)
          /\ \A d \in End : d # e => sa'[d] = sa[d] /\ ran'[d] = ran[d]
      BY <3>3 DEF ExchangeInv, TypeOK
    <3>10. /\ Append(q, x) \in Seq(Answers)
           /\ DOMAIN q = 1 .. Len(q) /\ Len(q) \in Nat
           /\ DOMAIN Append(q, x) = 1 .. Len(q) + 1
           /\ \A i \in 1 .. Len(q) : Append(q, x)[i] = q[i] /\ q[i] \in Answers
           /\ Append(q, x)[Len(q) + 1] = x
      BY <3>2, <3>8, AppendRun
    <3>11. TypeOK'
      BY <1>2, <3>3, <3>7, <3>10 DEF ExchangeInv, TypeOK
    \* ids already carried out are smaller
    <3>12. \A i \in 1 .. Len(q) : q[i].id < m.id /\ q[i].id \in Nat
      <4> SUFFICES ASSUME NEW i \in 1 .. Len(q)
                   PROVE  q[i].id < m.id /\ q[i].id \in Nat
        OBVIOUS
      <4>1. q # <<>> /\ i \in DOMAIN q /\ q[i].id \in Nat
        BY <3>10 DEF Answers
      <4>2. s.msgidSet /\ q[i].id <= s.msgid
        BY <4>1 DEF ExchangeInv, MsgidCovers
      <4>3. m.id >= s.msgid /\ ~(s.msgidSet /\ m.id = s.msgid) /\ s.msgid \in Nat
        BY <1>1 DEF RecvRequest, NewRequest, SaType
      <4> QED
        BY <3>1, <4>1, <4>2, <4>3
    <3>13. RunsInOrder'
      <4> SUFFICES ASSUME NEW d \in End, NEW i \in DOMAIN ran'[d],
                          NEW j \in DOMAIN ran'[d], i < j
                   PROVE  ran'[d][i].id < ran'[d][j].id
        BY DEF RunsInOrder
      <4>1. CASE d # e
        BY <3>9, <4>1 DEF ExchangeInv, RunsInOrder
      <4>2. CASE d = e /\ j \in 1 .. Len(q)
        <5>1. i \in 1 .. Len(q)
          BY <3>9, <3>10, <4>2
        <5> QED
          BY <3>9, <3>10, <4>2, <5>1 DEF ExchangeInv, RunsInOrder
      <4>3. CASE d = e /\ j = Len(q) + 1
        <5>1. i \in 1 .. Len(q)
          BY <3>9, <3>10, <4>3
        <5> QED
          BY <3>2, <3>9, <3>10, <3>12, <4>3, <5>1
      <4> QED
        BY <3>9, <3>10, <4>1, <4>2, <4>3
    <3>14. MsgidCovers'
      <4>1. \A i \in DOMAIN Append(q, x) : Append(q, x)[i].id <= m.id
        BY <3>1, <3>2, <3>10, <3>12
      <4> QED
        BY <3>7, <3>9, <4>1 DEF ExchangeInv, MsgidCovers
    <3>15. \A d \in End : \A id, kind, res :
              HasRun(d, id, kind, res) => HasRun(d, id, kind, res)'
      BY <3>9, <3>10 DEF HasRun
    <3>16. \A res \in o.res : HasRun(e, m.id, m.kind, res)'
      BY <3>2, <3>9, <3>10 DEF HasRun
    <3>17. WireReal'
      BY <3>7, <3>9, <3>15, <3>16 DEF ExchangeInv, WireReal
    <3>18. CacheReal'
      BY <3>7, <3>9, <3>15, <3>16 DEF ExchangeInv, CacheReal
    <3>19. AnswersAreReal'
      <4>1. \A d \in End : \A g \in got[d] :
                HasRun(Other(d), g.id, g.kind, g.res)
        BY DEF ExchangeInv, AnswersAreReal, HasRun
      <4>2. \A d \in End : \A g \in got'[d] :
                HasRun(Other(d), g.id, g.kind, g.res)'
        BY <1>2, <3>15, <4>1, OtherType
      <4> QED
        BY <4>2 DEF AnswersAreReal, HasRun
    <3>20. AllRequestsAgree'
      <4>1. RequestsAgree(u)
        BY <2>2 DEF Replies, ExchangeInv, AllRequestsAgree
      <4>2. RequestsAgree(v)
        BY <3>5, <4>1, RequestsKept
      <4>3. RequestsAgree(w)
        BY <3>6, <4>2 DEF Quiet
      <4> QED
        BY <3>9, <4>3 DEF ExchangeInv, AllRequestsAgree
    <3>21. RunsOnWire'
      <4> SUFFICES ASSUME NEW d \in End, NEW i \in DOMAIN ran'[d]
                   PROVE  \E p \in sa'[Other(d)].wire :
                            /\ ~p.resp /\ p.id = ran'[d][i].id
                            /\ p.kind = ran'[d][i].kind
        BY DEF RunsOnWire
      <4>1. \A c \in End : sa[c].wire \subseteq sa'[c].wire
        BY <3>7, <3>9
      <4>2. CASE d = e /\ i = Len(q) + 1
        <5>1. ~m.resp /\ m \in sa'[Other(e)].wire
          BY <4>1, OtherType DEF RecvRequest
        <5> QED
          BY <3>2, <3>9, <3>10, <4>2, <5>1
      <4>3. CASE ~(d = e /\ i = Len(q) + 1)
        <5>1. i \in DOMAIN ran[d] /\ ran'[d][i] = ran[d][i]
          BY <3>9, <3>10, <4>3
        <5>2. PICK p \in sa[Other(d)].wire :
                ~p.resp /\ p.id = ran[d][i].id /\ p.kind = ran[d][i].kind
          BY <5>1 DEF ExchangeInv, RunsOnWire
        <5>3. p \in sa'[Other(d)].wire
          BY <4>1, OtherType
        <5> QED
          BY <5>1, <5>2, <5>3
      <4> QED
        BY <4>2, <4>3
    <3> QED
      BY <3>11, <3>13, <3>14, <3>17, <3>18, <3>19, <3>20, <3>21 DEF ExchangeInv
  <2> QED
    BY <2>3, <2>4
<1> QED
  BY <1>3, <1>4

\* Every step preserves the invariant.
LEMMA NextExchangeInv == ExchangeInv /\ [Next]_vars => ExchangeInv'
<1> SUFFICES ASSUME ExchangeInv, [Next]_vars PROVE ExchangeInv'
  OBVIOUS
<1>1. CASE UNCHANGED vars
  <2>0. UNCHANGED <<sa, conf, lownonce, ran, got>>
    BY <1>1 DEF vars
  <2>1. TypeOK' /\ RunsInOrder' /\ MsgidCovers'
    BY <2>0 DEF ExchangeInv, TypeOK, RunsInOrder, MsgidCovers
  <2>2. AllRequestsAgree' /\ RunsOnWire'
    BY <2>0 DEF ExchangeInv, AllRequestsAgree, RequestsAgree, RunsOnWire
  <2>3. WireReal'
    BY <2>0 DEF ExchangeInv, WireReal, HasRun
  <2>4. CacheReal'
    BY <2>0 DEF ExchangeInv, CacheReal, HasRun
  <2>5. AnswersAreReal'
    BY <2>0 DEF ExchangeInv, AnswersAreReal, HasRun
  <2> QED
    BY <2>1, <2>2, <2>3, <2>4, <2>5 DEF ExchangeInv
<1>2. ASSUME NEW e \in End, Receive(e) PROVE ExchangeInv'
  BY <1>2, RecvResponseInv, RetransmitResponseInv, RecvRequestInv DEF Receive
<1>3. ASSUME NEW e \in End, LocalAction(e) PROVE ExchangeInv'
  BY <1>3, LocalActions, LocalStepInv DEF ExchangeInv
<1> QED
  BY <1>1, <1>2, <1>3 DEF Next, LocalAction

\* The combined invariant that makes the properties below inductive.
THEOREM ExchangeInvariant == Spec => []ExchangeInv
BY InitExchangeInv, NextExchangeInv, PTL DEF Spec

\* Type correctness for every value of the constants.
THEOREM TypeCorrect == Spec => []TypeOK
BY ExchangeInvariant, PTL DEF ExchangeInv

\* For every number of requests, retransmissions and message ids, and with a
\* network that loses, duplicates and reorders: requests are carried out at
\* most once and in order.
THEOREM AtMostOnce == Spec => []RunsInOrder
BY ExchangeInvariant, PTL DEF ExchangeInv

\* Every accepted answer was given by the peer to that very request.
THEOREM AnswersReal == Spec => []AnswersAreReal
BY ExchangeInvariant, PTL DEF ExchangeInv

=============================================================================
