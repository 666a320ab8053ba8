---------------------------- MODULE IkeExchange ----------------------------
(***************************************************************************)
(* One IKE SA between two iked daemons, from the moment both ends are      *)
(* ESTABLISHED until both have freed it: message ids, the request and      *)
(* response queues, retransmission, the REQ_CHILDSA / REQ_INF gates, IKE   *)
(* SA rekeying as far as the old SA is concerned, and every way to close   *)
(* the SA (DELETE, control messages, reload, replacement, timeouts, loss   *)
(* of the local address).                                                  *)
(*                                                                         *)
(* Source: iked/ikev2_msg.c (queues, sending), iked/ikev2.c (ikev2_recv,   *)
(* ikev2_init_recv, ikev2_resp_recv and the handlers they call),           *)
(* iked/policy.c (sa_free), iked/config.c (config_doreset).                *)
(*                                                                         *)
(* The struct iked_sa of an end is a record and each C function that       *)
(* changes it is an operator from records to records.  The network is the  *)
(* field "wire": everything the end has ever put on the wire.  Nothing is  *)
(* removed from it, so a datagram may be lost, delayed, duplicated and     *)
(* reordered, and a retransmission does not change it.                     *)
(***************************************************************************)
EXTENDS Naturals, Sequences, FiniteSets

CONSTANTS
    MaxReq,     \* bound: requests each end may start by itself
    Tries,      \* IKED_RETRANSMIT_TRIES
    FirstId,    \* sa_reqid of each end when the SA becomes ESTABLISHED
    Setups      \* what conf may be

End == {"I", "R"}               \* sh_initiator = 1, sh_initiator = 0
Other(e) == IF e = "I" THEN "R" ELSE "I"

(***************************************************************************)
(* What a request asks for: a liveness probe, the DELETE of a child SA or  *)
(* of the IKE SA (INFORMATIONAL); a new child SA, the rekeying of a child  *)
(* SA or of the IKE SA (CREATE_CHILD_SA).                                  *)
(***************************************************************************)
InfKinds   == {"alive", "delchild", "delike"}
ChildKinds == {"child", "crekey", "rekey"}
AllKinds   == InfKinds \cup ChildKinds

\* The exchange a request belongs to; it is also the name of the
\* IKED_REQ_* flag that the exchange holds in sa_stateflags.
Exchange(kind) == IF kind \in InfKinds THEN "INF" ELSE "CHILDSA"

\* Answers to a request: accepted, NO_PROPOSAL_CHOSEN, CHILD_SA_NOT_FOUND,
\* INVALID_KE_PAYLOAD.
Results == {"ok", "noprop", "notfound", "badke"}

\* A request may draw two answers: the responder reports NO_PROPOSAL_CHOSEN
\* after an affirmative answer if the kernel refuses the child SA.
AllEvents ==
    {"resetid", "resetsa", "reload", "replace", "addrlost", "kernelfail"}

ASSUME ExchangeAssumption ==
    /\ MaxReq \in [End -> Nat]
    /\ Tries \in Nat
    /\ FirstId \in [End -> Nat]
    /\ Setups \subseteq
         [kinds : SUBSET AllKinds, events : SUBSET AllEvents, sticky : BOOLEAN]

VARIABLES
    sa,         \* sa[e]: the struct iked_sa of end e
    conf,       \* the requests the ends start by themselves, the administrative
                \* and environment events that may happen, and sc_stickyaddress
    lownonce,   \* the end whose IKE rekey exchange has the lowest nonce
    ran,        \* history: the requests end e has carried out, in order
    got         \* history: the answers end e has accepted

vars == <<sa, conf, lownonce, ran, got>>

Request  == [id : Nat, kind : AllKinds, tries : Nat]
Answer   == [id : Nat, kind : AllKinds, res : Results]
Answers  == [id : Nat, kind : AllKinds, res : SUBSET Results]
Packet   == [from : End, resp : BOOLEAN, id : Nat, kind : AllKinds,
             res : Results \cup {"none"}]
States   == {"ESTABLISHED", "CLOSING", "CLOSED", "FREED"}

SaType ==
    [state : States, reqid : Nat, msgid : Nat, msgidSet : BOOLEAN,
     flags : SUBSET {"INF", "CHILDSA"},
     requests : SUBSET Request, responses : SUBSET Answers,
     nexti : BOOLEAN, nextr : BOOLEAN,      \* sa_nexti, sa_nextr present
     moved : End \cup {"none"},             \* whose rekey took the child SAs
     timer : {"alive", "timeout", "off"},   \* sa_timer and its callback
     rekeytmr : {"rekey", "timeout", "off"},\* sa_rekey and its callback
     addr : BOOLEAN,                        \* local address still configured
     wire : SUBSET Packet]

-----------------------------------------------------------------------------
(* ikev2_msg.c: sending and the two queues *)

\* ikev2_msg_send: a vanished local address (EADDRNOTAVAIL) closes the SA,
\* the message is queued all the same.
Transmit(s, p) ==
    IF s.addr THEN [s EXCEPT !.wire = @ \cup {p}]
              ELSE [s EXCEPT !.state = "CLOSING", !.timer = "timeout"]

\* ikev2_msg_lookup
Lookup(queue, m) ==
    {r \in queue : r.id = m.id /\ Exchange(r.kind) = Exchange(m.kind)}

RequestPacket(e, id, kind) ==
    [from |-> e, resp |-> FALSE, id |-> id, kind |-> kind, res |-> "none"]

ResponsePacket(e, id, kind, res) ==
    [from |-> e, resp |-> TRUE, id |-> id, kind |-> kind, res |-> res]

\* Mutant: ikev2_msg_id returns the id after the increment.
SendRequestPreIncrement(s, e, kind) ==
    LET t == Transmit(s, RequestPacket(e, s.reqid + 1, kind))
    IN  [t EXCEPT !.reqid = @ + 1,
                  !.requests = @ \cup {[id |-> s.reqid + 1, kind |-> kind,
                                        tries |-> 0]},
                  !.flags = @ \cup {Exchange(kind)}]

\* ikev2_msg_send_encrypt with response = 0: take the next message id, send,
\* queue for retransmission; the caller sets the flag of the exchange.
SendRequest(s, e, kind) ==
    LET t == Transmit(s, RequestPacket(e, s.reqid, kind))
    IN  [t EXCEPT !.reqid = @ + 1,
                  !.requests = @ \cup {[id |-> s.reqid, kind |-> kind,
                                        tries |-> 0]},
                  !.flags = @ \cup {Exchange(kind)}]

\* ikev2_msg_send_encrypt with response = 1: the id is that of the request
\* being worked on (sa_msgid_current); the response is cached, beside the
\* responses to the same request that are there already (ikev2_msg_enqueue).
SendResponse(s, e, m, res) ==
    LET t     == Transmit(s, ResponsePacket(e, m.id, m.kind, res))
        there == Lookup(s.responses, m)
    IN  [t EXCEPT !.responses = (@ \ there) \cup
            {[id |-> m.id, kind |-> m.kind,
              res |-> {res} \cup UNION {r.res : r \in there}]}]

\* sa_free / config_free_sa: queues, timers and pending new SAs go with it.
Free(s) ==
    [s EXCEPT !.state = "FREED", !.requests = {}, !.responses = {},
              !.flags = {}, !.nexti = FALSE, !.nextr = FALSE,
              !.timer = "off", !.rekeytmr = "off"]

\* The end of ikev2_recv: an SA left CLOSED is freed at once.
Reap(s) == IF s.state = "CLOSED" THEN Free(s) ELSE s

\* Bound on the requests an end starts.
Cap(e) == FirstId[e] + MaxReq[e]
CanIssue(s, e) == s.reqid < Cap(e)

-----------------------------------------------------------------------------
(* ikev2.c: closing and replacing the SA *)

\* ikev2_disable_timer
DisableTimer(s) == [s EXCEPT !.timer = "off", !.rekeytmr = "off"]

\* ikev2_ikesa_delete: the initiator of the deletion sends a DELETE, unless
\* an INFORMATIONAL exchange is running, and regards the SA as CLOSED; the
\* other side waits for the DELETE in state CLOSING.
IkesaDelete(s, e, initiator) ==
    LET t == IF initiator /\ "INF" \notin s.flags
             THEN SendRequest(s, e, "delike") ELSE s
    IN  [t EXCEPT !.state = IF initiator THEN "CLOSED" ELSE "CLOSING",
                  !.timer = "timeout"]

\* ikev2_ikesa_enable, as far as the old SA is concerned: child SAs move to
\* the SA created by the rekey exchange of end "owner", the old SA is
\* deleted by the end that initiated that exchange.
IkesaEnable(s, e, owner) ==
    LET t == IF s.state = "ESTABLISHED" THEN DisableTimer(s) ELSE s
    IN  IkesaDelete([t EXCEPT !.moved = owner], e, owner = e)

\* ikev2_ikesa_recv_delete
RecvDelete(s, e) ==
    LET t == IF s.nexti /\ s.nextr
             THEN [IkesaEnable(s, e, Other(e)) EXCEPT !.nextr = FALSE] ELSE s
        u == [t EXCEPT !.nexti = FALSE]
    IN  IF conf.sticky THEN [u EXCEPT !.state = "CLOSING", !.timer = "timeout"]
                       ELSE [u EXCEPT !.state = "CLOSED"]

\* ikev2_msg_valid_ike_sa: a CLOSED SA accepts nothing, a CLOSING SA only
\* INFORMATIONAL requests of the original initiator.
ValidIkeSa(s, m) ==
    \/ s.state = "ESTABLISHED"
    \/ /\ s.state = "CLOSING"
       /\ ~m.resp /\ m.from = "I" /\ Exchange(m.kind) = "INF"

-----------------------------------------------------------------------------
(* Handlers: each yields the set of its possible outcomes, the local       *)
(* negotiation of proposals, groups and child SPIs being left open.        *)

\* ikev2_resp_create_child_sa for the IKE SA itself.  res = {} stands for
\* msg_valid = 0: no answer, and the request is not counted as seen.
RespRekey(s, e, m) ==
    IF "CHILDSA" \in s.flags /\ ~s.nexti
    THEN {[sa |-> s, res |-> {}]}
    ELSE LET ok == SendResponse(s, e, m, "ok")
         IN  {[sa |-> IF s.nexti THEN [ok EXCEPT !.nextr = TRUE]
                                 ELSE IkesaEnable(ok, e, Other(e)),
               res |-> {"ok"}],
              [sa |-> SendResponse(s, e, m, "noprop"), res |-> {"noprop"}]}

\* ikev2_resp_create_child_sa for a child SA, and ikev2_send_error; only a
\* rekey names an existing child SA.  ikev2_childsa_enable comes after the
\* answer: if the kernel refuses, an error follows under the same id.
RespChild(s, e, m) ==
    {[sa |-> SendResponse(s, e, m, res), res |-> {res}] :
        res \in Results \ (IF m.kind = "child" THEN {"notfound"} ELSE {})}
    \cup
    {[sa |-> SendResponse(SendResponse(s, e, m, "ok"), e, m, "noprop"),
      res |-> {"ok", "noprop"}] : x \in conf.events \cap {"kernelfail"}}

\* ikev2_resp_recv after the message was found valid.
RespRecv(s, e, m) ==
    CASE m.kind \in {"alive", "delchild"} ->
            {[sa |-> SendResponse(s, e, m, "ok"), res |-> {"ok"}]}
      [] m.kind = "delike" ->
            {[sa |-> SendResponse(RecvDelete(s, e), e, m, "ok"),
              res |-> {"ok"}]}
      [] m.kind = "rekey" -> RespRekey(s, e, m)
      [] OTHER -> RespChild(s, e, m)

\* Mutant: the SA of the own exchange is always preferred.
InitRekeyOwn(s, e) ==
    {IkesaEnable([s EXCEPT !.flags = @ \ {"CHILDSA"}, !.nexti = FALSE,
                           !.nextr = FALSE], e, e)}

\* ikev2_init_create_child_sa, IKE SA part: sa_nexti is complete.  If the
\* peer's exchange is complete too (sa_nextr), the SA of the exchange with
\* the lowest nonce is given up.
InitRekeyOk(s, e) ==
    IF ~s.nexti THEN {s}
    ELSE LET t == [s EXCEPT !.flags = @ \ {"CHILDSA"},
                            !.nexti = FALSE, !.nextr = FALSE]
             owner == IF s.nextr /\ lownonce = e THEN Other(e) ELSE e
         IN  {IkesaEnable(t, e, owner)}

\* ikev2_handle_notifies on INVALID_KE_PAYLOAD for CREATE_CHILD_SA: close the
\* SA if the policy denies the group, else start again.  Without sa_rekeyspi
\* the answer is taken for one to an IKE SA rekey, which is scheduled at
\* once; a child rekey is repeated unless the child SA is gone by now.
InitBadKe(s, e, kind) ==
    LET t == [s EXCEPT !.flags = @ \ {"CHILDSA"}]
    IN  {[t EXCEPT !.state = "CLOSED"]} \cup
        (IF kind = "crekey"
         THEN {t} \cup (IF CanIssue(t, e)
                        THEN {SendRequest(t, e, "crekey")} ELSE {})
         ELSE {[t EXCEPT !.rekeytmr = "rekey"]})

\* Mutant: REQ_CHILDSA stays set after the rekey of a child SA.
InitChildKeepFlag(s, e, kind) ==
    {s} \cup (IF kind = "crekey" /\ CanIssue(s, e)
              THEN {SendRequest(s, e, "delchild")} ELSE {})

\* ikev2_init_create_child_sa, child SA part: after a rekey the old (or, if
\* the peer's simultaneous rekey won, the new) child SA is deleted, unless
\* it has gone meanwhile.
InitChildOk(s, e, kind) ==
    LET t == [s EXCEPT !.flags = @ \ {"CHILDSA"}]
    IN  {t} \cup (IF kind = "crekey" /\ CanIssue(t, e)
                  THEN {SendRequest(t, e, "delchild")} ELSE {})

\* Mutant: the response to an INFORMATIONAL request is taken for granted.
InitNothing(s) == s

\* ikev2_init_recv, INFORMATIONAL.
InitInformational(s) == [s EXCEPT !.flags = @ \ {"INF"}]

\* ikev2_init_recv after the message was found valid.
InitRecv(s, e, m) ==
    CASE Exchange(m.kind) = "INF" -> {InitInformational(s)}
      [] m.res = "noprop" -> {[s EXCEPT !.state = "CLOSED"]}
      [] m.res = "notfound" -> {[s EXCEPT !.flags = @ \ {"CHILDSA"}]}
      [] m.res = "badke" -> InitBadKe(s, e, m.kind)
      [] m.kind = "rekey" /\ m.res = "ok" -> InitRekeyOk(s, e)
      [] OTHER -> InitChildOk(s, e, m.kind)

-----------------------------------------------------------------------------
(* ikev2_recv *)

\* Mutant: any response of an exchange that is running.
AnyResponse(s, m) ==
    /\ Exchange(m.kind) = "INF" \/ Lookup(s.requests, m) # {}
    /\ Exchange(m.kind) \in s.flags

\* A response is looked at if it is to the last request, and while its
\* exchange is marked as running.
ExpectedResponse(s, m) ==
    /\ m.id + 1 = s.reqid
    /\ Exchange(m.kind) = "INF" \/ Lookup(s.requests, m) # {}
    /\ Exchange(m.kind) \in s.flags

\* The request an end is waiting for when it accepts an answer (history).
Awaited(s) == {r \in s.requests : r.id + 1 = s.reqid}

\* A response: the request leaves the queue before the response is looked at
\* any further.
RecvResponse(e, m) ==
    LET s == sa[e]
        t == [s EXCEPT !.requests = @ \ Lookup(s.requests, m)]
    IN  /\ m.resp
        /\ s.state # "FREED"
        /\ ExpectedResponse(s, m)
        /\ IF ValidIkeSa(s, m)
           THEN /\ \E u \in InitRecv(t, e, m) : sa' = [sa EXCEPT ![e] = Reap(u)]
                /\ got' = [got EXCEPT ![e] = @ \cup
                        {[id |-> r.id, kind |-> r.kind, res |-> m.res] :
                            r \in Awaited(s)}]
           ELSE /\ sa' = [sa EXCEPT ![e] = Reap(t)]
                /\ UNCHANGED got
        /\ UNCHANGED <<conf, lownonce, ran>>

\* A request that was answered before: the cached response is sent again;
\* if that fails the SA is freed.
RetransmitResponse(e, m) ==
    LET s == sa[e]
    IN  /\ ~m.resp
        /\ s.state # "FREED"
        /\ m.id >= s.msgid
        /\ \E r \in Lookup(s.responses, m) :
              sa' = [sa EXCEPT ![e] =
                IF s.addr
                THEN [s EXCEPT !.wire = @ \cup
                        {ResponsePacket(e, r.id, r.kind, x) : x \in r.res}]
                ELSE Free(s)]
        /\ UNCHANGED <<conf, lownonce, ran, got>>

\* ikev2_msg_prevail and the message id update after a valid request.
Accept(s, m) ==
    [s EXCEPT !.msgid = m.id, !.msgidSet = TRUE,
              !.responses = {r \in @ : r.id >= m.id}]

\* Mutant: without the check on sa_msgid_set.
NotAnswered(s, m) == m.id >= s.msgid /\ Lookup(s.responses, m) = {}

\* A request not seen before: its id is not below sa_msgid, there is no
\* response to send again, and it is not the one last worked on.
NewRequest(s, m) ==
    /\ m.id >= s.msgid
    /\ Lookup(s.responses, m) = {}
    /\ ~(s.msgidSet /\ m.id = s.msgid)

RecvRequest(e, m) ==
    LET s == sa[e]
    IN  /\ ~m.resp
        /\ s.state # "FREED"
        /\ NewRequest(s, m)
        /\ IF ValidIkeSa(s, m)
           THEN \E o \in RespRecv(s, e, m) :
                  IF o.res = {}
                  THEN sa' = [sa EXCEPT ![e] = Reap(o.sa)] /\ UNCHANGED ran
                  ELSE /\ sa' = [sa EXCEPT ![e] = Reap(Accept(o.sa, m))]
                       /\ ran' = [ran EXCEPT ![e] = Append(@,
                            [id |-> m.id, kind |-> m.kind, res |-> o.res])]
           ELSE sa' = [sa EXCEPT ![e] = Reap(s)] /\ UNCHANGED ran
        /\ UNCHANGED <<conf, lownonce, got>>

-----------------------------------------------------------------------------
(* Timers *)

Update(e, s) == sa' = [sa EXCEPT ![e] = s] /\ UNCHANGED <<conf, lownonce, ran, got>>

\* Mutant: mrt_tries is not counted.
RetransmitForever(e) ==
    \E r \in sa[e].requests :
        sa[e].addr /\ Update(e, Transmit(sa[e], RequestPacket(e, r.id, r.kind)))

\* ikev2_msg_retransmit_timeout
RetransmitTimeout(e) ==
    LET s == sa[e]
    IN  \E r \in s.requests :
          IF r.tries < Tries /\ s.addr
          THEN Update(e, [Transmit(s, RequestPacket(e, r.id, r.kind)) EXCEPT
                    !.requests = (@ \ {r}) \cup {[r EXCEPT !.tries = @ + 1]}])
          ELSE Update(e, Free(s))

\* ikev2_msg_response_timeout
ResponseTimeout(e) ==
    \E r \in sa[e].responses :
        Update(e, [sa[e] EXCEPT !.responses = @ \ {r}])

\* ikev2_ike_sa_alive: probe the peer unless an exchange is running.  The
\* second disjunct exempts one probe from the bound so that the death of
\* the peer can always be noticed.
Alive(e) ==
    LET s == sa[e]
    IN  /\ "alive" \in conf.kinds
        /\ s.timer = "alive"
        /\ s.flags = {}
        /\ CanIssue(s, e) \/ (sa[Other(e)].state = "FREED" /\ s.reqid = Cap(e))
        /\ Update(e, SendRequest(s, e, "alive"))

\* ikev2_ike_sa_timeout
SaTimeout(e) == sa[e].timer = "timeout" /\ Update(e, Free(sa[e]))

\* Mutant: no deadline for the rekeying.
RekeyNoDeadline(e) ==
    /\ "rekey" \in conf.kinds
    /\ sa[e].rekeytmr = "rekey" /\ ~sa[e].nexti /\ sa[e].flags = {}
    /\ CanIssue(sa[e], e)
    /\ Update(e, [SendRequest(sa[e], e, "rekey") EXCEPT !.nexti = TRUE])

\* ikev2_ike_sa_rekey: rescheduled while an exchange is running.
Rekey(e) ==
    LET s == sa[e]
    IN  /\ "rekey" \in conf.kinds
        /\ s.rekeytmr = "rekey"
        /\ IF s.nexti THEN Update(e, [s EXCEPT !.rekeytmr = "off"])
           ELSE /\ s.flags = {}
                /\ CanIssue(s, e)
                /\ Update(e, [SendRequest(s, e, "rekey") EXCEPT
                                !.nexti = TRUE, !.rekeytmr = "timeout"])

\* ikev2_ike_sa_rekey_timeout
RekeyTimeout(e) == sa[e].rekeytmr = "timeout" /\ Update(e, Free(sa[e]))

-----------------------------------------------------------------------------
(* The kernel, the operator, other SAs and the environment *)

\* ikev2_child_sa_acquire, ikev2_child_sa_rekey and ikev2_child_sa_drop on a
\* child SA or flow of this IKE SA; none of them looks at sa_state closely
\* enough to exclude an SA that is closing.
ChildRequest(e, kind) ==
    LET s == sa[e]
    IN  /\ kind \in conf.kinds
        /\ s.state # "FREED" /\ s.moved = "none"
        /\ s.flags = {}
        /\ CanIssue(s, e)
        /\ Update(e, SendRequest(s, e, kind))

\* ikev2_ctl_reset_id
CtlResetId(e) ==
    LET s == sa[e]
    IN  /\ "resetid" \in conf.events
        /\ s.state \in {"ESTABLISHED", "CLOSING"}
        /\ Update(e, IkesaDelete(IF s.state = "ESTABLISHED"
                                 THEN DisableTimer(s) ELSE s, e, TRUE))

\* config_doreset(RESET_SA): ikev2_ike_sa_delete sends a DELETE if no other
\* exchange is active; the loop then meets the same SA again and frees it.
CtlResetSa(e) ==
    LET s == sa[e]
    IN  /\ "resetsa" \in conf.events
        /\ s.state # "FREED"
        /\ Update(e, Free(IF s.state = "ESTABLISHED" /\ s.flags = {}
                          THEN IkesaDelete(DisableTimer(s), e, TRUE) ELSE s))

\* ikev2_dispatch_parent, IMSG_CTL_ACTIVE: SAs that are not ESTABLISHED are
\* freed, which includes the pending new SAs of a rekey; then the SA finds a
\* policy in the new configuration or is deleted.
Reload(e) ==
    LET s == sa[e]
        t == [s EXCEPT !.nexti = FALSE, !.nextr = FALSE]
    IN  /\ "reload" \in conf.events
        /\ s.state # "FREED"
        /\ IF s.state # "ESTABLISHED" THEN Update(e, Free(s))
           ELSE Update(e, t) \/ Update(e, IkesaDelete(t, e, e = "I"))

\* ikev2_record_dstid for a newer SA with the same dstid.
Replaced(e) ==
    LET s == sa[e]
    IN  /\ "replace" \in conf.events
        /\ s.state = "ESTABLISHED"
        /\ Update(e, IkesaDelete(DisableTimer(s), e, FALSE))

\* The local address of an end disappears for good.
AddrLost(e) ==
    /\ "addrlost" \in conf.events
    /\ sa[e].addr
    /\ Update(e, [sa[e] EXCEPT !.addr = FALSE])

-----------------------------------------------------------------------------
\* The SA as ikev2_init_done, ikev2_resp_ike_auth or ikev2_ikesa_enable
\* leave it.
NewSa(e) ==
    [state |-> "ESTABLISHED", reqid |-> FirstId[e],
     msgid |-> IF FirstId[Other(e)] = 0 THEN 0 ELSE FirstId[Other(e)] - 1,
     msgidSet |-> FirstId[Other(e)] # 0,
     flags |-> {}, requests |-> {}, responses |-> {},
     nexti |-> FALSE, nextr |-> FALSE, moved |-> "none",
     timer |-> "alive", rekeytmr |-> "rekey", addr |-> TRUE, wire |-> {}]

Init ==
    /\ sa = [e \in End |-> NewSa(e)]
    /\ conf \in Setups
    /\ lownonce \in End
    /\ ran = [e \in End |-> <<>>]
    /\ got = [e \in End |-> {}]

Receive(e) ==
    \E m \in sa[Other(e)].wire :
        RecvResponse(e, m) \/ RetransmitResponse(e, m) \/ RecvRequest(e, m)

Next ==
    \E e \in End :
        \/ Receive(e)
        \/ RetransmitTimeout(e)
        \/ ResponseTimeout(e)
        \/ Alive(e)
        \/ SaTimeout(e)
        \/ Rekey(e)
        \/ RekeyTimeout(e)
        \/ \E kind \in {"child", "crekey", "delchild"} : ChildRequest(e, kind)
        \/ CtlResetId(e)
        \/ CtlResetSa(e)
        \/ Reload(e)
        \/ Replaced(e)
        \/ AddrLost(e)

Spec == Init /\ [][Next]_vars

\* Timers fire: libevent runs every pending timer.  Nothing is assumed of
\* the network, the operator or the kernel.
Fairness ==
    \A e \in End : /\ WF_vars(RetransmitTimeout(e))
                   /\ WF_vars(SaTimeout(e))
                   /\ WF_vars(Alive(e))
                   /\ WF_vars(RekeyTimeout(e))

FairSpec == Spec /\ Fairness

-----------------------------------------------------------------------------
(* Properties *)

\* Types of the SA records, the queues and the histories.
TypeOK ==
    /\ sa \in [End -> SaType]
    /\ conf \in Setups
    /\ lownonce \in End
    /\ ran \in [End -> Seq(Answers)]
    /\ got \in [End -> SUBSET Answer]

\* Retransmitted, duplicated, delayed and reordered requests are carried out
\* at most once and in the order of their ids, also after the response cache
\* has expired (ikev2_recv, sa_msgid and sa_msgid_set).
RunsInOrder ==
    \A e \in End : \A i, j \in DOMAIN ran[e] :
        i < j => ran[e][i].id < ran[e][j].id

\* What an end accepts as the answer to the request it is waiting for is an
\* answer the peer gave when it carried out that very request, never a late
\* answer to an earlier one (ikev2_recv, sa_reqid and the REQ_ flags).
AnswersAreReal ==
    \A e \in End : \A g \in got[e] :
        \E i \in DOMAIN ran[Other(e)] :
            LET r == ran[Other(e)][i]
            IN  r.id = g.id /\ r.kind = g.kind /\ g.res \in r.res

\* On an ESTABLISHED SA a REQ_ flag never outlives its exchange: either no
\* exchange is running, or exactly the latest request is queued for
\* retransmission, or the rekey timer is about to free the SA.  Otherwise
\* the SA could neither rekey nor probe its peer again.
Idle(s) == s.flags = {} /\ s.requests = {}
OneRunning(s) ==
    \E r \in s.requests : /\ s.requests = {r}
                           /\ s.flags = {Exchange(r.kind)}
                           /\ r.id + 1 = s.reqid
ExchangeAccounted ==
    \A e \in End : sa[e].state = "ESTABLISHED" =>
        \/ Idle(sa[e])
        \/ OneRunning(sa[e])
        \/ sa[e].requests = {} /\ sa[e].rekeytmr = "timeout"

\* As long as an end regards the SA as ESTABLISHED, the peer has carried out
\* all its requests but possibly the last one.
NoRequestSkipped ==
    \A e \in End : sa[e].state = "ESTABLISHED" =>
        \A id \in FirstId[e] .. sa[e].reqid - 1 :
            \/ \E i \in DOMAIN ran[Other(e)] : ran[Other(e)][i].id = id
            \/ \E r \in sa[e].requests : r.id = id

\* Every SA that still exists has sa_timer armed: probing while ESTABLISHED,
\* else counting down to sa_free.
SaTimerArmed ==
    \A e \in End :
        /\ sa[e].state = "ESTABLISHED" => sa[e].timer = "alive"
        /\ sa[e].state \in {"CLOSING", "CLOSED"} => sa[e].timer = "timeout"

\* A rekey started on an ESTABLISHED SA has its deadline running ("We need
\* to make sure the rekeying finishes in time") and its request queued.
RekeyHasDeadline ==
    \A e \in End : sa[e].state = "ESTABLISHED" /\ sa[e].nexti =>
        /\ sa[e].rekeytmr = "timeout"
        /\ \E r \in sa[e].requests : r.kind = "rekey" /\ r.id + 1 = sa[e].reqid

\* No SA is ever without the timer that ends its present phase, through every
\* order of rekeying, closing, replacement and reload.
TimersArmed == SaTimerArmed /\ RekeyHasDeadline

\* Both ends move their child SAs to the new SA of the same rekey exchange,
\* also when both have rekeyed at the same time.
RekeyAgreement ==
    \A e \in End : sa[e].moved # "none" /\ sa[Other(e)].moved # "none" =>
        sa[e].moved = sa[Other(e)].moved

\* Every request leaves the queue: answered, or given up with the SA.
Outstanding(e, id) == \E r \in sa[e].requests : r.id = id
RequestSettles ==
    \A e \in End : \A k \in 0 .. MaxReq[e] :
        Outstanding(e, FirstId[e] + k) ~> ~Outstanding(e, FirstId[e] + k)

\* When one end has freed the SA, for whatever reason and even without a
\* DELETE that arrives, the other end frees it too.
CloseDetected ==
    \A e \in End : sa[e].state = "FREED" ~> sa[Other(e)].state = "FREED"

=============================================================================
