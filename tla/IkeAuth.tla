------------------------------ MODULE IkeAuth ------------------------------
(***************************************************************************)
(* The handshake that creates an IKE SA: IKE_SA_INIT and IKE_AUTH between  *)
(* an initiator and a responder, with pre-shared keys, certificates or EAP *)
(* (MSCHAPv2, responder side; iked has no EAP client, so that client is    *)
(* modelled from the messages iked expects of it).                         *)
(*                                                                         *)
(* What makes it hard is the "ca" process.  Certificates and signatures    *)
(* come back in imsgs of their own, so one IKE_AUTH message is handled in  *)
(* up to four steps, and between them datagrams, timers and the operator   *)
(* act on the same struct iked_sa.  The only memory between the steps is   *)
(* sa_state and the REQ_* bits of sa_stateflags, sa_stateinit and          *)
(* sa_statevalid.                                                          *)
(*                                                                         *)
(* Source: iked/ikev2.c, iked/policy.c (sa_new, sa_state, sa_stateok),     *)
(* iked/ikev2_msg.c (AUTH payloads), iked/ca.c, iked/eap.c.                *)
(*                                                                         *)
(* As in IkeExchange a SA is a record, the C functions are operators on    *)
(* it, and "wire" is what the SA has ever sent: datagrams may be lost,     *)
(* delayed, duplicated and reordered.                                      *)
(***************************************************************************)
EXTENDS Naturals, Sequences

CONSTANTS
    MaxAttempts,    \* bound: IKE SAs the initiator starts
    MaxResp,        \* bound: IKE SAs the responder creates
    Confs,          \* the configurations of the two peers to consider
    Sticky          \* sc_stickyaddress

End == {"I", "R"}
Other(e) == IF e = "I" THEN "R" ELSE "I"

\* pol_auth: pre-shared key, certificate or raw key, EAP for the initiator.
Methods == {"psk", "cert", "eap"}

\* What an end has to show: everything in order; a key or password the peer
\* does not accept; a certificate the peer's ca refuses; nothing its own ca
\* could send as a certificate or public key.
Creds == {"good", "badkey", "badcert", "nocert"}

(***************************************************************************)
(* The configuration of the two peers.                                     *)
(*   method  the policy of each end for the other's identity               *)
(*   addr    the policy the responder selects by address alone             *)
(*   prop    the one it selects by address and IKE proposals               *)
(*   known   whether the end has a policy for the identity of the other    *)
(*   cred    see Creds                                                     *)
(*   dh      the responder accepts the initiator's first DH group, asks    *)
(*           for another one the initiator has, or has none in common      *)
(*   esp     the responder accepts the proposals for the child SA          *)
(*   child   whether child SAs can be set up: yes; no address, key or SPI  *)
(*           for them; the kernel refuses to load them                     *)
(*   mode    "calm": datagrams arrive and the ca answers before any timer  *)
(*           fires; "timed": timers may fire at any moment; "managed": the *)
(*           operator intervenes as well                                   *)
(***************************************************************************)
ConfType ==
    [method : [End -> Methods], addr : Methods, prop : Methods,
     known : [End -> BOOLEAN], cred : [End -> Creds], dh : {"same", "retry", "none"}, esp : BOOLEAN,
     child : [End -> {"ok", "refused", "unloaded"}], mode : {"calm", "timed", "managed"}]

Attempts == 1 .. MaxAttempts        \* SPIs of the initiator
Rspis    == 1 .. MaxResp            \* SPIs of the responder
Sas == ({"I"} \X Attempts) \cup ({"R"} \X Rspis)

ASSUME AuthAssumption ==
    /\ MaxAttempts \in Nat
    /\ MaxResp \in Nat
    /\ Confs \subseteq ConfType
    /\ Sticky \in BOOLEAN

VARIABLES
    conf,       \* the configuration, chosen once
    sa,         \* sc_sas of both ends
    peerdh      \* pol_peerdh of the initiator's policy is set

vars == <<conf, sa, peerdh>>

\* IKEV2_STATE_*.  COOKIE is not used; UNUSED and FREED are the SAs that do
\* not exist yet and no more.
INIT         == 0
SA_INIT      == 2
EAP          == 3
EAP_SUCCESS  == 4
AUTH_REQUEST == 5
AUTH_SUCCESS == 6
VALID        == 7
EAP_VALID    == 8
ESTABLISHED  == 9
CLOSING      == 10
CLOSED       == 11
UNUSED       == 12
FREED        == 13

Flags == {"CERT", "CERTVALID", "CERTREQ", "AUTH", "AUTHVALID", "SA",
          "EAPVALID", "INF"}

Exchanges == {"SA_INIT", "IKE_AUTH", "INF"}

\* Bodies: DH group of choice or as asked for; the IKE_AUTH requests of an
\* iked and of an EAP client; AUTHENTICATION_FAILED; DELETE; the answers.
Bodies == {"first", "peerdh",
           "auth", "start", "identity", "response", "success", "final",
           "failed", "delete",
           "ok", "badke", "noprop", "idreq", "challenge", "welcome",
           "eapsuccess"}

\* auth: the method of the AUTH payload, signature or shared key MIC.
Packet == [from : End, a : Attempts, r : {0} \cup Rspis, resp : BOOLEAN,
           id : Nat, ex : Exchanges, body : Bodies,
           auth : {"none", "sig", "mic"}]

SaType ==
    [e : End, a : {0} \cup Attempts, r : {0} \cup Rspis,    \* sa_hdr
     state : 0 .. 13,
     flags : SUBSET Flags, init : SUBSET Flags, valid : SUBSET Flags,
     method : Methods \cup {"none"},        \* sa_policy, its pol_auth
     local : BOOLEAN,                       \* sa_localauth present
     auth : {"none", "sig", "mic"},         \* sa_peerauth
     eapid : BOOLEAN, msk : BOOLEAN,        \* sa_eapid, sa_eapmsk present
     known : BOOLEAN,                       \* the peer's id is recorded
     reqid : Nat, msgid : Nat, msgidSet : BOOLEAN, cur : Nat,
     requests : SUBSET (Nat \X Exchanges),  \* sa_requests
     timer : {"exchange", "timeout", "off"},
     ca : Seq({"certreq", "auth", "cert"}), \* imsgs the ca has to answer
     wire : SUBSET Packet]

Live(s) == s.state <= CLOSED

-----------------------------------------------------------------------------
(* policy.c: the state machine of an SA *)

\* sa_stateok
StateOk(s, state) ==
    /\ s.state >= state
    /\ state = SA_INIT => s.init \subseteq s.flags
    /\ state \in {VALID, EAP_VALID} => s.valid \subseteq s.flags

\* sa_state: the flags required by the new state decide, and from INIT
\* nothing does; the old state does not matter.
SetState(s, state) ==
    LET t == [s EXCEPT !.state = state]
    IN  IF s.state = INIT \/ StateOk(t, state) THEN t ELSE s

\* sa_stateflags
SetFlags(s, flags) == [s EXCEPT !.flags = @ \cup flags]

\* sa_new: what must be known before the SA is VALID, given the policy; the
\* initiator needs its own part of it before it sends the AUTH request.
Require(s) ==
    LET all == {"AUTH", "AUTHVALID", "SA"} \cup
               (CASE s.method = "eap" -> {"CERT", "EAPVALID"}
                  [] s.method = "cert" -> {"CERT", "CERTVALID"}
                  [] OTHER -> {})
        diff == {"CERTVALID", "AUTHVALID", "SA", "EAPVALID"}
    IN  IF s.e = "I"
        THEN [s EXCEPT !.init = all \ diff, !.valid = all \cap diff]
        ELSE [s EXCEPT !.valid = all]

NoSa(e) ==
    [e |-> e, a |-> 0, r |-> 0, state |-> UNUSED,
     flags |-> {}, init |-> {}, valid |-> {}, method |-> "none",
     local |-> FALSE, auth |-> "none", eapid |-> FALSE, msk |-> FALSE,
     known |-> FALSE, reqid |-> 0, msgid |-> 0, msgidSet |-> FALSE,
     cur |-> 0, requests |-> {}, timer |-> "off", ca |-> <<>>, wire |-> {}]

\* Mutant: no exchange timeout.
NewSaNoTimer(e, a, r, method) ==
    Require([NoSa(e) EXCEPT !.a = a, !.r = r, !.state = INIT,
                            !.method = method])

\* config_new_sa and sa_new, with the exchange timeout the callers set.
NewSa(e, a, r, method) ==
    Require([NoSa(e) EXCEPT !.a = a, !.r = r, !.state = INIT,
                            !.method = method, !.timer = "exchange"])

\* sa_free: pending answers of the ca find no SA (ikev2_getimsgdata).
Free(s) == [NoSa(s.e) EXCEPT !.a = s.a, !.r = s.r, !.state = FREED,
                             !.wire = s.wire]

\* The end of ikev2_recv: an SA left CLOSED is freed at once.
Reap(s) == IF s.state = CLOSED THEN Free(s) ELSE s

-----------------------------------------------------------------------------
(* Sending *)

\* AUTH payload an end can produce: a MIC with a shared key (also the one
\* from EAP), else a signature.
AuthOf(s) == IF s.method = "psk" \/ s.msk THEN "mic" ELSE "sig"

\* Mutant: sa_msgid in place of sa_msgid_current.
RespondMsgid(s, ex, body, auth) ==
    [s EXCEPT !.wire = @ \cup
        {[from |-> s.e, a |-> s.a, r |-> s.r, resp |-> TRUE, id |-> s.msgid,
          ex |-> ex, body |-> body, auth |-> auth]}]

\* ikev2_msg_send_encrypt and ikev2_send_ike_e, as responses.
Respond(s, ex, body, auth) ==
    [s EXCEPT !.wire = @ \cup
        {[from |-> s.e, a |-> s.a, r |-> s.r, resp |-> TRUE, id |-> s.cur,
          ex |-> ex, body |-> body, auth |-> auth]}]

\* As requests: a fresh id, and queued for retransmission.
Request(s, ex, body, auth) ==
    [s EXCEPT !.wire = @ \cup
        {[from |-> s.e, a |-> s.a, r |-> s.r, resp |-> FALSE, id |-> s.reqid,
          ex |-> ex, body |-> body, auth |-> auth]},
              !.reqid = @ + 1,
              !.requests = @ \cup {<<s.reqid, ex>>}]

\* ikev2_send_auth_failed
SendAuthFailed(s) ==
    LET t == IF s.e = "I"
             THEN SetFlags(Request(s, "INF", "failed", "none"), {"INF"})
             ELSE Respond(s, "IKE_AUTH", "failed", "none")
    IN  [SetState(t, CLOSING) EXCEPT !.timer = "timeout"]

-----------------------------------------------------------------------------
(* Work for the ca *)

\* ikev2_handle_certreq and ca_setreq: look for a local certificate.
HandleCertreq(s) ==
    IF s.method = "psk" THEN s
    ELSE LET t == IF s.e = "I" THEN [s EXCEPT !.init = @ \cup {"CERT"}]
                               ELSE [s EXCEPT !.valid = @ \cup {"CERT"}]
         IN  SetFlags([t EXCEPT !.ca = Append(@, "certreq")], {"CERTREQ"})

\* ca_setauth: a MIC is made at once, a signature by the ca.
SetAuth(s) ==
    IF s.method = "psk" THEN [SetFlags(s, {"AUTH"}) EXCEPT !.local = TRUE]
                        ELSE [s EXCEPT !.ca = Append(@, "auth")]

-----------------------------------------------------------------------------
(* IKE_AUTH *)

\* ikev2_auth_verify, ikev2_ike_auth_compatible and ikev2_msg_authverify.
\* With EAP the AUTH payload of the responder is made anew, from the MSK.
Verified(s) == s.auth = AuthOf(s) /\ conf.cred[Other(s.e)] # "badkey"
AuthVerify(s) ==
    IF Verified(s)
    THEN LET t == SetFlags(SetState(s, AUTH_SUCCESS), {"AUTHVALID"})
         IN  IF s.msk THEN SetState(SetFlags(t, {"EAPVALID"}), EAP_SUCCESS)
                      ELSE t
    ELSE SendAuthFailed(s)

\* ikev2_init_ike_auth: the request goes out when the local part is there.
InitIkeAuth(s) ==
    IF StateOk(s, SA_INIT) /\ s.local
    THEN Request(s, "IKE_AUTH", "auth", AuthOf(s)) ELSE s

Establish(s) == [SetState(s, ESTABLISHED) EXCEPT !.timer = "off"]

\* Mutant: the flags are not consulted.
InitDoneUnchecked(s) == IF conf.child["I"] = "ok" THEN Establish(s) ELSE s

\* ikev2_init_done: without child SAs the SA stays VALID.
InitDone(s) ==
    IF StateOk(s, VALID) /\ conf.child["I"] = "ok" THEN Establish(s) ELSE s

\* ikev2_resp_ike_auth, and eap_identity_request in state EAP.  The kernel
\* is asked after the response is sent.
RespIkeAuth(s) ==
    IF s.state = EAP
    THEN IF s.local THEN Respond(s, "IKE_AUTH", "idreq", "sig") ELSE s
    ELSE IF ~StateOk(s, VALID) \/ conf.child["R"] = "refused" THEN s
    ELSE LET t == Respond(s, "IKE_AUTH",
                          IF s.state = EAP_VALID THEN "final" ELSE "auth",
                          AuthOf(s))
         IN  IF conf.child["R"] = "ok" THEN Establish(t) ELSE t

\* ikev2_ike_auth, first part: the transition the flags allow.
Advance(s) ==
    CASE s.state = EAP_SUCCESS  -> SetState(s, EAP_VALID)
      [] s.state = AUTH_SUCCESS -> SetState(s, VALID)
      [] OTHER -> s

\* ikev2_ike_auth
IkeAuth(s) ==
    LET t == Advance(s)
    IN  CASE t.e = "R" -> RespIkeAuth(t)
          [] t.e = "I" /\ StateOk(t, AUTH_SUCCESS) -> InitDone(t)
          [] t.e = "I" /\ ~StateOk(t, AUTH_REQUEST) -> InitIkeAuth(t)
          [] OTHER -> t

\* ikev2_ike_auth returns an error at the responder.
IkeAuthFails(s) ==
    LET t == Advance(s)
    IN  /\ t.e = "R" /\ t.state # EAP
        /\ StateOk(t, VALID) /\ conf.child["R"] # "ok"

\* ikev2_ike_auth_recv, first part: AUTH tells whether EAP is wanted.
AuthState(s, p) ==
    LET t == IF p.auth # "none" /\ ~StateOk(s, EAP)
             THEN SetState(s, AUTH_REQUEST) ELSE s
    IN  IF t.e = "R" /\ ~StateOk(t, AUTH_REQUEST) /\ t.method = "eap"
        THEN SetState(t, EAP) ELSE t

\* ikev2_ike_auth_recv, last part: a MIC is verified at once; for a
\* signature the ca has to look at the certificate first.
AuthPeer(s, p) ==
    LET t == [s EXCEPT !.auth = IF p.auth # "none" THEN p.auth ELSE @]
    IN  CASE t.method = "psk" \/ (t.method = "eap" /\ t.msk) -> AuthVerify(t)
          [] t.method # "psk" /\ ~t.msk /\ t.auth # "none" ->
                [t EXCEPT !.flags = @ \ {"CERTVALID"},
                          !.ca = Append(@, "cert")]
          [] OTHER -> t

\* ikev2_ike_auth_recv at the initiator.  The policy must still match; if
\* not, the SA is taken from the policy's list.
AuthRecvI(s, p) ==
    LET t == [AuthState(s, p) EXCEPT !.known = TRUE]
    IN  IF ~conf.known["I"]
        THEN [SendAuthFailed(t) EXCEPT !.method = "none"]
        ELSE IkeAuth(AuthPeer(SetFlags(t, {"SA"}), p))

\* ikev2_ike_auth_recv at the responder, where an error closes the SA.  The
\* message that carries the peer's id selects the final policy, asks the ca
\* for the local certificate and signature and negotiates the child SA.
AuthRecvR(s, p) ==
    LET t == AuthState(s, p)
        first == p.body \in {"auth", "start"}
        pol == IF ~first THEN t
               ELSE HandleCertreq(
                   IF conf.method["R"] = t.method THEN t
                   ELSE Require([t EXCEPT !.method = conf.method["R"]]))
        u == IF first THEN SetAuth([pol EXCEPT !.known = TRUE]) ELSE pol
        v == AuthPeer(IF first THEN SetFlags(u, {"SA"}) ELSE u, p)
    IN  IF first /\ ~conf.known["R"] THEN SetState(SendAuthFailed(t), CLOSED)
        ELSE IF p.auth = "none" /\ pol.method # "eap"
        THEN SetState(SendAuthFailed(pol), CLOSED)
        ELSE IF first /\ ~conf.esp
        THEN SetState(Respond(u, "IKE_AUTH", "noprop", "none"), CLOSED)
        ELSE IF IkeAuthFails(v) THEN SetState(IkeAuth(v), CLOSED)
        ELSE IkeAuth(v)

\* ikev2_pld_eap, eap_parse, ikev2_resp_ike_eap and
\* ikev2_resp_ike_eap_mschap: an error closes the SA.
RespEap(s, p) ==
    CASE ~StateOk(s, EAP) \/ s.method # "eap" -> SetState(s, CLOSED)
      [] StateOk(s, EAP) /\ s.method = "eap" /\ p.body = "identity" ->
            IF s.eapid THEN s
            ELSE Respond([s EXCEPT !.eapid = TRUE],
                         "IKE_AUTH", "challenge", "none")
      [] StateOk(s, EAP) /\ s.method = "eap" /\ p.body = "response" ->
            IF conf.cred["I"] # "good" THEN SetState(s, CLOSED)
            ELSE SetState(Respond([s EXCEPT !.msk = TRUE],
                                  "IKE_AUTH", "welcome", "none"),
                          AUTH_SUCCESS)
      [] StateOk(s, EAP) /\ s.method = "eap" /\ p.body = "success" ->
            IF StateOk(s, AUTH_SUCCESS)
            THEN Respond(s, "IKE_AUTH", "eapsuccess", "none")
            ELSE SetState(s, CLOSED)

-----------------------------------------------------------------------------
(* Datagrams *)

\* ikev2_msg_valid_ike_sa: a CLOSED SA accepts nothing, a CLOSING SA only
\* INFORMATIONAL requests of the original initiator.
ValidIkeSa(s, p) ==
    \/ s.state < CLOSING
    \/ s.state = CLOSING /\ ~p.resp /\ p.from = "I" /\ p.ex = "INF"

\* ikev2_ikesa_recv_delete
RecvDelete(s) ==
    IF Sticky THEN [SetState(s, CLOSING) EXCEPT !.timer = "timeout"]
              ELSE SetState(s, CLOSED)

\* Mutant: AUTHENTICATION_FAILED is answered like any other notification.
RespInformationalIgnores(s, p) ==
    IF ~StateOk(s, AUTH_REQUEST) THEN s
    ELSE IF p.body = "delete" THEN Respond(RecvDelete(s), "INF", "ok", "none")
    ELSE Respond(s, "INF", "ok", "none")

\* ikev2_resp_informational
RespInformational(s, p) ==
    IF ~StateOk(s, AUTH_REQUEST) THEN s
    ELSE IF p.body = "delete" THEN Respond(RecvDelete(s), "INF", "ok", "none")
    ELSE SetState(Respond(s, "INF", "ok", "none"), CLOSED)

\* ikev2_resp_recv and ikev2_pld_notify refuse the request altogether:
\* IKE_AUTH after authentication, AUTHENTICATION_FAILED before it.
Refused(s, p) ==
    \/ ~ValidIkeSa(s, p)
    \/ p.ex = "IKE_AUTH" /\ StateOk(s, VALID)
    \/ p.body = "failed" /\ ~StateOk(s, VALID)

\* ikev2_resp_recv
RespRecv(s, p) ==
    CASE p.ex = "INF" -> RespInformational(s, p)
      [] p.ex = "IKE_AUTH" /\ p.body \in {"auth", "start", "final"} ->
            IF StateOk(s, SA_INIT) THEN AuthRecvR(s, p) ELSE SetState(s, CLOSED)
      [] p.ex = "IKE_AUTH" /\ p.body \in {"identity", "response", "success"} ->
            IF StateOk(s, SA_INIT) THEN RespEap(s, p) ELSE SetState(s, CLOSED)

\* ikev2_recv, sa_lookup: the SA a datagram belongs to.  A zero SPI of the
\* responder, in the message or in the SA, is not compared.
For(x, p) ==
    /\ Live(sa[x]) /\ p.from # x[1] /\ p.a = sa[x].a
    /\ p.r = sa[x].r \/ p.r = 0 \/ sa[x].r = 0

\* ikev2_recv, requests: older ones, those answered and those being worked
\* on are left alone.  sa_msgid_current moves even if the request is refused.
RecvRequest(x, p) ==
    LET s == sa[x]
        t == [s EXCEPT !.cur = p.id]
    IN  /\ For(x, p) /\ ~p.resp /\ p.ex # "SA_INIT"
        /\ s.msgidSet => p.id > s.msgid
        /\ sa' = [sa EXCEPT ![x] =
               IF Refused(t, p) THEN Reap(t)
               ELSE Reap([RespRecv(t, p) EXCEPT !.msgid = p.id,
                                                !.msgidSet = TRUE])]
        /\ UNCHANGED <<conf, peerdh>>

\* ikev2_resp_recv, ikev2_sa_responder, ikev2_sa_responder_dh and
\* ikev2_resp_ike_sa_init: IKE_SA_INIT creates an SA unless one with this
\* SPI of the initiator exists.  A refusal leaves it CLOSED, to be freed by
\* the timer.  The policy may change, what it requires does not follow.
RecvSaInit(x, p) ==
    LET s == NewSa("R", p.a, x[2], conf.addr)
        t == SetState([s EXCEPT !.method = conf.prop], SA_INIT)
        u == IF StateOk(t, SA_INIT) THEN SetFlags(t, {"SA"}) ELSE t
    IN  /\ x[1] = "R" /\ p.from = "I" /\ p.ex = "SA_INIT" /\ ~p.resp
        /\ sa[x].state = UNUSED
        /\ x[2] > 1 => sa[<<"R", x[2] - 1>>].state # UNUSED
        /\ ~\E y \in Sas : For(y, p)
        /\ sa' = [sa EXCEPT ![x] =
               CASE conf.dh = "none" ->
                       SetState(Respond(s, "SA_INIT", "noprop", "none"), CLOSED)
                 [] conf.dh = "retry" /\ p.body = "first" ->
                       SetState(Respond(u, "SA_INIT", "badke", "none"), CLOSED)
                 [] OTHER -> Respond(u, "SA_INIT", "ok", "none")]
        /\ UNCHANGED <<conf, peerdh>>

\* ikev2_init_recv for IKE_SA_INIT: SPIs and requirements are updated, the
\* ca gets its work; ikev2_init_auth.
InitSaInit(s, p) ==
    LET t == HandleCertreq(Require([s EXCEPT !.r = p.r]))
        u == IF StateOk(t, SA_INIT) THEN SetFlags(t, {"SA"}) ELSE t
    IN  IF p.body = "ok" THEN InitIkeAuth(SetAuth(u)) ELSE SetState(s, CLOSED)

\* ikev2_init_recv
InitRecv(s, p) ==
    CASE p.ex = "SA_INIT" -> InitSaInit(s, p)
      [] p.ex = "IKE_AUTH" /\ p.body = "failed" ->
            IF StateOk(s, VALID) THEN s ELSE SetState(s, CLOSED)
      [] p.ex = "IKE_AUTH" /\ p.body = "noprop" -> SetState(s, CLOSED)
      [] p.ex = "IKE_AUTH" /\ p.body \notin {"failed", "noprop"} ->
            AuthRecvI(s, p)
      [] p.ex = "INF" -> [s EXCEPT !.flags = @ \ {"INF"}]

\* ikev2_recv: the response belongs to the last request, which is pending.
Expected(s, p) ==
    /\ p.resp /\ p.id + 1 = s.reqid
    /\ IF p.ex = "INF" THEN "INF" \in s.flags
                       ELSE <<p.id, p.ex>> \in s.requests

\* ikev2_recv, responses.  INVALID_KE_PAYLOAD sets the group for the next
\* attempt (ikev2_handle_notifies).
RecvResponse(x, p) ==
    LET t == [sa[x] EXCEPT !.requests = @ \ {<<p.id, p.ex>>}]
    IN  /\ For(x, p) /\ Expected(sa[x], p)
        /\ ~(x[1] = "I" /\ conf.method["I"] = "eap")
        /\ sa' = [sa EXCEPT ![x] = IF ValidIkeSa(t, p) THEN Reap(InitRecv(t, p))
                                                       ELSE Reap(t)]
        /\ peerdh' = (peerdh \/ (ValidIkeSa(t, p) /\ p.body = "badke"))
        /\ UNCHANGED conf

\* The client in an EAP handshake is not iked: it answers each message of
\* the responder with the one iked expects next.
ClientNext == [idreq |-> "identity", challenge |-> "response",
               welcome |-> "success", eapsuccess |-> "final"]
EapClient(x, p) ==
    LET t == [sa[x] EXCEPT !.requests = @ \ {<<p.id, p.ex>>}, !.r = p.r]
    IN  /\ x[1] = "I" /\ conf.method["I"] = "eap"
        /\ For(x, p) /\ Expected(sa[x], p)
        /\ sa' = [sa EXCEPT ![x] =
               CASE p.ex = "SA_INIT" /\ p.body = "ok" ->
                       Request(t, "IKE_AUTH", "start", "none")
                 [] p.body \in DOMAIN ClientNext ->
                       Request(t, "IKE_AUTH", ClientNext[p.body],
                               IF p.body = "eapsuccess" THEN "mic" ELSE "none")
                 [] p.body = "final" -> Establish(t)
                 [] OTHER -> Free(t)]
        /\ peerdh' = (peerdh \/ p.body = "badke")
        /\ UNCHANGED conf

-----------------------------------------------------------------------------
(* Answers of the ca: ca_getreq, ca_getauth and ca_getcert, and             *)
(* ikev2_dispatch_cert for what they send back.                            *)

\* IMSG_CERT, sent only if the ca has found something.
DispatchCert(s) ==
    IF conf.cred[s.e] = "nocert" \/ "CERT" \in s.flags THEN s
    ELSE IkeAuth(SetFlags(s, {"CERT"}))

\* IMSG_AUTH
DispatchAuth(s) ==
    IF StateOk(s, VALID) THEN s
    ELSE IkeAuth(SetFlags([s EXCEPT !.local = TRUE], {"AUTH"}))

\* IMSG_CERTVALID and IMSG_CERTINVALID: "Ignore invalid or unauthenticated
\* SAs"; the AUTH payload can be verified now that the key is known.
DispatchCertvalid(s) ==
    IF s.state < EAP THEN s
    ELSE IF conf.cred[Other(s.e)] = "badcert" THEN SendAuthFailed(s)
    ELSE IF s.auth # "none" /\ ~Verified(s) THEN AuthVerify(s)
    ELSE IkeAuth(SetFlags(IF s.auth = "none" THEN s ELSE AuthVerify(s),
                          {"CERTVALID"}))

CaReply(x) ==
    LET s == [sa[x] EXCEPT !.ca = Tail(@)]
    IN  /\ sa[x].ca # <<>>
        /\ sa' = [sa EXCEPT ![x] =
               CASE Head(sa[x].ca) = "certreq" -> DispatchCert(s)
                 [] Head(sa[x].ca) = "auth"    -> DispatchAuth(s)
                 [] Head(sa[x].ca) = "cert"    -> DispatchCertvalid(s)]
        /\ UNCHANGED <<conf, peerdh>>

-----------------------------------------------------------------------------
(* Timers and the operator *)

\* Mutant: the group the responder asked for is forgotten.
InitIkeSaFirst(x) ==
    /\ x[1] = "I" /\ sa[x].state = UNUSED
    /\ x[2] > 1 => sa[<<"I", x[2] - 1>>].state # UNUSED
    /\ \A y \in Sas : y[1] = "I" => ~Live(sa[y]) \/ sa[y].method = "none"
    /\ sa' = [sa EXCEPT ![x] =
           SetState(Request(NewSa("I", x[2], 0, conf.method["I"]), "SA_INIT",
                            "first", "none"), SA_INIT)]
    /\ UNCHANGED <<conf, peerdh>>

\* ikev2_init_ike_sa and ikev2_init_ike_sa_peer: a new attempt, with a new
\* SPI, if the policy has no SA.
InitIkeSa(x) ==
    /\ x[1] = "I" /\ sa[x].state = UNUSED
    /\ x[2] > 1 => sa[<<"I", x[2] - 1>>].state # UNUSED
    /\ \A y \in Sas : y[1] = "I" => ~Live(sa[y]) \/ sa[y].method = "none"
    /\ sa' = [sa EXCEPT ![x] =
           SetState(Request(NewSa("I", x[2], 0, conf.method["I"]), "SA_INIT",
                            IF peerdh THEN "peerdh" ELSE "first", "none"),
                    SA_INIT)]
    /\ UNCHANGED <<conf, peerdh>>

\* ikev2_init_ike_sa_timeout, ikev2_ike_sa_timeout
SaTimeout(x) ==
    /\ conf.mode # "calm" /\ Live(sa[x]) /\ sa[x].timer # "off"
    /\ sa' = [sa EXCEPT ![x] = Free(sa[x])]
    /\ UNCHANGED <<conf, peerdh>>

\* ikev2_msg_retransmit_timeout, after the last try
RetransmitLimit(x) ==
    /\ conf.mode # "calm" /\ sa[x].requests # {}
    /\ sa' = [sa EXCEPT ![x] = Free(sa[x])]
    /\ UNCHANGED <<conf, peerdh>>

\* ikev2_ctl_reset_id: "ikectl reset id"; ikev2_ikesa_delete sends a DELETE
\* unless an INFORMATIONAL exchange is running.
CtlResetId(x) ==
    LET s == sa[x]
        t == IF "INF" \in s.flags THEN s
             ELSE SetFlags(Request(s, "INF", "delete", "none"), {"INF"})
    IN  /\ conf.mode = "managed"
        /\ s.state < CLOSED /\ s.known
        /\ sa' = [sa EXCEPT ![x] =
               [SetState(t, CLOSED) EXCEPT !.timer = "timeout"]]
        /\ UNCHANGED <<conf, peerdh>>

\* ikev2_dispatch_parent: after a reload of the configuration only the
\* ESTABLISHED SAs remain.
Reload(e) ==
    /\ conf.mode = "managed"
    /\ sa' = [x \in Sas |-> IF x[1] = e /\ Live(sa[x]) /\ sa[x].state # ESTABLISHED
                            THEN Free(sa[x]) ELSE sa[x]]
    /\ peerdh' = (IF e = "I" THEN FALSE ELSE peerdh)
    /\ UNCHANGED conf

-----------------------------------------------------------------------------
Init ==
    /\ conf \in Confs
    /\ sa = [x \in Sas |-> NoSa(x[1])]
    /\ peerdh = FALSE

Wire == UNION {sa[x].wire : x \in Sas}

Receive ==
    \E p \in Wire : \E x \in Sas :
        \/ RecvRequest(x, p)
        \/ RecvSaInit(x, p)
        \/ RecvResponse(x, p)
        \/ EapClient(x, p)

Next ==
    \/ Receive
    \/ \E x \in Sas : \/ CaReply(x)
                      \/ InitIkeSa(x)
                      \/ SaTimeout(x)
                      \/ RetransmitLimit(x)
                      \/ CtlResetId(x)
    \/ \E e \in End : Reload(e)

Spec == Init /\ [][Next]_vars

\* A step that brings the handshake forward is possible: a datagram that
\* the SA it is for has been waiting for, or that it accepts; an answer of
\* the ca; a new attempt.
Awaited(x, p) ==
    \/ /\ For(x, p) /\ Expected(sa[x], p)
       /\ <<p.id, p.ex>> \in sa[x].requests \/ ValidIkeSa(sa[x], p)
    \/ /\ For(x, p) /\ ~p.resp /\ p.ex # "SA_INIT"
       /\ sa[x].msgidSet => p.id > sa[x].msgid
       /\ ~Refused(sa[x], p)
    \/ x[1] = "R" /\ sa[x].state = UNUSED /\ p.from = "I" /\ p.ex = "SA_INIT"
       /\ ~\E y \in Sas : For(y, p)
Progress == Receive \/ \E x \in Sas : CaReply(x) \/ InitIkeSa(x)
CanProgress ==
    \/ \E p \in Wire : \E x \in Sas : Awaited(x, p)
    \/ \E x \in Sas : sa[x].ca # <<>>
    \/ /\ \E x \in Sas : x[1] = "I" /\ sa[x].state = UNUSED
       /\ \A y \in Sas : y[1] = "I" => ~Live(sa[y]) \/ sa[y].method = "none"

\* Timers fire, and the two peers do not stop as long as they can go on.
\* The second conjunct is weak fairness of Progress with its guard spelt out.
Fairness ==
    /\ \A x \in Sas : WF_vars(SaTimeout(x))
    /\ []<>(~CanProgress) \/ []<><<Progress>>_vars

FairSpec == Spec /\ Fairness

-----------------------------------------------------------------------------
(* Properties *)

\* Types of the SAs and of the configuration.
TypeOK ==
    /\ conf \in ConfType
    /\ sa \in [Sas -> SaType]
    /\ peerdh \in BOOLEAN

\* The external EAP client makes no promises.
Iked(x) == ~(x[1] = "I" /\ conf.method["I"] = "eap")

\* An SA is ESTABLISHED only if the end has a policy for the identity of the
\* peer, the peer has authenticated itself by the method of that policy, and
\* with the certificate and key or the password that it demands, in
\* whatever order the answers of the ca came (ikev2_init_done,
\* ikev2_resp_ike_auth and the REQ_ flags).
EstablishedIsVerified ==
    \A x \in Sas : sa[x].state = ESTABLISHED /\ Iked(x) =>
        LET peer == Other(x[1])
        IN  /\ conf.known[x[1]]
            /\ conf.method["I"] = conf.method["R"]
            /\ conf.cred[peer] # "badkey"
            /\ conf.method[x[1]] = "cert" => conf.cred[peer] # "badcert"

\* When nothing times out and the child SAs can be set up, an initiator that
\* has ESTABLISHED its SA shares it with a responder that has done so too.
EstablishedTogether ==
    conf.mode = "calm" /\ (\A e \in End : conf.child[e] = "ok") =>
        \A x \in Sas : x[1] = "I" /\ sa[x].state = ESTABLISHED =>
            \E y \in Sas : /\ y = <<"R", sa[x].r>>
                          /\ sa[y].a = x[2] /\ sa[y].state = ESTABLISHED

\* An id is used for one message only: although every answer of the ca calls
\* ikev2_ike_auth, an SA never sends two different requests, nor two
\* different responses, under one id.
OneMessagePerId ==
    \A x \in Sas : \A p, q \in sa[x].wire :
        p.resp = q.resp /\ p.id = q.id => p = q

\* "expect delete for this SA" and "delete this SA" (ikev2.h, CLOSING and
\* CLOSED): an SA that is being closed is never used again, whatever answer
\* of the ca is still to come.
Ending == {CLOSING, CLOSED, FREED}
ClosingIsFinal ==
    [][\A x \in Sas : sa[x].state \in Ending => sa'[x].state \in Ending]_vars

\* No half-open SA stays: it gets ESTABLISHED or it is freed, also when the
\* peer or the ca never answers or a child SA cannot be set up.
HalfOpen(x) == Live(sa[x]) /\ sa[x].state # ESTABLISHED
HalfOpenEnds ==
    \A x \in Sas : HalfOpen(x) /\ conf.mode # "calm" ~> ~HalfOpen(x)

\* When the initiator refuses a responder that regards the SA as
\* ESTABLISHED, its AUTHENTICATION_FAILED closes the SA there too.
RefusalReaches ==
    \A a \in Attempts : \A r \in Rspis :
        sa[<<"I", a>>].state = CLOSING /\ sa[<<"I", a>>].r = r
            ~> sa[<<"R", r>>].state # ESTABLISHED

\* Two peers whose configurations agree get an SA, if need be after
\* negotiating the DH group anew.
Agreeing ==
    /\ conf.mode = "calm" /\ conf.method["I"] = conf.method["R"]
    /\ conf.esp /\ conf.dh # "none"
    /\ \A e \in End : /\ conf.known[e] /\ conf.cred[e] = "good"
                      /\ conf.child[e] = "ok"
Converges ==
    Agreeing ~> \A e \in End : \E x \in Sas :
                    x[1] = e /\ sa[x].state = ESTABLISHED
=============================================================================
