------------------------------ MODULE IkeFrag ------------------------------
(***************************************************************************)
(* Message fragmentation (SKF payloads) on an ESTABLISHED IKE SA between   *)
(* two iked daemons: sending in fragments, the reassembly buffer           *)
(* sa_fragments, and what ikev2_recv does with fragments before and after  *)
(* reassembly.                                                             *)
(*                                                                         *)
(* Source: iked/ikev2_pld.c (ikev2_pld_e, ikev2_pld_ef,                    *)
(* ikev2_frags_reassemble), iked/ikev2_msg.c (sending, retransmission of   *)
(* responses), iked/ikev2.c (ikev2_recv and the receive functions).        *)
(*                                                                         *)
(* As in IkeExchange, "wire" holds every datagram an end has sent, so that *)
(* loss, delay, duplication and reordering are implicit and a              *)
(* retransmission changes nothing.  Giving up after too many               *)
(* retransmissions and closing the SA are left to IkeExchange.  Datagrams  *)
(* are those of iked: fragment numbers are in range.                       *)
(***************************************************************************)
EXTENDS Naturals, Sequences, FiniteSets

CONSTANTS
    MaxReq,     \* bound: MaxReq[e] requests may be started by end e
    Sizes,      \* Sizes[e]: the fragments of a CREATE_CHILD_SA message of e, 0 for SK
    FragMax     \* IKED_FRAG_TOTAL_MAX

End == {"I", "R"}
Other(e) == IF e = "I" THEN "R" ELSE "I"
Exchanges == {"CHILDSA", "INF"}

ASSUME FragAssumption ==
    /\ MaxReq \in [End -> Nat]
    /\ Sizes \in [End -> SUBSET Nat]
    /\ FragMax \in Nat

VARIABLES
    sa,         \* sa[e]: the struct iked_sa of end e
    delivered   \* history: what end e has reassembled or received whole

vars == <<sa, delivered>>

Message  == [from : End, resp : BOOLEAN, id : Nat, x : Exchanges]
Datagram == [msg : Message, num : Nat, total : Nat]
Queued   == [id : Nat, x : Exchanges]

-----------------------------------------------------------------------------
(* Sending *)

\* config_free_fragments
FreeFragments(s) == [s EXCEPT !.total = 0, !.arr = <<>>, !.count = 0]

\* ikev2_msg_send_encrypt: an SK message is parsed by its sender (ikev2_pld_e),
\* which discards the fragments received so far; an oversized one goes to
\* ikev2_send_encrypted_fragments.
Send(s, msg, size) ==
    IF size = 0
    THEN [FreeFragments(s) EXCEPT !.wire = @ \cup
            {[msg |-> msg, num |-> 0, total |-> 0]}]
    ELSE [s EXCEPT !.wire = @ \cup
            {[msg |-> msg, num |-> n, total |-> size] : n \in 1 .. size}]

SizesOf(e, x) == IF x = "INF" THEN {0} ELSE Sizes[e]

\* A CREATE_CHILD_SA or INFORMATIONAL request, started only if no exchange is
\* running.
Start(e, x) ==
    LET s   == sa[e]
        msg == [from |-> e, resp |-> FALSE, id |-> s.reqid, x |-> x]
    IN  /\ s.flags = {}
        /\ s.reqid < MaxReq[e]
        /\ \E size \in SizesOf(e, x) :
              sa' = [sa EXCEPT ![e] =
                [Send(s, msg, size) EXCEPT
                    !.reqid = @ + 1, !.flags = {x},
                    !.requests = @ \cup {[id |-> msg.id, x |-> x]}]]
        /\ UNCHANGED delivered

-----------------------------------------------------------------------------
(* Parsing: the outcome is the SA and the parts of the message that is now *)
(* complete, <<>> if none is.                                              *)

Outcome(s, parts) == [sa |-> s, parts |-> parts]

\* ikev2_pld_e
PldE(s, d) ==
    IF s.total # 0 THEN Outcome(FreeFragments(s), <<>>)
                   ELSE Outcome(s, <<d.msg>>)

\* ikev2_frags_reassemble: a response also empties the request queue.
Reassemble(s, d) ==
    Outcome(FreeFragments([s EXCEPT !.requests = IF d.msg.resp THEN {} ELSE @]),
            s.arr)

\* The fragment is put in its slot and counted; the last one completes.
Add(s, d) ==
    LET t == [s EXCEPT !.total = d.total, !.count = @ + 1,
                !.arr = [n \in DOMAIN @ \cup {d.num} |->
                            IF n = d.num THEN d.msg ELSE @[n]]]
    IN  IF t.count = t.total THEN Reassemble(t, d) ELSE Outcome(t, <<>>)

\* Mutant: a fragment that is stored already is stored and counted again.
StoreAgain(s, d) == Add(s, d)

\* A fragment that is stored already is dropped.
Store(s, d) == IF d.num \in DOMAIN s.arr THEN Outcome(s, <<>>) ELSE Add(s, d)

\* ikev2_pld_ef
PldEf(s, d) ==
    IF d.total > FragMax \/ (s.total # 0 /\ s.total # d.total)
    THEN Outcome(FreeFragments(s), <<>>)
    ELSE Store(s, d)

Parse(s, d) == IF d.total = 0 THEN PldE(s, d) ELSE PldEf(s, d)

\* Every part is one of the message itself.
WholeMessage(parts, msg) == \A n \in DOMAIN parts : parts[n] = msg

\* Whether the payloads of a complete message are accepted: if its parts do
\* not belong together, either can happen.
Accepted(parts, msg) == IF WholeMessage(parts, msg) THEN {TRUE} ELSE BOOLEAN

\* History: the message was complete, and worked on if it was accepted, perhaps
\* not for the first time.
Deliver(e, d, parts, ok) ==
    LET again == \E r \in delivered[e] : r.msg = d.msg /\ r.ok
    IN  delivered' = [delivered EXCEPT ![e] = @ \cup
                        {[msg |-> d.msg, total |-> d.total, parts |-> parts,
                          ok |-> ok, again |-> again]}]

-----------------------------------------------------------------------------
(* Receiving *)

\* ikev2_msg_lookup
Lookup(queue, msg) == {q \in queue : q.id = msg.id /\ q.x = msg.x}

\* ikev2_recv, response: the conditions under which it is not dropped.
ExpectedResponse(s, msg) ==
    /\ msg.id + 1 = s.reqid
    /\ msg.x = "INF" \/ Lookup(s.requests, msg) # {} \/ s.count # 0
    /\ msg.x \in s.flags

\* Mutant: the request is forgotten with the first fragment of the answer.
DisposeAlways(s, d) == [s EXCEPT !.requests = @ \ Lookup(@, d.msg)]

\* "There's no need to keep the request (fragments) around"
DisposeRequest(s, d) ==
    IF d.total = 0 THEN [s EXCEPT !.requests = @ \ Lookup(@, d.msg)] ELSE s

\* ikev2_init_recv: the exchange ends with a complete response.
RecvResponse(e, d) ==
    LET o == Parse(DisposeRequest(sa[e], d), d)
    IN  /\ d.msg.resp
        /\ ExpectedResponse(sa[e], d.msg)
        /\ \/ /\ o.parts = <<>>
              /\ sa' = [sa EXCEPT ![e] = o.sa]
              /\ UNCHANGED delivered
           \/ /\ o.parts # <<>>
              /\ \E ok \in Accepted(o.parts, d.msg) :
                    /\ sa' = [sa EXCEPT ![e] =
                                IF ok THEN [o.sa EXCEPT !.flags = @ \ {d.msg.x}]
                                      ELSE o.sa]
                    /\ Deliver(e, d, o.parts, ok)

\* Mutant: without the check on sa_msgid_set.
NotAnswered(s, msg) == msg.id >= s.msgid /\ Lookup(s.responses, msg) = {}

\* ikev2_recv, request: it is neither old, nor answered (in which case the
\* response is sent again, for the first fragment only), nor worked on.
NewRequest(s, msg) ==
    /\ msg.id >= s.msgid
    /\ Lookup(s.responses, msg) = {}
    /\ ~(s.msgidSet /\ msg.id = s.msgid)

\* ikev2_resp_recv: the answer to a complete request, and the update of
\* sa_msgid and sa_responses that follows in ikev2_recv.
Respond(s, e, msg, size) ==
    LET resp == [from |-> e, resp |-> TRUE, id |-> msg.id, x |-> msg.x]
    IN  [Send(s, resp, size) EXCEPT
            !.msgid = msg.id, !.msgidSet = TRUE,
            !.responses = {q \in @ : q.id >= msg.id}
                            \cup {[id |-> msg.id, x |-> msg.x]}]

RecvRequest(e, d) ==
    LET o == Parse(sa[e], d)
    IN  /\ ~d.msg.resp
        /\ NewRequest(sa[e], d.msg)
        /\ \/ /\ o.parts = <<>>
              /\ sa' = [sa EXCEPT ![e] = o.sa]
              /\ UNCHANGED delivered
           \/ /\ o.parts # <<>>
              /\ \E ok \in Accepted(o.parts, d.msg), size \in SizesOf(e, d.msg.x) :
                    /\ sa' = [sa EXCEPT ![e] =
                                IF ok THEN Respond(o.sa, e, d.msg, size)
                                      ELSE o.sa]
                    /\ Deliver(e, d, o.parts, ok)

\* ikev2_msg_response_timeout
ResponseTimeout(e) ==
    \E q \in sa[e].responses :
        /\ sa' = [sa EXCEPT ![e].responses = @ \ {q}]
        /\ UNCHANGED delivered

-----------------------------------------------------------------------------
NewSa ==
    [reqid |-> 0, msgid |-> 0, msgidSet |-> FALSE, flags |-> {},
     requests |-> {}, responses |-> {},
     total |-> 0, arr |-> <<>>, count |-> 0, wire |-> {}]

Init ==
    /\ sa = [e \in End |-> NewSa]
    /\ delivered = [e \in End |-> {}]

Next ==
    \E e \in End :
        \/ \E x \in Exchanges : Start(e, x)
        \/ \E d \in sa[Other(e)].wire : RecvResponse(e, d) \/ RecvRequest(e, d)
        \/ ResponseTimeout(e)

Spec == Init /\ [][Next]_vars

-----------------------------------------------------------------------------
(* Properties *)

\* Types; slots of the reassembly buffer exist only within frag_total.
TypeOK ==
    \A e \in End :
        /\ sa[e].reqid \in Nat /\ sa[e].msgid \in Nat
        /\ sa[e].msgidSet \in BOOLEAN
        /\ sa[e].flags \subseteq Exchanges
        /\ sa[e].requests \subseteq Queued /\ sa[e].responses \subseteq Queued
        /\ sa[e].total \in Nat /\ sa[e].count \in Nat
        /\ DOMAIN sa[e].arr \subseteq 1 .. sa[e].total
        /\ \A n \in DOMAIN sa[e].arr : sa[e].arr[n] \in Message
        /\ sa[e].wire \subseteq Datagram
        /\ \A r \in delivered[e] : r.msg \in Message

\* Reassembly never meets an empty slot, whatever fragments were duplicated or
\* came from an earlier message ("Tried to reassemble shallow frag_arr" is a
\* fatalx), and frag_count is the number of fragments in frag_arr.
FragmentsCounted ==
    \A e \in End :
        /\ sa[e].count = Cardinality(DOMAIN sa[e].arr)
        /\ sa[e].total # 0 => sa[e].count \in 1 .. sa[e].total - 1
        /\ \A r \in delivered[e] : r.total # 0 => DOMAIN r.parts = 1 .. r.total

\* No message is put together from fragments of different requests, or of
\* different responses, even if they have the same number of fragments; and no
\* request and no response is worked on twice, however its fragments are
\* duplicated and delayed.  A request and a response that are under way at the
\* same time share sa_fragments: their fragments may be mixed (the exception
\* in the first conjunct), as ikev2_pld_ef tells them apart by total only.
DeliveredWhole ==
    \A e \in End : \A r \in delivered[e] :
        /\ \A n \in DOMAIN r.parts : r.parts[n] = r.msg \/ r.parts[n].resp # r.msg.resp
        /\ r.ok => ~r.again

\* Fragments of a request of the peer are in the reassembly buffer.
HoldsRequest(s) == \E n \in DOMAIN s.arr : ~s.arr[n].resp

\* A request leaves its queue, and is not sent again, only in the step that
\* ends its exchange: a fragment of the answer, an answer that is late and a
\* message of the peer's own exchange leave it there.  The exception is an
\* answer that finds fragments of the peer's request in sa_fragments: the
\* request is disposed of ("There's no need to keep the request", in
\* ikev2_recv), and the answer is then rejected.
RequestKept ==
    [][\A e \in End :
          sa[e].requests # {} /\ sa'[e].requests = {} =>
              sa'[e].flags = {} \/ HoldsRequest(sa[e])]_vars

=============================================================================
