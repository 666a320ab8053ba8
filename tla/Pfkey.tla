------------------------------- MODULE Pfkey -------------------------------
(***************************************************************************)
(* The PF_KEY socket of an iked daemon: requests that are answered through *)
(* the same socket that also carries the kernel's ACQUIRE and EXPIRE       *)
(* messages, and the calls of ipsec.c that load and unload security        *)
(* associations.                                                           *)
(*                                                                         *)
(* Source: iked/pfkey.c, iked/ipsec.c.  The kernel is external: its SA     *)
(* database is the field "sadb" of the record of a host, the messages that *)
(* wait in the socket are "sock", the queue pfkey_postponed is "post".     *)
(* The functions are operators from host records to host records.  A       *)
(* request that can fail takes the outcome as a parameter:                 *)
(*   "ok"       the kernel carries it out and answers in time,             *)
(*   "refused"  the kernel answers with an error and does nothing,         *)
(*   "esrch"    the same with ESRCH: the larval SA has expired,            *)
(*   "late"     carried out, but the answer comes after the timeout.       *)
(***************************************************************************)
EXTENDS Naturals, Sequences

\* An SPI: the host whose kernel allocated it and a number; the kernels draw
\* 32 random bits, so that two SPIs in use are taken to be different.
NoSpi == <<"none", 0>>

Outcomes == {"ok", "refused", "esrch", "late"}

\* A message on the socket that is not the answer iked is waiting for: an
\* EXPIRE with a soft or a hard lifetime, an ACQUIRE, or the answer to an
\* earlier request whose timeout has passed.
Soft(spi)   == [type |-> "soft", spi |-> spi, res |-> "none"]
Hard(spi)   == [type |-> "hard", spi |-> spi, res |-> "none"]
Acquire     == [type |-> "acquire", spi |-> NoSpi, res |-> "none"]
LateAnswer(res) == [type |-> "answer", spi |-> NoSpi, res |-> res]

\* What the kernel has to say about a request.
AnswerTo(outcome) == IF outcome = "late" THEN "ok" ELSE outcome

\* Mutant: the sequence number of the answer is not compared.
ReplyAnySeq(h, outcome) ==
    LET mine == {i \in 1..Len(h.sock) : h.sock[i].type = "answer"}
    IN  IF mine = {}
        THEN [host |-> [h EXCEPT !.post = @ \o h.sock,
                                 !.sock = IF outcome = "late"
                                          THEN <<LateAnswer("ok")>> ELSE <<>>],
              res  |-> IF outcome = "late" THEN "timeout" ELSE outcome]
        ELSE LET i == CHOOSE i \in mine : \A j \in mine : i <= j
             IN  [host |-> [h EXCEPT !.post = @ \o SubSeq(h.sock, 1, i - 1),
                                     !.sock = SubSeq(h.sock, i + 1, Len(h.sock))
                                              \o <<LateAnswer(AnswerTo(outcome))>>],
                  res  |-> h.sock[i].res]

\* pfkey_write and pfkey_reply: the messages before the answer with our pid
\* and our sequence number go to pfkey_postponed, among them the late answers
\* to earlier requests.  After the timeout the answer stays in the socket.
Reply(h, outcome) ==
    [host |-> [h EXCEPT !.post = @ \o h.sock,
                        !.sock = IF outcome = "late"
                                 THEN <<LateAnswer("ok")>> ELSE <<>>],
     res  |-> IF outcome = "late" THEN "timeout" ELSE outcome]

-----------------------------------------------------------------------------
(* The kernel: external, as far as pfkey.c relies on it *)

KernelSa(csa) == [spi |-> csa.spi, key |-> csa.key, old |-> FALSE]

\* SADB_ADD, SADB_UPDATE: SPI 0 is never accepted.
KernelInstall(h, csa, outcome) ==
    IF outcome \in {"ok", "late"} /\ csa.spi # NoSpi
    THEN [h EXCEPT !.sadb = @ \cup {KernelSa(csa)}] ELSE h

KernelRemove(h, spi) == [h EXCEPT !.sadb = {k \in @ : k.spi # spi}]

KernelHas(h, spi) == \E k \in h.sadb : k.spi = spi

-----------------------------------------------------------------------------
(* ipsec_sa_init, ipsec_sa_add, ipsec_sa_delete *)

\* pfkey_sa_init, pfkey_sa_getspi: an error of the kernel is logged and the
\* function still returns 0, with SPI 0.
SaInit(h, e, outcome) ==
    LET r == Reply(h, outcome)
    IN  IF r.res = "ok"
        THEN [host |-> [r.host EXCEPT !.nspi = @ + 1],
              spi  |-> <<e, h.nspi>>, ok |-> TRUE]
        ELSE [host |-> r.host, spi |-> NoSpi, ok |-> r.res # "timeout"]

\* pfkey_sa with SADB_ADD or SADB_UPDATE, and what the caller sees.
SaRequest(h, csa, outcome) ==
    LET o == IF csa.spi = NoSpi THEN "refused" ELSE outcome
    IN  Reply(KernelInstall(h, csa, o), o)

\* pfkey_sa_add: an inbound SA was allocated by GETSPI and is updated, an
\* outbound SA is added.  After a timeout an added SA is looked up in the
\* kernel, an updated one is not; an update refused with ESRCH becomes an
\* addition.
SaAdd(h, csa, outcome) ==
    LET r == SaRequest(h, csa, outcome)
    IN  IF r.res = "ok" THEN [host |-> r.host, ok |-> TRUE]
        ELSE IF ~csa.alloc /\ r.res = "timeout"
        THEN [host |-> Reply(r.host, "ok").host, ok |-> KernelHas(r.host, csa.spi)]
        ELSE IF csa.alloc /\ r.res = "esrch"
        THEN LET s == SaRequest(r.host, csa, "ok")
             IN  [host |-> s.host, ok |-> s.res = "ok"]
        ELSE [host |-> r.host, ok |-> FALSE]

\* pfkey_sa_delete: only what is loaded is removed.
SaDelete(h, csa) ==
    IF ~csa.loaded \/ csa.spi = NoSpi THEN h
    ELSE Reply(KernelRemove(h, csa.spi), "ok").host
=============================================================================
