# TLA+ models of iked

`iked` is an IKEv2 daemon.  This directory holds TLA+ models of its parts, TLC
configurations that check them on small instances, and proofs checked by TLAPS.
Every definition is a translation of code under `src/iked`; `PROJECT.json`
gives the lines.

## 1. The system

iked runs as several processes connected by imsg channels.

| part | code | state | operations |
|---|---|---|---|
| parent | `iked.c`, `parse.y`, `config.c` | configuration, signals | load, reload, couple/decouple, shutdown |
| ikev2 process | `ikev2.c`, `ikev2_msg.c`, `ikev2_pld.c`, `policy.c` | `struct iked`: SA trees, policies, users, pools | the rest of this table |
| exchange layer of an IKE SA | `ikev2_msg.c`, `ikev2_recv` | `sa_reqid`, `sa_msgid`, `sa_msgid_set`, `sa_requests`, `sa_responses`, `sa_stateflags` (`IKED_REQ_*`), `sa_timer`, `sa_rekey` | send request/response, receive, retransmit, expire, probe, close |
| handshake | `ikev2_init_ike_sa` ... `ikev2_init_done`, `ikev2_resp_ike_sa_init`, `ikev2_resp_ike_auth` | `sa_state`, `sa_stateflags`, `sa_statevalid` | IKE_SA_INIT, IKE_AUTH, EAP, answers of the CA process |
| IKE SA rekeying | `ikev2_ike_sa_rekey`, `ikev2_ikesa_enable`, ... | `sa_nexti`, `sa_nextr`, `sa_prev*` | rekey, answer, resolve a simultaneous rekey, hand over |
| child SAs, flows | `ikev2_childsa_*`, `ipsec.c`, `pfkey.c` | `sa_childsas`, `sa_flows`, `sc_activesas` | negotiate, enable, rekey, delete, acquire, expire |
| address pools | `ikev2_cp_setaddr*`, `sc_addrpool*` | `sa_addrpool`, `sa_addrpool6`, the two trees, `sc_dstid_sas` | assign, take over, move on rekey, release |
| fragmentation | `ikev2_pld_ef`, `ikev2_frags_reassemble`, `ikev2_send_encrypted_fragments` | `sa_fragments` | send, store, reassemble, drop |
| policies | `policy.c`, `config.c` | `sc_policies`, `pol_refcnt`, `pol_sapeers`, skip steps | lookup, ref/unref, load, flush |
| proposals | `policy.c`, `parse.y` | `pol_proposals`, `sa_proposals` | offer, score, answer, retry |
| payload parser | `ikev2_pld.c` | offsets and counts of nested loops | parse |
| CA process | `ca.c`, `ocsp.c` | stores, private key | certificate, signature, validation |
| control | `control.c`, `ikectl/` | connections | accept, command, answer, close |
| process mesh | `proc.c` | pipes between the processes | start, connect, forward, end |
| kernel interface | `pfkey.c`, `vroute*.c` | sequence numbers, postponed messages | add/delete SA and flow, acquire, expire |
| crypto, utilities, compat | `crypto.c`, `dh.c`, `util.c`, `compat/` | none | |

Each part and its status is in `PROJECT.json` ("components").  The ikev2 process
is single threaded: a handler runs to its end before the next event is taken,
so a handler is one action.  Concurrency comes from the peer, the network,
timers, the kernel, the operator and the other processes.

What is hard in this code, in short (one entry per place in `PROJECT.json`,
"hazards"): duplicated, lost and reordered datagrams against message ids and a
response cache that expires; flags that gate exchanges and may outlive them;
two exchanges of opposite direction that meet, above all two rekeys of the same
SA; a reload, an operator's reset or a replacement in the middle of an exchange;
one reassembly buffer for all messages; addresses that wander between SAs while
a tree is keyed by them; late answers of other processes and of the kernel;
references to policies that a reload has removed; two rekeys of one child SA;
lengths that nested parsers and writers of messages have to keep consistent.

## 2. Modules

| module | what | code |
|---|---|---|
| `IkeExchange` | one IKE SA between two daemons, ESTABLISHED until freed | `ikev2.c`, `ikev2_msg.c`, `policy.c`, `config.c` |
| `MCIkeExchange` | instances | |
| `IkeExchangeProofs` | theorems on `IkeExchange` | |
| `IkeFrag` | fragmentation on such an SA | `ikev2_pld.c`, `ikev2_msg.c`, `ikev2.c` |
| `MCIkeFrag` | instances | |
| `IkeAuth` | the handshake of an initiator and a responder, until ESTABLISHED | `ikev2.c`, `ikev2_msg.c`, `policy.c`, `ca.c`, `eap.c` |
| `MCIkeAuth` | instances | |
| `AddrPool` | address pools of a responder | `ikev2.c`, `policy.c`, `config.c` |
| `MCAddrPool` | instances | |
| `AddrPoolProofs` | theorems on `AddrPool` | |
| `AddressLease` | what the pools promise a client (abstract, no code of its own) | |
| `AddressLeaseProofs` | `AddrPool` implements `AddressLease` | |
| `Pfkey` | the PF_KEY socket: requests, timeouts, postponed messages | `pfkey.c` |
| `ChildSa` | the child SAs of one IKE SA, both ends and their kernels (uses `Pfkey`) | `ikev2.c`, `pfkey.c`, `policy.c`, `config.c` |
| `MCChildSa` | instances | |
| `PfkeyMsg` | the layout of every PF_KEY message that is written | `pfkey.c` |
| `IpsecLoad` | what one daemon has in its kernel: SAs, IPCOMP, flows (uses `PfkeyMsg`) | `pfkey.c`, `ikev2.c`, `policy.c`, `config.c` |
| `MCIpsecLoad` | instances | |
| `Policies` | policies and IKE SAs of the ikev2 process | `policy.c`, `config.c`, `ikev2.c` |
| `Daemon` | the four processes, their pipes, configuration, control socket (uses `Policies`) | `proc.c`, `iked.c`, `control.c`, `config.c`, `ca.c`, `ikev2.c` |
| `MCDaemon` | instances | |
| `Proposals` | negotiation of transforms, from two files to the keys of each exchange | `policy.c`, `ikev2.c`, `ikev2_pld.c`, `parse.y` |
| `MCProposals` | pairs of files | |
| `PayloadWalk` | the payload parser | `ikev2_pld.c` |
| `MCPayloadWalk` | sizes and lengths | |
| `PayloadWalkProofs` | theorems on `PayloadWalk` | |

Operators whose comment starts with "Mutant" are wrong variants of the
definition that follows them.  No specification uses them; each one, put in the
place of that definition, makes TLC report the property it is listed with in
`PROJECT.json`, which shows that the property depends on the code it is about.

### IkeExchange

`sa[e]` is the `struct iked_sa` of end `e` ("I" for `sh_initiator = 1`).  Each C
function that changes it is an operator from records to records; a handler whose
result depends on negotiation yields a set of records.  The fields are the C
fields: `reqid`, `msgid`, `msgidSet`, `flags` (`IKED_REQ_INF`,
`IKED_REQ_CHILDSA`), `requests`, `responses`, `nexti`, `nextr`, `timer`
(`sa_timer`: its callback is `ikev2_ike_sa_alive`, `ikev2_ike_sa_timeout` or it
is off), `rekeytmr` (`sa_rekey`).  Three fields are not in C: `moved` (which
exchange's new SA took the child SAs), `addr` (whether the local address is
still there) and `wire`.  `conf` is chosen once: the kinds of requests the ends
start by themselves, the events that may happen, and `sc_stickyaddress`.

`wire` is the set of all datagrams the end ever sent.  Since any of them may be
received at any time, any number of times or never, loss, duplication, delay and
reordering need no actions of their own.  Nothing received is ever forged.

| action | code |
|---|---|
| `RecvResponse` | `ikev2_recv` for a response: `ExpectedResponse`, dispose of the request, `ikev2_init_recv` (`InitRecv`), free if CLOSED (`Reap`) |
| `RecvRequest` | `ikev2_recv` for a new request: `ikev2_resp_recv` (`RespRecv`), then `sa_msgid` and `ikev2_msg_prevail` (`Accept`) unless `msg_valid` is 0 |
| `RetransmitResponse` | `ikev2_recv` for a request with a cached response |
| `RetransmitTimeout`, `ResponseTimeout` | the timers of the two queues |
| `Alive`, `SaTimeout`, `Rekey`, `RekeyTimeout` | `sa_timer`, `sa_rekey` |
| `ChildRequest` | acquire, rekey and drop of a child SA, started by the kernel |
| `CtlResetId`, `CtlResetSa`, `Reload`, `Replaced` | operator, reload, a newer SA of the same client |
| `AddrLost` | `sendtofrom` fails with EADDRNOTAVAIL from now on |

`ran` and `got` are history variables: the requests an end has carried out, and
the answers it has accepted.  `lownonce` fixes the result of the nonce
comparison.

Left out: allocation failures and other internal errors after which a handler
returns -1 (some leave `IKED_REQ_CHILDSA` set); TEMPORARY_FAILURE and
NO_ADDITIONAL_SAS; INVALID_KE_PAYLOAD in answer to an IKE SA rekey; MOBIKE
address updates; leftovers of IKE_AUTH in the queues; fragmentation (next
module).  Timers have no durations.

### IkeFrag

The same two ends, with messages that travel as one SK datagram or as `size`
SKF datagrams.  `total`, `arr`, `count` are `frag_total`, `frag_arr`,
`frag_count`.  `arr` is a function from the numbers of the stored fragments to
the message each one came from, so that a message put together from pieces of
two is visible.  Whether the payload parser rejects such a mixture is left open.
Sending an SK message also empties the buffer, because the sender parses its own
message (`ikev2_pld_e` is called from `ikev2_msg_send_encrypt` through
`ikev2_pld_parse`).  INFORMATIONAL messages always fit one datagram.

`delivered[e]` is history: the messages that were complete at `e`, the fragments
each was put together from, whether it was accepted and whether that had happened
before.  Both ends start exchanges, so requests and responses do meet in the
buffer.  `DeliveredWhole` and `RequestKept` name in their formulas what the code
then does (a mixture of the two directions; an answer that is rejected after its
request was disposed of) and exclude everything else.

### AddrPool

`env` is the part of `struct iked` that matters: states of SAs, the identity
of each SA's client, `addr[4]`/`addr[6]` (`sa_addrpool`, `sa_addrpool6`),
`tree[4]`/`tree[6]` (`sc_addrpool`, `sc_addrpool6`) and `dstid`
(`sc_dstid_sas`).  `cfg` is the configuration: pools, `sc_stickyaddress`,
`sc_enforcesingleikesa`.  The walk through a pool (`Walk`) is a recursive
function over the rounds of the loop.

Actions: `Auth` (the tail of `ikev2_resp_ike_auth` for a client that proved its
identity, both families, each of which may fail), `IkesaEnable` (rekey),
`RecvDelete`, `SaFree`, `Reload`.  Left out: a rekey resolved on an SA that is
closing already, and requests for specific IPv6 addresses.

`TreeExact` says that no step makes an exact tree inexact, with one exception:
`GainsFamily`, a take-over from an SA that has an IPv6 address only, which needs a
reload from a file with IPv6 pools to one with both.

`AddressLease` is the promise behind all that: a set of leases (family, address,
client) to which a step adds addresses nobody has for one client (`Grant`), or
from which one client gives some back (`GiveBack`).  `AddrPool` maps to it by
`Leases(env)`: who holds an address is who owns the SA that has it.  A login with
a take-over, which moves addresses between two SAs of a client and wipes fields
on the way, must look from outside like a single grant; a rekey like nothing at
all.

### IkeAuth

`sa[<<e, n>>]` is the n-th IKE SA of end `e`: the initiator makes a new one, with
a new SPI, per attempt, the responder one per accepted IKE_SA_INIT.  Its fields
are `sa_state`, `sa_stateflags` (`flags`), `sa_stateinit` (`init`),
`sa_statevalid` (`valid`), the method of `sa_policy`, whether `sa_localauth`,
`sa_eapid` and `sa_eapmsk` are there, the kind of `sa_peerauth`, the message ids
(`cur` is `sa_msgid_current`), `sa_requests`, `sa_timer`, and two that are not in
C: `ca`, the imsgs the ca has not answered, and `wire`, as in `IkeExchange`.
`peerdh` is `pol_peerdh`.

`conf` describes the two peers and is chosen once: each end's method, the
policies the responder finds by address (`addr`), by proposals as well (`prop`)
and by id (`method["R"]`), what is wrong with an end's credentials, the DH group,
the proposals for the child SA, and whether child SAs can be set up and loaded.

| action | code |
|---|---|
| `RecvSaInit` | `ikev2_resp_recv` for IKE_SA_INIT: `sa_new`, `ikev2_sa_responder`, `ikev2_resp_ike_sa_init`, or the error |
| `RecvRequest` | `ikev2_recv` for IKE_AUTH and INFORMATIONAL: `ikev2_ike_auth_recv` (`AuthRecvR`), `ikev2_resp_ike_eap` (`RespEap`), `ikev2_resp_informational` |
| `RecvResponse` | `ikev2_recv` for a response: `ikev2_init_auth` (`InitSaInit`), `ikev2_ike_auth_recv` (`AuthRecvI`), failures |
| `CaReply` | the ca's work and `ikev2_dispatch_cert`, for the oldest request in `ca` |
| `InitIkeSa` | `ikev2_init_ike_sa`, `ikev2_init_ike_sa_peer` |
| `SaTimeout`, `RetransmitLimit` | the exchange or closing timeout; the last retransmission |
| `CtlResetId`, `Reload` | operator |
| `EapClient` | external: iked has no EAP client, this one sends what iked expects |

Abstractions.  A policy is told apart by its method only.  Keys, signatures and
passwords are right or wrong; signing itself does not fail.  The ca's answer and
its handling are one step, which may come arbitrarily late.  Answers come in the
order of the requests; with OCSP a validation may be later than that, but it is
always the last request of a handshake.  A second copy of an
IKE_SA_INIT changes nothing while its SA exists; when the SA is gone it makes a
new one.  Left out: COOKIE (the responder never asks for one), NAT detection,
several CERTREQs, supplemental certificates, configuration payloads (see
`AddrPool`), and internal errors.  What happens to an ESTABLISHED SA afterwards
is `IkeExchange`.

### ChildSa and Pfkey

`host[e]` is the `struct iked_sa` of end `e` together with its kernel: `csas`
(`sa_childsas`), `active` (`sc_activesas`), `flags`, the rekey and simultaneous
rekey fields, the kernel's SA database `sadb`, the PF_KEY socket `sock` and the
messages `post` that were read while iked waited for an answer and put off.
`Pfkey` has the request and its answer (`Reply`, with the sequence number that
tells a late answer from the one expected) and the two queues.

| action | code |
|---|---|
| `Deliver` | `ikev2_recv` with `ikev2_resp_create_child_sa`, `ikev2_init_create_child_sa`, `ikev2_resp_informational` and `ikev2_handle_delete`, each with every call to the kernel |
| `Dispatch`, `Timer` | `pfkey_dispatch`, `pfkey_timer_cb`: `ikev2_rekey_sa`, `ikev2_drop_sa`, `ikev2_acquire_sa` |
| `SoftExpire`, `HardExpire`, `AcquireSa` | the kernel |
| `Die` | the IKE SA is freed (`sa_free`) |

One call to the kernel per behaviour (two in one configuration) may be refused or
be answered late.  Assumed: SPIs of the kernel and nonces are not repeated, a
soft lifetime is longer than an exchange, and a request is lost only together
with its IKE SA (retransmission is `IkeExchange`).  Left out:
NO_ADDITIONAL_SAS with `ikev2_disable_rekeying`, IPCOMP and flows (next module).

### IpsecLoad and PfkeyMsg

`st` is one daemon: IKE SAs with `sa_peer` and `sa_peer_loaded`, `csas` and
`flows` with their `loaded` flags, `activesas`, `activeflows`, `decoupled`, and
the kernel's `sadb` and `spd`.  `PfkeyMsg` builds the messages as sequences of
pieces with their lengths, for OpenBSD, Linux and macOS; every request the model
makes is written with it and remembered in `sent`.  A behaviour has at most one
request that goes wrong.  `blind`, `astray`, `apart` and `trouble` are history:
what was marked as loaded while decoupled, what the kernel has with another
address than `sa_peer_loaded`, whether iked ever was decoupled, whether a request
went wrong.

An SA or a flow becomes astray in these cases only, and `PeerLoadedMatches` holds
of all others.  A request from a new address sets `sa_peer` before any
UPDATE_SA_ADDRESSES (`ikev2.c:3004`): when `ikev2_childsa_enable` then sets
`sa_peer_loaded`, the SAs loaded before stay at the old address; a
`pfkey_sa_delete` meanwhile names an address the kernel does not have; and
`ikectl couple` loads everything with the new one.  On Linux and macOS a move
sends UPDATE with the new peer as destination (`pfkey.c:744`), so that the kernel
does not find the SAs to the peer and they stay where they are.

Actions: `Establish` (`ikev2_childsa_enable` for a new IKE SA), `RespCreate`,
`InitCreate`, `HandleDelete`, `Move` (`ikev2_update_sa_addresses`), `RekeyIke`
(`ikev2_ikesa_enable`), `Free` (`config_free_sa`), `Couple` (`pfkey_couple`).

Left out: `pfkey_flush`, address families the kernel does not support, the
tables of algorithms (one bit, `mapped`, says whether the lookup succeeds) and
the ESN flag.  GETSPI works while decoupled, as in the code.  Two SAs with the
same SPI are left out: `sc_activesas` is keyed by the SPI alone
(`policy.c:1196`), and the SPI of an outgoing SA is chosen by the peer, so that
the `RB_FIND` of `ikev2_childsa_enable` (`ikev2.c:6595`) could meet an SA of
another peer; in the model SPIs are not repeated.

### Policies and Daemon

`Policies` has the functions of `policy.c` and `config.c` as operators on the
record `env` of the ikev2 process (`struct iked`): `policy_lookup`,
`policy_test`, `policy_calc_skip_steps`, `policy_ref`/`policy_unref`,
`config_free_policy`, `sa_free` with the SAs of a pending rekey, and the walk over
all SAs after a reload.  An object that is freed leaves the domain of its
function, and every access through a stale pointer sets `used`.

`PolicyRefs` is an action property with two exceptions, both reached by the run:
the walk after a reload over an SA that was closed during its rekeying
(`WalkMeetsRekey`), and a default policy that a reload has flushed
(`DefaultStale`).  `LookupExact` compares `policy_test` with the rule of
iked.conf(5) for lists without `skip`; for lists with it see the finding
`policy_skip`.

`Daemon` adds the other processes.  `chan[p, q]` are the imsgs from `p` to `q`;
`up` says which processes run; `ps`, `ca`, `ctl` are the parent, the ca and the
control process with its clients.

| action | code |
|---|---|
| `proc_connect`, `proc_ready`, `proc_run`, `proc_dispatch_child` | start and hand-over of the pipes (`proc.c`) |
| `parent_dispatch_*`, `parent_sighup`, `parent_sigchld`, `ParentExit` | `iked.c`; a reload sends all its imsgs in one handler |
| `ca_dispatch_*`, `ikev2_dispatch_*` | the receiving ends |
| `control_accept`, `control_timeout`, `control_close`, `control_dispatch_imsg`, `control_imsg_forward_peerid` | `control.c` |
| `SaStep` | an SA is set up, authenticated, rekeyed or freed (the parts that touch policies) |
| `proc_eof`, `proc_sig_handler`, `Crash` | the end of a process |

A reload of a file with errors goes on with what could be parsed before the
error (`parent_reload` only logs it); at startup such a file ends the daemon.
Each mode imsg carries, for `ActivatedWhole`, the load it belongs to (`load`) and
the load whose policies were sent before it (`cur`).

When a process ends, the imsgs it had queued to another one are all kept or all
lost.  Clients come after the first configuration is loaded.  Left out:
`control_imsg_forward` to notify clients, the imsgs about routes, the fatal exit
of the parent when its key files are missing.

### Proposals

`conf` holds the two configuration files; `pol[e]` are the proposals the grammar's
actions make of them; `sa[e]` has `sa_proposals` and `sa_dhgroup`.  IKE_SA_INIT,
IKE_AUTH and up to `Rounds` further exchanges (new child SA, rekey of one, rekey
of the IKE SA, by either end) run one after the other, so that what one leaves in
`sa_proposals` meets the next.  `proposals_negotiate`, `proposals_match`,
`config_add_transform`, `ikev2_add_proposals` and the handling of
INVALID_KE_PAYLOAD are operators named after the functions; `Common` and
`Compatible` are the reference definition, written without scores.  The tables
are cut to a few algorithms of each type.  Pairs of files that the grammar
refuses, and Linux builds left without an ESP proposal, are not instances
(`Loads`).

### PayloadWalk

The bytes of a message are not modelled: the step that first reads a header field
chooses its value, so that every message has a behaviour.  `pc` names the loop or
handler, the other variables are its locals (`size_t` with `% SizeT`), and `rd` is
the place and the number of the bytes the last step read.  Every comparison,
early return and subtraction of `ikev2_pld_payloads` and the handlers is there.
`verbose` says whether the debug dumps are printed (verbosity 3 and above).  All but
one stay inside their payload.  The exception is in `ikev2_pld_cp`, which prints `cfg_length` bytes from `ptr + sizeof(*cfg)` although `ptr` is past the
header already (line 1950, `CfgRead`), so that the dump of the last attribute ends
four bytes past the payload, and past the buffer if the payload is the last one.
`ReadsInBuffer` and `ReadsInPayload` allow these four bytes, for this payload and
this verbosity, and no other (`Overrun`).  Left out: decryption and what the
values mean.

## 3. Runs

`childsa` and `parse` check for deadlock (a finished behaviour has a stuttering
step of its own).  The others allow the system to stop (`CHECK_DEADLOCK FALSE`):
an SA that both ends have freed, a daemon that has ended, or bounded requests and
events that are used up, are proper ends.

| run | expects | shows |
|---|---|---|
| `exchange` | pass | at-most-once and in-order execution, real answers, no stuck flag, no skipped request; simultaneous IKE SA rekeying under reload, replacement and loss of the address; deadlines and closing timers armed |
| `exchange_live` | pass | every request is settled; a silent close is noticed |
| `frag` | pass | reassembly is complete, within one direction never mixed, and never repeated; requests stay queued until their exchange ends, but for one case |
| `addrpool` | pass | trees that stay exact but for one kind of take-over, complete walk, and the refinement of `AddressLease` |
| `auth` | pass | only verified peers get ESTABLISHED, one message per id, half-open SAs end, refusals arrive, agreeing peers get an SA |
| `auth_reset` | violation of `ClosingIsFinal` | see findings |
| `childsa` | pass | what iked takes for loaded is loaded; ends and kernels agree; a simultaneous rekey leaves one pair and traffic is never without one; expiries are served |
| `ipsec` | pass | well-formed PF_KEY messages, flags against the kernel, exact trees, the loaded peer address of all SAs that are not astray |
| `daemon` | pass | configurations become active as a whole, policy references but for two cases, lookup with skip steps against the rule of iked.conf(5) for lists without `skip`, answers to the right client, nobody left waiting |
| `policy_skip` | violation of `SkipsOnlyItself` | see findings |
| `proposals` | pass | both ends use the same transforms, exactly when the policies have some in common, in the order of preference |
| `parse` | pass | reads stay in the buffer and in their payload, but for four bytes of one debug dump; the parser ends |

Definitions that no run lists are parts of properties, or hold by a proof
(`TypeOK` of `IkeExchange`, `UniqueAddresses`, `SaUsedUp`), or are kept for use
while working on a module (the other `TypeOK`s, `EstablishedTogether`,
`EstablishedHasAddress`, `StickyKeeps`), or state what does not hold, for the
configurations under "Other known disagreements".

Bounds, by run.

`exchange`, `exchange_live`: `MaxReq` lets the initiator start two requests and the other end one (one
each in the liveness run).  Two consecutive requests are what it takes for a
late answer or duplicate of the first to meet the second, one of the peer to
meet them from the other side.  `Tries = 1` has a retransmission and the give-up
after it; the code's five differ only in number.  `FirstId` is `<2, 0>`, as after
IKE_AUTH, in `exchange`, where the other end's first request has id 0 and makes
`sa_msgid_set` matter, and `<0, 0>`, as after a rekey, in `exchange_live`.
Requests that are started inside a handler (`delchild` after a child rekey,
DELETE of the SA) are not bounded by `MaxReq` if they close the SA.  The kinds of
requests and events are split by what interacts: `conf` is one of two setups in
`exchange` (`SafetySetups`), and another in `exchange_live`.

`frag`: one end starts two exchanges, the other one.  That is enough for fragments
of two requests, of two responses, and of a request and a response to meet in one
buffer.  Messages have no, one or two fragments, or three to exceed `FragMax`.

`addrpool`: /30, /31, /32 and a pool that starts in the middle; files with pools of
both families and one with IPv6 only; three SAs and two clients, enough for a
take-over beside another holder of the same pool and for exhaustion of the small
pools.

Handshake (`auth`): two attempts and two SAs of the responder, what a retry with
another DH group takes and what lets a late datagram of one attempt meet the
next.  A run with three SAs of the responder found nothing else.  The
configurations: for each method both ends agree, or one thing is wrong at one
end; all pairs of methods; another policy by address than by id.  `conf.mode`
splits them: in "calm" ones no timer fires before what is under way has arrived
(for `EstablishedTogether` and `Converges`), in "timed" ones timers fire at any
time, in the "managed" one (certificates) the operator resets and reloads too.

Two limits of this run matter.  In all its configurations the responder finds
the same policy by address as by address and proposals (`addr = prop`).  Where
the two differ, the flags an SA has to collect are those of the first policy
(`MCAuthByProposal` below), and `EstablishedIsVerified` cannot be relied on
either: in a trial with a pre-shared key by address, EAP by proposals and id,
and an initiator with a certificate, it does not hold.  And `Converges` leaves
out a responder that learns only from the peer's id that its policy says EAP: at
that point `ikev2_ike_auth_recv` has already decided not to start EAP.

In the rekeying setup of `exchange` the event `resetid` is not enabled.  `ikev2_ikesa_recv_delete`
takes the DELETE of an SA with both `sa_nexti` and `sa_nextr` for the sign that
the peer has kept the SA of its own exchange.  An operator's reset of the old SA
sends such a DELETE as well, whatever the peer has kept, and `RekeyAgreement`
does not hold of it; the same reset deletes the new SAs of that identity, so
that nothing is left to agree on.

`childsa`: one pair at the start, up to two soft expiries (one per end makes a
simultaneous rekey; two at one end a rekey of the new pair), one hard expiry, one
acquire, at most two failing kernel calls; messages in order, or overtaking each
other, which takes retransmission in reality.  `OnePairLeft` is about messages in
order: if a Delete overtakes an answer, two pairs may remain, on which both ends
agree.  It leaves out a responder that asks for another DH group: the retry
changes the SPI that the detection of simultaneous rekeys compares.

`ipsec`: up to five events on two IKE SAs with the same flows, which is what
replacement and hand-over of flows need; one failing request at every place; all
combinations of system, address families, protocol, key lengths and options for
the messages.  Peers move by UPDATE_SA_ADDRESSES in all builds, and in one family
of configurations (`Roaming`, OpenBSD) requests come from a new address at any
time.  `couple` is combined with one IKE SA at a time: with two that have
the same selectors `pfkey_couple` loads the flows of both.

`daemon`: up to three loads of two files, two SAs, three clients on two
descriptors, four policies in a list, each in a family of configurations of its
own (`MCDaemon`).  Peers of both address families and each field of a policy
differ somewhere in the lists.  Three loads of a good file and of one with an
error make two reloads overlap; a rekey, an operator's reset and a reload come
together in `Rekeys`.

`proposals`: the pairs of files in `MCProposals`; three exchanges after IKE_AUTH, enough for a
child exchange after an IKE rekey after a child exchange.  `SettledByPolicy`
excepts `Astray`, and `FirstChoice` an initiator whose first group is "none" (it
sends no KE payload), both described below.

`parse`: datagrams of 29 and 41 bytes and decrypted payloads of 3 and 28, with the
sizes of all structures and their neighbours as values of the length fields;
`ReadsStayInBuffer` and `ReadsStayInPayload` prove the main properties for every size.

Fairness (`childsa`): as long as a message or a kernel message is to be handled,
one is handled in the end.  An end that has lost its IKE SA makes the other one
lose its own (probes, `CloseDetected`).  Fairness (`daemon`): each process that has
an imsg or a closed pipe to handle does so in the end; clients, signals and
crashes are free.  Fairness (`parse`): the parser takes its next step.

Fairness (`exchange_live`): weak fairness of timers that are armed
(`RetransmitTimeout`, `SaTimeout`, `Alive`, `RekeyTimeout`), as libevent runs
every pending timer.  For `Alive` it stands for two more assumptions: DPD is not
switched off (`sc_alive_timeout` is not 0), and the probing condition comes true
on an idle SA, which it does after `IKED_IKE_SA_LAST_RECVD_TIMEOUT` without a
message.  Nothing is assumed of the network or of the peer.  One probe is exempt
from the bound `MaxReq`, or the bound itself would silence the probes.

Fairness (`auth`): weak fairness of armed timers, and of progress: as long as a
datagram that an SA waits for is on the wire, the ca has a request or a new
attempt is due, one of these steps is taken in the end.  It stands for a network
that does not lose every copy of a retransmitted message, a ca that answers and
the initiator's periodic timer.  The formula spells out when progress is possible
(`CanProgress`) instead of using WF, whose ENABLED is too costly for TLC here.
`HalfOpenEnds` does not need it: the timers alone are enough.

### Findings

`auth_reset`: `ikectl reset id` makes a half-open SA CLOSED, but a validation
the ca still owes takes it on to ESTABLISHED and removes its timeout, as neither
`ikev2_dispatch_cert` nor `sa_state` looks at the old state.

`policy_skip`: a policy with `skip` takes others with it.  iked.conf(5) says that
`skip` "will disable evaluation of this policy for incoming connections", but
`policy_calc_skip_steps` ends a run of flags only at a policy that has `skip`
(`policy.c:335`), so that the step `policy_test` takes leads past all policies up
to the next one with `skip`.

### Other known disagreements

Each of these has a configuration in this directory with which TLC shows it
(`tlc -config X.cfg M`); they are not among the runs of `PROJECT.json`.

| configuration, module | property violated | what happens |
|---|---|---|
| `MCFragMixed`, `MCIkeFrag` | `NeverMixed` | the reassembly buffer belongs to the SA and tells messages apart by the number of fragments only (`ikev2_pld.c:1710`); when both ends start an exchange, a request and a response can be mixed |
| `MCFragLostRequest`, `MCIkeFrag` | `NeverLost` | a whole response that arrives while fragments of the peer's request are queued is rejected (`ikev2_pld.c:1844`), but the own request was disposed of before (`ikev2.c:739`, "There's no need to keep the request"); the exchange stays open with nothing to retransmit |
| `MCAddrPoolReload`, `MCAddrPool` | `AlwaysExact` | taking over a client's addresses overwrites the IPv4 address assigned a moment before if the old SA had none (`ikev2.c:7236`); the tree keeps a member without an address.  No address is given out twice even so (`AddressesUnique`, `PoolsImplementLeases`) |
| `MCAuthByProposal`, `MCIkeAuth` | `Converges` | `ikev2_sa_responder` changes the policy of a new SA without recomputing `sa_statevalid` (`ikev2.c:5715`); with EAP by address and a pre-shared key by proposals the responder stays in AUTH_SUCCESS until the exchange timeout |
| `MCPolicyDefault`, `MCDaemon` | `RefsExact` | `config_new_policy` frees the previous default policy (`config.c:870`) after RESET_POLICY has freed it already: `sc_defaultcon` is not cleared when the list is flushed |
| `MCPolicyRekey`, `MCDaemon` | `RefsExact` | `ikectl reset id` closes an SA during its rekeying and leaves `sa_nexti` set; the loop over all SAs after the next reload (`ikev2.c:269`) frees it and with it `sa_nexti` (`policy.c:609`), which may be the SA the loop goes to next |
| `MCReloadOverlap`, `MCDaemon` | `ReadyForThis` | a second reload while the mode imsg of the first is on its way: that imsg makes the ikev2 process active with the policies of the second load before the ca has read its files for it (`config.c:514` sends the mode through the ca to prevent this); the second mode imsg follows |
| `MCIpsecRoaming`, `MCIpsecLoad` | `NoneAstray` | a CREATE_CHILD_SA request from a new address, before UPDATE_SA_ADDRESSES, loads its SAs with that address and sets `sa_peer_loaded`; the older SAs stay at the old one and the later move does not find them ("Update sa_peer_loaded, to match in-kernel information", `ikev2.c:7555`) |
| `MCIpsecMoves`, `MCIpsecLoad` | `NoneAstray` | on Linux and macOS UPDATE names the new peer as destination (`pfkey.c:744`), by which the kernel does not know the SA |
| `MCIpsecDecouple`, `MCIpsecLoad` | `CoupledHasAll` | child SAs negotiated while iked is decoupled are marked as loaded, so `ikectl couple` ("Load the negotiated security associations (SAs) and flows into the kernel") passes over them |
| `MCPayloadDump`, `MCPayloadWalk` | `NoOverrun` | the dump of a configuration attribute at verbosity 3 ends four bytes past it (`ikev2_pld.c:1950`) |

### Observations

Behaviour met while modelling that no property excludes:

* Child SAs.  CHILD_SA_NOT_FOUND leaves `csa_rekey` set, after which the SA is never
  rekeyed and its hard EXPIRE ignored.  A kernel error in GETSPI returns 0 with
  SPI 0.  An enable failure on the second SA of a pair leaves the first one; after
  the Delete was sent it leaves the old pair marked.  An answer to UPDATE that is
  late leaves an SA in the kernel that iked does not know, as do a refused DELETE
  and a failing `pfkey_sagroup` (the IPCOMP SA).  Two ACQUIREs make two pairs.
* INVALID_KE_PAYLOAD.  `ikev2_handle_notifies` looks for the group among the ESP
  proposals if `sa_rekeyspi` is set and among those of IKE otherwise
  (`ikev2.c:3331`).  For an AH child SA it closes the IKE SA, for a child SA made on
  an ACQUIRE it rekeys or closes the IKE SA (`Astray`).  NO_PROPOSAL_CHOSEN to any
  CREATE_CHILD_SA closes the initiator's IKE SA.
* Kernel.  `pfkey_flow_add` takes a timeout for success.
  `ikev2_update_sa_addresses` and `pfkey_couple` add flows for policies with
  `iface`, too, which have none otherwise.
* Daemon.  `ikectl active` may arrive before the certificates are loaded.  Users
  removed from the file survive a reload.  A client's `peerid` is made unique
  against the connections seen so far in one pass over the list.

## 4. Proofs

`IkeExchangeProofs` proves, for all values of the constants that satisfy
`ExchangeAssumption` (any number of requests, retransmissions, any first ids,
setups):

* `ExchangeInvariant`: `ExchangeInv` is invariant;
* `TypeCorrect`, `AtMostOnce` (`RunsInOrder`), `AnswersReal` (`AnswersAreReal`).

`RunsInOrder` is not inductive.  It needs that every request that was run has an
id of at most `sa_msgid`, with `sa_msgid_set` true (`MsgidCovers`).
`AnswersAreReal` needs that all copies of a request with one id agree on its
kind, on the wire and in the queue, and have ids below `sa_reqid`
(`AllRequestsAgree`), that what was run was on the wire (`RunsOnWire`), and that
every response on the wire or in the cache was given when its request was run
(`WireReal`, `CacheReal`).  Their conjunction with `TypeOK` is `ExchangeInv`.
Each C function has a summary lemma (what it keeps, what it may add to the wire
and to the queues), and one lemma per action puts them together.

`AddrPoolProofs` proves `PoolInvariant` and from it `AddressesUnique`, for any
SAs, clients, configurations and sequences of reloads.  The invariant `PoolInv`
adds to uniqueness that an SA with an address is in the tree (`Covered`): then a
lookup that finds nothing shows that the address is free.  The converse, which
`MCAddrPoolReload` refutes, is not needed.

`AddressLeaseProofs` proves `PoolsImplementLeases` (`Spec => LeaseKept`): the
initial states of `AddrPool` map to the one of `AddressLease`, and each step to a
grant, a return or no change, for all constants.  Uniqueness is not enough: the
take-over finds the client's old SA through `sc_dstid_sas`, so the proof needs
that an entry there belongs to an SA in use, that a client has at most one, and
that an SA not in use has no address (`Book`, theorem `Bookkeeping`).  Each C
function has a lemma on what it does to the addresses (`MovedAddr`, `SetAddr`), and
grants for the same client compose (`GrantTrans`), which makes one grant of the
two families of a login.

`PayloadWalkProofs` proves `ReadsStayInBuffer`, `ReadsStayInPayload` (both with the
four bytes of `Overrun`) and `SaIsUsedUp` for datagrams, payloads and length
fields of every size below `SizeT`, whether dumps are printed or not.  The inductive invariant
`IInv` says how the counts nest: what a loop has left ends where the enclosing one
does (`Counts`, `Nested`), which is why no `size_t` subtraction wraps (`SubExact`).

Model-checked only: `ExchangeAccounted`, `NoRequestSkipped`, `TimersArmed`,
`RekeyAgreement`, `TreeExact`, `WalkFindsFree`; all of `IkeFrag`,
`IkeAuth`, `ChildSa`, `IpsecLoad`, `Policies`, `Daemon` and `Proposals`; and
liveness (`RequestSettles`, `CloseDetected`, `HalfOpenEnds`, `RefusalReaches`,
`Converges`, `ExpiryServed`, `NobodyLeftWaiting`, `Terminates`), which needs
fairness and ENABLED and is beyond the prover.  What the recursive walk through a
pool computes for every pool needs induction and is left to TLC as well.

## 5. Not modelled

* Durations: 2 s doubling five times against the 120 s life of a cached response.
  The models let every armed timer fire at any time.
* `enforcesingleikesa` against a rekey in progress: the exchange state
  (`IkeExchange`) and the dstid table (`AddrPool`) would have to be one model.
* Wrap-around of `sa_reqid`: 2^32 requests on one SA.
* An abstract specification of the exchange layer (each request carried out at
  most once, in order, answered truthfully) to be refined by `IkeExchange`; its
  content is proved as invariants (`AtMostOnce`, `AnswersReal`).
* The grammar apart from transforms (`parse.y`), PF_KEY and netlink messages read
  or routed (`vroute*.c`), cryptography, certificates and OCSP, EAP-MSCHAPv2
  computations, logging, `ikectl`'s output and certificate management, the imsg
  buffers and the compatibility layer: translations of data, I/O or library calls
  without state that interacts.
* Allocation failures.

Worth proving next: `TimersArmed`, `ExchangeAccounted`, `NoRequestSkipped`;
`FragmentsCounted`; `EstablishedIsVerified` and `OneMessagePerId` of `IkeAuth`;
`PolicyRefs`; `TreesExact`.
