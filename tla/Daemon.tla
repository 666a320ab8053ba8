------------------------------- MODULE Daemon -------------------------------
(***************************************************************************)
(* The four processes of iked and the pipes between them: start, the       *)
(* hand-over of the pipes, the configuration and its reload, the commands  *)
(* of ikectl through the control socket, signals, and the end.             *)
(*                                                                         *)
(* Source: iked/proc.c, iked/iked.c, iked/control.c, iked/config.c, the    *)
(* dispatch functions of iked/ca.c and iked/ikev2.c; Policies.tla has the  *)
(* policies and SAs of the ikev2 process.                                  *)
(*                                                                         *)
(* A pipe is a socketpair that carries imsgs in order in each direction;   *)
(* chan[p, q] are the imsgs from p that q has not taken, in the send       *)
(* queue of p or in the socket.  Handlers run to completion in the event   *)
(* loop of their process.                                                  *)
(***************************************************************************)
EXTENDS Policies

CONSTANTS
    Confs,        \* what may happen in one life of the daemon, see conf
    Fds           \* the descriptors control has for connections

ASSUME DaemonAssumption == Fds # {}

Parent   == "parent"
Children == {"control", "ca", "ikev2"}
Procs    == {Parent} \cup Children

VARIABLES
    conf,         \* [files, peers, ops, ...]: the inputs of this life
    up,           \* the processes: "start", "run", "killing", "dead"; "lost": not with 0
    pipes,        \* pipes[p]: the processes p has a pipe to
    chan,         \* the imsgs under way
    ps,           \* the parent
    ca,           \* the ca process
    env,          \* the ikev2 process, a record of Policies
    ctl           \* the control process and its clients

vars == <<conf, up, pipes, chan, ps, ca, env, ctl>>

-----------------------------------------------------------------------------
(* Pipes.                                                                  *)

Imsg(type) == [type |-> type]
NoPeer     == 1000000     \* the peerid (uint32_t)-1

\* proc_compose, proc_composev and proc_forward_imsg of a list of imsgs
Compose(c, p, q, msgs) == [c EXCEPT ![p, q] = @ \o msgs]

\* What remains of the imsgs of a process that exits: those in the sockets,
\* not those in its send queues.
Cut(c, p, keep) ==
    [d \in Procs \X Procs |-> IF d[1] = p /\ ~keep THEN <<>> ELSE c[d]]

-----------------------------------------------------------------------------
(* Start.                                                                  *)

\* proc_setup: no pipe is open.
proc_setup == [p \in Procs |-> {}]

\* proc_init in the parent: it has a pipe to every child ...
proc_init == [proc_setup EXCEPT ![Parent] = Children]

\* ... and proc_exec has started them.
proc_exec == [p \in Procs |-> IF p = Parent THEN "run" ELSE "start"]

\* proc_accept: p has a pipe to q; one that it has already is closed again.
proc_accept(p, q) == [pipes EXCEPT ![p] = @ \cup {q}]

\* proc_open: both children get an end of a new pipe.
proc_open(c, src, dst) ==
    LET Fd(q) == <<[type |-> "procfd", dst |-> q]>>
    IN  Compose(Compose(c, Parent, dst, Fd(src)), Parent, src, Fd(dst))

\* proc_connect: a pipe for each pair of children, and then the question
\* whether they are ready.
proc_connect ==
    LET opened == proc_open(proc_open(proc_open(chan, "control", "ca"),
                                      "control", "ikev2"), "ca", "ikev2")
        Ask(c, p) == Compose(c, Parent, p, <<Imsg("procready")>>)
    IN  /\ up[Parent] = "run" /\ ~ps.asked
        /\ chan' = Ask(Ask(Ask(opened, "control"), "ca"), "ikev2")
        /\ ps' = [ps EXCEPT !.asked = TRUE, !.connecting = Cardinality(Children)]
        /\ UNCHANGED <<conf, up, pipes, ca, env, ctl>>

\* control_init and control_listen
control_listen(c) == [c EXCEPT !.listen = "on"]

\* proc_run up to event_dispatch
proc_run(p) ==
    /\ up[p] = "start"
    /\ up' = [up EXCEPT ![p] = "run"]
    /\ pipes' = proc_accept(p, Parent)
    /\ ctl' = IF p = "control" THEN control_listen(ctl) ELSE ctl
    /\ UNCHANGED <<conf, chan, ps, ca, env>>

-----------------------------------------------------------------------------
(* The end.                                                                *)

\* proc_shutdown of a child, or its death by a signal.  p_shutdown of the
\* ikev2 process is ikev2_shutdown.
Exit(p, orderly) ==
    /\ up' = [up EXCEPT ![p] = IF orderly THEN "dead" ELSE "lost"]
    /\ \E keep \in BOOLEAN : chan' = Cut(chan, p, keep)
    /\ env' = IF p = "ikev2" /\ orderly THEN config_doreset(env, "all") ELSE env
    /\ ctl' = IF p = "control" THEN [ctl EXCEPT !.conns = <<>>, !.listen = "off"]
              ELSE ctl
    /\ UNCHANGED <<conf, pipes, ps, ca>>

\* parent_shutdown: proc_kill closes the pipes and waits for the children.
parent_shutdown ==
    /\ up' = [up EXCEPT ![Parent] = "killing"]
    /\ \E keep \in BOOLEAN : chan' = Cut(chan, Parent, keep)
    /\ UNCHANGED <<conf, pipes, ps, ca, env, ctl>>

Gone(p)   == up[p] \in {"dead", "lost"}
Closed(p) == Gone(p) \/ up[p] = "killing"

\* The last waitpid of proc_kill and exit.
ParentExit ==
    /\ up[Parent] = "killing"
    /\ \A p \in Children : Gone(p)
    /\ up' = [up EXCEPT ![Parent] = "dead"]
    /\ UNCHANGED <<conf, pipes, chan, ps, ca, env, ctl>>

\* proc_dispatch: imsgbuf_read returns 0 on the pipe from p, or imsgbuf_write
\* finds it closed (EPIPE), perhaps before all that came from p has been read.
PipeClosed(p, q) ==
    /\ Closed(p) /\ p \in pipes[q]
    /\ chan[p, q] = <<>> \/ chan[q, p] # <<>>

proc_eof(p, q) ==
    /\ up[q] = "run" /\ PipeClosed(p, q)
    /\ IF q = Parent THEN parent_shutdown ELSE Exit(q, TRUE)

\* SIGTERM and SIGINT
proc_sig_handler(p) ==
    /\ up[p] = "run" /\ "term" \in conf.faults
    /\ \A q \in Procs : ~Closed(q)
    /\ IF p = Parent THEN parent_shutdown ELSE Exit(p, TRUE)

\* A child dies: of a signal or of fatal().
Crash(p) ==
    /\ p \in Children /\ up[p] \in {"start", "run"} /\ "crash" \in conf.faults
    /\ \A q \in Procs : ~Closed(q)
    /\ Exit(p, FALSE)

\* SIGCHLD: the parent gives up when a child did not exit with status 0.
parent_sigchld ==
    /\ up[Parent] = "run"
    /\ \E p \in Children : up[p] = "lost"
    /\ parent_shutdown

-----------------------------------------------------------------------------
(* The imsgs of the configuration.  A file has the policies and users that *)
(* could be parsed and says whether there were errors as well.             *)

config_setreset(c, mode, id) ==
    Compose(c, Parent, id, <<[type |-> "reset", mode |-> mode]>>)

config_setkeys(c) == Compose(c, Parent, "ca", <<Imsg("privkey"), Imsg("pubkey")>>)

config_setpfkey(c) == Compose(c, Parent, "ikev2", <<Imsg("pfkey")>>)

config_setcompile(c) == Compose(c, Parent, "ikev2", <<Imsg("compile")>>)

config_setsocket(c, af) ==
    Compose(c, Parent, "ikev2", <<[type |-> "socket", af |-> af]>>)

config_setstatic(c) ==
    Compose(Compose(c, Parent, "ikev2", <<Imsg("static")>>),
            Parent, "ca", <<Imsg("static")>>)

config_setcoupled(c) == Compose(c, Parent, "ikev2", <<Imsg("couple")>>)

config_setocsp(c) == Compose(c, Parent, "ca", <<Imsg("ocsp")>>)

config_setpolicy(c, id, attr) ==
    Compose(c, Parent, "ikev2", <<[type |-> "policy", id |-> id, attr |-> attr]>>)

config_setflow(c, id, flows) ==
    Compose(c, Parent, "ikev2",
            [i \in 1..Cardinality(flows) |->
                [type |-> "flow", id |-> id, flow |-> SetToSeq(flows)[i]]])

config_setuser(c, usr) ==
    Compose(c, Parent, "ikev2", <<[type |-> "user", usr |-> usr]>>)

\* A mode imsg has, for the properties, the number of the load it ends (0 when
\* an operator sent it); the parent adds what it has sent to ikev2, and with
\* which load.
Mode(passive, load) == [type |-> "mode", passive |-> passive, load |-> load]
Sent == [ids |-> ps.ids, users |-> ps.users, cur |-> ps.load]

\* config_setmode: the ca process sends it back to the parent.
config_setmode(c, passive, load) == Compose(c, Parent, "ca", <<Mode(passive, load)>>)

\* parse_config with what create_ike and create_user send; policies are
\* numbered by the counter of create_ike.
parse_config(c, file) ==
    LET Users(d)  == FoldLeft(config_setuser, d, file.users)
        Ike(d, n) == config_setflow(config_setpolicy(d, ps.polid + n, file.pols[n]),
                                    ps.polid + n, file.pols[n].flows)
    IN  FoldLeft(Ike, Users(c), [n \in 1..Len(file.pols) |-> n])

\* What the parent has then sent.
Pairs(users)  == [n \in {users[i].name : i \in 1..Len(users)} |->
                     users[CHOOSE i \in 1..Len(users) : users[i].name = n].pass]
Parsed(file) == [ps EXCEPT !.load = @ + 1, !.polid = @ + Len(file.pols),
                           !.ids = [n \in 1..Len(file.pols) |-> ps.polid + n],
                           !.users = Pairs(file.users)]

\* The sockets of parent_configure: the IKE port unless only the port for NAT
\* traversal is wanted, and that one unless it is not.
Sockets(c) ==
    LET ports == IF conf.natt = "default" THEN 2 ELSE 1
        One(d, af) == config_setsocket(d, af)
        Both(d, af) == IF ports = 2 THEN One(One(d, af), af) ELSE One(d, af)
    IN  Both(Both(c, "v4"), "v6")

\* parent_configure.  A file with errors ends the daemon.
parent_configure(file, c, connecting) ==
    IF file.error
    THEN /\ up' = [up EXCEPT ![Parent] = "killing"]
         /\ chan' = Cut(c, Parent, TRUE)
         /\ ps' = [ps EXCEPT !.connecting = connecting]
    ELSE LET policies == config_setpfkey(parse_config(c, file))
             keys     == config_setreset(config_setkeys(policies), "ca", "ca")
             sockets  == Sockets(config_setcompile(keys))
             rest     == config_setocsp(config_setcoupled(config_setstatic(sockets)))
         IN  /\ ps' = [Parsed(file) EXCEPT !.connecting = connecting,
                                            !.configured = TRUE]
             /\ chan' = config_setmode(rest, file.passive, ps.load + 1)
             /\ UNCHANGED up

\* Mutant: the old policies are not flushed.
parent_reload_noflush(file, c) ==
    LET keys     == config_setreset(config_setkeys(c), "ca", "ca")
        policies == config_setcompile(parse_config(keys, file))
        rest     == config_setocsp(config_setcoupled(config_setstatic(policies)))
    IN  /\ ps' = Parsed(file)
        /\ chan' = config_setmode(rest, file.passive, ps.load + 1)

\* parent_reload(RESET_RELOAD): the policies are flushed before the file is
\* read, and what could be parsed is loaded even if there were errors.
parent_reload(file, c) ==
    LET flushed  == config_setreset(c, "policy", "ikev2")
        keys     == config_setreset(config_setkeys(flushed), "ca", "ca")
        policies == config_setcompile(parse_config(keys, file))
        rest     == config_setocsp(config_setcoupled(config_setstatic(policies)))
    IN  /\ ps' = Parsed(file)
        /\ chan' = config_setmode(rest, file.passive, ps.load + 1)

\* parent_reload with another mode: ikev2 and ca reset what they have.
ParentReset(mode, c) ==
    /\ ps' = [ps EXCEPT !.ids = IF mode \in {"all", "policy"} THEN <<>> ELSE @,
                        !.users = IF mode \in {"all", "user"} THEN <<>> ELSE @]
    /\ chan' = config_setreset(config_setreset(c, mode, "ikev2"), mode, "ca")

-----------------------------------------------------------------------------
(* proc_dispatch: process q takes the next imsg m from p; c are the imsgs  *)
(* that are left.                                                          *)

Takes(p, q) ==
    /\ up[q] = "run" /\ p \in pipes[q] /\ chan[p, q] # <<>>

Next1(p, q) == Head(chan[p, q])
Rest(p, q)  == [chan EXCEPT ![p, q] = Tail(@)]

\* The imsgs that proc_dispatch handles itself in a child: proc_accept of a
\* pipe, the acknowledgement that all pipes are there, and the log level.
proc_dispatch_child(q) ==
    LET m == Next1(Parent, q)
        c == Rest(Parent, q)
    IN  /\ q \in Children /\ Takes(Parent, q)
        /\ \/ /\ m.type = "procfd"
              /\ pipes' = proc_accept(q, m.dst)
              /\ chan' = c
           \/ /\ m.type = "procready"
              /\ chan' = Compose(c, q, Parent, <<Imsg("procready")>>)
              /\ UNCHANGED pipes
           \/ /\ m.type = "verbose"
              /\ chan' = c
              /\ UNCHANGED pipes
        /\ UNCHANGED <<conf, up, ps, ca, env, ctl>>

\* The acknowledgement in the parent: the last one starts the configuration.
proc_ready(p) ==
    LET c == Rest(p, Parent)
    IN  /\ p \in Children /\ Takes(p, Parent)
        /\ Next1(p, Parent).type = "procready"
        /\ IF ps.connecting = 1
           THEN \E file \in conf.files : parent_configure(file, c, 0)
           ELSE /\ ps' = [ps EXCEPT !.connecting = @ - 1]
                /\ chan' = c /\ UNCHANGED up
        /\ UNCHANGED <<conf, pipes, ca, env, ctl>>

\* parent_dispatch_ca: the ca process has done what it was sent before.
parent_dispatch_ca ==
    /\ Takes("ca", Parent) /\ Next1("ca", Parent).type = "mode"
    /\ chan' = Compose(Rest("ca", Parent), Parent, "ikev2",
                       <<Sent @@ Next1("ca", Parent)>>)
    /\ UNCHANGED <<conf, up, pipes, ps, ca, env, ctl>>

\* parent_dispatch_control
parent_dispatch_control ==
    LET m == Next1("control", Parent)
        c == Rest("control", Parent)
    IN  /\ Takes("control", Parent)
        /\ \/ /\ m.type = "reload"
              /\ \E file \in conf.files : parent_reload(file, c)
           \/ /\ m.type = "reset"
              /\ ParentReset(m.mode, c)
           \/ /\ m.type = "couple"
              /\ chan' = config_setcoupled(c)
              /\ UNCHANGED ps
           \/ /\ m.type = "mode"
              /\ chan' = Compose(c, Parent, "ikev2",
                            <<Sent @@ Mode(m.passive, 0)>>)
              /\ UNCHANGED ps
           \/ /\ m.type = "verbose"
              /\ chan' = Compose(Compose(c, Parent, "ikev2", <<m>>), Parent, "ca", <<m>>)
              /\ UNCHANGED ps
        /\ UNCHANGED <<conf, up, pipes, ca, env, ctl>>

\* SIGHUP
parent_sighup ==
    /\ up[Parent] = "run" /\ ps.configured /\ ps.load < conf.loads
    /\ \E file \in conf.files : parent_reload(file, chan)
    /\ UNCHANGED <<conf, up, pipes, ca, env, ctl>>

-----------------------------------------------------------------------------
(* The ca process.                                                         *)

\* ca_getkey and config_getkey: the number of keys of each kind that came
ca_getkey(kind) == [ca EXCEPT ![kind] = @ + 1]
config_getkey(m) == ca' = ca_getkey(m.type)

\* ca_reload: the directories are read and ikev2 is told the type of the
\* certificates, twice if there are authorities.
ca_reload(c) ==
    \E n \in 1..conf.certreqs :
        chan' = Compose(c, "ca", "ikev2", [i \in 1..n |-> Imsg("certreq")])

\* ca_reset: without keys the process would end.
ca_reset(c) ==
    /\ ca.privkey > 0 /\ ca.pubkey > 0
    /\ ca' = [ca EXCEPT !.loaded = ca.pubkey]
    /\ ca_reload(c)

ca_dispatch_parent ==
    LET m == Next1(Parent, "ca")
        c == Rest(Parent, "ca")
    IN  /\ Takes(Parent, "ca")
        /\ \/ m.type \in {"privkey", "pubkey"} /\ config_getkey(m) /\ chan' = c
           \/ m.type = "reset" /\ m.mode \in {"ca", "all"} /\ ca_reset(c)
           \/ /\ m.type = "reset" /\ m.mode \notin {"ca", "all"}
              /\ chan' = c /\ UNCHANGED ca
           \/ m.type \in {"static", "ocsp"} /\ chan' = c /\ UNCHANGED ca
           \/ /\ m.type = "mode"
              /\ chan' = Compose(c, "ca", Parent, <<m>>) /\ UNCHANGED ca
        /\ UNCHANGED <<conf, up, pipes, ps, env, ctl>>

\* ca_dispatch_control
ca_dispatch_control ==
    LET m == Next1("control", "ca")
    IN  /\ Takes("control", "ca") /\ m.type = "show_certstore"
        /\ chan' = Compose(Rest("control", "ca"), "ca", "control", <<m>>)
        /\ UNCHANGED <<conf, up, pipes, ps, ca, env, ctl>>

-----------------------------------------------------------------------------
(* The ikev2 process.                                                      *)

\* ikev2_dispatch_parent; the order of the SAs in sc_sas is that of their
\* SPIs, which are random.
ikev2_dispatch_parent ==
    LET m == Next1(Parent, "ikev2")
    IN  /\ Takes(Parent, "ikev2")
        /\ \/ m.type = "reset"   /\ env' = config_doreset(env, m.mode)
           \/ m.type = "policy"  /\ env' = config_getpolicy(env, m.id, m.attr)
           \/ m.type = "flow"    /\ env' = config_getflow(env, m.id, m.flow)
           \/ m.type = "compile" /\ env' = policy_calc_skip_steps(env)
           \/ m.type = "user"    /\ env' = config_getuser(env, m.usr)
           \/ m.type = "socket"  /\ env' = config_getsocket(env, m.af)
           \/ /\ m.type = "mode"
              /\ \E order \in SetToAllKPermutations(DOMAIN env.sas) :
                     /\ Len(order) = Cardinality(DOMAIN env.sas)
                     /\ env' = DispatchMode(env, m.passive, order)
           \/ m.type \in {"pfkey", "static", "couple"} /\ UNCHANGED env
        /\ chan' = Rest(Parent, "ikev2")
        /\ UNCHANGED <<conf, up, pipes, ps, ca, ctl>>

\* ikev2_dispatch_cert, for the one imsg that is not about an SA
ikev2_dispatch_cert ==
    /\ Takes("ca", "ikev2") /\ Next1("ca", "ikev2").type = "certreq"
    /\ chan' = Rest("ca", "ikev2")
    /\ UNCHANGED <<conf, up, pipes, ps, ca, env, ctl>>

\* ikev2_ctl_reset_id for the SAs of one peer
ikev2_ctl_reset_id(e, id) ==
    [e EXCEPT !.sas = [s \in DOMAIN e.sas |->
        IF e.sas[s].peer.id = id THEN [e.sas[s] EXCEPT !.state = "closed"]
        ELSE e.sas[s]]]

\* Mutant: the answer is composed without the peerid of the request.
ikev2_dispatch_control_nopeer ==
    LET m == Next1("control", "ikev2")
        c == Rest("control", "ikev2")
    IN  /\ Takes("control", "ikev2")
        /\ \/ /\ m.type = "show_sa"
              /\ chan' = Compose(c, "ikev2", "control", <<[m EXCEPT !.peerid = NoPeer]>>)
              /\ UNCHANGED env
           \/ /\ m.type = "reset_id"
              /\ chan' = c /\ env' = ikev2_ctl_reset_id(env, m.id)
        /\ UNCHANGED <<conf, up, pipes, ps, ca, ctl>>

\* ikev2_dispatch_control: the answers carry the peerid of the request.
ikev2_dispatch_control ==
    LET m == Next1("control", "ikev2")
        c == Rest("control", "ikev2")
    IN  /\ Takes("control", "ikev2")
        /\ \/ /\ m.type = "show_sa"
              /\ chan' = Compose(c, "ikev2", "control", <<m>>) /\ UNCHANGED env
           \/ /\ m.type = "reset_id"
              /\ chan' = c /\ env' = ikev2_ctl_reset_id(env, m.id)
        /\ UNCHANGED <<conf, up, pipes, ps, ca, ctl>>

\* Datagrams and timers change the SAs in between.
SaStep ==
    LET free == {s \in 1..conf.sas : s \notin DOMAIN env.sas}
        new  == CHOOSE s \in free : \A t \in free : s <= t
    IN  /\ up["ikev2"] = "run" /\ env.on
        /\ \/ \E p \in conf.peers : free # {} /\ env' = RespondInit(env, new, p)
           \/ \E o \in Initiates(env), p \in conf.peers :
                 /\ ~env.passive /\ free # {}
                 /\ SockaddrEq(p.addr, env.pol[o].peer, env.pol[o].peer.mask)
                 /\ env' = sa_new(env, new, o, TRUE, p)
           \/ \E s \in DOMAIN env.sas :
                 /\ env.sas[s].state = "half" /\ env.sas[s].previ = NoSa
                 /\ env' = AuthRecv(env, s)
           \/ \E s \in DOMAIN env.sas :
                 /\ conf.rekey /\ free # {}
                 /\ env.sas[s].state = "est" /\ env.sas[s].nexti = NoSa
                 /\ env' = StartRekey(env, s, new)
           \/ \E s \in DOMAIN env.sas :
                 /\ env.sas[s].state = "est" /\ env.sas[s].nexti # NoSa
                 /\ env' = EnableRekey(env, s)
           \/ \E s \in DOMAIN env.sas : env' = sa_free(env, s)
        /\ UNCHANGED <<conf, up, pipes, chan, ps, ca, ctl>>

-----------------------------------------------------------------------------
(* The control process.  A client is known by the number of its            *)
(* connection; "answers" are the clients whose commands were answered on   *)
(* it, "asked" the number of its commands that have an answer.             *)

FreeFds == Fds \ {ctl.conns[n].fd : n \in 1..Len(ctl.conns)}

\* Mutant: connections are told apart by their descriptor.
PeeridOf(fd, next, conns) == [id |-> fd, next |-> next]

\* The choice of peerid in control_accept.
Peerid(fd, next, conns) ==
    FoldLeft(LAMBDA r, other : IF r.id = other.peerid
                               THEN [id |-> r.next, next |-> r.next + 1] ELSE r,
             [id |-> next, next |-> next + 1], conns)

\* control_accept: without a descriptor for the new connection it pauses
\* until one is closed or a second has passed.  Operators are taken to wait
\* for the configuration.
control_accept ==
    /\ up["control"] = "run" /\ ctl.listen = "on" /\ ps.configured
    /\ ctl.made < conf.clients
    /\ ctl' = IF FreeFds = {} THEN [ctl EXCEPT !.listen = "paused"]
              ELSE LET fd == CHOOSE f \in FreeFds : \A g \in FreeFds : f <= g
                       r  == Peerid(fd, ctl.next, ctl.conns)
                   IN  [ctl EXCEPT !.made = @ + 1, !.next = r.next,
                          !.conns = Append(@, [fd |-> fd, peerid |-> r.id,
                                               notify |-> FALSE, asked |-> 0,
                                               answers |-> <<>>,
                                               who |-> ctl.made + 1])]
    /\ UNCHANGED <<conf, up, pipes, chan, ps, ca, env>>

\* The pause ends (EV_TIMEOUT).
control_timeout ==
    /\ up["control"] = "run" /\ ctl.listen = "paused"
    /\ ctl' = [ctl EXCEPT !.listen = "on"]
    /\ UNCHANGED <<conf, up, pipes, chan, ps, ca, env>>

\* control_close: the client has gone.
control_close(n) ==
    /\ up["control"] = "run"
    /\ ctl' = [ctl EXCEPT !.conns = RemoveAt(@, n), !.listen = "on"]
    /\ UNCHANGED <<conf, up, pipes, chan, ps, ca, env>>

\* The process that a command is forwarded to.
Handler(type) ==
    CASE type \in {"show_sa", "reset_id"} -> "ikev2"
      [] type = "show_certstore"          -> "ca"
      [] OTHER                            -> Parent

Answered == {"show_sa", "show_certstore"}

\* control_dispatch_imsg: the connection n sends a command.  A request for
\* notification is noted, the second one refused; control_imsg_forward, which
\* shows the command to the connections that are notified, is left out.
control_dispatch_imsg(n) ==
    \E op \in conf.ops :
        LET c == ctl.conns[n]
            m == [peerid |-> c.peerid, who |-> c.who] @@ op
        IN  /\ up["control"] = "run" /\ ctl.asked < conf.requests
            /\ IF op.type = "notify"
               THEN /\ ctl' = [ctl EXCEPT !.asked = @ + 1, !.conns[n] =
                          IF c.notify THEN [c EXCEPT !.asked = @ + 1,
                                                     !.answers = Append(@, c.who)]
                          ELSE [c EXCEPT !.notify = TRUE]]
                    /\ UNCHANGED chan
               ELSE /\ ctl' = [ctl EXCEPT !.asked = @ + 1,
                          !.conns[n].asked = IF op.type \in Answered THEN @ + 1 ELSE @]
                    /\ chan' = Compose(chan, "control", Handler(op.type), <<m>>)
            /\ UNCHANGED <<conf, up, pipes, ps, ca, env>>

\* control_dispatch_ikev2 and control_dispatch_ca: the answer goes to the
\* connections with the peerid of the request.
control_imsg_forward_peerid(p) ==
    LET m == Next1(p, "control")
    IN  /\ p \in {"ikev2", "ca"} /\ Takes(p, "control")
        /\ chan' = Rest(p, "control")
        /\ ctl' = [ctl EXCEPT !.conns = [n \in 1..Len(ctl.conns) |->
               IF ctl.conns[n].peerid = m.peerid
               THEN [ctl.conns[n] EXCEPT !.answers = Append(@, m.who)]
               ELSE ctl.conns[n]]]
        /\ UNCHANGED <<conf, up, pipes, ps, ca, env>>

-----------------------------------------------------------------------------
(* The daemon.                                                             *)

NoEnv == [list |-> <<>>, pol |-> <<>>, defcon |-> NoPolicy, sas |-> <<>>, users |-> <<>>,
          passive |-> FALSE, socks |-> [af \in {"v4", "v6"} |-> 0], on |-> FALSE,
          fatal |-> FALSE, used |-> FALSE]
NoCtl == [listen |-> "off", conns |-> <<>>, next |-> 0, made |-> 0, asked |-> 0]

\* proc_init has forked the children.
Forked ==
    /\ up = proc_exec
    /\ pipes = proc_init
    /\ ps = [asked |-> FALSE, connecting |-> 0, configured |-> FALSE,
             polid |-> 0, load |-> 0, ids |-> <<>>, users |-> <<>>]
    /\ ca = [privkey |-> 0, pubkey |-> 0, loaded |-> 0]
    /\ env = NoEnv
    /\ ctl = NoCtl

\* The first configuration is in use: the children have taken all imsgs of
\* parent_configure.
Running ==
    /\ up = [p \in Procs |-> "run"]
    /\ pipes = [p \in Procs |-> Procs \ {p}]
    /\ ca = [privkey |-> 1, pubkey |-> 1, loaded |-> 1]
    /\ ctl = control_listen(NoCtl)
    /\ \E file \in {f \in conf.files : ~f.error} :
          LET Policy(e, n) ==
                  FoldSet(LAMBDA f, d : config_getflow(d, n, f),
                          config_getpolicy(e, n, file.pols[n]), file.pols[n].flows)
              policies == FoldLeft(Policy, FoldLeft(config_getuser, NoEnv, file.users),
                                   [n \in 1..Len(file.pols) |-> n])
              sockets  == FoldLeft(config_getsocket, policies, <<"v4", "v4", "v6", "v6">>)
          IN  /\ ps = [asked |-> TRUE, connecting |-> 0, configured |-> TRUE,
                       polid |-> Len(file.pols), load |-> 1,
                       ids |-> [n \in 1..Len(file.pols) |-> n],
                       users |-> Pairs(file.users)]
              /\ env = DispatchMode(policy_calc_skip_steps(sockets), file.passive, <<>>)

Init ==
    /\ conf \in Confs
    /\ chan = [d \in Procs \X Procs |-> <<>>]
    /\ IF conf.running THEN Running ELSE Forked

\* What the event loop of a process does with its pipes.
Serve(q) ==
    \/ proc_run(q)
    \/ \E p \in Procs : proc_eof(p, q)
    \/ proc_dispatch_child(q)
    \/ /\ q = Parent
       /\ \/ proc_connect \/ parent_sigchld \/ ParentExit
          \/ parent_dispatch_ca \/ parent_dispatch_control
          \/ \E p \in Children : proc_ready(p)
    \/ q = "ca" /\ (ca_dispatch_parent \/ ca_dispatch_control)
    \/ q = "ikev2" /\ (ikev2_dispatch_parent \/ ikev2_dispatch_cert
                        \/ ikev2_dispatch_control)
    \/ q = "control" /\ \E p \in Procs : control_imsg_forward_peerid(p)

Outside ==
    \/ \E p \in Procs : proc_sig_handler(p) \/ Crash(p)
    \/ parent_sighup
    \/ SaStep
    \/ control_accept \/ control_timeout
    \/ \E n \in 1..Len(ctl.conns) : control_close(n) \/ control_dispatch_imsg(n)

Next == (\E q \in Procs : Serve(q)) \/ Outside

\* The event loop of each process serves its pipes: this is WF_vars(Serve(q))
\* with the guards of Serve(q), and its effects, written out.
CanServe(q) ==
    \/ up[q] = "start"
    \/ up[q] = "run" /\ \E p \in pipes[q] : chan[p, q] # <<>> \/ PipeClosed(p, q)
    \/ q = Parent /\ up[q] = "run" /\ (~ps.asked \/ \E p \in Children : up[p] = "lost")
    \/ q = Parent /\ up[q] = "killing" /\ \A p \in Children : Gone(p)

Served(q) ==
    \/ up'[q] # up[q]
    \/ \E p \in Procs : Len(chan'[p, q]) < Len(chan[p, q])
    \/ q = Parent /\ ps'.asked # ps.asked

Fairness == \A q \in Procs : []<>~CanServe(q) \/ []<><<Served(q)>>_vars

Spec == Init /\ [][Next]_vars /\ Fairness

-----------------------------------------------------------------------------
(* Properties.                                                             *)

\* The mode imsg of a load has not yet come back from the ca process.
ModeToCome(load) ==
    \E d \in {<<Parent, "ca">>, <<"ca", Parent>>} : \E n \in 1..Len(chan[d]) :
        chan[d][n].type = "mode" /\ chan[d][n].load = load

\* When the ikev2 process is told to become active, its policies are those that
\* parse_config took from one file, all of them and no other, its users have the
\* passwords of that file, and the ca process has read its keys and certificates
\* for the same load (config_setmode); and it never gets an imsg it has to
\* refuse.  A file with errors that is loaded again counts with what could be
\* parsed (parent_reload).  One exception: when a reload begins while the mode
\* imsg of an earlier one, or of an operator, is on its way, that imsg activates
\* the newer policies before the ca process is ready for them; then it is ready
\* for the earlier load at least, and the mode imsg of the newer one follows
\* unless the parent ends.
ActivatedWhole ==
    /\ ~env.fatal
    /\ Takes(Parent, "ikev2") /\ Next1(Parent, "ikev2").type = "mode" =>
        LET m == Next1(Parent, "ikev2")
        IN  /\ env.list = m.ids
            /\ \A u \in DOMAIN m.users : u \in DOMAIN env.users /\ env.users[u] = m.users[u]
            /\ \/ ca.loaded >= m.cur
               \/ /\ m.load < m.cur /\ ca.loaded >= m.load
                  /\ ModeToCome(m.cur) \/ Closed(Parent)

\* The SAs of a policy.
Users(o) == {s \in DOMAIN env.sas : env.sas[s].pol = o}

\* Nothing that was freed has been used; a policy that a reload took off the
\* list lives exactly as long as an SA refers to it, and its count is the number
\* of those SAs.
Refs ==
    /\ ~env.used
    /\ \A s \in DOMAIN env.sas : env.sas[s].pol \in DOMAIN env.pol \cup {NoPolicy}
    /\ \A o \in DOMAIN env.pol :
          /\ env.pol[o].sapeers = Users(o)
          /\ env.pol[o].refd => env.pol[o].refcnt = Cardinality(Users(o)) /\ Users(o) # {}
          /\ env.pol[o].refd \/ \E n \in 1..Len(env.list) : env.list[n] = o

\* The walk of a mode imsg meets an SA that is no longer established and still
\* has sa_nexti: it frees the two together, and the second may be the next one.
WalkMeetsRekey ==
    /\ Takes(Parent, "ikev2") /\ Next1(Parent, "ikev2").type = "mode"
    /\ \E s \in DOMAIN env.sas : env.sas[s].state # "est" /\ env.sas[s].nexti # NoSa

\* sc_defaultcon still refers to a policy that was taken off the list.
DefaultStale ==
    /\ env.defcon # NoPolicy
    /\ env.defcon \notin DOMAIN env.pol \/ env.pol[env.defcon].refd

\* No step uses freed memory or leaves a policy freed too early, too late or
\* with a wrong count (config_free_policy, policy_unref, sa_free, the walk over
\* the SAs in ikev2_dispatch_parent), whatever SAs, operators and reloads do
\* meanwhile.  Two exceptions: a mode imsg while an SA that was closed during
\* its rekeying is still there (ikectl reset id), and a default policy that a
\* reload has flushed.
PolicyRefs == [][Refs => Refs' \/ WalkMeetsRekey \/ DefaultStale]_vars

\* All imsgs of the configuration have been taken.
Pending(m) == m.type \in {"reset", "policy", "flow", "compile"}
Compiled == \A n \in 1..Len(chan[Parent, "ikev2"]) : ~Pending(chan[Parent, "ikev2"][n])

\* The keys that policy_test is asked for.
Keys == {MsgKey(p, prop, id, {}) : p \in conf.peers,
             prop \in {""} \cup {q.prop : q \in conf.peers},
             id \in {""} \cup {q.id : q \in conf.peers}}

\* With the configuration complete, policy_test finds through the skip steps the
\* first quick or the last match of the list, as iked.conf(5) describes it, if
\* no policy of the list has "skip"; with such policies, what it finds is at
\* least a policy of the list that matches and does not have "skip".
LookupExact ==
    Compiled => \A key \in Keys :
        LET o    == policy_test(env, key)
            At   == [n \in 1..Len(env.list) |-> env.pol[env.list[n]]]
            skip == \E n \in DOMAIN At : At[n].skip
        IN  /\ ~skip => o = LastMatch(env, key)
            /\ o # NoPolicy => \E n \in DOMAIN At : env.list[n] = o /\ Matches(At[n], key)

\* iked.conf(5), line 311: "skip" disables the evaluation of the policy that has
\* it, so that policy_test finds the same as without that policy.
SkipsOnlyItself ==
    Compiled => \A key \in Keys : policy_test(env, key) = LastMatch(env, key)

\* An answer of the ikev2 or the ca process goes to the client that asked and
\* to no other, also when that has gone and its descriptor is used again.
AnswerToAsker ==
    \A n \in 1..Len(ctl.conns) : \A i \in 1..Len(ctl.conns[n].answers) :
        ctl.conns[n].answers[i] = ctl.conns[n].who

\* A client that stays gets an answer to every command that has one, unless
\* the daemon ends.
Waits(w) == \E n \in 1..Len(ctl.conns) :
               /\ ctl.conns[n].who = w
               /\ ctl.conns[n].asked > Len(ctl.conns[n].answers)
AnswersCome == \A w \in 1..3 : Waits(w) ~> ~Waits(w)

\* Nobody is left waiting: clients are answered, and when one process ends,
\* all do, whichever pipe they wait on.
NobodyLeftWaiting ==
    /\ AnswersCome
    /\ (\E p \in Procs : Closed(p)) ~> (\A p \in Procs : Gone(p))

=============================================================================
