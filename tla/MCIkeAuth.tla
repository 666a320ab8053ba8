----------------------------- MODULE MCIkeAuth -----------------------------
(* Instances of IkeAuth for TLC. *)
EXTENDS IkeAuth

Both(v) == [e \in End |-> v]
Each(i, r) == [e \in End |-> IF e = "I" THEN i ELSE r]

\* Two ends that agree on a method.
Agree(m) ==
    [method |-> Both(m), addr |-> m, prop |-> m, known |-> Both(TRUE),
     cred |-> Both("good"), dh |-> "same", esp |-> TRUE,
     child |-> Both("ok"), mode |-> "timed"]

\* What can be wrong with the credentials of an end, where it matters.
Faults == [psk  |-> Both({"badkey"}),
           cert |-> Both({"badkey", "badcert", "nocert"}),
           eap  |-> Each({"badkey"}, {"nocert"})]

\* One thing is wrong at one end.
Wrong(m) ==
    {[Agree(m) EXCEPT !.cred = Each(c, "good")] : c \in Faults[m]["I"]}
    \cup {[Agree(m) EXCEPT !.cred = Each("good", c)] : c \in Faults[m]["R"]}
    \cup {[Agree(m) EXCEPT !.known = Each(b, ~b)] : b \in BOOLEAN}
    \cup {[Agree(m) EXCEPT !.child = Each("ok", c)] : c \in {"refused", "unloaded"}}
    \cup {[Agree(m) EXCEPT !.child = Each("refused", "ok")],
          [Agree(m) EXCEPT !.esp = FALSE]}

Groups(m) == {[Agree(m) EXCEPT !.dh = d] : d \in {"retry", "none"}}

\* The ends use different methods; m is the responder's.
Mixed == {[Agree(m) EXCEPT !.method = Each(i, m)] : i, m \in Methods}

\* The policy for the id is not the one for the address.
Policies == {[Agree(m) EXCEPT !.addr = n, !.prop = n] : m, n \in Methods}

Timed == UNION {{Agree(m)} \cup Wrong(m) \cup Groups(m) : m \in Methods}
         \cup Mixed \cup Policies
\* Where the responder learns from the peer's id that it wants EAP, it is too
\* late to ask for it.
Calm == {[c EXCEPT !.mode = "calm"] :
            c \in UNION {{Agree(m)} \cup Groups(m) : m \in Methods}
                  \cup {d \in Policies : d.method["R"] = "eap" => d.prop = "eap"}}
Managed == {[Agree("cert") EXCEPT !.mode = "managed"]}
AllConfs == Timed \cup Calm \cup Managed

\* By address alone the last policy matches, which asks for EAP; by its
\* proposals and its id the peer belongs to one with a pre-shared key.
ByProposal == {[Agree("psk") EXCEPT !.addr = "eap", !.mode = "calm"]}
=============================================================================
