--------------------------- MODULE PayloadWalk ---------------------------
(***************************************************************************)
(* The payload parser of src/iked/ikev2_pld.c.  A received message is a    *)
(* chain of payloads, each with a length of its own; an SA payload holds   *)
(* proposals, which hold transforms, which hold attributes, each with its  *)
(* own length again; traffic selector and configuration payloads hold      *)
(* lists.  The parser carries an offset and a count of remaining bytes     *)
(* down that tree, in size_t arithmetic, and reads the buffer through raw  *)
(* pointers: nothing but these counts keeps a read inside the datagram.    *)
(*                                                                         *)
(* The bytes are not modelled: each header field is chosen by the step     *)
(* that first reads it, so that a behaviour of the model is a run of the   *)
(* parser on some message, and every message has a behaviour.              *)
(***************************************************************************)
EXTENDS Integers

CONSTANTS
  Sizes,        \* the sizes a datagram may have
  EncSizes,     \* the sizes a decrypted SK payload, or reassembled message, may have
  Lens,         \* the values of the 8, 16 and 32 bit length and count fields
  SizeT         \* size_t is computed modulo this number

ASSUME ConstantsAssumption ==
  /\ Sizes \subseteq Nat /\ EncSizes \subseteq Nat /\ Lens \subseteq Nat
  /\ SizeT \in Nat /\ SizeT > 64
  /\ \A s \in Sizes \cup EncSizes \cup Lens : s < SizeT

VARIABLES
  pc,           \* the loop or handler the parser is in
  size,         \* ibuf_size(msg->msg_data)
  length,       \* the end of the walk: ike_length, or the decrypted size
  enc, peer,    \* msg_e; ikev2_msg_frompeer(msg)
  quick,        \* the walk is that of ikev2_pld_parse_quick
  verbose,      \* log_getverbose() >= 3: print_hex dumps what it is given
  offset, total, left, type, nxt,      \* locals of ikev2_pld_payloads
  ret,          \* what the handler returned (TRUE for 0)
  o1, l1, t1, more,    \* offset, left, total and sap_more of ikev2_pld_sa;
                       \* offset and left of ikev2_pld_tss and ikev2_pld_cp
  o2, t2, x2, more2,   \* offset, total, xfrm_length, xfrm_more of _xform
  o3, t3,              \* offset and total of ikev2_pld_attr
  lap,                 \* parity of the rounds of a loop, so that a round that
                       \* consumes nothing is still a step
  cnt,                 \* selectors still to come in ikev2_pld_tss
  got,                 \* what msg_parent holds already
  rd                   \* <<offset, bytes>> of the read the last step made

walk == <<size, length, enc, peer, quick, verbose>>
cursor == <<offset, total, left, type, nxt>>
sa == <<o1, l1, t1, more>>
xform == <<o2, t2, x2, more2>>
attr == <<o3, t3, lap>>
vars == <<pc, walk, cursor, ret, sa, xform, attr, cnt, got, rd>>

-----------------------------------------------------------------------------
(* Sizes of the wire structures (ikev2.h, eap.h), and unsigned subtraction. *)

IkeHdr == 28
PldHdr == 4
SapHdr == 8
XfrmHdr == 8
AttrHdr == 4
TsHdr == 8
CfgHdr == 4
\* KE, ID, AUTH, Notify, Delete, TSi/TSr, CP, EAP and SKF headers are 4 bytes
\* long; CERT and CERTREQ have one byte.
BodyHdr == 4
CertHdr == 1

Sub(a, b) == IF a >= b THEN a - b ELSE a - b + SizeT

ClearTypes == {"sa", "ke", "certreq", "nonce", "notify", "sk", "skf"}
EncTypes ==
  {"sa", "ke", "certreq", "nonce", "notify", "idi", "idr", "cert", "auth",
   "delete", "ts", "cp", "eap"}
Types == ClearTypes \cup EncTypes \cup {"none", "other"}

\* The switch of ikev2_pld_payloads: what has a handler in the clear, and what
\* has one inside an encrypted payload.  The rest falls to the default case.
Parsed == IF quick THEN {"skf"} ELSE IF enc THEN EncTypes ELSE ClearTypes

-----------------------------------------------------------------------------
(* Steps common to the handlers. *)

\* The walk ends with an error.  A failed walk of our own decrypted message is
\* only a failed handler of the outer walk, which ignores it and returns 0.
Reject == pc' = IF enc /\ ~peer THEN "done" ELSE "fail"

\* The locals of a handler end with it.
SaDead == o1' = 0 /\ l1' = 0 /\ t1' = 0 /\ more' = FALSE
XformDead == o2' = 0 /\ t2' = 0 /\ x2' = 0 /\ more2' = FALSE
AttrDead == o3' = 0 /\ t3' = 0 /\ lap' = FALSE

LocalsDead == SaDead /\ XformDead /\ AttrDead /\ cnt' = 0

\* The handler returns; it read n bytes from its offset and stored items.
Returns(ok, n, items) ==
  /\ pc' = "ret"
  /\ ret' = ok
  /\ rd' = <<offset, n>>
  /\ got' = got \cup items
  /\ LocalsDead
  /\ UNCHANGED <<walk, cursor>>

\* A loop of the handler stops with an error after reading n bytes at lo.
Bails(lo, n) ==
  /\ pc' = "ret"
  /\ ret' = FALSE
  /\ rd' = <<lo, n>>
  /\ LocalsDead
  /\ UNCHANGED <<walk, cursor, got>>

\* Payloads that may occur once: a second one from the peer is an error.
Once(item, n) ==
  IF peer THEN Returns(item \notin got, n, {item}) ELSE Returns(TRUE, n, {})

-----------------------------------------------------------------------------
(* ikev2_pld_payloads: the walk over the chain. *)

WalkEnd ==
  /\ pc = "walk"
  /\ type = "none" \/ offset >= length
  /\ pc' = "done"
  /\ rd' = <<offset, 0>>
  /\ UNCHANGED <<walk, cursor, ret, sa, xform, attr, cnt, got>>

\* Mutant: the length is not compared with what is left.
PldFitsAny(len) == len >= PldHdr

\* ikev2_validate_pld: the header must fit, the payload must fit, and the
\* payload must be no shorter than its header.
PldFits(len) == total >= len /\ len >= PldHdr

Enter(len, np) ==
  /\ offset' = offset + PldHdr
  /\ total' = Sub(total, PldHdr)
  /\ left' = Sub(len, PldHdr)
  /\ nxt' = np
  /\ pc' = IF type \in Parsed THEN "pld" ELSE "ret"
  /\ ret' = TRUE
  /\ UNCHANGED type

WalkPayload ==
  /\ pc = "walk"
  /\ type # "none" /\ offset < length
  /\ UNCHANGED <<walk, sa, xform, attr, cnt, got>>
  /\ \/ /\ total < PldHdr
        /\ Reject
        /\ rd' = <<offset, 0>>
        /\ UNCHANGED <<cursor, ret>>
     \/ /\ total >= PldHdr
        /\ rd' = <<offset, PldHdr>>
        /\ \E len \in Lens, np \in Types :
             \/ PldFits(len) /\ Enter(len, np)
             \/ ~PldFits(len) /\ Reject /\ UNCHANGED <<cursor, ret>>

\* The tail of the loop: an error in a message of the peer ends the walk, an
\* SK or SKF payload is the last one, anything else is stepped over.  The
\* quick parser steps over everything.
Last == ~quick /\ type \in {"sk", "skf"}

WalkNext ==
  /\ pc = "ret"
  /\ rd' = <<offset, 0>>
  /\ UNCHANGED <<walk, ret, sa, xform, attr, cnt, got>>
  /\ \/ /\ ~ret /\ peer
        /\ pc' = "fail"
        /\ UNCHANGED cursor
     \/ /\ ret \/ ~peer
        /\ Last
        /\ pc' = "done"
        /\ UNCHANGED cursor
     \/ /\ ret \/ ~peer
        /\ ~Last
        /\ pc' = "walk"
        /\ type' = nxt
        /\ offset' = offset + left
        /\ total' = Sub(total, left)
        /\ left' = 0 /\ nxt' = "none"

-----------------------------------------------------------------------------
(* SA payload: proposals, transforms, attributes. *)

PldSa ==
  /\ pc = "pld" /\ type = "sa"
  /\ pc' = "sa"
  /\ o1' = offset /\ l1' = left /\ t1' = 0 /\ more' = TRUE
  /\ rd' = <<offset, 0>>
  /\ UNCHANGED <<walk, cursor, ret, xform, attr, cnt, got>>

\* ikev2_validate_sa.
SapFits(len, m) ==
  /\ len >= SapHdr
  /\ l1 >= len
  /\ IF m THEN l1 > len ELSE l1 = len

\* The SPI must fit the payload and the proposal, and have 4 or 8 bytes.
SpiFits(len, sz) ==
  \/ sz = 0
  \/ /\ Sub(l1, SapHdr) >= sz
     /\ Sub(len, SapHdr) >= sz
     /\ sz \in {4, 8}

\* "Just to be sure we keep it".
TotalFits(len, sz) == Sub(l1, SapHdr + sz) >= Sub(len, SapHdr + sz)

ProposalFits(len, sz, m) ==
  SapFits(len, m) /\ SpiFits(len, sz) /\ TotalFits(len, sz)

Proposal ==
  /\ pc = "sa"
  /\ \/ l1 < SapHdr /\ Bails(o1, 0)
     \/ /\ l1 >= SapHdr
        /\ \E len \in Lens, sz \in Lens, m \in BOOLEAN, xforms \in BOOLEAN :
             \/ ~ProposalFits(len, sz, m) /\ Bails(o1, SapHdr)
             \/ /\ ProposalFits(len, sz, m)
                /\ rd' = <<o1, SapHdr + sz>>
                /\ o1' = o1 + SapHdr + sz
                /\ l1' = Sub(l1, SapHdr + sz)
                /\ t1' = Sub(len, SapHdr + sz)
                /\ more' = m
                /\ IF xforms
                   THEN /\ pc' = "xform"
                        /\ o2' = o1' /\ t2' = t1' /\ x2' = 0 /\ more2' = TRUE
                   ELSE pc' = "sanext" /\ XformDead
                /\ UNCHANGED <<walk, cursor, ret, attr, cnt, got>>

\* The end of the do-while of ikev2_pld_sa.
ProposalNext ==
  /\ pc = "sanext"
  /\ rd' = <<o1, 0>>
  /\ o1' = o1 + t1
  /\ l1' = Sub(l1, t1)
  /\ pc' = IF more THEN "sa" ELSE "saend"
  /\ UNCHANGED <<walk, cursor, ret, t1, more, xform, attr, cnt, got>>

SaEnd == pc = "saend" /\ Returns(TRUE, 0, {})

\* ikev2_validate_xform.
XfrmFits(len) == len >= XfrmHdr /\ t2 >= len

Transform ==
  /\ pc = "xform"
  /\ \/ t2 < XfrmHdr /\ Bails(o2, 0)
     \/ /\ t2 >= XfrmHdr
        /\ \E len \in Lens, m \in BOOLEAN :
             \/ ~XfrmFits(len) /\ Bails(o2, XfrmHdr)
             \/ /\ XfrmFits(len)
                /\ rd' = <<o2, XfrmHdr>>
                /\ x2' = len /\ more2' = m
                /\ IF len > XfrmHdr
                   THEN /\ pc' = "attr"
                        /\ o3' = o2 + XfrmHdr
                        /\ t3' = Sub(len, XfrmHdr)
                        /\ UNCHANGED lap
                   ELSE pc' = "xnext" /\ AttrDead
                /\ UNCHANGED <<walk, cursor, ret, sa, o2, t2, cnt, got>>

\* config_add_transform may not know the type (-2): for the peer's message the
\* proposal is dropped and the next one is tried.
TransformNext ==
  /\ pc = "xnext"
  /\ \/ /\ peer
        /\ pc' = "sanext"
        /\ rd' = <<o2, 0>>
        /\ XformDead
        /\ UNCHANGED <<walk, cursor, ret, sa, attr, cnt, got>>
     \/ ~more2 /\ Sub(t2, x2) # 0 /\ Bails(o2, 0)
     \/ /\ ~more2 /\ Sub(t2, x2) = 0
        /\ pc' = "sanext"
        /\ rd' = <<o2, 0>>
        /\ XformDead
        /\ UNCHANGED <<walk, cursor, ret, sa, attr, cnt, got>>
     \/ /\ more2
        /\ pc' = "xform"
        /\ o2' = o2 + x2
        /\ t2' = Sub(t2, x2)
        /\ rd' = <<o2, 0>>
        /\ UNCHANGED <<walk, cursor, ret, sa, x2, more2, attr, cnt, got>>

\* Mutant: an attribute may be shorter than its header.
AttrFitsEmpty(len) == t3 >= len

\* ikev2_pld_attr: a Type-Value attribute is its header; a Type-Length-Value
\* attribute must hold its header and fit the transform.
AttrFits(len) == len >= AttrHdr /\ t3 >= len

AttrSize(tv, len) == IF tv THEN AttrHdr ELSE len

Attribute ==
  /\ pc = "attr"
  /\ \/ t3 < AttrHdr /\ Bails(o3, 0)
     \/ /\ t3 >= AttrHdr
        /\ \E len \in Lens, tv \in BOOLEAN :
             \/ ~tv /\ ~AttrFits(len) /\ Bails(o3, AttrHdr)
             \/ /\ tv \/ AttrFits(len)
                /\ rd' = <<o3, AttrSize(tv, len)>>
                /\ IF Sub(t3, AttrSize(tv, len)) > 0
                   THEN /\ pc' = "attr"
                        /\ o3' = o3 + AttrSize(tv, len)
                        /\ t3' = Sub(t3, AttrSize(tv, len))
                        /\ lap' = ~lap
                   ELSE pc' = "xnext" /\ AttrDead
                /\ UNCHANGED <<walk, cursor, ret, sa, xform, cnt, got>>

-----------------------------------------------------------------------------
(* Payloads without inner structure. *)

PldKe ==
  /\ pc = "pld" /\ type = "ke"
  /\ \/ left < BodyHdr /\ Returns(FALSE, 0, {})
     \/ left = BodyHdr /\ Returns(FALSE, BodyHdr, {})
     \/ left > BodyHdr /\ Once("ke", left)

\* An identity of type zero, or one ikev2_print_id cannot print, is an error.
\* The responder stores IDi as the peer's and IDr as its own identity, the
\* initiator only IDr (as the peer's).
PldId ==
  /\ pc = "pld" /\ type \in {"idi", "idr"}
  /\ \/ left < BodyHdr /\ Returns(FALSE, 0, {})
     \/ left >= BodyHdr /\ Returns(FALSE, BodyHdr, {})
     \/ left = BodyHdr /\ Returns(FALSE, left, {})
     \/ /\ left > BodyHdr
        /\ \/ Returns(FALSE, left, {})
           \/ \E initiator \in BOOLEAN :
                IF initiator
                THEN IF type = "idr" THEN Once("peerid", left)
                                     ELSE Returns(TRUE, left, {})
                ELSE Once(IF type = "idi" THEN "peerid" ELSE "localid", left)

\* Certificates beyond the first and IKED_SCERT_MAX more are ignored.
PldCert ==
  /\ pc = "pld" /\ type = "cert"
  /\ \/ left < CertHdr /\ Returns(FALSE, 0, {})
     \/ left >= CertHdr /\ Returns(FALSE, CertHdr, {})
     \/ left >= CertHdr /\ Returns(TRUE, left, {})

\* A request for X.509 authorities is a list of SHA-1 hashes.
PldCertReq ==
  /\ pc = "pld" /\ type = "certreq"
  /\ \/ left < CertHdr /\ Returns(FALSE, 0, {})
     \/ /\ left >= CertHdr
        /\ \E x509 \in BOOLEAN :
             Returns(~peer \/ ~x509 \/ (left - CertHdr) % 20 = 0, left, {})

PldAuth ==
  /\ pc = "pld" /\ type = "auth"
  /\ \/ left < BodyHdr /\ Returns(FALSE, 0, {})
     \/ left >= BodyHdr /\ Returns(FALSE, BodyHdr, {})
     \/ left >= BodyHdr /\ Once("auth", left)

PldNonce ==
  /\ pc = "pld" /\ type = "nonce"
  /\ IF left = 0 THEN Returns(FALSE, 0, {}) ELSE Once("nonce", left)

\* The first Delete of a request is stored before its list is checked; a
\* Delete in a response is skipped.
PldDelete ==
  /\ pc = "pld" /\ type = "delete"
  /\ \/ left < BodyHdr /\ Returns(FALSE, 0, {})
     \/ left >= BodyHdr /\ Returns(FALSE, BodyHdr, {})
     \/ /\ left >= BodyHdr
        /\ \E response \in BOOLEAN, sz \in Lens, nspi \in Lens :
             IF (peer /\ response) \/ "delete" \in got
             THEN Returns(TRUE, BodyHdr, {})
             ELSE IF left = BodyHdr \/ sz = 0 \/ nspi = 0
             THEN Returns(TRUE, BodyHdr, {"delete"})
             ELSE IF (left - BodyHdr) \div sz # nspi
             THEN Returns(FALSE, BodyHdr, {"delete"})
             ELSE Returns(TRUE, left, {"delete"})

\* eap_parse may refuse what it is given.
PldEap ==
  /\ pc = "pld" /\ type = "eap"
  /\ \/ left < BodyHdr /\ Returns(FALSE, 0, {})
     \/ /\ left >= BodyHdr
        /\ \E len \in Lens :
             IF len # left THEN Returns(FALSE, BodyHdr, {})
             ELSE \E ok \in BOOLEAN : Returns(len <= BodyHdr \/ ok, left, {})

-----------------------------------------------------------------------------
(* Notify payloads: ikev2_pld_notify. *)

\* Errors, NAT detection, rekeying and IPCOMP: the first cases of the switch.
FirstNotify ==
  {"nat_detection", "authentication_failed", "invalid_ke", "no_additional_sas",
   "rekey_sa", "temporary_failure", "ipcomp"}

\* What a SA or a policy supports, and cookies: the other cases.
SecondNotify ==
  {"child_sa_not_found", "no_proposal", "mobike", "use_transport",
   "update_sa_addresses", "cookie2", "cookie", "fragmentation", "signature_hash"}

Malformed(ok, verdict) == IF ok THEN "taken" ELSE verdict

\* valid: the SA is in VALID; wanted: its role and state admit
\* AUTHENTICATION_FAILED.
FirstVerdict(n, len, spisize, valid, wanted) ==
  IF ~enc /\ n # "nat_detection" /\ (n = "invalid_ke" => valid) THEN "error"
  ELSE CASE n = "nat_detection" -> Malformed(len = 20, "error")
         [] n = "authentication_failed" -> Malformed(wanted, "error")
         [] n = "invalid_ke" -> Malformed(len = 2, "error")
         [] n = "rekey_sa" -> Malformed(len = spisize /\ spisize \in {4, 8}, "error")
         [] n = "ipcomp" -> Malformed(len >= 3, "ignored")
         [] OTHER -> "taken"

\* Cookies and what IKE_SA_INIT announces come in the clear, NO_PROPOSAL_CHOSEN
\* either way, the others encrypted.
SecondVerdict(n, len) ==
  IF n # "no_proposal" /\ enc = (n \in {"cookie", "fragmentation", "signature_hash"})
  THEN "error"
  ELSE CASE n \in {"mobike", "use_transport", "update_sa_addresses",
                   "fragmentation"} -> Malformed(len = 0, "ignored")
         [] n = "cookie2" -> Malformed(len \in 8..64, "ignored")
         [] n = "cookie" -> Malformed(len \in 1..64, "ignored")
         [] n = "signature_hash" -> Malformed(len >= 2 /\ len % 2 = 0, "ignored")
         [] OTHER -> "taken"

Verdict(n, len, spisize, valid, wanted) ==
  CASE n \in FirstNotify -> FirstVerdict(n, len, spisize, valid, wanted)
    [] n \in SecondNotify -> SecondVerdict(n, len)
    [] OTHER -> "ignored"

\* A message of this host is not looked at further; one SA is rekeyed at a time.
PldNotify ==
  /\ pc = "pld" /\ type = "notify"
  /\ \/ left < BodyHdr /\ Returns(FALSE, 0, {})
     \/ /\ left >= BodyHdr
        /\ \E n \in FirstNotify \cup SecondNotify \cup {"unknown"},
              spisize \in {0, 4, 8}, valid \in BOOLEAN, wanted \in BOOLEAN :
             LET verdict == Verdict(n, left - BodyHdr, spisize, valid, wanted)
             IN  IF ~peer THEN Returns(TRUE, left, {})
                 ELSE IF n = "rekey_sa" /\ verdict = "taken" THEN Once("rekey", left)
                 ELSE Returns(verdict # "error", left, {})

-----------------------------------------------------------------------------
(* Traffic selectors and configuration attributes. *)

PldTss ==
  /\ pc = "pld" /\ type = "ts"
  /\ \/ left < BodyHdr /\ Returns(FALSE, 0, {})
     \/ /\ left >= BodyHdr
        /\ pc' = "tss"
        /\ o1' = offset + BodyHdr
        /\ l1' = Sub(left, BodyHdr)
        /\ cnt' \in Lens
        /\ rd' = <<offset, BodyHdr>>
        /\ UNCHANGED <<walk, cursor, ret, t1, more, xform, attr, got>>

\* Mutant: the selector may reach past the payload.
TsFitsLoose(len) == len >= TsHdr

\* ikev2_validate_ts, and ikev2_pld_ts, which wants exactly two addresses of
\* a known family and ignores an unknown one.
TsFits(len) == len >= TsHdr /\ l1 >= len

TsAddrs == {8, 32}

Selector ==
  /\ pc = "tss"
  /\ \/ cnt = 0 /\ Returns(TRUE, 0, {})
     \/ cnt > 0 /\ l1 < TsHdr /\ Bails(o1, 0)
     \/ /\ cnt > 0 /\ l1 >= TsHdr
        /\ \E len \in Lens, want \in TsAddrs \cup {0} :
             \/ ~TsFits(len) /\ Bails(o1, TsHdr)
             \/ /\ TsFits(len)
                /\ want # 0 /\ len - TsHdr # want
                /\ Bails(o1, IF len - TsHdr < want THEN TsHdr ELSE TsHdr + want)
             \/ /\ TsFits(len)
                /\ want = 0 \/ len - TsHdr = want
                /\ rd' = <<o1, TsHdr + want>>
                /\ o1' = o1 + len
                /\ l1' = Sub(l1, len)
                /\ cnt' = cnt - 1
                /\ lap' = ~lap
                /\ UNCHANGED <<pc, walk, cursor, ret, t1, more, xform, o3, t3,
                               got>>

PldCp ==
  /\ pc = "pld" /\ type = "cp"
  /\ \/ left < BodyHdr /\ Returns(FALSE, 0, {})
     \/ /\ left >= BodyHdr
        /\ pc' = "cp"
        /\ o1' = offset + BodyHdr
        /\ l1' = Sub(left, BodyHdr)
        /\ rd' = <<offset, IF verbose THEN left ELSE BodyHdr>>
        /\ UNCHANGED <<walk, cursor, ret, t1, more, xform, attr, cnt, got>>

\* An address attribute of the peer holds nothing, or an address (4 or 16
\* bytes) that is stored unless one is there; other attributes are skipped.
CfgFits(len) == Sub(l1, CfgHdr) >= len

CfgShort(len, need) == peer /\ len > 0 /\ len < need

\* The bytes read of an attribute that fits.  print_hex is given a pointer past
\* the header and the length of the header as an offset, so that the value it
\* dumps is taken from four bytes further on.
CfgRead(len, need) ==
  CfgHdr + (IF verbose /\ len > 0 THEN CfgHdr + len
            ELSE IF peer /\ len > 0 THEN need ELSE 0)

Attributes ==
  /\ pc = "cp"
  /\ \/ l1 = 0 /\ Returns(TRUE, 0, {})
     \/ l1 > 0 /\ l1 < CfgHdr /\ Bails(o1, 0)
     \/ /\ l1 >= CfgHdr
        /\ \E len \in Lens, need \in {0, 4, 16} :
             \/ ~CfgFits(len) /\ Bails(o1, CfgHdr)
             \/ CfgFits(len) /\ CfgShort(len, need) /\ Bails(o1, CfgRead(len, 0))
             \/ /\ CfgFits(len) /\ ~CfgShort(len, need)
                /\ rd' = <<o1, CfgRead(len, need)>>
                /\ o1' = o1 + CfgHdr + len
                /\ l1' = Sub(l1, CfgHdr + len)
                /\ lap' = ~lap
                /\ UNCHANGED <<pc, walk, cursor, ret, t1, more, xform, o3, t3,
                               cnt, got>>

-----------------------------------------------------------------------------
(* SK and SKF: ikev2_pld_e and ikev2_pld_ef hand the decrypted payloads to   *)
(* ikev2_pld_payloads again.  What follows them in the outer message is not  *)
(* looked at, so the inner walk takes the place of the outer one.            *)

PldE ==
  /\ pc = "pld" /\ type \in {"sk", "skf"} /\ ~quick
  /\ \/ type = "skf" /\ left < BodyHdr /\ Returns(FALSE, 0, {})
     \/ /\ type = "sk" \/ left >= BodyHdr
        /\ \/ Returns(FALSE, left, {})                  \* not decrypted
           \/ type = "skf" /\ Returns(TRUE, left, {})   \* fragments missing
           \/ /\ size' \in EncSizes
              /\ length' = size' /\ total' = size' /\ offset' = 0
              /\ enc' = TRUE
              /\ type' = nxt
              /\ pc' = "walk"
              /\ rd' = <<0, 0>>
              /\ left' = 0 /\ nxt' = "none"
              /\ UNCHANGED <<peer, quick, verbose, ret, sa, xform, attr, cnt, got>>

\* ikev2_pld_parse_quick, which has no SA yet, only notes the fragment number.
PldQuick ==
  /\ pc = "pld" /\ quick
  /\ \/ /\ left < BodyHdr
        /\ pc' = "fail"
        /\ rd' = <<offset, 0>>
        /\ UNCHANGED <<walk, cursor, ret, sa, xform, attr, cnt, got>>
     \/ left >= BodyHdr /\ Returns(TRUE, BodyHdr, {})

-----------------------------------------------------------------------------
(* ikev2_pld_parse: a datagram shorter than it says is refused. *)

Accepted(len) == size >= len

Init ==
  /\ size \in Sizes
  /\ length \in Lens
  /\ pc = IF Accepted(length) THEN "walk" ELSE "fail"
  /\ enc = FALSE /\ peer \in BOOLEAN /\ quick \in BOOLEAN
  /\ verbose \in BOOLEAN
  /\ offset = IkeHdr /\ total = Sub(length, IkeHdr) /\ left = 0
  /\ type \in Types /\ nxt = "none"
  /\ ret = TRUE
  /\ o1 = 0 /\ l1 = 0 /\ t1 = 0 /\ more = FALSE
  /\ o2 = 0 /\ t2 = 0 /\ x2 = 0 /\ more2 = FALSE
  /\ o3 = 0 /\ t3 = 0 /\ lap = FALSE
  /\ cnt = 0 /\ got = {} /\ rd = <<0, 0>>

Walk == WalkEnd \/ WalkPayload \/ WalkNext
PldInSa ==
  PldSa \/ Proposal \/ ProposalNext \/ SaEnd \/ Transform \/ TransformNext
        \/ Attribute
PldFlat ==
  PldKe \/ PldId \/ PldCert \/ PldCertReq \/ PldAuth \/ PldNonce \/ PldDelete
        \/ PldEap \/ PldNotify \/ PldE \/ PldQuick
PldLists == PldTss \/ Selector \/ PldCp \/ Attributes

Parse == Walk \/ PldInSa \/ PldFlat \/ PldLists

Finished == pc \in {"done", "fail"} /\ UNCHANGED vars

Next == Parse \/ Finished

Spec == Init /\ [][Next]_vars /\ WF_vars(Parse)

-----------------------------------------------------------------------------

\* What the dump of a configuration attribute (ikev2_pld_cp) may read past the
\* attribute: the length of a header, and nothing unless dumps are printed.
Overrun == IF verbose /\ type = "cp" THEN CfgHdr ELSE 0

\* Every read lies inside the buffer: the datagram, or the decrypted payload.
\* The exception is the dump of a configuration attribute, at the verbosity that
\* prints dumps: it ends at most four bytes past the buffer.
ReadsInBuffer == rd[2] > 0 => rd[1] + rd[2] <= size + Overrun

\* A handler reads only the bytes of its own payload, so that no payload's
\* content is taken from its neighbour; the dump of a configuration attribute
\* ends at most four bytes past it.
InPayload == pc \notin {"walk", "done", "fail"}

ReadsInPayload ==
  [][InPayload /\ pc' # "walk" =>
       rd'[1] >= offset /\ rd'[1] + rd'[2] <= offset + left + Overrun]_vars

\* When the last proposal has been taken, the SA payload is used up exactly:
\* the lengths of proposals, SPIs, transforms and attributes add up.
SaUsedUp == pc = "saend" => l1 = 0 /\ o1 = offset + left

\* The parser comes to an end on every message.
Terminates == <>(pc \in {"done", "fail"})
=============================================================================
