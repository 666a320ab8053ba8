------------------------ MODULE PayloadWalkProofs ------------------------
(* For every size of a datagram and every content of its length fields, the *)
(* payload parser reads only inside the buffer and inside the payload it    *)
(* handles, and uses up an SA payload exactly.                              *)
EXTENDS PayloadWalk, TLAPS

Handlers ==
  {"pld", "ret", "sa", "sanext", "saend", "xform", "xnext", "attr", "tss", "cp"}

InSa == pc \in {"sa", "sanext", "saend", "xform", "xnext", "attr"}
InProposal == pc \in {"sanext", "xform", "xnext", "attr"}
InTransform == pc \in {"xform", "xnext", "attr"}

Counts ==
  /\ pc \in Handlers \cup {"walk", "done", "fail"}
  /\ size \in Nat /\ length \in Nat
  /\ offset \in Nat /\ total \in Nat /\ left \in Nat
  /\ o1 \in Nat /\ l1 \in Nat /\ t1 \in Nat
  /\ o2 \in Nat /\ t2 \in Nat /\ x2 \in Nat
  /\ o3 \in Nat /\ t3 \in Nat
  /\ cnt \in Nat
  /\ rd \in Nat \X Nat

(* Every level's count is what is left of the level above: the datagram ends *)
(* inside the buffer, the payload inside the datagram, the proposal inside   *)
(* the payload, the transform inside the proposal, the attribute inside the  *)
(* transform.                                                                *)
Nested ==
  /\ pc # "fail" => length <= size
  /\ pc = "walk" /\ offset < length => total = length - offset
  /\ pc \in Handlers => offset + total = length /\ left <= total
  /\ InSa \/ pc \in {"tss", "cp"} =>
       offset <= o1 /\ o1 + l1 = offset + left
  /\ InProposal => t1 <= l1 /\ (~more => t1 = l1)
  /\ InTransform => o1 <= o2 /\ o2 + t2 <= o1 + t1
  /\ pc \in {"xnext", "attr"} => x2 <= t2
  /\ pc = "attr" => o2 <= o3 /\ o3 + t3 <= o2 + x2
  /\ pc = "cp" => type = "cp"

IInv == Counts /\ Nested /\ ReadsInBuffer /\ SaUsedUp

USE DEF IkeHdr, PldHdr, SapHdr, XfrmHdr, AttrHdr, TsHdr, CfgHdr, BodyHdr,
        CertHdr

(* Unsigned subtraction is subtraction where it does not wrap. *)
LEMMA SubExact ==
  ASSUME NEW a \in Nat, NEW b \in Nat, b <= a
  PROVE  Sub(a, b) \in Nat /\ Sub(a, b) = a - b
BY DEF Sub

(* A handler that returns, or gives up inside a loop, leaves the walk where *)
(* it was.                                                                  *)
Quits(lo, n) ==
  pc' = "ret" /\ rd' = <<lo, n>> /\ LocalsDead /\ UNCHANGED <<walk, cursor>>

LEMMA QuitsPast ==
  ASSUME IInv, pc \in Handlers,
         NEW lo \in Nat, NEW n \in Nat,
         offset <= lo, lo + n <= offset + left + Overrun, Quits(lo, n)
  PROVE  IInv'
<1>1. /\ UNCHANGED <<size, length, offset, total, left, type, verbose>>
      /\ o1' = 0 /\ l1' = 0 /\ t1' = 0 /\ more' = FALSE
      /\ o2' = 0 /\ t2' = 0 /\ x2' = 0 /\ more2' = FALSE
      /\ o3' = 0 /\ t3' = 0 /\ cnt' = 0
  BY DEF Quits, LocalsDead, SaDead, XformDead, AttrDead, walk, cursor
<1>2. pc' = "ret" /\ rd' \in Nat \X Nat /\ rd'[1] = lo /\ rd'[2] = n
  BY DEF Quits
<1>3. Counts' /\ Nested'
  BY <1>1, <1>2 DEF IInv, Counts, Nested, Handlers, InSa, InProposal,
                    InTransform
<1>4. ReadsInBuffer'
  BY <1>1, <1>2 DEF IInv, Counts, Nested, ReadsInBuffer, Overrun, Handlers
<1>5. QED BY <1>2, <1>3, <1>4 DEF IInv, SaUsedUp

(* The usual case: nothing past the payload is read. *)
LEMMA QuitsKeeps ==
  ASSUME IInv, pc \in Handlers, NEW lo \in Nat, NEW n \in Nat,
         offset <= lo, lo + n <= offset + left, Quits(lo, n)
  PROVE  IInv'
<1>1. lo + n <= offset + left + Overrun
  BY DEF IInv, Counts, Overrun
<1>2. QED BY <1>1, QuitsPast

LEMMA BailsKeeps ==
  ASSUME IInv, pc \in Handlers, NEW lo \in Nat, NEW n \in Nat,
         offset <= lo, lo + n <= offset + left, Bails(lo, n)
  PROVE  IInv'
BY QuitsKeeps DEF Bails, Quits

LEMMA WalkKeeps == IInv /\ Walk => IInv'
<1> SUFFICES ASSUME IInv, Walk PROVE IInv'
  OBVIOUS
<1> USE DEF IInv, Counts, Nested, ReadsInBuffer, Overrun, SaUsedUp, Handlers, InSa,
            InProposal, InTransform, walk, cursor, sa, xform, attr
<1>1. CASE WalkEnd
  BY <1>1 DEF WalkEnd
<1>2. CASE WalkPayload
  <2>1. CASE total < PldHdr
    BY <1>2, <2>1 DEF WalkPayload, Reject
  <2>2. CASE total >= PldHdr
    <3>0. /\ pc = "walk" /\ rd' = <<offset, PldHdr>>
          /\ UNCHANGED <<walk, sa, xform, attr, cnt>>
      BY <1>2, <2>2 DEF WalkPayload
    <3>1. PICK len \in Lens, np \in Types :
            \/ PldFits(len) /\ Enter(len, np)
            \/ ~PldFits(len) /\ Reject /\ UNCHANGED <<cursor, ret>>
      BY <1>2, <2>2 DEF WalkPayload
    <3>2. CASE PldFits(len) /\ Enter(len, np)
      <4>1. len \in Nat BY ConstantsAssumption
      <4>2. /\ left' = len - PldHdr /\ left' \in Nat
            /\ total' = total - PldHdr /\ total' \in Nat
        BY <3>2, <4>1, <2>2, SubExact DEF Enter, PldFits
      <4>3. pc' \in {"pld", "ret"} /\ offset' = offset + PldHdr
        BY <3>2 DEF Enter
      <4>4. total = length - offset
        BY <1>2 DEF WalkPayload
      <4>5. rd' \in Nat \X Nat /\ rd'[1] = offset /\ rd'[2] = PldHdr
        BY <3>0
      <4>6. Counts'
        BY <3>0, <4>2, <4>3, <4>5
      <4>7. Nested'
        BY <3>0, <3>2, <4>1, <4>2, <4>3, <4>4 DEF PldFits
      <4>8. ReadsInBuffer' /\ SaUsedUp'
        BY <2>2, <3>0, <4>3, <4>4, <4>5
      <4>9. QED BY <4>6, <4>7, <4>8
    <3>3. CASE ~PldFits(len) /\ Reject /\ UNCHANGED <<cursor, ret>>
      BY <1>2, <2>2, <3>3 DEF WalkPayload, Reject
    <3>4. QED BY <3>1, <3>2, <3>3
  <2>3. QED BY <2>1, <2>2
<1>3. CASE WalkNext
  <2>1. Sub(total, left) \in Nat /\ Sub(total, left) = total - left
    BY <1>3, SubExact DEF WalkNext
  <2>2. QED BY <1>3, <2>1 DEF WalkNext, Last
<1>4. QED BY <1>1, <1>2, <1>3 DEF Walk

LEMMA InSaKeeps == IInv /\ PldInSa => IInv'
<1> SUFFICES ASSUME IInv, PldInSa PROVE IInv'
  OBVIOUS
<1> USE DEF IInv, Counts, Nested, ReadsInBuffer, Overrun, SaUsedUp, Handlers, InSa,
            InProposal, InTransform, walk, cursor, sa, xform, attr
<1>1. CASE PldSa
  BY <1>1 DEF PldSa
<1>2. CASE Proposal
  <2>1. CASE l1 < SapHdr
    <3>1. Bails(o1, 0) BY <1>2, <2>1 DEF Proposal
    <3>2. QED BY <1>2, <3>1, BailsKeeps DEF Proposal
  <2>2. CASE l1 >= SapHdr
    <3>0. pc = "sa"
      BY <1>2 DEF Proposal
    <3>1. PICK len \in Lens, sz \in Lens, m \in BOOLEAN, xforms \in BOOLEAN :
             \/ ~ProposalFits(len, sz, m) /\ Bails(o1, SapHdr)
             \/ /\ ProposalFits(len, sz, m)
                /\ rd' = <<o1, SapHdr + sz>>
                /\ o1' = o1 + SapHdr + sz
                /\ l1' = Sub(l1, SapHdr + sz)
                /\ t1' = Sub(len, SapHdr + sz)
                /\ more' = m
                /\ IF xforms
                   THEN /\ pc' = "xform"
                        /\ o2' = o1' /\ t2' = t1' /\ x2' = 0 /\ more2' = TRUE
                   ELSE pc' = "sanext" /\ XformDead
                /\ UNCHANGED <<walk, cursor, ret, attr, cnt, got>>
      BY <1>2, <2>2 DEF Proposal
    <3>2. CASE ~ProposalFits(len, sz, m) /\ Bails(o1, SapHdr)
      BY <2>2, <3>0, <3>2, BailsKeeps
    <3>3. CASE ProposalFits(len, sz, m)
      <4>1. len \in Nat /\ sz \in Nat BY ConstantsAssumption
      <4>2. SapHdr + sz <= len /\ len <= l1 /\ (~m => l1 = len)
        <5>1. l1 - SapHdr = Sub(l1, SapHdr) /\ len - SapHdr = Sub(len, SapHdr)
          BY <2>2, <3>3, <4>1, SubExact DEF ProposalFits, SapFits
        <5>2. QED BY <3>3, <4>1, <5>1 DEF ProposalFits, SapFits, SpiFits
      <4>3. /\ l1' = l1 - (SapHdr + sz) /\ l1' \in Nat
            /\ t1' = len - (SapHdr + sz) /\ t1' \in Nat
        <5>1. SapHdr + sz \in Nat /\ SapHdr + sz <= l1 BY <4>1, <4>2
        <5>2. /\ Sub(l1, SapHdr + sz) = l1 - (SapHdr + sz)
              /\ Sub(len, SapHdr + sz) = len - (SapHdr + sz)
          BY <4>1, <4>2, <5>1, SubExact
        <5>3. QED BY <3>1, <3>3, <4>1, <4>2, <5>1, <5>2
      <4>4. /\ rd' = <<o1, SapHdr + sz>> /\ o1' = o1 + SapHdr + sz /\ more' = m
            /\ UNCHANGED <<walk, cursor, attr, cnt>>
            /\ \/ pc' = "xform" /\ o2' = o1' /\ t2' = t1' /\ x2' = 0 /\ more2' = TRUE
               \/ pc' = "sanext" /\ XformDead
        BY <3>1, <3>3
      <4>5. rd' \in Nat \X Nat /\ rd'[1] = o1 /\ rd'[2] = SapHdr + sz
        BY <4>1, <4>4
      <4>6. Counts'
        BY <4>1, <4>3, <4>4, <4>5 DEF XformDead
      <4>7. Nested'
        BY <3>0, <4>1, <4>2, <4>3, <4>4 DEF XformDead
      <4>8. ReadsInBuffer' /\ SaUsedUp'
        BY <3>0, <4>1, <4>2, <4>4, <4>5
      <4>9. QED BY <4>6, <4>7, <4>8
    <3>4. QED BY <3>1, <3>2, <3>3
  <2>3. QED BY <2>1, <2>2
<1>3. CASE ProposalNext
  <2>1. Sub(l1, t1) \in Nat /\ Sub(l1, t1) = l1 - t1
    BY <1>3, SubExact DEF ProposalNext
  <2>2. QED BY <1>3, <2>1 DEF ProposalNext
<1>4. CASE SaEnd
  <2>1. pc \in Handlers /\ offset <= offset /\ offset + 0 <= offset + left
    BY <1>4 DEF SaEnd
  <2>2. Quits(offset, 0)
    BY <1>4 DEF SaEnd, Returns, Quits
  <2>3. QED BY <2>1, <2>2, QuitsKeeps
<1>5. CASE Transform
  <2>0. pc = "xform"
    BY <1>5 DEF Transform
  <2>1. CASE t2 < XfrmHdr
    <3>1. Bails(o2, 0) BY <1>5, <2>1 DEF Transform
    <3>2. QED BY <2>0, <3>1, BailsKeeps
  <2>2. CASE t2 >= XfrmHdr
    <3>1. PICK len \in Lens, m \in BOOLEAN :
             \/ ~XfrmFits(len) /\ Bails(o2, XfrmHdr)
             \/ /\ XfrmFits(len)
                /\ rd' = <<o2, XfrmHdr>>
                /\ x2' = len /\ more2' = m
                /\ IF len > XfrmHdr
                   THEN /\ pc' = "attr"
                        /\ o3' = o2 + XfrmHdr
                        /\ t3' = Sub(len, XfrmHdr)
                        /\ UNCHANGED lap
                   ELSE pc' = "xnext" /\ AttrDead
                /\ UNCHANGED <<walk, cursor, ret, sa, o2, t2, cnt, got>>
      BY <1>5, <2>2 DEF Transform
    <3>2. CASE ~XfrmFits(len) /\ Bails(o2, XfrmHdr)
      BY <2>0, <2>2, <3>2, BailsKeeps
    <3>3. CASE XfrmFits(len)
      <4>1. len \in Nat /\ XfrmHdr <= len /\ len <= t2
        BY <3>3, ConstantsAssumption DEF XfrmFits
      <4>2. Sub(len, XfrmHdr) = len - XfrmHdr
        BY <4>1, SubExact
      <4>3. rd' \in Nat \X Nat /\ rd'[1] = o2 /\ rd'[2] = XfrmHdr
        BY <3>1, <3>3 DEF Bails
      <4>4. QED BY <2>0, <3>1, <3>3, <4>1, <4>2, <4>3 DEF AttrDead
    <3>4. QED BY <3>1, <3>2, <3>3
  <2>3. QED BY <2>1, <2>2
<1>6. CASE TransformNext
  <2>0. pc = "xnext" /\ Sub(t2, x2) \in Nat /\ Sub(t2, x2) = t2 - x2
    BY <1>6, SubExact DEF TransformNext
  <2>1. CASE Bails(o2, 0)
    BY <2>0, <2>1, BailsKeeps
  <2>2. CASE /\ pc' = "sanext" /\ rd' = <<o2, 0>> /\ XformDead
             /\ UNCHANGED <<walk, cursor, ret, sa, attr, cnt, got>>
    BY <2>0, <2>2 DEF XformDead
  <2>3. CASE /\ more2 /\ pc' = "xform" /\ o2' = o2 + x2 /\ t2' = Sub(t2, x2)
             /\ rd' = <<o2, 0>>
             /\ UNCHANGED <<walk, cursor, ret, sa, x2, more2, attr, cnt, got>>
    BY <2>0, <2>3
  <2>4. QED BY <1>6, <2>1, <2>2, <2>3 DEF TransformNext
<1>7. CASE Attribute
  <2>0. pc = "attr"
    BY <1>7 DEF Attribute
  <2>1. CASE t3 < AttrHdr
    <3>1. Bails(o3, 0) BY <1>7, <2>1 DEF Attribute
    <3>2. QED BY <2>0, <3>1, BailsKeeps
  <2>2. CASE t3 >= AttrHdr
    <3>1. PICK len \in Lens, tv \in BOOLEAN :
             \/ ~tv /\ ~AttrFits(len) /\ Bails(o3, AttrHdr)
             \/ /\ tv \/ AttrFits(len)
                /\ rd' = <<o3, AttrSize(tv, len)>>
                /\ IF Sub(t3, AttrSize(tv, len)) > 0
                   THEN /\ pc' = "attr"
                        /\ o3' = o3 + AttrSize(tv, len)
                        /\ t3' = Sub(t3, AttrSize(tv, len))
                        /\ lap' = ~lap
                   ELSE pc' = "xnext" /\ AttrDead
                /\ UNCHANGED <<walk, cursor, ret, sa, xform, cnt, got>>
      BY <1>7, <2>2 DEF Attribute
    <3>2. CASE ~tv /\ ~AttrFits(len) /\ Bails(o3, AttrHdr)
      BY <2>0, <2>2, <3>2, BailsKeeps
    <3>3. CASE tv \/ AttrFits(len)
      <4>1. AttrSize(tv, len) \in Nat /\ AttrSize(tv, len) <= t3
        BY <2>2, <3>3, ConstantsAssumption DEF AttrFits, AttrSize
      <4>2. /\ Sub(t3, AttrSize(tv, len)) \in Nat
            /\ Sub(t3, AttrSize(tv, len)) = t3 - AttrSize(tv, len)
        BY <4>1, SubExact
      <4>3. rd' \in Nat \X Nat /\ rd'[1] = o3 /\ rd'[2] = AttrSize(tv, len)
        BY <3>1, <3>3, <4>1
      <4>4. QED BY <2>0, <3>1, <3>3, <4>1, <4>2, <4>3 DEF AttrDead
    <3>4. QED BY <3>1, <3>2, <3>3
  <2>3. QED BY <2>1, <2>2
<1>8. QED
  BY <1>1, <1>2, <1>3, <1>4, <1>5, <1>6, <1>7 DEF PldInSa

(* A handler that reads nothing, its header or its whole payload. *)
LEMMA FlatQuits ==
  ASSUME IInv, pc = "pld",
         \/ Quits(offset, 0) \/ Quits(offset, left)
         \/ left >= CertHdr /\ Quits(offset, CertHdr)
         \/ left >= BodyHdr /\ Quits(offset, BodyHdr)
  PROVE  IInv'
<1>1. offset \in Nat /\ left \in Nat /\ pc \in Handlers
  BY DEF IInv, Counts, Handlers
<1>2. QED BY <1>1, QuitsKeeps

LEMMA FlatKeeps == IInv /\ PldFlat => IInv'
<1> SUFFICES ASSUME IInv, PldFlat PROVE IInv'
  OBVIOUS
<1>0. left \in Nat
  BY DEF IInv, Counts
<1>1. CASE PldKe
  BY <1>0, <1>1, FlatQuits DEF PldKe, Returns, Once, Quits
<1>2. CASE PldId
  BY <1>0, <1>2, FlatQuits DEF PldId, Returns, Once, Quits
<1>3. CASE PldCert
  BY <1>0, <1>3, FlatQuits DEF PldCert, Returns, Quits
<1>4. CASE PldCertReq
  BY <1>0, <1>4, FlatQuits DEF PldCertReq, Returns, Quits
<1>5. CASE PldAuth
  BY <1>0, <1>5, FlatQuits DEF PldAuth, Returns, Once, Quits
<1>6. CASE PldNonce
  BY <1>0, <1>6, FlatQuits DEF PldNonce, Returns, Once, Quits
<1>7. CASE PldDelete
  BY <1>0, <1>7, FlatQuits DEF PldDelete, Returns, Quits
<1>8. CASE PldEap
  BY <1>0, <1>8, FlatQuits DEF PldEap, Returns, Quits
<1>9. CASE PldNotify
  BY <1>0, <1>9, FlatQuits DEF PldNotify, Returns, Once, Quits
<1>10. CASE PldE
  <2>1. CASE Quits(offset, 0) \/ Quits(offset, left)
    BY <1>10, <2>1, FlatQuits DEF PldE
  <2>2. CASE /\ size' \in Nat
             /\ length' = size' /\ total' = size' /\ offset' = 0
             /\ left' = 0 /\ pc' = "walk" /\ rd' = <<0, 0>>
             /\ UNCHANGED <<sa, xform, attr, cnt>>
    <3>1. size' \in Nat
      BY <2>2
    <3>2. rd' \in Nat \X Nat /\ rd'[2] = 0
      BY <2>2
    <3>3. Counts'
      BY <2>2, <3>1, <3>2 DEF IInv, Counts, Handlers, sa, xform, attr
    <3>4. Nested'
      <4>1. pc' = "walk" /\ length' <= size' /\ total' = length' - offset'
        <5>1. pc' = "walk" /\ length' = size' /\ total' = size' /\ offset' = 0
          BY <2>2, Zenon
        <5>2. \A k \in Nat : k <= k /\ k = k - 0
          OBVIOUS
        <5>3. size' <= size' /\ size' = size' - 0
          BY <3>1, <5>2, Zenon
        <5>4. QED BY <5>1, <5>3, Zenon
      <4>2. ~InSa' /\ ~InProposal' /\ ~InTransform' /\ pc' \notin Handlers
        BY <4>1 DEF InSa, InProposal, InTransform, Handlers
      <4>3. QED BY <4>1, <4>2 DEF Nested, Handlers
    <3>5. ReadsInBuffer' /\ SaUsedUp'
      BY <2>2, <3>1, <3>2 DEF IInv, Counts, Nested, Handlers, ReadsInBuffer, Overrun, SaUsedUp,
         sa, xform, attr
    <3>6. QED BY <3>3, <3>4, <3>5 DEF IInv
  <2>3. EncSizes \subseteq Nat
    BY ConstantsAssumption
  <2>4. QED BY <1>10, <2>1, <2>2, <2>3 DEF PldE, Returns, Quits
<1>11. CASE PldQuick
  <2>1. CASE left < BodyHdr
    <3>1. /\ pc' = "fail" /\ rd' = <<offset, 0>>
          /\ UNCHANGED <<walk, cursor, sa, xform, attr, cnt>>
      <4>1. ~(left >= BodyHdr)
        BY <1>0, <2>1
      <4>2. QED BY <1>11, <4>1, Zenon DEF PldQuick
    <3>2. rd' \in Nat \X Nat /\ rd'[2] = 0
      BY <3>1 DEF IInv, Counts
    <3>3. Counts'
      BY <3>1, <3>2 DEF IInv, Counts, Handlers, walk, cursor, sa, xform, attr
    <3>4. Nested'
      BY <3>1, <3>2 DEF IInv, Counts, Nested, Handlers, InSa, InProposal,
         InTransform, walk, cursor, sa, xform, attr
    <3>5. ReadsInBuffer' /\ SaUsedUp'
      BY <3>1, <3>2 DEF IInv, Counts, Nested, Handlers, ReadsInBuffer, Overrun, SaUsedUp,
         walk, cursor, sa, xform, attr
    <3>6. QED BY <3>3, <3>4, <3>5 DEF IInv
  <2>2. CASE left >= BodyHdr
    <3>1. pc = "pld" /\ Quits(offset, BodyHdr)
      BY <1>0, <1>11, <2>2 DEF PldQuick, Returns, Quits
    <3>2. QED BY <2>2, <3>1, FlatQuits
  <2>3. QED BY <1>0, <2>1, <2>2
<1>12. QED
  BY <1>1, <1>2, <1>3, <1>4, <1>5, <1>6, <1>7, <1>8, <1>9, <1>10, <1>11
     DEF PldFlat

LEMMA ListsKeep == IInv /\ PldLists => IInv'
<1> SUFFICES ASSUME IInv, PldLists PROVE IInv'
  OBVIOUS
<1>0. left \in Nat /\ offset \in Nat /\ o1 \in Nat /\ l1 \in Nat
  BY DEF IInv, Counts
<1>1. CASE PldTss
  <2>1. CASE left < BodyHdr
    BY <1>0, <1>1, <2>1, FlatQuits DEF PldTss, Returns, Quits
  <2>2. CASE left >= BodyHdr
    <3>1. Sub(left, BodyHdr) \in Nat /\ Sub(left, BodyHdr) = left - BodyHdr
      BY <1>0, <2>2, SubExact
    <3>2. /\ pc = "pld" /\ pc' = "tss" /\ rd' = <<offset, BodyHdr>>
          /\ o1' = offset + BodyHdr /\ l1' = Sub(left, BodyHdr) /\ cnt' \in Nat
          /\ UNCHANGED <<walk, cursor, t1, xform, attr>>
      <4>1. ~(left < BodyHdr)
        BY <1>0, <2>2
      <4>2. Lens \subseteq Nat
        BY ConstantsAssumption
      <4>3. QED BY <1>1, <4>1, <4>2, Zenon DEF PldTss
    <3>3. rd' \in Nat \X Nat /\ rd'[1] = offset /\ rd'[2] = BodyHdr
      BY <1>0, <3>2
    <3>4. Counts'
      BY <1>0, <2>2, <3>1, <3>2, <3>3 DEF IInv, Counts, Handlers, walk, cursor, xform, attr
    <3>5. Nested'
      BY <1>0, <2>2, <3>1, <3>2, <3>3 DEF IInv, Counts, Nested, Handlers, InSa, InProposal,
         InTransform, walk, cursor, xform, attr
    <3>6. ReadsInBuffer' /\ SaUsedUp'
      BY <1>0, <2>2, <3>1, <3>2, <3>3 DEF IInv, Counts, Nested, Handlers, ReadsInBuffer, Overrun, SaUsedUp,
         walk, cursor, xform, attr
    <3>7. QED BY <3>4, <3>5, <3>6 DEF IInv
  <2>3. QED BY <1>0, <2>1, <2>2
<1>2. CASE PldCp
  <2>1. CASE left < BodyHdr
    BY <1>0, <1>2, <2>1, FlatQuits DEF PldCp, Returns, Quits
  <2>2. CASE left >= BodyHdr
    <3>1. Sub(left, BodyHdr) \in Nat /\ Sub(left, BodyHdr) = left - BodyHdr
      BY <1>0, <2>2, SubExact
    <3> DEFINE Used == IF verbose THEN left ELSE BodyHdr
    <3>2. /\ pc = "pld" /\ type = "cp" /\ pc' = "cp" /\ rd' = <<offset, Used>>
          /\ o1' = offset + BodyHdr /\ l1' = Sub(left, BodyHdr) /\ cnt' \in Nat
          /\ UNCHANGED <<walk, cursor, t1, xform, attr>>
      BY <1>0, <1>2, <2>2, ConstantsAssumption DEF PldCp, Returns, IInv, Counts,
         walk, cursor, sa, xform, attr
    <3>3. rd' \in Nat \X Nat /\ rd'[1] = offset /\ rd'[2] = Used /\ Used <= left
      BY <1>0, <2>2, <3>2
    <3> HIDE DEF Used
    <3>4. Counts'
      BY <1>0, <2>2, <3>1, <3>2, <3>3 DEF IInv, Counts, Handlers, walk, cursor, xform, attr
    <3>5. Nested'
      BY <1>0, <2>2, <3>1, <3>2, <3>3 DEF IInv, Counts, Nested, Handlers, InSa, InProposal,
         InTransform, walk, cursor, xform, attr
    <3>6. ReadsInBuffer' /\ SaUsedUp'
      BY <1>0, <2>2, <3>1, <3>2, <3>3 DEF IInv, Counts, Nested, Handlers, ReadsInBuffer, Overrun, SaUsedUp,
         walk, cursor, xform, attr
    <3>7. QED BY <3>4, <3>5, <3>6 DEF IInv
  <2>3. QED BY <1>0, <2>1, <2>2
<1>3. CASE Selector
  <2>0. /\ pc = "tss" /\ pc \in Handlers
        /\ offset <= o1 /\ o1 + l1 = offset + left
    BY <1>3 DEF Selector, IInv, Nested, Handlers
  <2>1. CASE Quits(offset, 0) \/ Quits(o1, 0)
    BY <1>0, <2>0, <2>1, QuitsKeeps
  <2>2. CASE cnt > 0 /\ l1 >= TsHdr /\ ~(Quits(offset, 0) \/ Quits(o1, 0))
    <3>1. PICK len \in Lens, want \in TsAddrs \cup {0} :
             \/ ~TsFits(len) /\ Bails(o1, TsHdr)
             \/ /\ TsFits(len)
                /\ want # 0 /\ len - TsHdr # want
                /\ Bails(o1, IF len - TsHdr < want THEN TsHdr ELSE TsHdr + want)
             \/ /\ TsFits(len)
                /\ want = 0 \/ len - TsHdr = want
                /\ rd' = <<o1, TsHdr + want>>
                /\ o1' = o1 + len
                /\ l1' = Sub(l1, len)
                /\ cnt' = cnt - 1
                /\ lap' = ~lap
                /\ UNCHANGED <<pc, walk, cursor, ret, t1, more, xform, o3, t3,
                               got>>
      BY <1>3, <2>2 DEF Selector, Returns, Bails, Quits
    <3>2. len \in Nat /\ want \in Nat
      BY ConstantsAssumption DEF TsAddrs
    <3>3. CASE ~TsFits(len) /\ Bails(o1, TsHdr)
      BY <1>0, <2>0, <2>2, <3>3, BailsKeeps
    <3>4. CASE /\ TsFits(len)
               /\ Bails(o1, IF len - TsHdr < want THEN TsHdr ELSE TsHdr + want)
      <4>1. CASE len - TsHdr < want
        BY <1>0, <2>0, <2>2, <3>4, <4>1, BailsKeeps
      <4>2. CASE ~(len - TsHdr < want)
        <5>1. TsHdr + want \in Nat /\ TsHdr + want <= l1
          BY <1>0, <3>2, <3>4, <4>2 DEF TsFits
        <5>2. Bails(o1, TsHdr + want)
          BY <3>4, <4>2
        <5>3. QED BY <1>0, <2>0, <5>1, <5>2, BailsKeeps
      <4>3. QED BY <4>1, <4>2
    <3>5. CASE /\ TsFits(len)
               /\ want = 0 \/ len - TsHdr = want
               /\ rd' = <<o1, TsHdr + want>>
               /\ o1' = o1 + len
               /\ l1' = Sub(l1, len)
               /\ cnt' = cnt - 1
               /\ UNCHANGED <<pc, walk, cursor, t1, xform, o3, t3>>
      <4>1. Sub(l1, len) \in Nat /\ Sub(l1, len) = l1 - len
        BY <1>0, <3>2, <3>5, SubExact DEF TsFits
      <4>2. rd' \in Nat \X Nat /\ rd'[1] = o1 /\ rd'[2] = TsHdr + want
        BY <1>0, <3>2, <3>5
      <4>3. TsHdr + want <= l1
        BY <1>0, <3>2, <3>5 DEF TsFits
      <4>4. QED
        BY <2>0, <2>2, <3>2, <3>5, <4>1, <4>2, <4>3 DEF IInv, Counts, Nested,
           ReadsInBuffer, Overrun, SaUsedUp, Handlers, InSa, InProposal, InTransform,
           walk, cursor, xform
    <3>6. QED BY <3>1, <3>3, <3>4, <3>5
  <2>3. QED BY <1>0, <1>3, <2>1, <2>2 DEF Selector, Returns, Bails, Quits
<1>4. CASE Attributes
  <2>0. /\ pc = "cp" /\ pc \in Handlers
        /\ offset <= o1 /\ o1 + l1 = offset + left
    BY <1>4 DEF Attributes, IInv, Nested, Handlers
  <2>1. CASE Quits(offset, 0) \/ Quits(o1, 0)
    BY <1>0, <2>0, <2>1, QuitsKeeps
  <2>2. CASE l1 >= CfgHdr /\ ~(Quits(offset, 0) \/ Quits(o1, 0))
    <3>1. PICK len \in Lens, need \in {0, 4, 16} :
             \/ ~CfgFits(len) /\ Bails(o1, CfgHdr)
             \/ CfgFits(len) /\ CfgShort(len, need) /\ Bails(o1, CfgRead(len, 0))
             \/ /\ CfgFits(len) /\ ~CfgShort(len, need)
                /\ rd' = <<o1, CfgRead(len, need)>>
                /\ o1' = o1 + CfgHdr + len
                /\ l1' = Sub(l1, CfgHdr + len)
                /\ lap' = ~lap
                /\ UNCHANGED <<pc, walk, cursor, ret, t1, more, xform, o3, t3,
                               cnt, got>>
      BY <1>0, <1>4, <2>2 DEF Attributes, Returns, Bails, Quits
    <3>2. len \in Nat /\ need \in Nat
      BY ConstantsAssumption
    <3>3. CASE Bails(o1, CfgHdr)
      BY <1>0, <2>0, <2>2, <3>3, BailsKeeps
    <3>4. ASSUME NEW n \in Nat, CfgFits(len), ~CfgShort(len, n)
          PROVE  /\ CfgHdr + len \in Nat /\ CfgHdr + len <= l1
                 /\ CfgRead(len, n) \in Nat
                 /\ CfgRead(len, n) <= l1 + Overrun
      <4>1. Sub(l1, CfgHdr) = l1 - CfgHdr
        BY <1>0, <2>2, SubExact
      <4>2. CfgHdr + len \in Nat /\ CfgHdr + len <= l1
        BY <1>0, <3>2, <3>4, <4>1 DEF CfgFits
      <4>3. type = "cp"
        BY <2>0 DEF IInv, Nested
      <4>4. /\ CfgRead(len, n) \in Nat
            /\ CfgRead(len, n) <= CfgHdr + len + Overrun
        BY <3>2, <3>4, <4>3 DEF CfgShort, CfgRead, Overrun
      <4>5. QED BY <1>0, <4>2, <4>4 DEF Overrun
    <3>5. CASE CfgFits(len) /\ CfgShort(len, need) /\ Bails(o1, CfgRead(len, 0))
      <4>1. ~CfgShort(len, 0)
        BY <3>2 DEF CfgShort
      <4>2. CfgRead(len, 0) \in Nat /\ CfgRead(len, 0) <= l1 + Overrun
        BY <3>4, <3>5, <4>1
      <4>3. o1 + CfgRead(len, 0) <= offset + left + Overrun
        BY <1>0, <2>0, <4>2 DEF Overrun
      <4>4. Quits(o1, CfgRead(len, 0))
        BY <3>5 DEF Bails, Quits
      <4>5. QED BY <1>0, <2>0, <4>2, <4>3, <4>4, QuitsPast
    <3>6. CASE /\ CfgFits(len) /\ ~CfgShort(len, need)
               /\ rd' = <<o1, CfgRead(len, need)>>
               /\ o1' = o1 + CfgHdr + len
               /\ l1' = Sub(l1, CfgHdr + len)
               /\ UNCHANGED <<pc, walk, cursor, t1, xform, o3, t3, cnt>>
      <4> DEFINE used == CfgRead(len, need)
      <4>1. /\ CfgHdr + len \in Nat /\ CfgHdr + len <= l1
            /\ used \in Nat /\ used <= l1 + Overrun
        BY <3>2, <3>4, <3>6
      <4>2. Sub(l1, CfgHdr + len) \in Nat /\ Sub(l1, CfgHdr + len) = l1 - (CfgHdr + len)
        BY <1>0, <4>1, SubExact
      <4>3. rd' \in Nat \X Nat /\ rd'[1] = o1 /\ rd'[2] = used
        BY <1>0, <3>6, <4>1
      <4> HIDE DEF used
      <4>4. QED
        BY <2>0, <3>2, <3>6, <4>1, <4>2, <4>3 DEF IInv, Counts, Nested,
           ReadsInBuffer, Overrun, SaUsedUp, Handlers, InSa, InProposal,
           InTransform, walk, cursor, xform
    <3>7. QED BY <3>1, <3>3, <3>5, <3>6
  <2>3. QED BY <1>0, <1>4, <2>1, <2>2 DEF Attributes, Returns, Bails, Quits
<1>5. QED BY <1>1, <1>2, <1>3, <1>4 DEF PldLists

-----------------------------------------------------------------------------
(* Where a step of a handler reads. *)

Inside(lo, n) == lo >= offset /\ lo + n <= offset + left + Overrun

(* A read of n bytes at lo, where "rest" bytes of the payload are left. *)
LEMMA ReadFits ==
  ASSUME IInv, NEW lo \in Nat, NEW rest \in Nat,
         offset <= lo, lo + rest <= offset + left,
         NEW n \in Nat, n <= rest, rd' = <<lo, n>>
  PROVE  Inside(rd'[1], rd'[2])
<1>1. rd'[1] = lo /\ rd'[2] = n
  OBVIOUS
<1>2. QED BY <1>1 DEF Inside, IInv, Counts, Overrun

LEMMA SaReadsFit ==
  ASSUME IInv, PldInSa
  PROVE  Inside(rd'[1], rd'[2])
<1> USE DEF IInv, Counts, Nested, Handlers, InSa, InProposal, InTransform
<1>1. CASE PldSa
  <2>1. rd' = <<offset, 0>> /\ offset + 0 <= offset + left
    BY <1>1 DEF PldSa
  <2>2. QED BY <2>1, ReadFits
<1>2. CASE Proposal
  <2>1. pc = "sa" /\ offset <= o1 /\ o1 + l1 = offset + left
    BY <1>2 DEF Proposal
  <2>2. \/ rd' = <<o1, 0>>
        \/ l1 >= SapHdr /\ rd' = <<o1, SapHdr>>
        \/ \E len \in Lens, sz \in Lens, m \in BOOLEAN :
             /\ l1 >= SapHdr /\ ProposalFits(len, sz, m)
             /\ rd' = <<o1, SapHdr + sz>>
    BY <1>2 DEF Proposal, Bails
  <2>3. ASSUME NEW len \in Lens, NEW sz \in Lens, NEW m \in BOOLEAN,
               l1 >= SapHdr, ProposalFits(len, sz, m)
        PROVE  SapHdr + sz \in Nat /\ SapHdr + sz <= l1
    <3>1. len \in Nat /\ sz \in Nat BY ConstantsAssumption
    <3>2. l1 - SapHdr = Sub(l1, SapHdr) /\ len - SapHdr = Sub(len, SapHdr)
      BY <2>3, <3>1, SubExact DEF ProposalFits, SapFits
    <3>3. QED BY <2>3, <3>1, <3>2 DEF ProposalFits, SapFits, SpiFits
  <2>4. PICK n \in Nat : n <= l1 /\ rd' = <<o1, n>>
    BY <2>2, <2>3
  <2>5. o1 + l1 <= offset + left
    BY <2>1
  <2>6. QED BY <2>1, <2>4, <2>5, ReadFits
<1>3. CASE ProposalNext \/ SaEnd
  <2>1. rd' = <<o1, 0>> \/ rd' = <<offset, 0>>
    BY <1>3 DEF ProposalNext, SaEnd, Returns
  <2>2. pc \in {"sanext", "saend"} /\ offset <= o1 /\ o1 + l1 = offset + left
    BY <1>3 DEF ProposalNext, SaEnd
  <2>3. QED BY <2>1, <2>2, ReadFits
<1>4. CASE Transform
  <2>1. /\ pc = "xform" /\ offset <= o1 /\ o1 + l1 = offset + left
        /\ t1 <= l1 /\ o1 <= o2 /\ o2 + t2 <= o1 + t1
    BY <1>4 DEF Transform
  <2>2. rd' = <<o2, 0>> \/ (t2 >= XfrmHdr /\ rd' = <<o2, XfrmHdr>>)
    BY <1>4 DEF Transform, Bails
  <2>3. o2 + t2 <= offset + left /\ offset <= o2
    BY <2>1
  <2>4. QED BY <2>2, <2>3, ReadFits
<1>5. CASE TransformNext
  <2>1. /\ pc = "xnext" /\ offset <= o1 /\ o1 + l1 = offset + left
        /\ t1 <= l1 /\ o1 <= o2 /\ o2 + t2 <= o1 + t1
    BY <1>5 DEF TransformNext
  <2>2. rd' = <<o2, 0>>
    BY <1>5 DEF TransformNext, Bails
  <2>3. o2 + t2 <= offset + left /\ offset <= o2
    BY <2>1
  <2>4. QED BY <2>2, <2>3, ReadFits
<1>6. CASE Attribute
  <2>1. /\ pc = "attr" /\ offset <= o1 /\ o1 + l1 = offset + left
        /\ t1 <= l1 /\ o1 <= o2 /\ o2 + t2 <= o1 + t1
        /\ x2 <= t2 /\ o2 <= o3 /\ o3 + t3 <= o2 + x2
    BY <1>6 DEF Attribute
  <2>2. \/ rd' = <<o3, 0>>
        \/ t3 >= AttrHdr /\ rd' = <<o3, AttrHdr>>
        \/ \E len \in Lens, tv \in BOOLEAN :
             /\ t3 >= AttrHdr /\ (tv \/ AttrFits(len))
             /\ rd' = <<o3, AttrSize(tv, len)>>
    BY <1>6 DEF Attribute, Bails
  <2>3. ASSUME NEW len \in Lens, NEW tv \in BOOLEAN, t3 >= AttrHdr,
               tv \/ AttrFits(len)
        PROVE  AttrSize(tv, len) \in Nat /\ AttrSize(tv, len) <= t3
    BY <2>3, ConstantsAssumption DEF AttrFits, AttrSize
  <2>4. PICK n \in Nat : n <= t3 /\ rd' = <<o3, n>>
    BY <2>2, <2>3
  <2>5. o3 + t3 <= offset + left /\ offset <= o3
    BY <2>1
  <2>6. QED BY <2>4, <2>5, ReadFits
<1>7. QED
  BY <1>1, <1>2, <1>3, <1>4, <1>5, <1>6 DEF PldInSa

LEMMA FlatReadsFit ==
  ASSUME IInv, PldFlat, pc' # "walk"
  PROVE  Inside(rd'[1], rd'[2])
<1>1. left \in Nat /\ offset \in Nat
  BY DEF IInv, Counts
<1>2. \/ rd' = <<offset, 0>> \/ rd' = <<offset, left>>
      \/ left >= CertHdr /\ rd' = <<offset, CertHdr>>
      \/ left >= BodyHdr /\ rd' = <<offset, BodyHdr>>
  <2>1. CASE PldKe \/ PldId
    BY <1>1, <2>1 DEF PldKe, PldId, Returns, Once
  <2>2. CASE PldCert \/ PldCertReq \/ PldAuth \/ PldNonce
    BY <1>1, <2>2 DEF PldCert, PldCertReq, PldAuth, PldNonce, Returns, Once
  <2>3. CASE PldDelete \/ PldEap
    BY <1>1, <2>3 DEF PldDelete, PldEap, Returns
  <2>4. CASE PldNotify
    BY <1>1, <2>4 DEF PldNotify, Returns, Once
  <2>5. CASE PldE \/ PldQuick
    BY <1>1, <2>5 DEF PldE, PldQuick, Returns
  <2>6. QED BY <2>1, <2>2, <2>3, <2>4, <2>5 DEF PldFlat
<1>3. PICK n \in Nat : n <= left /\ rd' = <<offset, n>>
  BY <1>1, <1>2
<1>4. offset <= offset /\ offset + left <= offset + left
  BY <1>1
<1>5. QED BY <1>1, <1>3, <1>4, ReadFits

LEMMA ListReadsFit ==
  ASSUME IInv, PldLists
  PROVE  Inside(rd'[1], rd'[2])
<1>0. left \in Nat /\ offset \in Nat /\ o1 \in Nat /\ l1 \in Nat
  BY DEF IInv, Counts
<1>1. CASE PldTss \/ PldCp
  <2>1. PICK n \in Nat : n <= left /\ rd' = <<offset, n>>
    BY <1>0, <1>1 DEF PldTss, PldCp, Returns
  <2>2. offset <= offset /\ offset + left <= offset + left
    BY <1>0
  <2>3. QED BY <1>0, <2>1, <2>2, ReadFits
<1>2. CASE Selector
  <2>0. offset <= o1 /\ o1 + l1 <= offset + left
    BY <1>0, <1>2 DEF Selector, IInv, Nested
  <2>1. CASE rd' = <<offset, 0>>
    <3>1. offset + 0 <= offset + left
      BY <1>0
    <3>2. QED BY <1>0, <2>1, <3>1, ReadFits
  <2>2. CASE rd' # <<offset, 0>>
    <3>1. \/ rd' = <<o1, 0>>
          \/ l1 >= TsHdr /\ rd' = <<o1, TsHdr>>
          \/ \E len \in Lens, want \in TsAddrs \cup {0} :
               /\ TsFits(len) /\ (want = 0 \/ ~(len - TsHdr < want))
               /\ rd' = <<o1, TsHdr + want>>
      <4>1. ASSUME NEW len \in Lens, NEW want \in TsAddrs \cup {0},
                   len - TsHdr = want
            PROVE  ~(len - TsHdr < want)
        BY <4>1, ConstantsAssumption DEF TsAddrs
      <4>2. QED BY <1>2, <2>2, <4>1 DEF Selector, Returns, Bails
    <3>2. ASSUME NEW len \in Lens, NEW want \in TsAddrs \cup {0}, TsFits(len),
                 want = 0 \/ ~(len - TsHdr < want)
          PROVE  TsHdr + want \in Nat /\ TsHdr + want <= l1
      <4>1. len \in Nat /\ want \in Nat
        BY ConstantsAssumption DEF TsAddrs
      <4>2. QED BY <1>0, <3>2, <4>1 DEF TsFits
    <3>3. PICK n \in Nat : n <= l1 /\ rd' = <<o1, n>>
      BY <1>0, <3>1, <3>2
    <3>4. QED BY <1>0, <2>0, <3>3, ReadFits
  <2>3. QED BY <2>1, <2>2
<1>3. CASE Attributes
  <2>0. pc = "cp" /\ type = "cp" /\ offset <= o1 /\ o1 + l1 = offset + left
    BY <1>3 DEF Attributes, IInv, Nested
  <2>1. CASE rd' = <<offset, 0>>
    <3>1. offset + 0 <= offset + left
      BY <1>0
    <3>2. QED BY <1>0, <2>1, <3>1, ReadFits
  <2>2. CASE rd' # <<offset, 0>>
    <3>1. \/ rd' = <<o1, 0>>
          \/ l1 >= CfgHdr /\ rd' = <<o1, CfgHdr>>
          \/ \E len \in Lens, need \in {0, 4, 16} :
               /\ l1 >= CfgHdr /\ CfgFits(len) /\ ~CfgShort(len, need)
               /\ rd' = <<o1, CfgRead(len, need)>>
      <4>1. ASSUME NEW len \in Lens
            PROVE  ~CfgShort(len, 0)
        BY <4>1, ConstantsAssumption DEF CfgShort
      <4>2. QED BY <1>3, <2>2, <4>1 DEF Attributes, Returns, Bails
    <3>2. ASSUME NEW len \in Lens, NEW need \in {0, 4, 16}, l1 >= CfgHdr,
                 CfgFits(len), ~CfgShort(len, need)
          PROVE  CfgRead(len, need) \in Nat /\ CfgRead(len, need) <= l1 + Overrun
      <4>1. len \in Nat /\ need \in Nat
        BY ConstantsAssumption
      <4>2. Sub(l1, CfgHdr) = l1 - CfgHdr
        BY <1>0, <3>2, SubExact
      <4>3. CfgHdr + len <= l1
        BY <1>0, <3>2, <4>1, <4>2 DEF CfgFits
      <4>4. CfgRead(len, need) \in Nat /\ CfgRead(len, need) <= CfgHdr + len + Overrun
        BY <2>0, <3>2, <4>1 DEF CfgShort, CfgRead, Overrun
      <4>5. QED BY <1>0, <4>1, <4>3, <4>4 DEF Overrun
    <3>3. PICK n \in Nat : n <= l1 + Overrun /\ rd' = <<o1, n>>
      <4>1. Overrun \in Nat
        BY DEF Overrun
      <4>2. QED BY <1>0, <3>1, <3>2, <4>1
    <3>4. rd'[1] = o1 /\ rd'[2] = n
      BY <3>3
    <3>5. QED BY <1>0, <2>0, <3>3, <3>4 DEF Inside, Overrun
  <2>3. QED BY <2>1, <2>2
<1>4. QED BY <1>1, <1>2, <1>3 DEF PldLists

-----------------------------------------------------------------------------
(* The theorems. *)

LEMMA InitIInv == Init => IInv
<1> SUFFICES ASSUME Init PROVE IInv
  OBVIOUS
<1>1. size \in Nat /\ length \in Nat /\ length < SizeT
  BY ConstantsAssumption DEF Init
<1>2. Sub(length, IkeHdr) \in Nat
  BY <1>1, ConstantsAssumption DEF Sub
<1>3. length > IkeHdr => Sub(length, IkeHdr) = length - IkeHdr
  BY <1>1 DEF Sub
<1>4. rd \in Nat \X Nat /\ rd[2] = 0
  BY DEF Init
<1>5. pc = (IF size >= length THEN "walk" ELSE "fail") /\ offset = IkeHdr
      /\ total = Sub(length, IkeHdr)
  BY DEF Init, Accepted
<1>6. left = 0 /\ o1 = 0 /\ l1 = 0 /\ t1 = 0 /\ o2 = 0 /\ t2 = 0 /\ x2 = 0
      /\ o3 = 0 /\ t3 = 0 /\ cnt = 0
  BY DEF Init
<1>7. Counts
  BY <1>1, <1>2, <1>4, <1>5, <1>6 DEF Counts
<1>8. Nested
  BY <1>1, <1>2, <1>3, <1>5 DEF Nested, Handlers, InSa, InProposal, InTransform
<1>9. ReadsInBuffer /\ SaUsedUp
  BY <1>4, <1>5 DEF ReadsInBuffer, Overrun, SaUsedUp
<1>10. QED BY <1>7, <1>8, <1>9 DEF IInv

LEMMA NextIInv == IInv /\ [Next]_vars => IInv'
<1> SUFFICES ASSUME IInv, [Next]_vars PROVE IInv'
  OBVIOUS
<1>1. CASE Parse
  BY <1>1, WalkKeeps, InSaKeeps, FlatKeeps, ListsKeep DEF Parse
<1>2. CASE UNCHANGED vars
  BY <1>2 DEF vars, IInv, Counts, Nested, ReadsInBuffer, Overrun, SaUsedUp, InSa,
     InProposal, InTransform, walk, cursor, sa, xform, attr
<1>3. QED BY <1>1, <1>2 DEF Next, Finished

(* The counts of the nested loops fit into each other in every reachable     *)
(* state of the parser, whatever lengths the message claims.                 *)
THEOREM Invariance == Spec => []IInv
BY InitIInv, NextIInv, PTL DEF Spec

(* ReadsInBuffer holds for datagrams of every size: whatever the headers of a *)
(* message say, every read of the payload parser lies inside its buffer, but  *)
(* for the dump of a configuration attribute by ikev2_pld_cp, which ends at   *)
(* most four bytes past it and is made at verbosity 3 only.                   *)
THEOREM ReadsStayInBuffer == Spec => []ReadsInBuffer
<1>1. IInv => ReadsInBuffer BY DEF IInv
<1>2. QED BY <1>1, Invariance, PTL

(* SaUsedUp: an SA payload that ikev2_pld_sa accepts is covered exactly by    *)
(* its proposals.                                                             *)
THEOREM SaIsUsedUp == Spec => []SaUsedUp
<1>1. IInv => SaUsedUp BY DEF IInv
<1>2. QED BY <1>1, Invariance, PTL

(* ReadsInPayload: whatever lengths a message claims, a handler reads only the *)
(* bytes of its own payload, but for the same dump, and takes no content from  *)
(* the payload that follows.                                                   *)
THEOREM ReadsStayInPayload == Spec => ReadsInPayload
<1> DEFINE Fits == InPayload /\ pc' # "walk" =>
             rd'[1] >= offset /\ rd'[1] + rd'[2] <= offset + left + Overrun
<1>1. ASSUME IInv, Next PROVE Fits \/ UNCHANGED vars
  <2>1. CASE Walk
    <3>1. WalkNext => rd' = <<offset, 0>>
      BY DEF WalkNext
    <3>2. WalkEnd \/ WalkPayload => ~InPayload
      BY DEF WalkEnd, WalkPayload, InPayload
    <3>3. rd' = <<offset, 0>> => Inside(rd'[1], rd'[2])
      BY <1>1 DEF Inside, Overrun, IInv, Counts
    <3>4. QED BY <2>1, <3>1, <3>2, <3>3 DEF Walk, Inside
  <2>2. CASE PldInSa
    BY <1>1, <2>2, SaReadsFit DEF Inside
  <2>3. CASE PldFlat
    BY <1>1, <2>3, FlatReadsFit DEF Inside
  <2>4. CASE PldLists
    BY <1>1, <2>4, ListReadsFit DEF Inside
  <2>5. QED BY <1>1, <2>1, <2>2, <2>3, <2>4 DEF Next, Parse, Finished
<1>2. IInv /\ [Next]_vars => [Fits]_vars
  BY <1>1
<1>3. QED BY <1>2, Invariance, PTL DEF Spec, ReadsInPayload
=============================================================================
