--------------------------- MODULE TimestampProofs ---------------------------
(***************************************************************************)
(* An accepted timestamp was made by an authority, for any certificates,   *)
(* any tokens and any number of stamps. The argument follows the signature *)
(* from the certificate that the token selects to the attributes, and from *)
(* their digest to the TSTInfo. The converse follows a genuine reply       *)
(* through the same checks.                                                *)
(***************************************************************************)
EXTENDS TimestampTokens, WellFoundedInduction, TLAPS

LessNat == {ss \in Nat \X Nat : ss[1] < ss[2]}

\* A nonempty set of naturals has a smallest element (extractSignerCert walks
\* the certificates in order and stops at the first that fits).
LEMMA SmallestIndex ==
  ASSUME NEW I, I \subseteq Nat, I # {}
  PROVE  First(I) \in I
<1>1. IsWellFoundedOn(LessNat, Nat)
  BY NatLessThanWellFounded DEF OpToRel, LessNat
<1>2. PICK i \in I : \A j \in I : <<j, i>> \notin LessNat
  BY <1>1, WFMin
<1>3. ASSUME NEW j \in I PROVE i <= j
  <2>1. <<j, i>> \in Nat \X Nat
    OBVIOUS
  <2>2. ~ (<<j, i>>[1] < <<j, i>>[2])
    BY <1>2, <2>1 DEF LessNat
  <2> QED
    BY <2>2
<1> QED
  BY <1>3 DEF First

\* The certificate that extractSignerCert selects is embedded in the token.
LEMMA SignerIsEmbedded ==
  ASSUME NEW certs, NEW si, DOMAIN certs \subseteq Nat, Parseable(certs) # {}
  PROVE  \E i \in Parseable(certs) : extractSignerCert(certs, si) = certs[i]
<1> DEFINE I == IF Matching(certs, si) # {} THEN Matching(certs, si) ELSE Parseable(certs)
<1>1. I # {} /\ I \subseteq Parseable(certs) /\ I \subseteq Nat
  BY DEF Matching, Parseable
<1>2. First(I) \in I
  BY <1>1, SmallestIndex
<1>3. extractSignerCert(certs, si) = certs[First(I)]
  BY DEF extractSignerCert
<1> HIDE DEF I
<1> QED
  BY <1>1, <1>2, <1>3

\* More certificates make more chains.
LEMMA MoreLeadsTo ==
  ASSUME NEW c, NEW r, NEW J, NEW I \in SUBSET J, LeadsTo(c, I, r)
  PROVE  LeadsTo(c, J, r)
<1> SUFFICES ASSUME NEW chain \in SUBSET ({c} \cup J), c \in chain,
                    \A x \in chain, y \in J : y.isCA /\ IssuedBy(x, y) => y \in chain
             PROVE  \E x \in chain : x = r \/ (r.isCA /\ IssuedBy(x, r))
  BY DEF LeadsTo
<1> DEFINE part == chain \cap ({c} \cup I)
<1>1. part \in SUBSET ({c} \cup I) /\ c \in part
  OBVIOUS
<1>2. \A x \in part, y \in I : y.isCA /\ IssuedBy(x, y) => y \in part
  OBVIOUS
<1> HIDE DEF part
<1>3. \E x \in part : x = r \/ (r.isCA /\ IssuedBy(x, r))
  BY <1>1, <1>2 DEF LeadsTo
<1> QED
  BY <1>3 DEF part

\* A leaf that cert.Verify accepts with intermediates of the token was
\* certified: verification at a time only narrows the chains.
LEMMA VerifiedIsCertified ==
  ASSUME NEW leaf, NEW I \in SUBSET Certs, NEW t,
         ChainVerifies(leaf, I, RootPool, t)
  PROVE  Certified(leaf) /\ ValidAt(leaf, t)
<1>1. PICK r \in RootPool : LeadsTo(leaf, {m \in I : Usable(m, t)}, r)
  BY DEF ChainVerifies
<1>2. LeadsTo(leaf, Certs, r)
  BY <1>1, MoreLeadsTo
<1> QED
  BY <1>2 DEF ChainVerifies, Usable, Certified

\* The binding of SignedAttrs to TSTInfo: attributes that an authority wrote
\* for one TSTInfo are accepted for no other.
LEMMA AttributesBind ==
  ASSUME NEW si, NEW tst, NEW stampedTst,
         si.attrs = AttrsOf(stampedTst),
         verifySignedAttrsBinding(si, tst)
  PROVE  tst = stampedTst
<1> DEFINE d == OfType(AttrsOf(stampedTst), "messageDigest")
<1>1. d = {2}
  BY DEF OfType, AttrsOf
<1>2. \E i \in d : checkMessageDigestAttr(si.attrs[i], tst, si.digestAlgorithm)
  BY DEF verifySignedAttrsBinding
<1>3. AttrsOf(stampedTst)[2].value = <<si.digestAlgorithm, tst>>
  BY <1>1, <1>2 DEF checkMessageDigestAttr
<1>4. AttrsOf(stampedTst)[2].value = <<"sha256", stampedTst>>
  BY DEF AttrsOf
<1> QED
  BY <1>3, <1>4

\* A signature of an authority that fits the content of a token was made for
\* the TSTInfo of that token.
LEMMA SignatureBinds ==
  ASSUME NEW si, NEW tst, NEW s, s.form \in {"attributes", "direct"},
         si.signature = SignatureOf(s),
         si.attrs # NoAttrs => verifySignedAttrsBinding(si, tst),
         si.signature.content = SignedContent(si, tst)
  PROVE  tst = s.tst
<1>1. ContentOf(s) = SignedContent(si, tst)
  BY DEF SignatureOf
<1>2. CASE si.attrs = NoAttrs
  <2>1. SignedContent(si, tst) = <<"tst", tst>>
    BY <1>2 DEF SignedContent
  <2>2. CASE s.form = "direct"
    BY <1>1, <2>1, <2>2 DEF ContentOf
  <2>3. CASE s.form = "attributes"
    <3>1. ContentOf(s) = <<"attrs", AttrsOf(s.tst)>>
      BY <2>3 DEF ContentOf
    <3> QED
      BY <1>1, <2>1, <3>1
  <2> QED
    BY <2>2, <2>3
<1>3. CASE si.attrs # NoAttrs
  <2>1. SignedContent(si, tst) = <<"attrs", si.attrs>>
    BY <1>3 DEF SignedContent
  <2>2. CASE s.form = "direct"
    <3>1. ContentOf(s) = <<"tst", s.tst>>
      BY <2>2 DEF ContentOf
    <3> QED
      BY <1>1, <2>1, <3>1
  <2>3. CASE s.form = "attributes"
    <3>1. si.attrs = AttrsOf(s.tst)
      BY <1>1, <2>1, <2>3 DEF ContentOf
    <3> QED
      BY <1>3, <3>1, AttributesBind
  <2> QED
    BY <2>2, <2>3
<1> QED
  BY <1>2, <1>3

\* The heart of the matter: a token that can exist and that
\* VerifyTimestampTrusted accepts for a hash carries a TSTInfo that an
\* authority has signed for that hash.
LEMMA AcceptedIsStamped ==
  ASSUME NEW tok, NEW hash, DOMAIN tok.certs \subseteq Nat,
         1 \in DOMAIN tok.signerInfos \/ tok.signerInfos = << >>,
         \A s \in stamped : s.form \in {"attributes", "direct"},
         CanExist(tok), VerifyTimestampTrusted(tok, hash, RootPool)
  PROVE  \E s \in stamped, c \in Certs :
           /\ s.tst = tok.tst /\ tok.tst.hash = hash
           /\ c.key = s.cert.key /\ hasTimestampingEKU(c) /\ ValidAt(c, tok.tst.genTime)
<1> DEFINE si == tok.signerInfos[1]
           leaf == extractSignerCert(tok.certs, si)
           inter == extractIntermediateCerts(tok.certs, leaf)
<1>1. /\ RootPool # NoPool /\ tok.tst.hash = hash
      /\ tok.signerInfos # << >> /\ Parseable(tok.certs) # {}
      /\ verifySignerInfoSignature(si, tok.tst, leaf)
      /\ ChainVerifies(leaf, inter, RootPool, tok.tst.genTime)
      /\ hasTimestampingEKU(leaf)
  BY DEF VerifyTimestampTrusted, VerifyTimestamp, ImprintMatches
<1> HIDE DEF leaf
<1>2. leaf \in Certs
  <2>1. PICK i \in Parseable(tok.certs) : leaf = tok.certs[i]
    BY <1>1, SignerIsEmbedded DEF leaf
  <2> QED
    BY <2>1 DEF Parseable, CanExist
<1>3. inter \in SUBSET Certs
  BY DEF extractIntermediateCerts, Parseable, CanExist
<1> HIDE DEF inter
<1>4. Certified(leaf) /\ ValidAt(leaf, tok.tst.genTime)
  BY <1>1, <1>3, VerifiedIsCertified
<1>5. leaf.key \in HonestKeys
  BY <1>1, <1>2, <1>4, TrustAnchors DEF hasTimestampingEKU
<1>6. si.signature.key = leaf.key /\ si.signature.content = SignedContent(si, tok.tst)
  BY <1>1 DEF verifySignerInfoSignature, CheckSignature
<1>7. PICK s \in stamped : si.signature = SignatureOf(s)
  BY <1>1, <1>5, <1>6 DEF CanExist
<1>8. s.cert.key = leaf.key
  BY <1>6, <1>7 DEF SignatureOf
<1>9. si.attrs # NoAttrs => verifySignedAttrsBinding(si, tok.tst)
  BY <1>1 DEF verifySignerInfoSignature
<1>10. tok.tst = s.tst
  <2> HIDE DEF si
  <2> QED
    BY <1>6, <1>7, <1>9, SignatureBinds
<1> QED
  BY <1>1, <1>2, <1>4, <1>8, <1>10

\* The reply of an authority can exist: it holds that authority's signature.
LEMMA ReplyCanExist ==
  ASSUME NEW s \in stamped, s.cert \in TSAs, NEW tok \in Replies(s)
  PROVE  /\ CanExist(tok) /\ DOMAIN tok.certs \subseteq Nat
         /\ 1 \in DOMAIN tok.signerInfos
<1>1. PICK b \in Bundle(s.cert), v \in {1, 3} : tok = Reply(s, b, v)
  BY DEF Replies
<1>2. tok.certs = b /\ tok.signerInfos[1].signature = SignatureOf(s)
                   /\ DOMAIN tok.signerInfos = {1}
  BY <1>1 DEF Reply
<1> QED
  BY <1>2, TokenAssumption DEF CanExist

\* Type correctness.
THEOREM TypeCorrect == Spec => []TypeOK
<1>1. Init => TypeOK
  <2> SUFFICES ASSUME Init PROVE TypeOK
    OBVIOUS
  <2>1. accepted \in BOOLEAN /\ expected = None /\ stamped = {} /\ clock = 0
    BY DEF Init
  <2>2. clock \in 0..MaxTime
    BY <2>1, BoundsAssumption
  <2> QED
    BY <2>1, <2>2, Zenon DEF TypeOK
<1>2. TypeOK /\ [Next]_vars => TypeOK'
  <2> SUFFICES ASSUME TypeOK, [Next]_vars PROVE TypeOK'
    OBVIOUS
  <2>1. CASE Tick
    BY <2>1, BoundsAssumption DEF Tick, TypeOK
  <2>2. ASSUME NEW c \in TSAs, NEW h \in Hashes, NEW f \in Forms, Stamp(c, h, f) PROVE TypeOK'
    BY <2>2, BoundsAssumption DEF Stamp, TST, TypeOK, Stamps
  <2>3. ASSUME NEW tok, NEW h \in Hashes, Present(tok, h) PROVE TypeOK'
    <3>1. accepted' \in BOOLEAN
      BY <2>3 DEF Present, VerifyTimestampTrusted
    <3> QED
      BY <2>3, <3>1 DEF Present, TypeOK
  <2>4. CASE Reported
    BY <2>4 DEF Reported, TypeOK
  <2>5. CASE UNCHANGED vars
    BY <2>5 DEF vars, TypeOK
  <2> QED
    BY <2>1, <2>2, <2>3, <2>4, <2>5 DEF Next, PresentReply, PresentOther
<1> QED
  BY <1>1, <1>2, PTL DEF Spec

\* A timestamp that verification reports as valid was made by an authority for
\* this receipt (VerifyTimestampTrusted, rfc3161.go).
THEOREM Vouched == Spec => []TimestampVouched
<1>1. Init => TimestampVouched
  BY DEF Init, TimestampVouched
<1>2. TypeOK /\ TimestampVouched /\ [Next]_vars => TimestampVouched'
  <2> SUFFICES ASSUME TypeOK, TimestampVouched, [Next]_vars PROVE TimestampVouched'
    OBVIOUS
  <2>0. \A s \in stamped : s.form \in {"attributes", "direct"} /\ s.cert \in TSAs
    BY FormsAssumption DEF TypeOK, Stamps
  <2>1. CASE Tick
    BY <2>1 DEF Tick, TimestampVouched
  <2>2. ASSUME NEW c \in TSAs, NEW h \in Hashes, NEW f \in Forms, Stamp(c, h, f)
        PROVE  TimestampVouched'
    BY <2>2 DEF Stamp, TimestampVouched
  <2>3. ASSUME NEW tok, NEW h \in Hashes, Present(tok, h), CanExist(tok),
               DOMAIN tok.certs \subseteq Nat,
               tok.signerInfos = << >> \/ 1 \in DOMAIN tok.signerInfos
        PROVE  TimestampVouched'
    <3>1. /\ presented' = tok /\ expected' = h /\ stamped' = stamped
          /\ accepted' = VerifyTimestampTrusted(tok, h, RootPool)
      BY <2>3 DEF Present
    <3>2. CASE ~ VerifyTimestampTrusted(tok, h, RootPool)
      BY <3>1, <3>2 DEF TimestampVouched
    <3>3. CASE VerifyTimestampTrusted(tok, h, RootPool)
      <4>1. PICK s \in stamped, c \in Certs :
              /\ s.tst = tok.tst /\ tok.tst.hash = h
              /\ c.key = s.cert.key /\ hasTimestampingEKU(c) /\ ValidAt(c, tok.tst.genTime)
        BY <2>0, <2>3, <3>3, AcceptedIsStamped
      <4> QED
        BY <3>1, <4>1 DEF TimestampVouched
    <3> QED
      BY <3>2, <3>3
  <2>4. CASE PresentReply
    <3>1. PICK s \in stamped, h \in Hashes : \E tok \in Replies(s) : Present(tok, h)
      BY <2>4 DEF PresentReply
    <3>2. PICK tok \in Replies(s) : Present(tok, h)
      BY <3>1
    <3> QED
      BY <2>0, <2>3, <3>1, <3>2, ReplyCanExist
  <2>5. CASE PresentOther
    <3>1. PICK tok \in OtherTokens, h \in Hashes : CanExist(tok) /\ Present(tok, h)
      BY <2>5 DEF PresentOther
    <3> QED
      BY <2>3, <3>1, TokenAssumption
  <2>6. CASE Reported
    BY <2>6 DEF Reported, TimestampVouched
  <2>7. CASE UNCHANGED vars
    BY <2>7 DEF vars, TimestampVouched
  <2> QED
    BY <2>1, <2>2, <2>4, <2>5, <2>6, <2>7 DEF Next
<1> QED
  BY <1>1, <1>2, TypeCorrect, PTL DEF Spec

-----------------------------------------------------------------------------
(* The converse: what an authority answers is accepted *)

\* The certificate that the SID names is found among those embedded, wherever it
\* is, and every other one that parses is offered as an intermediate.
LEMMA SignerIsFound ==
  ASSUME NEW c \in TSAs, NEW b \in Bundle(c), NEW si,
         si.version = 1, si.issuer = c.issuer, si.serial = c.serial
  PROVE  /\ Parseable(b) # {} /\ extractSignerCert(b, si) = c
         /\ extractIntermediateCerts(b, c) = {b[i] : i \in DOMAIN b} \ {c, Garbled}
<1>1. /\ DOMAIN b \subseteq Nat /\ c # Garbled
      /\ \A i \in DOMAIN b :
           b[i] # Garbled /\ b[i].issuer = c.issuer /\ b[i].serial = c.serial => b[i] = c
  BY TokenAssumption, EmbeddedAssumption, TrustAnchors
<1>2. PICK i \in DOMAIN b : b[i] = c
  BY EmbeddedAssumption
<1>3. i \in Matching(b, si) /\ Matching(b, si) \subseteq Parseable(b) /\ Parseable(b) \subseteq DOMAIN b
  BY <1>1, <1>2 DEF Matching, Parseable, MatchesSID
<1>4. \A j \in Matching(b, si) : b[j] = c
  BY <1>1 DEF Matching, Parseable, MatchesSID
<1>5. First(Matching(b, si)) \in Matching(b, si)
  BY <1>1, <1>3, SmallestIndex
<1>6. extractSignerCert(b, si) = c
  BY <1>3, <1>4, <1>5 DEF extractSignerCert
<1>7. \A j \in DOMAIN b :
        (j \in Parseable(b) /\ ~(b[j].serial = c.serial /\ b[j].issuer = c.issuer))
          <=> b[j] \notin {c, Garbled}
  BY <1>1 DEF Parseable
<1>8. extractIntermediateCerts(b, c) = {b[j] : j \in DOMAIN b} \ {c, Garbled}
  BY <1>3, <1>7 DEF extractIntermediateCerts
<1> QED
  BY <1>3, <1>6, <1>8

\* Attributes that an authority wrote bind the TSTInfo they were written for.
LEMMA OwnAttributesBind ==
  ASSUME NEW si, NEW tst, si.attrs = AttrsOf(tst), si.digestAlgorithm = "sha256",
         AttrsOf(tst) # Garbled
  PROVE  verifySignedAttrsBinding(si, tst)
<1> DEFINE attrs == AttrsOf(tst)
<1>1. /\ DOMAIN attrs = {1, 2} /\ attrs[1].type = "contentType" /\ attrs[2].type = "messageDigest"
      /\ attrs[1].value = <<"oid", "TSTInfo">> /\ attrs[2].value = <<"sha256", tst>>
  BY DEF AttrsOf
<1> HIDE DEF attrs
<1>2. OfType(attrs, "contentType") = {1} /\ OfType(attrs, "messageDigest") = {2}
  BY <1>1 DEF OfType
<1>3. si.attrs = attrs /\ attrs # Garbled
  BY DEF attrs
<1> QED
  BY <1>1, <1>2, <1>3
  DEF verifySignedAttrsBinding, checkContentTypeAttr, checkMessageDigestAttr, Digests

\* A verifiable reply passes every check of VerifyTimestampTrusted.
LEMMA ReplyVerifies ==
  ASSUME NEW s \in Stamps, NEW b \in Bundle(s.cert), RootPool # NoPool, Verifiable(s, b)
  PROVE  VerifyTimestampTrusted(Reply(s, b, 1), s.tst.hash, RootPool)
<1> DEFINE tok == Reply(s, b, 1)
           attrs == IF s.form = "direct" THEN NoAttrs ELSE AttrsOf(s.tst)
           si == [version |-> 1, issuer |-> s.cert.issuer, serial |-> s.cert.serial,
                  digestAlgorithm |-> "sha256", signatureAlgorithm |-> <<"rsa", "sha256">>,
                  attrs |-> attrs, signature |-> SignatureOf(s)]
<1>1. /\ s.cert \in TSAs /\ s.form \in {"attributes", "direct"} /\ s.tst.algorithm = "sha256"
      /\ s.tst # Garbled /\ AttrsOf(s.tst) \notin {Garbled, NoAttrs}
  BY FormsAssumption, SentinelAssumption DEF Stamps
<1>2. /\ tok.response = "whole" /\ tok.status = Granted /\ tok.contentType = "signedData"
      /\ tok.eContentType = "TSTInfo" /\ tok.tst = s.tst /\ tok.certs = b /\ tok.signerInfos = <<si>>
  BY DEF Reply
<1>3. /\ si.version = 1 /\ si.issuer = s.cert.issuer /\ si.serial = s.cert.serial
      /\ si.digestAlgorithm = "sha256" /\ si.signatureAlgorithm = <<"rsa", "sha256">>
      /\ si.attrs = attrs /\ si.signature = SignatureOf(s)
  OBVIOUS
<1> HIDE DEF tok, si
<1>4. tok.signerInfos # << >> /\ tok.signerInfos[1] = si
  BY <1>2
<1>5. /\ Parseable(b) # {} /\ extractSignerCert(b, si) = s.cert
      /\ extractIntermediateCerts(b, s.cert) = {b[i] : i \in DOMAIN b} \ {s.cert, Garbled}
  BY <1>1, <1>3, SignerIsFound
<1>6. SignatureOf(s).key = s.cert.key /\ SignatureOf(s).content = ContentOf(s)
  BY DEF SignatureOf
<1>7. si.attrs # NoAttrs => verifySignedAttrsBinding(si, s.tst)
  <2> SUFFICES ASSUME si.attrs # NoAttrs PROVE verifySignedAttrsBinding(si, s.tst)
    OBVIOUS
  <2>1. si.attrs = AttrsOf(s.tst)
    BY <1>3
  <2> QED
    BY <1>1, <1>3, <2>1, OwnAttributesBind
<1>8. SignedContent(si, s.tst) = ContentOf(s)
  <2>1. CASE s.form = "direct"
    BY <1>3, <2>1 DEF SignedContent, ContentOf
  <2>2. CASE s.form # "direct"
    BY <1>1, <1>3, <2>2 DEF SignedContent, ContentOf
  <2> QED
    BY <2>1, <2>2
<1>9. si.signatureAlgorithm \in SignatureAlgorithms
  BY <1>3 DEF SignatureAlgorithms, Digests
<1>10. verifySignerInfoSignature(si, s.tst, s.cert)
  BY <1>3, <1>6, <1>7, <1>8, <1>9 DEF verifySignerInfoSignature, CheckSignature
<1>11. VerifyTimestamp(tok, s.tst.hash)
  BY <1>1, <1>2, <1>4, <1>5, <1>10 DEF VerifyTimestamp, ImprintMatches
<1>12. ChainVerifies(s.cert, extractIntermediateCerts(b, s.cert), RootPool, s.tst.genTime)
  BY <1>5 DEF Verifiable
<1>13. hasTimestampingEKU(s.cert)
  BY <1>1, EmbeddedAssumption DEF hasTimestampingEKU
<1>14. VerifyTimestampTrusted(tok, s.tst.hash, RootPool)
  BY <1>2, <1>4, <1>5, <1>11, <1>12, <1>13 DEF VerifyTimestampTrusted
<1> QED
  BY <1>14 DEF tok

\* The verdict is that of the token under verification.
Judged == presented # None => accepted = VerifyTimestampTrusted(presented, expected, RootPool)

\* No genuine timestamp is turned away, in whatever order and company its
\* certificates are embedded and however much later it is verified.
THEOREM GenuineIsAccepted == Spec => []GenuineAccepted
<1>1. Init => Judged
  BY DEF Init, Judged
<1>2. Judged /\ [Next]_vars => Judged'
  <2> SUFFICES ASSUME Judged, [Next]_vars PROVE Judged'
    OBVIOUS
  <2>1. ASSUME NEW tok, NEW h, Present(tok, h) PROVE Judged'
    BY <2>1 DEF Present, Judged
  <2>2. CASE \/ Tick \/ UNCHANGED vars
            \/ \E c \in TSAs, h \in Hashes, f \in Forms : Stamp(c, h, f)
    BY <2>2 DEF Tick, Stamp, vars, Judged
  <2>3. CASE Reported
    BY <2>3 DEF Reported, Judged
  <2> QED
    BY <2>1, <2>2, <2>3 DEF Next, PresentReply, PresentOther
<1>3. TypeOK /\ Judged => GenuineAccepted
  <2> SUFFICES ASSUME TypeOK, Judged, NEW s \in stamped, NEW b \in Bundle(s.cert),
                      RootPool # NoPool, Verifiable(s, b),
                      presented = Reply(s, b, 1), expected = s.tst.hash
               PROVE  accepted
    BY DEF GenuineAccepted
  <2>1. s \in Stamps
    BY DEF TypeOK
  <2>2. presented # None
    BY <2>1, SentinelAssumption
  <2>3. VerifyTimestampTrusted(presented, expected, RootPool)
    BY <2>1, ReplyVerifies
  <2> QED
    BY <2>2, <2>3 DEF Judged
<1> QED
  BY <1>1, <1>2, <1>3, TypeCorrect, PTL DEF Spec
=============================================================================
