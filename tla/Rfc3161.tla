------------------------------ MODULE Rfc3161 ------------------------------
(***************************************************************************)
(* Verification of RFC 3161 timestamp tokens (pkg/anchor/rfc3161.go).      *)
(* DER is abstracted: a token is the record its parse yields, a digest     *)
(* holds what was hashed and under which algorithm, and a signature holds  *)
(* the key that made it and the content it covers.                         *)
(***************************************************************************)
EXTENDS Naturals, Sequences, FiniteSets

CONSTANTS Garbled,     \* bytes that do not parse
          NoAttrs,     \* a SignerInfo without SignedAttrs
          NoPool       \* no TSA root pool is configured (a nil pool)

Granted == 0           \* pkiStatusGranted

\* hasherFor: the digest algorithms a message-digest attribute may use.
Digests == {"sha256", "sha384", "sha512"}

\* mapSignatureAlgorithm: RSA and ECDSA over those digests.
SignatureAlgorithms == {"rsa", "ecdsa"} \X Digests

-----------------------------------------------------------------------------
(* Certificates, and what crypto/x509 does with them (external). *)

ValidAt(c, t) == c.notBefore <= t /\ t <= c.notAfter

IssuedBy(c, parent) == c.issuer = parent.subject /\ c.signedBy = parent.key

\* KeyUsages of VerifyOptions: a certificate without the extension (an empty
\* set here) may be used for anything.
UsagePermits(c) == c.eku = {} \/ c.eku \cap {"timeStamping", "any"} # {}

\* A chain leads from c, through any number of certificates of pool, up to the
\* root r, each of them signed by a CA: r is, or has signed, a member of every
\* set that has c and, with a member, the CAs of the pool that signed it.
LeadsTo(c, pool, r) ==
  \A chain \in SUBSET ({c} \cup pool) :
    /\ c \in chain
    /\ \A x \in chain, y \in pool : y.isCA /\ IssuedBy(x, y) => y \in chain
    => \E x \in chain : x = r \/ (r.isCA /\ IssuedBy(x, r))

Usable(c, t) == ValidAt(c, t) /\ UsagePermits(c)

\* cert.Verify: a chain from the leaf to a root, every certificate of it valid
\* at time t and permitted to be used for timestamps.
ChainVerifies(leaf, intermediates, roots, t) ==
  /\ Usable(leaf, t)
  /\ \E r \in roots :
       Usable(r, t) /\ LeadsTo(leaf, {m \in intermediates : Usable(m, t)}, r)

\* cert.CheckSignature.
CheckSignature(c, content, signature) ==
  signature.key = c.key /\ signature.content = content

-----------------------------------------------------------------------------
(* The signer's certificate. Unparseable certificates are skipped. *)

Parseable(certs) == {i \in DOMAIN certs : certs[i] # Garbled}

MatchesSID(c, si) == si.version = 1 /\ c.issuer = si.issuer /\ c.serial = si.serial

Matching(certs, si) == {i \in Parseable(certs) : MatchesSID(certs[i], si)}

First(I) == CHOOSE i \in I : \A j \in I : i <= j

\* The first certificate that the SID names; without one, the first that parses.
extractSignerCert(certs, si) ==
  certs[First(IF Matching(certs, si) # {} THEN Matching(certs, si)
                                          ELSE Parseable(certs))]

\* Mutant: a certificate that shares only the leaf's serial number is dropped too.
extractIntermediateCerts_SerialOnly(certs, leaf) ==
  {certs[i] : i \in {j \in Parseable(certs) : certs[j].serial # leaf.serial}}

\* Every other certificate of the token may be an intermediate.
extractIntermediateCerts(certs, leaf) ==
  {certs[i] : i \in {j \in Parseable(certs) :
                       ~ (certs[j].serial = leaf.serial /\ certs[j].issuer = leaf.issuer)}}

hasTimestampingEKU(c) == "timeStamping" \in c.eku

-----------------------------------------------------------------------------
(* The signature. *)

checkContentTypeAttr(a) == a.value = <<"oid", "TSTInfo">>

\* Mutant: the attribute holds some digest, not one of this TSTInfo.
checkMessageDigestAttr_Unbound(a, tst, digestAlgorithm) ==
  digestAlgorithm \in Digests /\ a.value[1] = digestAlgorithm

checkMessageDigestAttr(a, tst, digestAlgorithm) ==
  digestAlgorithm \in Digests /\ a.value = <<digestAlgorithm, tst>>

OfType(attrs, type) == {i \in DOMAIN attrs : attrs[i].type = type}

\* Exactly one attribute of each of the two types, and both are right.
verifySignedAttrsBinding(si, tst) ==
  LET content == OfType(si.attrs, "contentType")
      digest  == OfType(si.attrs, "messageDigest")
  IN  /\ si.attrs # Garbled
      /\ \E i \in content : content = {i} /\ checkContentTypeAttr(si.attrs[i])
      /\ \E i \in digest :
           digest = {i} /\ checkMessageDigestAttr(si.attrs[i], tst, si.digestAlgorithm)

\* What the signature covers: the attributes, or the TSTInfo itself.
SignedContent(si, tst) ==
  IF si.attrs = NoAttrs THEN <<"tst", tst>> ELSE <<"attrs", si.attrs>>

verifySignerInfoSignature(si, tst, c) ==
  /\ si.signatureAlgorithm \in SignatureAlgorithms
  /\ si.attrs # NoAttrs => verifySignedAttrsBinding(si, tst)
  /\ CheckSignature(c, SignedContent(si, tst), si.signature)

-----------------------------------------------------------------------------
(* The two verification functions; the time they return is tst.genTime. *)

\* Parsing, status, content types, TSTInfo and imprint.
ImprintMatches(tok, hash) ==
  /\ tok.response = "whole"
  /\ tok.status = Granted
  /\ tok.contentType = "signedData"
  /\ tok.eContentType = "TSTInfo"
  /\ tok.tst # Garbled
  /\ tok.tst.algorithm = "sha256"
  /\ tok.tst.hash = hash

VerifyTimestamp(tok, hash) ==
  /\ ImprintMatches(tok, hash)
  /\ tok.signerInfos # << >>
  /\ Parseable(tok.certs) # {}
  /\ LET si == tok.signerInfos[1]
     IN  verifySignerInfoSignature(si, tok.tst, extractSignerCert(tok.certs, si))

VerifyTimestampTrusted(tok, hash, roots) ==
  /\ roots # NoPool
  /\ VerifyTimestamp(tok, hash)
  /\ LET leaf == extractSignerCert(tok.certs, tok.signerInfos[1])
     IN  /\ ChainVerifies(leaf, extractIntermediateCerts(tok.certs, leaf),
                          roots, tok.tst.genTime)
         /\ hasTimestampingEKU(leaf)

-----------------------------------------------------------------------------
(* What an authority signs, and the token it answers with (external). *)

TST(hash, t) == [algorithm |-> "sha256", hash |-> hash, genTime |-> t]

AttrsOf(tst) == << [type |-> "contentType",   value |-> <<"oid", "TSTInfo">>],
                   [type |-> "messageDigest", value |-> <<"sha256", tst>>] >>

ContentOf(s) == IF s.form = "direct" THEN <<"tst", s.tst>> ELSE <<"attrs", AttrsOf(s.tst)>>

SignatureOf(s) == [key |-> s.cert.key, content |-> ContentOf(s)]

\* The reply of an authority: version 1 names the certificate by issuer and
\* serial number, version 3 by its key identifier.
Reply(s, certs, version) ==
  [response |-> "whole", status |-> Granted, contentType |-> "signedData",
   eContentType |-> "TSTInfo", tst |-> s.tst, certs |-> certs,
   signerInfos |-> << [version |-> version, issuer |-> s.cert.issuer,
                       serial |-> s.cert.serial, digestAlgorithm |-> "sha256",
                       signatureAlgorithm |-> <<"rsa", "sha256">>,
                       attrs |-> IF s.form = "direct" THEN NoAttrs ELSE AttrsOf(s.tst),
                       signature |-> SignatureOf(s)] >>]
=============================================================================
