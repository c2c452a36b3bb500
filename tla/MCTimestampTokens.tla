------------------------- MODULE MCTimestampTokens -------------------------
EXTENDS TimestampTokens, TLC

Receipts == Permutations(Hashes)

Certificate(subject, issuer, serial, signedBy, eku, until) ==
  [subject |-> subject, issuer |-> issuer, serial |-> serial, key |-> subject,
   signedBy |-> signedBy, eku |-> eku, isCA |-> subject \in {"ca", "sub", "sub2"},
   notBefore |-> 0, notAfter |-> until]

Root  == Certificate("ca",  "ca",  1, "ca",  {}, 9)
Sub   == Certificate("sub", "ca",  2, "ca",  {}, 9)
Sub2  == Certificate("sub2", "sub", 1, "sub", {"any"}, 9)
\* An authority certified by the root, whose certificate expires first.
Tsa   == Certificate("tsa", "ca",  3, "ca",  {"timeStamping"}, 0)
\* One certified by the second intermediate, with the first one's serial number.
Tsa2  == Certificate("tsa2", "sub2", 2, "sub2", {"timeStamping"}, 9)
\* A certificate for anything, and one that imitates the first authority's.
Plain == Certificate("plain", "ca", 4, "ca", {}, 9)
Fake  == [Certificate("tsa", "ca", 3, "fake", {"timeStamping"}, 9) EXCEPT !.key = "fake"]

MCCerts == {Root, Sub, Sub2, Tsa, Tsa2, Plain, Fake}
MCTSAs  == {Tsa, Tsa2}
MCRoots == {Root}
MCBundle(c) == IF c = Tsa THEN {<<Tsa>>, <<Root, Tsa>>}
                          ELSE {<<Tsa2, Sub2, Sub>>, <<Sub, Tsa2, Sub2>>, <<Garbled, Root, Sub2, Sub, Tsa2>>}

CertLists == {<< >>, <<Garbled>>, <<Tsa>>, <<Plain>>, <<Fake>>, <<Fake, Tsa>>,
              <<Sub2, Tsa2>>, <<Plain, Tsa2, Sub2, Sub>>}

TSTs == {TST(h, t) : h \in Hashes, t \in 0..MaxTime}

CT == [type |-> "contentType", value |-> <<"oid", "TSTInfo">>]
BadCT == [type |-> "contentType", value |-> <<"oid", "data">>]
MD(tst) == [type |-> "messageDigest", value |-> <<"sha256", tst>>]

AttrLists == {NoAttrs, Garbled, <<CT>>}
             \cup UNION {{AttrsOf(t), <<MD(t)>>, <<BadCT, MD(t)>>, <<CT, MD(t), MD(t)>>,
                          <<CT, CT, MD(t)>>} : t \in TSTs}

\* Signatures over the content of the token: by holders of other keys, or, if
\* they exist, of an authority.
Signatures(attrs, tst) ==
  {[key |-> k, content |-> SignedContent([attrs |-> attrs], tst)]
     : k \in {"plain", "fake", "tsa", "tsa2"}}

SignerInfo(version, signer, alg, attrs, sig) ==
  [version |-> version, issuer |-> signer.issuer, serial |-> signer.serial,
   digestAlgorithm |-> alg, signatureAlgorithm |-> <<"rsa", "sha256">>,
   attrs |-> attrs, signature |-> sig]

Token(tst, certs, sis) ==
  [response |-> "whole", status |-> Granted, contentType |-> "signedData",
   eContentType |-> "TSTInfo", tst |-> tst, certs |-> certs, signerInfos |-> sis]

Assembled ==
  UNION {{Token(t, cs, <<SignerInfo(n[1], n[2], "sha256", a, sig)>>) :
            cs \in CertLists, sig \in Signatures(a, t),
            n \in {<<1, Tsa>>, <<1, Tsa2>>, <<1, Plain>>, <<3, Tsa>>}}
         : t \in TSTs, a \in AttrLists}

\* Tokens that are right except for one part of their structure.
Good(t) == Reply([cert |-> Tsa, tst |-> t, form |-> "attributes"], <<Tsa>>, 1)
GoodSI(t) == Good(t).signerInfos[1]
Damaged ==
  UNION {{[Good(t) EXCEPT !.response = "trailing"], [Good(t) EXCEPT !.status = 2],
          [Good(t) EXCEPT !.contentType = "absent"], [Good(t) EXCEPT !.eContentType = "data"],
          [Good(t) EXCEPT !.tst = Garbled], [Good(t) EXCEPT !.tst.algorithm = "sha1"],
          [Good(t) EXCEPT !.signerInfos = << >>],
          [Good(t) EXCEPT !.signerInfos[1].digestAlgorithm = "md5"],
          [Good(t) EXCEPT !.signerInfos[1].signatureAlgorithm = <<"rsa", "md5">>]}
         : t \in TSTs}

MCOtherTokens == Assembled \cup Damaged
=============================================================================
