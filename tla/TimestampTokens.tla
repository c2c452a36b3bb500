-------------------------- MODULE TimestampTokens --------------------------
(***************************************************************************)
(* Timestamp tokens in circulation. Timestamping authorities sign the      *)
(* hashes that are sent to them; the token that comes back, or any other   *)
(* put together from its parts and from certificates and keys that others  *)
(* hold, is later found in the store and verified against a receipt.       *)
(***************************************************************************)
EXTENDS Rfc3161

CONSTANTS Hashes,        \* digests of receipts
          Certs,         \* the certificates in circulation
          TSAs,          \* those of the timestamping authorities
          RootPool,      \* TSA_ROOT_CERT_PEM, or NoPool
          Bundle(_),     \* the arrangements in which an authority embeds certificates
          Forms,         \* with signed attributes, or without
          OtherTokens,   \* tokens that someone may put together
          MaxTime, MaxStamps,
          None

VARIABLES clock,       \* the authorities' clock
          stamped,     \* what authorities have signed
          presented,   \* the token under verification, or None
          expected,    \* SHA-256 of the receipt it is verified for, or None
          accepted     \* the result of VerifyTimestampTrusted

vars == <<clock, stamped, presented, expected, accepted>>

HonestKeys == {c.key : c \in TSAs}

\* A root has certified c, through whatever intermediates.
Certified(c) == \E r \in RootPool : LeadsTo(c, Certs, r)

\* What the certification authorities promise: whoever holds a certificate for
\* timestamping is one of the timestamping authorities.
ASSUME TrustAnchors ==
  /\ TSAs \subseteq Certs /\ Garbled \notin Certs
  /\ RootPool # NoPool =>
       \A c \in Certs : Certified(c) /\ "timeStamping" \in c.eku => c.key \in HonestKeys

\* Tokens hold sequences of certificates and of signer infos.
ASSUME TokenAssumption ==
  /\ \A tok \in OtherTokens :
       /\ DOMAIN tok.certs \subseteq Nat
       /\ tok.signerInfos = << >> \/ 1 \in DOMAIN tok.signerInfos
  /\ \A c \in TSAs : \A b \in Bundle(c) :
       DOMAIN b \subseteq Nat /\ \A i \in DOMAIN b : b[i] \in Certs \cup {Garbled}

\* An authority's certificate is for timestamping and is among those it embeds,
\* and no two that it embeds share issuer and serial number.
ASSUME EmbeddedAssumption ==
  \A c \in TSAs :
    /\ "timeStamping" \in c.eku
    /\ \A b \in Bundle(c) :
         /\ \E i \in DOMAIN b : b[i] = c
         /\ \A i \in DOMAIN b :
              b[i] # Garbled /\ b[i].issuer = c.issuer /\ b[i].serial = c.serial => b[i] = c

ASSUME FormsAssumption == Forms \subseteq {"attributes", "direct"}
ASSUME BoundsAssumption == MaxTime \in Nat /\ MaxStamps \in Nat

Stamps == [cert : TSAs, form : Forms,
           tst : [algorithm : {"sha256"}, hash : Hashes, genTime : 0..MaxTime]]

\* What stands for bytes that do not parse, or for nothing, is not what an
\* authority writes.
ASSUME SentinelAssumption ==
  \A s \in Stamps :
    /\ s.tst # Garbled /\ AttrsOf(s.tst) \notin {Garbled, NoAttrs}
    /\ \A b \in Bundle(s.cert) : Reply(s, b, 1) # None

-----------------------------------------------------------------------------
(* The tokens that can be found in the store. *)

Replies(s) == {Reply(s, b, v) : b \in Bundle(s.cert), v \in {1, 3}}

\* Certificates are public, signatures of an authority exist only once made.
CanExist(tok) ==
  /\ \A i \in DOMAIN tok.certs : tok.certs[i] \in Certs \cup {Garbled}
  /\ \A i \in DOMAIN tok.signerInfos :
       LET sig == tok.signerInfos[i].signature
       IN  sig.key \in HonestKeys => \E s \in stamped : sig = SignatureOf(s)

-----------------------------------------------------------------------------
Init == /\ clock = 0 /\ stamped = {}
        /\ presented = None /\ expected = None /\ accepted = FALSE

\* Verification does not read this clock: it takes the time from the token.
Tick ==
  /\ presented = None
  /\ clock < MaxTime
  /\ clock' = clock + 1
  /\ UNCHANGED <<stamped, presented, expected, accepted>>

\* An authority receives a hash from TSAClient.Timestamp and signs it.
Stamp(c, hash, form) ==
  /\ presented = None
  /\ Cardinality(stamped) < MaxStamps
  /\ stamped' = stamped \cup {[cert |-> c, tst |-> TST(hash, clock), form |-> form]}
  /\ UNCHANGED <<clock, presented, expected, accepted>>

\* Chain reports on a receipt whose stored token is tok.
Present(tok, hash) ==
  /\ presented = None
  /\ presented' = tok /\ expected' = hash
  /\ accepted' = VerifyTimestampTrusted(tok, hash, RootPool)
  /\ UNCHANGED <<clock, stamped>>

PresentReply == \E s \in stamped, h \in Hashes : \E tok \in Replies(s) : Present(tok, h)

PresentOther ==
  /\ presented = None
  /\ \E tok \in {t \in OtherTokens : CanExist(t)}, h \in Hashes : Present(tok, h)

Reported ==
  /\ presented # None
  /\ presented' = None /\ expected' = None /\ accepted' = FALSE
  /\ UNCHANGED <<clock, stamped>>

Next == \/ Tick
        \/ \E c \in TSAs, h \in Hashes, f \in Forms : Stamp(c, h, f)
        \/ PresentReply
        \/ PresentOther
        \/ Reported

Spec == Init /\ [][Next]_vars

-----------------------------------------------------------------------------
\* Every variable has its type (the shape of a token is not constrained:
\* anything may be found in a token file).
TypeOK ==
  /\ clock \in 0..MaxTime
  /\ stamped \subseteq Stamps
  /\ expected \in Hashes \cup {None}
  /\ accepted \in BOOLEAN

\* A timestamp that verification reports as valid was made: an authority has
\* signed the hash of this very receipt, at the time the report gives, with a
\* certificate that was valid then. This needs every check of
\* VerifyTimestampTrusted at once: imprint, digest binding, signer, chain, EKU.
TimestampVouched ==
  accepted => \E s \in stamped, c \in Certs :
                /\ s.tst = presented.tst /\ s.tst.hash = expected
                /\ c.key = s.cert.key /\ hasTimestampingEKU(c) /\ ValidAt(c, s.tst.genTime)

\* The certificates that a verifier needs for c are in every arrangement of
\* Bundle(c), and c was valid when it signed.
Verifiable(s, certs) ==
  ChainVerifies(s.cert, {certs[i] : i \in DOMAIN certs} \ {s.cert, Garbled},
                RootPool, s.tst.genTime)

\* The reply of an authority that names its certificate by issuer and serial
\* number is accepted for its receipt, in whatever order and company the
\* certificates are embedded, and however much later it is verified: an
\* expired certificate does not take its old timestamps with it.
GenuineAccepted ==
  \A s \in stamped : \A b \in Bundle(s.cert) :
    /\ RootPool # NoPool /\ Verifiable(s, b)
    /\ presented = Reply(s, b, 1) /\ expected = s.tst.hash
    => accepted
=============================================================================
