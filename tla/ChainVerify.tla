---------------------------- MODULE ChainVerify ----------------------------
(***************************************************************************)
(* verify.Chain as an operator: the verdict on a bundle is the code of the *)
(* first check that fails, in the order in which the code runs them.       *)
(*                                                                         *)
(* A receipt is a record of                                                *)
(*   form     "ok", or what is wrong with its encoding, type or jti        *)
(*   iss, aud, sub  principals                                             *)
(*   cmd      its command path, split at "/": "/a" is <<"", "a">>          *)
(*   policy   see module Policy                                            *)
(*   nbf, exp its window; exp may be NoExp                                 *)
(*   prev     the hash of its parent, or NoHash                            *)
(*   consent  "notHuman", "complete", "absent" or "incomplete"             *)
(*   index    its status list index, or NoIndex                            *)
(*   sig      who signed it, "nonCanonical", or "unreadable": a header or  *)
(*            signature that does not decode, or of another algorithm        *)
(* and an invocation one of form, iss, sub, cmd, args, drChain,            *)
(* toolServer, iat and sig.  The environment of a call has now, the first  *)
(* resolution error ("none", "didKey" or "didWeb"), the state of the       *)
(* remote status list, what it revokes, and the local revocations.         *)
(***************************************************************************)
EXTENDS Policy, FiniteSetsExt

CONSTANTS MaxChainDepth,     \* maxChainDepth
          ServerIdentity,    \* SERVER_IDENTITY, or NoServer
          NoServer, NoExp, NoIndex,
          MaxInvocationAge,  \* in seconds; 0 disables the check
          Skew               \* invocationClockSkew

ASSUME ChainConstants == MaxChainDepth \in Nat /\ NoExp \notin Int

ok == "VALID"

\* The verdict of w, unless v has rejected already.
Then(v, w) == IF v # ok THEN v ELSE w

Reject(condition, code) == IF condition THEN code ELSE ok

\* A loop over lo..hi that returns the first rejection of its body.
Loop(lo, hi, Body(_)) ==
  LET bad == {i \in lo .. hi : Body(i) # ok}
  IN  IF bad = {} THEN ok ELSE Body(Min(bad))

\* computeChainHash: SHA-256 names the bytes it was computed from.  A root's
\* prev_dr_hash is null: the hash of nothing.
Hash(receipt) == [sha256 |-> {receipt}]
NoHash        == [sha256 |-> {}]

---------------------------------------------------------------------------
(* Block A and decoding *)

BlockA(b) ==
  LET n == Len(b.receipts) IN
  Then(Reject(n = 0, "EMPTY_CHAIN"),
  Then(Reject(n > MaxChainDepth, "CHAIN_TOO_DEEP"),
       Reject(b.inv.form = "empty", "MISSING_INVOCATION")))

\* Three parts, the second of them base64url of JSON.
DecodesPayload(doc) == doc.form # "undecodable"

Decode(b) ==
  Then(Loop(1, Len(b.receipts), LAMBDA i :
         Reject(~DecodesPayload(b.receipts[i]), "MALFORMED_RECEIPT")),
       Reject(~DecodesPayload(b.inv), "MALFORMED_INVOCATION"))

---------------------------------------------------------------------------
(* Block B: structure *)

TypeAndVersion(form) ==
  Then(Reject(form = "wrongType", "WRONG_TYPE"),
       Reject(form = "wrongVersion", "VERSION_MISMATCH"))

JtiPrefix(form) == Reject(form = "badJti", "INVALID_JTI")

\* validateConsentRecord: some required field is blank.
ConsentIncomplete(consent) == consent = "incomplete"

RootConsent(root) ==
  Then(Reject(root.prev # NoHash, "CHAIN_STRUCTURE"),
  Then(Reject(root.consent = "absent", "MISSING_CONSENT"),
       Reject(ConsentIncomplete(root.consent), "INVALID_CONSENT")))

\* Mutant: a prev_dr_hash must be there, not match.
ChainHashesPresent(r) ==
  Loop(2, Len(r), LAMBDA i : Reject(r[i].prev = NoHash, "CHAIN_BREAK"))

ChainHashes(r) ==
  Loop(2, Len(r), LAMBDA i :
    Reject(r[i].prev = NoHash \/ r[i].prev # Hash(r[i - 1]), "CHAIN_BREAK"))

IssuerIsAudience(r) ==
  Loop(2, Len(r), LAMBDA i : Reject(r[i].iss # r[i - 1].aud, "ISSUER_MISMATCH"))

DrChain(r, inv) ==
  Reject(\/ Len(inv.drChain) # Len(r)
         \/ \E i \in DOMAIN r : inv.drChain[i] # Hash(r[i]),
         "CHAIN_REFERENCE_MISMATCH")

BlockB(b) ==
  LET r == b.receipts
      n == Len(r)
  IN
  Then(Loop(1, n, LAMBDA i : TypeAndVersion(r[i].form)),
  Then(TypeAndVersion(b.inv.form),
  Then(Loop(1, n, LAMBDA i : JtiPrefix(r[i].form)),
  Then(JtiPrefix(b.inv.form),
  Then(RootConsent(r[1]),
  Then(ChainHashes(r),
  Then(IssuerIsAudience(r),
  Then(Reject(b.inv.iss # r[n].aud, "INVOKER_MISMATCH"),
       DrChain(r, b.inv)))))))))

---------------------------------------------------------------------------
(* Block C: signatures *)

\* classifySignatureError: an error of did:key decoding is recognised by its
\* text; a did:web endpoint that cannot be fetched, or whose circuit is open,
\* is not.
ClassifySignatureError(err) ==
  IF err = "nonCanonical" THEN "SIGNATURE_MALLEABILITY"
  ELSE IF err = "didKey"  THEN "UNRESOLVABLE_DID"
  ELSE "INVALID_SIGNATURE"

\* env.resolveError is the first error drained from the resolver's results.
ResolveIssuers(env) ==
  IF env.resolveError = "none" THEN ok ELSE ClassifySignatureError(env.resolveError)

\* strictVerifyEd25519: is the scalar S below the group order?
Canonical(sig) == sig # "nonCanonical"

\* The header names EdDSA, and the signature decodes to 64 bytes.
Readable(sig) == sig # "unreadable"

\* verifyJWTSignatureWithKey: malleability is told apart before the signature
\* itself is verified.
Signature(doc) ==
  Then(Reject(~Readable(doc.sig), ClassifySignatureError("unreadable")),
  Then(Reject(~Canonical(doc.sig), ClassifySignatureError("nonCanonical")),
       Reject(doc.sig # doc.iss, ClassifySignatureError("mismatch"))))

InvocationSignature(inv) ==
  IF Signature(inv) = "INVALID_SIGNATURE"
  THEN "INVALID_INVOCATION_SIGNATURE" ELSE Signature(inv)

BlockC(b, env) ==
  Then(ResolveIssuers(env),
  Then(Loop(1, Len(b.receipts), LAMBDA i : Signature(b.receipts[i])),
       InvocationSignature(b.inv)))

---------------------------------------------------------------------------
(* Block D: commands, subject, server, attenuation, policy *)

\* Equal, or continued by "/": a prefix of the split path.
CmdIsSubpath(rootCmd, cmd) == IsPrefix(rootCmd, cmd)

\* Absolute paths begin with "/", that is with an empty first segment.
Absolute(cmd) == Len(cmd) > 1 /\ cmd[1] = ""

Commands(r, inv) ==
  Then(Reject(~Absolute(r[1].cmd), "INVALID_ROOT_CMD"),
  Then(Loop(2, Len(r), LAMBDA i :
         Reject(~CmdIsSubpath(r[i - 1].cmd, r[i].cmd), "COMMAND_MISMATCH")),
       Reject(~CmdIsSubpath(r[Len(r)].cmd, inv.cmd), "COMMAND_MISMATCH")))

Subjects(r, inv) ==
  Then(Loop(2, Len(r), LAMBDA i : Reject(r[i].sub # r[1].sub, "SUBJECT_MISMATCH")),
       Reject(inv.sub # r[1].sub, "INVOCATION_SUBJECT_MISMATCH"))

\* With no identity configured, an invocation that names a server is refused.
ToolServer(inv) == Reject(inv.toolServer # ServerIdentity, "TOOL_SERVER_MISMATCH")

\* A child may not outlive, or activate before, its parent.
TemporalBounds(parent, child) ==
  Reject(\/ child.nbf < parent.nbf
         \/ parent.exp # NoExp /\ (child.exp = NoExp \/ child.exp > parent.exp),
         "TEMPORAL_BOUNDS_VIOLATION")

Attenuation(r) ==
  Loop(2, Len(r), LAMBDA i :
    Then(Reject(~CheckAttenuation(r[i - 1].policy, r[i].policy), "POLICY_ESCALATION"),
         TemporalBounds(r[i - 1], r[i])))

\* Mutant: the leaf's policy stands for all.
LeafPolicyOnly(r, inv) == Reject(~Evaluate(r[Len(r)].policy, inv.args), "POLICY_VIOLATION")

Policies(r, inv) ==
  Loop(1, Len(r), LAMBDA i : Reject(~Evaluate(r[i].policy, inv.args), "POLICY_VIOLATION"))

BlockD(b) ==
  Then(Commands(b.receipts, b.inv),
  Then(Subjects(b.receipts, b.inv),
  Then(ToolServer(b.inv),
  Then(Attenuation(b.receipts),
       Policies(b.receipts, b.inv)))))

---------------------------------------------------------------------------
(* Blocks E and F *)

Freshness(inv, now) ==
  Then(Reject(inv.iat > now + Skew, "INVOCATION_NOT_YET_VALID"),
       Reject(MaxInvocationAge > 0 /\ now - inv.iat > MaxInvocationAge, "INVOCATION_STALE"))

Window(receipt, now) ==
  Then(Reject(now < receipt.nbf, "NOT_YET_VALID"),
       Reject(receipt.exp # NoExp /\ now > receipt.exp, "EXPIRED"))

BlockE(b, env) ==
  Then(Freshness(b.inv, env.now),
       Loop(1, Len(b.receipts), LAMBDA i : Window(b.receipts[i], env.now)))

\* env.remote is "disabled", "down" or "up"; env.remoteRevoked is the list.
RemoteStatus(receipt, env) ==
  IF env.remote = "disabled" \/ receipt.index = NoIndex THEN ok
  ELSE IF env.remote = "down" THEN "REVOCATION_CHECK_FAILED"
  ELSE Reject(receipt.index \in env.remoteRevoked, "REVOKED")

BlockF(b, env) ==
  Then(Loop(1, Len(b.receipts), LAMBDA i : RemoteStatus(b.receipts[i], env)),
       Loop(1, Len(b.receipts), LAMBDA i :
         Reject(b.receipts[i].index \in env.localRevoked, "REVOKED")))

Chain(b, env) ==
  Then(BlockA(b), Then(Decode(b), Then(BlockB(b), Then(BlockC(b, env),
  Then(BlockD(b), Then(BlockE(b, env), BlockF(b, env)))))))

\* What a successful verification hands to the next handler.
LeafPolicy(b) == b.receipts[Len(b.receipts)].policy
============================================================================
