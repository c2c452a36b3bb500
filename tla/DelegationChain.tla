-------------------------- MODULE DelegationChain --------------------------
(***************************************************************************)
(* Receipts in circulation and the bundles made of them.  Principals issue *)
(* receipts, honestly or not; whoever holds some of them presents any      *)
(* sequence of them with an invocation, and verify.Chain gives a verdict.  *)
(* The properties compare the verdict with the delegations the leaf        *)
(* really descends from: its lineage, followed along the hash commitments  *)
(* and not along the order of presentation.                                *)
(***************************************************************************)
EXTENDS ChainVerify

CONSTANTS Concerns,     \* what a behaviour varies; for each of them,
          Roots,        \* contents of receipts (all fields but prev)
          Children,     \* contents of receipts that extend another one
          Invocations,  \* contents of invocations (all fields but drChain)
          Environments, \* environments of a call of Chain
          AnyOrder,     \* the concerns in which the holder may present receipts in
                        \* any arrangement, and not only the lineage of one of them
          MaxIssued,    \* bound on the receipts in circulation
          None          \* no bundle, no environment, no verdict

\* The fields of a receipt that Chain computes with.
WellTyped(r) ==
  /\ {"cmd", "nbf", "exp", "policy"} \subseteq DOMAIN r
  /\ r.cmd \in Seq(STRING)
  /\ r.nbf \in Int /\ r.exp \in Int \cup {NoExp}
  /\ {r.policy.cost, r.policy.calls} \subseteq Int \cup {Unset}

\* The verdicts of blocks A, B and C and of decoding.
EarlyVerdicts ==
  {"EMPTY_CHAIN", "CHAIN_TOO_DEEP", "MISSING_INVOCATION", "MALFORMED_RECEIPT",
   "MALFORMED_INVOCATION", "WRONG_TYPE", "VERSION_MISMATCH", "INVALID_JTI",
   "CHAIN_STRUCTURE", "MISSING_CONSENT", "INVALID_CONSENT", "CHAIN_BREAK",
   "ISSUER_MISMATCH", "INVOKER_MISMATCH", "CHAIN_REFERENCE_MISMATCH",
   "SIGNATURE_MALLEABILITY", "UNRESOLVABLE_DID", "INVALID_SIGNATURE",
   "INVALID_INVOCATION_SIGNATURE"}

\* The verdicts of blocks D, E and F, which presuppose an authentic bundle.
LateVerdicts ==
  {ok, "INVALID_ROOT_CMD", "COMMAND_MISMATCH", "SUBJECT_MISMATCH",
   "INVOCATION_SUBJECT_MISMATCH", "TOOL_SERVER_MISMATCH", "POLICY_ESCALATION",
   "TEMPORAL_BOUNDS_VIOLATION", "POLICY_VIOLATION", "INVOCATION_NOT_YET_VALID",
   "INVOCATION_STALE", "NOT_YET_VALID", "EXPIRED", "REVOCATION_CHECK_FAILED", "REVOKED"}

ASSUME DelegationConstants ==
  /\ MaxIssued \in Nat
  /\ None \notin EarlyVerdicts \cup LateVerdicts
  /\ \A k \in Concerns :
       /\ \A c \in Roots[k] \cup Children[k] : WellTyped(c)
       /\ \A i \in Invocations[k] : "cmd" \in DOMAIN i /\ i.cmd \in Seq(STRING)
       /\ \A e \in Environments[k] : e.now \in Int /\ NoIndex \notin e.remoteRevoked

VARIABLES concern, \* what this behaviour varies
          issued,  \* the receipts in circulation
          line,    \* history: the delegations each of them descends from, root first
          bundle,  \* the bundle being answered, or None
          env,     \* the environment in which it was verified
          verdict  \* the verdict on it, or None

vars == <<concern, issued, line, bundle, env, verdict>>

WithPrev(content, prev) == [x \in DOMAIN content \cup {"prev"} |->
                              IF x = "prev" THEN prev ELSE content[x]]

Init == /\ concern \in Concerns
        /\ issued = {}
        /\ line = << >>
        /\ bundle = None
        /\ env = None
        /\ verdict = None

\* r is signed, and descends from the given delegations.
Issue(r, ancestors) ==
  /\ verdict = None
  /\ Cardinality(issued) < MaxIssued
  /\ issued' = issued \cup {r}
  /\ line' = [x \in issued \cup {r} |-> IF x = r THEN Append(ancestors, r) ELSE line[x]]
  /\ UNCHANGED <<concern, bundle, env, verdict>>

IssueRoot == \E c \in Roots[concern] : Issue(WithPrev(c, NoHash), << >>)

\* The claimed parent may be any receipt in circulation: prev_dr_hash is the
\* issuer's word.
IssueChild == \E c \in Children[concern], p \in issued : Issue(WithPrev(c, Hash(p)), line[p])

\* The receipts a holder may present, each with the receipts that the dr_chain
\* of its invocation was made for.
Arrangements ==
  IF concern \in AnyOrder
  THEN {<<r, made>> : r \in SeqOf(issued, MaxChainDepth + 1), made \in SeqOf(issued, 1)}
         \cup {<<r, r>> : r \in SeqOf(issued, MaxChainDepth + 1)}
  ELSE {<<line[r], line[r]>> : r \in issued}

Bundle(r, made, i) ==
  [receipts |-> r,
   inv |-> [x \in DOMAIN i \cup {"drChain"} |->
              IF x = "drChain" THEN [k \in DOMAIN made |-> Hash(made[k])] ELSE i[x]]]

Present ==
  /\ verdict = None
  /\ \E a \in Arrangements, i \in Invocations[concern], e \in Environments[concern] :
       /\ bundle' = Bundle(a[1], a[2], i)
       /\ verdict' = Chain(Bundle(a[1], a[2], i), e)
       /\ env' = e
  /\ UNCHANGED <<concern, issued, line>>

\* Mutant: the bundle is kept.
RespondKeeping == verdict # None /\ verdict' = None /\ UNCHANGED <<concern, issued, line, bundle, env>>

\* The handler has answered; the next bundle may come.
Respond ==
  /\ verdict # None
  /\ bundle' = None
  /\ env' = None
  /\ verdict' = None
  /\ UNCHANGED <<concern, issued, line>>

---------------------------------------------------------------------------
Next == IssueRoot \/ IssueChild \/ Present \/ Respond

Spec == Init /\ [][Next]_vars

---------------------------------------------------------------------------
(* Properties *)

TypeOK ==
  /\ concern \in Concerns
  /\ Cardinality(issued) <= MaxIssued
  /\ \A r \in issued : r.prev = NoHash \/ r.prev \in {Hash(p) : p \in issued}
  /\ line \in [issued -> Seq(issued)]
  /\ IF verdict = None THEN bundle = None /\ env = None
     ELSE /\ verdict \in EarlyVerdicts \cup LateVerdicts
          /\ bundle.receipts \in Seq(issued) /\ env \in Environments[concern]

Leaf == Last(bundle.receipts)

\* The delegations the leaf really descends from.
Lineage == line[Leaf]
Ancestry == Range(Lineage)

\* A bundle is accepted, or refused for its content, only if it is the whole
\* lineage of its leaf in order (nothing dropped, spliced in or swapped), each
\* link was signed by the audience of the link before it, and the audience of
\* the leaf signed the invocation over exactly these receipts.
AuthenticLineage ==
  verdict \in LateVerdicts =>
    /\ bundle.receipts = Lineage
    /\ \A k \in DOMAIN Lineage : Lineage[k].sig = Lineage[k].iss
    /\ \A k \in 2 .. Len(Lineage) : Lineage[k].iss = Lineage[k - 1].aud
    /\ bundle.inv.sig = Leaf.aud
    /\ bundle.inv.drChain = [k \in DOMAIN Lineage |-> Hash(Lineage[k])]

\* An accepted invocation is within what EVERY delegation of the leaf's
\* lineage grants: its command, its subject, its window, its policy; and none
\* of them is revoked.
WithinEveryGrant ==
  verdict = ok =>
    \A g \in Ancestry :
      /\ IsPrefix(g.cmd, bundle.inv.cmd)
      /\ g.sub = bundle.inv.sub
      /\ g.nbf <= env.now /\ (g.exp # NoExp => env.now <= g.exp)
      /\ Evaluate(g.policy, bundle.inv.args)
      /\ g.index \notin env.localRevoked
      /\ env.remote = "up" => g.index \notin env.remoteRevoked

\* The limits of the leaf, which the next handler receives as the policy to
\* enforce (max_calls is enforced nowhere else), are within the limits of
\* every ancestor, and the leaf expires with the first of them.
LeafLimitsBindAll ==
  verdict = ok =>
    \A g \in Ancestry :
      /\ LimitAttenuates(g.policy.calls, LeafPolicy(bundle).calls)
      /\ LimitAttenuates(g.policy.cost, LeafPolicy(bundle).cost)
      /\ ListAttenuates(g.policy.tools, LeafPolicy(bundle).tools)
      /\ ListAttenuates(g.policy.resources, LeafPolicy(bundle).resources)
      /\ g.exp # NoExp => Leaf.exp # NoExp /\ Leaf.exp <= g.exp

\* A permission that some ancestor denies is not granted by the leaf policy
\* ("child policy must be a subset of parent policy", chain.go:359).
DeniedStaysDenied ==
  verdict = ok =>
    \A g \in Ancestry : ~(g.policy.pii = "false" /\ LeafPolicy(bundle).pii = "true")
============================================================================
