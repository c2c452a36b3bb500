-------------------------- MODULE DelegationProofs --------------------------
(***************************************************************************)
(* What verify.Chain's verdict says of the delegations behind a bundle, for*)
(* chains of any length and any receipts, policies and arguments.          *)
(*                                                                         *)
(* First what policy.CheckAttenuation guarantees about policy.Evaluate,    *)
(* then what each loop of Chain has checked when it lets a bundle through, *)
(* then that the sequence presented is the lineage of its leaf, and what   *)
(* holds between its neighbours is carried along it.                       *)
(***************************************************************************)
EXTENDS DelegationChain, WellFoundedInduction, FiniteSetTheorems, TLAPS

---------------------------------------------------------------------------
(* Attenuation, one hop and two *)

Limits == Int \cup {Unset}
Costs  == Int \cup {Missing}

\* A limit that attenuates its parent's admits only costs the parent admits.
LEMMA LimitsNarrow ==
  ASSUME NEW parent \in Limits, NEW child \in Limits, NEW cost \in Costs,
         LimitAttenuates(parent, child), CostAllowed(child, cost)
  PROVE  CostAllowed(parent, cost)
<1>1. CASE parent = Unset
  BY <1>1 DEF CostAllowed
<1>2. CASE parent # Unset
  <2>1. child # Unset /\ child <= parent
    BY <1>2 DEF LimitAttenuates
  <2>2. cost # Missing /\ cost >= 0 /\ cost <= child
    BY <2>1 DEF CostAllowed
  <2>3. cost <= parent
    BY <1>2, <2>1, <2>2 DEF Limits, Costs
  <2> QED
    BY <2>2, <2>3 DEF CostAllowed
<1> QED
  BY <1>1, <1>2

\* Attenuation of a limit carries over several hops.
LEMMA LimitsCompose ==
  ASSUME NEW a \in Limits, NEW b \in Limits, NEW c \in Limits,
         LimitAttenuates(a, b), LimitAttenuates(b, c)
  PROVE  LimitAttenuates(a, c)
BY DEF LimitAttenuates, Limits

\* A list that attenuates a restricted list restricts too, to fewer entries.
LEMMA ListsNarrow ==
  ASSUME NEW parent, NEW child, ListAttenuates(parent, child), Restricts(parent)
  PROVE  Restricts(child) /\ child \subseteq parent
BY DEF ListAttenuates, Restricts

\* Attenuation of a list carries over several hops.
LEMMA ListsCompose ==
  ASSUME NEW a, NEW b, NEW c, ListAttenuates(a, b), ListAttenuates(b, c)
  PROVE  ListAttenuates(a, c)
BY DEF ListAttenuates, Restricts

\* Fewer patterns cover fewer resources.
LEMMA FewerPatternsCoverLess ==
  ASSUME NEW parent, NEW child, child \subseteq parent,
         NEW uri, ResourceCovered(uri, child)
  PROVE  ResourceCovered(uri, parent)
BY DEF ResourceCovered

\* A denied flag that the child keeps is denied by the child.
KeepsDenials(parent, child) ==
  /\ parent.pii = "false" => child.pii = "false"
  /\ parent.write = "false" => child.write = "false"

\* A child that passes CheckAttenuation and keeps its parent's denials admits
\* only invocations the parent admits: Evaluate on the leaf alone would then
\* be enough.  CheckAttenuation does not itself demand that denials are kept,
\* which is why block D evaluates every receipt.
THEOREM AttenuationSound ==
  ASSUME NEW parent, NEW child, NEW args,
         parent.cost \in Limits, child.cost \in Limits, args.cost \in Costs,
         CheckAttenuation(parent, child), KeepsDenials(parent, child),
         Evaluate(child, args)
  PROVE  Evaluate(parent, args)
<1>1. CostAllowed(parent.cost, args.cost)
  BY LimitsNarrow DEF CheckAttenuation, Evaluate
<1>2. FlagAllowed(parent.pii, args.pii) /\ FlagAllowed(parent.write, args.write)
  BY DEF KeepsDenials, Evaluate, FlagAllowed
<1>3. ToolAllowed(parent.tools, args.tool)
  BY ListsNarrow DEF CheckAttenuation, Evaluate, ToolAllowed
<1>4. ResourceAllowed(parent.resources, args.resource)
  BY ListsNarrow, FewerPatternsCoverLess DEF CheckAttenuation, Evaluate, ResourceAllowed
<1>5. ClassAllowed(parent.classes, args.class)
  BY ListsNarrow DEF CheckAttenuation, Evaluate, ClassAllowed
<1> QED
  BY <1>1, <1>2, <1>3, <1>4, <1>5 DEF Evaluate

\* The limits and lists of a policy attenuate over two hops as over one: what
\* CheckAttenuation compares between neighbours binds every ancestor, except
\* for the flags, which an intermediate receipt may leave out.
THEOREM AttenuationComposes ==
  ASSUME NEW a, NEW b, NEW c,
         a.cost \in Limits, b.cost \in Limits, c.cost \in Limits,
         a.calls \in Limits, b.calls \in Limits, c.calls \in Limits,
         CheckAttenuation(a, b), CheckAttenuation(b, c),
         KeepsDenials(a, b)
  PROVE  CheckAttenuation(a, c)
<1>1. LimitAttenuates(a.cost, c.cost) /\ LimitAttenuates(a.calls, c.calls)
  BY LimitsCompose DEF CheckAttenuation
<1>2. /\ ListAttenuates(a.tools, c.tools)
      /\ ListAttenuates(a.resources, c.resources)
      /\ ListAttenuates(a.classes, c.classes)
  BY ListsCompose DEF CheckAttenuation
<1>3. FlagAttenuates(a.pii, c.pii) /\ FlagAttenuates(a.write, c.write)
  BY DEF KeepsDenials, CheckAttenuation, FlagAttenuates
<1> QED
  BY <1>1, <1>2, <1>3 DEF CheckAttenuation

---------------------------------------------------------------------------
(* Induction along a chain, as the smallest counterexample. *)

LessNat == {ss \in Nat \X Nat : ss[1] < ss[2]}

\* A nonempty set of naturals has a smallest element.
LEMMA SmallestIndex ==
  ASSUME NEW I, I \subseteq Nat, I # {}
  PROVE  Min(I) \in I /\ \A j \in I : Min(I) <= j
<1>1. IsWellFoundedOn(LessNat, Nat)
  BY NatLessThanWellFounded DEF OpToRel, LessNat
<1>2. PICK i \in I : \A j \in I : <<j, i>> \notin LessNat
  BY <1>1, WFMin
<1>3. ASSUME NEW j \in I PROVE i <= j
  <2>1. <<j, i>> \in Nat \X Nat
    OBVIOUS
  <2>2. ~ (<<j, i>>[1] < <<j, i>>[2])
    BY <1>2, <2>1 DEF LessNat
  <2> QED
    BY <2>2
<1> QED
  BY <1>3 DEF Min

\* What holds at k and is handed on from each place to the next holds from k on.
LEMMA HandedOn ==
  ASSUME NEW k \in Nat, NEW n \in Nat, NEW Q,
         k \in Q, \A j \in k .. n - 1 : j \in Q => j + 1 \in Q
  PROVE  \A j \in k .. n : j \in Q
<1> SUFFICES ASSUME NEW m \in k .. n, m \notin Q PROVE FALSE
  OBVIOUS
<1> DEFINE bad == {j \in k .. n : j \notin Q}
<1>1. m \in bad /\ bad \subseteq Nat
  OBVIOUS
<1>2. PICK j \in bad : \A i \in bad : j <= i
  <2> HIDE DEF bad
  <2> QED
    BY <1>1, SmallestIndex
<1>3. j \in Nat
  BY <1>1
<1>4. j # k /\ j - 1 \in k .. n - 1 /\ j - 1 \in Q
  BY <1>2, <1>3
<1> QED
  BY <1>2, <1>4

---------------------------------------------------------------------------
(* What an accepting block has checked *)

\* ChainHashes: every receipt commits to the one before it.
LEMMA HashesLink ==
  ASSUME NEW r, Len(r) \in Nat, ChainHashes(r) = ok
  PROVE  \A i \in 2 .. Len(r) : r[i].prev = Hash(r[i - 1])
<1> DEFINE Body(i) == Reject(r[i].prev = NoHash \/ r[i].prev # Hash(r[i - 1]), "CHAIN_BREAK")
           bad == {i \in 2 .. Len(r) : Body(i) # ok}
<1>1. ChainHashes(r) = IF bad = {} THEN ok ELSE Body(Min(bad))
  BY DEF ChainHashes, Loop
<1>2. bad \subseteq Nat
  OBVIOUS
<1>3. bad # {} => Min(bad) \in bad
  <2> HIDE DEF bad
  <2> QED
    BY <1>2, SmallestIndex
<1>4. bad = {}
  BY <1>1, <1>3
<1> QED
  BY <1>4 DEF Reject, ok

\* IssuerIsAudience: every issuer is the audience before it.
LEMMA IssuersLink ==
  ASSUME NEW r, Len(r) \in Nat, IssuerIsAudience(r) = ok
  PROVE  \A i \in 2 .. Len(r) : r[i].iss = r[i - 1].aud
<1> DEFINE Body(i) == Reject(r[i].iss # r[i - 1].aud, "ISSUER_MISMATCH")
           bad == {i \in 2 .. Len(r) : Body(i) # ok}
<1>1. IssuerIsAudience(r) = IF bad = {} THEN ok ELSE Body(Min(bad))
  BY DEF IssuerIsAudience, Loop
<1>2. bad \subseteq Nat
  OBVIOUS
<1>3. bad # {} => Min(bad) \in bad
  <2> HIDE DEF bad
  <2> QED
    BY <1>2, SmallestIndex
<1>4. bad = {}
  BY <1>1, <1>3
<1> QED
  BY <1>4 DEF Reject, ok

\* Policies: every policy admits the arguments.
LEMMA PoliciesAdmit ==
  ASSUME NEW r, Len(r) \in Nat, NEW inv, Policies(r, inv) = ok
  PROVE  \A i \in 1 .. Len(r) : Evaluate(r[i].policy, inv.args)
<1> DEFINE Body(i) == Reject(~Evaluate(r[i].policy, inv.args), "POLICY_VIOLATION")
           bad == {i \in 1 .. Len(r) : Body(i) # ok}
<1>1. Policies(r, inv) = IF bad = {} THEN ok ELSE Body(Min(bad))
  BY DEF Policies, Loop
<1>2. bad \subseteq Nat
  OBVIOUS
<1>3. bad # {} => Min(bad) \in bad
  <2> HIDE DEF bad
  <2> QED
    BY <1>2, SmallestIndex
<1>4. bad = {}
  BY <1>1, <1>3
<1> QED
  BY <1>4 DEF Reject, ok

\* Attenuation: every receipt is within the policy and the window before it.
LEMMA EachAttenuates ==
  ASSUME NEW r, Len(r) \in Nat, Attenuation(r) = ok
  PROVE  \A i \in 2 .. Len(r) : /\ CheckAttenuation(r[i - 1].policy, r[i].policy)
                                 /\ TemporalBounds(r[i - 1], r[i]) = ok
<1> DEFINE Body(i) == 
             Then(Reject(~CheckAttenuation(r[i - 1].policy, r[i].policy), "POLICY_ESCALATION"),
                  TemporalBounds(r[i - 1], r[i]))
           bad == {i \in 2 .. Len(r) : Body(i) # ok}
<1>1. Attenuation(r) = IF bad = {} THEN ok ELSE Body(Min(bad))
  BY DEF Attenuation, Loop
<1>2. bad \subseteq Nat
  OBVIOUS
<1>3. bad # {} => Min(bad) \in bad
  <2> HIDE DEF bad
  <2> QED
    BY <1>2, SmallestIndex
<1>4. bad = {}
  BY <1>1, <1>3
<1> QED
  BY <1>4 DEF Reject, ok, Then

\* Commands: each path extends the one before it, and the invocation's the last.
LEMMA CommandsNarrow ==
  ASSUME NEW r, NEW inv, Len(r) \in Nat, Commands(r, inv) = ok
  PROVE  /\ \A i \in 2 .. Len(r) : IsPrefix(r[i - 1].cmd, r[i].cmd)
         /\ IsPrefix(r[Len(r)].cmd, inv.cmd)
<1> DEFINE Body(i) == Reject(~CmdIsSubpath(r[i - 1].cmd, r[i].cmd), "COMMAND_MISMATCH")
           bad == {i \in 2 .. Len(r) : Body(i) # ok}
<1>1. (IF bad = {} THEN ok ELSE Body(Min(bad))) = ok
  BY DEF Commands, Loop, Then
<1>2. bad \subseteq Nat
  OBVIOUS
<1>3. bad # {} => Min(bad) \in bad
  <2> HIDE DEF bad
  <2> QED
    BY <1>2, SmallestIndex
<1>4. bad = {}
  BY <1>1, <1>3
<1> QED
  BY <1>4 DEF Commands, CmdIsSubpath, Reject, Then, ok

\* Subjects: one subject throughout.
LEMMA SubjectsAgree ==
  ASSUME NEW r, NEW inv, Len(r) \in Nat, Subjects(r, inv) = ok
  PROVE  \A i \in 1 .. Len(r) : r[i].sub = inv.sub
<1> DEFINE Body(i) == Reject(r[i].sub # r[1].sub, "SUBJECT_MISMATCH")
           bad == {i \in 2 .. Len(r) : Body(i) # ok}
<1>1. (IF bad = {} THEN ok ELSE Body(Min(bad))) = ok
  BY DEF Subjects, Loop, Then
<1>2. bad \subseteq Nat
  OBVIOUS
<1>3. bad # {} => Min(bad) \in bad
  <2> HIDE DEF bad
  <2> QED
    BY <1>2, SmallestIndex
<1>4. bad = {}
  BY <1>1, <1>3
<1>5. inv.sub = r[1].sub
  BY DEF Subjects, Reject, Then, ok
<1>6. \A i \in 2 .. Len(r) : r[i].sub = r[1].sub
  BY <1>4 DEF Reject, ok
<1>7. \A i \in 1 .. Len(r) : i = 1 \/ i \in 2 .. Len(r)
  OBVIOUS
<1> QED
  BY <1>5, <1>6, <1>7

\* Block C: every document is signed by its issuer.
LEMMA SignaturesHold ==
  ASSUME NEW b, NEW e, Len(b.receipts) \in Nat, BlockC(b, e) = ok
  PROVE  /\ \A i \in 1 .. Len(b.receipts) : b.receipts[i].sig = b.receipts[i].iss
         /\ b.inv.sig = b.inv.iss
<1> DEFINE Body(i) == Signature(b.receipts[i])
           bad == {i \in 1 .. Len(b.receipts) : Body(i) # ok}
<1>1. (IF bad = {} THEN ok ELSE Body(Min(bad))) = ok
  BY DEF BlockC, Loop, Then
<1>2. bad \subseteq Nat
  OBVIOUS
<1>3. bad # {} => Min(bad) \in bad
  <2> HIDE DEF bad
  <2> QED
    BY <1>2, SmallestIndex
<1>4. bad = {}
  BY <1>1, <1>3
<1> QED
  BY <1>4 DEF BlockC, InvocationSignature, Signature, ClassifySignatureError, Reject, Then, ok

\* Block E: now is within every window.
LEMMA WindowsOpen ==
  ASSUME NEW b, NEW e, Len(b.receipts) \in Nat, BlockE(b, e) = ok
  PROVE  \A i \in 1 .. Len(b.receipts) :
           ~(e.now < b.receipts[i].nbf) /\ ~(b.receipts[i].exp # NoExp /\ e.now > b.receipts[i].exp)
<1> DEFINE Body(i) == Window(b.receipts[i], e.now)
           bad == {i \in 1 .. Len(b.receipts) : Body(i) # ok}
<1>1. (IF bad = {} THEN ok ELSE Body(Min(bad))) = ok
  BY DEF BlockE, Loop, Then
<1>2. bad \subseteq Nat
  OBVIOUS
<1>3. bad # {} => Min(bad) \in bad
  <2> HIDE DEF bad
  <2> QED
    BY <1>2, SmallestIndex
<1>4. bad = {}
  BY <1>1, <1>3
<1> QED
  BY <1>4 DEF Window, Reject, Then, ok

\* Block F: no receipt is on the remote list ...
LEMMA NotRevokedRemotely ==
  ASSUME NEW b, NEW e, Len(b.receipts) \in Nat, BlockF(b, e) = ok
  PROVE  \A i \in 1 .. Len(b.receipts) :
           e.remote = "up" /\ b.receipts[i].index # NoIndex => b.receipts[i].index \notin e.remoteRevoked
<1> DEFINE Body(i) == RemoteStatus(b.receipts[i], e)
           bad == {i \in 1 .. Len(b.receipts) : Body(i) # ok}
<1>1. (IF bad = {} THEN ok ELSE Body(Min(bad))) = ok
  BY DEF BlockF, Loop, Then
<1>2. bad \subseteq Nat
  OBVIOUS
<1>3. bad # {} => Min(bad) \in bad
  <2> HIDE DEF bad
  <2> QED
    BY <1>2, SmallestIndex
<1>4. bad = {}
  BY <1>1, <1>3
<1> QED
  BY <1>4 DEF RemoteStatus, Reject, ok

\* ... nor revoked locally.
LEMMA NotRevokedLocally ==
  ASSUME NEW b, NEW e, Len(b.receipts) \in Nat, BlockF(b, e) = ok
  PROVE  \A i \in 1 .. Len(b.receipts) : b.receipts[i].index \notin e.localRevoked
<1> DEFINE Body(i) == Reject(b.receipts[i].index \in e.localRevoked, "REVOKED")
           bad == {i \in 1 .. Len(b.receipts) : Body(i) # ok}
<1>1. (IF bad = {} THEN ok ELSE Body(Min(bad))) = ok
  BY DEF BlockF, Loop, Then
<1>2. bad \subseteq Nat
  OBVIOUS
<1>3. bad # {} => Min(bad) \in bad
  <2> HIDE DEF bad
  <2> QED
    BY <1>2, SmallestIndex
<1>4. bad = {}
  BY <1>1, <1>3
<1> QED
  BY <1>4 DEF Reject, ok

---------------------------------------------------------------------------
(* Verdicts of content come after authentication *)

LEMMA EarlyIsNotLate == EarlyVerdicts \cap LateVerdicts = {} /\ ok \notin EarlyVerdicts
BY DEF EarlyVerdicts, LateVerdicts, ok

Early == EarlyVerdicts \cup {ok}

LEMMA ThenIsEarly ==
  ASSUME NEW v \in Early, NEW w \in Early PROVE Then(v, w) \in Early
BY DEF Then

LEMMA BlockAIsEarly == ASSUME NEW b PROVE BlockA(b) \in Early
BY DEF BlockA, Then, Reject, Early, EarlyVerdicts

LEMMA DecodeIsEarly == ASSUME NEW b PROVE Decode(b) \in Early
BY DEF Decode, Loop, Then, Reject, Early, EarlyVerdicts

LEMMA SignatureIsEarly == ASSUME NEW doc PROVE Signature(doc) \in Early
BY DEF Signature, ClassifySignatureError, Then, Reject, Early, EarlyVerdicts

LEMMA BlockCIsEarly == ASSUME NEW b, NEW e PROVE BlockC(b, e) \in Early
<1>1. ResolveIssuers(e) \in Early
  BY DEF ResolveIssuers, ClassifySignatureError, Early, EarlyVerdicts
<1>2. Loop(1, Len(b.receipts), LAMBDA i : Signature(b.receipts[i])) \in Early
  BY SignatureIsEarly DEF Loop, Early
<1>3. InvocationSignature(b.inv) \in Early
  BY SignatureIsEarly DEF InvocationSignature, Early, EarlyVerdicts
<1> QED
  BY <1>1, <1>2, <1>3 DEF BlockC, Then

LEMMA FormIsEarly ==
  ASSUME NEW form PROVE TypeAndVersion(form) \in Early /\ JtiPrefix(form) \in Early
BY DEF TypeAndVersion, JtiPrefix, Then, Reject, Early, EarlyVerdicts

LEMMA BlockBIsEarly == ASSUME NEW b PROVE BlockB(b) \in Early
<1> DEFINE r == b.receipts
           n == Len(r)
<1>1. /\ Loop(1, n, LAMBDA i : TypeAndVersion(r[i].form)) \in Early
      /\ Loop(1, n, LAMBDA i : JtiPrefix(r[i].form)) \in Early
  BY FormIsEarly DEF Loop, Early
<1>2. TypeAndVersion(b.inv.form) \in Early /\ JtiPrefix(b.inv.form) \in Early
  BY FormIsEarly
<1>3. RootConsent(r[1]) \in Early
  BY DEF RootConsent, Then, Reject, Early, EarlyVerdicts
<1>4. ChainHashes(r) \in Early /\ IssuerIsAudience(r) \in Early
  BY DEF ChainHashes, IssuerIsAudience, Loop, Reject, Early, EarlyVerdicts
<1>5. /\ Reject(b.inv.iss # r[n].aud, "INVOKER_MISMATCH") \in Early
      /\ DrChain(r, b.inv) \in Early
  BY DEF DrChain, Reject, Early, EarlyVerdicts
<1> HIDE DEF r, n
<1> QED
  BY <1>1, <1>2, <1>3, <1>4, <1>5, ThenIsEarly DEF BlockB, r, n

\* A verdict on the content of a bundle means that blocks A, B and C passed.
LEMMA LateIsAuthentic ==
  ASSUME NEW b, NEW e, Chain(b, e) \in LateVerdicts
  PROVE  BlockA(b) = ok /\ BlockB(b) = ok /\ BlockC(b, e) = ok
<1> DEFINE late == Then(BlockD(b), Then(BlockE(b, e), BlockF(b, e)))
<1>1. Chain(b, e) = Then(BlockA(b), Then(Decode(b), Then(BlockB(b), Then(BlockC(b, e), late))))
  BY DEF Chain
<1>2. BlockA(b) = ok
  BY <1>1, BlockAIsEarly, EarlyIsNotLate DEF Then, Early
<1>3. Decode(b) = ok
  BY <1>1, <1>2, DecodeIsEarly, EarlyIsNotLate DEF Then, Early
<1>4. BlockB(b) = ok
  BY <1>1, <1>2, <1>3, BlockBIsEarly, EarlyIsNotLate DEF Then, Early
<1>5. BlockC(b, e) = ok
  BY <1>1, <1>2, <1>3, <1>4, BlockCIsEarly, EarlyIsNotLate DEF Then, Early
<1> QED
  BY <1>2, <1>4, <1>5

\* Acceptance means that every block passed.
LEMMA AcceptedPasses ==
  ASSUME NEW b, NEW e, Chain(b, e) = ok
  PROVE  BlockD(b) = ok /\ BlockE(b, e) = ok /\ BlockF(b, e) = ok
BY DEF Chain, Then

\* Block B, taken apart.
LEMMA BlockBPasses ==
  ASSUME NEW b, BlockB(b) = ok
  PROVE  /\ RootConsent(b.receipts[1]) = ok
         /\ ChainHashes(b.receipts) = ok
         /\ IssuerIsAudience(b.receipts) = ok
         /\ b.inv.iss = b.receipts[Len(b.receipts)].aud
         /\ DrChain(b.receipts, b.inv) = ok
BY DEF BlockB, Then, Reject, ok

\* Block D, taken apart.
LEMMA BlockDPasses ==
  ASSUME NEW b, BlockD(b) = ok
  PROVE  /\ Commands(b.receipts, b.inv) = ok
         /\ Subjects(b.receipts, b.inv) = ok
         /\ Attenuation(b.receipts) = ok
         /\ Policies(b.receipts, b.inv) = ok
BY DEF BlockD, Then

\* Blocks D, E and F, whatever they say.
LEMMA LateCodes ==
  ASSUME NEW b, NEW e
  PROVE  BlockD(b) \in LateVerdicts /\ BlockE(b, e) \in LateVerdicts /\ BlockF(b, e) \in LateVerdicts
<1>1. Commands(b.receipts, b.inv) \in LateVerdicts /\ Subjects(b.receipts, b.inv) \in LateVerdicts
  BY DEF Commands, Subjects, Loop, Then, Reject, LateVerdicts
<1>2. ToolServer(b.inv) \in LateVerdicts /\ Policies(b.receipts, b.inv) \in LateVerdicts
  BY DEF ToolServer, Policies, Loop, Reject, LateVerdicts
<1>3. Attenuation(b.receipts) \in LateVerdicts
  BY DEF Attenuation, TemporalBounds, Loop, Then, Reject, LateVerdicts
<1>4. BlockE(b, e) \in LateVerdicts
  BY DEF BlockE, Freshness, Window, Loop, Then, Reject, LateVerdicts
<1>5. BlockF(b, e) \in LateVerdicts
  BY DEF BlockF, RemoteStatus, Loop, Then, Reject, LateVerdicts
<1> QED
  BY <1>1, <1>2, <1>3, <1>4, <1>5 DEF BlockD, Then

LEMMA ChainCodes == ASSUME NEW b, NEW e PROVE Chain(b, e) \in EarlyVerdicts \cup LateVerdicts
<1>1. ok \in LateVerdicts
  BY DEF LateVerdicts
<1> QED
  BY <1>1, BlockAIsEarly, DecodeIsEarly, BlockBIsEarly, BlockCIsEarly, LateCodes
     DEF Chain, Then, Early

---------------------------------------------------------------------------
(* The inductive invariant *)

\* Receipts in circulation are made of contents.
Circulating == \A r \in issued : WellTyped(r)

\* Every lineage is its receipt, after the lineage of the parent it commits to.
Lines ==
  \A r \in issued :
    \/ r.prev = NoHash /\ line[r] = <<r>>
    \/ \E p \in issued : r.prev = Hash(p) /\ line[r] = Append(line[p], r)

\* The verdict is Chain's, on a bundle made of receipts in circulation.
Answered ==
  verdict # None =>
    /\ verdict = Chain(bundle, env)
    /\ \E r \in Seq(issued), made \in Seq(issued), i \in Invocations[concern] :
         bundle = Bundle(r, made, i)

IndInv == TypeOK /\ IsFiniteSet(issued) /\ Circulating /\ Lines /\ Answered

\* A hash names one receipt, and a root's prev_dr_hash none.
LEMMA HashesDiffer ==
  ASSUME NEW p, NEW q
  PROVE  Hash(p) # NoHash /\ (Hash(p) = Hash(q) => p = q)
<1>1. Hash(p).sha256 = {p} /\ Hash(q).sha256 = {q} /\ NoHash.sha256 = {}
  BY DEF Hash, NoHash
<1> QED
  BY <1>1

\* Signing a receipt with a parent in circulation, or none, keeps the lineages.
LEMMA IssueStep ==
  ASSUME IndInv, NEW r, NEW ancestors, Issue(r, ancestors), WellTyped(r),
         \/ r.prev = NoHash /\ ancestors = << >>
         \/ \E p \in issued : r.prev = Hash(p) /\ ancestors = line[p]
  PROVE  IndInv'
<1>1. /\ verdict = None /\ Cardinality(issued) < MaxIssued
      /\ issued' = issued \cup {r}
      /\ line' = [x \in issued \cup {r} |-> IF x = r THEN Append(ancestors, r) ELSE line[x]]
      /\ UNCHANGED <<concern, bundle, env, verdict>>
  BY DEF Issue
<1>2. line \in [issued -> Seq(issued)] /\ IsFiniteSet(issued)
  BY DEF IndInv, TypeOK
<1>3. ancestors \in Seq(issued)
  <2>1. << >> \in Seq(issued) /\ \A p \in issued : line[p] \in Seq(issued)
    BY <1>2
  <2> QED
    BY <2>1
<1>4. r \in issued => line[r] = Append(ancestors, r)
  <2> SUFFICES ASSUME r \in issued PROVE line[r] = Append(ancestors, r)
    OBVIOUS
  <2>1. CASE r.prev = NoHash /\ ancestors = << >>
    BY <2>1, HashesDiffer DEF IndInv, Lines
  <2>2. CASE \E p \in issued : r.prev = Hash(p) /\ ancestors = line[p]
    BY <2>2, HashesDiffer DEF IndInv, Lines
  <2> QED
    BY <2>1, <2>2
<1>5. line' \in [issued' -> Seq(issued')]
  BY <1>1, <1>2, <1>3
<1>6. \A x \in issued : line'[x] = line[x]
  BY <1>1, <1>4
<1>7. line'[r] = Append(ancestors, r)
  BY <1>1
<1>8. Lines'
  <2> SUFFICES ASSUME NEW x \in issued'
               PROVE  \/ x.prev = NoHash /\ line'[x] = <<x>>
                      \/ \E p \in issued' : x.prev = Hash(p) /\ line'[x] = Append(line'[p], x)
    BY DEF Lines, NoHash, Hash
  <2>1. CASE x \in issued
    <3>1. \/ x.prev = NoHash /\ line[x] = <<x>>
          \/ \E p \in issued : x.prev = Hash(p) /\ line[x] = Append(line[p], x)
      BY <2>1 DEF IndInv, Lines
    <3>2. issued \subseteq issued'
      BY <1>1
    <3> QED
      BY <2>1, <3>1, <3>2, <1>6
  <2>2. CASE x = r
    <3>1. CASE r.prev = NoHash /\ ancestors = << >>
      BY <2>2, <3>1, <1>7
    <3>2. CASE \E p \in issued : r.prev = Hash(p) /\ ancestors = line[p]
      BY <2>2, <3>2, <1>1, <1>6, <1>7
    <3> QED
      BY <3>1, <3>2
  <2> QED
    BY <1>1, <2>1, <2>2
<1>9. IsFiniteSet(issued') /\ Cardinality(issued') <= MaxIssued
  <2>1. /\ IsFiniteSet(issued \cup {r})
        /\ Cardinality(issued \cup {r}) = Cardinality(issued)
           \/ Cardinality(issued \cup {r}) = Cardinality(issued) + 1
    BY <1>2, FS_AddElement
  <2>2. Cardinality(issued) \in Nat
    BY <1>2, FS_CardinalityType
  <2> QED
    BY <1>1, <2>1, <2>2, DelegationConstants
<1>10. Circulating'
  BY <1>1 DEF IndInv, Circulating
<1>11. \A x \in issued' : x.prev = NoHash \/ x.prev \in {Hash(p) : p \in issued'}
  BY <1>8 DEF Lines, NoHash, Hash
<1>12. verdict' = None /\ bundle' = None /\ env' = None /\ concern' \in Concerns
  BY <1>1 DEF IndInv, TypeOK
<1>13. TypeOK'
  BY <1>5, <1>9, <1>11, <1>12 DEF TypeOK, NoHash, Hash
<1>14. Answered'
  BY <1>12 DEF Answered
<1> QED
  BY <1>8, <1>9, <1>10, <1>13, <1>14 DEF IndInv

\* A receipt is as well typed as its content.
LEMMA WithPrevTyped ==
  ASSUME NEW c, WellTyped(c), NEW prev
  PROVE  WellTyped(WithPrev(c, prev)) /\ WithPrev(c, prev).prev = prev
<1> DEFINE r == WithPrev(c, prev)
<1>1. DOMAIN r = DOMAIN c \cup {"prev"}
  BY DEF WithPrev
<1>2. r.cmd = c.cmd /\ r.nbf = c.nbf /\ r.exp = c.exp /\ r.policy = c.policy
  BY DEF WithPrev, WellTyped
<1>3. r.prev = prev
  BY DEF WithPrev
<1> HIDE DEF r
<1>4. WellTyped(r)
  BY <1>1, <1>2 DEF WellTyped
<1> QED
  BY <1>3, <1>4 DEF r

\* Whatever a holder presents is made of receipts in circulation.
LEMMA Arranged ==
  ASSUME line \in [issued -> Seq(issued)], NEW a \in Arrangements
  PROVE  a[1] \in Seq(issued) /\ a[2] \in Seq(issued)
<1>1. ASSUME NEW n \in Nat PROVE SeqOf(issued, n) \subseteq Seq(issued)
  BY <1>1 DEF SeqOf
<1>2. 1 \in Nat /\ MaxChainDepth + 1 \in Nat
  BY ChainConstants
<1>3. SeqOf(issued, 1) \subseteq Seq(issued) /\ SeqOf(issued, MaxChainDepth + 1) \subseteq Seq(issued)
  BY <1>1, <1>2
<1> QED
  BY <1>3 DEF Arrangements

LEMMA PresentStep == ASSUME IndInv, Present PROVE IndInv'
<1>1. PICK a \in Arrangements, i \in Invocations[concern], e \in Environments[concern] :
        /\ bundle' = Bundle(a[1], a[2], i)
        /\ verdict' = Chain(Bundle(a[1], a[2], i), e)
        /\ env' = e
  BY DEF Present
<1>2. UNCHANGED <<concern, issued, line>>
  BY DEF Present
<1>3. a[1] \in Seq(issued) /\ a[2] \in Seq(issued)
  BY Arranged DEF IndInv, TypeOK
<1>4. verdict' \in EarlyVerdicts \cup LateVerdicts /\ verdict' # None
  BY <1>1, ChainCodes, DelegationConstants
<1>5. bundle'.receipts = a[1]
  BY <1>1 DEF Bundle
<1>6. TypeOK'
  BY <1>1, <1>2, <1>3, <1>4, <1>5 DEF IndInv, TypeOK, NoHash, Hash
<1>7. Answered'
  BY <1>1, <1>2, <1>3 DEF Answered, Chain, Bundle
<1> QED
  BY <1>2, <1>6, <1>7 DEF IndInv, Circulating, Lines, WellTyped, NoHash, Hash

LEMMA InitEstablishes == Init => IndInv
<1> SUFFICES ASSUME Init PROVE IndInv
  OBVIOUS
<1>1. issued = {} /\ verdict = None /\ bundle = None /\ env = None /\ concern \in Concerns /\ line = << >>
  BY DEF Init
<1>2. IsFiniteSet({}) /\ Cardinality({}) = 0
  BY FS_EmptySet
<1>3. line \in [issued -> Seq(issued)]
  BY <1>1
<1>4. TypeOK
  BY <1>1, <1>2, <1>3, DelegationConstants DEF TypeOK
<1> QED
  BY <1>1, <1>2, <1>4 DEF IndInv, Circulating, Lines, Answered

\* Chain's verdict stays with the bundle it was given on, and lineages grow
\* with the receipts.
THEOREM Inductive == Spec => []IndInv
<1>1. IndInv /\ [Next]_vars => IndInv'
  <2> SUFFICES ASSUME IndInv, [Next]_vars PROVE IndInv'
    OBVIOUS
  <2>0. concern \in Concerns
    BY DEF IndInv, TypeOK
  <2>1. CASE IssueRoot
    <3>1. PICK c \in Roots[concern] : Issue(WithPrev(c, NoHash), << >>)
      BY <2>1 DEF IssueRoot
    <3>2. WellTyped(WithPrev(c, NoHash)) /\ WithPrev(c, NoHash).prev = NoHash
      BY <2>0, WithPrevTyped, DelegationConstants
    <3> QED
      BY <3>1, <3>2, IssueStep
  <2>2. CASE IssueChild
    <3>1. PICK c \in Children[concern], p \in issued : Issue(WithPrev(c, Hash(p)), line[p])
      BY <2>2 DEF IssueChild
    <3>2. WellTyped(WithPrev(c, Hash(p))) /\ WithPrev(c, Hash(p)).prev = Hash(p)
      BY <2>0, WithPrevTyped, DelegationConstants
    <3> QED
      BY <3>1, <3>2, IssueStep
  <2>3. CASE Present
    BY <2>3, PresentStep
  <2>4. CASE Respond
    <3>1. verdict' = None /\ bundle' = None /\ env' = None /\ UNCHANGED <<concern, issued, line>>
      BY <2>4 DEF Respond
    <3> QED
      BY <3>1 DEF IndInv, TypeOK, Circulating, Lines, Answered, WellTyped, NoHash, Hash
  <2>5. CASE UNCHANGED vars
    BY <2>5 DEF vars, IndInv, TypeOK, Circulating, Lines, Answered, WellTyped, NoHash, Hash, Chain, Bundle
  <2> QED
    BY <2>1, <2>2, <2>3, <2>4, <2>5 DEF Next
<1> QED
  BY InitEstablishes, <1>1, PTL DEF Spec

\* Every parent a receipt commits to, and every receipt of a bundle under
\* answer, is in circulation; a bundle is forgotten with its answer.
THEOREM TypeCorrect == Spec => []TypeOK
<1>1. IndInv => TypeOK
  BY DEF IndInv
<1> QED
  BY <1>1, Inductive, PTL

---------------------------------------------------------------------------
(* What a verdict means *)

\* Following the hash commitments back from the leaf gives the very sequence
\* that was presented.
LEMMA PresentedIsLineage ==
  ASSUME IndInv, verdict \in LateVerdicts
  PROVE  /\ bundle.receipts \in Seq(issued) /\ Len(bundle.receipts) > 0
         /\ bundle.receipts = Lineage
<1>1. verdict # None /\ verdict = Chain(bundle, env)
  BY DelegationConstants DEF IndInv, Answered
<1>2. PICK R \in Seq(issued) : R = bundle.receipts
  BY <1>1 DEF IndInv, TypeOK
<1>3. BlockA(bundle) = ok /\ BlockB(bundle) = ok
  BY <1>1, LateIsAuthentic
<1>4. Len(R) > 0
  BY <1>2, <1>3 DEF BlockA, Then, Reject, ok
<1>5. R[1].prev = NoHash /\ \A i \in 2 .. Len(R) : R[i].prev = Hash(R[i - 1])
  BY <1>2, <1>3, BlockBPasses, HashesLink DEF RootConsent, Then, Reject, ok
<1>6. line \in [issued -> Seq(issued)] /\ \A i \in 1 .. Len(R) : R[i] \in issued
  BY <1>2 DEF IndInv, TypeOK
<1> DEFINE Q == {j \in 1 .. Len(R) : line[R[j]] = SubSeq(R, 1, j)}
<1>7. 1 \in Q
  <2>1. line[R[1]] = <<R[1]>>
    BY <1>4, <1>5, <1>6, HashesDiffer DEF IndInv, Lines
  <2> QED
    BY <1>4, <2>1
<1>8. ASSUME NEW j \in 1 .. Len(R) - 1, j \in Q PROVE j + 1 \in Q
  <2>1. R[j + 1].prev = Hash(R[j]) /\ R[j + 1] \in issued /\ j + 1 \in 1 .. Len(R)
    BY <1>5, <1>6
  <2>2. line[R[j + 1]] = Append(line[R[j]], R[j + 1])
    BY <2>1, HashesDiffer DEF IndInv, Lines
  <2>3. line[R[j]] = SubSeq(R, 1, j)
    BY <1>8
  <2>4. Append(SubSeq(R, 1, j), R[j + 1]) = SubSeq(R, 1, j + 1)
    BY <2>1
  <2> QED
    BY <2>1, <2>2, <2>3, <2>4
<1>9. Len(R) \in Q
  <2>1. 1 \in Nat /\ Len(R) \in Nat /\ Len(R) \in 1 .. Len(R)
    BY <1>4
  <2> HIDE DEF Q
  <2>2. \A j \in 1 .. Len(R) : j \in Q
    BY <2>1, <1>7, <1>8, HandedOn
  <2> QED
    BY <2>1, <2>2
<1>10. line[R[Len(R)]] = R
  BY <1>9
<1> QED
  BY <1>2, <1>4, <1>10 DEF Lineage, Leaf, Last

\* A bundle is accepted, or refused for its content, only if it is the whole
\* lineage of its leaf in order, each link was signed by the audience of the
\* link before it, and the leaf's audience signed the invocation over exactly
\* these receipts: blocks A to C, for a chain of any length.
THEOREM Authentic == Spec => []AuthenticLineage
<1>1. IndInv => AuthenticLineage
  <2> SUFFICES ASSUME IndInv, verdict \in LateVerdicts
               PROVE  /\ bundle.receipts = Lineage
                      /\ \A k \in DOMAIN Lineage : Lineage[k].sig = Lineage[k].iss
                      /\ \A k \in 2 .. Len(Lineage) : Lineage[k].iss = Lineage[k - 1].aud
                      /\ bundle.inv.sig = Leaf.aud
                      /\ bundle.inv.drChain = [k \in DOMAIN Lineage |-> Hash(Lineage[k])]
    BY DEF AuthenticLineage
  <2>1. /\ bundle.receipts \in Seq(issued) /\ Len(bundle.receipts) > 0
        /\ bundle.receipts = Lineage
    BY PresentedIsLineage
  <2>2. PICK R \in Seq(issued) : R = bundle.receipts
    BY <2>1
  <2>3. verdict # None /\ verdict = Chain(bundle, env)
    BY DelegationConstants DEF IndInv, Answered
  <2>4. BlockB(bundle) = ok /\ BlockC(bundle, env) = ok
    BY <2>3, LateIsAuthentic
  <2>5. Len(R) \in Nat /\ DOMAIN R = 1 .. Len(R)
    OBVIOUS
  <2>6. /\ \A k \in 1 .. Len(R) : R[k].sig = R[k].iss
        /\ bundle.inv.sig = bundle.inv.iss
    BY <2>2, <2>4, <2>5, SignaturesHold
  <2>7. /\ \A k \in 2 .. Len(R) : R[k].iss = R[k - 1].aud
        /\ bundle.inv.iss = R[Len(R)].aud
    BY <2>2, <2>4, <2>5, BlockBPasses, IssuersLink
  <2>8. bundle.inv.drChain = [k \in DOMAIN R |-> Hash(R[k])]
    <3>1. PICK r \in Seq(issued), made \in Seq(issued), i \in Invocations[concern] :
            bundle = Bundle(r, made, i)
      BY <2>3 DEF IndInv, Answered
    <3>2. bundle.inv.drChain = [k \in DOMAIN made |-> Hash(made[k])]
      BY <3>1 DEF Bundle
    <3>3. Len(bundle.inv.drChain) = Len(made)
      BY <3>2
    <3>4. Len(bundle.inv.drChain) = Len(R) /\ \A k \in DOMAIN R : bundle.inv.drChain[k] = Hash(R[k])
      BY <2>2, <2>4, BlockBPasses DEF DrChain, Reject, ok
    <3>5. DOMAIN made = 1 .. Len(made) /\ DOMAIN R = 1 .. Len(R)
      OBVIOUS
    <3> QED
      BY <3>2, <3>3, <3>4, <3>5
  <2>9. Leaf = R[Len(R)]
    BY <2>2 DEF Leaf, Last
  <2> QED
    BY <2>1, <2>2, <2>5, <2>6, <2>7, <2>8, <2>9
<1> QED
  BY <1>1, Inductive, PTL

\* One command path extends another through a third.
LEMMA PrefixesCompose ==
  ASSUME NEW a \in Seq(STRING), NEW b \in Seq(STRING), NEW c \in Seq(STRING),
         IsPrefix(a, b), IsPrefix(b, c)
  PROVE  IsPrefix(a, c)
<1>1. \A i \in 1 .. Len(a) : a[i] = b[i]
  BY DEF IsPrefix
<1>2. \A i \in 1 .. Len(b) : b[i] = c[i]
  BY DEF IsPrefix
<1>3. Len(a) <= Len(b) /\ Len(b) <= Len(c)
  BY DEF IsPrefix
<1>4. SubSeq(a, 1, Len(a)) = SubSeq(c, 1, Len(a))
  BY <1>1, <1>2, <1>3
<1> QED
  BY <1>3, <1>4 DEF IsPrefix

\* An accepted bundle, with the names the proofs below use.
LEMMA Accepted ==
  ASSUME IndInv, verdict = ok
  PROVE  \E R \in Seq(issued) :
           /\ R = bundle.receipts /\ R = Lineage /\ Len(R) > 0
           /\ Leaf = R[Len(R)] /\ Ancestry = {R[k] : k \in 1 .. Len(R)}
           /\ \A k \in 1 .. Len(R) : WellTyped(R[k])
           /\ BlockD(bundle) = ok /\ BlockE(bundle, env) = ok /\ BlockF(bundle, env) = ok
<1>1. verdict \in LateVerdicts
  BY DEF LateVerdicts
<1>2. /\ bundle.receipts \in Seq(issued) /\ Len(bundle.receipts) > 0
      /\ bundle.receipts = Lineage
  BY <1>1, PresentedIsLineage
<1>3. PICK R \in Seq(issued) : R = bundle.receipts
  BY <1>2
<1>4. verdict = Chain(bundle, env)
  BY <1>1, DelegationConstants DEF IndInv, Answered
<1>5. BlockD(bundle) = ok /\ BlockE(bundle, env) = ok /\ BlockF(bundle, env) = ok
  BY <1>4, AcceptedPasses
<1>6. Leaf = R[Len(R)]
  BY <1>3 DEF Leaf, Last
<1>7. Ancestry = {R[k] : k \in 1 .. Len(R)}
  BY <1>2, <1>3 DEF Ancestry, Range
<1>8. \A k \in 1 .. Len(R) : WellTyped(R[k])
  BY DEF IndInv, Circulating
<1> QED
  BY <1>2, <1>3, <1>5, <1>6, <1>7, <1>8

\* An accepted invocation is within what every delegation of the leaf's
\* lineage grants: command, subject, window, policy and revocation status.
\* Chain compares commands between neighbours only.
THEOREM EveryGrantHolds == Spec => []WithinEveryGrant
<1>1. IndInv => WithinEveryGrant
  <2> SUFFICES ASSUME IndInv, verdict = ok, NEW g \in Ancestry
               PROVE  /\ IsPrefix(g.cmd, bundle.inv.cmd)
                      /\ g.sub = bundle.inv.sub
                      /\ g.nbf <= env.now /\ (g.exp # NoExp => env.now <= g.exp)
                      /\ Evaluate(g.policy, bundle.inv.args)
                      /\ g.index \notin env.localRevoked
                      /\ env.remote = "up" => g.index \notin env.remoteRevoked
    BY DEF WithinEveryGrant
  <2>1. PICK R \in Seq(issued) :
           /\ R = bundle.receipts /\ R = Lineage /\ Len(R) > 0
           /\ Leaf = R[Len(R)] /\ Ancestry = {R[k] : k \in 1 .. Len(R)}
           /\ \A k \in 1 .. Len(R) : WellTyped(R[k])
           /\ BlockD(bundle) = ok /\ BlockE(bundle, env) = ok /\ BlockF(bundle, env) = ok
    BY Accepted
  <2>2. PICK k \in 1 .. Len(R) : g = R[k]
    BY <2>1
  <2>3. Len(R) \in Nat /\ Len(bundle.receipts) \in Nat
    BY <2>1
  <2>4. verdict # None
    BY DelegationConstants DEF LateVerdicts
  <2>5. PICK i \in Invocations[concern] : bundle.inv.cmd = i.cmd /\ i.cmd \in Seq(STRING)
    <3>1. PICK r \in Seq(issued), made \in Seq(issued), i \in Invocations[concern] :
            bundle = Bundle(r, made, i)
      BY <2>4 DEF IndInv, Answered
    <3>2. "cmd" \in DOMAIN i /\ i.cmd \in Seq(STRING)
      BY DelegationConstants DEF IndInv, TypeOK
    <3>3. bundle.inv.cmd = i.cmd
      BY <3>1, <3>2 DEF Bundle
    <3> QED
      BY <3>2, <3>3
  <2>6. env.now \in Int /\ NoIndex \notin env.remoteRevoked
    BY <2>4, DelegationConstants DEF IndInv, TypeOK
  <2>7. IsPrefix(g.cmd, bundle.inv.cmd)
    <3>1. /\ \A j \in 2 .. Len(R) : IsPrefix(R[j - 1].cmd, R[j].cmd)
          /\ IsPrefix(R[Len(R)].cmd, bundle.inv.cmd)
      BY <2>1, <2>3, BlockDPasses, CommandsNarrow
    <3>2. \A j \in 1 .. Len(R) : R[j].cmd \in Seq(STRING)
      BY <2>1 DEF WellTyped
    <3> DEFINE n == Len(R)
               Q == {j \in 0 .. n - 1 : IsPrefix(R[n - j].cmd, bundle.inv.cmd)}
    <3>3. 0 \in Q
      BY <2>1, <3>1
    <3>4. ASSUME NEW j \in 0 .. (n - 1) - 1, j \in Q PROVE j + 1 \in Q
      <4>1. n - j \in 2 .. n /\ n - (j + 1) = (n - j) - 1 /\ n - (j + 1) \in 1 .. n
        BY <2>3
      <4>2. IsPrefix(R[n - (j + 1)].cmd, R[n - j].cmd)
        BY <3>1, <4>1
      <4>3. IsPrefix(R[n - j].cmd, bundle.inv.cmd)
        BY <3>4
      <4>4. IsPrefix(R[n - (j + 1)].cmd, bundle.inv.cmd)
        BY <4>1, <4>2, <4>3, <3>2, <2>5, PrefixesCompose
      <4> QED
        BY <4>1, <4>4
    <3>5. 0 \in Nat /\ n - 1 \in Nat /\ n - k \in 0 .. n - 1 /\ n - (n - k) = k
      BY <2>1, <2>3
    <3>6. n - k \in Q
      <4> HIDE DEF Q
      <4> QED
        BY <3>3, <3>4, <3>5, HandedOn
    <3> QED
      BY <2>2, <3>5, <3>6
  <2>8. g.sub = bundle.inv.sub
    <3>1. Subjects(R, bundle.inv) = ok
      BY <2>1, BlockDPasses
    <3> QED
      BY <2>2, <2>3, <3>1, SubjectsAgree
  <2>9. g.nbf <= env.now /\ (g.exp # NoExp => env.now <= g.exp)
    <3>1. ~(env.now < g.nbf) /\ ~(g.exp # NoExp /\ env.now > g.exp)
      BY <2>1, <2>2, <2>3, WindowsOpen
    <3>2. g.nbf \in Int /\ g.exp \in Int \cup {NoExp}
      BY <2>1, <2>2 DEF WellTyped
    <3> QED
      BY <2>6, <3>1, <3>2
  <2>10. Evaluate(g.policy, bundle.inv.args)
    BY <2>1, <2>2, <2>3, BlockDPasses, PoliciesAdmit
  <2>11. g.index \notin env.localRevoked
    BY <2>1, <2>2, <2>3, NotRevokedLocally
  <2>12. env.remote = "up" => g.index \notin env.remoteRevoked
    BY <2>1, <2>2, <2>3, <2>6, NotRevokedRemotely
  <2> QED
    BY <2>7, <2>8, <2>9, <2>10, <2>11, <2>12
<1> QED
  BY <1>1, Inductive, PTL

\* h is within the limits of g and expires no later.
Within(g, h) ==
  /\ LimitAttenuates(g.policy.calls, h.policy.calls)
  /\ LimitAttenuates(g.policy.cost, h.policy.cost)
  /\ ListAttenuates(g.policy.tools, h.policy.tools)
  /\ ListAttenuates(g.policy.resources, h.policy.resources)
  /\ g.exp # NoExp => h.exp # NoExp /\ h.exp <= g.exp

LEMMA WithinItself == ASSUME NEW g, WellTyped(g) PROVE Within(g, g)
BY DEF Within, WellTyped, LimitAttenuates, ListAttenuates, Restricts

LEMMA WithinComposes ==
  ASSUME NEW a, NEW b, NEW c, WellTyped(a), WellTyped(b), WellTyped(c),
         Within(a, b), Within(b, c)
  PROVE  Within(a, c)
<1>1. /\ {a.policy.cost, b.policy.cost, c.policy.cost} \subseteq Limits
      /\ {a.policy.calls, b.policy.calls, c.policy.calls} \subseteq Limits
  BY DEF WellTyped, Limits
<1>2. /\ LimitAttenuates(a.policy.calls, c.policy.calls)
      /\ LimitAttenuates(a.policy.cost, c.policy.cost)
  BY <1>1, LimitsCompose DEF Within
<1>3. /\ ListAttenuates(a.policy.tools, c.policy.tools)
      /\ ListAttenuates(a.policy.resources, c.policy.resources)
  BY ListsCompose DEF Within
<1>4. a.exp # NoExp => c.exp # NoExp /\ c.exp <= a.exp
  BY DEF Within, WellTyped
<1> QED
  BY <1>2, <1>3, <1>4 DEF Within

\* One hop, as block D checks it.
LEMMA WithinParent ==
  ASSUME NEW g, NEW h, WellTyped(g), WellTyped(h),
         CheckAttenuation(g.policy, h.policy), TemporalBounds(g, h) = ok
  PROVE  Within(g, h)
<1>1. ~ (g.exp # NoExp /\ (h.exp = NoExp \/ h.exp > g.exp))
  BY DEF TemporalBounds, Reject, ok
<1>2. g.exp # NoExp => h.exp # NoExp /\ h.exp <= g.exp
  BY <1>1 DEF WellTyped
<1> QED
  BY <1>2 DEF Within, CheckAttenuation

\* The leaf's limits, which are all that the next handler is given to enforce,
\* are within those of every ancestor, however many hops lie between: what
\* block D compares is neighbours.
THEOREM LeafBinds == Spec => []LeafLimitsBindAll
<1>1. IndInv => LeafLimitsBindAll
  <2> SUFFICES ASSUME IndInv, verdict = ok, NEW g \in Ancestry
               PROVE  /\ LimitAttenuates(g.policy.calls, LeafPolicy(bundle).calls)
                      /\ LimitAttenuates(g.policy.cost, LeafPolicy(bundle).cost)
                      /\ ListAttenuates(g.policy.tools, LeafPolicy(bundle).tools)
                      /\ ListAttenuates(g.policy.resources, LeafPolicy(bundle).resources)
                      /\ g.exp # NoExp => Leaf.exp # NoExp /\ Leaf.exp <= g.exp
    BY DEF LeafLimitsBindAll
  <2>1. PICK R \in Seq(issued) :
           /\ R = bundle.receipts /\ R = Lineage /\ Len(R) > 0
           /\ Leaf = R[Len(R)] /\ Ancestry = {R[k] : k \in 1 .. Len(R)}
           /\ \A k \in 1 .. Len(R) : WellTyped(R[k])
           /\ BlockD(bundle) = ok /\ BlockE(bundle, env) = ok /\ BlockF(bundle, env) = ok
    BY Accepted
  <2>2. PICK k \in 1 .. Len(R) : g = R[k]
    BY <2>1
  <2>3. Len(R) \in Nat
    OBVIOUS
  <2>4. \A i \in 2 .. Len(R) : /\ CheckAttenuation(R[i - 1].policy, R[i].policy)
                               /\ TemporalBounds(R[i - 1], R[i]) = ok
    BY <2>1, <2>3, BlockDPasses, EachAttenuates
  <2>5. \A i \in 2 .. Len(R) : Within(R[i - 1], R[i])
    BY <2>1, <2>3, <2>4, WithinParent
  <2> DEFINE Q == {j \in k .. Len(R) : Within(g, R[j])}
  <2>6. k \in Q
    BY <2>1, <2>2, WithinItself
  <2>7. ASSUME NEW j \in k .. Len(R) - 1, j \in Q PROVE j + 1 \in Q
    <3>1. j + 1 \in 2 .. Len(R) /\ (j + 1) - 1 = j /\ j \in 1 .. Len(R)
      BY <2>2, <2>3
    <3>2. Within(g, R[j]) /\ Within(R[j], R[j + 1])
      BY <2>5, <2>7, <3>1
    <3>3. Within(g, R[j + 1])
      BY <2>1, <2>2, <3>1, <3>2, WithinComposes
    <3> QED
      BY <3>1, <3>3
  <2>8. Within(g, Leaf)
    <3>1. k \in Nat /\ Len(R) \in k .. Len(R)
      BY <2>2, <2>3
    <3>2. Len(R) \in Q
      <4> HIDE DEF Q
      <4> QED
        BY <2>3, <2>6, <2>7, <3>1, HandedOn
    <3> QED
      BY <2>1, <3>2
  <2> QED
    BY <2>1, <2>8 DEF Within, LeafPolicy
<1> QED
  BY <1>1, Inductive, PTL
============================================================================
