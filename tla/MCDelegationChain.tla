-------------------------- MODULE MCDelegationChain --------------------------
(* DelegationChain for TLC.  A behaviour varies links (receipts' encoding,   *)
(* hashes, principals, signatures), grants (commands, windows, revocation,   *)
(* the invocation's encoding) or policies.                                   *)
EXTENDS DelegationChain

NoPolicy == [cost |-> Unset, calls |-> Unset, pii |-> Unset, write |-> Unset,
             tools |-> {}, resources |-> {}, classes |-> {}]

NoArgs == [cost |-> Missing, pii |-> Missing, write |-> Missing,
           tool |-> Missing, resource |-> Missing, class |-> Missing]

Grant == [form |-> "ok", iss |-> "ann", aud |-> "ann", sub |-> "ann",
          cmd |-> <<"", "tools">>, policy |-> NoPolicy, nbf |-> 0, exp |-> NoExp,
          consent |-> "notHuman", index |-> NoIndex, sig |-> "ann"]

Invocation == [form |-> "ok", iss |-> "ann", sub |-> "ann", cmd |-> <<"", "tools">>,
               args |-> NoArgs, toolServer |-> ServerIdentity, iat |-> 3, sig |-> "ann"]

Env == [now |-> 3, resolveError |-> "none", remote |-> "up",
        remoteRevoked |-> {}, localRevoked |-> {}]

\* Every variant of x in which one field takes one of the given values.
Vary(x, field, values) == {[x EXCEPT ![field] = v] : v \in values}

---------------------------------------------------------------------------
(* Links: ann delegates to bob, bob to eve; each may claim to be another. *)

AnnToBob == [Grant EXCEPT !.aud = "bob"]
BobToEve == [Grant EXCEPT !.iss = "bob", !.aud = "eve", !.sig = "bob"]
ByEve    == [Invocation EXCEPT !.iss = "eve", !.sig = "eve"]
ByBob    == [Invocation EXCEPT !.iss = "bob", !.sig = "bob"]

LinkRoots ==
  {AnnToBob}
    \cup Vary(AnnToBob, "sig", {"eve", "nonCanonical", "unreadable"})
    \cup Vary(AnnToBob, "consent", {"complete", "absent", "incomplete"})
    \cup Vary(AnnToBob, "form", {"undecodable", "wrongType", "wrongVersion", "badJti"})

LinkChildren ==
  {BobToEve, AnnToBob}
    \cup Vary(BobToEve, "sig", {"eve"})
    \cup Vary(BobToEve, "iss", {"eve"})
    \cup Vary(BobToEve, "sub", {"eve"})

LinkInvocations ==
  {ByEve, ByBob}
    \cup Vary(ByEve, "sig", {"bob", "nonCanonical"})
    \cup Vary(ByEve, "sub", {"eve"})

---------------------------------------------------------------------------
(* Grants: commands, windows, revocation, resolution errors, invocations. *)

GrantRoots ==
  {Grant, [Grant EXCEPT !.nbf = 1, !.exp = 4]}
    \cup Vary(Grant, "cmd", {<<"tools">>, <<"">>})

GrantChildren ==
  {Grant}
    \cup Vary(Grant, "cmd", {<<"", "tools", "read">>, <<"", "tools", "write">>, <<"", "toolsmith">>})
    \cup Vary(Grant, "exp", {2, 4, 5})
    \cup Vary([Grant EXCEPT !.exp = 4], "nbf", {1, 4})
    \cup Vary(Grant, "index", {7})

GrantInvocations ==
  {Invocation}
    \cup Vary(Invocation, "cmd", {<<"", "tools", "read">>, <<"", "tools", "write">>})
    \cup Vary(Invocation, "iat", {0, 5})
    \cup Vary(Invocation, "toolServer", {NoServer})
    \cup Vary(Invocation, "form", {"empty", "undecodable", "wrongType", "wrongVersion", "badJti"})

GrantEnvironments ==
  {Env, [Env EXCEPT !.remote = "down"],
   [Env EXCEPT !.remoteRevoked = {7}],
   [Env EXCEPT !.remote = "disabled", !.localRevoked = {7}]}
    \cup Vary(Env, "now", {1, 5})
    \cup Vary(Env, "resolveError", {"didKey", "didWeb"})

---------------------------------------------------------------------------
(* Policies. *)

WithPolicy(p) == [Grant EXCEPT !.policy = p]
Wild(path)    == [path |-> path, wild |-> TRUE]
Exact(path)   == [path |-> path, wild |-> FALSE]

PolicyContents ==
  {WithPolicy(p) : p \in
    {NoPolicy}
      \cup Vary(NoPolicy, "cost", {1, 2})
      \cup Vary(NoPolicy, "calls", {1, 2})
      \cup Vary(NoPolicy, "pii", {"true", "false"})
      \cup Vary(NoPolicy, "tools", {{"search"}, {Star}})
      \cup Vary(NoPolicy, "resources",
             {{Wild(<<"docs">>)}, {Wild(<<"docs">>), Exact(<<"faq">>)}, {Wild(<<>>)}})
      \cup Vary(NoPolicy, "classes", {{"public"}})}

PolicyInvocations ==
  {[Invocation EXCEPT !.args = a] : a \in
    {NoArgs}
      \cup Vary(NoArgs, "cost", {-1, 2})
      \cup Vary(NoArgs, "pii", {"true", "false"})
      \cup Vary(NoArgs, "tool", {"search", "write"})
      \cup Vary(NoArgs, "class", {"public"})
      \cup Vary(NoArgs, "resource",
             {<<"docs", "a">>, <<"docs">>, <<"docs", "..", "faq">>, <<"docs", "%2E%2E", "keys">>,
              <<"docs%2Fa">>, <<"faq", "docs%2fa", "..">>})}

---------------------------------------------------------------------------
MCRoots == [links |-> LinkRoots, grants |-> GrantRoots, policies |-> PolicyContents]

MCChildren ==
  [links |-> LinkChildren, grants |-> GrantChildren, policies |-> PolicyContents]

MCInvocations ==
  [links |-> LinkInvocations, grants |-> GrantInvocations, policies |-> PolicyInvocations]

MCEnvironments == [links |-> {Env}, grants |-> GrantEnvironments, policies |-> {Env}]
==============================================================================
