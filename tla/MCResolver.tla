----------------------------- MODULE MCResolver -----------------------------
(* Resolver for TLC. *)
EXTENDS Resolver

CONSTANTS inside, outside

MCAnswers == {<<outside>>, <<inside>>, <<outside, inside>>}
MCPrivate == {inside}

\* A multibase key, a JWK, the new key before the old one, and unusable keys
\* before a usable one.
Multibase(k) == [multibase |-> <<"z", k>>, jwk |-> << >>]
JWK(k) == [multibase |-> << >>, jwk |-> <<"Ed25519", k>>]
Unusable == {[multibase |-> <<"z", NoKey>>, jwk |-> <<"Ed25519", 1>>],
             [multibase |-> <<"m", NoKey>>, jwk |-> << >>],
             [multibase |-> << >>, jwk |-> <<"RSA", NoKey>>]}

MCDocuments(k) == {<<Multibase(k)>>, <<JWK(k)>>, <<Multibase(k), Multibase(1)>>,
                   <<JWK(k), Multibase(Panics)>>}
                  \cup {<<u, JWK(k)>> : u \in Unusable}
MCOtherDocuments == {<< >>, <<Multibase(Panics), JWK(1)>>} \cup {<<u>> : u \in Unusable}

NoEncoding == [stray |-> "none", length |-> "34", codec |-> "ed25519"]
Web(domain, path) ==
  [method |-> "web", domain |-> domain, path |-> path, encoding |-> NoEncoding]
Key(stray, length, codec) ==
  [method |-> "key", domain |-> "empty", path |-> << >>,
   encoding |-> [stray |-> stray, length |-> length, codec |-> codec]]

MCIdentifiers ==
  {Web("plain", <<"plain">>), Web("userinfo", << >>), Web("plain", <<"dots">>),
   Key("none", "34", "ed25519"), Key("none", "34", "other"),
   Key("inTable", "other", "other"), Key("beyond", "other", "other"),
   [Web("plain", << >>) EXCEPT !.method = "other"]}
=============================================================================
