---------------------------- MODULE MCChainCalls ----------------------------
EXTENDS ChainCalls

\* The authority's certificate is its own root here.
MCCert == [subject |-> "tsa", issuer |-> "tsa", serial |-> 1, key |-> "tsa", signedBy |-> "tsa",
           eku |-> {"timeStamping"}, isCA |-> FALSE, notBefore |-> 0, notAfter |-> 9]
MCPool == {MCCert}
MCAnswers == {[size |-> 1, granted |-> TRUE], [size |-> 2, granted |-> TRUE],
              [size |-> 1, granted |-> FALSE]}

CONSTANTS d1, d2
MCChains(c) == IF c = "c1" THEN {<<d1>>} ELSE {<<d1, d2>>}

\* The issuers and the invoker: a to b, or a to b and back.
MCIssuers(chain) == {"a", "b"}
=============================================================================
