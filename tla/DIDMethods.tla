----------------------------- MODULE DIDMethods -----------------------------
(***************************************************************************)
(* What Resolve makes of an identifier, of a DID document and of a DNS     *)
(* answer, without its state (pkg/resolver/did.go). Strings are classes of *)
(* strings: only what the code tells apart. A key is a version number.     *)
(***************************************************************************)
EXTENDS Integers, Sequences

NoKey == 0

\* Not a result: the Go runtime panics.  base58Decode looks every character up
\* in a table of 256 entries, and checks only what it finds there.
Panics == -1

\* The first key of the DID; a did:key has no other.
FirstKey == 1

\* The part of a did:key after "did:key:z": its first character outside the
\* base58 alphabet, if there is one, which is in the table or beyond it; what
\* the string holds.
Encoding == [stray : {"none", "inTable", "beyond"},
             length : {"34", "other"}, codec : {"ed25519", "other"}]

Classes == {"plain", "empty", "undecodable", "dots", "slash", "userinfo", "space"}

\* An identifier: its method, the domain and the path of a did:web.
Identifier == [method : {"key", "web", "other"}, domain : Classes,
               path : Seq(Classes), encoding : Encoding]

\* resolveDidKey
resolveDidKey(did) ==
  CASE did.encoding.stray = "beyond" -> Panics
    [] /\ did.encoding.stray = "none"
       /\ did.encoding.length = "34" /\ did.encoding.codec = "ed25519" -> FirstKey
    [] OTHER -> NoKey

\* didWebDocumentURL returns a URL. A domain of dots is a host name like any
\* other; in the path, "@", "?" and spaces stay percent-encoded as they came.
didWebDocumentURL(did) ==
  /\ did.domain \in {"plain", "dots"}
  /\ \A i \in DOMAIN did.path : did.path[i] \in {"plain", "userinfo", "space"}

\* resolveUncached goes to the network.
NeedsFetch(did) == did.method = "web" /\ didWebDocumentURL(did)

\* resolveUncached, for an identifier that does not.
resolveOffline(did) == IF did.method = "key" THEN resolveDidKey(did) ELSE NoKey

-----------------------------------------------------------------------------
(* DID documents: sequences of verification methods. A method may hold a key *)
(* as multibase and as JWK; NoKey is an encoding of no Ed25519 key, Panics   *)
(* one that base58Decode does not return from.                               *)

VerificationMethod == [multibase : {<< >>} \cup ({"z", "m"} \X (Nat \cup {Panics})),
                       jwk : {<< >>} \cup ({"Ed25519", "RSA"} \X Nat)]

\* A multibase key in base58 decides, even when it does not decode.
KeyIn(vm) ==
  IF vm.multibase # << >> /\ vm.multibase[1] = "z" THEN vm.multibase[2]
  ELSE IF vm.jwk # << >> /\ vm.jwk[1] = "Ed25519" THEN vm.jwk[2]
  ELSE NoKey

\* The methods beyond which the loop does not come.
Deciding(doc) == {i \in DOMAIN doc : KeyIn(doc[i]) # NoKey}

\* The first method of a document that holds an Ed25519 key, unless decoding one
\* before it panics.
extractEd25519FromDIDDocument(doc) ==
  IF Deciding(doc) = {} THEN NoKey
  ELSE KeyIn(doc[CHOOSE i \in Deciding(doc) : \A j \in Deciding(doc) : i <= j])
=============================================================================
