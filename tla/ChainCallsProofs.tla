-------------------------- MODULE ChainCallsProofs --------------------------
(***************************************************************************)
(* Calls of Chain, for any number of callers, chains, issuers, slots and   *)
(* token sizes: types, what is stored, what is resolved before it is, the  *)
(* pool, and the tokens that a call without overlap reports.  Types is the *)
(* inductive invariant that the others build on: where a call is, its      *)
(* chain is one of distinct receipts and it has not outlasted the TTL.     *)
(***************************************************************************)
EXTENDS ChainCalls, FiniteSetTheorems, SequenceTheorems, TLAPS

-----------------------------------------------------------------------------
(* Types *)

Token == [of : Receipts, time : 0..MaxTime, size : Nat \ {0}, granted : BOOLEAN]

Job == [chain : Seq(Receipts), timestamps : BOOLEAN, at : Nat, ext : {"jwt", "tst"},
        token : Token \cup {None}, linked : BOOLEAN, began : 0..MaxTime]

Block == [of : Receipts, time : 0..MaxTime, size : Nat \ {0}, granted : BOOLEAN, n : Nat]

File == [data : Seq(Block), mtime : 0..MaxTime]

Result == [of : Receipts, valid : BOOLEAN, time : 0..MaxTime]

Anchor == [of : Receipts, time : 0..MaxTime]

PcStages == {"idle", "resolve", "put", "write", "tsa", "stat", "remove", "read", "done"}

\* A call at a stage: the receipt it is at is one of its chain, whose receipts are
\* distinct; a token that is to be written was given for that receipt.
Placed(stage, j) ==
  /\ j \in Job /\ j.at \in 1..Len(j.chain)
  /\ \A m, n \in DOMAIN j.chain : j.chain[m] = j.chain[n] => m = n
  /\ stage \in {"stat", "remove", "read"} => j.ext = "tst"
  /\ stage \in {"resolve", "tsa"} => j.ext = "jwt"
  /\ stage \in {"put", "write"} /\ j.ext = "tst" =>
       j.token \in Token /\ j.token.of = j.chain[j.at]

FileTypes ==
  /\ tier \in Tiers /\ now \in 0..MaxTime
  /\ DOMAIN files \subseteq Paths /\ files \in [DOMAIN files -> File]
  /\ \A p \in DOMAIN files : files[p].mtime <= now
  /\ recent \in Seq(Receipts) /\ Len(recent) <= MemoryCapacity

CallTypes ==
  /\ pc \in [Callers -> PcStages] /\ DOMAIN job = Callers
  /\ report \in [Callers -> Seq(Result)] /\ anchored \in [Callers -> Seq(Anchor)]
  /\ kept \subseteq Receipts /\ damaged \subseteq Receipts
  /\ solo \in [Callers -> BOOLEAN]

\* Calls are where their stage says, and none has outlasted the TTL.
Calling ==
  \A c \in Callers : pc[c] # "idle" =>
    Placed(pc[c], job[c]) /\ job[c].began <= now /\ now - job[c].began <= TTL

Types == FileTypes /\ CallTypes /\ Calling

-----------------------------------------------------------------------------
(* Steps along a chain *)

\* The receipt after the one a call is at.
LEMMA AdvanceJob ==
  ASSUME NEW c \in Callers, NEW stage, Placed(stage, job[c]), NEW loop \in {"put", "stat"}
  PROVE  /\ Placed(NextPc(c, loop), NextJob(c, loop))
         /\ NextPc(c, loop) \in {loop, "stat", "done"}
         /\ NextJob(c, loop).chain = job[c].chain /\ NextJob(c, loop).began = job[c].began
         /\ NextPc(c, loop) = "put" => NextJob(c, loop).at = job[c].at + 1
<1> DEFINE j == job[c]
           new == NextJob(c, loop)
<1>1. j \in Job /\ j.at \in 1..Len(j.chain) /\ Len(j.chain) \in Nat
  BY DEF Placed, Job
<1>2. CASE Ends(c, loop)
  <2>1. NextPc(c, loop) = "done" /\ new = [j EXCEPT !.token = None, !.linked = FALSE]
    BY <1>2 DEF NextPc, NextJob
  <2>2. new \in Job /\ new.chain = j.chain /\ new.began = j.began /\ new.at = j.at
    BY <1>1, <2>1 DEF Job
  <2> QED
    BY <1>1, <2>1, <2>2 DEF Placed
<1>3. CASE ~Ends(c, loop)
  <2> DEFINE f == Following(c, loop)
  <2>1. /\ f.at \in 1..Len(j.chain) /\ f.ext \in {"jwt", "tst"} /\ f.pc \in {loop, "stat"}
        /\ f.pc = "stat" => f.ext = "tst"
        /\ f.pc = "put" => f.ext = "jwt" /\ f.at = j.at + 1
    <3>1. CASE j.at < Len(j.chain)
      BY <1>1, <3>1 DEF Following
    <3>2. CASE j.at = Len(j.chain)
      BY <1>1, <3>2 DEF Following
    <3> QED
      BY <1>1, <3>1, <3>2
  <2> HIDE DEF f
  <2>2. /\ NextPc(c, loop) = f.pc
        /\ new = [j EXCEPT !.at = f.at, !.ext = f.ext, !.token = None, !.linked = FALSE]
    BY <1>3 DEF NextPc, NextJob, f
  <2>3. /\ new \in Job /\ new.chain = j.chain /\ new.began = j.began
        /\ new.at = f.at /\ new.ext = f.ext
    <3>1. PICK a \in Nat, e \in {"jwt", "tst"} : a = f.at /\ e = f.ext
      BY <1>1, <2>1
    <3>2. new = [j EXCEPT !.at = a, !.ext = e, !.token = None, !.linked = FALSE]
      BY <2>2, <3>1
    <3> HIDE DEF new, j
    <3>3. new \in Job /\ new.chain = j.chain /\ new.began = j.began /\ new.at = a /\ new.ext = e
      BY <1>1, <3>2 DEF Job
    <3> QED
      BY <3>1, <3>3
  <2> QED
    BY <1>1, <2>1, <2>2, <2>3 DEF Placed
<1> QED
  BY <1>2, <1>3

\* A path of a call, and what it writes there.
LEMMA PathOf ==
  ASSUME NEW c \in Callers, NEW stage, Placed(stage, job[c])
  PROVE  /\ Receipt(c) \in Receipts /\ Path(c) \in Paths /\ Jwt(c) \subseteq Receipts
         /\ Path(c) = <<Receipt(c), job[c].ext>>
BY DEF Placed, Job, Receipt, Path, Paths, Jwt

LEMMA DataOf ==
  ASSUME NEW c \in Callers, Placed("write", job[c]), MaxTime \in Nat
  PROVE  Data(c) \in Seq(Block)
<1>1. job[c].ext \in {"jwt", "tst"} /\ Receipt(c) \in Receipts
  BY PathOf DEF Placed, Job
<1>2. CASE job[c].ext = "jwt"
  <2>1. [of |-> Receipt(c), time |-> 0, size |-> 1, granted |-> TRUE, n |-> 1] \in Block
    BY <1>1 DEF Block
  <2>2. JwtBlocks(Receipt(c)) \in Seq(Block)
    BY <2>1 DEF JwtBlocks
  <2> QED
    BY <1>2, <2>2 DEF Data
<1>3. CASE job[c].ext = "tst"
  <2>1. PICK tok \in Token : tok = job[c].token
    BY <1>3 DEF Placed
  <2>2. \A n \in 1..tok.size : [of |-> tok.of, time |-> tok.time, size |-> tok.size,
                                granted |-> tok.granted, n |-> n] \in Block
    BY <2>1 DEF Token, Block
  <2>3. tok.size \in Nat
    BY DEF Token
  <2>4. TokenBlocks(tok) \in Seq(Block)
    BY <2>2, <2>3 DEF TokenBlocks
  <2> QED
    BY <1>3, <2>1, <2>4 DEF Data
<1> QED
  BY <1>1, <1>2, <1>3

LEMMA Overwritten ==
  ASSUME NEW S, NEW old \in Seq(S), NEW data \in Seq(S)
  PROVE  /\ Overwrite(old, data) \in Seq(S)
         /\ Len(old) <= Len(data) => Overwrite(old, data) = data
<1> DEFINE rest == SubSeq(old, Len(data) + 1, Len(old))
<1>1. Len(old) \in Nat /\ Len(data) \in Nat
  OBVIOUS
<1>2. rest \in Seq(S)
  BY <1>1
<1>3. Len(old) <= Len(data) => rest = << >>
  BY <1>1
<1> HIDE DEF rest
<1>4. data \o rest \in Seq(S)
  BY <1>2
<1>5. data \o << >> = data
  OBVIOUS
<1> QED
  BY <1>3, <1>4, <1>5 DEF Overwrite, rest

\* The LRU of tier 0 stays within its capacity.
LEMMA MemoryTypes ==
  ASSUME recent \in Seq(Receipts), Len(recent) <= MemoryCapacity, NEW d \in Receipts
  PROVE  LET added == Append(Others(d), d)
             new == IF Len(added) > MemoryCapacity THEN Tail(added) ELSE added
         IN  new \in Seq(Receipts) /\ Len(new) <= MemoryCapacity
<1>1. MemoryCapacity \in Nat \ {0} /\ Len(recent) \in Nat
  BY StoreAssumption
<1>2. Others(d) \in Seq(Receipts) /\ Len(Others(d)) <= Len(recent)
  <2>1. CASE \E p \in DOMAIN recent : recent[p] = d
    <3>1. PICK p \in 1..Len(recent) : p = Place(d)
      BY <2>1 DEF Place
    <3> DEFINE a == SubSeq(recent, 1, p - 1)
               b == SubSeq(recent, p + 1, Len(recent))
    <3>2. a \in Seq(Receipts) /\ Len(a) = p - 1 /\ b \in Seq(Receipts) /\ Len(b) = Len(recent) - p
      BY <1>1
    <3>3. Others(d) = a \o b
      BY <2>1, <3>1 DEF Others, RemoveAt
    <3> HIDE DEF a, b
    <3>4. a \o b \in Seq(Receipts) /\ Len(a \o b) = Len(a) + Len(b)
      BY <3>2
    <3> QED
      BY <1>1, <3>2, <3>3, <3>4
  <2>2. CASE ~\E p \in DOMAIN recent : recent[p] = d
    BY <1>1, <2>2 DEF Others
  <2> QED
    BY <2>1, <2>2
<1>3. PICK s \in Seq(Receipts) : s = Others(d)
  BY <1>2
<1>7. Append(s, d) \in Seq(Receipts)
  BY AppendProperties
<1>6. PICK added \in Seq(Receipts) : added = Append(s, d)
  BY <1>7
<1>4. Len(s) \in Nat /\ added # << >> /\ Len(added) = Len(s) + 1
  BY <1>6
<1>5. Tail(added) \in Seq(Receipts) /\ Len(Tail(added)) = Len(added) - 1
  BY <1>4
<1> QED
  BY <1>1, <1>2, <1>3, <1>4, <1>5, <1>6

LEMMA OneCallMoves ==
  ASSUME Types, NEW c \in Callers, NEW s \in PcStages, NEW j,
         pc' = [pc EXCEPT ![c] = s], job' = [job EXCEPT ![c] = j], now' = now,
         s # "idle" => Placed(s, j) /\ j.began <= now /\ now - j.began <= TTL
  PROVE  pc' \in [Callers -> PcStages] /\ DOMAIN job' = Callers /\ Calling'
<1>1. pc \in [Callers -> PcStages] /\ DOMAIN job = Callers
  BY DEF Types, CallTypes
<1>2. pc'[c] = s /\ job'[c] = j /\ \A d \in Callers \ {c} : pc'[d] = pc[d] /\ job'[d] = job[d]
  BY <1>1
<1>3. Calling'
  BY <1>2 DEF Types, Calling
<1> QED
  BY <1>1, <1>3

LEMMA AdvanceMoves ==
  ASSUME Types, NEW c \in Callers, NEW loop \in {"put", "stat"}, pc[c] # "idle",
         Advance(c, loop), now' = now
  PROVE  pc' \in [Callers -> PcStages] /\ DOMAIN job' = Callers /\ Calling'
<1>1. Placed(pc[c], job[c]) /\ job[c].began <= now /\ now - job[c].began <= TTL
  BY DEF Types, Calling
<1>2. /\ Placed(NextPc(c, loop), NextJob(c, loop)) /\ NextJob(c, loop).began = job[c].began
      /\ NextPc(c, loop) \in PcStages
  BY <1>1, AdvanceJob DEF PcStages
<1>3. /\ pc' = [pc EXCEPT ![c] = NextPc(c, loop)] /\ job' = [job EXCEPT ![c] = NextJob(c, loop)]
  BY DEF Advance
<1> QED
  BY <1>1, <1>2, <1>3, OneCallMoves

LEMMA BeginTypes ==
  ASSUME Types, NEW c \in Callers, NEW chain \in Chains(c), NEW ts \in BOOLEAN,
         Begin(c, chain, ts, "resolve")
  PROVE  Types'
<1> DEFINE j == [chain |-> chain, timestamps |-> ts, at |-> 1, ext |-> "jwt", token |-> None,
                 linked |-> FALSE, began |-> now]
<1>1. /\ pc' = [pc EXCEPT ![c] = "resolve"] /\ job' = [job EXCEPT ![c] = j]
      /\ UNCHANGED <<fileVars, report, kept, damaged, anchored>>
      /\ solo' = [d \in Callers |-> d = c /\ Active = {}]
  BY DEF Begin
<1>2. /\ chain \in Seq(Receipts) /\ chain # << >>
      /\ \A m, n \in DOMAIN chain : chain[m] = chain[n] => m = n
  BY ChainsAssumption
<1>3. now \in 0..MaxTime /\ TTL \in Nat /\ MaxTime \in Nat
  BY StoreAssumption DEF Types, FileTypes
<1>4. Len(chain) \in Nat \ {0}
  BY <1>2
<1>5. Placed("resolve", j)
  <2>1. j \in Job
    BY <1>2, <1>3 DEF Job
  <2> QED
    BY <1>2, <1>4, <2>1 DEF Placed
<1>6. j.began <= now /\ now - j.began <= TTL
  BY <1>3
<1>7. now' = now /\ "resolve" \in PcStages
  BY <1>1 DEF fileVars, PcStages
<1> HIDE DEF j
<1>8. pc' \in [Callers -> PcStages] /\ DOMAIN job' = Callers /\ Calling'
  BY <1>1, <1>5, <1>6, <1>7, OneCallMoves
<1> QED
  BY <1>1, <1>8 DEF Types, FileTypes, CallTypes, fileVars

LEMMA ReturnTypes ==
  ASSUME Types, NEW c \in Callers, Return(c)
  PROVE  Types'
<1>1. /\ pc' = [pc EXCEPT ![c] = "idle"] /\ job' = [job EXCEPT ![c] = None]
      /\ report' = [report EXCEPT ![c] = << >>] /\ anchored' = [anchored EXCEPT ![c] = << >>]
      /\ solo' = [solo EXCEPT ![c] = FALSE]
      /\ UNCHANGED <<fileVars, kept, damaged>>
  BY DEF Return
<1>2. now' = now /\ "idle" \in PcStages
  BY <1>1 DEF fileVars, PcStages
<1>3. pc' \in [Callers -> PcStages] /\ DOMAIN job' = Callers /\ Calling'
  BY <1>1, <1>2, OneCallMoves
<1>4. << >> \in Seq(Result) /\ << >> \in Seq(Anchor)
  OBVIOUS
<1> QED
  BY <1>1, <1>3, <1>4 DEF Types, FileTypes, CallTypes, fileVars

\* What Put does to the files, and where it leaves the call.
LEMMA PutTypes ==
  ASSUME Types, NEW c \in Callers,
         \/ PutMemory(c) \/ OpenFile(c) \/ WriteFile(c) \/ PutFails(c)
         \/ TSAReplies(c) \/ TSAFails(c)
  PROVE  Types'
<1>1. /\ FileTypes /\ CallTypes /\ Calling /\ now \in 0..MaxTime /\ MaxTime \in Nat
      /\ files \in [DOMAIN files -> File]
  BY StoreAssumption DEF Types, FileTypes
<1>2. pc[c] # "idle"
  BY DEF PutMemory, OpenFile, WriteFile, PutFails, TSAReplies, TSAFails
<1>3. Placed(pc[c], job[c]) /\ job[c].began <= now /\ now - job[c].began <= TTL
  BY <1>2 DEF Types, Calling
<1>4. /\ Receipt(c) \in Receipts /\ Path(c) \in Paths /\ Jwt(c) \subseteq Receipts
      /\ Mtime(c) \in 0..now /\ job[c] \in Job
  <2>1. Receipt(c) \in Receipts /\ Path(c) \in Paths /\ Jwt(c) \subseteq Receipts
    BY <1>3, PathOf
  <2>2. Mtime(c) \in 0..now
    BY <1>1 DEF Mtime
  <2> QED
    BY <1>3, <2>1, <2>2 DEF Placed
<1>5. CASE PutMemory(c)
  <2>1. recent' \in Seq(Receipts) /\ Len(recent') <= MemoryCapacity
    BY <1>1, <1>4, <1>5, MemoryTypes DEF PutMemory, FileTypes
  <2>2. pc' \in [Callers -> PcStages] /\ DOMAIN job' = Callers /\ Calling'
    BY <1>2, <1>5, AdvanceMoves DEF PutMemory
  <2> QED
    BY <1>1, <1>5, <2>1, <2>2 DEF PutMemory, Types, FileTypes, CallTypes
<1>6. CASE OpenFile(c)
  <2> DEFINE j == [job[c] EXCEPT !.linked = TRUE]
  <2>1. /\ pc' = [pc EXCEPT ![c] = "write"] /\ job' = [job EXCEPT ![c] = j]
        /\ pc[c] = "put" /\ now' = now
    BY <1>6 DEF OpenFile
  <2>2. Placed("write", j) /\ j.began = job[c].began
    <3>1. /\ j \in Job /\ j.chain = job[c].chain /\ j.at = job[c].at /\ j.ext = job[c].ext
          /\ j.token = job[c].token /\ j.began = job[c].began
      BY <1>4 DEF Job
    <3> QED
      BY <1>3, <2>1, <3>1 DEF Placed
  <2>3. pc' \in [Callers -> PcStages] /\ DOMAIN job' = Callers /\ Calling'
    <3> HIDE DEF j
    <3>1. "write" \in PcStages
      BY DEF PcStages
    <3> QED
      BY <1>3, <2>1, <2>2, <3>1, OneCallMoves
  <2>4. /\ files' = [p \in DOMAIN files \cup {Path(c)} |->
                       IF p = Path(c) THEN [data |-> << >>, mtime |-> Mtime(c)] ELSE files[p]]
        /\ UNCHANGED <<tier, recent, now, report, kept, anchored, solo>>
        /\ damaged' = damaged \cup Jwt(c)
    BY <1>6 DEF OpenFile
  <2>5. [data |-> << >>, mtime |-> Mtime(c)] \in File /\ Mtime(c) <= now
    BY <1>1, <1>4 DEF File
  <2>6. FileTypes'
    BY <1>1, <1>4, <2>4, <2>5 DEF FileTypes
  <2> QED
    BY <1>1, <1>4, <2>3, <2>4, <2>6 DEF Types, CallTypes
<1>7. CASE WriteFile(c)
  <2>1. pc[c] = "write" /\ Data(c) \in Seq(Block)
    BY <1>1, <1>3, <1>7, DataOf DEF WriteFile
  <2>2. /\ kept' = kept \cup Jwt(c) /\ damaged' = damaged \ Jwt(c)
        /\ UNCHANGED <<tier, recent, now, report, solo>>
    BY <1>7 DEF WriteFile
  <2>3. FileTypes'
    <3>1. CASE ~(job[c].linked /\ Path(c) \in DOMAIN files)
      <4>1. files' = files
        BY <1>1, <1>7, <3>1 DEF WriteFile
      <4> QED
        BY <1>1, <2>2, <4>1 DEF FileTypes
    <3>2. CASE job[c].linked /\ Path(c) \in DOMAIN files
      <4>1. PICK new : new = [data |-> Overwrite(files[Path(c)].data, Data(c)), mtime |-> Mtime(c)]
        OBVIOUS
      <4>2. files' = [files EXCEPT ![Path(c)] = new]
        BY <1>7, <3>2, <4>1 DEF WriteFile
      <4>3. new \in File /\ new.mtime <= now
        <5>1. files[Path(c)].data \in Seq(Block)
          BY <1>1, <3>2 DEF File
        <5>2. Overwrite(files[Path(c)].data, Data(c)) \in Seq(Block)
          BY <2>1, <5>1, Overwritten
        <5> QED
          BY <1>1, <1>4, <4>1, <5>2 DEF File
      <4> QED
        BY <1>1, <2>2, <3>2, <4>2, <4>3 DEF FileTypes
    <3> QED
      BY <3>1, <3>2
  <2>4. anchored' \in [Callers -> Seq(Anchor)]
    <3>1. CASE ~(job[c].ext = "tst" /\ job[c].token.granted)
      BY <1>1, <1>7, <3>1 DEF WriteFile, CallTypes
    <3>2. CASE job[c].ext = "tst" /\ job[c].token.granted
      <4>1. PICK a \in Anchor : a = [of |-> Receipt(c), time |-> job[c].token.time]
        BY <1>3, <1>4, <2>1, <3>2 DEF Placed, Token, Anchor
      <4>2. anchored' = [anchored EXCEPT ![c] = Append(@, a)]
        BY <1>7, <3>2, <4>1 DEF WriteFile
      <4>3. anchored \in [Callers -> Seq(Anchor)] /\ Append(anchored[c], a) \in Seq(Anchor)
        BY <1>1 DEF CallTypes
      <4> QED
        BY <4>2, <4>3
    <3> QED
      BY <3>1, <3>2
  <2>5. pc' \in [Callers -> PcStages] /\ DOMAIN job' = Callers /\ Calling'
    <3>1. CASE job[c].ext = "jwt" /\ tier = 3
      <4>1. pc' = [pc EXCEPT ![c] = "tsa"] /\ job' = job /\ now' = now
        BY <1>1, <1>7, <2>2, <3>1 DEF WriteFile, CallTypes
      <4>2. Placed("tsa", job[c]) /\ "tsa" \in PcStages
        BY <1>3, <3>1 DEF Placed, PcStages
      <4> QED
        BY <1>1, <1>3, <4>1, <4>2 DEF CallTypes, Calling
    <3>2. CASE ~(job[c].ext = "jwt" /\ tier = 3)
      BY <1>2, <1>7, <2>2, <3>2, AdvanceMoves DEF WriteFile
    <3> QED
      BY <3>1, <3>2
  <2> QED
    BY <1>1, <1>4, <2>2, <2>3, <2>4, <2>5 DEF Types, CallTypes
<1>8. CASE PutFails(c) \/ TSAFails(c)
  <2>1. UNCHANGED <<fileVars, report, kept, damaged, anchored, solo>> /\ Advance(c, "put")
    BY <1>8 DEF PutFails, TSAFails
  <2>2. pc' \in [Callers -> PcStages] /\ DOMAIN job' = Callers /\ Calling'
    BY <1>2, <2>1, AdvanceMoves DEF fileVars
  <2> QED
    BY <1>1, <2>1, <2>2 DEF Types, FileTypes, CallTypes, fileVars
<1>9. CASE TSAReplies(c)
  <2>1. /\ UNCHANGED <<fileVars, report, kept, damaged, anchored, solo>>
        /\ pc' = [pc EXCEPT ![c] = "put"]
    BY <1>9 DEF TSAReplies
  <2>2. PICK a \in Answers :
          job' = [job EXCEPT ![c].ext = "tst",
                             ![c].token = [of |-> Receipt(c), time |-> now, size |-> a.size,
                                           granted |-> a.granted]]
    BY <1>9 DEF TSAReplies
  <2>3. PICK tok \in Token :
          tok = [of |-> Receipt(c), time |-> now, size |-> a.size, granted |-> a.granted]
    BY <1>1, <1>4, StoreAssumption DEF Token
  <2>4. PICK j : j = [job[c] EXCEPT !.ext = "tst", !.token = tok]
    OBVIOUS
  <2>5. job' = [job EXCEPT ![c] = j]
    BY <2>2, <2>3, <2>4
  <2>6. /\ j \in Job /\ j.chain = job[c].chain /\ j.at = job[c].at /\ j.ext = "tst"
        /\ j.token = tok /\ j.began = job[c].began
    BY <1>4, <2>4 DEF Job
  <2>7. tok.of = job[c].chain[job[c].at]
    BY <2>3 DEF Receipt
  <2>8. Placed("put", j)
    BY <1>3, <2>6, <2>7 DEF Placed
  <2>9. now' = now /\ "put" \in PcStages
    BY <2>1 DEF fileVars, PcStages
  <2>10. pc' \in [Callers -> PcStages] /\ DOMAIN job' = Callers /\ Calling'
    BY <1>3, <2>1, <2>5, <2>6, <2>8, <2>9, OneCallMoves
  <2> QED
    BY <1>1, <2>1, <2>10 DEF Types, FileTypes, CallTypes, fileVars
<1> QED
  BY <1>5, <1>6, <1>7, <1>8, <1>9

\* Get, the report and the response.
LEMMA GetTypes ==
  ASSUME Types, NEW c \in Callers, StatFile(c) \/ RemoveFile(c) \/ ReadFile(c) \/ Respond(c)
  PROVE  Types'
<1>1. /\ FileTypes /\ CallTypes /\ Calling /\ now \in 0..MaxTime /\ MaxTime \in Nat
      /\ files \in [DOMAIN files -> File] /\ report \in [Callers -> Seq(Result)]
  BY StoreAssumption DEF Types, FileTypes, CallTypes
<1>2. CASE Respond(c)
  BY <1>2, ReturnTypes DEF Respond
<1>3. CASE StatFile(c) \/ RemoveFile(c) \/ ReadFile(c)
  <2>1. pc[c] # "idle"
    BY <1>3 DEF StatFile, RemoveFile, ReadFile
  <2>2. Placed(pc[c], job[c]) /\ job[c].began <= now /\ now - job[c].began <= TTL
    BY <2>1 DEF Types, Calling
  <2>3. Receipt(c) \in Receipts /\ Path(c) \in Paths /\ NoToken(c) \in Result
    <3>1. Receipt(c) \in Receipts /\ Path(c) \in Paths
      BY <2>2, PathOf
    <3> QED
      BY <1>1, <3>1 DEF NoToken, Result
  <2>4. ASSUME NEW result \in Result, Report(c, result),
               UNCHANGED <<fileVars, kept, damaged, anchored, solo>>
        PROVE  Types'
    <3>1. report' = [report EXCEPT ![c] = Append(@, result)] /\ Advance(c, "stat")
      BY <2>4 DEF Report
    <3>2. Append(report[c], result) \in Seq(Result)
      BY <1>1, AppendProperties
    <3>3. report' \in [Callers -> Seq(Result)]
      BY <1>1, <3>1, <3>2
    <3>4. pc' \in [Callers -> PcStages] /\ DOMAIN job' = Callers /\ Calling'
      BY <2>1, <2>4, <3>1, AdvanceMoves DEF fileVars
    <3> QED
      BY <1>1, <2>4, <3>3, <3>4 DEF Types, FileTypes, CallTypes, fileVars
  <2>5. CASE StatFile(c)
    <3>1. CASE tier = 0 \/ Path(c) \notin DOMAIN files
      BY <2>3, <2>4, <2>5, <3>1 DEF StatFile
    <3>2. CASE ~(tier = 0 \/ Path(c) \notin DOMAIN files)
      <4>1. PICK s \in {"remove", "read"} : pc' = [pc EXCEPT ![c] = s]
        BY <2>5, <3>2 DEF StatFile
      <4>2. /\ pc[c] = "stat" /\ job' = job /\ report' = report
            /\ UNCHANGED <<fileVars, kept, damaged, anchored, solo>>
        BY <2>5, <3>2 DEF StatFile
      <4>3. Placed(s, job[c]) /\ s \in PcStages
        BY <2>2, <4>2 DEF Placed, PcStages
      <4>4. pc' \in [Callers -> PcStages] /\ DOMAIN job' = Callers /\ Calling'
        BY <1>1, <2>2, <4>1, <4>2, <4>3 DEF CallTypes, Calling, fileVars
      <4> QED
        BY <1>1, <4>2, <4>4 DEF Types, FileTypes, CallTypes, fileVars
    <3> QED
      BY <3>1, <3>2
  <2>6. CASE ReadFile(c)
    <3>1. CASE Path(c) \notin DOMAIN files
      BY <2>3, <2>4, <2>6, <3>1 DEF ReadFile
    <3>2. CASE Path(c) \in DOMAIN files
      <4> DEFINE blocks == files[Path(c)].data
                 valid == blocks # << >> /\ VerifyTimestampTrusted(ParsedToken(blocks), Receipt(c), TSARootPool)
                 result == [of |-> Receipt(c), valid |-> valid, time |-> IF valid THEN blocks[1].time ELSE 0]
      <4>1. Report(c, result) /\ UNCHANGED <<fileVars, kept, damaged, anchored, solo>>
        BY <2>6, <3>2 DEF ReadFile
      <4>2. valid \in BOOLEAN
        BY DEF VerifyTimestampTrusted
      <4>3. blocks \in Seq(Block)
        BY <1>1, <3>2 DEF File
      <4>4. valid => blocks[1] \in Block
        BY <4>3
      <4> HIDE DEF valid, blocks
      <4>5. result.time \in 0..MaxTime
        BY <1>1, <4>4 DEF Block
      <4>6. result \in Result
        BY <2>3, <4>2, <4>5 DEF Result
      <4> HIDE DEF result
      <4> QED
        BY <2>4, <4>1, <4>6
    <3> QED
      BY <3>1, <3>2
  <2>7. CASE RemoveFile(c)
    <3>1. /\ files' = [p \in DOMAIN files \ {Path(c)} |-> files[p]]
          /\ report' = [report EXCEPT ![c] = Append(@, NoToken(c))]
          /\ pc' = [pc EXCEPT ![c] = NextPc(c, "stat")]
          /\ job' = [d \in Callers |->
                       IF d = c THEN NextJob(c, "stat")
                       ELSE IF pc[d] = "write" /\ Path(d) = Path(c) THEN [job[d] EXCEPT !.linked = FALSE]
                       ELSE job[d]]
          /\ UNCHANGED <<tier, recent, now, kept, damaged, anchored, solo>>
      BY <2>7 DEF RemoveFile
    <3>2. FileTypes'
      BY <1>1, <3>1 DEF FileTypes
    <3>3. Append(report[c], NoToken(c)) \in Seq(Result)
      BY <1>1, <2>3, AppendProperties
    <3>4. report' \in [Callers -> Seq(Result)]
      BY <1>1, <3>1, <3>3
    <3>5. /\ Placed(NextPc(c, "stat"), NextJob(c, "stat"))
          /\ NextPc(c, "stat") \in PcStages /\ NextJob(c, "stat").began = job[c].began
      BY <2>2, AdvanceJob DEF PcStages
    <3>6. pc' \in [Callers -> PcStages] /\ DOMAIN job' = Callers
      BY <1>1, <3>1, <3>5 DEF CallTypes
    <3>7. Calling'
      <4> SUFFICES ASSUME NEW d \in Callers, pc'[d] # "idle"
                   PROVE  Placed(pc'[d], job'[d]) /\ job'[d].began <= now /\ now - job'[d].began <= TTL
        BY <3>1 DEF Calling
      <4>1. CASE d = c
        <5>1. pc'[d] = NextPc(c, "stat") /\ job'[d] = NextJob(c, "stat")
          BY <1>1, <3>1, <4>1 DEF CallTypes
        <5> QED
          BY <2>2, <3>5, <5>1
      <4>2. CASE d # c
        <5>1. pc'[d] = pc[d]
          BY <1>1, <3>1, <4>2 DEF CallTypes
        <5>2. Placed(pc[d], job[d]) /\ job[d].began <= now /\ now - job[d].began <= TTL
          BY <1>1, <5>1 DEF Calling
        <5>3. CASE pc[d] = "write" /\ Path(d) = Path(c)
          <6>1. job'[d] = [job[d] EXCEPT !.linked = FALSE]
            BY <3>1, <4>2, <5>3
          <6>2. job[d] \in Job
            BY <5>2 DEF Placed
          <6>3. /\ job'[d] \in Job /\ job'[d].chain = job[d].chain /\ job'[d].at = job[d].at
                /\ job'[d].ext = job[d].ext /\ job'[d].token = job[d].token
                /\ job'[d].began = job[d].began
            BY <6>1, <6>2 DEF Job
          <6> QED
            BY <5>1, <5>2, <6>3 DEF Placed
        <5>4. CASE ~(pc[d] = "write" /\ Path(d) = Path(c))
          <6>1. job'[d] = job[d]
            BY <3>1, <4>2, <5>4
          <6> QED
            BY <5>1, <5>2, <6>1
        <5> QED
          BY <5>3, <5>4
      <4> QED
        BY <4>1, <4>2
    <3> QED
      BY <1>1, <3>1, <3>2, <3>4, <3>6, <3>7 DEF Types, CallTypes
  <2> QED
    BY <1>3, <2>5, <2>6, <2>7
<1> QED
  BY <1>2, <1>3

LEMMA StoreStepTypes ==
  ASSUME Types, NEW c \in Callers, StoreStep(c)
  PROVE  Types'
BY PutTypes, GetTypes DEF StoreStep

LEMMA TypesKept == Types /\ [Next]_vars => Types'
<1> SUFFICES ASSUME Types, [Next]_vars PROVE Types'
  OBVIOUS
<1>1. ASSUME NEW c \in Callers, NEW ts \in BOOLEAN, NEW ch \in Chains(c), Arrive(c, ch, ts)
      PROVE  Types'
  BY <1>1, BeginTypes DEF Arrive
<1>2. ASSUME NEW c \in Callers, Step(c) PROVE Types'
  <2>1. CASE Store(c)
    BY <2>1, StoreStepTypes DEF Store
  <2>2. CASE Refuse(c)
    BY <2>2, ReturnTypes DEF Refuse
  <2>3. CASE Verified(c)
    <3>1. /\ pc[c] = "resolve" /\ pc' = [pc EXCEPT ![c] = "put"]
          /\ UNCHANGED <<fileVars, job, report, kept, damaged, anchored, solo>>
      BY <2>3 DEF Verified
    <3>2. \A j : Placed("resolve", j) => Placed("put", j)
      BY DEF Placed
    <3>3. pc \in [Callers -> PcStages] /\ "put" \in PcStages
      BY DEF Types, CallTypes, PcStages
    <3>4. pc' \in [Callers -> PcStages] /\ Calling'
      BY <3>1, <3>2, <3>3 DEF Types, Calling, fileVars
    <3> QED
      BY <3>1, <3>4 DEF Types, FileTypes, CallTypes, fileVars
  <2>4. CASE \E d \in DIDs : AcquireSlot(c, d) \/ Resolves(c, d) \/ ResolveFails(c, d)
    <3>1. UNCHANGED storeVars
      BY <2>4 DEF AcquireSlot, Resolves, ResolveFails
    <3> QED
      BY <3>1 DEF Types, FileTypes, CallTypes, Calling, storeVars
  <2> QED
    BY <1>2, <2>1, <2>2, <2>3, <2>4 DEF Step
<1>3. CASE StoreTick
  <2>1. /\ now < MaxTime /\ \A c \in Active : now - job[c].began < TTL
        /\ now' = now + 1
        /\ UNCHANGED <<tier, files, recent, pc, job, report, kept, damaged, anchored, solo>>
    BY <1>3 DEF StoreTick
  <2>2. now \in 0..MaxTime /\ MaxTime \in Nat /\ TTL \in Nat
    BY StoreAssumption DEF Types, FileTypes
  <2>3. FileTypes'
    <3>1. \A p \in DOMAIN files : files[p].mtime \in 0..MaxTime /\ files[p].mtime <= now
      BY DEF Types, FileTypes, File
    <3>2. \A p \in DOMAIN files : files[p].mtime <= now + 1
      BY <2>2, <3>1
    <3>3. now + 1 \in 0..MaxTime
      BY <2>1, <2>2
    <3> QED
      BY <2>1, <3>2, <3>3 DEF Types, FileTypes
  <2>4. Calling'
    <3> SUFFICES ASSUME NEW c \in Callers, pc'[c] # "idle"
                 PROVE  /\ Placed(pc'[c], job'[c]) /\ job'[c].began <= now'
                        /\ now' - job'[c].began <= TTL
      BY DEF Calling
    <3>3. pc' = pc /\ job' = job /\ pc[c] # "idle"
      BY <2>1
    <3>1. Placed(pc[c], job[c]) /\ job[c].began <= now /\ job[c].began \in 0..MaxTime
      BY <3>3 DEF Types, Calling, Placed, Job
    <3>2. now - job[c].began < TTL
      BY <2>1, <3>3 DEF Active
    <3>4. job[c].began <= now' /\ now' - job[c].began <= TTL
      BY <2>1, <2>2, <3>1, <3>2
    <3> QED
      BY <3>1, <3>3, <3>4
  <2> QED
    BY <2>1, <2>3, <2>4 DEF Types, CallTypes
<1>4. CASE Restart
  <2>1. /\ pc' = [c \in Callers |-> "idle"] /\ job' = [c \in Callers |-> None]
        /\ report' = [c \in Callers |-> << >>] /\ anchored' = [c \in Callers |-> << >>]
        /\ solo' = [c \in Callers |-> FALSE] /\ recent' = << >>
        /\ UNCHANGED <<tier, files, now, kept, damaged>>
    BY <1>4 DEF Restart, StoreRestart
  <2>2. MemoryCapacity \in Nat /\ << >> \in Seq(Result) /\ << >> \in Seq(Anchor)
        /\ << >> \in Seq(Receipts) /\ Len(<< >>) = 0
    BY StoreAssumption
  <2>3. Calling'
    <3>1. \A c \in Callers : pc'[c] = "idle"
      BY <2>1
    <3> QED
      BY <3>1 DEF Calling
  <2>4. FileTypes'
    BY <2>1, <2>2 DEF Types, FileTypes
  <2>5. CallTypes'
    BY <2>1, <2>2 DEF Types, CallTypes, PcStages
  <2> QED
    BY <2>3, <2>4, <2>5 DEF Types
<1>5. CASE UNCHANGED vars
  BY <1>5 DEF Types, FileTypes, CallTypes, Calling, vars, storeVars
<1> QED
  BY <1>1, <1>2, <1>3, <1>4, <1>5 DEF Next

LEMMA TypesHold == Spec => []Types
<1>1. Init => Types
  <2> SUFFICES ASSUME Init PROVE Types
    OBVIOUS
  <2>1. /\ tier \in Tiers /\ files = << >> /\ recent = << >> /\ now = 0
        /\ pc = [c \in Callers |-> "idle"] /\ job = [c \in Callers |-> None]
        /\ report = [c \in Callers |-> << >>] /\ anchored = [c \in Callers |-> << >>]
        /\ kept = {} /\ damaged = {} /\ solo = [c \in Callers |-> FALSE]
    BY DEF Init, StoreInit
  <2>2. MemoryCapacity \in Nat /\ MaxTime \in Nat /\ << >> \in Seq(Result) /\ << >> \in Seq(Anchor)
        /\ << >> \in Seq(Receipts) /\ Len(<< >>) = 0 /\ DOMAIN << >> = {}
        /\ << >> \in [{} -> File]
    BY StoreAssumption
  <2>3. FileTypes
    BY <2>1, <2>2 DEF FileTypes
  <2>4. CallTypes
    BY <2>1, <2>2 DEF CallTypes, PcStages
  <2> QED
    BY <2>1, <2>3, <2>4 DEF Types, Calling
<1> QED
  BY <1>1, TypesKept, PTL DEF Spec

\* Tier and time are what they should be, the LRU is within its capacity, files
\* have names of receipts and no modification time in the future, whatever calls
\* interleave, fail and are cut off by a restart.
THEOREM TypeCorrect == Spec => []StoreTypeOK
<1>1. Types => StoreTypeOK
  <2> SUFFICES ASSUME Types PROVE StoreTypeOK
    OBVIOUS
  <2>1. now \in 0..MaxTime /\ MaxTime \in Nat
    BY StoreAssumption DEF Types, FileTypes
  <2>2. ASSUME NEW p \in DOMAIN files PROVE files[p].mtime \in 0..now
    <3>1. files[p].mtime \in 0..MaxTime /\ files[p].mtime <= now
      BY DEF Types, FileTypes, File
    <3> QED
      BY <2>1, <3>1
  <2> QED
    BY <2>1, <2>2 DEF Types, FileTypes, CallTypes, StoreTypeOK, PcStages
<1> QED
  BY <1>1, TypesHold, PTL

-----------------------------------------------------------------------------
(* What is not in the warnings is stored *)

\* A receipt file is empty or whole, for only that receipt is ever written to it.
EmptyOrWhole ==
  \A d \in Receipts : <<d, "jwt">> \in DOMAIN files =>
    files[<<d, "jwt">>].data \in {<< >>, JwtBlocks(d)}

\* A receipt file that is being written is there: only token files are removed.
Writing ==
  \A c \in Callers : pc[c] = "write" /\ job[c].ext = "jwt" =>
    job[c].linked /\ Path(c) \in DOMAIN files

ReceiptInv == EmptyOrWhole /\ Writing /\ UnwarnedIsStored

\* The steps that leave files alone, and bring no call to a write.
Idling ==
  /\ UNCHANGED <<files, kept, damaged>>
  /\ \A c \in Callers : pc'[c] = "write" => pc[c] = "write" /\ job'[c] = job[c]

LEMMA OnlyThreeTouchFiles ==
  ASSUME Types, [Next]_vars
  PROVE  Idling \/ \E c \in Callers : OpenFile(c) \/ WriteFile(c) \/ RemoveFile(c)
<1>1. pc \in [Callers -> PcStages] /\ DOMAIN job = Callers
  BY DEF Types, CallTypes
<1>2. ASSUME NEW c \in Callers, NEW s, NEW j, s # "write",
             pc' = [pc EXCEPT ![c] = s], job' = [job EXCEPT ![c] = j] \/ job' = job,
             UNCHANGED <<files, kept, damaged>>
      PROVE  Idling
  <2>1. pc'[c] = s /\ \A d \in Callers \ {c} : pc'[d] = pc[d] /\ job'[d] = job[d]
    BY <1>1, <1>2
  <2> QED
    BY <1>2, <2>1 DEF Idling
<1>3. ASSUME NEW c \in Callers, NEW loop \in {"put", "stat"}, pc[c] # "idle", Advance(c, loop),
             UNCHANGED <<files, kept, damaged>>
      PROVE  Idling
  <2>1. Placed(pc[c], job[c])
    BY <1>3 DEF Types, Calling
  <2>2. NextPc(c, loop) # "write"
    BY <2>1, AdvanceJob
  <2> QED
    BY <1>2, <1>3, <2>2 DEF Advance
<1>4. ASSUME NEW c \in Callers, NEW ts \in BOOLEAN, NEW ch \in Chains(c), Arrive(c, ch, ts)
      PROVE  Idling
  BY <1>2, <1>4 DEF Arrive, Begin, fileVars
<1>5. ASSUME NEW c \in Callers, Return(c) PROVE Idling
  BY <1>2, <1>5 DEF Return, fileVars
<1>6. ASSUME NEW c \in Callers, Store(c)
      PROVE  Idling \/ OpenFile(c) \/ WriteFile(c) \/ RemoveFile(c)
  <2>1. CASE PutMemory(c)
    BY <1>3, <2>1 DEF PutMemory
  <2>2. CASE PutFails(c)
    BY <1>3, <2>2 DEF PutFails, fileVars
  <2>3. CASE TSAFails(c)
    BY <1>3, <2>3 DEF TSAFails, fileVars
  <2>4. CASE TSAReplies(c)
    <3>1. pc' = [pc EXCEPT ![c] = "put"] /\ UNCHANGED <<files, kept, damaged>>
      BY <2>4 DEF TSAReplies, fileVars
    <3>2. PICK a \in Answers :
            job' = [job EXCEPT ![c].ext = "tst",
                               ![c].token = [of |-> Receipt(c), time |-> now, size |-> a.size,
                                             granted |-> a.granted]]
      BY <2>4 DEF TSAReplies
    <3>3. \A d \in Callers \ {c} : job'[d] = job[d] /\ pc'[d] = pc[d]
      BY <1>1, <3>1, <3>2
    <3>4. pc'[c] = "put"
      BY <1>1, <3>1
    <3> QED
      BY <3>1, <3>3, <3>4 DEF Idling
  <2>5. CASE StatFile(c)
    <3>1. UNCHANGED <<files, kept, damaged>> /\ pc[c] = "stat"
      BY <2>5 DEF StatFile, fileVars
    <3>2. CASE tier = 0 \/ Path(c) \notin DOMAIN files
      BY <1>3, <2>5, <3>1, <3>2 DEF StatFile, Report
    <3>3. CASE ~(tier = 0 \/ Path(c) \notin DOMAIN files)
      <4>1. PICK s \in {"remove", "read"} : pc' = [pc EXCEPT ![c] = s]
        BY <2>5, <3>3 DEF StatFile
      <4>2. job' = job
        BY <2>5, <3>3 DEF StatFile
      <4> QED
        BY <1>2, <3>1, <4>1, <4>2
    <3> QED
      BY <3>2, <3>3
  <2>6. CASE ReadFile(c)
    <3>1. UNCHANGED <<files, kept, damaged>> /\ pc[c] = "read" /\ Advance(c, "stat")
      BY <2>6 DEF ReadFile, Report, fileVars
    <3> QED
      BY <1>3, <3>1
  <2>7. CASE Respond(c)
    BY <1>5, <2>7 DEF Respond
  <2> QED
    BY <1>6, <2>1, <2>2, <2>3, <2>4, <2>5, <2>6, <2>7 DEF Store, StoreStep
<1>7. ASSUME NEW c \in Callers, Refuse(c) PROVE Idling
  BY <1>5, <1>7 DEF Refuse
<1>8. ASSUME NEW c \in Callers, Verified(c) PROVE Idling
  BY <1>2, <1>8 DEF Verified, fileVars
<1>9. CASE \/ \E c \in Callers, d \in DIDs : AcquireSlot(c, d) \/ Resolves(c, d) \/ ResolveFails(c, d)
           \/ UNCHANGED vars
  <2>1. UNCHANGED storeVars
    BY <1>9 DEF AcquireSlot, Resolves, ResolveFails, vars
  <2> QED
    BY <2>1 DEF storeVars, Idling
<1>10. CASE StoreTick
  BY <1>10 DEF StoreTick, Idling
<1>11. CASE Restart
  <2>1. UNCHANGED <<files, kept, damaged>> /\ pc' = [c \in Callers |-> "idle"]
    BY <1>11 DEF Restart, StoreRestart
  <2> QED
    BY <2>1 DEF Idling
<1> QED
  BY <1>4, <1>6, <1>7, <1>8, <1>9, <1>10, <1>11 DEF Next, Step

\* A call that has written moves on; the writes of others stay as they are.
LEMMA WriteEnds ==
  ASSUME Types, ReceiptInv, NEW c \in Callers, WriteFile(c), DOMAIN files' = DOMAIN files
  PROVE  Writing'
<1>1. pc \in [Callers -> PcStages] /\ DOMAIN job = Callers /\ pc[c] = "write"
  BY DEF Types, CallTypes, WriteFile
<1>2. Placed("write", job[c])
  BY <1>1 DEF Types, Calling
<1>3. NextPc(c, "put") # "write"
  BY <1>2, AdvanceJob
<1>4. pc'[c] # "write" /\ \A d \in Callers \ {c} : pc'[d] = pc[d] /\ job'[d] = job[d]
  <2>1. CASE job[c].ext = "jwt" /\ tier = 3
    BY <1>1, <2>1 DEF WriteFile
  <2>2. CASE ~(job[c].ext = "jwt" /\ tier = 3)
    BY <1>1, <1>3, <2>2 DEF WriteFile, Advance
  <2> QED
    BY <2>1, <2>2
<1> QED
  BY <1>4 DEF ReceiptInv, Writing, Path, Receipt

LEMMA ReceiptsKept == Types /\ ReceiptInv /\ [Next]_vars => ReceiptInv'
<1> SUFFICES ASSUME Types, ReceiptInv, [Next]_vars PROVE ReceiptInv'
  OBVIOUS
<1>1. /\ pc \in [Callers -> PcStages] /\ DOMAIN job = Callers
      /\ files \in [DOMAIN files -> File]
  BY DEF Types, CallTypes, FileTypes
<1>2. CASE Idling
  <2>1. /\ files' = files /\ kept' = kept /\ damaged' = damaged
        /\ \A c \in Callers : pc'[c] = "write" => pc[c] = "write" /\ job'[c] = job[c]
    BY <1>2 DEF Idling
  <2>2. Writing'
    BY <2>1 DEF ReceiptInv, Writing, Path, Receipt
  <2> QED
    BY <2>1, <2>2 DEF ReceiptInv, EmptyOrWhole, UnwarnedIsStored
<1>3. ASSUME NEW c \in Callers, OpenFile(c) PROVE ReceiptInv'
  <2>1. /\ files' = [p \in DOMAIN files \cup {Path(c)} |->
                       IF p = Path(c) THEN [data |-> << >>, mtime |-> Mtime(c)] ELSE files[p]]
        /\ damaged' = damaged \cup Jwt(c) /\ kept' = kept
        /\ pc' = [pc EXCEPT ![c] = "write"] /\ job' = [job EXCEPT ![c].linked = TRUE]
        /\ pc[c] = "put"
    BY <1>3 DEF OpenFile
  <2>2. Placed("put", job[c])
    BY <2>1 DEF Types, Calling
  <2>3. Path(c) = <<Receipt(c), job[c].ext>> /\ Receipt(c) \in Receipts /\ job[c] \in Job
    BY <2>2, PathOf DEF Placed
  <2>4. /\ \A p \in DOMAIN files \ {Path(c)} : p \in DOMAIN files' /\ files'[p] = files[p]
        /\ Path(c) \in DOMAIN files' /\ files'[Path(c)].data = << >>
        /\ DOMAIN files' = DOMAIN files \cup {Path(c)}
    BY <2>1
  <2>5. EmptyOrWhole'
    BY <2>4 DEF ReceiptInv, EmptyOrWhole, JwtBlocks
  <2>6. Writing'
    <3> SUFFICES ASSUME NEW d \in Callers, pc'[d] = "write", job'[d].ext = "jwt"
                 PROVE  job'[d].linked /\ Path(d)' \in DOMAIN files'
      BY DEF Writing
    <3>1. CASE d = c
      <4>1. job'[c] = [job[c] EXCEPT !.linked = TRUE]
        BY <1>1, <2>1
      <4>2. /\ job'[c].linked /\ job'[c].chain = job[c].chain /\ job'[c].at = job[c].at
            /\ job'[c].ext = job[c].ext
        BY <2>3, <4>1 DEF Job
      <4> QED
        BY <2>4, <3>1, <4>2 DEF Path, Receipt
    <3>2. CASE d # c
      <4>1. job'[d] = job[d] /\ pc[d] = "write"
        BY <1>1, <2>1, <3>2
      <4> QED
        BY <2>4, <4>1 DEF ReceiptInv, Writing, Path, Receipt
    <3> QED
      BY <3>1, <3>2
  <2>7. UnwarnedIsStored'
    <3> SUFFICES ASSUME NEW d \in Receipts, d \in kept \ damaged'
                 PROVE  /\ <<d, "jwt">> \in DOMAIN files'
                        /\ files'[<<d, "jwt">>].data = JwtBlocks(d)
      BY <2>1 DEF UnwarnedIsStored, JwtBlocks
    <3>1. d \notin damaged /\ d \notin Jwt(c)
      BY <2>1
    <3>2. <<d, "jwt">> # Path(c)
      BY <2>3, <3>1 DEF Jwt
    <3> QED
      BY <2>4, <3>1, <3>2 DEF ReceiptInv, UnwarnedIsStored
  <2> QED
    BY <2>5, <2>6, <2>7 DEF ReceiptInv
<1>4. ASSUME NEW c \in Callers, WriteFile(c) PROVE ReceiptInv'
  <2>1. /\ pc[c] = "write" /\ kept' = kept \cup Jwt(c) /\ damaged' = damaged \ Jwt(c)
        /\ files' = IF job[c].linked
                    THEN [files EXCEPT ![Path(c)] = [data |-> Overwrite(@.data, Data(c)), mtime |-> Mtime(c)]]
                    ELSE files
    BY <1>4 DEF WriteFile
  <2>2. Placed("write", job[c])
    BY <2>1 DEF Types, Calling
  <2>3. Path(c) = <<Receipt(c), job[c].ext>> /\ Receipt(c) \in Receipts /\ job[c] \in Job
    BY <2>2, PathOf DEF Placed
  <2>4. /\ DOMAIN files' = DOMAIN files
        /\ \A p \in DOMAIN files \ {Path(c)} : files'[p] = files[p]
        /\ job[c].linked /\ Path(c) \in DOMAIN files =>
             files'[Path(c)].data = Overwrite(files[Path(c)].data, Data(c))
        /\ ~job[c].linked => files' = files
    BY <1>1, <2>1
  <2>5. CASE job[c].ext = "jwt"
    <3>1. job[c].linked /\ Path(c) \in DOMAIN files /\ Path(c) = <<Receipt(c), "jwt">>
      BY <2>1, <2>3, <2>5 DEF ReceiptInv, Writing
    <3>2. files[Path(c)].data \in {<< >>, JwtBlocks(Receipt(c))} /\ Data(c) = JwtBlocks(Receipt(c))
      BY <2>3, <2>5, <3>1 DEF ReceiptInv, EmptyOrWhole, Data
    <3>3. Overwrite(files[Path(c)].data, Data(c)) = JwtBlocks(Receipt(c))
      <4>1. files[Path(c)].data \in Seq(Block) /\ Data(c) \in Seq(Block)
        BY <1>1, <2>2, <3>1, DataOf, StoreAssumption DEF File
      <4>2. Len(JwtBlocks(Receipt(c))) = 1 /\ Len(<< >>) = 0
        BY DEF JwtBlocks
      <4>3. Len(files[Path(c)].data) <= Len(Data(c))
        <5>1. CASE files[Path(c)].data = << >>
          <6>1. Len(files[Path(c)].data) = 0 /\ Len(Data(c)) = 1
            BY <3>2, <4>2, <5>1
          <6> QED
            BY <6>1
        <5>2. CASE files[Path(c)].data = JwtBlocks(Receipt(c))
          <6>1. Len(files[Path(c)].data) = 1 /\ Len(Data(c)) = 1
            BY <3>2, <4>2, <5>2
          <6> QED
            BY <6>1
        <5> QED
          BY <3>2, <5>1, <5>2
      <4> QED
        BY <3>2, <4>1, <4>3, Overwritten
    <3>4. files'[Path(c)].data = JwtBlocks(Receipt(c))
      BY <2>4, <3>1, <3>3
    <3>5. Jwt(c) = {Receipt(c)}
      BY <2>5 DEF Jwt
    <3>6. ASSUME NEW d \in Receipts, d # Receipt(c)
          PROVE  <<d, "jwt">> \in DOMAIN files =>
                   files'[<<d, "jwt">>].data = files[<<d, "jwt">>].data
      BY <2>4, <3>1, <3>6
    <3>7. EmptyOrWhole'
      BY <2>4, <3>1, <3>4, <3>6 DEF ReceiptInv, EmptyOrWhole, JwtBlocks
    <3>8. UnwarnedIsStored'
      BY <2>1, <2>4, <3>1, <3>4, <3>5, <3>6 DEF ReceiptInv, UnwarnedIsStored, JwtBlocks
    <3> QED
      BY <1>4, <2>4, <3>7, <3>8, WriteEnds DEF ReceiptInv
  <2>6. CASE job[c].ext = "tst"
    <3>1. Jwt(c) = {} /\ kept' = kept /\ damaged' = damaged
      BY <2>1, <2>6 DEF Jwt
    <3>2. \A d \in Receipts : <<d, "jwt">> # Path(c)
      BY <2>3, <2>6
    <3>3. EmptyOrWhole' /\ UnwarnedIsStored'
      BY <2>4, <3>1, <3>2 DEF ReceiptInv, EmptyOrWhole, UnwarnedIsStored, JwtBlocks
    <3> QED
      BY <1>4, <2>4, <3>3, WriteEnds DEF ReceiptInv
  <2> QED
    BY <2>3, <2>5, <2>6 DEF Job
<1>5. ASSUME NEW c \in Callers, RemoveFile(c) PROVE ReceiptInv'
  <2>1. /\ files' = [p \in DOMAIN files \ {Path(c)} |-> files[p]]
        /\ pc' = [pc EXCEPT ![c] = NextPc(c, "stat")] /\ pc[c] = "remove"
        /\ job' = [d \in Callers |->
                     IF d = c THEN NextJob(c, "stat")
                     ELSE IF pc[d] = "write" /\ Path(d) = Path(c) THEN [job[d] EXCEPT !.linked = FALSE]
                     ELSE job[d]]
        /\ UNCHANGED <<kept, damaged>>
    BY <1>5 DEF RemoveFile
  <2>2. Placed("remove", job[c])
    BY <2>1 DEF Types, Calling
  <2>3. Path(c) = <<Receipt(c), "tst">> /\ NextPc(c, "stat") # "write"
    BY <2>2, PathOf, AdvanceJob DEF Placed
  <2>4. \A d \in Receipts :
          /\ <<d, "jwt">> \in DOMAIN files' <=> <<d, "jwt">> \in DOMAIN files
          /\ <<d, "jwt">> \in DOMAIN files => files'[<<d, "jwt">>] = files[<<d, "jwt">>]
    BY <2>1, <2>3
  <2>5. EmptyOrWhole' /\ UnwarnedIsStored'
    BY <2>1, <2>4 DEF ReceiptInv, EmptyOrWhole, UnwarnedIsStored, JwtBlocks
  <2>6. Writing'
    <3> SUFFICES ASSUME NEW d \in Callers, pc'[d] = "write", job'[d].ext = "jwt"
                 PROVE  job'[d].linked /\ Path(d)' \in DOMAIN files'
      BY DEF Writing
    <3>1. d # c /\ pc[d] = "write"
      BY <1>1, <2>1, <2>3
    <3>2. Placed("write", job[d])
      BY <3>1 DEF Types, Calling
    <3>3. job[d].ext = "jwt" /\ Path(d) # Path(c)
      <4>1. job[d] \in Job
        BY <3>2 DEF Placed
      <4>2. [job[d] EXCEPT !.linked = FALSE].ext = job[d].ext
        BY <4>1 DEF Job
      <4>3. job[d].ext = "jwt"
        BY <2>1, <3>1, <4>2
      <4> QED
        BY <2>3, <4>3 DEF Path
    <3>4. job'[d] = job[d]
      BY <2>1, <3>1, <3>3
    <3> QED
      BY <2>1, <3>1, <3>3, <3>4 DEF ReceiptInv, Writing, Path, Receipt
  <2> QED
    BY <2>5, <2>6 DEF ReceiptInv
<1> QED
  BY <1>2, <1>3, <1>4, <1>5, OnlyThreeTouchFiles

LEMMA ReceiptsHold == Spec => []ReceiptInv
<1>1. Init => ReceiptInv
  BY DEF Init, StoreInit, ReceiptInv, EmptyOrWhole, Writing, UnwarnedIsStored
<1> QED
  BY <1>1, ReceiptsKept, TypesHold, PTL DEF Spec

\* A receipt that Put reported stored, and that no call is writing or was cut off
\* writing since, is in its file, whole: for any calls, failures and restarts.
THEOREM StoredUnlessWarned == Spec => []UnwarnedIsStored
<1>1. ReceiptInv => UnwarnedIsStored
  BY DEF ReceiptInv
<1> QED
  BY <1>1, ReceiptsHold, PTL

-----------------------------------------------------------------------------
(* The pool that resolves the issuers *)

\* One goroutine for every issuer; one that is done with a key resolved in this call.
Pooled ==
  \A c \in Callers : pc[c] = "resolve" =>
    /\ Issuers(job[c].chain) \subseteq {d \in DIDs : worker[c][d] # "none"}
    /\ \A d \in DIDs : worker[c][d] = "key" => d \in resolved[c]

PoolInv ==
  /\ worker \in [Callers -> [DIDs -> P!Stages]]
  /\ resolved \in [Callers -> SUBSET DIDs]
  /\ Pooled /\ StoredIsResolved

\* The store goes on with the chain that was verified, and starts no resolution.
LEMMA SameChain ==
  ASSUME Types, NEW c \in Callers, StoreStep(c), NEW x \in Callers
  PROVE  /\ pc'[x] = "resolve" => pc[x] = "resolve" /\ job'[x] = job[x]
         /\ pc'[x] \notin {"idle", "resolve"} =>
              pc[x] \notin {"idle", "resolve"} /\ job'[x].chain = job[x].chain
<1>1. pc \in [Callers -> PcStages] /\ DOMAIN job = Callers
  BY DEF Types, CallTypes
<1>2. ASSUME NEW loop \in {"put", "stat"}, pc[c] \notin {"idle", "resolve"},
             pc'[c] = NextPc(c, loop), job'[c] = NextJob(c, loop)
      PROVE  pc'[c] # "resolve" /\ job'[c].chain = job[c].chain
  <2>1. Placed(pc[c], job[c])
    BY <1>2 DEF Types, Calling
  <2> QED
    BY <1>2, <2>1, AdvanceJob
<1>3. ASSUME NEW loop \in {"put", "stat"}, pc[c] \notin {"idle", "resolve"}, Advance(c, loop)
      PROVE  /\ pc'[c] # "resolve" /\ job'[c].chain = job[c].chain
             /\ \A d \in Callers \ {c} : pc'[d] = pc[d] /\ job'[d] = job[d]
  BY <1>1, <1>2, <1>3 DEF Advance
<1>4. CASE PutMemory(c) \/ PutFails(c) \/ TSAFails(c) \/ ReadFile(c)
  <2>1. PICK loop \in {"put", "stat"} : Advance(c, loop)
    BY <1>4 DEF PutMemory, PutFails, TSAFails, ReadFile, Report
  <2>2. pc[c] \notin {"idle", "resolve"}
    BY <1>4 DEF PutMemory, PutFails, TSAFails, ReadFile
  <2> QED
    BY <1>3, <2>1, <2>2
<1>5. CASE OpenFile(c)
  <2>1. /\ pc[c] = "put" /\ pc' = [pc EXCEPT ![c] = "write"]
        /\ job' = [job EXCEPT ![c].linked = TRUE]
    BY <1>5 DEF OpenFile
  <2>2. job[c] \in Job
    BY <2>1 DEF Types, Calling, Placed
  <2>3. job'[c] = [job[c] EXCEPT !.linked = TRUE] /\ \A d \in Callers \ {c} : job'[d] = job[d]
    BY <1>1, <2>1
  <2>4. job'[c].chain = job[c].chain
    BY <2>2, <2>3 DEF Job
  <2> QED
    BY <1>1, <2>1, <2>3, <2>4
<1>6. CASE WriteFile(c)
  <2>1. CASE job[c].ext = "jwt" /\ tier = 3
    BY <1>1, <1>6, <2>1 DEF WriteFile
  <2>2. CASE ~(job[c].ext = "jwt" /\ tier = 3)
    <3>1. Advance(c, "put") /\ pc[c] = "write"
      BY <1>6, <2>2 DEF WriteFile
    <3> QED
      BY <1>3, <3>1
  <2> QED
    BY <2>1, <2>2
<1>7. CASE TSAReplies(c)
  <2>1. pc[c] = "tsa" /\ pc' = [pc EXCEPT ![c] = "put"]
    BY <1>7 DEF TSAReplies
  <2>2. PICK tok : job' = [job EXCEPT ![c].ext = "tst", ![c].token = tok]
    BY <1>7 DEF TSAReplies
  <2>3. job[c] \in Job
    BY <2>1 DEF Types, Calling, Placed
  <2>4. /\ job'[c] = [job[c] EXCEPT !.ext = "tst", !.token = tok]
        /\ \A d \in Callers \ {c} : job'[d] = job[d]
    BY <1>1, <2>2
  <2>5. job'[c].chain = job[c].chain
    BY <2>3, <2>4 DEF Job
  <2> QED
    BY <1>1, <2>1, <2>4, <2>5
<1>8. CASE StatFile(c)
  <2>1. CASE tier = 0 \/ Path(c) \notin DOMAIN files
    <3>1. Advance(c, "stat") /\ pc[c] = "stat"
      BY <1>8, <2>1 DEF StatFile, Report
    <3> QED
      BY <1>3, <3>1
  <2>2. CASE ~(tier = 0 \/ Path(c) \notin DOMAIN files)
    <3>1. PICK s \in {"remove", "read"} : pc' = [pc EXCEPT ![c] = s]
      BY <1>8, <2>2 DEF StatFile
    <3>2. job' = job /\ pc[c] = "stat"
      BY <1>8, <2>2 DEF StatFile
    <3> QED
      BY <1>1, <3>1, <3>2
  <2> QED
    BY <2>1, <2>2
<1>9. CASE RemoveFile(c)
  <2>1. /\ pc' = [pc EXCEPT ![c] = NextPc(c, "stat")] /\ pc[c] = "remove"
        /\ job' = [d \in Callers |->
                     IF d = c THEN NextJob(c, "stat")
                     ELSE IF pc[d] = "write" /\ Path(d) = Path(c) THEN [job[d] EXCEPT !.linked = FALSE]
                     ELSE job[d]]
    BY <1>9 DEF RemoveFile
  <2>2. CASE x = c
    <3>1. pc'[c] = NextPc(c, "stat") /\ job'[c] = NextJob(c, "stat")
      BY <1>1, <2>1
    <3> QED
      BY <1>2, <2>1, <2>2, <3>1
  <2>3. CASE x # c
    <3>1. pc'[x] = pc[x]
      BY <1>1, <2>1, <2>3
    <3>2. CASE pc[x] = "write" /\ Path(x) = Path(c)
      <4>1. job'[x] = [job[x] EXCEPT !.linked = FALSE] /\ job[x] \in Job
        BY <2>1, <2>3, <3>2 DEF Types, Calling, Placed
      <4>2. job'[x].chain = job[x].chain
        BY <4>1 DEF Job
      <4> QED
        BY <3>1, <3>2, <4>2
    <3>3. CASE ~(pc[x] = "write" /\ Path(x) = Path(c))
      <4>1. job'[x] = job[x]
        BY <2>1, <2>3, <3>3
      <4> QED
        BY <3>1, <4>1
    <3> QED
      BY <3>2, <3>3
  <2> QED
    BY <2>2, <2>3
<1>10. CASE Respond(c)
  BY <1>1, <1>10 DEF Respond, Return
<1> QED
  BY <1>4, <1>5, <1>6, <1>7, <1>8, <1>9, <1>10 DEF StoreStep

LEMMA PoolKept == Types /\ PoolInv /\ [Next]_vars => PoolInv'
<1> SUFFICES ASSUME Types, PoolInv, [Next]_vars PROVE PoolInv'
  OBVIOUS
<1>1. /\ pc \in [Callers -> PcStages] /\ DOMAIN job = Callers
      /\ worker \in [Callers -> [DIDs -> P!Stages]] /\ resolved \in [Callers -> SUBSET DIDs]
      /\ Pooled /\ StoredIsResolved
  BY DEF Types, CallTypes, PoolInv
<1>2. ASSUME NEW c \in Callers, NEW ts \in BOOLEAN, NEW ch \in Chains(c), Arrive(c, ch, ts)
      PROVE  PoolInv'
  <2>1. /\ pc' = [pc EXCEPT ![c] = "resolve"]
        /\ resolved' = [resolved EXCEPT ![c] = {}]
        /\ worker' = [worker EXCEPT ![c] = [d \in DIDs |-> IF d \in Issuers(ch) THEN "queued" ELSE "none"]]
    BY <1>2 DEF Arrive, Begin, P!PoolStart
  <2> DEFINE j == [chain |-> ch, timestamps |-> ts, at |-> 1, ext |-> "jwt", token |-> None,
                   linked |-> FALSE, began |-> now]
  <2>2. job' = [job EXCEPT ![c] = j] /\ j.chain = ch
    BY <1>2 DEF Arrive, Begin
  <2> HIDE DEF j
  <2>3. /\ pc'[c] = "resolve" /\ job'[c].chain = ch
        /\ \A x \in Callers \ {c} : /\ pc'[x] = pc[x] /\ job'[x] = job[x]
                                    /\ worker'[x] = worker[x] /\ resolved'[x] = resolved[x]
        /\ \A d \in DIDs : worker'[c][d] = IF d \in Issuers(ch) THEN "queued" ELSE "none"
    BY <1>1, <2>1, <2>2
  <2>4. Issuers(ch) \subseteq DIDs
    BY ChainsAssumption
  <2>5. worker' \in [Callers -> [DIDs -> P!Stages]] /\ resolved' \in [Callers -> SUBSET DIDs]
    BY <1>1, <2>1 DEF P!Stages
  <2>6. Pooled'
    BY <1>1, <2>3, <2>4 DEF Pooled
  <2>7. StoredIsResolved'
    BY <1>1, <2>3 DEF StoredIsResolved
  <2> QED
    BY <2>5, <2>6, <2>7 DEF PoolInv
<1>3. ASSUME NEW c \in Callers, NEW d \in DIDs,
             AcquireSlot(c, d) \/ Resolves(c, d) \/ ResolveFails(c, d)
      PROVE  PoolInv'
  <2>1. UNCHANGED storeVars /\ pc[c] = "resolve"
    BY <1>3 DEF AcquireSlot, Resolves, ResolveFails
  <2>2. pc' = pc /\ job' = job
    BY <2>1 DEF storeVars
  <2>3. PICK s \in {"resolving", "key", "error"} :
          /\ worker' = [worker EXCEPT ![c][d] = s] /\ worker[c][d] # "none"
          /\ resolved' = IF s = "key" THEN [resolved EXCEPT ![c] = @ \cup {d}] ELSE resolved
    BY <1>3 DEF AcquireSlot, Resolves, ResolveFails, P!Acquire, P!Finish
  <2>4. worker' \in [Callers -> [DIDs -> P!Stages]] /\ resolved' \in [Callers -> SUBSET DIDs]
    BY <1>1, <2>3 DEF P!Stages
  <2>5. /\ worker'[c][d] = s /\ \A e \in DIDs \ {d} : worker'[c][e] = worker[c][e]
        /\ \A x \in Callers \ {c} : worker'[x] = worker[x]
        /\ \A x \in Callers : resolved[x] \subseteq resolved'[x]
        /\ s = "key" => d \in resolved'[c]
    BY <1>1, <2>3
  <2>6. Pooled'
    <3> SUFFICES ASSUME NEW x \in Callers, pc[x] = "resolve"
                 PROVE  /\ Issuers(job[x].chain) \subseteq {e \in DIDs : worker'[x][e] # "none"}
                        /\ \A e \in DIDs : worker'[x][e] = "key" => e \in resolved'[x]
      BY <2>2 DEF Pooled
    <3>1. /\ Issuers(job[x].chain) \subseteq {e \in DIDs : worker[x][e] # "none"}
          /\ \A e \in DIDs : worker[x][e] = "key" => e \in resolved[x]
      BY <1>1 DEF Pooled
    <3>2. CASE x = c
      BY <2>3, <2>5, <3>1, <3>2
    <3>3. CASE x # c
      BY <2>5, <3>1, <3>3
    <3> QED
      BY <3>2, <3>3
  <2>7. StoredIsResolved'
    <3>1. \A x \in Callers : pc[x] \notin {"idle", "resolve"} =>
             Issuers(job[x].chain) \subseteq resolved'[x]
      BY <1>1, <2>5 DEF StoredIsResolved
    <3> QED
      BY <2>2, <3>1 DEF StoredIsResolved
  <2> QED
    BY <2>4, <2>6, <2>7 DEF PoolInv
<1>4. ASSUME NEW c \in Callers, NEW ok \in BOOLEAN, pc[c] = "resolve", P!Drained(c, ok),
             resolved' = resolved,
             \A x \in Callers \ {c} : pc'[x] = pc[x] /\ job'[x] = job[x],
             pc'[c] = "idle" \/ (pc'[c] = "put" /\ job'[c] = job[c] /\ ok)
      PROVE  PoolInv'
  <2>1. /\ worker' = [worker EXCEPT ![c] = [d \in DIDs |-> "none"]]
        /\ P!In(c, {"queued", "resolving"}) = {} /\ ok = (P!In(c, {"error"}) = {})
    BY <1>4 DEF P!Drained, P!Joined
  <2>2. worker' \in [Callers -> [DIDs -> P!Stages]] /\ resolved' \in [Callers -> SUBSET DIDs]
    BY <1>1, <1>4, <2>1 DEF P!Stages
  <2>3. \A x \in Callers \ {c} : worker'[x] = worker[x]
    BY <1>1, <2>1
  <2>4. Pooled'
    BY <1>1, <1>4, <2>3 DEF Pooled
  <2>5. pc'[c] = "put" => Issuers(job[c].chain) \subseteq resolved[c]
    <3> SUFFICES ASSUME pc'[c] = "put", NEW d \in Issuers(job[c].chain) PROVE d \in resolved[c]
      OBVIOUS
    <3>1. d \in DIDs /\ worker[c][d] # "none" /\ (worker[c][d] = "key" => d \in resolved[c])
      BY <1>1, <1>4 DEF Pooled
    <3>2. worker[c][d] \notin {"queued", "resolving", "error"}
      BY <1>4, <2>1, <3>1 DEF P!In
    <3>3. worker[c][d] \in P!Stages
      BY <1>1, <3>1
    <3> QED
      BY <3>1, <3>2, <3>3 DEF P!Stages
  <2>6. StoredIsResolved'
    BY <1>1, <1>4, <2>5 DEF StoredIsResolved
  <2> QED
    BY <2>2, <2>4, <2>6 DEF PoolInv
<1>5. ASSUME NEW c \in Callers, Refuse(c) PROVE PoolInv'
  <2>1. PICK ok \in BOOLEAN : P!Drained(c, ok)
    BY <1>5 DEF Refuse
  <2>2. /\ pc[c] = "resolve" /\ resolved' = resolved /\ pc'[c] = "idle"
        /\ \A x \in Callers \ {c} : pc'[x] = pc[x] /\ job'[x] = job[x]
    BY <1>1, <1>5 DEF Refuse, Return
  <2> QED
    BY <1>4, <2>1, <2>2
<1>6. ASSUME NEW c \in Callers, Verified(c) PROVE PoolInv'
  <2>1. /\ pc[c] = "resolve" /\ resolved' = resolved /\ P!Drained(c, TRUE) /\ pc'[c] = "put"
        /\ job' = job /\ \A x \in Callers \ {c} : pc'[x] = pc[x]
    BY <1>1, <1>6 DEF Verified
  <2> QED
    BY <1>4, <2>1
<1>7. ASSUME worker' = worker, resolved' = resolved,
             \A x \in Callers :
               /\ pc'[x] = "resolve" => pc[x] = "resolve" /\ job'[x] = job[x]
               /\ pc'[x] \notin {"idle", "resolve"} =>
                    pc[x] \notin {"idle", "resolve"} /\ job'[x].chain = job[x].chain
      PROVE  PoolInv'
  <2>1. Pooled'
    BY <1>1, <1>7 DEF Pooled
  <2>2. StoredIsResolved'
    BY <1>1, <1>7 DEF StoredIsResolved
  <2> QED
    BY <1>1, <1>7, <2>1, <2>2 DEF PoolInv
<1>8. ASSUME NEW c \in Callers, Store(c) PROVE PoolInv'
  BY <1>7, <1>8, SameChain DEF Store
<1>9. CASE (StoreTick /\ UNCHANGED <<worker, resolved>>) \/ UNCHANGED vars
  <2>1. UNCHANGED <<worker, resolved, pc, job>>
    BY <1>9 DEF StoreTick, vars, storeVars
  <2> QED
    BY <1>7, <2>1
<1>10. CASE Restart
  <2>1. /\ pc' = [c \in Callers |-> "idle"] /\ worker' = P!NoWorkers
        /\ resolved' = [c \in Callers |-> {}]
    BY <1>10 DEF Restart, StoreRestart
  <2>2. \A c \in Callers : pc'[c] = "idle"
    BY <2>1
  <2>3. Pooled' /\ StoredIsResolved'
    BY <2>2 DEF Pooled, StoredIsResolved
  <2>4. worker' \in [Callers -> [DIDs -> P!Stages]]
    BY <2>1 DEF P!NoWorkers, P!Stages
  <2> QED
    BY <2>1, <2>3, <2>4 DEF PoolInv
<1> QED
  BY <1>2, <1>3, <1>5, <1>6, <1>8, <1>9, <1>10 DEF Next, Step

LEMMA PoolHolds == Spec => []PoolInv
<1>1. Init => PoolInv
  BY DEF Init, StoreInit, P!PoolInit, P!NoWorkers, P!Stages, PoolInv, Pooled, StoredIsResolved
<1> QED
  BY <1>1, PoolKept, TypesHold, PTL DEF Spec

\* No failed resolution gets past the drain: what is stored was verified with a
\* key for every issuer that this very call resolved, for any number of issuers,
\* slots and concurrent calls.
THEOREM ResolvedBeforeStore == Spec => []StoredIsResolved
<1>1. PoolInv => StoredIsResolved
  BY DEF PoolInv
<1> QED
  BY <1>1, PoolHolds, PTL

\* The goroutines of a call never block each other for good: with a buffer for
\* every result and at least one slot, one of them can go on until all are done.
THEOREM NeverStuck == Spec => []PoolNeverStuck
<1>1. PoolInv => PoolNeverStuck
  <2> SUFFICES ASSUME PoolInv, NEW c \in Callers PROVE P!CanMove(c)
    BY DEF PoolNeverStuck
  <2>0. ASSUME NEW S PROVE P!Cardinality(S) = Cardinality(S)
    BY Zenon DEF P!Cardinality, Cardinality
  <2>1. BlockCConcurrency \in Nat \ {0} /\ IsFiniteSet(DIDs)
    BY PoolAssumption
  <2>2. CASE P!In(c, {"resolving"}) # {}
    <3> DEFINE sent == P!In(c, {"key", "error"})
               all == P!In(c, P!Stages \ {"none"})
    <3>1. PICK d \in DIDs : worker[c][d] = "resolving"
      BY <2>2 DEF P!In
    <3>2. sent \subseteq all /\ sent # all /\ all \subseteq DIDs
      <4>1. d \in all /\ d \notin sent
        BY <3>1 DEF P!In, P!Stages
      <4> QED
        BY <4>1 DEF P!In, P!Stages
    <3> HIDE DEF sent, all
    <3>3. IsFiniteSet(all)
      BY <2>1, <3>2, FS_Subset
    <3>4. Cardinality(sent) < Cardinality(all)
      <4>1. IsFiniteSet(sent) /\ Cardinality(sent) <= Cardinality(all)
            /\ (Cardinality(sent) = Cardinality(all) => sent = all)
        BY <3>2, <3>3, FS_Subset
      <4>2. Cardinality(sent) \in Nat /\ Cardinality(all) \in Nat
        BY <3>3, <4>1, FS_CardinalityType
      <4> QED
        BY <3>2, <4>1, <4>2
    <3> QED
      BY <2>0, <2>2, <3>4 DEF P!CanMove, P!RoomForResult, P!Buffer, sent, all
  <2>3. CASE P!In(c, {"resolving"}) = {} /\ P!In(c, {"queued"}) # {}
    <3>1. Cardinality(P!In(c, {"resolving"})) = 0
      BY <2>3, FS_EmptySet
    <3>2. 0 < BlockCConcurrency
      BY <2>1
    <3>3. P!SlotFree(c)
      BY <2>0, <3>1, <3>2 DEF P!SlotFree
    <3> QED
      BY <2>3, <3>3 DEF P!CanMove
  <2>4. CASE P!In(c, {"resolving"}) = {} /\ P!In(c, {"queued"}) = {}
    <3>1. P!In(c, {"queued", "resolving"}) = {}
      BY <2>4 DEF P!In
    <3>2. P!Joined(c)
      BY <3>1 DEF P!Joined
    <3> QED
      BY <3>2 DEF P!CanMove
  <2> QED
    BY <2>2, <2>3, <2>4
<1> QED
  BY <1>1, PoolHolds, PTL

-----------------------------------------------------------------------------
(* The tokens of a call that overlaps with no other *)

\* What the authority grants verifies: whole, for this receipt, at its own time.
LEMMA GrantedVerifies ==
  ASSUME TSARootPool # NoPool, NEW d \in Receipts, NEW t \in 0..MaxTime, NEW s \in Nat \ {0},
         NEW blocks, blocks = TokenBlocks([of |-> d, time |-> t, size |-> s, granted |-> TRUE])
  PROVE  /\ blocks # << >> /\ blocks[1].time = t
         /\ VerifyTimestampTrusted(ParsedToken(blocks), d, TSARootPool)
<1> DEFINE tst == TST(d, t)
           attrs == AttrsOf(tst)
           signature == SignatureOf(StampOf(d, t))
           si == [version |-> 1, issuer |-> TSACert.issuer, serial |-> TSACert.serial,
                  digestAlgorithm |-> "sha256", signatureAlgorithm |-> <<"rsa", "sha256">>,
                  attrs |-> attrs, signature |-> signature]
           tok == ParsedToken(blocks)
<1>1. /\ blocks = [n \in 1..s |-> [of |-> d, time |-> t, size |-> s, granted |-> TRUE, n |-> n]]
      /\ s \in Nat
  BY DEF TokenBlocks
<1>2. /\ blocks[1] = [of |-> d, time |-> t, size |-> s, granted |-> TRUE, n |-> 1]
      /\ blocks # << >> /\ Len(blocks) = s /\ DOMAIN blocks = 1..s
  <2>1. DOMAIN blocks = 1..s /\ 1 \in 1..s
    BY <1>1
  <2>2. \A n \in 1..s : [of |-> d, time |-> t, size |-> s, granted |-> TRUE, n |-> n] \in Block
    BY <1>1 DEF Block
  <2>3. blocks \in Seq(Block)
    <3>1. [n \in 1..s |-> [of |-> d, time |-> t, size |-> s, granted |-> TRUE, n |-> n]] \in Seq(Block)
      BY <1>1, <2>2
    <3> QED
      BY <1>1, <3>1
  <2>4. DOMAIN blocks = 1..Len(blocks) /\ Len(blocks) \in Nat
    BY <2>3
  <2>5. Len(blocks) = s
    BY <1>1, <2>1, <2>4
  <2>6. blocks # << >>
    BY <2>1, <2>3, <2>5
  <2>7. blocks[1] = [of |-> d, time |-> t, size |-> s, granted |-> TRUE, n |-> 1]
    BY <1>1, <2>1
  <2> QED
    BY <2>1, <2>5, <2>6, <2>7
<1>3. Whole(blocks)
  <2> DEFINE b == [of |-> d, time |-> t, size |-> s, granted |-> TRUE, n |-> 1]
  <2>1. \A n \in DOMAIN blocks : blocks[n] = [b EXCEPT !.n = n]
    <3> SUFFICES ASSUME NEW n \in DOMAIN blocks PROVE blocks[n] = [b EXCEPT !.n = n]
      OBVIOUS
    <3>1. blocks[n] = [of |-> d, time |-> t, size |-> s, granted |-> TRUE, n |-> n]
      BY <1>1, <1>2
    <3>2. [b EXCEPT !.n = n] = [of |-> d, time |-> t, size |-> s, granted |-> TRUE, n |-> n]
      <4> DEFINE e == [b EXCEPT !.n = n]
                 r == [of |-> d, time |-> t, size |-> s, granted |-> TRUE, n |-> n]
      <4>1. b \in Block /\ n \in Nat /\ b.of = d /\ b.time = t /\ b.size = s /\ b.granted = TRUE
        BY <1>1, <1>2 DEF Block
      <4> HIDE DEF b
      <4>2. /\ e \in Block /\ e.of = d /\ e.time = t /\ e.size = s /\ e.granted = TRUE /\ e.n = n
        BY <4>1 DEF Block
      <4>3. /\ r \in Block /\ r.of = d /\ r.time = t /\ r.size = s /\ r.granted = TRUE /\ r.n = n
        BY <4>1 DEF Block
      <4> HIDE DEF e, r
      <4>4. e = r
        BY <4>2, <4>3 DEF Block
      <4> QED
        BY <4>4 DEF e, r
    <3> QED
      BY <3>1, <3>2
  <2>2. blocks[1] = b /\ b.size = s
    BY <1>2
  <2> HIDE DEF b
  <2> QED
    BY <1>2, <2>1, <2>2 DEF Whole
<1>4. /\ tst # Garbled /\ attrs \notin {Garbled, NoAttrs}
      /\ TSACert # Garbled /\ hasTimestampingEKU(TSACert)
      /\ ChainVerifies(TSACert, {}, TSARootPool, t)
  BY AuthorityAssumption, SentinelAssumption
<1>5. /\ tok.response = "whole" /\ tok.status = Granted /\ tok.contentType = "signedData"
      /\ tok.eContentType = "TSTInfo" /\ tok.tst = tst /\ tok.certs = <<TSACert>>
      /\ tok.signerInfos = <<si>>
  <2>1. StampOf(d, t).form = "attributes" /\ StampOf(d, t).tst = tst /\ StampOf(d, t).cert = TSACert
    BY DEF StampOf
  <2> DEFINE r == Reply(StampOf(d, t), <<TSACert>>, 1)
  <2>2. tok = [r EXCEPT !.response = "whole", !.status = Granted]
    <3> DEFINE b == blocks[1]
    <3>1. b.of = d /\ b.time = t /\ b.granted
      BY <1>2
    <3> HIDE DEF b
    <3>2. ParsedToken(blocks)
            = [Reply(StampOf(b.of, b.time), <<TSACert>>, 1) EXCEPT
                 !.response = "whole", !.status = Granted]
      BY <1>3, <3>1 DEF ParsedToken, b
    <3> QED
      BY <3>1, <3>2
  <2>3. r = [response |-> "whole", status |-> Granted, contentType |-> "signedData",
             eContentType |-> "TSTInfo", tst |-> tst, certs |-> <<TSACert>>, signerInfos |-> <<si>>]
    BY <2>1 DEF Reply
  <2> HIDE DEF r, tok, si, tst
  <2> QED
    BY <2>2, <2>3
<1> HIDE DEF tok
<1>6. /\ OfType(attrs, "contentType") = {1} /\ attrs[1].value = <<"oid", "TSTInfo">>
      /\ OfType(attrs, "messageDigest") = {2} /\ attrs[2].value = <<"sha256", tst>>
  <2> HIDE DEF tst
  <2>1. /\ DOMAIN attrs = {1, 2} /\ attrs[1].type = "contentType" /\ attrs[2].type = "messageDigest"
        /\ attrs[1].value = <<"oid", "TSTInfo">> /\ attrs[2].value = <<"sha256", tst>>
    BY DEF AttrsOf
  <2> HIDE DEF attrs
  <2> QED
    BY <2>1 DEF OfType
<1>7. signature.key = TSACert.key /\ signature.content = <<"attrs", attrs>>
  <2> HIDE DEF tst
  <2> QED
    BY DEF SignatureOf, ContentOf, StampOf, tst
<1> HIDE DEF attrs, signature
<1>8. verifySignerInfoSignature(si, tst, TSACert)
  <2>1. /\ si.attrs = attrs /\ si.digestAlgorithm = "sha256" /\ si.signature = signature
        /\ si.signatureAlgorithm = <<"rsa", "sha256">>
    OBVIOUS
  <2> HIDE DEF si, tst
  <2>2. verifySignedAttrsBinding(si, tst)
    BY <1>4, <1>6, <2>1 DEF verifySignedAttrsBinding, checkContentTypeAttr, checkMessageDigestAttr, Digests
  <2>3. si.signatureAlgorithm \in SignatureAlgorithms
    BY <2>1 DEF SignatureAlgorithms, Digests
  <2>4. CheckSignature(TSACert, SignedContent(si, tst), si.signature)
    BY <1>4, <1>7, <2>1 DEF CheckSignature, SignedContent
  <2> QED
    BY <2>2, <2>3, <2>4 DEF verifySignerInfoSignature
<1>9. /\ Parseable(<<TSACert>>) = {1} /\ extractSignerCert(<<TSACert>>, si) = TSACert
      /\ extractIntermediateCerts(<<TSACert>>, TSACert) = {}
  <2>1. Parseable(<<TSACert>>) = {1}
    BY <1>4 DEF Parseable
  <2>2. MatchesSID(TSACert, si)
    BY DEF MatchesSID
  <2>3. Matching(<<TSACert>>, si) = {1}
    <3> HIDE DEF si
    <3> QED
      BY <2>1, <2>2 DEF Matching
  <2>4. First({1}) = 1
    BY DEF First
  <2>5. extractIntermediateCerts(<<TSACert>>, TSACert) = {}
    BY <2>1 DEF extractIntermediateCerts
  <2> HIDE DEF si
  <2> QED
    BY <2>1, <2>3, <2>4, <2>5 DEF extractSignerCert
<1>10. tst.algorithm = "sha256" /\ tst.hash = d /\ tst.genTime = t
  BY DEF TST
<1> HIDE DEF si, tst
<1>11. tok.signerInfos # << >> /\ tok.signerInfos[1] = si
  BY <1>5
<1>12. VerifyTimestamp(tok, d)
  BY <1>4, <1>5, <1>8, <1>9, <1>10, <1>11 DEF VerifyTimestamp, ImprintMatches
<1>13. VerifyTimestampTrusted(tok, d, TSARootPool)
  BY <1>4, <1>5, <1>9, <1>10, <1>11, <1>12 DEF VerifyTimestampTrusted
<1>14. blocks[1].time = t
  BY <1>2
<1> QED
  BY <1>2, <1>13, <1>14 DEF tok

\* The file of receipt d's token, as a call that began at that time left it.
Holds(f, d, time, since) ==
  /\ <<d, "tst">> \in DOMAIN f /\ f[<<d, "tst">>].mtime >= since
  /\ \E s \in Nat \ {0} :
       f[<<d, "tst">>].data = TokenBlocks([of |-> d, time |-> time, size |-> s, granted |-> TRUE])

PutStages == {"put", "write", "tsa"}

\* The tokens a call was granted are those of receipts it is past ...
Anchors(c) ==
  \A a \in DOMAIN anchored[c] : \E m \in DOMAIN job[c].chain :
    anchored[c][a].of = job[c].chain[m] /\ (pc[c] \in PutStages => m < job[c].at)

\* ... and are in their files, ...
Stored(c) ==
  \A a \in DOMAIN anchored[c] : Holds(files, anchored[c][a].of, anchored[c][a].time, job[c].began)

\* ... the file it writes to is there and empty, ...
Opened(c) ==
  pc[c] = "write" => job[c].linked /\ Path(c) \in DOMAIN files /\ files[Path(c)].data = << >>

\* ... what it removes is none of its own tokens, ...
NotOwn(c) ==
  pc[c] = "remove" => \A a \in DOMAIN anchored[c] : anchored[c][a].of # Receipt(c)

\* ... and what it has reported of them is right.
Reported(c) ==
  \A i \in DOMAIN report[c] : \A a \in DOMAIN anchored[c] :
    anchored[c][a].of = report[c][i].of =>
      report[c][i].valid /\ report[c][i].time = anchored[c][a].time

OwnTokens(c) == Anchors(c) /\ Stored(c) /\ Opened(c) /\ NotOwn(c) /\ Reported(c)

\* Nothing is reported before the second loop, nor anchored before the first.
Fresh ==
  \A c \in Callers :
    /\ pc[c] \in {"idle", "resolve"} => report[c] = << >> /\ anchored[c] = << >>
    /\ pc[c] \in PutStages => report[c] = << >>

Alone(c) == pc[c] # "idle" /\ \A d \in Callers \ {c} : pc[d] = "idle"

SoloInv ==
  /\ Fresh
  /\ \A c \in Callers : solo[c] =>
       Alone(c) /\ (tier = 3 /\ TSARootPool # NoPool => OwnTokens(c))

\* What a step of the first loop leaves alone.
LEMMA PutStep ==
  ASSUME Types, NEW c \in Callers,
         \/ PutMemory(c) \/ OpenFile(c) \/ WriteFile(c) \/ PutFails(c)
         \/ TSAReplies(c) \/ TSAFails(c)
  PROVE  /\ UNCHANGED <<report, solo, tier, now>>
         /\ pc[c] \in PutStages /\ pc'[c] \in PutStages \cup {"stat", "done"}
         /\ \A d \in Callers \ {c} : pc'[d] = pc[d] /\ anchored'[d] = anchored[d]
         /\ job'[c].chain = job[c].chain /\ job'[c].began = job[c].began
         /\ pc'[c] \in PutStages => job'[c].at \in {job[c].at, job[c].at + 1}
<1>1. /\ pc \in [Callers -> PcStages] /\ DOMAIN job = Callers /\ anchored \in [Callers -> Seq(Anchor)]
  BY DEF Types, CallTypes
<1>2. /\ UNCHANGED <<report, solo, tier, now>> /\ pc[c] \in PutStages
      /\ \A d \in Callers \ {c} : anchored'[d] = anchored[d]
  BY <1>1 DEF PutMemory, OpenFile, WriteFile, PutFails, TSAReplies, TSAFails, fileVars, PutStages
<1>3. Placed(pc[c], job[c]) /\ job[c] \in Job
  BY <1>2 DEF Types, Calling, Placed, PutStages
<1>4. CASE Advance(c, "put")
  <2>1. /\ NextPc(c, "put") \in {"put", "stat", "done"}
        /\ NextJob(c, "put").chain = job[c].chain /\ NextJob(c, "put").began = job[c].began
        /\ NextPc(c, "put") = "put" => NextJob(c, "put").at = job[c].at + 1
    BY <1>3, AdvanceJob
  <2>2. /\ pc'[c] = NextPc(c, "put") /\ job'[c] = NextJob(c, "put")
        /\ \A d \in Callers \ {c} : pc'[d] = pc[d]
    BY <1>1, <1>4 DEF Advance
  <2> QED
    BY <1>2, <2>1, <2>2 DEF PutStages
<1>5. CASE OpenFile(c)
  <2>1. /\ pc' = [pc EXCEPT ![c] = "write"] /\ job' = [job EXCEPT ![c].linked = TRUE]
    BY <1>5 DEF OpenFile
  <2>2. pc'[c] = "write" /\ \A d \in Callers \ {c} : pc'[d] = pc[d]
    BY <1>1, <2>1
  <2>3. PICK j \in Job : j = job[c]
    BY <1>3
  <2>4. job'[c] = [j EXCEPT !.linked = TRUE]
    BY <1>1, <2>1, <2>3
  <2>5. job'[c].chain = j.chain /\ job'[c].began = j.began /\ job'[c].at = j.at
    BY <2>4 DEF Job
  <2> QED
    BY <1>2, <2>2, <2>3, <2>5 DEF PutStages
<1>6. CASE TSAReplies(c)
  <2>1. /\ pc' = [pc EXCEPT ![c] = "put"]
    BY <1>6 DEF TSAReplies
  <2>2. PICK a \in Answers :
            job' = [job EXCEPT ![c].ext = "tst",
                               ![c].token = [of |-> Receipt(c), time |-> now, size |-> a.size,
                                             granted |-> a.granted]]
    BY <1>6 DEF TSAReplies
  <2>3. PICK tok : tok = [of |-> Receipt(c), time |-> now, size |-> a.size, granted |-> a.granted]
    OBVIOUS
  <2>4. PICK j \in Job : j = job[c]
    BY <1>3
  <2>5. job'[c] = [j EXCEPT !.ext = "tst", !.token = tok]
    BY <1>1, <2>2, <2>3, <2>4
  <2>6. job'[c].chain = j.chain /\ job'[c].began = j.began /\ job'[c].at = j.at
    BY <2>5 DEF Job
  <2>7. pc'[c] = "put" /\ \A d \in Callers \ {c} : pc'[d] = pc[d]
    BY <1>1, <2>1
  <2> QED
    BY <1>2, <2>4, <2>6, <2>7 DEF PutStages
<1>7. CASE WriteFile(c) /\ ~Advance(c, "put")
  <2>1. pc' = [pc EXCEPT ![c] = "tsa"] /\ job' = job
    BY <1>7 DEF WriteFile
  <2>2. pc'[c] = "tsa" /\ \A d \in Callers \ {c} : pc'[d] = pc[d]
    BY <1>1, <2>1
  <2> QED
    BY <1>2, <2>1, <2>2 DEF PutStages
<1> QED
  BY <1>4, <1>5, <1>6, <1>7 DEF PutMemory, PutFails, TSAFails

\* What a step of the second loop leaves alone.
LEMMA GetStep ==
  ASSUME Types, NEW c \in Callers, StatFile(c) \/ RemoveFile(c) \/ ReadFile(c)
  PROVE  /\ UNCHANGED <<anchored, solo, tier, now>>
         /\ pc[c] \in {"stat", "remove", "read"} /\ pc'[c] \in {"stat", "remove", "read", "done"}
         /\ \A d \in Callers \ {c} : pc'[d] = pc[d] /\ report'[d] = report[d]
         /\ job'[c].chain = job[c].chain /\ job'[c].began = job[c].began
<1>1. /\ pc \in [Callers -> PcStages] /\ DOMAIN job = Callers /\ report \in [Callers -> Seq(Result)]
  BY DEF Types, CallTypes
<1>2. UNCHANGED <<anchored, solo, tier, now>> /\ pc[c] \in {"stat", "remove", "read"}
  BY DEF StatFile, RemoveFile, ReadFile, fileVars
<1>3. Placed(pc[c], job[c])
  BY <1>2 DEF Types, Calling
<1>4. /\ NextPc(c, "stat") \in {"stat", "done"}
      /\ NextJob(c, "stat").chain = job[c].chain /\ NextJob(c, "stat").began = job[c].began
  BY <1>3, AdvanceJob
<1>5. ASSUME NEW r, Report(c, r)
      PROVE  /\ pc'[c] = NextPc(c, "stat") /\ job'[c] = NextJob(c, "stat")
             /\ \A d \in Callers \ {c} : pc'[d] = pc[d] /\ report'[d] = report[d]
  BY <1>1, <1>5 DEF Report, Advance
<1>6. CASE StatFile(c)
  <2>1. CASE tier = 0 \/ Path(c) \notin DOMAIN files
    BY <1>2, <1>4, <1>5, <1>6, <2>1 DEF StatFile
  <2>2. CASE ~(tier = 0 \/ Path(c) \notin DOMAIN files)
    <3>1. PICK s \in {"remove", "read"} : pc' = [pc EXCEPT ![c] = s]
      BY <1>6, <2>2 DEF StatFile
    <3>2. job' = job /\ report' = report
      BY <1>6, <2>2 DEF StatFile
    <3>3. pc'[c] = s /\ \A d \in Callers \ {c} : pc'[d] = pc[d]
      BY <1>1, <3>1
    <3> QED
      BY <1>2, <3>2, <3>3
  <2> QED
    BY <2>1, <2>2
<1>7. CASE ReadFile(c)
  <2>1. PICK r : Report(c, r)
    BY <1>7 DEF ReadFile
  <2> QED
    BY <1>2, <1>4, <1>5, <2>1
<1>8. CASE RemoveFile(c)
  <2>1. /\ pc' = [pc EXCEPT ![c] = NextPc(c, "stat")]
        /\ report' = [report EXCEPT ![c] = Append(@, NoToken(c))]
        /\ job'[c] = NextJob(c, "stat")
    BY <1>8 DEF RemoveFile
  <2> QED
    BY <1>1, <1>2, <1>4, <2>1
<1> QED
  BY <1>6, <1>7, <1>8

LEMMA ElsewhereHolds ==
  ASSUME NEW f, NEW g, NEW p, NEW d, NEW time, NEW since, Holds(f, d, time, since), p # <<d, "tst">>,
         \A q \in DOMAIN f : q # p => q \in DOMAIN g /\ g[q] = f[q]
  PROVE  Holds(g, d, time, since)
BY DEF Holds

\* A call is past the receipts whose tokens it has: it does not write their files again.
LEMMA PastAnchors ==
  ASSUME Types, NEW c \in Callers, Anchors(c), pc[c] \in PutStages,
         NEW a \in DOMAIN anchored[c]
  PROVE  anchored[c][a].of # Receipt(c) /\ Path(c) # <<anchored[c][a].of, "tst">>
<1>1. Placed(pc[c], job[c])
  BY DEF Types, Calling, PutStages
<1>2. PICK m \in DOMAIN job[c].chain : anchored[c][a].of = job[c].chain[m] /\ m < job[c].at
  BY DEF Anchors
<1>3. /\ job[c].at \in 1..Len(job[c].chain) /\ job[c].chain \in Seq(Receipts)
      /\ \A k, n \in DOMAIN job[c].chain : job[c].chain[k] = job[c].chain[n] => k = n
  BY <1>1 DEF Placed, Job
<1>4. job[c].at \in DOMAIN job[c].chain /\ m # job[c].at
  BY <1>2, <1>3
<1>5. anchored[c][a].of # Receipt(c)
  BY <1>2, <1>3, <1>4 DEF Receipt
<1> QED
  BY <1>5 DEF Path

LEMMA PutKeepsTokens ==
  ASSUME Types, NEW c \in Callers, OwnTokens(c), report[c] = << >>, tier = 3,
         \/ PutMemory(c) \/ OpenFile(c) \/ WriteFile(c) \/ PutFails(c)
         \/ TSAReplies(c) \/ TSAFails(c)
  PROVE  OwnTokens(c)'
<1>1. /\ UNCHANGED <<report, solo, tier, now>>
      /\ pc[c] \in PutStages /\ pc'[c] \in PutStages \cup {"stat", "done"}
      /\ job'[c].chain = job[c].chain /\ job'[c].began = job[c].began
      /\ pc'[c] \in PutStages => job'[c].at \in {job[c].at, job[c].at + 1}
  BY PutStep
<1>2. /\ pc \in [Callers -> PcStages] /\ DOMAIN job = Callers /\ now \in Nat
      /\ anchored \in [Callers -> Seq(Anchor)] /\ files \in [DOMAIN files -> File]
  BY StoreAssumption DEF Types, CallTypes, FileTypes
<1>3. Placed(pc[c], job[c]) /\ job[c] \in Job /\ job[c].began <= now
  BY <1>1 DEF Types, Calling, Placed, PutStages
<1>4. Path(c) = <<Receipt(c), job[c].ext>> /\ Receipt(c) \in Receipts
  BY <1>3, PathOf
<1>5. NotOwn(c)' /\ Reported(c)'
  BY <1>1 DEF NotOwn, Reported, PutStages
<1>6. ASSUME anchored'[c] = anchored[c] PROVE Anchors(c)'
  <2> SUFFICES ASSUME NEW a \in DOMAIN anchored[c]
               PROVE  \E m \in DOMAIN job[c].chain :
                        anchored[c][a].of = job[c].chain[m] /\ (pc'[c] \in PutStages => m < job'[c].at)
    BY <1>1, <1>6 DEF Anchors
  <2>1. PICK m \in DOMAIN job[c].chain : anchored[c][a].of = job[c].chain[m] /\ m < job[c].at
    BY <1>1 DEF OwnTokens, Anchors
  <2>2. m \in Nat /\ job[c].at \in Nat
    BY <1>3 DEF Job
  <2>3. m < job[c].at + 1
    BY <2>1, <2>2
  <2> QED
    BY <1>1, <2>1, <2>3
<1>7. CASE UNCHANGED <<files, anchored>> /\ pc'[c] # "write"
  <2>1. Stored(c)'
    BY <1>1, <1>7 DEF OwnTokens, Stored
  <2>2. Opened(c)'
    BY <1>7 DEF Opened
  <2> QED
    BY <1>5, <1>6, <1>7, <2>1, <2>2 DEF OwnTokens
<1>8. CASE OpenFile(c)
  <2>1. /\ files' = [p \in DOMAIN files \cup {Path(c)} |->
                       IF p = Path(c) THEN [data |-> << >>, mtime |-> Mtime(c)] ELSE files[p]]
        /\ anchored' = anchored /\ job' = [job EXCEPT ![c].linked = TRUE]
    BY <1>8 DEF OpenFile
  <2>2. /\ \A q \in DOMAIN files : q # Path(c) => q \in DOMAIN files' /\ files'[q] = files[q]
        /\ Path(c) \in DOMAIN files' /\ files'[Path(c)].data = << >>
    BY <2>1
  <2>3. Stored(c)'
    <3> SUFFICES ASSUME NEW a \in DOMAIN anchored[c]
                 PROVE  Holds(files', anchored[c][a].of, anchored[c][a].time, job[c].began)
      BY <1>1, <2>1 DEF Stored
    <3>1. Holds(files, anchored[c][a].of, anchored[c][a].time, job[c].began)
      BY DEF OwnTokens, Stored
    <3>2. Path(c) # <<anchored[c][a].of, "tst">>
      BY <1>1, PastAnchors DEF OwnTokens
    <3> QED
      BY <2>2, <3>1, <3>2, ElsewhereHolds
  <2>4. Opened(c)'
    <3>1. PICK j \in Job : j = job[c]
      BY <1>3
    <3>2. job'[c] = [j EXCEPT !.linked = TRUE]
      BY <1>2, <2>1, <3>1
    <3>3. job'[c].linked /\ job'[c].chain = j.chain /\ job'[c].at = j.at /\ job'[c].ext = j.ext
      BY <3>2 DEF Job
    <3>4. Path(c)' = Path(c)
      BY <3>1, <3>3 DEF Path, Receipt
    <3> QED
      BY <2>2, <3>3, <3>4 DEF Opened
  <2>5. anchored'[c] = anchored[c]
    BY <2>1
  <2> QED
    BY <1>5, <1>6, <2>3, <2>4, <2>5 DEF OwnTokens
<1>9. CASE WriteFile(c)
  <2>1. /\ pc[c] = "write" /\ job[c].linked /\ Path(c) \in DOMAIN files
        /\ files[Path(c)].data = << >>
    BY <1>9 DEF WriteFile, OwnTokens, Opened
  <2>2. Data(c) \in Seq(Block)
    BY <1>3, <2>1, DataOf, StoreAssumption
  <2>3. Overwrite(<< >>, Data(c)) = Data(c)
    <3>1. << >> \in Seq(Block) /\ Len(Data(c)) \in Nat /\ Len(<< >>) = 0
      BY <2>2
    <3>2. Len(<< >>) <= Len(Data(c))
      BY <3>1
    <3> QED
      BY <2>2, <3>1, <3>2, Overwritten
  <2>4. files' = [files EXCEPT ![Path(c)] = [data |-> Overwrite(files[Path(c)].data, Data(c)), mtime |-> Mtime(c)]]
    BY <1>9, <2>1 DEF WriteFile
  <2>5. /\ \A q \in DOMAIN files : q # Path(c) => q \in DOMAIN files' /\ files'[q] = files[q]
        /\ Path(c) \in DOMAIN files'
        /\ files'[Path(c)] = [data |-> Data(c), mtime |-> Mtime(c)]
    BY <2>1, <2>3, <2>4
  <2>6. ASSUME NEW a \in DOMAIN anchored[c]
        PROVE  Holds(files', anchored[c][a].of, anchored[c][a].time, job[c].began)
    <3>1. Holds(files, anchored[c][a].of, anchored[c][a].time, job[c].began)
      BY DEF OwnTokens, Stored
    <3>2. Path(c) # <<anchored[c][a].of, "tst">>
      BY <1>1, PastAnchors DEF OwnTokens
    <3> QED
      BY <2>5, <3>1, <3>2, ElsewhereHolds
  <2>7. pc'[c] # "write"
    <3>1. NextPc(c, "put") # "write"
      BY <1>3, AdvanceJob
    <3>2. CASE job[c].ext = "jwt" /\ tier = 3
      BY <1>2, <1>9, <3>2 DEF WriteFile
    <3>3. CASE ~(job[c].ext = "jwt" /\ tier = 3)
      BY <1>2, <1>9, <3>1, <3>3 DEF WriteFile, Advance
    <3> QED
      BY <3>2, <3>3
  <2>8. Opened(c)'
    BY <2>7 DEF Opened
  <2>9. CASE ~(job[c].ext = "tst" /\ job[c].token.granted)
    <3>1. anchored' = anchored
      BY <1>9, <2>9 DEF WriteFile
    <3>2. Stored(c)'
      BY <1>1, <2>6, <3>1 DEF Stored
    <3> QED
      BY <1>5, <1>6, <2>8, <3>1, <3>2 DEF OwnTokens
  <2>10. CASE job[c].ext = "tst" /\ job[c].token.granted
    <3> DEFINE new == [of |-> Receipt(c), time |-> job[c].token.time]
    <3>1. anchored'[c] = Append(anchored[c], new)
      BY <1>2, <1>9, <2>10 DEF WriteFile
    <3>2. PICK tok \in Token : tok = job[c].token /\ tok.of = Receipt(c)
      BY <1>3, <2>1, <2>10 DEF Placed, Receipt
    <3>3. new.of = Receipt(c) /\ new.time = tok.time /\ new \in Anchor
      BY <3>2 DEF Token, Anchor
    <3> HIDE DEF new
    <3>4. /\ DOMAIN anchored'[c] = DOMAIN anchored[c] \cup {Len(anchored[c]) + 1}
          /\ anchored'[c][Len(anchored[c]) + 1] = new
          /\ \A a \in DOMAIN anchored[c] : anchored'[c][a] = anchored[c][a]
      BY <1>2, <3>1, <3>3
    <3>5. Holds(files', new.of, new.time, job[c].began)
      <4>1. tok = [of |-> Receipt(c), time |-> tok.time, size |-> tok.size, granted |-> TRUE]
        BY <2>10, <3>2 DEF Token
      <4>2. Data(c) = TokenBlocks(tok)
        BY <2>10, <3>2 DEF Data
      <4>3. tok.size \in Nat \ {0} /\ Mtime(c) = now
        BY <2>10 DEF Token, Mtime
      <4>4. Path(c) = <<new.of, "tst">>
        BY <1>4, <2>10, <3>3
      <4>5. job[c].began \in Nat
        BY <1>3, StoreAssumption DEF Job
      <4>6. /\ files'[Path(c)].mtime = now
            /\ files'[Path(c)].data
                 = TokenBlocks([of |-> new.of, time |-> new.time, size |-> tok.size, granted |-> TRUE])
        <5>1. files'[Path(c)].mtime = now /\ files'[Path(c)].data = TokenBlocks(tok)
          BY <2>5, <4>2, <4>3
        <5>2. tok = [of |-> new.of, time |-> new.time, size |-> tok.size, granted |-> TRUE]
          BY <3>3, <4>1
        <5> QED
          BY <5>1, <5>2
      <4> QED
        BY <1>2, <1>3, <2>5, <4>3, <4>4, <4>5, <4>6 DEF Holds
    <3>6. Stored(c)'
      <4>1. ASSUME NEW a \in DOMAIN anchored'[c]
            PROVE  Holds(files', anchored'[c][a].of, anchored'[c][a].time, job'[c].began)
        BY <1>1, <2>6, <3>4, <3>5
      <4> QED
        BY <4>1 DEF Stored
    <3>7. Anchors(c)'
      <4>1. /\ job[c].chain \in Seq(Receipts) /\ job[c].at \in 1..Len(job[c].chain)
        BY <1>3 DEF Placed, Job
      <4>2. job[c].at \in DOMAIN job[c].chain /\ job[c].at \in Nat
        BY <4>1
      <4>3. pc'[c] \in PutStages => job'[c].at = job[c].at + 1
        <5>1. Advance(c, "put")
          BY <1>9, <2>10 DEF WriteFile
        <5>2. pc'[c] = NextPc(c, "put") /\ job'[c] = NextJob(c, "put")
          BY <1>2, <5>1 DEF Advance
        <5> QED
          BY <1>3, <5>2, AdvanceJob DEF PutStages
      <4>4. ASSUME NEW a \in DOMAIN anchored'[c]
            PROVE  \E m \in DOMAIN job'[c].chain :
                     anchored'[c][a].of = job'[c].chain[m] /\ (pc'[c] \in PutStages => m < job'[c].at)
        <5>1. CASE a \in DOMAIN anchored[c]
          <6>1. PICK m \in DOMAIN job[c].chain : anchored[c][a].of = job[c].chain[m] /\ m < job[c].at
            BY <1>1, <5>1 DEF OwnTokens, Anchors
          <6>2. m \in Nat
            BY <4>1
          <6>3. m < job[c].at + 1
            BY <4>2, <6>1, <6>2
          <6> QED
            BY <1>1, <3>4, <4>3, <5>1, <6>1, <6>3
        <5>2. CASE a = Len(anchored[c]) + 1
          <6>1. anchored'[c][a].of = job[c].chain[job[c].at]
            BY <3>3, <3>4, <5>2 DEF Receipt
          <6>2. job[c].at < job[c].at + 1
            BY <4>2
          <6> QED
            BY <1>1, <4>2, <4>3, <6>1, <6>2
        <5> QED
          BY <3>4, <5>1, <5>2
      <4> QED
        BY <4>4 DEF Anchors
    <3> QED
      BY <1>5, <2>8, <3>6, <3>7 DEF OwnTokens
  <2> QED
    BY <2>9, <2>10
<1>10. CASE PutFails(c) \/ TSAFails(c) \/ TSAReplies(c)
  <2>1. NextPc(c, "put") # "write"
    BY <1>3, AdvanceJob
  <2>2. UNCHANGED <<files, anchored>>
    BY <1>10 DEF PutFails, TSAFails, TSAReplies, fileVars
  <2>3. pc'[c] # "write"
    BY <1>2, <1>10, <2>1 DEF PutFails, TSAFails, TSAReplies, Advance
  <2> QED
    BY <1>7, <2>2, <2>3
<1>11. ~PutMemory(c)
  BY DEF PutMemory
<1> QED
  BY <1>8, <1>9, <1>10, <1>11

LEMMA GetKeepsTokens ==
  ASSUME Types, NEW c \in Callers, OwnTokens(c), tier = 3, TSARootPool # NoPool,
         StatFile(c) \/ RemoveFile(c) \/ ReadFile(c)
  PROVE  OwnTokens(c)'
<1>1. /\ UNCHANGED <<anchored, solo, tier, now>>
      /\ pc[c] \in {"stat", "remove", "read"} /\ pc'[c] \in {"stat", "remove", "read", "done"}
      /\ job'[c].chain = job[c].chain /\ job'[c].began = job[c].began
  BY GetStep
<1>2. /\ pc \in [Callers -> PcStages] /\ DOMAIN job = Callers /\ now \in 0..MaxTime /\ MaxTime \in Nat
      /\ TTL \in Nat
      /\ anchored \in [Callers -> Seq(Anchor)] /\ report \in [Callers -> Seq(Result)]
      /\ files \in [DOMAIN files -> File]
  BY StoreAssumption DEF Types, CallTypes, FileTypes
<1>3. /\ Placed(pc[c], job[c]) /\ job[c] \in Job /\ job[c].ext = "tst"
      /\ job[c].began <= now /\ now - job[c].began <= TTL
  BY <1>1 DEF Types, Calling, Placed
<1>4. Path(c) = <<Receipt(c), "tst">> /\ Receipt(c) \in Receipts
  BY <1>3, PathOf
<1>5. Opened(c)' /\ Anchors(c)'
  BY <1>1 DEF Opened, Anchors, OwnTokens, PutStages
<1>6. ASSUME NEW a \in DOMAIN anchored[c], anchored[c][a].of = Receipt(c)
      PROVE  Holds(files, Receipt(c), anchored[c][a].time, job[c].began)
  BY <1>6 DEF OwnTokens, Stored
<1>7. ASSUME NEW r, r.of = Receipt(c), report' = [report EXCEPT ![c] = Append(@, r)],
             \A a \in DOMAIN anchored[c] : anchored[c][a].of = Receipt(c) =>
               r.valid /\ r.time = anchored[c][a].time,
             r \in Result
      PROVE  Reported(c)'
  <2>1. report'[c] = Append(report[c], r) /\ report[c] \in Seq(Result)
    BY <1>2, <1>7
  <2>2. /\ DOMAIN report'[c] = DOMAIN report[c] \cup {Len(report[c]) + 1}
        /\ report'[c][Len(report[c]) + 1] = r
        /\ \A i \in DOMAIN report[c] : report'[c][i] = report[c][i]
    BY <1>7, <2>1
  <2>3. Reported(c)
    BY DEF OwnTokens
  <2> QED
    BY <1>1, <1>7, <2>2, <2>3 DEF Reported
<1>8. NoToken(c) \in Result /\ NoToken(c).of = Receipt(c)
  BY <1>2, <1>4 DEF NoToken, Result
<1>9. ASSUME \A a \in DOMAIN anchored[c] : anchored[c][a].of # Receipt(c),
             report' = [report EXCEPT ![c] = Append(@, NoToken(c))]
      PROVE  Reported(c)'
  <2> HIDE DEF NoToken
  <2> QED
    BY <1>7, <1>8, <1>9
<1>10. ASSUME files' = files PROVE Stored(c)'
  BY <1>1, <1>10 DEF OwnTokens, Stored
<1>11. /\ NextPc(c, "stat") # "remove"
  BY <1>3, AdvanceJob
<1>12. CASE StatFile(c)
  <2>1. files' = files
    BY <1>12 DEF StatFile, fileVars
  <2>2. CASE Path(c) \notin DOMAIN files
    <3>1. report' = [report EXCEPT ![c] = Append(@, NoToken(c))] /\ Advance(c, "stat")
      BY <1>12, <2>2 DEF StatFile, Report
    <3>2. \A a \in DOMAIN anchored[c] : anchored[c][a].of # Receipt(c)
      BY <1>4, <1>6, <2>2 DEF Holds
    <3>3. pc'[c] # "remove"
      BY <1>2, <1>11, <3>1 DEF Advance
    <3>4. NotOwn(c)'
      BY <3>3 DEF NotOwn
    <3> QED
      BY <1>5, <1>9, <1>10, <2>1, <3>1, <3>2, <3>4 DEF OwnTokens
  <2>3. CASE Path(c) \in DOMAIN files
    <3>1. /\ pc' = [pc EXCEPT ![c] = IF now - files[Path(c)].mtime > TTL THEN "remove" ELSE "read"]
          /\ UNCHANGED <<job, report>>
      BY <1>12, <2>3 DEF StatFile
    <3>2. NotOwn(c)'
      <4> SUFFICES ASSUME pc'[c] = "remove", NEW a \in DOMAIN anchored[c],
                          anchored[c][a].of = Receipt(c)
                   PROVE  FALSE
        BY <1>1, <3>1 DEF NotOwn, Receipt
      <4>1. now - files[Path(c)].mtime > TTL
        BY <1>2, <3>1
      <4>2. files[Path(c)].mtime >= job[c].began
        BY <1>4, <1>6 DEF Holds
      <4>3. files[Path(c)].mtime \in Nat /\ job[c].began \in Nat
        BY <1>2, <1>3, <2>3 DEF File, Job
      <4> QED
        BY <1>2, <1>3, <4>1, <4>2, <4>3
    <3>3. Reported(c)'
      BY <1>1, <3>1 DEF OwnTokens, Reported
    <3> QED
      BY <1>5, <1>10, <2>1, <3>2, <3>3 DEF OwnTokens
  <2> QED
    BY <2>2, <2>3
<1>13. CASE RemoveFile(c)
  <2>1. /\ files' = [p \in DOMAIN files \ {Path(c)} |-> files[p]] /\ pc[c] = "remove"
        /\ report' = [report EXCEPT ![c] = Append(@, NoToken(c))]
        /\ pc' = [pc EXCEPT ![c] = NextPc(c, "stat")]
    BY <1>13 DEF RemoveFile
  <2>2. \A a \in DOMAIN anchored[c] : anchored[c][a].of # Receipt(c)
    BY <2>1 DEF OwnTokens, NotOwn
  <2>3. \A q \in DOMAIN files : q # Path(c) => q \in DOMAIN files' /\ files'[q] = files[q]
    BY <2>1
  <2>4. ASSUME NEW a \in DOMAIN anchored[c]
        PROVE  Holds(files', anchored[c][a].of, anchored[c][a].time, job[c].began)
    <3>1. Holds(files, anchored[c][a].of, anchored[c][a].time, job[c].began)
      BY DEF OwnTokens, Stored
    <3>2. Path(c) # <<anchored[c][a].of, "tst">>
      BY <1>4, <2>2
    <3> QED
      BY <2>3, <3>1, <3>2, ElsewhereHolds
  <2>5. Stored(c)'
    BY <1>1, <2>4 DEF Stored
  <2>6. NotOwn(c)'
    BY <1>2, <1>11, <2>1 DEF NotOwn
  <2> QED
    BY <1>5, <1>9, <2>1, <2>2, <2>5, <2>6 DEF OwnTokens
<1>14. CASE ReadFile(c)
  <2>1. files' = files
    BY <1>14 DEF ReadFile, fileVars
  <2>2. CASE Path(c) \notin DOMAIN files
    <3>1. report' = [report EXCEPT ![c] = Append(@, NoToken(c))] /\ Advance(c, "stat")
      BY <1>14, <2>2 DEF ReadFile, Report
    <3>2. \A a \in DOMAIN anchored[c] : anchored[c][a].of # Receipt(c)
      BY <1>4, <1>6, <2>2 DEF Holds
    <3>3. pc'[c] # "remove"
      BY <1>2, <1>11, <3>1 DEF Advance
    <3>4. NotOwn(c)'
      BY <3>3 DEF NotOwn
    <3> QED
      BY <1>5, <1>9, <1>10, <2>1, <3>1, <3>2, <3>4 DEF OwnTokens
  <2>3. CASE Path(c) \in DOMAIN files
    <3> DEFINE blocks == files[Path(c)].data
               valid == blocks # << >> /\ VerifyTimestampTrusted(ParsedToken(blocks), Receipt(c), TSARootPool)
               r == [of |-> Receipt(c), valid |-> valid, time |-> IF valid THEN blocks[1].time ELSE 0]
    <3>1. report' = [report EXCEPT ![c] = Append(@, r)] /\ Advance(c, "stat")
      BY <1>14, <2>3 DEF ReadFile, Report
    <3>2. ASSUME NEW a \in DOMAIN anchored[c], anchored[c][a].of = Receipt(c)
          PROVE  valid /\ blocks[1].time = anchored[c][a].time
      <4>1. PICK s \in Nat \ {0} :
              blocks = TokenBlocks([of |-> Receipt(c), time |-> anchored[c][a].time, size |-> s, granted |-> TRUE])
        BY <1>4, <1>6, <3>2 DEF Holds
      <4>2. anchored[c][a].time \in 0..MaxTime
        <5>1. anchored[c] \in Seq(Anchor)
          BY <1>2
        <5>2. anchored[c][a] \in Anchor
          BY <5>1
        <5> QED
          BY <5>2 DEF Anchor
      <4> HIDE DEF blocks
      <4> QED
        BY <1>4, <4>1, <4>2, GrantedVerifies
    <3>3. blocks \in Seq(Block)
      BY <1>2, <2>3 DEF File
    <3>4. blocks # << >> => blocks[1].time \in 0..MaxTime
      <4> HIDE DEF blocks
      <4>1. blocks # << >> => blocks[1] \in Block
        BY <3>3
      <4> QED
        BY <4>1 DEF Block
    <3>5. valid \in BOOLEAN /\ (valid => blocks # << >>) /\ 0 \in 0..MaxTime
      BY <1>2 DEF VerifyTimestampTrusted
    <3> HIDE DEF valid, blocks
    <3>6. r \in Result /\ r.of = Receipt(c) /\ r.valid = valid /\ (valid => r.time = blocks[1].time)
      BY <1>4, <3>4, <3>5 DEF Result
    <3> HIDE DEF r
    <3>7. \A a \in DOMAIN anchored[c] : anchored[c][a].of = Receipt(c) =>
            r.valid /\ r.time = anchored[c][a].time
      BY <3>2, <3>6
    <3>8. Reported(c)'
      BY <1>7, <3>1, <3>6, <3>7
    <3>9. pc'[c] # "remove"
      BY <1>2, <1>11, <3>1 DEF Advance
    <3>10. NotOwn(c)'
      BY <3>9 DEF NotOwn
    <3> QED
      BY <1>5, <1>10, <2>1, <3>8, <3>10 DEF OwnTokens
  <2> QED
    BY <2>2, <2>3
<1> QED
  BY <1>12, <1>13, <1>14

LEMMA SoloKept == Types /\ SoloInv /\ [Next]_vars => SoloInv'
<1> SUFFICES ASSUME Types, SoloInv, [Next]_vars PROVE SoloInv'
  OBVIOUS
<1>1. /\ pc \in [Callers -> PcStages] /\ DOMAIN job = Callers
      /\ anchored \in [Callers -> Seq(Anchor)] /\ report \in [Callers -> Seq(Result)]
      /\ solo \in [Callers -> BOOLEAN]
  BY DEF Types, CallTypes
<1>2. ASSUME NEW c \in Callers, pc[c] # "idle", NEW e \in Callers, solo[e] PROVE e = c
  BY <1>2 DEF SoloInv, Alone
<1>3. ASSUME NEW c \in Callers, NEW ts \in BOOLEAN, NEW ch \in Chains(c), Arrive(c, ch, ts)
      PROVE  SoloInv'
  <2>1. /\ pc[c] = "idle" /\ pc' = [pc EXCEPT ![c] = "resolve"]
        /\ solo' = [d \in Callers |-> d = c /\ Active = {}]
        /\ UNCHANGED <<fileVars, report, anchored>>
    BY <1>3 DEF Arrive, Begin
  <2>2. pc'[c] = "resolve" /\ \A d \in Callers \ {c} : pc'[d] = pc[d]
    BY <1>1, <2>1
  <2>3. report[c] = << >> /\ anchored[c] = << >>
    BY <2>1 DEF SoloInv, Fresh
  <2>4. Fresh'
    BY <2>1, <2>2, <2>3 DEF SoloInv, Fresh, PutStages
  <2>5. ASSUME NEW e \in Callers, solo'[e] PROVE Alone(e)' /\ OwnTokens(e)'
    <3>1. e = c /\ Active = {}
      BY <2>1, <2>5
    <3>2. Alone(c)'
      BY <2>2, <3>1 DEF Alone, Active
    <3>3. anchored'[c] = << >> /\ report'[c] = << >> /\ DOMAIN << >> = {}
      BY <2>1, <2>3
    <3>4. OwnTokens(c)'
      BY <2>2, <3>3 DEF OwnTokens, Anchors, Stored, Opened, NotOwn, Reported
    <3> QED
      BY <3>1, <3>2, <3>4
  <2> QED
    BY <2>4, <2>5 DEF SoloInv
<1>4. ASSUME NEW c \in Callers, pc[c] # "idle", Return(c) PROVE SoloInv'
  <2>1. /\ pc' = [pc EXCEPT ![c] = "idle"]
        /\ report' = [report EXCEPT ![c] = << >>] /\ anchored' = [anchored EXCEPT ![c] = << >>]
        /\ solo' = [solo EXCEPT ![c] = FALSE]
    BY <1>4 DEF Return
  <2>2. /\ pc'[c] = "idle" /\ report'[c] = << >> /\ anchored'[c] = << >> /\ ~solo'[c]
        /\ \A d \in Callers \ {c} : /\ pc'[d] = pc[d] /\ report'[d] = report[d]
                                     /\ anchored'[d] = anchored[d] /\ solo'[d] = solo[d]
    BY <1>1, <2>1
  <2>3. Fresh'
    BY <2>2 DEF SoloInv, Fresh, PutStages
  <2>4. \A e \in Callers : ~solo'[e]
    BY <1>2, <1>4, <2>2
  <2> QED
    BY <2>3, <2>4 DEF SoloInv
<1>5. ASSUME NEW c \in Callers, Store(c), ~Respond(c) PROVE SoloInv'
  <2>1. CASE \/ PutMemory(c) \/ OpenFile(c) \/ WriteFile(c) \/ PutFails(c)
             \/ TSAReplies(c) \/ TSAFails(c)
    <3>1. /\ UNCHANGED <<report, solo, tier, now>>
          /\ pc[c] \in PutStages /\ pc'[c] \in PutStages \cup {"stat", "done"}
          /\ \A d \in Callers \ {c} : pc'[d] = pc[d] /\ anchored'[d] = anchored[d]
      BY <2>1, PutStep
    <3>2. report[c] = << >> /\ pc[c] # "idle" /\ pc'[c] # "idle"
      BY <3>1 DEF SoloInv, Fresh, PutStages
    <3>3. Fresh'
      BY <3>1, <3>2 DEF SoloInv, Fresh, PutStages
    <3>4. ASSUME NEW e \in Callers, solo'[e]
          PROVE  Alone(e)' /\ (tier' = 3 /\ TSARootPool # NoPool => OwnTokens(e)')
      <4>1. e = c /\ solo[c]
        BY <1>2, <3>1, <3>2, <3>4
      <4>2. Alone(c)'
        BY <3>1, <3>2, <4>1 DEF SoloInv, Alone
      <4>3. tier = 3 /\ TSARootPool # NoPool => OwnTokens(c)'
        BY <2>1, <3>2, <4>1, PutKeepsTokens DEF SoloInv
      <4> QED
        BY <3>1, <4>1, <4>2, <4>3
    <3> QED
      BY <3>3, <3>4 DEF SoloInv
  <2>2. CASE StatFile(c) \/ RemoveFile(c) \/ ReadFile(c)
    <3>1. /\ UNCHANGED <<anchored, solo, tier, now>>
          /\ pc[c] \in {"stat", "remove", "read"} /\ pc'[c] \in {"stat", "remove", "read", "done"}
          /\ \A d \in Callers \ {c} : pc'[d] = pc[d] /\ report'[d] = report[d]
      BY <2>2, GetStep
    <3>2. pc[c] # "idle" /\ pc'[c] # "idle"
      BY <3>1
    <3>3. Fresh'
      BY <3>1 DEF SoloInv, Fresh, PutStages
    <3>4. ASSUME NEW e \in Callers, solo'[e]
          PROVE  Alone(e)' /\ (tier' = 3 /\ TSARootPool # NoPool => OwnTokens(e)')
      <4>1. e = c /\ solo[c]
        BY <1>2, <3>1, <3>2, <3>4
      <4>2. Alone(c)'
        BY <3>1, <3>2, <4>1 DEF SoloInv, Alone
      <4>3. tier = 3 /\ TSARootPool # NoPool => OwnTokens(c)'
        BY <2>2, <4>1, GetKeepsTokens DEF SoloInv
      <4> QED
        BY <3>1, <4>1, <4>2, <4>3
    <3> QED
      BY <3>3, <3>4 DEF SoloInv
  <2> QED
    BY <1>5, <2>1, <2>2 DEF Store, StoreStep
<1>6. ASSUME NEW c \in Callers, Verified(c) PROVE SoloInv'
  <2>1. /\ pc[c] = "resolve" /\ pc' = [pc EXCEPT ![c] = "put"]
        /\ UNCHANGED <<tier, files, job, report, anchored, solo>>
    BY <1>6 DEF Verified, fileVars
  <2>2. pc'[c] = "put" /\ \A d \in Callers \ {c} : pc'[d] = pc[d]
    BY <1>1, <2>1
  <2>3. report[c] = << >> /\ anchored[c] = << >>
    BY <2>1 DEF SoloInv, Fresh
  <2>4. Fresh'
    BY <2>1, <2>2, <2>3 DEF SoloInv, Fresh, PutStages
  <2>5. ASSUME NEW e \in Callers, solo'[e] PROVE Alone(e)' /\ OwnTokens(e)'
    <3>1. e = c /\ solo[c]
      BY <1>2, <2>1, <2>5
    <3>2. Alone(c)'
      BY <2>2, <3>1 DEF SoloInv, Alone
    <3>3. anchored'[c] = << >> /\ report'[c] = << >> /\ DOMAIN << >> = {}
      BY <2>1, <2>3
    <3>4. OwnTokens(c)'
      BY <2>2, <3>3 DEF OwnTokens, Anchors, Stored, Opened, NotOwn, Reported
    <3> QED
      BY <3>1, <3>2, <3>4
  <2> QED
    BY <2>4, <2>5 DEF SoloInv
<1>7. CASE \/ \E c \in Callers, d \in DIDs : AcquireSlot(c, d) \/ Resolves(c, d) \/ ResolveFails(c, d)
           \/ StoreTick \/ UNCHANGED vars
  <2>1. UNCHANGED <<tier, files, pc, job, report, anchored, solo>>
    BY <1>7 DEF AcquireSlot, Resolves, ResolveFails, vars, storeVars, StoreTick
  <2> QED
    BY <2>1 DEF SoloInv, Fresh, Alone, OwnTokens, Anchors, Stored, Opened, NotOwn, Reported, Path, Receipt
<1>8. CASE Restart
  <2>1. /\ pc' = [c \in Callers |-> "idle"] /\ report' = [c \in Callers |-> << >>]
        /\ anchored' = [c \in Callers |-> << >>] /\ solo' = [c \in Callers |-> FALSE]
    BY <1>8 DEF Restart, StoreRestart
  <2> QED
    BY <2>1 DEF SoloInv, Fresh, PutStages
<1>9. ASSUME NEW c \in Callers, Refuse(c) \/ Respond(c) PROVE SoloInv'
  BY <1>4, <1>9 DEF Refuse, Respond
<1> QED
  BY <1>3, <1>5, <1>6, <1>7, <1>8, <1>9 DEF Next, Step

\* Chain stores a token before it verifies it: a call that overlaps with no other
\* reports every token it was granted as valid at its own time, whatever crashes,
\* expiry and half-written files came before, for any chain and token size.
THEOREM OwnTokensVerify == Spec => []SoloReportVerifies
<1>1. Init => SoloInv
  BY DEF Init, StoreInit, SoloInv, Fresh, PutStages
<1>2. SoloInv => SoloReportVerifies
  BY DEF SoloInv, OwnTokens, Reported, SoloReportVerifies
<1> QED
  BY <1>1, <1>2, SoloKept, TypesHold, PTL DEF Spec
=============================================================================
