---------------------------- MODULE ReceiptStore ----------------------------
(***************************************************************************)
(* The receipt stores as Chain uses them after a chain has been verified:  *)
(* Put of every receipt, then, if asked for, Get and verification of every *)
(* timestamp token (pkg/store, pkg/anchor/tier3store.go and the end of     *)
(* Chain). Files are named by hash; os.WriteFile truncates, then writes.   *)
(***************************************************************************)
EXTENDS Rfc3161, SequencesExt

CONSTANTS Callers,     \* calls of Chain
          Receipts,    \* receipts, each standing for its hash as well
          Tiers,       \* store tiers of the deployments considered: 0, 1, 3
          TSACert, TSARootPool,   \* the authority; TSA_ROOT_CERT_PEM, or NoPool
          Answers,     \* replies of the authority: size in blocks, granted or not
          MemoryCapacity, TTL, MaxTime,
          None

ASSUME StoreAssumption ==
  /\ Tiers \subseteq {0, 1, 3} /\ TTL \in Nat /\ MaxTime \in Nat
  /\ MemoryCapacity \in Nat \ {0} /\ Answers \subseteq [size : Nat \ {0}, granted : BOOLEAN]

\* With a root pool the authority is one that the pool trusts while the system runs.
ASSUME AuthorityAssumption ==
  TSARootPool # NoPool =>
    /\ TSACert # Garbled /\ hasTimestampingEKU(TSACert)
    /\ \A t \in 0..MaxTime : ChainVerifies(TSACert, {}, TSARootPool, t)

\* The bytes that do not parse, and the attributes that are not there, are not
\* what an authority writes.
ASSUME SentinelAssumption ==
  \A d \in Receipts, t \in 0..MaxTime :
    TST(d, t) # Garbled /\ AttrsOf(TST(d, t)) \notin {Garbled, NoAttrs}

VARIABLES tier,        \* STORE_DIR and TSA_URL
          files,       \* path -> content and modification time
          recent,      \* tier 0: the LRU, oldest first
          now,
          pc,          \* pc[c]: where a call is
          job,         \* job[c]: its receipts, the one it is at, and what it holds
          report       \* report[c]: results of the timestamp verification

\* History, for the properties: the receipts whose Put returned nil, those a
\* failed or interrupted write may have damaged, the time of the granted token
\* that a call has stored, and the calls that overlapped with no other.
VARIABLES kept, damaged, anchored, solo

fileVars == <<tier, files, recent, now>>
storeVars == <<tier, files, recent, now, pc, job, report, kept, damaged, anchored, solo>>

-----------------------------------------------------------------------------
(* Content of files. *)

Paths == Receipts \X {"jwt", "tst"}

\* A receipt is one block; a reply of the authority is tok.size blocks.
JwtBlocks(d) == <<[of |-> d, time |-> 0, size |-> 1, granted |-> TRUE, n |-> 1]>>
TokenBlocks(tok) == [n \in 1..tok.size |-> [of |-> tok.of, time |-> tok.time, size |-> tok.size,
                                            granted |-> tok.granted, n |-> n]]

\* A write at offset 0 of an open file.
Overwrite(old, data) == data \o SubSeq(old, Len(data) + 1, Len(old))

Whole(blocks) == /\ blocks # << >>
                 /\ Len(blocks) = blocks[1].size
                 /\ \A n \in DOMAIN blocks : blocks[n] = [blocks[1] EXCEPT !.n = n]

\* What the authority signs for receipt d.
StampOf(d, time) == [cert |-> TSACert, tst |-> TST(d, time), form |-> "attributes"]

\* The token that the bytes of a file parse to.
ParsedToken(blocks) ==
  LET b == blocks[1]
  IN  [Reply(StampOf(b.of, b.time), <<TSACert>>, 1) EXCEPT
         !.response = IF Whole(blocks) THEN "whole" ELSE "damaged",
         !.status   = IF b.granted THEN Granted ELSE 2]

-----------------------------------------------------------------------------
StoreInit ==
  /\ tier \in Tiers
  /\ files = << >> /\ recent = << >> /\ now = 0
  /\ pc = [c \in Callers |-> "idle"]
  /\ job = [c \in Callers |-> None]
  /\ report = [c \in Callers |-> << >>]
  /\ kept = {} /\ damaged = {} /\ anchored = [c \in Callers |-> << >>]
  /\ solo = [c \in Callers |-> FALSE]

Active == {c \in Callers : pc[c] # "idle"}
Receipt(c) == job[c].chain[job[c].at]
Path(c) == <<Receipt(c), job[c].ext>>

\* The receipt whose own file a call is at, for the history variables.
Jwt(c) == IF job[c].ext = "jwt" THEN {Receipt(c)} ELSE {}

\* The modification time; only that of a token is ever looked at.
Mtime(c) == IF job[c].ext = "tst" THEN now ELSE 0

\* A call arrives; history: which calls overlap.
Begin(c, chain, timestamps, first) ==
  /\ pc[c] = "idle"
  /\ pc' = [pc EXCEPT ![c] = first]
  /\ job' = [job EXCEPT ![c] = [chain |-> chain, timestamps |-> timestamps, at |-> 1,
                                ext |-> "jwt", token |-> None, linked |-> FALSE,
                                began |-> now]]
  /\ solo' = [d \in Callers |-> d = c /\ Active = {}]
  /\ UNCHANGED <<fileVars, report, kept, damaged, anchored>>

\* What a call does after the receipt it is at: the next receipt of the loop,
\* the second loop, or the response.
Ends(c, loop) == job[c].at = Len(job[c].chain) /\ ~ (loop = "put" /\ job[c].timestamps)

Following(c, loop) ==
  IF job[c].at < Len(job[c].chain)
  THEN [pc |-> loop, at |-> job[c].at + 1, ext |-> IF loop = "put" THEN "jwt" ELSE "tst"]
  ELSE [pc |-> "stat", at |-> 1, ext |-> "tst"]

NextPc(c, loop) == IF Ends(c, loop) THEN "done" ELSE Following(c, loop).pc

NextJob(c, loop) ==
  IF Ends(c, loop) THEN [job[c] EXCEPT !.token = None, !.linked = FALSE]
  ELSE [job[c] EXCEPT !.at = Following(c, loop).at, !.ext = Following(c, loop).ext,
                      !.token = None, !.linked = FALSE]

Advance(c, loop) == /\ pc' = [pc EXCEPT ![c] = NextPc(c, loop)]
                    /\ job' = [job EXCEPT ![c] = NextJob(c, loop)]

-----------------------------------------------------------------------------
(* Put. *)

\* The LRU without d.
Place(d) == CHOOSE p \in DOMAIN recent : recent[p] = d

Others(d) == IF \E p \in DOMAIN recent : recent[p] = d THEN RemoveAt(recent, Place(d)) ELSE recent

\* Mutant: the cache is never trimmed.
PutMemory_Unbounded(c) ==
  /\ pc[c] = "put" /\ tier = 0
  /\ recent' = Append(Others(Receipt(c)), Receipt(c))
  /\ Advance(c, "put")
  /\ UNCHANGED <<tier, files, now, report, kept, damaged, anchored, solo>>

\* MemoryStore.Put: LRU.
PutMemory(c) ==
  /\ pc[c] = "put" /\ tier = 0
  /\ LET added == Append(Others(Receipt(c)), Receipt(c))
     IN  recent' = IF Len(added) > MemoryCapacity THEN Tail(added) ELSE added
  /\ Advance(c, "put")
  /\ UNCHANGED <<tier, files, now, report, kept, damaged, anchored, solo>>

\* Mutant: the file is opened without truncating it.
OpenFile_NoTruncate(c) ==
  /\ pc[c] = "put" /\ tier # 0
  /\ files' = [p \in DOMAIN files \cup {Path(c)} |->
                 IF p \in DOMAIN files THEN files[p] ELSE [data |-> << >>, mtime |-> Mtime(c)]]
  /\ damaged' = damaged \cup Jwt(c)
  /\ pc' = [pc EXCEPT ![c] = "write"]
  /\ job' = [job EXCEPT ![c].linked = TRUE]
  /\ UNCHANGED <<tier, recent, now, report, kept, anchored, solo>>

\* FilesystemStore.Put: os.WriteFile creates or truncates the file ...
OpenFile(c) ==
  /\ pc[c] = "put" /\ tier # 0
  /\ files' = [p \in DOMAIN files \cup {Path(c)} |->
                 IF p = Path(c) THEN [data |-> << >>, mtime |-> Mtime(c)] ELSE files[p]]
  /\ damaged' = damaged \cup Jwt(c)
  /\ pc' = [pc EXCEPT ![c] = "write"]
  /\ job' = [job EXCEPT ![c].linked = TRUE]
  /\ UNCHANGED <<tier, recent, now, report, kept, anchored, solo>>

Data(c) == IF job[c].ext = "jwt" THEN JwtBlocks(Receipt(c)) ELSE TokenBlocks(job[c].token)

\* ... and writes it, into the file it opened even if that has been removed.
\* Tier 3 goes on to the authority, and after the token to the next receipt.
WriteFile(c) ==
  /\ pc[c] = "write"
  /\ files' = IF job[c].linked
              THEN [files EXCEPT ![Path(c)] = [data |-> Overwrite(@.data, Data(c)), mtime |-> Mtime(c)]]
              ELSE files
  /\ kept' = kept \cup Jwt(c)
  /\ damaged' = damaged \ Jwt(c)
  /\ IF job[c].ext = "tst" /\ job[c].token.granted
     THEN anchored' = [anchored EXCEPT ![c] = Append(@, [of |-> Receipt(c), time |-> job[c].token.time])]
     ELSE UNCHANGED anchored
  /\ IF job[c].ext = "jwt" /\ tier = 3
     THEN pc' = [pc EXCEPT ![c] = "tsa"] /\ UNCHANGED job
     ELSE Advance(c, "put")
  /\ UNCHANGED <<tier, recent, now, report, solo>>

\* Mutant: the error of the write is dropped and the receipt counts as stored.
PutFails_Silent(c) ==
  /\ pc[c] \in {"put", "write"} /\ tier # 0
  /\ kept' = kept \cup Jwt(c) /\ damaged' = damaged \ Jwt(c)
  /\ Advance(c, "put")
  /\ UNCHANGED <<fileVars, report, anchored, solo>>

\* mkdir, open or write fails: a warning, and the next receipt.
PutFails(c) ==
  /\ pc[c] \in {"put", "write"} /\ tier # 0
  /\ Advance(c, "put")
  /\ UNCHANGED <<fileVars, report, kept, damaged, anchored, solo>>

\* TSAClient.Timestamp returns a reply, granted or not, of some size.
TSAReplies(c) ==
  /\ pc[c] = "tsa"
  /\ \E a \in Answers :
       job' = [job EXCEPT ![c].ext = "tst",
                          ![c].token = [of |-> Receipt(c), time |-> now, size |-> a.size,
                                        granted |-> a.granted]]
  /\ pc' = [pc EXCEPT ![c] = "put"]
  /\ UNCHANGED <<fileVars, report, kept, damaged, anchored, solo>>

\* The request to the authority fails: Put logs it and returns nil.
TSAFails(c) ==
  /\ pc[c] = "tsa"
  /\ Advance(c, "put")
  /\ UNCHANGED <<fileVars, report, kept, damaged, anchored, solo>>

-----------------------------------------------------------------------------
(* Get of the token, and the report. *)

Report(c, result) ==
  /\ report' = [report EXCEPT ![c] = Append(@, result)]
  /\ Advance(c, "stat")

NoToken(c) == [of |-> Receipt(c), valid |-> FALSE, time |-> 0]

StatFile(c) ==
  /\ pc[c] = "stat"
  /\ IF tier = 0 \/ Path(c) \notin DOMAIN files
     THEN Report(c, NoToken(c))
     ELSE /\ pc' = [pc EXCEPT ![c] = IF now - files[Path(c)].mtime > TTL THEN "remove" ELSE "read"]
          /\ UNCHANGED <<job, report>>
  /\ UNCHANGED <<fileVars, kept, damaged, anchored, solo>>

\* os.Remove of an expired file, whatever has been written there since.
RemoveFile(c) ==
  /\ pc[c] = "remove"
  /\ files' = [p \in DOMAIN files \ {Path(c)} |-> files[p]]
  /\ report' = [report EXCEPT ![c] = Append(@, NoToken(c))]
  /\ pc' = [pc EXCEPT ![c] = NextPc(c, "stat")]
  /\ job' = [d \in Callers |->
               IF d = c THEN NextJob(c, "stat")
               ELSE IF pc[d] = "write" /\ Path(d) = Path(c) THEN [job[d] EXCEPT !.linked = FALSE]
               ELSE job[d]]
  /\ UNCHANGED <<tier, recent, now, kept, damaged, anchored, solo>>

\* os.ReadFile and VerifyTimestampTrusted.
ReadFile(c) ==
  /\ pc[c] = "read"
  /\ IF Path(c) \notin DOMAIN files
     THEN Report(c, NoToken(c))
     ELSE LET blocks == files[Path(c)].data
              valid  == blocks # << >> /\ VerifyTimestampTrusted(ParsedToken(blocks), Receipt(c), TSARootPool)
          IN  Report(c, [of |-> Receipt(c), valid |-> valid, time |-> IF valid THEN blocks[1].time ELSE 0])
  /\ UNCHANGED <<fileVars, kept, damaged, anchored, solo>>

\* The response is written.
Return(c) ==
  /\ pc' = [pc EXCEPT ![c] = "idle"]
  /\ job' = [job EXCEPT ![c] = None]
  /\ report' = [report EXCEPT ![c] = << >>]
  /\ anchored' = [anchored EXCEPT ![c] = << >>]
  /\ solo' = [solo EXCEPT ![c] = FALSE]
  /\ UNCHANGED <<fileVars, kept, damaged>>

Respond(c) == pc[c] = "done" /\ Return(c)

-----------------------------------------------------------------------------
\* Time passes. No call lasts longer than the TTL (48 h; a call is over in seconds).
StoreTick ==
  /\ now < MaxTime
  /\ \A c \in Active : now - job[c].began < TTL
  /\ now' = now + 1
  /\ UNCHANGED <<tier, files, recent, pc, job, report, kept, damaged, anchored, solo>>

\* The process stops and starts again: calls are gone, files stay as they are.
StoreRestart ==
  /\ pc' = [c \in Callers |-> "idle"]
  /\ job' = [c \in Callers |-> None]
  /\ report' = [c \in Callers |-> << >>]
  /\ anchored' = [c \in Callers |-> << >>]
  /\ solo' = [c \in Callers |-> FALSE]
  /\ recent' = << >>
  /\ UNCHANGED <<tier, files, now, kept, damaged>>

StoreStep(c) == \/ PutMemory(c) \/ OpenFile(c) \/ WriteFile(c) \/ PutFails(c)
                \/ TSAReplies(c) \/ TSAFails(c)
                \/ StatFile(c) \/ RemoveFile(c) \/ ReadFile(c)
                \/ Respond(c)

-----------------------------------------------------------------------------
StoreTypeOK ==
  /\ tier \in Tiers /\ now \in 0..MaxTime
  /\ DOMAIN files \subseteq Paths
  /\ \A p \in DOMAIN files : files[p].mtime \in 0..now
  /\ Len(recent) <= MemoryCapacity
  /\ pc \in [Callers -> {"idle", "resolve", "put", "write", "tsa", "stat", "remove", "read", "done"}]
  /\ kept \subseteq Receipts /\ damaged \subseteq Receipts

\* A receipt file whose Put returned nil, and which no other call is writing,
\* left half-written or crashed over since, holds the whole receipt: what is
\* not in the response's store warnings is stored.
UnwarnedIsStored ==
  \A d \in Receipts :
    d \in kept \ damaged =>
      /\ <<d, "jwt">> \in DOMAIN files
      /\ files[<<d, "jwt">>].data = JwtBlocks(d)

\* Chain stores before it verifies timestamps "so that Tier3Store can create
\* .tst tokens that are then immediately verifiable": a call that overlaps with
\* no other reports the very token it was granted, whatever earlier calls,
\* crashes, expiry or half-written files have left behind.  (Not so of calls
\* that overlap: another's Put of the same receipt truncates the token, and its
\* Get may remove it.)
SoloReportVerifies ==
  \A c \in Callers :
    solo[c] /\ tier = 3 /\ TSARootPool # NoPool =>
      \A i \in DOMAIN report[c] : \A a \in DOMAIN anchored[c] :
        anchored[c][a].of = report[c][i].of =>
          report[c][i].valid /\ report[c][i].time = anchored[c][a].time
=============================================================================
