--------------------------- MODULE RevocationFile ---------------------------
(***************************************************************************)
(* revocation.FileBackedRevocationStore: the operator's revocations in an  *)
(* append-only log of one decimal index per line, under failing writes,    *)
(* failing fsyncs, process crashes and power loss.                         *)
(*                                                                         *)
(* The bytes matter here, since a line that was cut short is read back as  *)
(* a different index, or joins the next one: the file is a sequence of     *)
(* digits and newlines.                                                    *)
(***************************************************************************)
EXTENDS Integers, Sequences, SequencesExt

CONSTANTS Indices,   \* status list indices an operator revokes
          Decimal,   \* strconv.FormatUint: the digits of each index
          Faults,    \* which of AllFaults the machine is subject to
          MaxIndex,  \* the largest index: 2^64 - 1
          MaxBytes   \* bound on the length of the file

NewLine == 10
Bytes   == 0 .. NewLine

\* A write that stops short (a full disk), an fsync that reports an error, a
\* power loss that drops bytes that were not yet synced.
AllFaults == {"shortWrite", "syncError", "powerLoss"}

ASSUME RevocationFileConstants ==
  /\ MaxIndex \in Nat
  /\ Indices \subseteq 0 .. MaxIndex /\ Indices # {}
  /\ Decimal \in [Indices -> Seq(0 .. 9)]
  /\ Faults \subseteq AllFaults
  /\ MaxBytes \in Nat

VARIABLES file,      \* the file's bytes, as the running system reads them
          synced,    \* how many of them are on the disk
          revoked,   \* the in-memory set
          pending,   \* the index whose line is written but not synced, if any
          acked,     \* history: indices for which Revoke returned nil
          asked,     \* history: indices for which Revoke was called
          whole,     \* history: acked indices whose line began a line of the file
          torn       \* history: has a line ever been cut short?

vars == <<file, synced, revoked, pending, acked, asked, whole, torn>>

---------------------------------------------------------------------------
(* Reading the log *)

\* The lines of b, the unterminated last one included: maximal newline-free runs.
LineSpans(b) ==
  {span \in (1 .. Len(b)) \X (1 .. Len(b)) :
     /\ span[1] <= span[2]
     /\ \A k \in span[1] .. span[2] : b[k] # NewLine
     /\ span[1] = 1 \/ b[span[1] - 1] = NewLine
     /\ span[2] = Len(b) \/ b[span[2] + 1] = NewLine}

ParseUint(digits) == FoldLeft(LAMBDA acc, d : 10 * acc + d, 0, digits)

\* What FormatUint writes, ParseUint reads back.
ASSUME DecimalAssumption ==
  \A i \in Indices : Decimal[i] # <<>> /\ ParseUint(Decimal[i]) = i

\* loadExisting; a line that is no uint64 is skipped.
Load(b) == {ParseUint(SubSeq(b, span[1], span[2])) : span \in LineSpans(b)} \cap 0 .. MaxIndex

\* Mutant: no newline.
LineUnterminated(i) == Decimal[i]

Line(i) == Append(Decimal[i], NewLine)

---------------------------------------------------------------------------
TypeOK ==
  /\ file \in Seq(Bytes) /\ Len(file) <= MaxBytes
  /\ synced \in 0 .. Len(file)
  /\ revoked \subseteq 0 .. MaxIndex
  /\ pending \in [waiting : BOOLEAN, index : Indices, whole : BOOLEAN]
  /\ acked \subseteq Indices
  /\ asked \subseteq Indices
  /\ whole \subseteq acked
  /\ torn \in BOOLEAN

Idle == [waiting |-> FALSE, index |-> CHOOSE i \in Indices : TRUE, whole |-> FALSE]

\* Does the next byte written begin a line?
AtLineStart == file = <<>> \/ Last(file) = NewLine

\* A first start: OpenFileBackedRevocationStore creates an empty file.
Init ==
  /\ file = <<>>
  /\ synced = 0
  /\ revoked = {}
  /\ pending = Idle
  /\ acked = {}
  /\ asked = {}
  /\ whole = {}
  /\ torn = FALSE

\* Revoke takes the lock and writes the whole line.
WriteLine(i) ==
  /\ ~pending.waiting
  /\ Len(file) + Len(Line(i)) <= MaxBytes
  /\ file' = file \o Line(i)
  /\ pending' = [waiting |-> TRUE, index |-> i, whole |-> AtLineStart]
  /\ asked' = asked \cup {i}
  /\ UNCHANGED <<synced, revoked, acked, whole, torn>>

\* The write stops after n bytes; Revoke returns the error.
WriteFails(i, n) ==
  /\ "shortWrite" \in Faults
  /\ ~pending.waiting
  /\ n < Len(Line(i))
  /\ Len(file) + n <= MaxBytes
  /\ file' = file \o SubSeq(Line(i), 1, n)
  /\ asked' = asked \cup {i}
  /\ torn' = (torn \/ n > 0)
  /\ UNCHANGED <<synced, revoked, pending, acked, whole>>

\* Mutant: Revoke returns without an fsync.
PublishUnsynced ==
  /\ pending.waiting
  /\ revoked' = revoked \cup {pending.index}
  /\ acked' = acked \cup {pending.index}
  /\ whole' = whole \cup {i \in {pending.index} : pending.whole}
  /\ pending' = Idle
  /\ UNCHANGED <<file, synced, asked, torn>>

\* fsync succeeds: the set is updated under the same lock and Revoke returns nil.
SyncAndPublish ==
  /\ pending.waiting
  /\ synced' = Len(file)
  /\ revoked' = revoked \cup {pending.index}
  /\ acked' = acked \cup {pending.index}
  /\ whole' = whole \cup {i \in {pending.index} : pending.whole}
  /\ pending' = Idle
  /\ UNCHANGED <<file, asked, torn>>

\* Mutant: the log is cut to nothing when fsync fails.
SyncFailsTruncating ==
  /\ pending.waiting
  /\ file' = <<>>
  /\ pending' = Idle
  /\ UNCHANGED <<synced, revoked, acked, asked, whole, torn>>

\* fsync fails: the line stays in the file, the set is left alone.
SyncFails ==
  /\ "syncError" \in Faults
  /\ pending.waiting
  /\ pending' = Idle
  /\ UNCHANGED <<file, synced, revoked, acked, asked, whole, torn>>

\* The process ends at any moment and is started again on the same machine.
ProcessRestart ==
  /\ revoked' = Load(file)
  /\ pending' = Idle
  /\ UNCHANGED <<file, synced, acked, asked, whole, torn>>

\* The machine loses power: of the bytes not yet synced, n are on the disk.
PowerLoss(n) ==
  /\ "powerLoss" \in Faults
  /\ n \in synced .. Len(file)
  /\ file' = SubSeq(file, 1, n)
  /\ synced' = n
  /\ revoked' = Load(file')
  /\ pending' = Idle
  /\ torn' = (torn \/ (n > 0 /\ file[n] # NewLine))
  /\ UNCHANGED <<acked, asked, whole>>

Next ==
  \/ \E i \in Indices : WriteLine(i) \/ \E n \in 0 .. MaxBytes : WriteFails(i, n)
  \/ SyncAndPublish
  \/ SyncFails
  \/ ProcessRestart
  \/ \E n \in 0 .. MaxBytes : PowerLoss(n)

Spec == Init /\ [][Next]_vars

---------------------------------------------------------------------------
(* Properties *)

\* The durability contract: "once Revoke returns nil, the revocation is on
\* persistent storage, survives process restart, and is visible to any future
\* IsRevoked call in this process".
AckedIsDurable ==
  /\ acked \subseteq revoked
  /\ acked \subseteq Load(SubSeq(file, 1, synced))

\* Under every fault, what a cut-off line can cost is the revocation written
\* right after it: one whose line began a line of the file is durable once
\* acknowledged, whatever fails later.
WholeLinesAreDurable ==
  whole \subseteq revoked \cap Load(SubSeq(file, 1, synced))

\* Reading the log back never revokes an index nobody asked to revoke, unless
\* a line of it was cut short at some time: failing fsyncs, crashes and power
\* losses between lines leave nothing that reads as another index.
NothingInvented == ~torn => revoked \subseteq asked
============================================================================
