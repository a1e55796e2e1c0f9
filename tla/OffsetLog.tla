------------------------------ MODULE OffsetLog ------------------------------
(***************************************************************************)
(* How one shape's log gets its offsets, on texts (internal/shapes:        *)
(* Append, applyChangeOffsets).  A batch of messages without a commit LSN  *)
(* continues from the shape's current offset; a batch with one is numbered *)
(* from 0 within that LSN.  The same run is kept in parsed form next to    *)
(* the texts, because every other module of this project works on parsed   *)
(* offsets: TextsAgree is what entitles them to.                           *)
(***************************************************************************)
EXTENDS OffsetWire, Sequences

CONSTANTS MaxBatch,    \* bound: messages in one batch
          MaxLog,      \* bound: messages in the log
          CommitLSNs   \* the commit LSNs a batch may carry

ASSUME CommitLSNAssumption == CommitLSNs \subseteq 1 .. MaxUint64

\* The index of a message in its batch is a Go int.
ASSUME BatchAssumption == MaxBatch \in Nat /\ MaxBatch <= MaxInt64 + 1

VARIABLES current,   \* State.CurrentOffset, as text
          log,       \* the offsets of State.Changes, as texts
          parsed     \* the same log, numbered by the operators of Offsets

vars == <<current, log, parsed>>

LastOr(s, default) == IF s = <<>> THEN default ELSE s[Len(s)]

\* Mutant: the text is put together without its tail.
BatchTextsBare(n, lsn) ==
  [i \in 1 .. n |-> [form |-> "bare", head |-> Numeral(IF lsn > 0 THEN lsn ELSE 0)]]

\* applyChangeOffsets for a batch of n messages: with a commit LSN, or (0)
\* without one, when every message counts from the offset before the batch.
BatchTexts(n, lsn) ==
  [i \in 1 .. n |-> IF lsn > 0 THEN FormatLSNOffset(lsn, i - 1)
                               ELSE NextGeneratedText(current, i - 1)]

BatchParsed(n, lsn) ==
  [i \in 1 .. n |->
     IF lsn > 0 THEN LSNOffset(lsn, i - 1)
     ELSE NextGeneratedOffset(LastOr(parsed, ParseOffset(current)), i - 1)]

\* A batch without LSN stays below the width of a position: the log would need
\* 2^63 messages to leave it.
RoomFor(n) == ParseOffset(current).pos + n <= MaxInt64

Init ==
  /\ current \in {FormatSequenceOffset(0), Pair(Numeral(0), InfToken)}
  /\ log = <<>>
  /\ parsed = <<>>

\* Refresh*WithMetadata -> applyChangeOffsets.  The LSNs of the commits applied
\* to one shape grow.
Refresh(n, lsn) ==
  /\ Len(log) + n <= MaxLog
  /\ \/ lsn = 0 /\ RoomFor(n)
     \/ lsn > ParseOffset(current).lsn
  /\ log' = log \o BatchTexts(n, lsn)
  /\ parsed' = parsed \o BatchParsed(n, lsn)
  /\ current' = BatchTexts(n, lsn)[n]

\* Append: every message counts its index in the batch from a current offset
\* that already moved, so a batch leaves gaps.
AppendRun(n) ==
  LET run[k \in 0 .. n] ==
        IF k = 0 THEN [cur |-> current, texts |-> <<>>]
        ELSE LET before == run[k - 1]
                 text   == NextGeneratedText(before.cur, k - 1)
             IN  [cur   |-> IF After(ParseOffset(text), ParseOffset(before.cur))
                            THEN text ELSE before.cur,
                  texts |-> Append(before.texts, text)]
  IN  run[n]

\* The same batch on parsed offsets: message i is i beyond message i - 1.
AppendParsed(n) ==
  LET first == LastOr(parsed, ParseOffset(current))
      run[k \in 0 .. n] == IF k = 0 THEN first ELSE NextGeneratedOffset(run[k - 1], k - 1)
  IN  [i \in 1 .. n |-> run[i]]

AppendBatch(n) ==
  /\ Len(log) + n <= MaxLog
  /\ RoomFor((n * (n + 1)) \div 2)
  /\ log' = log \o AppendRun(n).texts
  /\ current' = AppendRun(n).cur
  /\ parsed' = parsed \o AppendParsed(n)

Next ==
  \/ \E n \in 1 .. MaxBatch, lsn \in CommitLSNs \cup {0} : Refresh(n, lsn)
  \/ \E n \in 1 .. MaxBatch : AppendBatch(n)

Spec == Init /\ [][Next]_vars

-----------------------------------------------------------------------------

TypeOK ==
  /\ current \in Text
  /\ \A i \in DOMAIN log : log[i] \in Text
  /\ \A i \in DOMAIN parsed : parsed[i] \in Offset

\* Every text the manager stores parses to the offset that the parsed model
\* computes for it: formatting and parsing again loses nothing (offset.go:26-57
\* against 126-148), although the head "0" is a kind marker and not an LSN.
TextsAgree ==
  /\ Len(log) = Len(parsed)
  /\ \A i \in DOMAIN log : ParseOffset(log[i]) = parsed[i]
  /\ log # <<>> => current = log[Len(log)]

\* The log of a shape is in strictly increasing offset order, across batches
\* with and without an LSN and across the change of kind from "0_n" or "0_inf"
\* to "lsn_op": Read (manager.go:630-635) relies on it to hand out exactly the
\* messages a client has not seen.
LogIncreasing ==
  \A i, j \in DOMAIN log :
    i < j => After(ParseOffset(log[j]), ParseOffset(log[i]))

=============================================================================
