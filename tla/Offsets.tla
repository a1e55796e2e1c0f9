------------------------------- MODULE Offsets -------------------------------
(***************************************************************************)
(* The offsets of internal/shapes/offset.go in parsed form.                *)
(*                                                                         *)
(* An offset names a position in the change log of one shape.  There are   *)
(* three kinds: "0_n" (a generated sequence number), "0_inf" (the position *)
(* a client that asked for "now" starts from) and "lsn_op" (the op-th      *)
(* message of the transaction that committed at lsn).  A text that is none *)
(* of them is invalid.  The code orders offsets by kind first, so the      *)
(* parsed offset carries the rank that offsetRank gives its kind.          *)
(*                                                                         *)
(* The text form, and what parsing and formatting do to it, is the subject *)
(* of module OffsetWire.                                                   *)
(***************************************************************************)
EXTENDS Integers

\* The rank of a kind: an invalid text, "0_n", "0_inf", "lsn_op".
RankInvalid  == 0
RankSequence == 1
RankNow      == 2
RankLSN      == 3

\* A parsed offset; lsn is 0 unless the kind is LSN, and pos is the sequence
\* number or the position in the transaction.
Offset == [rank : 0 .. 3, lsn : Nat, pos : Nat]

InvalidOffset     == [rank |-> RankInvalid,  lsn |-> 0, pos |-> 0]
SequenceOffset(n) == [rank |-> RankSequence, lsn |-> 0, pos |-> n]
NowOffset         == [rank |-> RankNow,      lsn |-> 0, pos |-> 0]
LSNOffset(l, p)   == [rank |-> RankLSN,      lsn |-> l, pos |-> p]

InitialOffset == SequenceOffset(0)

-----------------------------------------------------------------------------

\* The three-way comparison of two integers.
CompareInt(a, b) == IF a < b THEN -1 ELSE IF a > b THEN 1 ELSE 0

\* Mutant: LSN offsets are compared by position before LSN.
CompareOffsetsPosFirst(a, b) ==
  IF a.rank # b.rank THEN CompareInt(a.rank, b.rank)
  ELSE IF a.pos # b.pos THEN CompareInt(a.pos, b.pos) ELSE CompareInt(a.lsn, b.lsn)

\* The three-way comparison of two parsed offsets: by rank, then sequence
\* offsets by number and LSN offsets by LSN and then by position.
CompareOffsets(a, b) ==
  IF a.rank # b.rank THEN CompareInt(a.rank, b.rank)
  ELSE IF a.rank = RankSequence THEN CompareInt(a.pos, b.pos)
  ELSE IF a.rank = RankLSN
       THEN IF a.lsn # b.lsn THEN CompareInt(a.lsn, b.lsn)
                             ELSE CompareInt(a.pos, b.pos)
  ELSE 0

After(a, b) == CompareOffsets(a, b) > 0

\* The offset given to the step-th message of a batch when the messages carry
\* no commit LSN.
NextGeneratedOffset(current, step) ==
  CASE current.rank = RankLSN     -> LSNOffset(current.lsn, current.pos + step + 1)
    [] current.rank = RankNow     -> LSNOffset(step + 1, 0)
    [] current.rank = RankInvalid -> SequenceOffset(step + 1)
    [] OTHER                      -> SequenceOffset(current.pos + step + 1)

=============================================================================
