------------------------------ MODULE OffsetWire ------------------------------
(***************************************************************************)
(* The text form of an offset and the conversions between text and parsed  *)
(* form (internal/shapes/offset.go).                                       *)
(*                                                                         *)
(* A text is what strings.SplitN(raw, "_", 2) tells apart: it is blank, it *)
(* has no separator, or it is a head and a tail around the first "_".  A   *)
(* head or tail is a token: a decimal numeral, spelled plainly or with     *)
(* leading zeros, a negative numeral, the word "inf", or anything else.    *)
(* The code compares the head with the one-character text "0", so "00_5"   *)
(* and "0_5" are different texts that carry the same numbers.              *)
(*                                                                         *)
(* Positions are Go int64 and LSNs are uint64: a larger numeral does not   *)
(* parse, and adding to a position wraps.                                  *)
(***************************************************************************)
EXTENDS Offsets

CONSTANTS MaxInt64,   \* the largest position
          MaxUint64   \* the largest LSN

ASSUME WidthAssumption ==
  /\ MaxInt64 \in Nat
  /\ MaxUint64 = 2 * MaxInt64 + 1

TokenKind == {"numeral", "negative", "inf", "other"}

Token == [kind : TokenKind, n : Nat, padded : BOOLEAN]

Numeral(n)   == [kind |-> "numeral", n |-> n, padded |-> FALSE]
Negative     == [kind |-> "negative", n |-> 0, padded |-> FALSE]
InfToken     == [kind |-> "inf", n |-> 0, padded |-> FALSE]

Text == [form : {"blank", "bare", "pair"}, head : Token, tail : Token]

Pair(head, tail) == [form |-> "pair", head |-> head, tail |-> tail]

\* strconv.ParseInt / ParseUint succeed, the first with a value that the code
\* then requires to be non-negative.
IsInt64(t)  == t.kind = "numeral" /\ t.n <= MaxInt64
IsUint64(t) == t.kind = "numeral" /\ t.n <= MaxUint64

\* ParseOffset: the blank text stands for "0_0"; a head spelled exactly "0" makes
\* a sequence or a now offset, any other number makes an LSN offset.
ParseOffset(text) ==
  LET raw  == IF text.form = "blank" THEN Pair(Numeral(0), Numeral(0)) ELSE text
  IN  CASE raw.form # "pair" -> InvalidOffset
        [] raw.form = "pair" /\ raw.head = Numeral(0) ->
             IF raw.tail.kind = "inf" THEN NowOffset
             ELSE IF IsInt64(raw.tail) THEN SequenceOffset(raw.tail.n)
             ELSE InvalidOffset
        [] OTHER ->
             IF IsUint64(raw.head) /\ IsInt64(raw.tail)
             THEN LSNOffset(raw.head.n, raw.tail.n)
             ELSE InvalidOffset

\* fmt.Sprintf("%d") of an int that may have wrapped.
FormatInt(n) ==
  LET width   == 2 * (MaxInt64 + 1)
      wrapped == ((n + MaxInt64 + 1) % width) - (MaxInt64 + 1)
  IN  IF wrapped < 0 THEN Negative ELSE Numeral(wrapped)

FormatSequenceOffset(n) == Pair(Numeral(0), FormatInt(n))
FormatLSNOffset(l, p)   == Pair(Numeral(l), FormatInt(p))

\* Mutant: "now" is continued by sequence numbers.
NextTextNowAsSequence(current, step) ==
  LET parsed == ParseOffset(current)
  IN  IF parsed.rank = RankLSN THEN FormatLSNOffset(parsed.lsn, parsed.pos + step + 1)
      ELSE FormatSequenceOffset(parsed.pos + step + 1)

\* NextGeneratedOffset on texts: parse, add, format.
NextGeneratedText(current, step) ==
  LET parsed == ParseOffset(current)
  IN  CASE parsed.rank = RankLSN     -> FormatLSNOffset(parsed.lsn, parsed.pos + step + 1)
        [] parsed.rank = RankNow     -> FormatLSNOffset(step + 1, 0)
        [] parsed.rank = RankInvalid -> FormatSequenceOffset(step + 1)
        [] OTHER                     -> FormatSequenceOffset(parsed.pos + step + 1)

=============================================================================
