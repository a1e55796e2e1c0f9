----------------------------- MODULE LogProofs ------------------------------
(***************************************************************************)
(* The log of a shape, for any values of the constants: how it is kept on  *)
(* disk (DiskStore) and how its messages are numbered (OffsetLog).  The    *)
(* two parts are independent of each other.                                *)
(*                                                                         *)
(* The disk store loses no message and mixes none up, for any number of    *)
(* writes, chunks, failures and crashes, and implements ShapeStore.  The   *)
(* argument is that the files a list of chunks names are, as far as they   *)
(* exist, the pieces of the log in memory (Chunked): SaveShape writes only *)
(* to a file that the committed list does not name, and removes listed     *)
(* files only when it drops the log.                                       *)
(*                                                                         *)
(* The texts of offsets agree with the parsed offsets and increase.  A     *)
(* batch has any length, so that what the recursive functions AppendRun    *)
(* and AppendParsed compute is first given in closed form.                 *)
(***************************************************************************)
EXTENDS OffsetLog, DiskStore, FiniteSetTheorems, TLAPS

\* The files of a list of chunks are the pieces of a text, cut where the counts of
\* the list say; a file may be missing.
Chunked(list, fs, text) ==
  \E cut \in [0 .. Len(list) -> 0 .. Len(text)] :
    /\ cut[0] = 0 /\ cut[Len(list)] = Len(text)
    /\ \A n \in 0 .. Len(list) - 1 :
         /\ cut[n + 1] = cut[n] + list[n + 1]
         /\ fs[n] \in {Missing, SubSeq(text, cut[n] + 1, cut[n + 1])}

\* The log that the committed row stands for.
Logged == IF row.status = "active" THEN held.log ELSE <<>>

\* One sequence begins another.
Prefix(s, t) == Len(s) <= Len(t) /\ SubSeq(t, 1, Len(s)) = s

\* The write in progress drops the old log.
Dropping == tx.existing = 0 /\ tx.next = 0 /\ tx.shape.log = <<>>

\* The write in progress keeps the old log; what is new is in the file after the
\* last one, once that is written.
Extending ==
  /\ tx.existing = row.count /\ tx.next = Len(chunks)
  /\ tx.pc \in {"insert", "commit"}
  /\ tx.shape.status = "active"
  /\ Prefix(Logged, tx.shape.log)
  /\ Len(tx.shape.log) > row.count =>
       /\ Len(chunks) < MaxChunks
       /\ tx.pc = "commit" =>
            files[Len(chunks)] = SubSeq(tx.shape.log, row.count + 1, Len(tx.shape.log))

\* What SaveShape is called with.
SavedShape == [status : {"active", "deleted"}, meta : Meta, log : Seq(Message)]

\* The write in progress has its types, and drops or extends the log.
Saving ==
  /\ tx \in [pc : {"remove", "insert", "commit"}, shape : SavedShape,
             takeover : BOOLEAN, existing : Nat, next : Nat]
  /\ Len(tx.shape.log) <= MaxMessages
  /\ tx.shape.status = "active" => tx.takeover
  /\ Dropping \/ Extending

\* The inductive invariant: the listed files are the pieces of the log in memory as
\* far as they exist, whatever other files are there.
DiskInv ==
  /\ DiskTypeOK
  /\ Len(held.log) <= MaxMessages
  /\ row.status = "active" => held.status = "active" /\ held.meta = row.meta
  /\ row.count = Len(Logged)
  /\ Chunked(chunks, files, Logged)
  /\ tx.pc # "idle" => Saving

\* What loads, if it does, is the log that the row stands for.
ReadsBack == ~Damaged => loadShapeChanges = Logged

-----------------------------------------------------------------------------
(***************************************************************************)
(* Sequences.                                                              *)
(***************************************************************************)
\* An element of a sequence, such as the count of a listed chunk.
LEMMA Element ==
  ASSUME NEW S, NEW s \in Seq(S), NEW n \in 1 .. Len(s)
  PROVE  s[n] \in S
OBVIOUS

\* A sequence of some values is a sequence of more values.
LEMMA Wider ==
  ASSUME NEW S, NEW T, S \subseteq T
  PROVE  Seq(S) \subseteq Seq(T)
OBVIOUS

\* Two logs with the same messages in the same places are the same.
LEMMA SameElements ==
  ASSUME NEW S, NEW s \in Seq(S), NEW t \in Seq(S), Len(s) = Len(t),
         \A i \in 1 .. Len(s) : s[i] = t[i]
  PROVE  s = t
OBVIOUS

\* Nothing is between a place and an earlier one.
LEMMA EmptyPart ==
  ASSUME NEW S, NEW s \in Seq(S), NEW a \in Int, NEW b \in Int, b < a
  PROVE  SubSeq(s, a, b) = <<>>
OBVIOUS

\* All of a sequence.
LEMMA WholePart ==
  ASSUME NEW S, NEW s \in Seq(S)
  PROVE  SubSeq(s, 1, Len(s)) = s
OBVIOUS

\* Two adjacent parts are one, as when a second chunk is read.
LEMMA AdjacentParts ==
  ASSUME NEW S, NEW s \in Seq(S), NEW a \in 0 .. Len(s), NEW b \in a .. Len(s)
  PROVE  SubSeq(s, 1, b) = SubSeq(s, 1, a) \o SubSeq(s, a + 1, b)
OBVIOUS

\* What was there before is the first part of a longer log.
LEMMA FirstPart ==
  ASSUME NEW S, NEW s \in Seq(S), NEW t \in Seq(S)
  PROVE  SubSeq(s \o t, 1, Len(s)) = s
OBVIOUS

\* A chunk more at the end of a list.
LEMMA Appended ==
  ASSUME NEW S, NEW s \in Seq(S), NEW e \in S
  PROVE  /\ Append(s, e) \in Seq(S) /\ Len(Append(s, e)) = Len(s) + 1
         /\ \A i \in 1 .. Len(s) : Append(s, e)[i] = s[i]
         /\ Append(s, e)[Len(s) + 1] = e
OBVIOUS

-----------------------------------------------------------------------------
-----------------------------------------------------------------------------
\* No chunks make up the empty log.
LEMMA ChunkedNone ==
  ASSUME NEW fs
  PROVE  Chunked(<<>>, fs, <<>>)
<1> DEFINE cut == [n \in 0 .. 0 |-> 0]
<1>1. Len(<<>>) = 0 /\ cut \in [0 .. 0 -> 0 .. 0] /\ cut[0] = 0 /\ 0 .. 0 - 1 = {}
  OBVIOUS
<1> HIDE DEF cut
<1>2. QED
  BY <1>1 DEF Chunked

\* The empty log has no chunks, because a chunk is never empty.
LEMMA ChunkedEmpty ==
  ASSUME NEW list \in Seq(1 .. MaxMessages), NEW fs, NEW text, Len(text) = 0, Chunked(list, fs, text)
  PROVE  list = <<>>
<1> SUFFICES ASSUME list # <<>>
             PROVE  FALSE
  OBVIOUS
<1>1. Len(list) \in Nat \ {0}
  OBVIOUS
<1>2. PICK cut \in [0 .. Len(list) -> 0 .. Len(text)] :
        \A n \in 0 .. Len(list) - 1 : cut[n + 1] = cut[n] + list[n + 1]
  BY Zenon DEF Chunked
<1>3. 0 \in 0 .. Len(list) - 1 /\ 1 \in 0 .. Len(list) /\ 0 \in 0 .. Len(list) /\ 1 \in 1 .. Len(list)
  BY <1>1
<1>4. cut[0] \in 0 .. Len(text) /\ cut[1] \in 0 .. Len(text)
  BY <1>3, Zenon
<1>5. cut[0 + 1] = cut[0] + list[0 + 1]
  BY <1>2, <1>3
<1>6. list[1] \in 1 .. MaxMessages
  BY <1>3, Element, Zenon
<1>7. QED
  BY <1>4, <1>5, <1>6

\* Files may go missing.
LEMMA ChunkedSame ==
  ASSUME NEW list, NEW fs, NEW gs, NEW text, Chunked(list, fs, text),
         \A n \in 0 .. Len(list) - 1 : gs[n] \in {fs[n], Missing}
  PROVE  Chunked(list, gs, text)
BY Zenon DEF Chunked

\* What is known of a part of a log.
LEMMA Piece ==
  ASSUME NEW text \in Seq(Message), NEW a \in Nat \ {0}, NEW b \in 0 .. Len(text)
  PROVE  /\ SubSeq(text, a, b) \in Seq(Message)
         /\ Len(SubSeq(text, a, b)) = IF a <= b THEN b - a + 1 ELSE 0
         /\ \A i \in 1 .. b - a + 1 : SubSeq(text, a, b)[i] = text[a + i - 1]
OBVIOUS

\* One more chunk with the messages that were added makes up the longer log.
LEMMA ChunkedNext ==
  ASSUME NEW list \in Seq(1 .. MaxMessages), NEW fs, NEW text \in Seq(Message), NEW more \in Seq(Message),
         Chunked(list, fs, text), Prefix(text, more), Len(text) < Len(more),
         fs[Len(list)] = SubSeq(more, Len(text) + 1, Len(more))
  PROVE  Chunked(Append(list, Len(more) - Len(text)), fs, more)
<1> DEFINE m    == Len(list)
           add  == Len(more) - Len(text)
           long == Append(list, add)
<1>1. m \in Nat /\ Len(text) \in Nat /\ Len(more) \in Nat /\ add \in Nat \ {0}
  OBVIOUS
<1>2. Len(long) = m + 1 /\ long[m + 1] = add /\ \A n \in 1 .. m : long[n] = list[n]
  <2>1. list \in Seq(Nat) /\ add \in Nat
    <3>1. 1 .. MaxMessages \subseteq Nat
      BY DiskAssumption
    <3>2. QED
      BY <1>1, <3>1, Wider, Zenon
  <2> HIDE DEF add
  <2>2. QED
    BY <2>1
<1>3. PICK cut \in [0 .. m -> 0 .. Len(text)] :
        /\ cut[0] = 0 /\ cut[m] = Len(text)
        /\ \A n \in 0 .. m - 1 :
             /\ cut[n + 1] = cut[n] + list[n + 1]
             /\ fs[n] \in {Missing, SubSeq(text, cut[n] + 1, cut[n + 1])}
  BY Zenon DEF Chunked
<1> DEFINE cut2 == [n \in 0 .. m + 1 |-> IF n = m + 1 THEN Len(more) ELSE cut[n]]
<1> HIDE DEF m, add, long
<1>4. \A n \in 0 .. m : cut2[n] = cut[n] /\ cut[n] \in 0 .. Len(text)
  BY <1>1
<1>5. cut2[m + 1] = Len(more) /\ cut2[0] = 0 /\ cut2[m] = Len(text)
  <2>1. 0 \in 0 .. m /\ m \in 0 .. m /\ m + 1 \in 0 .. m + 1
    BY <1>1
  <2>2. QED
    BY <1>3, <1>4, <2>1
<1>6. cut2 \in [0 .. m + 1 -> 0 .. Len(more)]
  BY <1>1, <1>4
<1> HIDE DEF cut2
<1>7. ASSUME NEW n \in 0 .. m
      PROVE  /\ cut2[n + 1] = cut2[n] + long[n + 1]
             /\ fs[n] \in {Missing, SubSeq(more, cut2[n] + 1, cut2[n + 1])}
  <2>1. CASE n = m
    <3>1. cut2[n + 1] = cut2[n] + long[n + 1]
      <4>1. Len(more) = Len(text) + add
        BY <1>1 DEF add
      <4>2. QED
        BY <1>2, <1>5, <2>1, <4>1, Zenon
    <3>2. fs[n] = SubSeq(more, cut2[n] + 1, cut2[n + 1])
      BY <1>5, <2>1, Zenon DEF m
    <3>3. QED
      BY <3>1, <3>2
  <2>2. CASE n # m
    <3>1. n \in 0 .. m - 1 /\ n + 1 \in 1 .. m /\ n + 1 \in 0 .. m
      BY <1>1, <2>2
    <3>2. cut2[n] = cut[n] /\ cut2[n + 1] = cut[n + 1] /\ long[n + 1] = list[n + 1]
      BY <1>2, <1>4, <3>1
    <3>3. cut[n] \in 0 .. Len(text) /\ cut[n + 1] \in 0 .. Len(text)
      BY <1>4, <3>1
    <3>4. SubSeq(text, cut[n] + 1, cut[n + 1]) = SubSeq(more, cut[n] + 1, cut[n + 1])
      <4> DEFINE a == cut[n] + 1
                 b == cut[n + 1]
      <4>1. a \in Nat \ {0} /\ b \in 0 .. Len(text)
        BY <3>3
      <4> HIDE DEF a, b
      <4>2. text = SubSeq(more, 1, Len(text)) /\ Len(text) <= Len(more)
        BY DEF Prefix
      <4>3. \A i \in 1 .. Len(text) : text[i] = more[i]
        BY <1>1, <4>2
      <4>5. a \in Int /\ b \in Int
        BY <4>1
      <4>4. SubSeq(text, a, b) = SubSeq(more, a, b)
        <5> DEFINE s == SubSeq(text, a, b)
                   t == SubSeq(more, a, b)
        <5>1. /\ s \in Seq(Message) /\ Len(s) = IF a <= b THEN b - a + 1 ELSE 0
              /\ \A i \in 1 .. b - a + 1 : s[i] = text[a + i - 1]
          BY <1>1, <4>1, Piece, ZenonT(60)
        <5>2. /\ t \in Seq(Message) /\ Len(t) = IF a <= b THEN b - a + 1 ELSE 0
              /\ \A i \in 1 .. b - a + 1 : t[i] = more[a + i - 1]
          BY <1>1, <4>1, Piece, SMT, SMTT(30)
        <5> HIDE DEF s, t
        <5>3. \A i \in 1 .. Len(s) : s[i] = t[i]
          <6> SUFFICES ASSUME NEW i \in 1 .. Len(s)
                       PROVE  s[i] = t[i]
            OBVIOUS
          <6>1. i \in 1 .. b - a + 1 /\ a + i - 1 \in 1 .. Len(text)
            BY <1>1, <4>1, <5>1
          <6>2. s[i] = text[a + i - 1] /\ t[i] = more[a + i - 1]
            BY <5>1, <5>2, <6>1, Zenon
          <6>3. QED
            BY <4>3, <6>1, <6>2, Zenon
        <5>4. s = t
          BY <5>1, <5>2, <5>3, SameElements
        <5>5. QED
          BY <5>4 DEF s, t
      <4>6. QED
        BY <4>4, Zenon DEF a, b
    <3>5. fs[n] \in {Missing, SubSeq(text, cut[n] + 1, cut[n + 1])} /\ cut[n + 1] = cut[n] + list[n + 1]
      BY <1>3, <3>1, Zenon
    <3>6. QED
      BY <3>2, <3>4, <3>5, Zenon
  <2>3. QED
    BY <2>1, <2>2
<1>8. 0 .. (m + 1) - 1 = 0 .. m
  BY <1>1
<1>9. QED
  BY <1>2, <1>5, <1>6, <1>7, <1>8, Zenon DEF Chunked, long, add

-----------------------------------------------------------------------------
\* The types of the log and the list of chunks.
LEMMA LoggedType ==
  ASSUME DiskInv
  PROVE  /\ Logged \in Seq(Message) /\ Len(Logged) \in Nat /\ Len(Logged) <= MaxMessages
         /\ chunks \in Seq(1 .. MaxMessages) /\ Len(chunks) \in 0 .. MaxChunks
BY DiskAssumption DEF DiskInv, DiskTypeOK, Logged

\* A row without messages lists no chunks.
LEMMA NothingListed ==
  ASSUME DiskInv, row.count = 0
  PROVE  chunks = <<>>
BY LoggedType, ChunkedEmpty, Zenon DEF DiskInv

\* The invariant holds for an empty store.
LEMMA DiskInitInv ==
  ASSUME DiskInit
  PROVE  DiskInv
<1>1. PICK m \in Meta : /\ held = [status |-> "absent", meta |-> m, log |-> <<>>]
                        /\ row = [status |-> "absent", meta |-> m, count |-> 0]
  BY DEF DiskInit
<1>2. DiskTypeOK
  <2>1. <<>> \in Seq(Message) /\ <<>> \in Seq(1 .. MaxMessages) /\ Len(<<>>) = 0
    OBVIOUS
  <2>2. /\ held \in [status : {"absent", "active", "deleted"}, meta : Meta, log : Seq(Message)]
        /\ row \in [status : {"absent", "active", "deleted"}, meta : Meta, count : Nat]
    BY <1>1, <2>1
  <2>3. chunks \in Seq(1 .. MaxMessages) /\ Len(chunks) <= MaxChunks
    BY <2>1, DiskAssumption DEF DiskInit
  <2>4. DOMAIN files = Numbers /\ tx.pc = "idle" /\ booting \in BOOLEAN
    BY Zenon DEF DiskInit, NoTx
  <2>5. faults \in 0 .. MaxFaults
    BY DiskAssumption DEF DiskInit
  <2>6. QED
    BY <2>2, <2>3, <2>4, <2>5 DEF DiskTypeOK
<1>3. Logged = <<>>
  BY <1>1 DEF Logged
<1>4. Chunked(chunks, files, Logged)
  BY <1>3, ChunkedNone DEF DiskInit
<1>5. tx.pc = "idle"
  BY DEF DiskInit, NoTx
<1>6. Len(held.log) = 0 /\ row.count = 0 /\ row.status = "absent" /\ Len(Logged) = 0
  BY <1>1, <1>3
<1>7. QED
  BY <1>2, <1>4, <1>5, <1>6, DiskAssumption DEF DiskInv

\* The begin of a write keeps the invariant: it decides whether the old log goes.
LEMMA BeginSaveInv ==
  ASSUME DiskInv, NEW takeover \in BOOLEAN,
         NEW new \in SavedShape,
         Len(new.log) <= MaxMessages, new.status = "active" => takeover,
         \/ new.log = <<>>
         \/ /\ new.status = "active" /\ Prefix(Logged, new.log)
            /\ Len(new.log) > row.count => Len(chunks) < MaxChunks,
         BeginSave(new, takeover)
  PROVE  DiskInv'
<1>1. /\ held' = held /\ row' = row /\ chunks' = chunks /\ files' = files
      /\ booting' = booting /\ faults' = faults
  BY DEF BeginSave
<1>2. Logged' = Logged
  BY <1>1 DEF Logged
<1>3. tx'.pc \in {"remove", "insert"} /\ tx'.shape = new /\ tx'.takeover = takeover
  BY DEF BeginSave
<1>4. row.count = Len(Logged) /\ row.count \in Nat
  BY LoggedType DEF DiskInv
<1>8. tx' \in [pc : {"remove", "insert", "commit"}, shape : SavedShape,
               takeover : BOOLEAN, existing : Nat, next : Nat]
  BY <1>4, LoggedType DEF BeginSave
<1>5. Saving'
  <2>1. CASE new.log = <<>>
    <3>1. tx'.existing = 0 /\ tx'.next = 0
      <4>1. CASE row.count = 0
        <5>1. Len(chunks) = 0
          BY <4>1, NothingListed
        <5>2. QED
          BY <4>1, <5>1 DEF BeginSave
      <4>2. CASE row.count # 0
        <5>1. Len(new.log) < row.count
          BY <1>4, <2>1, <4>2
        <5>2. QED
          BY <5>1 DEF BeginSave
      <4>3. QED
        BY <4>1, <4>2
    <3>2. Dropping'
      BY <1>3, <2>1, <3>1 DEF Dropping
    <3>3. QED
      BY <1>3, <1>8, <3>2 DEF Saving
  <2>2. CASE /\ new.status = "active" /\ Prefix(Logged, new.log)
             /\ Len(new.log) > row.count => Len(chunks) < MaxChunks
    <3>1. ~(new.status = "deleted" \/ Len(new.log) < row.count)
      BY <1>4, <2>2 DEF Prefix
    <3>2. tx'.pc = "insert" /\ tx'.existing = row.count /\ tx'.next = Len(chunks)
      BY <3>1 DEF BeginSave
    <3>3. Extending'
      BY <1>1, <1>2, <1>3, <2>2, <3>2, Zenon DEF Extending
    <3>4. QED
      BY <1>3, <1>8, <3>3 DEF Saving
  <2>3. QED
    BY <2>1, <2>2
<1>6. DiskTypeOK'
  BY <1>1, <1>3 DEF DiskInv, DiskTypeOK, Numbers
<1>7. QED
  BY <1>1, <1>2, <1>5, <1>6 DEF DiskInv

\* Creating or resetting the shape keeps the invariant.
LEMMA UpsertInv ==
  ASSUME DiskInv, NEW m \in Meta, Upsert(m)
  PROVE  DiskInv'
<1> DEFINE new == [status |-> "active", meta |-> m, log |-> <<>>]
<1>1. new \in SavedShape
  BY DEF SavedShape
<1>2. Len(new.log) <= MaxMessages /\ new.log = <<>>
  BY DiskAssumption
<1>3. BeginSave(new, TRUE)
  BY Zenon DEF Upsert
<1> HIDE DEF new
<1>4. QED
  BY <1>1, <1>2, <1>3, BeginSaveInv, Zenon

\* Deleting the shape keeps the invariant.
LEMMA DeleteInv ==
  ASSUME DiskInv, NEW takeover \in BOOLEAN, Delete(takeover)
  PROVE  DiskInv'
<1> DEFINE new == Buried(held)
<1>1. /\ new \in SavedShape
      /\ new.status = "deleted" /\ new.log = <<>>
  <2>1. <<>> \in Seq(Message)
    OBVIOUS
  <2>2. held \in [status : {"absent", "active", "deleted"}, meta : Meta, log : Seq(Message)]
    BY DEF DiskInv, DiskTypeOK
  <2>3. QED
    BY <2>1, <2>2, Zenon DEF Buried, SavedShape
<1>2. Len(new.log) <= MaxMessages /\ new.status # "active"
  BY <1>1, DiskAssumption
<1>3. BeginSave(new, takeover)
  BY DEF Delete
<1> HIDE DEF new
<1>4. QED
  BY <1>1, <1>2, <1>3, BeginSaveInv, Zenon

\* A function on 1 .. n is a sequence.
LEMMA ListOf ==
  ASSUME NEW S, NEW n \in Nat, NEW f \in [1 .. n -> S]
  PROVE  f \in Seq(S) /\ Len(f) = n
OBVIOUS

\* Extending the log keeps the invariant.
LEMMA ExtendInv ==
  ASSUME DiskInv, NEW n \in 0 .. MaxAdded, Extend(n)
  PROVE  DiskInv'
<1> DEFINE more == [i \in 1 .. n |-> [meta |-> held.meta, index |-> Len(held.log) + i]]
           new  == [held EXCEPT !.log = @ \o more]
<1>1. /\ held \in [status : {"absent", "active", "deleted"}, meta : Meta, log : Seq(Message)]
      /\ n \in Nat /\ Len(held.log) \in Nat /\ Len(held.log) + n <= MaxMessages /\ MaxMessages \in Nat
      /\ held.status = "active" /\ Len(chunks) < MaxChunks
  BY DiskAssumption DEF DiskInv, DiskTypeOK, Extend
<1>2. more \in Seq(Message) /\ Len(more) = n
  <2>1. \A i \in 1 .. n : [meta |-> held.meta, index |-> Len(held.log) + i] \in Message
    BY <1>1 DEF Message
  <2>2. more \in [1 .. n -> Message]
    BY <2>1, Zenon
  <2> HIDE DEF more
  <2>3. QED
    BY <1>1, <2>2, ListOf
<1> HIDE DEF more
<1>3. /\ held.log \o more \in Seq(Message) /\ Len(held.log \o more) = Len(held.log) + n
      /\ Prefix(held.log, held.log \o more)
  <2>1. held.log \in Seq(Message)
    BY <1>1
  <2>2. /\ held.log \o more \in Seq(Message)
        /\ Len(held.log \o more) = Len(held.log) + n
    BY <1>2, <2>1
  <2>3. SubSeq(held.log \o more, 1, Len(held.log)) = held.log
    BY <1>2, <2>1, FirstPart
  <2>4. QED
    BY <1>1, <2>2, <2>3 DEF Prefix
<1>4. /\ new \in SavedShape
      /\ new.status = "active" /\ new.log = held.log \o more
  <2> DEFINE longer == held.log \o more
  <2>1. longer \in Seq(Message)
    BY <1>3
  <2> HIDE DEF longer
  <2>2. new = [held EXCEPT !.log = longer]
    BY DEF longer
  <2> HIDE DEF new
  <2>3. QED
    BY <1>1, <2>1, <2>2, Zenon DEF longer, SavedShape
<1>5. BeginSave(new, TRUE)
  BY Zenon DEF Extend, more
<1> HIDE DEF new
<1>6. Prefix(Logged, new.log)
  <2>1. CASE row.status = "active"
    BY <1>3, <1>4, <2>1 DEF Logged
  <2>2. CASE row.status # "active"
    <3>1. Logged = <<>>
      BY <2>2 DEF Logged
    <3>2. SubSeq(new.log, 1, 0) = <<>>
      BY EmptyPart
    <3>3. Len(<<>>) = 0 /\ 0 <= Len(new.log)
      BY <1>1, <1>3, <1>4
    <3>4. QED
      BY <3>1, <3>2, <3>3 DEF Prefix
  <2>3. QED
    BY <2>1, <2>2
<1>7. Len(new.log) <= MaxMessages
  BY <1>1, <1>3, <1>4
<1>8. QED
  BY <1>1, <1>4, <1>5, <1>6, <1>7, BeginSaveInv, Zenon

\* A step of the write changes its program counter only.
LEMMA Moved ==
  ASSUME Saving, NEW pc \in {"remove", "insert", "commit"}, tx' \in {tx, [tx EXCEPT !.pc = pc]}
  PROVE  /\ tx' \in [pc : {"remove", "insert", "commit"}, shape : SavedShape,
                     takeover : BOOLEAN, existing : Nat, next : Nat]
         /\ tx'.shape = tx.shape /\ tx'.takeover = tx.takeover /\ tx'.existing = tx.existing
         /\ tx'.next = tx.next /\ tx'.pc \in {tx.pc, pc}
BY DEF Saving

\* Removing files keeps the invariant: a listed file may be missing.
LEMMA RemoveInv ==
  ASSUME DiskInv, removeChunks
  PROVE  DiskInv'
<1>1. /\ held' = held /\ row' = row /\ chunks' = chunks /\ booting' = booting /\ faults' = faults
      /\ tx.pc = "remove" /\ Logged' = Logged
  BY DEF removeChunks, Logged
<1>2. Saving /\ Dropping
  BY <1>1 DEF DiskInv, Saving, Extending
<1>3. tx' \in {tx, [tx EXCEPT !.pc = "insert"]}
  BY DEF removeChunks
<1>4. DOMAIN files' = DOMAIN files /\ \A n \in 0 .. Len(chunks) - 1 : files'[n] \in {files[n], Missing}
  <2>1. CASE files' = files
    BY <2>1, Zenon
  <2>2. CASE files' # files
    <3>1. PICK k \in Listed : files' = [files EXCEPT ![k] = Missing]
      BY <2>2 DEF removeChunks
    <3>2. DOMAIN files = Numbers /\ \A n \in 0 .. Len(chunks) - 1 : n \in Numbers
      BY LoggedType, DiskAssumption DEF DiskInv, DiskTypeOK, Numbers
    <3>3. QED
      BY <3>1, <3>2, Zenon
  <2>3. QED
    BY <2>1, <2>2
<1>5. Chunked(chunks, files', Logged)
  BY <1>4, ChunkedSame, Zenon DEF DiskInv
<1>6. /\ tx' \in [pc : {"remove", "insert", "commit"}, shape : SavedShape,
                  takeover : BOOLEAN, existing : Nat, next : Nat]
      /\ tx'.shape = tx.shape /\ tx'.takeover = tx.takeover /\ tx'.existing = tx.existing
      /\ tx'.next = tx.next /\ tx'.pc \in {"remove", "insert"}
  BY <1>1, <1>2, <1>3, Moved
<1>7. Saving'
  BY <1>2, <1>6 DEF Saving, Dropping
<1>8. DiskTypeOK'
  BY <1>1, <1>4, <1>6, Zenon DEF DiskInv, DiskTypeOK, Numbers
<1>9. QED
  BY <1>1, <1>5, <1>7, <1>8 DEF DiskInv

\* Writing a file keeps the invariant: it is not a listed one.
LEMMA WriteInv ==
  ASSUME DiskInv, writeChunk
  PROVE  DiskInv'
<1> DEFINE more == SubSeq(tx.shape.log, tx.existing + 1, Len(tx.shape.log))
<1>1. /\ held' = held /\ row' = row /\ chunks' = chunks /\ booting' = booting /\ faults' = faults
      /\ tx.pc = "insert" /\ Logged' = Logged
  BY DEF writeChunk, Logged
<1>2. /\ tx' = [tx EXCEPT !.pc = "commit"]
      /\ files' = IF more = <<>> THEN files ELSE [files EXCEPT ![tx.next] = more]
  BY DEF writeChunk
<1>3. Saving
  BY <1>1 DEF DiskInv
<1>4. /\ tx' \in [pc : {"remove", "insert", "commit"}, shape : SavedShape,
                  takeover : BOOLEAN, existing : Nat, next : Nat]
      /\ tx'.shape = tx.shape /\ tx'.takeover = tx.takeover /\ tx'.existing = tx.existing
      /\ tx'.next = tx.next /\ tx'.pc = "commit"
  BY <1>2, <1>3 DEF Saving
<1>5. tx.shape.log \in Seq(Message) /\ Len(tx.shape.log) \in Nat
  BY <1>3 DEF Saving, SavedShape
<1>6. DOMAIN files = Numbers /\ DOMAIN files' = Numbers
  BY <1>2 DEF DiskInv, DiskTypeOK
<1> HIDE DEF more
<1>7. Saving' /\ \A n \in 0 .. Len(chunks) - 1 : files'[n] \in {files[n], Missing}
  <2>1. CASE Dropping
    <3>1. tx.existing + 1 = 1 /\ Len(tx.shape.log) = 0
      BY <2>1 DEF Dropping
    <3>2. more = <<>>
      BY <3>1, EmptyPart DEF more
    <3>3. files' = files
      BY <1>2, <3>2
    <3>4. Dropping'
      BY <1>4, <2>1 DEF Dropping
    <3>5. QED
      BY <1>3, <1>4, <3>3, <3>4, Zenon DEF Saving
  <2>2. CASE Extending /\ Len(tx.shape.log) > row.count
    <3>1. /\ row.count \in Nat /\ Len(chunks) \in Nat /\ Len(chunks) < MaxChunks
          /\ tx.existing = row.count /\ tx.next = Len(chunks)
      BY <2>2, LoggedType DEF Extending, DiskInv
    <3>2. Len(chunks) \in Numbers
      BY <3>1, DiskAssumption DEF Numbers
    <3>3. more # <<>>
      <4>1. Len(more) = Len(tx.shape.log) - (row.count + 1) + 1
        BY <1>5, <2>2, <3>1, Piece DEF more
      <4>2. Len(more) # 0
        BY <1>5, <2>2, <3>1, <4>1
      <4>3. QED
        BY <4>2
    <3>4. files' = [files EXCEPT ![Len(chunks)] = more]
      BY <1>2, <3>1, <3>3, Zenon
    <3>5. files'[Len(chunks)] = more
      BY <1>6, <3>2, <3>4, Zenon
    <3>6. more = SubSeq(tx.shape.log, row.count + 1, Len(tx.shape.log))
      BY <3>1 DEF more
    <3>7. Extending'
      BY <1>1, <1>4, <2>2, <3>1, <3>5, <3>6, Zenon DEF Extending
    <3>8. \A n \in 0 .. Len(chunks) - 1 : n # Len(chunks) /\ n \in Numbers
      BY <3>1, DiskAssumption DEF Numbers
    <3>9. \A n \in 0 .. Len(chunks) - 1 : files'[n] = files[n]
      BY <1>6, <3>4, <3>8, Zenon
    <3>10. QED
      BY <1>3, <1>4, <3>7, <3>9, ZenonT(60) DEF Saving
  <2>3. CASE Extending /\ ~(Len(tx.shape.log) > row.count)
    <3>1. tx.existing = row.count /\ row.count \in Nat
      BY <2>3, LoggedType DEF Extending, DiskInv
    <3>2. more = <<>>
      BY <1>5, <2>3, <3>1, EmptyPart DEF more
    <3>3. files' = files
      BY <1>2, <3>2
    <3>4. Extending'
      BY <1>1, <1>4, <2>3, Zenon DEF Extending
    <3>5. QED
      BY <1>3, <1>4, <3>3, <3>4, Zenon DEF Saving
  <2>4. QED
    BY <1>3, <2>1, <2>2, <2>3 DEF Saving
<1>8. Chunked(chunks, files', Logged)
  BY <1>7, ChunkedSame, Zenon DEF DiskInv
<1>9. DiskTypeOK'
  BY <1>1, <1>4, <1>6 DEF DiskInv, DiskTypeOK, Numbers
<1>10. QED
  BY <1>1, <1>7, <1>8, <1>9 DEF DiskInv

\* What the commit of the transaction writes: an empty list, one more chunk, or the
\* same list.
LEMMA CommitWrites ==
  ASSUME DiskInv, CommitSave
  PROVE  /\ row' = [status |-> tx.shape.status, meta |-> tx.shape.meta, count |-> Len(tx.shape.log)]
         /\ held' = (IF tx.takeover THEN tx.shape ELSE held)
         /\ tx' = NoTx /\ booting' = FALSE /\ files' = files /\ faults' = faults
         /\ tx.pc = "commit" /\ Saving
         /\ Logged' = tx.shape.log
         /\ \/ /\ Dropping /\ chunks' = <<>>
            \/ /\ Extending /\ Len(tx.shape.log) > row.count
               /\ chunks' = Append(chunks, Len(tx.shape.log) - Len(Logged))
            \/ /\ Extending /\ tx.shape.log = Logged /\ chunks' = chunks
<1>1. /\ row' = [status |-> tx.shape.status, meta |-> tx.shape.meta, count |-> Len(tx.shape.log)]
      /\ held' = (IF tx.takeover THEN tx.shape ELSE held)
      /\ tx' = NoTx /\ booting' = FALSE /\ files' = files /\ faults' = faults
      /\ tx.pc = "commit"
      /\ chunks' = IF Added > 0 THEN Append(Kept, Added) ELSE Kept
  BY Zenon DEF CommitSave, CommitWith
<1>2. Saving
  BY <1>1 DEF DiskInv
<1>3. /\ tx.shape \in SavedShape /\ tx.shape.log \in Seq(Message) /\ Len(tx.shape.log) \in Nat
      /\ tx.takeover \in BOOLEAN
  BY <1>2 DEF Saving, SavedShape
<1>4. Logged' = tx.shape.log
  <2>1. row'.status = tx.shape.status
    BY <1>1
  <2>2. CASE tx.shape.status = "active"
    <3>1. tx.takeover
      BY <1>2, <2>2 DEF Saving
    <3>2. held' = tx.shape
      BY <1>1, <3>1
    <3>3. QED
      BY <2>1, <2>2, <3>2, Zenon DEF Logged
  <2>3. CASE tx.shape.status # "active"
    <3>1. Dropping
      BY <1>2, <2>3 DEF Saving, Extending
    <3>2. QED
      BY <2>1, <2>3, <3>1, Zenon DEF Logged, Dropping
  <2>4. QED
    BY <2>2, <2>3
<1>5. row.count = Len(Logged) /\ Len(Logged) \in Nat /\ Len(chunks) \in Nat
  BY LoggedType DEF DiskInv
<1>6. CASE Dropping
  <2>1. Len(tx.shape.log) = 0 /\ tx.existing = 0 /\ tx.next = 0
    BY <1>6 DEF Dropping
  <2>2. Kept = <<>> /\ ~(Added > 0)
    BY <2>1 DEF Kept, Added
  <2>3. chunks' = <<>>
    BY <1>1, <2>2
  <2>4. QED
    BY <1>1, <1>2, <1>4, <1>6, <2>3, Zenon
<1>7. CASE Extending
  <2>1. tx.existing = row.count /\ tx.next = Len(chunks) /\ Len(Logged) <= Len(tx.shape.log)
    BY <1>7 DEF Extending, Prefix
  <2>2. Kept = chunks
    <3>1. CASE Len(chunks) = 0
      BY <2>1, <3>1, LoggedType DEF Kept
    <3>2. CASE Len(chunks) # 0
      BY <2>1, <3>2 DEF Kept
    <3>3. QED
      BY <3>1, <3>2
  <2>3. Added = Len(tx.shape.log) - Len(Logged)
    BY <1>5, <2>1, Zenon DEF Added
  <2>4. CASE Len(tx.shape.log) > row.count
    <3>1. Added > 0
      BY <1>3, <1>5, <2>3, <2>4
    <3>2. chunks' = Append(chunks, Len(tx.shape.log) - Len(Logged))
      BY <1>1, <2>2, <2>3, <3>1, Zenon
    <3>3. QED
      BY <1>1, <1>2, <1>4, <1>7, <2>4, <3>2, Zenon
  <2>5. CASE ~(Len(tx.shape.log) > row.count)
    <3>1. ~(Added > 0) /\ Len(tx.shape.log) = Len(Logged)
      BY <1>3, <1>5, <2>1, <2>3, <2>5
    <3>2. chunks' = chunks
      BY <1>1, <2>2, <3>1, Zenon
    <3>3. SubSeq(tx.shape.log, 1, Len(tx.shape.log)) = Logged
      BY <1>7, <3>1 DEF Extending, Prefix
    <3>4. tx.shape.log = Logged
      BY <1>3, <3>3, WholePart, Zenon
    <3>5. QED
      BY <1>1, <1>2, <1>4, <1>7, <3>2, <3>4, Zenon
  <2>6. QED
    BY <2>4, <2>5, Zenon
<1>8. QED
  BY <1>2, <1>6, <1>7, Zenon DEF Saving

\* The commit keeps the invariant.
LEMMA CommitInv ==
  ASSUME DiskInv, CommitSave
  PROVE  DiskInv'
<1>1. /\ tx.shape \in SavedShape /\ tx.shape.log \in Seq(Message) /\ Len(tx.shape.log) \in Nat
      /\ Len(tx.shape.log) <= MaxMessages
      /\ tx.shape.status = "active" => tx.takeover
  BY CommitWrites DEF Saving, SavedShape
<1>2. /\ chunks' \in Seq(1 .. MaxMessages) /\ Len(chunks') <= MaxChunks
      /\ Chunked(chunks', files', Logged')
  <2>1. /\ Logged' = tx.shape.log /\ files' = files /\ tx.pc = "commit"
        /\ Chunked(chunks, files, Logged)
    BY CommitWrites, Zenon DEF DiskInv
  <2>2. CASE Dropping /\ chunks' = <<>>
    <3>1. Chunked(chunks', files', Logged')
      BY <2>1, <2>2, ChunkedNone, Zenon DEF Dropping
    <3>2. QED
      BY <2>2, <3>1, DiskAssumption
  <2>3. CASE /\ Extending /\ Len(tx.shape.log) > row.count
             /\ chunks' = Append(chunks, Len(tx.shape.log) - Len(Logged))
    <3>1. /\ row.count = Len(Logged) /\ Len(Logged) \in Nat /\ Len(chunks) \in Nat
          /\ Logged \in Seq(Message) /\ chunks \in Seq(1 .. MaxMessages)
      BY LoggedType DEF DiskInv
    <3>2. /\ Prefix(Logged, tx.shape.log) /\ Len(chunks) < MaxChunks
          /\ files[Len(chunks)] = SubSeq(tx.shape.log, Len(Logged) + 1, Len(tx.shape.log))
      BY <2>1, <2>3, <3>1, Zenon DEF Extending
    <3>3. Len(Logged) < Len(tx.shape.log) /\ Len(tx.shape.log) - Len(Logged) \in 1 .. MaxMessages
      <4>1. Len(tx.shape.log) > Len(Logged)
        BY <2>3, <3>1, Zenon
      <4>2. QED
        BY <1>1, <3>1, <4>1, DiskAssumption
    <3>4. Chunked(chunks', files', Logged')
      BY <1>1, <2>1, <2>3, <3>1, <3>2, <3>3, ChunkedNext, Zenon
    <3>5. chunks' \in Seq(1 .. MaxMessages) /\ Len(chunks') = Len(chunks) + 1
      BY <2>3, <3>1, <3>3, Appended, ZenonT(60)
    <3>6. QED
      BY <3>1, <3>2, <3>4, <3>5, DiskAssumption
  <2>4. CASE Extending /\ tx.shape.log = Logged /\ chunks' = chunks
    <3>1. Chunked(chunks', files', Logged')
      BY <2>1, <2>4, Zenon
    <3>2. QED
      BY <2>4, <3>1, LoggedType, DiskAssumption
  <2>5. QED
    BY <2>2, <2>3, <2>4, CommitWrites
<1>3. /\ held' \in [status : {"absent", "active", "deleted"}, meta : Meta, log : Seq(Message)]
      /\ Len(held'.log) <= MaxMessages
      /\ row'.status = "active" => held' = tx.shape
  <2>1. CASE tx.takeover
    <3>1. held' = tx.shape
      BY <2>1, CommitWrites, Zenon
    <3>2. tx.shape \in [status : {"absent", "active", "deleted"}, meta : Meta, log : Seq(Message)]
      BY <1>1 DEF SavedShape
    <3>3. QED
      BY <1>1, <3>1, <3>2, Zenon
  <2>2. CASE ~tx.takeover
    <3>1. held' = held /\ row'.status # "active"
      <4>1. held' = held /\ row'.status = tx.shape.status
        BY <2>2, CommitWrites
      <4>2. QED
        BY <1>1, <2>2, <4>1, Zenon
    <3>2. QED
      BY <3>1 DEF DiskInv, DiskTypeOK
  <2>3. QED
    BY <2>1, <2>2
<1>4. /\ row' \in [status : {"absent", "active", "deleted"}, meta : Meta, count : Nat]
      /\ row'.meta = tx.shape.meta /\ row'.status = tx.shape.status
      /\ row'.count = Len(tx.shape.log)
  BY <1>1, CommitWrites DEF SavedShape
<1>5. tx'.pc = "idle" /\ booting' = FALSE /\ files' = files /\ faults' = faults
  BY CommitWrites DEF NoTx
<1>6. DiskTypeOK'
  BY <1>2, <1>3, <1>4, <1>5, Zenon DEF DiskInv, DiskTypeOK, Numbers
<1>7. row'.count = Len(Logged')
  BY <1>4, CommitWrites
<1>8. row'.status = "active" => held'.status = "active" /\ held'.meta = row'.meta
  BY <1>3, <1>4, Zenon
<1>9. QED
  BY <1>2, <1>3, <1>5, <1>6, <1>7, <1>8, Zenon DEF DiskInv

\* A failed write and a crash keep the invariant: the tables are as before, and no
\* listed file has another content.
LEMMA FaultInv ==
  ASSUME DiskInv, SaveFails \/ Crash
  PROVE  DiskInv'
<1>1. /\ held' = held /\ row' = row /\ chunks' = chunks /\ files' = files
      /\ tx'.pc = "idle" /\ booting' \in BOOLEAN /\ faults' \in 0 .. MaxFaults
  <2>1. /\ held' = held /\ row' = row /\ chunks' = chunks /\ files' = files
        /\ faults' = faults + 1 /\ faults < MaxFaults /\ tx' = NoTx
        /\ booting' \in {booting, TRUE}
    BY Zenon DEF SaveFails, Crash
  <2>2. booting \in BOOLEAN /\ faults \in 0 .. MaxFaults
    BY DEF DiskInv, DiskTypeOK
  <2>3. faults' \in 0 .. MaxFaults
    BY <2>1, <2>2, DiskAssumption
  <2>4. tx'.pc = "idle"
    BY <2>1 DEF NoTx
  <2>5. QED
    BY <2>1, <2>2, <2>3, <2>4, Zenon
<1>2. Logged' = Logged
  BY <1>1, Zenon DEF Logged
<1>3. DiskTypeOK'
  BY <1>1 DEF DiskInv, DiskTypeOK, Numbers
<1>4. QED
  BY <1>1, <1>2, <1>3 DEF DiskInv

\* Removing the files that no chunk lists keeps the invariant.
LEMMA CompactInv ==
  ASSUME DiskInv, Compact
  PROVE  DiskInv'
<1>1. /\ held' = held /\ row' = row /\ chunks' = chunks /\ tx' = tx /\ tx.pc = "idle"
      /\ booting' = booting /\ faults' = faults
      /\ files' = [n \in Numbers |-> IF n \in Listed THEN files[n] ELSE Missing]
  BY DEF Compact
<1>2. Logged' = Logged
  BY <1>1 DEF Logged
<1>3. \A n \in 0 .. Len(chunks) - 1 : n \in Numbers
  BY LoggedType, DiskAssumption DEF Numbers
<1>4. \A n \in 0 .. Len(chunks) - 1 : files'[n] \in {files[n], Missing}
  BY <1>1, <1>3, Zenon DEF Listed
<1>5. Chunked(chunks, files', Logged)
  BY <1>4, ChunkedSame, Zenon DEF DiskInv
<1>6. DiskTypeOK'
  BY <1>1 DEF DiskInv, DiskTypeOK, Numbers
<1>7. QED
  BY <1>1, <1>2, <1>5, <1>6, Zenon DEF DiskInv

\* Loading the shape, or writing its tombstone, keeps the invariant.
LEMMA LoadInv ==
  ASSUME DiskInv, ReadsBack, LoadShapes
  PROVE  DiskInv'
<1>1. CASE Damaged
  <2> DEFINE new == [status |-> "deleted", meta |-> row.meta, log |-> <<>>]
  <2>1. new \in SavedShape /\ new.status # "active" /\ new.log = <<>> /\ Len(new.log) <= MaxMessages
    <3>1. row.meta \in Meta
      BY DEF DiskInv, DiskTypeOK
    <3>2. <<>> \in Seq(Message) /\ Len(<<>>) <= MaxMessages
      BY DiskAssumption
    <3>3. QED
      BY <3>1, <3>2 DEF SavedShape
  <2>2. BeginSave(new, TRUE)
    BY <1>1, Zenon DEF LoadShapes
  <2> HIDE DEF new
  <2>3. QED
    BY <2>1, <2>2, BeginSaveInv, Zenon
<1>2. CASE ~Damaged
  <2>1. /\ held' = [status |-> row.status, meta |-> row.meta, log |-> Logged]
        /\ row' = row /\ chunks' = chunks /\ files' = files /\ tx' = tx /\ tx.pc = "idle"
        /\ booting' = FALSE /\ faults' = faults
    BY <1>2, Zenon DEF LoadShapes, ReadsBack
  <2>2. Logged' = Logged
    <3>1. held'.log = Logged /\ row'.status = row.status
      BY <2>1
    <3>2. QED
      BY <3>1, Zenon DEF Logged
  <2>3. DiskTypeOK'
    BY <2>1, LoggedType, Zenon DEF DiskInv, DiskTypeOK, Numbers
  <2>4. held'.status = row.status /\ held'.meta = row.meta /\ Len(held'.log) <= MaxMessages
    BY <2>1, LoggedType
  <2>5. QED
    BY <2>1, <2>2, <2>3, <2>4 DEF DiskInv
<1>3. QED
  BY <1>1, <1>2

\* Every step keeps the invariant.
LEMMA DiskNextInv ==
  ASSUME DiskInv, ReadsBack, [DiskNext]_diskVars
  PROVE  DiskInv'
<1>1. CASE Manager
  BY <1>1, UpsertInv, ExtendInv, DeleteInv, Zenon DEF Manager
<1>2. CASE removeChunks \/ writeChunk \/ CommitSave
  BY <1>2, RemoveInv, WriteInv, CommitInv, Zenon
<1>3. CASE SaveFails \/ Crash \/ Compact \/ LoadShapes
  BY <1>3, FaultInv, CompactInv, LoadInv, Zenon
<1>4. CASE UNCHANGED diskVars
  <2>1. /\ held' = held /\ row' = row /\ chunks' = chunks /\ files' = files /\ tx' = tx
        /\ booting' = booting /\ faults' = faults
    BY <1>4, Zenon DEF diskVars
  <2>2. Logged' = Logged
    BY <2>1, Zenon DEF Logged
  <2>3. QED
    BY <2>1, <2>2, Zenon DEF DiskInv, DiskTypeOK, Numbers, Saving, Dropping, Extending
<1>5. QED
  BY <1>1, <1>2, <1>3, <1>4, Zenon DEF DiskNext

-----------------------------------------------------------------------------
\* What is stored, without the case for damaged files.
LEMMA StoredIs ==
  ASSUME DiskInv, ReadsBack
  PROVE  Stored = [status |-> row.status, meta |-> row.meta, log |-> Logged]
BY Zenon DEF ReadsBack, Stored, Logged

\* An empty store is an initial state of ShapeStore.
LEMMA StoredInit ==
  ASSUME DiskInit, ReadsBack
  PROVE  Abstract!StoreInit
<1>1. DiskInv
  BY DiskInitInv
<1>2. Stored = [status |-> row.status, meta |-> row.meta, log |-> Logged]
  BY <1>1, StoredIs
<1>3. row.status = "absent" /\ row.meta \in Meta /\ Logged = <<>> /\ <<>> \in Seq(Message)
  BY DEF DiskInit, Logged
<1>4. ~Damaged
  BY DEF DiskInit, Damaged, Listed
<1>5. QED
  BY <1>2, <1>3, <1>4 DEF Abstract!StoreInit, Abstract!StoredShape

\* What StoredIs says, as a predicate to be used in both states of a step.
Settled == Stored = [status |-> row.status, meta |-> row.meta, log |-> Logged]

\* A row that lists chunks has a log that is not empty.
LEMMA ListedLog ==
  ASSUME DiskInv, Listed # {}
  PROVE  Len(Logged) > 0 /\ Logged # <<>>
<1>1. Len(chunks) # 0
  BY LoggedType DEF Listed
<1>2. row.count # 0
  BY <1>1, NothingListed, Zenon
<1>3. row.count = Len(Logged) /\ Len(Logged) \in Nat
  BY LoggedType DEF DiskInv
<1>4. QED
  BY <1>2, <1>3

\* A step that leaves the row, the list and its files alone changes nothing that a
\* reader can see.
LEMMA StutterStep ==
  ASSUME Settled, Settled', row' = row, Logged' = Logged, chunks' = chunks,
         \A n \in Listed : files'[n] = files[n]
  PROVE  UNCHANGED Abstract!storeVars
<1>1. Stored' = Stored
  BY Zenon DEF Settled
<1>2. Damaged' = Damaged
  BY Zenon DEF Damaged, Listed
<1>3. QED
  BY <1>1, <1>2, Zenon DEF Abstract!storeVars

\* Removing a file is the loss of a log, or nothing.
LEMMA RemoveStep ==
  ASSUME DiskInv, Settled, Settled', removeChunks
  PROVE  [Abstract!StoreNext]_(Abstract!storeVars)
<1>1. held' = held /\ row' = row /\ chunks' = chunks /\ Logged' = Logged /\ Stored' = Stored
  BY Zenon DEF removeChunks, Logged, Settled
<1>2. CASE files' = files
  BY <1>1, <1>2, StutterStep, Zenon
<1>3. CASE files' # files
  <2>1. PICK k \in Listed : files' = [files EXCEPT ![k] = Missing]
    BY <1>3, Zenon DEF removeChunks
  <2>2. k \in Numbers /\ DOMAIN files = Numbers
    BY LoggedType, DiskAssumption DEF DiskInv, DiskTypeOK, Numbers, Listed
  <2>3. files'[k] = Missing
    BY <2>1, <2>2, Zenon
  <2>4. Damaged' = TRUE
    BY <1>1, <2>3, Zenon DEF Damaged, Listed
  <2>5. Logged # <<>>
    BY <2>1, ListedLog, Zenon
  <2>6. Stored.log # <<>>
    BY <2>5 DEF Settled
  <2>7. Abstract!LoseLog
    BY <1>1, <2>4, <2>6, Zenon DEF Abstract!LoseLog
  <2>8. QED
    BY <2>7, Zenon DEF Abstract!StoreNext
<1>4. QED
  BY <1>2, <1>3

\* Writing a file is nothing.
LEMMA WriteStep ==
  ASSUME DiskInv, Settled, Settled', writeChunk
  PROVE  UNCHANGED Abstract!storeVars
<1> DEFINE more == SubSeq(tx.shape.log, tx.existing + 1, Len(tx.shape.log))
<1>1. /\ held' = held /\ row' = row /\ chunks' = chunks /\ Logged' = Logged /\ tx.pc = "insert"
      /\ files' = IF more = <<>> THEN files ELSE [files EXCEPT ![tx.next] = more]
  BY Zenon DEF writeChunk, Logged
<1>2. Saving
  BY <1>1 DEF DiskInv
<1>3. CASE Dropping
  <2>1. tx.existing + 1 = 1 /\ Len(tx.shape.log) = 0
    BY <1>3 DEF Dropping
  <2>2. more = <<>>
    BY <2>1, EmptyPart
  <2>3. files' = files
    BY <1>1, <2>2
  <2>4. QED
    BY <1>1, <2>3, StutterStep, Zenon
<1>4. CASE Extending
  <2> HIDE DEF more
  <2>1. tx.next = Len(chunks) /\ DOMAIN files = Numbers
    BY <1>4 DEF Extending, DiskInv, DiskTypeOK
  <2>2. \A n \in Listed : n \in Numbers /\ n # Len(chunks)
    BY LoggedType, DiskAssumption DEF Listed, Numbers
  <2>3. \A n \in Listed : files'[n] = files[n]
    BY <1>1, <2>1, <2>2, Zenon
  <2>4. QED
    BY <1>1, <2>3, StutterStep, ZenonT(60)
<1>5. QED
  BY <1>2, <1>3, <1>4, Zenon DEF Saving

\* The commit is the Save of ShapeStore.
LEMMA CommitStep ==
  ASSUME DiskInv, DiskInv', Settled, Settled', CommitSave
  PROVE  Abstract!Save
<1>1. Stored' \in Abstract!StoredShape
  <2>1. row'.status \in {"absent", "active", "deleted"} /\ row'.meta \in Meta
    BY DEF DiskInv, DiskTypeOK
  <2>2. Logged' \in Seq(Message)
    BY CommitWrites DEF Saving, SavedShape
  <2>3. QED
    BY <2>1, <2>2, Zenon DEF Settled, Abstract!StoredShape
<1>2. Stored'.log = Logged' /\ Stored.log = Logged
  BY DEF Settled
<1>3. /\ Logged' = tx.shape.log /\ files' = files
      /\ Len(tx.shape.log) \in Nat /\ Len(Logged) \in Nat /\ row.count = Len(Logged)
  <2>1. Logged' = tx.shape.log /\ files' = files /\ Saving
    BY CommitWrites, Zenon
  <2>2. Len(tx.shape.log) \in Nat
    BY <2>1 DEF Saving, SavedShape
  <2>3. Len(Logged) \in Nat /\ row.count = Len(Logged)
    BY LoggedType DEF DiskInv
  <2>4. QED
    BY <2>1, <2>2, <2>3
<1>0. Damaged \in BOOLEAN /\ Damaged' \in BOOLEAN
  BY Zenon DEF Damaged
<1>4. Damaged' = (Damaged /\ Len(Logged') >= Len(Logged))
  <2>1. CASE Dropping /\ chunks' = <<>>
    <3>1. ~Damaged'
      <4>1. Listed' = {}
        BY <2>1 DEF Listed
      <4>2. QED
        BY <4>1, Zenon DEF Damaged
    <3>2. Damaged => ~(Len(Logged') >= Len(Logged))
      <4>1. Damaged => Len(Logged) > 0
        BY ListedLog DEF Damaged
      <4>2. Len(Logged') = 0
        BY <1>3, <2>1 DEF Dropping
      <4>3. QED
        BY <1>3, <4>1, <4>2
    <3>3. QED
      BY <1>0, <3>1, <3>2, Zenon
  <2>2. CASE /\ Extending /\ Len(tx.shape.log) > row.count
             /\ chunks' = Append(chunks, Len(tx.shape.log) - Len(Logged))
    <3>1. Len(Logged') >= Len(Logged)
      BY <1>3, <2>2
    <3>2. Len(chunks') = Len(chunks) + 1 /\ Len(chunks) \in Nat
      <4>1. 1 .. MaxMessages \subseteq Nat /\ Len(tx.shape.log) - Len(Logged) \in Nat
        BY <1>3, <2>2, DiskAssumption
      <4>2. chunks \in Seq(Nat)
        BY <4>1, LoggedType, Wider, Zenon
      <4>3. QED
        BY <2>2, <4>1, <4>2, LoggedType, Appended
    <3>3. Listed' = Listed \cup {Len(chunks)}
      BY <3>2 DEF Listed
    <3>4. files[Len(chunks)] # Missing
      <4>1. /\ files[Len(chunks)] = SubSeq(tx.shape.log, row.count + 1, Len(tx.shape.log))
            /\ tx.shape.log \in Seq(Message)
        BY <2>2, CommitWrites, Zenon DEF Extending, Saving, SavedShape
      <4>2. Len(SubSeq(tx.shape.log, row.count + 1, Len(tx.shape.log)))
              = Len(tx.shape.log) - (row.count + 1) + 1
        BY <1>3, <2>2, <4>1, Piece
      <4>3. Len(files[Len(chunks)]) # 0
        BY <1>3, <2>2, <4>1, <4>2
      <4>4. QED
        BY <4>3 DEF Missing
    <3>5. Damaged' = Damaged
      BY <1>3, <3>3, <3>4, Zenon DEF Damaged
    <3>6. QED
      BY <1>0, <3>1, <3>5, Zenon
  <2>3. CASE Extending /\ tx.shape.log = Logged /\ chunks' = chunks
    <3>1. Damaged' = Damaged
      BY <1>3, <2>3, Zenon DEF Damaged, Listed
    <3>2. Len(Logged') >= Len(Logged)
      BY <1>3, <2>3
    <3>3. QED
      BY <1>0, <3>1, <3>2, Zenon
  <2>4. QED
    BY <2>1, <2>2, <2>3, CommitWrites, Zenon
<1>5. QED
  BY <1>1, <1>2, <1>4, Zenon DEF Abstract!Save

\* Loading is nothing.
LEMMA LoadStep ==
  ASSUME DiskInv, ReadsBack, Settled, Settled', LoadShapes
  PROVE  UNCHANGED Abstract!storeVars
<1>1. CASE Damaged
  <2>1. held' = held /\ row' = row /\ chunks' = chunks /\ files' = files
    BY <1>1, Zenon DEF LoadShapes, BeginSave
  <2>2. Logged' = Logged
    BY <2>1, Zenon DEF Logged
  <2>3. QED
    BY <2>1, <2>2, StutterStep, Zenon
<1>2. CASE ~Damaged
  <2>1. /\ held' = [status |-> row.status, meta |-> row.meta, log |-> Logged]
        /\ row' = row /\ chunks' = chunks /\ files' = files
    BY <1>2, Zenon DEF LoadShapes, ReadsBack
  <2>2. held'.log = Logged /\ row'.status = row.status
    BY <2>1
  <2>3. Logged' = Logged
    BY <2>2, Zenon DEF Logged
  <2>4. QED
    BY <2>1, <2>3, StutterStep, Zenon
<1>3. QED
  BY <1>1, <1>2

\* Every step is a step of ShapeStore or leaves it as it is.
LEMMA StoreStep ==
  ASSUME ReadsBack, DiskInv, DiskInv', Settled, Settled', [DiskNext]_diskVars
  PROVE  [Abstract!StoreNext]_(Abstract!storeVars)
<1>1. CASE Manager \/ SaveFails \/ Crash \/ UNCHANGED diskVars
  <2>1. held' = held /\ row' = row /\ chunks' = chunks /\ files' = files
    BY <1>1, Zenon DEF Manager, Upsert, Extend, Delete, BeginSave, SaveFails, Crash, diskVars
  <2>2. Logged' = Logged
    BY <2>1, Zenon DEF Logged
  <2>3. QED
    BY <2>1, <2>2, StutterStep, Zenon
<1>2. CASE Compact
  <2>1. held' = held /\ row' = row /\ chunks' = chunks /\ Logged' = Logged
    BY <1>2, Zenon DEF Compact, Logged
  <2>2. \A n \in Listed : n \in Numbers
    BY LoggedType, DiskAssumption DEF Listed, Numbers
  <2>3. \A n \in Listed : files'[n] = files[n]
    BY <1>2, <2>2, Zenon DEF Compact
  <2>4. QED
    BY <2>1, <2>3, StutterStep, Zenon
<1>3. CASE removeChunks
  BY <1>3, RemoveStep
<1>4. CASE writeChunk
  BY <1>4, WriteStep, Zenon
<1>5. CASE CommitSave
  BY <1>5, CommitStep, Zenon DEF Abstract!StoreNext
<1>6. CASE LoadShapes
  BY <1>6, LoadStep, Zenon
<1>7. QED
  BY <1>1, <1>2, <1>3, <1>4, <1>5, <1>6, Zenon DEF DiskNext

-----------------------------------------------------------------------------
(***************************************************************************)
(* The offsets of a log.                                                   *)
(***************************************************************************)
\* An offset that a shape can have: not invalid, its position a Go int64, the LSN
\* there exactly when the rank says so.
Good(o) ==
  /\ o \in Offset /\ o.rank # RankInvalid /\ o.pos <= MaxInt64
  /\ o.rank = RankLSN => o.lsn \in 1 .. MaxUint64
  /\ o.rank = RankNow => o.pos = 0
  /\ o.rank # RankLSN => o.lsn = 0

\* Every offset of a sequence is after the ones before it.
Ordered(s) == \A i, j \in 1 .. Len(s) : i < j => After(s[j], s[i])

\* The inductive invariant: each text of the log parses to the offset next to it,
\* the current offset is the last of the log and a good one, and the log is ordered
\* for all pairs.
OffsetInv ==
  /\ log \in Seq(Text) /\ parsed \in Seq(Offset) /\ current \in Text
  /\ Len(log) = Len(parsed)
  /\ \A i \in 1 .. Len(log) : ParseOffset(log[i]) = parsed[i]
  /\ log # <<>> => current = log[Len(log)]
  /\ Good(ParseOffset(current))
  /\ Ordered(parsed)

\* strconv.FormatInt writes a position that fits an int64 as its numeral.
LEMMA FormatIntKeeps ==
  ASSUME NEW p \in 0 .. MaxInt64
  PROVE  FormatInt(p) = Numeral(p)
<1> DEFINE w == 2 * (MaxInt64 + 1)
           x == p + MaxInt64 + 1
<1>1. w \in Nat /\ w > 0 /\ x \in Nat /\ x < w
  BY WidthAssumption
<1> HIDE DEF w, x
<1>2. x % w = x
  BY <1>1
<1>3. ~(p < 0) /\ x - (MaxInt64 + 1) = p
  BY WidthAssumption DEF x
<1>4. QED
  BY <1>2, <1>3 DEF FormatInt, w, x

\* A numeral is a token and keeps its number.
LEMMA NumeralToken ==
  ASSUME NEW n \in Nat
  PROVE  Numeral(n) \in Token /\ Numeral(n).kind = "numeral" /\ Numeral(n).n = n
BY DEF Numeral, Token, TokenKind

\* Only zero is written as zero.
LEMMA NumeralZero ==
  ASSUME NEW n \in Nat, n # 0
  PROVE  Numeral(n) # Numeral(0)
BY NumeralToken

\* The text HEAD_TAIL has the head and the tail it was put together from.
LEMMA PairFields ==
  ASSUME NEW h \in Token, NEW t \in Token
  PROVE  /\ Pair(h, t) \in Text /\ Pair(h, t).form = "pair"
         /\ Pair(h, t).head = h /\ Pair(h, t).tail = t
BY DEF Pair, Text

\* ParseOffset reads back what FormatSequenceOffset wrote.
LEMMA ParseSequence ==
  ASSUME NEW p \in 0 .. MaxInt64
  PROVE  /\ FormatSequenceOffset(p) \in Text
         /\ ParseOffset(FormatSequenceOffset(p)) = SequenceOffset(p)
<1>1. p \in Nat /\ 0 \in Nat
  OBVIOUS
<1> DEFINE t == FormatSequenceOffset(p)
<1>2. /\ t \in Text /\ t.form = "pair" /\ t.head = Numeral(0) /\ t.tail = Numeral(p)
  BY <1>1, FormatIntKeeps, NumeralToken, PairFields DEF FormatSequenceOffset
<1>3. t.tail.kind = "numeral" /\ t.tail.n = p /\ IsInt64(t.tail)
  BY <1>1, <1>2, NumeralToken DEF IsInt64
<1> HIDE DEF t
<1>4. ParseOffset(t) = SequenceOffset(p)
  BY <1>2, <1>3, Zenon DEF ParseOffset
<1>5. QED
  BY <1>2, <1>4 DEF t

\* ParseOffset reads 0_inf as the offset now.
LEMMA ParseNow ==
  /\ Pair(Numeral(0), InfToken) \in Text
  /\ ParseOffset(Pair(Numeral(0), InfToken)) = NowOffset
<1>1. InfToken \in Token /\ InfToken.kind = "inf" /\ Numeral(0) \in Token
  BY NumeralToken DEF InfToken, Token, TokenKind
<1>2. QED
  BY <1>1, PairFields DEF ParseOffset

\* ParseOffset reads back what FormatLSNOffset wrote.
LEMMA ParseLSN ==
  ASSUME NEW l \in 1 .. MaxUint64, NEW p \in 0 .. MaxInt64
  PROVE  /\ FormatLSNOffset(l, p) \in Text
         /\ ParseOffset(FormatLSNOffset(l, p)) = LSNOffset(l, p)
<1>1. p \in Nat /\ l \in Nat /\ l # 0
  BY WidthAssumption
<1> DEFINE t == FormatLSNOffset(l, p)
<1>2. /\ t \in Text /\ t.form = "pair" /\ t.head = Numeral(l) /\ t.tail = Numeral(p)
  BY <1>1, FormatIntKeeps, NumeralToken, PairFields DEF FormatLSNOffset
<1>3. t.tail.n = p /\ IsInt64(t.tail)
  BY <1>1, <1>2, NumeralToken DEF IsInt64
<1>4. t.head.n = l /\ IsUint64(t.head)
  BY <1>1, <1>2, NumeralToken DEF IsUint64
<1>5. t.head # Numeral(0)
  BY <1>1, <1>2, NumeralZero
<1> HIDE DEF t
<1>6. ParseOffset(t) = LSNOffset(l, p)
  BY <1>2, <1>3, <1>4, <1>5, ZenonT(60) DEF ParseOffset
<1>7. QED
  BY <1>2, <1>6 DEF t

\* After is transitive.
LEMMA AfterTransitive ==
  ASSUME NEW a \in Offset, NEW b \in Offset, NEW c \in Offset, After(a, b), After(b, c)
  PROVE  After(a, c)
BY DEF After, CompareOffsets, CompareInt, Offset, RankSequence, RankLSN

\* The offsets that the code makes are good.
LEMMA GoodKinds ==
  /\ \A l \in 1 .. MaxUint64, p \in 0 .. MaxInt64 : Good(LSNOffset(l, p))
  /\ \A p \in 0 .. MaxInt64 : Good(SequenceOffset(p))
  /\ Good(NowOffset)
BY WidthAssumption DEF Good, Offset, LSNOffset, SequenceOffset, NowOffset, RankInvalid,
   RankSequence, RankNow, RankLSN

\* The fields of a good offset.
LEMMA KindOfGood ==
  ASSUME NEW o, Good(o)
  PROVE  /\ o.pos \in Nat /\ o.lsn \in Nat
         /\ o.rank \in {RankLSN, RankNow, RankSequence}
BY DEF Good, Offset, RankLSN, RankNow, RankInvalid, RankSequence

\* As long as the position does not overflow, the next generated text parses to the
\* next generated offset, which is good and after the one it was made from.
LEMMA NextText ==
  ASSUME NEW t, NEW step \in Nat, Good(ParseOffset(t)),
         ParseOffset(t).pos + step + 1 <= MaxInt64
  PROVE  /\ NextGeneratedText(t, step) \in Text
         /\ ParseOffset(NextGeneratedText(t, step)) = NextGeneratedOffset(ParseOffset(t), step)
         /\ Good(NextGeneratedOffset(ParseOffset(t), step))
         /\ After(NextGeneratedOffset(ParseOffset(t), step), ParseOffset(t))
<1> DEFINE o == ParseOffset(t)
<1> HIDE DEF o
<1>0. Good(o) /\ o.pos \in Nat /\ o.lsn \in Nat /\ o.pos + step + 1 <= MaxInt64
  BY DEF o, Good, Offset
<1>1. CASE o.rank = RankLSN
  <2>1. o.lsn \in 1 .. MaxUint64 /\ o.pos + step + 1 \in 0 .. MaxInt64
    BY <1>0, <1>1, WidthAssumption DEF Good
  <2>2. NextGeneratedText(t, step) = FormatLSNOffset(o.lsn, o.pos + step + 1)
    BY <1>1 DEF NextGeneratedText, o, RankLSN, RankNow, RankInvalid
  <2>3. NextGeneratedOffset(o, step) = LSNOffset(o.lsn, o.pos + step + 1)
    BY <1>1 DEF NextGeneratedOffset, RankLSN, RankNow, RankInvalid
  <2>4. After(LSNOffset(o.lsn, o.pos + step + 1), o)
    BY <1>0, <1>1 DEF After, CompareOffsets, CompareInt, LSNOffset, RankLSN, RankSequence
  <2>5. QED
    BY <2>1, <2>2, <2>3, <2>4, ParseLSN, GoodKinds, ZenonT(60) DEF o
<1>2. CASE o.rank = RankNow
  <2>1. step + 1 \in 1 .. MaxUint64 /\ 0 \in 0 .. MaxInt64
    BY <1>0, WidthAssumption
  <2>2. NextGeneratedText(t, step) = FormatLSNOffset(step + 1, 0)
    BY <1>2 DEF NextGeneratedText, o, RankLSN, RankNow, RankInvalid
  <2>3. NextGeneratedOffset(o, step) = LSNOffset(step + 1, 0)
    BY <1>2 DEF NextGeneratedOffset, RankLSN, RankNow, RankInvalid
  <2>4. After(LSNOffset(step + 1, 0), o)
    BY <1>0, <1>2 DEF After, CompareOffsets, CompareInt, LSNOffset, RankLSN, RankNow
  <2>5. QED
    BY <2>1, <2>2, <2>3, <2>4, ParseLSN, GoodKinds, ZenonT(60) DEF o
<1>3. CASE o.rank = RankSequence
  <2>1. o.pos + step + 1 \in 0 .. MaxInt64
    BY <1>0, WidthAssumption
  <2>2. NextGeneratedText(t, step) = FormatSequenceOffset(o.pos + step + 1)
    BY <1>3 DEF NextGeneratedText, o, RankLSN, RankNow, RankInvalid, RankSequence
  <2>3. NextGeneratedOffset(o, step) = SequenceOffset(o.pos + step + 1)
    BY <1>3 DEF NextGeneratedOffset, RankLSN, RankNow, RankInvalid, RankSequence
  <2>4. After(SequenceOffset(o.pos + step + 1), o)
    BY <1>0, <1>3 DEF After, CompareOffsets, CompareInt, SequenceOffset, RankSequence
  <2>5. QED
    BY <2>1, <2>2, <2>3, <2>4, ParseSequence, GoodKinds, ZenonT(60) DEF o
<1>4. o.rank \in {RankLSN, RankNow, RankSequence}
  BY <1>0, KindOfGood
<1>5. QED
  BY <1>1, <1>2, <1>3, <1>4, ZenonT(60)

\* A later message of a batch gets a later offset.
LEMMA NextOrdered ==
  ASSUME NEW o, Good(o), NEW i \in Nat, NEW j \in Nat, i < j
  PROVE  After(NextGeneratedOffset(o, j), NextGeneratedOffset(o, i))
<1>1. o.pos \in Nat /\ o.lsn \in Nat
  BY ZenonT(60) DEF Good, Offset
<1>2. CASE o.rank = RankLSN
  <2>1. /\ NextGeneratedOffset(o, i) = LSNOffset(o.lsn, o.pos + i + 1)
        /\ NextGeneratedOffset(o, j) = LSNOffset(o.lsn, o.pos + j + 1)
    BY <1>2 DEF NextGeneratedOffset, RankLSN, RankNow, RankInvalid
  <2>2. QED
    BY <1>1, <2>1 DEF After, CompareOffsets, CompareInt, LSNOffset, RankLSN, RankSequence
<1>3. CASE o.rank = RankNow
  <2>1. /\ NextGeneratedOffset(o, i) = LSNOffset(i + 1, 0)
        /\ NextGeneratedOffset(o, j) = LSNOffset(j + 1, 0)
    BY <1>3 DEF NextGeneratedOffset, RankLSN, RankNow, RankInvalid
  <2>2. QED
    BY <1>1, <2>1 DEF After, CompareOffsets, CompareInt, LSNOffset, RankLSN, RankSequence
<1>4. CASE o.rank = RankSequence
  <2>1. /\ NextGeneratedOffset(o, i) = SequenceOffset(o.pos + i + 1)
        /\ NextGeneratedOffset(o, j) = SequenceOffset(o.pos + j + 1)
    BY <1>4 DEF NextGeneratedOffset, RankLSN, RankNow, RankInvalid, RankSequence
  <2>2. QED
    BY <1>1, <2>1 DEF After, CompareOffsets, CompareInt, SequenceOffset, RankSequence
<1>5. o.rank \in {RankLSN, RankNow, RankSequence}
  BY KindOfGood
<1>6. QED
  BY <1>2, <1>3, <1>4, <1>5, ZenonT(60)

\* The texts ts and the offsets ps of a batch of n messages: they agree, follow the
\* current offset and are ordered.
Batch(n, ts, ps) ==
  /\ n \in Nat \ {0} /\ ts \in [1 .. n -> Text] /\ ps \in [1 .. n -> Offset]
  /\ \A i \in 1 .. n : ParseOffset(ts[i]) = ps[i] /\ After(ps[i], ParseOffset(current))
  /\ \A i, j \in 1 .. n : i < j => After(ps[j], ps[i])
  /\ Good(ps[n])

\* The current offset is the last of the log.
LEMMA CurrentIsLast ==
  ASSUME OffsetInv
  PROVE  LastOr(parsed, ParseOffset(current)) = ParseOffset(current)
<1>1. CASE parsed = <<>>
  BY <1>1 DEF LastOr
<1>2. CASE parsed # <<>>
  <2>1. Len(parsed) \in 1 .. Len(log) /\ log # <<>>
    BY <1>2 DEF OffsetInv
  <2>2. ParseOffset(log[Len(log)]) = parsed[Len(parsed)] /\ current = log[Len(log)]
    BY <2>1 DEF OffsetInv
  <2>3. QED
    BY <1>2, <2>2, Zenon DEF LastOr
<1>3. QED
  BY <1>1, <1>2, Zenon

\* What is known of the concatenation of two sequences.
Joined(S, s, t) ==
  /\ s \o t \in Seq(S) /\ Len(s \o t) = Len(s) + Len(t)
  /\ \A i \in 1 .. Len(s) : (s \o t)[i] = s[i]
  /\ \A i \in 1 .. Len(t) : (s \o t)[Len(s) + i] = t[i]

\* Concatenation joins two sequences.
LEMMA Concatenation ==
  ASSUME NEW S, NEW s \in Seq(S), NEW t \in Seq(S)
  PROVE  Joined(S, s, t)
BY DEF Joined

\* Adding a batch to the log keeps the invariant.
LEMMA BatchKeeps ==
  ASSUME OffsetInv, NEW n, NEW ts, NEW ps, Batch(n, ts, ps),
         log' = log \o ts, parsed' = parsed \o ps, current' = ts[n]
  PROVE  OffsetInv'
<1> DEFINE m == Len(log)
<1>1. /\ m \in Nat /\ Len(log) = m /\ Len(parsed) = m /\ log \in Seq(Text) /\ parsed \in Seq(Offset)
      /\ n \in Nat /\ n # 0 /\ ts \in Seq(Text) /\ ps \in Seq(Offset)
      /\ Len(ts) = n /\ Len(ps) = n
  BY DEF OffsetInv, Batch
<1> HIDE DEF m
<1>2. /\ log' \in Seq(Text) /\ Len(log') = m + n
      /\ \A i \in 1 .. m : log'[i] = log[i]
      /\ \A i \in 1 .. n : log'[m + i] = ts[i]
  <2>1. Joined(Text, log, ts)
    BY <1>1, Concatenation
  <2>2. QED
    BY <1>1, <2>1, Zenon DEF Joined
<1>3. /\ parsed' \in Seq(Offset) /\ Len(parsed') = m + n
      /\ \A i \in 1 .. m : parsed'[i] = parsed[i]
      /\ \A i \in 1 .. n : parsed'[m + i] = ps[i]
  <2>1. Joined(Offset, parsed, ps)
    BY <1>1, Concatenation, Zenon
  <2>2. QED
    BY <1>1, <2>1, Zenon DEF Joined
<1>4. \A i \in 1 .. m + n : i \in 1 .. m \/ \E k \in 1 .. n : i = m + k
  <2>1. ASSUME NEW i \in 1 .. m + n
        PROVE  i \in 1 .. m \/ (i - m \in 1 .. n /\ i = m + (i - m))
    BY <1>1
  <2>2. QED
    BY <2>1, Zenon
<1>5. \A i \in 1 .. m + n : ParseOffset(log'[i]) = parsed'[i]
  <2>1. ASSUME NEW i \in 1 .. m
        PROVE  ParseOffset(log'[i]) = parsed'[i]
    BY <1>2, <1>3 DEF OffsetInv, m
  <2>2. ASSUME NEW i \in 1 .. n
        PROVE  ParseOffset(log'[m + i]) = parsed'[m + i]
    BY <1>2, <1>3, Zenon DEF Batch
  <2>3. QED
    BY <1>4, <2>1, <2>2, ZenonT(60)
<1>6. n \in 1 .. n
  BY <1>1
<1>7. current' = log'[m + n] /\ current' \in Text /\ Good(ParseOffset(current'))
  BY <1>2, <1>6, Zenon DEF Batch
<1>8. Ordered(parsed')
  <2>1. ASSUME NEW i \in 1 .. m, NEW j \in 1 .. m, i < j
        PROVE  After(parsed'[j], parsed'[i])
    BY <1>1, <1>3, <2>1, Zenon DEF OffsetInv, Ordered
  <2>2. ASSUME NEW i \in 1 .. m, NEW j \in 1 .. n
        PROVE  After(parsed'[m + j], parsed'[i])
    <3>1. m \in 1 .. m /\ log # <<>>
      BY <1>1 DEF m
    <3>2. parsed[m] = ParseOffset(current)
      BY <3>1, Zenon DEF OffsetInv, m
    <3>3. After(ps[j], parsed[m])
      BY <3>2, Zenon DEF Batch
    <3>4. i = m \/ After(parsed[m], parsed[i])
      <4>1. i = m \/ i < m
        BY <1>1
      <4>2. QED
        BY <1>1, <3>1, <4>1, ZenonT(60) DEF OffsetInv, Ordered
    <3>5. parsed[m] \in Offset /\ parsed[i] \in Offset /\ ps[j] \in Offset
      BY <1>1, <3>1
    <3>6. After(ps[j], parsed[i])
      BY <3>3, <3>4, <3>5, AfterTransitive, ZenonT(60)
    <3>7. QED
      BY <1>3, <3>6, Zenon
  <2>3. ASSUME NEW i \in 1 .. n, NEW j \in 1 .. n, i < j
        PROVE  After(parsed'[m + j], parsed'[m + i])
    BY <1>3, <2>3, Zenon DEF Batch
  <2>4. ASSUME NEW i \in 1 .. m + n, NEW j \in 1 .. m + n, i < j
        PROVE  After(parsed'[j], parsed'[i])
    <3>1. CASE i \in 1 .. m /\ j \in 1 .. m
      BY <2>1, <2>4, <3>1, Zenon
    <3>2. CASE i \in 1 .. m /\ \E k \in 1 .. n : j = m + k
      BY <2>2, <3>2, Zenon
    <3>3. CASE (\E k \in 1 .. n : i = m + k) /\ \E k \in 1 .. n : j = m + k
      <4>1. PICK k \in 1 .. n, l \in 1 .. n : i = m + k /\ j = m + l
        BY <3>3, Zenon
      <4>2. k < l
        BY <1>1, <2>4, <4>1
      <4>3. QED
        BY <2>3, <4>1, <4>2, Zenon
    <3>4. CASE (\E k \in 1 .. n : i = m + k) /\ j \in 1 .. m
      BY <1>1, <2>4, <3>4
    <3>5. QED
      BY <1>4, <3>1, <3>2, <3>3, <3>4, ZenonT(60)
  <2>5. QED
    BY <1>3, <2>4, Zenon DEF Ordered
<1>9. QED
  BY <1>2, <1>3, <1>5, <1>7, <1>8, ZenonT(60) DEF OffsetInv

\* The invariant holds for a new shape.
LEMMA InitInv ==
  ASSUME Init
  PROVE  OffsetInv
<1>1. 0 \in 0 .. MaxInt64
  BY WidthAssumption
<1>2. current \in Text /\ ParseOffset(current) \in {SequenceOffset(0), NowOffset}
  BY <1>1, ParseSequence, ParseNow, Zenon DEF Init
<1>3. Good(ParseOffset(current))
  BY <1>1, <1>2, GoodKinds, Zenon
<1>4. log \in Seq(Text) /\ parsed \in Seq(Offset) /\ Len(log) = 0 /\ Len(parsed) = 0
  BY DEF Init
<1>5. QED
  BY <1>2, <1>3, <1>4 DEF Init, OffsetInv, Ordered

\* applyChangeOffsets, with a commit LSN or without one, keeps the invariant.
LEMMA RefreshInv ==
  ASSUME OffsetInv, NEW n \in 1 .. MaxBatch, NEW lsn \in CommitLSNs \cup {0}, Refresh(n, lsn)
  PROVE  OffsetInv'
<1> DEFINE ts == BatchTexts(n, lsn)
           ps == BatchParsed(n, lsn)
           o  == ParseOffset(current)
<1>0. Good(o) /\ o.pos \in Nat /\ o.lsn \in Nat
  BY DEF OffsetInv, Good, Offset
<1>1. n \in Nat \ {0} /\ n <= MaxInt64 + 1 /\ MaxInt64 \in Nat
  BY BatchAssumption, WidthAssumption
<1>2. CASE lsn = 0
  <2>1. o.pos + n <= MaxInt64
    BY <1>0, <1>1, <1>2 DEF Refresh, RoomFor
  <2>2. ASSUME NEW i \in 1 .. n
        PROVE  i - 1 \in Nat /\ o.pos + (i - 1) + 1 <= MaxInt64
    BY <1>0, <1>1, <2>1
  <2>3. /\ ts = [i \in 1 .. n |-> NextGeneratedText(current, i - 1)]
        /\ ps = [i \in 1 .. n |-> NextGeneratedOffset(o, i - 1)]
    BY <1>2, CurrentIsLast DEF BatchTexts, BatchParsed
  <2> HIDE DEF ts, ps
  <2>4. ASSUME NEW i \in 1 .. n
        PROVE  /\ ts[i] \in Text /\ ParseOffset(ts[i]) = ps[i]
               /\ Good(ps[i]) /\ ps[i] \in Offset /\ After(ps[i], o)
    BY <1>0, <2>2, <2>3, NextText, ZenonT(60) DEF Good
  <2>5. ASSUME NEW i \in 1 .. n, NEW j \in 1 .. n, i < j
        PROVE  After(ps[j], ps[i])
    <3>1. i - 1 < j - 1
      BY <2>5
    <3>2. QED
      BY <1>0, <2>2, <2>3, <3>1, NextOrdered, ZenonT(60)
  <2>6. Batch(n, ts, ps)
    <3>1. ts \in [1 .. n -> Text] /\ ps \in [1 .. n -> Offset]
      BY <2>3, <2>4, Zenon
    <3>2. n \in 1 .. n
      BY <1>1
    <3>3. QED
      BY <1>1, <2>4, <2>5, <3>1, <3>2, ZenonT(60) DEF Batch
  <2>7. QED
    BY <2>6, BatchKeeps, Zenon DEF Refresh, ts, ps
<1>3. CASE lsn # 0
  <2>1. lsn \in 1 .. MaxUint64 /\ lsn > 0 /\ lsn > o.lsn
    BY <1>3, CommitLSNAssumption, WidthAssumption DEF Refresh
  <2>2. ASSUME NEW i \in 1 .. n
        PROVE  i - 1 \in 0 .. MaxInt64
    BY <1>1
  <2>3. /\ ts = [i \in 1 .. n |-> FormatLSNOffset(lsn, i - 1)]
        /\ ps = [i \in 1 .. n |-> LSNOffset(lsn, i - 1)]
    BY <2>1, Zenon DEF BatchTexts, BatchParsed
  <2> HIDE DEF ts, ps
  <2>4. ASSUME NEW i \in 1 .. n
        PROVE  /\ ts[i] \in Text /\ ParseOffset(ts[i]) = ps[i]
               /\ Good(ps[i]) /\ ps[i] \in Offset
    BY <2>1, <2>2, <2>3, ParseLSN, GoodKinds, ZenonT(60) DEF Good
  <2>5. ASSUME NEW i \in 1 .. n
        PROVE  After(ps[i], o)
    BY <1>0, <2>1, <2>3, SMT, SMTT(30) DEF After, CompareOffsets, CompareInt, LSNOffset, Good, Offset,
       RankLSN, RankSequence
  <2>6. ASSUME NEW i \in 1 .. n, NEW j \in 1 .. n, i < j
        PROVE  After(ps[j], ps[i])
    BY <2>1, <2>3, <2>6 DEF After, CompareOffsets, CompareInt, LSNOffset, RankLSN, RankSequence
  <2>7. Batch(n, ts, ps)
    <3>1. ts \in [1 .. n -> Text] /\ ps \in [1 .. n -> Offset]
      BY <2>3, <2>4, Zenon
    <3>2. n \in 1 .. n
      BY <1>1
    <3>3. QED
      BY <1>1, <2>4, <2>5, <2>6, <3>1, <3>2, ZenonT(60) DEF Batch
  <2>8. QED
    BY <2>7, BatchKeeps, Zenon DEF Refresh, ts, ps
<1>4. QED
  BY <1>2, <1>3, ZenonT(60)

\* The offset d positions beyond o.
Beyond(o, d) ==
  IF d = 0 THEN o
  ELSE IF o.rank = RankLSN THEN LSNOffset(o.lsn, o.pos + d)
  ELSE IF o.rank = RankNow THEN LSNOffset(1, d - 1)
  ELSE SequenceOffset(o.pos + d)

\* The text of an offset.
TextOf(o) == IF o.rank = RankLSN THEN FormatLSNOffset(o.lsn, o.pos)
                                  ELSE FormatSequenceOffset(o.pos)

\* The next generated text is the text of the next generated offset.
LEMMA NextIsWritten ==
  ASSUME NEW t, NEW s \in Nat, Good(ParseOffset(t))
  PROVE  NextGeneratedText(t, s) = TextOf(NextGeneratedOffset(ParseOffset(t), s))
BY DEF NextGeneratedText, NextGeneratedOffset, TextOf, LSNOffset, SequenceOffset, Good, Offset,
   RankInvalid, RankSequence, RankNow, RankLSN

\* A step of s messages from the offset d beyond o leads to d + s + 1.
LEMMA NextBeyond ==
  ASSUME NEW o, Good(o), NEW d \in Nat, NEW s \in Nat, d # 0 \/ s = 0
  PROVE  NextGeneratedOffset(Beyond(o, d), s) = Beyond(o, d + s + 1)
<1>1. o.pos \in Nat /\ o.lsn \in Nat /\ d + s + 1 # 0
  BY KindOfGood
<1> USE DEF NextGeneratedOffset, Beyond, RankInvalid, RankSequence, RankNow, RankLSN,
            LSNOffset, SequenceOffset
<1>2. CASE o.rank = RankLSN
  BY <1>1, <1>2
<1>3. CASE o.rank = RankNow
  BY <1>1, <1>3, SMT, SMTT(30)
<1>4. CASE o.rank = RankSequence
  BY <1>1, <1>4
<1> HIDE DEF NextGeneratedOffset, Beyond, RankInvalid, RankSequence, RankNow, RankLSN,
            LSNOffset, SequenceOffset
<1>5. QED
  BY <1>2, <1>3, <1>4, KindOfGood, Zenon

\* An offset beyond a good one is good unless the position overflows.
LEMMA BeyondGood ==
  ASSUME NEW o, Good(o), NEW d \in Nat, o.pos + d <= MaxInt64
  PROVE  Good(Beyond(o, d))
<1>1. o.pos \in Nat /\ o.lsn \in Nat /\ MaxInt64 \in Nat /\ 1 \in 1 .. MaxUint64
  BY WidthAssumption DEF Good, Offset
<1>2. CASE d = 0
  BY <1>2, Zenon DEF Beyond
<1>3. CASE d # 0
  <2>1. o.pos + d \in 0 .. MaxInt64 /\ d - 1 \in 0 .. MaxInt64
    BY <1>1, <1>3
  <2>2. o.rank = RankLSN => o.lsn \in 1 .. MaxUint64
    BY Zenon DEF Good
  <2>3. QED
    BY <1>1, <1>3, <2>1, <2>2, GoodKinds, ZenonT(60) DEF Beyond
<1>4. QED
  BY <1>2, <1>3, Zenon

\* The further beyond, the later.
LEMMA BeyondAfter ==
  ASSUME NEW o, Good(o), NEW d \in Nat, NEW e \in Nat, d < e
  PROVE  After(Beyond(o, e), Beyond(o, d))
<1> DEFINE a == Beyond(o, e)
           b == Beyond(o, d)
<1>1. o.pos \in Nat /\ o.lsn \in Nat
  BY KindOfGood, Zenon
<1>2. e # 0
  OBVIOUS
<1>3. CASE o.rank = RankLSN
  <2>1. a.rank = RankLSN /\ a.lsn = o.lsn /\ a.pos = o.pos + e
    BY <1>2, <1>3, ZenonT(60) DEF Beyond, LSNOffset
  <2>2. b.rank = RankLSN /\ b.lsn = o.lsn /\ b.pos = o.pos + d
    BY <1>1, <1>3 DEF Beyond, LSNOffset
  <2> HIDE DEF a, b
  <2>3. After(a, b)
    BY <1>1, <2>1, <2>2 DEF After, CompareOffsets, CompareInt, RankLSN, RankSequence
  <2>4. QED
    BY <2>3, Zenon DEF a, b
<1>4. CASE o.rank = RankNow
  <2>1. a.rank = RankLSN /\ a.lsn = 1 /\ a.pos = e - 1
    BY <1>2, <1>4 DEF Beyond, LSNOffset, RankLSN, RankNow
  <2>2. CASE d = 0
    <3>1. b.rank = RankNow
      BY <1>4, <2>2, ZenonT(60) DEF Beyond
    <3> HIDE DEF a, b
    <3>2. After(a, b)
      BY <2>1, <3>1 DEF After, CompareOffsets, CompareInt, RankLSN, RankNow
    <3>3. QED
      BY <3>2, Zenon DEF a, b
  <2>3. CASE d # 0
    <3>1. b.rank = RankLSN /\ b.lsn = 1 /\ b.pos = d - 1
      BY <1>4, <2>3 DEF Beyond, LSNOffset, RankLSN, RankNow
    <3> HIDE DEF a, b
    <3>2. After(a, b)
      BY <2>1, <3>1, SMT, SMTT(30) DEF After, CompareOffsets, CompareInt, RankLSN, RankSequence
    <3>3. QED
      BY <3>2, Zenon DEF a, b
  <2>4. QED
    BY <2>2, <2>3, ZenonT(60)
<1>5. CASE o.rank = RankSequence
  <2>1. a.rank = RankSequence /\ a.pos = o.pos + e
    BY <1>2, <1>5 DEF Beyond, SequenceOffset, RankLSN, RankNow, RankSequence
  <2>2. b.rank = RankSequence /\ b.pos = o.pos + d
    BY <1>1, <1>5 DEF Beyond, SequenceOffset, RankLSN, RankNow, RankSequence
  <2> HIDE DEF a, b
  <2>3. After(a, b)
    BY <1>1, <2>1, <2>2 DEF After, CompareOffsets, CompareInt
  <2>4. QED
    BY <2>3, Zenon DEF a, b
<1>6. QED
  BY <1>3, <1>4, <1>5, KindOfGood, ZenonT(60)

\* ParseOffset reads back the text of a good offset other than now.
LEMMA WrittenParses ==
  ASSUME NEW o, Good(o), o.rank # RankNow
  PROVE  TextOf(o) \in Text /\ ParseOffset(TextOf(o)) = o
<1>1. o \in Offset /\ o.pos \in 0 .. MaxInt64 /\ o.lsn \in Nat
  BY WidthAssumption DEF Good, Offset
<1>2. CASE o.rank = RankLSN
  <2>1. o.lsn \in 1 .. MaxUint64
    BY <1>2, Zenon DEF Good
  <2>2. o = LSNOffset(o.lsn, o.pos)
    BY <1>1, <1>2, Zenon DEF Offset, LSNOffset
  <2>3. QED
    BY <1>1, <1>2, <2>1, <2>2, ParseLSN, ZenonT(60) DEF TextOf
<1>3. CASE o.rank = RankSequence
  <2>1. o = SequenceOffset(o.pos)
    BY <1>1, <1>3 DEF Offset, SequenceOffset, Good, RankSequence, RankLSN
  <2>2. QED
    BY <1>1, <1>3, <2>1, ParseSequence DEF TextOf, RankSequence, RankLSN
<1>4. QED
  BY <1>2, <1>3 DEF Good, Offset, RankInvalid, RankSequence, RankNow, RankLSN

\* How far Append is beyond the offset before the batch after k messages: it counts
\* the index of each message from the offset of the message before.
Far(k) == (k * (k + 1)) \div 2

\* The k-th message of Append is k + 1 positions beyond the one before.
LEMMA FarGrows ==
  /\ Far(0) = 0
  /\ \A k \in Nat : Far(k) \in Nat /\ Far(k + 1) = Far(k) + k + 1
<1>1. Far(0) = 0
  BY DEF Far
<1>2. ASSUME NEW k \in Nat
      PROVE  Far(k) \in Nat /\ Far(k + 1) = Far(k) + k + 1
  <2> DEFINE x == k * (k + 1)
  <2>1. x \in Nat /\ (k + 1) * (k + 1 + 1) = x + 2 * (k + 1)
    OBVIOUS
  <2> HIDE DEF x
  <2>2. (x + 2 * (k + 1)) \div 2 = x \div 2 + (k + 1) /\ x \div 2 \in Nat
    BY <2>1
  <2>3. QED
    BY <2>1, <2>2 DEF Far, x
<1>3. QED
  BY <1>1, <1>2

\* Induction over 0 .. n for a set.  The lemmas that need it assume it; it is proved
\* at the end, with what else comes from the library.
Climbs ==
  \A n \in Nat : \A S :
    0 \in S /\ (\A k \in 1 .. n : k - 1 \in S => k \in S) => \A k \in 0 .. n : k \in S

\* Far increases.
LEMMA FarOrder ==
  ASSUME Climbs, NEW i \in Nat, NEW j \in Nat, i < j
  PROVE  Far(i) < Far(j)
<1> DEFINE S == {k \in Nat : i < k => Far(i) < Far(k)}
<1>1. 0 \in S
  OBVIOUS
<1>2. ASSUME NEW k \in 1 .. j, k - 1 \in S
      PROVE  k \in S
  <2>1. k - 1 \in Nat /\ k \in Nat /\ (k - 1) + 1 = k
    OBVIOUS
  <2>2. Far(k) = Far(k - 1) + (k - 1) + 1 /\ Far(k - 1) \in Nat /\ Far(i) \in Nat
    BY <2>1, FarGrows, Zenon
  <2>3. i < k => i = k - 1 \/ i < k - 1
    BY <2>1
  <2>4. i < k => Far(i) < Far(k)
    BY <1>2, <2>1, <2>2, <2>3
  <2>5. QED
    BY <2>1, <2>4, Zenon
<1> HIDE DEF S
<1>3. \A k \in 0 .. j : k \in S
  BY <1>1, <1>2, Zenon DEF Climbs
<1>4. j \in S
  BY <1>3
<1>5. QED
  BY <1>4 DEF S

\* The offset of a message of Append from the one before.
LEMMA FarNext ==
  ASSUME Climbs, NEW o, Good(o), NEW n \in Nat, NEW k \in 1 .. n
  PROVE  Beyond(o, Far(k)) = NextGeneratedOffset(Beyond(o, Far(k - 1)), k - 1)
<1>1. k - 1 \in Nat /\ (k - 1) + 1 = k
  OBVIOUS
<1>2. Far(k - 1) \in Nat /\ Far(k) = Far(k - 1) + (k - 1) + 1
  BY <1>1, FarGrows, Zenon
<1>3. k - 1 = 0 \/ Far(0) < Far(k - 1)
  BY <1>1, FarOrder
<1>4. Far(k - 1) # 0 \/ k - 1 = 0
  BY <1>2, <1>3, FarGrows
<1>5. QED
  BY <1>1, <1>2, <1>4, NextBeyond

\* The closed form of AppendParsed, for a batch of any length: a recursive function
\* is the only one that satisfies its equations.
LEMMA ParsedRun ==
  ASSUME Climbs, OffsetInv, NEW n \in Nat
  PROVE  AppendParsed(n) = [i \in 1 .. n |-> Beyond(ParseOffset(current), Far(i))]
<1> DEFINE o == ParseOffset(current)
           W == [k \in 0 .. n |-> Beyond(o, Far(k))]
           Runs(g) == g = [k \in 0 .. n |-> IF k = 0 THEN o
                                            ELSE NextGeneratedOffset(g[k - 1], k - 1)]
           r == CHOOSE g : Runs(g)
<1>1. Good(o)
  BY DEF OffsetInv
<1>2. AppendParsed(n) = [i \in 1 .. n |-> r[i]]
  BY CurrentIsLast DEF AppendParsed
<1> HIDE DEF o
<1>3. ASSUME NEW k \in 1 .. n
      PROVE  Beyond(o, Far(k)) = NextGeneratedOffset(Beyond(o, Far(k - 1)), k - 1)
  BY <1>1, FarNext, Zenon
<1>4. Runs(W)
  <2>1. ASSUME NEW k \in 0 .. n
        PROVE  W[k] = IF k = 0 THEN o ELSE NextGeneratedOffset(W[k - 1], k - 1)
    <3>1. CASE k = 0
      BY <3>1, FarGrows, Zenon DEF Beyond
    <3>2. CASE k # 0
      <4>1. k \in 1 .. n /\ k - 1 \in 0 .. n
        BY <3>2
      <4>2. QED
        BY <1>3, <3>2, <4>1
    <3>3. QED
      BY <3>1, <3>2, Zenon
  <2>2. QED
    BY <2>1, Zenon
<1>5. Runs(r)
  BY <1>4, Zenon
<1> HIDE DEF r
<1>6. \A k \in 0 .. n : r[k] = W[k]
  <2> DEFINE S == {k \in 0 .. n : r[k] = W[k]}
  <2>1. 0 \in S
    <3>1. 0 \in 0 .. n
      OBVIOUS
    <3>2. r[0] = o
      BY <1>5, <3>1, Zenon
    <3>3. W[0] = o
      BY <3>1, FarGrows, Zenon DEF Beyond
    <3>4. QED
      BY <3>1, <3>2, <3>3
  <2>2. ASSUME NEW k \in 1 .. n, k - 1 \in S
        PROVE  k \in S
    <3>1. k \in 0 .. n /\ k # 0 /\ r[k - 1] = W[k - 1]
      BY <2>2
    <3>2. r[k] = NextGeneratedOffset(r[k - 1], k - 1)
      BY <1>5, <3>1, ZenonT(60)
    <3>3. W[k] = NextGeneratedOffset(W[k - 1], k - 1)
      <4> HIDE DEF W
      <4>1. QED
        BY <1>4, <3>1
    <3>4. QED
      BY <3>1, <3>2, <3>3, Zenon
  <2> HIDE DEF S
  <2>3. \A k \in 0 .. n : k \in S
    BY <2>1, <2>2, Zenon DEF Climbs
  <2>4. QED
    BY <2>3 DEF S
<1>7. QED
  BY <1>2, <1>6 DEF o

\* The offsets of a batch are good if the last position does not overflow.
LEMMA FarGood ==
  ASSUME Climbs, NEW o, Good(o), NEW n \in Nat, o.pos + Far(n) <= MaxInt64, NEW k \in 1 .. n
  PROVE  /\ Far(k) \in Nat /\ Far(k) > 0 /\ Good(Beyond(o, Far(k)))
         /\ Beyond(o, Far(k)).rank # RankNow
<1>1. k \in Nat /\ 0 < k /\ (k = n \/ k < n) /\ o.pos \in Nat /\ MaxInt64 \in Nat
  BY WidthAssumption DEF Good, Offset
<1>2. Far(k) \in Nat /\ Far(n) \in Nat /\ Far(0) = 0
  BY <1>1, FarGrows, Zenon
<1>3. Far(0) < Far(k) /\ Far(k) <= Far(n)
  BY <1>1, <1>2, FarOrder
<1>4. o.pos + Far(k) <= MaxInt64 /\ Far(k) > 0
  BY <1>1, <1>2, <1>3
<1>5. Good(Beyond(o, Far(k)))
  BY <1>2, <1>4, BeyondGood, ZenonT(60)
<1>6. Beyond(o, Far(k)).rank # RankNow
  BY <1>2, <1>4 DEF Beyond, LSNOffset, SequenceOffset, RankNow, RankLSN, RankSequence
<1>7. QED
  BY <1>2, <1>4, <1>5, <1>6, ZenonT(60)

\* The closed form of AppendRun, for a batch of any length.
LEMMA TextRun ==
  ASSUME Climbs, OffsetInv, NEW n \in Nat \ {0}, ParseOffset(current).pos + Far(n) <= MaxInt64
  PROVE  /\ AppendRun(n).texts = [i \in 1 .. n |-> TextOf(Beyond(ParseOffset(current), Far(i)))]
         /\ AppendRun(n).cur = TextOf(Beyond(ParseOffset(current), Far(n)))
<1> DEFINE o == ParseOffset(current)
           C(k) == IF k = 0 THEN current ELSE TextOf(Beyond(o, Far(k)))
           B(k) == [i \in 1 .. k |-> TextOf(Beyond(o, Far(i)))]
           Step(b, k) ==
             LET text == NextGeneratedText(b.cur, k - 1)
             IN  [cur   |-> IF After(ParseOffset(text), ParseOffset(b.cur)) THEN text ELSE b.cur,
                  texts |-> Append(b.texts, text)]
           W == [k \in 0 .. n |-> [cur |-> C(k), texts |-> B(k)]]
           Runs(g) == g = [k \in 0 .. n |-> IF k = 0 THEN [cur |-> current, texts |-> <<>>]
                                            ELSE Step(g[k - 1], k)]
           r == CHOOSE g : Runs(g)
<1>1. Good(o)
  BY Zenon DEF OffsetInv
<1>2. AppendRun(n) = r[n]
  BY Zenon DEF AppendRun
<1> HIDE DEF o, r
<1>3. ASSUME NEW k \in 0 .. n
      PROVE  ParseOffset(C(k)) = Beyond(o, Far(k)) /\ Good(Beyond(o, Far(k)))
  <2>1. CASE k = 0
    BY <1>1, <2>1, FarGrows, ZenonT(60) DEF Beyond, o
  <2>2. CASE k # 0
    <3>1. k \in 1 .. n
      BY <2>2
    <3>2. Good(Beyond(o, Far(k))) /\ Beyond(o, Far(k)).rank # RankNow
      BY <1>1, <3>1, FarGood, Zenon DEF o
    <3>3. QED
      BY <2>2, <3>2, WrittenParses, ZenonT(60)
  <2>3. QED
    BY <2>1, <2>2, Zenon
<1>4. ASSUME NEW k \in 1 .. n
      PROVE  /\ NextGeneratedText(C(k - 1), k - 1) = C(k)
             /\ After(ParseOffset(C(k)), ParseOffset(C(k - 1)))
  <2>1. k - 1 \in Nat /\ k - 1 \in 0 .. n /\ k \in 0 .. n /\ k # 0 /\ k \in Nat /\ k - 1 < k
    OBVIOUS
  <2>2. NextGeneratedText(C(k - 1), k - 1) = TextOf(NextGeneratedOffset(ParseOffset(C(k - 1)), k - 1))
    BY <1>3, <2>1, NextIsWritten, Zenon
  <2>3. ParseOffset(C(k - 1)) = Beyond(o, Far(k - 1)) /\ ParseOffset(C(k)) = Beyond(o, Far(k))
    BY <1>3, <2>1, Zenon
  <2>4. NextGeneratedOffset(Beyond(o, Far(k - 1)), k - 1) = Beyond(o, Far(k))
    BY <1>1, FarNext
  <2>5. Far(k - 1) < Far(k) /\ Far(k - 1) \in Nat /\ Far(k) \in Nat
    BY <2>1, FarOrder, FarGrows, Zenon
  <2>6. After(Beyond(o, Far(k)), Beyond(o, Far(k - 1)))
    BY <1>1, <2>5, BeyondAfter, ZenonT(60)
  <2>7. C(k) = TextOf(Beyond(o, Far(k)))
    BY <2>1
  <2> HIDE DEF C
  <2>8. QED
    BY <2>2, <2>3, <2>4, <2>6, <2>7, ZenonT(60)
<1>5. ASSUME NEW k \in 1 .. n
      PROVE  B(k) = Append(B(k - 1), C(k))
  BY k # 0 /\ k \in Nat /\ k - 1 \in Nat
<1>6. B(0) = <<>>
  OBVIOUS
<1> HIDE DEF C, B
<1>7. W[0] = [cur |-> current, texts |-> <<>>] /\ 0 \in 0 .. n
  BY <1>6 DEF C
<1>8. ASSUME NEW k \in 1 .. n
      PROVE  W[k] = Step(W[k - 1], k)
  <2>1. k \in 0 .. n /\ k - 1 \in 0 .. n
    OBVIOUS
  <2>2. W[k] = [cur |-> C(k), texts |-> B(k)]
    BY <2>1, Zenon
  <2>3. W[k - 1].cur = C(k - 1) /\ W[k - 1].texts = B(k - 1)
    BY <2>1
  <2> HIDE DEF W
  <2>4. QED
    BY <1>4, <1>5, <2>2, <2>3, ZenonT(60)
<1> HIDE DEF Step, W
<1>9. Runs(W)
  <2>1. ASSUME NEW k \in 0 .. n
        PROVE  W[k] = IF k = 0 THEN [cur |-> current, texts |-> <<>>] ELSE Step(W[k - 1], k)
    BY <1>7, <1>8
  <2>2. W = [k \in 0 .. n |-> W[k]]
    BY DEF W
  <2>3. QED
    BY <2>1, <2>2, ZenonT(60)
<1>10. Runs(r)
  BY <1>9, Zenon DEF r
<1>11. \A k \in 0 .. n : r[k] = W[k]
  <2> DEFINE S == {k \in 0 .. n : r[k] = W[k]}
  <2>1. 0 \in S
    BY <1>7, <1>10, Zenon
  <2>2. ASSUME NEW k \in 1 .. n, k - 1 \in S
        PROVE  k \in S
    <3>1. k \in 0 .. n /\ k # 0 /\ r[k - 1] = W[k - 1]
      BY <2>2
    <3>2. r[k] = Step(r[k - 1], k)
      BY <1>10, <3>1, Zenon
    <3>3. QED
      BY <1>8, <3>1, <3>2, ZenonT(60)
  <2> HIDE DEF S
  <2>3. \A k \in 0 .. n : k \in S
    BY <2>1, <2>2, Zenon DEF Climbs
  <2>4. QED
    BY <2>3, Zenon DEF S
<1>12. W[n] = [cur |-> C(n), texts |-> B(n)]
  BY n \in 0 .. n DEF W
<1>13. C(n) = TextOf(Beyond(o, Far(n)))
  BY DEF C
<1>14. QED
  BY <1>2, <1>11, <1>12, <1>13, n \in 0 .. n, SMT, SMTT(30) DEF B, o

\* Append keeps the invariant.
LEMMA AppendInv ==
  ASSUME Climbs, OffsetInv, NEW n \in 1 .. MaxBatch, AppendBatch(n)
  PROVE  OffsetInv'
<1> DEFINE o  == ParseOffset(current)
           ts == [i \in 1 .. n |-> TextOf(Beyond(o, Far(i)))]
           ps == [i \in 1 .. n |-> Beyond(o, Far(i))]
<1>1. Good(o) /\ n \in Nat \ {0} /\ o.pos + Far(n) <= MaxInt64
  BY BatchAssumption DEF OffsetInv, AppendBatch, RoomFor, Far
<1>0. n \in 1 .. n
  BY <1>1
<1>2. log' = log \o ts /\ parsed' = parsed \o ps /\ current' = ts[n]
  <2>1. AppendRun(n).texts = ts /\ AppendRun(n).cur = TextOf(Beyond(o, Far(n)))
    BY <1>1, TextRun, Zenon
  <2>2. AppendParsed(n) = ps
    BY <1>1, ParsedRun
  <2>3. ts[n] = TextOf(Beyond(o, Far(n)))
    BY <1>0, Zenon
  <2> HIDE DEF ts, ps
  <2>4. QED
    BY <2>1, <2>2, <2>3, Zenon DEF AppendBatch
<1>3. ASSUME NEW i \in 1 .. n
      PROVE  /\ ts[i] \in Text /\ ParseOffset(ts[i]) = ps[i] /\ ps[i] \in Offset
             /\ Good(ps[i]) /\ After(ps[i], o)
  <2>1. /\ Far(i) \in Nat /\ Far(i) > 0 /\ Good(Beyond(o, Far(i)))
        /\ Beyond(o, Far(i)).rank # RankNow
    BY <1>1, FarGood, Zenon
  <2>2. /\ TextOf(Beyond(o, Far(i))) \in Text
        /\ ParseOffset(TextOf(Beyond(o, Far(i)))) = Beyond(o, Far(i))
    BY <2>1, WrittenParses, Zenon
  <2>3. After(Beyond(o, Far(i)), Beyond(o, 0)) /\ Beyond(o, 0) = o
    BY <1>1, <2>1, BeyondAfter, ZenonT(60) DEF Beyond
  <2>4. QED
    BY <2>1, <2>2, <2>3, Zenon DEF Good
<1>4. ASSUME NEW i \in 1 .. n, NEW j \in 1 .. n, i < j
      PROVE  After(ps[j], ps[i])
  <2>1. i \in Nat /\ j \in Nat
    OBVIOUS
  <2>2. Far(i) < Far(j) /\ Far(i) \in Nat /\ Far(j) \in Nat
    BY <1>4, <2>1, FarOrder, FarGrows, ZenonT(60)
  <2>3. QED
    BY <1>1, <2>2, BeyondAfter, Zenon
<1>5. Batch(n, ts, ps)
  <2>1. ts \in [1 .. n -> Text] /\ ps \in [1 .. n -> Offset] /\ n \in 1 .. n
    BY <1>1, <1>3
  <2> HIDE DEF ts, ps
  <2>2. QED
    BY <1>1, <1>3, <1>4, <2>1, ZenonT(60) DEF Batch
<1> HIDE DEF ts, ps
<1>6. QED
  BY <1>2, <1>5, BatchKeeps, ZenonT(60)

-----------------------------------------------------------------------------
(***************************************************************************)
(* What the library has to say about numbers and finite sets, and what     *)
(* follows from it for batches and chunks of any number.                   *)
(***************************************************************************)
\* The library's induction theorems take an operator as a parameter and cannot be
\* cited; that a set of numbers has a least element can.
LEMMA Climb == Climbs
<1> SUFFICES ASSUME NEW n \in Nat, NEW S, 0 \in S, \A k \in 1 .. n : k - 1 \in S => k \in S
             PROVE  \A k \in 0 .. n : k \in S
  BY Zenon DEF Climbs
<1> DEFINE T == {k \in 0 .. n : k \notin S}
<1> SUFFICES ASSUME T # {}
             PROVE  FALSE
  OBVIOUS
<1>1. T \subseteq Nat
  OBVIOUS
<1>2. PICK k \in T : \A e \in T : <<e, k>> \notin OpToRel(<, Nat)
  <2> HIDE DEF T
  <2>1. QED
    BY <1>1, NatLessThanWellFounded, WFMin, Zenon
<1>3. \A e \in T : ~(e < k)
  BY <1>1, <1>2, Zenon DEF OpToRel
<1>4. k \in 0 .. n /\ k \notin S
  OBVIOUS
<1>5. k \in 1 .. n /\ k - 1 \in 0 .. n /\ k - 1 < k
  BY <1>4
<1>6. k - 1 \in S
  BY <1>3, <1>5, Zenon
<1>7. QED
  BY <1>4, <1>5, <1>6, Zenon

\* The i-th name is that of chunk i - 1 as long as all numbers have the same number
\* of digits.
LEMMA NthInOrder ==
  ASSUME MaxChunks <= PathLimit, Len(chunks) \in 0 .. MaxChunks, NEW i \in 1 .. Len(chunks)
  PROVE  NthPath(i) = i - 1
<1>1. ASSUME NEW n \in Listed
      PROVE  Cardinality({m \in Listed : PathLess(m, n)}) = n
  <2>1. n \in Nat /\ n < PathLimit /\ PathLimit \in Nat
    BY DiskAssumption DEF Listed
  <2>2. ASSUME NEW m \in Listed
        PROVE  PathLess(m, n) <=> m < n
    <3>1. m \in Nat /\ m < PathLimit
      BY DiskAssumption DEF Listed
    <3>2. QED
      BY <2>1, <3>1 DEF PathLess
  <2>3. {m \in Listed : PathLess(m, n)} = 0 .. n - 1
    <3>1. \A m : m \in Listed /\ m < n <=> m \in 0 .. n - 1
      BY DEF Listed
    <3>2. QED
      BY <2>2, <3>1, Zenon
  <2>4. Cardinality(0 .. n - 1) = n
    <3>1. n - 1 \in Int /\ 0 \in Int
      BY <2>1
    <3>2. Cardinality(0 .. n - 1) = IF 0 > n - 1 THEN 0 ELSE (n - 1) - 0 + 1
      BY <3>1, FS_Interval, Zenon
    <3>3. QED
      BY <2>1, <3>2
  <2>5. QED
    BY <2>3, <2>4, Zenon
<1>2. i - 1 \in Listed
  BY DEF Listed
<1> DEFINE Before(n) == Cardinality({m \in Listed : PathLess(m, n)})
<1>3. \A n \in Listed : Before(n) = n
  BY <1>1, Zenon
<1>4. NthPath(i) = CHOOSE n \in Listed : Before(n) = i - 1
  BY DEF NthPath
<1> HIDE DEF Before
<1>5. QED
  BY <1>2, <1>3, <1>4, Zenon

\* loadShapeChanges reads the text that the files are pieces of, if none is missing:
\* what it has read after k files is the text up to the k-th cut.
LEMMA LoadedText ==
  ASSUME MaxChunks <= PathLimit, chunks \in Seq(1 .. MaxMessages), Len(chunks) <= MaxChunks,
         NEW text \in Seq(Message), Chunked(chunks, files, text), ~Damaged
  PROVE  loadShapeChanges = text
<1> DEFINE m == Len(chunks)
           Reads(g) == g = [k \in 0 .. m |-> IF k = 0 THEN <<>> ELSE g[k - 1] \o files[NthPath(k)]]
           r == CHOOSE g : Reads(g)
<1>1. m \in Nat /\ m \in 0 .. MaxChunks
  BY DiskAssumption
<1>2. PICK cut \in [0 .. m -> 0 .. Len(text)] :
        /\ cut[0] = 0 /\ cut[m] = Len(text)
        /\ \A n \in 0 .. m - 1 :
             /\ cut[n + 1] = cut[n] + chunks[n + 1]
             /\ files[n] \in {Missing, SubSeq(text, cut[n] + 1, cut[n + 1])}
  BY Zenon DEF Chunked
<1>3. loadShapeChanges = r[m]
  BY DEF loadShapeChanges
<1> DEFINE W == [k \in 0 .. m |-> SubSeq(text, 1, cut[k])]
<1>4. ASSUME NEW k \in 1 .. m
      PROVE  W[k] = W[k - 1] \o files[NthPath(k)]
  <2>1. k - 1 \in 0 .. m - 1 /\ (k - 1) + 1 = k /\ k \in 0 .. m /\ k - 1 \in 0 .. m
    BY <1>1
  <2>2. NthPath(k) = k - 1
    BY <1>1, NthInOrder, Zenon
  <2>3. files[k - 1] # Missing
    BY <2>1 DEF Damaged, Listed
  <2>4. /\ files[k - 1] \in {Missing, SubSeq(text, cut[k - 1] + 1, cut[(k - 1) + 1])}
        /\ cut[(k - 1) + 1] = cut[k - 1] + chunks[(k - 1) + 1]
    BY <1>2, <2>1, Zenon
  <2>5. chunks[k] \in Nat /\ cut[k - 1] \in 0 .. Len(text) /\ cut[k] \in 0 .. Len(text)
    BY <2>1, SMT, SMTT(30)
  <2>6. cut[k] \in cut[k - 1] .. Len(text)
    BY <2>1, <2>4, <2>5
  <2>7. SubSeq(text, 1, cut[k]) = SubSeq(text, 1, cut[k - 1]) \o SubSeq(text, cut[k - 1] + 1, cut[k])
    BY <2>5, <2>6, AdjacentParts, Zenon
  <2>8. W[k] = SubSeq(text, 1, cut[k]) /\ W[k - 1] = SubSeq(text, 1, cut[k - 1])
    BY <2>1, Zenon
  <2>9. files[NthPath(k)] = SubSeq(text, cut[k - 1] + 1, cut[k])
    BY <2>1, <2>2, <2>3, <2>4, ZenonT(60)
  <2>10. QED
    BY <2>7, <2>8, <2>9, Zenon
<1>5. W[0] = <<>> /\ W[m] = text
  <2>1. 0 \in 0 .. m /\ m \in 0 .. m /\ 0 < 1 /\ 1 \in Int /\ 0 \in Int
    BY <1>1
  <2>2. W[0] = SubSeq(text, 1, 0) /\ W[m] = SubSeq(text, 1, Len(text))
    BY <1>2, <2>1, Zenon
  <2>3. QED
    BY <2>1, <2>2, EmptyPart, WholePart, ZenonT(60)
<1>6. Reads(W)
  <2>1. ASSUME NEW k \in 0 .. m
        PROVE  W[k] = IF k = 0 THEN <<>> ELSE W[k - 1] \o files[NthPath(k)]
    <3>1. CASE k = 0
      BY <1>5, <3>1, Zenon
    <3>2. CASE k # 0
      <4>1. k \in 1 .. m
        BY <1>1, <3>2
      <4> HIDE DEF W
      <4>2. QED
        BY <1>4, <3>2, <4>1, ZenonT(60)
    <3>3. QED
      BY <3>1, <3>2, Zenon
  <2>2. QED
    BY <2>1, Zenon
<1>7. Reads(r)
  BY <1>6, Zenon
<1> HIDE DEF W, r
<1>8. \A k \in 0 .. m : r[k] = W[k]
  <2> DEFINE S == {k \in 0 .. m : r[k] = W[k]}
  <2>1. 0 \in S
    <3>1. 0 \in 0 .. m
      BY <1>1
    <3>2. r[0] = <<>>
      BY <1>7, <3>1, Zenon
    <3>3. QED
      BY <1>5, <3>1, <3>2, ZenonT(60)
  <2>2. ASSUME NEW k \in 1 .. m, k - 1 \in S
        PROVE  k \in S
    <3>1. k \in 0 .. m /\ k # 0
      BY <1>1
    <3>2. r[k] = r[k - 1] \o files[NthPath(k)]
      BY <1>7, <3>1, Zenon
    <3>3. r[k - 1] = W[k - 1]
      BY <2>2, Zenon
    <3>4. r[k] = W[k]
      BY <1>4, <3>2, <3>3, ZenonT(60)
    <3>5. QED
      BY <3>1, <3>4, ZenonT(60)
  <2> HIDE DEF S
  <2>3. \A k \in 0 .. m : k \in S
    BY <1>1, <2>1, <2>2, Climb, ZenonT(60) DEF Climbs
  <2>4. QED
    BY <2>3, Zenon DEF S
<1>9. m \in 0 .. m
  BY <1>1
<1>10. QED
  BY <1>3, <1>5, <1>8, <1>9, Zenon

\* What loads is the log that the row stands for.
LEMMA LoadedIsLogged ==
  ASSUME DiskInv, MaxChunks <= PathLimit
  PROVE  ReadsBack
<1>1. Chunked(chunks, files, Logged)
  BY DEF DiskInv
<1>2. Len(chunks) <= MaxChunks
  BY LoggedType, DiskAssumption
<1>3. QED
  BY <1>1, <1>2, LoggedType, LoadedText, ZenonT(60) DEF ReadsBack

-----------------------------------------------------------------------------
\* The invariant holds at all times.
THEOREM DiskInvariant == MaxChunks <= PathLimit => (DiskSpec => []DiskInv)
<1> SUFFICES ASSUME MaxChunks <= PathLimit
             PROVE  DiskSpec => []DiskInv
  OBVIOUS
<1>1. DiskInit => DiskInv
  BY DiskInitInv
<1>2. DiskInv => ReadsBack
  BY LoadedIsLogged
<1>3. DiskInv /\ ReadsBack /\ [DiskNext]_diskVars => DiskInv'
  BY DiskNextInv
<1>4. QED
  BY <1>1, <1>2, <1>3, PTL DEF DiskSpec

\* The types hold at all times: the store lists no more chunks than it may and no
\* empty ones, for any writes, failures and crashes.
THEOREM DiskTypes == MaxChunks <= PathLimit => (DiskSpec => []DiskTypeOK)
<1>1. DiskInv => DiskTypeOK
  BY DEF DiskInv
<1>2. QED
  BY <1>1, DiskInvariant, PTL

\* The invariant says what loads.
LEMMA LoadsHeld ==
  ASSUME DiskInv, MaxChunks <= PathLimit
  PROVE  LoadsWhatWasHeld
BY LoadedIsLogged, Zenon DEF ReadsBack, LoadsWhatWasHeld, Logged

\* A shape that loads has the log that was held in memory, in order, after any
\* number of failed writes and crashes at any step of SaveShape, as long as the
\* numbers of the chunks have as many digits as their names are padded to.
THEOREM AlwaysLoadsWhatWasHeld == MaxChunks <= PathLimit => (DiskSpec => []LoadsWhatWasHeld)
<1> SUFFICES ASSUME MaxChunks <= PathLimit
             PROVE  DiskSpec => []LoadsWhatWasHeld
  OBVIOUS
<1>1. DiskInv => LoadsWhatWasHeld
  BY LoadsHeld
<1>2. QED
  BY <1>1, DiskInvariant, PTL

\* DiskStore implements ShapeStore, the atomic store that ShapeManager relies on,
\* although SaveShape moves files outside the transaction.
THEOREM DiskImplementsStore == MaxChunks <= PathLimit => (DiskSpec => ImplementsShapeStore)
<1> SUFFICES ASSUME MaxChunks <= PathLimit
             PROVE  DiskSpec => ImplementsShapeStore
  OBVIOUS
<1>1. DiskInit => Abstract!StoreInit
  BY DiskInitInv, LoadedIsLogged, StoredInit, Zenon
<1>2. DiskInv => ReadsBack /\ Settled
  BY LoadedIsLogged, StoredIs, Zenon DEF Settled
<1>3. DiskInv /\ DiskInv' /\ ReadsBack /\ Settled /\ Settled' /\ [DiskNext]_diskVars
        => [Abstract!StoreNext]_(Abstract!storeVars)
  BY StoreStep
<1>4. DiskSpec => []DiskInv
  BY DiskInvariant
<1>5. QED
  BY <1>1, <1>2, <1>3, <1>4, PTL DEF DiskSpec, ImplementsShapeStore, Abstract!StoreSpec

\* The offsets of the log of a shape satisfy the invariant at all times.
THEOREM OffsetInvariant == Spec => []OffsetInv
<1>1. Init => OffsetInv
  BY InitInv
<1>2. ASSUME OffsetInv, [Next]_vars
      PROVE  OffsetInv'
  <2>1. CASE \E n \in 1 .. MaxBatch, lsn \in CommitLSNs \cup {0} : Refresh(n, lsn)
    BY <1>2, <2>1, RefreshInv, ZenonT(60)
  <2>2. CASE \E n \in 1 .. MaxBatch : AppendBatch(n)
    BY <1>2, <2>2, Climb, AppendInv, ZenonT(60)
  <2>3. CASE UNCHANGED vars
    BY <1>2, <2>3 DEF OffsetInv, vars
  <2>4. QED
    BY <1>2, <2>1, <2>2, <2>3, ZenonT(60) DEF Next
<1>3. QED
  BY <1>1, <1>2, PTL DEF Spec

\* The current offset and the log are texts and offsets of their types, for any
\* width of int64 and any batches.
THEOREM OffsetTypes == Spec => []TypeOK
<1>1. OffsetInv => TypeOK
  BY DEF OffsetInv, TypeOK
<1>2. QED
  BY <1>1, OffsetInvariant, PTL

\* Every text that applyChangeOffsets or Append writes into the log parses to the
\* offset that the other modules compute for it, and the current offset is the last
\* of them.
THEOREM OffsetTextsAgree == Spec => []TextsAgree
<1>1. OffsetInv => TextsAgree
  BY DEF OffsetInv, TextsAgree
<1>2. QED
  BY <1>1, OffsetInvariant, PTL

\* Every message of the log is after the one before it, over batches with and
\* without a commit LSN in any order, so that a client that asks for what is after
\* its offset misses nothing.
THEOREM OffsetLogIncreasing == Spec => []LogIncreasing
<1>1. OffsetInv => LogIncreasing
  BY DEF OffsetInv, LogIncreasing, Ordered
<1>2. QED
  BY <1>1, OffsetInvariant, PTL

=============================================================================
