------------------------- MODULE ShapeFollowProofs --------------------------
(***************************************************************************)
(* A client that follows a shape misses nothing: FollowerOnTrack of        *)
(* ShapeService, for any definitions, keys, rows, clients and limits.      *)
(*                                                                         *)
(* FollowerOnTrack says what the next read returns.  It is kept by a read  *)
(* only if the request reads from where its client is (Linked), and by a   *)
(* commit only if no message of the log is after the shape's offset        *)
(* (Ordered): a commit has a later LSN than the shape, so its messages are *)
(* after every offset a client can hold, and the older ones stay where     *)
(* they were.                                                              *)
(***************************************************************************)
EXTENDS ShapeService, ShapeNotions, TLAPS

\* ReadMessages and Applied, of a shape.
Later(s, o) ==
  IF CompareOffsets(o, s.offset) = 0 THEN {}
  ELSE {i \in DOMAIN s.changes : After(s.changes[i].offset, o)}

LaterFor(s, o, k) == {i \in Later(s, o) : s.changes[i].key = k}

Patched(s, rows, o) ==
  [k \in Key |-> IF LaterFor(s, o, k) = {} THEN rows[k]
                 ELSE s.changes[CHOOSE i \in LaterFor(s, o, k) :
                                  \A j \in LaterFor(s, o, k) : j <= i].row]

\* A client with these rows at this offset can go on.
OnTrack(s, rows, o) ==
  /\ o.rank # RankInvalid
  /\ ~After(o, s.offset)
  /\ Patched(s, rows, o) = s.materialized

\* No message is after the shape's offset.
Ordered(s) ==
  /\ s.offset.rank # RankInvalid
  /\ \A i \in DOMAIN s.changes : ~After(s.changes[i].offset, s.offset)

OrderedLogs(shapes) == \A h \in Handle : shapes[h].status = "active" => Ordered(shapes[h])

\* FollowerOnTrack, of what one client holds.
Tracks(shapes, c) ==
  c.same => /\ c.handle \in Handle
            /\ shapes[c.handle].status = "active"
                 => OnTrack(shapes[c.handle], c.rows, c.offset)

Reading == {"read", "poll", "stream", "expired"}

\* A request that reads for a client reads from where the client is.
Linked(q) ==
  req[q].pc \in Reading /\ ~req[q].gone
    => client[q].handle = req[q].handle /\ client[q].offset = req[q].offset

FollowInv ==
  /\ OrderedLogs(byHandle)
  /\ \A q \in Waiter : Tracks(byHandle, client[q])
  /\ \A q \in Waiter : Linked(q)

-----------------------------------------------------------------------------
(***************************************************************************)
(* Offsets.                                                                *)
(***************************************************************************)
\* The offsets a request may start from, and the shapes that are not active.
LEMMA FollowConstants ==
  /\ InvalidOffset \in Offset /\ InitialOffset \in Offset /\ NowOffset \in Offset
  /\ Absent.status = "absent" /\ Len(Absent.changes) = 0
  /\ Tombstone.status = "deleted" /\ Len(Tombstone.changes) = 0
<1>1. InvalidOffset \in Offset /\ InitialOffset \in Offset /\ NowOffset \in Offset
  BY DEF Offset, InvalidOffset, InitialOffset, SequenceOffset, NowOffset,
     RankInvalid, RankSequence, RankNow
<1>2. QED
  BY <1>1 DEF Absent, Tombstone

\* An offset is not after itself.
LEMMA OffsetEqualsItself ==
  ASSUME NEW o \in Offset
  PROVE  CompareOffsets(o, o) = 0 /\ ~After(o, o)
BY DEF Offset, CompareOffsets, CompareInt, After

\* What is not after an offset is not after an equal one.
LEMMA EqualOffsets ==
  ASSUME NEW o \in Offset, NEW c \in Offset, NEW m \in Offset,
         CompareOffsets(o, c) = 0, ~After(m, c)
  PROVE  ~After(m, o)
BY DEF Offset, CompareOffsets, CompareInt, After, RankSequence, RankLSN

\* The messages of a commit with a later LSN than the shape's offset are after every
\* offset that the shape accepts.
LEMMA CommitIsAfter ==
  ASSUME NEW o \in Offset, NEW c \in Offset, NEW l \in Nat, NEW p \in Nat,
         ~After(o, c), c.lsn < l
  PROVE  /\ CompareOffsets(o, LSNOffset(l, p)) # 0
         /\ ~After(o, LSNOffset(l, p))
         /\ After(LSNOffset(l, p), o)
BY DEF Offset, CompareOffsets, CompareInt, After, LSNOffset, RankSequence, RankLSN

\* applyChangeOffsets numbers the messages of a commit from 0.
Numbered(msgs, l) == \A i \in DOMAIN msgs : msgs[i].offset = LSNOffset(l, i - 1)

\* The messages of a refresh for a commit.
LEMMA DiffNumbered ==
  ASSUME NEW ks, NEW rows, NEW control, NEW o, NEW l \in Nat, l > 0
  PROVE  Numbered(DiffMessages(ks, rows, control, o, l), l)
BY DEF Numbered, DiffMessages, BatchOffset

\* The offset of a shape after such a batch, and the messages up to it.
LEMMA ExtendedOrdered ==
  ASSUME NEW s \in ShapeState, Ordered(s), NEW rows, NEW msgs \in Seq(Message),
         NEW l \in Nat, s.offset.lsn < l, Numbered(msgs, l)
  PROVE  Ordered(Extended(s, rows, msgs))
<1> DEFINE n == Len(s.changes)
           m == Len(msgs)
           log == s.changes \o msgs
           t == Extended(s, rows, msgs)
<1>1. /\ s.changes \in Seq(Message) /\ s.offset \in Offset /\ n \in Nat /\ m \in Nat
      /\ DOMAIN s.changes = 1 .. n /\ DOMAIN msgs = 1 .. m
      /\ \A i \in 1 .. n : s.changes[i].offset \in Offset
  <2>1. s.changes \in Seq(Message) /\ s.offset \in Offset
    BY DEF ShapeState
  <2>2. \A i \in 1 .. n : s.changes[i] \in Message
    BY <2>1
  <2>3. \A i \in 1 .. n : s.changes[i].offset \in Offset
    BY <2>2 DEF Message
  <2>4. QED
    BY <2>1, <2>3
<1>2. /\ log \in Seq(Message) /\ DOMAIN log = 1 .. n + m
      /\ \A i \in 1 .. n : log[i] = s.changes[i]
      /\ \A i \in n + 1 .. n + m : log[i] = msgs[i - n] /\ i - n \in 1 .. m
  BY <1>1
<1>3. /\ t.changes = log
      /\ t.offset = IF msgs = <<>> THEN s.offset ELSE msgs[m].offset
  BY DEF Extended, ShapeState
<1> HIDE DEF n, m, log, t
<1>4. CASE msgs = <<>>
  <2>1. m = 0
    BY <1>4 DEF m
  <2>2. QED
    BY <1>1, <1>2, <1>3, <1>4, <2>1 DEF Ordered, t
<1>5. CASE msgs # <<>>
  <2>1. m >= 1
    BY <1>5 DEF m
  <2>2. m \in 1 .. m /\ t.offset = LSNOffset(l, m - 1)
    BY <1>1, <1>3, <1>5, <2>1 DEF Numbered
  <2>3. t.offset.rank # RankInvalid
    BY <2>2 DEF LSNOffset, RankInvalid, RankLSN
  <2>4. ASSUME NEW i \in 1 .. n
        PROVE  ~After(log[i].offset, t.offset)
    <3>1. ~After(s.changes[i].offset, s.offset)
      BY <1>1 DEF Ordered
    <3>2. QED
      BY <1>1, <1>2, <2>1, <2>2, <3>1, CommitIsAfter
  <2>5. ASSUME NEW i \in n + 1 .. n + m
        PROVE  ~After(log[i].offset, t.offset)
    <3>1. PICK j \in 1 .. m : log[i].offset = LSNOffset(l, j - 1)
      BY <1>1, <1>2, ZenonT(60) DEF Numbered
    <3>2. QED
      BY <1>1, <2>1, <2>2, <3>1 DEF After, CompareOffsets, CompareInt, LSNOffset, RankLSN, RankSequence
  <2>6. \A i \in 1 .. n + m : i \in 1 .. n \/ i \in n + 1 .. n + m
    BY <1>1
  <2>7. QED
    BY <1>2, <1>3, <2>3, <2>4, <2>5, <2>6 DEF Ordered, t
<1>6. QED
  BY <1>4, <1>5

-----------------------------------------------------------------------------
(***************************************************************************)
(* A batch of a commit keeps every client of the shape on track.           *)
(***************************************************************************)
\* The messages for a key that such a client has yet to read: those it had to read
\* before, and those of the batch.
LEMMA ExtendedLater ==
  ASSUME NEW s \in ShapeState, Ordered(s), NEW rows, NEW msgs \in Seq(Message), msgs # <<>>,
         NEW l \in Nat, s.offset.lsn < l, Numbered(msgs, l),
         NEW o \in Offset, ~After(o, s.offset), NEW k
  PROVE  /\ ~After(o, Extended(s, rows, msgs).offset)
         /\ LaterFor(Extended(s, rows, msgs), o, k) =
              LaterFor(s, o, k)
                \cup {i \in Len(s.changes) + 1 .. Len(s.changes) + Len(msgs) :
                        msgs[i - Len(s.changes)].key = k}
<1> DEFINE n == Len(s.changes)
           m == Len(msgs)
           log == s.changes \o msgs
           t == Extended(s, rows, msgs)
<1>1. /\ s.changes \in Seq(Message) /\ s.offset \in Offset /\ n \in Nat /\ m \in Nat
      /\ DOMAIN s.changes = 1 .. n /\ DOMAIN msgs = 1 .. m /\ m >= 1
  BY DEF ShapeState
<1>2. \A i \in 1 .. n : s.changes[i].offset \in Offset
  <2>1. \A i \in 1 .. n : s.changes[i] \in Message
    BY <1>1
  <2>2. QED
    BY <2>1 DEF Message
<1>3. /\ log \in Seq(Message) /\ DOMAIN log = 1 .. n + m
      /\ \A i \in 1 .. n : log[i] = s.changes[i]
      /\ \A i \in n + 1 .. n + m : log[i] = msgs[i - n] /\ i - n \in 1 .. m
  BY <1>1
<1>4. t.changes = log /\ t.offset = msgs[m].offset
  BY DEF Extended, ShapeState
<1> HIDE DEF n, m, log, t
<1>5. t.offset = LSNOffset(l, m - 1) /\ m - 1 \in Nat
  BY <1>1, <1>4 DEF Numbered
<1>6. ~After(o, t.offset) /\ CompareOffsets(o, t.offset) # 0
  BY <1>1, <1>5, CommitIsAfter
<1>7. ASSUME NEW i \in n + 1 .. n + m
      PROVE  After(log[i].offset, o)
  <2>1. PICK j \in 1 .. m : log[i].offset = LSNOffset(l, j - 1)
    BY <1>1, <1>3, ZenonT(60) DEF Numbered
  <2>2. j - 1 \in Nat
    BY <1>1
  <2>3. QED
    BY <1>1, <2>1, <2>2, CommitIsAfter
<1>8. Later(s, o) = {i \in 1 .. n : After(s.changes[i].offset, o)}
  <2>1. CASE CompareOffsets(o, s.offset) = 0
    <3>1. \A i \in 1 .. n : ~After(s.changes[i].offset, s.offset)
      BY <1>1 DEF Ordered
    <3>2. \A i \in 1 .. n : ~After(s.changes[i].offset, o)
      BY <1>1, <1>2, <2>1, <3>1, EqualOffsets
    <3>3. QED
      BY <2>1, <3>2 DEF Later
  <2>2. CASE CompareOffsets(o, s.offset) # 0
    BY <1>1, <2>2 DEF Later
  <2>3. QED
    BY <2>1, <2>2
<1>9. Later(t, o) = Later(s, o) \cup (n + 1 .. n + m)
  <2>1. Later(t, o) = {i \in 1 .. n + m : After(log[i].offset, o)}
    BY <1>3, <1>4, <1>6 DEF Later
  <2>2. \A i : i \in 1 .. n + m <=> i \in 1 .. n \/ i \in n + 1 .. n + m
    BY <1>1
  <2>3. QED
    BY <1>3, <1>7, <1>8, <2>1, <2>2, Zenon
<1>10. LaterFor(t, o, k) = LaterFor(s, o, k) \cup {i \in n + 1 .. n + m : msgs[i - n].key = k}
  <2>1. \A i \in Later(s, o) : i \in 1 .. n /\ t.changes[i] = s.changes[i]
    BY <1>3, <1>4, <1>8
  <2>2. \A i \in n + 1 .. n + m : t.changes[i] = msgs[i - n]
    BY <1>3, <1>4
  <2>3. QED
    BY <1>9, <2>1, <2>2, Zenon DEF LaterFor
<1>11. QED
  BY <1>6, <1>10 DEF n, m, t

\* The row of the last of some places in a log.
LEMMA LastIs ==
  ASSUME NEW S, \A j \in S : j \in Nat, NEW i \in S, \A j \in S : j <= i
  PROVE  (CHOOSE x \in S : \A j \in S : j <= x) = i
<1>1. \A x \in S : (\A j \in S : j <= x) => x = i
  OBVIOUS
<1>2. QED
  BY <1>1

\* The row of a key after the messages of the batch as well.
LEMMA ExtendedPatched ==
  ASSUME HasGreatest, NEW s \in ShapeState, Ordered(s), NEW new \in Rows, NEW msgs \in Seq(Message), msgs # <<>>,
         NEW l \in Nat, s.offset.lsn < l, Numbered(msgs, l),
         NEW o \in Offset, NEW rows, OnTrack(s, rows, o), NEW k \in Key,
         \/ new[k] = s.materialized[k] /\ SaysNothing(msgs, k)
         \/ Says(msgs, k, new[k])
  PROVE  Patched(Extended(s, new, msgs), rows, o)[k] = new[k]
<1> DEFINE n == Len(s.changes)
           m == Len(msgs)
           log == s.changes \o msgs
           t == Extended(s, new, msgs)
           before == LaterFor(s, o, k)
           after == LaterFor(t, o, k)
           batch == {i \in n + 1 .. n + m : msgs[i - n].key = k}
<1>1. /\ s.changes \in Seq(Message) /\ n \in Nat /\ m \in Nat
      /\ DOMAIN s.changes = 1 .. n /\ DOMAIN msgs = 1 .. m
  BY DEF ShapeState
<1>2. /\ log \in Seq(Message)
      /\ \A i \in 1 .. n : log[i] = s.changes[i]
      /\ \A i \in n + 1 .. n + m : log[i] = msgs[i - n] /\ i - n \in 1 .. m
      /\ \A i \in 1 .. m : log[n + i] = msgs[i] /\ n + i \in n + 1 .. n + m /\ (n + i) - n = i
  BY <1>1
<1>3. t.changes = log
  BY Zenon DEF Extended, ShapeState
<1>4. after = before \cup batch
  BY ExtendedLater DEF OnTrack
<1>5. before \subseteq 1 .. n
  BY <1>1 DEF LaterFor, Later
<1>6. /\ Patched(s, rows, o)[k] = s.materialized[k]
      /\ Patched(s, rows, o)[k] =
           IF before = {} THEN rows[k]
           ELSE s.changes[CHOOSE i \in before : \A j \in before : j <= i].row
  BY Zenon DEF OnTrack, Patched
<1>7. Patched(t, rows, o)[k] =
        IF after = {} THEN rows[k]
        ELSE t.changes[CHOOSE i \in after : \A j \in after : j <= i].row
  BY DEF Patched
<1> HIDE DEF n, m, log, t, before, after, batch
<1>8. CASE Says(msgs, k, new[k])
  <2>1. PICK i \in 1 .. m : /\ msgs[i].key = k /\ msgs[i].row = new[k]
                            /\ \A j \in 1 .. m : j > i => msgs[j].key # k
    BY <1>1, <1>8, Zenon DEF Says
  <2>2. n + i \in batch /\ log[n + i] = msgs[i]
    BY <1>2, <2>1 DEF batch
  <2>3. \A j \in batch : j \in Nat /\ j <= n + i
    <3> TAKE j \in batch
    <3>1. j \in n + 1 .. n + m /\ j - n \in 1 .. m /\ msgs[j - n].key = k
      BY <1>2 DEF batch
    <3>2. ~(j - n > i)
      BY <2>1, <3>1
    <3>3. QED
      BY <1>1, <3>1, <3>2
  <2>4. \A j \in before : j \in Nat /\ j <= n + i
    BY <1>1, <1>5
  <2>5. (CHOOSE x \in after : \A j \in after : j <= x) = n + i
    <3>1. n + i \in after /\ \A j \in after : j \in Nat /\ j <= n + i
      BY <1>4, <2>2, <2>3, <2>4, Zenon
    <3>2. QED
      BY <3>1, LastIs
  <2>6. QED
    BY <1>3, <1>4, <1>7, <2>1, <2>2, <2>5, Zenon DEF t
<1>9. CASE new[k] = s.materialized[k] /\ SaysNothing(msgs, k)
  <2>1. batch = {}
    BY <1>1, <1>2, <1>9 DEF batch, SaysNothing
  <2>2. after = before
    BY <1>4, <2>1
  <2>3. ASSUME before # {}
        PROVE  log[CHOOSE i \in before : \A j \in before : j <= i] =
                 s.changes[CHOOSE i \in before : \A j \in before : j <= i]
    <3>1. \E i \in before : \A j \in before : j <= i
      BY <1>1, <1>5, <2>3, Zenon DEF HasGreatest
    <3>2. (CHOOSE i \in before : \A j \in before : j <= i) \in before
      BY <3>1, Zenon
    <3>3. QED
      BY <1>2, <1>5, <3>2, Zenon
  <2>4. QED
    BY <1>3, <1>6, <1>7, <1>9, <2>2, <2>3, ZenonT(60) DEF t
<1>10. QED
  BY <1>8, <1>9 DEF t

\* A client that could go on before a commit can go on after it.
LEMMA ExtendedOnTrack ==
  ASSUME HasGreatest, NEW s \in ShapeState, Ordered(s), NEW new \in Rows, NEW msgs \in Seq(Message),
         NEW l \in Nat, s.offset.lsn < l, Numbered(msgs, l),
         NEW o \in Offset, NEW rows, OnTrack(s, rows, o),
         \A k \in Key : \/ new[k] = s.materialized[k] /\ SaysNothing(msgs, k)
                        \/ Says(msgs, k, new[k])
  PROVE  OnTrack(Extended(s, new, msgs), rows, o)
<1> DEFINE t == Extended(s, new, msgs)
<1>1. t.materialized = new /\ new \in [Key -> Row \cup {NoRow}]
  BY Zenon DEF Extended, ShapeState, Rows
<1>2. CASE msgs = <<>>
  <2>1. s.changes \in Seq(Message) /\ s.materialized \in [Key -> Row \cup {NoRow}]
    BY DEF ShapeState, Rows
  <2>2. s.changes \o <<>> = s.changes
    BY <2>1
  <2>3. t.changes = s.changes /\ t.offset = s.offset
    BY <1>2, <2>2, Zenon DEF Extended, ShapeState
  <2>4. \A k \in Key : ~Says(msgs, k, new[k])
    BY <1>2 DEF Says
  <2>5. new = s.materialized
    BY <1>1, <2>1, <2>4
  <2> HIDE DEF t
  <2>6. Patched(t, rows, o) = Patched(s, rows, o)
    BY <2>3 DEF Patched, LaterFor, Later
  <2>7. QED
    BY <1>1, <2>3, <2>5, <2>6, Zenon DEF OnTrack, t
<1>3. CASE msgs # <<>>
  <2>1. ~After(o, t.offset) /\ o.rank # RankInvalid
    BY <1>3, ExtendedLater, ZenonT(60) DEF OnTrack
  <2>2. \A k \in Key : Patched(t, rows, o)[k] = new[k]
    BY <1>3, ExtendedPatched
  <2>3. Patched(t, rows, o) = [k \in Key |-> Patched(t, rows, o)[k]]
    BY DEF Patched
  <2> HIDE DEF t
  <2>4. Patched(t, rows, o) = new
    BY <1>1, <2>2, <2>3, Zenon
  <2>5. QED
    BY <1>1, <2>1, <2>4 DEF OnTrack, t
<1>4. QED
  BY <1>2, <1>3

-----------------------------------------------------------------------------
(***************************************************************************)
(* What the changes of the shapes mean to what a client holds.             *)
(***************************************************************************)
\* The invariant is stronger than the property.
LEMMA FollowInvTracks == FollowInv => FollowerOnTrack
<1> SUFFICES ASSUME FollowInv, NEW q \in Waiter, client[q].same, Active(client[q].handle)
             PROVE  /\ ~ReadFails(client[q].handle, client[q].offset)
                    /\ Applied(client[q].rows, client[q].handle, client[q].offset)
                         = byHandle[client[q].handle].materialized
  BY DEF FollowerOnTrack
<1> DEFINE s == byHandle[client[q].handle]
<1>1. OnTrack(s, client[q].rows, client[q].offset)
  BY Zenon DEF FollowInv, Tracks, Active
<1>2. Applied(client[q].rows, client[q].handle, client[q].offset) = Patched(s, client[q].rows, client[q].offset)
  BY Zenon DEF Applied, ReadMessages, Patched, LaterFor, Later
<1>3. QED
  BY <1>1, <1>2, Zenon DEF OnTrack, ReadFails

\* Shapes stay as they are or cease to be active.
LEMMA KeptTracks ==
  ASSUME NEW old, NEW new, \A g \in Handle : new[g] = old[g] \/ new[g].status # "active"
  PROVE  /\ OrderedLogs(old) => OrderedLogs(new)
         /\ \A c : Tracks(old, c) => Tracks(new, c)
BY DEF OrderedLogs, Tracks

\* A client that has the rows of a shape and its offset.
LEMMA CurrentOnTrack ==
  ASSUME NEW s \in ShapeState, Ordered(s)
  PROVE  OnTrack(s, s.materialized, s.offset)
<1>1. s.offset \in Offset /\ s.materialized \in [Key -> Row \cup {NoRow}]
  BY DEF ShapeState, Rows
<1>2. CompareOffsets(s.offset, s.offset) = 0 /\ ~After(s.offset, s.offset)
  BY <1>1, OffsetEqualsItself, Zenon
<1>3. \A k : LaterFor(s, s.offset, k) = {}
  BY <1>2, Zenon DEF LaterFor, Later
<1>4. Patched(s, s.materialized, s.offset) = [k \in Key |-> s.materialized[k]]
  BY <1>3 DEF Patched
<1>5. QED
  BY <1>1, <1>2, <1>4 DEF OnTrack, Ordered

\* The shape of one handle is replaced.
Replaced(old, new, h, s) == new[h] = s /\ \A g \in Handle : g # h => new[g] = old[g]

\* A reset costs only the clients of the shape their place, and who is sent its rows
\* can go on from them.
AfterReset(old, new, h, c0) ==
  /\ OrderedLogs(old) => OrderedLogs(new)
  /\ \A c : Tracks(old, c) /\ (c.handle # h \/ ~c.same) => Tracks(new, c)
  /\ Tracks(new, c0)

\* A shape is created or reset.
LEMMA ResetTracks ==
  ASSUME NEW old \in [Handle -> ShapeState], NEW h \in Handle, NEW rows \in Rows,
         NEW o \in {InitialOffset, NowOffset},
         NEW new, Replaced(old, new, h, FreshState(rows, o))
  PROVE  AfterReset(old, new, h, Holding(h, o, rows))
<1> DEFINE s == FreshState(rows, o)
<1>1. new[h] = s /\ \A g \in Handle : g # h => new[g] = old[g]
  BY DEF Replaced
<1>2. o \in Offset /\ o.rank # RankInvalid
  BY FollowConstants DEF InitialOffset, SequenceOffset, NowOffset, RankSequence, RankNow, RankInvalid
<1>3. s \in ShapeState /\ s.changes = <<>> /\ s.offset = o /\ s.materialized = rows
  BY <1>2 DEF FreshState, ShapeState
<1>4. Ordered(s)
  BY <1>2, <1>3 DEF Ordered
<1>5. OnTrack(s, rows, o)
  BY <1>3, <1>4, CurrentOnTrack, Zenon
<1> HIDE DEF s
<1>6. OrderedLogs(old) => OrderedLogs(new)
  BY <1>1, <1>4, Zenon DEF OrderedLogs
<1>7. \A c : Tracks(old, c) /\ (c.handle # h \/ ~c.same) => Tracks(new, c)
  BY <1>1, Zenon DEF Tracks
<1>8. Tracks(new, Holding(h, o, rows))
  BY <1>1, <1>5 DEF Tracks, Holding
<1>9. QED
  BY <1>6, <1>7, <1>8, Zenon DEF AfterReset

\* The messages of a later commit that turn the rows of a shape into these rows.
Batch(s, rows, msgs, l) ==
  /\ s.offset.lsn < l
  /\ Numbered(msgs, l)
  /\ \A k \in Key : \/ rows[k] = s.materialized[k] /\ SaysNothing(msgs, k)
                    \/ Says(msgs, k, rows[k])

AfterBatch(old, new) ==
  OrderedLogs(new) /\ \A c \in ClientState : Tracks(old, c) => Tracks(new, c)

\* A commit reaches a shape.
LEMMA BatchTracks ==
  ASSUME HasGreatest, NEW old \in [Handle -> ShapeState],
         NEW h \in Handle, old[h].status = "active",
         OrderedLogs(old), NEW rows \in Rows, NEW msgs \in Seq(Message),
         NEW l \in Nat, Batch(old[h], rows, msgs, l),
         NEW new, Replaced(old, new, h, Extended(old[h], rows, msgs))
  PROVE  AfterBatch(old, new)
<1> DEFINE t == Extended(old[h], rows, msgs)
<1>1. new[h] = t /\ \A g \in Handle : g # h => new[g] = old[g]
  BY DEF Replaced
<1>2. Ordered(old[h]) /\ old[h] \in ShapeState
  BY Zenon DEF OrderedLogs
<1>3. Ordered(t)
  BY <1>2, ExtendedOrdered, Zenon DEF Batch
<1>4. OrderedLogs(new)
  <2> HIDE DEF t
  <2>1. QED
    BY <1>1, <1>3 DEF OrderedLogs
<1>5. ASSUME NEW c \in ClientState, Tracks(old, c)
      PROVE  Tracks(new, c)
  <2>1. CASE c.same /\ c.handle = h
    <3>1. c.offset \in Offset /\ OnTrack(old[h], c.rows, c.offset)
      BY <1>5, <2>1, Zenon DEF ClientState, Tracks
    <3>2. OnTrack(t, c.rows, c.offset)
      BY <1>2, <3>1, ExtendedOnTrack, Zenon DEF Batch
    <3> HIDE DEF t
    <3>3. QED
      BY <1>1, <2>1, <3>2 DEF Tracks
  <2>2. CASE ~c.same \/ c.handle # h
    <3> HIDE DEF t
    <3>1. QED
      BY <1>1, <1>5, <2>2, Zenon DEF Tracks
  <2>3. QED
    BY <2>1, <2>2, Zenon
<1>6. QED
  BY <1>4, <1>5, Zenon DEF AfterBatch

-----------------------------------------------------------------------------
(***************************************************************************)
(* The steps of the service.                                               *)
(***************************************************************************)
ShapesKept == \A g \in Handle : byHandle'[g] = byHandle[g] \/ byHandle'[g].status # "active"

\* A step of one request that resets no shape.
LEMMA KeptFollow ==
  ASSUME FollowInv, ShapesKept, NEW q \in Waiter,
         \A p \in Waiter : p # q => req'[p] = req[p] /\ client'[p] = client[p],
         client'[q] = client[q] \/ Tracks(byHandle, client'[q]),
         Linked(q)'
  PROVE  FollowInv'
<1>1. OrderedLogs(byHandle')
  BY KeptTracks, Zenon DEF FollowInv, ShapesKept
<1>2. ASSUME NEW p \in Waiter
      PROVE  Tracks(byHandle', client'[p])
  <2>1. Tracks(byHandle, client'[p])
    BY DEF FollowInv
  <2>2. QED
    BY <2>1, KeptTracks, ZenonT(60) DEF ShapesKept
<1>3. ASSUME NEW p \in Waiter
      PROVE  Linked(p)'
  <2>1. CASE p = q
    BY <2>1, Zenon
  <2>2. CASE p # q
    BY <2>2, ZenonT(60) DEF FollowInv, Linked
  <2>3. QED
    BY <2>1, <2>2
<1>4. QED
  BY <1>1, <1>2, <1>3, Zenon DEF FollowInv

\* A handler returns, after it answered its client or failed to.
LEMMA AnswerFollow ==
  ASSUME ServiceInv, FollowInv, ShapesKept, NEW q \in Waiter, Leave(q),
         NEW state, Tracks(byHandle, state), client' = client \/ Receives(q, state)
  PROVE  FollowInv'
<1>1. req \in [Waiter -> RequestState] /\ client \in [Waiter -> ClientState]
  BY DEF ServiceInv, ClientInv
<1>2. req'[q] = NoRequest /\ \A p \in Waiter : p # q => req'[p] = req[p]
  BY <1>1 DEF Leave
<1>3. /\ \A p \in Waiter : p # q => client'[p] = client[p]
      /\ client'[q] = client[q] \/ client'[q] = state
  BY <1>1, Zenon DEF Receives
<1>4. Linked(q)'
  BY <1>2 DEF Linked, NoRequest, Reading
<1>5. QED
  BY <1>2, <1>3, <1>4, KeptFollow, Zenon

\* A handler goes on from where it was.
LEMMA GotoFollow ==
  ASSUME ServiceInv, FollowInv, ShapesKept, NEW q \in Waiter, NEW pc, Goto(q, pc), client' = client,
         pc \in Reading => req[q].pc \in Reading
  PROVE  FollowInv'
<1>1. req \in [Waiter -> RequestState] /\ req[q] \in RequestState
  BY DEF ServiceInv
<1>2. /\ req'[q].pc = pc /\ req'[q].gone = req[q].gone /\ req'[q].handle = req[q].handle
      /\ req'[q].offset = req[q].offset /\ \A p \in Waiter : p # q => req'[p] = req[p]
  BY <1>1, Zenon DEF Goto, RequestState
<1>3. Linked(q)'
  BY <1>2 DEF FollowInv, Linked
<1>4. QED
  BY <1>2, <1>3, KeptFollow

\* Nothing that a client or a request holds changes.
LEMMA IdleFollow ==
  ASSUME FollowInv, ShapesKept, req' = req, client' = client
  PROVE  FollowInv'
<1>1. OrderedLogs(byHandle') /\ \A q \in Waiter : Tracks(byHandle', client'[q])
  BY KeptTracks, Zenon DEF FollowInv, ShapesKept
<1>2. \A q \in Waiter : Linked(q)'
  BY DEF FollowInv, Linked
<1>3. QED
  BY <1>1, <1>2, Zenon DEF FollowInv

\* What a client holds after a read that succeeded.
LEMMA DeliveredTracks ==
  ASSUME ServiceInv, FollowInv, NEW q \in Waiter, req[q].pc \in Reading, ~req[q].gone,
         req[q].handle \in Handle, ~ReadFails(req[q].handle, req[q].offset)
  PROVE  /\ Tracks(byHandle, Delivered(q))
         /\ Delivered(q).handle = req[q].handle
         /\ Delivered(q).offset = byHandle[req[q].handle].offset
<1> DEFINE h == req[q].handle
           s == byHandle[h]
           me == client[q]
<1>1. /\ me \in ClientState /\ me.handle = h /\ me.offset = req[q].offset
      /\ s \in ShapeState /\ s.status = "active" /\ Ordered(s) /\ Tracks(byHandle, me)
  BY DEF ServiceInv, ClientInv, ManagerInv, TypeOK, FollowInv, OrderedLogs, Linked, ReadFails, Active
<1>2. /\ Delivered(q).handle = h /\ Delivered(q).offset = s.offset /\ Delivered(q).same = me.same
      /\ Delivered(q).rows = IF me.same THEN Applied(me.rows, h, me.offset) ELSE me.rows
  BY <1>1, ZenonT(60) DEF Delivered, ClientState
<1>3. Applied(me.rows, h, me.offset) = Patched(s, me.rows, me.offset)
  BY DEF Applied, ReadMessages, Patched, LaterFor, Later
<1>4. me.same => Patched(s, me.rows, me.offset) = s.materialized
  BY <1>1, Zenon DEF Tracks, OnTrack
<1>5. OnTrack(s, s.materialized, s.offset)
  BY <1>1, CurrentOnTrack
<1>6. Tracks(byHandle, Delivered(q))
  <2> SUFFICES ASSUME Delivered(q).same
               PROVE  OnTrack(s, Delivered(q).rows, s.offset)
    BY <1>2, ZenonT(60) DEF Tracks
  <2>1. Delivered(q).rows = s.materialized
    BY <1>2, <1>3, <1>4
  <2>2. QED
    BY <1>5, <2>1, Zenon
<1>7. QED
  BY <1>2, <1>6, ZenonT(60)

\* A read is answered.
LEMMA DeliversFollow ==
  ASSUME ServiceInv, FollowInv, ShapesKept, NEW q \in Waiter, req[q].pc \in Reading,
         req[q].handle \in Handle, ~ReadFails(req[q].handle, req[q].offset),
         Delivers(q), Leave(q)
  PROVE  FollowInv'
<1>1. CASE req[q].gone
  <2>1. client' = client
    BY <1>1, Zenon DEF Delivers, Receives
  <2>2. Tracks(byHandle, NoShape)
    BY Zenon DEF Tracks, NoShape
  <2>3. QED
    BY <2>1, <2>2, AnswerFollow
<1>2. CASE ~req[q].gone
  BY <1>2, DeliveredTracks, AnswerFollow, Zenon DEF Delivers
<1>3. QED
  BY <1>1, <1>2

\* A stream sends what it read.
LEMMA StreamsFollow ==
  ASSUME ServiceInv, FollowInv, ShapesKept, NEW q \in Waiter, req[q].pc \in Reading,
         req[q].handle \in Handle, ~ReadFails(req[q].handle, req[q].offset), Streams(q)
  PROVE  FollowInv'
<1> DEFINE next == [req[q] EXCEPT !.pc = "stream", !.offset = byHandle[req[q].handle].offset]
           lost == [next EXCEPT !.gone = TRUE]
<1>1. /\ req \in [Waiter -> RequestState] /\ req[q] \in RequestState
      /\ client \in [Waiter -> ClientState]
  BY DEF ServiceInv, ClientInv
<1>2. next.handle = req[q].handle /\ next.offset = byHandle[req[q].handle].offset
  BY <1>1 DEF RequestState
<1>3. lost.gone = TRUE
  BY <1>1 DEF RequestState
<1>4. \/ ~req[q].gone /\ req' = [req EXCEPT ![q] = next] /\ client' = [client EXCEPT ![q] = Delivered(q)]
      \/ req' = [req EXCEPT ![q] = lost] /\ client' = client
  BY Zenon DEF Streams
<1> HIDE DEF next, lost
<1>5. CASE req' = [req EXCEPT ![q] = lost] /\ client' = client
  <2>1. req'[q] = lost /\ \A p \in Waiter : p # q => req'[p] = req[p]
    BY <1>1, <1>5, Zenon
  <2>2. Linked(q)'
    BY <1>3, <2>1, Zenon DEF Linked
  <2>3. QED
    BY <1>5, <2>1, <2>2, KeptFollow, Zenon
<1>6. CASE /\ ~req[q].gone /\ req' = [req EXCEPT ![q] = next]
           /\ client' = [client EXCEPT ![q] = Delivered(q)]
  <2>1. /\ req'[q] = next /\ client'[q] = Delivered(q)
        /\ \A p \in Waiter : p # q => req'[p] = req[p] /\ client'[p] = client[p]
    BY <1>1, <1>6, Zenon
  <2>2. /\ Tracks(byHandle, Delivered(q)) /\ Delivered(q).handle = req[q].handle
        /\ Delivered(q).offset = byHandle[req[q].handle].offset
    BY <1>6, DeliveredTracks, Zenon
  <2>3. Linked(q)'
    BY <1>2, <2>1, <2>2, Zenon DEF Linked
  <2>4. QED
    BY <2>1, <2>2, <2>3, KeptFollow, Zenon
<1>7. QED
  BY <1>4, <1>5, <1>6, Zenon

\* UpsertSnapshotAtOffset: the write fails and nothing changes, or one shape starts
\* over and the index names it.
LEMMA Upserted ==
  ASSUME ManagerInv, NEW x \in Hash, NEW rows, NEW o, UpsertSnapshotAtOffset(x, rows, o)
  PROVE  \/ byHandle' = byHandle /\ faults' # faults
         \/ \E h \in Handle : /\ byHash'[x] = h /\ faults' = faults
                              /\ byHandle' = [byHandle EXCEPT ![h] = FreshState(rows, o)]
<1> DEFINE s == FreshState(rows, o)
<1>1. /\ faults \in Nat /\ byHash \in [Hash -> Handle \cup {NoHandle}] /\ clock \in Nat
  BY ManagerAssumption DEF ManagerInv, TypeOK
<1>2. \A h : SaveShapeFails(h, s) => faults' # faults
  BY <1>1 DEF SaveShapeFails
<1>3. \A h : SaveShape(h, s) => faults' = faults
  BY DEF SaveShape
<1>4. CASE CreateShape(x, s)
  <2>1. PICK h \in Handle : h = [hash |-> x, stamp |-> clock + 1]
    BY <1>1, <1>4, ManagerAssumption DEF CreateShape, Handle
  <2> HIDE DEF s
  <2>2. \/ /\ SaveShape(h, s) /\ byHandle' = [byHandle EXCEPT ![h] = s]
           /\ byHash' = [byHash EXCEPT ![x] = h]
        \/ SaveShapeFails(h, s) /\ byHandle' = byHandle
    BY <1>4, <2>1 DEF CreateShape, registry
  <2>3. QED
    BY <1>1, <1>2, <1>3, <2>2, Zenon DEF s
<1>5. CASE ResetShape(x, s)
  <2>1. PICK h \in Handle : h = byHash[x]
    BY <1>1, <1>5, Zenon DEF ResetShape
  <2> HIDE DEF s
  <2>2. /\ byHash' = byHash
        /\ \/ SaveShape(h, s) /\ byHandle' = [byHandle EXCEPT ![h] = s]
           \/ SaveShapeFails(h, s) /\ byHandle' = byHandle
    BY <1>5, <2>1, Zenon DEF ResetShape
  <2>3. QED
    BY <1>1, <1>2, <1>3, <2>1, <2>2, Zenon DEF s
<1>6. QED
  BY <1>4, <1>5, Zenon DEF UpsertSnapshotAtOffset

\* A handler returns after it registered a snapshot: the clients of that shape are
\* outdated, but for the one that is sent the new rows.
LEMMA RegisterFollow ==
  ASSUME ServiceInv, FollowInv, NEW q \in Waiter, Leave(q), NEW x \in Hash, NEW rows \in Rows,
         NEW o \in {InitialOffset, NowOffset}, UpsertSnapshotAtOffset(x, rows, o),
         NEW state, state = NoShape \/ state = Holding(byHash'[x], o, rows),
         IF Saved THEN ReceivesAfterReset(q, byHash'[x], state) \/ client' = Outdated(byHash'[x])
                  ELSE client' = client
  PROVE  FollowInv'
<1>1. /\ ManagerInv /\ req \in [Waiter -> RequestState] /\ client \in [Waiter -> ClientState]
      /\ byHandle \in [Handle -> ShapeState]
  BY Zenon DEF ServiceInv, ClientInv, ManagerInv, TypeOK
<1>2. CASE byHandle' = byHandle /\ faults' # faults
  <2>1. client' = client /\ ShapesKept /\ Tracks(byHandle, NoShape)
    BY <1>2, Zenon DEF Saved, ShapesKept, Tracks, NoShape
  <2>2. QED
    BY <2>1, AnswerFollow, Zenon
<1>3. ASSUME NEW h \in Handle, byHash'[x] = h, faults' = faults,
             byHandle' = [byHandle EXCEPT ![h] = FreshState(rows, o)]
      PROVE  FollowInv'
  <2>1. /\ OrderedLogs(byHandle')
        /\ \A c : Tracks(byHandle, c) /\ (c.handle # h \/ ~c.same) => Tracks(byHandle', c)
        /\ Tracks(byHandle', Holding(h, o, rows))
    <3>1. OrderedLogs(byHandle)
      BY DEF FollowInv
    <3>2. PICK old \in [Handle -> ShapeState] : old = byHandle
      BY <1>1, Zenon
    <3>3. PICK new : new = byHandle'
      OBVIOUS
    <3>4. Replaced(old, new, h, FreshState(rows, o))
      BY <1>3, <3>2, <3>3, Zenon DEF Replaced
    <3>5. AfterReset(old, new, h, Holding(h, o, rows))
      BY <3>4, ResetTracks
    <3>6. QED
      BY <3>1, <3>2, <3>3, <3>5, Zenon DEF AfterReset
  <2>2. Tracks(byHandle', state)
    BY <1>3, <2>1, ZenonT(60) DEF Tracks, NoShape
  <2>3. ASSUME NEW p \in Waiter
        PROVE  /\ Tracks(byHandle', Outdated(h)[p])
               /\ Outdated(h)[p].handle = client[p].handle
               /\ Outdated(h)[p].offset = client[p].offset
    <3> DEFINE old == [client[p] EXCEPT !.same = FALSE, !.rows = NoRows]
    <3>1. client[p] \in ClientState
      BY <1>1
    <3>2. old.same = FALSE /\ old.handle = client[p].handle /\ old.offset = client[p].offset
      BY <3>1 DEF ClientState
    <3>3. Outdated(h)[p] = IF client[p].handle # h THEN client[p] ELSE old
      BY ZenonT(60) DEF Outdated
    <3> HIDE DEF old
    <3>4. CASE client[p].handle # h
      <4>1. Tracks(byHandle, client[p])
        BY Zenon DEF FollowInv
      <4>2. QED
        BY <2>1, <3>3, <3>4, <4>1
    <3>5. CASE client[p].handle = h
      <4>1. Tracks(byHandle', old)
        BY <3>2, Zenon DEF Tracks
      <4>2. QED
        BY <3>2, <3>3, <3>5, <4>1, ZenonT(60)
    <3>6. QED
      BY <3>4, <3>5, Zenon
  <2>4. client' = Outdated(h) \/ client' = [Outdated(h) EXCEPT ![q] = state]
    BY <1>3 DEF Saved, ReceivesAfterReset
  <2>5. DOMAIN Outdated(h) = Waiter
    BY Zenon DEF Outdated
  <2>6. /\ \A p \in Waiter : p # q => client'[p] = Outdated(h)[p]
        /\ client'[q] = Outdated(h)[q] \/ client'[q] = state
    BY <2>4, <2>5, Zenon
  <2>7. ASSUME NEW p \in Waiter
        PROVE  Tracks(byHandle', client'[p])
    BY <2>2, <2>3, <2>6, Zenon
  <2>8. req'[q] = NoRequest /\ \A p \in Waiter : p # q => req'[p] = req[p]
    BY <1>1 DEF Leave
  <2>9. ASSUME NEW p \in Waiter
        PROVE  Linked(p)'
    <3>1. CASE p = q
      <4>1. req'[p].pc = "idle"
        <5>1. NoRequest.pc = "idle"
          BY ZenonT(60) DEF NoRequest
        <5>2. QED
          BY <2>8, <3>1, <5>1, Zenon
      <4>2. QED
        BY <4>1, Zenon DEF Linked, Reading
    <3>2. CASE p # q
      <4>1. Linked(p)
        BY ZenonT(60) DEF FollowInv
      <4>2. /\ client'[p].handle = client[p].handle /\ client'[p].offset = client[p].offset
            /\ req'[p] = req[p]
        BY <2>3, <2>6, <2>8, <3>2, Zenon
      <4>3. QED
        BY <4>1, <4>2 DEF Linked
    <3>3. QED
      BY <3>1, <3>2
  <2>10. QED
    BY <2>1, <2>7, <2>9, ZenonT(60) DEF FollowInv
<1>4. QED
  BY <1>1, <1>2, <1>3, Upserted

\* Steps that leave the shapes alone.
LEMMA SameShapes ==
  ASSUME byHandle' = byHandle
  PROVE  ShapesKept
BY DEF ShapesKept

\* The client that is told to start over holds nothing.
LEMMA NoShapeTracks == \A shapes : Tracks(shapes, NoShape)
BY ZenonT(60) DEF Tracks, NoShape

\* The query for an initial snapshot fails, or its rows are registered.
LEMMA serveInitialSnapshotFollow ==
  ASSUME ServiceInv, FollowInv, NEW q \in Waiter, serveInitialSnapshot(q)
  PROVE  FollowInv'
<1>1. /\ Leave(q) /\ req[q].hash \in Hash /\ req[q].offset \in {InitialOffset, NowOffset}
  BY Zenon DEF serveInitialSnapshot, ServiceInv, RequestInv
<1>2. CASE UNCHANGED <<vars, client>>
  BY <1>1, <1>2, SameShapes, NoShapeTracks, AnswerFollow, ZenonT(60) DEF vars
<1>3. ASSUME NEW rows \in Rows, UpsertSnapshotAtOffset(req[q].hash, rows, req[q].offset),
             IF Saved
             THEN ReceivesAfterReset(q, byHash'[req[q].hash],
                                     Holding(byHash'[req[q].hash], req[q].offset, rows))
             ELSE UNCHANGED client
      PROVE  FollowInv'
  <2>1. PICK x \in Hash : x = req[q].hash
    BY <1>1
  <2>2. PICK o \in {InitialOffset, NowOffset} : o = req[q].offset
    BY <1>1
  <2>3. PICK state : state = Holding(byHash'[x], o, rows)
    OBVIOUS
  <2>4. QED
    BY <1>1, <1>3, <2>1, <2>2, <2>3, RegisterFollow, Zenon
<1>4. QED
  BY <1>2, <1>3 DEF serveInitialSnapshot

\* offset=now on a known shape: the client has its rows and its offset.
LEMMA serveNowFollow ==
  ASSUME ServiceInv, FollowInv, NEW q \in Waiter, serveNow(q)
  PROVE  FollowInv'
<1> DEFINE h == byHash[req[q].hash]
<1>1. req[q].hash \in Hash /\ byHandle' = byHandle
  BY ZenonT(60) DEF serveNow, ServiceInv, RequestInv, vars
<1>2. CASE Goto(q, "snapshot") /\ client' = client
  BY <1>1, <1>2, SameShapes, GotoFollow, Zenon DEF Reading
<1>3. CASE /\ h # NoHandle /\ Leave(q)
           /\ Receives(q, Holding(h, byHandle[h].offset, byHandle[h].materialized))
  <2>1. h \in Handle /\ byHandle[h].status = "active" /\ byHandle[h] \in ShapeState
    <3>1. TypeOK /\ IndexesConsistent
      BY Zenon DEF ServiceInv, ManagerInv
    <3>2. h \in Handle
      BY <1>1, <1>3, <3>1 DEF TypeOK
    <3>3. Active(h)
      BY <1>1, <1>3, <3>1, ZenonT(60) DEF IndexesConsistent
    <3>4. QED
      BY <3>1, <3>2, <3>3 DEF TypeOK, Active
  <2>2. Ordered(byHandle[h])
    BY <2>1, ZenonT(60) DEF FollowInv, OrderedLogs
  <2>3. OnTrack(byHandle[h], byHandle[h].materialized, byHandle[h].offset)
    BY <2>1, <2>2, CurrentOnTrack, Zenon
  <2>4. Tracks(byHandle, Holding(h, byHandle[h].offset, byHandle[h].materialized))
    BY <2>1, <2>3, ZenonT(60) DEF Tracks, Holding
  <2>5. QED
    BY <1>1, <1>3, <2>4, SameShapes, AnswerFollow, ZenonT(60)
<1>4. QED
  BY <1>2, <1>3, ZenonT(60) DEF serveNow

\* must-refetch: the shape the index names starts over.
LEMMA mustRefetchFollow ==
  ASSUME ServiceInv, FollowInv, NEW q \in Waiter, mustRefetch(q)
  PROVE  FollowInv'
<1>1. Leave(q) /\ req[q].hash \in Hash /\ NoRows \in Rows
  BY Zenon DEF mustRefetch, ServiceInv, RequestInv, NoRows, Rows
<1>2. CASE UNCHANGED <<vars, client>>
  BY <1>1, <1>2, SameShapes, NoShapeTracks, AnswerFollow, ZenonT(60) DEF vars
<1>3. CASE /\ UpsertSnapshotAtOffset(req[q].hash, NoRows, InitialOffset)
           /\ IF Saved THEN ReceivesAfterReset(q, byHash'[req[q].hash], NoShape)
                       ELSE UNCHANGED client
  <2>1. PICK x \in Hash : x = req[q].hash
    BY <1>1
  <2>2. PICK state : state = NoShape
    OBVIOUS
  <2>3. QED
    BY <1>1, <1>3, <2>1, <2>2, RegisterFollow, Zenon
<1>4. QED
  BY <1>2, <1>3 DEF mustRefetch

\* A subset snapshot finds its shape, or registers it.
LEMMA subsetFollow ==
  ASSUME ServiceInv, FollowInv, NEW q \in Waiter, resolveSubsetShape(q) \/ subsetSnapshot(q)
  PROVE  FollowInv'
<1>1. req[q].hash \in Hash
  BY ZenonT(60) DEF resolveSubsetShape, subsetSnapshot, ServiceInv, RequestInv
<1>2. CASE resolveSubsetShape(q)
  <2>1. byHandle' = byHandle /\ client' = client
        /\ (Leave(q) \/ Goto(q, "refetch") \/ Goto(q, "subsetSnapshot"))
    BY <1>2, Zenon DEF resolveSubsetShape, vars
  <2>2. QED
    BY <2>1, SameShapes, NoShapeTracks, AnswerFollow, GotoFollow, ZenonT(60) DEF Reading
<1>3. CASE subsetSnapshot(q)
  <2>1. Leave(q)
    BY <1>3 DEF subsetSnapshot
  <2>2. CASE UNCHANGED <<vars, client>>
    BY <2>1, <2>2, SameShapes, NoShapeTracks, AnswerFollow, ZenonT(60) DEF vars
  <2>3. ASSUME NEW rows \in Rows, UpsertSnapshotAtOffset(req[q].hash, rows, InitialOffset),
               IF Saved THEN client' = Outdated(byHash'[req[q].hash]) ELSE UNCHANGED client
        PROVE  FollowInv'
    <3>1. PICK x \in Hash : x = req[q].hash
      BY <1>1
    <3>2. PICK state : state = NoShape
      OBVIOUS
    <3>3. QED
      BY <2>1, <2>3, <3>1, <3>2, RegisterFollow, Zenon
  <2>4. QED
    BY <1>3, <2>2, <2>3, ZenonT(60) DEF subsetSnapshot
<1>4. QED
  BY <1>2, <1>3

\* A deletion: the shape is gone, and with it what its clients hold.
LEMMA deleteShapeFollow ==
  ASSUME ServiceInv, FollowInv, NEW q \in Waiter, deleteShape(q)
  PROVE  FollowInv'
<1>1. /\ client' = client /\ req \in [Waiter -> RequestState] /\ req[q] \in RequestState
      /\ byHandle \in [Handle -> ShapeState]
  BY DEF deleteShape, ServiceInv, ManagerInv, TypeOK
<1>2. CASE Leave(q)
  <2>1. byHandle' = byHandle \/ Delete(req[q].handle)
    BY <1>2 DEF deleteShape, vars
  <2>2. ShapesKept
    <3>1. \/ byHandle' = byHandle
          \/ byHandle' = [byHandle EXCEPT ![req[q].handle] = Tombstone]
      BY <2>1, Zenon DEF Delete, registry
    <3>2. QED
      BY <1>1, <3>1, FollowConstants DEF ShapesKept
  <2>3. QED
    BY <1>1, <1>2, <2>2, NoShapeTracks, AnswerFollow, Zenon
<1>3. CASE /\ req[q].pc = "delete" /\ UNCHANGED vars
           /\ req' = [req EXCEPT ![q].handle = byHash[req[q].hash]]
  <2>1. /\ req'[q].pc = "delete" /\ \A p \in Waiter : p # q => req'[p] = req[p]
    BY <1>1, <1>3, Zenon DEF RequestState
  <2>2. Linked(q)'
    BY <2>1 DEF Linked, Reading
  <2>3. ShapesKept
    BY <1>3, SameShapes, Zenon DEF vars
  <2>4. QED
    BY <1>1, <2>1, <2>2, <2>3, KeptFollow, Zenon
<1>4. QED
  BY <1>2, <1>3 DEF deleteShape

\* The first read of a request.
LEMMA serveContinuationFollow ==
  ASSUME ServiceInv, FollowInv, NEW q \in Waiter, serveContinuation(q)
  PROVE  FollowInv'
<1>1. req[q].pc = "read" /\ req[q].handle \in Handle /\ req[q].pc \in Reading
  BY ZenonT(60) DEF serveContinuation, ServiceInv, RequestInv, Reading
<1>2. ShapesKept
  BY SameShapes, Zenon DEF serveContinuation, vars
<1>3. CASE /\ client' = client
           /\ Leave(q) \/ Goto(q, "refetch") \/ Goto(q, "stream") \/ Goto(q, "poll")
  BY <1>1, <1>2, <1>3, NoShapeTracks, AnswerFollow, GotoFollow, Zenon
<1>4. CASE ~ReadFails(req[q].handle, req[q].offset) /\ Streams(q)
  BY <1>1, <1>2, <1>4, StreamsFollow, Zenon
<1>5. CASE ~ReadFails(req[q].handle, req[q].offset) /\ Delivers(q) /\ Leave(q)
  BY <1>1, <1>2, <1>5, DeliversFollow
<1>6. QED
  BY <1>3, <1>4, <1>5, Zenon DEF serveContinuation

\* A read after a wait.
LEMMA ReturnedFollow ==
  ASSUME ServiceInv, FollowInv, NEW q \in Waiter, Returned(q), ShapesKept
  PROVE  FollowInv'
<1>1. req[q].handle \in Handle /\ req[q].pc \in Reading
  BY ZenonT(60) DEF Returned, ServiceInv, RequestInv, Reading
<1>2. CASE client' = client /\ (Leave(q) \/ Goto(q, "refetch"))
  BY <1>1, <1>2, NoShapeTracks, AnswerFollow, GotoFollow, Zenon
<1>3. CASE ~ReadFails(req[q].handle, req[q].offset) /\ Delivers(q) /\ Leave(q)
  BY <1>1, <1>3, DeliversFollow
<1>4. CASE Receives(q, NoShape) /\ Leave(q)
  BY <1>4, NoShapeTracks, AnswerFollow
<1>5. CASE UNCHANGED service
  BY <1>5, IdleFollow DEF service
<1>6. CASE ~ReadFails(req[q].handle, req[q].offset) /\ Streams(q)
  BY <1>1, <1>6, StreamsFollow, ZenonT(60)
<1>7. QED
  BY <1>2, <1>3, <1>4, <1>5, <1>6, ZenonT(60) DEF Returned

\* The steps of WaitForChange.
LEMMA WaitForChangeFollow ==
  ASSUME ServiceInv, FollowInv, NEW q \in Waiter,
         \/ WaitForChange(q) \/ WaitForChangeLocked(q) \/ WaitForChangeWoken(q)
         \/ WaitForChangeDone(q) \/ WaitForChangeCancelled(q)
  PROVE  FollowInv'
<1>1. ShapesKept
  <2>1. byHandle' = byHandle
    BY DEF WaitForChange, WaitForChangeLocked, WaitForChangeWoken, WaitForChangeDone,
           WaitForChangeCancelled, WaitRead, WaitRegister, WaitWoken, WaitCancel, RemoveWaiter,
           registry, vars
  <2>2. QED
    BY <2>1, SameShapes, Zenon
<1>2. CASE UNCHANGED service
  BY <1>1, <1>2, IdleFollow DEF service
<1>3. CASE Returned(q)
  BY <1>1, <1>3, ReturnedFollow, Zenon
<1>4. CASE WaitForChangeCancelled(q)
  <2>1. client' = client
    BY <1>4 DEF WaitForChangeCancelled
  <2>2. CASE Leave(q)
    BY <1>1, <2>1, <2>2, NoShapeTracks, AnswerFollow, Zenon
  <2>3. CASE req[q].pc = "poll" /\ Goto(q, "expired")
    BY <1>1, <2>1, <2>3, GotoFollow, Zenon DEF Reading
  <2>4. CASE UNCHANGED <<req, slots>>
    BY <1>1, <2>1, <2>4, IdleFollow
  <2>5. QED
    BY <1>4, <2>2, <2>3, <2>4, ZenonT(60) DEF WaitForChangeCancelled
<1>5. QED
  BY <1>2, <1>3, <1>4
     DEF WaitForChange, WaitForChangeLocked, WaitForChangeWoken, WaitForChangeDone

\* The read of a long poll that ran into its deadline.
LEMMA pollExpiredFollow ==
  ASSUME ServiceInv, FollowInv, NEW q \in Waiter, pollExpired(q)
  PROVE  FollowInv'
<1>1. req[q].handle \in Handle /\ req[q].pc \in Reading /\ Leave(q)
  BY Zenon DEF pollExpired, ServiceInv, RequestInv, Reading
<1>2. ShapesKept
  BY SameShapes DEF pollExpired, vars
<1>3. CASE client' = client
  BY <1>1, <1>2, <1>3, NoShapeTracks, AnswerFollow, Zenon
<1>4. CASE ~ReadFails(req[q].handle, req[q].offset) /\ Delivers(q)
  BY <1>1, <1>2, <1>4, DeliversFollow, Zenon
<1>5. QED
  BY <1>3, <1>4, ZenonT(60) DEF pollExpired

\* A client asks from where it is, or for something new.
LEMMA HandleShapeFollow ==
  ASSUME ServiceInv, FollowInv, NEW q \in Waiter, HandleShape(q)
  PROVE  FollowInv'
<1>1. req \in [Waiter -> RequestState] /\ client' = client /\ ShapesKept
  BY SameShapes DEF HandleShape, ServiceInv, vars
<1>2. PICK r \in Requests(q) : req' = [req EXCEPT ![q] = [r EXCEPT !.kind = admissionKind(r)]]
  BY Zenon DEF HandleShape
<1>3. /\ r \in [pc : {"snapshot", "now", "read", "subset", "delete"}, hash : Hash,
                handle : {NoHandle, client[q].handle},
                offset : {InitialOffset, NowOffset, InvalidOffset, client[q].offset},
                live : {"no", "poll", "sse"}, kind : {"none"}, gone : {FALSE}]
      /\ r.pc \in Reading => r.handle = client[q].handle /\ r.offset = client[q].offset
  BY <1>2, ZenonT(60) DEF Requests, Reading
<1>4. /\ req'[q].pc = r.pc /\ req'[q].handle = r.handle /\ req'[q].offset = r.offset
      /\ \A p \in Waiter : p # q => req'[p] = req[p]
  BY <1>1, <1>2, <1>3, ZenonT(60)
<1>5. Linked(q)'
  BY <1>1, <1>3, <1>4 DEF Linked
<1>6. QED
  BY <1>1, <1>4, <1>5, KeptFollow, Zenon

\* A client closes its connection.
LEMMA ClientGoneFollow ==
  ASSUME ServiceInv, FollowInv, NEW q \in Waiter, ClientGone(q)
  PROVE  FollowInv'
<1>1. /\ req \in [Waiter -> RequestState] /\ req[q] \in RequestState /\ client' = client
      /\ ShapesKept /\ req' = [req EXCEPT ![q].gone = TRUE]
  BY SameShapes DEF ClientGone, ServiceInv, vars
<1>2. req'[q].gone = TRUE /\ \A p \in Waiter : p # q => req'[p] = req[p]
  BY <1>1, Zenon DEF RequestState
<1>3. Linked(q)'
  BY <1>2, Zenon DEF Linked
<1>4. QED
  BY <1>1, <1>2, <1>3, KeptFollow

-----------------------------------------------------------------------------
(***************************************************************************)
(* Replication and restarts.                                               *)
(***************************************************************************)
\* A batch of a commit is written, or the write fails.
LEMMA BatchFollow ==
  ASSUME HasGreatest, ServiceInv, FollowInv, NEW h \in Handle, Active(h),
         NEW rows \in Rows, NEW msgs \in Seq(Message), NEW news,
         Replace(h, Extended(byHandle[h], rows, msgs), news),
         NEW l \in Nat, Batch(byHandle[h], rows, msgs, l), req' = req, client' = client
  PROVE  FollowInv'
<1>1. byHandle \in [Handle -> ShapeState] /\ client \in [Waiter -> ClientState]
  BY Zenon DEF ServiceInv, ClientInv, ManagerInv, TypeOK
<1>2. CASE byHandle' = byHandle
  BY <1>2, SameShapes, IdleFollow, Zenon
<1>3. CASE byHandle' = [byHandle EXCEPT ![h] = Extended(byHandle[h], rows, msgs)]
  <2>1. PICK old \in [Handle -> ShapeState] : old = byHandle
    BY <1>1
  <2>2. PICK new : new = byHandle'
    BY Zenon
  <2>3. Replaced(old, new, h, Extended(old[h], rows, msgs))
    BY <1>3, <2>1, <2>2, Zenon DEF Replaced
  <2>4. old[h].status = "active" /\ OrderedLogs(old) /\ Batch(old[h], rows, msgs, l)
    BY <2>1 DEF FollowInv, Active
  <2>5. AfterBatch(old, new)
    BY <2>3, <2>4, BatchTracks, Zenon
  <2>6. \A q \in Waiter : Tracks(byHandle', client'[q])
    BY <1>1, <2>1, <2>2, <2>5 DEF FollowInv, AfterBatch
  <2>7. \A q \in Waiter : Linked(q)'
    BY ZenonT(60) DEF FollowInv, Linked
  <2>8. QED
    BY <2>2, <2>5, <2>6, <2>7, Zenon DEF FollowInv, AfterBatch
<1>4. QED
  BY <1>2, <1>3 DEF Replace

\* The rows of the keys a commit touched.
LEMMA RefreshKeysFollow ==
  ASSUME HasGreatest, DiffsAreSound, ServiceInv, FollowInv,
         NEW h \in Handle, NEW current \in Rows, NEW lsn \in Nat,
         lsn > byHandle[h].offset.lsn, RefreshKeysWithMetadata(h, Key, current, lsn),
         req' = req, client' = client
  PROVE  FollowInv'
<1> DEFINE s       == byHandle[h]
           rows    == [k \in Key |-> IF k \in Key THEN current[k] ELSE s.materialized[k]]
           changed == {k \in Key : s.materialized[k] # current[k]}
<1>1. s \in ShapeState /\ s.offset \in Offset /\ s.offset.lsn \in Nat /\ Active(h)
  BY Zenon DEF RefreshKeysWithMetadata, ServiceInv, ManagerInv, TypeOK, ShapeState, Offset
<1>2. rows \in Rows /\ changed \in SUBSET Key /\ \A k \in Key \ changed : rows[k] = s.materialized[k]
  BY ZenonT(60) DEF Rows
<1>3. PICK ks \in Sorted(changed) :
        Replace(h, Extended(s, rows, DiffMessages(ks, rows, FALSE, s.offset, lsn)),
                DiffMessages(ks, rows, FALSE, s.offset, lsn) # <<>>)
  BY ZenonT(60) DEF RefreshKeysWithMetadata
<1> HIDE DEF rows, changed
<1> DEFINE msgs == DiffMessages(ks, rows, FALSE, s.offset, lsn)
<1>4. /\ msgs \in Seq(Message)
      /\ \A k \in Key : /\ k \notin changed => SaysNothing(msgs, k)
                        /\ k \in changed => Says(msgs, k, rows[k])
  BY <1>1, <1>2, ZenonT(60) DEF DiffsAreSound
<1>5. Numbered(msgs, lsn) /\ byHandle[h].offset.lsn < lsn
  <2>1. lsn > 0 /\ byHandle[h].offset.lsn < lsn
    BY <1>1
  <2>2. QED
    BY <2>1, DiffNumbered, ZenonT(60)
<1>6. Replace(h, Extended(byHandle[h], rows, msgs), msgs # <<>>)
  BY <1>3, ZenonT(60)
<1> HIDE DEF msgs
<1>7. Batch(byHandle[h], rows, msgs, lsn)
  <2>1. ASSUME NEW k \in Key
        PROVE  \/ rows[k] = byHandle[h].materialized[k] /\ SaysNothing(msgs, k)
               \/ Says(msgs, k, rows[k])
    BY <1>2, <1>4, ZenonT(60)
  <2>2. QED
    BY <1>5, <2>1 DEF Batch
<1> HIDE DEF s
<1>8. QED
  BY <1>1, <1>2, <1>4, <1>6, <1>7, BatchFollow, ZenonT(60)

\* The rows of the whole shape.
LEMMA RefreshFollow ==
  ASSUME HasGreatest, DiffsAreSound, ServiceInv, FollowInv,
         NEW h \in Handle, NEW rows \in Rows, NEW lsn \in Nat,
         lsn > byHandle[h].offset.lsn, NEW related, RefreshWithMetadata(h, rows, related, lsn),
         req' = req, client' = client
  PROVE  FollowInv'
<1> DEFINE s       == byHandle[h]
           changed == {k \in Key : s.materialized[k] # rows[k]}
           moveIn  == /\ related
                      /\ h.hash \in Dependent
                      /\ \E k \in changed : s.materialized[k] = NoRow
<1>1. s \in ShapeState /\ s.offset \in Offset /\ s.offset.lsn \in Nat /\ Active(h)
  BY ZenonT(60) DEF RefreshWithMetadata, ServiceInv, ManagerInv, TypeOK, ShapeState, Offset
<1>2. /\ changed \in SUBSET Key /\ moveIn \in BOOLEAN
      /\ \A k \in Key \ changed : rows[k] = s.materialized[k]
  BY ZenonT(60)
<1>3. PICK ks \in Sorted(changed) :
        Replace(h, Extended(s, rows, DiffMessages(ks, rows, moveIn, s.offset, lsn)),
                DiffMessages(ks, rows, moveIn, s.offset, lsn) # <<>>)
  BY ZenonT(60) DEF RefreshWithMetadata
<1> HIDE DEF changed, moveIn
<1> DEFINE msgs == DiffMessages(ks, rows, moveIn, s.offset, lsn)
<1>4. /\ msgs \in Seq(Message)
      /\ \A k \in Key : /\ k \notin changed => SaysNothing(msgs, k)
                        /\ k \in changed => Says(msgs, k, rows[k])
  BY <1>1, <1>2, ZenonT(60) DEF DiffsAreSound
<1>5. Numbered(msgs, lsn) /\ byHandle[h].offset.lsn < lsn
  <2>1. lsn > 0 /\ byHandle[h].offset.lsn < lsn
    BY <1>1
  <2>2. QED
    BY <2>1, DiffNumbered, ZenonT(60)
<1>6. Replace(h, Extended(byHandle[h], rows, msgs), msgs # <<>>)
  BY <1>3, ZenonT(60)
<1> HIDE DEF msgs
<1>7. Batch(byHandle[h], rows, msgs, lsn)
  <2>1. ASSUME NEW k \in Key
        PROVE  \/ rows[k] = byHandle[h].materialized[k] /\ SaysNothing(msgs, k)
               \/ Says(msgs, k, rows[k])
    BY <1>2, <1>4
  <2>2. QED
    BY <1>5, <2>1, ZenonT(60) DEF Batch
<1> HIDE DEF s
<1>8. QED
  BY <1>1, <1>4, <1>6, <1>7, BatchFollow, ZenonT(60)

\* What replication does to the shapes.
LEMMA ReplicateFollow ==
  ASSUME HasGreatest, DiffsAreSound, ServiceInv, FollowInv, Replicate
  PROVE  FollowInv'
<1>1. req' = req /\ client' = client /\ byHandle \in [Handle -> ShapeState]
  BY Zenon DEF Replicate, service, ServiceInv, ManagerInv, TypeOK
<1>2. ASSUME NEW h \in Handle, NEW rows \in Rows, NEW lsn \in CommitLSNs,
             lsn > byHandle[h].offset.lsn,
             \/ RefreshKeysWithMetadata(h, Key, rows, lsn)
             \/ RefreshWithMetadata(h, rows, TRUE, lsn)
      PROVE  FollowInv'
  <2>1. lsn \in Nat
    BY ManagerAssumption
  <2>2. QED
    BY <1>1, <1>2, <2>1, RefreshKeysFollow, RefreshFollow, Zenon
<1>3. ASSUME NEW r \in Relation, InvalidateByRelation(r) \/ InvalidateByRelationFails(r)
      PROVE  FollowInv'
  <2>1. byHandle' = byHandle \/ \E H : byHandle' = Buried(H)
    BY <1>3, ZenonT(60) DEF InvalidateByRelation, InvalidateByRelationFails, registry
  <2>2. ShapesKept
    BY <1>1, <2>1, FollowConstants, Zenon DEF ShapesKept, Buried
  <2>3. QED
    BY <1>1, <2>2, IdleFollow
<1>4. QED
  BY <1>2, <1>3, ZenonT(60) DEF Replicate

\* A restart brings back the logs as they were, and no request.
LEMMA RestartFollow ==
  ASSUME ServiceInv, FollowInv, Restart
  PROVE  FollowInv'
<1>1. \A g \in Handle : Loaded(g) = byHandle[g] \/ Loaded(g).status # "active"
  BY FollowConstants, ZenonT(60) DEF Loaded, ServiceInv, ManagerInv, StoreAgrees
<1>2. ShapesKept /\ client' = client /\ req' = [q \in Waiter |-> NoRequest]
  BY <1>1 DEF Restart, loadPersisted, ShapesKept
<1>3. OrderedLogs(byHandle') /\ \A q \in Waiter : Tracks(byHandle', client'[q])
  BY <1>2, KeptTracks, ZenonT(60) DEF FollowInv, ShapesKept
<1>4. \A q \in Waiter : Linked(q)'
  BY <1>2 DEF Linked, NoRequest, Reading
<1>5. QED
  BY <1>3, <1>4, Zenon DEF FollowInv

-----------------------------------------------------------------------------
\* Every step of the service keeps every client on track.
LEMMA ServiceNext_Follow ==
  ASSUME HasGreatest, DiffsAreSound, ServiceInv, FollowInv, [ServiceNext]_svars
  PROVE  FollowInv'
<1>1. ASSUME NEW q \in Waiter, HandleShape(q) \/ ClientGone(q) \/ Serve(q)
      PROVE  FollowInv'
  BY <1>1, HandleShapeFollow, ClientGoneFollow, serveInitialSnapshotFollow, serveNowFollow, ZenonT(60),
     mustRefetchFollow, subsetFollow, deleteShapeFollow, serveContinuationFollow,
     WaitForChangeFollow, pollExpiredFollow DEF Serve
<1>2. CASE UNCHANGED svars
  BY <1>2, SameShapes, IdleFollow DEF svars, vars
<1>3. QED
  BY <1>1, <1>2, ReplicateFollow, RestartFollow, Zenon DEF ServiceNext

\* Nobody follows anything yet.
LEMMA ServiceInit_Follow == ServiceInit => FollowInv
<1> SUFFICES ASSUME ServiceInit
             PROVE  FollowInv
  OBVIOUS
<1>1. OrderedLogs(byHandle)
  BY ZenonT(60) DEF ServiceInit, Init, OrderedLogs, Absent
<1>2. ASSUME NEW q \in Waiter
      PROVE  Tracks(byHandle, client[q]) /\ Linked(q)
  <2>1. client[q].same = FALSE /\ req[q].pc = "idle"
    BY DEF ServiceInit, NoShape, NoRequest
  <2>2. QED
    BY <2>1, ZenonT(60) DEF Tracks, Linked, Reading
<1>3. QED
  BY <1>1, <1>2 DEF FollowInv

=============================================================================
