------------------------- MODULE ShapeManagerProofs -------------------------
(***************************************************************************)
(* The registry is sound for any definitions, tables, keys and rows, any   *)
(* number of shapes and any number of failed writes and restarts: types,   *)
(* IndexesConsistent, StoreAgrees and NoResurrection; then, from the same  *)
(* invariant, LogComplete and NoLostWakeup.                                *)
(***************************************************************************)
EXTENDS ShapeNotions, TLAPS

-----------------------------------------------------------------------------
(***************************************************************************)
(* The log of one shape explains its rows: the snapshot, or the last write *)
(* of a key, is the row of the key.  The lemma needs no invariant of the   *)
(* manager; the section on LogComplete applies it to every operation.      *)
(***************************************************************************)
\* LogComplete for one key of a shape.
Explained(s, k) ==
  \/ /\ \A i \in DOMAIN s.changes : s.changes[i].key # k
     /\ s.materialized[k] = s.snapshot[k]
  \/ \E i \in DOMAIN s.changes : LastWrite(s, k, i) /\ s.materialized[k] = s.changes[i].row

Complete(s) == \A k \in Key : Explained(s, k)

\* Extending the log and the rows by the same batch keeps a key explained.
LEMMA ExtendedExplained ==
  ASSUME NEW s \in ShapeState, NEW rows \in Rows, NEW msgs \in Seq(Message), NEW k \in Key,
         Explained(s, k),
         \/ rows[k] = s.materialized[k] /\ SaysNothing(msgs, k)
         \/ Says(msgs, k, rows[k])
  PROVE  Explained(Extended(s, rows, msgs), k)
<1> DEFINE n == Len(s.changes)
           m == Len(msgs)
           log == s.changes \o msgs
<1>1. /\ s.changes \in Seq(Message) /\ n \in Nat /\ m \in Nat
      /\ DOMAIN s.changes = 1 .. n /\ DOMAIN msgs = 1 .. m
  BY DEF ShapeState
<1>2. /\ log \in Seq(Message) /\ Len(log) = n + m /\ DOMAIN log = 1 .. n + m
      /\ \A i \in 1 .. n : log[i] = s.changes[i]
      /\ \A i \in 1 .. m : log[n + i] = msgs[i]
      /\ \A i \in n + 1 .. n + m : log[i] = msgs[i - n] /\ i - n \in 1 .. m
  BY <1>1, SMT, SMTT(30)
<1> DEFINE t == Extended(s, rows, msgs)
<1>3. t.changes = log /\ t.materialized = rows /\ t.snapshot = s.snapshot
  BY DEF Extended, ShapeState
<1> HIDE DEF n, m, log, t
<1>4. CASE Says(msgs, k, rows[k])
  <2>1. PICK i \in 1 .. m : /\ msgs[i].key = k /\ msgs[i].row = rows[k]
                            /\ \A j \in 1 .. m : j > i => msgs[j].key # k
    BY <1>1, <1>4, ZenonT(60) DEF Says
  <2>2. n + i \in 1 .. n + m /\ log[n + i] = msgs[i]
    BY <1>1, <1>2
  <2>3. ASSUME NEW j \in 1 .. n + m, j > n + i
        PROVE  log[j].key # k
    <3>1. j \in n + 1 .. n + m /\ j - n \in 1 .. m /\ j - n > i
      BY <1>1, <2>3
    <3>2. QED
      BY <1>2, <2>1, <3>1
  <2>4. LastWrite(t, k, n + i)
    BY <1>2, <1>3, <2>1, <2>2, <2>3 DEF LastWrite
  <2>5. t.materialized[k] = t.changes[n + i].row
    BY <1>3, <2>1, <2>2
  <2>6. QED
    BY <1>2, <1>3, <2>2, <2>4, <2>5, ZenonT(60) DEF Explained, t
<1>5. CASE rows[k] = s.materialized[k] /\ SaysNothing(msgs, k)
  <2>1. ASSUME NEW j \in n + 1 .. n + m
        PROVE  log[j].key # k
    <3>1. j - n \in DOMAIN msgs /\ log[j] = msgs[j - n]
      BY <1>1, <1>2, Zenon
    <3>2. QED
      BY <1>5, <3>1, ZenonT(60) DEF SaysNothing
  <2>2. CASE /\ \A i \in DOMAIN s.changes : s.changes[i].key # k
             /\ s.materialized[k] = s.snapshot[k]
    <3>1. ASSUME NEW j \in 1 .. n + m
          PROVE  log[j].key # k
      <4>1. j \in 1 .. n \/ j \in n + 1 .. n + m
        BY <1>1
      <4>2. QED
        BY <1>1, <1>2, <2>1, <2>2, <4>1, Zenon
    <3>2. QED
      BY <1>2, <1>3, <1>5, <2>2, <3>1 DEF Explained, t
  <2>3. CASE \E i \in DOMAIN s.changes : LastWrite(s, k, i) /\ s.materialized[k] = s.changes[i].row
    <3>1. PICK i \in 1 .. n : /\ s.changes[i].key = k
                              /\ \A j \in 1 .. n : j > i => s.changes[j].key # k
                              /\ s.materialized[k] = s.changes[i].row
      BY <1>1, <2>3, Zenon DEF LastWrite
    <3>2. i \in 1 .. n + m /\ log[i] = s.changes[i]
      BY <1>1, <1>2
    <3>3. ASSUME NEW j \in 1 .. n + m, j > i
          PROVE  log[j].key # k
      <4>1. j \in 1 .. n \/ j \in n + 1 .. n + m
        BY <1>1
      <4>2. QED
        BY <1>2, <2>1, <3>1, <3>3, <4>1
    <3>4. LastWrite(t, k, i)
      BY <1>2, <1>3, <3>1, <3>2, <3>3 DEF LastWrite
    <3>5. t.materialized[k] = t.changes[i].row
      BY <1>3, <1>5, <3>1, <3>2
    <3>6. QED
      BY <1>2, <1>3, <3>2, <3>4, <3>5, ZenonT(60) DEF Explained, t
  <2>4. QED
    BY <2>2, <2>3, ZenonT(60) DEF Explained
<1>6. QED
  BY <1>4, <1>5 DEF t

\* A batch without messages leaves the log as it was.
LEMMA EmptyBatch ==
  ASSUME NEW s \in ShapeState, NEW rows
  PROVE  /\ Extended(s, rows, <<>>).status = s.status
         /\ Extended(s, rows, <<>>).changes = s.changes
         /\ Extended(s, rows, <<>>).offset = s.offset
<1>1. s.changes \in Seq(Message)
  BY DEF ShapeState
<1>2. s.changes \o <<>> = s.changes
  BY <1>1
<1>3. QED
  BY <1>2 DEF Extended, ShapeState

\* A batch of one message is about the key of the message.
LEMMA OneMessage ==
  ASSUME NEW msg \in Message
  PROVE  /\ <<msg>> \in Seq(Message)
         /\ \A j \in Key : j # msg.key => SaysNothing(<<msg>>, j)
         /\ Says(<<msg>>, msg.key, msg.row)
BY DEF Says, SaysNothing

-----------------------------------------------------------------------------
(***************************************************************************)
(* The messages of a batch are messages.                                   *)
(***************************************************************************)
LEMMA OffsetConstants ==
  /\ InvalidOffset \in Offset
  /\ InitialOffset \in Offset
  /\ NowOffset \in Offset
BY DEF Offset, InvalidOffset, InitialOffset, SequenceOffset, NowOffset,
     RankInvalid, RankSequence, RankNow

\* What applyChangeOffsets gives a message is an offset.
LEMMA BatchOffsetType ==
  ASSUME NEW o \in Offset, NEW lsn \in Nat, NEW i \in Nat
  PROVE  /\ NextGeneratedOffset(o, i) \in Offset
         /\ BatchOffset(o, lsn, i) \in Offset
<1> USE DEF Offset, LSNOffset, SequenceOffset, RankInvalid, RankSequence, RankNow, RankLSN
<1>1. ASSUME NEW l \in Nat, NEW p \in Nat
      PROVE  LSNOffset(l, p) \in Offset /\ SequenceOffset(p) \in Offset
  OBVIOUS
<1>2. /\ o.lsn \in Nat /\ o.pos \in Nat
      /\ o.pos + i + 1 \in Nat /\ i + 1 \in Nat /\ 0 \in Nat
  OBVIOUS
<1>3. NextGeneratedOffset(o, i) \in Offset
  <2> HIDE DEF Offset, LSNOffset, SequenceOffset
  <2>1. NextGeneratedOffset(o, i) \in {LSNOffset(o.lsn, o.pos + i + 1), LSNOffset(i + 1, 0),
                                       SequenceOffset(i + 1), SequenceOffset(o.pos + i + 1)}
    BY DEF NextGeneratedOffset
  <2>2. QED
    BY <1>1, <1>2, <2>1
<1>4. QED
  BY <1>1, <1>3 DEF BatchOffset

\* The sort order of a set of keys is a sequence of them.
LEMMA SortedKeys ==
  ASSUME NEW S \in SUBSET Key, NEW ks \in Sorted(S)
  PROVE  \E n \in Nat : /\ ks \in [1 .. n -> S]
                        /\ \A i, j \in 1 .. n : i < j => ks[i] < ks[j]
                        /\ \A x \in S : \E i \in 1 .. n : ks[i] = x
<1>1. PICK n \in {0} \cup UNION {1 .. k : k \in S} :
        /\ ks \in [1 .. n -> S]
        /\ \A i, j \in 1 .. n : i < j => ks[i] < ks[j]
        /\ \A x \in S : \E i \in 1 .. n : ks[i] = x
  BY ZenonT(60) DEF Sorted
<1>2. n \in Nat
  BY ManagerAssumption
<1>3. QED
  BY <1>1, <1>2, Zenon

\* As a sequence.
LEMMA SortedType ==
  ASSUME NEW S \in SUBSET Key, NEW ks \in Sorted(S)
  PROVE  ks \in Seq(Key) /\ (\A i \in 1 .. Len(ks) : ks[i] \in S)
<1>1. PICK n \in Nat : ks \in [1 .. n -> S]
  BY SortedKeys
<1>2. QED
  BY <1>1

\* diffRows gives a sequence of messages, one per changed key.
LEMMA DiffMessagesType ==
  ASSUME NEW ks \in Seq(Key), NEW rows \in Rows, NEW control,
         NEW o \in Offset, NEW lsn \in Nat
  PROVE  DiffMessages(ks, rows, control, o, lsn) \in Seq(Message)
<1> DEFINE n == Len(ks) + (IF control THEN 1 ELSE 0)
<1>1. n \in Nat
  OBVIOUS
<1>2. ASSUME NEW i \in 1 .. n
      PROVE  [key    |-> IF i <= Len(ks) THEN ks[i] ELSE 0,
              row    |-> IF i <= Len(ks) THEN rows[ks[i]] ELSE NoRow,
              offset |-> BatchOffset(o, lsn, i - 1)] \in Message
  <2>1. BatchOffset(o, lsn, i - 1) \in Offset
    BY BatchOffsetType, i - 1 \in Nat
  <2>2. CASE i <= Len(ks)
    <3>1. ks[i] \in Key
      BY <2>2, <1>1
    <3>2. rows[ks[i]] \in Row \cup {NoRow}
      BY <3>1 DEF Rows
    <3>3. QED
      BY <2>1, <2>2, <3>1, <3>2 DEF Message
  <2>3. CASE ~(i <= Len(ks))
    BY <2>1, <2>3 DEF Message
  <2>4. QED
    BY <2>2, <2>3
<1>3. DiffMessages(ks, rows, control, o, lsn) \in [1 .. n -> Message]
  BY <1>2 DEF DiffMessages
<1>4. QED
  BY <1>1, <1>3

-----------------------------------------------------------------------------
(***************************************************************************)
(* The shapes the operations write.                                        *)
(***************************************************************************)
LEMMA EmptyShapes ==
  /\ Absent \in ShapeState /\ Absent.status = "absent" /\ Len(Absent.changes) = 0
  /\ Tombstone \in ShapeState /\ Tombstone.status = "deleted" /\ Len(Tombstone.changes) = 0
<1>1. NoRows \in Rows
  BY DEF NoRows, Rows
<1>2. <<>> \in Seq(Message) /\ Len(<<>>) = 0
  OBVIOUS
<1>3. QED
  BY <1>1, <1>2, OffsetConstants, Zenon DEF Absent, Tombstone, ShapeState

\* buildSnapshotMessages and materializedRows give a state of the right type.
LEMMA FreshStateType ==
  ASSUME NEW rows \in Rows, NEW o \in Offset
  PROVE  FreshState(rows, o) \in ShapeState /\ FreshState(rows, o).status = "active"
<1>1. <<>> \in Seq(Message)
  OBVIOUS
<1>2. QED
  BY <1>1 DEF FreshState, ShapeState

\* A batch makes a log longer, or leaves it as it was.
LEMMA ExtendedType ==
  ASSUME NEW s \in ShapeState, NEW rows \in Rows, NEW msgs \in Seq(Message)
  PROVE  /\ Extended(s, rows, msgs) \in ShapeState
         /\ Extended(s, rows, msgs).status = s.status
         /\ Len(Extended(s, rows, msgs).changes) >= Len(s.changes)
<1> DEFINE o == IF msgs = <<>> THEN s.offset ELSE msgs[Len(msgs)].offset
<1>1. o \in Offset
  <2>1. CASE msgs = <<>>
    BY <2>1 DEF ShapeState
  <2>2. CASE msgs # <<>>
    <3>1. msgs[Len(msgs)] \in Message
      BY <2>2
    <3>2. QED
      BY <2>2, <3>1 DEF Message
  <2>3. QED
    BY <2>1, <2>2
<1>2. /\ s.changes \in Seq(Message)
      /\ s.changes \o msgs \in Seq(Message)
      /\ Len(s.changes \o msgs) >= Len(s.changes)
  <2>1. s.changes \in Seq(Message)
    BY DEF ShapeState
  <2>2. QED
    BY <2>1
<1>3. Extended(s, rows, msgs) = [s EXCEPT !.materialized = rows,
                                         !.changes = s.changes \o msgs, !.offset = o]
  BY DEF Extended
<1> HIDE DEF o
<1>4. QED
  BY <1>1, <1>2, <1>3, Zenon DEF ShapeState

\* diffRows: a message for each changed key, none for the others.
LEMMA DiffSays ==
  ASSUME NEW S \in SUBSET Key, NEW ks \in Sorted(S), NEW rows \in Rows, NEW control,
         NEW o, NEW lsn, NEW k \in Key
  PROVE  /\ k \notin S => SaysNothing(DiffMessages(ks, rows, control, o, lsn), k)
         /\ k \in S => Says(DiffMessages(ks, rows, control, o, lsn), k, rows[k])
<1>1. PICK c \in Nat : /\ ks \in [1 .. c -> S]
                       /\ \A i, j \in 1 .. c : i < j => ks[i] < ks[j]
                       /\ \A x \in S : \E i \in 1 .. c : ks[i] = x
  BY SortedKeys, ZenonT(60)
<1> DEFINE n == Len(ks) + (IF control THEN 1 ELSE 0)
           msgs == DiffMessages(ks, rows, control, o, lsn)
<1>3. Len(ks) = c /\ n \in Nat /\ n \in {c, c + 1}
  BY <1>1
<1>4. /\ DOMAIN msgs = 1 .. n
      /\ \A i \in 1 .. c : msgs[i].key = ks[i] /\ msgs[i].row = rows[ks[i]]
      /\ \A i \in 1 .. n : i > c => msgs[i].key = 0
  BY <1>1, <1>3 DEF DiffMessages
<1>5. \A x \in S : x \in Nat /\ x # 0
  BY ManagerAssumption
<1>6. k # 0
  BY ManagerAssumption
<1> HIDE DEF n, msgs
<1>7. ASSUME k \notin S
      PROVE  SaysNothing(msgs, k)
  <2>1. ASSUME NEW i \in 1 .. n
        PROVE  msgs[i].key # k
    <3>1. i \in 1 .. c \/ i > c
      BY <1>1, <1>3
    <3>2. QED
      BY <1>1, <1>4, <1>6, <1>7, <3>1
  <2>2. QED
    BY <1>4, <2>1 DEF SaysNothing
<1>8. ASSUME k \in S
      PROVE  Says(msgs, k, rows[k])
  <2>1. PICK i \in 1 .. c : ks[i] = k
    BY <1>1, <1>8
  <2>2. i \in 1 .. n /\ msgs[i].key = k /\ msgs[i].row = rows[k]
    BY <1>1, <1>3, <1>4, <2>1
  <2>3. ASSUME NEW j \in 1 .. n, j > i
        PROVE  msgs[j].key # k
    <3>1. CASE j \in 1 .. c
      <4>1. ks[i] < ks[j] /\ ks[i] \in Nat /\ ks[j] \in Nat
        BY <1>1, <1>5, <2>3, <3>1
      <4>2. QED
        BY <1>4, <2>1, <3>1, <4>1
    <3>2. CASE j > c
      BY <1>4, <1>6, <3>2
    <3>3. QED
      BY <1>1, <1>3, <3>1, <3>2
  <2>4. QED
    BY <1>4, <2>2, <2>3 DEF Says
<1>9. QED
  BY <1>7, <1>8 DEF msgs

\* What the other proofs take from these lemmas.
LEMMA Diffs == DiffsAreSound
BY SortedType, DiffMessagesType, DiffSays, ZenonT(60) DEF DiffsAreSound

-----------------------------------------------------------------------------
(***************************************************************************)
(* Handles are given out in the order of the clock, and a spent one stays  *)
(* spent.                                                                  *)
(***************************************************************************)
\* The handle CreateShape gives out is a new one.
LEMMA NewHandle ==
  ASSUME ManagerInv, NEW x \in Hash, NEW state, CreateShape(x, state)
  PROVE  \E h \in Handle : /\ h = [hash |-> x, stamp |-> clock + 1]
                            /\ ~Active(h) /\ ~Spent(h)
                            /\ byHandle[h].status = "absent"
<1>1. /\ clock \in Nat /\ clock + 1 \in 1 .. MaxStamp
      /\ clock + 1 > clock /\ ~(clock + 1 <= clock)
  BY ManagerAssumption DEF CreateShape, ManagerInv, TypeOK
<1>2. PICK h \in Handle : h = [hash |-> x, stamp |-> clock + 1]
  BY <1>1, Zenon DEF Handle
<1>3. byHandle[h] = Absent
  BY <1>1, <1>2 DEF ManagerInv, SlotInv
<1>4. QED
  BY <1>1, <1>2, <1>3, EmptyShapes DEF Active, Spent

\* Writing a shape that was active, or one under a new handle.
LEMMA OneShapeOlder ==
  ASSUME ManagerInv, NEW h \in Handle, NEW new, ~Spent(h), clock' \in {clock, clock + 1},
         byHandle' = byHandle \/ byHandle' = [byHandle EXCEPT ![h] = new]
  PROVE  Older
<1>1. clock \in Nat /\ \A g \in Handle : g.stamp \in Nat
  BY ManagerAssumption DEF ManagerInv, TypeOK, Handle
<1>2. \A g \in Handle : g # h => byHandle'[g] = byHandle[g]
  BY Zenon DEF ManagerInv, TypeOK
<1>3. QED
  BY <1>1, <1>2 DEF Older, Spent, Active

\* Shapes stay as they are or cease to be active.
LEMMA FewerShapesOlder ==
  ASSUME ManagerInv, clock' = clock,
         \A g \in Handle : byHandle'[g] = byHandle[g] \/ byHandle'[g].status # "active"
  PROVE  Older
<1>1. clock \in Nat
  BY ManagerAssumption DEF ManagerInv, TypeOK
<1>2. QED
  BY <1>1 DEF Older, Spent, Active

-----------------------------------------------------------------------------
(***************************************************************************)
(* The operations.                                                         *)
(***************************************************************************)
\* A stored log with messages belongs to an active shape, and memory agrees.
LEMMA StoredLogIsActive ==
  ASSUME ManagerInv, NEW h \in Handle, Len(store[h].changes) > 0
  PROVE  store[h].status = "active"
<1>1. store[h] = byHandle[h]
  BY EmptyShapes DEF ManagerInv, StoreAgrees
<1>2. byHandle[h].status \in {"absent", "active", "deleted"}
  BY DEF ManagerInv, TypeOK, ShapeState
<1>3. QED
  BY <1>1, <1>2, EmptyShapes DEF ManagerInv, SlotInv

\* The write of one shape, whether it is an active one or an empty one.
LEMMA SaveShapeStep ==
  ASSUME ManagerInv, NEW h \in Handle, NEW new \in ShapeState,
         new.status = "active" \/ Len(new.changes) = 0,
         SaveShape(h, new)
  PROVE  /\ store' \in [Handle -> ShapeState] /\ damaged' \in SUBSET Handle /\ faults' \in Nat
         /\ store'[h] = new
         /\ \A g \in Handle : g # h => store'[g] = store[g]
         /\ DiskInv'
<1>1. /\ store \in [Handle -> ShapeState] /\ damaged \in SUBSET Handle /\ faults \in Nat
  BY DEF ManagerInv, TypeOK
<1>2. /\ store' \in [Handle -> ShapeState] /\ store'[h] = new
      /\ \A g \in Handle : g # h => store'[g] = store[g]
  BY <1>1 DEF SaveShape
<1>3. damaged' \in SUBSET Handle /\ faults' \in Nat
  BY <1>1 DEF SaveShape
<1>4. Len(new.changes) \in Nat /\ Len(store[h].changes) \in Nat
  BY <1>1 DEF ShapeState
<1>5. ASSUME NEW g \in damaged'
      PROVE  store'[g].status = "active" /\ Len(store'[g].changes) > 0
  <2>1. g \in damaged
    BY DEF SaveShape
  <2>2. CASE g # h
    BY <1>1, <1>2, <2>1, <2>2 DEF ManagerInv, DiskInv
  <2>3. CASE g = h
    <3>1. ~ DropsMessages(h, new)
      BY <2>3 DEF SaveShape
    <3>2. Len(new.changes) >= Len(store[h].changes) /\ Len(store[h].changes) > 0
      BY <3>1, <1>4, <2>1, <2>3 DEF DropsMessages, ManagerInv, DiskInv
    <3>3. QED
      BY <1>2, <1>4, <2>3, <3>2
  <2>4. QED
    BY <2>2, <2>3
<1>6. QED
  BY <1>2, <1>3, <1>5 DEF DiskInv

\* A failed write changes no stored shape; it can damage an active one only.
LEMMA SaveShapeFailsStep ==
  ASSUME ManagerInv, NEW h \in Handle, NEW new \in ShapeState,
         SaveShapeFails(h, new)
  PROVE  store' = store /\ damaged' \in SUBSET Handle /\ faults' \in Nat /\ DiskInv'
<1>1. /\ store \in [Handle -> ShapeState] /\ damaged \in SUBSET Handle /\ faults \in Nat
  BY DEF ManagerInv, TypeOK
<1>2. store' = store /\ damaged' \in SUBSET Handle /\ faults' \in Nat
  BY <1>1 DEF SaveShapeFails
<1>3. CASE damaged' = damaged
  BY <1>2, <1>3 DEF ManagerInv, DiskInv
<1>4. CASE DropsMessages(h, new) /\ damaged' = damaged \cup {h}
  <2>1. Len(new.changes) \in Nat /\ Len(store[h].changes) \in Nat
    BY <1>1 DEF ShapeState
  <2>2. Len(store[h].changes) > 0
    BY <1>4, <2>1 DEF DropsMessages
  <2>3. store[h].status = "active"
    BY <2>2, StoredLogIsActive
  <2>4. QED
    BY <1>2, <1>4, <2>2, <2>3 DEF ManagerInv, DiskInv
<1>5. QED
  BY <1>2, <1>3, <1>4 DEF SaveShapeFails

\* Tombstones, all of them or some of them.
LEMMA SaveTombstonesStep ==
  ASSUME ManagerInv, NEW H \in SUBSET Handle, NEW rest \in SUBSET Handle, H \cap rest = {},
         SaveTombstones(H) \/ SaveTombstonesFails(H, rest)
  PROVE  /\ store' = [h \in Handle |-> IF h \in H THEN Tombstone ELSE store[h]]
         /\ store' \in [Handle -> ShapeState] /\ damaged' \in SUBSET Handle /\ faults' \in Nat
         /\ DiskInv'
<1>1. /\ store \in [Handle -> ShapeState] /\ damaged \in SUBSET Handle /\ faults \in Nat
  BY DEF ManagerInv, TypeOK
<1>2. /\ store' = [h \in Handle |-> IF h \in H THEN Tombstone ELSE store[h]]
      /\ store' \in [Handle -> ShapeState]
  BY <1>1, EmptyShapes DEF SaveTombstones, SaveTombstonesFails
<1>3. damaged' \in SUBSET Handle /\ faults' \in Nat
  BY <1>1 DEF SaveTombstones, SaveTombstonesFails
<1>4. ASSUME NEW g \in damaged'
      PROVE  g \notin H /\ store[g].status = "active" /\ Len(store[g].changes) > 0
  <2>1. CASE g \in damaged \ H
    BY <2>1 DEF ManagerInv, DiskInv
  <2>2. CASE g \notin damaged \ H
    <3>1. g \in rest /\ DropsMessages(g, Tombstone)
      BY <1>4, <2>2 DEF SaveTombstones, SaveTombstonesFails
    <3>2. Len(store[g].changes) > 0
      BY <3>1, EmptyShapes DEF DropsMessages
    <3>3. QED
      BY <3>1, <3>2, StoredLogIsActive
  <2>3. QED
    BY <2>1, <2>2
<1>5. QED
  BY <1>2, <1>3, <1>4 DEF DiskInv

-----------------------------------------------------------------------------
(***************************************************************************)
(* One lemma for each way the registry changes.                            *)
(***************************************************************************)
LEMMA NotifyType ==
  ASSUME TypeOK, NEW H \in SUBSET Handle, Notify(H)
  PROVE  waiters' \in [Handle -> SUBSET Waiter]
BY DEF TypeOK, Notify

\* A write that fails leaves memory as it was.
LEMMA FailedWriteStep ==
  ASSUME ManagerInv, NEW h \in Handle, NEW new \in ShapeState, SaveShapeFails(h, new),
         UNCHANGED <<registry, waiters, clock, wait>>
  PROVE  ManagerInv'
<1>1. store' = store /\ damaged' \in SUBSET Handle /\ faults' \in Nat /\ DiskInv'
  BY SaveShapeFailsStep
<1>2. TypeOK'
  BY <1>1 DEF ManagerInv, TypeOK, registry
<1>3. IndexesConsistent' /\ SlotInv'
  BY DEF ManagerInv, IndexesConsistent, SlotInv, Active, registry
<1>4. StoreAgrees'
  BY <1>1 DEF ManagerInv, StoreAgrees, DiskInv, Active, registry
<1>5. QED
  BY <1>1, <1>2, <1>3, <1>4 DEF ManagerInv

\* An active shape is replaced by an active one.
LEMMA ReplaceStep ==
  ASSUME ManagerInv, NEW h \in Handle, NEW new \in ShapeState, new.status = "active",
         Active(h), NEW news, Replace(h, new, news)
  PROVE  ManagerInv'
<1>1. CASE SaveShapeFails(h, new) /\ UNCHANGED <<byHandle, waiters>>
  BY <1>1, FailedWriteStep DEF Replace, registry
<1>2. CASE /\ SaveShape(h, new)
           /\ byHandle' = [byHandle EXCEPT ![h] = new]
           /\ IF news THEN Notify({h}) ELSE UNCHANGED waiters
  <2>1. /\ store' \in [Handle -> ShapeState] /\ damaged' \in SUBSET Handle /\ faults' \in Nat
        /\ store'[h] = new
        /\ \A g \in Handle : g # h => store'[g] = store[g]
        /\ DiskInv'
    BY <1>2, SaveShapeStep
  <2>2. /\ byHandle' \in [Handle -> ShapeState]
        /\ byHandle'[h] = new
        /\ \A g \in Handle : g # h => byHandle'[g] = byHandle[g]
    BY <1>2 DEF ManagerInv, TypeOK
  <2>3. waiters' \in [Handle -> SUBSET Waiter]
    BY <1>2, NotifyType DEF ManagerInv, TypeOK
  <2>4. UNCHANGED <<byHash, byRelation, clock, wait>>
    BY DEF Replace
  <2>5. TypeOK'
    BY <2>1, <2>2, <2>3, <2>4 DEF ManagerInv, TypeOK
  <2>6. \A g \in Handle : Active(g)' <=> Active(g)
    BY <2>2, Zenon DEF Active
  <2>7. IndexesConsistent'
    BY <2>4, <2>6 DEF ManagerInv, TypeOK, IndexesConsistent
  <2>8. StoreAgrees'
    BY <2>1, <2>2, <2>6 DEF ManagerInv, StoreAgrees, DiskInv
  <2>9. SlotInv'
    BY <2>2, <2>4, EmptyShapes DEF ManagerInv, SlotInv, Active
  <2>10. QED
    BY <2>1, <2>5, <2>7, <2>8, <2>9 DEF ManagerInv
<1>3. QED
  BY <1>1, <1>2 DEF Replace

\* The branch of UpsertSnapshotAtOffset for an unknown definition: the handle
\* is new, so nothing in the indexes or in the store can clash with it.
LEMMA CreateShapeStep ==
  ASSUME ManagerInv, NEW x \in Hash, NEW state \in ShapeState, state.status = "active",
         CreateShape(x, state)
  PROVE  ManagerInv'
<1>0. PICK h \in Handle : h = [hash |-> x, stamp |-> clock + 1]
  BY NewHandle, Zenon
<1>1. h.hash = x /\ h.stamp = clock + 1 /\ clock + 1 \in 0 .. MaxStamp
  BY <1>0, ManagerAssumption DEF CreateShape, ManagerInv, TypeOK
<1>2. CASE SaveShapeFails(h, state) /\ UNCHANGED <<registry, clock>>
  BY <1>1, <1>2, FailedWriteStep, Zenon DEF CreateShape, registry
<1>3. CASE /\ SaveShape(h, state)
           /\ byHandle' = [byHandle EXCEPT ![h] = state]
           /\ byHash' = [byHash EXCEPT ![x] = h]
           /\ byRelation' = AddRelation(h)
           /\ clock' = clock + 1
  <2>1. /\ store' \in [Handle -> ShapeState] /\ damaged' \in SUBSET Handle /\ faults' \in Nat
        /\ store'[h] = state
        /\ \A g \in Handle : g # h => store'[g] = store[g]
        /\ DiskInv'
    BY <1>1, <1>3, SaveShapeStep
  <2>2. /\ byHandle' \in [Handle -> ShapeState]
        /\ byHandle'[h] = state
        /\ \A g \in Handle : g # h => byHandle'[g] = byHandle[g]
    BY <1>1, <1>3 DEF ManagerInv, TypeOK
  <2>3. /\ byHash' \in [Hash -> Handle \cup {NoHandle}]
        /\ byHash'[x] = h
        /\ \A y \in Hash : y # x => byHash'[y] = byHash[y]
    BY <1>1, <1>3 DEF ManagerInv, TypeOK
  <2>4. /\ byRelation' \in [Relation -> SUBSET Handle]
        /\ \A r \in Relation : byRelation'[r] =
              IF r = RelationOf[x] THEN byRelation[r] \cup {h} ELSE byRelation[r]
    BY <1>1, <1>3, ManagerAssumption, ZenonT(60) DEF ManagerInv, TypeOK, AddRelation
  <2>5. UNCHANGED <<waiters, wait>> /\ clock' = clock + 1
    BY <1>3, Zenon DEF CreateShape
  <2>6. TypeOK'
    BY <1>1, <2>1, <2>2, <2>3, <2>4, <2>5 DEF ManagerInv, TypeOK
  <2>7. /\ Active(h)'
        /\ \A g \in Handle : g # h => (Active(g)' <=> Active(g))
    BY <2>2 DEF Active
  <2>8. ASSUME NEW y \in Hash, byHash'[y] # NoHandle
        PROVE  byHash'[y].hash = y /\ byHandle'[byHash'[y]].status = "active"
    <3>1. CASE y = x
      BY <1>1, <2>2, <2>3, <3>1
    <3>2. CASE y # x
      <4>1. byHash'[y] = byHash[y] /\ byHash[y] \in Handle
        BY <2>3, <2>8, <3>2, Zenon DEF ManagerInv, TypeOK
      <4>2. byHash[y].hash = y /\ byHandle[byHash[y]].status = "active"
        BY <2>8, <4>1, Zenon DEF ManagerInv, IndexesConsistent, Active
      <4>3. QED
        BY <1>1, <2>2, <3>2, <4>1, <4>2
    <3>3. QED
      BY <3>1, <3>2, Zenon
  <2>9. \A r \in Relation, g \in Handle :
          g \in byRelation'[r] <=> Active(g)' /\ RelationOf[g.hash] = r
    BY <1>1, <2>4, <2>7 DEF ManagerInv, IndexesConsistent
  <2>10. IndexesConsistent'
    BY <2>8, <2>9, Zenon DEF IndexesConsistent, Active
  <2>11. StoreAgrees'
    BY <2>1, <2>2, <2>7 DEF ManagerInv, StoreAgrees, DiskInv
  <2>12. SlotInv'
    <3> SUFFICES ASSUME NEW g \in Handle
                 PROVE  /\ byHandle'[g].status = "absent" => byHandle'[g] = Absent
                        /\ byHandle'[g].status = "deleted" => byHandle'[g] = Tombstone
                        /\ g.stamp > clock' => byHandle'[g] = Absent
      BY DEF SlotInv
    <3>1. CASE g = h
      BY <1>1, <2>2, <2>5, <3>1 DEF ManagerInv, TypeOK
    <3>2. CASE g # h
      <4>1. g.stamp \in Nat /\ clock \in Nat
        BY ManagerAssumption DEF Handle, ManagerInv, TypeOK
      <4>2. QED
        BY <2>2, <2>5, <3>2, <4>1 DEF ManagerInv, SlotInv
    <3>3. QED
      BY <3>1, <3>2
  <2>13. QED
    BY <2>1, <2>6, <2>10, <2>11, <2>12, Zenon DEF ManagerInv
<1>4. QED
  BY <1>0, <1>2, <1>3 DEF CreateShape

\* The shape of an index entry starts over under its handle.
LEMMA ResetShapeStep ==
  ASSUME ManagerInv, NEW x \in Hash, NEW state \in ShapeState, state.status = "active",
         ResetShape(x, state)
  PROVE  ManagerInv'
<1>0. PICK h \in Handle : h = byHash[x]
  BY Zenon DEF ResetShape, ManagerInv, TypeOK
<1>1. h.hash = x /\ Active(h) /\ h # NoHandle
  BY <1>0, NoHandleAssumption DEF ManagerInv, IndexesConsistent
<1>2. CASE SaveShapeFails(h, state) /\ UNCHANGED <<byHandle, byRelation, waiters>>
  BY <1>2, FailedWriteStep DEF ResetShape, registry
<1>3. CASE /\ SaveShape(h, state)
           /\ byHandle' = [byHandle EXCEPT ![h] = state]
           /\ byRelation' = AddRelation(h)
           /\ Notify({h})
  <2>1. byRelation' = byRelation
    <3>1. RelationOf[h.hash] \in Relation /\ h \in byRelation[RelationOf[h.hash]]
      BY <1>1, ManagerAssumption DEF ManagerInv, IndexesConsistent
    <3>2. byRelation \in [Relation -> SUBSET Handle]
      BY DEF ManagerInv, TypeOK
    <3>3. QED
      BY <1>3, <3>1, <3>2, ZenonT(60) DEF AddRelation
  <2>2. Replace(h, state, TRUE)
    BY <1>3, <2>1, Zenon DEF Replace, ResetShape
  <2>3. QED
    BY <1>1, <2>2, ReplaceStep, Zenon
<1>4. QED
  BY <1>0, <1>2, <1>3 DEF ResetShape

\* A set of shapes is deleted: by handle, by relation, or all that are active.
LEMMA BuryStep ==
  ASSUME ManagerInv, NEW H \in SUBSET Handle,
         \A h \in H : byHandle[h].status # "absent",
         store' = [h \in Handle |-> IF h \in H THEN Tombstone ELSE store[h]],
         damaged' \in SUBSET Handle, faults' \in Nat, DiskInv',
         byHandle' = Buried(H), byHash' = Unindexed(H),
         byRelation' \in [Relation -> SUBSET Handle],
         \A r \in Relation : byRelation'[r] = byRelation[r] \ H,
         Notify(H), UNCHANGED <<clock, wait>>
  PROVE  ManagerInv'
<1>1. /\ byHandle' \in [Handle -> ShapeState] /\ store' \in [Handle -> ShapeState]
      /\ \A h \in Handle : byHandle'[h] = IF h \in H THEN Tombstone ELSE byHandle[h]
  BY EmptyShapes DEF ManagerInv, TypeOK, Buried
<1>2. /\ byHash' \in [Hash -> Handle \cup {NoHandle}]
      /\ \A x \in Hash : byHash'[x] =
           IF \E h \in H : h.hash = x THEN NoHandle ELSE byHash[x]
  BY DEF ManagerInv, TypeOK, Unindexed
<1>3. TypeOK'
  BY <1>1, <1>2, NotifyType, Zenon DEF ManagerInv, TypeOK
<1>4. ASSUME NEW x \in Hash, byHash'[x] # NoHandle
      PROVE  byHash'[x].hash = x /\ byHandle'[byHash'[x]].status = "active"
  <2>1. byHash'[x] = byHash[x] /\ ~ \E h \in H : h.hash = x
    BY <1>2, <1>4, Zenon
  <2>2. byHash[x] \in Handle /\ byHash[x].hash = x /\ byHandle[byHash[x]].status = "active"
    BY <1>4, <2>1, ZenonT(60) DEF ManagerInv, TypeOK, IndexesConsistent, Active
  <2>3. QED
    BY <1>1, <2>1, <2>2, Zenon
<1>5. \A g \in Handle : Active(g)' <=> Active(g) /\ g \notin H
  BY <1>1, EmptyShapes, Zenon DEF Active
<1>6. \A r \in Relation, g \in Handle :
        g \in byRelation'[r] <=> Active(g)' /\ RelationOf[g.hash] = r
  BY <1>5 DEF ManagerInv, IndexesConsistent
<1>7. IndexesConsistent'
  BY <1>4, <1>6, Zenon DEF IndexesConsistent, Active
<1>8. StoreAgrees'
  BY <1>1, <1>5, Zenon DEF ManagerInv, StoreAgrees, DiskInv
<1>9. SlotInv'
  BY <1>1, EmptyShapes DEF ManagerInv, SlotInv
<1>10. QED
  BY <1>3, <1>7, <1>8, <1>9, Zenon DEF ManagerInv

\* Delete writes the tombstone before it unindexes the shape.
LEMMA DeleteStep ==
  ASSUME ManagerInv, NEW h \in Handle, Delete(h)
  PROVE  ManagerInv'
<1>1. CASE SaveShapeFails(h, Tombstone) /\ UNCHANGED <<registry, waiters>>
  BY <1>1, EmptyShapes, FailedWriteStep DEF Delete
<1>2. CASE /\ SaveShape(h, Tombstone)
           /\ byHandle' = [byHandle EXCEPT ![h] = Tombstone]
           /\ byHash' = [byHash EXCEPT ![h.hash] = NoHandle]
           /\ byRelation' = RemoveRelation(h)
           /\ Notify({h})
  <2>1. h.hash \in Hash /\ RelationOf[h.hash] \in Relation
    BY ManagerAssumption DEF Handle
  <2>2. /\ damaged' \in SUBSET Handle /\ faults' \in Nat /\ DiskInv'
        /\ store' = [store EXCEPT ![h] = Tombstone]
    BY <1>2, EmptyShapes, SaveShapeStep, Zenon DEF SaveShape
  <2>3. store' = [g \in Handle |-> IF g \in {h} THEN Tombstone ELSE store[g]]
    BY <2>2, Zenon DEF ManagerInv, TypeOK
  <2>4. byHandle' = Buried({h})
    BY <1>2, Zenon DEF ManagerInv, TypeOK, Buried
  <2>5. byHash' = Unindexed({h})
    BY <1>2, <2>1, ZenonT(60) DEF ManagerInv, TypeOK, Unindexed
  <2>6. /\ byRelation' \in [Relation -> SUBSET Handle]
        /\ \A r \in Relation : byRelation'[r] = byRelation[r] \ {h}
    BY <1>2, <2>1 DEF ManagerInv, TypeOK, IndexesConsistent, RemoveRelation
  <2>7. byHandle[h].status # "absent" /\ UNCHANGED <<clock, wait>>
    BY ZenonT(60) DEF Delete
  <2>8. QED
    BY <1>2, <2>2, <2>3, <2>4, <2>5, <2>6, <2>7, BuryStep, Zenon
<1>3. QED
  BY <1>1, <1>2 DEF Delete

\* InvalidateByRelation writes every tombstone before it buries any shape.
LEMMA InvalidateByRelationStep ==
  ASSUME ManagerInv, NEW r \in Relation, InvalidateByRelation(r)
  PROVE  ManagerInv'
<1>0. PICK H \in SUBSET Handle : H = ActiveByRelation(r)
  BY ZenonT(60) DEF ActiveByRelation, ManagerInv, TypeOK
<1>1. byRelation[r] = H /\ \A h \in H : byHandle[h].status # "absent"
  BY <1>0 DEF ActiveByRelation, ManagerInv, TypeOK, IndexesConsistent, Active
<1>2. /\ store' = [h \in Handle |-> IF h \in H THEN Tombstone ELSE store[h]]
      /\ damaged' \in SUBSET Handle /\ faults' \in Nat /\ DiskInv'
  BY <1>0, SaveTombstonesStep, {} \in SUBSET Handle, H \cap {} = {}, Zenon DEF InvalidateByRelation
<1>3. byRelation' = [byRelation EXCEPT ![r] = {}] /\ byRelation \in [Relation -> SUBSET Handle]
  BY ZenonT(60) DEF InvalidateByRelation, ManagerInv, TypeOK
<1>4. \A q \in Relation : q # r => byRelation[q] \cap H = {}
  BY <1>1 DEF ManagerInv, TypeOK, IndexesConsistent
<1>5. /\ byRelation' \in [Relation -> SUBSET Handle]
      /\ \A q \in Relation : byRelation'[q] = byRelation[q] \ H
  BY <1>1, <1>3, <1>4
<1>6. QED
  BY <1>0, <1>1, <1>2, <1>5, BuryStep DEF InvalidateByRelation

\* Some tombstones are in the store and memory does not know.
LEMMA InvalidateByRelationFailsStep ==
  ASSUME ManagerInv, NEW r \in Relation, InvalidateByRelationFails(r)
  PROVE  ManagerInv'
<1>0. ActiveByRelation(r) \in SUBSET Handle
  BY DEF ActiveByRelation, ManagerInv, TypeOK
<1>1. PICK H \in SUBSET ActiveByRelation(r) :
           /\ SaveTombstonesFails(H, ActiveByRelation(r) \ H)
           /\ UNCHANGED <<registry, waiters, clock, wait>>
  BY Zenon DEF InvalidateByRelationFails
<1>2. H \in SUBSET Handle /\ \A h \in H : Active(h)
  BY <1>0 DEF ActiveByRelation
<1>3. /\ store' = [h \in Handle |-> IF h \in H THEN Tombstone ELSE store[h]]
      /\ store' \in [Handle -> ShapeState] /\ damaged' \in SUBSET Handle /\ faults' \in Nat
      /\ DiskInv'
  BY <1>0, <1>1, <1>2, SaveTombstonesStep
<1>4. TypeOK'
  BY <1>1, <1>3, ZenonT(60) DEF ManagerInv, TypeOK, registry
<1>5. IndexesConsistent' /\ SlotInv'
  BY <1>1 DEF ManagerInv, IndexesConsistent, SlotInv, Active, registry
<1>6. StoreAgrees'
  BY <1>1, <1>2, <1>3, Zenon DEF ManagerInv, StoreAgrees, DiskInv, Active, registry
<1>7. QED
  BY <1>3, <1>4, <1>5, <1>6 DEF ManagerInv

\* InvalidateAll buries shapes one by one, up to the first failed write.
LEMMA InvalidateAllStep ==
  ASSUME ManagerInv, InvalidateAll
  PROVE  ManagerInv'
<1>0. PICK all \in SUBSET Handle : all = {h \in Handle : Active(h)}
  BY Zenon
<1>1. PICK H \in SUBSET all :
        /\ \/ H = all /\ SaveTombstones(H)
           \/ H # all /\ SaveTombstonesFails(H, all \ H)
        /\ byHandle' = Buried(H)
        /\ byHash' = Unindexed(H)
        /\ byRelation' = [r \in Relation |-> byRelation[r] \ H]
        /\ Notify(H)
        /\ UNCHANGED <<clock, wait>>
  BY <1>0, Zenon DEF InvalidateAll
<1>2. H \in SUBSET Handle /\ all \ H \in SUBSET Handle /\ H \cap (all \ H) = {}
  OBVIOUS
<1>3. \A h \in H : byHandle[h].status # "absent"
  BY <1>0, ZenonT(60) DEF Active
<1>4. /\ store' = [h \in Handle |-> IF h \in H THEN Tombstone ELSE store[h]]
      /\ damaged' \in SUBSET Handle /\ faults' \in Nat /\ DiskInv'
  BY <1>1, <1>2, SaveTombstonesStep
<1>5. /\ byRelation' \in [Relation -> SUBSET Handle]
      /\ \A r \in Relation : byRelation'[r] = byRelation[r] \ H
  BY <1>1 DEF ManagerInv, TypeOK
<1>6. QED
  BY <1>1, <1>2, <1>3, <1>4, <1>5, BuryStep, Zenon

\* A restart trusts the store, less the shapes whose chunk files are lost.
LEMMA loadPersistedStep ==
  ASSUME ManagerInv, loadPersisted
  PROVE  ManagerInv'
<1>1. /\ byHandle' = [h \in Handle |-> Loaded(h)]
      /\ store' = [h \in Handle |-> Loaded(h)]
      /\ damaged' = {} /\ clock' = clock
  BY Zenon DEF loadPersisted
<1>2. ASSUME NEW h \in Handle
      PROVE  /\ Loaded(h) \in ShapeState
             /\ Loaded(h).status = "absent" => Loaded(h) = Absent
             /\ Loaded(h).status = "deleted" => Loaded(h) = Tombstone
             /\ h.stamp > clock => Loaded(h) = Absent
  <2>1. Loaded(h) \in {Absent, Tombstone, store[h]}
    BY DEF Loaded
  <2>2. store[h] \in ShapeState /\ (store[h] = byHandle[h] \/ (store[h] = Tombstone /\ Active(h)))
    BY DEF ManagerInv, TypeOK, StoreAgrees
  <2>3. /\ byHandle[h].status = "absent" => byHandle[h] = Absent
        /\ byHandle[h].status = "deleted" => byHandle[h] = Tombstone
        /\ h.stamp > clock => byHandle[h] = Absent
    BY DEF ManagerInv, SlotInv
  <2>4. h.stamp > clock => Loaded(h) = Absent
    BY <2>2, <2>3, EmptyShapes, Zenon DEF Loaded, Active
  <2>5. QED
    BY <2>1, <2>2, <2>3, <2>4, EmptyShapes
<1>3. PICK index \in [Hash -> Handle \cup {NoHandle}] :
        IndexesNewest(index, byHandle') /\ byHash' = index
  BY <1>1, Zenon DEF loadPersisted
<1>4. byRelation' = [r \in Relation |->
                      {h \in Handle : RelationOf[h.hash] = r /\ Loaded(h).status = "active"}]
  BY DEF loadPersisted
<1>5. TypeOK'
  <2>1. byHandle' \in [Handle -> ShapeState] /\ store' \in [Handle -> ShapeState]
    BY <1>1, <1>2, ZenonT(60)
  <2>2. waiters' \in [Handle -> SUBSET Waiter] /\ faults' \in Nat
    BY DEF loadPersisted, ManagerInv, TypeOK
  <2>3. Idle \in WaitState
    BY OffsetConstants, Zenon DEF Idle, WaitState
  <2>4. wait' \in [Waiter -> WaitState]
    BY <2>3 DEF loadPersisted
  <2>5. byRelation' \in [Relation -> SUBSET Handle]
    BY <1>4
  <2>6. QED
    BY <1>1, <1>3, <2>1, <2>2, <2>4, <2>5 DEF ManagerInv, TypeOK
<1>6. ASSUME NEW x \in Hash, byHash'[x] # NoHandle
      PROVE  byHash'[x].hash = x /\ byHandle'[byHash'[x]].status = "active"
  BY <1>3, <1>6 DEF IndexesNewest
<1>7. IndexesConsistent'
  BY <1>1, <1>4, <1>6, Zenon DEF IndexesConsistent, Active
<1>8. StoreAgrees' /\ DiskInv'
  BY <1>1 DEF StoreAgrees, DiskInv
<1>9. SlotInv'
  BY <1>1, <1>2 DEF SlotInv
<1>10. QED
  BY <1>5, <1>7, <1>8, <1>9, Zenon DEF ManagerInv

\* The three ways a log grows.
LEMMA RefreshKeysStep ==
  ASSUME ManagerInv, NEW h \in Handle, NEW targeted \in SUBSET Key, NEW current \in Rows,
         NEW lsn \in Nat, RefreshKeysWithMetadata(h, targeted, current, lsn)
  PROVE  ManagerInv'
<1> DEFINE s       == byHandle[h]
           rows    == [k \in Key |-> IF k \in targeted THEN current[k] ELSE s.materialized[k]]
           changed == {k \in targeted : s.materialized[k] # current[k]}
<1>1. s \in ShapeState /\ s.status = "active" /\ s.offset \in Offset
  BY Zenon DEF RefreshKeysWithMetadata, Active, ManagerInv, TypeOK, ShapeState
<1>2. rows \in Rows
  BY <1>1 DEF ShapeState, Rows
<1>3. PICK ks \in Sorted(changed) :
        Replace(h, Extended(s, rows, DiffMessages(ks, rows, FALSE, s.offset, lsn)),
                DiffMessages(ks, rows, FALSE, s.offset, lsn) # <<>>)
  BY Zenon DEF RefreshKeysWithMetadata
<1>4. ks \in Seq(Key)
  BY SortedType, changed \in SUBSET Key, Zenon
<1> HIDE DEF s, rows, changed
<1>5. DiffMessages(ks, rows, FALSE, s.offset, lsn) \in Seq(Message)
  BY <1>1, <1>2, <1>4, DiffMessagesType, ZenonT(60)
<1>6. Active(h)
  BY Zenon DEF RefreshKeysWithMetadata
<1>7. QED
  BY <1>1, <1>2, <1>3, <1>5, <1>6, ExtendedType, ReplaceStep, ZenonT(60)

\* RefreshWithMetadata replaces an active shape only.
LEMMA RefreshStep ==
  ASSUME ManagerInv, NEW h \in Handle, NEW rows \in Rows, NEW related \in BOOLEAN,
         NEW lsn \in Nat, RefreshWithMetadata(h, rows, related, lsn)
  PROVE  ManagerInv'
<1> DEFINE s       == byHandle[h]
           changed == {k \in Key : s.materialized[k] # rows[k]}
           moveIn  == /\ related
                      /\ h.hash \in Dependent
                      /\ \E k \in changed : s.materialized[k] = NoRow
<1>1. s \in ShapeState /\ s.status = "active" /\ s.offset \in Offset
  BY ZenonT(60) DEF RefreshWithMetadata, Active, ManagerInv, TypeOK, ShapeState
<1>2. PICK ks \in Sorted(changed) :
        Replace(h, Extended(s, rows, DiffMessages(ks, rows, moveIn, s.offset, lsn)),
                DiffMessages(ks, rows, moveIn, s.offset, lsn) # <<>>)
  BY ZenonT(60) DEF RefreshWithMetadata
<1>3. ks \in Seq(Key)
  BY SortedType, changed \in SUBSET Key, ZenonT(60)
<1> HIDE DEF s, changed, moveIn
<1>4. DiffMessages(ks, rows, moveIn, s.offset, lsn) \in Seq(Message)
  BY <1>1, <1>3, DiffMessagesType, ZenonT(60)
<1>5. Active(h)
  BY DEF RefreshWithMetadata
<1>6. QED
  BY <1>1, <1>2, <1>4, <1>5, ExtendedType, ReplaceStep

\* Append replaces an active shape only.
LEMMA AppendStep ==
  ASSUME ManagerInv, NEW h \in Handle, NEW k \in Key, NEW row \in Row \cup {NoRow},
         AppendMessage(h, k, row)
  PROVE  ManagerInv'
<1> DEFINE s    == byHandle[h]
           rows == [s.materialized EXCEPT ![k] = row]
           m    == [key |-> k, row |-> row, offset |-> NextGeneratedOffset(s.offset, 0)]
<1>1. s \in ShapeState /\ s.status = "active" /\ s.offset \in Offset
  BY Zenon DEF AppendMessage, Active, ManagerInv, TypeOK, ShapeState
<1>2. rows \in Rows
  BY <1>1, Zenon DEF ShapeState, Rows
<1>3. m \in Message
  BY <1>1, BatchOffsetType, 0 \in Nat, ZenonT(60) DEF Message
<1>4. Replace(h, Extended(s, rows, <<m>>), TRUE) /\ Active(h)
  BY Zenon DEF AppendMessage
<1> HIDE DEF s, rows, m
<1>5. <<m>> \in Seq(Message)
  BY <1>3
<1>6. QED
  BY <1>1, <1>2, <1>4, <1>5, ExtendedType, ReplaceStep, ZenonT(60)

\* WaitForChange touches the waiters only.
LEMMA WaitStep ==
  ASSUME ManagerInv, NEW w \in Waiter,
         \/ \E h \in Handle, o \in Offset : WaitRead(w, h, o)
         \/ WaitRegister(w) \/ WaitWoken(w) \/ WaitCancel(w) \/ RemoveWaiter(w)
  PROVE  ManagerInv'
<1>1. UNCHANGED <<registry, disk, clock, faults>>
  BY DEF WaitRead, WaitRegister, WaitWoken, WaitCancel, RemoveWaiter
<1>2. Idle \in WaitState
  BY OffsetConstants DEF Idle, WaitState
<1>3. wait \in [Waiter -> WaitState] /\ waiters \in [Handle -> SUBSET Waiter]
  BY DEF ManagerInv, TypeOK
<1>4. wait' \in [Waiter -> WaitState] /\ waiters' \in [Handle -> SUBSET Waiter]
  <2>1. ASSUME NEW h \in Handle, NEW o \in Offset, WaitRead(w, h, o)
        PROVE  wait' \in [Waiter -> WaitState] /\ waiters' \in [Handle -> SUBSET Waiter]
    <3>1. [pc |-> "unregistered", handle |-> h, offset |-> o] \in WaitState
      BY DEF WaitState
    <3>2. QED
      BY <1>3, <2>1, <3>1 DEF WaitRead
  <2>2. CASE WaitRegister(w)
    <3>1. [wait[w] EXCEPT !.pc = "registered"] \in WaitState
      BY <1>3 DEF WaitState
    <3>2. QED
      BY <1>2, <1>3, <2>2, <3>1 DEF WaitRegister
  <2>3. CASE WaitCancel(w)
    <3>1. [wait[w] EXCEPT !.pc = "cancelled"] \in WaitState
      BY <1>3, Zenon DEF WaitState
    <3>2. QED
      BY <1>3, <2>3, <3>1 DEF WaitCancel
  <2>4. CASE WaitWoken(w) \/ RemoveWaiter(w)
    BY <1>2, <1>3, <2>4, ZenonT(60) DEF WaitWoken, RemoveWaiter
  <2>5. QED
    BY <2>1, <2>2, <2>3, <2>4, Zenon
<1>5. TypeOK'
  BY <1>1, <1>4 DEF ManagerInv, TypeOK, registry, disk
<1>6. IndexesConsistent' /\ SlotInv' /\ StoreAgrees' /\ DiskInv'
  BY <1>1, Zenon DEF ManagerInv, IndexesConsistent, SlotInv, StoreAgrees, DiskInv, Active,
       registry, disk
<1>7. QED
  BY <1>5, <1>6 DEF ManagerInv

-----------------------------------------------------------------------------
\* NewManager starts with empty maps and an empty store.
LEMMA Init_Inv == Init => ManagerInv
<1> SUFFICES ASSUME Init
             PROVE  ManagerInv
  OBVIOUS
<1>1. Idle \in WaitState
  BY OffsetConstants, Zenon DEF Idle, WaitState
<1>2. TypeOK
  BY <1>1, EmptyShapes, ManagerAssumption DEF Init, TypeOK
<1>3. IndexesConsistent
  BY EmptyShapes, Zenon DEF Init, IndexesConsistent, Active
<1>4. StoreAgrees /\ SlotInv /\ DiskInv
  BY EmptyShapes, Zenon DEF Init, StoreAgrees, SlotInv, DiskInv
<1>5. QED
  BY <1>2, <1>3, <1>4 DEF ManagerInv

\* Every operation of the manager preserves the invariant, one case per operation.
LEMMA Next_Inv == ManagerInv /\ [Next]_vars => ManagerInv'
<1> SUFFICES ASSUME ManagerInv, [Next]_vars
             PROVE  ManagerInv'
  OBVIOUS
<1>1. ASSUME NEW x \in Hash, NEW rows \in Rows, NEW o \in {InitialOffset, NowOffset},
             UpsertSnapshotAtOffset(x, rows, o)
      PROVE  ManagerInv'
  BY <1>1, OffsetConstants, FreshStateType, CreateShapeStep, ResetShapeStep
  DEF UpsertSnapshotAtOffset
<1>2. ASSUME NEW x \in Hash, LookupOrCreateDefinition(x)
      PROVE  ManagerInv'
  <2>1. CASE CreateShape(x, FreshState(NoRows, InitialOffset))
    <3>1. NoRows \in Rows
      BY DEF NoRows, Rows
    <3>2. QED
      BY <2>1, <3>1, OffsetConstants, FreshStateType, CreateShapeStep
  <2>2. CASE byHash[x] # NoHandle /\ Replace(byHash[x], byHandle[byHash[x]], FALSE)
    <3>1. PICK h \in Handle : h = byHash[x]
      BY <2>2, Zenon DEF ManagerInv, TypeOK
    <3>2. Active(h) /\ byHandle[h] \in ShapeState
      BY <2>2, <3>1, Zenon DEF ManagerInv, TypeOK, IndexesConsistent
    <3>3. QED
      BY <2>2, <3>1, <3>2, ReplaceStep, Zenon DEF Active
  <2>3. QED
    BY <1>2, <2>1, <2>2, Zenon DEF LookupOrCreateDefinition
<1>3. ASSUME NEW h \in Handle, NEW rows \in Rows, NEW lsn \in CommitLSNs,
             \/ \E targeted \in SUBSET Key : RefreshKeysWithMetadata(h, targeted, rows, lsn)
             \/ \E related \in BOOLEAN : RefreshWithMetadata(h, rows, related, lsn)
      PROVE  ManagerInv'
  BY <1>3, ManagerAssumption, RefreshKeysStep, RefreshStep
<1>4. ASSUME NEW h \in Handle, NEW k \in Key, NEW row \in Row \cup {NoRow},
             AppendMessage(h, k, row)
      PROVE  ManagerInv'
  BY <1>4, AppendStep
<1>5. ASSUME NEW h \in Handle, Delete(h)
      PROVE  ManagerInv'
  BY <1>5, DeleteStep
<1>6. ASSUME NEW r \in Relation, InvalidateByRelation(r) \/ InvalidateByRelationFails(r)
      PROVE  ManagerInv'
  BY <1>6, InvalidateByRelationStep, InvalidateByRelationFailsStep
<1>7. CASE InvalidateAll
  BY <1>7, InvalidateAllStep
<1>8. ASSUME NEW w \in Waiter,
             \/ \E h \in Handle, o \in WaitOffsets : WaitRead(w, h, o)
             \/ WaitRegister(w) \/ WaitWoken(w) \/ WaitCancel(w) \/ RemoveWaiter(w)
      PROVE  ManagerInv'
  BY <1>8, WaitStep, ManagerAssumption, ZenonT(60)
<1>9. CASE loadPersisted
  BY <1>9, loadPersistedStep
<1>10. CASE UNCHANGED vars
  BY <1>10 DEF vars, ManagerInv, TypeOK, IndexesConsistent, StoreAgrees, SlotInv, DiskInv, Active
<1>11. QED
  BY <1>1, <1>2, <1>3, <1>4, <1>5, <1>6, <1>7, <1>8, <1>9, <1>10 DEF Next

\* Every state of the manager has its type.
THEOREM ManagerTypes == Spec => []TypeOK
<1>1. ManagerInv => TypeOK
  BY DEF ManagerInv
<1>2. QED
  BY Init_Inv, Next_Inv, <1>1, PTL DEF Spec

\* Whatever writes fail and wherever the process restarts, the hash index hands out
\* active shapes only and replication finds every active shape by its table.
THEOREM IndexesAlwaysConsistent == Spec => []IndexesConsistent
<1>1. ManagerInv => IndexesConsistent
  BY DEF ManagerInv
<1>2. QED
  BY Init_Inv, Next_Inv, <1>1, PTL DEF Spec

\* The store never holds a shape that differs from the one in memory, except for a
\* tombstone that memory has not caught up with.
THEOREM StoreAlwaysAgrees == Spec => []StoreAgrees
<1>1. ManagerInv => StoreAgrees
  BY DEF ManagerInv
<1>2. QED
  BY Init_Inv, Next_Inv, <1>1, PTL DEF Spec

-----------------------------------------------------------------------------
(***************************************************************************)
(* A deleted handle stays dead.  A shape becomes active in memory when it  *)
(* is created, under a handle that was never used; when it is reset, which *)
(* reaches active shapes only; and when it is loaded, if its stored form   *)
(* is active, which StoreAgrees excludes for one that memory has buried.   *)
(***************************************************************************)
StaysDead == \A h \in Handle : byHandle[h].status = "deleted" => byHandle'[h].status # "active"

\* Replacing an active shape touches no tombstone.
LEMMA ReplaceKeepsDead ==
  ASSUME ManagerInv, NEW h \in Handle, NEW new, byHandle[h].status # "deleted",
         byHandle' = byHandle \/ byHandle' = [byHandle EXCEPT ![h] = new]
  PROVE  StaysDead
BY Zenon DEF ManagerInv, TypeOK, StaysDead

\* Burying more shapes leaves the buried ones buried.
LEMMA BuryKeepsDead ==
  ASSUME ManagerInv, NEW H, byHandle' = Buried(H)
  PROVE  StaysDead
BY EmptyShapes, Zenon DEF StaysDead, Buried

\* No operation, and no restart, makes a tombstone active.
LEMMA Next_StaysDead == ManagerInv /\ Next => StaysDead
<1> SUFFICES ASSUME ManagerInv, Next
             PROVE  StaysDead
  OBVIOUS
<1>1. ASSUME NEW x \in Hash, NEW state, CreateShape(x, state)
      PROVE  StaysDead
  <2>1. PICK h \in Handle : /\ h = [hash |-> x, stamp |-> clock + 1]
                            /\ byHandle[h].status = "absent"
    BY <1>1, NewHandle, Zenon
  <2>2. byHandle[h].status # "deleted"
    BY <2>1, Zenon
  <2>3. byHandle' = byHandle \/ byHandle' = [byHandle EXCEPT ![h] = state]
    BY <1>1, <2>1 DEF CreateShape, registry
  <2>4. QED
    BY <2>2, <2>3, ReplaceKeepsDead, Zenon
<1>2. ASSUME NEW x \in Hash, NEW state, ResetShape(x, state)
      PROVE  StaysDead
  <2>1. PICK h \in Handle : h = byHash[x]
    BY <1>2, Zenon DEF ResetShape, ManagerInv, TypeOK
  <2>2. byHandle[h].status = "active"
    BY <2>1, NoHandleAssumption, Zenon DEF ManagerInv, IndexesConsistent, Active
  <2>3. byHandle' = byHandle \/ byHandle' = [byHandle EXCEPT ![h] = state]
    BY <1>2, <2>1 DEF ResetShape
  <2>4. QED
    BY <2>2, <2>3, ReplaceKeepsDead, Zenon
<1>3. ASSUME NEW h \in Handle, NEW new, NEW news, Active(h), Replace(h, new, news)
      PROVE  StaysDead
  BY <1>3, ReplaceKeepsDead, Zenon DEF Replace, Active
<1>4. ASSUME NEW h \in Handle, Delete(h)
      PROVE  StaysDead
  BY <1>4, EmptyShapes DEF Delete, registry, ManagerInv, TypeOK, StaysDead
<1>5. ASSUME NEW r \in Relation, InvalidateByRelation(r) \/ InvalidateByRelationFails(r)
      PROVE  StaysDead
  BY <1>5, BuryKeepsDead, Zenon DEF InvalidateByRelation, InvalidateByRelationFails, registry, StaysDead
<1>6. CASE InvalidateAll
  BY <1>6, BuryKeepsDead, ZenonT(60) DEF InvalidateAll
<1>7. CASE loadPersisted
  <2>1. ASSUME NEW h \in Handle, byHandle[h].status = "deleted"
        PROVE  Loaded(h).status # "active"
    <3>1. store[h].status # "active"
      BY <2>1, EmptyShapes, Zenon DEF ManagerInv, StoreAgrees
    <3>2. QED
      BY <3>1, EmptyShapes, Zenon DEF Loaded
  <2>2. QED
    BY <1>7, <2>1 DEF loadPersisted, StaysDead
<1>8. CASE UNCHANGED registry
  BY <1>8 DEF registry, StaysDead
<1>9. ASSUME NEW h \in Handle, NEW rows \in Rows, NEW lsn \in CommitLSNs,
             \/ \E targeted \in SUBSET Key : RefreshKeysWithMetadata(h, targeted, rows, lsn)
             \/ \E related \in BOOLEAN : RefreshWithMetadata(h, rows, related, lsn)
      PROVE  StaysDead
  BY <1>3, <1>9, Zenon DEF RefreshKeysWithMetadata, RefreshWithMetadata
<1>10. ASSUME NEW h \in Handle, NEW k \in Key, NEW row, AppendMessage(h, k, row)
       PROVE  StaysDead
  BY <1>3, <1>10, Zenon DEF AppendMessage
<1>11. ASSUME NEW w \in Waiter,
              \/ \E h \in Handle, o \in WaitOffsets : WaitRead(w, h, o)
              \/ WaitRegister(w) \/ WaitWoken(w) \/ WaitCancel(w) \/ RemoveWaiter(w)
       PROVE  StaysDead
  BY <1>8, <1>11 DEF WaitRead, WaitRegister, WaitWoken, WaitCancel, RemoveWaiter
<1>12. ASSUME NEW x \in Hash, LookupOrCreateDefinition(x)
       PROVE  StaysDead
  <2>1. CASE CreateShape(x, FreshState(NoRows, InitialOffset))
    BY <1>1, <2>1
  <2>2. CASE byHash[x] # NoHandle /\ Replace(byHash[x], byHandle[byHash[x]], FALSE)
    <3>1. byHash[x] \in Handle /\ Active(byHash[x])
      BY <2>2 DEF ManagerInv, TypeOK, IndexesConsistent
    <3>2. QED
      BY <1>3, <2>2, <3>1, ZenonT(60)
  <2>3. QED
    BY <1>12, <2>1, <2>2, Zenon DEF LookupOrCreateDefinition
<1>13. QED
  BY <1>1, <1>2, <1>4, <1>5, <1>6, <1>7, <1>9, <1>10, <1>11, <1>12
  DEF Next, UpsertSnapshotAtOffset

\* A client that was told must-refetch for a handle never finds it alive again,
\* whatever was written, lost and loaded in between.
THEOREM DeletedForGood == Spec => NoResurrection
<1>1. ManagerInv /\ [Next]_vars
        => [\A h \in Handle : byHandle[h].status = "deleted"
                               => byHandle'[h].status # "active"]_vars
  BY Next_StaysDead DEF StaysDead
<1>2. QED
  BY Init_Inv, Next_Inv, <1>1, PTL DEF Spec, NoResurrection

-----------------------------------------------------------------------------
(***************************************************************************)
(* The manager as the service uses it.                                     *)
(***************************************************************************)
\* The invariant of the manager does not depend on the offsets requests wait from.
LEMMA ManagerNext_Inv == ManagerInv /\ [ManagerNext]_vars => ManagerInv'
BY Next_Inv, WaitStep, ZenonT(60) DEF ManagerNext

\* No operation of the manager and no restart brings a spent handle back.
LEMMA Next_Older == ManagerInv /\ [ManagerNext]_vars => Older
<1> SUFFICES ASSUME ManagerInv, [ManagerNext]_vars
             PROVE  Older
  OBVIOUS
<1>1. ASSUME NEW x \in Hash, NEW state, CreateShape(x, state)
      PROVE  Older
  <2>1. PICK h \in Handle : h = [hash |-> x, stamp |-> clock + 1] /\ ~Spent(h)
    BY <1>1, NewHandle, Zenon
  <2>2. /\ byHandle' = byHandle \/ byHandle' = [byHandle EXCEPT ![h] = state]
        /\ clock' \in {clock, clock + 1}
    BY <1>1, <2>1, Zenon DEF CreateShape, registry
  <2>3. QED
    BY <2>1, <2>2, OneShapeOlder, Zenon
<1>2. ASSUME NEW x \in Hash, NEW state, ResetShape(x, state)
      PROVE  Older
  <2>1. PICK h \in Handle : h = byHash[x]
    BY <1>2, Zenon DEF ResetShape, ManagerInv, TypeOK
  <2>2. ~Spent(h)
    BY <2>1, NoHandleAssumption, Zenon DEF ManagerInv, IndexesConsistent, Spent
  <2>3. /\ byHandle' = byHandle \/ byHandle' = [byHandle EXCEPT ![h] = state]
        /\ clock' = clock
    BY <1>2, <2>1 DEF ResetShape
  <2>4. QED
    BY <2>2, <2>3, OneShapeOlder, Zenon
<1>3. ASSUME NEW h \in Handle, NEW new, NEW news, Active(h), Replace(h, new, news)
      PROVE  Older
  BY <1>3, OneShapeOlder, Zenon DEF Replace, Spent
<1>4. ASSUME \/ \E h \in Handle : Delete(h)
             \/ \E r \in Relation : InvalidateByRelation(r) \/ InvalidateByRelationFails(r)
             \/ InvalidateAll
      PROVE  Older
  <2>1. \/ byHandle' = byHandle
        \/ \E h \in Handle : byHandle' = [byHandle EXCEPT ![h] = Tombstone]
        \/ \E H : byHandle' = Buried(H)
    BY <1>4, Zenon DEF Delete, InvalidateByRelation, InvalidateByRelationFails, InvalidateAll, registry
  <2>2. \A g \in Handle : byHandle'[g] = byHandle[g] \/ byHandle'[g] = Tombstone
    BY <2>1 DEF Buried, ManagerInv, TypeOK
  <2>3. clock' = clock
    BY <1>4, ZenonT(60) DEF Delete, InvalidateByRelation, InvalidateByRelationFails, InvalidateAll
  <2>4. QED
    BY <2>2, <2>3, EmptyShapes, FewerShapesOlder
<1>5. CASE loadPersisted
  <2>1. ASSUME NEW g \in Handle
        PROVE  Loaded(g) = byHandle[g] \/ Loaded(g).status # "active"
    BY EmptyShapes, Zenon DEF Loaded, ManagerInv, StoreAgrees
  <2>2. QED
    BY <1>5, <2>1, FewerShapesOlder, Zenon DEF loadPersisted
<1>6. ASSUME byHandle' = byHandle, clock' = clock
      PROVE  Older
  BY <1>6, FewerShapesOlder
<1>7. ASSUME NEW h \in Handle, NEW rows \in Rows, NEW lsn \in CommitLSNs,
             \/ \E targeted \in SUBSET Key : RefreshKeysWithMetadata(h, targeted, rows, lsn)
             \/ \E related \in BOOLEAN : RefreshWithMetadata(h, rows, related, lsn)
      PROVE  Older
  BY <1>3, <1>7, ZenonT(60) DEF RefreshKeysWithMetadata, RefreshWithMetadata
<1>8. ASSUME NEW h \in Handle, NEW k \in Key, NEW row, AppendMessage(h, k, row)
      PROVE  Older
  BY <1>3, <1>8, Zenon DEF AppendMessage
<1>9. ASSUME NEW w \in Waiter,
             \/ \E h \in Handle : \E o : WaitRead(w, h, o)
             \/ WaitRegister(w) \/ WaitWoken(w) \/ WaitCancel(w) \/ RemoveWaiter(w)
      PROVE  Older
  BY <1>6, <1>9 DEF WaitRead, WaitRegister, WaitWoken, WaitCancel, RemoveWaiter, registry
<1>10. ASSUME NEW x \in Hash, LookupOrCreateDefinition(x)
       PROVE  Older
  <2>1. CASE CreateShape(x, FreshState(NoRows, InitialOffset))
    BY <1>1, <2>1
  <2>2. CASE byHash[x] # NoHandle /\ Replace(byHash[x], byHandle[byHash[x]], FALSE)
    <3>1. byHash[x] \in Handle /\ Active(byHash[x])
      BY <2>2 DEF ManagerInv, TypeOK, IndexesConsistent
    <3>2. QED
      BY <1>3, <2>2, <3>1, ZenonT(60)
  <2>3. QED
    BY <1>10, <2>1, <2>2, Zenon DEF LookupOrCreateDefinition
<1>11. CASE UNCHANGED vars
  BY <1>6, <1>11, Zenon DEF vars
<1>12. QED
  BY <1>1, <1>2, <1>4, <1>5, <1>7, <1>8, <1>9, <1>10, <1>11
  DEF ManagerNext, Next, UpsertSnapshotAtOffset

-----------------------------------------------------------------------------
(***************************************************************************)
(* The log of every active shape explains its rows, for any keys, rows and *)
(* batches and over failed writes and restarts.  A batch has one message   *)
(* for each key whose row it changes and none for the others; a restart    *)
(* brings back the logs that memory had (StoreAgrees).                     *)
(***************************************************************************)
LogInv == \A h \in Handle : Active(h) => Complete(byHandle[h])

\* The invariant is LogComplete, with the condition on one shape named.
LEMMA LogCompleteEquiv == LogComplete <=> LogInv
BY ZenonT(60) DEF LogInv, LogComplete, Complete, Explained

-----------------------------------------------------------------------------
(***************************************************************************)
(* One lemma for each way a shape changes.                                 *)
(***************************************************************************)
\* A new log is empty and the rows are the snapshot.
LEMMA FreshComplete ==
  ASSUME NEW rows, NEW offset
  PROVE  Complete(FreshState(rows, offset))
BY DEF FreshState, Complete, Explained

\* One shape is written, or none.
LEMMA OneShapeStep ==
  ASSUME ManagerInv, LogInv, NEW h \in Handle, NEW new, Complete(new),
         byHandle' = byHandle \/ byHandle' = [byHandle EXCEPT ![h] = new]
  PROVE  LogInv'
<1>1. CASE byHandle' = byHandle
  BY <1>1, Zenon DEF LogInv, Active
<1>2. CASE byHandle' = [byHandle EXCEPT ![h] = new]
  <2>1. byHandle'[h] = new /\ \A g \in Handle : g # h => byHandle'[g] = byHandle[g]
    BY <1>2, Zenon DEF ManagerInv, TypeOK
  <2>2. ASSUME NEW g \in Handle, byHandle'[g].status = "active"
        PROVE  Complete(byHandle'[g])
    BY <2>1, <2>2, Zenon DEF LogInv, Active
  <2>3. QED
    BY <2>2, Zenon DEF LogInv, Active
<1>3. QED
  BY <1>1, <1>2

\* Active shapes stay as they are or cease to be active.
LEMMA FewerShapesStep ==
  ASSUME LogInv, \A g \in Handle : byHandle'[g] = byHandle[g] \/ byHandle'[g].status # "active"
  PROVE  LogInv'
<1>1. ASSUME NEW g \in Handle, byHandle'[g].status = "active"
      PROVE  Complete(byHandle'[g])
  BY <1>1 DEF LogInv, Active
<1>2. QED
  BY <1>1, Zenon DEF LogInv, Active

\* The branch of UpsertSnapshotAtOffset for an unknown definition.
LEMMA CreateLog ==
  ASSUME ManagerInv, LogInv, NEW x \in Hash, NEW state, Complete(state), CreateShape(x, state)
  PROVE  LogInv'
<1>1. PICK h \in Handle : h = [hash |-> x, stamp |-> clock + 1]
  BY NewHandle, Zenon
<1>2. byHandle' = byHandle \/ byHandle' = [byHandle EXCEPT ![h] = state]
  BY <1>1, Zenon DEF CreateShape, registry
<1>3. QED
  BY <1>2, OneShapeStep, Zenon

\* The branch for a known one.
LEMMA ResetLog ==
  ASSUME ManagerInv, LogInv, NEW x \in Hash, NEW state, Complete(state), ResetShape(x, state)
  PROVE  LogInv'
<1>1. PICK h \in Handle : h = byHash[x]
  BY Zenon DEF ResetShape, ManagerInv, TypeOK
<1>2. byHandle' = byHandle \/ byHandle' = [byHandle EXCEPT ![h] = state]
  BY <1>1, ZenonT(60) DEF ResetShape
<1>3. QED
  BY <1>2, OneShapeStep

\* An active shape gets a batch that says what changes.
LEMMA BatchLog ==
  ASSUME ManagerInv, LogInv, NEW h \in Handle, Active(h),
         NEW rows \in Rows, NEW msgs \in Seq(Message), NEW news,
         Replace(h, Extended(byHandle[h], rows, msgs), news),
         \A k \in Key : \/ rows[k] = byHandle[h].materialized[k] /\ SaysNothing(msgs, k)
                        \/ Says(msgs, k, rows[k])
  PROVE  LogInv'
<1>1. byHandle[h] \in ShapeState /\ Complete(byHandle[h])
  BY ZenonT(60) DEF ManagerInv, TypeOK, LogInv
<1>2. Complete(Extended(byHandle[h], rows, msgs))
  BY <1>1, ExtendedExplained, ZenonT(60) DEF Complete
<1>3. \/ byHandle' = byHandle
      \/ byHandle' = [byHandle EXCEPT ![h] = Extended(byHandle[h], rows, msgs)]
  BY ZenonT(60) DEF Replace
<1>4. QED
  BY <1>2, <1>3, OneShapeStep

\* RefreshKeysWithMetadata: the keys that are not targeted keep their rows.
LEMMA RefreshKeysLog ==
  ASSUME ManagerInv, LogInv, NEW h \in Handle, NEW targeted \in SUBSET Key,
         NEW current \in Rows, NEW lsn \in Nat, RefreshKeysWithMetadata(h, targeted, current, lsn)
  PROVE  LogInv'
<1> DEFINE s       == byHandle[h]
           rows    == [k \in Key |-> IF k \in targeted THEN current[k] ELSE s.materialized[k]]
           changed == {k \in targeted : s.materialized[k] # current[k]}
<1>1. s \in ShapeState /\ s.offset \in Offset /\ Active(h)
  BY ZenonT(60) DEF RefreshKeysWithMetadata, ManagerInv, TypeOK, ShapeState
<1>2. rows \in Rows /\ changed \in SUBSET Key
  BY <1>1, ZenonT(60) DEF ShapeState, Rows
<1>3. PICK ks \in Sorted(changed) :
        Replace(h, Extended(s, rows, DiffMessages(ks, rows, FALSE, s.offset, lsn)),
                DiffMessages(ks, rows, FALSE, s.offset, lsn) # <<>>)
  BY Zenon DEF RefreshKeysWithMetadata
<1>4. ks \in Seq(Key)
  BY <1>2, SortedType, ZenonT(60)
<1>5. \A k \in Key \ changed : rows[k] = s.materialized[k]
  OBVIOUS
<1> DEFINE msgs == DiffMessages(ks, rows, FALSE, s.offset, lsn)
<1> HIDE DEF rows, changed
<1>6. msgs \in Seq(Message)
  BY <1>1, <1>2, <1>4, DiffMessagesType, Zenon
<1>7. \A k \in Key : /\ k \notin changed => SaysNothing(msgs, k)
                     /\ k \in changed => Says(msgs, k, rows[k])
  BY <1>2, DiffSays, Zenon
<1>8. Replace(h, Extended(byHandle[h], rows, msgs), msgs # <<>>)
  BY <1>3, ZenonT(60)
<1>9. \A k \in Key : \/ rows[k] = byHandle[h].materialized[k] /\ SaysNothing(msgs, k)
                     \/ Says(msgs, k, rows[k])
  <2> HIDE DEF msgs
  <2>1. QED
    BY <1>5, <1>7, Zenon
<1> HIDE DEF msgs, s
<1>10. QED
  BY <1>1, <1>2, <1>6, <1>8, <1>9, BatchLog, Zenon

\* RefreshWithMetadata: the whole shape.
LEMMA RefreshLog ==
  ASSUME ManagerInv, LogInv, NEW h \in Handle, NEW rows \in Rows, NEW related, NEW lsn \in Nat,
         RefreshWithMetadata(h, rows, related, lsn)
  PROVE  LogInv'
<1> DEFINE s       == byHandle[h]
           changed == {k \in Key : s.materialized[k] # rows[k]}
           moveIn  == /\ related
                      /\ h.hash \in Dependent
                      /\ \E k \in changed : s.materialized[k] = NoRow
<1>1. s \in ShapeState /\ s.offset \in Offset /\ Active(h)
  BY ZenonT(60) DEF RefreshWithMetadata, ManagerInv, TypeOK, ShapeState
<1>2. changed \in SUBSET Key /\ \A k \in Key \ changed : rows[k] = s.materialized[k]
  OBVIOUS
<1>3. PICK ks \in Sorted(changed) :
        Replace(h, Extended(s, rows, DiffMessages(ks, rows, moveIn, s.offset, lsn)),
                DiffMessages(ks, rows, moveIn, s.offset, lsn) # <<>>)
  BY ZenonT(60) DEF RefreshWithMetadata
<1>4. ks \in Seq(Key)
  BY <1>2, SortedType
<1> DEFINE msgs == DiffMessages(ks, rows, moveIn, s.offset, lsn)
<1> HIDE DEF changed, moveIn
<1>6. msgs \in Seq(Message)
  BY <1>1, <1>4, DiffMessagesType, Zenon
<1>7. \A k \in Key : /\ k \notin changed => SaysNothing(msgs, k)
                     /\ k \in changed => Says(msgs, k, rows[k])
  BY <1>2, DiffSays, Zenon
<1>8. Replace(h, Extended(byHandle[h], rows, msgs), msgs # <<>>)
  BY <1>3, Zenon
<1>9. \A k \in Key : \/ rows[k] = byHandle[h].materialized[k] /\ SaysNothing(msgs, k)
                     \/ Says(msgs, k, rows[k])
  <2> HIDE DEF msgs
  <2>1. QED
    BY <1>2, <1>7, Zenon
<1> HIDE DEF msgs, s
<1>10. QED
  BY <1>1, <1>6, <1>8, <1>9, BatchLog, ZenonT(60)

\* Append: one message for one key.
LEMMA AppendLog ==
  ASSUME ManagerInv, LogInv, NEW h \in Handle, NEW k \in Key, NEW row \in Row \cup {NoRow},
         AppendMessage(h, k, row)
  PROVE  LogInv'
<1> DEFINE s    == byHandle[h]
           rows == [s.materialized EXCEPT ![k] = row]
           msg  == [key |-> k, row |-> row, offset |-> NextGeneratedOffset(s.offset, 0)]
           msgs == <<msg>>
<1>1. s \in ShapeState /\ s.offset \in Offset /\ s.materialized \in Rows /\ Active(h)
  BY ZenonT(60) DEF AppendMessage, ManagerInv, TypeOK, ShapeState
<1>2. rows \in Rows /\ rows[k] = row /\ \A j \in Key : j # k => rows[j] = s.materialized[j]
  BY <1>1, Zenon DEF Rows
<1>3. NextGeneratedOffset(s.offset, 0) \in Offset
  BY <1>1, BatchOffsetType, Zenon
<1>4. msg \in Message /\ msg.key = k /\ msg.row = row
  BY <1>3 DEF Message
<1>5. Replace(h, Extended(byHandle[h], rows, msgs), TRUE)
  BY Zenon DEF AppendMessage
<1> HIDE DEF msg, rows
<1>6. msgs \in Seq(Message)
  BY <1>4, OneMessage, Zenon
<1>7. \A j \in Key : /\ j # k => SaysNothing(msgs, j)
                     /\ j = k => Says(msgs, j, rows[j])
  BY <1>2, <1>4, OneMessage, Zenon
<1>8. \A j \in Key : \/ rows[j] = byHandle[h].materialized[j] /\ SaysNothing(msgs, j)
                     \/ Says(msgs, j, rows[j])
  <2> HIDE DEF msgs
  <2>1. QED
    BY <1>2, <1>7, Zenon
<1> HIDE DEF msgs, s
<1>9. QED
  BY <1>1, <1>2, <1>5, <1>6, <1>8, BatchLog, ZenonT(60)

\* A restart brings back what memory had, or tombstones.
LEMMA LoadedLog ==
  ASSUME ManagerInv, LogInv, loadPersisted
  PROVE  LogInv'
<1>1. ASSUME NEW g \in Handle
      PROVE  Loaded(g) = byHandle[g] \/ Loaded(g).status # "active"
  BY EmptyShapes, Zenon DEF Loaded, ManagerInv, StoreAgrees
<1>2. QED
  BY <1>1, FewerShapesStep, Zenon DEF loadPersisted

\* Deletions, by handle, by table and of everything.
LEMMA DeleteLog ==
  ASSUME ManagerInv, LogInv,
         \/ \E h \in Handle : Delete(h)
         \/ \E r \in Relation : InvalidateByRelation(r) \/ InvalidateByRelationFails(r)
         \/ InvalidateAll
  PROVE  LogInv'
<1>1. \/ byHandle' = byHandle
      \/ \E h \in Handle : byHandle' = [byHandle EXCEPT ![h] = Tombstone]
      \/ \E H : byHandle' = Buried(H)
  BY Zenon DEF Delete, InvalidateByRelation, InvalidateByRelationFails, InvalidateAll, registry
<1>2. \A g \in Handle : byHandle'[g] = byHandle[g] \/ byHandle'[g] = Tombstone
  BY <1>1 DEF Buried, ManagerInv, TypeOK
<1>3. QED
  BY <1>2, EmptyShapes, FewerShapesStep

\* LookupOrCreateDefinition writes a known shape again as it is.
LEMMA LookupLog ==
  ASSUME ManagerInv, LogInv, NEW x \in Hash, LookupOrCreateDefinition(x)
  PROVE  LogInv'
<1>1. CASE CreateShape(x, FreshState(NoRows, InitialOffset))
  BY <1>1, CreateLog, FreshComplete
<1>2. CASE byHash[x] # NoHandle /\ Replace(byHash[x], byHandle[byHash[x]], FALSE)
  <2>1. PICK h \in Handle : h = byHash[x]
    BY <1>2, Zenon DEF ManagerInv, TypeOK
  <2>2. Complete(byHandle[h])
    BY <1>2, <2>1, Zenon DEF ManagerInv, IndexesConsistent, LogInv
  <2>3. byHandle' = byHandle \/ byHandle' = [byHandle EXCEPT ![h] = byHandle[h]]
    BY <1>2, <2>1, ZenonT(60) DEF Replace
  <2>4. QED
    BY <2>2, <2>3, OneShapeStep, Zenon
<1>3. QED
  BY <1>1, <1>2, Zenon DEF LookupOrCreateDefinition

-----------------------------------------------------------------------------
\* Every operation and every restart keeps the logs complete.
LEMMA Next_Log == ManagerInv /\ LogInv /\ [Next]_vars => LogInv'
<1> SUFFICES ASSUME ManagerInv, LogInv, [Next]_vars
             PROVE  LogInv'
  OBVIOUS
<1>1. ASSUME NEW x \in Hash, NEW rows \in Rows, NEW offset,
             UpsertSnapshotAtOffset(x, rows, offset)
      PROVE  LogInv'
  BY <1>1, FreshComplete, CreateLog, ResetLog, Zenon DEF UpsertSnapshotAtOffset
<1>2. ASSUME NEW h \in Handle, NEW rows \in Rows, NEW lsn \in CommitLSNs,
             NEW targeted \in SUBSET Key, RefreshKeysWithMetadata(h, targeted, rows, lsn)
      PROVE  LogInv'
  BY <1>2, RefreshKeysLog, ManagerAssumption, Zenon
<1>3. ASSUME NEW h \in Handle, NEW rows \in Rows, NEW lsn \in CommitLSNs,
             NEW related \in BOOLEAN, RefreshWithMetadata(h, rows, related, lsn)
      PROVE  LogInv'
  BY <1>3, RefreshLog, ManagerAssumption, Zenon
<1>4. ASSUME NEW w \in Waiter,
             \/ \E h \in Handle, o \in WaitOffsets : WaitRead(w, h, o)
             \/ WaitRegister(w) \/ WaitWoken(w) \/ WaitCancel(w) \/ RemoveWaiter(w)
      PROVE  LogInv'
  <2>1. byHandle' = byHandle
    BY <1>4, Zenon DEF WaitRead, WaitRegister, WaitWoken, WaitCancel, RemoveWaiter, registry
  <2>2. QED
    BY <2>1, FewerShapesStep
<1>5. CASE UNCHANGED vars
  BY <1>5, FewerShapesStep DEF vars
<1>6. QED
  BY <1>1, <1>2, <1>3, <1>4, <1>5, LookupLog, AppendLog, DeleteLog, LoadedLog DEF Next

\* A client that has the snapshot of an active shape and its whole log has the rows
\* the next diff starts from, after any refreshes, resets, failed writes and
\* restarts: no change reaches Materialized without a message.
THEOREM LogAlwaysComplete == Spec => []LogComplete
<1>1. ASSUME Init, NEW h \in Handle
      PROVE  byHandle[h] = Absent
  BY <1>1, Zenon DEF Init
<1>2. Init => LogInv
  BY <1>1, EmptyShapes, ZenonT(60) DEF LogInv, Active
<1>3. QED
  BY Init_Inv, Next_Inv, Next_Log, LogCompleteEquiv, <1>2, PTL DEF Spec

-----------------------------------------------------------------------------
(***************************************************************************)
(* WaitForChange loses no wake-up, for any number of requests and shapes.  *)
(* Together with ManagerInv, NoLostWakeup is inductive: an operation that  *)
(* changes what a handle serves closes the channels of the handle, and a   *)
(* handle that is given to a new shape has no waiters, since a waiter's    *)
(* shape is active and a handle the clock has not reached is unused.       *)
(***************************************************************************)
\* What readLocked looks at is left alone.
SameLog(h) ==
  /\ byHandle'[h].status = byHandle[h].status
  /\ byHandle'[h].changes = byHandle[h].changes
  /\ byHandle'[h].offset = byHandle[h].offset

\* readLocked gives the same answer for the same log.
LEMMA SameLogQuiet ==
  ASSUME NEW h \in Handle, NEW w \in Waiter, SameLog(h), wait'[w].offset = wait[w].offset,
         Quiet(h, wait[w].offset)
  PROVE  Quiet(h, wait[w].offset)'
<1>1. ReadFails(h, wait[w].offset)' <=> ReadFails(h, wait[w].offset)
  BY Zenon DEF SameLog, ReadFails, Active
<1>2. ReadMessages(h, wait[w].offset)' = ReadMessages(h, wait[w].offset)
  BY ZenonT(60) DEF SameLog, ReadMessages
<1>3. QED
  BY <1>1, <1>2 DEF Quiet

\* An operation that adds no waiter, and closes the channels of the handles whose
\* log it changes.
LEMMA NotifiedStep ==
  ASSUME ManagerInv, NoLostWakeup, wait' = wait,
         \A h \in Handle : waiters'[h] \subseteq waiters[h],
         \A h \in Handle : waiters'[h] # {} => SameLog(h)
  PROVE  NoLostWakeup'
<1> SUFFICES ASSUME NEW h \in Handle, NEW w \in waiters'[h]
             PROVE  /\ wait'[w].pc \in {"registered", "cancelled"}
                    /\ wait'[w].handle = h
                    /\ Quiet(h, wait[w].offset)'
  BY ZenonT(60) DEF NoLostWakeup
<1>1. w \in waiters[h] /\ w \in Waiter
  BY DEF ManagerInv, TypeOK
<1>2. SameLog(h)
  BY Zenon
<1>3. QED
  BY <1>1, <1>2, SameLogQuiet DEF NoLostWakeup

\* Every handle of a set is notified, and no other one changes.
LEMMA NotifyStep ==
  ASSUME ManagerInv, NoLostWakeup, NEW H \in SUBSET Handle, Notify(H), wait' = wait,
         \A g \in Handle \ H : SameLog(g)
  PROVE  NoLostWakeup'
<1>1. \A g \in Handle : waiters'[g] \subseteq waiters[g] /\ (waiters'[g] # {} => g \notin H)
  BY Zenon DEF Notify
<1>2. QED
  BY <1>1, NotifiedStep, Zenon

\* A failed write, and whatever else leaves the registry and the waiters alone.
LEMMA RegistryKeptStep ==
  ASSUME ManagerInv, NoLostWakeup, byHandle' = byHandle, waiters' = waiters, wait' = wait
  PROVE  NoLostWakeup'
BY NotifiedStep DEF SameLog

\* Only the shapes of a set become tombstones.
LEMMA BuriedKeepsOthers ==
  ASSUME NEW H \in SUBSET Handle, byHandle' = Buried(H)
  PROVE  \A g \in Handle \ H : SameLog(g)
BY Zenon DEF Buried, SameLog

\* Replace wakes the waiters, or the log is the same.
LEMMA ReplaceWakes ==
  ASSUME ManagerInv, NoLostWakeup, NEW h \in Handle, NEW new, NEW news, Replace(h, new, news),
         news \/ (/\ new.status = byHandle[h].status
                  /\ new.changes = byHandle[h].changes
                  /\ new.offset = byHandle[h].offset)
  PROVE  NoLostWakeup'
<1>1. wait' = wait
  BY Zenon DEF Replace
<1>2. CASE byHandle' = byHandle /\ waiters' = waiters
  BY <1>1, <1>2, RegistryKeptStep, Zenon
<1>3. CASE byHandle' = [byHandle EXCEPT ![h] = new] /\ news /\ Notify({h})
  <2>1. \A g \in Handle \ {h} : SameLog(g)
    BY <1>3, Zenon DEF ManagerInv, TypeOK, SameLog
  <2>2. QED
    BY <1>1, <1>3, <2>1, NotifyStep, Zenon
<1>4. CASE byHandle' = [byHandle EXCEPT ![h] = new] /\ ~news /\ waiters' = waiters
  <2>1. \A g \in Handle : SameLog(g)
    BY <1>4 DEF ManagerInv, TypeOK, SameLog
  <2>2. QED
    BY <1>1, <1>4, <2>1, NotifiedStep, Zenon
<1>5. QED
  BY <1>2, <1>3, <1>4, Zenon DEF Replace

\* A batch wakes the waiters, or has no message.
LEMMA BatchWakes ==
  ASSUME ManagerInv, NoLostWakeup, NEW h \in Handle, NEW rows, NEW msgs, NEW news,
         Replace(h, Extended(byHandle[h], rows, msgs), news), news \/ msgs = <<>>
  PROVE  NoLostWakeup'
<1>1. byHandle[h] \in ShapeState
  BY DEF ManagerInv, TypeOK
<1>2. CASE msgs = <<>>
  BY <1>1, <1>2, EmptyBatch, ReplaceWakes, ZenonT(60)
<1>3. CASE news
  BY <1>3, ReplaceWakes, Zenon
<1>4. QED
  BY <1>2, <1>3, Zenon

\* The batch of a refresh of some keys.
LEMMA RefreshKeysWakes ==
  ASSUME ManagerInv, NoLostWakeup, NEW h \in Handle, NEW targeted \in SUBSET Key,
         NEW current, NEW lsn, RefreshKeysWithMetadata(h, targeted, current, lsn)
  PROVE  NoLostWakeup'
<1> DEFINE s       == byHandle[h]
           rows    == [k \in Key |-> IF k \in targeted THEN current[k] ELSE s.materialized[k]]
           changed == {k \in targeted : s.materialized[k] # current[k]}
<1>1. PICK ks \in Sorted(changed) :
        Replace(h, Extended(s, rows, DiffMessages(ks, rows, FALSE, s.offset, lsn)),
                DiffMessages(ks, rows, FALSE, s.offset, lsn) # <<>>)
  BY Zenon DEF RefreshKeysWithMetadata
<1> DEFINE msgs == DiffMessages(ks, rows, FALSE, s.offset, lsn)
<1>2. Replace(h, Extended(byHandle[h], rows, msgs), msgs # <<>>)
  BY <1>1, Zenon
<1> HIDE DEF rows, changed, msgs
<1>3. QED
  BY <1>2, BatchWakes, Zenon

\* The batch of a refresh of the whole shape.
LEMMA RefreshWakes ==
  ASSUME ManagerInv, NoLostWakeup, NEW h \in Handle, NEW rows, NEW related, NEW lsn,
         RefreshWithMetadata(h, rows, related, lsn)
  PROVE  NoLostWakeup'
<1> DEFINE s       == byHandle[h]
           changed == {k \in Key : s.materialized[k] # rows[k]}
           moveIn  == /\ related
                      /\ h.hash \in Dependent
                      /\ \E k \in changed : s.materialized[k] = NoRow
<1>1. PICK ks \in Sorted(changed) :
        Replace(h, Extended(s, rows, DiffMessages(ks, rows, moveIn, s.offset, lsn)),
                DiffMessages(ks, rows, moveIn, s.offset, lsn) # <<>>)
  BY Zenon DEF RefreshWithMetadata
<1> DEFINE msgs == DiffMessages(ks, rows, moveIn, s.offset, lsn)
<1>2. Replace(h, Extended(byHandle[h], rows, msgs), msgs # <<>>)
  BY <1>1, Zenon
<1> HIDE DEF changed, moveIn, msgs
<1>3. QED
  BY <1>2, BatchWakes, Zenon

\* A shape under a new handle has no waiters.
LEMMA CreateWakes ==
  ASSUME ManagerInv, NoLostWakeup, NEW x \in Hash, NEW state, CreateShape(x, state)
  PROVE  NoLostWakeup'
<1>1. PICK h \in Handle : h = [hash |-> x, stamp |-> clock + 1] /\ ~Active(h)
  BY NewHandle, Zenon
<1>2. waiters' = waiters /\ wait' = wait
  BY DEF CreateShape
<1>3. CASE byHandle' = byHandle
  BY <1>2, <1>3, RegistryKeptStep, Zenon
<1>4. CASE byHandle' = [byHandle EXCEPT ![h] = state]
  <2>1. waiters[h] = {}
    BY <1>1, Zenon DEF NoLostWakeup, Quiet, ReadFails
  <2>2. \A g \in Handle : g # h => SameLog(g)
    BY <1>4, Zenon DEF ManagerInv, TypeOK, SameLog
  <2>3. QED
    BY <1>2, <2>1, <2>2, NotifiedStep, Zenon
<1>5. QED
  BY <1>1, <1>3, <1>4, Zenon DEF CreateShape, registry

\* A reset wakes the waiters of the handle.
LEMMA ResetWakes ==
  ASSUME ManagerInv, NoLostWakeup, NEW x \in Hash, NEW state, ResetShape(x, state)
  PROVE  NoLostWakeup'
<1>1. PICK h \in Handle : h = byHash[x]
  BY Zenon DEF ResetShape, ManagerInv, TypeOK
<1>2. wait' = wait
  BY DEF ResetShape
<1>3. CASE byHandle' = byHandle /\ waiters' = waiters
  BY <1>2, <1>3, RegistryKeptStep, Zenon
<1>4. CASE byHandle' = [byHandle EXCEPT ![h] = state] /\ Notify({h})
  <2>1. \A g \in Handle \ {h} : SameLog(g)
    BY <1>4, Zenon DEF ManagerInv, TypeOK, SameLog
  <2>2. QED
    BY <1>2, <1>4, <2>1, NotifyStep, Zenon
<1>5. QED
  BY <1>1, <1>3, <1>4, Zenon DEF ResetShape

\* Deletions, by handle, by table and of everything.
LEMMA DeleteWakes ==
  ASSUME ManagerInv, NoLostWakeup,
         \/ \E h \in Handle : Delete(h)
         \/ \E r \in Relation : InvalidateByRelation(r) \/ InvalidateByRelationFails(r)
         \/ InvalidateAll
  PROVE  NoLostWakeup'
<1>1. ASSUME NEW h \in Handle, Delete(h)
      PROVE  NoLostWakeup'
  <2>1. wait' = wait
    BY <1>1 DEF Delete
  <2>2. CASE byHandle' = byHandle /\ waiters' = waiters
    BY <2>1, <2>2, RegistryKeptStep, Zenon
  <2>3. CASE byHandle' = [byHandle EXCEPT ![h] = Tombstone] /\ Notify({h})
    <3>1. \A g \in Handle \ {h} : SameLog(g)
      BY <2>3, Zenon DEF ManagerInv, TypeOK, SameLog
    <3>2. QED
      BY <2>1, <2>3, <3>1, NotifyStep, Zenon
  <2>4. QED
    BY <1>1, <2>2, <2>3, Zenon DEF Delete, registry
<1>2. ASSUME NEW r \in Relation, InvalidateByRelation(r)
      PROVE  NoLostWakeup'
  <2>1. PICK H \in SUBSET Handle : H = ActiveByRelation(r)
    BY ZenonT(60) DEF ActiveByRelation, ManagerInv, TypeOK
  <2>2. byHandle' = Buried(H) /\ Notify(H) /\ wait' = wait
    BY <1>2, <2>1, Zenon DEF InvalidateByRelation
  <2>3. QED
    BY <2>2, BuriedKeepsOthers, NotifyStep
<1>3. ASSUME NEW r \in Relation, InvalidateByRelationFails(r)
      PROVE  NoLostWakeup'
  BY <1>3, RegistryKeptStep, Zenon DEF InvalidateByRelationFails, registry
<1>4. CASE InvalidateAll
  <2>1. PICK H \in SUBSET Handle : byHandle' = Buried(H) /\ Notify(H) /\ wait' = wait
    BY <1>4, ZenonT(60) DEF InvalidateAll
  <2>2. QED
    BY <2>1, BuriedKeepsOthers, NotifyStep
<1>5. QED
  BY <1>1, <1>2, <1>3, <1>4, Zenon

\* The steps of WaitForChange itself.
LEMMA WaitWakes ==
  ASSUME ManagerInv, NoLostWakeup, NEW w \in Waiter,
         \/ \E h \in Handle, o \in Offset : WaitRead(w, h, o)
         \/ WaitRegister(w) \/ WaitWoken(w) \/ WaitCancel(w) \/ RemoveWaiter(w)
  PROVE  NoLostWakeup'
<1>1. /\ wait \in [Waiter -> WaitState] /\ waiters \in [Handle -> SUBSET Waiter]
      /\ \A h \in Handle : SameLog(h)
  BY DEF ManagerInv, TypeOK, WaitRead, WaitRegister, WaitWoken, WaitCancel, RemoveWaiter,
         registry, SameLog
<1>2. \A v \in Waiter : v # w => wait'[v] = wait[v]
  BY <1>1 DEF WaitRead, WaitRegister, WaitWoken, WaitCancel, RemoveWaiter
<1>3. ASSUME NEW h \in Handle, NEW v \in waiters'[h], v # w
      PROVE  /\ wait'[v].pc \in {"registered", "cancelled"} /\ wait'[v].handle = h
             /\ Quiet(h, wait[v].offset)'
  <2>1. v \in waiters[h] /\ v \in Waiter
    BY <1>1, <1>3 DEF WaitRead, WaitRegister, WaitWoken, WaitCancel, RemoveWaiter
  <2>2. wait'[v] = wait[v] /\ Quiet(h, wait[v].offset)
    BY <1>2, <1>3, <2>1, ZenonT(60) DEF NoLostWakeup
  <2>3. QED
    BY <1>1, <2>1, <2>2, SameLogQuiet, ZenonT(60) DEF NoLostWakeup
<1>4. ASSUME NEW h \in Handle, w \in waiters'[h]
      PROVE  /\ wait'[w].pc \in {"registered", "cancelled"} /\ wait'[w].handle = h
             /\ Quiet(h, wait[w].offset)'
  <2>1. CASE w \notin waiters[h]
    <3>1. /\ wait[w].handle = h /\ Quiet(h, wait[w].offset)
          /\ wait' = [wait EXCEPT ![w].pc = "registered"]
      BY <1>1, <1>4, <2>1 DEF WaitRead, WaitRegister, WaitWoken, WaitCancel, RemoveWaiter
    <3>2. wait'[w].pc = "registered" /\ wait'[w].handle = h /\ wait'[w].offset = wait[w].offset
      BY <1>1, <3>1 DEF WaitState
    <3>3. QED
      BY <1>1, <3>1, <3>2, SameLogQuiet, Zenon
  <2>2. CASE w \in waiters[h]
    <3>1. /\ wait[w].pc \in {"registered", "cancelled"} /\ wait[w].handle = h
          /\ Quiet(h, wait[w].offset)
      BY <2>2, ZenonT(60) DEF NoLostWakeup
    <3>2. WaitCancel(w)
      BY <1>1, <1>4, <2>2, <3>1 DEF WaitRead, WaitRegister, WaitWoken, RemoveWaiter
    <3>3. wait'[w].pc = "cancelled" /\ wait'[w].handle = h /\ wait'[w].offset = wait[w].offset
      BY <1>1, <3>1, <3>2, Zenon DEF WaitCancel, WaitState
    <3>4. QED
      BY <1>1, <3>1, <3>3, SameLogQuiet, ZenonT(60)
  <2>3. QED
    BY <2>1, <2>2
<1>5. QED
  BY <1>3, <1>4, ZenonT(60) DEF NoLostWakeup

-----------------------------------------------------------------------------
\* Every operation, every step of a request and every restart keeps the invariant.
LEMMA Next_Wakes == ManagerInv /\ NoLostWakeup /\ [Next]_vars => NoLostWakeup'
<1> SUFFICES ASSUME ManagerInv, NoLostWakeup, [Next]_vars
             PROVE  NoLostWakeup'
  BY Zenon
<1>1. ASSUME NEW x \in Hash, NEW rows \in Rows, NEW offset,
             UpsertSnapshotAtOffset(x, rows, offset)
      PROVE  NoLostWakeup'
  BY <1>1, CreateWakes, ResetWakes DEF UpsertSnapshotAtOffset
<1>2. ASSUME NEW x \in Hash, LookupOrCreateDefinition(x)
      PROVE  NoLostWakeup'
  <2>1. CASE CreateShape(x, FreshState(NoRows, InitialOffset))
    BY <2>1, CreateWakes
  <2>2. CASE byHash[x] # NoHandle /\ Replace(byHash[x], byHandle[byHash[x]], FALSE)
    <3>1. byHash[x] \in Handle
      BY <2>2, Zenon DEF ManagerInv, TypeOK
    <3>2. QED
      BY <2>2, <3>1, ReplaceWakes, Zenon
  <2>3. QED
    BY <1>2, <2>1, <2>2, Zenon DEF LookupOrCreateDefinition
<1>3. ASSUME NEW h \in Handle, NEW rows \in Rows, NEW lsn \in CommitLSNs,
             NEW targeted \in SUBSET Key, RefreshKeysWithMetadata(h, targeted, rows, lsn)
      PROVE  NoLostWakeup'
  BY <1>3, RefreshKeysWakes
<1>4. ASSUME NEW h \in Handle, NEW rows \in Rows, NEW lsn \in CommitLSNs,
             NEW related \in BOOLEAN, RefreshWithMetadata(h, rows, related, lsn)
      PROVE  NoLostWakeup'
  BY <1>4, RefreshWakes
<1>5. ASSUME NEW h \in Handle, NEW k \in Key, NEW row, AppendMessage(h, k, row)
      PROVE  NoLostWakeup'
  BY <1>5, ReplaceWakes, ZenonT(60) DEF AppendMessage
<1>6. CASE loadPersisted
  BY <1>6, ZenonT(60) DEF loadPersisted, NoLostWakeup
<1>7. CASE UNCHANGED vars
  BY <1>7, RegistryKeptStep DEF vars
<1>8. WaitOffsets \subseteq Offset
  BY ManagerAssumption
<1>9. QED
  BY <1>1, <1>2, <1>3, <1>4, <1>5, <1>6, <1>7, <1>8, DeleteWakes, WaitWakes, ZenonT(60) DEF Next

\* A request inside WaitForChange never sleeps on a channel that was closed before
\* it was registered, whatever changes, deletions, resets and restarts race with
\* it: while it is registered, readLocked has nothing to give it.
THEOREM NoWakeupIsLost == Spec => []NoLostWakeup
<1>1. Init => NoLostWakeup
  BY DEF Init, NoLostWakeup
<1>2. QED
  BY Init_Inv, Next_Inv, Next_Wakes, <1>1, PTL DEF Spec

\* The promise to wake requests does not depend on those offsets either.
LEMMA ManagerNext_Wakes == ManagerInv /\ NoLostWakeup /\ [ManagerNext]_vars => NoLostWakeup'
BY Next_Wakes, WaitWakes DEF ManagerNext

=============================================================================
