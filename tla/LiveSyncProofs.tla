--------------------------- MODULE LiveSyncProofs ---------------------------
(***************************************************************************)
(* What is confirmed was applied: every step of LiveSync keeps LiveInv     *)
(* when the store is on disk, for any definitions on one table, keys,      *)
(* rows, clients, commits and faults.  That a step keeps LiveBase, the     *)
(* part of LiveInv about the manager and the types, is taken as a          *)
(* hypothesis here; LiveTheorems proves it.                                *)
(***************************************************************************)
EXTENDS LiveSync, ShapeNotions, TLAPS

(***************************************************************************)
(* Types.                                                                  *)
(***************************************************************************)
\* The types of what Postgres, the connection and the loop have.
LinkTypes ==
  /\ db \in Rows /\ wal \in Seq(SUBSET Key) /\ Len(wal) <= MaxCommits
  /\ slot \in Position /\ checkpoint \in Position /\ incompatible \in BOOLEAN
  /\ stream \in StreamState /\ job \in JobState /\ begun \in 0 .. MaxCommits
  /\ stream.up => stream.next > 0
  /\ job.pc # "idle" => stream.up /\ job.lsn \in DOMAIN wal

\* The types of what the clients have, and of what was registered for them.
ClientTypes ==
  /\ client \in [Client -> ClientState]
  /\ registered \in [Handle -> 0 .. MaxCommits]
  /\ \A c \in Client : client[c].pc = "live" => client[c].handle \in Handle

\* The invariant in these parts.
LEMMA LiveBaseParts == LiveBase <=> ManagerInv /\ LinkTypes /\ ClientTypes
BY DEF LiveBase, LiveTypeOK, LinkTypes, ClientTypes, ManagerInv

\* The offsets a client may start from, and the shapes that are not active.
LEMMA LiveConstants ==
  /\ InvalidOffset \in Offset /\ InitialOffset \in Offset /\ NowOffset \in Offset
  /\ Absent.status = "absent" /\ Len(Absent.changes) = 0
  /\ Tombstone.status = "deleted" /\ Len(Tombstone.changes) = 0
<1>1. InvalidOffset \in Offset /\ InitialOffset \in Offset /\ NowOffset \in Offset
  BY DEF Offset, InvalidOffset, InitialOffset, SequenceOffset, NowOffset,
     RankInvalid, RankSequence, RankNow
<1>2. QED
  BY <1>1 DEF Absent, Tombstone

\* The values the loop and the clients start with.
LEMMA LiveStarts ==
  /\ NoRows \in Rows
  /\ NoJob \in JobState /\ NoJob.pc = "idle"
  /\ Down \in StreamState /\ ~Down.up /\ Down.start = 0 /\ Down.next = 0
  /\ Nobody \in ClientState /\ Nobody.pc = "idle"
<1>1. NoRows \in Rows
  BY DEF NoRows, Rows
<1>2. QED
  BY <1>1, LiveConstants, LiveAssumption
     DEF NoJob, JobState, Down, StreamState, Position, Nobody, ClientState

\* The connection starts from a position.
LEMMA StreamingType ==
  ASSUME NEW p \in Position
  PROVE  /\ Streaming(p) \in StreamState
         /\ Streaming(p).up /\ ~Streaming(p).invalidated
         /\ Streaming(p).next = p /\ Streaming(p).start = p /\ Streaming(p).confirmed = p
BY DEF Streaming, StreamState

\* The keys of the commit that is being applied are keys.
LEMMA CurrentKeysType ==
  ASSUME LiveBase, job.pc # "idle"
  PROVE  CurrentKeys \in SUBSET Key
<1>1. wal \in Seq(SUBSET Key) /\ job.lsn \in DOMAIN wal
  BY DEF LiveBase, LiveTypeOK
<1>2. wal[job.lsn] \in SUBSET Key
  BY <1>1
<1>3. QED
  BY <1>2 DEF CurrentKeys

\* The loop ends.
LEMMA DropType ==
  ASSUME LinkTypes, Drop
  PROVE  /\ job' = NoJob /\ stream' \in StreamState /\ slot' \in Position
         /\ ~stream'.up /\ ~stream'.invalidated /\ stream'.next = 0
         /\ stream'.confirmed = 0 /\ stream'.start = stream.start
         /\ slot' = slot \/ slot' = 0
<1>1. 0 \in Position
  BY LiveAssumption DEF Position
<1>2. QED
  BY <1>1, Zenon DEF Drop, LinkTypes, Down, StreamState

\* A registration that succeeded is indexed, and writes that shape only.
LEMMA UpsertSaved ==
  ASSUME ManagerInv, NEW x \in Hash, NEW rows, UpsertSnapshotAtOffset(x, rows, InitialOffset),
         faults' = faults
  PROVE  /\ byHash'[x] \in Handle
         /\ byHandle' = [byHandle EXCEPT ![byHash'[x]] = FreshState(rows, InitialOffset)]
<1>1. faults \in Nat /\ \A h, new : ~SaveShapeFails(h, new)
  BY DEF ManagerInv, TypeOK, SaveShapeFails
<1>2. CASE CreateShape(x, FreshState(rows, InitialOffset))
  <2>1. PICK h \in Handle : h = [hash |-> x, stamp |-> clock + 1]
    BY <1>2, ManagerAssumption DEF CreateShape, Handle, ManagerInv, TypeOK
  <2>2. byHash'[x] = h /\ byHandle' = [byHandle EXCEPT ![h] = FreshState(rows, InitialOffset)]
    BY <1>1, <1>2, <2>1 DEF CreateShape, ManagerInv, TypeOK
  <2>3. QED
    BY <2>2
<1>3. CASE ResetShape(x, FreshState(rows, InitialOffset))
  <2>1. byHash[x] \in Handle
    BY <1>3 DEF ResetShape, ManagerInv, TypeOK
  <2>2. QED
    BY <1>1, <1>3, <2>1 DEF ResetShape
<1>4. QED
  BY <1>2, <1>3 DEF UpsertSnapshotAtOffset

-----------------------------------------------------------------------------
(***************************************************************************)
(* The last commit that touched a key.                                     *)
(***************************************************************************)
TouchOf(w, k) ==
  IF \A i \in DOMAIN w : k \notin w[i] THEN 0
  ELSE CHOOSE i \in DOMAIN w : k \in w[i] /\ \A j \in DOMAIN w : j > i => k \notin w[j]

\* A touch that no other one follows is the last.
LEMMA TouchIs ==
  ASSUME NEW w, NEW n \in Nat, DOMAIN w = 1 .. n, NEW k, NEW i \in 1 .. n, k \in w[i],
         \A j \in 1 .. n : j > i => k \notin w[j]
  PROVE  TouchOf(w, k) = i
<1> DEFINE last(m) == k \in w[m] /\ \A j \in 1 .. n : j > m => k \notin w[j]
<1>1. last(i)
  OBVIOUS
<1>2. ASSUME NEW m \in 1 .. n, last(m)
      PROVE  m = i
  <2>1. ~(m > i) /\ ~(i > m)
    BY <1>1, <1>2
  <2>2. QED
    BY <2>1
<1>3. (CHOOSE m \in 1 .. n : last(m)) = i
  <2> HIDE DEF last
  <2>1. QED
    BY <1>1, <1>2, Zenon
<1>4. ~(\A m \in 1 .. n : k \notin w[m])
  OBVIOUS
<1>5. QED
  BY <1>3, <1>4 DEF TouchOf

\* What WalInv says of it.
LEMMA TouchFacts ==
  ASSUME LinkTypes, WalInv, NEW k \in Key
  PROVE  /\ LastTouch(k) \in Nat /\ LastTouch(k) <= Len(wal) /\ LastTouch(k) <= MaxCommits
         /\ LastTouch(k) # 0 => LastTouch(k) \in DOMAIN wal /\ k \in wal[LastTouch(k)]
<1>0. LastTouch(k) = TouchOf(wal, k)
  BY DEF LastTouch, TouchOf
<1>1. /\ Len(wal) \in Nat /\ DOMAIN wal = 1 .. Len(wal) /\ MaxCommits \in Nat
      /\ Len(wal) <= MaxCommits
  BY LiveAssumption DEF LinkTypes
<1>2. CASE \A i \in DOMAIN wal : k \notin wal[i]
  <2>1. LastTouch(k) = 0
    BY <1>2 DEF LastTouch
  <2>2. QED
    BY <1>1, <2>1
<1>3. CASE \E i \in DOMAIN wal : k \in wal[i] /\ \A j \in DOMAIN wal : j > i => k \notin wal[j]
  <2>1. PICK i \in 1 .. Len(wal) : k \in wal[i] /\ \A j \in 1 .. Len(wal) : j > i => k \notin wal[j]
    BY <1>1, <1>3, Zenon
  <2>2. LastTouch(k) = i
    BY <1>0, <1>1, <2>1, TouchIs
  <2>3. QED
    BY <1>1, <2>1, <2>2
<1>4. QED
  BY <1>2, <1>3, Zenon DEF WalInv

\* It stays the same while nothing is committed.
LEMMA TouchKept ==
  ASSUME wal' = wal, NEW k
  PROVE  LastTouch(k)' = LastTouch(k)
BY DEF LastTouch

\* A commit touches its keys, and no other.
LEMMA TouchCommit ==
  ASSUME LinkTypes, WalInv, NEW touched \in SUBSET Key, wal' = Append(wal, touched)
  PROVE  /\ \A k \in Key : LastTouch(k)' = IF k \in touched THEN Len(wal) + 1 ELSE LastTouch(k)
         /\ \A k \in Key :
              \/ \A i \in DOMAIN wal' : k \notin wal'[i]
              \/ \E i \in DOMAIN wal' : k \in wal'[i] /\ \A j \in DOMAIN wal' : j > i => k \notin wal'[j]
         /\ \A i \in DOMAIN wal : wal'[i] = wal[i]
<1> DEFINE n == Len(wal)
<1>1. /\ n \in Nat /\ DOMAIN wal = 1 .. n /\ DOMAIN wal' = 1 .. n + 1 /\ wal'[n + 1] = touched
      /\ \A i \in 1 .. n : wal'[i] = wal[i]
  BY DEF LinkTypes
<1> HIDE DEF n
<1> PICK w : w = wal'
  OBVIOUS
<1> PICK m \in Nat : m = n + 1
  BY <1>1
<1>2. \A k : LastTouch(k) = TouchOf(wal, k) /\ LastTouch(k)' = TouchOf(wal', k)
  BY Zenon DEF LastTouch, TouchOf
<1>3. ASSUME NEW k \in Key, k \in touched
      PROVE  /\ LastTouch(k)' = n + 1
             /\ \E i \in DOMAIN wal' : k \in wal'[i] /\ \A j \in DOMAIN wal' : j > i => k \notin wal'[j]
  <2>1. /\ n + 1 \in Nat /\ n + 1 \in 1 .. n + 1 /\ k \in wal'[n + 1]
        /\ \A j \in 1 .. n + 1 : j > n + 1 => k \notin wal'[j]
    BY <1>1, <1>3
  <2>2. DOMAIN w = 1 .. m /\ m \in 1 .. m /\ k \in w[m] /\ \A j \in 1 .. m : j > m => k \notin w[j]
    BY <1>1, <2>1
  <2>3. TouchOf(w, k) = m
    BY <2>2, TouchIs, Zenon
  <2>4. QED
    BY <1>1, <1>2, <2>1, <2>3, Zenon
<1>4. ASSUME NEW k \in Key, k \notin touched, \A i \in DOMAIN wal : k \notin wal[i]
      PROVE  LastTouch(k)' = LastTouch(k) /\ \A i \in DOMAIN wal' : k \notin wal'[i]
  <2>1. ASSUME NEW i \in 1 .. n + 1
        PROVE  k \notin wal'[i]
    <3>1. i \in 1 .. n \/ i = n + 1
      BY <1>1
    <3>2. QED
      BY <1>1, <1>4, <3>1
  <2>2. QED
    BY <1>1, <1>2, <1>4, <2>1 DEF TouchOf
<1>5. ASSUME NEW k \in Key, k \notin touched,
             \E i \in DOMAIN wal : k \in wal[i] /\ \A j \in DOMAIN wal : j > i => k \notin wal[j]
      PROVE  /\ LastTouch(k)' = LastTouch(k)
             /\ \E i \in DOMAIN wal' : k \in wal'[i] /\ \A j \in DOMAIN wal' : j > i => k \notin wal'[j]
  <2>1. PICK i \in 1 .. n : k \in wal[i] /\ \A j \in 1 .. n : j > i => k \notin wal[j]
    BY <1>1, <1>5, Zenon
  <2>2. /\ i \in 1 .. n + 1 /\ k \in wal'[i] /\ n + 1 \in Nat
        /\ \A j \in 1 .. n + 1 : j > i => k \notin wal'[j]
    <3>1. ASSUME NEW j \in 1 .. n + 1, j > i
          PROVE  k \notin wal'[j]
      <4>1. j \in 1 .. n \/ j = n + 1
        BY <1>1
      <4>2. QED
        BY <1>1, <1>5, <2>1, <3>1, <4>1, Zenon
    <3>2. QED
      BY <1>1, <2>1, <3>1
  <2>3. DOMAIN w = 1 .. m /\ i \in 1 .. m /\ k \in w[i] /\ \A j \in 1 .. m : j > i => k \notin w[j]
    BY <1>1, <2>2, Zenon
  <2>4. TouchOf(w, k) = i
    BY <2>3, TouchIs, Zenon
  <2>5. TouchOf(wal, k) = i
    BY <1>1, <2>1, TouchIs, ZenonT(60)
  <2>6. QED
    BY <1>1, <1>2, <2>2, <2>4, <2>5, Zenon
<1>6. QED
  BY <1>1, <1>3, <1>4, <1>5, Zenon DEF WalInv, n

-----------------------------------------------------------------------------
(***************************************************************************)
(* What a step does to the rows that shapes owe.                           *)
(***************************************************************************)
\* Of the keys that no commit after this one touched, the shapes keep what they have.
Carried(lsn) ==
  \A k \in Key :
    /\ LastTouch(k)' \in Nat
    /\ LastTouch(k)' <= lsn =>
         /\ LastTouch(k)' = LastTouch(k) /\ db'[k] = db[k]
         /\ \A h \in Handle : UpToDate(h, k) => UpToDate(h, k)'

\* A step that registers and refreshes no shape, and commits nothing.
LEMMA KeptCarried ==
  ASSUME LinkTypes, WalInv, wal' = wal, db' = db, registered' = registered, NEW lsn,
         \A h \in Handle : byHandle'[h] = byHandle[h] \/ byHandle'[h].status # "active"
  PROVE  Carried(lsn)
<1>1. ASSUME NEW k \in Key
      PROVE  LastTouch(k)' = LastTouch(k) /\ LastTouch(k)' \in Nat
  BY TouchKept, TouchFacts
<1>2. ASSUME NEW k \in Key, NEW h \in Handle, UpToDate(h, k)
      PROVE  UpToDate(h, k)'
  BY <1>1, <1>2 DEF UpToDate, Owes, Active
<1>3. QED
  BY <1>1, <1>2 DEF Carried

\* A registration: the new shape owes nothing up to begun.
LEMMA RegisterCarried ==
  ASSUME LinkTypes, ClientTypes, WalInv, wal' = wal, db' = db, NEW g \in Handle, Registered(g),
         NEW new, byHandle' = [byHandle EXCEPT ![g] = new], byHandle \in [Handle -> ShapeState]
  PROVE  Carried(begun)
<1>1. ASSUME NEW k \in Key
      PROVE  LastTouch(k)' = LastTouch(k) /\ LastTouch(k)' \in Nat
  BY TouchKept, TouchFacts
<1>2. /\ registered'[g] \in {begun, MaxCommits} /\ begun \in Nat /\ MaxCommits \in Nat
      /\ \A h \in Handle : h # g => registered'[h] = registered[h] /\ byHandle'[h] = byHandle[h]
  BY LiveAssumption DEF Registered, LinkTypes, ClientTypes
<1>3. ASSUME NEW k \in Key, LastTouch(k)' <= begun, NEW h \in Handle, UpToDate(h, k)
      PROVE  UpToDate(h, k)'
  <2>1. CASE h = g
    <3>1. ~(LastTouch(k)' > registered'[g])
      BY <1>1, <1>2, <1>3, TouchFacts
    <3>2. QED
      BY <2>1, <3>1, Zenon DEF UpToDate, Owes
  <2>2. CASE h # g
    BY <1>1, <1>2, <1>3, <2>2, Zenon DEF UpToDate, Owes, Active
  <2>3. QED
    BY <2>1, <2>2
<1>4. QED
  BY <1>1, <1>3 DEF Carried

\* A commit: its keys are touched later than anything that was received.
LEMMA CommitCarried ==
  ASSUME LinkTypes, WalInv, NEW touched \in SUBSET Key, Commit(touched)
  PROVE  Carried(begun) /\ WalInv'
<1>1. /\ wal' = Append(wal, touched) /\ byHandle' = byHandle /\ registered' = registered
      /\ begun' = begun
      /\ \A k \in Key : k \notin touched => db'[k] = db[k]
  BY DEF Commit, vars, history
<1>2. /\ begun \in Nat /\ Len(wal) \in Nat /\ begun <= Len(wal) /\ Len(wal') = Len(wal) + 1
  BY <1>1 DEF LinkTypes, WalInv
<1>3. ASSUME NEW k \in Key, LastTouch(k)' <= begun
      PROVE  k \notin touched /\ LastTouch(k)' = LastTouch(k)
  BY <1>1, <1>2, <1>3, TouchCommit
<1>4. ASSUME NEW k \in Key, LastTouch(k)' <= begun, NEW h \in Handle, UpToDate(h, k)
      PROVE  UpToDate(h, k)'
  BY <1>1, <1>3, <1>4, Zenon DEF UpToDate, Owes, Active
<1>5. WalInv'
  BY <1>1, <1>2, TouchCommit, SMT, SMTT(30) DEF WalInv
<1>6. \A k \in Key : LastTouch(k)' \in Nat
  BY <1>1, <1>2, TouchCommit, TouchFacts
<1>7. QED
  BY <1>1, <1>3, <1>4, <1>5, <1>6, Zenon DEF Carried

\* A refresh gives the keys of the commit their rows, and leaves the others alone.
LEMMA RefreshCarried ==
  ASSUME LiveBase, WalInv, JobInv, NEW g \in Handle, job.pc = "refresh",
         RefreshKeysWithMetadata(g, CurrentKeys, job.rows, job.lsn),
         wal' = wal, db' = db, registered' = registered
  PROVE  /\ Carried(job.lsn)
         /\ \A h \in Handle : byHandle'[h].status = byHandle[h].status
         /\ faults' = faults =>
              \A k \in CurrentKeys : LastTouch(k) <= job.lsn => UpToDate(g, k)'
<1> DEFINE s    == byHandle[g]
           rows == [k \in Key |-> IF k \in CurrentKeys THEN job.rows[k] ELSE s.materialized[k]]
<1>0. byHandle \in [Handle -> ShapeState] /\ s \in ShapeState /\ faults \in Nat
  BY DEF LiveBase, LiveTypeOK, TypeOK
<1>1. PICK msgs, news : Replace(g, Extended(s, rows, msgs), news)
  BY Zenon DEF RefreshKeysWithMetadata
<1>2. Extended(s, rows, msgs).materialized = rows /\ Extended(s, rows, msgs).status = s.status
  BY <1>0 DEF Extended, ShapeState
<1> PICK t : t = Extended(s, rows, msgs)
  BY ZenonT(60)
<1>3. /\ byHandle' = byHandle \/ byHandle' = [byHandle EXCEPT ![g] = t]
      /\ faults' = faults => byHandle' = [byHandle EXCEPT ![g] = t]
  BY <1>0, <1>1 DEF Replace, SaveShapeFails
<1>4. \A k \in Key : LastTouch(k)' = LastTouch(k) /\ LastTouch(k) \in Nat
  BY TouchKept, TouchFacts, LiveBaseParts, Zenon
<1>5. CurrentKeys \in SUBSET Key
  BY CurrentKeysType
<1>6. ASSUME NEW k \in Key, LastTouch(k) <= job.lsn, byHandle' = [byHandle EXCEPT ![g] = t]
      PROVE  /\ k \in CurrentKeys => UpToDate(g, k)'
             /\ UpToDate(g, k) => UpToDate(g, k)'
  <2>1. byHandle'[g].materialized[k] = IF k \in CurrentKeys THEN db[k] ELSE s.materialized[k]
    BY <1>0, <1>2, <1>6, Zenon DEF JobInv
  <2>2. byHandle'[g].status = s.status
    BY <1>0, <1>2, <1>6, Zenon
  <2> HIDE DEF rows
  <2>3. QED
    BY <1>4, <2>1, <2>2, Zenon DEF UpToDate, Owes, Active
<1> HIDE DEF rows
<1>7. ASSUME NEW k \in Key, LastTouch(k) <= job.lsn, NEW h \in Handle, UpToDate(h, k)
      PROVE  UpToDate(h, k)'
  <2>1. CASE byHandle'[h] = byHandle[h]
    BY <1>4, <1>7, <2>1 DEF UpToDate, Owes, Active
  <2>2. CASE byHandle'[h] # byHandle[h]
    <3>1. h = g /\ byHandle' = [byHandle EXCEPT ![g] = t]
      BY <1>0, <1>3, <2>2, Zenon
    <3>2. QED
      BY <1>6, <1>7, <3>1
  <2>3. QED
    BY <2>1, <2>2, ZenonT(60)
<1>8. Carried(job.lsn)
  BY <1>4, <1>7 DEF Carried
<1>9. \A h \in Handle : byHandle'[h].status = byHandle[h].status
  BY <1>0, <1>2, <1>3
<1>10. QED
  BY <1>3, <1>5, <1>6, <1>8, <1>9, Zenon

-----------------------------------------------------------------------------
(***************************************************************************)
(* What follows for the positions and the job.                             *)
(***************************************************************************)
ReachedNext(position) ==
  \A h \in Handle, k \in Key : LastTouch(k)' < position => UpToDate(h, k)'

\* A position that was reached before the step is reached after it.
LEMMA ReachedCarried ==
  ASSUME NEW lsn \in Nat, Carried(lsn), NEW p \in Nat, Reached(p),
         NEW q \in Nat, q <= p, q <= lsn + 1
  PROVE  ReachedNext(q)
<1> SUFFICES ASSUME NEW h \in Handle, NEW k \in Key, LastTouch(k)' < q
             PROVE  UpToDate(h, k)'
  BY Zenon DEF ReachedNext
<1>1. LastTouch(k)' <= lsn
  BY DEF Carried
<1>2. LastTouch(k) < p
  BY <1>1 DEF Carried
<1>3. QED
  BY <1>1, <1>2, Zenon DEF Carried, Reached

\* The positions after a step.
LEMMA ReachedAll ==
  ASSUME ReachedNext(slot'), ReachedNext(checkpoint'), ReachedNext(stream'.start),
         ReachedNext(stream'.next)
  PROVE  Reached(slot)' /\ Reached(checkpoint)' /\ Reached(stream.start)' /\ Reached(stream.next)'
BY Zenon DEF Reached, ReachedNext

\* The job goes on while something else happens.
LEMMA JobKept ==
  ASSUME LiveInv, Carried(begun), job' = job, begun' = begun, stream'.next = stream.next,
         wal' = wal \/ \A i \in DOMAIN wal : wal'[i] = wal[i]
  PROVE  JobInv'
<1>1. begun \in Nat /\ job.lsn \in Nat
  BY DEF LiveInv, LiveBase, LiveTypeOK, JobState
<1>2. CASE job.pc = "idle"
  BY <1>2, Zenon DEF JobInv
<1>3. CASE job.pc # "idle"
  <2>1. job.lsn <= begun /\ CurrentKeys' = CurrentKeys
    BY <1>3, ZenonT(60) DEF LiveInv, LiveBase, JobInv, CurrentKeys, CurrentPart
  <2>2. ASSUME NEW h \in Handle, NEW k \in Key, HasCurrent(h, k)
        PROVE  HasCurrent(h, k)'
    BY <1>1, <2>1, <2>2, Zenon DEF HasCurrent, Carried
  <2>3. ASSUME NEW k \in Key, LastTouch(k)' <= job.lsn
        PROVE  LastTouch(k)' = LastTouch(k) /\ db'[k] = db[k]
    BY <1>1, <2>1, <2>3 DEF Carried
  <2>4. QED
    BY <1>3, <2>1, <2>2, <2>3, Zenon DEF LiveInv, JobInv
<1>4. QED
  BY <1>2, <1>3, Zenon

\* The positions are numbers.
LEMMA PositionTypes ==
  ASSUME LinkTypes
  PROVE  /\ slot \in Nat /\ checkpoint \in Nat /\ stream.next \in Nat /\ stream.start \in Nat
         /\ stream.confirmed \in Nat /\ begun \in Nat /\ job.lsn \in Nat
         /\ Len(wal) \in Nat /\ MaxCommits \in Nat /\ begun <= MaxCommits
BY LiveAssumption DEF LinkTypes, StreamState, JobState, Position

\* A step that leaves the connection and the job alone.
LEMMA LinkKept ==
  ASSUME LiveInv, LiveBase', WalInv', OwesNothing', Carried(begun),
         UNCHANGED <<slot, checkpoint, incompatible, stream, job, begun>>,
         wal' = wal \/ \A i \in DOMAIN wal : wal'[i] = wal[i]
  PROVE  LiveInv'
<1>1. LinkTypes
  BY LiveBaseParts, Zenon DEF LiveInv
<1>2. /\ ReachedNext(slot) /\ ReachedNext(checkpoint)
      /\ ReachedNext(stream.start) /\ ReachedNext(stream.next)
  BY <1>1, PositionTypes, ReachedCarried DEF LiveInv, PositionInv
<1>3. Reached(slot)' /\ Reached(checkpoint)' /\ Reached(stream.start)' /\ Reached(stream.next)'
  BY <1>2, ReachedAll, Zenon
<1>4. PositionInv'
  BY DEF LiveInv, PositionInv
<1>5. JobInv'
  BY JobKept
<1>6. QED
  BY <1>3, <1>4, <1>5, Zenon DEF LiveInv

\* While nothing is owed every position is reached.
LEMMA NothingReached ==
  ASSUME LinkTypes, WalInv, OwesNothing, checkpoint = 0 \/ stream.invalidated, NEW p
  PROVE  Reached(p)
<1>1. ASSUME NEW h \in Handle, NEW k \in Key
      PROVE  ~Owes(h, k)
  BY PositionTypes, TouchFacts DEF OwesNothing, Owes
<1>2. QED
  BY <1>1 DEF Reached, UpToDate

\* Nothing is owed still.
LEMMA OwesKept ==
  ASSUME OwesNothing, registered' = registered,
         \A h \in Handle : byHandle'[h] = byHandle[h] \/ byHandle'[h].status # "active",
         checkpoint' = 0 \/ stream'.invalidated => checkpoint = 0 \/ stream.invalidated
  PROVE  OwesNothing'
BY Zenon DEF OwesNothing, Active

\* The positions a step may leave: they were reached, or are before one that was.
From(q) == \E p \in Nat : q <= p /\ Reached(p)

\* A step that registers and refreshes no shape, and commits nothing.
LEMMA PositionsMoved ==
  ASSUME LiveInv, LiveBase', wal' = wal, db' = db, registered' = registered,
         \A h \in Handle : byHandle'[h] = byHandle[h] \/ byHandle'[h].status # "active",
         begun' <= Len(wal), PositionInv', OwesNothing', JobInv',
         From(slot'), From(checkpoint'), From(stream'.start), From(stream'.next)
  PROVE  LiveInv'
<1>1. LinkTypes /\ WalInv
  BY LiveBaseParts, Zenon DEF LiveInv
<1>2. WalInv'
  BY <1>1, Zenon DEF WalInv
<1>3. /\ slot' \in Nat /\ checkpoint' \in Nat /\ stream'.start \in Nat /\ stream'.next \in Nat
      /\ slot' <= MaxCommits + 1 /\ checkpoint' <= MaxCommits + 1
      /\ stream'.start <= MaxCommits + 1 /\ stream'.next <= MaxCommits + 1
  BY LiveAssumption DEF LiveBase, LiveTypeOK, StreamState, Position
<1>4. ASSUME NEW q \in Nat, q <= MaxCommits + 1, From(q)
      PROVE  ReachedNext(q)
  <2>1. PICK p \in Nat : q <= p /\ Reached(p)
    BY <1>4, Zenon DEF From
  <2>2. Carried(MaxCommits) /\ MaxCommits \in Nat
    BY <1>1, KeptCarried, LiveAssumption, Zenon
  <2>3. QED
    BY <1>4, <2>1, <2>2, ReachedCarried
<1>5. ReachedNext(slot') /\ ReachedNext(checkpoint') /\ ReachedNext(stream'.start) /\ ReachedNext(stream'.next)
  BY <1>3, <1>4
<1>6. QED
  BY <1>2, <1>5, ReachedAll, Zenon DEF LiveInv

-----------------------------------------------------------------------------
(***************************************************************************)
(* The steps, with the disk store.                                         *)
(***************************************************************************)
\* Every position there is was reached.
LEMMA PositionsFrom ==
  ASSUME LiveInv
  PROVE  /\ From(0) /\ From(slot) /\ From(checkpoint) /\ From(stream.start) /\ From(stream.next)
         /\ \A q \in Nat : checkpoint = 0 \/ stream.invalidated => From(q)
<1>1. LinkTypes /\ WalInv /\ OwesNothing
  BY LiveBaseParts DEF LiveInv
<1>2. From(slot) /\ From(checkpoint) /\ From(stream.start) /\ From(stream.next)
  BY <1>1, PositionTypes DEF LiveInv, From
<1>3. From(0)
  BY <1>1, PositionTypes DEF LiveInv, From
<1>4. ASSUME NEW q \in Nat, checkpoint = 0 \/ stream.invalidated
      PROVE  From(q)
  BY <1>1, <1>4, NothingReached DEF From
<1>5. QED
  BY <1>2, <1>3, <1>4, Zenon

\* The slot is lost, with its server or without.
LEMMA SlotLostLive ==
  ASSUME LiveInv, LiveBase', SlotLost \/ Failover
  PROVE  LiveInv'
<1>1. /\ UNCHANGED <<byHandle, db, wal, registered, begun, checkpoint, stream, job>>
      /\ slot' = 0 /\ ~stream.up
  BY Zenon DEF SlotLost, Failover, registry, external, stored, history
<1>2. job.pc = "idle"
  BY <1>1 DEF LiveInv, LiveBase
<1>3. LinkTypes
  BY LiveBaseParts, Zenon DEF LiveInv
<1>4. PositionInv'
  BY <1>1, <1>3, PositionTypes, Zenon DEF LiveInv, PositionInv
<1>5. OwesNothing'
  BY <1>1, OwesKept, Zenon DEF LiveInv
<1>6. JobInv'
  BY <1>1, <1>2, Zenon DEF JobInv
<1>7. QED
  BY <1>1, <1>4, <1>5, <1>6, PositionsFrom, PositionsMoved, Zenon DEF LiveInv, WalInv

\* All shapes are invalidated, or a part of them.
LEMMA InvalidateForSlotLive ==
  ASSUME LiveInv, LiveBase', InvalidateForSlot
  PROVE  LiveInv'
<1>1. /\ UNCHANGED <<db, wal, registered, begun, checkpoint, slot, incompatible, job>>
      /\ ~stream.up /\ stream.start = 0 /\ checkpoint # 0 /\ (incompatible \/ slot = 0)
      /\ stream' = [stream EXCEPT !.invalidated = (faults' = faults)]
  BY DEF InvalidateForSlot, external, stored, history, checkpointCompatible
<1>2. /\ stream'.up = stream.up /\ stream'.next = stream.next /\ stream'.start = stream.start
      /\ stream'.confirmed = stream.confirmed /\ (stream'.invalidated <=> faults' = faults)
  BY <1>1, Zenon DEF LiveInv, LiveBase, LiveTypeOK, StreamState
<1>3. job.pc = "idle"
  BY <1>1, Zenon DEF LiveInv, LiveBase
<1>4. /\ \A h \in Handle : byHandle'[h] = byHandle[h] \/ byHandle'[h].status # "active"
      /\ faults' = faults => \A h \in Handle : byHandle'[h].status # "active"
  <2>1. PICK H \in SUBSET {h \in Handle : Active(h)} :
          /\ H # {h \in Handle : Active(h)} => faults' = faults + 1
          /\ byHandle' = Buried(H)
    BY Zenon DEF InvalidateForSlot, InvalidateAll, SaveTombstonesFails
  <2>2. faults \in Nat /\ Tombstone.status # "active"
    BY LiveConstants, Zenon DEF LiveInv, LiveBase, LiveTypeOK, TypeOK
  <2>3. QED
    BY <2>1, <2>2 DEF Buried, Active
<1>5. PositionInv'
  BY <1>1, <1>2 DEF LiveInv, PositionInv
<1>6. OwesNothing'
  BY <1>1, <1>2, <1>4 DEF OwesNothing, Active
<1>7. JobInv'
  BY <1>1, <1>3, Zenon DEF JobInv
<1>8. QED
  BY <1>1, <1>2, <1>4, <1>5, <1>6, <1>7, PositionsFrom, PositionsMoved, ZenonT(60) DEF LiveInv, WalInv

\* A slot is created where the log ends: no shape owes anything by then.
LEMMA CreateSlotLive ==
  ASSUME Durable, LiveInv, LiveBase', CreateSlot
  PROVE  LiveInv'
<1>1. /\ UNCHANGED <<byHandle, db, wal, registered, checkpoint, incompatible, job>>
      /\ slot' = WalEnd /\ begun' = WalEnd - 1 /\ stream' = Streaming(WalEnd) /\ ~stream.up
      /\ checkpoint = 0 \/ stream.invalidated
  BY DEF CreateSlot, vars, external, stored
<1>2. LinkTypes /\ WalInv /\ OwesNothing
  BY LiveBaseParts, Zenon DEF LiveInv
<1>3. WalEnd \in Position /\ WalEnd \in Nat /\ begun' = Len(wal) /\ begun' \in Nat
  BY <1>1, <1>2, PositionTypes DEF WalEnd, Position, LinkTypes
<1>4. /\ stream'.up /\ ~stream'.invalidated /\ stream'.next = WalEnd /\ stream'.start = WalEnd
      /\ stream'.confirmed = WalEnd
  BY <1>1, <1>3, StreamingType, Zenon
<1>5. job.pc = "idle"
  BY <1>1, Zenon DEF LiveInv, LiveBase
<1>6. PositionInv'
  <2>1. checkpoint' <= WalEnd /\ WalEnd <= begun' + 1
    BY <1>1, <1>2, <1>3, PositionTypes DEF LiveInv, PositionInv, WalInv, WalEnd
  <2>2. QED
    BY <1>1, <1>3, <1>4, <2>1 DEF PositionInv
<1>7. OwesNothing'
  BY <1>1, <1>2, <1>4, OwesKept, Zenon
<1>8. JobInv'
  BY <1>1, <1>5, Zenon DEF JobInv
<1>9. From(WalEnd) /\ From(checkpoint)
  BY <1>1, <1>3, PositionsFrom
<1>10. QED
  BY <1>1, <1>2, <1>3, <1>4, <1>6, <1>7, <1>8, <1>9, PositionTypes, PositionsMoved

\* The stream resumes from a valid checkpoint, or where the log ends: then no shape
\* owes anything.
LEMMA ResumeSlotLive ==
  ASSUME Durable, LiveInv, LiveBase', ResumeSlot
  PROVE  LiveInv'
<1> DEFINE start == IF checkpointCompatible THEN checkpoint ELSE WalEnd
           next  == Later(start, slot)
<1>1. /\ UNCHANGED <<byHandle, db, wal, registered, slot, checkpoint, incompatible, job>>
      /\ stream' = [Streaming(start) EXCEPT !.next = next] /\ begun' = Later(begun, next - 1)
      /\ ~stream.up /\ slot # 0
      /\ checkpointCompatible \/ checkpoint = 0 \/ stream.invalidated
  BY Zenon DEF ResumeSlot, vars, external, stored, checkpointCompatible
<1>2. LinkTypes /\ WalInv /\ OwesNothing
  BY LiveBaseParts DEF LiveInv
<1>3. /\ WalEnd = Len(wal) + 1 /\ WalEnd \in Position /\ WalEnd \in Nat /\ start \in Position
      /\ start \in Nat
  BY <1>2, PositionTypes DEF WalEnd, Position, LinkTypes
<1>4. /\ slot \in Nat /\ checkpoint \in Nat /\ begun \in Nat /\ Len(wal) \in Nat
      /\ slot <= begun + 1 /\ checkpoint <= begun + 1 /\ begun <= Len(wal)
  BY <1>2, PositionTypes DEF LiveInv, PositionInv, WalInv
<1>5. From(next) /\ From(start)
  <2>1. CASE checkpointCompatible
    <3>1. start = checkpoint /\ (next = checkpoint \/ next = slot)
      BY <2>1 DEF Later
    <3>2. QED
      BY <3>1, PositionsFrom
  <2>2. CASE checkpoint = 0 \/ stream.invalidated
    <3>1. next \in Nat
      BY <1>3, <1>4 DEF Later
    <3>2. QED
      BY <1>3, <2>2, <3>1, PositionsFrom, Zenon
  <2>3. QED
    BY <1>1, <2>1, <2>2, Zenon
<1>6. checkpoint <= start /\ start <= Len(wal) + 1
  BY <1>3, <1>4
<1> HIDE DEF start
<1>7. /\ next \in Nat /\ next > 0 /\ start <= next /\ slot <= next /\ next <= Len(wal) + 1
      /\ begun' \in Nat /\ begun' <= Len(wal) /\ next <= begun' + 1 /\ begun <= begun'
  BY <1>1, <1>3, <1>4, <1>6 DEF Later
<1> HIDE DEF next
<1>8. /\ stream'.up /\ ~stream'.invalidated /\ stream'.next = next /\ stream'.start = start
      /\ stream'.confirmed = start
  BY <1>1, <1>3, StreamingType, ZenonT(60) DEF StreamState
<1>9. PositionInv'
  BY <1>1, <1>3, <1>4, <1>6, <1>7, <1>8 DEF PositionInv
<1>10. OwesNothing'
  BY <1>1, <1>2, <1>8, OwesKept, ZenonT(60)
<1>11. JobInv'
  BY <1>1 DEF JobInv, LiveInv, LiveBase
<1>12. From(slot) /\ From(checkpoint)
  BY PositionsFrom
<1>13. QED
  BY <1>1, <1>5, <1>7, <1>8, <1>9, <1>10, <1>11, <1>12, PositionsMoved, Zenon

\* The checkpoint of the start is saved, the loop may be applying a commit.
LEMMA SaveStartLive ==
  ASSUME LiveInv, LiveBase', SaveStart
  PROVE  LiveInv'
<1>1. /\ UNCHANGED <<byHandle, db, wal, registered, begun, slot, job>>
      /\ stream' = [stream EXCEPT !.start = 0] /\ stream.start # 0
      /\ checkpoint' = stream.start /\ incompatible' = FALSE
  BY DEF SaveStart, vars, external, history
<1>2. LinkTypes /\ WalInv /\ OwesNothing
  BY LiveBaseParts DEF LiveInv
<1>3. /\ stream'.up = stream.up /\ stream'.next = stream.next /\ stream'.start = 0
      /\ stream'.confirmed = stream.confirmed /\ stream'.invalidated = stream.invalidated
  BY <1>1, <1>2, Zenon DEF LinkTypes, StreamState
<1>4. PositionInv'
  BY <1>1, <1>2, <1>3, PositionTypes DEF LiveInv, PositionInv
<1>5. OwesNothing'
  BY <1>1, <1>2, <1>3, OwesKept, Zenon DEF LiveInv, PositionInv
<1>6. JobInv'
  <2>1. Carried(begun)
    BY <1>1, <1>2, KeptCarried, Zenon
  <2>2. QED
    BY <1>1, <1>3, <2>1, JobKept
<1>7. QED
  BY <1>1, <1>2, <1>3, <1>4, <1>5, <1>6, PositionsFrom, PositionsMoved, Zenon DEF WalInv

\* The loop ends, with what it was applying.
LEMMA DropPositions ==
  ASSUME LiveInv, Drop, UNCHANGED <<checkpoint, incompatible, begun>>
  PROVE  PositionInv' /\ JobInv' /\ ~stream'.invalidated
<1>1. LinkTypes
  BY LiveBaseParts DEF LiveInv
<1>2. JobInv'
  BY LiveStarts, Zenon DEF Drop, JobInv
<1>3. PositionInv'
  BY <1>1, DropType, PositionTypes DEF LiveInv, PositionInv
<1>4. QED
  BY <1>1, <1>2, <1>3, DropType, Zenon

\* The connection fails.
LEMMA ReplicationErrorLive ==
  ASSUME LiveInv, LiveBase', handleReplicationError
  PROVE  LiveInv'
<1>1. UNCHANGED <<byHandle, db, wal, registered, begun, checkpoint, incompatible>> /\ Drop
  BY DEF handleReplicationError, registry, external, stored, history
<1>2. LinkTypes /\ WalInv /\ OwesNothing
  BY LiveBaseParts DEF LiveInv
<1>3. PositionInv' /\ JobInv' /\ OwesNothing'
  BY <1>1, <1>2, DropPositions, OwesKept, Zenon
<1>4. QED
  BY <1>1, <1>2, <1>3, DropType, PositionsFrom, PositionsMoved, Zenon DEF WalInv

\* The process starts again, with the shapes of the store.
LEMMA RestartLive ==
  ASSUME Durable, LiveInv, LiveBase', Restart
  PROVE  LiveInv'
<1>1. /\ UNCHANGED <<db, wal, registered, begun, slot, checkpoint, incompatible>>
      /\ job' = NoJob /\ stream' = Down
      /\ byHandle' = [h \in Handle |-> Loaded(h)]
  BY Zenon DEF Restart, loadPersisted, external, history
<1>2. LinkTypes /\ WalInv /\ OwesNothing
  BY LiveBaseParts DEF LiveInv
<1>3. \A h \in Handle : byHandle'[h] = byHandle[h] \/ byHandle'[h].status # "active"
  BY <1>1, LiveConstants, Zenon DEF Loaded, LiveInv, LiveBase, ManagerInv, StoreAgrees
<1>4. stream'.next = 0 /\ stream'.start = 0 /\ stream'.confirmed = 0 /\ ~stream'.up /\ ~stream'.invalidated
  BY <1>1, Zenon DEF Down
<1>5. PositionInv'
  BY <1>1, <1>2, <1>4, PositionTypes DEF LiveInv, PositionInv
<1>6. JobInv'
  BY <1>1, LiveStarts, Zenon DEF JobInv
<1>7. OwesNothing'
  BY <1>1, <1>2, <1>3, <1>4, OwesKept, Zenon
<1>8. QED
  BY <1>1, <1>2, <1>3, <1>4, <1>5, <1>6, <1>7, PositionsFrom, PositionsMoved, Zenon DEF WalInv

\* The loop confirms what it has applied.
LEMMA ConfirmLive ==
  ASSUME LiveInv, LiveBase', StandbyStatus \/ ApplyKeepalive
  PROVE  LiveInv'
<1>1. LinkTypes /\ WalInv /\ OwesNothing
  BY LiveBaseParts DEF LiveInv
<1>2. /\ UNCHANGED <<byHandle, db, wal, registered, begun, checkpoint, incompatible, job>>
      /\ stream.up
      /\ slot' = Later(slot, stream.next) \/ slot' = Later(slot, stream.confirmed)
      /\ \/ stream' = stream
         \/ stream' = [stream EXCEPT !.confirmed = Later(stream.confirmed, stream.next)]
  BY Zenon DEF StandbyStatus, ApplyKeepalive, vars, external, stored, history
<1>3. /\ stream'.up = stream.up /\ stream'.next = stream.next /\ stream'.start = stream.start
      /\ stream'.invalidated = stream.invalidated
      /\ \/ stream'.confirmed = stream.confirmed
         \/ stream'.confirmed = Later(stream.confirmed, stream.next)
  BY <1>1, <1>2, Zenon DEF LinkTypes, StreamState
<1>4. slot <= stream.next /\ stream.confirmed <= stream.next /\ stream.next <= begun + 1
  BY <1>2 DEF LiveInv, PositionInv
<1>5. slot' \in Nat /\ slot' <= stream.next /\ stream'.confirmed <= stream.next
  BY <1>1, <1>2, <1>3, <1>4, PositionTypes DEF Later
<1>6. stream'.confirmed <= begun + 1 /\ slot' <= begun + 1
  BY <1>1, <1>2, <1>3, <1>4, PositionTypes DEF Later
<1>7. PositionInv'
  BY <1>2, <1>3, <1>5, <1>6, Zenon DEF LiveInv, PositionInv
<1>8. OwesNothing'
  BY <1>1, <1>2, <1>3, OwesKept
<1>9. JobInv'
  <2>1. Carried(begun)
    BY <1>1, <1>2, KeptCarried, Zenon
  <2>2. QED
    BY <1>2, <1>3, <2>1, JobKept
<1>10. From(slot')
  BY <1>1, <1>5, PositionTypes, Zenon DEF From, LiveInv
<1>11. QED
  BY <1>1, <1>2, <1>3, <1>7, <1>8, <1>9, <1>10, PositionsFrom, PositionsMoved, ZenonT(60) DEF WalInv

\* A key whose last touch is this commit is one of its keys.
LEMMA TouchedKeys ==
  ASSUME LinkTypes, WalInv, NEW k \in Key, NEW lsn \in Nat \ {0}, LastTouch(k) = lsn
  PROVE  k \in wal[lsn]
BY TouchFacts, Zenon

\* Without a change of the shapes and the database, what a job has done stays done.
LEMMA CurrentKept ==
  ASSUME UNCHANGED <<byHandle, registered, db, wal>>, job'.lsn = job.lsn,
         NEW h, NEW k
  PROVE  HasCurrent(h, k)' = HasCurrent(h, k)
BY Zenon DEF HasCurrent, UpToDate, Owes, Active, LastTouch

\* A commit is received: the job has all its keys to do.
LEMMA ReceiveCommitLive ==
  ASSUME LiveInv, LiveBase', ReceiveCommit
  PROVE  LiveInv'
<1>1. LinkTypes /\ WalInv /\ OwesNothing
  BY LiveBaseParts DEF LiveInv
<1>2. /\ UNCHANGED <<byHandle, db, wal, registered, slot, checkpoint, incompatible, stream>>
      /\ stream.up /\ stream.next <= Len(wal) /\ begun' = Later(begun, stream.next)
  BY DEF ReceiveCommit, vars, external, stored
<1>3. job'.pc = "relations" /\ job'.lsn = stream.next /\ job'.parts = Recorded(stream.next)
  BY ZenonT(60) DEF ReceiveCommit, NoJob
<1>4. /\ stream.next \in Nat \ {0} /\ begun' \in Nat /\ begun <= begun' /\ stream.next <= begun'
      /\ begun' <= Len(wal)
  BY <1>1, <1>2, PositionTypes, SMT, SMTT(30) DEF Later, LinkTypes, WalInv
<1>5. PositionInv'
  BY <1>1, <1>2, <1>4, PositionTypes, SMT, SMTT(30) DEF LiveInv, PositionInv
<1>6. OwesNothing'
  BY <1>1, <1>2, OwesKept
<1>7. ASSUME NEW h \in Handle, NEW k \in Key, PartitionOf[k] \notin job'.parts
      PROVE  HasCurrent(h, k)'
  <2>1. LastTouch(k)' = LastTouch(k)
    BY <1>2, TouchKept, Zenon
  <2>2. LastTouch(k) # stream.next
    BY <1>1, <1>3, <1>4, <1>7, TouchedKeys, Zenon DEF Recorded
  <2>3. QED
    BY <1>3, <2>1, <2>2, Zenon DEF HasCurrent
<1>8. JobInv'
  BY <1>2, <1>3, <1>4, <1>7, Zenon DEF JobInv
<1>9. QED
  BY <1>2, <1>4, <1>5, <1>6, <1>8, PositionsFrom, PositionsMoved, Zenon

\* A step of the job that changes the job only.
LEMMA JobStep ==
  ASSUME LiveInv, LiveBase', JobInv',
         UNCHANGED <<byHandle, db, wal, registered, begun, slot, checkpoint, incompatible, stream>>
  PROVE  LiveInv'
<1>1. LinkTypes /\ WalInv /\ OwesNothing
  BY LiveBaseParts, Zenon DEF LiveInv
<1>2. PositionInv'
  BY Zenon DEF LiveInv, PositionInv
<1>3. OwesNothing'
  BY <1>1, OwesKept, Zenon
<1>4. QED
  BY <1>1, <1>2, <1>3, PositionsFrom, PositionsMoved, Zenon DEF WalInv

\* The shapes of the table are all the active ones.
LEMMA candidateShapesLive ==
  ASSUME LiveInv, LiveBase', candidateShapes
  PROVE  LiveInv'
<1>1. LinkTypes
  BY LiveBaseParts DEF LiveInv
<1>2. UNCHANGED <<byHandle, db, wal, registered, begun, slot, checkpoint, incompatible, stream>>
  BY DEF candidateShapes, vars, external, stored, history
<1>3. /\ job.pc = "relations" /\ job'.pc = "shapes" /\ job'.lsn = job.lsn /\ job'.parts = job.parts
      /\ job'.todo = ActiveByRelation(Table)
  BY <1>1, ZenonT(60) DEF candidateShapes, LinkTypes, JobState
<1>4. ASSUME NEW h \in Handle, h \notin job'.todo
      PROVE  ~Active(h)
  BY <1>3, <1>4, LiveAssumption, ZenonT(60)
     DEF ActiveByRelation, LiveInv, LiveBase, ManagerInv, IndexesConsistent, Handle
<1>5. ASSUME NEW h \in Handle, h \notin job'.todo, NEW k \in Key
      PROVE  HasCurrent(h, k)'
  <2>1. ~Active(h)
    BY <1>4, <1>5, Zenon
  <2>2. QED
    BY <1>2, <2>1 DEF HasCurrent, UpToDate, Owes, Active
<1>6. JobInv'
  BY <1>2, <1>3, <1>5, CurrentKept, Zenon DEF LiveInv, JobInv
<1>7. QED
  BY <1>2, <1>6, JobStep, Zenon

\* The rows are looked up.
LEMMA snapshotChangedKeysLive ==
  ASSUME LiveInv, LiveBase', snapshotChangedKeys
  PROVE  LiveInv'
<1>1. LinkTypes
  BY LiveBaseParts DEF LiveInv
<1>2. UNCHANGED <<byHandle, db, wal, registered, begun, slot, checkpoint, incompatible, stream>>
  BY DEF snapshotChangedKeys, vars, external, stored, history
<1>3. /\ job.pc = "shapes" /\ job'.pc = "refresh" /\ job'.lsn = job.lsn /\ job'.parts = job.parts
      /\ job'.todo = job.todo /\ job'.rows = db
  BY <1>1, Zenon DEF snapshotChangedKeys, LinkTypes, JobState
<1>4. CurrentKeys' = CurrentKeys
  BY <1>2, <1>3, ZenonT(60) DEF CurrentKeys, CurrentPart
<1>5. JobInv'
  BY <1>2, <1>3, <1>4, CurrentKept, ZenonT(60) DEF LiveInv, JobInv
<1>6. QED
  BY <1>2, <1>5, JobStep

\* A shape is refreshed, or passed over, or its write fails.
LEMMA RefreshShapeLive ==
  ASSUME LiveInv, LiveBase', NEW g \in Handle, RefreshShape(g)
  PROVE  LiveInv'
<1>1. LinkTypes /\ WalInv /\ OwesNothing /\ LiveBase /\ JobInv
  BY LiveBaseParts DEF LiveInv
<1>2. UNCHANGED <<db, wal, registered, begun, checkpoint, incompatible>> /\ job.pc = "refresh"
  BY Zenon DEF RefreshShape, external, stored, history
<1>3. CASE ~Active(g) /\ UNCHANGED <<vars, slot, stream>>
           /\ job' = [job EXCEPT !.pc = "shapes", !.todo = @ \ {g}]
  <2>1. /\ job'.pc = "shapes" /\ job'.lsn = job.lsn /\ job'.parts = job.parts
        /\ job'.todo = job.todo \ {g}
    BY <1>1, <1>3, Zenon DEF LinkTypes, JobState
  <2>2. UNCHANGED <<byHandle, slot, stream>>
    BY <1>3, ZenonT(60) DEF vars
  <2>3. CurrentKeys' = CurrentKeys
    BY <1>2, <2>1 DEF CurrentKeys, CurrentPart
  <2>4. ASSUME NEW k \in Key
        PROVE  HasCurrent(g, k)
    BY <1>3, Zenon DEF HasCurrent, UpToDate, Owes
  <2>5. JobInv'
    BY <1>1, <1>2, <2>1, <2>2, <2>3, <2>4, CurrentKept, ZenonT(60) DEF JobInv
  <2>6. QED
    BY <1>2, <2>2, <2>5, JobStep
<1>4. CASE RefreshKeysWithMetadata(g, CurrentKeys, job.rows, job.lsn)
  <2>1. /\ Carried(job.lsn)
        /\ \A h \in Handle : byHandle'[h].status = byHandle[h].status
        /\ faults' = faults =>
             \A k \in CurrentKeys : LastTouch(k) <= job.lsn => UpToDate(g, k)'
    BY <1>1, <1>2, <1>4, RefreshCarried, ZenonT(60)
  <2>2. /\ job.lsn \in Nat /\ job.lsn = stream.next /\ job.lsn <= begun /\ stream.up
        /\ slot <= job.lsn /\ checkpoint <= job.lsn /\ stream.start <= job.lsn
    BY <1>1, <1>2, PositionTypes, ZenonT(60) DEF LiveInv, JobInv, LiveBase, PositionInv
  <2>3. WalInv'
    BY <1>1, <1>2, Zenon DEF WalInv
  <2>4. ASSUME ~stream'.invalidated
        PROVE  OwesNothing'
    BY <1>1, <1>2, <2>1, <2>4, Zenon DEF OwesNothing, Active
  <2>5. /\ ReachedNext(0) /\ ReachedNext(slot) /\ ReachedNext(checkpoint)
        /\ ReachedNext(stream.start) /\ ReachedNext(stream.next)
    <3>1. Reached(slot) /\ Reached(checkpoint) /\ Reached(stream.start) /\ Reached(stream.next)
      BY Zenon DEF LiveInv
    <3>2. /\ slot \in Nat /\ checkpoint \in Nat /\ stream.start \in Nat /\ stream.next \in Nat
          /\ 0 <= slot /\ 0 <= job.lsn + 1 /\ slot <= slot /\ slot <= job.lsn + 1
          /\ checkpoint <= checkpoint /\ checkpoint <= job.lsn + 1
          /\ stream.start <= stream.start /\ stream.start <= job.lsn + 1
          /\ stream.next <= stream.next /\ stream.next <= job.lsn + 1
      BY <1>1, <2>2, PositionTypes
    <3>3. 0 \in Nat
      OBVIOUS
    <3>4. QED
      BY <2>1, <2>2, <3>1, <3>2, <3>3, ReachedCarried, Zenon
  <2>6. CASE Drop
    <3>1. PositionInv' /\ JobInv' /\ ~stream'.invalidated
      BY <1>2, <2>6, DropPositions, Zenon
    <3>2. Reached(slot)' /\ Reached(checkpoint)' /\ Reached(stream.start)' /\ Reached(stream.next)'
      <4>1. ReachedNext(slot') /\ ReachedNext(stream'.start) /\ ReachedNext(stream'.next)
        BY <1>1, <2>5, <2>6, DropType, Zenon
      <4>2. QED
        BY <1>2, <2>5, <4>1, ReachedAll, Zenon
    <3>3. QED
      BY <2>3, <2>4, <3>1, <3>2, Zenon DEF LiveInv
  <2>7. CASE /\ faults' = faults /\ UNCHANGED <<slot, stream>>
             /\ job' = [job EXCEPT !.pc = "shapes", !.todo = @ \ {g}]
    <3>1. /\ job'.pc = "shapes" /\ job'.lsn = job.lsn /\ job'.parts = job.parts
          /\ job'.todo = job.todo \ {g}
      BY <1>1, <2>7, ZenonT(60) DEF LinkTypes, JobState
    <3>2. CurrentKeys' = CurrentKeys /\ CurrentKeys \in SUBSET Key
      BY <1>1, <1>2, <3>1, CurrentKeysType, ZenonT(60) DEF CurrentKeys, CurrentPart
    <3>3. ASSUME NEW h \in Handle, NEW k \in Key, HasCurrent(h, k)
          PROVE  HasCurrent(h, k)'
      BY <2>1, <2>2, <3>1, <3>3 DEF HasCurrent, Carried
    <3>4. ASSUME NEW k \in CurrentKeys
          PROVE  HasCurrent(g, k)'
      BY <1>2, <2>1, <2>2, <2>7, <3>1, <3>2, TouchKept DEF HasCurrent
    <3>5. JobInv'
      BY <1>1, <1>2, <2>2, <2>7, <3>1, <3>2, <3>3, <3>4, ZenonT(60) DEF JobInv
    <3>6. PositionInv'
      BY <1>2, <2>7, Zenon DEF LiveInv, PositionInv
    <3>7. OwesNothing'
      BY <2>2, <2>4, <2>7, Zenon DEF LiveInv, PositionInv
    <3>8. Reached(slot)' /\ Reached(checkpoint)' /\ Reached(stream.start)' /\ Reached(stream.next)'
      BY <1>2, <2>5, <2>7, ReachedAll, Zenon
    <3>9. QED
      BY <2>3, <3>5, <3>6, <3>7, <3>8, Zenon DEF LiveInv
  <2>8. QED
    BY <1>3, <1>4, <2>6, <2>7 DEF RefreshShape
<1>5. QED
  BY <1>3, <1>4, Zenon DEF RefreshShape

\* A partition is done when all shapes have its keys.
LEMMA RelationDoneLive ==
  ASSUME LiveInv, LiveBase', RelationDone
  PROVE  LiveInv'
<1>1. LinkTypes /\ WalInv /\ JobInv
  BY LiveBaseParts DEF LiveInv
<1>2. UNCHANGED <<byHandle, db, wal, registered, begun, slot, checkpoint, incompatible, stream>>
  BY DEF RelationDone, vars, external, stored, history
<1>3. /\ job.pc = "shapes" /\ job.todo = {} /\ job'.pc = "relations" /\ job'.lsn = job.lsn
      /\ job'.parts = job.parts \ {CurrentPart}
  BY <1>1, ZenonT(60) DEF RelationDone, LinkTypes, JobState
<1>4. job.lsn \in Nat \ {0}
  BY <1>1, <1>3 DEF LinkTypes
<1>5. ASSUME NEW h \in Handle, NEW k \in Key, PartitionOf[k] = CurrentPart
      PROVE  HasCurrent(h, k)
  <2>1. CASE LastTouch(k) = job.lsn
    <3>1. k \in CurrentKeys
      BY <1>1, <1>4, <1>5, <2>1, TouchedKeys DEF CurrentKeys
    <3>2. QED
      BY <1>1, <1>3, <3>1, ZenonT(60) DEF JobInv
  <2>2. CASE LastTouch(k) # job.lsn
    BY <2>2, Zenon DEF HasCurrent
  <2>3. QED
    BY <2>1, <2>2, Zenon
<1>6. JobInv'
  BY <1>1, <1>2, <1>3, <1>5, CurrentKept, Zenon DEF JobInv
<1>7. QED
  BY <1>2, <1>6, JobStep

\* The checkpoint is the commit that was applied.
LEMMA SaveCheckpointLive ==
  ASSUME LiveInv, LiveBase', SaveCheckpoint
  PROVE  LiveInv'
<1>1. LinkTypes /\ WalInv /\ OwesNothing /\ JobInv
  BY LiveBaseParts DEF LiveInv
<1>2. /\ UNCHANGED <<byHandle, db, wal, registered, begun, slot, stream>>
      /\ checkpoint' = job.lsn /\ incompatible' = FALSE
  BY DEF SaveCheckpoint, vars, external, history
<1>3. /\ job.pc = "relations" /\ job.parts = {} /\ job'.pc = "confirm" /\ job'.lsn = job.lsn
      /\ job'.parts = job.parts
  BY <1>1, ZenonT(60) DEF SaveCheckpoint, LinkTypes, JobState
<1>4. job.lsn = stream.next /\ job.lsn # 0 /\ stream.up
  BY <1>1, <1>3 DEF LinkTypes, JobInv
<1>5. PositionInv'
  BY <1>1, <1>2, <1>4, PositionTypes DEF LiveInv, PositionInv
<1>6. OwesNothing'
  BY <1>2, <1>4, Zenon DEF LiveInv, PositionInv, OwesNothing
<1>7. JobInv'
  BY <1>1, <1>2, <1>3, CurrentKept, Zenon DEF JobInv
<1>8. QED
  BY <1>1, <1>2, <1>4, <1>5, <1>6, <1>7, PositionsFrom, PositionsMoved, ZenonT(60) DEF WalInv

\* The commit is confirmed, and the loop goes on after it.
LEMMA ConfirmCommitLive ==
  ASSUME LiveInv, LiveBase', ConfirmCommit
  PROVE  LiveInv'
<1>1. LinkTypes /\ WalInv /\ OwesNothing /\ JobInv
  BY LiveBaseParts DEF LiveInv
<1>2. /\ UNCHANGED <<byHandle, db, wal, registered, begun, checkpoint, incompatible>>
      /\ job.pc = "confirm" /\ job' = NoJob /\ slot' = Later(slot, job.lsn)
      /\ stream' = [stream EXCEPT !.confirmed = Later(stream.confirmed, job.lsn), !.next = job.lsn + 1]
  BY Zenon DEF ConfirmCommit, vars, external, stored, history
<1>3. /\ stream'.up = stream.up /\ stream'.next = job.lsn + 1 /\ stream'.start = stream.start
      /\ stream'.invalidated = stream.invalidated
      /\ stream'.confirmed = Later(stream.confirmed, job.lsn)
  BY <1>1, <1>2, Zenon DEF LinkTypes, StreamState
<1>4. /\ job.lsn \in Nat /\ job.lsn = stream.next /\ job.lsn <= begun /\ stream.up
      /\ slot <= job.lsn /\ checkpoint <= job.lsn /\ stream.start <= job.lsn
      /\ stream.confirmed <= job.lsn
  BY <1>1, <1>2, PositionTypes, ZenonT(60) DEF LiveInv, LinkTypes, JobInv, PositionInv
<1>5. slot' = job.lsn /\ stream'.confirmed = job.lsn
  BY <1>1, <1>2, <1>3, <1>4, PositionTypes DEF Later
<1>6. PositionInv'
  BY <1>1, <1>2, <1>3, <1>4, <1>5, PositionTypes DEF LiveInv, PositionInv
<1>7. OwesNothing'
  BY <1>1, <1>2, <1>3, OwesKept
<1>8. JobInv'
  BY <1>2, LiveStarts DEF JobInv
<1>9. Reached(job.lsn + 1)
  <2>1. ASSUME NEW h \in Handle, NEW k \in Key, LastTouch(k) < job.lsn + 1
        PROVE  UpToDate(h, k)
    <3>1. LastTouch(k) < stream.next \/ LastTouch(k) = job.lsn
      BY <1>1, <1>4, <2>1, TouchFacts
    <3>2. HasCurrent(h, k)
      BY <1>1, <1>2, Zenon DEF JobInv
    <3>3. QED
      BY <3>1, <3>2, ZenonT(60) DEF HasCurrent, LiveInv, Reached
  <2>2. QED
    BY <2>1, Zenon DEF Reached
<1>10. From(job.lsn + 1)
  BY <1>4, <1>9 DEF From
<1>11. QED
  BY <1>1, <1>2, <1>3, <1>4, <1>5, <1>6, <1>7, <1>8, <1>10, PositionsFrom, PositionsMoved, ZenonT(60) DEF WalInv

\* A transaction commits.
LEMMA CommitLive ==
  ASSUME LiveInv, LiveBase', NEW touched \in SUBSET Key, Commit(touched)
  PROVE  LiveInv'
<1>1. LinkTypes /\ WalInv /\ OwesNothing
  BY LiveBaseParts, Zenon DEF LiveInv
<1>2. /\ UNCHANGED <<byHandle, registered, begun, slot, checkpoint, incompatible, stream, job>>
      /\ wal' = Append(wal, touched)
  BY DEF Commit, vars, stored, history
<1>3. Carried(begun) /\ WalInv'
  BY <1>1, CommitCarried, Zenon
<1>4. \A i \in DOMAIN wal : wal'[i] = wal[i]
  BY <1>1, <1>2, TouchCommit, Zenon
<1>5. OwesNothing'
  BY <1>1, <1>2, OwesKept, Zenon
<1>6. QED
  BY <1>2, <1>3, <1>4, <1>5, LinkKept, Zenon

\* A step of a client, of the shapes it reads or deletes.
LEMMA ShapesLive ==
  ASSUME LiveInv, LiveBase',
         UNCHANGED <<db, wal, registered, begun, slot, checkpoint, incompatible, stream, job>>,
         \A h \in Handle : byHandle'[h] = byHandle[h] \/ byHandle'[h].status # "active"
  PROVE  LiveInv'
<1>1. LinkTypes /\ WalInv /\ OwesNothing
  BY LiveBaseParts, Zenon DEF LiveInv
<1>2. Carried(begun) /\ WalInv'
  BY <1>1, KeptCarried, Zenon DEF WalInv
<1>3. OwesNothing'
  BY <1>1, OwesKept, Zenon
<1>4. QED
  BY <1>2, <1>3, LinkKept, Zenon

\* A shape is registered: replication follows it from now on, or it is invalidated
\* before replication starts and owes nothing.
LEMMA RegisterLive ==
  ASSUME Durable, LiveInv, LiveBase', NEW x \in Hash, NEW rows,
         UpsertSnapshotAtOffset(x, rows, InitialOffset), faults' = faults, Registered(byHash'[x]),
         UNCHANGED <<db, wal, begun, slot, checkpoint, incompatible, stream, job>>
  PROVE  LiveInv'
<1>1. LinkTypes /\ WalInv /\ OwesNothing /\ ClientTypes /\ ManagerInv
  BY LiveBaseParts, Zenon DEF LiveInv
<1>2. PICK g \in Handle : g = byHash'[x] /\ Registered(g)
  BY <1>1, UpsertSaved, Zenon
<1> PICK new : new = FreshState(rows, InitialOffset)
  BY Zenon
<1>3. byHandle \in [Handle -> ShapeState] /\ byHandle' = [byHandle EXCEPT ![g] = new]
  BY <1>1, <1>2, UpsertSaved DEF ManagerInv, TypeOK
<1>4. Carried(begun) /\ WalInv'
  BY <1>1, <1>2, <1>3, RegisterCarried, ZenonT(60) DEF WalInv
<1>5. OwesNothing'
  <2>1. ASSUME checkpoint = 0 \/ stream.invalidated, NEW h \in Handle, byHandle'[h].status = "active"
        PROVE  registered'[h] = MaxCommits
    <3>1. ~Established
      BY <2>1, Zenon DEF Established, checkpointCompatible, LiveInv, PositionInv
    <3>2. registered' = [registered EXCEPT ![g] = MaxCommits]
      BY <1>2, <3>1, Zenon DEF Registered
    <3>3. CASE h = g
      BY <1>1, <3>2, <3>3 DEF ClientTypes
    <3>4. CASE h # g
      <4>1. registered'[h] = registered[h] /\ byHandle'[h] = byHandle[h]
        BY <1>1, <1>2, <1>3, <3>2, <3>4, Zenon DEF ClientTypes
      <4>2. QED
        BY <1>1, <2>1, <4>1, Zenon DEF OwesNothing, Active
    <3>5. QED
      BY <3>3, <3>4, Zenon
  <2>2. QED
    BY <2>1 DEF OwesNothing, Active
<1>6. QED
  BY <1>4, <1>5, LinkKept, Zenon

\* A registration whose write failed changes no shape.
LEMMA UpsertFailed ==
  ASSUME NEW x, NEW rows, UpsertSnapshotAtOffset(x, rows, InitialOffset), faults' # faults
  PROVE  byHandle' = byHandle
BY Zenon DEF UpsertSnapshotAtOffset, CreateShape, ResetShape, SaveShape, registry

\* The steps of a client.
LEMMA ClientLive ==
  ASSUME Durable, LiveInv, LiveBase', NEW c \in Client,
         \/ Snapshot(c) \/ (\E x \in Hash : serveInitialSnapshot(c, x)) \/ serveContinuation(c)
         \/ OffsetOutOfRange(c) \/ mustRefetch(c)
  PROVE  LiveInv'
<1>1. UNCHANGED <<db, wal, slot, checkpoint, incompatible, stream, job, begun>>
  BY ZenonT(60) DEF Snapshot, serveInitialSnapshot, serveContinuation, OffsetOutOfRange, mustRefetch,
     external, stored, history
<1>2. CASE Snapshot(c) \/ serveContinuation(c) \/ OffsetOutOfRange(c)
  <2>1. UNCHANGED <<byHandle, registered>>
    BY <1>2, Zenon DEF Snapshot, serveContinuation, OffsetOutOfRange, vars, history
  <2>2. QED
    BY <1>1, <2>1, ShapesLive, Zenon
<1>3. ASSUME NEW x \in Hash, NEW rows, UpsertSnapshotAtOffset(x, rows, InitialOffset),
             \/ faults' = faults /\ Registered(byHash'[x])
             \/ faults' # faults /\ registered' = registered
      PROVE  LiveInv'
  <2>1. CASE faults' = faults
    BY <1>1, <1>3, <2>1, RegisterLive, Zenon
  <2>2. CASE faults' # faults
    <3>1. byHandle' = byHandle
      BY <1>3, <2>2, UpsertFailed, Zenon
    <3>2. QED
      BY <1>1, <1>3, <2>2, <3>1, ShapesLive, Zenon
  <2>3. QED
    BY <2>1, <2>2
<1>4. ASSUME NEW x \in Hash, serveInitialSnapshot(c, x)
      PROVE  LiveInv'
  BY <1>3, <1>4, ZenonT(60) DEF serveInitialSnapshot
<1>5. CASE mustRefetch(c)
  <2>1. client[c].handle.hash \in Hash
    BY <1>5, Zenon DEF mustRefetch, LiveInv, LiveBase, Handle
  <2>2. QED
    BY <1>3, <1>5, <2>1, ZenonT(60) DEF mustRefetch
<1>6. QED
  BY <1>2, <1>4, <1>5

\* A shape is deleted.
LEMMA deleteShapeLive ==
  ASSUME LiveInv, LiveBase', NEW g \in Handle, deleteShape(g)
  PROVE  LiveInv'
<1>1. UNCHANGED <<db, wal, registered, begun, slot, checkpoint, incompatible, stream, job>>
  BY DEF deleteShape, external, stored, history
<1>2. byHandle' = byHandle \/ byHandle' = [byHandle EXCEPT ![g] = Tombstone]
  BY Zenon DEF deleteShape, Delete, registry
<1>3. \A h \in Handle : byHandle'[h] = byHandle[h] \/ byHandle'[h].status # "active"
  BY <1>2, LiveConstants, ZenonT(60) DEF LiveInv, LiveBase, ManagerInv, TypeOK
<1>4. QED
  BY <1>1, <1>3, ShapesLive, Zenon

-----------------------------------------------------------------------------
\* Every step keeps the invariant.
LEMMA LiveNext_Inv ==
  ASSUME Durable, LiveInv, LiveBase', [LiveNext]_liveVars
  PROVE  LiveInv'
<1>1. CASE UNCHANGED liveVars
  BY <1>1, ShapesLive, Zenon DEF liveVars, vars
<1>2. CASE Replication
  BY <1>2, InvalidateForSlotLive, CreateSlotLive, ResumeSlotLive, SaveStartLive, ReceiveCommitLive,
     candidateShapesLive, snapshotChangedKeysLive, RefreshShapeLive, RelationDoneLive,
     SaveCheckpointLive, ConfirmCommitLive, Zenon DEF Replication
<1>3. CASE LiveNext /\ ~Replication
  BY <1>3, CommitLive, SlotLostLive, ConfirmLive, ReplicationErrorLive, ClientLive, deleteShapeLive,
     RestartLive, ZenonT(60) DEF LiveNext
<1>4. QED
  BY <1>1, <1>2, <1>3, Zenon

\* Live synchronisation starts with no shape that owes anything.
LEMMA LiveInit_Inv ==
  ASSUME LiveInit, LiveBase
  PROVE  LiveInv
<1>1. /\ \A h \in Handle : ~Active(h)
      /\ wal = <<>> /\ slot = 0 /\ checkpoint = 0 /\ begun = 0 /\ stream = Down /\ job = NoJob
  BY LiveConstants DEF LiveInit, Init, Active
<1>2. WalInv
  BY <1>1 DEF WalInv
<1>3. PositionInv
  BY <1>1 DEF PositionInv, Down
<1>4. OwesNothing
  BY <1>1, ZenonT(60) DEF OwesNothing
<1>5. JobInv
  BY <1>1, LiveStarts DEF JobInv
<1>6. \A p : Reached(p)
  BY <1>1, ZenonT(60) DEF Reached, UpToDate, Owes
<1>7. QED
  BY <1>2, <1>3, <1>4, <1>5, <1>6, ZenonT(60) DEF LiveInv

\* What Postgres will not send again is in memory, and in the store.
LEMMA LiveInvApplied == LiveInv => AppliedBeforeConfirmed
<1> SUFFICES ASSUME LiveInv, NEW h \in Handle, NEW k \in Key,
                    Owes(h, k), LastTouch(k) < Later(slot, checkpoint)
             PROVE  /\ byHandle[h].materialized[k] = db[k]
                    /\ store[h] = Tombstone \/ store[h].materialized[k] = db[k]
  BY Zenon DEF AppliedBeforeConfirmed
<1>1. LastTouch(k) < slot \/ LastTouch(k) < checkpoint
  BY DEF Later
<1>2. byHandle[h].materialized[k] = db[k]
  BY <1>1, ZenonT(60) DEF LiveInv, Reached, UpToDate
<1>3. store[h] = byHandle[h] \/ store[h] = Tombstone
  BY DEF LiveInv, LiveBase, ManagerInv, StoreAgrees
<1>4. QED
  BY <1>2, <1>3

=============================================================================
