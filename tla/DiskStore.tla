------------------------------ MODULE DiskStore ------------------------------
(***************************************************************************)
(* storage.DiskStore (internal/storage/disk.go) for one shape.             *)
(*                                                                         *)
(* A shape is a row of an SQLite database; its log is kept in chunk files, *)
(* one for each write that made it longer, that the chunks table lists.    *)
(* SaveShape changes the tables in one transaction, but removes and writes *)
(* files before it commits, so an error or a crash in the middle rolls the *)
(* tables back and not the files.                                          *)
(*                                                                         *)
(* The manager is the environment.  It creates, resets, extends and        *)
(* deletes the shape it holds in memory, and takes the new state over when *)
(* the write has succeeded; a failed invalidation of several shapes may    *)
(* also have written a tombstone that the manager does not take over.  The *)
(* files are read in the order of their names, which are the chunk numbers *)
(* padded to the digits of PathLimit.                                      *)
(***************************************************************************)
EXTENDS Naturals, FiniteSets, Sequences

CONSTANTS
  Meta,        \* the contents of the row, told apart
  PathLimit,   \* 10^6 in the code: the numbers below it have equally long names
  MaxChunks,   \* bound: chunks of one shape
  MaxAdded,    \* bound: messages added by one write
  MaxMessages, \* bound: messages in the log
  MaxFaults    \* bound: failed writes and crashes

ASSUME DiskAssumption ==
  /\ PathLimit \in Nat \ {0}
  /\ MaxChunks \in Nat /\ MaxChunks <= 10 * PathLimit
  /\ MaxAdded \in Nat /\ MaxMessages \in Nat /\ MaxFaults \in Nat

\* A message is told apart by the row that was current when it was written.
Message == [meta : Meta, index : 1 .. MaxMessages]

\* No file; a chunk file is never empty.
Missing == <<>>

VARIABLES
  held,      \* the shape in the memory of the manager
  row,       \* the committed row: status, meta, change_count
  chunks,    \* the committed chunks: message_count by chunk number + 1
  files,     \* chunk files by chunk number
  tx,        \* the write in progress
  booting,   \* the process has been started and has not loaded the shape
  faults

diskVars == <<held, row, chunks, files, tx, booting, faults>>

Nothing == [status |-> "absent", log |-> <<>>]

NoTx == [pc |-> "idle", shape |-> Nothing, takeover |-> FALSE, existing |-> 0, next |-> 0]

Buried(s) == [s EXCEPT !.status = "deleted", !.log = <<>>]

Numbers == 0 .. MaxChunks - 1
Listed  == 0 .. Len(chunks) - 1

\* The order of "%06d.json" names: a name with one digit more comes after the
\* name that is its prefix.
PathLess(a, b) ==
  IF a < PathLimit /\ b >= PathLimit THEN a <= b \div 10
  ELSE IF a >= PathLimit /\ b < PathLimit THEN a \div 10 < b
  ELSE a < b

Damaged == \E n \in Listed : files[n] = Missing

\* The chunk whose name is the i-th.
NthPath(i) ==
  CHOOSE n \in Listed : Cardinality({m \in Listed : PathLess(m, n)}) = i - 1

loadShapeChanges ==
  LET read[k \in 0 .. Len(chunks)] ==
        IF k = 0 THEN <<>> ELSE read[k - 1] \o files[NthPath(k)]
  IN  read[Len(chunks)]

-----------------------------------------------------------------------------
(***************************************************************************)
(* SaveShape.                                                              *)
(***************************************************************************)
\* Mutant: only a deletion drops the old log.
BeginSaveKeepsLog(new, takeover) ==
  LET drops == new.status = "deleted"
  IN  /\ tx.pc = "idle"
      /\ tx' = [pc       |-> IF drops THEN "remove" ELSE "insert",
                shape    |-> new,
                takeover |-> takeover,
                existing |-> IF drops THEN 0 ELSE row.count,
                next     |-> IF drops THEN 0 ELSE Len(chunks)]
      /\ UNCHANGED <<held, row, chunks, files, booting, faults>>

\* The transaction begins: it is decided here whether the old log goes.
BeginSave(new, takeover) ==
  LET drops == new.status = "deleted" \/ Len(new.log) < row.count
  IN  /\ tx.pc = "idle"
      /\ tx' = [pc       |-> IF drops THEN "remove" ELSE "insert",
                shape    |-> new,
                takeover |-> takeover,
                existing |-> IF drops THEN 0 ELSE row.count,
                next     |-> IF drops THEN 0 ELSE Len(chunks)]
      /\ UNCHANGED <<held, row, chunks, files, booting, faults>>

\* The listed files are removed one by one, whether or not they exist.
removeChunks ==
  LET present == {n \in Listed : files[n] # Missing}
  IN  /\ tx.pc = "remove"
      /\ \/ \E n \in present : /\ \A m \in present : n <= m
                               /\ files' = [files EXCEPT ![n] = Missing]
                               /\ UNCHANGED tx
         \/ present = {} /\ tx' = [tx EXCEPT !.pc = "insert"] /\ UNCHANGED files
      /\ UNCHANGED <<held, row, chunks, booting, faults>>

\* The messages that are not in a chunk yet go to a new file, by way of a
\* temporary one.
writeChunk ==
  LET more == SubSeq(tx.shape.log, tx.existing + 1, Len(tx.shape.log))
  IN  /\ tx.pc = "insert"
      /\ tx' = [tx EXCEPT !.pc = "commit"]
      /\ files' = IF more = <<>> THEN files ELSE [files EXCEPT ![tx.next] = more]
      /\ UNCHANGED <<held, row, chunks, booting, faults>>

\* The tables change, with a new list of chunks, and the manager goes on.
CommitWith(list) ==
  /\ tx.pc = "commit"
  /\ row' = [status |-> tx.shape.status, meta |-> tx.shape.meta, count |-> Len(tx.shape.log)]
  /\ chunks' = list
  /\ held' = IF tx.takeover THEN tx.shape ELSE held
  /\ booting' = FALSE
  /\ tx' = NoTx
  /\ UNCHANGED <<files, faults>>

Kept  == IF tx.next = 0 THEN <<>> ELSE chunks
Added == Len(tx.shape.log) - tx.existing

\* Mutant: the rows of the chunks table are not deleted with their files.
CommitSaveKeepsChunks == CommitWith(IF Added > 0 THEN Append(chunks, Added) ELSE chunks)

\* Mutant: a chunk is listed even if there is nothing to write.
CommitSaveEmptyChunk == CommitWith(Append(Kept, Added))

CommitSave == CommitWith(IF Added > 0 THEN Append(Kept, Added) ELSE Kept)

\* An error at any point: the tables are rolled back.
SaveFails ==
  /\ tx.pc # "idle"
  /\ faults < MaxFaults
  /\ faults' = faults + 1
  /\ tx' = NoTx
  /\ UNCHANGED <<held, row, chunks, files, booting>>

-----------------------------------------------------------------------------
(***************************************************************************)
(* Restarting.                                                             *)
(***************************************************************************)
Crash ==
  /\ faults < MaxFaults
  /\ faults' = faults + 1
  /\ tx' = NoTx
  /\ booting' = TRUE
  /\ UNCHANGED <<held, row, chunks, files>>

\* Files that no chunk lists are removed before the shapes are loaded.
Compact ==
  /\ booting
  /\ tx.pc = "idle"
  /\ files' = [n \in Numbers |-> IF n \in Listed THEN files[n] ELSE Missing]
  /\ UNCHANGED <<held, row, chunks, tx, booting, faults>>

\* A shape whose files cannot be read is written back as a tombstone.
LoadShapes ==
  /\ booting
  /\ tx.pc = "idle"
  /\ \/ /\ ~Damaged
        /\ held' = [status |-> row.status, meta |-> row.meta, log |-> loadShapeChanges]
        /\ booting' = FALSE
        /\ UNCHANGED <<row, chunks, files, tx, faults>>
     \/ Damaged /\ BeginSave([status |-> "deleted", meta |-> row.meta, log |-> <<>>], TRUE)

-----------------------------------------------------------------------------
(***************************************************************************)
(* The manager.                                                            *)
(***************************************************************************)
Upsert(m) ==
  /\ held.status # "deleted"
  /\ BeginSave([status |-> "active", meta |-> m, log |-> <<>>], TRUE)

Extend(n) ==
  LET more == [i \in 1 .. n |-> [meta |-> held.meta, index |-> Len(held.log) + i]]
  IN  /\ held.status = "active"
      /\ Len(chunks) < MaxChunks
      /\ Len(held.log) + n <= MaxMessages
      /\ BeginSave([held EXCEPT !.log = @ \o more], TRUE)

Delete(takeover) ==
  /\ held.status # "absent"
  /\ BeginSave(Buried(held), takeover)

DiskInit ==
  /\ \E m \in Meta : /\ held = [status |-> "absent", meta |-> m, log |-> <<>>]
                     /\ row = [status |-> "absent", meta |-> m, count |-> 0]
  /\ chunks = <<>>
  /\ files = [n \in Numbers |-> Missing]
  /\ tx = NoTx
  /\ booting = FALSE
  /\ faults = 0

Manager ==
  /\ ~booting
  /\ \/ \E m \in Meta : Upsert(m)
     \/ \E n \in 0 .. MaxAdded : Extend(n)
     \/ \E takeover \in BOOLEAN : Delete(takeover)

DiskNext ==
  \/ Manager
  \/ removeChunks \/ writeChunk \/ CommitSave \/ SaveFails
  \/ Crash \/ Compact \/ LoadShapes

DiskSpec == DiskInit /\ [][DiskNext]_diskVars

-----------------------------------------------------------------------------
(***************************************************************************)
(* Properties.                                                             *)
(***************************************************************************)
DiskTypeOK ==
  /\ held \in [status : {"absent", "active", "deleted"}, meta : Meta, log : Seq(Message)]
  /\ row \in [status : {"absent", "active", "deleted"}, meta : Meta, count : Nat]
  /\ chunks \in Seq(1 .. MaxMessages)
  /\ Len(chunks) <= MaxChunks
  /\ DOMAIN files = Numbers
  /\ tx.pc \in {"idle", "remove", "insert", "commit"}
  /\ booting \in BOOLEAN
  /\ faults \in 0 .. MaxFaults

\* "if persisted state is valid, handles and offsets are preserved" (README.md):
\* whatever failed before, a shape that loads has the log that its clients have
\* seen, message by message, in order.  Files that an aborted write left behind
\* are never read.
LoadsWhatWasHeld ==
  row.status = "active" /\ ~Damaged => loadShapeChanges = held.log

\* The stored shape as its readers may know it.
Stored ==
  [status |-> row.status, meta |-> row.meta,
   log |-> IF row.status # "active" THEN <<>>
           ELSE IF Damaged THEN held.log ELSE loadShapeChanges]

Abstract == INSTANCE ShapeStore WITH stored <- Stored, damaged <- Damaged

\* DiskStore does what the manager relies on: the steps of a write that move files
\* are seen as nothing, or as the loss of a log that is being dropped.
ImplementsShapeStore == Abstract!StoreSpec

=============================================================================
