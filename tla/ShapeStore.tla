----------------------------- MODULE ShapeStore -----------------------------
(***************************************************************************)
(* What the manager relies on from a store (storage.Store), for one shape: *)
(* a write takes effect as a whole or not at all, except that a write that *)
(* shortens the log may fail and still lose the old log, and then the      *)
(* shape is loaded as a tombstone.  ShapeManager uses the store this way.  *)
(***************************************************************************)
EXTENDS Naturals, Sequences

CONSTANTS Meta, Message

VARIABLES
  stored,    \* the last shape that was written
  damaged    \* its log cannot be read

storeVars == <<stored, damaged>>

StoredShape == [status : {"absent", "active", "deleted"}, meta : Meta, log : Seq(Message)]

Buried(s) == [s EXCEPT !.status = "deleted", !.log = <<>>]

StoreInit ==
  /\ stored \in StoredShape
  /\ stored.status = "absent"
  /\ stored.log = <<>>
  /\ damaged = FALSE

Save ==
  /\ stored' \in StoredShape
  /\ damaged' = (damaged /\ Len(stored'.log) >= Len(stored.log))

LoseLog ==
  /\ stored.log # <<>>
  /\ damaged' = TRUE
  /\ UNCHANGED stored

Load ==
  /\ stored' = IF damaged THEN Buried(stored) ELSE stored
  /\ damaged' = FALSE

StoreNext ==
  \/ Save
  \/ LoseLog
  \/ Load

StoreSpec == StoreInit /\ [][StoreNext]_storeVars

=============================================================================
