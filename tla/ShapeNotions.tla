---------------------------- MODULE ShapeNotions ----------------------------
(***************************************************************************)
(* What the proofs about shapes speak of: what a batch says of a key, the  *)
(* steps of the manager, and what they mean to the handles it gave out.    *)
(* The statements here are what one proof module takes from another.       *)
(***************************************************************************)
EXTENDS ShapeManager

\* A batch that says nothing of a key leaves its row alone; one that does ends with
\* the new row.
Says(msgs, k, row) ==
  \E i \in DOMAIN msgs : /\ msgs[i].key = k /\ msgs[i].row = row
                         /\ \A j \in DOMAIN msgs : j > i => msgs[j].key # k

SaysNothing(msgs, k) == \A i \in DOMAIN msgs : msgs[i].key # k

\* diffRows gives a sequence of messages: one for each changed key, none for the
\* others.  ShapeManagerProofs proves it (Diffs).
DiffsAreSound ==
  \A S \in SUBSET Key : \A ks \in Sorted(S) :
    \A rows \in Rows, control \in BOOLEAN, o \in Offset, lsn \in Nat :
      /\ DiffMessages(ks, rows, control, o, lsn) \in Seq(Message)
      /\ \A k \in Key :
           /\ k \notin S => SaysNothing(DiffMessages(ks, rows, control, o, lsn), k)
           /\ k \in S => Says(DiffMessages(ks, rows, control, o, lsn), k, rows[k])

\* A set of places in a log has a greatest one.  ServerTheorems and LiveTheorems prove it
\* (Greatest): the library it takes is kept out of the other proofs.
HasGreatest ==
  \A n \in Nat : \A S \in SUBSET (1 .. n) : S # {} => \E i \in S : \A j \in S : j <= i

-----------------------------------------------------------------------------
(***************************************************************************)
(* The manager as the service uses it.  WaitOffsets only bounds what TLC   *)
(* enumerates: a request waits from whatever offset it has.                *)
(***************************************************************************)
ManagerNext == Next \/ \E w \in Waiter, h \in Handle, o \in Offset : WaitRead(w, h, o)

-----------------------------------------------------------------------------
(***************************************************************************)
(* A handle that was given out and is not active is spent: no operation    *)
(* and no restart brings it back.                                          *)
(***************************************************************************)
Spent(h) == h.stamp <= clock /\ ~Active(h)

Older == clock <= clock' /\ \A h \in Handle : Spent(h) => Spent(h)'

=============================================================================
