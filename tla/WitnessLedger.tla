---------------------------- MODULE WitnessLedger ----------------------------
(***************************************************************************)
(* phase1426/authority.py, chain, append and ownership: a directory of     *)
(* numbered records, each naming the hash of the one before it, that one   *)
(* owner at a time may extend.  A directory is                             *)
(*   [rows, pending, owner]                                                *)
(* rows: the payloads; pending: a record written and not yet renamed;      *)
(* owner: who created owner.lock.  Records are never removed, so the hash  *)
(* of the newest one, the head, is represented by its number.              *)
(***************************************************************************)
EXTENDS Naturals, Sequences

Nobody == "nobody"
Orphan == "orphan"          \* owner.lock of a process that was killed
Empty == [rows |-> <<>>, pending |-> FALSE, owner |-> Nobody]

HeadOf(d) == Len(d.rows)

\* chain(): the files are exactly 000000.json .. and the newest one has the expected hash.
chain(d, expected) == ~d.pending /\ expected = HeadOf(d)

\* ownership(): O_EXCL on owner.lock, whoever made it and whether that process still lives.
CanOwn(d) == d.owner = Nobody

OwnedBy(d, who) == [d EXCEPT !.owner = who]

\* The finally of ownership(): close and unlink, on a return and on an exception alike.
Disown(d) == [d EXCEPT !.owner = Nobody]

\* append() up to the fsync of the pending file, and then the rename.  append() reads the
\* chain again without an expected head.
CanAppend(d, limit) == ~d.pending /\ Len(d.rows) < limit

WritePending(d) == [d EXCEPT !.pending = TRUE]

RenamePending(d, payload) == [d EXCEPT !.pending = FALSE, !.rows = Append(d.rows, payload)]

=============================================================================
