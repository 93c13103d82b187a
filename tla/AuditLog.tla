------------------------------ MODULE AuditLog ------------------------------
(***************************************************************************)
(* What the network of nodes promises its readers: one append-only record. *)
(* The record is a sequence of digests, each the digest of a block built   *)
(* on the one before it; nothing is ever removed, replaced or inserted.    *)
(***************************************************************************)
EXTENDS Integers, Sequences

VARIABLE log

Init == log = <<>>

(* A digest is a history (module Block): all but its last entry is the     *)
(* digest of the parent.                                                   *)
ParentOf(digest) == SubSeq(digest, 1, Len(digest) - 1)

Linked(digest) == ParentOf(digest) = IF log = <<>> THEN <<>> ELSE log[Len(log)]

(* Exactly one block more than before.                                     *)
Extend ==
    /\ Len(log') = Len(log) + 1
    /\ SubSeq(log', 1, Len(log)) = log
    /\ Linked(log'[Len(log')])

Spec == Init /\ [][Extend]_log
=============================================================================
