----------------------------- MODULE MCHashIndex -----------------------------
(* Instances of HashIndex for TLC.                                         *)
EXTENDS HashIndex
CONSTANT bucket

(* All keys share a bucket. *)
MCBucket == [k \in Key |-> bucket]
MCGet == [r \in Reader |-> 1]
==============================================================================
