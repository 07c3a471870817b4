---------------------------- MODULE MCTransfer ----------------------------
(* Instances of Transfer for TLC.                                          *)
EXTENDS Transfer
CONSTANTS s1, s2, r1, r2, o1, o2

(* The sender owns the RootRefs s1, s2; the receiver r1, r2. *)
MCOwner == [r \in Root |-> IF r \in {s1, s2} THEN Sender ELSE Receiver]

(* The sender has allocated o1, and o2 if it has a second RootRef. *)
MCHeld == [r \in Root |-> CASE r = s1 -> o1 [] r = s2 -> o2 [] OTHER -> NULL]
===========================================================================
