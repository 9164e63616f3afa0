--------------------------------- MODULE MCChat ---------------------------------
(* Finite instances of Chat: a question sent three times with its key and twice *)
(* with another key, whose streams are quick; another question that reuses its  *)
(* key and its client_request_id; and one of its own, sent twice, that competes *)
(* for the quick key only.                                                      *)
EXTENDS Chat, TLC

CONSTANTS r1, r2, r3, k1, k2, f1, f2, otherBody, slow, quick, q, q2, q3

MCKeyOf == [a \in Attempts |-> IF a \in {k1, k2, f1, f2} THEN quick ELSE slow]
MCRequestOf == [a \in Attempts |->
    CASE a = otherBody -> q2 [] a \in {f1, f2} -> q3 [] OTHER -> q]
MCClientId == [p \in Requests |-> IF p = q2 THEN q ELSE p]
MCQuestion == [p \in Requests |-> p]
MCSymmetry == Permutations({r1, r2, r3}) \cup Permutations({k1, k2}) \cup Permutations({f1, f2})
================================================================================
