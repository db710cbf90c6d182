----------------------------- MODULE Selection -----------------------------
(***************************************************************************)
(* A filtered sequence, as verify_submission.py makes one: the roots of    *)
(* one level of trust in the order of their file, and the refused fields   *)
(* in the order in which they are checked.  SelectSeq under a definition   *)
(* that a proof can unfold.                                                *)
(***************************************************************************)
EXTENDS Integers, Sequences

\* The elements of s that are in S, in the order they have in s.
Selected(s, S) ==
    LET among[i \in 0 .. Len(s)] ==
          IF i = 0 THEN <<>>
          ELSE IF s[i] \in S THEN Append(among[i - 1], s[i]) ELSE among[i - 1]
    IN  among[Len(s)]
=============================================================================
