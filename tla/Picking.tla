------------------------------- MODULE Picking -------------------------------
(***************************************************************************)
(* Elements of a sequence chosen by their positions: what SelectSeq does,   *)
(* written as a recursive function over the positions.                      *)
(***************************************************************************)
EXTENDS Integers, Sequences

\* The elements of s at the positions in I, in order.
Picked(s, I) ==
  LET upto[n \in 0 .. Len(s)] ==
        IF n = 0 THEN << >>
        ELSE IF n \in I THEN Append(upto[n - 1], s[n]) ELSE upto[n - 1]
  IN upto[Len(s)]
=============================================================================
