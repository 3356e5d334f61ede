------------------------------- MODULE Filters -------------------------------
(***************************************************************************)
(* Keeping some elements of a list, as Vec::retain, Iterator::filter and   *)
(* VecDeque::retain do throughout the sources.                             *)
(***************************************************************************)
EXTENDS Integers, Sequences

\* The elements of s that are in keep, in their order.
Filter(s, keep) ==
    LET F[i \in 0 .. Len(s)] ==
            IF i = 0 THEN <<>>
            ELSE IF s[i] \in keep THEN Append(F[i - 1], s[i]) ELSE F[i - 1]
    IN F[Len(s)]
=============================================================================
