------------------------------ MODULE Selection ------------------------------
(***************************************************************************)
(* The filter of the lists and tables that the modules model: JavaScript's *)
(* filter, and DELETE over the rows of a table in their order.  It is      *)
(* written as a recursive function, about which more can be proved than    *)
(* about SelectSeq.                                                        *)
(***************************************************************************)
EXTENDS Naturals, Sequences

\* filter: the elements of s that are in S, in the order of s.
Only(s, S) ==
  LET upTo[n \in 0..Len(s)] ==
        IF n = 0 THEN <<>>
        ELSE IF s[n] \in S THEN Append(upTo[n - 1], s[n]) ELSE upTo[n - 1]
  IN upTo[Len(s)]
=============================================================================
