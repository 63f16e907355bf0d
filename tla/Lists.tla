-------------------------------- MODULE Lists --------------------------------
(***************************************************************************)
(* The vectors of the server that are searched and thinned out.            *)
(***************************************************************************)
EXTENDS Naturals, Sequences

\* erase(remove_if(...)), and a loop that pushes back what it selects: the
\* elements of s that are in K, in their order.
Keep(s, K) ==
  LET kept[i \in 0..Len(s)] ==
        IF i = 0 THEN <<>>
        ELSE IF s[i] \in K THEN Append(kept[i - 1], s[i]) ELSE kept[i - 1]
  IN kept[Len(s)]
=============================================================================
