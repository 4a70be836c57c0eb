-------------------------------- MODULE Kept --------------------------------
(***************************************************************************)
(* A list of Python filtered by `in`: [x for x in s if x in T].            *)
(***************************************************************************)
EXTENDS Naturals, Sequences

Kept(s, T) ==
  LET upTo[i \in 0..Len(s)] ==
        IF i = 0 THEN <<>>
        ELSE IF s[i] \in T THEN Append(upTo[i - 1], s[i]) ELSE upTo[i - 1]
  IN upTo[Len(s)]

=============================================================================
