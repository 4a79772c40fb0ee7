------------------------------- MODULE Lists -------------------------------
(***************************************************************************)
(* Python lists and ordered dicts as sequences.                            *)
(***************************************************************************)
EXTENDS Integers, Sequences

Elements(s) == {s[i] : i \in 1 .. Len(s)}
NoRepetition(s) == \A i, j \in 1 .. Len(s) : s[i] = s[j] => i = j

\* The elements of the sequence s that are in T, in their order.
Filter(s, T) ==
  LET kept[i \in 0 .. Len(s)] ==
        IF i = 0 THEN <<>>
        ELSE IF s[i] \in T THEN Append(kept[i - 1], s[i]) ELSE kept[i - 1]
  IN  kept[Len(s)]
=============================================================================
