--------------------------- MODULE MCEncoderCache ---------------------------
EXTENDS EncoderCache, TLC

image(h, offset, length) ==
  [identifier |-> h, offset |-> offset, length |-> length, is_embed |-> 0 .. length - 1]

features == [r \in {"r1", "r2", "r3"} |->
               CASE r = "r1" -> <<image("A", 0, 2), image("B", 4, 2)>>
                 [] r = "r2" -> <<image("B", 1, 2), image("C", 3, 1)>>
                 [] r = "r3" -> <<image("A", 1, 2), image("A", 3, 2)>>]
prompts == [r \in {"r1", "r2", "r3"} |-> IF r = "r1" THEN 7 ELSE 6]
\* The first request has an image in each of its three chunks.
three_images == [r \in {"r1", "r2"} |->
                   IF r = "r1" THEN <<image("A", 0, 2), image("B", 3, 2), image("C", 6, 1)>>
                   ELSE <<image("C", 3, 1)>>]
long_prompts == [r \in {"r1", "r2"} |-> IF r = "r1" THEN 8 ELSE 5]
priorities == [r \in {"r1", "r2", "r3"} |->
                 CASE r = "r1" -> 2 [] r = "r2" -> 1 [] r = "r3" -> 0]
=============================================================================
