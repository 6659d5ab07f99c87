--------------------------- MODULE MCPayloadSearch ---------------------------
(* All patterns up to length 6 over two bytes, in all payloads of length 7.  From *)
(* length 6 on (001000) falling back to a shorter border is not starting over.    *)
EXTENDS PayloadSearch

AllNeedles == UNION {[1 .. n -> {0, 1}] : n \in 1 .. 6}
AllPayloads == [1 .. 7 -> {0, 1}]

Part(from, size) == [offset |-> from, length |-> size]

\* A whole payload; frames that touch, leave a gap, are out of order, overlap.
SomeLayouts ==
    {<<Part(0, 7)>>, <<Part(0, 3), Part(3, 4)>>, <<Part(4, 3), Part(0, 3)>>,
     <<Part(1, 4), Part(3, 0), Part(2, 5)>>}

=============================================================================
