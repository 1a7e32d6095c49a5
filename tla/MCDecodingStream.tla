--------------------------- MODULE MCDecodingStream ---------------------------
(* Sources of up to three blocks.  The last block of an encrypted file may be *)
(* its tag alone; a callback may raise at once or after some blocks.          *)
EXTENDS DecodingStream

Src(k, e, f) == [kind |-> k, ends |-> e, fails |-> f]

MCSources ==
    {Src("decrypting", e, FALSE) : e \in {<<0>>, <<1>>, <<2, 2>>, <<2, 4, 5>>}}
    \cup {Src("decrypting", e, TRUE) : e \in {<<>>, <<2, 4>>}}
    \cup {Src("unpacking", e, FALSE) : e \in {<<>>, <<3>>, <<2, 3, 5>>}}
    \cup {Src("unpacking", <<2, 3>>, TRUE)}
    \cup {Src("callback", e, FALSE) : e \in {<<>>, <<2, 3>>, <<1, 3, 5>>}}
    \cup {Src("callback", e, TRUE) : e \in {<<>>, <<2, 3>>}}

\* A tag that does not match, and a file cut right behind its header.
MCDamaged == {Src("decrypting", <<2, 4>>, TRUE), Src("decrypting", <<>>, FALSE)}

MCOffsets == {0, 1, 3, 5, 6}
MCRequests == 1..3
=============================================================================
