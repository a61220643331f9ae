--------------------------- MODULE MCFrameStream ---------------------------
(* An instance of FrameStream for TLC. *)
EXTENDS FrameStream

M(t, ts, r) == [type |-> t, texts |-> ts, rest |-> r]
\* Every kind of payload; strings that are empty, of the longest allowed length
\* and longer; bytes that could be lengths and a byte that is not UTF-8; a chunk
\* too long.
Messages ==
    {M("FileRequest", <<<<1>>, <<2>>, <<2, 1>>>>, <<0>>),
     M("FileRequest", <<<<1>>, <<2>>, <<1, 1, 1>>>>, <<1>>),
     M("PairFinalize", <<<<1>>, <<2>>>>, <<>>),
     M("PairRequest", <<<<1, 1>>>>, <<>>),
     M("FileAccept", <<<<1>>>>, <<>>),
     M("FileReject", <<<<>>>>, <<>>),
     M("FileChunk", <<>>, <<1, 1>>),
     M("FileChunk", <<>>, [i \in 1..9 |-> 1]),
     M("Error", <<>>, <<4>>),
     M("Error", <<>>, <<255, 4>>),
     M("FileRequest", <<<<1>>, <<2>>, <<255>>>>, <<255>>),
     M("TransferComplete", <<>>, <<>>)}
=============================================================================
