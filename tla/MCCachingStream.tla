--------------------------- MODULE MCCachingStream ---------------------------
(* A file longer than the window by half: a window in the middle of it, one *)
(* cut short by its end, requests up to half a window and over a whole one, *)
(* and an offset past the end.                                              *)
EXTENDS CachingStream

MCOffsets == 0..7
MCRequests == {1, 2, 3, 5}
=============================================================================
