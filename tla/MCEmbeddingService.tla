------------------------- MODULE MCEmbeddingService -------------------------
(* Two threads, three requests for two texts at two widths; one text is in the cache, narrow, from an *)
(* earlier day.                                                                          *)
EXTENDS EmbeddingService
CONSTANTS s, t, r1, r2
MCOld == {<<s, 1>>}
=============================================================================
