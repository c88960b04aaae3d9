---------------------------- MODULE MCGzipHandler ----------------------------
(* A small instance of GzipHandler for model checking with TLC.            *)
EXTENDS GzipHandler, TLC

(* A text whose length is known, one that is encoded already, an image,    *)
(* and an encoding of something without a type.                            *)
SomeHeaders ==
    {[Untyped EXCEPT !.type = "text", !.length = TRUE],
     [Untyped EXCEPT !.type = "text", !.encoding = "own"],
     [Untyped EXCEPT !.type = "image"],
     [Untyped EXCEPT !.encoding = "own"]}

Symmetry == Permutations(Writers) \cup Permutations(Accepting)

=============================================================================
