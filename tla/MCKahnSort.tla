----------------------------- MODULE MCKahnSort -----------------------------
(* Definitions that instantiate KahnSort for TLC: three ids, one of them     *)
(* repeated in one list, and every list of up to MaxEdges edges between them *)
(* and to or from an id that does not exist.                                 *)
EXTENDS KahnSort

CONSTANTS a, b, c, unknown, MaxEdges

AllNames == {a, b, c, unknown}

Lists == {<<>>, <<a>>, <<a, b>>, <<a, b, c>>, <<a, b, a>>}

Pairs == {a, b, c} \X {a, b, c} \union {<<a, unknown>>, <<unknown, a>>}

EdgesUpTo == UNION {[1 .. m -> Pairs] : m \in 0 .. MaxEdges}
=============================================================================
