---------------------------- MODULE NodeSearch ----------------------------
(***************************************************************************)
(* The two searches behind the catalog of node types: the one over the      *)
(* built-in nodes is written in Go (internal/nodetypes/service), the one    *)
(* over the custom ones is an ILIKE of PostgreSQL (ListNodeTypes).  A name  *)
(* and a query are sequences of characters.                                 *)
(***************************************************************************)
EXTENDS Integers, Sequences

CONSTANTS
    LowerASCII,   \* the letters A to Z, and what toLower makes of them
    LowerOther    \* the other capital letters that PostgreSQL folds

\* They are different letters, and what becomes of A to Z are no capital letters.
ASSUME NodeSearchAssumption ==
    /\ DOMAIN LowerASCII \intersect DOMAIN LowerOther = {}
    /\ \A c \in DOMAIN LowerASCII : LowerASCII[c] \notin DOMAIN LowerOther

ToLower(c) == IF c \in DOMAIN LowerASCII THEN LowerASCII[c] ELSE c

\* containsInsensitive
ContainsInsensitive(s, sub) ==
    sub = <<>> \/ \E i \in 0 .. Len(s) - Len(sub) :
                    \A j \in DOMAIN sub : ToLower(s[i + j]) = ToLower(sub[j])

Fold(c) == IF c \in DOMAIN LowerOther THEN LowerOther[c] ELSE ToLower(c)

\* s ILIKE pattern, by the places of s from which the rest of it matches the pattern
\* from j on: a backslash takes the wildcard out of the character after it.
Like(s, pattern) ==
    LET from[j \in 1 .. Len(pattern) + 1] ==
            IF j > Len(pattern) THEN {Len(s) + 1}
            ELSE CASE pattern[j] = "\\" ->
                        {i \in 1 .. Len(s) : /\ j < Len(pattern)
                                             /\ Fold(s[i]) = Fold(pattern[j + 1])
                                             /\ i + 1 \in from[j + 2]}
                   [] pattern[j] = "%" ->
                        {i \in 1 .. Len(s) + 1 : \E k \in i .. Len(s) + 1 : k \in from[j + 1]}
                   [] OTHER ->
                        {i \in 1 .. Len(s) : /\ \/ pattern[j] = "_"
                                                \/ Fold(s[i]) = Fold(pattern[j])
                                             /\ i + 1 \in from[j + 1]}
    IN  1 \in from[1]

\* Mutant: LIKE, which tells capital letters apart.
ListedExactly(name, q) ==
    \E i \in 0 .. Len(name) - Len(q) : SubSeq(name, i + 1, i + Len(q)) = q

\* The condition of ListNodeTypes on a name: the query is part of the pattern, its
\* "%", "_" and "\" included.
PatternOf(q) == <<"%">> \o q \o <<"%">>

Listed(name, q) == Like(name, PatternOf(q))
=============================================================================
