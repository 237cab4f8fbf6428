---------------------------- MODULE MCNodeCalls ----------------------------
(* Definitions that instantiate NodeCalls for TLC.                          *)
EXTENDS NodeCalls, TLC

CONSTANTS k1, k2, x, y, out1, out2, text

MCIndexOf == [s \in {"0", "1"} |-> IF s = "0" THEN 1 ELSE 2]

MCTokenOf == [k \in {k1, k2} |-> x]

MCSegments == {"", "$", "0", "1", "f", "k", "n1", "list", "headers", "token"}

\* {"f": x, "k": y, "$": text, "": out1, "f.k": out2}, the last of which no path names
MCInitial ==
    [obj |-> [f \in {"f", "k", "$", "", "f.k"} |->
        CASE f = "f" -> x [] f = "k" -> y [] f = "$" -> text [] f = "" -> out1
          [] f = "f.k" -> out2]]

\* {"n1": {"k": out1, "list": [out1, out2], "headers": {"k": y}}}, where the headers
\* are what an http-request puts out
MCParentOut ==
    [obj |-> [n \in {"n1"} |->
        [obj |-> [f \in {"k", "list", "headers"} |->
            CASE f = "k" -> out1
              [] f = "list" -> [arr |-> <<out1, out2>>]
              [] f = "headers" -> [strings |-> [h \in {"k"} |-> y]]]]]]

MCConfig == [obj |-> [f \in {"k"} |-> y]]

MCPaths == {<<"$">>, <<"$", "f">>, <<"$", "$", "f">>, <<"$", "$", "k">>,
            <<"n1", "list", "1">>, <<"n1", "headers", "k">>, <<"$", "f", "k">>, <<"">>}
           \union {PathTo(<<"$", f>>) : f \in DOMAIN MCInitial.obj \intersect MCSegments}

\* One version without a credential reference, a typed and a mixed body, a body of
\* two references, and one that is not JSON.
Bearer == <<Text(text), Ref("credential", <<"token">>)>>

MCTemplates ==
    << [texts |-> {<<"a", "B">>, <<>>}, header |-> <<>>,
        body |-> [json |-> TRUE, string |-> <<Ref("input", <<"n1", "headers", "k">>)>>]],
       [texts |-> {<<"E", "a", "%">>, <<"b", "_">>}, header |-> Bearer,
        body |-> [json |-> TRUE,
                  string |-> <<Text(text), Ref("input", <<"$", "f">>)>>]],
       [texts |-> {<<"A", "\\">>, <<"a">>}, header |-> Bearer,
        body |-> [json |-> FALSE,
                  string |-> <<Ref("input", <<"k">>), Ref("input", <<"$", "k">>)>>]] >>

\* "E" stands for a capital letter that is not ASCII.
MCLowerASCII == [c \in {"A", "B"} |-> IF c = "A" THEN "a" ELSE "b"]
MCLowerOther == [c \in {"E"} |-> "e"]

MCBuiltinTexts ==
    [b \in Builtins |-> IF b = "pass" THEN {<<"A", "b">>, <<"e">>} ELSE {<<"b">>, <<>>}]

MCQueries == {<<>>, <<"A">>, <<"b">>, <<"A", "b">>, <<"e">>, <<"a", "%">>, <<"_", "B">>,
              <<"\\">>}

Whole(k, field) == [cred |-> k, field |-> field, whole |-> TRUE]
Embedded(k) == [cred |-> k, field |-> "all", whole |-> FALSE]

Pairs == {pair \in Creds \X Creds : pair[1] # pair[2]}

\* None, both credentials, a field that is missing, and one credential beside a
\* reference to the other that is not recognised.
MCRefSets ==
    {{}} \union {{Whole(k, "other")} : k \in Creds}
         \union UNION {{{Whole(k, "token"), Whole(j, "all")},
                        {Whole(k, "token"), Embedded(j)}} : <<k, j>> \in Pairs}

\* The two credentials have equal tokens, and each is referred to like the other.
NodeCallsSymmetry == Permutations(Creds)
=============================================================================
