------------------------------ MODULE Lookup ------------------------------
(***************************************************************************)
(* How nodes refer to data: the dot paths of the built-in nodes             *)
(* (internal/nodes/builtin) and the {{namespace.path}} references of the    *)
(* HTTP-action templates (internal/runtime/template).                       *)
(*                                                                          *)
(* A value is a scalar, Null, an object [obj |-> f], an array [arr |-> s],   *)
(* a Go map of strings [strings |-> f], such as the response headers that an *)
(* http-request node puts out, or a string that was put together,            *)
(* [str |-> its parts].                                                      *)
(*                                                                          *)
(* The code splits a path at its dots.  Here it is the sequence of what is   *)
(* between them, one segment at least, any of which may be empty; the empty  *)
(* path is <<"">>.  The name of a field may have a dot in it, and is then no *)
(* segment.  A string of a template is the sequence of its pieces.           *)
(***************************************************************************)
EXTENDS Integers, Sequences

CONSTANTS
    Scalars,
    Null,        \* JSON null, and Go's nil
    Segments,    \* the strings without a dot
    IndexOf      \* strconv.Atoi on the segments that are numbers, counted from 1

Empty == ""

ASSUME LookupAssumption == {"$", Empty} \subseteq Segments

IsObject(v) == v \notin Scalars \union {Null} /\ DOMAIN v = {"obj"}
IsArray(v)  == v \notin Scalars \union {Null} /\ DOMAIN v = {"arr"}
IsStrings(v) == v \notin Scalars \union {Null} /\ DOMAIN v = {"strings"}

\* A map that has no such key yields nil, as does anything but a map.
Field(v, key) ==
    IF IsObject(v) /\ key \in DOMAIN v.obj THEN v.obj[key] ELSE Null

Element(v, key) ==
    IF key \in DOMAIN IndexOf /\ IndexOf[key] \in DOMAIN v.arr
    THEN v.arr[IndexOf[key]] ELSE Null

-----------------------------------------------------------------------------
(* Dot paths                                                               *)

\* Mutant: every leading "$." goes.
KeysTrimAll(path) ==
    LET keys[i \in 1 .. Len(path) + 1] ==
            IF i > Len(path) THEN <<>>
            ELSE IF path[i] = "$" THEN keys[i + 1]
            ELSE <<path[i]>> \o keys[i + 1]
    IN  keys[1]

\* strings.TrimPrefix of "$.", on what is left of the path from i on.
Trimmed(path, i) == IF path[i] = "$" /\ i < Len(path) THEN i + 1 ELSE i

\* The keys that resolveDotPath looks up: each of its calls trims one "$." and then
\* returns what it has if "$" or nothing is left.
Keys(path) ==
    LET keys[i \in 1 .. Len(path) + 1] ==
            IF i > Len(path) THEN <<>>
            ELSE LET j == Trimmed(path, i) IN
                 IF j = Len(path) /\ path[j] \in {"$", Empty} THEN <<>>
                 ELSE <<path[j]>> \o keys[j + 1]
    IN  keys[1]

\* The switch on the type of the data: neither case matches a map of strings.
Member(v, key) == IF IsArray(v) THEN Element(v, key) ELSE Field(v, key)

\* nil and false, a missing segment, are both Null: no caller tells them apart.
ResolveDotPath(data, path) ==
    LET keys == Keys(path)
        value[i \in 0 .. Len(keys)] ==
            IF i = 0 THEN data ELSE Member(value[i - 1], keys[i])
    IN  value[Len(keys)]

\* A path on which resolveDotPath looks up these keys, whichever segments they are:
\* "$." before each of them and "$" at the end.
PathTo(keys) ==
    [i \in 1 .. 2 * Len(keys) + 1 |-> IF i % 2 = 1 THEN "$" ELSE keys[i \div 2]]

\* TransformNode.Execute, with one field; the empty path gives nil there.
Transform(input, key, path) ==
    [obj |-> [k \in {key} |->
                IF path = <<Empty>> THEN Null ELSE ResolveDotPath(input, path)]]

-----------------------------------------------------------------------------
(* Templates                                                               *)

\* What json.Marshal and Unmarshal into a map make of data that is no map of values.
Unmarshalled(v) == IF IsStrings(v) THEN [obj |-> v.strings] ELSE v

\* walkPath knows no arrays and no "$".
WalkPath(data, path) ==
    LET value[i \in 0 .. Len(path)] ==
            IF i = 0 THEN data ELSE Field(Unmarshalled(value[i - 1]), path[i])
    IN  value[Len(path)]

\* A piece is some text or a reference.
Text(s)        == [text |-> s]
Ref(ns, path)  == [ns |-> ns, path |-> path]
IsRef(piece)   == "ns" \in DOMAIN piece

\* A namespace that is not there resolves like a path that is not.
Referred(piece, ns) ==
    IF piece.ns \in DOMAIN ns THEN WalkPath(ns[piece.ns], piece.path) ELSE Null

\* What is written for a piece: the text itself is never nil.
Written(piece, ns) == IF IsRef(piece) THEN Referred(piece, ns) ELSE piece.text

\* Resolve: nothing is written for a reference without a value.
Resolve(string, ns) ==
    LET parts[i \in 0 .. Len(string)] ==
            IF i = 0 THEN <<>>
            ELSE IF Written(string[i], ns) = Null THEN parts[i - 1]
            ELSE Append(parts[i - 1], Written(string[i], ns))
    IN  [str |-> parts[Len(string)]]

\* The pieces that have something to contribute.
Contributing(string, ns) == {i \in DOMAIN string : Written(string[i], ns) # Null}

\* What those pieces contribute stands in str, each once and in their order, and
\* nothing else does.
WritesInOrder(str, string, ns) ==
    \E pos \in [Contributing(string, ns) -> DOMAIN str] :
        /\ \A k \in DOMAIN str : \E i \in Contributing(string, ns) : pos[i] = k
        /\ \A i \in Contributing(string, ns) : str[pos[i]] = Written(string[i], ns)
        /\ \A i, j \in Contributing(string, ns) : i < j => pos[i] < pos[j]

\* Mutant: a reference is enough.
IsExactAny(string) == \E i \in DOMAIN string : IsRef(string[i])

\* isExact: nothing is left without its references, of which there may be several.
IsExact(string) == Len(string) > 0 /\ \A i \in DOMAIN string : IsRef(string[i])

\* resolveExact: the value of the first reference, with its type.
ResolveExact(string, ns) ==
    LET first == CHOOSE i \in DOMAIN string :
                    /\ IsRef(string[i])
                    /\ \A j \in 1 .. i - 1 : ~IsRef(string[j])
    IN  Referred(string[first], ns)

\* resolveValue, of the string that stands for all of the body's fields.
ResolveString(string, ns) ==
    IF ~IsExact(string) THEN Resolve(string, ns)
    ELSE IF ResolveExact(string, ns) = Null THEN [str |-> <<>>]
    ELSE ResolveExact(string, ns)

\* Types are only kept in a body that is JSON.
ResolveBody(body, ns) ==
    IF body.json THEN ResolveString(body.string, ns) ELSE Resolve(body.string, ns)
=============================================================================
