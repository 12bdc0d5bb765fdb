------------------------------- MODULE CacheKeys -------------------------------
(***************************************************************************)
(* How the arguments of a call become its cache key: buildCacheKey of      *)
(* src/src/function-cache.ts and stableStringify of                        *)
(* src/src/stable-stringify.ts.  Two calls of a function share an entry,   *)
(* and a running execution, exactly if their keys are equal.               *)
(*                                                                         *)
(* A value is a scalar or a reference into a heap of arrays and objects,   *)
(* which may share parts and contain themselves.  A text is a sequence of  *)
(* marks and contents; a quoted content is one member of it, since         *)
(* JSON.stringify() escapes whatever could end it early.                   *)
(***************************************************************************)
EXTENDS Integers, FiniteSets, SequencesExt

CONSTANTS
    Ref,        \* the arrays and objects a call may be given
    Name,       \* the names of their fields, as numbers in the sorted order
    MaxItems,   \* bound on the length of an array
    MaxLength   \* KEY_MAX_LENGTH, in members of a text

ASSUME KeyAssumption ==
    Name \subseteq Nat /\ {MaxItems, MaxLength} \subseteq Nat

Of(type, s) == [type |-> type, is |-> s]

\* The scalars that arrays and objects hold, which JSON.stringify would write
\* alike.
Inner == {Of("number", "NaN"), Of("null", "null")}

\* The scalars that are passed themselves: every type the code tells apart, the
\* numbers that JSON has no text for, strings that look like other values.
Scalar == Inner \cup
    {Of("undefined", "undefined"), Of("string", "null"), Of("string", "__NaN__"),
     Of("number", "Infinity"), Of("number", "1"), Of("number", "0"),
     Of("number", "-0"), Of("string", "1"), Of("boolean", "true"),
     Of("string", "true"), Of("function", "f"), Of("symbol", "s"),
     Of("string", "[UNSUPPORTED]"), Of("date", "2024"), Of("string", "2024")}

Value == Inner \cup {Of("ref", r) : r \in Ref}

Array == UNION {[kind : {"array"}, items : [1..n -> Value]] : n \in 0..MaxItems}

\* An object: its names in the order of their insertion, and their values.  A
\* Map or a Set has no fields, whatever it holds.
Object ==
    UNION {[kind : {"object"}, names : SetToSeqs(N), field : [N -> Value]] :
               N \in SUBSET Name}

Heap == [Ref -> Array \cup Object]

-----------------------------------------------------------------------------
Quoted(s) == <<"quote", s>>

\* The parts with commas between them, in brackets.
Bracketed(open, parts, close) ==
    LET follow(i) == IF i = 1 THEN parts[i] ELSE <<",">> \o parts[i]
    IN  <<open>> \o FlattenSeq([i \in DOMAIN parts |-> follow(i)]) \o <<close>>

\* JSON.stringify of a number that is not NaN.
NumberText(s) ==
    CASE s \in {"Infinity", "-Infinity"} -> <<"null">>
      [] s = "-0" -> <<"0">>
      [] OTHER -> <<s>>

\* _stringify of what is neither an array nor an object with fields.
ScalarText(v) ==
    CASE v.type \in {"null", "undefined"} -> <<v.type>>
      [] v.type = "number" /\ v.is = "NaN" -> Quoted("__NaN__")
      [] v.type = "number" /\ v.is # "NaN" -> NumberText(v.is)
      [] v.type \in {"function", "symbol"} -> Quoted("[UNSUPPORTED]")
      [] v.type \in {"string", "date", "regexp"} -> Quoted(v.is)
      [] v.type = "boolean" -> <<v.is>>

\* Object.keys(value).sort()
KeysSorted(o) == SetToSortSeq(ToSet(o.names), <)

\* stableStringify and _stringify: `within`, the code's set `seen`, is what the
\* value is part of.  A part is taken out of it when it is left, so that a part
\* that occurs twice is written twice.
StableStringify(h, value) ==
    LET _stringify[v \in Value \cup Scalar, within \in SUBSET Ref] ==
            IF v.type # "ref" THEN ScalarText(v)
            ELSE IF v.is \in within THEN Quoted("[CIRCULAR]")
            ELSE LET o == h[v.is]
                     part(x) == _stringify[x, within \cup {v.is}]
                     named(n) == Quoted(ToString(n)) \o <<":">> \o part(o.field[n])
                 IN  IF o.kind = "array"
                     THEN Bracketed("[", [i \in DOMAIN o.items |-> part(o.items[i])], "]")
                     ELSE LET keys == KeysSorted(o)
                          IN  Bracketed("{", [i \in DOMAIN keys |-> named(keys[i])], "}")
    IN  _stringify[value, {}]

\* The types a single argument may have to be written without _stringify.
Single == {"null", "undefined", "number", "string", "boolean"}

\* Mutant: NaN is a number like any other, which JSON.stringify writes as null.
SingleArgOfAnyNumber(v) ==
    CASE v.type \in {"null", "undefined"} -> <<v.type>>
      [] v.type = "number" -> IF v.is = "NaN" THEN <<"null">> ELSE NumberText(v.is)
      [] v.type = "string" -> Quoted(v.is)
      [] v.type = "boolean" -> <<v.is>>

\* stringifySingleArg
StringifySingleArg(v) ==
    CASE v.type \in {"null", "undefined"} -> <<v.type>>
      [] v.type = "number" -> IF v.is = "NaN" THEN Quoted("__NaN__") ELSE NumberText(v.is)
      [] v.type = "string" -> Quoted(v.is)
      [] v.type = "boolean" -> <<v.is>>

\* stringifyArgs
StringifyArgs(h, args) ==
    CASE args = <<>> -> <<"[", "]">>
      [] Len(args) = 1 /\ args[1].type \in Single ->
             <<"[">> \o StringifySingleArg(args[1]) \o <<"]">>
      [] OTHER -> Bracketed("[", [i \in DOMAIN args |-> StableStringify(h, args[i])], "]")

\* A long text is replaced by its digest, taken to be different for every one.
BuildCacheKey(h, args) ==
    LET raw == StringifyArgs(h, args)
    IN  IF Len(raw) > MaxLength THEN <<"sha256">> \o raw ELSE raw

-----------------------------------------------------------------------------
(* When two calls mean the same, told without their texts.                 *)

\* The scalars that stand for the same: JSON has one text for the infinities and
\* null, one for both zeros, and for dates the string toISOString() returns.
Class(v) ==
    CASE v.type = "number" /\ v.is \in {"Infinity", "-Infinity"} -> Of("null", "null")
      [] v.type = "number" /\ v.is = "-0" -> Of("number", "0")
      [] v.type \in {"date", "regexp"} -> Of("string", v.is)
      [] OTHER -> v

\* What is passed instead of an argument for which the code has a placeholder.
Replaced(v) ==
    CASE v.type = "number" /\ v.is = "NaN" -> Of("string", "__NaN__")
      [] v.type \in {"function", "symbol"} -> Of("string", "[UNSUPPORTED]")
      [] OTHER -> v

\* What a value contains itself it is not looked into again.
Met(v, within) ==
    IF v.type = "ref" /\ v.is \in within THEN Of("string", "[CIRCULAR]") ELSE v

\* Two values are alike if their parts are, in whatever order the fields of
\* an object were set, and whether or not they share parts.
Alike(h, left, right) ==
    LET Given == Value \cup Scalar
        alike[u \in Given, withinU \in SUBSET Ref, v \in Given, withinV \in SUBSET Ref] ==
            LET a == Met(u, withinU)
                b == Met(v, withinV)
                x == h[a.is]
                y == h[b.is]
                like(p, q) == alike[p, withinU \cup {a.is}, q, withinV \cup {b.is}]
            IN  IF a.type # "ref" \/ b.type # "ref" THEN Class(a) = Class(b)
                ELSE /\ x.kind = y.kind
                     /\ IF x.kind = "array"
                        THEN /\ DOMAIN x.items = DOMAIN y.items
                             /\ \A i \in DOMAIN x.items : like(x.items[i], y.items[i])
                        ELSE /\ DOMAIN x.field = DOMAIN y.field
                             /\ \A n \in DOMAIN x.field : like(x.field[n], y.field[n])
    IN  alike[left, {}, right, {}]

AlikeArgs(h, A, B) ==
    /\ Len(A) = Len(B)
    /\ \A i \in DOMAIN A : Alike(h, A[i], B[i])

\* No argument, one or two; for references, on every heap.
ArgsOf(V) == {<<>>} \cup {<<u>> : u \in V} \cup {<<u, v>> : u, v \in V}
References == {Of("ref", r) : r \in Ref}
Heaps(V) == IF V = References THEN Heap ELSE {CHOOSE h \in Heap : TRUE}

SameKey(h, A, B) == BuildCacheKey(h, A) = BuildCacheKey(h, B)

ReplacedArgs(A) == [i \in DOMAIN A |-> Replaced(A[i])]

\* Two calls share a key if and only if their arguments are alike: neither
\* the order in which fields were set, nor shared and circular parts, nor the
\* shortcut for a single scalar make a difference, and no bracketing or
\* quoting confuses two calls.  Calls that are not alike share one only if they
\* would be with the placeholders in place: see PlaceholdersCollide.
KeysAgree ==
    \A V \in {References, Scalar} : \A h \in Heaps(V), A, B \in ArgsOf(V) :
        /\ AlikeArgs(h, A, B) => SameKey(h, A, B)
        /\ SameKey(h, A, B) => AlikeArgs(h, ReplacedArgs(A), ReplacedArgs(B))

\* The placeholders do not avoid "key collisions", as the comment at
\* stable-stringify.ts:71 has it, nor are they unique, as the one at line 67
\* implies: a function shares its key with every other function, with every
\* symbol and with a string, NaN with another string; here as the first of two
\* arguments.
ASSUME PlaceholdersCollide ==
    \A h \in Heaps(Scalar), v \in Scalar :
        Replaced(v) # v => /\ ~AlikeArgs(h, <<v, v>>, <<Replaced(v), v>>)
                           /\ SameKey(h, <<v, v>>, <<Replaced(v), v>>)

=============================================================================
