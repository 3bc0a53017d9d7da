------------------------------ MODULE EntryABI ------------------------------
(***************************************************************************)
(* How the compiler and the test runner agree on the size parameters of an  *)
(* entry point.  LowerFunction (mlir-backend/compiler.hpp) annotates every  *)
(* array parameter with futhark.size_args, the positions of the parameters  *)
(* its dimensions are named after; _build_flags (run_tests.py) reads them   *)
(* back from the printed module and finds the values of the sizes a test    *)
(* does not mention from the shapes of the arrays it does.                  *)
(*                                                                          *)
(* Init chooses an entry point as Futhark's front end may produce it and a  *)
(* test of it, with literals the runner reads and literals it does not;     *)
(* positions count from 0, as in both programs.                             *)
(***************************************************************************)
EXTENDS Integers, Sequences

CONSTANTS
    SizeName,     \* names of i64 parameters that may be sizes
    Anonymous,    \* the name of any other parameter
    Extent,       \* extents of dimensions
    MaxInferred,  \* bound: sizes the front end adds
    MaxExplicit,  \* bound: parameters the programmer wrote
    MaxRank       \* bound: dimensions of an array

ASSUME ABIAssumption ==
    /\ Extent \subseteq Nat
    /\ Anonymous \notin SizeName \cup Extent
    /\ SizeName \cap Extent = {}
    /\ MaxInferred \in Nat /\ MaxExplicit \in Nat /\ MaxRank \in Nat

VARIABLES
    params,       \* fun.params: sizes first, then what the programmer wrote
    written,      \* how many of them the programmer wrote
    extent,       \* extent[n]: what size n is in the test
    supplied,     \* how many parameters, the last ones, the test has literals for
    literal,      \* literal[i]: how the test writes parameter i
    values,       \* values: what _parse_values has read so far
    next,         \* the literal or the parameter the current loop is at
    argPosition,  \* argPosition[n]: the position of n, for the names so far
    sizeArgs,     \* sizeArgs[i]: futhark.size_args of parameter i, if it has any
    sizeVal,      \* size_val, for the positions so far
    flags,        \* the --input flags so far
    status        \* "parse", "annotate", "resolve", "bind", "built", "unsupported",
                  \* "out_of_range" or "raised"

vars == <<params, written, extent, supplied, literal, values, next, argPosition,
          sizeArgs, sizeVal, flags, status>>

test == <<params, written, extent, supplied, literal>>

-----------------------------------------------------------------------------
\* A dimension is named after a parameter or has a constant extent.
Dims == UNION {[1..r -> SizeName \cup Extent] : r \in 0..MaxRank}
Param == [name : SizeName \cup {Anonymous}, dims : Dims]
IsArray(p) == p.dims # <<>>
Names(p) == {p.dims[d] : d \in DOMAIN p.dims} \cap SizeName

Distinct(ps) ==
    \A i, j \in DOMAIN ps : ps[i].name = ps[j].name /\ ps[i].name # Anonymous => i = j

\* Futhark's front end: a size is bound before it is used, an i64 parameter of
\* the programmer's may be one, and a size that is inferred is in some shape.
WellScoped(sizes, ps) ==
    /\ \A i \in DOMAIN ps : IsArray(ps[i]) =>
          /\ ps[i].name = Anonymous
          /\ Names(ps[i]) \subseteq
                {sizes[j].name : j \in DOMAIN sizes} \cup {ps[j].name : j \in 1..i - 1}
    /\ \A j \in DOMAIN sizes : \E i \in DOMAIN ps : sizes[j].name \in Names(ps[i])

Entries ==
    {e \in (UNION {[1..n -> [name : SizeName, dims : {<<>>}]] : n \in 0..MaxInferred})
               \X (UNION {[1..n -> Param] : n \in 0..MaxExplicit}) :
        Distinct(e[1] \o e[2]) /\ WellScoped(e[1], e[2])}

Last == Len(params) - 1
Parameter(i) == params[i + 1]

\* An array of the test has the shape its type and the sizes give it.
Shape(p) ==
    [d \in DOMAIN p.dims |-> IF p.dims[d] \in SizeName THEN extent[p.dims[d]]
                                                       ELSE p.dims[d]]
NoElements(p) == \E d \in DOMAIN p.dims : Shape(p)[d] = 0

\* What the program expects of parameter i, and so the flag the test means.
Value(i) ==
    LET p == Parameter(i)
    IN  IF p.name \in SizeName THEN <<"size", extent[p.name]>> ELSE <<"value", i>>

\* The parameters the test has literals for.  A literal is made of numbers with
\* a type ("[]" and "[[], []]" are such), is `empty([0]i32)` or the like, or has
\* something else in it: a boolean, or numbers of an array that have no type.
Supplied == Len(params) - supplied..Last
LiteralsOf(p) ==
    {"numbers"} \cup (IF NoElements(p) THEN {"empty"} ELSE {"other"})
Usual(i) == literal[i] = "numbers" /\ ~NoElements(Parameter(i))

Init ==
    /\ \E e \in Entries :
          /\ params = e[1] \o e[2]
          /\ written = Len(e[2])
    /\ extent \in [SizeName -> Extent]
    /\ supplied \in 0..written
    /\ literal \in [Supplied -> {"numbers", "other", "empty"}]
    /\ \A i \in Supplied : literal[i] \in LiteralsOf(Parameter(i))
    /\ values = <<>>
    /\ next = 0
    /\ argPosition = <<>>
    /\ sizeArgs = <<>>
    /\ sizeVal = <<>>
    /\ flags = <<>>
    /\ status = "parse"

Bind(f, x, v) == [y \in DOMAIN f \cup {x} |-> IF y = x THEN v ELSE f[y]]

-----------------------------------------------------------------------------
\* A value as _parse_values returns it: the extents of the list (<<>> for a
\* token) and its text once the types are taken off, if _strip_suffix and
\* _elem_type let it pass.
Unreadable == <<"unreadable", 0>>
Word == [shape |-> <<>>, text |-> Unreadable]

\* Mutant: a token that is no number is left out.
ParsedNumbers(i) ==
    IF literal[i] = "numbers"
    THEN <<[shape |-> Shape(Parameter(i)), text |-> Value(i)]>>
    ELSE <<>>

\* The brackets within `empty([n][m]t)` make values of their own: one for the
\* word before them, a list for each, one for the rest.
Parsed(i) ==
    LET p == Parameter(i)
    IN  CASE literal[i] = "numbers" -> <<[shape |-> Shape(p), text |-> Value(i)]>>
          [] literal[i] = "other" -> <<[shape |-> Shape(p), text |-> Unreadable]>>
          [] literal[i] = "empty" ->
                <<Word>> \o [d \in DOMAIN p.dims |-> [shape |-> <<1>>, text |-> Unreadable]]
                         \o <<Word>>

\* _run_case parses before it compiles.
Parse ==
    /\ status = "parse" /\ next < supplied
    /\ values' = values \o Parsed(Len(params) - supplied + next)
    /\ next' = next + 1
    /\ UNCHANGED <<test, argPosition, sizeArgs, sizeVal, flags, status>>

StartCompiler ==
    /\ status = "parse" /\ next = supplied
    /\ status' = "annotate"
    /\ next' = 0
    /\ UNCHANGED <<test, values, argPosition, sizeArgs, sizeVal, flags>>

-----------------------------------------------------------------------------
\* Mutant: nothing is said of constant dimensions.
NamedPositions(known, p) ==
    LET named == SelectSeq(p.dims, LAMBDA d : d \in SizeName)
    IN  [d \in DOMAIN named |-> known[named[d]]]

\* LowerFunction: the positions of the dimensions' names, which have to be known
\* by now (std::unordered_map::at throws otherwise), -1 for a constant.
Positions(known, p) ==
    [d \in DOMAIN p.dims |-> IF p.dims[d] \in SizeName THEN known[p.dims[d]] ELSE -1]

Annotate ==
    /\ status = "annotate" /\ next <= Last
    /\ LET p == Parameter(next)
           known == Bind(argPosition, p.name, next)
       IN  /\ argPosition' = known
           /\ IF Names(p) \subseteq DOMAIN known
              THEN /\ sizeArgs' = IF IsArray(p)
                                  THEN Bind(sizeArgs, next, Positions(known, p))
                                  ELSE sizeArgs
                   /\ next' = next + 1 /\ UNCHANGED status
              ELSE status' = "out_of_range" /\ UNCHANGED <<sizeArgs, next>>
    /\ UNCHANGED <<test, values, sizeVal, flags>>

-----------------------------------------------------------------------------
\* _build_flags: the values are for the last parameters, whoever wrote them; the
\* parameters in front of those are the derived sizes.
NSizes == Len(params) - Len(values)

\* zip: parameter NSizes is bound to the first value, and so on to the last;
\* Bound holds the parameters that are bound.
Bound == {i \in NSizes..Last : i < NSizes + Len(values)}
BoundTo(i) == values[i - NSizes + 1]

TooManyValues ==
    /\ status = "annotate" /\ next > Last /\ Len(values) > Len(params)
    /\ status' = "unsupported"
    /\ UNCHANGED <<test, values, next, argPosition, sizeArgs, sizeVal, flags>>

StartRunner ==
    /\ status = "annotate" /\ next > Last /\ Len(values) <= Len(params)
    /\ status' = "resolve"
    /\ next' = 0
    /\ UNCHANGED <<test, values, argPosition, sizeArgs, sizeVal, flags>>

\* _shape takes the first element of every list it meets, and there is none in
\* an empty one.
Shapeless(v) == \E d \in DOMAIN v.shape : v.shape[d] = 0

\* Every named dimension of an array the test supplies says what its size is;
\* the last one to say so is believed.
Resolved(refs, shape) ==
    LET said == {d \in DOMAIN refs : refs[d] >= 0}
        last == [p \in {refs[d] : d \in said} |->
                    CHOOSE d \in said : /\ refs[d] = p
                                        /\ \A e \in said : refs[e] = p => e <= d]
    IN  [p \in DOMAIN sizeVal \cup DOMAIN last |->
            IF p \in DOMAIN last THEN shape[last[p]] ELSE sizeVal[p]]

SkipScalar ==
    /\ status = "resolve" /\ next <= Last
    /\ next \notin DOMAIN sizeArgs \cap Bound
    /\ next' = next + 1
    /\ UNCHANGED <<test, values, argPosition, sizeArgs, sizeVal, flags, status>>

Resolve ==
    /\ status = "resolve" /\ next \in DOMAIN sizeArgs \cap Bound
    /\ LET refs == sizeArgs[next]
           v == BoundTo(next)
       IN  IF \A d \in DOMAIN refs : refs[d] >= 0 => ~Shapeless(v) /\ d \in DOMAIN v.shape
           THEN sizeVal' = Resolved(refs, v.shape) /\ next' = next + 1 /\ UNCHANGED status
           ELSE status' = "raised" /\ UNCHANGED <<sizeVal, next>>
    /\ UNCHANGED <<test, values, argPosition, sizeArgs, flags>>

StartBinding ==
    /\ status = "resolve" /\ next > Last
    /\ status' = "bind"
    /\ next' = 0
    /\ UNCHANGED <<test, values, argPosition, sizeArgs, sizeVal, flags>>

\* A flag for each parameter: a derived size, a value of the test; a size that
\* no array has is Unsupported, a value that is missing a KeyError.
BindSize ==
    /\ status = "bind" /\ next <= Last /\ next < NSizes
    /\ IF next \in DOMAIN sizeVal
       THEN flags' = Append(flags, <<"size", sizeVal[next]>>) /\ UNCHANGED status
       ELSE status' = "unsupported" /\ UNCHANGED flags
    /\ next' = next + 1
    /\ UNCHANGED <<test, values, argPosition, sizeArgs, sizeVal>>

\* _payload: of a list it takes the shape before it looks at its elements.
BindValue ==
    /\ status = "bind" /\ next <= Last /\ next >= NSizes
    /\ IF next \in Bound /\ ~Shapeless(BoundTo(next))
       THEN \/ /\ BoundTo(next).text = Unreadable
               /\ status' = "unsupported" /\ UNCHANGED flags
            \/ /\ BoundTo(next).text # Unreadable
               /\ flags' = Append(flags, BoundTo(next).text) /\ UNCHANGED status
       ELSE status' = "raised" /\ UNCHANGED flags
    /\ next' = next + 1
    /\ UNCHANGED <<test, values, argPosition, sizeArgs, sizeVal>>

EndBinding ==
    /\ status = "bind" /\ next > Last
    /\ status' = "built"
    /\ UNCHANGED <<test, values, next, argPosition, sizeArgs, sizeVal, flags>>

Next ==
    \/ Parse \/ StartCompiler \/ Annotate \/ TooManyValues \/ StartRunner
    \/ SkipScalar \/ Resolve \/ StartBinding \/ BindSize \/ BindValue \/ EndBinding

Spec == Init /\ [][Next]_vars

-----------------------------------------------------------------------------
\* Every array parameter that has been annotated has one entry per dimension.
TypeOK ==
    /\ next \in 0..Last + 1
    /\ \A k \in DOMAIN values :
          /\ \A d \in DOMAIN values[k].shape : values[k].shape[d] \in Extent \cup {1}
          /\ values[k].text[1] \in {"size", "value", "unreadable"}
    /\ \A x \in DOMAIN argPosition :
          x \in SizeName \cup {Anonymous} /\ argPosition[x] \in 0..Last
    /\ \A i \in DOMAIN sizeArgs :
          i \in 0..Last /\ sizeArgs[i] \in [DOMAIN Parameter(i).dims -> -1..Last]
    /\ \A p \in DOMAIN sizeVal : p \in 0..Last /\ sizeVal[p] \in Extent \cup {1}
    /\ \A i \in DOMAIN flags : flags[i][1] \in {"size", "value"}
    /\ status \in {"parse", "annotate", "resolve", "bind", "built", "unsupported",
                   "out_of_range", "raised"}

\* However sizes are shared between arrays, written by the programmer or
\* inferred, and however many of them the test leaves out, the flags that are
\* built give every parameter the value the test means.
FlagsMeanTheTest ==
    status = "built" => flags = [i \in 1..Len(params) |-> Value(i - 1)]

\* An entry point as Futhark produces it never makes the compiler throw.  Flags
\* are built of no test with a literal the runner does not read, though pieces
\* of an `empty(...)` look like values of other parameters; a test of exactly
\* what the programmer wrote, in literals it reads, is built; and no test but
\* one of an array without elements makes the runner throw.
EntryHandled ==
    /\ status # "out_of_range"
    /\ status = "built" => \A i \in Supplied : Usual(i)
    /\ status = "unsupported" => supplied # written \/ \E i \in Supplied : ~Usual(i)
    /\ status = "raised" => \E i \in Supplied : NoElements(Parameter(i))
=============================================================================
