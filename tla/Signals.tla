------------------------------- MODULE Signals -------------------------------
(***************************************************************************)
(* Values, signals and batches in their canonical encoding (crates/signal),*)
(* and the bounds under which expressions build and hosts read them.       *)
(*                                                                         *)
(* An encoding is a sequence of items, each the head of one: its major     *)
(* type m, its argument n and the bytes w the head takes.  A string is its *)
(* rank in bytewise order, and stands with its payload behind the head.    *)
(* What else a reader of CBOR tells apart is an item of its own name.      *)
(***************************************************************************)
EXTENDS Integers, Sequences, FiniteSets, SequencesExt

CONSTANTS Half,           \* 2^63
          Limits,         \* the largest arguments of heads of 1, 2, 3 and 5 bytes
          StrLen(_),      \* the bytes of a string
          Finite,         \* the finite floats
          UsizeMax,       \* of the host that reads or measures
          MIN_DEPTH, MAX_DEPTH

Null == [t |-> "null", n |-> 0, of |-> <<>>]
Bool(b) == [Null EXCEPT !.t = "bool", !.n = IF b THEN 1 ELSE 0]
Int64(n) == [Null EXCEPT !.t = "int", !.n = n]
Float(f) == [Null EXCEPT !.t = "float", !.n = f]
Str(s) == [Null EXCEPT !.t = "str", !.n = s]
Bytes(s) == [Null EXCEPT !.t = "bytes", !.n = s]
Array(items) == [Null EXCEPT !.t = "array", !.of = items]
Map(fields) == [Null EXCEPT !.t = "map", !.of = fields]
IsContainer(v) == v.t \in {"array", "map"}

Larger(a, b) == IF a < b THEN b ELSE a
Keys(fields) == SetToSortSeq(DOMAIN fields, <)

-----------------------------------------------------------------------------
(* Encoding, and the length of it without encoding. *)
CanonicalArgLen(arg) == <<1, 2, 3, 5, 9>>[1 + Cardinality({i \in DOMAIN Limits : arg > Limits[i]})]
IntArg(n) == IF n < 0 THEN -1 - n ELSE n
LenPrefixedLen(s) == CanonicalArgLen(StrLen(s)) + StrLen(s)

Item(m, n, w) == [m |-> m, n |-> n, w |-> w]
Text(s) == Item("text", s, CanonicalArgLen(StrLen(s)))

RECURSIVE Encode(_)
Encode(v) ==
    CASE v.t \in {"null", "bool"} -> <<Item(v.t, v.n, 1)>>
      [] v.t = "int" ->
            <<Item(IF v.n < 0 THEN "nint" ELSE "uint", IntArg(v.n), CanonicalArgLen(IntArg(v.n)))>>
      [] v.t = "float" -> <<Item("f64", v.n, 1)>>
      [] v.t = "str" -> <<Text(v.n)>>
      [] v.t = "bytes" -> <<Item("bytes", v.n, CanonicalArgLen(StrLen(v.n)))>>
      [] v.t = "array" ->
            <<Item("array", Len(v.of), CanonicalArgLen(Len(v.of)))>>
            \o FlattenSeq([i \in DOMAIN v.of |-> Encode(v.of[i])])
      [] v.t = "map" ->
            LET keys == Keys(v.of) IN
            <<Item("map", Len(keys), CanonicalArgLen(Len(keys)))>>
            \o FlattenSeq([i \in DOMAIN keys |-> <<Text(keys[i])>> \o Encode(v.of[keys[i]])])

\* A batch is the sequence of its signals, and a signal the map of its attributes.
ToCbor(batch) == Encode(Array(batch))

SaturatingSum(lengths) ==
    FoldLeft(LAMBDA total, n : IF total + n > UsizeMax THEN UsizeMax ELSE total + n, 0, lengths)

RECURSIVE EncodedLen(_)
EncodedLen(v) ==
    CASE v.t \in {"null", "bool"} -> 1
      [] v.t = "int" -> CanonicalArgLen(IntArg(v.n))
      [] v.t = "float" -> 9
      [] v.t \in {"str", "bytes"} -> SaturatingSum(<<LenPrefixedLen(v.n)>>)
      [] v.t = "array" ->
            SaturatingSum(<<CanonicalArgLen(Len(v.of))>> \o [i \in DOMAIN v.of |-> EncodedLen(v.of[i])])
      [] v.t = "map" ->
            LET keys == Keys(v.of) IN
            SaturatingSum(<<CanonicalArgLen(Len(keys))>>
                \o FlattenSeq([i \in DOMAIN keys |-> <<LenPrefixedLen(keys[i]), EncodedLen(v.of[keys[i]])>>]))

-----------------------------------------------------------------------------
(* Decoding.  What was read of an input, and the place behind it; or why it is refused. *)
Took(v, next) == [why |-> "", is |-> v, next |-> next]
Refused(why) == [why |-> why, is |-> Null, next |-> 0]

\* Bytes of an item; those of an array or a map are its head's.
Size(item) ==
    item.w + (IF item.m \in {"text", "bytes"} THEN StrLen(item.n) ELSE IF item.m = "f64" THEN 8 ELSE 0)

\* `datatype` at the end of the input reads nothing.
Datatype(input, at) == IF at \in DOMAIN input THEN input[at] ELSE Item("malformed", 0, 0)
CheckHead(item, expected, result) == IF Size(item) = expected THEN result ELSE Refused("NonShortestHead")
AsUsize(n) == n % (UsizeMax + 1)

RECURSIVE DecodeAt(_, _, _, _), DecodeItems(_, _, _, _, _, _), DecodeEntries(_, _, _, _, _, _)

\* `depth` containers enclose the item.
DecodeAt(input, at, depth, maxDepth) ==
    LET item == Datatype(input, at)
        Scalar(v, expected) == CheckHead(item, expected, Took(v, at + 1))
    IN  CASE item.m = "null" -> Took(Null, at + 1)
          [] item.m = "bool" -> Took(Bool(item.n = 1), at + 1)
          [] item.m = "uint" ->
                IF item.n >= Half THEN Refused("IntegerAboveI64Max")
                ELSE Scalar(Int64(item.n), CanonicalArgLen(item.n))
          [] item.m = "nint" ->
                IF item.n >= Half THEN Refused("IntegerBelowI64Min")
                ELSE Scalar(Int64(-1 - item.n), CanonicalArgLen(item.n))
          [] item.m = "f64" ->
                IF item.n \in Finite THEN Took(Float(item.n), at + 1) ELSE Refused("NonFiniteFloat")
          [] item.m = "text" -> Scalar(Str(item.n), LenPrefixedLen(item.n))
          [] item.m = "bytes" -> Scalar(Bytes(item.n), LenPrefixedLen(item.n))
          [] item.m = "array" ->
                IF depth >= maxDepth THEN Refused("DepthExceeded")
                ELSE CheckHead(item, CanonicalArgLen(AsUsize(item.n)),
                               DecodeItems(input, at + 1, item.n, <<>>, depth + 1, maxDepth))
          [] item.m = "map" ->
                IF depth >= maxDepth THEN Refused("DepthExceeded")
                ELSE CheckHead(item, CanonicalArgLen(AsUsize(item.n)),
                               DecodeEntries(input, at + 1, item.n, <<>>, depth + 1, maxDepth))
          [] OTHER -> Refused(item.m)

DecodeItems(input, at, left, items, depth, maxDepth) ==
    IF left = 0 THEN Took(Array(items), at)
    ELSE LET read == DecodeAt(input, at, depth, maxDepth) IN
         IF read.why # "" THEN read
         ELSE DecodeItems(input, read.next, left - 1, Append(items, read.is), depth, maxDepth)

\* `decode_map`: keys are texts, each greater than the greatest so far.
DecodeEntries(input, at, left, fields, depth, maxDepth) ==
    IF left = 0 THEN Took(Map(fields), at)
    ELSE LET key  == Datatype(input, at)
             read == DecodeAt(input, at + 1, depth, maxDepth)
         IN  CASE key.m = "malformed" -> Refused(key.m)
               [] key.m \notin {"text", "malformed"} -> Refused("MapKeyNotText")
               [] key.m = "text" ->
                    CheckHead(key, LenPrefixedLen(key.n),
                        IF \E k \in DOMAIN fields : key.n <= k THEN Refused("MapKeysUnordered")
                        ELSE IF read.why # "" THEN read
                        ELSE DecodeEntries(input, read.next, left - 1,
                                [k \in DOMAIN fields \cup {key.n} |->
                                    IF k = key.n THEN read.is ELSE fields[k]], depth, maxDepth))

\* A signal's own map is no level.
DecodeSignal(input, at, maxDepth) ==
    LET item == Datatype(input, at) IN
    IF item.m = "map"
    THEN CheckHead(item, CanonicalArgLen(AsUsize(item.n)),
                   DecodeEntries(input, at + 1, item.n, <<>>, 0, maxDepth))
    ELSE LET read == DecodeAt(input, at, 0, maxDepth) IN
         IF read.why # "" THEN read ELSE Refused("SignalNotAMap")

RECURSIVE DecodeSignals(_, _, _, _, _)
DecodeSignals(input, at, left, signals, maxDepth) ==
    IF left = 0 THEN Took(Array(signals), at)
    ELSE LET read == DecodeSignal(input, at, maxDepth) IN
         IF read.why # "" THEN read
         ELSE DecodeSignals(input, read.next, left - 1, Append(signals, read.is), maxDepth)

DecodeBatch(input, maxDepth) ==
    LET item == Datatype(input, 1) IN
    IF item.m \in {"malformed", "IndefiniteLength"} THEN Refused(item.m)
    ELSE IF item.m # "array" THEN Refused("NotAnArray")
    ELSE CheckHead(item, CanonicalArgLen(item.n), DecodeSignals(input, 2, item.n, <<>>, maxDepth))

Whole(input, read) ==
    IF read.why = "" /\ read.next # Len(input) + 1 THEN Refused("TrailingBytes") ELSE read

\* `from_cbor_with_max_depth`, and `from_cbor` by MAX_DEPTH.
ValueFrom(input, maxDepth) == Whole(input, DecodeAt(input, 1, 0, Larger(maxDepth, MIN_DEPTH)))
BatchFrom(input, maxDepth) == Whole(input, DecodeBatch(input, Larger(maxDepth, MIN_DEPTH)))

-----------------------------------------------------------------------------
(* Bounds. *)
RECURSIVE NestsDeeperThan(_, _)
NestsDeeperThan(v, limit) ==
    IsContainer(v) /\ (limit = 0 \/ \E i \in DOMAIN v.of : NestsDeeperThan(v.of[i], limit - 1))

\* `Evaluator::accept`: what an expression may have built.
Constructed(v, maxDepth, maxValueBytes) ==
    ~NestsDeeperThan(v, maxDepth) /\ EncodedLen(v) <= maxValueBytes

\* `ExprBudgets::new`, of what a node's file asks for.
ExprBudgets(evalDepth, decodeDepth) ==
    [eval |-> Larger(evalDepth, MIN_DEPTH), decode |-> Larger(decodeDepth, Larger(evalDepth, MIN_DEPTH))]

\* What reads a batch: the host an emission, the SDK a delivery, and the bridge a publish.
HostReads(input, budgets) == BatchFrom(input, budgets.decode)
GuestReads(input) == BatchFrom(input, MAX_DEPTH)
BridgeReads(input) == BatchFrom(input, MAX_DEPTH)
\* And a property's value.
GuestReadsProp(input) == ValueFrom(input, MAX_DEPTH)
=============================================================================
