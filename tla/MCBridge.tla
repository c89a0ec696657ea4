------------------------------- MODULE MCBridge -------------------------------
(***************************************************************************)
(* The bus TLC checks `Bridge` on, and what it carries: the canonical      *)
(* encoding on small numbers, i64 of five bits, heads that carry up to 1,  *)
(* 3, 7, 15 and 31, a usize of four bits and one of six.  The strings 0, 1 *)
(* and 2 are "", "aa" and "z"; of the floats 0, 1 and 2 the last is not    *)
(* finite.                                                                 *)
(***************************************************************************)
EXTENDS Bridge

Length(s) == <<0, 2, 1>>[s + 1]
S == INSTANCE Signals WITH Half <- 16, Limits <- <<1, 3, 7, 15>>, StrLen <- Length, Finite <- {0, 1},
                           UsizeMax <- 63, MIN_DEPTH <- 1, MAX_DEPTH <- 2
S32 == INSTANCE Signals WITH Half <- 16, Limits <- <<1, 3, 7, 15>>, StrLen <- Length, Finite <- {0, 1},
                             UsizeMax <- 15, MIN_DEPTH <- 1, MAX_DEPTH <- 2

Scalars == {S!Null, S!Bool(FALSE), S!Bool(TRUE), S!Float(0), S!Float(1)}
           \cup {S!Int64(n) : n \in {-16, -9, -5, -2, -1, 0, 1, 2, 4, 15}}
           \cup {S!Str(s) : s \in 0..2} \cup {S!Bytes(s) : s \in 0..2}
Seqs(set, n) == UNION {[1..k -> set] : k \in 0..n}
Fields(set) == UNION {[keys -> set] : keys \in {{}, {0}, {1}, {2}, {1, 2}}}
Nest(set, n) == {S!Array(items) : items \in Seqs(set, n)} \cup {S!Map(f) : f \in Fields(set)}
Few == {S!Null, S!Int64(9), S!Str(1)}
Depth1 == Nest(Scalars, 2)
Depth2 == Nest(Few \cup Nest({S!Null}, 1), 2)
Depth3 == {S!Array(<<v>>) : v \in Depth2} \cup {S!Map([k \in {2} |-> v]) : v \in Depth2}
Values == Scalars \cup Depth1 \cup Depth2 \cup Depth3
          \cup {S!Array([i \in 1..n |-> S!Str(1)]) : n \in {3, 7, 8, 16}}

\* Values to spoil.
Small == Nest(Few \cup {S!Array(<<S!Null>>), S!Map([k \in {2} |-> S!Str(0)])}, 2)

SignalSets == {S!Map(f) : f \in Fields(Few \cup {S!Array(<<S!Null>>), S!Array(<<S!Array(<<>>)>>)})}
Batches == Seqs(SignalSets, 2)
\* One signal that carries the value.
Carrying(v) == <<S!Map([k \in {1} |-> v])>>

\* Heads of every width an argument fits, right and wrong, and items outside the form.
Fits(n) == CASE n < 2 -> {1, 2, 3, 5, 9} [] n \in 2..3 -> {2, 3, 5, 9} [] n \in 4..7 -> {3, 5, 9}
             [] n \in 8..15 -> {5, 9} [] OTHER -> {9}
Heads(m, args) == UNION {{S!Item(m, n, w) : w \in Fits(n)} : n \in args}
Items == Heads("uint", {0, 2, 15, 16}) \cup Heads("nint", {1, 15, 16})
         \cup UNION {{S!Item(m, s, w) : w \in Fits(Length(s))} : m \in {"text", "bytes"}, s \in 0..2}
         \cup Heads("array", {0, 1, 2, 16}) \cup Heads("map", {0, 1, 2, 16})
         \cup {S!Item(m, n, 1) : m \in {"bool", "f64"}, n \in 0..1}
         \cup {S!Item("f64", 2, 1), S!Item("null", 0, 1)}
         \cup {S!Item(m, 0, 1) : m \in {"IndefiniteLength", "NonBinary64Float", "OutsideDataModel", "malformed"}}

\* All short inputs, and every encoding with one item dropped, doubled or replaced.
Spoilt(input) ==
    UNION {{[input EXCEPT ![i] = item] : item \in Items} \cup {RemoveAt(input, i), InsertAt(input, i, input[i])}
             : i \in DOMAIN input}
BatchInputs == Seqs(Items, 2) \cup UNION {Spoilt(S!ToCbor(b)) : b \in Seqs(SignalSets, 1)}
               \cup {<<S!Item("array", 1, 1), S!Item("map", 1, 1), a, b>> : a, b \in Items}
ValueInputs == Seqs(Items, 2) \cup UNION {Spoilt(S!Encode(v)) : v \in Small}

Sizes(input) == FoldLeft(LAMBDA total, item : total + S!Size(item), 0, input)

\* What a decoder accepts it encodes back, item by item and head by head: no batch has two
\* encodings, and none is normalised on the way (value.rs `check_head`, `decode_map`).
ASSUME ReencodesToItself ==
    /\ \A input \in BatchInputs :
          LET read == S!BatchFrom(input, 2) IN read.why = "" => S!ToCbor(read.is.of) = input
    /\ \A input \in ValueInputs :
          LET read == S!ValueFrom(input, 2) IN read.why = "" => S!Encode(read.is) = input

\* What is encoded is read as what it was, exactly to the depth of the bound, and never
\* below the floor; a signal's map counts for no level.
ASSUME EveryValueIsRead ==
    /\ \A v \in Values, bound \in 0..2 :
          LET fits  == ~S!NestsDeeperThan(v, IF bound = 0 THEN 1 ELSE bound)
              value == S!ValueFrom(S!Encode(v), bound)
              batch == S!BatchFrom(S!ToCbor(Carrying(v)), bound)
          IN  /\ IF fits THEN value.why = "" /\ value.is = v ELSE value.why = "DepthExceeded"
              /\ batch.why = value.why /\ fits => batch.is.of = Carrying(v)
    /\ \A b \in Batches : LET read == S!BatchFrom(S!ToCbor(b), 2) IN read.why = "" /\ read.is.of = b

\* The length a value is budgeted by is the one it has, or the largest there is.
ASSUME LengthIsExactOrLargest ==
    \A v \in Values :
        LET size == Sizes(S!Encode(v)) IN
        /\ S!EncodedLen(v) = IF size < 63 THEN size ELSE 63
        /\ S32!EncodedLen(v) = IF size < 15 THEN size ELSE 15

\* Hosts of another word read the same batches and values.
ASSUME HostsAgree ==
    /\ \A input \in BatchInputs : (S!BatchFrom(input, 2).why = "") = (S32!BatchFrom(input, 2).why = "")
    /\ \A input \in ValueInputs : (S!ValueFrom(input, 2).why = "") = (S32!ValueFrom(input, 2).why = "")

\* A value an expression could build is read at the boundary of its host, whatever the
\* node's file asks for (host-core/budget.rs).
ASSUME BuiltIsRead ==
    \A v \in Values, eval \in 0..3, decode \in 0..3 :
        LET budgets == S!ExprBudgets(eval, decode) IN
        S!Constructed(v, budgets.eval, 63) => S!HostReads(S!ToCbor(Carrying(v)), budgets).why = ""

\* But the SDK and the bridge read by MAX_DEPTH, whatever the file: a node with deeper
\* expressions delivers what no block reads, and publishes what no node does.
ASSUME DeepBatchesStopHere ==
    LET deep == S!Array(<<S!Array(<<S!Array(<<>>)>>)>>)
        input == S!ToCbor(Carrying(deep))
        budgets == S!ExprBudgets(3, 2)
    IN  /\ S!Constructed(deep, budgets.eval, 63) /\ S!HostReads(input, budgets).why = ""
        /\ S!GuestReads(input).why = "DepthExceeded" /\ S!BridgeReads(input).why = "DepthExceeded"
        /\ S!GuestReadsProp(S!Encode(deep)).why = "DepthExceeded"

-----------------------------------------------------------------------------
(* The bus. *)

CONSTANTS a, b, s1, s2

(* Two instances that listen to a topic each. *)
OneEach == s1 :> a @@ s2 :> b

TwoRanks == <<"first", "second">>

(* The broker of one process: from any two steps of two listeners and a publisher, what a
   publish does to each listener is one of three things, and the broker counts the second. *)
Chans == {<<>>, <<1>>}
Brokers == {[listens |-> [t \in Topic |-> IF t = a THEN on ELSE {s2}],
             queue |-> s1 :> q @@ s2 :> r, gone |-> gone, dropped |-> 0] :
              on \in SUBSET {s1, s2}, q, r \in Chans, gone \in SUBSET {s1, s2}}
ASSUME LocalLossIsCounted ==
    \A k \in Brokers, live \in BOOLEAN :
        LET p == LocalPublish(k, live, a, 2)
            got == {s \in Subscriber : p.broker.queue[s] = Append(k.queue[s], 2)}
        IN  IF live THEN Cardinality(got) + p.broker.dropped = Cardinality(k.listens[a] \ k.gone)
            ELSE got = {} /\ p.broker.dropped = 1 /\ p.delivery = "Dropped"
ASSUME BrokersForget ==
    LET k == LocalLeaves(LocalPublish(LocalSubscribe(NewBroker, s1, a), TRUE, a, 1).broker, s1)
    IN  k.queue[s1] = <<>> /\ LocalPublish(k, TRUE, a, 2).broker.listens[a] = {}

\* What parses is written back as it was read, and an id has no @ in it.
ASSUME CandidatesAreWritten ==
    /\ \A text \in Seqs({"n7", "@", ":", "1883"}, 5) : \A c \in ParseCandidate(text, {<<"1883">>}) :
          Written(c) = text /\ Places(c.id, "@") = {} /\ Places(c.port, ":") = {}
    /\ ParseCandidate(<<"n7", "@", "n7", ":", "1883">>, {<<"1883">>}) # {}

(* No pin, the second rank, and an id pubsub.toml does not list. *)
SomePins == {NoPin, "second", "elsewhere"}
=============================================================================
