------------------------------- MODULE MCBlocks -------------------------------
(***************************************************************************)
(* The claims about blocks, evaluated over bounded sources, texts and      *)
(* documents.                                                              *)
(***************************************************************************)
EXTENDS Integers, Sequences, FiniteSets, SequencesExt, TLC
K == INSTANCE Blocks WITH Significand <- 3

TextsOver(set, n) == UNION {[1..k -> set] : k \in 0..n}

\* is_name accepts the language of the two patterns it is published as, at most
\* MAX_NAME_BYTES long.
ASSUME NamesAreThePatterns ==
    /\ \A dot \in BOOLEAN, t \in TextsOver({"b", "0", "-", ".", "B"}, 4) :
         K!IsName(t, dot) <=>
             \/ \E a \in {"b", "0"} : t = <<a>>
             \/ \E a, z \in {"b", "0"}, m \in TextsOver({"b", "0", "-"} \cup (IF dot THEN {"."} ELSE {}), 2) :
                  t = <<a>> \o m \o <<z>>
    /\ K!IsName([i \in 1..64 |-> "b"], FALSE) /\ ~K!IsName([i \in 1..65 |-> "b"], FALSE)

\* is_version peels a version at its first `+` and its first `-`; the published pattern
\* lets any cut match.
Number(t) == t = <<"0">> \/ (t # <<>> /\ t[1] = "1" /\ ToSet(t) \subseteq {"0", "1"})
Core(t) == \E i, j \in DOMAIN t :
             /\ i < j /\ t[i] = "." /\ t[j] = "."
             /\ Number(SubSeq(t, 1, i - 1)) /\ Number(SubSeq(t, i + 1, j - 1)) /\ Number(SubSeq(t, j + 1, Len(t)))
Dotted(t, ids) == \A i \in 0..Len(t), j \in 1..(Len(t) + 1) :
                    (i < j /\ (i = 0 \/ t[i] = ".") /\ (j = Len(t) + 1 \/ t[j] = ".")
                       /\ \A k \in (i + 1)..(j - 1) : t[k] # ".") => SubSeq(t, i + 1, j - 1) \in ids
Words == TextsOver({"0", "1", "b", "-"}, 4) \ {<<>>}
Tags == {w \in Words : ToSet(w) \subseteq {"0", "1"} => (w = <<"0">> \/ w[1] = "1")}
IsSemver(t) ==
    \E i, j \in 0..Len(t) :
        /\ i <= j /\ Core(SubSeq(t, 1, i))
        /\ i = j \/ (t[i + 1] = "-" /\ Dotted(SubSeq(t, i + 2, j), Tags))
        /\ j = Len(t) \/ (t[j + 1] = "+" /\ Dotted(SubSeq(t, j + 2, Len(t)), Words))
ASSUME VersionsAreThePattern ==
    \A head \in {<<"0", ".", "1", ".", "0">>, <<"1", "0", ".", "0", ".", "1">>, <<"0", ".", "1">>} :
        \A tail \in TextsOver({"0", "1", "b", "-", "+", "."}, 4) :
            K!IsVersion(head \o tail) <=> IsSemver(head \o tail)

\* With three bits of significand: what is accepted as a float is m * 2^e with m below 8.
ASSUME FloatsAreExact ==
    \A n \in -100..100 :
        K!IsExactlyAFloat(n) <=> \E m \in 0..7, e \in 0..6 : n \in {m * 2^e, -(m * 2^e)}

Kinds == {"null", "bool", "int", "float", "string", "bytes", "array", "map"}
Values == [kind : Kinds, n : {1, 9}]
\* The Rust type a property may be declared with is the one that reads every value the
\* host can serve of its type.
ASSUME DeclaredTypesAreRead ==
    \A ty \in K!PropertyType, rust \in DOMAIN K!Reads \cup {"Value"} :
        <<ty, rust>> \in K!DeclaredAs <=>
            /\ \A v \in Values : \A w \in K!Conform(ty, v) : K!FromValue(rust, w)
            /\ rust = "Value" => ty = "any"
-----------------------------------------------------------------------------
(* Blocks as they are written, and what becomes of them. *)

Absent == [is |-> "absent"]
Folds(v) == [is |-> "folds", value |-> v]
Arg(key, form, value) == [key |-> key, form |-> form, value |-> value]
Field(name, ty, rust, more) ==
    [isProp |-> TRUE, name |-> name, rust |-> rust, args |-> <<Arg("ty", "string", <<ty>>)>> \o more]
Own == [isProp |-> FALSE, name |-> <<"s">>, rust |-> "i64", args |-> <<>>]
PortTexts == {<<"b">>, <<"b", "_", "e">>, <<"b", "e">>, K!ERR, <<"e", "_", "r", "r">>, <<"B">>, <<"b", "_">>,
              <<"s", "e", "l", "f">>}
PortLists == {<<>>} \cup {<<t>> : t \in PortTexts} \cup {<<t, u>> : t, u \in PortTexts}
BlockOf(name, version, inputs, outputs, caps) ==
    <<Arg("name", "string", name), Arg("version", "string", version), Arg("inputs", "list", inputs),
      Arg("outputs", "list", outputs), Arg("capabilities", "list", caps)>>
V1 == <<"1", ".", "0", ".", "0">>
Struct(fields) == [named |-> TRUE, fields |-> fields]
Defaults == {Absent, [is |-> "broken"], [is |-> "fails"], Folds([kind |-> "int", n |-> 9]), Folds([kind |-> "int", n |-> 1])}
Default(d) == IF d = Absent THEN <<>> ELSE <<Arg("default", "string", d)>>
Structs == {Struct(<<>>)} \cup {Struct(<<Own, Field(n, "float", r, Default(d)), Own, Field(<<"b">>, "any", "Value", <<>>)>>) :
              n \in {<<"b">>, <<"e">>, <<"B">>}, r \in {"f64", "i64"}, d \in Defaults}
Sources ==
    {<<BlockOf(n, v, i, <<>>, <<>>), Struct(<<>>)>> :
        n \in {<<"b", ".", "b">>, <<"b", ".">>}, v \in {V1, <<"1">>}, i \in PortLists}
    \cup {<<BlockOf(<<"b">>, V1, <<<<"b">>>>, o, c), Struct(<<>>)>> : o \in PortLists, c \in {<<>>, <<"state", "state">>}}
    \cup {<<BlockOf(<<"b">>, V1, <<<<"e">>, <<"b">>>>, <<<<"b">>>>, <<"state">>), s>> : s \in Structs}
Written(src) == K!ParseVerdict(src[1], src[2]) = "ok"
Blk(src) == K!Parsed(src[1], src[2], V1)
Expands(src) == K!Expands(src[1], src[2], V1, 100)

\* What `Block::check` lets through is refused for nothing but its version and its
\* defaults; and it refuses nothing the manifest would not be refused for.
ASSUME CheckLeavesTheContent ==
    \A src \in Sources :
        Written(src) =>
            LET verdict == K!Validate(K!ManifestOf(Blk(src)))
            IN  IF K!CheckVerdict(Blk(src)) = "ok"
                THEN verdict \in {"ok", "InvalidVersion", "InvalidDefaults", "DefaultTypeMismatch"}
                ELSE verdict # "ok"

\* One number for a port and for a property: the variant's, the bound handle's, and the
\* position the descriptor tells.  Nothing but the reserved port is `Err`.
ASSUME OneNumber ==
    \A src \in Sources :
        Expands(src) =>
            LET b == Blk(src)
                d == K!FromManifest(K!ManifestOf(b), {}, [max_payload |-> 8, max_batch |-> 2, max_emission_bytes |-> {}])
            IN  /\ \A e \in ToSet(K!In(b)) : K!IndexOf(d.inputs, e.name) = {e.index}
                /\ \A e \in ToSet(K!Out(b)) :
                     /\ K!IndexOf(d.outputs, e.name) = IF e.name = K!ERR THEN {} ELSE {e.index}
                     /\ e.variant = K!ErrVariant <=> e.index = K!PORT_ERR
                /\ \A p \in ToSet(K!Bound(src[2])) : K!IndexOf(d.props, p.field) = {p.id}

\* A block that expands and does not compile has two ports of one variant, a port that
\* is no variant, or a field of another type than it declares.
Twins == <<BlockOf(<<"b">>, V1, <<<<"b", "_", "0">>, <<"b", "0">>>>, <<>>, <<>>), Struct(<<>>)>>
ASSUME TwinsDoNotCompile == Expands(Twins) /\ ~K!Compiles(Blk(Twins), {})

\* `#[block]` refuses an argument given twice; `#[prop]` takes the last, and drops from a
\* type what an identifier cannot hold.
ASSUME PropArgumentsAreLax ==
    LET twice == Field(<<"b">>, "int", "f64", <<Arg("ty", "string", <<"-", "float">>)>>)
    IN  /\ K!ArgsVerdict(<<Arg("name", "string", <<"b">>), Arg("name", "string", <<"b">>)>>) = "given twice"
        /\ K!PropVerdict(twice) = "ok" /\ K!Prop(twice).ty = "float"

Plain(caps) == [name |-> <<"b">>, version |-> V1, inputs |-> <<>>, outputs |-> <<>>, props |-> <<>>, capabilities |-> SetToSeq(caps)]

\* A block that compiles builds if it calls every capability a callback is paired with; a
\* daemon then loads it unless it declares what no daemon implements.
ASSUME DeclaredIsCalled ==
    \A caps \in SUBSET K!Capability : \A calls \in SUBSET {<<c, CHOOSE g \in K!Functions(c) : TRUE>> : c \in K!Capability} :
        LET b == Plain(caps)
            m == K!Module(b, calls)
            built == K!Builds(TRUE, <<[reason |-> "compiler-artifact", kinds |-> {"cdylib"}, files |-> <<[ext |-> "wasm", module |-> m]>>]>>)
        IN  K!Compiles(b, calls) =>
                /\ built <=> \A c \in caps : K!Callback(c) # {} => \E call \in calls : call[1] = c
                /\ \A manifest \in m.embedded :
                     K!DaemonLoads(m, manifest, K!CURRENT) <=> built /\ caps \subseteq K!Implemented

-----------------------------------------------------------------------------
(* The descriptor and the documents of `http`. *)

Descriptors == [instance_id : {<<"b">>}, block : {<<"e">>}, inputs : {<<>>, <<<<"b">>, <<"e">>>>}, outputs : {<<>>, <<<<"b">>>>},
                props : {<<>>, <<<<"r">>>>}, limits : [max_payload : {0, 8}, max_batch : {1}, max_emission_bytes : {{}, {0}, {4}}]]
\* The block decodes what the host said, an unbounded queue as unbounded; and no document
\* short of a field.
ASSUME DescriptorsAreRead ==
    \A d \in Descriptors :
        /\ K!FromCbor(K!ToValue(d)) = {d}
        /\ \A key \in DOMAIN d : K!FromCbor(K!Map([k \in DOMAIN d \ {key} |-> K!ToValue(d).of[k]])) =
                IF key \in {"inputs", "outputs", "props"} THEN {[d EXCEPT ![key] = <<>>]} ELSE {}
        /\ K!FromCbor(K!Map([K!ToValue(d).of EXCEPT !.inputs = K!Arr(<<K!Num(1)>>)])) = {}
        /\ K!FromCbor(K!Map([K!ToValue(d).of EXCEPT !.limits = K!Map([@.of EXCEPT !.max_batch = K!Num(-1)])])) = {}

Headers == {<<>>, <<<<"b", "e">>, <<"b", "r">>>>}
Responses == [status : {-8, 200}, headers : Headers, body : {<<>>, <<"e">>}]
\* A repeated header survives, in its order; a response without its headers does not.
ASSUME ResponsesAreRead ==
    \A r \in Responses :
        /\ K!ReadResponse(r.status, K!ResponseDoc(r)) = {r}
        /\ \A key \in {"headers", "body"} :
             K!ReadResponse(r.status, K!Map([k \in {"headers", "body"} \ {key} |-> K!ResponseDoc(r).of[k]])) = {}

-----------------------------------------------------------------------------
(* The host of a block's tests. *)

\* `sized` over the recorder: the offers of `grow_and_retry`, from `cap` on.
Sized(s, cap) == LET first == K!SizedRead(s, cap)
                 IN  IF first.answer > cap THEN K!SizedRead(first.s, first.answer) ELSE first
Stubs == {[K!Silent EXCEPT !.reads = r, !.ids = i, !.refusal = f] :
            r \in {<<>>, <<3>>, <<90, 3>>}, i \in {<<>>, <<7>>}, f \in {{}, {-8}}}
Stores == {<<>>, [k \in {"k"} |-> 5]}

\* A queued answer is read once, however often it is asked for in a larger buffer; a value
\* that was put is got, if nothing is queued; and a refusal stays, for this host and for
\* the next one of the thread.
ASSUME RecorderAnswers ==
    \A s \in Stubs, store \in Stores :
        /\ s.refusal = {} /\ s.reads # <<>> =>
             Sized(s, 64).answer = Head(s.reads) /\ Sized(s, 64).s.reads = Tail(s.reads)
        /\ s.refusal = {} /\ s.reads = <<>> =>
             /\ K!StateGet(s, K!StatePut(s, store, "k", 9), "k", 64).answer = 9
             /\ K!StateGet(s, K!StateDel(s, store, "k"), "k", 64).answer = K!NotFound
        /\ s.refusal # {} =>
             LET next == K!Configured(<<>>, s).s
             IN  /\ K!StatePut(next, store, "k", 9) = store
                 /\ {K!NextId(next).answer, K!Level(next).answer, K!OkOrRefusal(next)} = s.refusal

\* Every function of a capability has one wrapper, and the recorder answers it what that
\* wrapper reads: a status, an id, a level, or the length of what was queued.
Conventions == K!StateCalls @@ K!TimerCalls @@ K!GpioCalls @@ K!I2cCalls @@ K!HttpCalls
ASSUME WrappersReadTheStub ==
    /\ DOMAIN Conventions = UNION {K!Functions(c) : c \in K!Capability}
    /\ \A f \in DOMAIN Conventions \ {"state_get"}, s \in {[K!Silent EXCEPT !.reads = <<3>>, !.ids = <<7>>, !.levels = <<1>>]} :
         K!Stub(f, s, 64).answer = CASE Conventions[f] = "status" -> 0 [] Conventions[f] = "id" -> 7
                                     [] Conventions[f] = "level" -> 1 [] Conventions[f] = "sized" -> 3

\* An answer longer than the first buffer is two calls, which on a bus are two transactions.
ASSUME LongReadsAreTwoCalls ==
    \A f \in K!Functions("i2c") : Conventions[f] = "sized" =>
        LET first == K!Stub(f, [K!Silent EXCEPT !.reads = <<90>>], 64)
        IN  first.answer = 90 /\ K!Stub(f, first.s, first.answer).s.calls = <<[is |-> f], [is |-> f]>>

\* Everything a callback emitted is seen by the name of its port, in order, the error
\* port's by its own, and once: the recorder is left empty.
ASSUME EmissionsAreSeen ==
    LET calls == <<[is |-> "emit", port |-> 0, batch |-> 1], [is |-> "log"], [is |-> "emit", port |-> K!PORT_ERR, batch |-> 2],
                   [is |-> "emit", port |-> 4, batch |-> 3]>>
        after == K!AfterCallback(K!NewHost(<<<<"b">>>>), K!Silent, calls, FALSE)
    IN  /\ [i \in DOMAIN after.host.emitted |-> after.host.emitted[i].batch] = <<1, 2, 3>>
        /\ after.host.emitted[1].port = <<"b">> /\ after.host.emitted[2].port = K!ERR
        /\ Len(after.host.errors) = 1 /\ after.s.calls = <<>>
        /\ K!AfterCallback(after.host, after.s, <<>>, TRUE).host = after.host
=============================================================================
