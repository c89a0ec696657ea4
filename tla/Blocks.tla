-------------------------------- MODULE Blocks --------------------------------
(***************************************************************************)
(* A block from its source to the module a host is asked to load: the      *)
(* rules a manifest obeys (crates/manifest/src/name.rs, validate.rs,       *)
(* schema.rs), what `#[block]` refuses and generates (block-sdk-macros),   *)
(* what `cargo eio build` makes of it (cargo-eio/src/build.rs), the        *)
(* descriptor and the values the block is then given (host-core/src/       *)
(* descriptor.rs, block-sdk), and the host a block's own tests drive it    *)
(* with (test-host).  A text is a sequence of characters; rustc and the    *)
(* linker are modelled by what the generated code relies on.               *)
(***************************************************************************)
EXTENDS Admission, Integers, Sequences, SequencesExt

CONSTANT Significand    \* bits of a float's significand: 53

Digit == {"0", "1"}
Capital == [b |-> "B", e |-> "E", f |-> "F", l |-> "L", r |-> "R", s |-> "S"]
Lower == DOMAIN Capital
Upper == {Capital[c] : c \in Lower}
Alnum == Lower \cup Digit

FirstOf(verdicts) == IF \E i \in DOMAIN verdicts : verdicts[i] # "ok"
                     THEN SelectSeq(verdicts, LAMBDA v : v # "ok")[1] ELSE "ok"
Ascending(S) == [k \in 1..Cardinality(S) |-> CHOOSE n \in S : Cardinality({m \in S : m <= n}) = k]
Repeated(s, i) == \E j \in 1..(i - 1) : s[j] = s[i]

-----------------------------------------------------------------------------
(* name.rs *)

MAX_NAME_BYTES == 64
IsName(t, dot) ==
    /\ Len(t) \in 1..MAX_NAME_BYTES
    /\ {t[1], t[Len(t)]} \subseteq Alnum
    /\ ToSet(t) \subseteq Alnum \cup {"_", "-"} \cup (IF dot THEN {"."} ELSE {})

Cuts(t, c) == {i \in DOMAIN t : t[i] = c}
Before(t, c) == IF Cuts(t, c) = {} THEN t ELSE SubSeq(t, 1, Min(Cuts(t, c)) - 1)
After(t, c) == IF Cuts(t, c) = {} THEN {} ELSE {SubSeq(t, Min(Cuts(t, c)) + 1, Len(t))}
Parts(t, c) ==
    LET ends == Ascending({0, Len(t) + 1} \cup Cuts(t, c))
    IN  [k \in 1..(Len(ends) - 1) |-> SubSeq(t, ends[k] + 1, ends[k + 1] - 1)]

Numeric(t) == t # <<>> /\ ToSet(t) \subseteq Digit /\ (t = <<"0">> \/ t[1] # "0")
BuildIdentifier(t) == t # <<>> /\ ToSet(t) \subseteq Alnum \cup Upper \cup {"-"}
PreRelease(t) == BuildIdentifier(t) /\ (ToSet(t) \subseteq Digit => Numeric(t))

IsVersion(t) ==
    LET rest == Before(t, "+")
        core == Parts(Before(rest, "-"), ".")
    IN  /\ \A build \in After(t, "+") : \A p \in ToSet(Parts(build, ".")) : BuildIdentifier(p)
        /\ \A pre \in After(rest, "-") : \A p \in ToSet(Parts(pre, ".")) : PreRelease(p)
        /\ Len(core) = 3 /\ \A p \in ToSet(core) : Numeric(p)

-----------------------------------------------------------------------------
(* The types a property may have, the values they accept, and the Rust types that   *)
(* read them.  A value is its kind, and for a number its whole part.                *)

PropertyType == {"bool", "int", "float", "string", "bytes", "any"}

IsExactlyAFloat(n) ==
    LET magnitude == IF n < 0 THEN -n ELSE n
        bits == {k \in 0..30 : 2^k <= magnitude}
        zeros == {k \in bits : magnitude % 2^k = 0}
    IN  magnitude = 0 \/ Max(bits) - Max(zeros) + 1 <= Significand

AcceptsValue(ty, v) ==
    \/ ty = "any"
    \/ v.kind = ty
    \/ ty = "float" /\ v.kind = "int" /\ IsExactlyAFloat(v.n)

\* The value a host encodes, if it serves one.
Conform(ty, v) ==
    IF ~AcceptsValue(ty, v) THEN {}
    ELSE IF ty = "float" /\ v.kind = "int" THEN {[v EXCEPT !.kind = "float"]} ELSE {v}

Reads == [bool |-> "bool", i64 |-> "int", f64 |-> "float", String |-> "string", Bytes |-> "bytes"]
FromValue(rust, v) == rust = "Value" \/ Reads[rust] = v.kind

\* impl Declared<D> for T
DeclaredAs == {<<"bool", "bool">>, <<"int", "i64">>, <<"float", "f64">>,
               <<"string", "String">>, <<"bytes", "Bytes">>, <<"any", "Value">>}

-----------------------------------------------------------------------------
(* Manifest::validate.  A default is absent, or it does not parse or analyse, or it  *)
(* depends on the signal, or it fails, or it folds to a value.                       *)

ERR == <<"e", "r", "r">>
PORTABLE_TARGET == <<"r", "s">>

PortsVerdict(ports) ==
    LET bad == {i \in DOMAIN ports : ~IsName(ports[i], FALSE) \/ ports[i] = ERR}
    IN  IF bad # {} THEN IF IsName(ports[Min(bad)], FALSE) THEN "ReservedName" ELSE "InvalidName"
        ELSE IF \E i \in DOMAIN ports : Repeated(ports, i) THEN "DuplicateName" ELSE "ok"

DefaultsVerdict(props) ==
    IF \E p \in ToSet(props) : ~IsName(p.name, FALSE) THEN "InvalidName"
    ELSE IF \E p \in ToSet(props) : p.default.is = "broken" THEN "InvalidDefaults"
    ELSE IF \E p \in ToSet(props) : p.default.is = "folds" /\ ~AcceptsValue(p.ty, p.default.value)
         THEN "DefaultTypeMismatch"
    ELSE IF \E i \in DOMAIN props : \E j \in 1..(i - 1) : props[i].name = props[j].name
         THEN "DuplicateName" ELSE "ok"

TargetsVerdict(targets) ==
    IF \E t \in ToSet(targets) : ~IsName(t, TRUE) THEN "InvalidName"
    ELSE IF \E i \in DOMAIN targets : Repeated(targets, i) THEN "DuplicateName" ELSE "ok"

Validate(m) ==
    FirstOf(<<IF IsName(m.name, TRUE) THEN "ok" ELSE "InvalidName",
              IF IsVersion(m.version) THEN "ok" ELSE "InvalidVersion",
              IF \E i \in DOMAIN m.capabilities : Repeated(m.capabilities, i) THEN "DuplicateName" ELSE "ok",
              PortsVerdict(m.inputs), PortsVerdict(m.outputs), DefaultsVerdict(m.properties),
              TargetsVerdict(m.targets), TargetsVerdict(m.aot),
              IF m.targets # <<>> /\ PORTABLE_TARGET \notin ToSet(m.targets)
              THEN "MissingPortableTarget" ELSE "ok">>)

\* `parse_with_max_bytes`: the bound, and what is refused before anything is parsed.
MIN_MANIFEST_BYTES == 8192
MAX_MANIFEST_BYTES == 65536
Oversized(bytes, bound) == bytes > Max({bound, MIN_MANIFEST_BYTES})

-----------------------------------------------------------------------------
(* block-sdk-macros: the arguments of `#[block(..)]` and of each `#[prop(..)]`, each *)
(* a key, the form it was given in, and what was given.  `identifiers` are texts.    *)

Wants(key) == IF key \in {"name", "version", "description"} THEN "string"
              ELSE IF key \in {"inputs", "outputs", "capabilities"} THEN "list" ELSE "unknown"

\* The variant of the generated enum; syn panics on one that is no identifier.
Pascal(t) ==
    LET kept == Ascending({i \in DOMAIN t : t[i] \notin {"_", "-"}})
        first(i) == i = 1 \/ t[i - 1] \in {"_", "-"}
    IN  [k \in DOMAIN kept |-> IF first(kept[k]) /\ t[kept[k]] \in Lower
                               THEN Capital[t[kept[k]]] ELSE t[kept[k]]]
Panics(t) == Pascal(t) = <<>> \/ Pascal(t)[1] \in Digit

ArgVerdict(args, i) ==
    LET a == args[i]
    IN  IF a.form = "path" THEN "expected a bare argument name"
        ELSE IF \E j \in 1..(i - 1) : args[j].key = a.key THEN "given twice"
        ELSE IF Wants(a.key) = "unknown" THEN "unknown argument"
        ELSE IF a.form # Wants(a.key) THEN "form"
        ELSE IF a.key = "capabilities" /\ ~(ToSet(a.value) \subseteq Capability) THEN "capability"
        ELSE IF a.key \in {"inputs", "outputs"} /\ \E t \in ToSet(a.value) : Panics(t) THEN "panic"
        ELSE "ok"
ArgsVerdict(args) == FirstOf([i \in DOMAIN args |-> ArgVerdict(args, i)])

Given(args, key, otherwise) ==
    LET at == {i \in DOMAIN args : args[i].key = key}
    IN  IF at = {} THEN otherwise ELSE args[Max(at)].value

\* `sanitize` drops every character an identifier cannot hold; a type's name is one
\* character here.
Sanitize(text) ==
    LET cleaned == SelectSeq(text, LAMBDA c : c \in PropertyType \cup Digit \cup {"_"})
    IN  IF cleaned = <<>> THEN <<"_">> ELSE IF cleaned[1] \in Digit THEN <<"_">> \o cleaned ELSE cleaned
IsType(text) == Len(Sanitize(text)) = 1 /\ Sanitize(text)[1] \in PropertyType

PropArgVerdict(a) ==
    IF a.form = "path" THEN "expected a bare argument name"
    ELSE IF a.key \in {"ty", "desc", "default"} THEN
         IF a.form # "string" THEN "form"
         ELSE IF a.key = "ty" /\ ~IsType(a.value) THEN "type" ELSE "ok"
    ELSE IF a.key = "required" THEN "ok" ELSE "unknown argument"

PropVerdict(field) ==
    FirstOf([i \in DOMAIN field.args |-> PropArgVerdict(field.args[i])]
            \o <<IF \E i \in DOMAIN field.args : field.args[i].key = "ty" THEN "ok" ELSE "no type">>)

\* The fields that are properties, in the order of the struct.
PropFields(item) == SelectSeq(item.fields, LAMBDA f : f.isProp)
Prop(f) == [name |-> f.name, ty |-> Sanitize(Given(f.args, "ty", <<>>))[1], rust |-> f.rust,
            default |-> Given(f.args, "default", [is |-> "absent"]),
            required |-> \E i \in DOMAIN f.args : f.args[i].key = "required"]

Parsed(args, item, crate) ==
    [name |-> Given(args, "name", <<>>), version |-> Given(args, "version", crate),
     inputs |-> Given(args, "inputs", <<>>), outputs |-> Given(args, "outputs", <<>>),
     capabilities |-> Given(args, "capabilities", <<>>),
     props |-> [i \in DOMAIN PropFields(item) |-> Prop(PropFields(item)[i])]]

\* Block::check
PortVerdict(ports, i) ==
    IF ports[i] = ERR THEN "reserved" ELSE IF ~IsName(ports[i], FALSE) THEN "name"
    ELSE IF Repeated(ports, i) THEN "duplicate" ELSE "ok"
CheckVerdict(b) ==
    LET names == [i \in DOMAIN b.props |-> b.props[i].name]
    IN  FirstOf([i \in DOMAIN b.inputs |-> PortVerdict(b.inputs, i)]
                \o [i \in DOMAIN b.outputs |-> PortVerdict(b.outputs, i)]
                \o [i \in DOMAIN b.capabilities |-> IF Repeated(b.capabilities, i) THEN "duplicate" ELSE "ok"]
                \o [i \in DOMAIN names |-> IF ~IsName(names[i], FALSE) THEN "name"
                                           ELSE IF Repeated(names, i) THEN "duplicate" ELSE "ok"]
                \o <<IF IsName(b.name, TRUE) THEN "ok" ELSE "name">>)

CURRENT == [major |-> 1, minor |-> 0]
ManifestOf(b) ==
    [name |-> b.name, version |-> b.version, abi |-> CURRENT, capabilities |-> b.capabilities,
     inputs |-> b.inputs, outputs |-> b.outputs,
     properties |-> [i \in DOMAIN b.props |-> [name |-> b.props[i].name, ty |-> b.props[i].ty,
                        default |-> b.props[i].default, required |-> b.props[i].required]],
     targets |-> <<PORTABLE_TARGET>>, aot |-> <<>>]

\* `expand`: parse and check, then the manifest about to be emitted, of `bytes` bytes.
ParseVerdict(args, item) ==
    FirstOf(<<ArgsVerdict(args),
              IF \E i \in DOMAIN args : args[i].key = "name" THEN "ok" ELSE "no name",
              IF item.named THEN "ok" ELSE "unnamed fields">>
            \o [i \in DOMAIN PropFields(item) |-> PropVerdict(PropFields(item)[i])])
Expands(args, item, crate, bytes) ==
    /\ ParseVerdict(args, item) = "ok"
    /\ CheckVerdict(Parsed(args, item, crate)) = "ok"
    /\ bytes <= MAX_MANIFEST_BYTES
    /\ Validate(ManifestOf(Parsed(args, item, crate))) = "ok"

-----------------------------------------------------------------------------
(* generate.rs: the two enums, and the numbers they and the properties stand for.    *)

PORT_ERR == -2    \* 0xFFFF_FFFE, as an i32
ErrVariant == <<"E", "r", "r">>
In(b) == [i \in DOMAIN b.inputs |-> [variant |-> Pascal(b.inputs[i]), index |-> i - 1, name |-> b.inputs[i]]]
Out(b) == [i \in DOMAIN b.outputs |-> [variant |-> Pascal(b.outputs[i]), index |-> i - 1, name |-> b.outputs[i]]]
          \o <<[variant |-> ErrVariant, index |-> PORT_ERR, name |-> ERR]>>

\* `build_expression` numbers the properties apart from the manifest.
Bound(item) == [i \in DOMAIN PropFields(item) |-> [field |-> PropFields(item)[i].name, id |-> i - 1]]

\* `optional_exports`
Exports(b) ==
    RequiredExports
    \cup (IF "timer" \in ToSet(b.capabilities) THEN {"eio_on_timer"} ELSE {})
    \cup (IF "gpio" \in ToSet(b.capabilities) THEN {"eio_on_gpio"} ELSE {})
    \cup (IF "http" \in ToSet(b.capabilities) THEN {"eio_on_http"} ELSE {})

\* `capability_trait`: the methods a block's code can call.
Callable(b) == UNION {{c} \X Functions(c) : c \in ToSet(b.capabilities)}

\* What rustc refuses of what is generated, and of code that calls `calls`.
Compiles(b, calls) ==
    /\ \A e \in {In(b), Out(b)} :
         /\ \A i, j \in DOMAIN e : e[i].variant = e[j].variant => i = j
         /\ \A i \in DOMAIN e : e[i].variant # <<"S", "e", "l", "f">>
    /\ \A p \in ToSet(b.props) : <<p.ty, p.rust>> \in DeclaredAs
    /\ calls \subseteq Callable(b)

\* The module: the linker keeps an import that is called, and no other.
Module(b, calls) ==
    [readable |-> TRUE, portable |-> TRUE, imports |-> ({"core"} \X CoreFunctions) \cup calls,
     exports |-> Exports(b), sound |-> Exports(b), pages |-> {1}, version |-> CURRENT,
     embedded |-> {[capabilities |-> ToSet(b.capabilities), abi |-> CURRENT, artifact |-> TRUE]}]

\* `compile`: what cargo reported, one message an artifact, and the one module of it.
Modules(messages) ==
    SelectSeq(FlattenSeq([i \in DOMAIN messages |->
                 IF messages[i].reason = "compiler-artifact" /\ "cdylib" \in messages[i].kinds
                 THEN messages[i].files ELSE <<>>]),
              LAMBDA file : file.ext = "wasm")
Builds(succeeded, messages) ==
    succeeded /\ Len(Modules(messages)) = 1
    /\ Admits(Modules(messages)[1].module, {}, CURRENT, {})

-----------------------------------------------------------------------------
(* The descriptor, as the host encodes it and as the block decodes it.               *)

Str(t)   == [cbor |-> "str", of |-> t]
Num(n)   == [cbor |-> "int", of |-> n]
Arr(s)   == [cbor |-> "array", of |-> s]
Map(f)   == [cbor |-> "map", of |-> f]
Strs(s)  == Arr([i \in DOMAIN s |-> Str(s[i])])

FromManifest(m, id, limits) ==
    [instance_id |-> IF id = {} THEN m.name ELSE CHOOSE i \in id : TRUE, block |-> m.name,
     inputs |-> m.inputs, outputs |-> m.outputs,
     props |-> [i \in DOMAIN m.properties |-> m.properties[i].name], limits |-> limits]

Present(set, key) == IF set = {} THEN {} ELSE {key}
ToValue(d) ==
    Map([instance_id |-> Str(d.instance_id), block |-> Str(d.block), inputs |-> Strs(d.inputs),
         outputs |-> Strs(d.outputs), props |-> Strs(d.props),
         limits |-> Map([k \in {"max_payload", "max_batch"}
                                \cup Present(d.limits.max_emission_bytes, "max_emission_bytes") |->
                           Num(CASE k = "max_payload" -> d.limits.max_payload
                                 [] k = "max_batch" -> d.limits.max_batch
                                 [] k = "max_emission_bytes" ->
                                      CHOOSE n \in d.limits.max_emission_bytes : TRUE)])])

HasText(f, key) == key \in DOMAIN f /\ f[key].cbor = "str"
HasNames(f, key) ==
    key \in DOMAIN f => f[key].cbor = "array" /\ \A i \in DOMAIN f[key].of : f[key].of[i].cbor = "str"
HasLimit(f, key) == key \in DOMAIN f /\ f[key].cbor = "int" /\ f[key].of >= 0
Names(f, key) == IF key \in DOMAIN f THEN [i \in DOMAIN f[key].of |-> f[key].of[i].of] ELSE <<>>

\* `Descriptor::from_cbor`: the descriptor, if the document is one.
FromCbor(doc) ==
    IF /\ doc.cbor = "map"
       /\ "limits" \in DOMAIN doc.of /\ doc.of.limits.cbor = "map"
       /\ HasText(doc.of, "instance_id") /\ HasText(doc.of, "block")
       /\ \A k \in {"inputs", "outputs", "props"} : HasNames(doc.of, k)
       /\ \A k \in {"max_payload", "max_batch"} : HasLimit(doc.of.limits.of, k)
       /\ "max_emission_bytes" \in DOMAIN doc.of.limits.of => HasLimit(doc.of.limits.of, "max_emission_bytes")
    THEN LET limits == doc.of.limits.of
         IN  {[instance_id |-> doc.of.instance_id.of, block |-> doc.of.block.of,
               inputs |-> Names(doc.of, "inputs"), outputs |-> Names(doc.of, "outputs"),
               props |-> Names(doc.of, "props"),
               limits |-> [max_payload |-> limits.max_payload.of, max_batch |-> limits.max_batch.of,
                           max_emission_bytes |-> IF "max_emission_bytes" \in DOMAIN limits
                                                  THEN {limits.max_emission_bytes.of} ELSE {}]]}
    ELSE {}

\* `position`, counted from zero.
IndexOf(names, wanted) ==
    LET at == {i \in DOMAIN names : names[i] = wanted} IN IF at = {} THEN {} ELSE {Min(at) - 1}

-----------------------------------------------------------------------------
(* What the capability wrappers make of an answer, and the documents of `http`.      *)

GpioRead(answer) == IF answer < 0 THEN "error" ELSE IF answer = 0 THEN "low"
                    ELSE IF answer = 1 THEN "high" ELSE "undecodable"

HeaderPairs(headers) == Arr([i \in DOMAIN headers |-> Arr(<<Str(headers[i][1]), Str(headers[i][2])>>)])
RequestDoc(r) ==
    Map([k \in {"method", "url"} \cup Present(ToSet(r.headers), "headers")
               \cup Present(ToSet(r.body), "body") \cup Present(r.timeout_ms, "timeout_ms") |->
           CASE k = "method" -> Str(r.method) [] k = "url" -> Str(r.url)
             [] k = "headers" -> HeaderPairs(r.headers)
             [] k = "body" -> [cbor |-> "bytes", of |-> r.body]
             [] k = "timeout_ms" -> Num(CHOOSE n \in r.timeout_ms : TRUE)])
ResponseDoc(r) == Map([headers |-> HeaderPairs(r.headers), body |-> [cbor |-> "bytes", of |-> r.body]])

IsPair(v) == v.cbor = "array" /\ Len(v.of) = 2 /\ \A x \in ToSet(v.of) : x.cbor = "str"
ReadResponse(status, doc) ==
    IF /\ doc.cbor = "map" /\ {"headers", "body"} \subseteq DOMAIN doc.of
       /\ doc.of.headers.cbor = "array" /\ \A v \in ToSet(doc.of.headers.of) : IsPair(v)
       /\ doc.of.body.cbor = "bytes"
    THEN LET pairs == doc.of.headers.of
         IN  {[status |-> status, body |-> doc.of.body.of,
               headers |-> [i \in DOMAIN pairs |-> <<pairs[i].of[1].of, pairs[i].of[2].of>>]]}
    ELSE {}

-----------------------------------------------------------------------------
(* The recorder behind the SDK's native build (raw.rs, `stub`), one to a thread, and *)
(* the host of a block's tests.  A payload is its length.                            *)

NotFound == -7
Silent == [calls |-> <<>>, reads |-> <<>>, ids |-> <<>>, levels |-> <<>>, refusal |-> {}]

Recorded(s, call) == [s EXCEPT !.calls = Append(@, call)]
Refusal(s) == CHOOSE code \in s.refusal : TRUE
OkOrRefusal(s) == IF s.refusal # {} THEN Refusal(s) ELSE 0

\* `sized_read`, and `state_get` over a store: an answer that does not fit stays queued.
SizedRead(s, cap) ==
    IF s.refusal # {} THEN [answer |-> Refusal(s), s |-> s]
    ELSE IF s.reads = <<>> THEN [answer |-> NotFound, s |-> s]
    ELSE [answer |-> Head(s.reads), s |-> IF Head(s.reads) > cap THEN s ELSE [s EXCEPT !.reads = Tail(@)]]
StateGet(s, store, key, cap) ==
    IF s.refusal # {} \/ s.reads # <<>> THEN SizedRead(s, cap)
    ELSE [answer |-> IF key \in DOMAIN store THEN store[key] ELSE NotFound, s |-> s]
StatePut(s, store, key, len) ==
    IF s.refusal # {} THEN store ELSE [k \in DOMAIN store \cup {key} |-> IF k = key THEN len ELSE store[k]]
StateDel(s, store, key) ==
    IF s.refusal # {} THEN store ELSE [k \in DOMAIN store \ {key} |-> store[k]]

\* `next_id` and `gpio_read`.
NextId(s) == IF s.refusal # {} THEN [answer |-> Refusal(s), s |-> s]
             ELSE IF s.ids = <<>> THEN [answer |-> 0, s |-> s]
             ELSE [answer |-> Head(s.ids), s |-> [s EXCEPT !.ids = Tail(@)]]
Level(s) == IF s.refusal # {} THEN [answer |-> Refusal(s), s |-> s]
            ELSE IF s.levels = <<>> THEN [answer |-> 0, s |-> s]
            ELSE [answer |-> Head(s.levels), s |-> [s EXCEPT !.levels = Tail(@)]]

\* What a wrapper decodes its answer by, and what the recorder answers: every call is
\* recorded, refused or not.
StateCalls == [state_get |-> "sized", state_put |-> "status", state_del |-> "status"]
TimerCalls == [timer_set |-> "id", timer_cancel |-> "status"]
GpioCalls  == [gpio_mode |-> "status", gpio_read |-> "level", gpio_write |-> "status",
               gpio_watch |-> "id", gpio_unwatch |-> "status"]
I2cCalls   == [i2c_write |-> "status", i2c_read |-> "sized", i2c_write_read |-> "sized"]
HttpCalls  == [http_request |-> "id"]

Stub(function, s, cap) ==
    LET r == Recorded(s, [is |-> function])
    IN  CASE function \in {"timer_set", "gpio_watch", "http_request"} -> NextId(r)
          [] function \in {"i2c_read", "i2c_write_read"} -> SizedRead(r, cap)
          [] function = "gpio_read" -> Level(r)
          [] OTHER -> [answer |-> OkOrRefusal(r), s |-> r]

\* `TestHost::drain`: every call the block recorded is taken, what it emitted and what
\* it reported is kept.
PortName(outputs, port) ==
    IF port = PORT_ERR THEN ERR
    ELSE IF port + 1 \in DOMAIN outputs THEN outputs[port + 1] ELSE <<"undeclared", port>>
Emitted(s, outputs) ==
    LET emits == SelectSeq(s.calls, LAMBDA c : c.is = "emit")
    IN  [i \in DOMAIN emits |-> [port |-> PortName(outputs, emits[i].port), batch |-> emits[i].batch]]
Drain(host, s) ==
    [host |-> [host EXCEPT !.emitted = @ \o Emitted(s, host.outputs),
                           !.errors = @ \o SelectSeq(s.calls, LAMBDA c : c.is = "error")],
     s |-> [s EXCEPT !.calls = <<>>]]

\* `TestHost::callback`, for a callback that records `calls`; `configure` attaches to
\* whatever the thread's recorder holds and drops the calls.
AfterCallback(host, s, calls, ok) ==
    Drain(host, [s EXCEPT !.calls = @ \o calls \o (IF ok THEN <<>> ELSE <<[is |-> "error"]>>)])
NewHost(outputs) == [outputs |-> outputs, emitted |-> <<>>, errors |-> <<>>]
Configured(outputs, s) == Drain(NewHost(outputs), s)
Delivers(port, inputs, signals, maxBatch) == port \in ToSet(inputs) /\ signals <= maxBatch
=============================================================================
