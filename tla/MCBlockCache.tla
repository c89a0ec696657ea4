----------------------------- MODULE MCBlockCache -----------------------------
(***************************************************************************)
(* Policies of a node for TLC: lax, keyed, strict, strict without its key, *)
(* and both kinds of credential.  With them, what a node makes of the      *)
(* blocks it has: the bindings of engines and the reader of modules, on a  *)
(* few modules, calls and budgets (ticks are two units of time); and how a *)
(* published block gets to it (Publish).                                   *)
(***************************************************************************)
EXTENDS BlockCache, SequencesExt, TLC

E == INSTANCE Engine WITH ERR_UNSUPPORTED <- -7, Tick <- 2, U64Max <- 9
W == INSTANCE Reader

Upto(set, n) == UNION {[1..k -> set] : k \in 0..n}

-----------------------------------------------------------------------------
(* Engine *)

\* The four tables of host functions are one: the daemon's is its part of what it
\* implements, and of the reference host no arity is missing (reference.rs `link`, which
\* counts twenty-two functions where there are twenty-one).
ASSUME OneTable ==
    /\ E!Linked("wasm3") = {<<f, E!SpecOf(f)>> : f \in E!Published}
    /\ \A b \in {"wamr", "reference"} : E!Linked(b) = E!Linked("wasm3")
    /\ E!Linked("daemon") = {l \in E!Linked("wasm3") : l[1][1] \in {"core"} \cup E!Implemented}
    /\ \A i, j \in DOMAIN E!DaemonSlots : E!DaemonSlots[i] = E!DaemonSlots[j] => i = j
    /\ Cardinality(E!Published) = 21

\* Whatever a loaded block declares, every handler finds its place, once, on every
\* binding, and each call reaches its own: nothing is answered by another's handler.
Handlers(order) ==
    FoldLeft(LAMBDA slots, i : E!Register(slots, order[i], E!Ret(E!SpecOf(order[i]).result, i)),
             <<>>, [i \in DOMAIN order |-> i])
ASSUME EveryCallIsItsHandlers ==
    \A declared \in SUBSET E!Implemented, b \in E!Bindings :
        LET registered == E!Registered([capabilities |-> declared])
            order == SelectSeq(E!DaemonSlots, LAMBDA f : f \in registered)
            slots == Handlers(order)
        IN  /\ Range(order) = registered
            /\ \A i \in DOMAIN order :
                 ~E!Rejects(b, Handlers(SubSeq(order, 1, i - 1)), order[i]) /\ E!Rejects(b, slots, order[i])
            /\ \A i \in DOMAIN order :
                 E!Returned(b, order[i], E!HandlerFor(slots, order[i]), <<41>>, 42)
                     = IF E!SpecOf(order[i]).result = "none" THEN 0 ELSE i

\* A function nobody registered is said to be unsupported by wasmtime's hosts.  On WAMR
\* the guest gets its own first argument back, which the comment at the end of
\* `raw_trampoline` does not say (wamr-host/src/lib.rs).
ASSUME UnregisteredCalls ==
    \A f \in E!Published, n \in 0..2 :
        E!SpecOf(f).result = "i32" =>
            /\ \A b \in E!Wasmtime : E!Returned(b, f, E!HandlerFor(<<>>, f), <<n>>, 0) = -7
            /\ E!Returned("wamr", f, E!HandlerFor(<<>>, f), <<n>>, 0) = n

\* Of a block that gives its exports one result or none (which the reader of manifests sees
\* to), a call dies on all bindings or on none, with one answer; of the deaths, two bindings
\* tell budgets apart, and two call them traps.
Exports == [eio_start |-> <<"i32">>, eio_free |-> <<>>, wide |-> <<"i64">>]
Outcomes == [fails : {"nothing", "OutOfFuel", "Interrupt", "OtherTrap", "NotATrap"}, n : {0, 3}]
ASSUME DeathsAgree ==
    \A export \in {"eio_start", "eio_free", "wide", "absent", E!NulName}, args \in Upto({1}, 5),
       outcome \in Outcomes :
        LET Ends(b) == E!Call(b, Exports, export, args, outcome) IN
        /\ Ends("daemon") = Ends("reference") /\ Ends("wasm3") = Ends("wamr")
        /\ Ends("daemon").n = Ends("wamr").n
        /\ (Ends("daemon").died = "no") = (Ends("wamr").died = "no")
        /\ Ends("daemon").died = "no" =>
             outcome.fails = "nothing" /\ export = "eio_start" /\ Ends("daemon").n = outcome.n
        /\ Ends("wamr").died \notin {"Fuel", "Deadline"}

\* WAMR's strings tell every type of a host function from every other, so that it resolves
\* an import to a native exactly when the others link it; what it has registered survives
\* the next instance, and each native is called as the function it is.
TypesOf(n) == [params : Upto({"i32", "i64"}, n), result : {"none", "i32", "i64"}]
ASSUME SignaturesTellTypesApart ==
    \A t, u \in TypesOf(4) : E!SignatureString(t) = E!SignatureString(u) => t = u
ASSUME NativesAreTheTable ==
    LET runtime == E!EnsureRuntime([up |-> FALSE, natives |-> <<>>]) IN
    /\ E!EnsureRuntime(runtime) = runtime
    /\ \A f \in E!Published : runtime.natives[f].ctx = f
    /\ \A f \in E!Published \cup {<<"core", "open">>}, t \in TypesOf(2) \cup {E!SpecOf(g) : g \in E!Published} :
         E!Resolves(runtime.natives, f, t) <=> <<f, t>> \in E!Linked("wamr")

\* A handler of wasm3 is in its place again when it has answered, and the other hosts answer
\* the same; while it runs, it is the only one that is not there.
ASSUME HandlersComeBack ==
    \A some \in SUBSET {<<"core", "rand">>, <<"state", "state_del">>, <<"timer", "timer_cancel">>},
       f \in {<<"core", "rand">>, <<"core", "prop">>}, memory \in BOOLEAN :
        LET slots == [g \in some |-> E!Ret("i32", Cardinality(some))]
            r     == E!Wasm3Dispatch(slots, f, memory)
        IN  /\ r.left = slots
            /\ memory => DOMAIN r.beside = some \ {f} /\ r.ret = E!HandlerFor(slots, f)
            /\ E!ReferenceDispatch(slots, f, memory) = r.ret

\* A module that keeps to its budget begins on the reference host exactly when it begins on
\* wasm3; and its initialisation is not killed for want of fuel that nobody gave it.
Begins == [fuel : {0, 2, 3}, epochs : {0, 1}, traps : BOOLEAN]
Imports == {{<<f, E!SpecOf(f)>> : f \in {<<"core", "emit">>}}, {<<<<"core", "emit">>, E!StatusSig(2)>>},
            {<<<<"gpio", "gpio_read">>, E!StatusSig(1)>>}, {<<<<"env", "memcpy">>, E!StatusSig(3)>>}}
ASSUME HostsBeginAlike ==
    \A module \in [compiles : BOOLEAN, imports : Imports, memory : BOOLEAN, begins : Begins] :
        LET begins == E!ReferenceInstantiates(module, [fuel |-> 2, deadline |-> 3]) IN
        /\ begins => E!Wasm3Instantiates(module)
        /\ E!Wasm3Instantiates(module) => (begins <=> module.begins.fuel <= 2)

\* What a host function reaches through WAMR's handles is the memory there is, and nothing
\* of a memory that is not found.
ASSUME ViewsAreLive ==
    /\ E!ViewBytes({}) = 0
    /\ \A pages \in 0..2 : E!ViewBytes({[pages |-> pages, perPage |-> 4]}) = 4 * pages

\* No entry pays for another, be it the instantiation: what an entry dies of it dies of
\* alone, however much was burnt or left before it (engine.rs `Engine::call`).
Works == [fuel : {0, 2, 3}, epochs : {0, 1, 2}]
ASSUME EntriesAreBudgetedAlone ==
    \A works \in Upto(Works, 3), deadline \in {0, 1, 2, 3, 4} :
        LET budget == [fuel |-> 2, deadline |-> deadline]
            lived  == E!Life(budget, works)
        IN  \A i \in DOMAIN works :
              /\ lived.deaths[i] = E!Life(budget, <<works[i]>>).deaths[1]
              /\ works[i].epochs = 0 => "Interrupt" \notin lived.deaths[i]

\* The earliest a guest is interrupted is a tick before its deadline, whenever it was
\* entered; the latest, on a punctual ticker, is a tick after.  A ticker sleeps between its
\* counts and is late each time, so the bound above is the ticker's alone (EPOCH_TICK says
\* either side).
Instants(gaps) == [i \in DOMAIN gaps |-> FoldLeft(LAMBDA sum, g : sum + g, 0, SubSeq(gaps, 1, i))]
ASSUME DeadlinesAreNotEarly ==
    \A gaps \in [1..5 -> {2, 3}], now \in 0..3, deadline \in 0..6 :
        LET at == E!Interrupted(Instants(gaps), now, deadline) - now IN
        /\ at > 0 /\ at > deadline - 2
        /\ (\A i \in 1..5 : gaps[i] = 2) => at < (IF deadline = 0 THEN 1 ELSE deadline) + 2
ASSUME LateTickersDelay ==
    E!Interrupted(Instants(<<3, 3, 3, 3, 3>>), 0, 6) > 6 + 2

\* WAMR's handles: a refusal leaves none, whichever step it is, and the end of a guest
\* leaves none either.
ASSUME RefusalsLeaveNothing ==
    \A stack \in {0, 1}, pages \in {{}, {0}, {1}}, fails \in {{}} \cup {{s} : s \in Range(E!WamrSteps)} :
        LET r == E!WamrInstantiates(stack, pages, fails) IN
        IF r.why = "" THEN r.live = E!WamrDrops ELSE r.live = {}

\* Whatever is in the directory and whatever fails, a block compiles to itself or is
\* refused as without a cache; and once it was stored, it is not compiled again.
Blocks == {"x", "y", "bad"}
Good == {"x", "y"}
InDir(a) == {E!Torn, E!Compiled(a[1], "another")} \cup (IF a[1] \in Good THEN {E!Compiled(a[1], a[2])} ELSE {})
Names == {E!Artifact(w, "k") : w \in Blocks}
Dirs == UNION {{d \in [names -> UNION {InDir(a) : a \in Names}] : \A a \in names : d[a] \in InDir(a)}
                : names \in SUBSET Names}
ASSUME CacheIsInvisible ==
    \A files \in Dirs, w1 \in Blocks, w2 \in Blocks, d1 \in {"writes", "fails"}, keeps \in BOOLEAN :
        LET first  == E!Compile(files, w1, "k", Good, d1, keeps)
            second == E!Compile(first.dir, w2, "k", Good, "writes", keeps)
        IN  /\ first.is = E!Compile(<<>>, w1, "k", Good, d1, FALSE).is
            /\ second.is = E!Compile(<<>>, w2, "k", Good, "writes", FALSE).is
            /\ keeps /\ d1 = "writes" /\ w1 = w2 /\ w1 \in Good => ~second.compiled
            /\ second.dir \in Dirs

-----------------------------------------------------------------------------
(* Reader *)

Ty(params, results) == [params |-> params, results |-> results]
Sec(s, of) == [s |-> s, of |-> of]
Fn(n, index) == [name |-> n, kind |-> "func", index |-> index]
Mem(flag) == [min |-> 1, max |-> {}, flag |-> flag]
TypesIn == {<<Ty(<<"i32">>, <<>>), Ty(<<>>, <<"i64">>)>>, <<Ty(<<"v128">>, <<>>), Ty(<<>>, <<"ref">>)>>}
ImportsIn == {<<>>, <<Fn("f", 1)>>, <<Fn("f", 1), [name |-> "t", kind |-> "table", index |-> 0], Fn("g", 0)>>}
FunctionsIn == {<<0>>, <<1, 0>>}
MemoriesIn == {<<Mem("")>>, <<Mem("memory64")>>, <<Mem(""), Mem("shared")>>}
ExportsIn == <<Fn("a", 0), [name |-> "m", kind |-> "memory", index |-> 0], Fn("b", 2), Fn("c", 3)>>
LocalsIn == {<<>>, <<"i32", "ref">>, <<"unreadable", "ref">>, <<"none can be read">>}
OpsIn == {<<"plain">>, <<"plain", "table.copy">>, <<"unreadable", "table.copy">>, <<"return_call", "unreadable">>}

Modules ==
    {<<Sec("type", ty), Sec("import", im), Sec("function", fn), Sec("table", tb), Sec("memory", me),
       Sec("export", ExportsIn), Sec("code", [locals |-> lo, ops |-> op])>> \o cu :
         ty \in TypesIn, im \in ImportsIn, fn \in FunctionsIn, tb \in Upto({"t"}, 1), me \in MemoriesIn,
         lo \in LocalsIn, op \in OpsIn,
         cu \in {<<>>, <<Sec("manifest", 1)>>, <<Sec("manifest", 1), Sec("other", 0), Sec("manifest", 2)>>}}

\* What the policy is about, wherever in the module, and what of it comes after something
\* in the same body that cannot be read.
Has(seq, set) == \E i \in DOMAIN seq : seq[i] \in set
Barred == W!CarvedOut \cup W!MeasuredGaps \cup {"ref"}
BarredOutside(m) ==
    \/ \E i \in DOMAIN m[1].of : Has(m[1].of[i].params \o m[1].of[i].results, {"ref"})
    \/ \E i \in DOMAIN m[5].of : m[5].of[i].flag # ""
    \/ Len(m[4].of) + Cardinality({i \in DOMAIN m[2].of : m[2].of[i].kind = "table"}) > 1

BarredInBody(b) == Has(b.locals \o b.ops, Barred)
Undecodable(b) == Has(b.locals \o b.ops, {"unreadable", "none can be read"})

\* A policy adds refusals and changes nothing of what is read; and where no engine follows
\* it lets no construct pass, nor what it cannot read.  With an engine behind it, what
\* passes is behind something the engine cannot read either.
ASSUME PolicyOnlyRefuses ==
    \A m \in Modules :
        LET Plain == W!Read(m, "none")  Host == W!Read(m, "Engine")  Publisher == W!Read(m, "Nothing")
            body  == m[7].of
        IN  /\ Publisher.why = "" => Host = Publisher
            /\ Host.why = "" => Plain = Host
            /\ Plain.why \in {"", "DuplicateManifestSection"}
            /\ Host.why \notin {"", "DuplicateManifestSection"} => Publisher.why # ""
            /\ Publisher.why = "" => ~BarredOutside(m) /\ ~BarredInBody(body) /\ ~Undecodable(body)
            /\ Host.why = "" => ~BarredOutside(m) /\ (BarredInBody(body) => Undecodable(body))
            /\ ~BarredOutside(m) /\ ~BarredInBody(body) => Host.why = Plain.why

\* An exported function has the signature of its index, imports first, wherever the
\* exports stand; an index out of range has none.
Types(m) == m[1].of
IndexSpace(m) ==
    LET funcs == SelectSeq(m[2].of, LAMBDA i : i.kind = "func")
    IN  [i \in 1..Len(funcs) |-> funcs[i].index] \o m[3].of
ExportsFirst(m) == <<m[6]>> \o RemoveAt(m, 6)
ASSUME SignaturesFollowTheIndices ==
    \A m \in Modules :
        LET read == W!Read(m, "none") IN
        read.why = "" =>
            /\ W!Read(ExportsFirst(m), "none") = read
            /\ \A i \in DOMAIN ExportsIn :
                 LET e == ExportsIn[i] IN
                 read.is.exports[i].signature =
                     IF e.kind = "func" /\ e.index < Len(IndexSpace(m))
                     THEN {W!FuncType(Types(m)[IndexSpace(m)[e.index + 1] + 1])} ELSE {}

\* A second memory is not refused by the reader for being one (module.rs says it is): only
\* the first is read, and what bounds the second is the engine.
ASSUME SecondMemoriesPass ==
    LET m == <<Sec("memory", <<Mem(""), [Mem("") EXCEPT !.min = 9]>>)>> IN
    W!Read(m, "Nothing").why = "" /\ W!Read(m, "Nothing").is.pages = <<1, {}>>

-----------------------------------------------------------------------------
(* Policies. *)

Policy(key, require, credential) ==
    [key |-> key, require |-> require, credential |-> credential]

AllPolicies ==
    {Policy(FALSE, FALSE, "none"), Policy(TRUE, FALSE, "basic"),
     Policy(TRUE, TRUE, "bearer"), Policy(FALSE, TRUE, "none")}

-----------------------------------------------------------------------------
(* Publishing and pulling. *)

Pub == INSTANCE Publish WITH Significand <- 3, SystemNames <- {<<"s">>}
Strings(set, n) == UNION {[1..k -> set] : k \in 0..n}
References == Strings({"b", ":", "/", "@", "."}, 6)
Versions == {<<"1", ".", "0", ".", "0">>, <<"1", ".", "0", ".", "0", "-", "b", ".", "1">>,
             <<"1", ".", "0", ".", "0", "+", "b">>}
Namespaces == Strings({"b", "/", ":", "@"}, 3) \ {<<>>}
RegistryHosts == {<<"localhost">>, <<"localhost", ":", "1">>, <<"b", ".", "e">>, <<"b">>}

\* What the pull fetches and what the cache calls it are one reading of a reference: the
\* entry is the last part of the repository, under the pin.  What the pull would fetch and
\* the cache cannot keep ends in no ordinary name, or in a digest that is not one.
ASSUME OneReading ==
    \A r \in References \cup {h \o <<"/", "b">> \o d : h \in RegistryHosts,
             d \in {<<"@", "sha256", ":", "B", "0">>, <<"@", "sha256", ":", "b", "0">>, <<":", "1", "@", "sha256", ":", "0">>,
                    <<"@", "b", ":", "0">>, <<"@", "sha256">>}} :
        \A at \in Pub!Locate(r) : \A e \in Pub!Parse(r) :
            /\ e.name = Pub!LastPart(at.repository)
            /\ e.version \in {at.pin} \cup {<<"sha256", "-">> \o hex : hex \in Pub!After(at.pin, ":")}

\* A cached block is listed, and the reference it is listed by is its own; but one named as a
\* host-native block never runs.
ASSUME ListedResolves ==
    \A r \in References \cup {<<"s", ":", "1">>, <<"b", "@", "sha256", ":", "B">>, <<"b", ":", "e", "@", "sha256", ":", "0">>} :
        \A e \in Pub!Parse(r) :
            /\ Pub!Parse(Pub!ListedAs(e)) = {e} /\ Pub!CacheListing({e}, {e}) = {e}
            /\ Pub!Runs(Pub!ListedAs(e)) = {e} <=> e.name # <<"s">>

\* Whatever `publish` accepts, a pull of its reference asks for, over the scheme it was
\* pushed with, and the cache keeps; unless the namespace holds an `@`.
ASSUME PublishedIsReachable ==
    \A host \in RegistryHosts, n \in Namespaces, v \in Versions, name \in {<<"b">>, <<"b", ".", "e">>, <<"b", ".", ".", "e">>} :
        LET m == [name |-> name, version |-> v]
            r == Pub!Reference(host, n, m)
            there == {[host |-> host, repository |-> Pub!Repository(n, name), pin |-> v]}
        IN  Pub!PublishTo(host \o <<"/">> \o n) = {[host |-> host, namespace |-> n]} /\ Pub!RefTag(v) =>
                /\ Pub!IsName(name, TRUE) /\ Pub!IsVersion(v)
                /\ IF "@" \in ToSet(n) THEN Pub!Locate(r) \cap there = {}
                   ELSE Pub!Locate(r) = there /\ Pub!Parse(r) = {m}
                /\ Pub!BaseUrl(host)[1] = Pub!Scheme(host)

\* A version is a tag unless it carries build metadata or is too long for one.
ASSUME TagsAreVersions ==
    /\ \A v \in Versions : Pub!RefTag(v) <=> "+" \notin ToSet(v)
    /\ LET long(n) == <<"1", ".", "0", ".", "0", "-">> \o [i \in 1..n |-> "b"]
       IN  Pub!IsVersion(long(123)) /\ ~Pub!RefTag(long(123)) /\ Pub!RefTag(long(122))

\* The rule means the loopback of IPv6, and cuts its address at the first colon.
ASSUME Ipv6LoopbackIsHttps ==
    \A host \in {<<"[", ":", ":", "1", "]">>, <<"[", ":", ":", "1", "]", ":", "1">>, <<":", ":", "1">>} :
        Pub!Scheme(host) = "https" /\ Pub!Scheme(<<"localhost", ":", "1">>) = "http"

\* Every tag of a repository is listed as a reference that can be browsed, from the hosts
\* it may be.
ASSUME TagsAreBrowsable ==
    \A h \in RegistryHosts, n \in Namespaces, configured \in SUBSET RegistryHosts :
        \A at \in Pub!ListsTags(h \o <<"/">> \o n, configured) : \A r \in Pub!Available(h \o <<"/">> \o n, {<<"1">>}) :
            /\ at.host \in configured
            /\ "@" \notin ToSet(n) => \A seen \in {Pub!Browses(r, configured)} : seen = {[host |-> h, repository |-> n, pin |-> <<"1">>]}

-----------------------------------------------------------------------------
Empty == [blobs |-> {}, tags |-> [t \in {} |-> <<>>], signatures |-> {}]
Olds == {Empty} \cup {Pub!Published(Empty, [version |-> "1"], "old", key, k) : key \in BOOLEAN, k \in 0..4}
PullPolicies == [require : BOOLEAN, key : BOOLEAN]

\* A pull that overlaps a publish, cut off or not, reads the block that was there or the one
\* that comes, whole; a node that requires signatures is refused between the two pushes of
\* a signed one, and a block is never unreachable.
ASSUME PushedInOrder ==
    \A old \in Olds, key \in BOOLEAN, node \in PullPolicies, cut \in 0..4 : \A i \in 0..cut : \A j \in i..cut : \A s \in j..cut :
        LET at(k) == Pub!Published(old, [version |-> "1"], "new", key, k)
            got == Pub!Pull(at(i), at(j), at(s), "1", node)
        IN  /\ got \in {"old", "new"} \cup (IF i < 3 /\ old.tags = Empty.tags THEN {"absent"} ELSE {})
                       \cup (IF node.require THEN {"unsigned", "no key"} ELSE {})
            /\ i >= 3 /\ s >= 4 /\ key /\ (node.require => node.key) => got = "new"
            /\ got = "new" => i >= 3

\* An attestation beside a signature is passed over, wherever it stands; alone, it is none.
Referrers == UNION {[1..n -> [bundle : BOOLEAN, holds : {"attestation", "signature", "broken"}]] : n \in 0..3}
ASSUME AttestationsAreNoSignatures ==
    \A index \in Referrers :
        Pub!BundleOf(index) = Pub!BundleOf(SelectSeq(index, LAMBDA e : e.bundle /\ e.holds # "attestation"))

\* What a bundle's signature is made over tells its type from its payload, whatever digits
\* and spaces they hold.
ASSUME EncodingIsInjective ==
    LET texts == Strings({" ", "1", "0", "b"}, 3)
    IN  Cardinality({Pub!DssePae(t, p) : t, p \in texts}) = Cardinality(texts)^2

\* A challenge for two actions, in quotes, is read as one for the first: a push whose registry
\* asks for `pull,push` mints a token for `pull`.
ASSUME ScopesAreCut ==
    Pub!ChallengeParams(<<"r", "=", "'", "b", "'", ",", "s", "=", "'", "b", ":", "pull", ",", "push", "'">>) =
        (<<"r">> :> {<<"b">>} @@ <<"s">> :> {<<"b", ":", "pull">>})

\* One challenge is answered, with a token or not at all; no upload is taken for complete
\* that was not.
ASSUME OneChallenge ==
    \A first, second \in {0, 202, 401, 403} :
        LET bearer == [bearer |-> TRUE, params |-> <<"r", "=", "b">>]
            none == [bearer |-> TRUE, params |-> <<"s", "=", "b">>]
        IN  /\ Pub!Send(first, {bearer}, "token", second) = IF first = 401 THEN second ELSE first
            /\ Pub!BlobPushed(first, TRUE, second) <=> first = 202 /\ second = 202
            /\ ~Pub!BlobPushed(first, FALSE, second)
            /\ first = 401 => Pub!Send(first, {none}, "token", second) = 0 /\ Pub!Send(first, {}, "token", second) = 0

\* However a registry spells where an upload goes on, it is one place.
ASSUME OneSession ==
    \A host \in RegistryHosts, path \in Strings({"b", "/", ":"}, 2) \ {<<>>} :
        path[1] # "/" =>
            Cardinality({Pub!Absolute(host, l) : l \in {path, <<"/">> \o path, Pub!BaseUrl(host) \o <<"/">> \o path}}) = 1

\* Half a pair of credentials is refused, whichever half came from where.
ASSUME CredentialsComeInPairs ==
    \A flags, env \in [{"username", "password"} -> {{}, {"b"}}] :
        Pub!Credentials(flags, env) = "together" <=>
            (flags["username"] \cup env["username"] = {}) # (flags["password"] \cup env["password"] = {})
=============================================================================
