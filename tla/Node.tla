-------------------------------- MODULE Node ---------------------------------
(***************************************************************************)
(* A node around its services: the data directory it provisions and reads  *)
(* when it starts (crates/daemon/src/node.rs, lib.rs), the routes of its   *)
(* API and what each failure answers (api.rs, api/auth.rs, api/error.rs,   *)
(* api/node.rs), and `dev run-block`, which drives one block without a     *)
(* node (main.rs, run.rs).                                                 *)
(*                                                                         *)
(* What may be absent is a set of at most one element.  A path is the      *)
(* sequence of its segments.  A document of TOML says a function from keys *)
(* to values, or is not one (~ok); the keys of its sections are flat.      *)
(***************************************************************************)
EXTENDS Naturals, Sequences, FiniteSets, SequencesExt

CONSTANTS
    U32Max,         \* what a count of 32 bits holds
    MAX_DEPTH,      \* the deepest batch a boundary decodes (eio-signal)
    Defaults,       \* of every key of node.toml that has one
    FLOORS,         \* of the budgets of expressions
    Addresses,      \* what parses as a socket address
    Capabilities    \* the namespaces this daemon implements

NotTOML == [ok |-> FALSE, says |-> <<>>]
Says(f) == [ok |-> TRUE, says |-> f]

-----------------------------------------------------------------------------
(* The data directory: a record of its files, and `trees`, the directories *)
(* of services, blocks, compiled blocks and state it has.                  *)

TREES == {"services", "blocks", "precompiled", "state"}

\* The keys of node.toml, in the order the template writes them.
KEYS == <<"id", "listen", "max_payload", "max_batch", "fuel", "deadline_ms", "max_fuel", "max_depth",
          "max_range", "max_value_bytes", "mailbox", "require_signed", "key">>
WORDS == {"max_payload", "max_batch", "max_fuel", "max_depth", "max_range", "max_value_bytes"}
TEMPLATE(id) == [k \in ToSet(KEYS) |-> IF k = "id" THEN id ELSE Defaults[k]]

\* Each is written only where there is none.
Provided(file, text) == IF file = {} THEN {text} ELSE file
ProvisionGitignore(dir) == [dir EXCEPT !.trees = TREES, !.gitignore = Provided(@, "*")]
ProvisionToken(dir, token) == [dir EXCEPT !.token = Provided(@, token)]
ProvisionToml(dir, id) == [dir EXCEPT !.toml = Provided(@, Says(TEMPLATE(id)))]

\* One entry of registries.toml: a token, or a user with a password.
Credential(entry) ==
    CASE entry.token # {} /\ entry.username = {} /\ entry.password = {} ->
            {[is |-> "Bearer", of |-> entry.token]}
      [] entry.token = {} /\ entry.username # {} /\ entry.password # {} ->
            {[is |-> "Basic", of |-> entry.username \cup entry.password]}
      [] OTHER -> {}
LoadRegistries(file) ==
    IF file = {} THEN {<<>>}
    ELSE {[host \in DOMAIN f.says |-> CHOOSE c \in Credential(f.says[host]) : TRUE] :
            f \in {f \in file : f.ok /\ \A host \in DOMAIN f.says : Credential(f.says[host]) # {}}}

\* No unknown key, an id, and counts of their width; the rest is a default.
FileOf(text) ==
    IF /\ text.ok /\ DOMAIN text.says \subseteq ToSet(KEYS) \cup {"name"} /\ "id" \in DOMAIN text.says
       /\ \A k \in WORDS \cap DOMAIN text.says : text.says[k] <= U32Max
    THEN {[k \in ToSet(KEYS) \cup (DOMAIN text.says) |->
             IF k \in DOMAIN text.says THEN text.says[k] ELSE Defaults[k]]} ELSE {}

\* `keys` are the files a `[blocks] key` may name, with what they hold.
SigningOf(file, keys) ==
    IF file.key \notin DOMAIN keys THEN {[require |-> file.require_signed, key |-> {}]}
    ELSE IF keys[file.key] = "PEM" THEN {[require |-> file.require_signed, key |-> {file.key}]} ELSE {}
Larger(m, n) == IF m > n THEN m ELSE n
IntoNode(file, dir, credentials) ==
    IF file.id # "" /\ file.mailbox > 0 /\ file.listen \in Addresses
    THEN {[id |-> file.id, name |-> IF "name" \in DOMAIN file THEN {file.name} ELSE {},
           listen |-> file.listen, max_payload |-> file.max_payload, max_batch |-> file.max_batch,
           fuel |-> file.fuel, deadline_ms |-> file.deadline_ms,
           eval |-> [k \in DOMAIN FLOORS |-> Larger(file[k], FLOORS[k])],
           decode |-> Larger(MAX_DEPTH, Larger(file.max_depth, FLOORS.max_depth)),
           mailbox |-> file.mailbox, signing |-> s, credentials |-> credentials, token |-> dir.token] :
            s \in SigningOf(file, dir.keys)}
    ELSE {}

\* `Node::open`, with the token and the id it would mint.
Open(dir, token, id) ==
    LET tokened     == ProvisionToken(ProvisionGitignore(dir), token)
        credentials == LoadRegistries(tokened.registries)
        whole       == ProvisionToml(tokened, id)
    IN  IF credentials = {} THEN [dir |-> tokened, node |-> {}]
        ELSE [dir |-> whole,
              node |-> UNION {UNION {IntoNode(f, whole, c) : f \in FileOf(t)} : t \in whole.toml, c \in credentials}]

\* A write that ends early, on a full disk or with its process, leaves a prefix: of the
\* template its first keys, the last of them with fewer digits, or no document.
Cuts(id) ==
    {NotTOML} \cup {Says([k \in {KEYS[i] : i \in 1..n} |-> TEMPLATE(id)[k]]) : n \in 0..Len(KEYS)}
    \cup {Says([k \in {KEYS[i] : i \in 1..n} |->
                 IF k = KEYS[n] THEN TEMPLATE(id)[k] \div 10 ELSE TEMPLATE(id)[k]]) :
            n \in {n \in 1..Len(KEYS) : KEYS[n] \in WORDS \cup {"fuel", "deadline_ms", "mailbox"}}}
Killed(dir, token, id) ==
    LET first  == ProvisionGitignore(dir)
        second == ProvisionToken(first, token)
    IN  {[dir EXCEPT !.trees = @ \cup t] : t \in SUBSET TREES} \cup {first, second, Open(dir, token, id).dir}
        \cup {[first EXCEPT !.gitignore = {""}] : g \in {g \in {1} : dir.gitignore = {}}}
        \cup {[first EXCEPT !.token = {""}] : g \in {g \in {1} : dir.token = {}}}
        \cup {[second EXCEPT !.toml = {c}] : c \in IF dir.toml = {} /\ LoadRegistries(dir.registries) # {}
                                                   THEN Cuts(id) ELSE {}}

\* `run_node`: what ends it before its services are booted, in this order.
StartUp(opened, binds, stores, pubsub) ==
    CASE opened.node = {} -> "open" [] ~binds -> "bind" [] ~stores -> "store" [] ~pubsub -> "pubsub"
      [] OTHER -> "boots"

-----------------------------------------------------------------------------
(* The API. *)

Param == {"{service}", "{instance}", "{namespace}", "{tap}"}
REST == "{*reference}"

UnauthenticatedRoutes == {<<{"GET"}, <<"openapi.json">>>>}
Routes ==
    {<<{"GET"}, <<"node">>>>,
     <<{"GET"}, <<"blocks">>>>, <<{"POST"}, <<"blocks", "pull">>>>,
     <<{"GET"}, <<"blocks", "available">>>>, <<{"GET"}, <<"blocks", "available", REST>>>>,
     <<{"GET"}, <<"services">>>>, <<{"GET", "PUT", "DELETE"}, <<"services", "{service}">>>>,
     <<{"GET"}, <<"services", "{service}", "errors">>>>}
    \cup {<<{"POST"}, <<"services", "{service}", verb>>>> : verb \in {"start", "stop", "reload"}}
    \cup {<<{"GET"}, <<"services", "{service}", "state", "{instance}">>>>,
          <<{"GET"}, <<"state", "orphans">>>>, <<{"DELETE"}, <<"state", "orphans", "{namespace}">>>>,
          <<{"GET", "POST"}, <<"taps">>>>, <<{"DELETE"}, <<"taps", "{tap}">>>>,
          <<{"GET"}, <<"taps", "{tap}", "stream">>>>, <<{"GET"}, <<"logs", "stream">>>>}

\* A segment is not empty where a pattern takes any.
Fits(pattern, path) ==
    LET front == Len(pattern) - 1
        takes(i) == pattern[i] = path[i] \/ (pattern[i] \in Param /\ path[i] # "")
    IN  IF Last(pattern) = REST
        THEN Len(path) > front /\ (\A i \in 1..front : takes(i)) /\ SubSeq(path, front + 1, Len(path)) # <<"">>
        ELSE Len(path) = Len(pattern) /\ \A i \in DOMAIN pattern : takes(i)
Matched(path) == {r \in Routes \cup UnauthenticatedRoutes : Fits(r[2], path)}
IsUnauthenticated(route) == route \in UnauthenticatedRoutes

Kind == {"unauthorized", "not_found", "bad_request", "invalid", "unresolvable", "unstartable",
         "precondition_required", "conflict", "running", "internal"}
Status(kind) ==
    CASE kind = "unauthorized" -> 401 [] kind = "not_found" -> 404 [] kind = "bad_request" -> 400
      [] kind \in {"invalid", "unresolvable", "unstartable"} -> 422
      [] kind = "precondition_required" -> 428 [] kind = "conflict" -> 412
      [] kind = "running" -> 409 [] kind = "internal" -> 500
Envelope(kind) == [status |-> Status(kind), error |-> {kind}]

\* The first authorization header, if it is a bearer's; GET answers HEAD too.
Presented(headers) == IF headers # <<>> /\ headers[1].scheme = "Bearer" THEN headers[1].token ELSE ""
Answers(methods, method) == method \in methods \/ (method = "HEAD" /\ "GET" \in methods)
NotRouted == Envelope("not_found")
WrongMethod == Envelope("bad_request")
Served(route) == [served |-> route]
RequireToken(route, headers, token) ==
    IF IsUnauthenticated(route) \/ Presented(headers) = token THEN Served(route) ELSE Envelope("unauthorized")
Handle(method, path, headers, token) ==
    IF Matched(path) = {} THEN NotRouted
    ELSE LET route == CHOOSE r \in Matched(path) : TRUE
         IN  IF Answers(route[1], method) THEN RequireToken(route, headers, token) ELSE WrongMethod

\* A failure of boot, by what an operator does next.
FailureKind(failure) ==
    CASE failure \in {"Invalid", "Unwireable", "Misnamed"} -> "invalid"
      [] failure \in {"Unresolvable", "Unpullable", "Unloadable", "Uncapable"} -> "unresolvable"
      [] failure = "Unstartable" -> "unstartable" [] failure = "Unreadable" -> "internal"
Stage(failure) == IF failure = "Invalid" THEN {1} ELSE IF failure = "Unwireable" THEN {2} ELSE {}

\* GET /node, from which a client decides whether a service can run here.
NodeInfo(node) ==
    [id |-> node.id, name |-> node.name, capabilities |-> Capabilities,
     max_payload |-> node.max_payload, max_batch |-> node.max_batch, fuel |-> node.fuel,
     deadline_ms |-> node.deadline_ms, expr_max_fuel |-> node.eval.max_fuel,
     require_signed |-> node.signing.require]

-----------------------------------------------------------------------------
(* dev run-block.  An argument is the sequence of its texts between `=`.   *)

Property(argument) ==
    IF Len(argument) > 1 /\ argument[1] # ""
    THEN {[name |-> argument[1], expression |-> SubSeq(argument, 2, Len(argument))]} ELSE {}
Props(properties) ==
    [name \in {p.name : p \in ToSet(properties)} |->
        LET last == CHOOSE i \in DOMAIN properties :
                      properties[i].name = name /\ \A j \in i+1..Len(properties) : properties[j].name # name
        IN  properties[last].expression]
\* A batch is an argument, a file or none; both together are not parsed.
BatchOf(args) == IF args.batch_file # {} THEN args.batch_file ELSE args.batch

\* The events of an instance to the end of its thread.
Of(kinds, events) == SelectSeq(events, LAMBDA e : e.is \in kinds)
RunReport(events) ==
    CASE Of({"Died"}, events) # <<>> -> [ok |-> FALSE, why |-> "died"]
      [] OTHER ->
           IF Of({"Refused"}, events) # <<>> THEN [ok |-> FALSE, why |-> Of({"Refused"}, events)[1].of]
           ELSE [ok |-> TRUE, of |-> [kind \in {"Emitted", "Status", "Failure", "Detail", "Discarded"} |->
                                        Of({kind}, events)]]

\* What is read and parsed first, the block after; a mailbox that is closed ends the run
\* before an event is read.
RunBlock(args, reads, spawn, accepted) ==
    LET work == [i \in 1..Cardinality(BatchOf(args)) |-> "Deliver"] \o <<"Stop">> IN
    CASE \E step \in {"wasm", "manifest", "batch"} : ~reads[step] ->
            [ok |-> FALSE, why |-> CHOOSE step \in {"wasm", "manifest", "batch"} :
                ~reads[step] /\ (step = "manifest" => reads.wasm) /\ (step = "batch" => reads.wasm /\ reads.manifest)]
      [] ~spawn.ok -> [ok |-> FALSE, why |-> "spawn"]
      [] accepted < Len(work) -> [ok |-> FALSE, why |-> "the instance stopped before it could be driven"]
      [] OTHER -> RunReport(spawn.events)
=============================================================================
