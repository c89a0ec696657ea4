--------------------------- MODULE MCServicesApi ----------------------------
(***************************************************************************)
(* Definitions and requests for TLC: one definition says autostart, one    *)
(* does not, and none is a torn file.  With them, the node around the API, *)
(* and the command line against it, on small numbers and few names.        *)
(***************************************************************************)
EXTENDS ServicesApi, SequencesExt, TLC

CONSTANTS Auto, Manual

Definitions == {Auto, Manual, Torn}
Starting == {Auto}
Unsound == {Torn}

Put(t, match) == [kind |-> "put", text |-> t, match |-> match]
Post(kind) == [kind |-> kind, text |-> None, match |-> {}]

Operations == {Post("start"), Post("reload"), Post("stop"), Post("delete")}

\* Two clients that read the same definition, and one that overwrites anything.
Puts == {Put(Auto, {}), Put(Auto, {Manual}), Put(Manual, {Auto}),
         Put(Manual, {Auto, Manual}), Put(Auto, {Star})}

AllAsks == Puts \cup Operations \cup {Post("get"), Post("watch")}

-----------------------------------------------------------------------------
(* Provisioning. *)

Small == [listen |-> "loopback", max_payload |-> 65, max_batch |-> 10, fuel |-> 100, deadline_ms |-> 10,
          max_fuel |-> 100, max_depth |-> 12, max_range |-> 65, max_value_bytes |-> 26, mailbox |-> 64,
          require_signed |-> FALSE, key |-> "cosign.pub"]
Floors == [max_fuel |-> 50, max_depth |-> 6, max_range |-> 30, max_value_bytes |-> 20]
C == INSTANCE Client WITH U32Max <- 200, MAX_DEPTH <- 12, Defaults <- Small, Addresses <- {"loopback", "any"},
                          Capabilities <- {"core", "timer", "state"}, FLOORS <- Floors

AtMost(n, set) == UNION {[1..k -> set] : k \in 0..n}
Maybe(set) == {{}} \cup {{x} : x \in set}
Entries == [token : Maybe({"t"}), username : Maybe({"u"}), password : Maybe({"p"})]
Registries == {{}, {C!NotTOML}, {C!Says([h \in {"ghcr"} |-> [token |-> {"t"}, username |-> {}, password |-> {}]])},
               {C!Says([h \in {"ghcr"} |-> [token |-> {"t"}, username |-> {"u"}, password |-> {}]])}}
Tomls == {{}, {C!Says([id |-> "mine"])}, {C!Says([id |-> "mine", mailbox |-> 0])}, {C!Says([id |-> ""])},
          {C!Says([id |-> "mine", listen |-> "nowhere"])}, {C!Says([id |-> "mine", max_dept |-> 3])},
          {C!Says([id |-> "mine", max_depth |-> 20, name |-> "pi", require_signed |-> TRUE])},
          {C!Says([id |-> "mine", max_payload |-> 201])}, {C!Says([id |-> "mine", max_depth |-> 1, max_fuel |-> 1])}}
Keys == {<<>>, [k \in {"cosign.pub"} |-> "PEM"], [k \in {"cosign.pub"} |-> "else"]}
Directories == [trees : {{}, {"state"}}, gitignore : Maybe({"*", "narrowed"}), token : Maybe({"t"}),
                registries : Registries, toml : Tomls, keys : Keys]

\* What a start made of the directory is what every later one makes of it, whatever that
\* would mint: the same node or the same refusal, and no file is changed.
ASSUME IdentityIsKept ==
    \A dir \in Directories :
        LET first == C!Open(dir, "t1", "id1") IN
        C!Open(first.dir, "t2", "id2") = first

\* A start that ends early costs the next one nothing but a file it tore: with the token
\* and the node.toml whole, the next opens what this one would have.
ASSUME KillsTearAtMost ==
    \A dir \in Directories :
        LET whole == C!Open(dir, "t1", "id1")
        IN  \A left \in C!Killed(dir, "t1", "id1") :
              LET again == C!Open(left, "t2", "id2")
                  torn  == left.toml # dir.toml /\ left.toml # {C!Says(C!TEMPLATE("id1"))}
              IN  ~torn /\ left.token # {""} =>
                    \E id \in {"id1", "id2"}, token \in {"t1", "t2"} :
                        again.node = {[n EXCEPT !.id = IF @ = "id1" THEN id ELSE @,
                                                !.token = IF @ = {"t1"} THEN {token} ELSE @] : n \in whole.node}

\* But a torn node.toml is the operator's: it is not written again, so no later start
\* opens the node, or it opens with a limit cut short; and a torn token is not minted again.
Bare == [trees |-> {}, gitignore |-> {}, token |-> {}, registries |-> {}, toml |-> {}, keys |-> <<>>]
ASSUME TornIsKept ==
    /\ \E left \in C!Killed(Bare, "t1", "id1") :
          left.toml # {} /\ C!Open(left, "t2", "id2") = [dir |-> left, node |-> {}]
    /\ \E left \in C!Killed(Bare, "t1", "id1") :
          \E n \in C!Open(left, "t2", "id2").node : n.max_payload < Small.max_payload /\ n.token = {"t1"}
    /\ \E left \in C!Killed(Bare, "t1", "id1") : C!Open(left, "t2", "id2").dir.token = {""}

\* A deleted auth/.gitignore comes back, though node.rs says one that is deliberately
\* deleted is left as it is.
ASSUME DeletedComesBack ==
    C!Open([C!Open(Bare, "t1", "id1").dir EXCEPT !.gitignore = {}], "t1", "id1").dir.gitignore = {"*"}

\* No entry is read as one of two kinds, and one bad entry is the end of the start.
ASSUME CredentialsAreOfOneKind ==
    \A e \in Entries :
        /\ C!Credential(e) # {} <=> (e.token # {}) # (e.username # {}) /\ (e.username # {}) = (e.password # {})
        /\ C!LoadRegistries({C!Says([h \in {"x", "y"} |-> IF h = "x" THEN e ELSE
                [token |-> {"t"}, username |-> {}, password |-> {}]])}) = {} <=> C!Credential(e) = {}

\* What a node decodes is at least as deep as what its expressions build, which may be
\* as much as every host lets them, whatever the file says.
ASSUME DecodesWhatItBuilds ==
    \A dir \in Directories : \A n \in C!Open(dir, "t1", "id1").node : 
        /\ n.decode >= n.eval.max_depth /\ n.decode >= 12
        /\ \A k \in DOMAIN Floors : n.eval[k] >= Floors[k]

-----------------------------------------------------------------------------
(* Routes, and the requests of the command line. *)

Segments == {"node", "blocks", "available", "services", "state", "orphans", "taps", "stream", "errors", "a", ""}
Paths == AtMost(4, Segments) \cup {<<"openapi.json">>, <<"blocks", "available", "a", "b", "c">>}
Names == [s \in C!Param \cup {C!REST} |-> <<"a">>]

\* No path is of two routes; what is served to a caller without this node's token is the
\* document, and what no route answers is answered the same with and without one.
ASSUME RoutesAreGuarded ==
    \A p \in Paths :
        /\ Cardinality(C!Matched(p)) <= 1
        /\ \A m \in {"GET", "PUT", "HEAD"} :
              LET without == C!Handle(m, p, <<[scheme |-> "Bearer", token |-> "other"]>>, "secret")
                  with    == C!Handle(m, p, <<[scheme |-> "Bearer", token |-> "secret"]>>, "secret")
              IN  without = with <=> p = <<"openapi.json">> \/ "status" \in DOMAIN with

\* The command line speaks the whole API: what it calls is what the node routes, each of
\* its requests reaches the handler it means, every endpoint has a command, and each has
\* one tool.
ASSUME SpeaksTheApi ==
    /\ C!ENDPOINTS = UNION {{<<m, r[2]>> : m \in r[1]} : r \in C!Routes}
    /\ \A e \in C!ENDPOINTS :
          LET request == C!Authed(C!HttpRequest(e, Names), "secret")
              served  == C!Handle(request.method, request.path, request.headers, "secret")
          IN  "served" \in DOMAIN served /\ served.served[2] = e[2] /\ e[1] \in served.served[1]
    /\ C!Commands = C!ENDPOINTS
    /\ {C!Tools[t] : t \in DOMAIN C!Tools} = C!ENDPOINTS
    /\ Cardinality(DOMAIN C!Tools) = Cardinality(C!ENDPOINTS)

\* A name with a slash in it reaches another handler: `show a/errors` answers errors.
ASSUME SlashesReachOthers ==
    LET request == C!HttpRequest(C!ServiceCalls.get_service, [Names EXCEPT !["{service}"] = <<"a", "errors">>])
    IN  C!Handle(request.method, request.path, <<[scheme |-> "Bearer", token |-> "t"]>>, "t").served[2]
            = C!ServiceCalls.service_errors[2]

\* A failure is told by its kind, and the kinds a client acts on differ by status.
ASSUME FailuresAreTold ==
    /\ \A k \in C!Kind : C!CallJson(C!Envelope(k) @@ [json |-> {}]) = C!Refuses(k)
    /\ \A j, k \in C!Kind : C!Status(j) = C!Status(k) => j = k \/ C!Status(k) = 422

-----------------------------------------------------------------------------
(* nodes.toml. *)

AnEntry == {C!Entry("x", {"t"}, "daemon"), C!Entry("y", {}, "daemon"), C!Entry("z", {}, "leaf")}
NodeFiles == [format : {"eieio.nodes/v1"}, default : Maybe({"n", "m"}),
              nodes : AtMost(2, [name : {"n", "m"}, entry : AnEntry])]
Grown == UNION {{C!Import(C!Fresh, f, FALSE).config, C!Import(C!Fresh, f, TRUE).config} : f \in NodeFiles}

\* Whatever is added, imported, removed and chosen, the default is a node there is.
ASSUME DefaultIsConfigured ==
    \A c \in Grown :
        /\ c.default \subseteq DOMAIN c.nodes
        /\ \A n \in {"n", "m"} :
              LET gone == C!ConfigRemove(c, n)
                  put  == C!Add(c, n, C!Entry("x", {}, "leaf"), TRUE)
              IN  (gone.ok => gone.default \subseteq DOMAIN gone.nodes) /\ put.default \subseteq DOMAIN put.nodes

\* What is exported and imported elsewhere is what it was; importing it again changes
\* nothing; and without --force no entry and no default is changed by an import.
ASSUME ImportsMerge ==
    \A c \in Grown :
        /\ C!Import(C!Fresh, C!Export(c), FALSE).config = c
        /\ \A f \in NodeFiles :
              LET once   == C!Import(c, f, FALSE).config
                  forced == C!Import(c, f, TRUE).config
              IN  /\ \A n \in DOMAIN c.nodes : once.nodes[n] = c.nodes[n]
                  /\ c.default \subseteq once.default /\ c.default \subseteq forced.default
                  /\ C!Import(once, f, FALSE).config = once /\ C!Import(forced, f, TRUE).config = forced

\* Adding a node again without its token forgets the token; a leaf is never called.
ASSUME ReaddingForgets ==
    LET known == C!Add(C!Fresh, "n", C!Entry("x", {"t"}, "daemon"), TRUE) IN
    /\ C!Connect(known, {}).ok /\ ~C!Connect(C!Add(known, "n", C!Entry("new", {}, "daemon"), FALSE), {}).ok
    /\ \A c \in Grown, r \in Maybe({"n", "m", "l"}) : C!Connect(c, r).ok => C!Connect(c, r).entry.class = "daemon"

-----------------------------------------------------------------------------
(* Pushing, watching and authoring. *)

Texts == {"one", "two", "three"}
OnNode == Maybe({"one", "two"})

\* What changes between the tag a push reads and its write refuses it, unless it changed
\* back or ended up as what was read.
ASSUME PushesAreOrdered ==
    \A t \in Texts, before, after \in OnNode :
        C!PushService(t, FALSE, before, after).says = {} <=> before = after

\* But the tag is read by the push, not by the pull before it: what changed since the pull
\* is overwritten, which services.rs says is refused; a tool that puts with the tag it got
\* is refused.  And --force cannot create a service, though its help says neither way
\* matters for one that does not exist.
ASSUME PushForgetsThePull ==
    /\ C!PushService("three", FALSE, {"two"}, {"two"}) = [node |-> {"three"}, says |-> {}]
    /\ C!PutService({"two"}, "three", {"one"}).says = {"conflict"}
ASSUME ForceCannotCreate ==
    C!PushService("one", TRUE, {}, {}).says = {"conflict"} /\ C!PushService("one", FALSE, {}, {}).says = {}

\* A stream read to any line is what was sent before it, in order, with keep-alives where
\* they may be; an event that is cut is not told.
Sent == AtMost(3, {[name |-> "signal", data |-> "1"], [name |-> "log", data |-> "2"]})
Wire(events, idle) ==
    FlattenSeq([i \in DOMAIN events |-> (IF i \in idle THEN C!KeepAlive ELSE <<>>) \o C!SseEvent(events[i])])
Told(events) == [i \in DOMAIN events |-> [name |-> events[i].name, data |-> <<events[i].data>>]]
ASSUME StreamsAreRead ==
    \A events \in Sent, idle \in SUBSET (1..2) :
        LET lines == Wire(events, idle) IN
        /\ C!ReadSse(lines) = Told(events)
        /\ \A cut \in 0..Len(lines) : IsPrefix(C!ReadSse(SubSeq(lines, 1, cut)), Told(events))

\* A bounded read ends after as many events as it asked for, and says so exactly then; it
\* asks after each, so that none is as one.
ASSUME BoundedReads ==
    /\ \A events \in Sent, max \in 0..4 :
          LET read == C!BoundedSse(Wire(events, {1}), max)
              most == IF max = 0 THEN 1 ELSE max
          IN  /\ read.events = Told(SubSeq(events, 1, IF Len(events) < most THEN Len(events) ELSE most))
              /\ read.reached_max_events <=> Len(events) >= most
    /\ \A asked \in Maybe({0, 1, 5, 60, 61}) : C!BoundedTimeout(asked) \in 1..60

\* A service file the commands wrote is one they edit again; one that stage 1 refuses they
\* never write, and never repair.
AText == {C!ServiceFile(n, b, v) : n \in {"a", "b"}, b \in {<<>>, [i \in {"i"} |-> "x"], [i \in {"i", "j"} |-> i]}, v \in BOOLEAN}
OnDisk == {<<>>} \cup [{"a"} -> AText]
ASSUME EditsKeepFilesValid ==
    \A d \in OnDisk, before, after \in AText :
        LET said == C!Edit(d, "a", [t \in AText |-> IF t = before THEN {after} ELSE {}]) IN
        /\ said.ok => said.disk["a"] = after /\ after.valid /\ d["a"].valid
        /\ d # <<>> /\ ~d["a"].valid => ~said.ok
        /\ d # <<>> => ~C!New(d, "a", TRUE).ok
        /\ \A props \in {<<>>, <<<<"p", "1">>>>, <<<<"p">>>>} : \A grown \in C!AddBlock(before, {}, <<"i", "j", "k">>, "x", props) :
              \A i \in DOMAIN before.blocks : grown.blocks[i] = before.blocks[i]

\* "ok" is said of a file every block of which was checked, and of the first manifest of
\* its reference; a file of which nothing was checked is not refused.
Arguments == AtMost(2, {<<"x", "good">>, <<"x", "bad">>, <<"i", "good">>, <<"x", "none">>, <<"x">>})
Files == [f \in {"good", "bad"} |-> f]
Wires == LET B == [{"i", "j"} -> {{"good"}, {"bad"}}] \cup [{"i"} -> {{"good"}, {"bad"}}]
                  \cup [{"j"} -> {{"good"}, {"bad"}}] \cup {<<>>}
         IN  [g \in B |-> \A i \in DOMAIN g : g[i] = {"good"}]
ASSUME ChecksSayWhatTheyChecked ==
    /\ \A t \in AText, arguments \in Arguments :
          LET report == C!Validate(t, "a", arguments, Files, Wires) IN
          /\ report.ok => t.valid /\ t.name = "a" /\ report.stage2 # "errors"
          /\ report.stage2 = "ok" => report.not_checked = {} /\ \A i \in DOMAIN t.blocks :
                \E k \in DOMAIN arguments : arguments[k] = <<t.blocks[i], "good">>
    /\ \E t \in AText : LET report == C!Validate(t, "a", <<>>, Files, Wires) IN report.ok /\ report.not_checked # {}

-----------------------------------------------------------------------------
(* dev run-block. *)

Event(is, of) == [is |-> is, of |-> of]
RunEvents == AtMost(3, {Event("Emitted", 1), Event("Refused", 2), Event("Refused", 3), Event("Died", 4),
                        Event("BridgeDropped", 5)})
Reads == [wasm : BOOLEAN, manifest : BOOLEAN, batch : BOOLEAN]
Run(batch, reads, ok, accepted, events) ==
    C!RunBlock([batch |-> batch, batch_file |-> {}], reads, [ok |-> ok, events |-> events], accepted)

\* A run that succeeds drove the block to its end: it took all work, died of nothing and
\* refused nothing; and of two refusals the first is told.
ASSUME RunsTellTheFirst ==
    \A events \in RunEvents, reads \in Reads, ok \in BOOLEAN, batch \in Maybe({"b"}), accepted \in 0..2 :
        LET run == Run(batch, reads, ok, accepted, events) IN
        /\ run.ok <=> /\ \A s \in DOMAIN reads : reads[s]
                      /\ ok /\ accepted >= 1 + Cardinality(batch)
                      /\ \A i \in DOMAIN events : events[i].is \notin {"Died", "Refused"}
        /\ ~reads.wasm => run.why = "wasm"
ASSUME PropsSplitOnce ==
    \A properties \in AtMost(3, UNION {C!Property(a) : a \in {<<"p", "1">>, <<"p", "2", "3">>, <<"q", "">>, <<"", "1">>}}) :
        \A i \in DOMAIN properties : \E j \in i..Len(properties) :
            properties[j].name = properties[i].name /\ C!Props(properties)[properties[i].name] = properties[j].expression
=============================================================================
