------------------------------- MODULE Client --------------------------------
(***************************************************************************)
(* The command line against a node: the nodes it knows (crates/cli/src/    *)
(* config.rs, node.rs, nodes.rs), the requests its commands and its tools  *)
(* for agents make (client.rs, services.rs, taps.rs, state.rs, blocks.rs,  *)
(* logs.rs, mcp.rs), the streams it reads, and the commands that edit and  *)
(* check a service file without a node (service.rs).                       *)
(***************************************************************************)
EXTENDS Node

Only(set) == CHOOSE x \in set : TRUE
Refuses(why) == [ok |-> FALSE, why |-> why]

-----------------------------------------------------------------------------
(* nodes.toml: entries by name, and a default. *)

Entry(addr, token, class) == [addr |-> addr, token |-> token, class |-> class]
Config(default, nodes) == [ok |-> TRUE, default |-> default, nodes |-> nodes]
Fresh == Config({}, <<>>)

ConfigAdd(config, name, entry) ==
    [config EXCEPT !.nodes = [n \in DOMAIN @ \cup {name} |-> IF n = name THEN entry ELSE @[n]]]
ConfigRemove(config, name) ==
    IF name \notin DOMAIN config.nodes THEN Refuses("unknown")
    ELSE Config(config.default \ {name}, [n \in DOMAIN config.nodes \ {name} |-> config.nodes[n]])
SetDefault(config, name) ==
    IF name \notin DOMAIN config.nodes THEN Refuses("unknown") ELSE [config EXCEPT !.default = {name}]
Resolve(config, requested) ==
    LET name == IF requested # {} THEN requested ELSE config.default IN
    CASE name = {} -> Refuses("none")
      [] Only(name) \notin DOMAIN config.nodes -> Refuses("unknown")
      [] config.nodes[Only(name)].class = "leaf" -> Refuses("leaf")
      [] OTHER -> [ok |-> TRUE, name |-> Only(name), entry |-> config.nodes[Only(name)]]
Connect(config, requested) ==
    LET at == Resolve(config, requested) IN
    IF at.ok /\ at.entry.token = {} THEN Refuses("token") ELSE at

\* The commands load the file, change it and save it whole, or leave it.
Add(config, name, entry, default) ==
    LET added == ConfigAdd(config, name, entry) IN IF default THEN SetDefault(added, name) ELSE added
ListNodes(config) ==
    [n \in DOMAIN config.nodes |->
        [addr |-> config.nodes[n].addr, token_configured |-> config.nodes[n].token # {},
         default |-> n \in config.default]]

Export(config) ==
    [format |-> "eieio.nodes/v1", default |-> config.default,
     nodes |-> LET names == SetToSeq(DOMAIN config.nodes)
               IN  [i \in DOMAIN names |-> [name |-> names[i], entry |-> config.nodes[names[i]]]]]
ImportNode(merged, node, force) ==
    CASE node.name \in DOMAIN merged.config.nodes /\ ~force ->
            [merged EXCEPT !.skipped = Append(@, node.name)]
      [] OTHER ->
            [config |-> ConfigAdd(merged.config, node.name, node.entry), skipped |-> merged.skipped,
             added |-> IF node.name \in DOMAIN merged.config.nodes THEN merged.added
                       ELSE Append(merged.added, node.name),
             updated |-> IF node.name \in DOMAIN merged.config.nodes THEN Append(merged.updated, node.name)
                         ELSE merged.updated]
Import(config, file, force) ==
    LET start  == [config |-> config, added |-> <<>>, updated |-> <<>>, skipped |-> <<>>]
        merged == FoldLeft(LAMBDA m, node : ImportNode(m, node, force), start, file.nodes)
    IN  IF file.format # "eieio.nodes/v1" THEN Refuses("format")
        ELSE [merged EXCEPT !.config.default =
                IF @ # {} THEN @ ELSE file.default \cap DOMAIN merged.config.nodes]

-----------------------------------------------------------------------------
(* Requests.  The names in a path are put there as they are: one with a    *)
(* slash is more than one segment.                                         *)

ENDPOINTS ==
    {<<"GET", <<"node">>>>, <<"GET", <<"blocks">>>>, <<"POST", <<"blocks", "pull">>>>,
     <<"GET", <<"blocks", "available">>>>, <<"GET", <<"blocks", "available", REST>>>>,
     <<"GET", <<"services">>>>, <<"GET", <<"services", "{service}">>>>,
     <<"PUT", <<"services", "{service}">>>>, <<"DELETE", <<"services", "{service}">>>>,
     <<"GET", <<"services", "{service}", "errors">>>>,
     <<"POST", <<"services", "{service}", "start">>>>, <<"POST", <<"services", "{service}", "stop">>>>,
     <<"POST", <<"services", "{service}", "reload">>>>,
     <<"GET", <<"services", "{service}", "state", "{instance}">>>>,
     <<"GET", <<"state", "orphans">>>>, <<"DELETE", <<"state", "orphans", "{namespace}">>>>,
     <<"GET", <<"taps">>>>, <<"POST", <<"taps">>>>, <<"DELETE", <<"taps", "{tap}">>>>,
     <<"GET", <<"taps", "{tap}", "stream">>>>, <<"GET", <<"logs", "stream">>>>}

PathOf(template, names) ==
    FlattenSeq([i \in DOMAIN template |->
        IF template[i] \in Param \cup {REST} THEN names[template[i]] ELSE <<template[i]>>])
HttpRequest(endpoint, names) == [method |-> endpoint[1], path |-> PathOf(endpoint[2], names)]
Authed(request, token) == request @@ [headers |-> <<[scheme |-> "Bearer", token |-> token]>>]

\* The methods of `Client`, by the endpoint each calls.
BlockCalls == [list_blocks |-> <<"GET", <<"blocks">>>>, pull_block |-> <<"POST", <<"blocks", "pull">>>>,
               available_blocks |-> <<"GET", <<"blocks", "available">>>>,
               inspect_block |-> <<"GET", <<"blocks", "available", REST>>>>]
ServiceCalls ==
    LET OfOne(method, verb) == <<method, <<"services", "{service}">> \o verb>> IN
    [list_services |-> <<"GET", <<"services">>>>, get_service |-> OfOne("GET", <<>>),
     current_etag |-> OfOne("GET", <<>>), put_service |-> OfOne("PUT", <<>>),
     delete_service |-> OfOne("DELETE", <<>>), service_errors |-> OfOne("GET", <<"errors">>),
     start_service |-> OfOne("POST", <<"start">>), stop_service |-> OfOne("POST", <<"stop">>),
     reload_service |-> OfOne("POST", <<"reload">>)]
StateCalls == [instance_state |-> <<"GET", <<"services", "{service}", "state", "{instance}">>>>,
               orphans |-> <<"GET", <<"state", "orphans">>>>,
               reclaim_orphan |-> <<"DELETE", <<"state", "orphans", "{namespace}">>>>]
TapCalls == [create_tap |-> <<"POST", <<"taps">>>>, list_taps |-> <<"GET", <<"taps">>>>,
             delete_tap |-> <<"DELETE", <<"taps", "{tap}">>>>]
StreamCalls == [stream_tap |-> <<"GET", <<"taps", "{tap}", "stream">>>>,
                stream_logs |-> <<"GET", <<"logs", "stream">>>>]
NodeInfoCall == <<"GET", <<"node">>>>

\* What each command calls, in order.
Push(force) == IF force THEN <<ServiceCalls.put_service>>
               ELSE <<ServiceCalls.current_etag, ServiceCalls.put_service>>
Watch == <<TapCalls.create_tap, StreamCalls.stream_tap>>
Services(command) ==
    CASE command = "List" -> <<ServiceCalls.list_services>>
      [] command \in {"Show", "Pull"} -> <<ServiceCalls.get_service>>
      [] command = "Errors" -> <<ServiceCalls.service_errors>> [] command = "Start" -> <<ServiceCalls.start_service>>
      [] command = "Stop" -> <<ServiceCalls.stop_service>> [] command = "Reload" -> <<ServiceCalls.reload_service>>
      [] command = "Delete" -> <<ServiceCalls.delete_service>>
      [] command = "Push" -> Push(FALSE) [] command = "Push --force" -> Push(TRUE)
Blocks == [List |-> BlockCalls.list_blocks, Pull |-> BlockCalls.pull_block,
           Available |-> BlockCalls.available_blocks, Inspect |-> BlockCalls.inspect_block]
State == [Show |-> StateCalls.instance_state, List |-> StateCalls.orphans, Reclaim |-> StateCalls.reclaim_orphan]
Taps == [Create |-> TapCalls.create_tap, List |-> TapCalls.list_taps, Delete |-> TapCalls.delete_tap,
         Stream |-> StreamCalls.stream_tap]
Logs == StreamCalls.stream_logs
Called(commands) == {commands[c] : c \in DOMAIN commands}
Commands ==
    UNION {ToSet(Services(c)) : c \in {"List", "Show", "Errors", "Pull", "Push", "Push --force", "Start", "Stop",
                                       "Reload", "Delete"}}
    \cup Called(Blocks) \cup Called(State) \cup Called(Taps) \cup ToSet(Watch) \cup {Logs, NodeInfoCall}

\* The tools of `eio mcp`: the same calls, but for the two that read a stream on their own.
BlockTools == BlockCalls @@ [node_info |-> NodeInfoCall]
ServiceTools == [n \in DOMAIN ServiceCalls \ {"current_etag"} |-> ServiceCalls[n]]
StateTools == [instance_state |-> StateCalls.instance_state, list_orphans |-> StateCalls.orphans,
               reclaim_orphan |-> StateCalls.reclaim_orphan]
TapTools == TapCalls @@ [read_tap |-> <<"GET", <<"taps", "{tap}", "stream">>>>]
ReadLogs == <<"GET", <<"logs", "stream">>>>
Tools == BlockTools @@ ServiceTools @@ StateTools @@ TapTools @@ [read_logs |-> ReadLogs]

\* What a caller is told of a response: an envelope, or the lack of one.
EnvelopeError(response) ==
    IF response.error # {} THEN Refuses(Only(response.error)) ELSE Refuses("not an envelope")
CallJson(response) ==
    CASE response.status >= 400 -> EnvelopeError(response)
      [] response.json = {} -> Refuses("not JSON")
      [] OTHER -> [ok |-> TRUE, of |-> Only(response.json)]
ToolError(result) == IF result.ok THEN result ELSE [error |-> "internal_error", message |-> result.why]
MergeEtag(result, etag) == [result EXCEPT !.of = [v \in DOMAIN @ \cup {"etag"} |-> IF v = "etag" THEN etag ELSE @[v]]]

-----------------------------------------------------------------------------
(* A definition on the node: absent, or a text that is its own tag. *)

GetService(node) == IF node = {} THEN [status |-> Status("not_found"), error |-> {"not_found"}, json |-> {}]
                    ELSE [status |-> 200, error |-> {}, json |-> node, etag |-> node]
CurrentEtag(node) ==
    LET response == GetService(node) IN
    IF response.status = 404 THEN {} ELSE response.etag
IfMatch(current, condition) ==
    CASE current = {} /\ condition = {} -> {}
      [] current = {} /\ condition # {} -> {"conflict"}
      [] current # {} /\ condition = {} -> {"precondition_required"}
      [] OTHER -> IF "*" \in condition \/ current \cap condition # {} THEN {} ELSE {"conflict"}
PutService(node, text, condition) ==
    LET refusal == IfMatch(node, condition)
    IN  IF refusal # {} THEN [node |-> node, says |-> refusal] ELSE [node |-> {text}, says |-> {}]

\* `push`: what is there when it reads the tag, and when it writes.
PushTag(force, node) == IF force THEN {"*"} ELSE CurrentEtag(node)
PushService(text, force, read, written) == PutService(written, text, PushTag(force, read))

-----------------------------------------------------------------------------
(* Streams: lines of `event:`, `data:`, comments and blanks.  Of a text    *)
(* that is trimmed only whether it is empty is left.                       *)

Line(field, of) == [field |-> field, of |-> of]
SseEvent(event) == <<Line("event", event.name), Line("data", event.data), Line("blank", "")>>
KeepAlive == <<Line("other", ""), Line("blank", "")>>

NoEvent == [name |-> "", data |-> <<"">>]
ReadLine(read, line) ==
    CASE line.field = "blank" ->
            [events |-> IF read.now.name = "" THEN read.events ELSE Append(read.events, read.now), now |-> NoEvent]
      [] line.field = "event" -> [read EXCEPT !.now.name = line.of]
      [] line.field = "data" -> [read EXCEPT !.now.data = IF @ = <<"">> THEN <<line.of>> ELSE Append(@, line.of)]
      [] OTHER -> read
ReadSse(lines) == FoldLeft(ReadLine, [events |-> <<>>, now |-> NoEvent], lines).events

DEFAULT_MAX_EVENTS == 20
DEFAULT_TIMEOUT_SECONDS == 5
MAX_TIMEOUT_SECONDS == 60
BoundedTimeout(requested) ==
    LET seconds == IF requested = {} THEN DEFAULT_TIMEOUT_SECONDS ELSE Only(requested)
    IN  IF seconds < 1 THEN 1 ELSE IF seconds > MAX_TIMEOUT_SECONDS THEN MAX_TIMEOUT_SECONDS ELSE seconds
MaxEvents(requested) == IF requested = {} THEN DEFAULT_MAX_EVENTS ELSE Only(requested)

\* The lines that arrive before the deadline or the end; the count is asked after each
\* event.
BoundedSse(lines, max) ==
    LET events == ReadSse(lines)
        enough == {n \in DOMAIN events : n >= max}
    IN  IF enough = {} THEN [events |-> events, reached_max_events |-> FALSE]
        ELSE [events |-> SubSeq(events, 1, CHOOSE n \in enough : \A m \in enough : n <= m),
              reached_max_events |-> TRUE]

-----------------------------------------------------------------------------
(* Service files on a disk: a function from stems to texts.  A text is a   *)
(* record of the name it declares, the blocks it refers to by instance,    *)
(* and whether stage 1 takes it; a document being edited is a text.        *)

ServiceFile(name, blocks, valid) == [name |-> name, blocks |-> blocks, valid |-> valid]

Save(disk, stem, document) ==
    IF ~document.valid THEN Refuses("invalid")
    ELSE [ok |-> TRUE, disk |-> [s \in DOMAIN disk \cup {stem} |-> IF s = stem THEN document ELSE disk[s]]]

\* `apply` is what the edit makes of the document, or {} if it refuses.
Edit(disk, stem, apply) ==
    CASE stem \notin DOMAIN disk -> Refuses("unreadable")
      [] ~disk[stem].valid -> Refuses("invalid")
      [] apply[disk[stem]] = {} -> Refuses("edit")
      [] OTHER -> Save(disk, stem, Only(apply[disk[stem]]))
New(disk, name, named) ==
    CASE ~named -> Refuses("name")
      [] name \in DOMAIN disk -> Refuses("exists")
      [] OTHER -> Save(disk, name, ServiceFile(name, <<>>, TRUE))

\* A block under the id that is asked for, or one of the attempts that is not taken; and
\* what `--prop` says of it, split at its first `=`.
MintId(document, attempts) == SelectSeq(attempts, LAMBDA id : id \notin DOMAIN document.blocks)
AddBlock(document, id, attempts, block, props) ==
    LET ids == IF id # {} THEN <<Only(id)>> ELSE MintId(document, attempts) IN
    IF ids = <<>> \/ ids[1] \in DOMAIN document.blocks \/ (\E i \in DOMAIN props : Len(props[i]) < 2) THEN {}
    ELSE {[document EXCEPT !.blocks = [b \in DOMAIN @ \cup {ids[1]} |-> IF b = ids[1] THEN block ELSE @[b]]]}

\* `validate`: which manifests are read is an argument; stage 2 asks of each instance the
\* first one of its reference, and the headline says of how many blocks it had one.
\* `wired` says what stage 2 makes of the text with these manifests.
LoadManifests(arguments, files) ==
    IF \A i \in DOMAIN arguments : Len(arguments[i]) > 1 /\ arguments[i][2] \in DOMAIN files
    THEN {[i \in DOMAIN arguments |-> [reference |-> arguments[i][1], manifest |-> files[arguments[i][2]]]]} ELSE {}
ManifestOf(manifests, reference) ==
    LET first == {i \in DOMAIN manifests : /\ manifests[i].reference = reference
                                           /\ \A j \in 1..i-1 : manifests[j].reference # reference}
    IN  {manifests[i].manifest : i \in first}
Validate(text, stem, arguments, files, wired) ==
    LET references == {text.blocks[b] : b \in DOMAIN text.blocks}
        manifests  == LoadManifests(arguments, files)
        checked    == {r \in references : ManifestOf(Only(manifests), r) # {}}
        stage1     == IF text.valid THEN "ok" ELSE "errors"
    IN  CASE ~text.valid -> [ok |-> FALSE, stage1 |-> stage1, stage2 |-> "not run"]
          [] manifests = {} -> [ok |-> FALSE, stage1 |-> stage1, stage2 |-> "unreadable"]
          [] OTHER ->
               LET given == [b \in {b \in DOMAIN text.blocks : text.blocks[b] \in checked} |->
                               ManifestOf(Only(manifests), text.blocks[b])]
               IN  [ok |-> wired[given] /\ text.name = stem, stage1 |-> stage1,
                    stage2 |-> CASE ~wired[given] -> "errors"
                                 [] references = {} -> "ok (no blocks)"
                                 [] checked = {} -> "not run"
                                 [] checked = references -> "ok"
                                 [] OTHER -> "ok in part",
                    not_checked |-> references \ checked]
=============================================================================
