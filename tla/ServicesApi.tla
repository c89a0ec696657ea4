---------------------------- MODULE ServicesApi -----------------------------
(***************************************************************************)
(* One service of a node over the life of the node: its definition file,   *)
(* what the node runs for it, and the requests of the management API that  *)
(* write the one and change the other (crates/daemon/src/api/services.rs,  *)
(* boot.rs, and run_node in lib.rs).                                       *)
(*                                                                         *)
(* Handlers run on one reactor thread, so a step here is what a handler    *)
(* does between two awaits.  They meet at the lock around Services; other  *)
(* services share that lock and nothing else, so one service stands for    *)
(* all.  Files are also edited by hand, and clients may hang up.  A spawn  *)
(* or a retire need not return: when, is module Service's question; what   *)
(* it holds up meanwhile is this one's.                                    *)
(***************************************************************************)
EXTENDS Naturals, Sequences, FiniteSets, SequencesExt

CONSTANTS
    Request,     \* the requests there will ever be; a request also names the
                 \* graph it spawns
    Text,        \* service definitions; a definition is its own ETag
    Autostart,   \* the ones that say `autostart`
    Invalid,     \* the ones that never validate
    Torn,        \* one of those: what a failed write leaves
    Ask,         \* what requests may ask for
    None,        \* no file, no entry, no graph
    Star,        \* `*` in If-Match
    Boot,        \* the graph that boot spawned
    MaxEdits,    \* bound: edits of the file by hand
    MaxBoots     \* bound: boots of the node

Kind == {"put", "start", "reload", "stop", "delete", "get", "watch"}

ASSUME AskAssumption ==
    /\ Ask \subseteq [kind : Kind, text : Text \cup {None}, match : SUBSET (Text \cup {Star})]
    /\ \A a \in Ask : a.kind = "put" => a.text \in Text

ASSUME TextAssumption ==
    /\ Invalid \subseteq Text /\ Autostart \subseteq Text
    /\ Torn \in Invalid \ Autostart
    /\ None \notin Text \cup Request \cup {Boot, Star}
    /\ Boot \notin Request
    /\ Star \notin Text
    /\ MaxEdits \in Nat
    /\ MaxBoots \in Nat

Graph == Request \cup {Boot}

\* What Services maps the service to (Loaded): its state, the graph of a running
\* one, and the definition it was loaded from.
Loaded ==
    [state : {"running"}, graph : Graph, text : Text]
        \cup [state : {"stopped", "errored"}, graph : {None}, text : Text]

ASSUME LoadedAssumption == None \notin Loaded

Running(g, t) == [state |-> "running", graph |-> g, text |-> t]
Stopped(t) == [state |-> "stopped", graph |-> None, text |-> t]
Errored(t) == [state |-> "errored", graph |-> None, text |-> t]

VARIABLES
    node,     \* where the process is
    file,     \* the definition on disk
    loaded,   \* the service's entry in Services
    live,     \* graphs with threads
    line,     \* who holds the lock, and behind it who waits for it
    ask,      \* ask[r]: what r asks for
    pc,       \* pc[r]: where its handler is
    hand,     \* hand[r]: the Loaded that the handler is about to set
    old,      \* old[r]: the graph it is retiring
    diverged, \* whether the file changed behind the entry: by hand, by a write
              \* that failed, or by a handler that was dropped in its course
    edits,    \* edits by hand so far
    boots,    \* boots so far
    stall     \* whether the spawn or retire under way will ever return

reqVars == <<ask, pc, hand, old>>
plainVars == <<node, file, loaded, live, line, ask, pc, hand, old, diverged, edits, boots>>
vars == <<plainVars, stall>>

\* draining: SIGTERM came, requests in flight are finished and no new one is
\* accepted.  exited: run_node returned.  down: the process was killed.
Node == {"up", "draining", "exited", "down"}

PC == {"new", "validating", "waiting", "starting", "setting", "retiring",
       "watching", "answered", "refused", "lost"}

Over == {"answered", "refused", "lost"}

\* waits: at an await, and the reactor goes on with others.  blocks: in a join on the
\* reactor's own thread.
Stall == {"no", "waits", "blocks"}

\* What every variable holds: nobody is in line twice, and a running service
\* has its graph.
TypeOK ==
    /\ node \in Node
    /\ file \in Text \cup {None}
    /\ loaded \in Loaded \cup {None}
    /\ live \subseteq Graph
    /\ line \in Seq(Request)
    /\ \A j, k \in DOMAIN line : line[j] = line[k] => j = k
    /\ ask \in [Request -> Ask \cup {None}]
    /\ pc \in [Request -> PC]
    /\ hand \in [Request -> Loaded \cup {None}]
    /\ old \in [Request -> Graph \cup {None}]
    /\ diverged \in BOOLEAN
    /\ edits \in 0..MaxEdits
    /\ boots \in 0..MaxBoots
    /\ stall \in Stall

Init ==
    /\ node = "down"
    /\ file \in (Text \ {Torn}) \cup {None}
    /\ loaded = None
    /\ live = {}
    /\ line = <<>>
    /\ ask = [r \in Request |-> None]
    /\ pc = [r \in Request |-> "new"]
    /\ hand = [r \in Request |-> None]
    /\ old = [r \in Request |-> None]
    /\ diverged = FALSE
    /\ edits = 0
    /\ boots = 0
    /\ stall = "no"

-----------------------------------------------------------------------------
(***************************************************************************)
(* Steps of a handler.                                                     *)
(***************************************************************************)
Goto(r, p) == pc' = [pc EXCEPT ![r] = p]

Join(r) == line' = Append(line, r)

Holds(r) == line # <<>> /\ Head(line) = r

\* The handler returns, and its guard with it.
Return(r, p) == Goto(r, p) /\ line' = Tail(line)

At(r, kinds) == pc[r] = "waiting" /\ Holds(r) /\ ask[r].kind \in kinds

\* If-Match against the definition on disk: creating needs none, overwriting one
\* that names what is there.
Precondition(match) ==
    IF file = None THEN match = {} ELSE match \cap {file, Star} # {}

\* boot::validate: a sound definition may still name a block that cannot be pulled.
Validations(t) == IF t \in Invalid THEN {FALSE} ELSE BOOLEAN

Accepts(r, kinds) ==
    /\ node = "up"
    /\ pc[r] = "new"
    /\ \E a \in Ask : a.kind \in kinds /\ ask' = [ask EXCEPT ![r] = a]
    /\ UNCHANGED <<node, file, loaded, live, hand, old, diverged, edits, boots>>

\* PUT: the precondition, before the definition is validated.
PutArrives(r) ==
    /\ Accepts(r, {"put"})
    /\ Goto(r, IF Precondition(ask'[r].match) THEN "validating" ELSE "refused")
    /\ UNCHANGED line

\* GET reads the file before it asks for the lock.
GetArrives(r) ==
    /\ Accepts(r, {"get"})
    /\ \/ file = None /\ Goto(r, "refused") /\ UNCHANGED line
       \/ file # None /\ Goto(r, "waiting") /\ Join(r)

\* start, reload, stop and delete ask for the lock first.
OperationArrives(r) ==
    /\ Accepts(r, {"start", "reload", "stop", "delete"})
    /\ Goto(r, "waiting")
    /\ Join(r)

\* A log or tap stream: the response begins, and has no end of its own.
WatchArrives(r) ==
    /\ Accepts(r, {"watch"})
    /\ Goto(r, "watching")
    /\ UNCHANGED line

\* Validation, off the reactor, is over.
Validated(r) ==
    /\ pc[r] = "validating"
    /\ \/ TRUE \in Validations(ask[r].text) /\ Goto(r, "waiting") /\ Join(r)
       \/ FALSE \in Validations(ask[r].text) /\ Goto(r, "refused") /\ UNCHANGED line
    /\ UNCHANGED <<node, file, loaded, live, ask, hand, old, diverged, edits, boots>>

\* boot::apply: a graph is spawned if the file or the caller asks for one.
Apply(r, t, always) ==
    /\ IF always \/ t \in Autostart
       THEN Goto(r, "starting") /\ live' = live \cup {r}
       ELSE Goto(r, "setting") /\ UNCHANGED live
    /\ hand' = [hand EXCEPT ![r] = Stopped(t)]

\* Under the lock the precondition fails now: nothing is changed.
PutRefused(r) ==
    /\ At(r, {"put"})
    /\ ~Precondition(ask[r].match)
    /\ Return(r, "refused")
    /\ UNCHANGED <<node, file, loaded, live, ask, hand, old, diverged, edits, boots>>

\* Mutant: the precondition is not checked again under the lock.
PutWritesUnchecked(r) ==
    /\ At(r, {"put"})
    /\ file' = ask[r].text
    /\ diverged' = FALSE
    /\ Apply(r, file', FALSE)
    /\ UNCHANGED <<node, loaded, line, ask, old, edits, boots>>

\* It holds: the definition is written, and applied as it was validated.
PutWrites(r) ==
    /\ At(r, {"put"})
    /\ Precondition(ask[r].match)
    /\ file' = ask[r].text
    /\ diverged' = FALSE
    /\ Apply(r, file', FALSE)
    /\ UNCHANGED <<node, loaded, line, ask, old, edits, boots>>

\* The write fails before or after the file was truncated.
PutWriteFails(r) ==
    /\ At(r, {"put"})
    /\ Precondition(ask[r].match)
    /\ \/ file' = Torn /\ diverged' = TRUE
       \/ UNCHANGED <<file, diverged>>
    /\ Return(r, "refused")
    /\ UNCHANGED <<node, loaded, live, ask, hand, old, edits, boots>>

\* start and reload find no file.
NoSuchService(r) ==
    /\ At(r, {"start", "reload"})
    /\ file = None
    /\ Return(r, "refused")
    /\ UNCHANGED <<node, file, loaded, live, ask, hand, old, diverged, edits, boots>>

\* Mutant: reload starts whatever it reads.
ReloadsAlways(r) ==
    /\ At(r, {"start", "reload"})
    /\ file # None
    /\ diverged' = FALSE
    /\ Apply(r, file, TRUE)
    /\ UNCHANGED <<node, file, loaded, line, ask, old, edits, boots>>

\* boot::load: the file is read, validated and applied; `start` overrides its
\* autostart.
Reloads(r) ==
    /\ At(r, {"start", "reload"})
    /\ file # None
    /\ diverged' = FALSE
    /\ \/ /\ TRUE \in Validations(file)
          /\ Apply(r, file, ask[r].kind = "start")
       \/ /\ FALSE \in Validations(file)
          /\ hand' = [hand EXCEPT ![r] = Errored(file)]
          /\ Goto(r, "setting")
          /\ UNCHANGED live
    /\ UNCHANGED <<node, file, loaded, line, ask, old, edits, boots>>

\* What the holder of the lock waits for never comes: the spawn waits for room, or joins
\* inline what waits for it (ServiceSpawnHangs); the stop of a retired graph waits for
\* room, or its join, on a thread of the pool, for a thread (RetireReturns of Service).
Stalls(r) ==
    /\ stall = "no"
    /\ \/ pc[r] = "starting" /\ stall' \in Stall \ {"no"}
       \/ pc[r] = "retiring" /\ stall' = "waits"
    /\ UNCHANGED plainVars

\* Service::spawn returned: the graph is up, or nothing of it is left.
Spawned(r) ==
    /\ pc[r] = "starting"
    /\ stall = "no"
    /\ \/ hand' = [hand EXCEPT ![r] = Running(r, @.text)] /\ UNCHANGED live
       \/ hand' = [hand EXCEPT ![r] = Errored(@.text)] /\ live' = live \ {r}
    /\ Goto(r, "setting")
    /\ UNCHANGED <<node, file, loaded, line, ask, old, diverged, edits, boots>>

\* stop: the entry keeps its definition, whatever the file says by now.
StopSets(r) ==
    /\ At(r, {"stop"})
    /\ \/ loaded = None /\ Return(r, "refused") /\ UNCHANGED hand
       \/ /\ loaded # None
          /\ hand' = [hand EXCEPT ![r] = Stopped(loaded.text)]
          /\ Goto(r, "setting")
          /\ UNCHANGED line
    /\ UNCHANGED <<node, file, loaded, live, ask, old, diverged, edits, boots>>

IsRunning == loaded # None /\ loaded.state = "running"

\* Services::set ends: the handler's Loaded is the entry now.
Inserts(r) ==
    /\ loaded' = hand[r]
    /\ hand' = [hand EXCEPT ![r] = None]
    /\ old' = [old EXCEPT ![r] = None]
    /\ Return(r, "answered")

\* Mutant: the new entry replaces a running one and nobody retires it.
SetsAtOnce(r) ==
    /\ pc[r] = "setting"
    /\ Inserts(r)
    /\ UNCHANGED <<node, file, live, ask, diverged, edits, boots>>

\* Services::set: what was there is removed and, if it runs, asked to stop.
Sets(r) ==
    /\ pc[r] = "setting"
    /\ \/ /\ IsRunning
          /\ loaded' = None
          /\ old' = [old EXCEPT ![r] = loaded.graph]
          /\ Goto(r, "retiring")
          /\ UNCHANGED <<line, hand>>
       \/ ~IsRunning /\ Inserts(r)
    /\ UNCHANGED <<node, file, live, ask, diverged, edits, boots>>

\* The retired graph is joined, and its successor inserted.
Retired(r) ==
    /\ pc[r] = "retiring"
    /\ stall = "no"
    /\ live' = live \ {old[r]}
    /\ Inserts(r)
    /\ UNCHANGED <<node, file, ask, diverged, edits, boots>>

\* delete: refused while running, 404 without a file.
DeleteRefused(r) ==
    /\ At(r, {"delete"})
    /\ IsRunning \/ file = None
    /\ Return(r, "refused")
    /\ UNCHANGED <<node, file, loaded, live, ask, hand, old, diverged, edits, boots>>

\* Mutant: the running check is not made.
DeletesUnchecked(r) ==
    /\ At(r, {"delete"})
    /\ file # None
    /\ file' = None
    /\ loaded' = None
    /\ diverged' = FALSE
    /\ Return(r, "answered")
    /\ UNCHANGED <<node, live, ask, hand, old, edits, boots>>

\* Mutant: the entry outlives the file.
DeletesTheFileOnly(r) ==
    /\ At(r, {"delete"})
    /\ ~IsRunning /\ file # None
    /\ file' = None
    /\ diverged' = FALSE
    /\ Return(r, "answered")
    /\ UNCHANGED <<node, loaded, live, ask, hand, old, edits, boots>>

\* The file cannot be removed: the entry stays.
DeleteFails(r) ==
    /\ At(r, {"delete"})
    /\ ~IsRunning /\ file # None
    /\ Return(r, "refused")
    /\ UNCHANGED <<node, file, loaded, live, ask, hand, old, diverged, edits, boots>>

\* delete removes the file and forgets the entry.
Deletes(r) ==
    /\ At(r, {"delete"})
    /\ ~IsRunning /\ file # None
    /\ file' = None
    /\ loaded' = None
    /\ diverged' = FALSE
    /\ Return(r, "answered")
    /\ UNCHANGED <<node, live, ask, hand, old, edits, boots>>

\* GET and the listing read the entry under the lock.
GetReplies(r) ==
    /\ At(r, {"get"})
    /\ Return(r, "answered")
    /\ UNCHANGED <<node, file, loaded, live, ask, hand, old, diverged, edits, boots>>

\* What a handler does once its request was accepted.
Serves(r) ==
    /\ UNCHANGED stall
    /\ \/ Validated(r)
       \/ PutRefused(r) \/ PutWrites(r) \/ PutWriteFails(r)
       \/ NoSuchService(r) \/ Reloads(r) \/ StopSets(r)
       \/ Spawned(r) \/ Sets(r) \/ Retired(r)
       \/ DeleteRefused(r) \/ DeleteFails(r) \/ Deletes(r) \/ GetReplies(r)

-----------------------------------------------------------------------------
(***************************************************************************)
(* Clients, the process and the file system.                               *)
(***************************************************************************)

\* The client of a stream hangs up.
WatcherLeaves(r) ==
    /\ pc[r] = "watching"
    /\ Goto(r, "answered")
    /\ UNCHANGED <<node, file, loaded, live, line, ask, hand, old, diverged, edits, boots>>

\* A client hangs up and the handler is dropped at its await.  A Service that is
\* dropped is not stopped: instances of it that were up hold each other's mailboxes
\* and go on.  The join of a retired one goes on by itself.
HangsUp(r) ==
    /\ \/ pc[r] = "validating" /\ UNCHANGED line
       \/ /\ pc[r] \in {"waiting", "starting", "retiring"}
          /\ \E k \in DOMAIN line : line[k] = r /\ line' = RemoveAt(line, k)
    /\ Goto(r, "lost")
    /\ hand' = [hand EXCEPT ![r] = None]
    /\ live' \in CASE pc[r] = "starting" -> {live, live \ {r}}
                   [] pc[r] = "retiring" -> {live, live \ {old[r]}}
                   [] OTHER -> {live}
    /\ diverged' = (diverged \/ pc[r] \in {"starting", "retiring"})
    /\ stall' = IF pc[r] \in {"starting", "retiring"} THEN "no" ELSE stall
    /\ UNCHANGED <<node, file, loaded, ask, old, edits, boots>>

\* The file is edited by hand, or by a checkout.
Edit ==
    /\ edits < MaxEdits
    /\ edits' = edits + 1
    /\ file' \in ((Text \ {Torn}) \cup {None}) \ {file}
    /\ diverged' = TRUE
    /\ UNCHANGED <<node, loaded, live, line, reqVars, boots, stall>>

\* boot::boot: the file decides, before the first request is accepted.
Boots ==
    /\ node \in {"down", "exited"}
    /\ boots < MaxBoots
    /\ boots' = boots + 1
    /\ node' = "up"
    /\ diverged' = FALSE
    /\ \/ file = None /\ loaded' = None /\ live' = {}
       \/ file # None /\ loaded' = Errored(file) /\ live' = {}
       \/ /\ file # None /\ TRUE \in Validations(file)
          /\ IF file \in Autostart
             THEN loaded' = Running(Boot, file) /\ live' = {Boot}
             ELSE loaded' = Stopped(file) /\ live' = {}
    /\ UNCHANGED <<file, line, reqVars, edits, stall>>

\* The process is killed; the requests in flight are lost with it.
Killed ==
    /\ node \in {"up", "draining"}
    /\ node' = "down"
    /\ loaded' = None
    /\ live' = {}
    /\ line' = <<>>
    /\ pc' = [r \in Request |-> IF pc[r] \in Over \cup {"new"} THEN pc[r] ELSE "lost"]
    /\ hand' = [r \in Request |-> None]
    /\ old' = [r \in Request |-> None]
    /\ stall' = "no"
    /\ UNCHANGED <<file, ask, diverged, edits, boots>>

\* SIGTERM or SIGINT.
Terminates ==
    /\ node = "up"
    /\ node' = "draining"
    /\ UNCHANGED <<file, loaded, live, line, reqVars, diverged, edits, boots, stall>>

\* axum::serve returned, so every response has ended.
Drained ==
    /\ node = "draining"
    /\ \A r \in Request : pc[r] \in Over \cup {"new"}
    /\ line = <<>>
    /\ stall = "no"

\* What Services lists is stopped and joined, and run_node returns.
Exits ==
    /\ Drained
    /\ node' = "exited"
    /\ live' = IF IsRunning THEN live \ {loaded.graph} ELSE live
    /\ loaded' = None
    /\ UNCHANGED <<file, line, reqVars, diverged, edits, boots, stall>>

\* Or that stop, or the join, never returns: run_node joins inline.
ExitStalls ==
    /\ Drained
    /\ IsRunning
    /\ stall' = "blocks"
    /\ UNCHANGED plainVars

\* Nobody asks for anything.
Idle ==
    /\ node = "up" \/ boots = MaxBoots
    /\ \A r \in Request : pc[r] \in Over \cup {"new"}
    /\ UNCHANGED vars

\* Mutant: a stream looks its service up and keeps the guard as long as it lasts.
ClientKeepsTheLock(r) ==
    \/ /\ PutArrives(r) \/ GetArrives(r) \/ OperationArrives(r)
       /\ UNCHANGED stall
    \/ /\ Accepts(r, {"watch"}) /\ Goto(r, "watching")
       /\ line = <<>> /\ Join(r)
       /\ UNCHANGED stall
    \/ /\ pc[r] = "watching" /\ Return(r, "answered")
       /\ UNCHANGED <<node, file, loaded, live, ask, hand, old, diverged, edits, boots, stall>>
    \/ HangsUp(r)

Client(r) ==
    \/ /\ \/ PutArrives(r) \/ GetArrives(r) \/ OperationArrives(r) \/ WatchArrives(r)
          \/ WatcherLeaves(r)
       /\ UNCHANGED stall
    \/ HangsUp(r)

\* A handler that blocks has the one thread on which everything else would run.
Runs == stall # "blocks"

Next ==
    \/ \E r \in Request : (Runs /\ (Client(r) \/ Serves(r))) \/ Stalls(r)
    \/ Runs /\ Terminates
    \/ Edit \/ Boots \/ Killed \/ Exits \/ ExitStalls \/ Idle

\* The reactor runs a handler that can go on, and the shutdown when it is its turn, but a
\* spawn or a retire need not return.  Clients, editors and whoever starts and stops the
\* process owe nothing.
Fairness ==
    /\ \A r \in Request : WF_vars(Runs /\ Serves(r))
    /\ WF_vars(Exits)

Spec == Init /\ [][Next]_vars /\ Fairness

-----------------------------------------------------------------------------
(***************************************************************************)
(* Properties.                                                             *)
(***************************************************************************)

Listed == IF IsRunning THEN {loaded.graph} ELSE {}

\* What the holder of the lock is building, and what it is retiring.
InHand == UNION {{r, old[r]} : r \in {q \in Request : Holds(q)}}

\* What a dropped handler was building or retiring.
Dropped == UNION {{r, old[r]} : r \in {q \in Request : pc[q] = "lost"}}

\* No handler that runs to its end leaves a graph behind: one with threads is
\* listed, or in the hands of the lock's holder, or was in those of a handler
\* that was dropped.  A node that exits has stopped everything else
\* (Services::set, Services::remove, run_node).
OnlyDroppedHandlersLeak == live \subseteq Listed \cup InHand \cup Dropped

\* Whenever nobody holds the lock and nothing came between file and entry since
\* the node took the file up, the entry is what the file says: there is one exactly
\* if there is a file, and it was loaded from that very definition ("this map is a
\* view of it", delete_service).
ViewMatchesFile ==
    node \in {"up", "draining"} /\ line = <<>> /\ ~diverged =>
        IF file = None THEN loaded = None
                       ELSE loaded # None /\ loaded.text = file

\* A PUT that wrote its definition, however far it is with applying it.
Wrote(r) ==
    /\ pc[r] \in {"starting", "setting", "retiring", "answered"}
    /\ ask[r].kind = "put"

\* What may have been in the file once it was its turn: a PUT that was dropped may have
\* written first, and one that was refused may have failed to.
Left(r) ==
    CASE pc[r] = "answered" /\ ask[r].kind = "delete" -> {None}
      [] Wrote(r) -> {ask[r].text}
      [] pc[r] = "lost" /\ ask[r].kind = "put" -> {ask[r].text}
      [] pc[r] = "refused" /\ ask[r].kind = "put" -> {Torn}
      [] OTHER -> {}

\* The versions that If-Match names: without it, that there is none.
Named(match) == IF match = {} THEN {None} ELSE match

\* DAEMON 9.3, no silent overwrite: of the PUTs that name one version, or none, one
\* wins, whatever order they are read, validated and written in - unless somebody
\* brought that version back in between.
OneWriterWins ==
    \A q, r \in Request :
        q # r /\ Wrote(q) /\ Wrote(r) /\ ask[q].match = ask[r].match =>
            \/ Star \in ask[r].match
            \/ edits > 0
            \/ \E s \in Request : Left(s) \cap Named(ask[r].match) # {}

\* The API never removes the definition of a service that has a graph, even one
\* still on its way up (delete_service: "must land on one side or the other").
DeleteSparesTheRunning ==
    [][file # None /\ file' = None /\ edits' = edits => live \subseteq Dropped]_vars

\* A service that runs although its file does not say autostart was started by
\* POST start since the last boot (DAEMON 9.4).
OnlyStartOverrides ==
    IsRunning /\ loaded.text \notin Autostart =>
        loaded.graph \in Request /\ ask[loaded.graph].kind = "start"

\* A spawn or a retire under the lock, or the one of run_node, that never returns:
\* SpawnReturnsOrWaits and RetireReturnsOrStalls of module Service say when.
HeldUp == stall # "no"

\* Every accepted request is answered, and a node asked to stop stops once the clients of
\* its streams have gone, unless the process is killed or a spawn or retire never returns:
\* the lock is always handed on.  One that only waits, as a retire does, holds up who
\* needs the lock and nobody else: no validation.
EveryRequestIsAnswered ==
    /\ \A r \in Request : pc[r] \notin {"new", "watching"} ~>
          pc[r] \in Over \/ ~Runs \/ (HeldUp /\ pc[r] # "validating")
    /\ node = "draining" ~> \/ node # "draining" \/ HeldUp
                            \/ \E r \in Request : pc[r] = "watching"

-----------------------------------------------------------------------------
(***************************************************************************)
(* What the words say and the code does not do: README, section 4.  None   *)
(* of these holds.                                                         *)
(***************************************************************************)

\* executor.rs, Instance: "an instance cannot be leaked into a state where nothing
\* can reach it and nothing will end it".
NothingIsLeaked == live \subseteq Listed \cup InHand

\* lib.rs, shutdown: a node told to stop is stopped, rather than killed with
\* "ABI 5.1 step 5's `eio_stop`" never run.
ShutdownCompletes == node = "draining" ~> node # "draining"

\* boot.rs, retire: "the caller is an axum handler on the daemon's one reactor thread:
\* joining inline would stop every other request".  The failing `Service::spawn` does.
AnsweredThoughHeldUp ==
    \A r \in Request : pc[r] \notin {"new", "watching"} ~> pc[r] \in Over

\* boot.rs, Services::set: "a service is replaced, never doubled".
NeverDoubled == Cardinality(live) <= 1
=============================================================================
