------------------------------- MODULE Wiring --------------------------------
(***************************************************************************)
(* From the connections of a service file to the table the router reads:   *)
(* stage 1 and stage 2 of the validation (crates/service/src/parse.rs,     *)
(* validate.rs), what boot makes of a file that passed (daemon/src/boot.rs)*)
(* and what a leaf does with the one baked into it (leaf/src/graph.rs),    *)
(* and the resolution of names into indices (host-core/src/router.rs).     *)
(* Three pieces of code judge one list of connections, each in its own     *)
(* vocabulary: ids in the file, names in manifests, positions on a node.   *)
(***************************************************************************)
EXTENDS Integers, Sequences, FiniteSets, Functions

CONSTANTS
    Name,       \* instance ids and port names
    ErrName,    \* PORT_ERR_NAME
    PortErr     \* PORT_ERR, an index no list of ports reaches

Terminal == [instance : Name, port : Name]

\* One entry of the list; one that does not parse says nothing else.
Wire == [parses : BOOLEAN, from : Terminal, to : Terminal]

\* `ids` are the keys of [blocks] in the order of the map; each is there once.
Distinct(s) == \A i, j \in DOMAIN s : s[i] = s[j] => i = j

File == {f \in [ids : Seq(Name), connections : Seq(Wire),
                overflow : {"Backpressure", "DropOldest"}] : Distinct(f.ids)}

Manifest == [inputs : Seq(Name), outputs : Seq(Name)]

\* Manifest::validate, as far as ports go; and no list is long enough to reach PORT_ERR.
Valid(m) ==
    /\ ErrName \notin Range(m.inputs) \cup Range(m.outputs)
    /\ Distinct(m.inputs) /\ Distinct(m.outputs)
    /\ PortErr \notin 0..(Len(m.outputs) - 1)

(***************************************************************************)
(* Stage 1, `check_connections`: every error, by the position of its entry.*)
(***************************************************************************)
Entries(f) == {k \in DOMAIN f.connections : f.connections[k].parses}

Dangling(f, t) == t.instance \notin Range(f.ids)

Repeats(f, k) ==
    \E j \in Entries(f) : /\ j < k
                          /\ f.connections[j].from = f.connections[k].from
                          /\ f.connections[j].to = f.connections[k].to

Stage1(f) ==
    [kind : {"syntax"}, index : DOMAIN f.connections \ Entries(f)]
    \cup {e \in [kind : {"err", "source", "destination", "duplicate"}, index : Entries(f)] :
            LET w == f.connections[e.index]
            IN  CASE e.kind = "err"         -> w.to.port = ErrName
                  [] e.kind = "source"      -> Dangling(f, w.from)
                  [] e.kind = "destination" -> Dangling(f, w.to)
                  [] e.kind = "duplicate"   -> Repeats(f, e.index)}

(***************************************************************************)
(* Stage 2, `validate`: `manifests` answers for the ids whose block could  *)
(* be resolved, and is silent about the others.  Its errors about          *)
(* properties are left out; the router reads none.                         *)
(***************************************************************************)
Lacks(manifests, t, end) ==
    /\ t.instance \in DOMAIN manifests
    /\ t.port \notin Range(manifests[t.instance][end])

Stage2(f, manifests) ==
    {e \in [kind : {"output", "input"}, index : Entries(f)] :
       LET w == f.connections[e.index]
       IN  CASE e.kind = "output" -> w.from.port # ErrName /\ Lacks(manifests, w.from, "outputs")
             [] e.kind = "input"  -> Lacks(manifests, w.to, "inputs")}

(***************************************************************************)
(* The node: `Descriptor::from_manifest` numbers the ports of an instance, *)
(* the list of descriptors numbers the instances, and `Routes::resolve`    *)
(* reads both.  Indices are the code's, from zero.                         *)
(***************************************************************************)
Descriptors(f, manifests) ==
    [i \in DOMAIN f.ids |-> [id      |-> f.ids[i],
                             inputs  |-> manifests[f.ids[i]].inputs,
                             outputs |-> manifests[f.ids[i]].outputs]]

\* `connections_for`: one policy for the whole file.
Connections(f) ==
    [k \in DOMAIN f.connections |-> [from     |-> f.connections[k].from,
                                     to       |-> f.connections[k].to,
                                     overflow |-> f.overflow]]

\* `iter().position`: the first place that holds `x`.
Position(s, x) ==
    (CHOOSE i \in DOMAIN s : s[i] = x /\ \A j \in DOMAIN s : s[j] = x => i <= j) - 1

Named(ds, t) == {i \in DOMAIN ds : ds[i].id = t.instance}

Unknown(ds, t) == Named(ds, t) = {}

Ambiguous(ds, t) == \E i, j \in Named(ds, t) : i # j

Instance(ds, t) == CHOOSE i \in Named(ds, t) : TRUE

\* `resolve_output` and `resolve_input`: what they refuse, and what they answer.
RefusesOutput(ds, t) ==
    \/ Unknown(ds, t)
    \/ Ambiguous(ds, t)
    \/ t.port # ErrName /\ t.port \notin Range(ds[Instance(ds, t)].outputs)

RefusesInput(ds, t) ==
    \/ Unknown(ds, t)
    \/ Ambiguous(ds, t)
    \/ t.port = ErrName
    \/ t.port \notin Range(ds[Instance(ds, t)].inputs)

ResolveOutput(ds, t) ==
    [instance |-> Instance(ds, t) - 1,
     port     |-> IF t.port = ErrName THEN PortErr
                  ELSE Position(ds[Instance(ds, t)].outputs, t.port)]

ResolveInput(ds, t) ==
    [instance |-> Instance(ds, t) - 1,
     port     |-> Position(ds[Instance(ds, t)].inputs, t.port)]

\* The pairs `resolve` collects, one per connection.
Pairs(ds, cs) ==
    [k \in DOMAIN cs |-> [from     |-> ResolveOutput(ds, cs[k].from),
                          to       |-> ResolveInput(ds, cs[k].to),
                          overflow |-> cs[k].overflow]]

\* A source's run of targets holds one receiver twice.
Doubled(ps) ==
    \E j, k \in DOMAIN ps : j < k /\ ps[j].from = ps[k].from /\ ps[j].to = ps[k].to

Refuses(ds, cs) ==
    \/ \E k \in DOMAIN cs : RefusesOutput(ds, cs[k].from) \/ RefusesInput(ds, cs[k].to)
    \/ Doubled(Pairs(ds, cs))

\* The table of a node, the daemon's and the leaf's: the sort is stable and on the
\* source alone, so the targets of a source are in the order of the file.
ResolvedTable(f, manifests) == Pairs(Descriptors(f, manifests), Connections(f))

Targets(ps, from) == SelectSeq(ps, LAMBDA p : p.from = from)

(***************************************************************************)
(* A leaf's image (crates/leaf-gen): `bake` judges the same file on the    *)
(* build host.  What a build has is the block of each id, the path of each *)
(* block it was given, the manifests of the paths whose modules could be   *)
(* read and were admitted, the ids whose properties are all there, and how *)
(* many instances the target holds.                                        *)
(***************************************************************************)
PathOf(build, id) == build.paths[build.blocks[id]]

NoArtifact(build, id) == build.blocks[id] \notin DOMAIN build.paths
NotAdmitted(build, id) == PathOf(build, id) \notin DOMAIN build.admits

\* The first id, in the order of the file, whose module is not to be had.
Lacking(f, build) ==
    {i \in DOMAIN f.ids : NoArtifact(build, f.ids[i]) \/ NotAdmitted(build, f.ids[i])}
LacksFirst(f, build) ==
    LET i == CHOOSE i \in Lacking(f, build) : \A j \in Lacking(f, build) : i <= j
    IN  IF NoArtifact(build, f.ids[i]) THEN "NoArtifact" ELSE "Manifest"

BuildManifests(f, build) == [id \in Range(f.ids) |-> build.admits[PathOf(build, id)]]

\* One artifact for each distinct path, in the order they are met; and which one an
\* instance's is.
Artifacts(f, build) ==
    LET path(i) == PathOf(build, f.ids[i]) IN
    LET firsts == {i \in DOMAIN f.ids : \A j \in 1..(i - 1) : path(j) # path(i)}
    IN  [n \in 1..Cardinality(firsts) |->
            path(CHOOSE i \in firsts : Cardinality({j \in firsts : j <= i}) = n)]
ArtifactOf(f, build, id) == Position(Artifacts(f, build), PathOf(build, id))

\* What the device has of it: names, and a policy for all.
Image(f, build) ==
    [instances   |-> [i \in DOMAIN f.ids |->
                        [id      |-> f.ids[i],
                         module  |-> ArtifactOf(f, build, f.ids[i]),
                         inputs  |-> BuildManifests(f, build)[f.ids[i]].inputs,
                         outputs |-> BuildManifests(f, build)[f.ids[i]].outputs]],
     connections |-> [k \in DOMAIN f.connections |->
                        [from |-> f.connections[k].from, to |-> f.connections[k].to]],
     overflow    |-> f.overflow]

\* `bake`: why it refuses, or "baked".
Bake(f, build) ==
    CASE Stage1(f) # {} -> "Parse"
      [] Stage1(f) = {} /\ Lacking(f, build) # {} -> LacksFirst(f, build)
      [] OTHER ->
           IF Stage2(f, BuildManifests(f, build)) # {} THEN "Resolved"
           ELSE IF Len(f.ids) > build.maxInstances THEN "InstanceBudget"
           ELSE IF ~(Range(f.ids) \subseteq build.supplied) THEN "Property"
           ELSE IF Refuses(Descriptors(f, BuildManifests(f, build)), Connections(f)) THEN "Wiring"
           ELSE "baked"

\* `emit`: a static for each artifact, and an instance names the static it is of.
EmitSource(f, build) ==
    [statics |-> [n \in 0..(Len(Artifacts(f, build)) - 1) |-> Artifacts(f, build)[n + 1]],
     graph   |-> Image(f, build)]

\* The device: `descriptors`, `wiring` and `routes` of the graph, and the module that an
\* instance is of.
DeviceDescriptors(graph) ==
    [i \in DOMAIN graph.instances |-> [id      |-> graph.instances[i].id,
                                       inputs  |-> graph.instances[i].inputs,
                                       outputs |-> graph.instances[i].outputs]]
DeviceWiring(graph) ==
    [k \in DOMAIN graph.connections |-> [from     |-> graph.connections[k].from,
                                         to       |-> graph.connections[k].to,
                                         overflow |-> graph.overflow]]
DeviceRefuses(graph) == Refuses(DeviceDescriptors(graph), DeviceWiring(graph))
DeviceTable(graph) == Pairs(DeviceDescriptors(graph), DeviceWiring(graph))
DeviceModule(source, i) == source.statics[source.graph.instances[i].module]
=============================================================================
