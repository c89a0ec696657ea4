----------------------------- MODULE MCService ------------------------------
(***************************************************************************)
(* Service graphs for TLC, and the service files they come from.           *)
(***************************************************************************)
EXTENDS Service, TLC

Edge(i, p, j, policy) == [from |-> i, port |-> p, to |-> j, overflow |-> policy]

\* 1 feeds 2 and 3 from one port (fan-out), 2 feeds 1 and 3 (a cycle, and fan-in).
Feedback == <<Edge(1, "out", 2, "Backpressure"), Edge(1, "out", 3, "Backpressure"),
              Edge(2, "out", 1, "Backpressure"), Edge(2, "out", 3, "Backpressure")>>
FeedbackOutputs == (1 :> {"out"}) @@ (2 :> {"out"}) @@ (3 :> {})
FeedbackEmits == (1 :> 2) @@ (2 :> 1) @@ (3 :> 0)

\* 1 feeds 3, past 2.
SkipBackpressure == <<Edge(1, "out", 3, "Backpressure")>>
SkipOutputs == (1 :> {"out"}) @@ (2 :> {}) @@ (3 :> {})
SkipEmits == (1 :> 2) @@ (2 :> 0) @@ (3 :> 0)

W == INSTANCE Wiring WITH Name <- {"a", "b", "c", "in", "out", "err"},
                          ErrName <- "err", PortErr <- 9

Wire(i, p, j) == [parses |-> TRUE,
                  from |-> [instance |-> i, port |-> p], to |-> [instance |-> j, port |-> "in"]]

ServiceFile(wires) == [ids |-> <<"a", "b", "c">>, connections |-> wires,
                       overflow |-> "Backpressure"]

Blocks == ("a" :> [inputs |-> <<"in">>, outputs |-> <<"out">>])
          @@ ("b" :> [inputs |-> <<"in">>, outputs |-> <<"out">>])
          @@ ("c" :> [inputs |-> <<"in">>, outputs |-> << >>])

\* The router of this model calls ports by name and counts instances from 1.
Routed(f) ==
    LET t == W!ResolvedTable(f, Blocks)
    IN  [k \in DOMAIN t |-> [from |-> t[k].from.instance + 1,
                             port |-> IF t[k].from.port = 9 THEN "err" ELSE "out",
                             to |-> t[k].to.instance + 1,
                             overflow |-> t[k].overflow]]

FeedbackFile == ServiceFile(<<Wire("a", "out", "b"), Wire("a", "out", "c"),
                              Wire("b", "out", "a"), Wire("b", "out", "c")>>)
SkipFile == ServiceFile(<<Wire("a", "out", "c")>>)

ASSUME BothAreAccepted ==
    \A f \in {FeedbackFile, SkipFile} : W!Stage1(f) = {} /\ W!Stage2(f, Blocks) = {}

ASSUME TheTablesAreTheirs ==
    Feedback = Routed(FeedbackFile) /\ SkipBackpressure = Routed(SkipFile)

(***************************************************************************)
(* The theorem of WiringProofs over lists of at most two connections, a    *)
(* dangling id and the reserved port among their ends.                     *)
(***************************************************************************)
Ends == [instance : {"a", "b", "c"}, port : {"in", "out", "err"}]
Wires == [parses : {TRUE}, from : Ends, to : Ends]
Lists == {<< >>} \cup {<<w>> : w \in Wires} \cup {<<v, w>> : v \in Wires, w \in Wires}
Ports == [inputs : {<< >>, <<"out", "in">>}, outputs : {<<"out">>, <<"in", "out">>}]

ASSUME AcceptedIsResolvable ==
    \A c \in Lists, m \in Ports, n \in Ports :
        LET f == [ids |-> <<"a", "b">>, connections |-> c, overflow |-> "DropOldest"]
            blocks == ("a" :> m) @@ ("b" :> n)
        IN  W!Stage1(f) = {} /\ W!Stage2(f, blocks) = {}
              <=> ~W!Refuses(W!Descriptors(f, blocks), W!Connections(f))

(***************************************************************************)
(* Builds of a leaf's image: two blocks at one path or at two, one that is *)
(* missing or not admitted, too many instances, and a property not given.  *)
(***************************************************************************)
Source == [inputs |-> << >>, outputs |-> <<"out">>]
Sink == [inputs |-> <<"in">>, outputs |-> << >>]
Builds ==
    [blocks : [{"a", "b", "c"} -> {"x", "y"}],
     paths : {("x" :> "p") @@ ("y" :> "q"), ("x" :> "p") @@ ("y" :> "p"), "x" :> "p"},
     admits : {("p" :> Source) @@ ("q" :> Sink), "p" :> Source, << >>},
     supplied : {{"a", "b", "c"}, {"a"}}, maxInstances : {1, 3}]
Few == {w \in Wires : w.from.instance = "a" /\ w.to.port # "out"}
BuildFiles == {[ids |-> ids, connections |-> c, overflow |-> "DropOldest"] :
                  ids \in {<<"a", "b">>, <<"a", "b", "c">>},
                  c \in {<< >>} \cup {<<w>> : w \in Few} \cup {<<w, w>> : w \in Few}}

\* What is baked is on the device what it is on a node, and each instance's module is its
\* block's, read once however many are of it; each way to refuse has its reason, and the
\* first module that is not to be had is told before what the blocks say.
ASSUME ImagesAreTheService ==
    \A f \in BuildFiles, build \in Builds :
        LET said   == W!Bake(f, build)
            source == W!EmitSource(f, build)
            statics == {source.statics[n] : n \in DOMAIN source.statics}
            Has(id) == build.blocks[id] \in DOMAIN build.paths /\ W!PathOf(build, id) \in DOMAIN build.admits
        IN  /\ said # "Wiring"
            /\ said = "baked" =>
                 /\ ~W!DeviceRefuses(source.graph)
                 /\ W!DeviceTable(source.graph) = W!ResolvedTable(f, W!BuildManifests(f, build))
                 /\ \A i \in DOMAIN f.ids : W!DeviceModule(source, i) = W!PathOf(build, f.ids[i])
                 /\ Cardinality(DOMAIN source.statics) = Cardinality(statics)
                 /\ Len(f.ids) <= build.maxInstances
            /\ W!Stage1(f) = {} => (said \in {"NoArtifact", "Manifest"}) = (\E id \in W!Range(f.ids) : ~Has(id))
ASSUME EveryRefusalIsMet ==
    {W!Bake(f, build) : f \in BuildFiles, build \in Builds}
        = {"Parse", "NoArtifact", "Manifest", "Resolved", "InstanceBudget", "Property", "baked"}
=============================================================================
