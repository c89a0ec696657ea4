----------------------------- MODULE PropContext -----------------------------
(***************************************************************************)
(* The properties of one block instance (crates/host-core/src/prop.rs):    *)
(* what the deployment supplies is resolved against the manifest and       *)
(* compiled, once; then the guest asks, in one callback after another, for *)
(* a property's value for a signal of the batch that callback was given.   *)
(*                                                                         *)
(* What is refused, and what an expression evaluates to, are parameters:   *)
(* `Properties` has those of `Expression`.  The size of the guest's buffer *)
(* is left out: an answer that does not fit is asked for again.            *)
(***************************************************************************)
EXTENDS Integers, Sequences, FiniteSets

CONSTANTS
    Refused(_),         \* whether compile_one refuses an expression
    DependsOnSignal(_), \* Ast::is_signal_dependent
    Evaluates(_, _),    \* an expression and a signal: a cause, and an operand
    NothingToRead,      \* what stands for the signal at SIGNAL_NONE
    ReadsSignal(_),     \* ABI-SPEC 7.1: whether an expression mentions the signal
    Manifests,          \* sequences of declared properties, Declared
    Supplies,           \* what deployments supply: functions from some names to trees
    Batches,            \* sequences of signals an instance may be handed
    MaxCallbacks        \* bound: callbacks of one life

None == [kind |-> "none"]   \* a property without a default
Declared(name, ty, required, default) ==
    [name |-> name, ty |-> ty, required |-> required, default |-> default]

VARIABLES
    manifest, supplied,  \* the deployment
    phase,       \* deployed, rejected, or ready for callbacks
    bodies,      \* Inner::props: what answering each property amounts to
    open,        \* State::open: whether a callback runs
    signals,     \* State::signals, <<>> for a callback that has no batch
    cache,       \* State::cache, by property and signal
    failures,    \* State::failures: failed evaluations nobody has drained
    said,        \* the last question of this callback, and its answer
    callbacks    \* bound

propVars == <<manifest, supplied, phase, bodies, open, signals, cache, failures, said, callbacks>>

SIGNAL_NONE == 0            \* indices count from one here
Unasked == [prop |-> 0]

PropInit ==
    /\ manifest \in Manifests /\ supplied \in Supplies
    /\ phase = "deployed" /\ bodies = <<>>
    /\ open = FALSE /\ signals = <<>> /\ cache = <<>> /\ failures = {}
    /\ said = Unasked /\ callbacks = 0

-----------------------------------------------------------------------------
(* resolve: the expression of each declared property, or None. *)

DeclaredNames == {manifest[p].name : p \in DOMAIN manifest}
Source(p) == IF manifest[p].name \in DOMAIN supplied THEN supplied[manifest[p].name]
             ELSE manifest[p].default
Resolves ==
    /\ DOMAIN supplied \subseteq DeclaredNames
    /\ \A p \in DOMAIN manifest : Source(p) = None => ~manifest[p].required

(* evaluate: an answer is a value of the declared type, or a cause. *)
NoValue == [t |-> "none"]
TypeAccepts(ty, v) == ty = "bool" => v.t \in {"true", "false"}
Answer(e, ty, sig) ==
    LET r == Evaluates(e, sig)
    IN  IF r.cause # "ok" THEN [cause |-> r.cause, value |-> NoValue]
        ELSE IF ~TypeAccepts(ty, r.operand.value) THEN [cause |-> "resultType", value |-> NoValue]
        ELSE [cause |-> "ok", value |-> r.operand.value]

(* compile_one, of what is not refused. *)
Body(e, ty) ==
    IF e = None THEN [kind |-> "unset"]
    ELSE IF DependsOnSignal(e) THEN [kind |-> "perSignal", expr |-> e]
    ELSE [kind |-> "folded", answer |-> Answer(e, ty, NothingToRead)]

Reject ==
    /\ phase = "deployed"
    /\ \/ ~Resolves
       \/ \E p \in DOMAIN manifest : Source(p) # None /\ Refused(Source(p))
    /\ phase' = "rejected"
    /\ UNCHANGED <<manifest, supplied, bodies, open, signals, cache, failures, said, callbacks>>

(* compile_with_limits, when nothing is refused.  A fold that fails is recorded. *)
Compile ==
    /\ phase = "deployed" /\ Resolves
    /\ \A p \in DOMAIN manifest : Source(p) # None => ~Refused(Source(p))
    /\ phase' = "ready"
    /\ bodies' = [p \in DOMAIN manifest |-> Body(Source(p), manifest[p].ty)]
    /\ failures' = {[prop |-> p, signal |-> SIGNAL_NONE, cause |-> bodies'[p].answer.cause] :
                      p \in {q \in DOMAIN bodies' :
                               bodies'[q].kind = "folded" /\ bodies'[q].answer.cause # "ok"}}
    /\ UNCHANGED <<manifest, supplied, open, signals, cache, said, callbacks>>

-----------------------------------------------------------------------------
(* PropContext::during, up to the callback. *)
Begin(batch) ==
    /\ phase = "ready" /\ ~open /\ callbacks < MaxCallbacks
    /\ open' = TRUE /\ signals' = batch
    /\ callbacks' = callbacks + 1
    /\ UNCHANGED <<manifest, supplied, phase, bodies, cache, failures, said>>

(* Mutant: the cache outlives the callback. *)
EndKeepsTheCache ==
    /\ open
    /\ open' = FALSE /\ signals' = <<>> /\ said' = Unasked
    /\ failures' = {}
    /\ UNCHANGED <<manifest, supplied, phase, bodies, cache, callbacks>>

(* The callback returns or traps: Scope::drop; then Live::collect drains the
   failures. *)
End ==
    /\ open
    /\ open' = FALSE /\ signals' = <<>> /\ said' = Unasked
    /\ cache' = <<>>
    /\ failures' = {}
    /\ UNCHANGED <<manifest, supplied, phase, bodies, callbacks>>

(* State::signal_at *)
InRange(idx) == idx = SIGNAL_NONE \/ idx \in DOMAIN signals

(* served, with code_for: the guest sees a value or a status. *)
Served(answer) ==
    [code |-> CASE answer.cause = "ok" -> "ok"
                [] answer.cause = "noSignal" -> "NoSignalContext"
                [] OTHER -> "Expr",
     value |-> answer.value]
Status(code) == [code |-> code, value |-> NoValue]

Says(p, idx, reply) == said' = [prop |-> p, idx |-> idx, reply |-> reply]

(* PropContext::answer, where no evaluation is needed. *)
AskKnown(p, idx) ==
    /\ open
    /\ \/ /\ p \notin DOMAIN bodies
          /\ Says(p, idx, Status("InvalidArg"))
       \/ /\ p \in DOMAIN bodies /\ bodies[p].kind = "unset"
          /\ Says(p, idx, Status("NotFound"))
       \/ /\ p \in DOMAIN bodies /\ bodies[p].kind = "folded"
          /\ Says(p, idx, IF InRange(idx) THEN Served(bodies[p].answer)
                          ELSE Status("InvalidArg"))
       \/ /\ p \in DOMAIN bodies /\ bodies[p].kind = "perSignal"
          /\ \/ idx = SIGNAL_NONE /\ Says(p, idx, Status("NoSignalContext"))
             \/ ~InRange(idx) /\ Says(p, idx, Status("InvalidArg"))
             \/ /\ idx # SIGNAL_NONE /\ InRange(idx) /\ <<p, idx>> \in DOMAIN cache
                /\ Says(p, idx, Served(cache[<<p, idx>>]))
    /\ UNCHANGED <<manifest, supplied, phase, bodies, open, signals, cache, failures, callbacks>>

(* The same, on a miss. *)
AskFresh(p, idx) ==
    /\ open /\ p \in DOMAIN bodies /\ bodies[p].kind = "perSignal"
    /\ idx # SIGNAL_NONE /\ InRange(idx) /\ <<p, idx>> \notin DOMAIN cache
    /\ LET answer == Answer(bodies[p].expr, manifest[p].ty, signals[idx])
       IN  /\ cache' = [key \in DOMAIN cache \cup {<<p, idx>>} |->
                          IF key = <<p, idx>> THEN answer ELSE cache[key]]
           /\ failures' = failures \cup
                 {f \in {[prop |-> p, signal |-> idx, cause |-> answer.cause]} : f.cause # "ok"}
           /\ Says(p, idx, Served(answer))
    /\ UNCHANGED <<manifest, supplied, phase, bodies, open, signals, callbacks>>

(* A guest may name one property, and one signal, too many. *)
Ask == \E p \in 1 .. Len(manifest) + 1, idx \in SIGNAL_NONE .. Len(signals) + 1 :
          AskKnown(p, idx) \/ AskFresh(p, idx)

PropNext ==
    \/ Reject \/ Compile
    \/ \E batch \in Batches \cup {<<>>} : Begin(batch)
    \/ Ask \/ End
    \/ ~open /\ (phase = "rejected" \/ callbacks = MaxCallbacks) /\ UNCHANGED propVars

PropSpec == PropInit /\ [][PropNext]_propVars

-----------------------------------------------------------------------------
(* System blocks (crates/daemon/src/bridge.rs): the two blocks that are the
   daemon itself, and the one property they have. *)

SystemBlocks == {"publisher", "subscriber"}
SystemBlockOf(name) == {kind \in SystemBlocks : kind = name}
SystemManifest(kind) ==
    [name |-> kind, capabilities |-> {}, targets |-> <<>>,
     inputs |-> IF kind = "publisher" THEN <<"in">> ELSE <<>>,
     outputs |-> IF kind = "publisher" THEN <<>> ELSE <<"out">>,
     properties |-> <<Declared("topic", "string", TRUE, None)>>]

(* resolve_topic: one evaluation, of what parses, against no signal.  There is
   no analysis here: what the evaluation does not reach is not looked at. *)
Topic(value) == [is |-> "topic", value |-> value]
NoTopic(why) == [is |-> "refused", why |-> why]
ResolveTopic(supply, parsed, strings, names) ==
    IF DOMAIN supply # {"topic"} THEN NoTopic("configuration")
    ELSE IF supply["topic"] \notin parsed THEN NoTopic("expression")
    ELSE LET r == Evaluates(supply["topic"], NothingToRead)
         IN  IF r.cause # "ok" THEN NoTopic("expression")
             ELSE IF r.operand.value.t \notin strings THEN NoTopic("type")
             ELSE IF r.operand.value.t \notin names THEN NoTopic("name")
             ELSE Topic(r.operand.value)

-----------------------------------------------------------------------------
(* Properties. *)

(* ABI-SPEC 7.1, from the deployment and the batch of this callback alone. *)
Right(p, idx) ==
    IF p \notin DOMAIN manifest THEN Status("InvalidArg")
    ELSE IF Source(p) = None THEN Status("NotFound")
    ELSE IF idx = SIGNAL_NONE /\ ReadsSignal(Source(p)) THEN Status("NoSignalContext")
    ELSE IF ~InRange(idx) THEN Status("InvalidArg")
    ELSE Served(Answer(Source(p), manifest[p].ty, IF idx = SIGNAL_NONE THEN NothingToRead
                                                  ELSE signals[idx]))

(* However often the guest asks, and whether the answer comes from the fold, the
   cache or an evaluation: it is the one a fresh evaluation of what was deployed
   for that property gives for that signal of the batch the guest holds now.  A
   cache that outlives its callback, a fold of an expression that does read the
   signal or a property that loses its place would break it. *)
AnswersTheQuestion == said # Unasked => said.reply = Right(said.prop, said.idx)

(* What is asked of the language: an expression that may be folded does not mention
   the signal, and one that does not comes out the same for every signal. *)
Deployable ==
    ((UNION {{s[n] : n \in DOMAIN s} : s \in Supplies})
       \cup (UNION {{m[q].default : q \in DOMAIN m} : m \in Manifests})) \ {None}
Language ==
    \A e \in Deployable : ~Refused(e) =>
        /\ DependsOnSignal(e) <=> ReadsSignal(e)
        /\ ~DependsOnSignal(e) => \A batch \in Batches : \A i \in DOMAIN batch :
                                     Evaluates(e, batch[i]) = Evaluates(e, NothingToRead)
=============================================================================
