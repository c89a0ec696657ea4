-------------------------------- MODULE Engine --------------------------------
(***************************************************************************)
(* The four bindings of host-core's `Engine` (crates/host-core/src/        *)
(* engine.rs): wasmtime in the daemon and in the reference host of the     *)
(* conformance suite, wasm3 and WAMR.  What each defines for modules to    *)
(* import, how a call of the guest finds its handler, how a call into the  *)
(* guest ends and on which budget, and the daemon's cache of compiled      *)
(* modules.  A host function is the pair of its namespace and its name.    *)
(***************************************************************************)
EXTENDS Admission, Integers, Sequences, SequencesExt

CONSTANTS ERR_UNSUPPORTED,
          Tick,          \* EPOCH_TICK, in the unit of deadlines
          U64Max

Bindings == {"daemon", "reference", "wasm3", "wamr"}
Wasmtime == {"daemon", "reference"}
MAX_ARITY == 4

-----------------------------------------------------------------------------
(* What is linked: the type a function is defined by. *)
Sig(params, result) == [params |-> params, result |-> result]
I32s(n) == [i \in 1..n |-> "i32"]
StatusSig(n) == Sig(I32s(n), "i32")

\* `CORE_IMPORTS` and `Capability::imports`, the published table.
ImportSpec ==
    [core  |-> [log |-> Sig(I32s(3), "none"), error |-> Sig(I32s(3), "none"),
                emit |-> StatusSig(3), prop |-> StatusSig(4), rand |-> StatusSig(2),
                time_unix_ms |-> Sig(<<>>, "i64"), time_mono_ms |-> Sig(<<>>, "i64")],
     state |-> [state_get |-> StatusSig(4), state_put |-> StatusSig(4), state_del |-> StatusSig(2)],
     timer |-> [timer_set |-> Sig(<<"i64", "i32">>, "i32"), timer_cancel |-> StatusSig(1)],
     gpio  |-> [gpio_mode |-> StatusSig(2), gpio_read |-> StatusSig(1), gpio_write |-> StatusSig(2),
                gpio_watch |-> StatusSig(2), gpio_unwatch |-> StatusSig(1)],
     i2c   |-> [i2c_write |-> StatusSig(4), i2c_read |-> StatusSig(4), i2c_write_read |-> StatusSig(6)],
     http  |-> [http_request |-> StatusSig(2)]]
Published == UNION {{ns} \X DOMAIN ImportSpec[ns] : ns \in DOMAIN ImportSpec}
SpecOf(f) == ImportSpec[f[1]][f[2]]

\* `CoreFn::ALL`, `StateFn::ALL`, `TimerFn::ALL`: the daemon's slots, and its closures' types.
DaemonSlots ==
    <<<<"core", "log">>, <<"core", "emit">>, <<"core", "prop">>, <<"core", "error">>,
      <<"core", "time_unix_ms">>, <<"core", "time_mono_ms">>, <<"core", "rand">>,
      <<"state", "state_get">>, <<"state", "state_put">>, <<"state", "state_del">>,
      <<"timer", "timer_set">>, <<"timer", "timer_cancel">>>>
DaemonTypes ==
    <<Sig(I32s(3), "none"), StatusSig(3), StatusSig(4), Sig(I32s(3), "none"),
      Sig(<<>>, "i64"), Sig(<<>>, "i64"), StatusSig(2),
      StatusSig(4), StatusSig(4), StatusSig(2),
      Sig(<<"i64", "i32">>, "i32"), StatusSig(1)>>

\* `link` of the reference host: some by hand, the others by the arities `link_i32` has.
ByHand ==
    {<<<<"core", "log">>, Sig(I32s(3), "none")>>, <<<<"core", "error">>, Sig(I32s(3), "none")>>,
     <<<<"core", "emit">>, StatusSig(3)>>, <<<<"timer", "timer_set">>, Sig(<<"i64", "i32">>, "i32")>>,
     <<<<"core", "time_unix_ms">>, Sig(<<>>, "i64")>>, <<<<"core", "time_mono_ms">>, Sig(<<>>, "i64")>>}
LinkI32 == {1, 2, 4, 6}
ByArity == ({"core"} \X {"rand", "prop"}) \cup (UNION {{c} \X Functions(c) : c \in Capability}
                                              \ {<<"timer", "timer_set">>})
ReferenceLinks == \A f \in ByArity : Len(SpecOf(f).params) \in LinkI32

\* What a binding defines, whatever the module imports: pairs of a function and its type.
Linked(b) ==
    CASE b = "daemon" -> {<<DaemonSlots[i], DaemonTypes[i]>> : i \in DOMAIN DaemonSlots}
      [] b = "reference" ->
            IF ReferenceLinks THEN ByHand \cup {<<f, StatusSig(Len(SpecOf(f).params))>> : f \in ByArity} ELSE {}
      [] OTHER -> {<<f, SpecOf(f)>> : f \in Published}

-----------------------------------------------------------------------------
(* Handlers.  `slots` maps what was registered to its handler. *)

\* `Import::from_name`, and `abi_name` for the others.
Known(b, f) ==
    IF b = "daemon" THEN f \in Range(DaemonSlots)
    ELSE \/ f[1] = "core" /\ f[2] \in CoreFunctions
         \/ f[1] \in Capability /\ f[2] \in Functions(f[1])

Rejects(b, slots, f) == ~Known(b, f) \/ f \in DOMAIN slots
Register(slots, f, handler) == [g \in DOMAIN slots \cup {f} |-> IF g = f THEN handler ELSE slots[g]]

\* A `Ret`: nothing, or a number of one of the two types.
Ret(t, n) == [t |-> t, n |-> n]
RetNone == Ret("none", 0)

\* `dispatch`, for handlers that are the numbers they return.
HandlerFor(slots, f) == IF f \in DOMAIN slots THEN slots[f] ELSE RetNone

\* wasm3's moves the handler out of the map while it runs, and puts it back: what the guest
\* is told, the map the handler runs beside, and the one that is left.
Wasm3Dispatch(slots, f, memory) ==
    IF ~memory \/ f \notin DOMAIN slots THEN [ret |-> RetNone, beside |-> slots, left |-> slots]
    ELSE LET beside == [g \in DOMAIN slots \ {f} |-> slots[g]] IN
         [ret |-> slots[f], beside |-> beside, left |-> Register(beside, f, slots[f])]

\* The reference host's, which finds its memory where `instantiate` left it.
ReferenceDispatch(slots, f, memory) == IF memory THEN HandlerFor(slots, f) ELSE RetNone

\* What the guest finds where the result of its call belongs.  The reference host and the
\* daemon convert a `Ret`; wasm3 leaves what its engine put there, `untouched`; and WAMR has
\* the result in the place of the first argument.
Returned(b, f, ret, args, untouched) ==
    IF SpecOf(f).result = "none" THEN 0
    ELSE IF SpecOf(f).result = ret.t THEN ret.n
    ELSE CASE b \in Wasmtime -> IF SpecOf(f).result = "i32" THEN ERR_UNSUPPORTED ELSE 0
           [] b = "wasm3" -> untouched
           [] b = "wamr" -> IF args = <<>> THEN untouched ELSE args[1]

-----------------------------------------------------------------------------
(* Calls into the guest. *)

Gave(n) == [died |-> "no", n |-> n]
Died(kind) == [died |-> kind, n |-> 0]

\* `trap_of`, of both of wasmtime's hosts.
TrapOf(failure) ==
    CASE failure = "OutOfFuel" -> "Fuel"
      [] failure = "Interrupt" -> "Deadline"
      [] failure = "OtherTrap" -> "Trap"
      [] failure = "NotATrap" -> "Engine"

\* What `Engine::call` makes of the results, each of the type that is declared.
OneI32(results, n) == IF results = <<"i32">> THEN Gave(n) ELSE Died("Engine")

\* `exports` are the types of the results of what the guest exports; an outcome is what
\* failed, or "nothing", and the number that was returned.  Of these hosts all but WAMR's have room
\* for one result, and index past it if there are more.
Called(exports, export, args) == export \in DOMAIN exports /\ Len(args) <= MAX_ARITY
Fits(results) == Len(results) <= 1
Metered(exports, export, args, outcome) ==
    IF ~Called(exports, export, args) THEN Died("Engine")
    ELSE IF ~Fits(exports[export]) THEN Died("panic")
    ELSE IF outcome.fails # "nothing" THEN Died(TrapOf(outcome.fails))
    ELSE OneI32(exports[export], outcome.n)

\* wasm3 meters nothing, and what fails is a trap.
Wasm3Call(exports, export, args, outcome) ==
    IF ~Called(exports, export, args) THEN Died("Engine")
    ELSE IF ~Fits(exports[export]) THEN Died("panic")
    ELSE IF outcome.fails # "nothing" THEN Died("Trap")
    ELSE OneI32(exports[export], outcome.n)

\* WAMR looks a name up as a C string, which one with a NUL is not.
NulName == "eio_with_NUL"
WamrCall(exports, export, args, outcome) ==
    IF export = NulName \/ ~Called(exports, export, args) THEN Died("Engine")
    ELSE IF outcome.fails # "nothing" THEN Died("Trap")
    ELSE OneI32(exports[export], outcome.n)

Call(b, exports, export, args, outcome) ==
    CASE b \in Wasmtime -> Metered(exports, export, args, outcome)
      [] b = "wasm3" -> Wasm3Call(exports, export, args, outcome)
      [] b = "wamr" -> WamrCall(exports, export, args, outcome)

\* `has_export`.
HasExport(exports, export) == export = "memory" \/ export \in DOMAIN exports

-----------------------------------------------------------------------------
(* Budgets: fuel, and a deadline in epochs. *)

\* `epoch_ticks`.
CeilDiv(a, b) == (a + b - 1) \div b
EpochTicks(deadline) ==
    LET ticks == CeilDiv(deadline, Tick) IN
    IF ticks > U64Max THEN U64Max ELSE IF ticks < 1 THEN 1 ELSE ticks

\* `arm`: the store of a guest entry that begins in an epoch.
Arm(budget, epoch) == [fuel |-> budget.fuel, until |-> epoch + EpochTicks(budget.deadline)]

\* What ends an entry that burns so much fuel over so many epochs, if anything.
Overruns(store, epoch, work) ==
    (IF work.fuel > store.fuel THEN {"OutOfFuel"} ELSE {})
    \cup (IF epoch + work.epochs >= store.until THEN {"Interrupt"} ELSE {})

\* A life: every entry is armed before it runs, the instantiation like the calls, and
\* the store keeps what the entry left of its fuel.
Enter(life, budget, work) ==
    LET store == Arm(budget, life.epoch) IN
    [epoch |-> life.epoch + work.epochs,
     store |-> [store EXCEPT !.fuel = IF work.fuel > @ THEN 0 ELSE @ - work.fuel],
     deaths |-> Append(life.deaths, Overruns(store, life.epoch, work))]
Life(budget, works) ==
    FoldLeft(LAMBDA life, work : Enter(life, budget, work),
             [epoch |-> 0, store |-> [fuel |-> 0, until |-> 0], deaths |-> <<>>], works)

\* `spawn_epoch_ticker`, by the instants it counts an epoch at: when a guest that was
\* entered at an instant, and does not come back, is interrupted.
Epoch(instants, now) == Cardinality({i \in DOMAIN instants : instants[i] <= now})
Interrupted(instants, now, deadline) == instants[Epoch(instants, now) + EpochTicks(deadline)]

-----------------------------------------------------------------------------
(* Instantiating on the others.  A module is whether it compiles, what it imports (functions *)
(* and their types), whether it exports a memory, and what its own initialisation does.      *)

\* The reference host: compiled, linked, armed, instantiated, and asked for its memory.
ReferenceInstantiates(module, budget) ==
    /\ module.compiles
    /\ module.imports \subseteq Linked("reference")
    /\ Overruns(Arm(budget, 0), 0, module.begins) = {} /\ ~module.begins.traps
    /\ module.memory

\* wasm3, which compiles a module eagerly and meters nothing.
Wasm3Instantiates(module) ==
    /\ module.compiles
    /\ module.imports \subseteq Linked("wasm3") /\ ~module.begins.traps
    /\ module.memory

\* WAMR's registry, by namespace and name: the signature as it is spelt, and the context its
\* trampoline gets.  It is filled once for the process, whoever asks first.
Spelt(ty) == IF ty = "i32" THEN "i" ELSE "I"
SignatureString(sig) ==
    <<"(">> \o [i \in DOMAIN sig.params |-> Spelt(sig.params[i])] \o <<")">>
            \o (IF sig.result = "none" THEN <<>> ELSE <<Spelt(sig.result)>>)
RegisterOne(registry, f) ==
    [g \in DOMAIN registry \cup {f} |->
        IF g = f THEN [signature |-> SignatureString(SpecOf(f)), ctx |-> f] ELSE registry[g]]
EnsureRuntime(runtime) ==
    IF runtime.up THEN runtime
    ELSE [up |-> TRUE, natives |-> FoldSet(LAMBDA f, natives : RegisterOne(natives, f), runtime.natives, Published)]
\* What WAMR finds for an import of a module when it loads it.
Resolves(natives, f, sig) == f \in DOMAIN natives /\ natives[f].signature = SignatureString(sig)

\* The bytes a host function finds behind WAMR's handles: by the pages there are now, not by
\* what was declared, and none if it finds no memory.
ViewBytes(memory) == IF memory = {} THEN 0 ELSE LET m == CHOOSE m \in memory : TRUE IN m.pages * m.perPage

-----------------------------------------------------------------------------
(* Instantiating on WAMR: the handles that exist when the call returns. *)

WamrSteps == <<"module", "instance", "memory", "exec_env">>
WamrRefusal ==
    [module |-> "Load", instance |-> "Instantiate", memory |-> "NoMemory", exec_env |-> "ExecEnv"]
\* What each refusal destroys; finding the memory creates nothing.
WamrUndoes == [module |-> {}, instance |-> {"module"}, memory |-> {"module", "instance"},
               exec_env |-> {"module", "instance"}]
WamrDrops == {"module", "instance", "exec_env"}

\* `fails` is the step that fails, if any does.
WamrInstantiates(stackSize, maxPages, fails) ==
    LET reached == {i \in DOMAIN WamrSteps : \A j \in 1..i : WamrSteps[j] \notin fails}
        made    == {WamrSteps[i] : i \in reached} \ {"memory"}
    IN  IF stackSize = 0 THEN [why |-> "ZeroStack", live |-> {}]
        ELSE IF maxPages = {0} THEN [why |-> "ZeroPages", live |-> {}]
        ELSE IF fails = {} THEN [why |-> "", live |-> made]
        ELSE LET step == CHOOSE s \in fails : TRUE IN
             [why |-> WamrRefusal[step], live |-> made \ WamrUndoes[step]]

-----------------------------------------------------------------------------
(* The daemon's compiled modules.  An artifact is named by its block and the engine's key,   *)
(* and is whole, torn, or one another build of the engine wrote; `dir` maps names to them.   *)

Artifact(wasm, key) == <<wasm, key>>
Compiled(wasm, key) == [of |-> wasm, by |-> key]
Torn == [of |-> "torn", by |-> "torn"]

\* `load_artifact`: what it does not load is a miss.
Loads(dir, wasm, key) ==
    Artifact(wasm, key) \in DOMAIN dir /\ dir[Artifact(wasm, key)].by = key

\* `store_artifact`, which the file system may fail and a kill may end: at the temporary,
\* or not before the rename.
Stored(dir, wasm, key, disk) ==
    IF disk = "writes"
    THEN [a \in DOMAIN dir \cup {Artifact(wasm, key)} |->
            IF a = Artifact(wasm, key) THEN Compiled(wasm, key) ELSE dir[a]]
    ELSE dir

\* `compile`: of which block the answer is, or why there is none, and the directory.
\* Without one (`Runtime::new`) nothing is kept.
Compile(dir, wasm, key, accepted, disk, keeps) ==
    IF keeps /\ Loads(dir, wasm, key)
    THEN [is |-> dir[Artifact(wasm, key)].of, dir |-> dir, compiled |-> FALSE]
    ELSE IF wasm \notin accepted THEN [is |-> "refused", dir |-> dir, compiled |-> TRUE]
    ELSE [is |-> wasm, compiled |-> TRUE,
          dir |-> IF keeps THEN Stored(dir, wasm, key, disk) ELSE dir]
=============================================================================
