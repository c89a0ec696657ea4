----------------------------- MODULE Conformance ------------------------------
(***************************************************************************)
(* The conformance suite (crates/conformance): what becomes of a scenario  *)
(* on a host, the walk over its steps, the ledger of what a host did to    *)
(* guest memory, and the capabilities a scenario scripts.                  *)
(*                                                                         *)
(* A set of at most one member stands for what may be absent.  A module is *)
(* the proposals it uses, the pages and the capabilities it declares; a    *)
(* message is the set of the words it contains.                            *)
(***************************************************************************)
EXTENDS Boundary, Sequences, FiniteSets, SequencesExt

CONSTANT Page    \* the size of a page; it divides Half

\* `Proposal`, and those the loader refuses itself.
Proposal == {"SIMD", "relaxed SIMD", "tail call", "multi-memory", "memory64", "threads",
             "exceptions", "extended const", "GC"}
LoaderRefuses == {"tail call", "memory64", "threads"}

Passed == [outcome |-> "passed", why |-> <<>>]
Failed(why) == [outcome |-> "failed", why |-> <<why>>]
Skipped(why) == [outcome |-> "skipped", why |-> <<why>>]
Found(violations) ==
    IF violations = <<>> THEN Passed ELSE [outcome |-> "failed", why |-> violations]

\* Rows of a condition and a report: the first that applies is the answer.
Row(applies, report) == [applies |-> applies, report |-> report]
First(rows) == rows[SelectInSeq(rows, LAMBDA row : row.applies)].report

\* `validate_against` under a ceiling: what the refusal says, or {}.
Loader(module, ceiling) ==
    IF module.uses \cap LoaderRefuses # {} THEN module.uses \cap LoaderRefuses
    ELSE IF \E pages \in ceiling : module.pages > pages THEN {"memory"}
    ELSE IF module.broken THEN {"broken"} ELSE {}

\* A host: what it says of itself, the proposals its engine refuses and those it names,
\* and the namespaces its engine lets functions be registered in.
EngineAnswer(host, module) ==
    IF module.uses \cap host.refuses = {} THEN [accepts |-> TRUE, says |-> {}]
    ELSE [accepts |-> FALSE, says |-> module.uses \cap host.refuses \cap host.says]

-----------------------------------------------------------------------------
(* A scenario that asserts a refusal. *)

\* `RefusalSpec::cause`.
Illegible(spec) == Cardinality(spec.proposal) + Cardinality(spec.pages) # 1

\* `refused`.
Refused(sc, host) ==
    LET spec     == CHOOSE s \in sc.refuses : TRUE
        loader   == spec.layer = "loader"
        accepted == Loader(sc.module, spec.pages) = {}
        engine   == EngineAnswer(host, sc.module)
        said     == IF loader THEN Loader(sc.module, spec.pages) ELSE engine.says
    IN  First(<<Row(Illegible(spec), Failed("cause")),
                Row(spec.pages # {} /\ ~loader, Failed("memory is the loader's")),
                Row(sc.steps # <<>> \/ sc.limits, Failed("nothing to run")),
                Row(loader /\ accepted, Failed("the loader accepted it")),
                Row(~loader /\ ~accepted, Failed("the loader refused it")),
                Row(~loader /\ spec.proposal \subseteq host.gaps, Skipped("gap")),
                Row(~loader /\ host.unsupported, Skipped("unsupported")),
                Row(~loader /\ engine.accepts, Failed("the host accepted it")),
                Row(spec.names = {} /\ loader, Failed("has to name it")),
                Row(spec.names = {} \/ (~loader /\ ~host.names), Passed),
                Row(spec.names \subseteq said, Passed),
                Row(TRUE, Failed("does not name it"))>>)

-----------------------------------------------------------------------------
(* The walk.  A step carries what the guest, or the host, does when it is called:     *)
(* it returns a status, traps, or the host refuses the delivery.                      *)

Returns(status) == [is |-> "returns", with |-> status]
Traps(kind) == [is |-> "traps", with |-> kind]
Declines(limit) == [is |-> "declines", with |-> limit]

\* `eio_host_core`'s transitions: from where an action leads to, by what it did.
From == [configure |-> "fresh", start |-> "configured", deliver |-> "running", timer |-> "running",
         gpio |-> "running", http |-> "running", stop |-> "running"]
Ends(action, did) ==
    CASE did.is = "traps" -> "gone"
      [] did.is = "declines" -> "running"
      [] did.is = "returns" /\ action = "configure" -> IF did.with = 0 THEN "configured" ELSE "gone"
      [] did.is = "returns" /\ action = "start" -> IF did.with = 0 THEN "running" ELSE "configured"
      [] did.is = "returns" /\ action = "stop" -> "stopped"
      [] OTHER -> "running"

\* `Observed`: a rejected configuration has no status.
Observed(step) ==
    LET rejected == step.action = "configure" /\ step.did.is = "returns" /\ step.did.with # 0
        Only(kind) == IF step.did.is = kind THEN {step.did.with} ELSE {}
    IN  [dead |-> Only("traps"), refused |-> Only("declines"),
         status |-> IF rejected THEN {} ELSE Only("returns"),
         rejected |-> IF rejected THEN {step.did.with} ELSE {},
         saw |-> step.saw]

\* `fail`: what a comparison adds to the violations.
Unmet(name, fails) == IF fails THEN <<name>> ELSE <<>>
Differences(verdicts) == SelectSeq(verdicts, LAMBDA v : v # "met")

\* `check_emissions`: port by port and batch by batch, where there are as many.
CheckEmissions(want, got) ==
    IF Len(want) # Len(got) THEN <<"emissions">>
    ELSE Differences([i \in DOMAIN want |->
            IF want[i].port # got[i].port THEN "port"
            ELSE IF want[i].batch # got[i].batch THEN "batch" ELSE "met"])

\* The log lines, and the details of errors: a level or a status, and a text it contains.
CheckMessages(name, want, got) ==
    IF Len(want) # Len(got) THEN <<name>>
    ELSE Differences([i \in DOMAIN want |->
            IF want[i].code = got[i].code /\ want[i].contains \in got[i].words THEN "met" ELSE name])

\* `check`.  `saw` maps names to what there was, and what is expected of some.
Check(expect, observed) ==
    IF expect.dead = {} /\ observed.dead # {} THEN <<"died">>
    ELSE LET Expected(w) == w \in DOMAIN expect.saw
             Differs(w) == Unmet(w, Expected(w) /\ expect.saw[w] # observed.saw[w])
             Messages(w) == IF Expected(w) THEN CheckMessages(w, expect.saw[w], observed.saw[w]) ELSE <<>>
         IN  Unmet("dead", expect.dead # observed.dead)
               \o Unmet("rejected", expect.rejected # observed.rejected)
               \o Unmet("refused", expect.refused # observed.refused)
               \o Unmet("status", expect.status # {} /\ expect.status # observed.status)
               \o (IF Expected("emissions")
                   THEN CheckEmissions(expect.saw.emissions, observed.saw.emissions) ELSE <<>>)
               \o Differs("calls") \o Differs("evaluations")
               \o Messages("logs") \o Messages("errors")
               \o Differs("failures")

Begin == [stage |-> "fresh", errors |-> 0, violations |-> <<>>]

\* `Walk::step`.  A script that cannot be read ends the step before the call, an action the
\* stage does not offer leaves the instance; a port that is not there, or a payload that is
\* not one, has taken it along.
Step(walk, step) ==
    LET Fail(why) == [walk EXCEPT !.violations = @ \o why]
        counts == step.did.is = "returns" /\ step.did.with # 0
    IN  IF ~step.scriptReads THEN Fail(<<"script">>)
        ELSE IF walk.stage # From[step.action] THEN Fail(<<"transition">>)
        ELSE IF ~step.dataReads THEN [Fail(<<"data">>) EXCEPT !.stage = "gone"]
        ELSE [Fail(Check(step.expect, Observed(step))) EXCEPT
                !.stage = Ends(step.action, step.did),
                !.errors = IF counts THEN @ + 1 ELSE @]

\* `check_run`; pages are measured where the engine was handed back.
CheckRun(expect, end, walk) ==
    Unmet("errors", expect.errors # {}
                      /\ (walk.stage \in {"fresh", "gone"} \/ expect.errors # {walk.errors}))
      \o Unmet("pages", \E n \in expect.pages : walk.stage # "stopped" \/ end.pages > n)
      \o Unmet("rest", \E w \in DOMAIN expect.rest : expect.rest[w] # end.rest[w])

\* `run`: the walk, what it left and what the ledger found.
Walked(sc) == FoldLeft(Step, Begin, sc.steps)
Ran(sc, abi) ==
    LET walk == Walked(sc) IN
    Found(abi \o walk.violations \o sc.faults \o CheckRun(sc.expect, sc.end, walk))

Run(sc, host) ==
    LET deaths  == SelectSeq(sc.steps, LAMBDA s : s.expect.dead # {})
        budgets == deaths # <<>> /\ deaths[1].expect.dead \subseteq {"fuel", "deadline"}
        abi     == IF sc.abi = "agrees" THEN <<>> ELSE <<"abi">>
    IN  IF sc.refuses # {} THEN Refused(sc, host)
        ELSE First(<<Row(Loader(sc.module, {}) # {}, Failed("not loadable")),
                     Row(~sc.limits, Failed("limits")),
                     Row(~sc.resolves, Failed("properties")),
                     Row(~host.budgets /\ budgets, Skipped("budget")),
                     Row(~(sc.module.capabilities \subseteq host.capabilities), Skipped("capability")),
                     Row(host.unsupported, Skipped("unsupported")),
                     Row(~EngineAnswer(host, sc.module).accepts, Failed("the host refused it")),
                     Row(sc.abi = "traps", Failed("abi")),
                     Row("core" \notin host.registers, Found(abi \o <<"core">>)),
                     Row(~sc.stateReads, Found(abi \o <<"state">>)),
                     Row(~(sc.module.capabilities \subseteq host.registers), Skipped("functions")),
                     Row(TRUE, Ran(sc, abi))>>)

\* `run_dir`: the files of a directory by name, each the scenario that could be read of it,
\* to a summary or to an error.
RunDir(files, host) ==
    IF files = <<>> \/ {} \in Range(files) THEN [is |-> "error"]
    ELSE [is |-> "summary",
          reports |-> [i \in DOMAIN files |-> Run(CHOOSE sc \in files[i] : TRUE, host)]]

\* `Summary::verdict`: how many ran and passed, or how many failed.
Verdict(reports) ==
    LET Count(outcome) == Len(SelectSeq(reports, LAMBDA r : r.outcome = outcome)) IN
    IF Count("failed") = 0 THEN [ok |-> TRUE, ran |-> Len(reports) - Count("skipped")]
    ELSE [ok |-> FALSE, ran |-> Count("failed")]

-----------------------------------------------------------------------------
(* The ledger of `Recording`. *)

\* What `eio_alloc` answered: a size, where, and what that is worth.
Disposition(ptr) ==
    IF ptr = 0 THEN "refused" ELSE IF ptr % 8 = 0 THEN "accepted" ELSE "misaligned"
Allocation(size, answer) ==
    [size |-> AsU32(size), ptr |-> AsU32(answer), disposition |-> Disposition(AsU32(answer))]

\* `allocated`: a write of `len` bytes lies in a range the guest gave; its own frees are
\* not seen.
Allocated(allocations, ptr, len) ==
    \E a \in allocations :
        a.disposition = "accepted" /\ a.ptr <= ptr /\ ptr + len <= a.ptr + a.size

\* `memory_pages`, by bisection between what can be read and what cannot.
Pages(size) ==
    LET narrow[range \in (0..(2 * Half)) \X (0..(2 * Half))] ==
            LET low == range[1]  high == range[2]  mid == low + (high - low) \div 2 IN
            IF low + 1 >= high THEN low
            ELSE IF InMemory(size, mid - 1, 1) THEN narrow[<<mid, high>>] ELSE narrow[<<low, mid>>]
    IN  narrow[<<0, 2 * Half>>] \div Page

-----------------------------------------------------------------------------
(* The capabilities a scenario bends. *)

HandsOutIds == {"timer_set", "gpio_watch", "http_request"}
TakesIds == {"timer_cancel", "gpio_unwatch"}
HasOutBuffer == {"state_get", "i2c_read", "i2c_write_read"}
CAPABILITY == -4
NOT_FOUND == -7
IO == -8

\* `Shared`: what is denied, the queue of each function that was scripted, the next id.
Fresh(denied) == [denied |-> denied, answers |-> <<>>, next |-> 0]

\* `script`: any name is taken.
Script(shared, function, answer) ==
    [shared EXCEPT !.answers =
        IF function \in DOMAIN @ THEN [@ EXCEPT ![function] = Append(@, answer)]
        ELSE [f \in DOMAIN @ \cup {function} |-> IF f = function THEN <<answer>> ELSE @[f]]]

\* `scripted`: bytes need a buffer to go to, in a memory of a size; the other kinds of
\* answer are numbers.
Scripted(answer, function, out, size) ==
    CASE answer.is # "value" -> answer.with
      [] answer.is = "value" /\ function \in HasOutBuffer -> Answer(out, answer.with, size)
      [] OTHER -> INVALID_ARG

\* `dispatch` of a call of a function of a capability, with the id it passes if it takes one
\* and arguments host-core does not refuse: what it answers, and what is left.  What the state
\* functions answer of themselves is host-core's and not here.
Dispatch(shared, call) ==
    LET queue == IF call.function \in DOMAIN shared.answers THEN shared.answers[call.function] ELSE <<>>
        id    == shared.next
    IN  IF call.capability \in shared.denied THEN [answer |-> CAPABILITY, left |-> shared]
        ELSE IF queue # <<>>
             THEN [answer |-> Scripted(Head(queue), call.function, call.out, call.size),
                   left |-> [shared EXCEPT !.answers[call.function] = Tail(@)]]
        ELSE IF call.function \in HandsOutIds
             THEN [answer |-> id, left |-> [shared EXCEPT !.next = id + 1]]
        ELSE [left |-> shared,
              answer |-> CASE call.function \in TakesIds -> IF call.id \in 0..(id - 1) THEN 0 ELSE NOT_FOUND
                           [] call.function \in {"i2c_read", "i2c_write_read"} -> IO
                           [] OTHER -> 0]
=============================================================================
