----------------------------- MODULE MCObserveBus -----------------------------
(***************************************************************************)
(* The bus TLC checks `ObserveBus` on, and the conformance suite on a few  *)
(* scenarios and hosts; addresses have five bits and a page four bytes.    *)
(***************************************************************************)
EXTENDS ObserveBus, SequencesExt

C == INSTANCE Conformance WITH Half <- 16, Page <- 4

AtMost(n, set) == UNION {[1..k -> set] : k \in 0..n}
Maybe(set) == {{}} \cup {{x} : x \in set}

-----------------------------------------------------------------------------
(* Refusals. *)

Mod(uses, pages, broken) == [uses |-> uses, pages |-> pages, broken |-> broken, capabilities |-> {}]
Mods == {Mod(uses, pages, broken) :
           uses \in {{}, {"SIMD"}, {"threads"}, {"SIMD", "threads"}}, pages \in {1, 3}, broken \in BOOLEAN}
Specs == [proposal : Maybe({"SIMD", "threads"}), pages : Maybe({2}), names : Maybe({"SIMD", "memory"}),
          layer : {"engine", "loader"}]
NoStep == [stand_in |-> TRUE]
Refusal(module, spec, steps, limits) ==
    [refuses |-> {spec}, module |-> module, steps |-> steps, limits |-> limits]
Refusals == {Refusal(m, s, t, l) : m \in Mods, s \in Specs, t \in {<<>>, <<NoStep>>}, l \in BOOLEAN}
AHost(gaps, refuses, says, names, unsupported) ==
    [gaps |-> gaps, refuses |-> refuses, says |-> says, names |-> names, unsupported |-> unsupported]
Hosts == {AHost(g, r, s, n, u) : g \in {{}, {"SIMD"}}, r \in {{}, {"SIMD"}, C!Proposal},
                                 s \in {{}, {"SIMD"}}, n \in BOOLEAN, u \in {FALSE}}
         \cup {AHost({}, {}, {}, TRUE, TRUE)}
Conformant == AHost({}, C!Proposal, C!Proposal, TRUE, FALSE)

\* A refusal that passes was observed in the layer it names and in no other, and by its
\* name if the loader said it; one that is skipped is of an engine whose host says so.
ASSUME RefusalsAreObserved ==
    \A sc \in Refusals, host \in Hosts \cup {Conformant} :
        LET spec == CHOOSE s \in sc.refuses : TRUE
            report == C!Refused(sc, host)
            loader == C!Loader(sc.module, spec.pages)
            engine == C!EngineAnswer(host, sc.module)
        IN  /\ report.outcome = "passed" =>
                 /\ IF spec.layer = "loader" THEN loader # {} /\ spec.names # {} /\ spec.names \subseteq loader
                    ELSE loader = {} /\ ~engine.accepts /\ (host.names => spec.names \subseteq engine.says)
                 /\ spec.pages # {} => spec.layer = "loader"
                 /\ sc.steps = <<>> /\ ~sc.limits
            /\ report.outcome = "skipped" =>
                 spec.layer = "engine" /\ (host.unsupported \/ spec.proposal \subseteq host.gaps)
            /\ spec.layer = "loader" => report = C!Refused(sc, Conformant)
            /\ host = Conformant => report.outcome # "skipped"

\* That a module is refused for another proposal than the one a scenario is about can pass:
\* the name is all that ties the two, and a scenario of the engine's layer may leave it out,
\* or is asked of a host that names none.
ASSUME NamesTieTheTwo ==
    LET sc == Refusal(Mod({"SIMD"}, 1, FALSE),
                      [proposal |-> {"GC"}, pages |-> {}, names |-> {}, layer |-> "engine"], <<>>, FALSE)
    IN  C!Refused(sc, Conformant) = C!Passed

-----------------------------------------------------------------------------
(* Walks. *)

Expects == [dead : Maybe({"trap"}), rejected : Maybe({-1}), refused : {{}}, status : Maybe({0, -1}),
            saw : {<<>>, [calls |-> "one"]}]
Nothing == [dead |-> {}, rejected |-> {}, refused |-> {}, status |-> {}, saw |-> <<>>]
AStep(action, did, expect, reads) ==
    [action |-> action, did |-> did, expect |-> expect, saw |-> [calls |-> "one", logs |-> "none"],
     scriptReads |-> TRUE, dataReads |-> reads]
Did == {C!Returns(0), C!Returns(-1), C!Traps("trap")}
Steps == {AStep(a, d, e, TRUE) : a \in {"configure", "start", "stop"}, d \in Did,
                                 e \in {Nothing, [Nothing EXCEPT !.dead = {"trap"}],
                                        [Nothing EXCEPT !.rejected = {-1}], [Nothing EXCEPT !.status = {0}]}}
         \cup {AStep("deliver", d, Nothing, r) : d \in Did \cup {C!Declines("port")}, r \in BOOLEAN}
WalkHost(budgets, capabilities) ==
    [gaps |-> {}, refuses |-> C!Proposal, says |-> {}, names |-> TRUE, unsupported |-> FALSE,
     budgets |-> budgets, capabilities |-> capabilities, registers |-> {"core"} \cup capabilities]
Scenario(steps) ==
    [refuses |-> {}, module |-> Mod({}, 1, FALSE), steps |-> steps, limits |-> TRUE, resolves |-> TRUE,
     abi |-> "agrees", stateReads |-> TRUE, faults |-> <<>>,
     expect |-> [errors |-> {}, pages |-> {}, rest |-> <<>>], end |-> [pages |-> 1, rest |-> <<>>]]

\* Whether an expectation held, of what the step's call did and nothing else.
Met(step) ==
    /\ IF step.did.is = "traps" THEN step.expect.dead = {step.did.with} ELSE step.expect.dead = {}
    /\ step.did.is # "declines"
    /\ step.expect.rejected = IF step.action = "configure" /\ step.did.is = "returns" /\ step.did.with # 0
                              THEN {step.did.with} ELSE {}
    /\ step.expect.status # {} => step.did.is = "returns" /\ step.expect.status = {step.did.with}
                                    /\ step.expect.rejected = {}

\* A scenario passes if every call it names was made, in the order of a life, no death or
\* rejection went unforeseen and what is expected of each held; and nothing comes after an end.
Order(steps) ==
    \A i \in DOMAIN steps :
        /\ (steps[i].action = "configure") = (i = 1)
        /\ steps[i].action = "start" => \A j \in 2..(i - 1) : steps[j].action = "start" /\ steps[j].did.with # 0
        /\ steps[i].action \in {"deliver", "stop"} =>
             \E j \in 2..(i - 1) : steps[j].action = "start" /\ steps[j].did = C!Returns(0)
        /\ steps[i].did.is = "traps" \/ steps[i].action = "stop" \/ steps[i].expect.rejected # {} =>
             i = Len(steps)
ASSUME PassedAsForeseen ==
    \A steps \in AtMost(2, Steps) \cup {<<AStep("configure", C!Returns(0), Nothing, TRUE)>> \o s : s \in AtMost(2, Steps)} :
        LET report == C!Run(Scenario(steps), WalkHost(TRUE, {})) IN
        (report = C!Passed) =
            (Order(steps) /\ \A i \in DOMAIN steps : Met(steps[i]) /\ steps[i].dataReads)

\* What a step emitted and said is met exactly when it is what was expected, one for one and
\* in order; a difference is told once for each, or once for all if they are not as many; and
\* what else was expected of the step is told beside it.
Emissions == AtMost(2, [port : {"a", "b"}, batch : {"x", "y"}])
Texts == AtMost(2, [code : {0, 1}, contains : {"x", "y"}])
Lines == AtMost(2, [code : {0, 1}, words : {{"x"}, {"x", "y"}}])
ASSUME EmissionsAreCompared ==
    \A want \in Emissions, got \in Emissions :
        LET found == C!CheckEmissions(want, got) IN
        /\ (found = <<>>) = (want = got)
        /\ Len(want) # Len(got) => Len(found) = 1
        /\ Len(want) = Len(got) => Len(found) = Cardinality({i \in DOMAIN want : want[i] # got[i]})
ASSUME MessagesAreCompared ==
    \A want \in Texts, got \in Lines :
        (C!CheckMessages("logs", want, got) = <<>>) =
            (Len(want) = Len(got)
             /\ \A i \in DOMAIN want : want[i].code = got[i].code /\ want[i].contains \in got[i].words)
ASSUME ComparisonsAddUp ==
    \A emitted \in Emissions, status \in {0, -1}, dead \in BOOLEAN :
        LET expects == [Nothing EXCEPT !.status = {0}, !.saw = [emissions |-> <<>>, calls |-> "one"]]
            step    == [AStep("deliver", IF dead THEN C!Traps("trap") ELSE C!Returns(status), expects, TRUE)
                          EXCEPT !.saw = [emissions |-> emitted, calls |-> "one"]]
            found   == C!Check(expects, C!Observed(step))
        IN  IF dead THEN found = <<"died">>
            ELSE found = C!Unmet("status", status # 0) \o C!Unmet("emissions", emitted # <<>>)

\* A whole life, its errors counted and its pages measured.
Life == <<AStep("configure", C!Returns(0), Nothing, TRUE), AStep("start", C!Returns(-1), Nothing, TRUE),
          AStep("start", C!Returns(0), Nothing, TRUE), AStep("deliver", C!Returns(-1), Nothing, TRUE),
          AStep("stop", C!Returns(0), Nothing, TRUE)>>
ASSUME CountedToTheEnd ==
    \A n \in 0..5, errors \in Maybe(0..4), pages \in Maybe({0, 1, 2}) :
        LET sc == [Scenario(SubSeq(Life, 1, n)) EXCEPT !.expect.errors = errors, !.expect.pages = pages] IN
        (C!Run(sc, WalkHost(TRUE, {})) = C!Passed) =
            (/\ errors # {} => n > 0 /\ errors = {IF n < 2 THEN 0 ELSE IF n < 4 THEN 1 ELSE 2}
             /\ pages # {} => n = 5 /\ pages # {0})

\* What is skipped is skipped for something the host lacks, whatever the steps; a scenario
\* that is wrong in itself up to there fails on every host alike.
ASSUME SkipsAreGaps ==
    \A kind \in {"trap", "fuel", "deadline"}, capabilities \in SUBSET {"state"}, resolves, limits, budgets \in BOOLEAN,
       has \in SUBSET {"state"} :
        LET step == AStep("configure", C!Traps(kind), [Nothing EXCEPT !.dead = {kind}], TRUE)
            sc   == [Scenario(<<step>>) EXCEPT !.resolves = resolves, !.limits = limits,
                                               !.module.capabilities = capabilities]
            report == C!Run(sc, WalkHost(budgets, has))
        IN  /\ (report.outcome = "skipped") =
                 (resolves /\ limits /\ (~(capabilities \subseteq has) \/ (~budgets /\ kind # "trap")))
            /\ ~resolves \/ ~limits => report = C!Run(sc, WalkHost(TRUE, {"state"}))
            /\ report.outcome # "skipped" => report.outcome = IF resolves /\ limits THEN "passed" ELSE "failed"

\* What a scenario expects of a run is not looked at when it asserts a refusal, unlike steps
\* and limits, which may not be there.
ASSUME ExpectationsAreIgnored ==
    LET sc == Refusal(Mod({"threads"}, 1, FALSE),
                      [proposal |-> {"threads"}, pages |-> {}, names |-> {"threads"}, layer |-> "loader"], <<>>, FALSE)
        expecting == [sc EXCEPT !.steps = <<>>] @@ [expect |-> [errors |-> {3}, pages |-> {0}, rest |-> <<>>]]
    IN  C!Run(expecting, WalkHost(TRUE, {})) = C!Passed

\* One file that cannot be read leaves a suite without a report; otherwise the verdict is
\* that of the worst, and what was skipped did not run.
ASSUME OneFileFailsTheSuite ==
    LET good == Scenario(SubSeq(Life, 1, 1))
        skip == [good EXCEPT !.module.capabilities = {"state"}]
        bad  == [good EXCEPT !.limits = FALSE]
        host == WalkHost(TRUE, {})
    IN  \A files \in AtMost(3, {{good}, {skip}, {bad}, {}}) :
          LET suite == C!RunDir(files, host) IN
          IF suite.is = "error" THEN files = <<>> \/ \E i \in DOMAIN files : files[i] = {}
          ELSE LET verdict == C!Verdict(suite.reports) IN
               IF verdict.ok THEN /\ \A i \in DOMAIN files : files[i] # {bad}
                                  /\ verdict.ran = Cardinality({i \in DOMAIN files : files[i] = {good}})
               ELSE verdict.ran = Cardinality({i \in DOMAIN files : files[i] = {bad}})

-----------------------------------------------------------------------------
(* The ledger. *)

\* A delivery by host-core is no fault, whatever the guest's allocator says: it writes only
\* where it was just told to; and one it does not write the ledger knows as such.
ASSUME DeliveriesAreNoFaults ==
    \A len \in 0..31, raw \in -16..15, size \in {8, 24, 32} :
        LET allocation == C!Allocation(C!AsI32(len), raw)
            outcome    == C!Delivers(len, raw, size)
        IN  /\ outcome = "written" => C!Allocated({allocation}, C!AsU32(raw), len)
            /\ (outcome = "refused") = (allocation.disposition = "refused")
            /\ allocation.disposition = "misaligned" => outcome = "dead"

\* A write that leaves its allocation by one byte, at either end, is one.
ASSUME WritesOutsideAreFaults ==
    \A ptr \in {8, 16, 24}, size \in 1..7, from \in 0..31, len \in 1..8 :
        C!Allocated({C!Allocation(size, C!AsI32(ptr))}, from, len)
            = (from \in ptr..(ptr + size - 1) /\ from + len - 1 \in ptr..(ptr + size - 1))

\* The bisection finds the size of every memory of whole pages but the largest: the last
\* byte of the address space is never read.
ASSUME BisectionFindsThePages ==
    /\ \A pages \in 0..7 : C!Pages(pages * 4) = pages
    /\ C!Pages(32) = 7

-----------------------------------------------------------------------------
(* Capabilities. *)

ACall(capability, function, id) ==
    [capability |-> capability, function |-> function, id |-> id, out |-> [buf |-> 0, cap |-> 2], size |-> 8]
Calls == {ACall("timer", "timer_set", 0), ACall("timer", "timer_cancel", 0), ACall("timer", "timer_cancel", 1),
          ACall("gpio", "gpio_watch", 0), ACall("i2c", "i2c_read", 0)}
Answers == {[is |-> "value", with |-> 2], [is |-> "value", with |-> 3], [is |-> "id", with |-> 0], [is |-> "error", with |-> -6]}
Dialogue(shared, calls) ==
    FoldLeft(LAMBDA d, call : LET r == C!Dispatch(d.shared, call) IN
                              [shared |-> r.left, answers |-> Append(d.answers, r.answer)],
             [shared |-> shared, answers |-> <<>>], calls)
Queued(scripts) ==
    FoldLeft(LAMBDA s, script : C!Script(s, script[1], script[2]), C!Fresh({}), scripts)

\* Of a function that was scripted, the first calls get what was scripted, in order; the
\* others are as if nothing had been.
ASSUME ScriptsComeFirst ==
    \A scripts \in AtMost(2, {"timer_set", "i2c_read"} \X Answers), calls \in AtMost(3, Calls) :
        LET with    == Dialogue(Queued(scripts), calls)
            Nth(i)  == Cardinality({j \in 1..i : calls[j].function = calls[i].function})
            Of(i)   == SelectSeq(scripts, LAMBDA s : s[1] = calls[i].function)
            Plain   == {i \in DOMAIN calls : Nth(i) > Len(Of(i))}
            rest    == Dialogue(C!Fresh({}), SelectSeq([i \in DOMAIN calls |-> [i |-> i] @@ calls[i]],
                                                       LAMBDA c : c.i \in Plain))
            Place(i) == Cardinality({j \in Plain : j <= i})
        IN  \A i \in DOMAIN calls :
              with.answers[i] = IF i \in Plain THEN rest.answers[Place(i)]
                                ELSE C!Scripted(Of(i)[Nth(i)][2], calls[i].function, calls[i].out, calls[i].size)

\* Whatever asks for an id gets one nobody has, and an id that was handed out is known.
ASSUME IdsAreNew ==
    \A calls \in AtMost(4, Calls) :
        LET answers == Dialogue(C!Fresh({}), calls).answers
            Given   == {i \in DOMAIN calls : calls[i].function \in C!HandsOutIds}
        IN  /\ \A i, j \in Given : answers[i] = answers[j] => i = j
            /\ \A i \in DOMAIN calls : calls[i].function = "timer_cancel" =>
                 answers[i] = IF \E j \in Given : j < i /\ answers[j] = calls[i].id THEN 0 ELSE C!NOT_FOUND

\* What is denied answers that and uses up no script; a script for a function that does not
\* exist is taken and never asked for, so that a misspelt one checks nothing (scenario.rs is
\* strict so that this cannot be).
ASSUME DenialKeepsTheScript ==
    LET shared == C!Script(C!Fresh({"i2c"}), "i2c_read", [is |-> "value", with |-> 1]) IN
    C!Dispatch(shared, ACall("i2c", "i2c_read", 0)) = [answer |-> C!CAPABILITY, left |-> shared]
ASSUME MisspeltScriptsPass ==
    \A calls \in AtMost(3, Calls) :
        Dialogue(C!Script(C!Fresh({}), "timer_sett", [is |-> "id", with |-> 5]), calls).answers
            = Dialogue(C!Fresh({}), calls).answers

-----------------------------------------------------------------------------
(* The bus. *)

CONSTANTS block, log, tap, console

(* A tap sees what its instance and the log say of it, the console the log. *)
Filters == [r \in {tap, console} |-> IF r = tap THEN {block} ELSE {block, log}]
=============================================================================
