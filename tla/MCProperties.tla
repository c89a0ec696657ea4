---------------------------- MODULE MCProperties ----------------------------
(***************************************************************************)
(* Expressions and deployments for TLC: every form of the language, well   *)
(* shaped and not, over every choice of a few parts.                       *)
(***************************************************************************)
EXTENDS Properties, MCBlocks

One == Lit(Num("one"))
X == Sym("x")
Parts == {One, Lit(Null), Lit(Bool(TRUE)), Whole, Attr, X, Sym("not"), Sym("map"), Sym("if")}
Few == {One, Attr, X}

Call(f, args) == List(<<f>> \o args)
If(c, t, e) == Call(Sym("if"), <<c, t, e>>)
Fn(params, body) == Call(Sym("fn"), <<List(params), body>>)
Let(bindings, body) == Call(Sym("let"), <<List(bindings), body>>)
Pair(name, v) == List(<<name, v>>)

Applied == {List(<<>>)} \cup {List(<<f>>) : f \in Parts} \cup {List(<<f, a>>) : f, a \in Parts}
Ifs == {If(c, t, e) : c \in {Lit(Null), Attr, X}, t, e \in Few}
       \cup {Call(Sym("if"), <<c, Attr>>) : c \in Few}
Junctions == {Call(Sym(op), <<a, b>>) : op \in {"and", "or"}, a, b \in Few \cup {Lit(Null)}}
Fns == {Fn(ps, b) : ps \in {<<>>, <<X>>, <<X, X>>, <<Sym("if")>>, <<One>>}, b \in Few}
       \cup {Call(Sym("fn"), <<X, One>>), Call(Sym("fn"), <<List(<<X>>)>>)}
Simple == Parts \cup Applied \cup Ifs \cup Junctions \cup Fns

(* Functions applied where they are written, handed to map, bound by a let. *)
Called == {Call(f, args) : f \in Fns, args \in {<<>>, <<One>>, <<Attr>>, <<X>>}}
Mapped == {Call(Sym("map"), <<f, Call(Sym("arr"), <<a>>)>>) :
             f \in Fns \cup {Sym("not"), Sym("arr")}, a \in Few}
Lets == {Let(<<Pair(n, v)>>, b) : n \in {X, Sym("not"), Sym("if"), One, Lit(Bool(TRUE))},
                                  v \in Simple, b \in {X, Attr, Call(Sym("not"), <<X>>), Call(X, <<One>>)}}
        \cup {Let(<<Pair(X, v), Pair(n, w)>>, b) : n \in {X, Sym("y")}, v, w, b \in Few \cup {Call(Sym("y"), <<X>>)}}
        \cup {Let(<<X>>, X), Let(<<List(<<X>>)>>, X), Call(Sym("let"), <<X, X>>),
              Call(Sym("let"), <<List(<<Pair(X, One)>>)>>)}
Nested == {Call(f, <<g>>) : f \in {Sym("not"), Sym("arr"), Fn(<<X>>, Call(Sym("not"), <<X>>))},
                            g \in Applied \cup Called}

\* A container read by a key it may not have, or could never have.
Containers == {Whole, Attr, Call(Sym("arr"), <<One>>), Call(Sym("arr"), <<>>), Sym("not")}
Keys == {Lit(Num("zero")), One, Lit(Str("'a")), Lit(Str("'b")), Whole, Sym("not")}
Reads == {Call(Sym(f), <<c, k>>) : f \in {"get", "has?"}, c \in Containers, k \in Keys}
         \cup {Call(Sym("get-or"), <<c, k, v>>) : c \in Containers, k \in Keys, v \in {One, Sym("not")}}
         \cup {Call(Sym("first"), <<c>>) : c \in Containers}
Over == {Call(Sym("arr"), <<One, Attr, Lit(Null)>>), Call(Sym("arr"), <<>>), Attr}
Folded == {Call(Sym("reduce"), <<f, i, over>>) :
             f \in {Fn(<<X, Sym("y")>>, b) : b \in {X, Sym("y"), Call(Sym("arr"), <<X>>), Call(X, <<Sym("y")>>)}}
                   \cup {Sym("arr"), Sym("get"), Sym("not"), One},
             i \in {One, Sym("not"), X}, over \in Over}
Picked == {Call(Sym(q), <<f, over>>) :
             q \in {"filter", "any?", "all?"}, over \in Over,
             f \in {Fn(<<X>>, b) : b \in {X, Attr, Call(Sym("not"), <<X>>), Call(X, <<X>>)}}
                   \cup {Sym("not"), Sym("arr"), Sym("get"), One}}

RECURSIVE Tower(_, _, _)
Tower(f, n, top) == IF n = 0 THEN top ELSE Call(f, <<Tower(f, n - 1, top)>>)
\* Nested to the budget, one deeper, and to the budget only once it is called.
Towers == {Tower(f, n, top) : f \in {Sym("not"), Sym("arr")}, n \in {MaxDepth, MaxDepth + 1},
                              top \in {One, Whole}}
          \cup {Let(<<Pair(X, Fn(<<X>>, Call(Sym("not"), <<X>>)))>>, Tower(Sym("not"), n, Call(X, <<One>>))) :
                  n \in {1, 2}}

Pool == Simple \cup Called \cup Mapped \cup Lets \cup Nested
        \cup Reads \cup Folded \cup Picked \cup Towers

MCManifests ==
    {<<Declared("p", "any", FALSE, None), Declared("q", "any", TRUE, None)>>,
     <<Declared("p", "bool", FALSE, Attr), Declared("q", "bool", FALSE, One)>>}
MCSupplies ==
    {("q" :> e) : e \in Pool} \cup {("p" :> e) : e \in Few}
    \cup {("p" :> e) @@ ("q" :> Attr) : e \in Simple}
    \cup {<<>>, ("r" :> One)}
\* `$a` is sugar for `(get $ "a")`, and errs like it (ast.rs, ExprKind::Attr).
ASSUME SugarIsGet ==
    \A sig \in {NoSignal, Without, Signal(Num("one")), Signal(Null)} :
        Evaluate(Attr, sig) = Evaluate(Call(Sym("get"), <<Whole, Lit(Str("'a"))>>), sig)

MCBatches == {<<Signal(Num("one"))>>, <<Signal(Bool(TRUE)), Without>>}

(* The topic of a system block.  Once taken, it is what the expression would be for any
   signal (bridge.rs:217 asks for that); yet `(if true "a" $a)` is taken, which reads the
   signal where nobody looks, and so is a branch nothing is bound in. *)
Reading(e) == {x \in {e} : Nesting(x) <= MaxDepth /\ Parses(x)}
TopicOf(e) == ResolveTopic([topic |-> e], Reading(e), {"'a", "'b"}, {"'a"})
Texts == {Lit(Str("'a")), Lit(Str("'b"))}
Lazily == {If(c, t, e) : c \in {Lit(Bool(TRUE)), Lit(Null), Attr}, t, e \in Texts \cup Few}
TopicPool == Texts \cup Lazily \cup Pool
Taken(e) == TopicOf(e).is = "topic"
ASSUME TopicsAreForLife ==
    /\ \A e \in TopicPool : Taken(e) =>
          \A sig \in {NoSignal, Without, Signal(Num("one")), Signal(Null)} :
             LET r == Evaluate(e, sig) IN r.cause = "ok" /\ r.operand.value = TopicOf(e).value
    /\ \E e \in TopicPool : Taken(e) /\ MentionsSignal(e)
    /\ \E e \in TopicPool : Taken(e) /\ Diagnostics(e) # <<>>
    /\ \A e \in Texts : Taken(e) <=> e.value.t = "'a"
    /\ ResolveTopic(<<>>, {}, {}, {}).why = "configuration"
    /\ \A kind \in SystemBlocks : LET m == SystemManifest(kind) IN
          /\ SystemBlockOf(kind) = {kind} /\ Len(m.inputs) + Len(m.outputs) = 1
    /\ SystemBlockOf("counter") = {}

(* What PropContext asks of the language is so of this one. *)
ASSUME LanguageHolds == Language

(***************************************************************************)
(* What HostProofs proves of `Boundary`, on words of four bits, and what   *)
(* it excludes by its assumptions.                                         *)
(***************************************************************************)
B == INSTANCE Boundary WITH Half <- 8
Lengths == 0..17

ASSUME FillIsAllOrNothing ==
    \A out \in B!OutBuffer, len \in Lengths, size \in {0, 4, 9, 15} :
        LET answer == B!Answer(out, len, size) IN
        out.cap < 8 =>
            /\ B!Writes(out, len, size) <=> answer \in 0..out.cap
            /\ answer > out.cap => answer = len /\ ~B!Writes(out, len, size)

ASSUME WrittenAndReadAsAnError ==
    LET out == [buf |-> 0, cap |-> 8] IN B!Writes(out, 8, 9) /\ B!Answer(out, 8, 9) < 0

ASSUME BudgetHolds ==
    \A len, held, b \in B!U32 :
        B!Accepts(len, 15, {b}, held) =>
            \/ B!Charged(held, len) = held + len /\ held + len <= b
            \/ b = 15

(***************************************************************************)
(* What HostProofs proves of `Guest`, with 128 and 16 for 2^31, and the    *)
(* two calls a read pays again when lengths go up and down.                *)
(***************************************************************************)
G == INSTANCE Guest WITH Half <- 128
S == INSTANCE Guest WITH Half <- 16
HostOf(len) == [cap \in G!Usize |-> G!Answer([buf |-> 0, cap |-> cap], len, 256)]
Reads128 == {30, 64, 65, 100, 127, 128, 200}
Offers(first, len) ==
    LET answer == G!Size(HostOf(len)[first], first)
    IN  IF answer.is = "required" THEN <<first, answer.n>> ELSE <<first>>

ASSUME TwoTurnsRead ==
    \A len \in Reads128, first \in {1, 64, 100, 127} :
        LET caps == Offers(first, len)
            host == HostOf(len)
            cap == caps[Len(caps)] IN
        /\ G!Fills(host, len, 256) /\ G!Turns(caps, host)
        /\ G!Size(host[cap], cap) = IF len < 128 THEN G!Ok(len) ELSE G!Failed(G!LIMIT)

\* A buffer of 100 is cut to 70 by a shorter answer, and 100 takes two calls once more.
ASSUME BufferIsCutBack ==
    LET left(first, len) == LET caps == Offers(first, len)
                                cap == caps[Len(caps)] IN G!Left(HostOf(len)[cap], cap)
        once == left(G!FirstOffer(0), 100)
        again == left(G!FirstOffer(once), 70)
    IN  once = 100 /\ again = 70 /\ Len(Offers(G!FirstOffer(again), 100)) = 2

ASSUME SameRefusal ==
    \A len \in S!Usize, max, held \in {0, 3, 15, 31}, budget \in {{}, {5}, {31}}, batch \in BOOLEAN :
        S!Emit(TRUE, len, max, budget, held, batch)
            = S!Status(S!HostEmit(TRUE, len, max, budget, held, batch))

\* Too long for a port that is not there: the host names the port, the SDK the length.
ASSUME PortOrLength ==
    /\ S!Emit(FALSE, 4, 3, {}, 0, TRUE) = S!Failed(S!LIMIT)
    /\ S!HostEmit(FALSE, 4, 3, {}, 0, TRUE) = S!INVALID_ARG

ASSUME DeliveryIsOwned ==
    /\ \A len, block \in S!U32, size \in {8, 16, 31, 32} :
         LET raw == S!Allocate(S!AsI32(len), block)
             how == S!Delivers(len, raw, size) IN
         S!Heap(block, len, size) =>
             /\ how \in {"refused", "written"}
             /\ how = "written" => /\ S!Lent(raw, S!AsI32(len)) = len
                                   /\ S!Freed(raw, S!AsI32(len)) = {len}
    /\ S!Delivers(8, S!Allocate(8, 16), 24) = "written"

ASSUME RandFillsOrFails ==
    \A buf, len \in S!U32, size \in {0, 8, 32}, chunks \in 0..3 :
        LET r == S!Rand(buf, len, size, 4, chunks) IN
        r.answer = 0 <=> r.written = len

\* The state and timer functions: a block is told what the store did, and of a timer whose
\* id crosses as a negative number, that there is none.
Answers == {S!HasValue(n) : n \in {0, 3, 9, 15, 16, 20}} \cup {S!NotThere} \cup {S!Refusing(why) : why \in S!StateError}
Span(ptr, len) == [ptr |-> ptr, len |-> len]
Ranges == {Span(ptr, len) : ptr \in {0, 8}, len \in {0, 8, 20}}
ASSUME StateIsTold ==
    \A key \in Ranges, buf \in {0, 8}, cap \in {0, 3, 9}, size \in {0, 16}, store \in Answers :
        LET r == S!Outcome(S!HostStateGet(key, [buf |-> buf, cap |-> cap], size, store), cap) IN
        /\ r = S!Nothing <=> S!Reads(key, size) /\ store = S!NotThere
        /\ r.is = "ok" => store = S!HasValue(r.n) /\ S!Writes([buf |-> buf, cap |-> cap], r.n, size)
        /\ r.is = "required" => store = S!HasValue(r.n) /\ r.n > cap
        /\ S!IsRetryable(r) <=> S!Reads(key, size) /\ store = S!Refusing("Throttled")

ASSUME StateWritesAreTold ==
    \A key, value \in Ranges, size \in {0, 16}, store \in {S!Done} \cup {S!Refusing(why) : why \in S!StateError} :
        LET put == S!Status(S!HostStatePut(key, value, size, store))
            del == S!Status(S!HostStateDel(key, size, store)) IN
        /\ put = S!Ok(0) <=> S!Reads(key, size) /\ S!Reads(value, size) /\ store = S!Done
        /\ del = S!Ok(0) <=> S!Reads(key, size) /\ store = S!Done
        /\ S!IsRetryable(del) <=> S!Reads(key, size) /\ store = S!Refusing("Throttled")

ASSUME TimersAreTold ==
    \A delay \in {-1, 0, 1}, id \in S!U32 :
        LET r == S!Id(S!HostTimerSet(delay, S!Assigned(id))) IN
        /\ r.is = "ok" <=> delay > 0 /\ id < 16
        /\ r.is = "ok" => r.n = id /\ S!HostTimerCancel(S!AsI32(r.n)) = id

ASSUME HostHearsTheBlock ==
    \A result \in S!Results, decodes \in BOOLEAN :
        LET configured == S!Configure(decodes, result) IN
        /\ S!Status(S!Finish(result)) = result
        /\ S!Status(configured.status) = S!Ok(0) <=> configured.live

(***************************************************************************)
(* What HostProofs proves of `Admission`, over blocks that import any two  *)
(* functions of a few and may lack one export; all three ends occur.       *)
(***************************************************************************)
A == INSTANCE Admission
Importable == {<<"core", "emit">>, <<"core", "gpio_read">>, <<"state", "state_get">>,
               <<"timer", "timer_set">>, <<"timer", "state_get">>, <<"gpio", "gpio_read">>,
               <<"eio", "emit">>}
Abi(minor) == [major |-> 1, minor |-> minor]
Capable == {[capabilities |-> c, abi |-> Abi(minor), artifact |-> TRUE] :
              c \in SUBSET {"state", "timer", "gpio"}, minor \in {0, 1}}
Exports == A!RequiredExports \cup {"eio_on_timer", "eio_on_gpio"}
Modules == {[portable |-> TRUE, pages |-> {1}, readable |-> TRUE, embedded |-> {doc},
             imports |-> {i, j}, exports |-> Exports \ {f}, sound |-> Exports,
             version |-> Abi(0)] :
              doc \in Capable, i \in Importable, j \in Importable,
              f \in {"eio_on_timer", "eio_on_gpio", "eio_stop"}}
           \cup {[portable |-> TRUE, pages |-> {1}, readable |-> TRUE, embedded |-> {doc},
                  imports |-> {i}, exports |-> A!RequiredExports, sound |-> Exports,
                  version |-> Abi(0)] : doc \in Capable, i \in Importable}
Of(m) == CHOOSE doc \in m.embedded : TRUE
OnDaemon(m) == A!DaemonLoads(m, Of(m), Abi(0))
OnLeaf(m) == A!LeafBuilds(m, Of(m), Abi(0), {1}) /\ A!LeafBoots(Of(m))

ASSUME LoadedBlocksLink ==
    \A m \in Modules :
        OnDaemon(m) \/ OnLeaf(m) =>
            /\ m.imports \subseteq A!Registered(Of(m))
            /\ A!ImportsNamespace(m, "timer") => "eio_on_timer" \in m.exports

ASSUME SomeAreLoaded ==
    /\ \E m \in Modules : OnDaemon(m) /\ <<"timer", "timer_set">> \in m.imports
    /\ \E m \in Modules : OnLeaf(m) /\ <<"state", "state_get">> \in m.imports
    /\ \E m \in Modules : A!LeafBuilds(m, Of(m), Abi(0), {1}) /\ ~A!LeafBoots(Of(m))

(***************************************************************************)
(* What HostProofs proves of `Numbers`, and what needs a fold: i64 of five *)
(* bits, floats of a sign, three bits and an exponent, in quarters.  The   *)
(* integers past 8 are floats only here and there.                         *)
(***************************************************************************)
Magnitudes == {m * 2^e : m \in 0..7, e \in 0..6}
Binary3 == Magnitudes \cup {-f : f \in Magnitudes}
Far(n, m) == IF n < m THEN m - n ELSE n - m
Closest(num, den) ==
    CHOOSE f \in Binary3 : \A h \in Binary3 : Far(f * den, num) <= Far(h * den, num)
Cast(i) == Closest(i * 4, 1)
Finite(num, den) == IF Far(num, 0) > 448 * den THEN {} ELSE {Closest(num, den)}
Float3(op, a, b) ==
    CASE op = "+" -> Finite(a + b, 1)
      [] op = "-" -> Finite(a - b, 1)
      [] op = "*" -> Finite(a * b, 4)
      [] op = "/" -> IF b > 0 THEN Finite(4 * a, b) ELSE Finite(-4 * a, -b)
\* Strings 0, 1 and 2 read "no", "7" and "1.5".
Literal(s) == IF s = 1 THEN {[t |-> "int", n |-> 7]} ELSE IF s = 2 THEN {[t |-> "float", n |-> 6]} ELSE {}
N == INSTANCE Numbers WITH Half64 <- 16, D <- 4, Floats <- Binary3, AsF64 <- Cast,
                           NumberFromStr <- Literal, Ieee <- Float3

ASSUME FloatsAreFloats == N!FloatFormat

ASSUME CompareIsExact ==
    \A x, y \in N!Nums : N!Cmp(x, y) = N!Sign(N!Exact(x) - N!Exact(y))

ASSUME RoundingIsExact ==
    \A f \in Binary3 :
        /\ N!TruncToI64(f) = N!Toward0(f) /\ N!FloorToI64(f) = N!Below(f, 4)
        /\ N!CeilToI64(f) = N!Above(f, 4) /\ N!RoundToI64(f) = N!Nearest(f)

ASSUME DivisionFloors ==
    \A a, b \in N!I64 :
        /\ b # 0 => N!FloorDiv(a, b) = IF b > 0 THEN N!Below(a, b) ELSE N!Below(-a, -b)
        /\ N!FloorMod(a, b) = {} <=> b = 0
        /\ \A r \in N!FloorMod(a, b) :
             /\ IF b > 0 THEN 0 <= r /\ r < b ELSE b < r /\ r <= 0
             /\ \A q \in N!FloorDiv(a, b) : a = q * b + r

Operands == {N!Int64(n) : n \in {-16, 0, 9, 15}} \cup {N!Float(f) : f \in {-64, 6, 32, 40, 64}}
            \cup {[t |-> "str", n |-> s] : s \in 0..2} \cup {N!Bool(TRUE)}
            \cup {[t |-> t, n |-> 0] : t \in {"fn", "null"}}
Tuples(k) == [1..k -> Operands]

\* `min` and `max` answer the first of their extreme arguments as it is, blaming the
\* first that is no number; `sort` is stable, and puts the same one first.
ASSUME ExtremesAreFirst ==
    \A args \in UNION {Tuples(k) : k \in 1..3} :
        LET least == N!Least(args) sorted == N!Sort(args) IN
        /\ least.code = "ok" <=> \A i \in DOMAIN args : N!IsNum(args[i])
        /\ least.code = "type" => ~N!IsNum(args[least.at])
        /\ least.code = "ok" =>
             /\ least = N!Gives(sorted.is[1])
             /\ \E k \in DOMAIN args :
                   /\ least.is = args[k]
                   /\ \A i \in DOMAIN args :
                        N!Exact(args[k]) <= N!Exact(args[i]) - (IF i < k THEN 1 ELSE 0)
        /\ sorted.code = "ok" =>
             /\ \A x \in Operands : Len(SelectSeq(sorted.is, LAMBDA y : y = x))
                                    = Len(SelectSeq(args, LAMBDA y : y = x))
             /\ \A i \in 1..(Len(args) - 1) : N!Ordering(sorted.is[i], sorted.is[i + 1]) <= 0
             /\ \A x \in Operands :
                  LET Same(y) == N!Ordering(x, y) = 0
                  IN  N!IsNum(x) /\ N!IsNum(args[1]) =>
                        SelectSeq(sorted.is, Same) = SelectSeq(args, Same)

\* Every value has one type, a function none; a comparison of two operands is an error
\* or is true of exactly one of `<`, `=` and `>`.
ASSUME OneTypeOneOrder ==
    \A args \in Tuples(2) :
        LET Holds(orderings) == N!Order(args, orderings)
        IN  /\ Cardinality({t \in N!Data : N!Predicate(args, {t}).is = N!Bool(TRUE)})
                 = IF args[1].t = "fn" THEN 0 ELSE 1
            /\ Holds({0}).code = "ok" =>
                 /\ Cardinality({o \in {-1, 0, 1} : Holds({o}).is = N!Bool(TRUE)}) = 1
                 /\ Holds({0}) = N!Equal(args)
            /\ N!Equal(args).code = "ok" => N!Unequal(args) = N!Gives(N!Not(<<N!Equal(args).is>>).is)
            /\ N!Unequal(args).code = N!Equal(args).code

\* An int that a float holds survives the cast and its reverse; a cast answers its type.
ASSUME CastsAreTyped ==
    \A x \in Operands :
        LET int == N!ToInt(<<x>>) float == N!ToFloat(<<x>>) IN
        /\ int.code = "ok" => N!IsInt(int.is)
        /\ float.code = "ok" => float.is.t = "float"
        /\ N!IsInt(x) /\ N!Exact(x) \in Binary3 => N!ToInt(<<float.is>>) = N!Gives(x)
        /\ N!IsNum(x) /\ int.code = "ok" => int = N!ToInteger(<<x>>, N!Toward0(x.n))

\* A sum in another order is another answer: the fold stops at the first overflow.
ASSUME FoldsLeftToRight ==
    LET Sum(a, b, c) == N!Plus(<<N!Int64(a), N!Int64(b), N!Int64(c)>>) IN
    Sum(15, -1, 1) = N!Gives(N!Int64(15)) /\ Sum(15, 1, -1) = N!Err("domain", 2)

ASSUME ArithmeticStaysInside ==
    \A args \in Tuples(2) :
        \A r \in {N!Plus(args), N!Times(args), N!Minus(args), N!Divided(args), N!IntDiv(args),
                  N!IntMod(args), N!Greatest(args), N!Floor(args), N!Ceil(args), N!Round(args),
                  N!Absolute(<<args[1]>>), N!Minus(<<args[1]>>)} :
            IF r.code = "ok" THEN r.is \in N!Nums ELSE r.code \in {"type", "domain"}

\* A count is a usize: what a host of 64 bits clamps, one of 32 refuses.
ASSUME CountsDependOnTheHost ==
    LET At(usize) == N!Slice(<<1, 2, 3>>, <<[t |-> "array", n |-> 0], N!Int64(1), N!Int64(9)>>, usize)
    IN  At(16) = N!Gives(<<2, 3>>) /\ At(8) = N!Err("domain", 3)

ASSUME RangeIsExact ==
    \A start, end \in N!I64 :
        N!RangeOf(<<N!Int64(start), N!Int64(end)>>, 5)
          = IF end - start > 5 THEN N!Err("size", 0) ELSE N!Gives(start..(end - 1))
=============================================================================
