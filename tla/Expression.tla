----------------------------- MODULE Expression -----------------------------
(***************************************************************************)
(* The expression language of block properties (crates/expr): what is      *)
(* refused when a property is loaded, by the parser's two structural rules *)
(* and by the static analysis, and what evaluation yields afterwards.      *)
(*                                                                         *)
(* An expression is its tree.  Text, spans and messages are left out, an   *)
(* error being named by its cause; so are the budgets for fuel and size,   *)
(* which no expression this small can reach.  Eleven builtins stand for    *)
(* the sixty-three: those that read a container, a variadic one that       *)
(* builds a value, and the five that call back into the evaluator.         *)
(***************************************************************************)
EXTENDS Integers, Sequences, SequencesExt, TLC

CONSTANT MaxDepth   \* ParseLimits::max_depth and EvalLimits::max_depth

ASSUME DepthAssumption == MaxDepth \in Nat \ {0}

(* Values.  A signal is a map with at most the one attribute `a`. *)
Value(t, of) == [t |-> t, of |-> of]
Null == Value("null", <<>>)
Bool(b) == Value(IF b THEN "true" ELSE "false", <<>>)
Num(n) == Value(n, <<>>)         \* an index: "zero" or "one"
Str(s) == Value(s, <<>>)         \* a key: "'a" or "'b"
Array(items) == Value("array", items)
Signal(a) == Value("map", <<a>>)
Without == Value("map", <<>>)    \* a signal that lacks the attribute
NoSignal == Value("none", <<>>)  \* SIGNAL_NONE: there is no signal

(* Nodes of the tree. *)
Lit(v) == [kind |-> "literal", value |-> v]
Sym(name) == [kind |-> "symbol", name |-> name]
Whole == [kind |-> "signal"]      \* $
Attr == [kind |-> "attr"]         \* $a
List(items) == [kind |-> "list", items |-> items]

SpecialForms == {"and", "fn", "if", "let", "or"}
Callers == {"all?", "any?", "filter", "map", "reduce"}   \* they take a function
Builtins == Callers \cup {"arr", "first", "get", "get-or", "has?", "not"}
Arity(name) ==
    CASE name = "arr" -> Nat
      [] name \in {"first", "not"} -> {1}
      [] name \in {"get-or", "reduce"} -> {3}
      [] OTHER -> {2}

IsList(e) == e.kind = "list"
IsSymbol(e) == e.kind = "symbol"
Heads(items, name) == items # <<>> /\ IsSymbol(items[1]) /\ items[1].name = name

-----------------------------------------------------------------------------
(* Parser::parse_list *)

RECURSIVE Nesting(_)
Nesting(e) ==
    IF ~IsList(e) THEN 0
    ELSE LET inner == {0} \cup {Nesting(e.items[i]) : i \in DOMAIN e.items}
         IN  1 + (CHOOSE n \in inner : \A m \in inner : m <= n)

(* Parser::check_let_shadowing, of one list. *)
ShadowsLiteral(items) ==
    /\ Heads(items, "let") /\ Len(items) > 1 /\ IsList(items[2])
    /\ \E i \in DOMAIN items[2].items :
          LET pair == items[2].items[i]
          IN  /\ IsList(pair) /\ pair.items # <<>>
              /\ pair.items[1].kind = "literal"
              /\ pair.items[1].value.t \in {"true", "false", "null"}

RECURSIVE Parses(_)
Parses(e) ==
    IsList(e) => /\ ~ShadowsLiteral(e.items)
                 /\ \A i \in DOMAIN e.items : Parses(e.items[i])

(* Expr::is_signal_dependent *)
RECURSIVE SignalDependent(_)
SignalDependent(e) ==
    \/ e.kind \in {"signal", "attr"}
    \/ IsList(e) /\ \E i \in DOMAIN e.items : SignalDependent(e.items[i])

-----------------------------------------------------------------------------
(* analyze: what is statically wrong, in source order.  `scope` is the set of
   names bound around the node. *)

Report(wrong, cause) == IF wrong THEN <<cause>> ELSE <<>>

(* fn_params: the parameter count of a form that is exactly `(fn (a b) body)`. *)
IsPlainFn(e) ==
    /\ IsList(e) /\ Heads(e.items, "fn") /\ Len(e.items) = 3 /\ IsList(e.items[2])
    /\ \A i \in DOMAIN e.items[2].items : IsSymbol(e.items[2].items[i])

CheckArity(items, scope) ==
    LET head == items[1]
        args == Len(items) - 1
    IN  Report(\/ /\ IsSymbol(head) /\ head.name \in Builtins \ scope
                  /\ args \notin Arity(head.name)
               \/ IsPlainFn(head) /\ Len(head.items[2].items) # args,
               "arity")

RECURSIVE Walk(_, _), WalkAll(_, _), WalkBindings(_, _)

WalkAll(items, scope) ==
    IF items = <<>> THEN <<>> ELSE Walk(Head(items), scope) \o WalkAll(Tail(items), scope)

(* The bindings of a let, one after the other: what is wrong with them, and what
   is in scope after them.  A value is walked before its name is bound. *)
WalkBindings(pairs, scope) ==
    IF pairs = <<>> THEN [out |-> <<>>, scope |-> scope]
    ELSE LET pair == Head(pairs)
             items == pair.items
             named == IsList(pair) /\ items # <<>> /\ IsSymbol(items[1])
             bound == named /\ items[1].name \notin SpecialForms
             here == IF ~IsList(pair) THEN <<"letShape">>
                     ELSE Report(Len(items) # 2, "letShape")
                          \o (IF Len(items) > 1 THEN Walk(items[2], scope) ELSE <<>>)
                          \o Report(named /\ ~bound, "shadowsSpecialForm")
                          \o Report(~named /\ items # <<>>, "letShape")
             rest == WalkBindings(Tail(pairs), IF bound THEN scope \cup {items[1].name} ELSE scope)
         IN  [out |-> here \o rest.out, scope |-> rest.scope]

(* Mutant: the names are in scope before their values are walked. *)
WalkLetRecursive(items, scope) ==
    LET pairs == IF Len(items) > 1 /\ IsList(items[2]) THEN items[2].items ELSE <<>>
        named == {i \in DOMAIN pairs : IsList(pairs[i]) /\ Len(pairs[i].items) = 2
                                       /\ IsSymbol(pairs[i].items[1])}
        names == {pairs[i].items[1].name : i \in named} \ SpecialForms
    IN  Report(Len(items) # 3 \/ ~IsList(items[2]), "letShape")
        \o WalkBindings(pairs, scope \cup names).out
        \o (IF Len(items) > 2 THEN Walk(items[3], scope \cup names) ELSE <<>>)

(* walk_let *)
WalkLet(items, scope) ==
    LET pairs == IF Len(items) > 1 /\ IsList(items[2]) THEN items[2].items ELSE <<>>
        walked == WalkBindings(pairs, scope)
    IN  Report(Len(items) # 3, "letShape")
        \o walked.out
        \o Report(Len(items) > 1 /\ ~IsList(items[2]), "letShape")
        \o (IF Len(items) > 2 THEN Walk(items[3], walked.scope) ELSE <<>>)

(* What is wrong with the parameters of a fn: a non-symbol, the name of a special
   form, a name that came before. *)
ParamCauses(params) ==
    LET cause(i) == CASE ~IsSymbol(params[i]) -> "fnShape"
                      [] IsSymbol(params[i]) /\ params[i].name \in SpecialForms ->
                           "shadowsSpecialForm"
                      [] IsSymbol(params[i]) /\ \E j \in 1 .. i - 1 : params[j] = params[i] ->
                           "fnShape"
                      [] OTHER -> "ok"
    IN  SelectSeq([i \in DOMAIN params |-> cause(i)], LAMBDA c : c # "ok")

Names(params) ==
    {params[i].name : i \in {j \in DOMAIN params : IsSymbol(params[j])}} \ SpecialForms

(* walk_fn *)
WalkFn(items, scope) ==
    LET params == IF Len(items) > 1 /\ IsList(items[2]) THEN items[2].items ELSE <<>>
    IN  Report(Len(items) # 3, "fnShape")
        \o ParamCauses(params)
        \o Report(Len(items) > 1 /\ ~IsList(items[2]), "fnShape")
        \o (IF Len(items) > 2 THEN Walk(items[3], scope \cup Names(params)) ELSE <<>>)

(* walk, of a list *)
WalkList(items, scope) ==
    IF items = <<>> THEN <<"emptyList">>
    ELSE CASE Heads(items, "if") ->
                Report(Len(items) # 4, "ifShape") \o WalkAll(Tail(items), scope)
           [] Heads(items, "let") -> WalkLet(items, scope)
           [] Heads(items, "fn") -> WalkFn(items, scope)
           [] Heads(items, "and") \/ Heads(items, "or") -> WalkAll(Tail(items), scope)
           [] OTHER ->
                Report(items[1].kind \in {"literal", "signal", "attr"}, "valueHead")
                \o CheckArity(items, scope) \o WalkAll(items, scope)

Walk(e, scope) ==
    CASE IsSymbol(e) -> Report(e.name \notin scope \cup Builtins, "unbound")
      [] IsList(e) -> WalkList(e.items, scope)
      [] OTHER -> <<>>

(* analyze *)
Diagnostics(e) == Walk(e, {})

-----------------------------------------------------------------------------
(* Evaluator.  A result is an operand or the cause of an error; an operand is a
   value or a function, which is a builtin or a closure over its environment. *)

Err(cause) == [cause |-> cause]
Ok(operand) == [cause |-> "ok", operand |-> operand]
Data(v) == [kind |-> "data", value |-> v]
Builtin(name) == [kind |-> "builtin", name |-> name]
Closure(params, body, env) ==
    [kind |-> "closure", params |-> params, body |-> body, env |-> env]

Failed(r) == r.cause # "ok"
IsData(o) == o.kind = "data"
Truthy(o) == IsData(o) => o.value.t \notin {"false", "null"}
Bind(env, name, operand) ==
    [n \in DOMAIN env \cup {name} |-> IF n = name THEN operand ELSE env[n]]

(* nests_deeper_than, and Evaluator::constructed. *)
RECURSIVE NestsDeeper(_, _)
NestsDeeper(v, limit) ==
    /\ v.t \in {"array", "map"}
    /\ limit = 0 \/ \E i \in DOMAIN v.of : NestsDeeper(v.of[i], limit - 1)
Constructed(v) == IF NestsDeeper(v, MaxDepth) THEN Err("valueDepth") ELSE Ok(Data(v))

(* Evaluator::resolve *)
Resolve(name, env) ==
    IF name \in DOMAIN env THEN Ok(env[name])
    ELSE IF name \in Builtins THEN Ok(Builtin(name))
    ELSE Err("unbound")

(* Evaluator::attribute *)
Attribute(sig) ==
    CASE sig = NoSignal -> Err("noSignal")
      [] sig = Without -> Err("missing")
      [] OTHER -> Ok(Data(sig.of[1]))

(* element: what a key names in a container. *)
Index == [zero |-> 1, one |-> 2]
Key == ("'a" :> 1) @@ ("'b" :> 2)    \* a signal has at most the first
Keyable(container, key) ==
    \/ container.t = "map" /\ key.t \in DOMAIN Key
    \/ container.t = "array" /\ key.t \in DOMAIN Index
Element(container, key) ==
    IF ~Keyable(container, key) THEN Err("type")
    ELSE LET at == IF container.t = "map" THEN Key[key.t] ELSE Index[key.t]
         IN  IF at \in DOMAIN container.of THEN Ok(Data(container.of[at])) ELSE Err("missing")

(* The builtins that call nobody.  None of them takes a function for a value, but
   `not`, which takes anything. *)
GetOr(container, key, default) ==
    LET found == Element(container, key)
    IN  IF found.cause = "missing" THEN Ok(Data(default)) ELSE found
Has(container, key) ==
    IF Keyable(container, key) THEN Ok(Data(Bool(~Failed(Element(container, key)))))
    ELSE Err("type")
First(v) ==
    IF v.t # "array" THEN Err("type")
    ELSE IF v.of = <<>> THEN Err("missing") ELSE Ok(Data(v.of[1]))

Compute(name, args) ==
    LET v(i) == args[i].value
    IN  IF name = "not" THEN Ok(Data(Bool(~Truthy(args[1]))))
        ELSE IF \E i \in DOMAIN args : ~IsData(args[i]) THEN Err("type")
        ELSE CASE name = "arr" -> Constructed(Array([i \in DOMAIN args |-> v(i)]))
               [] name = "get" -> Element(v(1), v(2))
               [] name = "get-or" -> GetOr(v(1), v(2), v(3))
               [] name = "has?" -> Has(v(1), v(2))
               [] name = "first" -> First(v(1))

RECURSIVE Eval(_, _, _, _), EvalAll(_, _, _, _), Apply(_, _, _, _), Each(_, _, _, _, _, _),
          EvalLet(_, _, _, _, _), EvalUntil(_, _, _, _, _, _)

(* Arguments, left to right, up to the first that fails. *)
EvalAll(items, env, sig, d) ==
    IF items = <<>> THEN [cause |-> "ok", operands |-> <<>>]
    ELSE LET first == Eval(Head(items), env, sig, d)
         IN  IF Failed(first) THEN first
             ELSE LET rest == EvalAll(Tail(items), env, sig, d)
                  IN  IF Failed(rest) THEN rest
                      ELSE [rest EXCEPT !.operands = <<first.operand>> \o @]

(* The builtins that apply a function to one element after another.  `acc` is what
   they have gathered: the values of map and filter, the accumulator of reduce. *)
Gathered(name, acc) ==
    CASE name \in {"map", "filter"} -> Constructed(Array(acc))
      [] name = "reduce" -> IF IsData(acc) THEN Constructed(acc.value) ELSE Ok(acc)
      [] OTHER -> Ok(Data(Bool(name = "all?")))

Each(name, f, acc, items, sig, d) ==
    IF items = <<>> THEN Gathered(name, acc)
    ELSE LET item == Data(Head(items))
             r == Apply(f, IF name = "reduce" THEN <<acc, item>> ELSE <<item>>, sig, d)
             next(now) == Each(name, f, now, Tail(items), sig, d)
         IN  CASE Failed(r) -> r
               [] ~Failed(r) /\ name = "map" ->
                    IF IsData(r.operand) THEN next(Append(acc, r.operand.value)) ELSE Err("type")
               [] ~Failed(r) /\ name = "filter" ->
                    next(IF Truthy(r.operand) THEN Append(acc, Head(items)) ELSE acc)
               [] ~Failed(r) /\ name = "reduce" -> next(r.operand)
               [] ~Failed(r) /\ name \in {"any?", "all?"} ->
                    IF Truthy(r.operand) = (name = "any?")
                    THEN Ok(Data(Bool(name = "any?"))) ELSE next(acc)

ApplyBuiltin(name, args, sig, d) ==
    IF name \notin Callers THEN Compute(name, args)
    ELSE LET over == args[Len(args)]
         IN  IF IsData(args[1]) \/ ~IsData(over) THEN Err("type")
             ELSE IF over.value.t # "array" THEN Err("type")
             ELSE Each(name, args[1], IF name = "reduce" THEN args[2] ELSE <<>>,
                       over.value.of, sig, d)

(* Evaluator::apply *)
Apply(f, args, sig, d) ==
    IF f.kind = "builtin"
    THEN IF Len(args) \in Arity(f.name) THEN ApplyBuiltin(f.name, args, sig, d) ELSE Err("arity")
    ELSE IF Len(f.params) # Len(args) THEN Err("arity")
    ELSE IF d = MaxDepth THEN Err("depth")
    ELSE Eval(f.body,
              [n \in DOMAIN f.env \cup ToSet(f.params) |->
                 IF n \in ToSet(f.params)
                 THEN args[CHOOSE i \in DOMAIN args : f.params[i] = n] ELSE f.env[n]],
              sig, d + 1)

(* eval_if *)
EvalIf(items, env, sig, d) ==
    IF Len(items) # 4 THEN Err("ifShape")
    ELSE LET condition == Eval(items[2], env, sig, d)
         IN  IF Failed(condition) THEN condition
             ELSE Eval(items[IF Truthy(condition.operand) THEN 3 ELSE 4], env, sig, d)

(* eval_let, from its binding k on *)
EvalLet(items, k, env, sig, d) ==
    IF Len(items) # 3 \/ ~IsList(items[2]) THEN Err("letShape")
    ELSE IF k > Len(items[2].items) THEN Eval(items[3], env, sig, d)
    ELSE LET pair == items[2].items[k]
         IN  IF ~IsList(pair) THEN Err("letShape")
             ELSE IF Len(pair.items) # 2 THEN Err("letShape")
             ELSE IF ~IsSymbol(pair.items[1]) THEN Err("letShape")
             ELSE IF pair.items[1].name \in SpecialForms THEN Err("shadowsSpecialForm")
             ELSE LET value == Eval(pair.items[2], env, sig, d)
                  IN  IF Failed(value) THEN value
                      ELSE EvalLet(items, k + 1, Bind(env, pair.items[1].name, value.operand),
                                   sig, d)

(* eval_fn *)
EvalFn(items, env) ==
    IF Len(items) # 3 \/ ~IsList(items[2]) THEN Err("fnShape")
    ELSE LET params == items[2].items
             wrong == ParamCauses(params)
         IN  IF wrong # <<>> THEN Err(Head(wrong))
             ELSE Ok(Closure([i \in DOMAIN params |-> params[i].name], items[3], env))

(* eval_and (until = FALSE) and eval_or (until = TRUE): the first operand whose
   truth is `until`, or the last. *)
EvalUntil(until, last, items, env, sig, d) ==
    IF items = <<>> THEN last
    ELSE LET next == Eval(Head(items), env, sig, d)
         IN  IF Failed(next) THEN next
             ELSE IF Truthy(next.operand) = until THEN next
             ELSE EvalUntil(until, next, Tail(items), env, sig, d)

(* eval_list, at depth d, the list itself counted *)
EvalList(items, env, sig, d) ==
    IF items = <<>> THEN Err("emptyList")
    ELSE CASE Heads(items, "if") -> EvalIf(items, env, sig, d)
           [] Heads(items, "let") -> EvalLet(items, 1, env, sig, d)
           [] Heads(items, "fn") -> EvalFn(items, env)
           [] Heads(items, "and") ->
                EvalUntil(FALSE, Ok(Data(Bool(TRUE))), Tail(items), env, sig, d)
           [] Heads(items, "or") ->
                EvalUntil(TRUE, Ok(Data(Bool(FALSE))), Tail(items), env, sig, d)
           [] OTHER ->
                LET head == Eval(items[1], env, sig, d)
                IN  IF Failed(head) THEN head
                    ELSE IF IsData(head.operand) THEN Err("type")
                    ELSE LET args == EvalAll(Tail(items), env, sig, d)
                         IN  IF Failed(args) THEN args
                             ELSE Apply(head.operand, args.operands, sig, d)

Eval(e, env, sig, d) ==
    CASE e.kind = "literal" -> Ok(Data(e.value))
      [] IsSymbol(e) -> Resolve(e.name, env)
      [] e.kind = "signal" -> IF sig = NoSignal THEN Err("noSignal") ELSE Ok(Data(sig))
      [] e.kind = "attr" -> Attribute(sig)
      [] IsList(e) -> IF d = MaxDepth THEN Err("depth") ELSE EvalList(e.items, env, sig, d + 1)

(* Evaluator::eval_shared: what a property reads, a value or the cause. *)
Evaluate(e, sig) ==
    LET r == Eval(e, <<>>, sig, 0)
    IN  IF ~Failed(r) /\ ~IsData(r.operand) THEN Err("type") ELSE r
=============================================================================
