------------------------------- MODULE Numbers -------------------------------
(***************************************************************************)
(* Numbers in expressions: the primitives (crates/expr/src/num.rs) and the *)
(* builtins over them (builtin/arith.rs, compare.rs, convert.rs, and the   *)
(* counts of collect.rs).                                                  *)
(*                                                                         *)
(* An i64 is an integer from -Half64 to Half64 - 1, a float the numerator  *)
(* of a fraction over D, one of Floats.  Which integers are floats, and    *)
(* what the processor makes of a sum of two, is left to the constants:     *)
(* -0.0 is 0.0.  What may fail for its value yields a set, empty when it   *)
(* fails.                                                                  *)
(***************************************************************************)
EXTENDS Integers, Sequences, FiniteSets, SequencesExt

CONSTANTS Half64,         \* 2^63
          D,              \* the fractions in which floats are counted: 2^1074
          Floats,         \* the finite ones, as numerators
          AsF64(_),       \* the cast of an i64, as a numerator
          NumberFromStr(_),   \* the lexer
          Ieee(_, _, _)   \* the finite result of an operation on two, if any

I64 == (-Half64)..(Half64 - 1)
Checked(n) == {n} \cap I64
Sign(n) == IF n < 0 THEN -1 ELSE IF n > 0 THEN 1 ELSE 0

Int64(n) == [t |-> "int", n |-> n]
Float(f) == [t |-> "float", n |-> f]
Nums == {Int64(n) : n \in I64} \cup {Float(f) : f \in Floats}
IsInt(x) == x.t = "int"
IsNum(x) == x.t \in {"int", "float"}

\* The mathematical value, in D-ths.
Exact(x) == IF IsInt(x) THEN x.n * D ELSE x.n

-----------------------------------------------------------------------------
(* num.rs.  Division that truncates is i64's own. *)
Quotient(a, b) ==
    LET q == (IF a < 0 THEN -a ELSE a) \div (IF b < 0 THEN -b ELSE b)
    IN  IF (a < 0) = (b < 0) THEN q ELSE -q
Remainder(a, b) == a - b * Quotient(a, b)

\* What IEEE 754 grants: negation is exact, a float past the range of i64 is whole, and
\* the integer part of any other is a float, to which it is cast exactly.
FloatFormat ==
    /\ Half64 \in Nat \ {0} /\ D \in Nat \ {0} /\ Floats \subseteq Int
    /\ \A f \in Floats :
          /\ -f \in Floats
          /\ IF -Half64 * D <= f /\ f < Half64 * D THEN AsF64(Quotient(f, D)) = Quotient(f, D) * D
             ELSE f % D = 0

AsFloat(x) == IF IsInt(x) THEN AsF64(x.n) ELSE x.n

\* `add`, `sub`, `mul`: integers stay integers, and fail rather than wrap.
Promoting(op, whole, x, y) ==
    IF IsInt(x) /\ IsInt(y) THEN {Int64(n) : n \in Checked(whole)}
    ELSE {Float(f) : f \in Ieee(op, AsFloat(x), AsFloat(y))}

Add(x, y) == Promoting("+", x.n + y.n, x, y)
Sub(x, y) == Promoting("-", x.n - y.n, x, y)
Mul(x, y) == Promoting("*", x.n * y.n, x, y)
Div(x, y) == IF AsFloat(y) = 0 THEN {} ELSE {Float(f) : f \in Ieee("/", AsFloat(x), AsFloat(y))}

Neg(x) == IF IsInt(x) THEN {Int64(n) : n \in Checked(-x.n)} ELSE {Float(-x.n)}
Abs(x) == IF x.n < 0 THEN Neg(x) ELSE {x}

SignsDiffer(rest, b) == rest # 0 /\ (rest < 0) # (b < 0)

FloorDiv(a, b) ==
    IF b = 0 THEN {}
    ELSE UNION {Checked(IF SignsDiffer(Remainder(a, b), b) THEN q - 1 ELSE q) :
                  q \in Checked(Quotient(a, b))}

FloorMod(a, b) ==
    IF b = 0 THEN {}
    ELSE IF b = -1 THEN {0}
    ELSE IF SignsDiffer(Remainder(a, b), b) THEN Checked(Remainder(a, b) + b)
    ELSE {Remainder(a, b)}

TruncToI64(f) == IF -Half64 * D <= f /\ f < Half64 * D THEN {Quotient(f, D)} ELSE {}

FloorToI64(f) ==
    UNION {Checked(IF f < 0 /\ AsF64(t) # f THEN t - 1 ELSE t) : t \in TruncToI64(f)}

CeilToI64(f) ==
    UNION {Checked(IF f > 0 /\ AsF64(t) # f THEN t + 1 ELSE t) : t \in TruncToI64(f)}

RoundToI64(f) ==
    UNION {LET fraction == f - AsF64(t) IN
           Checked(IF 2 * fraction >= D THEN t + 1
                   ELSE IF 2 * fraction <= -D THEN t - 1 ELSE t) : t \in TruncToI64(f)}

\* What they are for: the whole numbers around x / d, and the one nearest to f / D, from
\* the middle away from zero, if an i64 is it.
Below(x, d) == {q \in I64 : q * d <= x /\ x < q * d + d}
Above(x, d) == {q \in I64 : q * d - d < x /\ x <= q * d}
Toward0(f)  == IF f >= 0 THEN Below(f, D) ELSE Above(f, D)
Nearest(f)  == IF f >= 0 THEN Below(2 * f + D, 2 * D) ELSE Above(2 * f - D, 2 * D)

CmpIntFloat(i, f) ==
    IF f >= Half64 * D THEN -1
    ELSE IF f < -Half64 * D THEN 1
    ELSE LET truncated == Quotient(f, D) IN
         IF i = truncated THEN -Sign(f - AsF64(truncated)) ELSE Sign(i - truncated)

Cmp(x, y) ==
    IF IsInt(x) = IsInt(y) THEN Sign(x.n - y.n)
    ELSE IF IsInt(x) THEN CmpIntFloat(x.n, y.n) ELSE -CmpIntFloat(y.n, x.n)

-----------------------------------------------------------------------------
(***************************************************************************)
(* Builtins.  An operand is a value or a function; a string is its rank    *)
(* among strings, and NumberFromStr the number the lexer reads in it, if   *)
(* any.  A result is an operand, or an error with the argument it blames,  *)
(* 0 for the call itself.  Arity is checked before.                        *)
(***************************************************************************)
Bool(b) == [t |-> "bool", n |-> IF b THEN 1 ELSE 0]
Numbers == {"int", "float"}
Data == Numbers \cup {"null", "bool", "str", "bytes", "array", "map"}

Gives(x) == [code |-> "ok", at |-> 0, is |-> x]
Err(code, at) == [code |-> code, at |-> at, is |-> Bool(FALSE)]
From(found, at) == IF found = {} THEN Err("domain", at) ELSE Gives(CHOOSE x \in found : TRUE)
Whole(found, at) == From({Int64(n) : n \in found}, at)

\* `Call::value`, `num`, `int`, asked of the arguments from left to right.
Unfit(args, kinds) == {i \in DOMAIN args : args[i].t \notin kinds}
Requiring(args, kinds, result) ==
    IF Unfit(args, kinds) = {} THEN result ELSE Err("type", Min(Unfit(args, kinds)))

\* `extreme` replaces the best so far by what improves on it strictly.
Extreme(best, candidate, keep) == {IF Cmp(candidate, best) = keep THEN candidate ELSE best}
Step(op, x, y) ==
    CASE op = "+" -> Add(x, y)
      [] op = "*" -> Mul(x, y)
      [] op = "-" -> Sub(x, y)
      [] op = "min" -> Extreme(x, y, -1)
      [] op = "max" -> Extreme(x, y, 1)

\* `fold_from_first`: an argument is looked at when its turn comes, and not before.
Fold(args, op) ==
    FoldLeftDomain(LAMBDA acc, i : IF acc.code # "ok" THEN acc
                                   ELSE IF ~IsNum(args[i]) THEN Err("type", i)
                                   ELSE IF i = 1 THEN Gives(args[1])
                                   ELSE From(Step(op, acc.is, args[i]), i),
                   Gives(Bool(FALSE)), args)

Plus(args) == IF args = <<>> THEN Gives(Int64(0)) ELSE Fold(args, "+")
Times(args) == IF args = <<>> THEN Gives(Int64(1)) ELSE Fold(args, "*")
Minus(args) == IF Len(args) = 1 THEN Requiring(args, Numbers, From(Neg(args[1]), 1))
               ELSE Fold(args, "-")
Divided(args) == Requiring(args, Numbers, From(Div(args[1], args[2]), 2))
IntDiv(args) == Requiring(args, {"int"}, Whole(FloorDiv(args[1].n, args[2].n), 2))
IntMod(args) == Requiring(args, {"int"}, Whole(FloorMod(args[1].n, args[2].n), 2))
Absolute(args) == Requiring(args, Numbers, From(Abs(args[1]), 1))

Least(args) == Fold(args, "min")
Greatest(args) == Fold(args, "max")

\* An integer is what it rounds to, and a float what was found of it.
ToInteger(args, found) ==
    Requiring(args, Numbers, IF IsInt(args[1]) THEN Gives(args[1]) ELSE Whole(found, 1))
Floor(args) == ToInteger(args, FloorToI64(args[1].n))
Ceil(args) == ToInteger(args, CeilToI64(args[1].n))
Round(args) == ToInteger(args, RoundToI64(args[1].n))

\* `values_equal`, but inside arrays and maps.
ValuesEqual(x, y) == IF IsNum(x) /\ IsNum(y) THEN Cmp(x, y) = 0 ELSE x = y
Equal(args) == Requiring(args, Data, Gives(Bool(ValuesEqual(args[1], args[2]))))
Unequal(args) == Requiring(args, Data, Gives(Bool(~ValuesEqual(args[1], args[2]))))

\* `order`, for the orderings that answer true.
Order(args, orderings) ==
    Requiring(args, Data,
        IF \A i \in DOMAIN args : args[i].t = "str"
        THEN Gives(Bool(Sign(args[1].n - args[2].n) \in orderings))
        ELSE Requiring(args, Numbers, Gives(Bool(Cmp(args[1], args[2]) \in orderings))))

Not(args) == Gives(Bool(args[1].t = "null" \/ args[1] = Bool(FALSE)))
Predicate(args, kinds) == Gives(Bool(args[1].t \in kinds))

ToInt(args) ==
    LET x == args[1] IN
    IF x.t = "bool" THEN Gives(Int64(x.n))
    ELSE IF x.t = "str" THEN From({y \in NumberFromStr(x.n) : IsInt(y)}, 1)
    ELSE ToInteger(args, TruncToI64(x.n))

ToFloat(args) ==
    LET x == args[1] IN
    IF x.t = "str" THEN From({Float(AsFloat(y)) : y \in NumberFromStr(x.n)}, 1)
    ELSE Requiring(args, Numbers, Gives(Float(AsFloat(x))))

\* `range`, up to the array itself: the integers it would hold.
Saturated(n) == IF n < -Half64 THEN -Half64 ELSE IF n >= Half64 THEN Half64 - 1 ELSE n
RangeOf(args, maxRange) ==
    LET start == IF Len(args) = 1 THEN 0 ELSE args[1].n
        end   == args[Len(args)].n
    IN  Requiring(args, {"int"},
            IF Saturated(end - start) > maxRange THEN Err("size", 0) ELSE Gives(start..(end - 1)))

\* `Call::count` on a host whose usize ends before `usize`, and `slice` by it.
Count(args, i, usize) ==
    IF args[i].t # "int" THEN Err("type", i)
    ELSE IF args[i].n < 0 \/ args[i].n >= usize THEN Err("domain", i) ELSE Gives(args[i].n)

Slice(items, args, usize) ==
    LET start == Count(args, 2, usize) length == Count(args, 3, usize) IN
    IF args[1].t # "array" THEN Err("type", 1)
    ELSE IF start.code # "ok" THEN start
    ELSE IF length.code # "ok" THEN length
    ELSE Gives(SubSeq(items, start.is + 1,
                   Min({Len(items), start.is + length.is})))

\* `sort`, of numbers or of strings: an element goes after all that are not greater.
Comparable(items) ==
    \/ \A i \in DOMAIN items : IsNum(items[i])
    \/ \A i \in DOMAIN items : items[i].t = "str"
Ordering(x, y) == IF IsNum(x) THEN Cmp(x, y) ELSE Sign(x.n - y.n)
Sort(items) ==
    IF ~Comparable(items) THEN Err("type", 1)
    ELSE Gives(FoldLeft(LAMBDA sorted, x :
                InsertAt(sorted, 1 + Cardinality({i \in DOMAIN sorted : Ordering(sorted[i], x) <= 0}), x),
                <<>>, items))
=============================================================================
