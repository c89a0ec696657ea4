----------------------------- MODULE Properties -----------------------------
(***************************************************************************)
(* The properties of one block instance, with the expressions they are     *)
(* written in: `PropContext` over `Expression`.                            *)
(***************************************************************************)
EXTENDS Expression, PropContext

(* compile_one: whether the expression is refused. *)
Refuses(e) == Nesting(e) > MaxDepth \/ ~Parses(e) \/ Diagnostics(e) # <<>>

(* Every node of a tree. *)
RECURSIVE Nodes(_)
Nodes(e) == {e} \cup (IF IsList(e) THEN UNION {Nodes(e.items[i]) : i \in DOMAIN e.items} ELSE {})

MentionsSignal(e) == \E n \in Nodes(e) : n.kind \in {"signal", "attr"}

-----------------------------------------------------------------------------
(* Properties. *)

(* What an expression may still fail with once a deployment was accepted. *)
Dynamic == {"type", "arity", "missing", "resultType", "depth", "valueDepth"}
CallsClosures(e) == \E n \in Nodes(e) : n.kind = "symbol" /\ n.name = "fn"

(* "Catching a typo at deploy rather than at 2 a.m." (analyze.rs:8): the analysis
   and the evaluator are two walks with scopes of their own, and no expression the
   first lets pass meets an unbound name or a malformed form in the second.  Nor
   does one without a `fn` nest too deeply to be evaluated when it did not to be
   parsed (eval.rs, eval_node: MAX_DEPTH means the same at both). *)
DecidedAtDeploy ==
    \A f \in failures :
        /\ f.cause \in Dynamic
        /\ f.cause = "depth" => CallsClosures(Source(f.prop))
=============================================================================
