-------------------------------- MODULE Reader --------------------------------
(***************************************************************************)
(* The one walk over the bytes of a block (crates/manifest/src/module.rs), *)
(* which reads what the loader is about and, under a policy, refuses what  *)
(* the two hosts would not treat alike (portable.rs).                      *)
(*                                                                         *)
(* A module is the sequence of its sections, a section of functions one    *)
(* per body: s says which it is, and `of` what it holds.  What the parser  *)
(* cannot read is a section, a local or an operator "unreadable".  Indices *)
(* count from zero.                                                        *)
(***************************************************************************)
EXTENDS Naturals, Sequences, SequencesExt

\* `Downstream`, or no policy: what `read` asks, and the two flows of `read_portable`.
Downstream == {"none", "Engine", "Nothing"}

\* `refused`: the operators it names; a "call_indirect" is of table 0 unless it says so.
CarvedOut == {"memory.init", "data.drop", "table.init", "table.copy", "elem.drop", "ref.null",
              "ref.is_null", "ref.func", "table.get", "table.set", "table.size", "table.grow",
              "table.fill", "call_indirect on a table other than 0"}
MeasuredGaps == {"return_call", "return_call_indirect"}
Refused(op) ==
    IF op \in CarvedOut THEN "Unportable" ELSE IF op \in MeasuredGaps THEN "PostMvp" ELSE ""

\* `numeric`; SIMD is the engine's to refuse.
Numeric(ty) == IF ty = "ref" THEN "Unportable" ELSE ""

\* The first that is not "" of what a function says of each member of a sequence.
FirstOf(whys) == FoldLeft(LAMBDA found, why : IF found = "" THEN why ELSE found, "", whys)

\* `function`: stopping is silent where an engine follows.  Where a local cannot be read,
\* that is the end of the body; where none of them can, the operators are read anyway.
Stopped(policy) == IF policy = "Nothing" THEN "Undecodable" ELSE ""
UpTo(items) ==
    SelectInSeq(items, LAMBDA item : item = "unreadable")
Body(body, policy) ==
    LET cut(items) == IF UpTo(items) = 0 THEN items ELSE SubSeq(items, 1, UpTo(items) - 1)
        ended(items) == IF UpTo(items) = 0 THEN "" ELSE Stopped(policy)
        locals == IF body.locals = <<"none can be read">> THEN Stopped(policy)
                  ELSE FirstOf([i \in DOMAIN cut(body.locals) |-> Numeric(cut(body.locals)[i])]
                               \o <<ended(body.locals)>>)
        ops == FirstOf([i \in DOMAIN cut(body.ops) |-> Refused(cut(body.ops)[i])] \o <<ended(body.ops)>>)
    IN  IF locals # "" THEN locals
        ELSE IF UpTo(body.locals) # 0 THEN "" ELSE ops

\* `memory_declaration`.
MemoryDeclaration(memory) == IF memory.flag \in {"memory64", "shared"} THEN "PostMvp" ELSE ""

\* `func_type` and `val_type`: a type that is no function's is one without parameters.
ValType(ty) == IF ty \in {"i32", "i64", "f32", "f64"} THEN ty ELSE "Other"
FuncType(ty) ==
    [params |-> [i \in DOMAIN ty.params |-> ValType(ty.params[i])],
     results |-> [i \in DOMAIN ty.results |-> ValType(ty.results[i])]]
Judged(ty) == FirstOf([i \in DOMAIN (ty.params \o ty.results) |-> Numeric((ty.params \o ty.results)[i])])

-----------------------------------------------------------------------------
(* The walk.  What was read so far, and why it ended. *)

Start == [why |-> "", imports |-> <<>>, exports |-> <<>>, section |-> {}, pages |-> <<>>,
          types |-> <<>>, functions |-> <<>>, tables |-> 0]

Functions(imports) == SelectSeq(imports, LAMBDA i : i.kind = "func")

\* One section.  Under a policy a refusal is reported where the walk meets it.
Section(st, section, policy) ==
    LET of == section.of
        Judge(why) == IF policy = "none" THEN "" ELSE why
    IN  CASE section.s = "type" ->
                [st EXCEPT !.why = Judge(FirstOf([i \in DOMAIN of |-> Judged(of[i])])),
                           !.types = @ \o [i \in DOMAIN of |-> FuncType(of[i])]]
          [] section.s = "import" ->
                [st EXCEPT !.imports = @ \o [i \in DOMAIN of |-> of[i].name],
                           !.functions = @ \o [i \in DOMAIN Functions(of) |-> Functions(of)[i].index],
                           !.tables = @ + Len(SelectSeq(of, LAMBDA i : i.kind = "table"))]
          [] section.s = "function" -> [st EXCEPT !.functions = @ \o of]
          [] section.s = "table" -> [st EXCEPT !.tables = @ + Len(of)]
          [] section.s = "memory" ->
                [st EXCEPT !.why = Judge(FirstOf([i \in DOMAIN of |-> MemoryDeclaration(of[i])])),
                           !.pages = IF @ = <<>> /\ of # <<>> THEN <<of[1].min, of[1].max>> ELSE @]
          [] section.s = "export" -> [st EXCEPT !.exports = @ \o of]
          [] section.s = "code" -> [st EXCEPT !.why = Judge(Body(of, policy))]
          [] section.s = "manifest" ->
                IF st.section # {} THEN [st EXCEPT !.why = "DuplicateManifestSection"]
                ELSE [st EXCEPT !.section = {of}]
          [] section.s = "unreadable" -> [st EXCEPT !.why = "Unreadable"]
          [] section.s = "other" -> st

\* `too_many_tables`, after the walk.
Tables(st, policy) ==
    IF st.why = "" /\ policy # "none" /\ st.tables > 1 THEN [st EXCEPT !.why = "Unportable"] ELSE st

\* The signature of an exported function, if its indices are in range; of nothing else.
Signature(st, export) ==
    IF export.kind # "func" \/ export.index >= Len(st.functions) THEN {}
    ELSE LET ty == st.functions[export.index + 1]
         IN  IF ty < Len(st.types) THEN {st.types[ty + 1]} ELSE {}

Module(st) ==
    [imports |-> st.imports, section |-> st.section, pages |-> st.pages,
     exports |-> [i \in DOMAIN st.exports |->
                    [name |-> st.exports[i].name, kind |-> st.exports[i].kind,
                     signature |-> Signature(st, st.exports[i])]]]

Walked(sections, policy) ==
    Tables(FoldLeft(LAMBDA st, section : IF st.why # "" THEN st ELSE Section(st, section, policy),
                    Start, sections), policy)

\* `read_impl`: why it is refused, or what it is.
Read(sections, policy) ==
    LET st == Walked(sections, policy) IN
    IF st.why # "" THEN [why |-> st.why] ELSE [why |-> "", is |-> Module(st)]
=============================================================================
