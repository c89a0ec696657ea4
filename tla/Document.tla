------------------------------ MODULE Document -------------------------------
(***************************************************************************)
(* A service file as its one editor sees it (crates/service/src/edit.rs,   *)
(* parse.rs): block instances, their label, property and layout entry, and *)
(* the wires between them.  `Refuses` is what an operation is refused for, *)
(* `Applied` what it leaves behind, `Sound` stage 1 of the validation.     *)
(*                                                                         *)
(* Text is left out: two files are equal here when they say the same.  A   *)
(* block has one property, and an expression is sound or not.              *)
(***************************************************************************)

CONSTANTS
    Id,     \* instance ids
    Name    \* service names

Definition == [name : Name, autostart : BOOLEAN, blocks : SUBSET Id,
               label : SUBSET Id, prop : [Id -> {"unset", "sound", "unsound"}],
               ui : SUBSET Id, wires : SUBSET (Id \X Id)]

\* Operations that name one instance.
OnBlock == {"add_block", "remove_block", "remove_prop", "set_name",
            "remove_name", "set_ui", "remove_ui"}

Operation ==
    [op : OnBlock, id : Id]
    \cup [op : {"set_prop"}, id : Id, to : {"sound", "unsound"}]
    \cup [op : {"connect", "disconnect"}, from : Id, to : Id, port : {"in", "err"}]
    \cup [op : {"set_autostart"}, to : BOOLEAN]

\* Those for which an instance the file does not define is an error.
Identified == {"remove_block", "set_prop", "remove_prop", "set_name", "remove_name"}

\* EditError, by operation.
Refuses(d, o) ==
    \/ o.op = "add_block" /\ o.id \in d.blocks
    \/ o.op \in Identified /\ o.id \notin d.blocks
    \/ /\ o.op = "connect"
       /\ \/ o.port = "err"
          \/ o.from \notin d.blocks
          \/ o.to \notin d.blocks
          \/ <<o.from, o.to>> \in d.wires
    \/ o.op = "disconnect" /\ (o.port = "err" \/ <<o.from, o.to>> \notin d.wires)

Touching(d, i) == {w \in d.wires : w[1] = i \/ w[2] = i}

\* The instance goes with its table and every connection that names it; its
\* layout entry stays.
RemoveBlock(d, i) ==
    [d EXCEPT !.blocks = @ \ {i}, !.label = @ \ {i}, !.prop[i] = "unset",
              !.wires = @ \ Touching(d, i)]

Applied(d, o) ==
    CASE o.op = "add_block"     -> [d EXCEPT !.blocks = @ \cup {o.id}]
      [] o.op = "remove_block"  -> RemoveBlock(d, o.id)
      [] o.op = "set_prop"      -> [d EXCEPT !.prop[o.id] = o.to]
      [] o.op = "remove_prop"   -> [d EXCEPT !.prop[o.id] = "unset"]
      [] o.op = "set_name"      -> [d EXCEPT !.label = @ \cup {o.id}]
      [] o.op = "remove_name"   -> [d EXCEPT !.label = @ \ {o.id}]
      [] o.op = "set_ui"        -> [d EXCEPT !.ui = @ \cup {o.id}]
      [] o.op = "remove_ui"     -> [d EXCEPT !.ui = @ \ {o.id}]
      [] o.op = "connect"       -> [d EXCEPT !.wires = @ \cup {<<o.from, o.to>>}]
      [] o.op = "disconnect"    -> [d EXCEPT !.wires = @ \ {<<o.from, o.to>>}]
      [] o.op = "set_autostart" -> [d EXCEPT !.autostart = o.to]

\* No connection names an instance the file does not define, and what an
\* instance has is an instance's.
Wired(d) ==
    /\ d.wires \subseteq d.blocks \X d.blocks
    /\ d.label \subseteq d.blocks
    /\ \A i \in Id \ d.blocks : d.prop[i] = "unset"

\* Stage 1: `parse` over the rendered text.
Sound(d) == Wired(d) /\ \A i \in Id : d.prop[i] # "unsound"
=============================================================================
