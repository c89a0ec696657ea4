------------------------------ MODULE Designer -------------------------------
(***************************************************************************)
(* The Designer's one path for a canvas edit (designer/src/App.svelte,     *)
(* applyEdit), between the canvas of one browser tab and the service files *)
(* of the nodes: the text on the canvas is transformed by the stateless    *)
(* `POST /api/service-edit`, put to the node under the tag of the text on  *)
(* the canvas, and read back.  Every step awaits an answer, and what is on *)
(* the canvas is read again after the first.                               *)
(*                                                                         *)
(* A text stands for its tag, its digest.  Files are edited by others too. *)
(***************************************************************************)
EXTENDS Document, Integers, Sequences, SequencesExt

CONSTANTS
    Place,       \* services: one file of one node each
    NameOf,      \* NameOf[p]: its name, the stem of its file
    Start,       \* Start[p]: its definition at first
    Kinds,       \* bound: the gestures made
    MaxEdits,    \* bound: gestures
    MaxCalls,    \* bound: selections, lifecycle calls, reloads and sign-outs
    MaxOutside,  \* bound: edits by others
    Broken,      \* a file that is no service file
    Refused,     \* a batch the transform refuses
    None

Edits == 1..MaxEdits

\* An edit under way: where it is (pc), its number, the text given to the
\* transform (base) and what comes back (text), the PUT's service and tag, and
\* whether the canvas changed before that (meddled).
Underway == [pc : {"transform", "put", "written", "refetch"}, id : Edits,
             base : Definition, text : Definition \cup {Refused},
             at : Place, tag : Definition, meddled : BOOLEAN]

ASSUME DesignerAssumption ==
    /\ NameOf \in [Place -> Name] /\ Start \in [Place -> Definition]
    /\ \A p \in Place : Sound(Start[p]) /\ Start[p].name = NameOf[p]
    /\ Kinds \subseteq {"toggle", "add", "drag", "connect", "disconnect", "delete",
                        "configure", "clear"}
    /\ IsFiniteSet(Id) /\ MaxEdits \in Nat
    /\ Broken \notin Definition /\ Refused \notin Definition
    /\ None \notin Definition \cup Underway \cup Place \cup {Broken}

VARIABLES
    file,      \* file[p]: what is on the node
    selected,  \* the service the canvas is for
    shown,     \* currentService: the text on the canvas
    conflict,  \* the banner of a refused PUT is up
    busy,      \* the toolbar is disabled
    queue,     \* editQueue: edits that wait for their turn
    edit,      \* applyEditNow: the edit under way
    loads,     \* getService calls under way, and the lifecycle calls before them
    outcome,   \* outcome[e]: what became of edit e
    calls, outside

canvasVars == <<selected, shown, conflict>>
boundVars == <<calls, outside>>
vars == <<file, canvasVars, busy, queue, edit, loads, outcome, boundVars>>

\* A load: its number, why, where it is (verb, asked, read), what was read where.

Init ==
    /\ file = Start
    /\ selected = None
    /\ shown = None
    /\ conflict = FALSE
    /\ busy = FALSE
    /\ queue = <<>>
    /\ edit = None
    /\ loads = {}
    /\ outcome = [e \in Edits |-> "none"]
    /\ calls = 0
    /\ outside = 0

-----------------------------------------------------------------------------
(***************************************************************************)
(* Gestures: the operations a canvas that shows d may ask for.             *)
(***************************************************************************)
Do(op, i) == [op |-> op, id |-> i]
Wire(op, i, j) == [op |-> op, from |-> i, to |-> j, port |-> "in"]

\* handleBeforeDelete: the blocks, then the connections the canvas library
\* hands over with them, which are those of the blocks.
Delete(d, i) ==
    <<Do("remove_block", i)>>
    \o SetToSeq({Wire("disconnect", w[1], w[2]) : w \in Touching(d, i)})

Gestures(d, k) ==
    CASE k = "toggle"     -> {<<[op |-> "set_autostart", to |-> ~d.autostart]>>}
      [] k = "add"        -> {<<Do("add_block", i), Do("set_ui", i)>> : i \in Id \ d.blocks}
      [] k = "drag"       -> {<<Do("set_ui", i)>> : i \in d.blocks}
      [] k = "connect"    -> {<<Wire("connect", i, j)>> : i, j \in d.blocks}
      [] k = "disconnect" -> {<<Wire("disconnect", w[1], w[2])>> : w \in d.wires}
      [] k = "delete"     -> {Delete(d, i) : i \in d.blocks}
      [] k = "configure"  -> {<<[op |-> "set_prop", id |-> i, to |-> x], Do("set_name", i)>> :
                                 i \in d.blocks, x \in {"sound", "unsound"}}
      [] k = "clear"      -> {<<Do("remove_prop", i), Do("remove_name", i)>> : i \in d.blocks}

OneStep(d, o) == IF d = Refused \/ Refuses(d, o) THEN Refused ELSE Applied(d, o)

\* `POST /api/service-edit`: all of the batch in order, or nothing.
Edit(d, ops) ==
    LET after[n \in 0..Len(ops)] == IF n = 0 THEN d ELSE OneStep(after[n - 1], ops[n])
        r == after[Len(ops)]
    IN  IF r = Refused THEN Refused ELSE IF Sound(r) THEN r ELSE Refused

\* The node's word on a PUT of text to p whose If-Match is tag.
Stale(p, tag) == file[p] # tag

\* Mutant: the text is validated without regard to the file it is put to.
InvalidWhateverName(p, text) == ~Sound(text)

Invalid(p, text) == ~Sound(text) \/ text.name # NameOf[p]

-----------------------------------------------------------------------------
(***************************************************************************)
(* The edit path.                                                          *)
(***************************************************************************)
\* A gesture joins the queue.
Gesture ==
    /\ shown # None
    /\ \E e \in Edits, k \in Kinds : \E ops \in Gestures(shown, k) :
          /\ outcome[e] = "none"
          /\ \A f \in Edits : f < e => outcome[f] # "none"
          /\ queue' = Append(queue, [id |-> e, ops |-> ops])
          /\ outcome' = [outcome EXCEPT ![e] = "queued"]
    /\ UNCHANGED <<file, canvasVars, busy, edit, loads, boundVars>>

\* The edit at the head of the queue begins: withBusy, then the transform.
Begin ==
    /\ queue # <<>>
    /\ edit = None
    /\ selected # None /\ shown # None
    /\ queue' = Tail(queue)
    /\ edit' = [pc |-> "transform", id |-> Head(queue).id,
                base |-> shown, text |-> Edit(shown, Head(queue).ops),
                at |-> selected, tag |-> shown, meddled |-> FALSE]
    /\ busy' = TRUE
    /\ UNCHANGED <<file, canvasVars, loads, outcome, boundVars>>

\* Nothing is on the canvas any more: false, and on to the next.
BeginNothing ==
    /\ queue # <<>>
    /\ edit = None
    /\ selected = None \/ shown = None
    /\ queue' = Tail(queue)
    /\ outcome' = [outcome EXCEPT ![Head(queue).id] = "ignored"]
    /\ UNCHANGED <<file, canvasVars, busy, edit, loads, boundVars>>

Finish(o) ==
    /\ edit' = None
    /\ busy' = FALSE
    /\ outcome' = [outcome EXCEPT ![edit.id] = o]

\* The transform answers.  The service and the tag of the PUT are what is
\* selected and shown now.
Transformed ==
    /\ edit # None /\ edit.pc = "transform"
    /\ edit.text # Refused
    /\ selected # None /\ shown # None
    /\ edit' = [edit EXCEPT !.pc = "put", !.at = selected, !.tag = shown]
    /\ UNCHANGED <<file, canvasVars, busy, queue, loads, outcome, boundVars>>

\* `currentService!` is null by now: the edit throws.
TransformedTooLate ==
    /\ edit # None /\ edit.pc = "transform"
    /\ edit.text # Refused
    /\ selected = None \/ shown = None
    /\ Finish("threw")
    /\ UNCHANGED <<file, canvasVars, queue, loads, boundVars>>

\* 422 from the transform: the message is shown.
TransformRefused ==
    /\ edit # None /\ edit.pc = "transform"
    /\ edit.text = Refused
    /\ Finish("refused")
    /\ UNCHANGED <<file, canvasVars, queue, loads, boundVars>>

\* Mutant: no precondition.
PutWhatever ==
    /\ edit # None /\ edit.pc = "put"
    /\ ~Invalid(edit.at, edit.text)
    /\ file' = [file EXCEPT ![edit.at] = edit.text]
    /\ edit' = [edit EXCEPT !.pc = "written"]
    /\ UNCHANGED <<canvasVars, busy, queue, loads, outcome, boundVars>>

\* The node writes the file (put_service).
Put ==
    /\ edit # None /\ edit.pc = "put"
    /\ ~Stale(edit.at, edit.tag)
    /\ ~Invalid(edit.at, edit.text)
    /\ file' = [file EXCEPT ![edit.at] = edit.text]
    /\ edit' = [edit EXCEPT !.pc = "written"]
    /\ UNCHANGED <<canvasVars, busy, queue, loads, outcome, boundVars>>

\* 412: the banner goes up.
PutStale ==
    /\ edit # None /\ edit.pc = "put"
    /\ Stale(edit.at, edit.tag)
    /\ conflict' = TRUE
    /\ Finish("conflict")
    /\ UNCHANGED <<file, selected, shown, queue, loads, boundVars>>

\* 422 from the node: for Invalid, or for what only the node knows, the blocks
\* it resolves, which may be wrong for any text.
PutInvalid ==
    /\ edit # None /\ edit.pc = "put"
    /\ ~Stale(edit.at, edit.tag)
    /\ Finish("invalid")
    /\ UNCHANGED <<file, canvasVars, queue, loads, boundVars>>

Ask(why, pc, p) ==
    [n |-> calls, why |-> why, pc |-> pc, at |-> p, text |-> None]

\* The PUT answered: what is selected now is read back.
Refetch ==
    /\ edit # None /\ edit.pc = "written"
    /\ selected # None
    /\ edit' = [edit EXCEPT !.pc = "refetch"]
    /\ loads' = loads \cup {Ask("edit", "asked", selected)}
    /\ UNCHANGED <<file, canvasVars, busy, queue, outcome, boundVars>>

\* Mutant: an edit that threw leaves the chain where it is.
ThrowsStuck ==
    /\ edit # None
    /\ outcome' = [outcome EXCEPT ![edit.id] = "threw"]
    /\ loads' = {l \in loads : l.why # "edit"}
    /\ edit' = [edit EXCEPT !.pc = "refetch"]
    /\ UNCHANGED <<file, canvasVars, busy, queue, boundVars>>

\* A request of the edit fails, whether or not its work was done; or nothing is
\* selected any more when the PUT answers.  `editQueue` goes on past it.
Throws ==
    /\ edit # None
    /\ Finish("threw")
    /\ loads' = {l \in loads : l.why # "edit"}
    /\ UNCHANGED <<file, canvasVars, queue, boundVars>>

-----------------------------------------------------------------------------
(***************************************************************************)
(* What else changes the canvas.                                           *)
(***************************************************************************)
Meddle ==
    edit' = IF edit # None /\ edit.pc = "transform" THEN [edit EXCEPT !.meddled = TRUE]
                                                   ELSE edit

Call == calls < MaxCalls /\ calls' = calls + 1

\* selectService.
Select(p) ==
    /\ Call
    /\ selected' = p
    /\ shown' = None
    /\ conflict' = FALSE
    /\ loads' = loads \cup {Ask("select", "asked", p)}
    /\ Meddle
    /\ UNCHANGED <<file, busy, queue, outcome, outside>>

\* handleSignOut, and the deletion of the node or system that is selected.
SignOut ==
    /\ Call
    /\ selected # None
    /\ selected' = None
    /\ shown' = None
    /\ Meddle
    /\ UNCHANGED <<file, conflict, busy, queue, loads, outcome, outside>>

\* handleReloadLatest, from the banner.
ReloadLatest ==
    /\ Call
    /\ conflict
    /\ selected # None
    /\ conflict' = FALSE
    /\ loads' = loads \cup {Ask("reload", "asked", selected)}
    /\ UNCHANGED <<file, selected, shown, busy, queue, edit, outcome, outside>>

\* The banner is dismissed.
Dismiss ==
    /\ conflict
    /\ conflict' = FALSE
    /\ UNCHANGED <<file, selected, shown, busy, queue, edit, loads, outcome, boundVars>>

\* handleStart, handleStop and handleReload, from the toolbar.
Lifecycle ==
    /\ Call
    /\ ~busy
    /\ selected # None
    /\ busy' = TRUE
    /\ loads' = loads \cup {Ask("verb", "verb", selected)}
    /\ UNCHANGED <<file, canvasVars, queue, edit, outcome, outside>>

\* The node did as asked; what is selected now is read back.
LifecycleDone(l) ==
    /\ l.pc = "verb"
    /\ selected # None
    /\ loads' = (loads \ {l}) \cup {[l EXCEPT !.pc = "asked", !.at = selected]}
    /\ UNCHANGED <<file, canvasVars, busy, queue, edit, outcome, boundVars>>

\* The node reads the file for a GET.
Read(l) ==
    /\ l.pc = "asked"
    /\ loads' = (loads \ {l}) \cup {[l EXCEPT !.pc = "read", !.text = file[l.at]]}
    /\ UNCHANGED <<file, canvasVars, busy, queue, edit, outcome, boundVars>>

\* A load that no edit waits for arrives; the canvas shows it, whatever is
\* selected by now.
Arrive(l) ==
    /\ l.pc = "read" /\ l.why # "edit"
    /\ l.text # Broken
    /\ shown' = l.text
    /\ loads' = loads \ {l}
    /\ Meddle
    /\ busy' = IF l.why = "verb" THEN FALSE ELSE busy
    /\ UNCHANGED <<file, selected, conflict, queue, outcome, boundVars>>

\* It fails, or is no service file: said, and the canvas stays as it is.
ArriveFails(l) ==
    /\ l.why # "edit"
    /\ loads' = loads \ {l}
    /\ busy' = IF l.why = "verb" THEN FALSE ELSE busy
    /\ UNCHANGED <<file, canvasVars, queue, edit, outcome, boundVars>>

\* Mutant: what was read back is not shown.
LandedUnseen(l) ==
    /\ edit # None /\ edit.pc = "refetch"
    /\ l.pc = "read" /\ l.why = "edit"
    /\ l.text # Broken
    /\ Finish("landed")
    /\ loads' = loads \ {l}
    /\ UNCHANGED <<file, canvasVars, queue, boundVars>>

\* The edit has been read back; the list of services that is read after it may
\* still fail.
Landed(l) ==
    /\ edit # None /\ edit.pc = "refetch"
    /\ l.pc = "read" /\ l.why = "edit"
    /\ l.text # Broken
    /\ shown' = l.text
    /\ \E o \in {"landed", "threw"} : Finish(o)
    /\ loads' = loads \ {l}
    /\ UNCHANGED <<file, selected, conflict, queue, boundVars>>

\* Somebody else changes the file: an agent, another tab, a person.
Outside(p) ==
    /\ outside < MaxOutside
    /\ outside' = outside + 1
    /\ \/ /\ file[p] # Broken
          /\ \E k \in Kinds : \E ops \in Gestures(file[p], k) :
                /\ Edit(file[p], ops) # Refused
                /\ file' = [file EXCEPT ![p] = Edit(file[p], ops)]
       \/ file' = [file EXCEPT ![p] = Broken]
    /\ UNCHANGED <<canvasVars, busy, queue, edit, loads, outcome, calls>>

Editor ==
    \/ Begin \/ BeginNothing
    \/ Transformed \/ TransformedTooLate \/ TransformRefused
    \/ Put \/ PutStale \/ PutInvalid \/ Refetch \/ Throws
    \/ \E l \in loads : l.why = "edit" /\ Read(l)
    \/ \E l \in loads : Landed(l)

Operator ==
    \/ Gesture
    \/ \E p \in Place : Select(p)
    \/ SignOut \/ ReloadLatest \/ Dismiss \/ Lifecycle

Loading ==
    \E l \in loads : LifecycleDone(l) \/ Read(l) \/ Arrive(l) \/ ArriveFails(l)

Next == Editor \/ Operator \/ Loading \/ (\E p \in Place : Outside(p))

\* A request is answered or fails in the end.  Nobody owes a gesture.
Spec == Init /\ [][Next]_vars /\ WF_vars(Editor)

-----------------------------------------------------------------------------
(***************************************************************************)
(* Properties.                                                             *)
(***************************************************************************)

\* An edit replaces the very text it was made from, never one nobody saw
\* (DAEMON 9.3, DESIGNER 4), as long as the canvas is left alone while the
\* transform has the text.
NothingOverwrittenUnseen ==
    [][\A p \in Place :
          file'[p] # file[p] /\ outside' = outside =>
              edit.base = file[p] \/ edit.meddled]_vars

\* What the Designer and its peers leave on a node is a service file under its
\* own name, whichever service was on the canvas when the edit was made
\* (validate, Document::check); only a hand can break it.
FilesAreSound ==
    \A p \in Place : file[p] # Broken => Sound(file[p]) /\ file[p].name = NameOf[p]

\* The tab's own edits do not race each other: a conflict takes somebody else's
\* edit, a call that changed the canvas, or an edit that threw (App.svelte:
\* "Chaining serializes this tab's own edits so only a genuine outside change
\* produces a conflict").
OwnEditsDoNotRace ==
    \A e \in Edits : outcome[e] = "conflict" =>
        \/ outside > 0 \/ calls > 1
        \/ \E f \in 1..(e - 1) : outcome[f] = "threw"

\* Every edit gets an answer, whatever became of the one before it
\* (App.svelte: "A failed edit must not poison every edit queued after it").
EveryEditIsAnswered ==
    \A e \in Edits : outcome[e] = "queued" ~> outcome[e] # "queued"

-----------------------------------------------------------------------------
(***************************************************************************)
(* What the words say and the code does not do: README, section 4.         *)
(***************************************************************************)

\* DESIGNER 4: "it could not silent-overwrite if it tried".  A refreshed canvas
\* lends the PUT the tag of a text the edit has not seen.
NeverOverwritesUnseen ==
    [][\A p \in Place :
          file'[p] # file[p] /\ outside' = outside => edit.base = file[p]]_vars

\* ServiceCanvas: "delete-to-remove".  The connections of the block go with it,
\* so the operations that disconnect them are refused, and the batch with them.
DeletesGoThrough ==
    \A d \in {file[p] : p \in Place} \ {Broken} :
        \A i \in d.blocks : Edit(d, Delete(d, i)) # Refused
=============================================================================
