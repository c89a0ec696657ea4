--------------------------------- MODULE Feed ---------------------------------
(***************************************************************************)
(* What the observation bus promises the reader of a stream: every         *)
(* observation that is its to see, once and in order, from the moment it   *)
(* opened; and where it fell behind by more than the ring holds, one       *)
(* notice of exactly how many observations it was not shown.               *)
(***************************************************************************)
EXTENDS Integers, Sequences

CONSTANTS
    Source,   \* who is observed
    Event,    \* what may be observed of a source
    Reader,
    Mine,     \* [Reader -> SUBSET Source], what a reader's filter lets through
    Ring      \* how far a reader may fall behind

VARIABLES
    said,     \* every observation, in order
    at,       \* how far each reader is, or Off
    out       \* what each reader was sent

vars == <<said, at, out>>
Off == -1

Saw(o) == [seen |-> o]
Lagged(k) == [missed |-> k]

Init ==
    /\ said = <<>>
    /\ at = [r \in Reader |-> Off]
    /\ out = [r \in Reader |-> <<>>]

Say ==
    /\ \E s \in Source, e \in Event : said' = Append(said, <<s, e>>)
    /\ UNCHANGED <<at, out>>

Open(r) ==
    /\ at[r] = Off
    /\ at' = [at EXCEPT ![r] = Len(said)]
    /\ UNCHANGED <<said, out>>

Behind(r) == Len(said) - at[r]

Show(r) ==
    /\ at[r] # Off /\ Behind(r) > 0
    /\ LET o == said[at[r] + 1] IN
         out' = IF o[1] \in Mine[r] THEN [out EXCEPT ![r] = Append(@, Saw(o))] ELSE out
    /\ at' = [at EXCEPT ![r] = @ + 1]
    /\ UNCHANGED said

Skip(r) ==
    /\ at[r] # Off /\ Behind(r) > Ring
    /\ out' = [out EXCEPT ![r] = Append(@, Lagged(Behind(r) - Ring))]
    /\ at' = [at EXCEPT ![r] = Len(said) - Ring]
    /\ UNCHANGED said

Close(r) ==
    /\ at[r] # Off
    /\ at' = [at EXCEPT ![r] = Off]
    /\ UNCHANGED <<said, out>>

Next == Say \/ \E r \in Reader : Open(r) \/ Show(r) \/ Skip(r) \/ Close(r)
Spec == Init /\ [][Next]_vars
=============================================================================
