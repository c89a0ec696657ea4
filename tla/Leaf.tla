--------------------------------- MODULE Leaf ---------------------------------
(***************************************************************************)
(* One block instance of a leaf node: the timers its driver pumps between  *)
(* guest calls, and the file that stands in for flash.                     *)
(*                                                                         *)
(* Nothing runs concurrently on a leaf, but time passes and the process    *)
(* may be killed at every step: a pump may be late by several periods, a   *)
(* guest may call the host in the middle of a pump, a write may fail half  *)
(* way.                                                                    *)
(***************************************************************************)
EXTENDS Integers, FiniteSets

CONSTANTS
    Key, Value,
    Delays,    \* delays a guest asks for
    MaxInt,    \* the largest i64
    IdSpace,   \* how many timer ids there are (2^32 in the code)
    Wear,      \* puts the store accepts in one life
    MaxNow,    \* bound: the clock of one life
    MaxCalls,  \* bound: host calls that change something, in all lives
    MaxLives,  \* bound: boots
    Absent     \* a key that is not stored

ASSUME LeafAssumption ==
    /\ Delays \subseteq 1 .. MaxInt
    /\ {MaxInt, IdSpace} \subseteq Nat \ {0}
    /\ {Wear, MaxNow, MaxCalls, MaxLives} \subseteq Nat
    /\ MaxNow <= MaxInt
    /\ Absent \notin Value

VARIABLES
    pc,       \* what the processor does
    back,     \* where the guest's current callback returns to
    clock,    \* ClockSource::mono_ms
    now,      \* what the driver handed to pump
    nextId,   \* Scheduled::next_id
    armed,    \* Scheduled::armed; `n` counts the timers of a life in arm order
    entries,  \* FileStateStore::entries
    puts,     \* FileStateStore::puts_remaining
    file,     \* the state file
    tmp,      \* its temporary
    fired,    \* history: timers that fired in this pump, and the ones that did twice
    count,    \* history: timers armed in this life
    op,       \* the mutation the store is busy with
    promised, \* history: for each key, what the block may find after a restart
    calls, lives

timerVars == <<nextId, armed, fired, count>>
storeVars == <<entries, puts, file, tmp, op, promised>>
vars == <<pc, back, clock, now, timerVars, storeVars, calls, lives>>

Instants == -(MaxInt + 1) .. MaxInt
Map == [Key -> Value \cup {Absent}]
NoOp == [key |-> Absent, value |-> Absent]
Armed == [n : 1 .. MaxCalls, id : 0 .. IdSpace - 1, due : Instants, period : Delays,
          repeat : BOOLEAN]

TypeOK ==
    /\ pc \in {"guest", "write", "rename", "idle", "pump", "ended", "off"}
    /\ back \in {"idle", "pump", "ended"}
    /\ clock \in 0 .. MaxNow /\ now \in 0 .. MaxNow
    /\ nextId \in 0 .. IdSpace - 1
    /\ armed \in SUBSET Armed
    /\ fired \in [once : SUBSET (1 .. MaxCalls), again : SUBSET (1 .. MaxCalls)]
    /\ count \in 0 .. MaxCalls
    /\ entries \in Map /\ file \in Map /\ tmp \in Map
    /\ puts \in 0 .. Wear
    /\ op \in [key : Key \cup {Absent}, value : Value \cup {Absent}]
    /\ promised \in [Key -> SUBSET (Value \cup {Absent}) \ {{}}]
    /\ calls \in 0 .. MaxCalls /\ lives \in 1 .. MaxLives

NothingFired == [once |-> {}, again |-> {}]
Init ==
    /\ pc = "guest" /\ back = "idle"
    /\ clock = 0 /\ now = 0
    /\ nextId = 0 /\ armed = {} /\ fired = NothingFired /\ count = 0
    /\ entries = [k \in Key |-> Absent] /\ file = entries /\ tmp = entries
    /\ puts = Wear /\ op = NoOp
    /\ promised = [k \in Key |-> {Absent}]
    /\ calls = 0 /\ lives = 1

-----------------------------------------------------------------------------
(* Timers. *)

(* i64 addition of a release build. *)
Wrapped(n) == IF n > MaxInt THEN n - 2 * (MaxInt + 1) ELSE n

HostCall == pc = "guest" /\ calls < MaxCalls /\ calls' = calls + 1

(* Scheduler::set reads the clock; Scheduled::set takes the next id as it is. *)
TimerSet(delay, repeat) ==
    /\ HostCall
    /\ count' = count + 1
    /\ armed' = armed \cup {[n |-> count', id |-> nextId, due |-> Wrapped(clock + delay),
                             period |-> delay, repeat |-> repeat]}
    /\ nextId' = (nextId + 1) % IdSpace
    /\ UNCHANGED <<pc, back, clock, now, fired, storeVars, lives>>

(* Scheduled::cancel: the first with the id goes.  None is ERR_NOT_FOUND. *)
TimerCancel(id) ==
    /\ HostCall
    /\ \E t \in armed :
         /\ t.id = id /\ \A u \in armed : u.id = id => t.n <= u.n
         /\ armed' = armed \ {t}
    /\ UNCHANGED <<pc, back, clock, now, nextId, fired, count, storeVars, lives>>

Due == {t \in armed : t.due <= now}
Before(t, u) == \/ t.due < u.due
                \/ t.due = u.due /\ t.id < u.id
                \/ t.due = u.due /\ t.id = u.id /\ t.n <= u.n

(* Mutant: a repeating timer is re-armed from the time it was due. *)
RearmedFromDue(t) == [t EXCEPT !.due = Wrapped(t.due + t.period)]

(* Mutant: a repeating timer is re-armed for now. *)
RearmedForNow(t) == [t EXCEPT !.due = now]

(* A repeating timer is re-armed from now, whatever it was due at. *)
Rearmed(t) == [t EXCEPT !.due = Wrapped(now + t.period)]

(* One turn of pump: Scheduled::due_one, and the guest's on_timer begins. *)
PumpOne ==
    /\ pc = "pump"
    /\ \E t \in Due :
         /\ \A u \in Due : Before(t, u)
         /\ armed' = (armed \ {t}) \cup IF t.repeat THEN {Rearmed(t)} ELSE {}
         /\ fired' = IF t.n \in fired.once THEN [fired EXCEPT !.again = @ \cup {t.n}]
                                           ELSE [fired EXCEPT !.once = @ \cup {t.n}]
    /\ pc' = "guest" /\ back' = "pump"
    /\ UNCHANGED <<clock, now, nextId, count, storeVars, calls, lives>>

PumpDone ==
    /\ pc = "pump" /\ Due = {}
    /\ pc' = "idle"
    /\ UNCHANGED <<back, clock, now, timerVars, storeVars, calls, lives>>

-----------------------------------------------------------------------------
(* The state store. *)

Mutates(key, value) ==
    /\ entries' = [entries EXCEPT ![key] = value]
    /\ op' = [key |-> key, value |-> value]
    /\ promised' = [promised EXCEPT ![key] = @ \cup {value}]
    /\ pc' = "write"

(* FileStateStore::put within its wear budget.  Beyond it the answer is
   ERR_THROTTLED, and nothing changes. *)
Put(key, value) ==
    /\ HostCall /\ puts > 0
    /\ puts' = puts - 1
    /\ Mutates(key, value)
    /\ UNCHANGED <<back, clock, now, timerVars, file, tmp, lives>>

Del(key) ==
    /\ HostCall
    /\ Mutates(key, Absent)
    /\ UNCHANGED <<back, clock, now, timerVars, puts, file, tmp, lives>>

(* What a reader makes of a file that was not written to its end: the entries
   it finds before it stops. *)
TornCopies(map) == {[k \in Key |-> IF k \in K THEN map[k] ELSE Absent] : K \in SUBSET Key}

(* ERR_IO: entries keep what was refused. *)
AnswersIo ==
    /\ pc' = "guest" /\ op' = NoOp
    /\ UNCHANGED <<entries, puts, promised>>

(* Mutant: the file is written where it lies. *)
WriteInPlace ==
    /\ pc = "write"
    /\ \/ tmp' = entries /\ pc' = "rename" /\ UNCHANGED <<entries, puts, op, promised>>
       \/ tmp' \in TornCopies(entries) /\ AnswersIo
    /\ file' = tmp'
    /\ UNCHANGED <<back, clock, now, timerVars, calls, lives>>

(* fs::write of the temporary, whole or failing half way. *)
Write ==
    /\ pc = "write"
    /\ \/ tmp' = entries /\ pc' = "rename" /\ UNCHANGED <<entries, puts, op, promised>>
       \/ tmp' \in TornCopies(entries) /\ AnswersIo
    /\ UNCHANGED <<back, clock, now, timerVars, file, calls, lives>>

(* fs::rename, and the guest hears Ok. *)
Rename ==
    /\ pc = "rename"
    /\ \/ /\ file' = tmp /\ pc' = "guest" /\ op' = NoOp
          /\ promised' = [promised EXCEPT ![op.key] = {op.value}]
          /\ UNCHANGED <<entries, puts>>
       \/ AnswersIo /\ UNCHANGED file
    /\ UNCHANGED <<back, clock, now, timerVars, tmp, calls, lives>>

-----------------------------------------------------------------------------
(* The guest, its driver and the process. *)

GuestCalls ==
    \/ \E delay \in Delays, repeat \in BOOLEAN : TimerSet(delay, repeat)
    \/ \E id \in 0 .. IdSpace - 1 : TimerCancel(id)
    \/ \E key \in Key, value \in Value : Put(key, value)
    \/ \E key \in Key : Del(key)

(* A callback returns; after eio_stop the driver cancels every timer. *)
GuestReturns ==
    /\ pc = "guest" /\ pc' = back
    /\ armed' = IF back = "ended" THEN {} ELSE armed
    /\ UNCHANGED <<back, clock, now, nextId, fired, count, storeVars, calls, lives>>

(* A trap: nothing calls the instance again, and the pump it was in is over.
   At boot, a trap or a refusal fails the whole graph. *)
GuestDies ==
    /\ pc = "guest" /\ pc' = "ended"
    /\ UNCHANGED <<back, clock, now, timerVars, storeVars, calls, lives>>

(* The driver delivers a batch, or stops the instance. *)
DriverCalls ==
    /\ pc = "idle" /\ pc' = "guest"
    /\ back' \in {"idle", "ended"}
    /\ UNCHANGED <<clock, now, timerVars, storeVars, calls, lives>>

(* It reads the scheduler's clock and pumps. *)
DriverPumps ==
    /\ pc = "idle" /\ pc' = "pump"
    /\ now' = clock
    /\ fired' = NothingFired
    /\ UNCHANGED <<back, clock, nextId, armed, count, storeVars, calls, lives>>

TimePasses ==
    /\ pc # "off" /\ clock < MaxNow
    /\ clock' = clock + 1
    /\ UNCHANGED <<pc, back, now, timerVars, storeVars, calls, lives>>

(* The process is killed.  A write that was under way leaves its temporary cut
   short. *)
Killed ==
    /\ pc # "off" /\ pc' = "off"
    /\ tmp' \in IF pc = "write" THEN TornCopies(entries) ELSE {tmp}
    /\ UNCHANGED <<back, clock, now, timerVars, entries, puts, file, op, promised, calls, lives>>

(* spawn_graph: the store opens its file; clock, scheduler and wear budget start
   afresh, and the guest is configured and started. *)
Boots ==
    /\ pc = "off" /\ lives < MaxLives
    /\ lives' = lives + 1
    /\ pc' = "guest" /\ back' = "idle"
    /\ clock' = 0 /\ now' = 0
    /\ nextId' = 0 /\ armed' = {} /\ fired' = NothingFired /\ count' = 0
    /\ entries' = file /\ puts' = Wear /\ op' = NoOp
    /\ promised' = [k \in Key |-> {file[k]}]
    /\ UNCHANGED <<file, tmp, calls>>

Rest == pc = "off" /\ lives = MaxLives /\ UNCHANGED vars

Runs == PumpOne \/ PumpDone \/ Write \/ Rename \/ GuestReturns

Next ==
    \/ GuestCalls \/ Runs \/ GuestDies
    \/ DriverCalls \/ DriverPumps
    \/ TimePasses \/ Killed \/ Boots \/ Rest

(* The processor goes on while the process lives, and a callback ends. *)
Spec == Init /\ [][Next]_vars /\ WF_vars(Runs)

-----------------------------------------------------------------------------
(* A timer whose due time does not fit an i64: its delay reaches past the end
   of the clock. *)
Overflows(t) == now + t.period > MaxInt \/ clock + t.period > MaxInt

(* timer.rs:113 "no catch-up burst": however late a pump is, and whatever the
   guest arms while it runs, a timer fires once in it.  (A repeating timer whose
   next due time overflows is the exception: it is due for ever.) *)
OncePerPump == \A t \in armed : t.n \in fired.again => Overflows(t)

(* state.rs:8 "a write that returns `Ok` is on disk before the guest's call
   returns": whenever the process is killed, the file holds for every key what the last
   acknowledged mutation stored, or what a later one, refused or cut short, had
   asked for. *)
AckedIsOnDisk == \A k \in Key : file[k] \in promised[k]

(* A pump gives the processor back, unless the process or the guest ends, or a
   repeating timer overflowed. *)
PumpEnds == []<>(\/ pc # "pump" /\ ~(back = "pump" /\ pc \in {"guest", "write", "rename"})
                \/ \E t \in armed : t.repeat /\ Overflows(t))
=============================================================================
