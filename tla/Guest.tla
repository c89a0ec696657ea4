-------------------------------- MODULE Guest --------------------------------
(***************************************************************************)
(* The guest's side of `Boundary`: what a block built with the SDK makes   *)
(* of the numbers the host answers (crates/abi/src/status.rs, crates/      *)
(* block-sdk/src/convention.rs, ctx.rs), what it answers itself            *)
(* (runtime.rs, and the exports of block-sdk-macros/src/generate.rs), and  *)
(* the allocator both sides share (allocator.rs); with the host functions  *)
(* it meets there.  An error is its code, assigned or not.                 *)
(***************************************************************************)
EXTENDS Boundary, Sequences

I32 == (-Half)..(Half - 1)

\* A `Vec<u8>` on wasm32 is at most isize::MAX bytes.
Usize == 0..(Half - 1)

NOT_FOUND == -7
IO == -8
STARTING_CAPACITY == 64
ALLOC_ALIGN == 8

Failed(code) == [is |-> "failed", n |-> code]
Ok(n)        == [is |-> "ok", n |-> n]
Required(n)  == [is |-> "required", n |-> n]
Nothing      == [is |-> "nothing", n |-> 0]

(***************************************************************************)
(* The three conventions, `decode` and what `convention.rs` makes of it.   *)
(***************************************************************************)
Status(value) == IF value = 0 THEN Ok(0) ELSE Failed(value)

Id(value) == IF value < 0 THEN Failed(value) ELSE Ok(value)

Size(value, cap) ==
    IF value < 0 THEN Failed(value)
    ELSE IF value <= cap THEN Ok(value) ELSE Required(value)

\* `grow_and_retry`: the capacities it offers, one a turn, to a host that answers
\* host[cap] to a buffer of cap bytes; and how it ends when the last turn ended it.
Turns(caps, host) ==
    \A i \in 1..(Len(caps) - 1) : Size(host[caps[i]], caps[i]) = Required(caps[i + 1])

Outcome(value, cap) == IF value = NOT_FOUND THEN Nothing ELSE Size(value, cap)

\* The buffer the last turn leaves: what was written, or as it was offered.
Left(value, cap) == IF Size(value, cap).is = "ok" THEN value ELSE cap

\* `Ctx::prop_cbor` begins with the buffer its last read left.
FirstOffer(buffer) == IF buffer = 0 THEN STARTING_CAPACITY ELSE buffer

\* A host that reads one payload through `fill`, wherever in the guest's memory the
\* growing buffer is moved to.
Fills(host, len, size) ==
    \A cap \in Usize : \E buf \in U32 :
        InMemory(size, buf, cap) /\ host[cap] = Answer([buf |-> buf, cap |-> cap], len, size)

(***************************************************************************)
(* `Core::emit` on the host, for bytes that are a batch in the guest's own *)
(* memory or not, and `Ctx::emit_cbor` in front of it.                     *)
(***************************************************************************)
HostEmit(declared, len, maxPayload, budget, held, batch) ==
    IF ~declared THEN INVALID_ARG
    ELSE IF ~Accepts(len, maxPayload, budget, held) THEN LIMIT
    ELSE IF batch THEN 0 ELSE INVALID_ARG

Emit(declared, len, maxPayload, budget, held, batch) ==
    IF len > maxPayload THEN Failed(LIMIT)
    ELSE Status(HostEmit(declared, AsU32(AsI32(len)), maxPayload, budget, held, batch))

(***************************************************************************)
(* `Core::rand`: the answer, and the bytes written, when the source gives  *)
(* out after `chunks` chunks; and the guest, which asks for some or none.  *)
(***************************************************************************)
RandOutside(buf, len, size) == buf + len - 1 \notin U32 \/ ~InMemory(size, buf + len - 1, 1)

Rand(buf, len, size, chunk, chunks) ==
    IF len = 0 THEN [answer |-> 0, written |-> 0]
    ELSE IF RandOutside(buf, len, size) THEN [answer |-> INVALID_ARG, written |-> 0]
    ELSE IF chunks * chunk >= len THEN [answer |-> 0, written |-> len]
    ELSE [answer |-> IO, written |-> chunks * chunk]

(***************************************************************************)
(* The state and timer functions on the host (host-core/src/state.rs,      *)
(* timer.rs) and the SDK in front of them (capability/state.rs, timer.rs). *)
(* What the store or the scheduler behind them answers is given: a value   *)
(* of some length, the absence of one, an id, or what it refuses with.     *)
(***************************************************************************)
THROTTLED == -6

HasValue(len)   == [is |-> "value", n |-> len]
NotThere        == [is |-> "absent", n |-> 0]
Assigned(id)    == [is |-> "id", n |-> id]
Done            == [is |-> "done", n |-> 0]
Refusing(why)   == [is |-> why, n |-> 0]
StateError      == {"Throttled", "Io"}
TimerError      == {"InvalidArg", "NotFound"}

AsCode(why) ==
    CASE why = "Throttled" -> THROTTLED [] why = "Io" -> IO
      [] why = "InvalidArg" -> INVALID_ARG [] why = "NotFound" -> NOT_FOUND

Reads(range, size) == InMemory(size, range.ptr, range.len)

HostStateGet(key, out, size, store) ==
    IF ~Reads(key, size) THEN INVALID_ARG
    ELSE CASE store.is = "value" -> Answer(out, store.n, size)
           [] store.is = "absent" -> NOT_FOUND
           [] OTHER -> AsCode(store.is)

\* The store is asked to put or to delete when every range can be read.
HostStatePut(key, value, size, store) ==
    IF ~Reads(key, size) \/ ~Reads(value, size) THEN INVALID_ARG
    ELSE IF store = Done THEN 0 ELSE AsCode(store.is)

HostStateDel(key, size, store) ==
    IF ~Reads(key, size) THEN INVALID_ARG ELSE IF store = Done THEN 0 ELSE AsCode(store.is)

\* A delay that is none is refused before the scheduler is asked.
HostTimerSet(delay, timers) ==
    IF delay <= 0 THEN INVALID_ARG
    ELSE IF timers.is = "id" THEN AsI32(timers.n) ELSE AsCode(timers.is)

\* Which timer is cancelled, for the number that crosses.
HostTimerCancel(id) == AsU32(id)

\* `HostError::is_retryable`, of a result.
IsRetryable(result) == result = Failed(THROTTLED)

(***************************************************************************)
(* `layout`, `allocate` over a heap that hands out `block`, `take_with`.   *)
(***************************************************************************)
HasLayout(size) == size > 0 /\ size <= Half - ALLOC_ALIGN

\* What the heap promises for a layout: null, or aligned memory of the guest's own.
Heap(block, len, size) ==
    block = 0 \/ (block % ALLOC_ALIGN = 0 /\ InMemory(size, block, len))

Allocate(len, block) == IF HasLayout(len) THEN AsI32(block) ELSE 0

\* The bytes the callback is lent, and the size `release` frees when it frees at all.
Lent(ptr, len) == IF ptr = 0 \/ len <= 0 THEN 0 ELSE len

Freed(ptr, len) == IF Lent(ptr, len) > 0 /\ HasLayout(len) THEN {len} ELSE {}

(***************************************************************************)
(* The exports: `finish` and `dispatch`, and the statics that say whether  *)
(* the instance is live.  A result is Ok(0) or Failed(code).               *)
(***************************************************************************)
Finish(result) == IF result.is = "ok" THEN 0 ELSE result.n

Dispatch(live, result) == IF live THEN Finish(result) ELSE INVALID_ARG

Configure(decodes, result) ==
    LET status == IF decodes THEN Finish(result) ELSE INVALID_ARG
    IN  [status |-> status, live |-> status = 0]

\* What a callback may return, when every code in it came from the host or the SDK.
Results == {Ok(0)} \cup {Failed(code) : code \in I32 \ {0}}
=============================================================================
