------------------------------ MODULE Boundary -------------------------------
(***************************************************************************)
(* The numbers that cross between host and guest (crates/host-core/src/    *)
(* memory.rs): lengths and addresses are u32, every answer is an i32, and  *)
(* a negative answer is an error.  A payload is its length, a memory its   *)
(* size.                                                                   *)
(***************************************************************************)
EXTENDS Integers

CONSTANT Half    \* 2^31: the half of the u32s that read as negative

U32 == 0..(2 * Half - 1)

\* `as i32` and `as u32`.
AsI32(u) == IF u < Half THEN u ELSE u - 2 * Half
AsU32(i) == IF i < 0 THEN i + 2 * Half ELSE i

INVALID_ARG == -1
LIMIT == -5

OutBuffer == [buf : U32, cap : U32]

\* `memory_range`, as the engines use it.
InMemory(size, ptr, len) == ptr + len <= size

RequiredSize(len) == IF len >= Half THEN LIMIT ELSE AsI32(len)

\* `OutBuffer::fill`: what the guest is told, and whether its memory changed.
Answer(out, len, size) ==
    IF len \notin U32 THEN LIMIT
    ELSE IF len > out.cap THEN RequiredSize(len)
    ELSE IF InMemory(size, out.buf, len) THEN AsI32(len)
    ELSE INVALID_ARG

Writes(out, len, size) ==
    len \in U32 /\ len <= out.cap /\ InMemory(size, out.buf, len)

\* `Inbound::write`, once `eio_alloc` has answered `raw`: refused and the instance
\* lives, dead, or written.
Delivers(len, raw, size) ==
    IF len \notin U32 \/ raw = 0 THEN "refused"
    ELSE IF AsU32(raw) % 8 = 0 /\ InMemory(size, AsU32(raw), len) THEN "written"
    ELSE "dead"

\* `u32::saturating_add`.
Saturating(a, b) == IF a + b \in U32 THEN a + b ELSE 2 * Half - 1

\* `Outbound::accept`, for a port the block has: a host without a budget has none in
\* the set `budget`.
Accepts(len, maxPayload, budget, held) ==
    len <= maxPayload /\ \A b \in budget : Saturating(held, len) <= b

\* `Core::emit`: what an accepted emission is charged.
Charged(held, len) == Saturating(held, len)
=============================================================================
