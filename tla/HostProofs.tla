------------------------------ MODULE HostProofs ------------------------------
(***************************************************************************)
(* Theorems about operators, whatever their arguments.  The two sides of   *)
(* the ABI: what a guest may conclude from the one number it is answered,  *)
(* and what the SDK promises the author of a block and the host.  That     *)
(* what the build host accepts is what the node can wire.  That a block    *)
(* that was loaded calls into nothing that is not there, no host calls a   *)
(* block where it has nothing, a block gets its handlers' answers on       *)
(* whichever engine it runs, and a deadline is never early by a tick.  And *)
(* the numbers a block computes with: the roundabout ways of num.rs come   *)
(* out where arithmetic would.                                             *)
(***************************************************************************)
EXTENDS Guest, Wiring, Engine, Numbers, Leaf, TLAPS


-----------------------------------------------------------------------------
(* Boundary: one number for an answer.                                     *)

\* ABI 9.4 as `fill` has it: a guest that reads "at most what I offered" has the whole
\* payload, one that reads more has an untouched buffer and the size to offer next, one
\* that reads an error has an untouched buffer.  For a buffer of 2^31 bytes or more this
\* fails: the payload is written and its length reads as an error.
THEOREM FillIsAllOrNothing ==
    ASSUME Half \in Nat \ {0}, NEW out \in OutBuffer, out.cap < Half,
           NEW len \in Nat, NEW size \in Nat
    PROVE  LET answer == Answer(out, len, size) IN
           /\ Writes(out, len, size) <=> answer \in 0..out.cap
           /\ answer > out.cap => answer = len /\ ~Writes(out, len, size)
PROOF
  <1>1. out.buf \in Nat /\ out.cap \in Nat
    BY DEF OutBuffer, U32
  <1>2. CASE len \notin U32
    BY <1>1, <1>2 DEF Answer, Writes, LIMIT
  <1>3. CASE len \in U32 /\ len > out.cap
    BY <1>1, <1>3 DEF Answer, Writes, RequiredSize, AsI32, LIMIT
  <1>4. CASE len \in U32 /\ len <= out.cap
    <2>1. len < Half /\ len \in 0..out.cap
      BY <1>1, <1>4
    <2> QED BY <1>1, <1>4, <2>1 DEF Answer, Writes, AsI32, INVALID_ARG
  <1> QED BY <1>1, <1>2, <1>3, <1>4

\* Growing to the answer is enough: the second call of grow-and-retry fails only for
\* a buffer outside the guest's own memory, never for its size.
THEOREM RetryFits ==
    ASSUME Half \in Nat \ {0}, NEW out \in OutBuffer, NEW again \in OutBuffer,
           NEW len \in Nat, NEW size \in Nat,
           Answer(out, len, size) > out.cap,
           again.cap = Answer(out, len, size), InMemory(size, again.buf, len)
    PROVE  Writes(again, len, size) /\ Answer(again, len, size) = len
PROOF
  <1>1. out.cap \in Nat /\ again.cap \in Nat
    BY DEF OutBuffer, U32
  <1>2. len \in U32 /\ len < Half /\ Answer(out, len, size) = len
    BY <1>1 DEF Answer, RequiredSize, AsI32, LIMIT, INVALID_ARG, U32
  <1> QED BY <1>1, <1>2 DEF Answer, Writes, AsI32

\* Rule 9 of ABI 9.7: the charge of a callback is the sum of what it emitted and stays
\* within the budget, although the sum saturates.  A budget of u32::MAX is no budget:
\* a sum beyond it saturates to it and is accepted.
THEOREM BudgetHolds ==
    ASSUME Half \in Nat \ {0}, NEW len \in U32, NEW held \in U32, NEW maxPayload \in U32,
           NEW b \in U32, b # 2 * Half - 1, Accepts(len, maxPayload, {b}, held)
    PROVE  Charged(held, len) = held + len /\ held + len <= b
PROOF
  <1>1. Saturating(held, len) <= b /\ b < 2 * Half - 1
    BY DEF Accepts, U32
  <1>2. held + len \in U32
    BY <1>1 DEF Saturating, U32
  <1> QED BY <1>1, <1>2 DEF Charged, Saturating

-----------------------------------------------------------------------------
(* Guest: the SDK.                                                         *)

\* A host that fills answers a buffer that is too small with the size it needs, one that
\* is large enough with the length of the payload, and a payload no i32 can name with
\* ERR_LIMIT.
LEMMA FilledSize ==
    ASSUME Half \in Nat \ {0}, NEW len \in Nat, NEW size \in Nat,
           NEW host, Fills(host, len, size), NEW cap \in Usize
    PROVE  Size(host[cap], cap) = IF len >= Half THEN Failed(LIMIT)
                                  ELSE IF len <= cap THEN Ok(len) ELSE Required(len)
PROOF
  <1>1. PICK buf \in U32 : InMemory(size, buf, cap)
                           /\ host[cap] = Answer([buf |-> buf, cap |-> cap], len, size)
    BY DEF Fills
  <1>2. cap \in Nat /\ cap < Half /\ buf \in Nat
    BY DEF Usize, U32
  <1>3. CASE len >= Half
    <2>1. host[cap] = LIMIT
      BY <1>1, <1>2, <1>3 DEF Answer, RequiredSize, LIMIT
    <2> QED BY <1>3, <2>1 DEF Size, LIMIT
  <1>4. CASE len < Half
    <2>1. len \in U32
      BY <1>4 DEF U32
    <2>2. host[cap] = len
      BY <1>1, <1>2, <1>4, <2>1 DEF Answer, RequiredSize, AsI32, InMemory
    <2> QED BY <1>2, <1>4, <2>2 DEF Size
  <1> QED BY <1>3, <1>4

\* The loop of `grow_and_retry` has no bound of its own.  Against a host that fills it
\* ends by its second turn whatever it offered first, with the whole payload or, for one
\* no guest can hold, ERR_LIMIT.
THEOREM TwoTurnsRead ==
    ASSUME Half \in Nat \ {0}, NEW len \in Nat, NEW size \in Nat,
           NEW host, Fills(host, len, size),
           NEW caps \in Seq(Usize), caps # <<>>, Turns(caps, host)
    PROVE  /\ Len(caps) <= 2
           /\ LET cap == caps[Len(caps)] last == Size(host[cap], cap) IN
              \/ Len(caps) = 1 /\ last = Required(len)
              \/ last = IF len < Half THEN Ok(len) ELSE Failed(LIMIT)
PROOF
  <1> DEFINE n == Len(caps)
  <1>1. n \in Nat /\ n >= 1 /\ \A i \in 1..n : caps[i] \in Usize
    OBVIOUS
  <1>2. \A i \in 1..n : Size(host[caps[i]], caps[i]) =
          IF len >= Half THEN Failed(LIMIT)
          ELSE IF len <= caps[i] THEN Ok(len) ELSE Required(len)
    BY <1>1, FilledSize
  <1>3. \A i \in 1..(n - 1) : caps[i + 1] = len /\ len < Half
    <2> TAKE i \in 1..(n - 1)
    <2>1. i \in 1..n
      BY <1>1
    <2>2. Size(host[caps[i]], caps[i]) = Required(caps[i + 1])
      BY DEF Turns
    <2> QED BY <1>2, <2>1, <2>2 DEF Required, Ok, Failed
  <1>4. n <= 2
    <2> SUFFICES ASSUME n > 2 PROVE FALSE
      BY <1>1
    <2>1. 1 \in 1..(n - 1) /\ 2 \in 1..(n - 1) /\ 2 \in 1..n
      BY <1>1
    <2>2. caps[2] = len /\ len < Half
      BY <1>3, <2>1
    <2>3. Size(host[caps[2]], caps[2]) = Ok(len)
      BY <1>2, <2>1, <2>2
    <2>4. Size(host[caps[2]], caps[2]) = Required(caps[3])
      BY <2>1 DEF Turns
    <2> QED BY <2>3, <2>4 DEF Ok, Required
  <1>5. n \in 1..n
    BY <1>1
  <1>6. CASE n = 1
    BY <1>2, <1>4, <1>5, <1>6
  <1>7. CASE n = 2
    <2>1. caps[n] = len /\ len < Half
      BY <1>3, <1>7
    <2> QED BY <1>2, <1>4, <1>5, <2>1
  <1>8. n = 1 \/ n = 2
    <2>1. n \in Nat /\ n >= 1
      BY <1>1
    <2> HIDE DEF n
    <2> QED BY <1>4, <2>1
  <1> QED BY <1>4, <1>6, <1>7, <1>8

\* What the buffer `prop_cbor` keeps is worth: a property no longer than the one read
\* before it takes one call.  A longer one takes the second call again, every time.
THEOREM KeptBufferSaves ==
    ASSUME Half \in Nat \ {0}, NEW len \in Usize, NEW before \in Usize, len <= before,
           NEW size \in Nat, NEW host, Fills(host, len, size),
           FirstOffer(before) \in Usize,
           NEW caps \in Seq(Usize), caps # <<>>, Turns(caps, host),
           caps[1] = FirstOffer(before)
    PROVE  Len(caps) = 1
PROOF
  <1>1. len \in Nat /\ before \in Nat /\ len < Half
    BY DEF Usize
  <1>2. len <= caps[1] /\ caps[1] \in Usize
    BY <1>1 DEF FirstOffer, STARTING_CAPACITY
  <1>3. Size(host[caps[1]], caps[1]) = Ok(len)
    <2>1. ~(len >= Half)
      BY <1>1
    <2> QED BY <1>1, <1>2, <2>1, FilledSize
  <1>4. ASSUME Len(caps) > 1 PROVE FALSE
    <2>1. Size(host[caps[1]], caps[1]) = Required(caps[2])
      BY <1>4 DEF Turns
    <2> QED BY <1>3, <2>1 DEF Ok, Required
  <1> QED BY SMTT(30), <1>4

\* What a host knows of a key when it is asked for it.
Backings == {HasValue(n) : n \in Nat} \cup {NotThere} \cup {Refusing(why) : why \in StateError}

\* The codes of a store's refusals are none of the answers to a buffer.
LEMMA StateAnswers ==
    ASSUME Half \in Nat \ {0}, NEW key, NEW out \in OutBuffer, out.cap \in Usize, NEW size \in Nat,
           NEW store \in Backings, NEW r, r = Outcome(HostStateGet(key, out, size, store), out.cap)
    PROVE  \/ ~Reads(key, size) /\ r = Failed(INVALID_ARG)
           \/ Reads(key, size) /\ store = NotThere /\ r = Nothing
           \/ Reads(key, size) /\ store = Refusing("Throttled") /\ r = Failed(THROTTLED)
           \/ Reads(key, size) /\ store = Refusing("Io") /\ r = Failed(IO)
           \/ /\ Reads(key, size)
              /\ \E n \in Nat :
                   /\ store = HasValue(n)
                   /\ \/ r = Failed(LIMIT) /\ n >= Half
                      \/ r = Failed(INVALID_ARG) /\ n <= out.cap /\ ~InMemory(size, out.buf, n)
                      \/ r = Ok(n) /\ Writes(out, n, size)
                      \/ r = Required(n) /\ n > out.cap
PROOF
  <1> DEFINE answer == HostStateGet(key, out, size, store)
  <1>1. out.cap \in Nat /\ out.cap < Half /\ out.buf \in Nat
    BY DEF Usize, OutBuffer, U32
  <1>2. CASE ~Reads(key, size)
    <2>1. answer = INVALID_ARG
      BY <1>2 DEF HostStateGet
    <2> QED BY <1>2, <2>1 DEF Outcome, Size, INVALID_ARG, NOT_FOUND
  <1>3. CASE Reads(key, size) /\ store = NotThere
    <2>1. answer = NOT_FOUND
      BY <1>3 DEF HostStateGet, NotThere
    <2> QED BY <1>3, <2>1 DEF Outcome
  <1>4. CASE Reads(key, size) /\ store = Refusing("Throttled")
    <2>1. answer = THROTTLED
      BY <1>4 DEF HostStateGet, Refusing, AsCode
    <2> QED BY <1>4, <2>1 DEF Outcome, Size, THROTTLED, NOT_FOUND
  <1>5. CASE Reads(key, size) /\ store = Refusing("Io")
    <2>1. answer = IO
      BY <1>5 DEF HostStateGet, Refusing, AsCode
    <2> QED BY <1>5, <2>1 DEF Outcome, Size, IO, NOT_FOUND
  <1>6. ASSUME Reads(key, size), NEW n \in Nat, store = HasValue(n)
        PROVE  \/ r = Failed(LIMIT) /\ n >= Half
               \/ r = Failed(INVALID_ARG) /\ n <= out.cap /\ ~InMemory(size, out.buf, n)
               \/ r = Ok(n) /\ Writes(out, n, size)
               \/ r = Required(n) /\ n > out.cap
    <2>1. answer = Answer(out, n, size)
      BY <1>6 DEF HostStateGet, HasValue
    <2>2. CASE n >= Half
      <3>1. answer = LIMIT
        BY <1>1, <2>1, <2>2 DEF Answer, RequiredSize, LIMIT
      <3> QED BY <2>2, <3>1 DEF Outcome, Size, LIMIT, NOT_FOUND
    <2>3. CASE n < Half /\ n > out.cap
      <3>1. n \in U32
        BY <2>3 DEF U32
      <3>2. RequiredSize(n) = n
        BY <2>3 DEF RequiredSize, AsI32
      <3> HIDE DEF answer
      <3>3. answer = n
        BY <2>1, <2>3, <3>1, <3>2 DEF Answer
      <3> USE DEF answer
      <3> QED BY <1>1, <2>3, <3>3 DEF Outcome, Size, NOT_FOUND
    <2>4. CASE n < Half /\ n <= out.cap /\ InMemory(size, out.buf, n)
      <3>1. n \in U32
        BY <2>4 DEF U32
      <3>2. AsI32(n) = n
        BY <2>4 DEF AsI32
      <3> HIDE DEF answer
      <3>3. answer = n
        BY <1>1, <2>1, <2>4, <3>1, <3>2 DEF Answer
      <3>4. Writes(out, n, size)
        BY <1>1, <2>4, <3>1, <3>2 DEF Writes, Answer
      <3>5. Outcome(answer, out.cap) = Ok(n)
        BY <1>1, <2>4, <3>3 DEF Outcome, Size, NOT_FOUND
      <3> USE DEF answer
      <3> QED BY <3>4, <3>5
    <2>5. CASE n < Half /\ n <= out.cap /\ ~InMemory(size, out.buf, n)
      <3>1. answer = INVALID_ARG
        BY <1>1, <2>1, <2>5 DEF Answer, U32
      <3> QED BY <2>5, <3>1 DEF Outcome, Size, INVALID_ARG, NOT_FOUND
    <2> QED BY <1>1, <2>2, <2>3, <2>4, <2>5
  <1> QED BY <1>2, <1>3, <1>4, <1>5, <1>6 DEF Backings, StateError

\* What a block concludes from a read of its state (host-core/src/state.rs, capability/
\* state.rs): "nothing yet" of a key that is not there and of no other, not of an empty
\* value, a full device or a bad pointer; the value it reads is the one that is stored, whole
\* in its buffer; and it tries again later exactly when the store was throttled.
THEOREM StateIsTold ==
    ASSUME Half \in Nat \ {0}, NEW key, NEW out \in OutBuffer, out.cap \in Usize, NEW size \in Nat,
           NEW store \in Backings
    PROVE  LET r == Outcome(HostStateGet(key, out, size, store), out.cap) IN
           /\ r = Nothing <=> Reads(key, size) /\ store = NotThere
           /\ r.is = "ok" => store = HasValue(r.n) /\ Writes(out, r.n, size)
           /\ r.is = "required" => store = HasValue(r.n) /\ r.n > out.cap
           /\ IsRetryable(r) <=> Reads(key, size) /\ store = Refusing("Throttled")
PROOF
  <1> DEFINE r == Outcome(HostStateGet(key, out, size, store), out.cap)
  <1>1. /\ \A n : HasValue(n) # NotThere /\ \A why \in StateError : HasValue(n) # Refusing(why)
        /\ \A why \in StateError : NotThere # Refusing(why)
    BY DEF HasValue, NotThere, Refusing, StateError
  <1>2. /\ \A n : Ok(n).is = "ok" /\ Ok(n).n = n /\ Required(n).is = "required" /\ Required(n).n = n
        /\ \A n : Ok(n) # Nothing /\ Required(n) # Nothing /\ Failed(n) # Nothing
        /\ \A n : Failed(n).is = "failed" /\ Ok(n) # Failed(THROTTLED) /\ Required(n) # Failed(THROTTLED)
        /\ Nothing.is = "nothing" /\ Nothing # Failed(THROTTLED)
        /\ \A n : n # THROTTLED => Failed(n) # Failed(THROTTLED)
    BY DEF Ok, Required, Failed, Nothing
  <1>3. INVALID_ARG # THROTTLED /\ IO # THROTTLED /\ LIMIT # THROTTLED
    BY DEF INVALID_ARG, THROTTLED, IO, LIMIT
  <1>4. Refusing("Io") # Refusing("Throttled") /\ {"Io", "Throttled"} \subseteq StateError
    BY DEF Refusing, StateError
  <1>5. \/ ~Reads(key, size) /\ r = Failed(INVALID_ARG)
        \/ Reads(key, size) /\ store = NotThere /\ r = Nothing
        \/ Reads(key, size) /\ store = Refusing("Throttled") /\ r = Failed(THROTTLED)
        \/ Reads(key, size) /\ store = Refusing("Io") /\ r = Failed(IO)
        \/ /\ Reads(key, size)
           /\ \E n \in Nat :
                /\ store = HasValue(n)
                /\ \/ r = Failed(LIMIT) /\ n >= Half
                   \/ r = Failed(INVALID_ARG) /\ n <= out.cap /\ ~InMemory(size, out.buf, n)
                   \/ r = Ok(n) /\ Writes(out, n, size)
                   \/ r = Required(n) /\ n > out.cap
    BY StateAnswers
  <1> HIDE DEF r
  <1> SUFFICES /\ r = Nothing <=> Reads(key, size) /\ store = NotThere
               /\ r.is = "ok" => store = HasValue(r.n) /\ Writes(out, r.n, size)
               /\ r.is = "required" => store = HasValue(r.n) /\ r.n > out.cap
               /\ r = Failed(THROTTLED) <=> Reads(key, size) /\ store = Refusing("Throttled")
    BY DEF r, IsRetryable
  <1> QED BY <1>1, <1>2, <1>3, <1>4, <1>5

\* A write is told for what it was: done when the store did it and could be asked, worth a
\* second try when it was throttled, and otherwise an error of its own.
THEOREM StateWritesAreTold ==
    ASSUME NEW key, NEW value, NEW size,
           NEW store \in {Done} \cup {Refusing(why) : why \in StateError}
    PROVE  LET put == Status(HostStatePut(key, value, size, store))
               del == Status(HostStateDel(key, size, store)) IN
           /\ put = Ok(0) <=> Reads(key, size) /\ Reads(value, size) /\ store = Done
           /\ del = Ok(0) <=> Reads(key, size) /\ store = Done
           /\ IsRetryable(put) <=> Reads(key, size) /\ Reads(value, size) /\ store = Refusing("Throttled")
           /\ IsRetryable(del) <=> Reads(key, size) /\ store = Refusing("Throttled")
PROOF
  <1>1. store \in {Done, Refusing("Throttled"), Refusing("Io")}
    BY DEF StateError
  <1>2. Done # Refusing("Throttled") /\ Done # Refusing("Io") /\ Refusing("Io") # Refusing("Throttled")
    BY DEF Done, Refusing
  <1>3. AsCode(Refusing("Throttled").is) = THROTTLED /\ AsCode(Refusing("Io").is) = IO
    BY DEF AsCode, Refusing
  <1>4. /\ Status(0) = Ok(0) /\ ~IsRetryable(Status(0))
        /\ \A n \in {INVALID_ARG, IO} : Status(n) # Ok(0) /\ ~IsRetryable(Status(n))
        /\ Status(THROTTLED) # Ok(0) /\ IsRetryable(Status(THROTTLED))
    BY DEF Status, Ok, Failed, IsRetryable, INVALID_ARG, IO, THROTTLED
  <1> QED BY <1>1, <1>2, <1>3, <1>4 DEF HostStatePut, HostStateDel

\* A timer's id crosses as an i32: below 2^31 the block is given the id that was armed, and
\* cancels that one; from there on it reads an error, of a timer that will fire all the same
\* (daemon/src/timer.rs counts ids over all of u32).
THEOREM TimersAreTold ==
    ASSUME Half \in Nat \ {0}, NEW delay \in Int, NEW id \in U32
    PROVE  LET r == Id(HostTimerSet(delay, Assigned(id))) IN
           /\ r.is = "ok" <=> delay > 0 /\ id < Half
           /\ r.is = "ok" => r.n = id /\ HostTimerCancel(AsI32(r.n)) = id
PROOF
  <1>1. id \in Nat /\ id < 2 * Half
    BY DEF U32
  <1>2. CASE delay <= 0
    <2>1. HostTimerSet(delay, Assigned(id)) = INVALID_ARG
      BY <1>2 DEF HostTimerSet
    <2> QED BY <1>2, <2>1 DEF Id, INVALID_ARG, Failed
  <1>3. CASE delay > 0
    <2>1. HostTimerSet(delay, Assigned(id)) = AsI32(id)
      BY <1>3 DEF HostTimerSet, Assigned
    <2>2. CASE id < Half
      BY <1>1, <1>3, <2>1, <2>2 DEF Id, AsI32, Ok, HostTimerCancel, AsU32
    <2>3. CASE id >= Half
      BY <1>1, <2>1, <2>3 DEF Id, AsI32, Failed
    <2> QED BY <1>1, <2>2, <2>3
  <1> QED BY <1>2, <1>3

\* `emit_cbor` refuses before it calls.  On a port the block has, that is the refusal the
\* host would have answered, and no emission the host takes is withheld.
THEOREM SameRefusal ==
    ASSUME Half \in Nat \ {0}, NEW len \in Usize, NEW maxPayload \in U32,
           NEW budget \in SUBSET U32, NEW held \in U32, NEW batch \in BOOLEAN
    PROVE  Emit(TRUE, len, maxPayload, budget, held, batch)
             = Status(HostEmit(TRUE, len, maxPayload, budget, held, batch))
PROOF
  <1>1. len \in Nat /\ len < Half /\ AsU32(AsI32(len)) = len /\ maxPayload \in Nat
    BY DEF Usize, U32, AsI32, AsU32
  <1>2. CASE len > maxPayload
    BY <1>1, <1>2 DEF Emit, HostEmit, Accepts, Status, LIMIT
  <1>3. CASE ~(len > maxPayload)
    BY <1>1, <1>3 DEF Emit
  <1> QED BY <1>2, <1>3

\* The allocator the two sides share: a payload the host places with the SDK's allocator
\* never costs the instance its life, and one that is written is lent to the callback
\* whole and freed with the size it was allocated with.
THEOREM DeliveryIsOwned ==
    ASSUME Half \in Nat, Half > ALLOC_ALIGN, NEW len \in U32, NEW block \in U32,
           NEW size \in Nat, Heap(block, len, size)
    PROVE  LET raw == Allocate(AsI32(len), block)
               how == Delivers(len, raw, size) IN
           /\ how \in {"refused", "written"}
           /\ how = "written" => /\ Lent(raw, AsI32(len)) = len
                                 /\ Freed(raw, AsI32(len)) = {len}
PROOF
  <1> DEFINE raw == Allocate(AsI32(len), block)
  <1>1. len \in Nat /\ len < 2 * Half /\ block \in Nat /\ block < 2 * Half
    BY DEF U32
  <1>2. AsU32(AsI32(block)) = block /\ (AsI32(block) = 0 <=> block = 0)
    BY <1>1 DEF AsU32, AsI32
  <1>3. CASE ~HasLayout(AsI32(len)) \/ block = 0
    <2>1. raw = 0
      BY <1>2, <1>3 DEF Allocate
    <2> QED BY <2>1 DEF Delivers
  <1>4. CASE HasLayout(AsI32(len)) /\ block # 0
    <2>1. raw = AsI32(block) /\ raw # 0 /\ AsU32(raw) = block
      BY <1>2, <1>4 DEF Allocate
    <2>2. AsI32(len) = len /\ len > 0
      <3>1. AsI32(len) > 0
        BY <1>4 DEF HasLayout
      <3> QED BY <1>1, <3>1 DEF AsI32
    <2>3. block % 8 = 0 /\ InMemory(size, block, len)
      BY <1>4 DEF Heap, ALLOC_ALIGN
    <2>4. Delivers(len, raw, size) = "written"
      BY <2>1, <2>3 DEF Delivers
    <2>5. Lent(raw, len) = len
      BY <1>1, <2>1, <2>2 DEF Lent
    <2>6. Freed(raw, len) = {len}
      BY <1>4, <2>2, <2>5 DEF Freed
    <2> QED BY <2>2, <2>4, <2>5, <2>6
  <1> QED BY <1>3, <1>4

\* `rand` on the whole range first: a bad range changes nothing, and 0 is answered for a
\* full buffer.  Only a source that gives out between chunks leaves a part of one.
THEOREM RandFillsOrFails ==
    ASSUME Half \in Nat \ {0}, NEW buf \in U32, NEW len \in U32, NEW size \in Nat,
           NEW chunk \in Nat \ {0}, NEW chunks \in Nat
    PROVE  LET r == Rand(buf, len, size, chunk, chunks) IN
           /\ r.answer = 0 <=> r.written = len
           /\ r.answer = INVALID_ARG => r.written = 0
           /\ r.answer = 0 /\ len > 0 => InMemory(size, buf, len)
PROOF
  <1>1. len \in Nat /\ buf \in Nat /\ chunks * chunk \in Nat
    BY DEF U32
  <1>2. CASE len = 0
    BY <1>2 DEF Rand, INVALID_ARG
  <1>3. CASE len # 0 /\ RandOutside(buf, len, size)
    BY <1>1, <1>3 DEF Rand, INVALID_ARG
  <1>4. CASE len # 0 /\ ~RandOutside(buf, len, size)
    <2>1. InMemory(size, buf, len)
      BY <1>1, <1>4 DEF RandOutside, InMemory
    <2>2. CASE chunks * chunk >= len
      BY <1>4, <2>1, <2>2 DEF Rand, INVALID_ARG
    <2>3. CASE ~(chunks * chunk >= len)
      BY <1>1, <1>4, <2>3 DEF Rand, INVALID_ARG, IO
    <2> QED BY <2>2, <2>3
  <1> QED BY <1>2, <1>3, <1>4

\* The host reads a callback's answer as the result the block returned, code for code,
\* and takes an instance for configured exactly when its statics are set; until then
\* every callback is answered as an error.
THEOREM HostHearsTheBlock ==
    ASSUME Half \in Nat \ {0}, NEW result \in Results, NEW decodes \in BOOLEAN
    PROVE  LET configured == Configure(decodes, result) IN
           /\ Status(Finish(result)) = result
           /\ (Status(configured.status) = Ok(0)) <=> configured.live
           /\ configured.live <=> (decodes /\ result = Ok(0))
           /\ ~configured.live =>
                Status(Dispatch(configured.live, result)) = Failed(INVALID_ARG)
PROOF
  <1>1. CASE result = Ok(0)
    BY <1>1 DEF Ok, Failed, Status, Finish, Dispatch, Configure, INVALID_ARG
  <1>2. CASE result \in {Failed(code) : code \in I32 \ {0}}
    <2>1. PICK code \in I32 \ {0} : result = Failed(code)
      BY <1>2
    <2>2. Finish(result) = code /\ code # 0 /\ result # Ok(0)
      BY <2>1 DEF Finish, Failed, Ok
    <2>3. Configure(decodes, result).status # 0
      BY <2>2 DEF Configure, INVALID_ARG
    <2>4. ~Configure(decodes, result).live
      BY <2>3 DEF Configure
    <2>5. Status(Configure(decodes, result).status) # Ok(0)
      BY <2>3 DEF Status, Ok, Failed
    <2>6. Status(Finish(result)) = result
      BY <2>1, <2>2 DEF Status
    <2>7. Status(Dispatch(Configure(decodes, result).live, result)) = Failed(INVALID_ARG)
      BY <2>4 DEF Dispatch, Status, INVALID_ARG
    <2> QED BY <2>2, <2>4, <2>5, <2>6, <2>7
  <1> QED BY <1>1, <1>2 DEF Results

\* What the host answers comes through the SDK as it was meant: each of the decoders makes
\* an error of every negative answer, with the host's code, and the block that returns it
\* by `?` tells its own host that code; NOT_FOUND alone is read as an absence, by the one
\* convention that has one.  And only what the host refused is an error: a decoder fails
\* on no id, length or zero (convention.rs, status.rs, finish of runtime.rs).
THEOREM ErrorsStayErrors ==
    ASSUME Half \in Nat \ {0}, NEW value \in I32, NEW cap \in Usize
    PROVE  /\ value < 0 =>
                \A read \in {Status(value), Id(value), Size(value, cap), Outcome(value, cap)} :
                  \/ /\ read = Failed(value)
                     /\ Dispatch(TRUE, read) = value
                     /\ Status(Dispatch(TRUE, read)) = read
                  \/ /\ read = Nothing
                     /\ read = Outcome(value, cap) /\ value = NOT_FOUND
           /\ value >= 0 =>
                \A read \in {Id(value), Size(value, cap), Outcome(value, cap)} :
                  \A code \in I32 : read # Failed(code)
           /\ Status(0) = Ok(0) /\ Dispatch(TRUE, Status(0)) = 0
PROOF
  <1>1. value \in Int /\ cap \in Int
    BY DEF I32, Usize
  <1>2. ASSUME value < 0
        PROVE  /\ Status(value) = Failed(value)
               /\ Id(value) = Failed(value)
               /\ Size(value, cap) = Failed(value)
    BY <1>1, <1>2 DEF Status, Id, Size
  <1>3. ASSUME value < 0
        PROVE  Outcome(value, cap) = IF value = NOT_FOUND THEN Nothing ELSE Failed(value)
    BY <1>2, <1>3 DEF Outcome
  <1>4. ASSUME value < 0
        PROVE  /\ Dispatch(TRUE, Failed(value)) = value
               /\ Status(Dispatch(TRUE, Failed(value))) = Failed(value)
    BY <1>1, <1>4 DEF Dispatch, Finish, Failed, Ok, Status
  <1>5. ASSUME value >= 0
        PROVE  \A read \in {Id(value), Size(value, cap), Outcome(value, cap)} : read.is # "failed"
    <2>1. Id(value).is = "ok"
      BY <1>1, <1>5 DEF Id, Ok
    <2>2. Size(value, cap).is \in {"ok", "required"}
      BY <1>1, <1>5 DEF Size, Ok, Required
    <2>3. Outcome(value, cap) = Size(value, cap)
      BY <1>1, <1>5 DEF Outcome, NOT_FOUND
    <2> QED BY <2>1, <2>2, <2>3
  <1>6. \A code \in I32 : Failed(code).is = "failed"
    BY DEF Failed
  <1>7. Status(0) = Ok(0) /\ Dispatch(TRUE, Status(0)) = 0
    BY DEF Status, Dispatch, Finish, Ok
  <1> QED BY <1>2, <1>3, <1>4, <1>5, <1>6, <1>7

-----------------------------------------------------------------------------
(* Wiring: descriptors, positions and the table of connections.            *)

\* In a list without repetitions a position is the place that holds the name, so no
\* two names share one.
LEMMA PositionIsThePlace ==
    ASSUME NEW S, NEW s \in Seq(S), Distinct(s), NEW x \in Range(s)
    PROVE  /\ Position(s, x) \in 0..(Len(s) - 1)
           /\ s[Position(s, x) + 1] = x
PROOF
  <1>1. DOMAIN s = 1..Len(s) /\ Len(s) \in Nat
    OBVIOUS
  <1>2. PICK k \in DOMAIN s : s[k] = x
    BY DEF Range
  <1>3. \A j \in DOMAIN s : s[j] = x => k <= j
    BY <1>1, <1>2 DEF Distinct
  <1> DEFINE LeastAt == CHOOSE l \in DOMAIN s : s[l] = x /\ \A j \in DOMAIN s : s[j] = x => l <= j
  <1>4. LeastAt \in DOMAIN s /\ s[LeastAt] = x
    BY <1>2, <1>3
  <1>5. Position(s, x) = LeastAt - 1
    BY DEF Position
  <1> QED BY <1>1, <1>4, <1>5

\* So two names at one position are one name.
LEMMA PositionsDiffer ==
    ASSUME NEW S, NEW s \in Seq(S), Distinct(s), NEW x \in Range(s), NEW y \in Range(s),
           Position(s, x) = Position(s, y)
    PROVE  x = y
PROOF
  BY PositionIsThePlace

\* The block of every instance could be resolved and has a valid manifest.
Resolved(f, manifests) ==
    /\ manifests \in [Range(f.ids) -> Manifest]
    /\ \A id \in Range(f.ids) : Valid(manifests[id])

\* Every id of the file names one descriptor, the one its manifest describes.
LEMMA OneDescriptor ==
    ASSUME NEW f \in File, NEW manifests, Resolved(f, manifests),
           NEW t \in Terminal
    PROVE  LET ds == Descriptors(f, manifests) IN
           /\ Unknown(ds, t) <=> Dangling(f, t)
           /\ ~Ambiguous(ds, t)
           /\ ~Dangling(f, t) =>
                /\ Instance(ds, t) \in DOMAIN f.ids
                /\ f.ids[Instance(ds, t)] = t.instance
                /\ ds[Instance(ds, t)].inputs = manifests[t.instance].inputs
                /\ ds[Instance(ds, t)].outputs = manifests[t.instance].outputs
PROOF
  <1> DEFINE ds == Descriptors(f, manifests)
  <1>1. f.ids \in Seq(Name) /\ Distinct(f.ids)
    BY DEF File
  <1>2. /\ DOMAIN ds = DOMAIN f.ids
        /\ \A i \in DOMAIN f.ids : /\ ds[i].id = f.ids[i]
                                   /\ ds[i].inputs = manifests[f.ids[i]].inputs
                                   /\ ds[i].outputs = manifests[f.ids[i]].outputs
    BY DEF Descriptors
  <1>3. Named(ds, t) = {i \in DOMAIN f.ids : f.ids[i] = t.instance}
    BY <1>2 DEF Named
  <1>4. Unknown(ds, t) <=> Dangling(f, t)
    BY <1>3 DEF Unknown, Dangling, Range
  <1>5. ~Ambiguous(ds, t)
    BY <1>1, <1>3 DEF Ambiguous, Distinct
  <1>6. ASSUME ~Dangling(f, t)
        PROVE  Instance(ds, t) \in DOMAIN f.ids /\ f.ids[Instance(ds, t)] = t.instance
    <2>1. Named(ds, t) # {}
      BY <1>4, <1>6 DEF Unknown
    <2>2. Instance(ds, t) \in Named(ds, t)
      BY <2>1 DEF Instance
    <2> QED BY <2>2, <1>3
  <1> QED BY <1>2, <1>4, <1>5, <1>6

\* `resolve_output` and `resolve_input` refuse what the two stages report, and that only.
LEMMA RefusedAlike ==
    ASSUME NEW f \in File, NEW manifests, Resolved(f, manifests), NEW t \in Terminal
    PROVE  LET ds == Descriptors(f, manifests) IN
           /\ RefusesOutput(ds, t) <=>
                \/ Dangling(f, t)
                \/ t.port # ErrName /\ Lacks(manifests, t, "outputs")
           /\ RefusesInput(ds, t) <=>
                Dangling(f, t) \/ t.port = ErrName \/ Lacks(manifests, t, "inputs")
PROOF
  <1> DEFINE ds == Descriptors(f, manifests)
  <1>1. /\ Unknown(ds, t) <=> Dangling(f, t)
        /\ ~Ambiguous(ds, t)
        /\ ~Dangling(f, t) =>
             /\ ds[Instance(ds, t)].inputs = manifests[t.instance].inputs
             /\ ds[Instance(ds, t)].outputs = manifests[t.instance].outputs
    BY OneDescriptor
  <1>2. ~Dangling(f, t) <=> t.instance \in DOMAIN manifests
    BY DEF Dangling, Resolved
  <1>3. ~Dangling(f, t) =>
          /\ Lacks(manifests, t, "outputs") <=> t.port \notin Range(ds[Instance(ds, t)].outputs)
          /\ Lacks(manifests, t, "inputs") <=> t.port \notin Range(ds[Instance(ds, t)].inputs)
    BY <1>1, <1>2 DEF Lacks
  <1> HIDE DEF ds
  <1>4. RefusesOutput(ds, t) <=>
          Dangling(f, t) \/ (t.port # ErrName /\ Lacks(manifests, t, "outputs"))
    BY <1>1, <1>3 DEF RefusesOutput
  <1>5. RefusesInput(ds, t) <=>
          Dangling(f, t) \/ t.port = ErrName \/ Lacks(manifests, t, "inputs")
    BY <1>1, <1>3 DEF RefusesInput
  <1> QED BY <1>4, <1>5 DEF ds

\* Terminals that resolve are told apart by what they resolve to.
LEMMA SameTerminals ==
    ASSUME NEW f \in File, NEW manifests, Resolved(f, manifests),
           NEW t \in Terminal, NEW u \in Terminal
    PROVE  LET ds == Descriptors(f, manifests) IN
           /\ /\ ~RefusesOutput(ds, t) /\ ~RefusesOutput(ds, u)
              /\ ResolveOutput(ds, t) = ResolveOutput(ds, u)
              => t = u
           /\ /\ ~RefusesInput(ds, t) /\ ~RefusesInput(ds, u)
              /\ ResolveInput(ds, t) = ResolveInput(ds, u)
              => t = u
PROOF
  <1> DEFINE ds == Descriptors(f, manifests)
  <1>0. /\ f.ids \in Seq(Name)
        /\ \A v \in {t, u} : /\ Unknown(ds, v) <=> Dangling(f, v)
                             /\ ~Dangling(f, v) =>
                                  /\ Instance(ds, v) \in DOMAIN f.ids
                                  /\ f.ids[Instance(ds, v)] = v.instance
                                  /\ ds[Instance(ds, v)].inputs = manifests[v.instance].inputs
                                  /\ ds[Instance(ds, v)].outputs = manifests[v.instance].outputs
    BY OneDescriptor DEF File
  <1>1. \A id \in Range(f.ids) :
          /\ manifests[id].inputs \in Seq(Name) /\ Distinct(manifests[id].inputs)
          /\ manifests[id].outputs \in Seq(Name) /\ Distinct(manifests[id].outputs)
          /\ PortErr \notin 0..(Len(manifests[id].outputs) - 1)
    BY DEF Resolved, Valid, Manifest
  <1>2. t = u <=> t.instance = u.instance /\ t.port = u.port
    BY DEF Terminal
  <1> HIDE DEF ds
  <1> DEFINE i == Instance(ds, t)
             j == Instance(ds, u)
  <1>3. ASSUME ~Dangling(f, t), ~Dangling(f, u), i - 1 = j - 1
        PROVE  t.instance = u.instance /\ t.instance \in Range(f.ids)
    <2>1. i \in Nat /\ j \in Nat
      BY <1>0, <1>3
    <2>2. i = j
      BY <2>1, <1>3
    <2> QED BY <2>2, <1>0, <1>3 DEF Dangling
  <1>4. ASSUME ~RefusesOutput(ds, t), ~RefusesOutput(ds, u),
               ResolveOutput(ds, t) = ResolveOutput(ds, u)
        PROVE  t = u
    <2>1. ~Dangling(f, t) /\ ~Dangling(f, u)
      BY <1>0, <1>4 DEF RefusesOutput
    <2>2. i - 1 = j - 1 /\ ResolveOutput(ds, t).port = ResolveOutput(ds, u).port
      BY <1>4 DEF ResolveOutput
    <2>3. t.instance = u.instance /\ t.instance \in Range(f.ids)
      BY <1>3, <2>1, <2>2
    <2> DEFINE outs == manifests[t.instance].outputs
    <2>4. ds[i].outputs = outs /\ ds[j].outputs = outs
      BY <1>0, <2>1, <2>3
    <2>5. outs \in Seq(Name) /\ Distinct(outs) /\ PortErr \notin 0..(Len(outs) - 1)
      BY <1>1, <2>3
    <2>6. /\ t.port # ErrName => t.port \in Range(outs)
          /\ u.port # ErrName => u.port \in Range(outs)
      BY <1>4, <2>4 DEF RefusesOutput
    <2>7. /\ t.port # ErrName => Position(outs, t.port) \in 0..(Len(outs) - 1)
          /\ u.port # ErrName => Position(outs, u.port) \in 0..(Len(outs) - 1)
      BY <2>5, <2>6, PositionIsThePlace
    <2>8. /\ ResolveOutput(ds, t).port = IF t.port = ErrName THEN PortErr ELSE Position(outs, t.port)
          /\ ResolveOutput(ds, u).port = IF u.port = ErrName THEN PortErr ELSE Position(outs, u.port)
      BY <2>4 DEF ResolveOutput
    <2>9. t.port = ErrName <=> u.port = ErrName
      BY <2>2, <2>5, <2>7, <2>8
    <2>10. t.port # ErrName => t.port = u.port
      BY <2>2, <2>5, <2>6, <2>8, <2>9, PositionsDiffer
    <2> QED BY <1>2, <2>3, <2>9, <2>10
  <1>5. ASSUME ~RefusesInput(ds, t), ~RefusesInput(ds, u),
               ResolveInput(ds, t) = ResolveInput(ds, u)
        PROVE  t = u
    <2>1. ~Dangling(f, t) /\ ~Dangling(f, u)
      BY <1>0, <1>5 DEF RefusesInput
    <2>2. i - 1 = j - 1 /\ ResolveInput(ds, t).port = ResolveInput(ds, u).port
      BY <1>5 DEF ResolveInput
    <2>3. t.instance = u.instance /\ t.instance \in Range(f.ids)
      BY <1>3, <2>1, <2>2
    <2> DEFINE ins == manifests[t.instance].inputs
    <2>4. ds[i].inputs = ins /\ ds[j].inputs = ins
      BY <1>0, <2>1, <2>3
    <2>5. ins \in Seq(Name) /\ Distinct(ins)
      BY <1>1, <2>3
    <2>6. t.port \in Range(ins) /\ u.port \in Range(ins)
      BY <1>5, <2>4 DEF RefusesInput
    <2>7. Position(ins, t.port) = Position(ins, u.port)
      BY <2>2, <2>4 DEF ResolveInput
    <2>8. t.port = u.port
      BY <2>5, <2>6, <2>7, PositionsDiffer
    <2> QED BY <1>2, <2>3, <2>8
  <1> QED BY <1>4, <1>5 DEF ds

\* parse.rs and validate.rs, which judge names, accept a list of connections exactly
\* when router.rs, which numbers them, can build the table.  One half is what leaf/src/
\* graph.rs says of a failure on the device ("was refused on the build host too"); the
\* other, that no list is refused for less than the router would refuse it for.
THEOREM AcceptedIsResolvable ==
    ASSUME NEW f \in File, NEW manifests, Resolved(f, manifests),
           \A k \in DOMAIN f.connections : f.connections[k].parses
    PROVE  Stage1(f) = {} /\ Stage2(f, manifests) = {}
             <=> ~Refuses(Descriptors(f, manifests), Connections(f))
PROOF
  <1> DEFINE ds == Descriptors(f, manifests)
             cs == Connections(f)
             w(k) == f.connections[k]
             Bad(k) == \/ Dangling(f, w(k).from) \/ Dangling(f, w(k).to)
                       \/ w(k).to.port = ErrName
                       \/ w(k).from.port # ErrName /\ Lacks(manifests, w(k).from, "outputs")
                       \/ Lacks(manifests, w(k).to, "inputs")
  <1>1. /\ f.connections \in Seq(Wire)
        /\ \A k \in DOMAIN f.connections : w(k).from \in Terminal /\ w(k).to \in Terminal
        /\ DOMAIN f.connections \subseteq Nat
    <2>1. f.connections \in Seq(Wire)
      BY DEF File
    <2>2. \A k \in DOMAIN f.connections : f.connections[k] \in Wire
      BY <2>1
    <2>3. DOMAIN f.connections \subseteq Nat
      BY <2>1
    <2> QED BY <2>1, <2>2, <2>3 DEF Wire
  <1>2. Entries(f) = DOMAIN f.connections
    BY DEF Entries
  <1>3. /\ DOMAIN cs = DOMAIN f.connections
        /\ \A k \in DOMAIN f.connections : cs[k].from = w(k).from /\ cs[k].to = w(k).to
    BY DEF Connections
  <1>4. \A k \in DOMAIN cs : RefusesOutput(ds, cs[k].from) \/ RefusesInput(ds, cs[k].to) <=> Bad(k)
    BY <1>1, <1>3, RefusedAlike
  <1>5. Stage1(f) = {} /\ Stage2(f, manifests) = {}
          <=> \A k \in DOMAIN f.connections : ~Bad(k) /\ ~Repeats(f, k)
    <2>1. Stage1(f) = {} <=> \A k \in DOMAIN f.connections :
            /\ w(k).to.port # ErrName
            /\ ~Dangling(f, w(k).from) /\ ~Dangling(f, w(k).to)
            /\ ~Repeats(f, k)
      <3> DEFINE e(kd, k) == [kind |-> kd, index |-> k]
      <3>1. ASSUME Stage1(f) = {}, NEW k \in DOMAIN f.connections
            PROVE  /\ w(k).to.port # ErrName
                   /\ ~Dangling(f, w(k).from) /\ ~Dangling(f, w(k).to)
                   /\ ~Repeats(f, k)
        <4>1. e("err", k) \notin Stage1(f) /\ e("source", k) \notin Stage1(f)
              /\ e("destination", k) \notin Stage1(f) /\ e("duplicate", k) \notin Stage1(f)
          BY <3>1
        <4>2. w(k).to.port # ErrName
          BY <4>1, <1>2 DEF Stage1
        <4>3. ~Dangling(f, w(k).from)
          BY <4>1, <1>2 DEF Stage1
        <4>4. ~Dangling(f, w(k).to)
          BY <4>1, <1>2 DEF Stage1
        <4>5. ~Repeats(f, k)
          BY <4>1, <1>2 DEF Stage1
        <4> QED BY <4>2, <4>3, <4>4, <4>5
      <3>2. ASSUME NEW x \in Stage1(f)
            PROVE  \E k \in DOMAIN f.connections :
                     \/ w(k).to.port = ErrName
                     \/ Dangling(f, w(k).from) \/ Dangling(f, w(k).to)
                     \/ Repeats(f, k)
        BY <1>2 DEF Stage1
      <3> QED BY <3>1, <3>2
    <2>2. Stage2(f, manifests) = {} <=> \A k \in DOMAIN f.connections :
            /\ ~(w(k).from.port # ErrName /\ Lacks(manifests, w(k).from, "outputs"))
            /\ ~Lacks(manifests, w(k).to, "inputs")
      <3> DEFINE e(kd, k) == [kind |-> kd, index |-> k]
      <3>1. ASSUME Stage2(f, manifests) = {}, NEW k \in DOMAIN f.connections
            PROVE  /\ ~(w(k).from.port # ErrName /\ Lacks(manifests, w(k).from, "outputs"))
                   /\ ~Lacks(manifests, w(k).to, "inputs")
        <4>1. e("output", k) \notin Stage2(f, manifests) /\ e("input", k) \notin Stage2(f, manifests)
          BY <3>1
        <4>2. ~(w(k).from.port # ErrName /\ Lacks(manifests, w(k).from, "outputs"))
          BY <4>1, <1>2 DEF Stage2
        <4>3. ~Lacks(manifests, w(k).to, "inputs")
          BY <4>1, <1>2 DEF Stage2
        <4> QED BY <4>2, <4>3
      <3>2. ASSUME NEW x \in Stage2(f, manifests)
            PROVE  \E k \in DOMAIN f.connections :
                     \/ w(k).from.port # ErrName /\ Lacks(manifests, w(k).from, "outputs")
                     \/ Lacks(manifests, w(k).to, "inputs")
        BY <1>2 DEF Stage2
      <3> QED BY <3>1, <3>2
    <2> QED BY <2>1, <2>2
  <1>6. ASSUME \A k \in DOMAIN f.connections : ~Bad(k)
        PROVE  Doubled(Pairs(ds, cs)) <=> \E k \in DOMAIN f.connections : Repeats(f, k)
    <2> DEFINE ps == Pairs(ds, cs)
    <2>1. /\ DOMAIN ps = DOMAIN f.connections
          /\ \A k \in DOMAIN f.connections : /\ ps[k].from = ResolveOutput(ds, w(k).from)
                                             /\ ps[k].to = ResolveInput(ds, w(k).to)
      BY <1>3 DEF Pairs
    <2>2. \A k \in DOMAIN f.connections :
            ~RefusesOutput(ds, w(k).from) /\ ~RefusesInput(ds, w(k).to)
      BY <1>3, <1>4, <1>6
    <2>3. \A j, k \in DOMAIN f.connections :
            ps[j].from = ps[k].from /\ ps[j].to = ps[k].to
              <=> w(j).from = w(k).from /\ w(j).to = w(k).to
      <3> SUFFICES ASSUME NEW j \in DOMAIN f.connections, NEW k \in DOMAIN f.connections
                   PROVE  ps[j].from = ps[k].from /\ ps[j].to = ps[k].to
                            <=> w(j).from = w(k).from /\ w(j).to = w(k).to
        OBVIOUS
      <3>1. ps[j].from = ps[k].from => w(j).from = w(k).from
        BY <1>1, <2>1, <2>2, SameTerminals
      <3>2. ps[j].to = ps[k].to => w(j).to = w(k).to
        BY <1>1, <2>1, <2>2, SameTerminals
      <3>3. w(j).from = w(k).from /\ w(j).to = w(k).to
              => ps[j].from = ps[k].from /\ ps[j].to = ps[k].to
        BY <2>1
      <3> QED BY <3>1, <3>2, <3>3
    <2> HIDE DEF ps
    <2>4. Doubled(ps) <=> \E j, k \in DOMAIN f.connections :
            j < k /\ w(j).from = w(k).from /\ w(j).to = w(k).to
      BY <2>1, <2>3 DEF Doubled
    <2>5. (\E k \in DOMAIN f.connections : Repeats(f, k))
            <=> \E j, k \in DOMAIN f.connections :
                  j < k /\ w(j).from = w(k).from /\ w(j).to = w(k).to
      BY <1>2 DEF Repeats
    <2> QED BY <2>4, <2>5 DEF ps
  <1>7. Refuses(ds, cs) <=> \/ \E k \in DOMAIN f.connections : Bad(k)
                            \/ Doubled(Pairs(ds, cs))
    BY <1>3, <1>4 DEF Refuses
  <1> HIDE DEF ds, cs, Bad
  <1> QED BY <1>5, <1>6, <1>7 DEF ds, cs

\* The table of an accepted file is the one the router assumes (Router.TableAssumption):
\* both ends of every connection are instances of the service, and no connection reaches
\* a block that declares no input, as the `subscriber` does not (daemon/src/bridge.rs).
THEOREM AcceptedTable ==
    ASSUME NEW f \in File, NEW manifests, Resolved(f, manifests),
           Stage1(f) = {}, Stage2(f, manifests) = {},
           NEW k \in DOMAIN ResolvedTable(f, manifests)
    PROVE  LET p == ResolvedTable(f, manifests)[k] IN
           /\ p.from.instance + 1 \in DOMAIN f.ids
           /\ p.to.instance + 1 \in DOMAIN f.ids
           /\ manifests[f.ids[p.to.instance + 1]].inputs # << >>
           /\ p.overflow = f.overflow
PROOF
  <1> DEFINE ds == Descriptors(f, manifests)
             w == f.connections[k]
             p == ResolvedTable(f, manifests)[k]
  <1>1. k \in DOMAIN f.connections
    BY DEF ResolvedTable, Pairs, Connections
  <1>2. f.ids \in Seq(Name) /\ f.connections \in Seq(Wire)
    BY DEF File
  <1>3. w \in Wire
    BY <1>1, <1>2
  <1>4. w.from \in Terminal /\ w.to \in Terminal
    BY <1>3 DEF Wire
  <1>5. /\ p.from = ResolveOutput(ds, w.from)
        /\ p.to = ResolveInput(ds, w.to)
        /\ p.overflow = f.overflow
    BY <1>1 DEF ResolvedTable, Pairs, Connections
  <1>6. k \in Entries(f)
    <2>1. SUFFICES ASSUME k \notin Entries(f) PROVE FALSE
      OBVIOUS
    <2>2. [kind |-> "syntax", index |-> k] \in Stage1(f)
      BY <1>1, <2>1 DEF Stage1
    <2> QED BY <2>2
  <1>7. ~Dangling(f, w.from)
    <2>1. [kind |-> "source", index |-> k] \notin Stage1(f)
      OBVIOUS
    <2> QED BY <1>6, <2>1 DEF Stage1
  <1>8. ~Dangling(f, w.to)
    <2>1. [kind |-> "destination", index |-> k] \notin Stage1(f)
      OBVIOUS
    <2> QED BY <1>6, <2>1 DEF Stage1
  <1>9. ~Lacks(manifests, w.to, "inputs")
    <2>1. [kind |-> "input", index |-> k] \notin Stage2(f, manifests)
      OBVIOUS
    <2> QED BY <1>6, <2>1 DEF Stage2
  <1>10. /\ Instance(ds, w.from) \in DOMAIN f.ids
         /\ Instance(ds, w.to) \in DOMAIN f.ids
         /\ f.ids[Instance(ds, w.to)] = w.to.instance
    BY <1>4, <1>7, <1>8, OneDescriptor
  <1>11. /\ p.from.instance + 1 = Instance(ds, w.from)
         /\ p.to.instance + 1 = Instance(ds, w.to)
    <2>1. /\ p.from.instance = Instance(ds, w.from) - 1
          /\ p.to.instance = Instance(ds, w.to) - 1
      BY <1>5 DEF ResolveOutput, ResolveInput
    <2>2. Instance(ds, w.from) \in Nat /\ Instance(ds, w.to) \in Nat
      BY <1>2, <1>10
    <2> QED BY <2>1, <2>2
  <1>12. manifests[w.to.instance].inputs # << >>
    <2>1. w.to.port \in Range(manifests[w.to.instance].inputs)
      BY <1>8, <1>9 DEF Lacks, Resolved, Dangling
    <2> QED BY <2>1 DEF Range
  <1> QED BY <1>5, <1>10, <1>11, <1>12

\* Where stage 1 finds nothing wrong, every connection was read.
LEMMA AcceptedParses ==
    ASSUME NEW f \in File, Stage1(f) = {}
    PROVE  \A k \in DOMAIN f.connections : f.connections[k].parses
PROOF
  <1>1. ASSUME NEW k \in DOMAIN f.connections, ~f.connections[k].parses
        PROVE  FALSE
    <2> DEFINE e == [kind |-> "syntax", index |-> k]
    <2>1. k \in DOMAIN f.connections \ Entries(f)
      BY <1>1 DEF Entries
    <2>2. e \in [kind : {"syntax"}, index : DOMAIN f.connections \ Entries(f)]
      BY <2>1
    <2> QED BY <2>2 DEF Stage1
  <1> QED BY <1>1

\* The device reads out of an image what the build host read out of the file.
LEMMA ImagesAreTheFile ==
    ASSUME NEW f \in File, NEW build
    PROVE  /\ DeviceDescriptors(Image(f, build)) = Descriptors(f, BuildManifests(f, build))
           /\ DeviceWiring(Image(f, build)) = Connections(f)
PROOF
  <1> DEFINE ms == BuildManifests(f, build)
  <1>1. /\ DOMAIN Image(f, build).instances = DOMAIN f.ids
        /\ \A i \in DOMAIN f.ids : /\ Image(f, build).instances[i].id = f.ids[i]
                                 /\ Image(f, build).instances[i].inputs = ms[f.ids[i]].inputs
                                 /\ Image(f, build).instances[i].outputs = ms[f.ids[i]].outputs
    BY DEF Image
  <1>2. /\ DOMAIN Image(f, build).connections = DOMAIN f.connections
        /\ \A k \in DOMAIN f.connections :
             /\ Image(f, build).connections[k].from = f.connections[k].from
             /\ Image(f, build).connections[k].to = f.connections[k].to
        /\ Image(f, build).overflow = f.overflow
    BY DEF Image
  <1> HIDE DEF ms
  <1>3. DeviceDescriptors(Image(f, build)) = Descriptors(f, ms)
    BY <1>1 DEF DeviceDescriptors, Descriptors
  <1>4. DeviceWiring(Image(f, build)) = Connections(f)
    BY <1>2 DEF DeviceWiring, Connections
  <1> QED BY <1>3, <1>4 DEF ms

\* A leaf's boot treats wiring that does not resolve as an image that was generated wrong
\* (leaf/src/graph.rs `routes`), and it is right to: `bake` (leaf-gen/src/lib.rs) never gets
\* as far as the wiring with a list it would refuse, what it bakes resolves on the device,
\* and to the table a daemon has of the same file.
THEOREM BakedImagesBoot ==
    ASSUME NEW f \in File, NEW build,
           \A path \in DOMAIN build.admits : build.admits[path] \in Manifest /\ Valid(build.admits[path])
    PROVE  /\ Bake(f, build) # "Wiring"
           /\ Bake(f, build) = "baked" =>
                /\ ~DeviceRefuses(Image(f, build))
                /\ DeviceTable(Image(f, build)) = ResolvedTable(f, BuildManifests(f, build))
PROOF
  <1> DEFINE ms == BuildManifests(f, build)
             wired == Refuses(Descriptors(f, ms), Connections(f))
  <1>1. ASSUME Stage1(f) = {}, Lacking(f, build) = {}, Stage2(f, ms) = {}
        PROVE  ~wired
    <2>1. ASSUME NEW id \in Range(f.ids)
          PROVE  PathOf(build, id) \in DOMAIN build.admits
      <3>1. PICK i \in DOMAIN f.ids : f.ids[i] = id
        BY DEF Range
      <3> QED BY <1>1, <3>1 DEF Lacking, NotAdmitted
    <2>2. \A id \in Range(f.ids) : ms[id] \in Manifest /\ Valid(ms[id])
      BY <2>1 DEF BuildManifests
    <2>3. ms \in [Range(f.ids) -> Manifest]
      BY <2>2 DEF BuildManifests
    <2>4. Resolved(f, ms)
      BY <2>2, <2>3 DEF Resolved
    <2> QED BY <1>1, <2>4, AcceptedParses, AcceptedIsResolvable
  <1>2. LacksFirst(f, build) \in {"NoArtifact", "Manifest"}
    BY DEF LacksFirst
  <1> HIDE DEF ms
  <1>3. /\ Bake(f, build) # "Wiring"
        /\ Bake(f, build) = "baked" => ~wired
    BY <1>1, <1>2 DEF Bake, ms
  <1>4. /\ DeviceRefuses(Image(f, build)) <=> wired
        /\ DeviceTable(Image(f, build)) = ResolvedTable(f, ms)
    BY ImagesAreTheFile DEF DeviceRefuses, DeviceTable, ResolvedTable, ms
  <1> QED BY <1>3, <1>4 DEF ms

-----------------------------------------------------------------------------
(* Admission: what a loaded block may call, and be called for.             *)

\* An import of an admitted module is eio:core's or a declared capability's.
LEMMA ImportsAreDeclared ==
    ASSUME NEW m, NEW manifest, NEW abi, NEW ceiling,
           Admits(m, {}, abi, ceiling), m.embedded = {manifest}, NEW i \in m.imports
    PROVE  \/ i[1] = "core" /\ i[2] \in CoreFunctions
           \/ i[1] \in Capability \cap manifest.capabilities /\ i[2] \in Functions(i[1])
PROOF
  <1>1. manifest \in EffectiveManifest(m, {})
    BY DEF EffectiveManifest
  <1>2. ~ImportIsWrong(i, manifest)
    BY <1>1 DEF Admits
  <1> QED BY <1>2 DEF ImportIsWrong

\* Every host function a loaded block imports has been registered when the block first
\* runs: the loader's tables (manifest/src/abi.rs) and the handlers (host-core) agree
\* wherever a daemon loads a block or a leaf starts one.
THEOREM LoadedBlocksLink ==
    ASSUME NEW m, NEW manifest, NEW abi, NEW ceiling,
           DaemonLoads(m, manifest, abi)
             \/ (LeafBuilds(m, manifest, abi, ceiling) /\ LeafBoots(manifest)),
           NEW namespace, NEW name, <<namespace, name>> \in m.imports
    PROVE  <<namespace, name>> \in Registered(manifest)
PROOF
  <1> DEFINE i == <<namespace, name>>
  <1>1. /\ manifest.capabilities \subseteq Implemented
        /\ m.embedded = {manifest}
        /\ Admits(m, {}, abi, ceiling) \/ Admits(m, {}, abi, {})
    BY DEF DaemonLoads, LeafBuilds, LeafBoots
  <1>2. \/ i[1] = "core" /\ i[2] \in CoreFunctions
        \/ i[1] \in Capability \cap manifest.capabilities /\ i[2] \in Functions(i[1])
    BY <1>1, ImportsAreDeclared
  <1>3. CASE i[1] = "core" /\ i[2] \in CoreFunctions
    <2>1. <<i[1], i[2]>> \in {"core"} \X CoreFunctions
      BY <1>3
    <2> QED BY <2>1 DEF Registered, CoreFunctions
  <1>4. CASE i[1] \in manifest.capabilities /\ i[2] \in Functions(i[1])
    <2>1. i[1] = "state" \/ i[1] = "timer"
      BY <1>1, <1>4 DEF Implemented
    <2>2. CASE i[1] = "state"
      <3>1. i[2] \in {"state_get", "state_put", "state_del"}
        BY <1>4, <2>2 DEF Functions
      <3>2. <<i[1], i[2]>> \in {"state"} \X {"state_get", "state_put", "state_del"}
        BY <2>2, <3>1
      <3> QED BY <1>4, <2>2, <3>2 DEF Registered
    <2>3. CASE i[1] = "timer"
      <3>1. i[2] \in {"timer_set", "timer_cancel"}
        BY <1>4, <2>3 DEF Functions
      <3>2. <<i[1], i[2]>> \in {"timer"} \X {"timer_set", "timer_cancel"}
        BY <2>3, <3>1
      <3> QED BY <1>4, <2>3, <3>2 DEF Registered
    <2> QED BY <2>1, <2>2, <2>3
  <1> QED BY <1>2, <1>3, <1>4

\* A timer can only be armed through eio:timer (host-core/src/timer.rs), and whoever
\* imports that has the callback the host makes when one fires (`Running::on_timer`).
THEOREM FiredTimersAreHeard ==
    ASSUME NEW m, NEW registry, NEW abi, NEW ceiling, Admits(m, registry, abi, ceiling),
           ImportsNamespace(m, "timer")
    PROVE  "eio_on_timer" \in m.exports /\ "eio_on_timer" \in m.sound
PROOF
  <1>1. "timer" \in Capability /\ Callback("timer") = {"eio_on_timer"}
    BY DEF Capability, Callback
  <1>2. ~ExportsAreWrong(m)
    BY DEF Admits
  <1>3. (ImportsNamespace(m, "timer") <=> "eio_on_timer" \in m.exports)
        /\ ("eio_on_timer" \in m.exports => "eio_on_timer" \in m.sound)
    BY <1>1, <1>2 DEF ExportsAreWrong
  <1> QED BY <1>3

-----------------------------------------------------------------------------
(* Engines and budgets.                                                    *)

\* Whatever block a daemon loads or a leaf starts, a call it makes is answered by the
\* handler of that name, on each of the four bindings, and never by what the binding says
\* when it has none, on which they differ.
THEOREM LoadedBlocksAreAnswered ==
    ASSUME NEW m, NEW manifest, NEW abi, NEW ceiling,
           DaemonLoads(m, manifest, abi)
             \/ (LeafBuilds(m, manifest, abi, ceiling) /\ LeafBoots(manifest)),
           NEW namespace, NEW name, <<namespace, name>> \in m.imports,
           NEW slots, DOMAIN slots = Registered(manifest),
           \A f \in DOMAIN slots : slots[f].t = SpecOf(f).result,
           SpecOf(<<namespace, name>>).result # "none",
           NEW b \in Bindings, NEW args, NEW untouched
    PROVE  LET f == <<namespace, name>>
           IN  Returned(b, f, HandlerFor(slots, f), args, untouched) = slots[f].n
PROOF
  <1> DEFINE f == <<namespace, name>>
  <1>1. f \in DOMAIN slots
    BY LoadedBlocksLink
  <1>2. HandlerFor(slots, f) = slots[f]
    BY <1>1 DEF HandlerFor
  <1>3. SpecOf(f).result = slots[f].t
    BY <1>1
  <1>4. Returned(b, f, slots[f], args, untouched) = slots[f].n
    BY <1>3 DEF Returned
  <1> QED BY <1>2, <1>4

\* A call of an export ends alike on all four bindings (`Engine::call`): it is answered on
\* each or on none, by the one i32 the guest returned; and a death that says a budget was
\* overrun is only told where there are budgets.
THEOREM CallsEndAlike ==
    ASSUME NEW exports, \A e \in DOMAIN exports : Fits(exports[e]), NulName \notin DOMAIN exports,
           NEW export, NEW args, NEW fails, NEW n,
           fails \in {"nothing", "OutOfFuel", "Interrupt", "OtherTrap", "NotATrap"},
           NEW b \in Bindings, NEW c \in Bindings
    PROVE  LET Ends(d) == Call(d, exports, export, args, [fails |-> fails, n |-> n]) IN
           /\ Ends(b).died = "no" <=> Ends(c).died = "no"
           /\ Ends(b).n = Ends(c).n
           /\ Ends(b).died = "no" => /\ export \in DOMAIN exports /\ Len(args) <= MAX_ARITY
                                  /\ exports[export] = <<"i32">> /\ fails = "nothing" /\ Ends(b).n = n
           /\ Ends(b).died \in {"Fuel", "Deadline"} =>
                b \in Wasmtime /\ fails \in {"OutOfFuel", "Interrupt"}
PROOF
  <1> DEFINE outcome == [fails |-> fails, n |-> n]
             one == fails = "nothing" /\ exports[export] = <<"i32">>
             R == [d \in Bindings |-> Call(d, exports, export, args, outcome)]
  <1>0. \A d \in Bindings : R[d] = Call(d, exports, export, args, outcome)
    OBVIOUS
  <1> HIDE DEF R
  <1>1. CASE ~Called(exports, export, args)
    <2>1. \A d \in Bindings : R[d] = Died("Engine")
      BY <1>0, <1>1 DEF Call, Metered, Wasm3Call, WamrCall, Bindings, Wasmtime
    <2>2. Died("Engine").died = "Engine"
      BY DEF Died
    <2>3. R[b] = R[c] /\ R[b].died = "Engine"
      BY <2>1, <2>2
    <2> QED BY <1>0, <2>3
  <1>2. CASE Called(exports, export, args)
    <2>1. Fits(exports[export]) /\ export # NulName
      BY <1>2 DEF Called
    <2>2. CASE fails # "nothing"
      <3>0. outcome.fails = fails
        OBVIOUS
      <3> HIDE DEF outcome
      <3>1. \A d \in Bindings : IF d \in Wasmtime THEN R[d] = Died(TrapOf(outcome.fails))
                                                  ELSE R[d] = Died("Trap")
        BY <1>0, <1>2, <2>1, <2>2, <3>0 DEF Call, Metered, Wasm3Call, WamrCall, Bindings, Wasmtime
      <3> USE DEF outcome
      <3>2. /\ TrapOf(fails) \in {"Fuel", "Deadline", "Trap", "Engine"}
            /\ TrapOf(fails) \in {"Fuel", "Deadline"} => fails \in {"OutOfFuel", "Interrupt"}
        BY <2>2 DEF TrapOf
      <3>3. \A kind : Died(kind).died = kind /\ Died(kind).n = 0
        BY DEF Died
      <3>4. \A d \in Bindings : R[d].n = 0 /\ R[d].died # "no"
                                /\ (R[d].died \in {"Fuel", "Deadline"} =>
                                      d \in Wasmtime /\ fails \in {"OutOfFuel", "Interrupt"})
        BY <3>0, <3>1, <3>2, <3>3
      <3> QED BY <1>0, <3>4
    <2>3. CASE fails = "nothing"
      <3>1. \A d \in Bindings : R[d] = OneI32(exports[export], n)
        BY <1>0, <1>2, <2>1, <2>3 DEF Call, Metered, Wasm3Call, WamrCall, Bindings, Wasmtime
      <3>2. /\ one => OneI32(exports[export], n).died = "no" /\ OneI32(exports[export], n).n = n
            /\ ~one => OneI32(exports[export], n).died = "Engine"
        BY <2>3 DEF OneI32, Gave, Died
      <3>3. R[b] = R[c] /\ (R[b].died = "no" => one /\ R[b].n = n) /\ R[b].died \in {"no", "Engine"}
        BY <3>1, <3>2
      <3> QED BY <1>0, <1>2, <3>3 DEF Called
    <2> QED BY <2>2, <2>3
  <1> QED BY <1>1, <1>2

\* wasm3's host functions find their handlers where they were, however often they are
\* called: `dispatch` leaves the map as it found it.
THEOREM HandlersComeBack ==
    ASSUME NEW names, NEW R, NEW slots \in [names -> R], NEW f, NEW memory \in BOOLEAN
    PROVE  /\ Wasm3Dispatch(slots, f, memory).left = slots
           /\ Wasm3Dispatch(slots, f, memory).ret = ReferenceDispatch(slots, f, memory)
PROOF
  <1> DEFINE beside == [g \in DOMAIN slots \ {f} |-> slots[g]]
  <1>1. CASE ~memory \/ f \notin DOMAIN slots
    BY <1>1 DEF Wasm3Dispatch, ReferenceDispatch, HandlerFor
  <1>2. CASE memory /\ f \in DOMAIN slots
    <2>1. DOMAIN beside \cup {f} = DOMAIN slots
      BY <1>2
    <2>2. Register(beside, f, slots[f]) = [g \in DOMAIN slots |-> slots[g]]
      BY <2>1, Zenon DEF Register
    <2>3. Register(beside, f, slots[f]) = slots
      BY <2>2
    <2> QED BY <1>2, <2>3 DEF Wasm3Dispatch, ReferenceDispatch, HandlerFor
  <1> QED BY <1>1, <1>2

\* `Budgets::epoch_ticks`: a deadline is at least one tick, covers what was asked for, and
\* by less than a tick more.
THEOREM DeadlinesAreRoundedUp ==
    ASSUME Tick \in Nat \ {0}, U64Max \in Nat \ {0}, NEW deadline \in Nat, deadline <= U64Max * Tick
    PROVE  /\ EpochTicks(deadline) \in 1..U64Max
           /\ EpochTicks(deadline) * Tick >= deadline
           /\ deadline > 0 => (EpochTicks(deadline) - 1) * Tick < deadline
PROOF
  <1> DEFINE n == CeilDiv(deadline, Tick)
  <1>1. n \in Nat /\ n * Tick >= deadline /\ (n - 1) * Tick < deadline
    BY DEF CeilDiv
  <1> HIDE DEF n
  <1>2. n <= U64Max
    BY <1>1
  <1>3. EpochTicks(deadline) = IF n < 1 THEN 1 ELSE n
    BY <1>1, <1>2 DEF EpochTicks, n
  <1>4. CASE n < 1
    BY <1>1, <1>3, <1>4
  <1>5. CASE n >= 1
    BY <1>1, <1>2, <1>3, <1>5
  <1> QED BY <1>1, <1>4, <1>5

-----------------------------------------------------------------------------
(* Numbers: the integers and floats of an expression.                      *)

\* Division of naturals, without the remainder.
LEMMA Euclid ==
    ASSUME NEW n \in Nat, NEW d \in Nat \ {0}
    PROVE  n \div d \in Nat /\ (n \div d) * d <= n /\ n < (n \div d) * d + d
PROOF
  <1>1. n \div d \in Int /\ n = d * (n \div d) + (n % d) /\ n % d \in 0..(d - 1)
    BY SMTT(60)
  <1> QED BY <1>1

\* Multiples of d lie at least d apart, so an order of multiples is one of factors.
LEMMA Apart ==
    ASSUME NEW d \in Nat \ {0}, NEW p \in Int, NEW q \in Int
    PROVE  /\ p < q => p * d + d <= q * d
           /\ p * d < q * d => p < q
           /\ p * d < q * d + d => p <= q
PROOF
  <1>1. \A k, l \in Int : k < l => k * d + d <= l * d
    <2> TAKE k, l \in Int
    <2> HAVE k < l
    <2>1. (l - k - 1) * d >= 0
      OBVIOUS
    <2> QED BY <2>1
  <1>2. p * d \in Int /\ q * d \in Int
    OBVIOUS
  <1>3. p > q => q * d + d <= p * d
    BY <1>1
  <1>4. p < q => p * d + d <= q * d
    BY <1>1
  <1>5. p = q => p * d = q * d
    OBVIOUS
  <1> QED BY <1>2, <1>3, <1>4, <1>5

\* The integer part of a fraction lies between it and zero, less than 1 away.
LEMMA IntegerPart ==
    ASSUME D \in Nat \ {0}, NEW f \in Int
    PROVE  LET t == Quotient(f, D) IN
           /\ t \in Int
           /\ f >= 0 => t * D <= f /\ f < t * D + D
           /\ f < 0  => t * D - D < f /\ f <= t * D
PROOF
  <1>1. CASE f >= 0
    <2>1. Quotient(f, D) = f \div D
      BY <1>1 DEF Quotient
    <2> QED BY <1>1, <2>1, Euclid
  <1>2. CASE f < 0
    <2> DEFINE n == -f
    <2>1. n \in Nat /\ Quotient(f, D) = -(n \div D)
      BY <1>2 DEF Quotient
    <2>2. n \div D \in Nat /\ (n \div D) * D <= n /\ n < (n \div D) * D + D
      BY <2>1, Euclid
    <2>3. (-(n \div D)) * D = -((n \div D) * D)
      BY <2>2
    <2> QED BY <1>2, <2>1, <2>2, <2>3
  <1> QED BY <1>1, <1>2

\* Of a float in the range of i64 it is an i64, and cast back exactly.
LEMMA InRange ==
    ASSUME FloatFormat, NEW f \in Floats, -Half64 * D <= f, f < Half64 * D
    PROVE  Quotient(f, D) \in I64 /\ AsF64(Quotient(f, D)) = Quotient(f, D) * D
PROOF
  <1> DEFINE t == Quotient(f, D)
  <1>1. D \in Nat \ {0} /\ Half64 \in Nat \ {0} /\ f \in Int /\ AsF64(t) = t * D
    BY DEF FloatFormat
  <1>2. /\ t \in Int
        /\ f >= 0 => t * D <= f /\ f < t * D + D
        /\ f < 0  => t * D - D < f /\ f <= t * D
    BY <1>1, IntegerPart
  <1> HIDE DEF t
  <1>3. -Half64 \in Int /\ 0 * D = 0 /\ t * D \in Int /\ (-Half64) * D = -(Half64 * D)
    BY <1>1, <1>2
  <1>4. CASE f >= 0
    <2>1. t * D < Half64 * D /\ 0 * D < t * D + D
      BY <1>1, <1>2, <1>3, <1>4
    <2>2. t < Half64 /\ 0 <= t
      BY <1>1, <1>2, <2>1, Apart
    <2> QED BY <1>1, <1>2, <2>2 DEF I64, t
  <1>5. CASE f < 0
    <2>1. t * D < 0 * D + D /\ (-Half64) * D < t * D + D
      BY <1>1, <1>2, <1>3, <1>5
    <2>2. t <= 0 /\ -Half64 <= t
      BY <1>1, <1>2, <1>3, <2>1, Apart
    <2> QED BY <1>1, <1>2, <2>2 DEF I64, t
  <1> QED BY <1>1, <1>4, <1>5

\* An integer against a float, without a cast of the integer.
LEMMA MixedIsExact ==
    ASSUME FloatFormat, NEW i \in I64, NEW f \in Floats
    PROVE  CmpIntFloat(i, f) = Sign(i * D - f)
PROOF
  <1> DEFINE t == Quotient(f, D)
  <1>1. D \in Nat \ {0} /\ Half64 \in Nat \ {0} /\ f \in Int /\ i \in Int /\ -Half64 <= i /\ i < Half64
    BY DEF FloatFormat, I64
  <1>2. i * D \in Int /\ Half64 * D \in Int /\ -Half64 \in Int /\ (-Half64) * D = -(Half64 * D)
    BY <1>1
  <1>3. i * D < Half64 * D /\ -(Half64 * D) <= i * D
    <2>1. i * D + D <= Half64 * D
      BY <1>1, Apart
    <2>2. -Half64 < i => (-Half64) * D + D <= i * D
      BY <1>1, <1>2, Apart
    <2>3. -Half64 = i => (-Half64) * D = i * D
      OBVIOUS
    <2> QED BY <1>1, <1>2, <2>1, <2>2, <2>3
  <1>4. CASE f >= Half64 * D
    BY <1>1, <1>2, <1>3, <1>4 DEF CmpIntFloat, Sign
  <1>5. CASE f < -Half64 * D
    BY <1>1, <1>2, <1>3, <1>5 DEF CmpIntFloat, Sign
  <1>6. CASE -Half64 * D <= f /\ f < Half64 * D
    <2>1. t \in Int /\ AsF64(t) = t * D /\ t * D \in Int
      BY <1>1, <1>6, InRange DEF I64
    <2>2. t * D - D < f /\ f < t * D + D
      BY <1>1, <2>1, IntegerPart
    <2>3. (f >= 0 => t * D <= f) /\ (f < 0 => f <= t * D)
      BY <1>1, IntegerPart
    <2>4. CmpIntFloat(i, f) = IF i = t THEN -Sign(f - AsF64(t)) ELSE Sign(i - t)
      BY <1>1, <1>2, <1>6 DEF CmpIntFloat
    <2> HIDE DEF t
    <2>5. CASE i = t
      BY <1>1, <2>1, <2>4, <2>5 DEF Sign
    <2>6. CASE i < t
      <3>1. i * D + D <= t * D
        BY <1>1, <2>1, <2>6, Apart
      <3>2. i * D - f < 0
        BY <1>1, <1>2, <2>1, <2>2, <3>1
      <3> QED BY <1>1, <1>2, <2>1, <2>4, <2>6, <3>2 DEF Sign
    <2>7. CASE t < i
      <3>1. t * D + D <= i * D
        BY <1>1, <2>1, <2>7, Apart
      <3>2. i * D - f > 0
        BY <1>1, <1>2, <2>1, <2>2, <3>1
      <3> QED BY <1>1, <1>2, <2>1, <2>4, <2>7, <3>2 DEF Sign
    <2> QED BY <1>1, <2>1, <2>5, <2>6, <2>7
  <1> QED BY <1>1, <1>2, <1>4, <1>5, <1>6

\* Two numbers compare as their mathematical values, an integer and a float too, whatever
\* integers share a float (EXPR-SPEC 4.2, num.rs `cmp`): so the order is total, and `=`
\* an equivalence that agrees with it.
THEOREM CompareIsExact ==
    ASSUME FloatFormat, NEW x \in Nums, NEW y \in Nums
    PROVE  Cmp(x, y) = Sign(Exact(x) - Exact(y))
PROOF
  <1>1. D \in Nat \ {0} /\ Floats \subseteq Int /\ I64 \subseteq Int
    BY DEF FloatFormat, I64
  <1>2. CASE IsInt(x) /\ IsInt(y)
    <2>1. x.n \in Int /\ y.n \in Int /\ x.n * D \in Int /\ y.n * D \in Int
      BY <1>1, <1>2 DEF Nums, IsInt, Int64, Float
    <2>2. /\ x.n < y.n => x.n * D + D <= y.n * D
          /\ y.n < x.n => y.n * D + D <= x.n * D
      BY <1>1, <2>1, Apart
    <2>3. Cmp(x, y) = Sign(x.n - y.n) /\ Exact(x) = x.n * D /\ Exact(y) = y.n * D
      BY <1>2 DEF Cmp, Exact
    <2> QED BY <1>1, <2>1, <2>2, <2>3 DEF Sign
  <1>3. CASE ~IsInt(x) /\ ~IsInt(y)
    BY <1>3 DEF Cmp, Exact, IsInt
  <1>4. CASE IsInt(x) /\ ~IsInt(y)
    <2>1. x.n \in I64 /\ y.n \in Floats
      BY <1>4 DEF Nums, IsInt, Int64, Float
    <2>2. Cmp(x, y) = CmpIntFloat(x.n, y.n) /\ Exact(x) = x.n * D /\ Exact(y) = y.n
      BY <1>4 DEF Cmp, Exact
    <2> QED BY <2>1, <2>2, MixedIsExact
  <1>5. CASE ~IsInt(x) /\ IsInt(y)
    <2>1. y.n \in I64 /\ x.n \in Floats
      BY <1>5 DEF Nums, IsInt, Int64, Float
    <2>2. Cmp(x, y) = -CmpIntFloat(y.n, x.n) /\ Exact(y) = y.n * D /\ Exact(x) = x.n
      BY <1>5 DEF Cmp, Exact
    <2>3. CmpIntFloat(y.n, x.n) = Sign(y.n * D - x.n)
      BY <2>1, MixedIsExact
    <2>4. x.n \in Int /\ y.n \in Int
      BY <1>1, <2>1
    <2>5. y.n * D \in Int
      BY <1>1, <2>4
    <2> QED BY <2>2, <2>3, <2>4, <2>5 DEF Sign
  <1> QED BY <1>2, <1>3, <1>4, <1>5

\* There is one whole number on either side.
LEMMA OneBelow ==
    ASSUME NEW d \in Nat \ {0}, NEW x \in Int, NEW w \in Int, w * d <= x, x < w * d + d, Half64 \in Nat
    PROVE  Below(x, d) = Checked(w)
PROOF
  <1>1. \A q \in I64 : q \in Int
    BY DEF I64
  <1>2. w * d \in Int /\ \A q \in Int : q * d \in Int
    OBVIOUS
  <1>3. \A q \in Int : q * d <= x /\ x < q * d + d => q = w
    <2> TAKE q \in Int
    <2> HAVE q * d <= x /\ x < q * d + d
    <2>1. q * d < w * d + d /\ w * d < q * d + d
      BY <1>2
    <2>2. q <= w /\ w <= q
      BY <2>1, Apart
    <2> QED BY <2>2
  <1> QED BY <1>1, <1>3 DEF Below, Checked

\* And the least multiple that is not below a number is what `Above` finds.
LEMMA OneAbove ==
    ASSUME NEW d \in Nat \ {0}, NEW x \in Int, NEW w \in Int, w * d - d < x, x <= w * d, Half64 \in Nat
    PROVE  Above(x, d) = Checked(w)
PROOF
  <1>1. \A q \in I64 : q \in Int
    BY DEF I64
  <1>2. w * d \in Int /\ \A q \in Int : q * d \in Int
    OBVIOUS
  <1>3. \A q \in Int : q * d - d < x /\ x <= q * d => q = w
    <2> TAKE q \in Int
    <2> HAVE q * d - d < x /\ x <= q * d
    <2>1. q * d < w * d + d /\ w * d < q * d + d
      BY <1>2
    <2>2. q <= w /\ w <= q
      BY <2>1, Apart
    <2> QED BY <2>2
  <1> QED BY <1>1, <1>3 DEF Above, Checked

\* Past the range of i64 a float is whole, and no i64 is near.
LEMMA OutOfRange ==
    ASSUME FloatFormat, NEW f \in Floats, ~(-Half64 * D <= f /\ f < Half64 * D)
    PROVE  Below(f, D) = {} /\ Above(f, D) = {} /\ Nearest(f) = {}
PROOF
  <1> DEFINE w == f \div D
  <1>1. D \in Nat \ {0} /\ Half64 \in Nat \ {0} /\ f \in Int /\ f % D = 0
    BY DEF FloatFormat
  <1>2. w \in Int /\ f = w * D
    <2>1. f \div D \in Int /\ f = D * (f \div D) + (f % D)
      BY <1>1, SMTT(60)
    <2> QED BY <1>1, <2>1
  <1> HIDE DEF w
  <1>3. -Half64 \in Int /\ (-Half64) * D = -(Half64 * D) /\ Half64 * D \in Int /\ w * D \in Int
    BY <1>1, <1>2
  <1>4. Checked(w) = {}
    <2> SUFFICES ASSUME -Half64 <= w, w < Half64 PROVE FALSE
      BY <1>1, <1>2 DEF Checked, I64
    <2>1. w * D + D <= Half64 * D
      BY <1>1, <1>2, Apart
    <2>2. -Half64 < w => (-Half64) * D + D <= w * D
      BY <1>1, <1>2, <1>3, Apart
    <2>3. -Half64 = w => (-Half64) * D = w * D
      OBVIOUS
    <2>4. -(Half64 * D) <= w * D
      BY <1>1, <1>2, <1>3, <2>2, <2>3
    <2>5. f < Half64 * D /\ -(Half64 * D) <= f
      BY <1>1, <1>2, <1>3, <2>1, <2>4
    <2> QED BY <2>5
  <1>5. 2 * D \in Nat \ {0} /\ 2 * f + D \in Int /\ 2 * f - D \in Int /\ w * (2 * D) = 2 * (w * D)
    BY <1>1, <1>2
  <1>6. Below(f, D) = Checked(w) /\ Above(f, D) = Checked(w)
    BY <1>1, <1>2, <1>3, OneBelow, OneAbove
  <1>7. Below(2 * f + D, 2 * D) = Checked(w)
    <2>1. w * (2 * D) <= 2 * f + D /\ 2 * f + D < w * (2 * D) + 2 * D
      BY <1>1, <1>2, <1>3, <1>5
    <2> QED BY <1>1, <1>2, <1>5, <2>1, OneBelow
  <1>8. Above(2 * f - D, 2 * D) = Checked(w)
    <2>1. w * (2 * D) - 2 * D < 2 * f - D /\ 2 * f - D <= w * (2 * D)
      BY <1>1, <1>2, <1>3, <1>5
    <2> QED BY <1>1, <1>2, <1>5, <2>1, OneAbove
  <1> QED BY <1>4, <1>6, <1>7, <1>8 DEF Nearest

\* `floor`, `ceil` and `int` of a float are the integer they say, and fail exactly when
\* no i64 is it; `round` goes to the nearest, from the middle away from zero.  Each is
\* built of the one cast that truncates (num.rs `trunc_to_i64` to `round_to_i64`).
THEOREM RoundingIsExact ==
    ASSUME FloatFormat, NEW f \in Floats
    PROVE  /\ TruncToI64(f) = Toward0(f)
           /\ FloorToI64(f) = Below(f, D)
           /\ CeilToI64(f) = Above(f, D)
           /\ RoundToI64(f) = Nearest(f)
PROOF
  <1> DEFINE t == Quotient(f, D)
  <1>1. D \in Nat \ {0} /\ Half64 \in Nat \ {0} /\ f \in Int
    BY DEF FloatFormat
  <1>2. CASE ~(-Half64 * D <= f /\ f < Half64 * D)
    <2>1. TruncToI64(f) = {}
      BY <1>2 DEF TruncToI64
    <2> QED BY <1>2, <2>1, OutOfRange DEF Toward0, FloorToI64, CeilToI64, RoundToI64
  <1>3. CASE -Half64 * D <= f /\ f < Half64 * D
    <2>1. t \in I64 /\ AsF64(t) = t * D
      BY <1>3, InRange
    <2>2. t \in Int /\ t * D \in Int
      BY <1>1, <2>1 DEF I64
    <2>3. /\ f >= 0 => t * D <= f /\ f < t * D + D
          /\ f < 0  => t * D - D < f /\ f <= t * D
      BY <1>1, IntegerPart
    <2>4. TruncToI64(f) = {t}
      BY <1>3 DEF TruncToI64
    <2> HIDE DEF t
    <2>5. /\ t - 1 \in Int /\ (t - 1) * D = t * D - D
          /\ t + 1 \in Int /\ (t + 1) * D = t * D + D
      BY <1>1, <2>2
    <2>6. Checked(t) = {t}
      BY <2>1 DEF Checked
    <2>7. TruncToI64(f) = Toward0(f)
      <3>1. CASE f >= 0
        <4>1. Below(f, D) = Checked(t)
          BY <1>1, <2>2, <2>3, <3>1, OneBelow
        <4> QED BY <2>4, <2>6, <3>1, <4>1 DEF Toward0
      <3>2. CASE f < 0
        <4>1. Above(f, D) = Checked(t)
          BY <1>1, <2>2, <2>3, <3>2, OneAbove
        <4>2. ~(f >= 0)
          BY <1>1, <3>2
        <4> QED BY <2>4, <2>6, <4>1, <4>2 DEF Toward0
      <3> QED BY <1>1, <3>1, <3>2
    <2>8. FloorToI64(f) = Below(f, D)
      <3> DEFINE w == IF f < 0 /\ t * D # f THEN t - 1 ELSE t
      <3>1. FloorToI64(f) = Checked(w)
        BY <2>1, <2>4 DEF FloorToI64
      <3>2. w \in Int /\ w * D <= f /\ f < w * D + D
        BY <1>1, <2>2, <2>3, <2>5
      <3> HIDE DEF w
      <3> QED BY <1>1, <3>1, <3>2, OneBelow
    <2>9. CeilToI64(f) = Above(f, D)
      <3> DEFINE w == IF f > 0 /\ t * D # f THEN t + 1 ELSE t
      <3>1. CeilToI64(f) = Checked(w)
        BY <2>1, <2>4 DEF CeilToI64
      <3>2. w \in Int /\ w * D - D < f /\ f <= w * D
        BY <1>1, <2>2, <2>3, <2>5
      <3> HIDE DEF w
      <3> QED BY <1>1, <3>1, <3>2, OneAbove
    <2>10. RoundToI64(f) = Nearest(f)
      <3> DEFINE w == IF 2 * (f - t * D) >= D THEN t + 1
                      ELSE IF 2 * (f - t * D) <= -D THEN t - 1 ELSE t
      <3>1. RoundToI64(f) = Checked(w)
        BY <2>1, <2>4 DEF RoundToI64
      <3>2. w \in Int /\ w * (2 * D) = 2 * (w * D)
        BY <1>1, <2>2
      <3>3. 2 * D \in Nat \ {0} /\ 2 * f + D \in Int /\ 2 * f - D \in Int
        BY <1>1
      <3>4. CASE f >= 0
        <4>1. 2 * (w * D) <= 2 * f + D /\ 2 * f + D < 2 * (w * D) + 2 * D
          BY <1>1, <2>2, <2>3, <2>5, <3>4
        <4> HIDE DEF w
        <4>2. Below(2 * f + D, 2 * D) = Checked(w)
          BY <1>1, <3>2, <3>3, <4>1, OneBelow
        <4> QED BY <3>1, <3>4, <4>2 DEF Nearest
      <3>5. CASE f < 0
        <4>1. 2 * (w * D) - 2 * D < 2 * f - D /\ 2 * f - D <= 2 * (w * D)
          BY <1>1, <2>2, <2>3, <2>5, <3>5
        <4> HIDE DEF w
        <4>2. Above(2 * f - D, 2 * D) = Checked(w)
          BY <1>1, <3>2, <3>3, <4>1, OneAbove
        <4>3. ~(f >= 0)
          BY <1>1, <3>5
        <4> QED BY <3>1, <4>2, <4>3 DEF Nearest
      <3> QED BY <1>1, <3>4, <3>5
    <2> QED BY <2>7, <2>8, <2>9, <2>10
  <1> QED BY <1>2, <1>3

\* Truncating division: what is left over is smaller than the divisor, on the side of
\* the dividend.
LEMMA Truncates ==
    ASSUME NEW a \in Int, NEW b \in Int \ {0}
    PROVE  LET q == Quotient(a, b) r == Remainder(a, b) d == IF b < 0 THEN -b ELSE b IN
           /\ q \in Int /\ q * b \in Int /\ a = q * b + r
           /\ a >= 0 => 0 <= r /\ r < d
           /\ a < 0  => -d < r /\ r <= 0
PROOF
  <1> DEFINE n == IF a < 0 THEN -a ELSE a
             d == IF b < 0 THEN -b ELSE b
             k == n \div d
  <1>1. n \in Nat /\ d \in Nat \ {0}
    OBVIOUS
  <1>2. k \in Nat /\ k * d <= n /\ n < k * d + d
    BY <1>1, Euclid
  <1>3. Quotient(a, b) = IF (a < 0) = (b < 0) THEN k ELSE -k
    BY DEF Quotient
  <1>4. Remainder(a, b) = a - b * Quotient(a, b)
    BY DEF Remainder
  <1>5. d = IF b < 0 THEN -b ELSE b
    OBVIOUS
  <1>6. n = IF a < 0 THEN -a ELSE a
    OBVIOUS
  <1> HIDE DEF k, d, n
  <1>7. k * d \in Int /\ k * b \in Int /\ (-k) * b = -(k * b) /\ b * (-k) = -(k * b) /\ b * k = k * b
        /\ k * (-b) = -(k * b)
    BY <1>2, <1>1
  <1>8. k * b = IF b < 0 THEN -(k * d) ELSE k * d
    BY <1>5, <1>7
  <1>9. CASE a >= 0 /\ b > 0
    BY <1>1, <1>2, <1>3, <1>4, <1>5, <1>6, <1>7, <1>8, <1>9
  <1>10. CASE a >= 0 /\ b < 0
    BY <1>1, <1>2, <1>3, <1>4, <1>5, <1>6, <1>7, <1>8, <1>10
  <1>11. CASE a < 0 /\ b > 0
    BY <1>1, <1>2, <1>3, <1>4, <1>5, <1>6, <1>7, <1>8, <1>11
  <1>12. CASE a < 0 /\ b < 0
    BY <1>1, <1>2, <1>3, <1>4, <1>5, <1>6, <1>7, <1>8, <1>12
  <1> QED BY <1>9, <1>10, <1>11, <1>12

\* `div` and `mod` floor (EXPR-SPEC 7.1).  `div` fails only for a zero divisor and where
\* no i64 is the quotient; `mod` takes the sign of its divisor, fails for a zero one
\* only, and fits `div` wherever that answers.
THEOREM DivisionFloors ==
    ASSUME Half64 \in Nat \ {0}, NEW a \in I64, NEW b \in I64
    PROVE  /\ b = 0 => FloorDiv(a, b) = {}
           /\ b > 0 => FloorDiv(a, b) = Below(a, b)
           /\ b < 0 => FloorDiv(a, b) = Below(-a, -b)
           /\ FloorMod(a, b) = {} <=> b = 0
           /\ \A r \in FloorMod(a, b) :
                /\ IF b > 0 THEN 0 <= r /\ r < b ELSE b < r /\ r <= 0
                /\ \A q \in FloorDiv(a, b) : a = q * b + r
PROOF
  <1> DEFINE q == Quotient(a, b)
             r == Remainder(a, b)
             off == SignsDiffer(r, b)
             w == IF off THEN q - 1 ELSE q
             rest == IF off THEN r + b ELSE r
  <1>1. a \in Int /\ -Half64 <= a /\ a < Half64 /\ b \in Int /\ -Half64 <= b /\ b < Half64
    BY DEF I64
  <1>2. CASE b = 0
    BY <1>2 DEF FloorDiv, FloorMod
  <1>3. CASE b # 0
    <2>1. /\ q \in Int /\ r \in Int /\ q * b \in Int /\ a = q * b + r
          /\ a >= 0 => 0 <= r /\ r < (IF b < 0 THEN -b ELSE b)
          /\ a < 0  => -(IF b < 0 THEN -b ELSE b) < r /\ r <= 0
      <3>1. b \in Int \ {0}
        BY <1>1, <1>3
      <3>2. r = a - b * q
        BY DEF Remainder
      <3>3. /\ q \in Int /\ q * b \in Int /\ a = q * b + r
            /\ a >= 0 => 0 <= r /\ r < (IF b < 0 THEN -b ELSE b)
            /\ a < 0  => -(IF b < 0 THEN -b ELSE b) < r /\ r <= 0
        BY <1>1, <3>1, Truncates
      <3> HIDE DEF q, r
      <3>4. b * q \in Int
        BY <3>1, <3>3
      <3> QED BY <1>1, <3>2, <3>3, <3>4
    <2>2. FloorDiv(a, b) = UNION {Checked(IF off THEN k - 1 ELSE k) : k \in Checked(q)}
      BY <1>3 DEF FloorDiv
    <2>3. FloorMod(a, b) = IF b = -1 THEN {0} ELSE IF off THEN Checked(r + b) ELSE {r}
      BY <1>3 DEF FloorMod
    <2> HIDE DEF q, r
    <2>4. off <=> (r < 0 /\ b > 0) \/ (r > 0 /\ b < 0)
      BY <1>1, <1>3, <2>1 DEF SignsDiffer
    <2> HIDE DEF off
    <2>5. (q - 1) * b = q * b - b
      BY <1>1, <2>1
    <2>6. w \in Int /\ rest \in Int /\ w * b \in Int /\ a = w * b + rest
      BY <1>1, <2>1, <2>5
    <2>7. IF b > 0 THEN 0 <= rest /\ rest < b ELSE b < rest /\ rest <= 0
      BY <1>1, <1>3, <2>1, <2>4
    <2>8. w = q \/ (w = q - 1 /\ r # 0)
      BY <2>1, <2>4 DEF w
    <2> HIDE DEF rest
    <2>9. q \notin I64 => Checked(w) = {}
      <3> SUFFICES ASSUME q \notin I64, w \in I64 PROVE FALSE
        BY <2>6 DEF Checked
      <3>1. q = Half64 /\ r # 0
        BY <1>1, <2>1, <2>8 DEF I64
      <3>2. CASE b > 0
        <4>1. Half64 * b >= Half64 /\ (b > 1 => Half64 * b >= 2 * Half64)
          BY <1>1, <3>2
        <4> QED BY <1>1, <2>1, <3>1, <3>2, <4>1
      <3>3. CASE b < 0
        <4>1. Half64 * b <= -Half64 /\ (b < -1 => Half64 * b <= -(2 * Half64))
          BY <1>1, <3>3
        <4> QED BY <1>1, <2>1, <3>1, <3>3, <4>1
      <3> QED BY <1>1, <1>3, <3>2, <3>3
    <2>10. FloorDiv(a, b) = Checked(w)
      <3>1. CASE q \in I64
        <4>1. Checked(q) = {q}
          BY <3>1 DEF Checked
        <4> QED BY <2>2, <4>1
      <3>2. CASE q \notin I64
        <4>1. Checked(q) = {}
          BY <3>2 DEF Checked
        <4> QED BY <2>2, <2>9, <3>2, <4>1
      <3> QED BY <3>1, <3>2
    <2> HIDE DEF w
    <2>11. b > 0 => FloorDiv(a, b) = Below(a, b)
      BY <1>1, <2>6, <2>7, <2>10, OneBelow
    <2>12. b < 0 => FloorDiv(a, b) = Below(-a, -b)
      <3> HAVE b < 0
      <3>1. -b \in Nat \ {0} /\ -a \in Int /\ w * (-b) = -(w * b)
        BY <1>1, <2>6
      <3>2. w * (-b) <= -a /\ -a < w * (-b) + (-b)
        BY <1>1, <2>6, <2>7, <3>1
      <3> QED BY <2>6, <2>10, <3>1, <3>2, OneBelow
    <2>13. FloorMod(a, b) = {rest}
      <3>1. CASE b = -1
        BY <1>1, <2>3, <2>6, <2>7, <3>1
      <3>2. CASE b # -1 /\ off
        <4>1. rest = r + b /\ rest \in I64
          BY <1>1, <2>6, <2>7, <3>2 DEF rest, I64
        <4> QED BY <2>3, <3>2, <4>1 DEF Checked
      <3>3. CASE b # -1 /\ ~off
        BY <2>3, <3>3 DEF rest
      <3> QED BY <3>1, <3>2, <3>3
    <2>14. \A k \in FloorDiv(a, b) : a = k * b + rest
      BY <2>6, <2>10 DEF Checked
    <2> QED BY <1>3, <2>7, <2>11, <2>12, <2>13, <2>14
  <1> QED BY <1>2, <1>3

\* So `=` is an equivalence and `<` a total order that agree with each other, over ints
\* and floats together: what `sort`, `min` and `max` lean on.
THEOREM OneOrder ==
    ASSUME FloatFormat, NEW x \in Nums, NEW y \in Nums, NEW z \in Nums
    PROVE  /\ Equal(<<x, y>>) = Order(<<x, y>>, {0})
           /\ Cmp(y, x) = -Cmp(x, y) /\ Cmp(x, x) = 0
           /\ Cmp(x, y) <= 0 /\ Cmp(y, z) <= 0 =>
                /\ Cmp(x, z) <= 0
                /\ Cmp(x, z) = 0 => Cmp(x, y) = 0 /\ Cmp(y, z) = 0
PROOF
  <1>1. \A v \in Nums : Exact(v) \in Int /\ IsNum(v) /\ v.t \in Numbers
    <2>1. D \in Int /\ Floats \subseteq Int /\ I64 \subseteq Int
      BY DEF FloatFormat, I64
    <2> QED BY <2>1 DEF Nums, Exact, IsInt, IsNum, Numbers, Int64, Float
  <1>2. \A v, u \in Nums : Cmp(v, u) = Sign(Exact(v) - Exact(u))
    BY CompareIsExact
  <1>3. Equal(<<x, y>>) = Order(<<x, y>>, {0})
    <2> DEFINE args == <<x, y>>
    <2>1. DOMAIN args = {1, 2} /\ args[1] = x /\ args[2] = y
      OBVIOUS
    <2> HIDE DEF args
    <2>2. Unfit(args, Data) = {} /\ Unfit(args, Numbers) = {}
      BY <1>1, <2>1 DEF Unfit, Data
    <2>3. ~(\A i \in DOMAIN args : args[i].t = "str")
      BY <1>1, <2>1 DEF Numbers
    <2>4. Equal(args) = Gives(Bool(ValuesEqual(x, y)))
      BY <2>1, <2>2 DEF Equal, Requiring
    <2>5. Order(args, {0}) = Gives(Bool(Cmp(x, y) \in {0}))
      BY <2>1, <2>2, <2>3 DEF Order, Requiring
    <2>6. ValuesEqual(x, y) = (Cmp(x, y) = 0)
      BY <1>1 DEF ValuesEqual
    <2>7. (Cmp(x, y) = 0) = (Cmp(x, y) \in {0})
      OBVIOUS
    <2>8. Bool(ValuesEqual(x, y)) = Bool(Cmp(x, y) \in {0})
      BY <2>6, <2>7 DEF Bool
    <2> QED BY <2>4, <2>5, <2>8 DEF args
  <1> QED BY <1>1, <1>2, <1>3 DEF Sign

\* `range` subtracts with saturation; no array longer than MAX_RANGE comes of it, nor is
\* one refused that is not.
THEOREM RangeIsExact ==
    ASSUME Half64 \in Nat \ {0}, NEW start \in I64, NEW end \in I64,
           NEW maxRange \in Nat, maxRange < Half64 - 1
    PROVE  RangeOf(<<Int64(start), Int64(end)>>, maxRange)
             = IF end - start > maxRange THEN Err("size", 0) ELSE Gives(start..(end - 1))
PROOF
  <1> DEFINE args == <<Int64(start), Int64(end)>>
  <1>1. /\ DOMAIN args = {1, 2} /\ Len(args) = 2
        /\ \A i \in {1, 2} : args[i].t = "int"
        /\ args[1].n = start /\ args[2].n = end
    BY DEF Int64
  <1>2. start \in Int /\ end \in Int /\ -Half64 <= start /\ start < Half64 /\ -Half64 <= end /\ end < Half64
    BY DEF I64
  <1> HIDE DEF args
  <1>3. Unfit(args, {"int"}) = {}
    BY <1>1 DEF Unfit
  <1>4. Saturated(end - start) > maxRange <=> end - start > maxRange
    BY <1>2 DEF Saturated
  <1>5. RangeOf(args, maxRange) = IF Saturated(end - start) > maxRange THEN Err("size", 0)
                                  ELSE Gives(start..(end - 1))
    BY <1>1, <1>3 DEF RangeOf, Requiring
  <1> QED BY <1>4, <1>5 DEF args

-----------------------------------------------------------------------------
(* Leaf: an instance of a leaf, for any keys, values, delays, width of the *)
(* clock, wear budget and number of lives.                                 *)
(*                                                                         *)
(* A timer that fired in a pump is due again a whole period after the time *)
(* the pump was called with, unless that time does not fit (Paced).  What  *)
(* the store holds in memory is always promised, and what it is about to   *)
(* rename is what it holds (Staged): the file changes only to something    *)
(* promised.                                                               *)

Timer == [n : Nat, id : Int, due : Int, period : Delays, repeat : BOOLEAN]

Types ==
    /\ pc \in {"guest", "write", "rename", "idle", "pump", "ended", "off"}
    /\ back \in {"idle", "pump", "ended"}
    /\ clock \in Nat /\ now \in Nat
    /\ nextId \in Int
    /\ armed \in SUBSET Timer
    /\ fired \in [once : SUBSET Nat, again : SUBSET Nat]
    /\ count \in Nat
    /\ entries \in Map /\ file \in Map /\ tmp \in Map
    /\ promised \in [Key -> SUBSET (Value \cup {Absent})]

\* Timers of a life are numbered as they are armed, and only those that were armed fire.
Numbered ==
    /\ \A t \in armed : t.n <= count
    /\ \A t, u \in armed : t.n = u.n => t = u
    /\ \A n \in fired.once \cup fired.again : n <= count

\* A timer that fired in this pump was re-armed from `now`, and fires again in it only if
\* the sum wrapped.
Paced ==
    \A t \in armed :
        /\ t.n \in fired.once => t.due = Wrapped(now + t.period)
        /\ t.n \in fired.again => now + t.period > MaxInt

\* What the store holds is promised, and what it writes and renames is what it holds.
Staged ==
    /\ \A k \in Key : entries[k] \in promised[k]
    /\ pc \in {"write", "rename"} => op.key \in Key /\ entries[op.key] = op.value
    /\ pc = "rename" => tmp = entries

Inductive == Types /\ Numbered /\ Paced /\ Staged /\ AckedIsOnDisk

USE DEF timerVars, storeVars

-----------------------------------------------------------------------------
(* Steps.                                                                  *)

\* Nothing was armed, fired or promised before the first boot.
LEMMA InitInductive == Init => Inductive
PROOF
  <1> SUFFICES ASSUME Init PROVE Inductive
    OBVIOUS
  <1>1. entries \in Map /\ \A k \in Key : entries[k] = Absent
    BY DEF Init, Map
  <1>2. Types
    BY <1>1, LeafAssumption DEF Init, Types, NothingFired
  <1>3. Numbered /\ Paced
    BY DEF Init, Numbered, Paced, NothingFired
  <1>4. Staged /\ AckedIsOnDisk
    BY <1>1 DEF Init, Staged, AckedIsOnDisk
  <1> QED  BY <1>2, <1>3, <1>4 DEF Inductive

\* A timer is armed under the next number, which nothing that fired has.
LEMMA SetKeeps ==
  ASSUME Inductive, NEW delay \in Delays, NEW repeat \in BOOLEAN, TimerSet(delay, repeat)
  PROVE  Inductive'
PROOF
  <1> USE DEF Inductive
  <1> DEFINE t == [n |-> count + 1, id |-> nextId, due |-> Wrapped(clock + delay),
                   period |-> delay, repeat |-> repeat]
  <1>1. /\ count' = count + 1 /\ armed' = armed \cup {t}
        /\ nextId' = (nextId + 1) % IdSpace
        /\ UNCHANGED <<pc, back, clock, now, fired, entries, puts, file, tmp, op, promised>>
    BY DEF TimerSet
  <1>2. t \in Timer
    BY LeafAssumption DEF Types, Timer, Wrapped
  <1>3. t.n = count + 1 /\ count \in Nat /\ \A u \in armed : u \in Timer
    BY DEF Types
  <1> HIDE DEF t
  <1>4. Types'
    BY <1>1, <1>2, LeafAssumption DEF Types
  <1>5. Numbered'
    BY <1>1, <1>2, <1>3 DEF Numbered, Types, Timer
  <1>6. Paced'
    <2>1. t.n \notin fired.once \cup fired.again
      BY <1>3 DEF Numbered, Types
    <2> QED  BY <1>1, <2>1 DEF Paced
  <1>7. Staged' /\ AckedIsOnDisk'
    BY <1>1 DEF Staged, AckedIsOnDisk
  <1> QED  BY <1>4, <1>5, <1>6, <1>7

\* Timers that are taken away leave the others as they were.
LEMMA FewerKeep ==
  ASSUME Inductive, armed' \subseteq armed,
         UNCHANGED <<now, fired, count, entries, promised, file, tmp, op>>,
         nextId' \in Int, clock' \in Nat,
         back' \in {"idle", "pump", "ended"},
         pc' \in {"guest", "idle", "pump", "ended"}
  PROVE  Inductive'
PROOF
  <1> USE DEF Inductive
  <1>1. Types'
    BY DEF Types
  <1>2. Numbered' /\ Paced'
    BY DEF Numbered, Paced
  <1>3. Staged' /\ AckedIsOnDisk'
    BY DEF Staged, AckedIsOnDisk
  <1> QED  BY <1>1, <1>2, <1>3

\* The first timer that is due fires.  It fired before in this pump only if its next time
\* did not fit.
LEMMA PumpKeeps ==
  ASSUME Inductive, PumpOne
  PROVE  Inductive'
PROOF
  <1> USE DEF Inductive
  <1>1. PICK t \in Due :
           /\ armed' = (armed \ {t}) \cup IF t.repeat THEN {Rearmed(t)} ELSE {}
           /\ fired' = IF t.n \in fired.once THEN [fired EXCEPT !.again = @ \cup {t.n}]
                                             ELSE [fired EXCEPT !.once = @ \cup {t.n}]
    BY DEF PumpOne
  <1>2. /\ pc' = "guest" /\ back' = "pump"
        /\ UNCHANGED <<clock, now, nextId, count, entries, puts, file, tmp, op, promised>>
    BY DEF PumpOne
  <1> DEFINE r == Rearmed(t)
  <1>3. t \in armed /\ t \in Timer /\ t.due <= now
    BY <1>1 DEF Due, Types
  <1>4. /\ r \in Timer /\ r.n = t.n /\ r.period = t.period
        /\ r.due = Wrapped(now + t.period)
    BY <1>3, LeafAssumption DEF Types, Timer, Rearmed, Wrapped
  <1> HIDE DEF r
  <1>5. armed' \subseteq (armed \ {t}) \cup {r} /\ t.n \in Nat /\ t.n <= count
    BY <1>1, <1>3 DEF r, Numbered, Timer
  <1>6. /\ fired' \in [once : SUBSET Nat, again : SUBSET Nat]
        /\ fired'.once = fired.once \cup {t.n}
        /\ fired'.again = IF t.n \in fired.once THEN fired.again \cup {t.n} ELSE fired.again
    BY <1>1, <1>5 DEF Types
  <1>7. Types'
    BY <1>2, <1>4, <1>5, <1>6 DEF Types
  <1>8. \A u \in armed \ {t} : u.n # t.n
    BY <1>3 DEF Numbered
  <1>9. Numbered'
    BY <1>2, <1>4, <1>5, <1>6, <1>8 DEF Numbered
  <1>10. Paced'
    <2>1. t.n \in fired.once => now + t.period > MaxInt
      <3>1. t.period \in Int /\ t.period > 0 /\ now \in Nat
        <4>1. t.period \in Delays /\ now \in Nat
          BY <1>3 DEF Types, Timer
        <4>2. MaxInt \in Nat /\ \A d \in Delays : d \in 1 .. MaxInt
          BY LeafAssumption
        <4>3. t.period \in 1 .. MaxInt
          BY <4>1, <4>2
        <4> QED  BY <4>1, <4>2, <4>3
      <3>2. t.n \in fired.once => t.due = Wrapped(now + t.period)
        BY <1>3 DEF Paced
      <3>3. now + t.period <= MaxInt => Wrapped(now + t.period) = now + t.period
        BY <3>1, LeafAssumption DEF Wrapped
      <3>4. now + t.period > now /\ MaxInt \in Int
        BY <3>1, LeafAssumption
      <3>5. t.n \in fired.once => ~(now + t.period <= MaxInt)
        BY <1>3, <3>1, <3>2, <3>3
      <3> QED  BY <3>1, <3>4, <3>5
    <2>2. t.n \in fired.again => now + t.period > MaxInt
      BY <1>3 DEF Paced
    <2>3. r.n \in fired'.again => now + r.period > MaxInt
      BY <1>4, <1>6, <2>1, <2>2
    <2>4. \A u \in armed \ {t} : /\ u.n \in fired'.once => u.n \in fired.once
                                 /\ u.n \in fired'.again => u.n \in fired.again
      BY <1>6, <1>8
    <2> QED  BY <1>2, <1>4, <1>5, <2>3, <2>4 DEF Paced
  <1>11. Staged' /\ AckedIsOnDisk'
    BY <1>2 DEF Staged, AckedIsOnDisk
  <1> QED  BY <1>7, <1>9, <1>10, <1>11

\* A mutation is promised from the moment it is asked for.
LEMMA MutationKeeps ==
  ASSUME Inductive, NEW key \in Key, NEW value \in Value \cup {Absent}, Mutates(key, value),
         UNCHANGED <<back, clock, now, nextId, armed, fired, count, file, tmp>>
  PROVE  Inductive'
PROOF
  <1> USE DEF Inductive
  <1>1. /\ entries' = [entries EXCEPT ![key] = value]
        /\ op' = [key |-> key, value |-> value]
        /\ promised' = [promised EXCEPT ![key] = @ \cup {value}]
        /\ pc' = "write"
    BY DEF Mutates
  <1>2. entries \in Map /\ promised \in [Key -> SUBSET (Value \cup {Absent})]
    BY DEF Types
  <1>3. entries' \in Map /\ promised' \in [Key -> SUBSET (Value \cup {Absent})]
    BY <1>1, <1>2 DEF Map
  <1>4. Types'
    BY <1>1, <1>3 DEF Types
  <1>5. Numbered' /\ Paced'
    BY DEF Numbered, Paced
  <1>6. /\ \A k \in Key : promised[k] \subseteq promised'[k]
        /\ entries'[key] = value /\ value \in promised'[key]
        /\ \A k \in Key : k # key => entries'[k] = entries[k]
    BY <1>1, <1>2 DEF Map
  <1>7. Staged' /\ AckedIsOnDisk'
    BY <1>1, <1>6 DEF Staged, AckedIsOnDisk
  <1> QED  BY <1>4, <1>5, <1>7

\* What a write leaves of a map is a map.
LEMMA TornCopiesAreMaps ==
  ASSUME NEW map \in Map, NEW p \in TornCopies(map)
  PROVE  p \in Map
PROOF
  BY DEF TornCopies, Map

\* The temporary is written, or the guest hears that it was not.
LEMMA WriteKeeps ==
  ASSUME Inductive, Write
  PROVE  Inductive'
PROOF
  <1> USE DEF Inductive
  <1>1. /\ UNCHANGED <<back, clock, now, nextId, armed, fired, count, file, entries, promised>>
        /\ \/ tmp' = entries /\ pc' = "rename" /\ op' = op
           \/ tmp' \in TornCopies(entries) /\ pc' = "guest"
        /\ pc = "write"
    BY DEF Write, AnswersIo
  <1>2. Types'
    BY <1>1, TornCopiesAreMaps DEF Types
  <1>3. Numbered' /\ Paced'
    BY <1>1 DEF Numbered, Paced
  <1>4. Staged' /\ AckedIsOnDisk'
    BY <1>1 DEF Staged, AckedIsOnDisk
  <1> QED  BY <1>2, <1>3, <1>4

\* What is renamed is what the store holds, which is promised key by key.
LEMMA RenameKeeps ==
  ASSUME Inductive, Rename
  PROVE  Inductive'
PROOF
  <1> USE DEF Inductive
  <1>1. /\ UNCHANGED <<back, clock, now, nextId, armed, fired, count, tmp, entries>>
        /\ pc' = "guest" /\ pc = "rename"
        /\ \/ file' = tmp /\ promised' = [promised EXCEPT ![op.key] = {op.value}]
           \/ file' = file /\ promised' = promised
    BY DEF Rename, AnswersIo
  <1>2. tmp = entries /\ op.key \in Key /\ entries[op.key] = op.value
    BY <1>1 DEF Staged
  <1>3. entries \in Map /\ promised \in [Key -> SUBSET (Value \cup {Absent})]
    BY DEF Types
  <1>4. CASE file' = tmp /\ promised' = [promised EXCEPT ![op.key] = {op.value}]
    <2>1. op.value \in Value \cup {Absent}
      BY <1>2, <1>3 DEF Map
    <2>2. promised' \in [Key -> SUBSET (Value \cup {Absent})]
      BY <1>3, <1>4, <2>1
    <2>3. Types'
      BY <1>1, <1>4, <2>2 DEF Types
    <2>4. \A k \in Key : entries[k] \in promised'[k]
      BY <1>2, <1>3, <1>4 DEF Staged
    <2>5. Numbered' /\ Paced'
      BY <1>1 DEF Numbered, Paced
    <2> QED  BY <1>1, <1>2, <1>4, <2>3, <2>4, <2>5 DEF Staged, AckedIsOnDisk
  <1>5. CASE file' = file /\ promised' = promised
    <2>1. Types'
      BY <1>1, <1>5 DEF Types
    <2>2. Numbered' /\ Paced'
      BY <1>1 DEF Numbered, Paced
    <2> QED  BY <1>1, <1>5, <2>1, <2>2 DEF Staged, AckedIsOnDisk
  <1> QED  BY <1>1, <1>4, <1>5

\* Another pump: nothing has fired in it.
LEMMA PumpBegins ==
  ASSUME Inductive, DriverPumps
  PROVE  Inductive'
PROOF
  <1> USE DEF Inductive
  <1>1. /\ pc' = "pump" /\ now' = clock /\ fired' = NothingFired
        /\ UNCHANGED <<back, clock, nextId, armed, count, entries, puts, file, tmp, op, promised>>
    BY DEF DriverPumps
  <1>2. Types'
    BY <1>1 DEF Types, NothingFired
  <1>3. Numbered' /\ Paced'
    BY <1>1 DEF Numbered, Paced, NothingFired
  <1>4. Staged' /\ AckedIsOnDisk'
    BY <1>1 DEF Staged, AckedIsOnDisk
  <1> QED  BY <1>2, <1>3, <1>4

\* The clock runs on, and nothing else moves.
LEMMA TimeKeeps ==
  ASSUME Inductive, TimePasses
  PROVE  Inductive'
PROOF
  <1> USE DEF Inductive
  <1>1. /\ clock' = clock + 1
        /\ UNCHANGED <<pc, back, now, nextId, armed, fired, count,
                       entries, puts, file, tmp, op, promised>>
    BY DEF TimePasses
  <1>2. Types'
    BY <1>1 DEF Types
  <1>3. Numbered' /\ Paced' /\ Staged' /\ AckedIsOnDisk'
    BY <1>1 DEF Numbered, Paced, Staged, AckedIsOnDisk
  <1> QED  BY <1>2, <1>3

\* A kill spoils the temporary and nothing else.
LEMMA KillKeeps ==
  ASSUME Inductive, Killed
  PROVE  Inductive'
PROOF
  <1> USE DEF Inductive
  <1>1. /\ pc' = "off" /\ tmp' \in TornCopies(entries) \cup {tmp}
        /\ UNCHANGED <<back, clock, now, nextId, armed, fired, count, entries, file, op, promised>>
    BY DEF Killed
  <1>2. Types'
    BY <1>1, TornCopiesAreMaps DEF Types
  <1>3. Numbered' /\ Paced' /\ Staged' /\ AckedIsOnDisk'
    BY <1>1 DEF Numbered, Paced, Staged, AckedIsOnDisk
  <1> QED  BY <1>2, <1>3

\* A boot holds, and promises, what the file has.
LEMMA BootKeeps ==
  ASSUME Inductive, Boots
  PROVE  Inductive'
PROOF
  <1> USE DEF Inductive
  <1>1. /\ pc' = "guest" /\ back' = "idle" /\ clock' = 0 /\ now' = 0
        /\ nextId' = 0 /\ armed' = {} /\ fired' = NothingFired /\ count' = 0
        /\ entries' = file /\ promised' = [k \in Key |-> {file[k]}]
        /\ UNCHANGED <<file, tmp>>
    BY DEF Boots
  <1>2. file \in Map
    BY DEF Types
  <1>3. promised' \in [Key -> SUBSET (Value \cup {Absent})]
    BY <1>1, <1>2 DEF Map
  <1>4. Types'
    BY <1>1, <1>3 DEF Types, NothingFired
  <1>5. Numbered' /\ Paced'
    BY <1>1 DEF Numbered, Paced, NothingFired
  <1>6. Staged' /\ AckedIsOnDisk'
    BY <1>1 DEF Staged, AckedIsOnDisk
  <1> QED  BY <1>4, <1>5, <1>6

-----------------------------------------------------------------------------
(* The theorems.                                                           *)

\* The inductive invariant of a leaf's instance: the numbering of its timers, the pace of
\* those that fired, and what the store may rename.
THEOREM LeafInvariance == Spec => []Inductive
PROOF
  <1>1. Inductive /\ [Next]_vars => Inductive'
    <2> SUFFICES ASSUME Inductive, [Next]_vars PROVE Inductive'
      OBVIOUS
    <2>1. CASE UNCHANGED vars
      BY <2>1 DEF vars, Inductive, Types, Numbered, Paced, Staged, AckedIsOnDisk
    <2>2. ASSUME NEW delay \in Delays, NEW repeat \in BOOLEAN, TimerSet(delay, repeat)
          PROVE  Inductive'
      BY <2>2, SetKeeps
    <2>3. ASSUME NEW id \in 0 .. IdSpace - 1, TimerCancel(id) PROVE Inductive'
      BY <2>3, FewerKeep DEF TimerCancel, HostCall, Inductive, Types
    <2>4. ASSUME NEW key \in Key, NEW value \in Value, Put(key, value) PROVE Inductive'
      BY <2>4, MutationKeeps DEF Put
    <2>5. ASSUME NEW key \in Key, Del(key) PROVE Inductive'
      BY <2>5, MutationKeeps DEF Del
    <2>6. CASE PumpOne
      BY <2>6, PumpKeeps
    <2>7. CASE PumpDone
      BY <2>7, FewerKeep DEF PumpDone, Inductive, Types
    <2>8. CASE Write
      BY <2>8, WriteKeeps
    <2>9. CASE Rename
      BY <2>9, RenameKeeps
    <2>10. CASE GuestReturns
      BY <2>10, FewerKeep DEF GuestReturns, Inductive, Types
    <2>11. CASE GuestDies
      BY <2>11, FewerKeep DEF GuestDies, Inductive, Types
    <2>12. CASE DriverCalls
      BY <2>12, FewerKeep DEF DriverCalls, Inductive, Types
    <2>13. CASE DriverPumps
      BY <2>13, PumpBegins
    <2>14. CASE TimePasses
      BY <2>14, TimeKeeps
    <2>15. CASE Killed
      BY <2>15, KillKeeps
    <2>16. CASE Boots
      BY <2>16, BootKeeps
    <2>17. CASE Rest
      BY <2>1, <2>17 DEF Rest
    <2> QED  BY <2>1, <2>2, <2>3, <2>4, <2>5, <2>6, <2>7, <2>8, <2>9, <2>10, <2>11, <2>12,
                <2>13, <2>14, <2>15, <2>16, <2>17 DEF Next, GuestCalls, Runs
  <1> QED  BY <1>1, InitInductive, PTL DEF Spec

\* "No catch-up burst" (timer.rs:113): however late a pump is, a timer fires in it once,
\* unless its next time does not fit an i64.
THEOREM OncePerPumpHolds == Spec => []OncePerPump
PROOF
  <1>1. Inductive => OncePerPump
    BY DEF Inductive, Paced, OncePerPump, Overflows
  <1> QED  BY <1>1, LeafInvariance, PTL

\* "A write that returns `Ok` is on disk before the guest's call returns" (state.rs:8), for
\* any keys and values, through failed writes, failed renames and kills.
THEOREM AckedIsOnDiskHolds == Spec => []AckedIsOnDisk
PROOF
  <1>1. Inductive => AckedIsOnDisk
    BY DEF Inductive
  <1> QED  BY <1>1, LeafInvariance, PTL

\* A pump is called with a time that has come: `PumpBegins` reads the clock.
NowHasCome == now <= clock

\* The clock of a life only goes forward.
LEMMA NowHasComeHolds == Spec => []NowHasCome
PROOF
  <1>1. Init => NowHasCome
    BY DEF Init, NowHasCome
  <1>2. Inductive /\ NowHasCome /\ [Next]_vars => NowHasCome'
    <2> SUFFICES ASSUME Inductive, NowHasCome, [Next]_vars PROVE NowHasCome'
      OBVIOUS
    <2>1. now \in Nat /\ clock \in Nat
      BY DEF Inductive, Types
    <2>2. \/ now' = now /\ clock' = clock
          \/ now' = clock /\ clock' = clock
          \/ now' = now /\ clock' = clock + 1
          \/ now' = 0 /\ clock' = 0
      BY DEF Next, vars, GuestCalls, HostCall, TimerSet, TimerCancel, Put, Del, Mutates, Runs, PumpOne,
             PumpDone, Write, Rename, GuestReturns, GuestDies, DriverCalls, DriverPumps, TimePasses,
             Killed, Boots, Rest
    <2> QED  BY <2>1, <2>2 DEF NowHasCome
  <1> QED  BY <1>1, <1>2, LeafInvariance, PTL DEF Spec

\* Delays are positive numbers.
LEMMA DelaysAreNumbers == \A delay \in Delays : delay \in Int /\ delay > 0
PROOF
  <1>1. MaxInt \in Nat /\ \A delay \in Delays : delay \in 1 .. MaxInt
    BY LeafAssumption
  <1> QED  BY <1>1

\* What is due a whole period after a time that fits is not due at it.
LEMMA NotYetDue ==
  ASSUME NEW from \in Nat, NEW period \in Delays, now \in Nat, now <= from, from + period <= MaxInt
  PROVE  ~(Wrapped(from + period) <= now)
PROOF
  <1>1. period \in Int /\ period > 0 /\ MaxInt \in Int
    BY DelaysAreNumbers, LeafAssumption
  <1>2. Wrapped(from + period) = from + period
    BY <1>1 DEF Wrapped
  <1> QED  BY <1>1, <1>2

\* What a step does to the timers that are due.
Shrinks ==
  now' = now => /\ \A t \in Due' : t \notin Due => Overflows(t)
                /\ PumpOne => \E t \in Due : Due' = Due \ {t} \/ (t.repeat /\ Overflows(t))

\* Why a pump ends (leaf/src/timer.rs:256, `pump`, is a loop until nothing is due), for any
\* number of timers and of calls: while its time stands, whatever the guest arms in a
\* callback is not due before the next pump, and each turn takes a timer off those that
\* are.  The exception is a timer whose next time does not fit an i64.
THEOREM PumpsShrink == Spec => [][Shrinks]_vars
PROOF
  <1>1. ASSUME Inductive, NowHasCome, [Next]_vars, now' = now
        PROVE  \A t \in Due' : t \notin Due => Overflows(t)
    <2> SUFFICES ASSUME NEW t \in Due', t \notin Due, ~Overflows(t) PROVE FALSE
      OBVIOUS
    <2>1. /\ t \in armed' /\ t \notin armed /\ t.due <= now
          /\ now \in Nat /\ clock \in Nat /\ armed \in SUBSET Timer /\ MaxInt \in Nat
      BY <1>1, LeafAssumption DEF Due, Inductive, Types
    <2>2. CASE \E delay \in Delays, repeat \in BOOLEAN : TimerSet(delay, repeat)
      <3>1. t.due = Wrapped(clock + t.period) /\ t.period \in Delays
        BY <2>1, <2>2 DEF TimerSet
      <3>2. t.period \in Int
        BY <3>1, DelaysAreNumbers
      <3>3. clock + t.period <= MaxInt
        BY <2>1, <3>2 DEF Overflows
      <3> QED  BY <1>1, <2>1, <3>1, <3>3, NotYetDue DEF NowHasCome
    <2>3. CASE PumpOne
      <3>1. PICK u \in armed : t = Rearmed(u)
        BY <2>1, <2>3 DEF PumpOne, Due
      <3>2. t.due = Wrapped(now + t.period) /\ t.period \in Delays
        BY <2>1, <3>1 DEF Rearmed, Timer
      <3>3. t.period \in Int
        BY <3>2, DelaysAreNumbers
      <3>4. now + t.period <= MaxInt
        BY <2>1, <3>3 DEF Overflows
      <3> QED  BY <2>1, <3>2, <3>4, NotYetDue
    <2>4. armed' \subseteq armed \/ PumpOne \/ \E delay \in Delays, repeat \in BOOLEAN : TimerSet(delay, repeat)
      BY <1>1 DEF Next, vars, GuestCalls, HostCall, TimerCancel, Put, Del, Mutates, Runs, PumpDone, Write,
             Rename, GuestReturns, GuestDies, DriverCalls, DriverPumps, TimePasses, Killed, Boots, Rest
    <2> QED  BY <2>1, <2>2, <2>3, <2>4
  <1>2. ASSUME Inductive, PumpOne
        PROVE  \E t \in Due : Due' = Due \ {t} \/ (t.repeat /\ Overflows(t))
    <2>1. PICK t \in Due : armed' = (armed \ {t}) \cup IF t.repeat THEN {Rearmed(t)} ELSE {}
      BY <1>2 DEF PumpOne
    <2>2. /\ now' = now /\ t \in Timer /\ t.due <= now
          /\ now \in Nat /\ clock \in Nat /\ MaxInt \in Nat
      BY <1>2, <2>1, LeafAssumption DEF PumpOne, Due, Inductive, Types
    <2>3. CASE ~t.repeat
      BY <2>1, <2>2, <2>3 DEF Due
    <2>4. CASE t.repeat /\ ~Overflows(t)
      <3>1. t.period \in Delays /\ Rearmed(t).due = Wrapped(now + t.period)
        BY <2>2 DEF Timer, Rearmed
      <3>2. t.period \in Int
        BY <3>1, DelaysAreNumbers
      <3>3. now + t.period <= MaxInt
        BY <2>2, <2>4, <3>2 DEF Overflows
      <3>4. ~(Rearmed(t).due <= now)
        BY <2>2, <3>1, <3>3, NotYetDue
      <3> QED  BY <2>1, <2>2, <2>4, <3>4 DEF Due
    <2>5. t.repeat \in BOOLEAN
      BY <2>2 DEF Timer
    <2> QED  BY <2>1, <2>3, <2>4, <2>5
  <1>3. Inductive /\ NowHasCome /\ [Next]_vars => Shrinks
    BY <1>1, <1>2 DEF Shrinks
  <1> QED  BY <1>3, LeafInvariance, NowHasComeHolds, PTL DEF Spec
===============================================================================
