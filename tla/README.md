# A verification development for rusnmp

rusnmp is an asynchronous SNMP library in Rust: a client for SNMP v1 and v2c
(`client.rs`), a client for SNMPv3 (`v3_client.rs`), a receiver of traps
(`trap.rs`), and below them a BER codec (`codec.rs`) and the user-based
security model (`v3.rs`). This directory holds TLA+ models of the two clients,
the trap receiver and the codec, TLC configurations that check them, and proofs
about all four that TLAPS checks for every value of the constants. `PROJECT.json`
maps each definition to the lines it models.

## The system

| component | state | operations | interacts with |
|---|---|---|---|
| `SnmpClient` (client.rs) | socket, target, community, version, timeout, `request_id` | `new` (v2c), `with_version`, `set_timeout`, `get`, `get_one`, `get_next`, `get_bulk`, `set`, `walk`; `send_and_recv`, `next_request_id` inside | codec (encode, decode), the agent over UDP |
| `SnmpV3Client` (v3_client.rs) | the same, and `credentials`, `engine` (id, boots, time), `msg_id`, `request_id`, `salt`, `auth_key`, `priv_key` | `new` (discovery, key derivation), `set_timeout`, `get`, `get_one`, `get_next`, `get_bulk`, `set`, `walk`; `send_request` inside | USM, codec, the agent over UDP |
| USM (v3.rs) | none | key derivation, MAC, encryption, encoding and decoding of v3 messages | called by the v3 client and the trap receiver |
| BER codec (codec.rs) | the buffer of a `BerEncoder`, the cursor of a `BerDecoder` | encoding and decoding of lengths, integers, OIDs, PDUs, messages | called by all |
| Types (types.rs) | none | `Oid`, `Value`, `VarBind` and their accessors | used by all |
| `TrapReceiver` (trap.rs) | a socket | `bind`, `recv` | codec, v3.rs, senders of traps |
| Errors (error.rs) | none | the kinds of `SnmpError` | returned by all |
| the agent, the path | MIB, engine clock; datagrams under way | outside the repository | |

What must hold of each, and what makes it hard:

* **SnmpClient.** Each operation is `async fn (&mut self)`: one call at a time,
  and two awaits a call, `send_to` and `timeout(recv)`. Between them the path
  may lose, repeat, delay or garble datagrams, the timer may fire while the
  answer is on its way, and the caller may drop the future. The first datagram
  in the socket is taken for the answer: `decode_response` decodes the request
  id and no caller compares it. Correct means: an `Ok` is the agent's answer to
  that call; a walk returns the subtree, in order, once; ids do not name two
  requests at a time, also across the wrap at `i32::MAX`; a call returns.
* **SnmpV3Client.** The same, and a second machine in step with the agent: the
  engine's boots and time are copied from every message, before it is verified.
  The agent restarts and its clock runs. `send_request` and `get_bulk` are two
  copies of one exchange. Correct means: every request leaves at its user's
  security level; a client whose clock is stale is turned away at most once; no
  initialization vector is used twice; the clock is not believed ahead of the
  engine's; and all of SnmpClient's.
* **USM.** Which key signs and encrypts what; which bytes a MAC covers.
* **Codec.** Lengths change their form at 128 and 256 bytes, integers lose their
  leading bytes but for the one that carries the sign, OIDs pack two components
  in a byte, and messages nest five deep. Correct means: what the encoders
  write the decoders read back, a message that is not whole is refused, and a
  decoder returns, whatever it is given.
* **TrapReceiver.** `recv(&self)` loops until a datagram decodes: two tasks may
  be in it at once, a caller may drop it at its await, what is skipped is not
  reported, and an InformRequest is never acknowledged. Correct means: traps
  come out in the order they came in, each to one caller, and none is held back
  or lost by a skipped datagram, an error or a cancelled call.

## Modules

```
Oids --- SnmpAgent ---+--- SnmpService (abstract)
                      +--- SnmpClient -------- MCSnmpClient
Requests -------------+       |
Udp ------------------+       |
                      |       |
Usm --- UsmAgent -----+--- SnmpV3Client ------ MCSnmpV3Client

TrapQueue (abstract) --- TrapReceiver -------- MCTrapReceiver

Ber --- BerDecoder --------------------------- MCBerDecoder

SnmpAgentProofs ---+--- SnmpClientProofs ----+--- SnmpServiceProofs
                   +--- SnmpV3ClientProofs --+--- SnmpV3ServiceProofs
TrapReceiverProofs
BerProofs --- BerDecoderProofs
```

* **Oids** (types.rs, and the walk's loop). An OID is a sequence of numbers. A
  value is a value or one of the three end markers; what a value holds is left
  out. `Stops` is the loop's test on one binding, `Kept` the bindings before
  the first that stops it, `WalkDone` its decision to return.
* **Requests.** `next_request_id` with its wrap (`MaxId` stands for `i32::MAX`),
  the calls, the PDU each makes, and the results. `AnswerOf` has `get_one`
  return the first binding.
* **SnmpAgent** (external). A MIB: a strictly ascending sequence of OIDs. What
  GET, GETNEXT, GETBULK and SET answer, per version: a v1 error, v2c
  exceptions, a GETBULK cut short after any row. `Subtree` is what a walk is to
  return. It is written as the instances that follow its root, as many as are
  below it, which is what the proofs count; `SubtreeSelects` in MCSnmpClient has
  TLC compare it with the instances selected by the test of the walk's loop, for
  every root over the MIB.
* **Udp** (external). Datagrams in flight, unordered; the socket's bounded
  queue; the faults `loss`, `copy`, `garble`, `early`, of which the path makes
  at most `MaxMishaps` copies and garbled answers. `strays` is a history
  variable: an upper bound on the datagrams that are not the current
  exchange's, given up on or repeated. It is 0 again once a request is sent
  with nothing under way.
* **SnmpClient.** `version` is a variable that `Init` sets and nothing changes,
  so that one run has clients of several versions. `pc` is the await a call stands in. `StartRequest` and
  `StartWalk` run up to `send_to`; `SendTo` to `recv`; `RecvUndecodable` (an
  error or a panic, `Refusals`), `RecvErrorStatus`, `RecvAnswer`, `RecvWalkStep`, `RecvWalkEnd` are what comes
  of a datagram, in the order the code looks at it; `Timeout`, `RecvFails`,
  `SendToFails` and the two cancellations are the other ways out. A request is
  a record of what the codec encodes. The field `n` of a datagram numbers the
  exchanges for the properties; no action of the client reads it but to
  report it.
* **SnmpService.** The abstract client: a call starts; it finishes with what
  the MIB answers, or fails. No datagrams. A walk may fail with what an agent
  says, `Snmp`, only in v1 and where the subtree ends the MIB (`EndsMib`). What
  a SET does to the MIB is not in it: one that timed out may have been applied
  or not, and neither the service nor the agent tells them apart.
  `SnmpClient!Implements` and
  `SnmpV3Client!Implements` map the clients to it (`busy` is `pc # "idle"`, the
  answer is the outcome); the v3 client serves a user without authentication,
  once there is a client (`Serving`).
* **Usm.** Symbolic: a key is named by the password it comes from, a MAC is the
  key with what stood in the authentication parameters when it was computed.
  This is enough to tell a MAC over the placeholder from one over another MAC,
  which is what the code's verification is about. `FindPlaceholder` is the
  search for a run of zeros; whether an earlier run exists is the constant
  `EarlyZeros`. Salts count modulo `SaltSize` (2^64), DES sees them modulo
  `DesSaltSize` (2^32).
* **UsmAgent** (external). The authoritative engine: a clock, restarts, the
  checks of RFC 3414 section 3.2 in order, and Reports.
* **SnmpV3Client.** As SnmpClient, with `New` (discovery and key derivation) as
  a call. `Heed` is the clock taken from a message; `Verified` the check of
  `send_request`, which `get_bulk` and `walk` do not make; `Readable` says
  whether the scoped PDU decrypts. `StartPanics` is the `unwrap` of a missing
  privacy key, after both counters have advanced. `IssueTo` stands for both
  copies of the exchange, in `send_request` and in `get_bulk`: that they build a
  request alike was read and not checked, and a change to one of them would not
  show here. `Garbled` (external) leaves a message its clock or zeroes it. The
  code copies any clock that decodes, before it verifies anything, so a message
  whose clock another than the engine wrote would be believed; `ClockNotAhead`
  is about clocks the engine wrote.
* **TrapReceiver.** A message is what the decoders tell apart: its version, its
  PDU's tag, whether its scoped PDU is encrypted (`sealed`) and whether
  everything read is there (`whole`); `Decodes` is `decode_trap`. `waiting` are the
  callers that stand in `recv_from`. Between `recv_from` and the next await
  nothing else of a call happens, so `TakeTrap` (take, decode, return) and
  `SkipDatagram` (take, fail to decode, loop) are one step each, and so is
  `PanicDatagram`: in a datagram that is not whole a length as wide as usize makes
  `read_raw` panic, which unwinds `recv` and takes the datagram with it. The
  socket gives a datagram to one of those that wait. `RecvFails` is the `?`, `Cancel` the
  dropped future. The senders and the path are external: `Repeat` sends an
  InformRequest, or the question that may precede one in v3, again, because
  nobody answers. `arrived` numbers what arrives, `returns` counts by message what was
  returned; both are history only.
* **TrapQueue.** The abstract receiver: a set of numbered traps, of which the
  oldest is delivered to a caller that waits. `TrapReceiver!Implements` maps to it
  (`pending` is what of the socket decodes).
* **Ber.** Operators: encoders and the contents of a TLV (`DecodeInteger`,
  `DecodeOid`, `DecodeValue`), `read_length`, `read_raw` and `read_tlv`, and the
  search for the placeholder over bytes. `U32Bytes` and `U64Bytes` stand for the
  4 and 8 bytes of the code's integers.
* **BerDecoder.** A decoder is the list of reads its function makes (`Reads`),
  run over a stack of slices: `EnterTlv` and `EnterFails` are `read_sequence` and
  `read_tlv` with a decoder made of the contents, `ReadField`, `ReadUsm` and
  `ReadFails` the reads of a field, `NextBinding` the loop over the bindings.
  `Init` encodes a message and may cut it short, change a byte or append one.
  What a read gives is compared to what was encoded, field by field.
* **MCSnmpClient, MCSnmpV3Client, MCTrapReceiver, MCBerDecoder.** The instances
  TLC checks.
* **SnmpAgentProofs, SnmpClientProofs, SnmpServiceProofs, SnmpV3ClientProofs,
  SnmpV3ServiceProofs, TrapReceiverProofs, BerProofs, BerDecoderProofs.**
  Theorems; see Proofs.

## Runs

The clients' instances have a MIB of three to five instances: one before the
walked subtree 1.2, one to three in it (in `client_loss` one of them lies below
another, so a walk passes through an inner instance), one after it. `MaxId` is 5
and ids start one below it, so the wrap of `next_request_id` comes within the
first calls; `client_loss` and `client_faults` also start at the wrap and at -6,
where `abs()` of the least integer leaves the counter. `WalkRows` (20 in the code)
is 1 or 2, so that a walk takes several exchanges. `CHECK_DEADLOCK FALSE` is there because
callers stop after `MaxCalls`, and a decoder is done when it has returned.

| run | instance | checks | shows |
|---|---|---|---|
| `client_loss` | v1 and v2c, every operation, loss | `TypeOK`, `WalkInStep`, `Implements` | the client implements the service; walks are complete and in order |
| `client_faults` | loss, one copy or garbled answer, early timeouts and cancellation | `LagBounded`, `InStep`, `OwnAnswer`, `IdsNameRequests`, `CallReturns` | how far out of step a client gets, that it answers rightly when it took its datagram in step, that an id under way names one request, and that every call returns |
| `client_late_answer` | early timeout | `GetReturnsItsOids` (violated) | finding 1 |
| `client_v1_mib_end` | v1 walk of the last subtree | `WalkReturnsSubtree` (violated) | finding 2 |
| `v3_users` | ten users, every operation, loss, one restart, two ticks | `TypeOK`, `Protected`, `TurnedAwayOnceOnly`, `UnwrapIsSafe`, `ClockAdvances`, `Implements` | security level of requests (one with an authentication protocol and no password leaves with the placeholder's zeros, which `Protected` states); resynchronisation; who can meet the panic; the service, for a user without authentication |
| `v3_stale` | a DES user and one without security, `get` and `walk`, one copy or garbled answer, early timeouts, restart, a tick | `IvsFresh`, `ClockNotAhead`, `OwnAnswer`, `CallReturns` | what stale messages can and cannot do to the clock, the vectors and the answers; every call returns, `new` and the loop of `walk` included |
| `v3_genuine` | authenticated user, no fault | `GenuinePasses` (violated) | finding 3 |
| `v3_placeholder` | `EarlyZeros` | `PlaceholderReplaced` (violated) | finding 4 |
| `v3_walk_restart` | walk, restart | `WalkReturnsSubtree` (violated) | finding 5 |
| `traps` | two callers, eight kinds of message, loss, reordering, one copy | `TypeOK`, `AtMostOnce`, `Implements`, `NoneHeldBack` | order, one caller a trap, nothing lost or held back, not by a call that panics either; a v2c InformRequest that is repeated is never returned, a v3 one in the clear as often as it is sent |
| `trap_only_notifications` | v3 traps and discovery requests | `OnlyNotifications` (violated) | finding 6 |
| `codec` | some hundred messages, each whole, with a byte more, cut short and with a byte changed | `TypeOK`, `RoundTrip`, `CutShortRefused`, `PanicsOnHugeLengthOnly`, `AccessorAgrees`, `WorkBounded`, `Ends` | decoding gives back what was encoded, and what is not whole is refused; what the encodings cannot say; the one way a decoder does not return |

**Bounds, of the clients.** `MaxCalls` calls a client, `MaxMishaps` copies and
garbled answers, `SockCapacity` datagrams in the socket, `MaxTime` ticks a boot
and `MaxBoots` restarts. One copy already shifts every later exchange; a second
call is where the shift shows. Three calls, one of them `new`, in the v3 runs.
`Window` is 1 tick, so two ticks of silence leave it (`v3_users`; `v3_stale` has
one tick a boot). `SaltSize` is 4 and
`DesSaltSize` 2 with a first salt of 2, so both wrap within a run. `Protected` and
`UnwrapIsSafe` range over the users of all three constructors and over four
users only the public fields make.

**Of the trap receiver.** Two callers, three calls, two messages of eight kinds,
each sent twice at most (`MaxTries`), one copy, a socket of two: two messages
and a repeat overrun it, two callers compete for one datagram, and a datagram
that is skipped stands before one that is not.

**Of the codec.** Integers of two bytes for those of four and of three for those
of eight: the values are those at the edges of each width, the sub-identifiers
those of 7, 8 and 16 bits, the communities and lists those that make some
enclosing length 127, 128, 255 or 256. A message is cut at, or has changed, any
one of its first 45 bytes, where all headers and the first binding lie; the new
byte is 0, 128, 131 or 255, so that a length becomes nothing, indefinite, one of
three bytes (as wide as the model's usize) or of 127. A MAC has four bytes
instead of twelve. No OID's first two components overflow 32 bits; in a debug
build that panics in `encode_oid`.

**Fairness.** `FairSpec` asks weak fairness of `Progress`: once a call is under
way the runtime polls it, `send_to` completes, a datagram in the socket is
taken or the timer fires (`timeout` bounds every `recv`). Nothing is asked of
the path, the agent, the socket's errors or the caller. `CallReturns` for a walk
rests also on the agent's MIB being finite and ascending, and on the path making
finitely many copies and garbled answers (`MaxMishaps`): the loop has no test of
its own that a response moves forward. The trap receiver's `FairSpec` asks
weak fairness of `Poll`: a task that waits in `recv_from` is woken and polled when
there is a datagram. The decoder's asks it of `Next`: a decoder is a function
without an await, which runs until it returns.

**When the fault-free claims hold.** `Implements` is checked on a path that only
loses datagrams, and with callers that give up only when nothing is under way.
With copies or early timeouts it is false (finding 1); `LagBounded`, `InStep`
and `OwnAnswer` say precisely how false.

## Findings

1. *Late answers* (client.rs:76). A `get` whose predecessor timed out returns
   the predecessor's late answer.
2. *v1 walks at the end of the MIB* (client.rs:140). The agent's `noSuchName`
   past the last instance ends the walk with `Err(Snmp)`, and what it gathered
   is dropped.
3. *Verification of genuine responses* (v3_client.rs:205). The authentication
   parameters are located by searching for zeros, which a response does not
   hold, so the MAC is computed over itself and never matches: `get`,
   `get_one`, `get_next` and `set` of an authenticated user end in
   `AuthFailed`.
4. *The first run of zeros* (v3_client.rs:416). Zeros in the engine id or user
   name are taken for the placeholder.
5. *Reports taken for Responses* (v3_client.rs:325). A Report's counter is
   returned as a binding, and ends a walk with `Ok`.
6. *Requests taken for traps* (trap.rs:189). `decode_v3_trap` does not look at
   the PDU's tag. The GET without bindings by which a v3 sender of informs asks
   for the receiver's engine is returned as a trap, each time it is repeated,
   and so is an InformRequest in the clear, of a sender that has the engine id
   already.

`AtMostOnce` states finding 6 as it is: a message comes out once and once more for
each copy the path made, but a v3 GET or InformRequest (`ReturnedAgain`) at most as
often as it was sent, and its sender goes on because nobody answers. What `RoundTrip`
and `AccessorAgrees` except are limits of the code's types and encodings, which no
line of it denies: an OID of one component encodes to nothing, one whose second
component is 40 or more, or whose first two do not fit the byte, comes back as
another, a MAC goes to the first run of zeros (finding 4), an end marker encodes
as Null, and a `Counter64` above `i64::MAX` turns negative in `as_i64`. Each is stated with an equivalence, so the
run also shows that there are no others in the instance. `PanicsOnHugeLengthOnly`
says the same of `read_raw`: a length of usize's width that passes the end of
usize when the position is added panics; nothing else does.

Because of finding 3, `OwnAnswer` and `Implements` of the v3 client speak of
what `get_bulk`, `walk` and users without authentication get.

## Proofs

Each theorem holds for every value of the constants that the named `ASSUME`s of
the modules allow: a strictly ascending MIB, ids that start in `FreshIds`, at
least one row a GETBULK, at least one datagram of socket capacity, salts and a
window that are not empty, kinds of message that are messages, messages of the
codec that are one TLV and no longer than a slice can be, an i32 narrower than an
i64 (`WidthAssumption`). `PowerAssumption` says what a power is, for the powers
of 256 and 128 that the integers need: the provers know none of `^`. A theorem
that needs more says so in its statement.

**The agent and the walk's operators** (`SnmpAgentProofs`). For every
MIB and OID: what `Kept`, `Replies` and the operators under them return
(`KeptPrefix`, `RepliesType`). And the order of a MIB: `LexLess` is total,
asymmetric and transitive (`LexTotal`, `LexAsymmetric`, `LexTransitive`); the
instances at or before an OID are the first ones (`PositionCuts`); those below a
root follow it without a gap (`BelowFollows`). So what a walk gathers is a prefix
of the subtree (`Gathered`), the agent's next rows continue it, and a row that
stops the walk comes only when the subtree is complete.

**The v1/v2c client** (`SnmpClientProofs`, `SnmpServiceProofs`), for every MIB,
version, set of calls and roots, set of faults and bound:

* `TypeCorrect`: `[]TypeOK`. `TypeOK` has a part for the client and one for the
  path, so that the proof of an action that touches one carries the other over.
* `StaysInStep` and `ReturnsOwnAnswer`: `[]InStep` and `[]OwnAnswer`. The
  inductive invariant is `TypeOK /\ InStep /\ OwnAnswer`. `InStep` is what makes
  `OwnAnswer` inductive: at the moment a datagram is taken with `strays = 0` it
  has to be an answer to the packet sent last. `Abandon` and `Copied` are the
  only steps that leave the state described by `OnTheWay` and `AtMostOne`, and
  both raise `strays`; `Send` resets it only when `Quiet`. No request id occurs
  in the argument: the ids play no part in what keeps a client in step.
* `LagIsBounded`: `[]LagBounded`, with the finiteness of the two sets in flight
  added, without which their cardinalities say nothing.
* `IdsAreNames`: `[]IdsNameRequests`. The invariant `IdsCounted` ties an id to the
  number of its exchange, up to whole cycles of `MaxId`.
* `WalksInStep`: `[]WalkInStep`. The invariant `WalkInv` says that the request
  under way asks from where the results stop (`Asked`) and that the results are
  `Gathered`.
* `ClientIsService`: `Implements`, where `Faults \subseteq {"loss"}`. Every step of
  the client is a step of `SnmpService` or leaves its state alone; `Calm` (no
  strays, nothing but responses) and `WalkInv` make the answer the right one.

**The v3 client** (`SnmpV3ClientProofs`, `SnmpV3ServiceProofs`), for every user, set
of faults, clock and restart:

* `TypeCorrect`: `[]TypeOK`.
* `PanicOnlyUnconstructed`: `[]UnwrapIsSafe`, from `KeysDerived`: from the success of
  `new` on, the keys are those of the credentials.
* `RequestsProtected`: `[](~EarlyZeros => Protected)`. With `EarlyZeros` it is false
  where a user signs: finding 4.
* `ClockNeverAhead`: `[]ClockNotAhead`, from `ClocksBehind`: no clock in a message is
  ahead of the engine's, or it is that of a garbled message, which is zero. It
  rests on `Garbled` writing no other clock.
* `TurnedAwayOnce`: `[]TurnedAwayOnceOnly`, under any faults. `Numbered` adds that an
  answer is no older than its request and that a Report about the window has the
  clock the engine had when it made it.
* `ReturnsOwnAnswer`: `[]OwnAnswer`, by `InStep` as above.
* `IvsStayFresh`: `[]IvsFresh`. `IvsCounted` ties the salt of a vector to the number
  of its request; the clock in it plays no part.
* `ClockOnlyAdvances`: `ClockAdvances`, where `Faults \subseteq {"loss"}`.
* `ClientIsService`: `Implements`, where `Faults \subseteq {"loss"}`. `ServingInv` says
  that there is no answer before `new` succeeds, that a user without
  authentication is never turned away from what it asked of the engine, and
  that a walk has `Gathered` what it has.

**The trap receiver** (`TrapReceiverProofs`), for any number of callers, kinds of
message, capacity of the socket and bound:

* `TypeCorrect`: `[]TypeOK`, in three parts, of the senders, the receiver and the
  socket.
* `ReceiverIsQueue`: `Implements`. The invariant is `TypeOK /\ Ascending`: what the
  socket holds is numbered in ascending order and no higher than `arrived`. It is
  why the first datagram that decodes is the oldest pending trap
  (`TailPending`), why an arrival is younger than all that is pending
  (`EnqueueAscending`), and why a number names one trap (`PendingNamed`). Then
  every step of the receiver is a step of `TrapQueue` or leaves its state alone
  (`QueueStep`).
* `ReturnedOnce`: `[]AtMostOnce`, of every set of kinds. `Tally` counts, of each
  message, what was returned, what the socket holds and what is on the way: they
  are together no more than its sender sent and the path copied. That is the
  bound for the messages that are `ReturnedAgain`; of the others, one that is sent
  again does not decode and is never returned, and the rest are sent once.

**The codec** (`BerProofs`, `BerDecoderProofs`), for every width of the integers,
every list of messages and wherever one is cut or changed. `BerProofs` is about the
operators of `Ber`, and knows of no state:

* `IntegerReadBack`, `Unsigned64ReadBack`, `OidReadBack`: `decode_integer`,
  `decode_unsigned64` and `decode_oid` give back what the encoders write, over the
  whole range of the types. The bytes of a number say it (`BeBytes` and `ShiftIn`
  are inverse); stripping leading bytes takes away those that repeat the sign and
  no other; a sub-identifier read seven bits at a time is complete at its first
  byte below 128, so what the OID has before it does not matter.
* `TlvReadBack`: a TLV of fewer than 2^24 bytes, which are those `encode_length` has
  a form for, is read as it was written wherever in a slice it stands.
* `ValueReadBack`: the same of every value and its tag.
* `MacInItsPlace`: the packet that `send_request` makes by searching for its
  placeholder and writing the MAC over it is the one it would have encoded with the
  MAC in hand, unless the engine id or the user name has a run of zeros as long
  as the MAC: finding 4 has no other cause. A string is `Clear` when no such run
  begins in it and it does not end in a zero; integers, other octet strings and
  the headers of TLVs are, since no length or integer has that many bytes. Two
  strings are `MacOnly` when they are alike but for the MAC and the zeros in its
  place, with a clear string before them; this survives whatever clear is put
  before, whatever is put behind, and being enclosed in a TLV.

`BerDecoderProofs`:

* `TypeCorrect`: `[]TypeOK`. There is always a decoder to read with: `Planned` says
  that what is left to read leaves at least one at every point (`Leads`), and the
  `...ArePlan` lemmas that so does each list of reads, whichever version or flags
  the message has.
* `CutShortIsRefused`: `[]CutShortRefused`. In a message cut short the outer length
  reads as it did (`CutIsNoTlv`), and every list of reads begins with it.
* `PanicsAtHugeLength`: `[]PanicsOnHugeLengthOnly`. A length of fewer bytes than
  usize's is less than a 256th of what would overflow (`DecodeUnsignedIs`), and a
  slice is shorter than half of it (`HugeLength`).
* `WorkIsBounded`: `[]WorkBounded`. `Placed` gives every slice its place in the
  message; `Counted` has two bytes behind the innermost position for each field,
  and ten fewer once the one read that may make six fields of none is done.
* `EncodedComesBack`, `AccessorOfEncoded`: `RoundTrip` and `AccessorAgrees` of every
  message that is `Encoded`. A list of reads `Consumes` some bytes when, wherever
  they stand in a slice, it takes them, adds certain fields and leaves the
  decoder behind them; this is closed under appending and under nesting in a TLV,
  so each encoder's bytes have the list that consumes them, down to the loop over
  the bindings, of any number. `Carries` is that of a whole message. The
  invariant `ReadInv` says that what is still to be read will complete the fields
  read so far to those of the message (`Running`). What the fields are is then
  `RoundTrip`'s equivalence: `OidReadAs` is the identity on just the OIDs that are
  representable.

`Encoded` spells out which messages are meant: every message a client, an agent or
a sender of notifications makes of fields of the code's types, of fewer than 2^24
bytes, which `encode_length` can say. Of the parts that are decoded but compared in
no binding, the enterprise of a v1 trap is to be representable and its agent
address of four bytes or none. An authenticated v3 message is to be `Signable`:
neither engine id nor user name has a run of zeros as long as the MAC (finding 4),
both are shorter than 128 bytes (an engine id has at most 32, a user name as
RFC 3414 has it too), and the MAC is longer than an integer's contents and shorter
than 128 bytes (the code's have 12 or 24). From that `MacPlaced` has the MAC where
its placeholder was. 255 is to be an i32, as msgMaxSize is a constant of the code.

A bound on a number read byte by byte is an induction over the bytes, and so is
what a loop over bytes, sub-identifiers or bindings gives back.
The library's induction theorems take an operator, which the provers here
cannot instantiate; `Least` is the way around: a set of naturals has a least
member, and the set of the counterexamples cannot have one.

**Model-checked only.** Liveness (`CallReturns`, `NoneHeldBack`, `Ends`), which
the prover does not reach, and `RoundTrip` of a message with a length in a form
longer than its shortest: no encoder here writes one, but the `codec` run has one.

## Not modelled

* `set_timeout` (both clients): the timer may fire at any time.
* `password_to_key`, hashes, HMAC and ciphers: keys and MACs are symbolic in the
  clients' modules, bytes of no meaning in the codec's.
* The codec inside the clients and the trap receiver: the decoders refuse there
  whatever is not what was sent, with an error or with the panic of `read_raw`
  (`Refusals`, `PanicDatagram`), and lose nothing of what is; the `codec` run is
  about the rest.
* The target's parsing and the binding of the socket in `with_version`, `new` and
  `bind`: where they fail there is no client or receiver yet.
* `rand::random::<i32>().abs()` in a debug build, which panics at the least
  integer before there is a client: `FreshIds` is a release build's.
* Parsing, ordering and display of OIDs, the accessors of `Value` other than
  `as_i64`, error texts.
* An agent that leaves the protocol: answers that do not ascend, an engine id
  that changes.
* `send_to` blocking for ever: a UDP send waits for buffer space only.
* The source address of a trap, which `recv` passes on.
* `lib.rs`: re-exports and documentation.

## Plan

1. (done) The v1/v2c client, its agent and path, the abstract service, and the
   proofs of its type invariant and of the invariants of being in step.
2. (done) The v3 client and its agent, over symbolic keys.
3. (done) The trap receiver, the abstract queue, and the proof that the one
   implements the other.
4. (done) The codec over bytes: encoders against decoders, and harmed messages.
5. (done) The proofs of every other safety property of the clients and the trap
   receiver, of both refinements of `SnmpService`, and of the decoder's
   properties but for what decoding gives back.
6. (done) What decoding gives back: integers, lengths, OIDs and values, where the
   MAC of a v3 message goes, and from them `RoundTrip` and `AccessorAgrees` of
   whole messages.
