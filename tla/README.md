# Verification of nerw-rpc

TLA+ specifications of nerw-rpc, an RPC framework over QUIC (iroh, quinn) on top
of nerw-core: unary calls, bidirectional streaming calls, datagrams, the server
that accepts them, and the types of a relay protocol. TLC checks the specifications
on small instances; TLAPS proves the safety properties of six of the eight for every
value of their constants. Paths such as `client.rs` are those of the crate, `src/src/client.rs`
here.

## 1. The system

| Component | State | Operations | Talks to |
|---|---|---|---|
| Streaming call (`client.rs`, `server.rs`, `streaming.rs`) | two channels of 16 places at each end, the two directions of a substream, four tasks (request and response pump of the client, substream task and request pump of the server) and the handler's task | `call_streaming`, `pump_outbound_requests`, `pump_inbound_responses`, `streaming_negotiate_open`, `pump_inbound_requests`, `drain_handler_responses`, `finalise_streaming` | application and handler over channels, peer over the substream |
| Frame codec (`streaming.rs`, `wire.rs`) | the frame being read | `write_*`, `read_streaming_frame`, `read_varint_u64`, `read_length_prefixed`, `classify_eof_or_error` | QUIC streams |
| Server (`server.rs`) | the accept loop's handle, the ALPN table, two semaphores, the id counter | `serve`, `register_alpn_handler`, `Drop`, `run_accept_loop`, `WireDispatchHandler::handle`, `run_connection_loop` | the endpoint; one task for each connection and each substream |
| Unary call (`client.rs`, `server.rs`, `wire_error.rs`) | the connection cache of nerw-core, shared by all calls | `call`, `call_inner`, eviction; `handle_inbound_substream`, `dispatch_unary`, `write_response`, `write_error` | cache, substream, handler |
| Datagrams (`datagram.rs`) | table of handlers by stream-id, in-flight semaphore | `register`, `unregister`, `subscribe_connection`, `dispatch` | connections, handlers |
| Method names and registry (`method.rs`, `wire.rs`) | handlers by canonical name | `parse`, `to_canonical`, `register`, `register_streaming`, `lookup`, `lookup_streaming`, `encode_method_name`, `decode_method_name` | client, server |
| Transit types (`transit.rs`) | none here; signatures outlive their makers | `Voucher::sign`, `verify`, `is_expired`, `encode_frame`, `decode_frame` | a relay that is still to be written |
| Context, schema, payload codec | none | records and wrappers | the above |

What makes it hard: four tasks and two applications share a streaming call, and
any of them can stop at any time - a caller that drops its stream, a handler that
panics, a pump that is aborted in the middle of a frame, a connection that is gone
for one side and not yet for the other. Permits are held across all this. Calls
share a cache whose entry can be stale, and evict it after another await. Handlers
call other nodes while they hold a permit of their own, and those can crash.
`PROJECT.json` lists these hazards with their lines and the properties that would
catch them.

## 2. Modules

| Module | Models | Checked by | Proved in |
|---|---|---|---|
| `StreamingCall` | one streaming call, both ends | `streaming_safety`, `streaming_liveness`, `streaming_cancel` | `StreamingProofs` |
| `StreamPipe` | what a direction of it promises | as the abstract side of `RequestsAreAPipe`, `ResponsesAreAPipe` | `StreamingProofs` |
| `RpcServer` | servers on one endpoint | `server` | `ServerProofs` |
| `UnaryCall` | calls that share the cached connection, errors across the wire | `unary_safety`, `unary_liveness`, `streaming_not_evicted` | `UnaryProofs` |
| `NestedCalls` | servers and clients of several nodes whose handlers call each other | `nested_calls` | `NestedProofs` |
| `DatagramDispatcher` | the dispatcher and its read loops | `datagram` | `DatagramProofs` |
| `MethodRegistry` | names, the registry, and a name's way to its handler | `registry` | `CodecProofs` |
| `Leb128` | the variable-length integers of `MethodRegistry` and `FrameCodec` (external) | with them | `CodecProofs` |
| `FrameCodec` | frames as bytes | `frame_codec` | `CodecProofs` |
| `Transit` | vouchers and frames of the relay protocol | `transit` | `TransitProofs` |

`MCStreamingCall`, `MCRpcServer`, `MCNestedCalls`, `MCDatagram` and
`MCMethodRegistry` give the structured constants of these runs; the first also holds the refinement mappings.
Definitions have the names of the functions they model; where a function has
several awaits or several ways to return, each is an action, with the function's
name and a suffix (`pump_inbound_responses_forward`, `_gone`, `_end`, `_lost`).
A definition whose comment starts with "Mutant" is a wrong variant of the one
below it, used to show that a property can fail; no specification uses it.

### StreamingCall

`cReq` and `cResp` are the client's channels, `hReq` and `hResp` the server's,
`c2s` and `s2c` the frames on the wire, between a writer and a reader that each
act on one frame at a time. Requests and responses are numbered, so that a lost,
repeated or reordered item shows; `got` and `hGot` are what caller and handler
have received, `nReq` and `nResp` what their senders have accepted. A kind of item
is data the reader accepts (`chunk`), data above the reader's limit (`big`), an
error (`err`), a non-terminal error (`nerr`), or a frame that does not belong in
this direction (`odd`). `lost` is the set of sides for
which the connection is gone: a write on the other side still succeeds, and is
lost. `c2sStop` and `s2cStop` are STOP_SENDING, which is sent when a receive half
is dropped and seen later. `srv` follows `handle_streaming_substream`: `await`
(open-request), `drain`, `join` and `joinT` (waiting for the handler, with no
terminal frame written and with one), `done`.

The applications are as free as the API lets them be: they send, receive, drop
either end and return, panic or cancel at any step.

Abstractions: channels have `ChanCap` places and the wire `WireCap` frames instead
of 16 and QUIC's window; the writer of a frame is one step, and a frame that an
abort tears is the frame `torn` (that the reader can treat it so is what
`FrameCodec` checks); the text of errors is left out.

### StreamPipe and the refinement

`StreamPipe` is a queue that may be cut. A cut is final and loses a suffix of what
is queued, and may leave one error in its place. `MCStreamingCall` maps each
direction's three buffers to the queue: items on the wire count while a reader
can still reach them, items in the sender's channel while the direction is open.
The items on a wire are those at the places behind the open-request or the answer
to it, up to the end frame or FIN (`Items`).
`RequestsAreAPipe` and `ResponsesAreAPipe` say that every step of either end,
abort, stop and loss included, is a step of the pipe or none.

### RpcServer

`server`, `loop`, `table`, `counter` are fields of an `RpcServer` and of the
handler that `serve` installs; the two semaphores are a number of free permits and
a FIFO queue each, as tokio's are. `conn` is the progress of a connection's task:
accepted by the loop (`accepting`), without a handler (`refused`), with a custom
one, waiting for a connection permit (`queued`), in `run_connection_loop`
(`looping`), `over`. A substream is `opened` by the peer, `waiting` for a permit,
or `running`; however its task ends, the permit is a guard that falls with it, so all
exits are one action, `stream_task_ends`. `Drop` aborts the loop, which is `aborting` as long as a poll that is
already running can still accept something. Connection tasks outlive their server,
as in the code.

A name in `Streams` is a place for one substream at a time and is used again.

### UnaryCall

Calls of one client to one peer. `cache` and `link` belong to nerw-core and QUIC
and are external: `open_bi` on a connection that is silently cut succeeds, and the
idle timeout makes it fail later. `sub` is how much of the request the server can
read, `reply` how much of the response the client can; a write is two steps, so
that a connection can fail or a call be cancelled inside it. `torn` is a request
whose writer was dropped: the stream is finished, and the server cannot tell. A request
in `Oversize` is refused when it is whole; torn, it may have stopped below the limit or
above it, so the server may dispatch or refuse it (`RequestRead`).
Errors are the variants of `RpcError` and `WireError`, and `from_rpc_error` and
`into_rpc_error` what they are in `wire_error.rs`; a handler may return any of
them, as it does when a call of its own fails.

### NestedCalls

The composition of the two sides that `RpcServer` and `UnaryCall` have one by one:
the task of a substream holds a permit of its node until its handler has returned,
and the handler waits, in a read without a timeout, for a task of another node that
needs a permit there. `task` is a call's task where it is served, `call` the future
where it is made; `Parent` says whose handler makes it. A caller that gives up, or
panics, does not tell the task: it stays queued or runs on, as in the code, where
nothing looks at the receiving end before the answer is written. A node that
crashes loses its tasks and its semaphore, and serves again with a new one.

`NestedAssumption` demands an order of the nodes that nested calls follow
downwards. The code has none; it is what an application must have. Without it TLC
finds the circular wait at once: the only permit of node a is held by a handler
whose call waits at b behind a handler whose call waits at a.

### DatagramDispatcher, MethodRegistry, FrameCodec and Leb128, Transit

`DatagramDispatcher`: `handlers` is the table, `frame` the progress of a datagram
through buffer, task, permit queue, dispatch and handler. A frame's prefix is a
stream-id, or one of the ways in which it does not decode. A session that meets a
collision may try again. The wait for a permit and the lookup are steps of their own;
the clone out of the table and the call of the handler, between which there is no await,
are one.

`MethodRegistry`: names are sequences of characters in the order of ASCII, because
the code finds, matches and compares keys as text: `parse` splits them,
`lookup_entry` takes the largest key with the right beginning and end. The bytes of
a unary request are built and decoded as in `wire.rs` and `server.rs`, and
`handle_inbound_substream` says which handler gets what of a request that ends
after any byte. `build_unary_request_frame` writes the unary opcode only, so the
streaming branch of `handle_inbound_substream` is `StreamingCall`'s. Its specification
is `RegistrySpec`, its type invariant `RegistryTypeOK`, so that `CodecProofs` can
extend both modules that rest on `Leb128`.

`FrameCodec`: a writer appends frames to a byte stream and may stop inside one
(abort) or lose a suffix of all (connection loss); the reader is
`read_streaming_frame`, one read for a step. The bytes of a body are an opcode, so
that a reader that loses its place takes them for frames. `Leb128` is what the crate
of that name writes and, for method names, reads; the reader of streams is the
code's own `read_varint_u64`, so it is in `FrameCodec`.

`Transit`: Ed25519 is ideal: a signature is its place in the list of all that were
made, with the key and the bytes it was made for, so that it verifies for these and
for nothing else. The bytes are those of `compose_signing_bytes`. `SignElsewhere`
is another protocol that signs the same data with the same key but no tag. A frame
is the sequence of numbers that postcard writes for it, and `take_from_bytes` finds
the frame with which a slice begins.

## 3. Runs

All runs have `CHECK_DEADLOCK FALSE`: calls and connections are finitely many in an
instance, and the system rests when all are over.

| Run | Instance | Distinct states |
|---|---|---|
| `streaming_safety` | 2 requests, 2 responses, channels and wire of 1, errors in responses, either side may lose the connection | 1.3 M |
| `streaming_liveness` | 1 and 1, with non-terminal errors in the requests and chunks above the limit in the responses | 300 k |
| `streaming_cancel` | 3 and 3, no loss | 179 k |
| `server` | 1 server, 3 connections (one of another ALPN), 2 substreams on different connections, 1 permit of each kind | 57 k |
| `unary_safety` | 2 unary calls (one above the limit), 1 streaming call, 2 dials | 1.7 M |
| `unary_liveness` | 2 unary calls, 1 dial, every kind of outcome | 20 k |
| `nested_calls` | 3 nodes with 1 permit each, a chain of 3 calls and 2 calls beside it, 2 crashes | 69 k |
| `datagram` | 2 sessions for 1 stream-id, 2 connections, 3 frames, 1 permit | 84 k |
| `registry` | 5 names to register and 4 that may not be, both kinds; all names of 2 packages, 2 methods and 3 versions asked for | 486 |
| `frame_codec` | 3 frames of lengths 0, 1, 6, 17, 18 with limit 17 | 124 k |
| `transit` | 2 relays, 2 expiries of two bytes, 2 signatures, every kind of frame | 70 k |

Why the bounds are enough. With places for one item in each buffer, two items
already fill a direction with a third one step from it, so that every combination
of full, empty and blocked occurs; the proofs remove the bound. One permit makes every second task wait; a substream that has ended can
be opened again, so that the order in the queue matters. Several servers on one
endpoint are left to the proofs, which have any number of them. In `nested_calls`
at each lower node a call of the chain competes with one from outside, and with two
crashes a node goes down while another is not yet over its own. Two dials are an evicted connection and its successor.
In the codec 2-bit groups and 5-bit lengths give lengths of one, two and three
groups, with a last group that is not whole, as the tenth group of 64 bits is not;
the lengths are those around each boundary. Frames come in threes so that there is
one before and one behind a bad one. The names of `registry` include a package and
a method that begin and end like another, the requests are cut after every byte,
and a name has lengths of one and two LEB128 bytes and one above the limit. In
`transit` an expiry has a high and a low byte.

What they show.

- `streaming_safety`: the handler gets the requests, and the caller the responses,
  in order and without a gap; an error is the last thing the caller gets; a
  response stream that ends without an error is complete and its handler returned
  `Ok`; a request stream that ends without an error is complete unless nobody
  waits for the answer any more; both directions are pipes.
- `streaming_liveness`: the server's task ends after the handler, the caller sees
  the end, the handler sees the end of the requests. `streaming_cancel`: an end
  that is dropped stops the other, and requests reach a handler that reads while
  the responses are stuck, and the other way round.
- `server`: permits are conserved, ids are unique for a server, no connection for
  the wire protocol is refused, substreams are accepted while all permits are
  taken, and connections and substreams that wait get their turn if those before
  them end.
- `nested_calls`: with ordered nodes no call waits for ever, although handlers hold
  permits while they wait, and every node gets all its permits back; neither
  orphaned tasks nor panics nor crashes in between change that.
- `unary_safety`: `Ok` means the whole answer to the whole request; a connection
  that failed a unary call is not used again; a transport error that a caller sees
  is one of its own connection. `unary_liveness`: calls return.
- `datagram`: permits are conserved, a registered session is the one found, one
  that is unregistered gets no new frames, and frames settle.
- `registry`: an unpinned lookup finds the latest version, if components have one
  digit; a request that was cut off runs the method it names, or none.
  `frame_codec`: frames are read as written or not at all.
- `transit`: what passes `verify` and `is_expired` was issued by this relay, for
  this peer and this moment; `decode_frame` takes one whole frame and nothing else.

### Fairness

Weak fairness of the framework's own steps: tokio polls a task that can run.
STOP_SENDING is delivered while the connection lives, and a connection that is
gone for one side times out for the other (QUIC's idle timeout). For the
applications:

- `StreamingCall!FairSpec` assumes that both keep reading, and nothing else; a
  caller that neither reads nor drops its stream really does hold the server's
  task and its permit. `PolledSpec`, for `streaming_cancel`, assumes nothing of the
  applications at all: that one of them keeps sending, or keeps reading, is a
  hypothesis of the property that needs it (`CallerKeepsSending`,
  `HandlerKeepsSending`).
- `RpcServer!FairSpec` assumes nothing of peers and handlers. `WaitersServed` has
  "every substream ends" and "every connection ends" as its hypotheses
  (`StreamsEnd`, `ConnectionsEnd`).
- `UnaryCall!FairSpec` and `DatagramDispatcher!FairSpec` assume that handlers
  return, as the docs of the traits demand; `NestedCalls!FairSpec` that a handler
  returns once its own calls have, and that a connection to a node that crashed
  times out. That a caller gives up or a handler panics is never assumed.

### Where docs and code disagree

One run expects a violation, `streaming_not_evicted`. The module doc of `client.rs`
("Stale-connection eviction (N2)") says that the client evicts a connection when a read
or a write on a stream fails, so that the next call dials instead of replaying the dead
entry; `call` does, `call_streaming` does not. `DeadEntryNotReplayed` is that rule for
all calls, and TLC finds: a streaming call dials; the peer closes; its write of the
open-request fails with `TransportWrite`; a unary call then starts from the entry that is
still in the cache, and `open_bi` fails with `TransportOpenSubstream`. Only that evicts the
entry, in nerw-core, so one call is lost that would have dialled after a failed `call`.

Others that were met while modelling, and that the models have as the code does it:

- The doc of `StreamingMethodHandler` says that dropping the response sender is
  equivalent to returning `Ok(())`; the code waits for the handler and lets its
  result decide (`server.rs:725`), so that the caller may wait for its end long after
  the drop. `CleanEndComplete` is the code's rule, not the doc's.
- `method.rs` compares versions as text (its doc says so; the repository's README
  speaks of the latest semver), and matches a key by its end, so that a method
  with a slash in it answers for shorter names.
- The comments at `server.rs:516` and `datagram.rs:410` say that waiting for the
  permit avoids unbounded tasks; the tasks that wait are themselves spawned.
- `connection_id` is unique for one `RpcServer`; a server built anew on the same
  endpoint starts again at 1.
- A transport error of a unary call evicts whatever is cached for the peer: the
  connection of another call that has been dialled since, or a good connection
  when the response was above the limit.
- A truncated varint is `TransportRead`, not `MalformedFrame` as the doc of
  `read_streaming_frame` has it; a truncated stream-id is `MalformedFrame`, not
  `DatagramTooShort`.
- `read_varint_u64`'s `checked_shl` refuses no shift that occurs, and the writers
  do not enforce the limit that the reader does.

## 4. Proofs

`StreamingProofs` (from `StreamingCall`'s assumptions on its constants: capacities
and bounds are naturals, kinds are among those of the model):

- `TypeCorrect`: `Spec => []TypeOK`.
- `ResponseInvariant`: `Spec => []RespInv`. `ResponsesInOrder` and
  `CleanEndComplete` are about what the caller has received; that they hold after
  the next `CallerReceive` depends on the channel, that on the wire, and that on
  what the server's task still holds. `RespInv` says it of each: `PhaseInv` (what
  is empty before the call is live), `WireInv` (the number of a chunk on the wire
  is its position, counted from what the client has taken; an end or error frame is
  followed by FIN only), `ServerInv` (as long as the reader can be reached, what
  the handler has sent is received, on the wire or in its channel), `CallerInv`
  (the same for the caller's channel) and `EndInv` (how the pump ended, and why).
  The last two conjuncts rest on `WireInv`, which rests on `ServerInv`; none of
  them is inductive alone. There is one lemma for each group of actions that
  treats these alike.
- `ResponsesOrdered`, `CleanEndIsComplete`: from `RespInv`.
- `RequestInvariant`: `Spec => []ReqInv`. The direction is not the mirror of
  the responses: the open-request takes the first place of the wire, so that numbers shift by
  one when it is read (`ReqBase`), and the channel's sender exists only after the ack,
  so that `AckInv` - a call that waits for its ack finds it in front of the wire, or a
  server that is gone - is needed to know that nothing was sent before. `ReqWire` says
  which frames may stand where: FIN only behind the end frame or when nobody waits
  for the answer (`Unheeded`), which is what makes an abort of the pump in the middle
  of the requests harmless. `ReqSource`, `ReqHandler` and `ReqEnd` are the counterparts of
  `ServerInv`, `CallerInv` and `EndInv`.
- `RequestsOrdered`, `RequestEndIsHonest`: from `ReqInv`.

`StreamingProofs`, second part (the refinement of `MCStreamingCall`):

- `RequestsImplementPipe`: with `ChunksOnly`, `Spec => RequestsAreAPipe`. `ChunksOnly`
  is `ReqKinds = {"chunk"}`: the sender that `call_streaming` returns takes chunks and
  nothing else, and it is how the run is configured. With a client that sends
  several error frames the direction is no such pipe, as it delivers each of them.
- `PipeInvariant`: `Spec => []PipeInv`, what is needed besides `ReqInv`: that an error is the last item in
  the channel and among what is received, and is there only when the pump has
  returned; that a torn frame is the last item of a wire whose writer is gone; that no
  chunk is numbered above `nReq`.
- `OpenState` and `CutState` say what the queue of the pipe is in a reachable state: the
  chunks from `Len(hGot) + 1` to `nReq` when it is open; when it is cut, the chunks up to
  the last one that still travels towards the handler (`Carries`), and at most one error. So
  the queue is known from its two ends, and the steps need not be compared buffer
  by buffer: `HandlerReceive` is `Get`; of the others, one that keeps the pipe open
  moves `nReq` by one or by none (`Put` or a stutter), and one that cuts it, or
  finds it cut (`StaysCut`, `CarriesLess`), can only move its end down (`Cut`).
- `ResponsesImplementPipe`: with `NoneTooBig`, `Spec => ResponsesAreAPipe`. A handler may send
  errors among its chunks, so this queue is not known from its ends, and each step is
  compared with the pipe buffer by buffer (`ResponseStep`): `ItemsAppend`
  and `ItemsRead` say what a write and a read do to the items of a wire, so that what
  a task takes from one buffer and adds to the next leaves the concatenation of the
  three as it is (`PipeWrites`, `PipeReceive`, `PipeForward`); where a task returns, or a
  connection breaks, what remains is a beginning of what was there (`Begins`,
  `CutShort`). Only the terminal frame of `finalise_streaming` puts an error behind the
  others (`CutError`), and that needs `RespClean`: until it is written, what someone
  still reads is the ack and chunks, because an error from the handler has led to
  `joinT`, where no terminal frame is written (`ResponsesClean`).
  `NoneTooBig` (no `big` in `RespKinds`) is how the run is configured: a chunk the reader
  will refuse counts as an error in the queue, and a handler that then fails would put
  a second one behind it. The caller sees the first only; the pipe, which counts
  errors when they are put, is too coarse for that.

`ServerProofs` (from `ServerAssumption`; the limits may be 0, the sets empty):

- `ServerInvariant`: `Spec => []ServerInv`, where `LifeInv` says that a loop exists
  only after its handler is installed, `ConnInv` that a connection's server has a
  loop and that ids are below the counter, `StreamInv` that a substream has a
  server, and `QueueInv` that a semaphore's queue holds the tasks that wait, each
  once. `TypeOK` needs it: the head of a queue must be a task of this server.
- `TypeCorrect`; `PermitsNeverLost` (of `PermitsConserved`, by cardinality: one holder more, one permit
  less; that the head of a queue is not a holder yet is `QueueInv`); `IdsUnique`
  (new ids are above all old ones, by `ConnInv`); `NoRefusal` (by `LifeInv`: nobody
  removes an entry from the table).

`CommonLemmas` has what several of these need: a queue that holds each of its
elements once is still one after a push or a pop, and the cardinality of a finite set
is one less without an element. `LeastElement`, that a non-empty set of naturals has
a least one, stands for induction over data: a proof supposes that something fails
and takes the least place where it does. `Iterate` does it once for functions: a
sequence of values that is built step by step exists, so that the recursive
functions of the models have the solution that unfolds them. From it come powers
and their law (`PowersExist`, `PowerLaw`), and division by each of them
(`Quotients`), which the formats below need: the provers know no power with a
variable exponent.

`UnaryProofs` (from `UnaryAssumption`):

- `UnaryInvariant`: `Spec => []UnaryInv`. `CallInv` is about one call: what caller
  (`Client`) and task (`Task`) have done at each point, and that what an outcome was
  due to stays so: for `Ok`, a task that ran on the whole request and answered
  (`Answer`); for a transport error, a closed link, or a task that has ended without
  an answer the client accepts (`Cause`). `AnswerComplete` alone is not inductive: it
  compares the result with the request as it is when the call returns, and it is
  `Task` that says that a task which ran saw what `sub` still is.
  `OthersUnchanged` reduces each step to the call that makes it, so that the number of
  calls does not matter.
- `TypeCorrect`; `AnswersAreWhole` and `TransportErrorsNotForwarded` (from `CallInv`);
  `FailedConnectionsEvicted` (inductive with the types: a number that a dial gives
  out is new).

`NestedProofs` (from `NestedAssumption`):

- `NestedInvariant`: `MadeInv` (a call has a task from the moment it is made), `QueueInv` and `PermitInv`, as in `ServerProofs`, for each node.
- `TypeCorrect`; `NestedNeverStuck`: as long as a call waits, one of the steps is
  possible that fairness demands. The argument takes the lowest node that has a task
  which waits or runs; a handler that runs there and awaits another call would have a
  task below, and if no handler runs all permits are free. It is where the order of
  the nodes is used, and the part of `NestedCallsReturn` that the prover can reach.

`DatagramProofs` (from `DatagramAssumption`):

- `DatagramInvariant`: types, `TableInv` (a handler stands under its own stream-id),
  `QueueInv` (the queue of permits has the frames that wait, each once),
  `RegisteredReachable` and `InFlightBounded`. `TypeOK` needs the last two: a
  permit given back was taken.
- `TypeCorrect`, `PermitsNeverLost`, `RegisteredIsFound`, and `UnregisteredIsSilent`
  (an action property: a step that hands a frame to a session finds it in the table).

`TransitProofs` (from `TransitAssumption`):

- `TransitInvariant`: every signature is that of a voucher which was issued, or is over
  bytes of another protocol (`MadeInv`), and a slice is a cut of one frame and what
  follows it (`SliceInv`).
- `VouchersAreIssued`: the signed bytes determine the voucher, and differ from those of
  any other protocol in the first byte (`ComposeInjective`).
- `FramesWhole`: no frame's encoding is the beginning of another's (`FrameAt`, from a
  lemma for each part of a frame: what stands at a place in the bytes can be read in
  one way only). A slice that is shorter than the frame starts with no frame, then, and a longer
  one only with the frame that was written.
- `BytesInjective`: two expiries with the same big-endian bytes are the same, in every
  base and width. Each byte is a remainder of a quotient by `Place[n]`; the quotients
  agree from the highest byte down, and the last one is the number.

`CodecProofs` (from `CodecAssumption` and `RegistryAssumption`):

- `VarintRead`: what leb128 writes, `read_varint_u64` reads back. `WriteIsGroups` gives the
  recursive `leb128_write` in closed form: byte `j` is group `j` of the quotients, with
  the continuation bit except at the end. The reader's sum after `j` bytes is then
  the number modulo `Pow2[j * GroupBits]`, so no bit is shifted out before the end.
- `CodecInvariant`: `Spec => []CodecInv`. The properties say nothing of how far the reader
  is, so they are not inductive. `CodecInv` adds the offsets at which the frames start
  (`Starts`), that the bytes at them are those of the frames as far as they have
  arrived (`Laid`), where the stream can stop (`Stops`: after the last frame or inside
  it, anywhere once the connection has failed), and at which byte of which frame the
  reader is, with what it has summed up so far (`Placed`).
- `CodecTypes`, `CodecFramesIntact`, `CodecCleanEof`, `CodecRefusals`: from `CodecInv`. With them a
  frame as one step, in `StreamingCall`, is a theorem about the bytes and no longer an
  abstraction taken on trust.
- `ParseCanonical`: `parse` undoes `to_canonical`, since letters are no separators and a
  version has no slash. `NameRead`: of the first `n` bytes of an encoded name and
  a payload, `decode_method_name` makes the name and what is left of the payload, or
  refuses. `RequestsReachTheirMethod` follows for every name, payload and limit; it does
  not depend on what is registered.
- `RegistryTypes`: from `RegistryInv`, the types and that each key validates. It assumes
  `NamesOnly`: what is registered and validates is made of the packages, versions,
  interfaces and methods the constants give (a key with, say, a slash in its method
  is no such name).
- `LatestIsFound`: `ResolvesLatest`, assuming `NamesOnly` and `SingleDigits`. The keys that begin and
  end as a name demands are those of that name (`KeyAnswers`: two words of letters that
  end at the same separator are the same word); two of them differ in three
  characters only, and so the order of the texts is that of the versions
  (`TextsAsVersions`); a last one exists because versions have ranks (`RankIs`).
  TLC evaluates both hypotheses on the names of the run `registry`. `SingleDigits` is
  needed: as text `9.0.0` is behind `10.0.0`, as `method.rs` says at line 123.

Only checked by TLC:

- all liveness properties: fairness and ENABLED are beyond the prover.

## 5. Plan

Done, in this order: `StreamingCall` with `StreamPipe` and its proofs, since it has
most of the concurrency; `RpcServer` and its proofs; `UnaryCall`;
`DatagramDispatcher`; `MethodRegistry`; `FrameCodec`; then names and prefixes at the
level of text, in `MethodRegistry`; `Transit`; the composition `NestedCalls`.

Then the proofs: both directions of `StreamingCall`, each also as a pipe, `RpcServer`, `UnaryCall`,
`DatagramDispatcher`, `NestedCalls`, `Transit`; then, with the arithmetic they need, the
formats: `FrameCodec`, names and the registry.

Next: the text of errors, as far as code depends on it, that is, the prefix by which
`call_streaming` recognises an unknown method and the one `into_rpc_error` strips.

Not covered, for the reasons that `PROJECT.json` gives with the hazards: how long a caller
waits for its end after the handler has dropped its sender; nodes that call each other in a
circle, which nothing in the code prevents; limits of 0; a frame whose handler was cloned out
of the table just before `unregister`; versions with components of several digits and methods
with a slash. A second server on one endpoint is in the theorems only.

Not modelled, and not planned: the payload codec, the context records, schema
reflection and the crate root have no state and no branching of their own;
nerw-core, iroh and quinn are outside the repository and appear as external
actions, as far as the code here uses them.
