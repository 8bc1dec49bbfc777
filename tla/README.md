# Verification of rtsp-2

TLA+ modules, TLC runs and TLAPS proofs for the crate `rtsp-2`: the connection
state machine (`protocol/connection/`), the codec under it (`protocol/codec/`),
and the messages, headers and URIs it carries. Paths below are relative to
`src/rtsp-2/src/`.

## The system

A connection is two futures and a handle, made by `Connection::with_config`:

| part | state | operations | talks to |
|---|---|---|---|
| `Connection` (`protocol/connection/mod.rs`) | receiver, sender, shutdown handler, `allow_requests` | `poll`: receiver, sender, shutdown handler, then the state | polls the parts; learns of the handler's end by a oneshot |
| `Receiver` (`receiver.rs`) | `requests_allowed`, stream, sender handle, decoding timer | `poll_receiving`, `poll_stream`, the `shutdown_*` | codec events, sender (error responses) |
| `ForwardingReceiver` (`receiver.rs`) | `buffered_requests`, `incoming_sequence_number` | `handle_request`, `poll` | bounded channel to the handler |
| `ResponseReceiver` (`receiver.rs`) | `pending_requests` | `handle_pending_request_update`, `handle_response`, `poll`, drop | update channel from handles and futures; a oneshot per request |
| `RequestHandler` (`handler.rs`), a task of its own | request in service, continue timer | `poll`, `process_request`, `send_response`, `shutdown`, drop | the service, the sender, shutdown event |
| `Sender` (`sender.rs`) | channel of messages, `buffered_message`, the sink | `poll`, `poll_write`, `try_send_message` | the transport |
| `ShutdownHandler` (`shutdown.rs`) | `ShutdownState`, timer | `poll`, `force_shutdown`, drop | oneshot from the handle, event to the handle |
| `ConnectionHandle`, `SendRequest` (`mod.rs`, `pending.rs`), any threads | sequence number under a lock; oneshot and two timers per request | `send_request`, `shutdown`, `poll`, drop | update channel, sender, shutdown |
| `Codec` and the decoders (`protocol/codec/`) | decode state and message in part, limits | `decode`, `decode_eof`, `encode` | codec events to the receiver, which keeps the decoding timer |
| the service (`server.rs`) | none in use | OPTIONS, SETUP | the handler |
| `Request`, `Response` and their builders | parts of a message | setters, `build`, `into_builder`, `into_parts`, `from_parts` | header map |
| header map, names, values, typed headers (`header/`) | entries | `typed_insert`, `typed_get`, `decode`, `encode` | |
| `uri::request::URI` and its builder | asterisk or components | setters, `map_*`, `normalize`, conversions | uriparse |

What is hard here:

* **Wakeups.** The futures are futures 0.1: a task runs only when something that
  returned `NotReady` to it notifies it. A poll that returns without having
  polled something can sleep for good.
* **Interleaving.** Connection task, handler task and the threads that hold
  handles or poll futures run concurrently and share channels, a lock and an
  atomic flag.
* **Shutdown.** It can come from the peer (end of stream, bad message, decoding
  timeout), the transport (write error), the user (graceful, immediate, dropped
  handle), the handler (done, dropped), in any order.
* **Ordering.** Requests are reordered by CSeq, which wraps after 999 999 999.
* **Chunks.** A message arrives in pieces cut anywhere; the decoders keep what
  they have, and the timer that bounds the wait is driven by events through a
  channel that encoding uses as well.
* **Long sequences of legal calls.** A URI, a builder or a message is changed
  part by part, and other functions `expect` what the parts have in common.

## Modules

`CSeq` — the sequence number: `WrappingIncrement` and `CSeqSub` as the code has
them, and `Distance`, the true number of increments. Across the wrap the code's
difference is one too small (`MAX_CSEQ - (other - self)`).

`OrderedDelivery` — the abstract promise of the request path: the first request
fixes the starting number, what is at most `Window` ahead may be held, and the
handler gets a run of consecutive numbers.

`ForwardingReceiver` — the request path in detail. One step per iteration of the
two loops in `Receiver::poll_stream` and `ForwardingReceiver::poll`; the handler
takes, responds or is dropped between any two. `streamInterest`, `parked` and
`woken` record where the waker is. Ending of the stream is not here but in
`Connection`. It implements `OrderedDelivery` with `Window = RequestBufferSize + 1`;
the one more comes from the subtraction across the wrap.

`ForwardingReceiverProofs` — the theorems about it.

`PendingRequests` — the requests of this side. One thread per request sends it
(check, add under the lock, send) and polls its future; the connection task
handles updates and responses. The chain of oneshots that Continue responses
build is one queue, `mailbox`, of which only the first entry can be received;
`interest` says that the receiver in place holds the waker.
`ResponseReceiver::drop` is three steps (drain, cancel, drop of the channel),
between which threads act. `PendingRequestsProofs` has the theorems about it.

`RequestHandler` — the handler task: service future, continue timer and channel
polled in turn, `interests` for who holds the waker. Which requests are refused
(`rtspu`, content without a type) is a free choice.

`RequestHandlerProofs` — the theorems about it.

`Connection` — a poll as a fixed sequence of parts (`conn` says which is next),
with the flags of the receiver as a record and the `shutdown_*` functions as
operators on it. Requests arrive in order and wakeups are left out (the
executor may poll at any time), since the other modules have them.
`ConnectionProofs` has the theorems about it.

`Sender` — a poll of the sender as its steps (retry, write, close) against a sink
that holds `SinkCapacity` messages and a transport that takes messages one by
one, or fails. Messages are numbered in the order of the channel; `wakers` says
who holds the task's waker.

`Syntax`, `Names`, `Headers` — bytes and the lexical checks; the tables of
methods, header names and status codes with the conversions that search them;
the header map and the typed headers Content-Length, CSeq, Session, Public and
Accept-Ranges. A text is a sequence of symbols, one for each class of bytes that
the code tells apart. `HeadersProofs` has what their operators compute for texts
of every length, which the other proofs rest on.

`Decoders` — both decoders as operators from a decoder and a buffer to a step,
one operator per `decode_*` function, and the encoders. The limits are constants.
The loop over the parts of a message (`Parts`) is a function of the number of its
turns, with a bound that it never reaches (proved: `RunStops`).

`Codec` — the stream side of the receiver around them: chunks of any size, the
choice of the decoder, the codec events, which the receiver polls one by one, the
decoding timer, the end of the stream. `reference` is what the same bytes give
when they are all there at once. `CodecProofs` has the theorems about what arrives
in chunks, and `EncodingProofs`, which builds on it, the one about what was encoded.

`Uri`, `RequestUri` — the value of a request URI with its conversions and its
normal form, and a URI and its builder under every sequence of operations. What
belongs to the crate uriparse (grammar and normal form of a part) is external.

`Messages` — a request and a response with their builders, in the same way.

`Server` — what the service answers. It keeps no state.

`ValuesProofs` — the theorems about `Sender`, `RequestUri` and `Messages`, the
modules that `MCValues` runs side by side.

The names of the actions are those of the code where it has one; PROJECT.json
maps each definition to its lines. Operators whose comment starts with "Mutant"
are wrong versions of the next definition, used to see that a property notices.

## Runs

| run | shows |
|---|---|
| `forwarding` | all sequences of up to 4 requests over {6, 7, 0, 1, 2, none} and two longer ones across the wrap, with numbers that wrap after 7 and buffer size 2: order, window, capacity, wakeups, refinement, that everything is read and that what is ready is forwarded |
| `forwarding_wedge` (violated) | a request overtaken by as many others as the buffer holds wedges the connection |
| `pending` | 2 concurrent requests, short timer, one Continue each |
| `pending_live` | 1 request, both timers, 2 Continues: it settles |
| `pending_lostwakeup`, `pending_panic` (violated) | see Findings |
| `handler` | 3 requests, 2 timer expirations: order, wakeups, shutdown event, liveness |
| `connection` | with and without a service, 2 requests, buffer 2, channel 1: consistency in every order of ends, and that both tasks end |
| `connection_panic`, `connection_lost` (violated) | see Findings |
| `codec` | 28 texts, valid, refused in each part and at the limits, and 3 sequences of encoded messages, in chunks of every size: the result depends on the bytes only (but for one case, below), what was encoded is decoded, a message in part is under a timer that starts again a bounded number of times and ends a stalled connection |
| `values` | a URI, a request and a response under every sequence of operations; the conversions on all small inputs; typed headers through map, builders and service; the sender with 4 messages and a sink of 2. These share no state: a behaviour is about one of them, its `mode` |

Bounds. Four arrivals with a buffer of two are enough to fill the buffer, to
fill the channel of three, to park the sender with a request put back, and to
cross the wrap. Two requests of this side are enough for two threads to compete
for the lock and for a number to be used again after a failed send; the
oneshots of different requests do not interact. Two requests through the
connection put one in service and one into the channel, or leave both in the
buffer, when the ends come; what a full buffer does is the subject of
`forwarding`. One future of the user stands for all: the connection
only sees whether one exists. `Numbers` in `PendingRequests` leaves room for
every request, so it does not wrap there: two requests a billion numbers apart
cannot be pending together. Four messages with a sink of two let the sink fill,
refuse one while another queues behind it, and fill again.

The limits of the decoders are a few bytes each, so that texts just below, at
and above each one are short; the code compares them and does nothing else with
them. `MaxEvents` keeps the peer from sending more while events wait; the
channel is emptied in every poll. Numbers parse up to small stand-ins for
`usize::MAX`, `u32::MAX` and `u64::MAX`, each above the bound of its header.
`MaxHeaders` bounds the headers of a builder: two are enough for one that is
repeated. `StatusBytes` are all triples of the bytes around the digits and of
the least and the greatest byte. `HeadersOf` has headers that a program can make
and `decode` refuses: session timeouts above the maximum, and empty lists.
`CHECK_DEADLOCK FALSE` is set because all of these systems may come to rest.

Fairness. Weak fairness of the connection task's and the handler task's steps:
the executor polls a notified task, and a poll runs to its end. The service
finishes what it is given (without that no handler ends, and the code assumes
it). Timers expire. `FairPeerSpec` adds that a peer goes on sending, only for
`forwarding_wedge`, where the request that is waited for has been sent. `Codec`
assumes that a poll that has started goes on, that an expired timer wakes the
task and that time passes, and nothing of the peer: it may stop anywhere.
`EveryMessageIsWritten` assumes that the executor polls a notified sender and
that the peer goes on reading (without that the transport may stay full), and
holds only while the transport has not failed. Nothing else is assumed of the
peer, the user or the transport.

## Findings

1. **Wedged reorder buffer** (`receiver.rs:519`). The window check admits numbers
   up to `request_buffer_size` ahead, but the buffer is full with
   `request_buffer_size` entries: if exactly those arrive before the expected
   request, reading stops and nothing resumes it. `>=` would be right.
2. **Lost wakeup after a Continue** (`pending.rs:113`). The new oneshot is not
   polled. The timers hide it by turning it into a timeout or a late response;
   without timers the future never ends.
3. **Panic of a future** (`pending.rs:110`): a request added while the response
   receiver is dropped loses its oneshot.
4. **Panic of the connection** (`receiver.rs:800`): a write error followed by a
   request that fails to decode.
5. **Lost responses** (`mod.rs:143`): after the end of the stream the sender is
   dropped as soon as the handler is done.

Divergences from the documentation that the models contain as the code has them,
without a run of their own:

* After a full buffer has been forwarded the stream is not polled again in that
  poll, so `NotReady` does not mean that no progress can be made
  (`receiver.rs:347`, `446`). As `SleepsOnlyAttended` shows, the handler's next
  response wakes the task: a delay and not a stall, unless the handler is gone.
* A graceful shutdown goes on to forward the requests that are ready
  (`receiver.rs:410`, `shutdown.rs:224`), an immediate one drops the buffered
  requests it should process (`mod.rs:338`, `shutdown.rs:228`).
* `RequestHandler::poll` returns `NotReady` also when it is busy
  (`handler.rs:267`).
* `handle_request` documents 453 for a number too far ahead and the answer is 403
  (`receiver.rs:177`, `508`); `process_request` documents 400 for every refusal
  and answers 501 to `rtspu` (`handler.rs:173`).
* The `debug_assert` that a request to be removed is pending (`receiver.rs:659`)
  does not hold when a response and a cancellation cross, or when a timed-out
  future is dropped. A release build is not affected: as `UniqueNumbers` says, such
  a removal never takes out a request that can still be answered.
* A header value of exactly the greatest length, which the limit allows
  (`decoder/request.rs:109`), is refused if a chunk ends between the two bytes of
  its line break (`decoder/request.rs:598`); a reason phrase one longer than its
  limit is refused only then. `ChunkIndependent` names these two cases and
  excludes no others. The builder of a configuration takes any limit; with 0 for
  header names, a message without headers is refused too when a chunk ends
  between the two bytes of the blank line. The run's limits are positive, and the
  theorem has this as its hypothesis.
* `decode_eof` promises `UnexpectedEOF` if a message is incomplete and reports a
  clean end if all its bytes so far were consumed (`codec/mod.rs:213`).
* Every chunk within the first word of a message sends `DecodingStarted` again
  (`codec/mod.rs:191`), so the timer starts again, a bounded number of times
  (`RestartsBounded`). A lone CR before a LF starts it without a message.
* Bytes next to the digits pass as digits of a status code: `1:0` is 200
  (`status.rs:436`), where the comment on `Invalid` promises an error
  (`status.rs:558`). `WireFormsExact` says of such bytes only that they neither
  overflow nor give a code without a class, and is exact for three digits.
* The comment on `StatusCode` says that 303 and 452 were removed; the code refuses
  303 and 352. The comment on `SessionID` says 8 to 128 characters; the code
  accepts 256. The documented grammar of a token has the backtick, the table in
  `syntax.rs` does not.
* A builder of a response drops a custom reason phrase for a standard code; after
  `into_builder` an extension may carry another code's phrase, and
  `status_code_mut` leaves the old one. `RebuiltIsSame` says when the phrase does
  match.
* An empty `Public` or `Accept-Ranges` is encoded to an empty value that their own
  `decode` refuses; the answer of SETUP has one.
* `Session::with_timeout`, `timeout_mut` and `try_from_session_with_timeout` take
  any `Duration` (`header/types/session.rs:26`, `88`, `114`) and `encode` writes its
  seconds (`264`), but `decode` refuses more than `MAX_SESSION_TIMEOUT` (`205`). A
  part of a second is lost: 60.5 s is written as the default.
  `TypedHeadersRoundTrip` names the headers that are not read back (`Decodable`),
  and says that they give an error, which `typed_get` hides, and never another
  header.
* `/*` is accepted as the asterisk (`uri/request.rs`).

## Proofs

`ForwardingReceiverProofs` proves, for every `MaxCSeq`, every buffer size with
`RequestBufferSize + 2 < MaxCSeq` and every set of arrivals: `TypeCorrect`,
`ForwardsInOrder`, `KeepsToBounds` (window and capacity), `WorkIsAttended`
(wakeups for ready requests and unread messages) and `Refinement`.

* `OrderInv` adds two facts to the properties. The expected number is the
  successor of the last one forwarded, where "expected" is the loop's local
  variable while the loop runs and the field otherwise (without it `InOrder` is
  not inductive); and before the first request, or without a forwarding
  receiver, the buffer is empty. That the window survives an increment of the
  expected number rests on `WindowAfterIncrement`, which needs the expected
  number itself to have left the buffer.
* `WakerInv` says where the wakers are: a parked sender has a live handler and a
  non-empty channel behind it, interest in the stream means the stream is empty,
  and a poll past reading has left its waker with the stream, or is woken, or
  has given the handler work, or has a full buffer.
* `Refinement` maps every step to `Accept`, `Deliver`, `Close` or a stutter,
  using `OrderInv` for the window.

`RequestHandlerProofs` proves, for every number of requests and of expirations,
with and without a continue timer: `TypeCorrect`, `RespondsInOrder`,
`ServiceIsNotCutShort`, `NeverSleepsThroughWork` and `LeavesNothingUnanswered`.

* `OrderInv`: the channel holds the requests that were sent and not taken,
  consecutively; what is in service is the last one taken and has had no answer
  but `Continue`; no answer is ahead of the requests taken. So whatever
  `send_response` appends belongs behind all other answers
  (`SendResponseInOrder`).
* `WakerInv`: a poll past the service is woken or has left its waker with the
  service, and a sleeping task is woken, or waits for service and timer, or
  waits for the channel. `WorkWakesTask` alone is not inductive, since it does
  not say who holds the waker.
* `AnswerInv`: the handle is kept while there is a sender to reach and the
  shutdown is signalled only after the channel was found empty and closed.

`ValuesProofs` proves, for every set of schemes, authorities, paths and
queries, `UriIsAbsoluteWithHost`: whatever the sequence of parsing, building,
setting, mapping and normalising, with mappers that panic included, a URI is the
asterisk or has an RTSP scheme, and a host and an absolute path unless a panic
was caught. `UriInv` is the inductive form: it adds the shape of the record, so
that a setter that rebuilds it keeps the other parts, and that the scheme
survives a panic, which `default_port` relies on.

About the sender it proves, for every number of messages and every capacity of the
sink, `SendsInOrder`, `NeverSleepsThroughMessages` and `EndsFlushed`.

* `SinkInv`: nothing beyond what the transport has room for was written, and the
  sender closes only with the channel ended and empty. `FinishedMeansFlushed`
  alone says nothing of a sender that is about to close.
* `WakerInv`: a sender that sleeps without having been notified is blocked, with
  its waker in the sink, or is idle, with everything out and its waker in the
  channel. `SleepsOnlyBlocked` follows, but is not inductive, since it allows an
  idle sender's waker to be anywhere.
* `TrySendKeepsInv` has the three answers of the sink once, for the retry and for
  a new message.

`ConnectionProofs` proves, for every number of requests and every size of buffer
and channel, with and without a service: `TypeCorrect`, `AcceptedIsServed`,
`EndLeavesNothing`, `ShutdownAdvances` and `ForwardedRequestsAreProcessed`.

* `PartsInv` adds to the properties what they need in the middle of a poll: only a
  receiver that is there is polled, one that was dropped has no part left, and
  whoever brings the shutdown to its last state has signalled it.
* `ProcessInv` follows a request from the channel to the peer: until the handler is
  dropped, what was forwarded is in the channel, in service or handled; while
  there is a sender the handler keeps its handle and every answer is in the outbox
  or written; and the sender comes to its end after the handler.

`PendingRequestsProofs` proves, for every finite set of requests and every number
of Continues: `TypeCorrect`, `NumbersAreUnique`, `NothingPendingAtStreamEnd`,
`NobodyIsStranded` and `ResponsesFindRequests`.

* `NumberInv`: the holder of the lock has the current number and the requests that
  were sent have the ones below, each its own. A send that fails keeps its number
  for the next, so the numbers used are as many as the requests sent.
* `MatchInv` reads the map and the update channel as one queue, with the map at
  position 0. A request is registered at one position; between two that register
  different requests under one number there is an update that removes the first
  (the case of a number used again after a failed send); a request that nobody
  waits for is removed further on, and no other is (`ReleasedBefore`: whoever else
  had the number of a request in use has ended); and who waits with a sending half
  in use is registered somewhere, in each of the three steps of
  `ResponseReceiver::drop` too.
* `ResponseInv`: while responses are read, no update that adds a request waits for
  which there is an answer, since all updates are handled after a write and before
  the next read.

`UriConversionsAgree` in `ValuesProofs` needs `UriInv`, and `PartsInv`: the parts
of a URI and of its builder are given ones or normal forms of such. The same module
proves `MessagesAreRebuilt` for all methods, URIs, codes, phrases, headers and
bodies, from the shapes that the setters keep (`RequestInv`, `ResponseInv`). Both
assume of uriparse that a normal form is its own normal form, which TLC evaluates
for the values of the runs.

`CodecProofs` proves three properties of the codec for all texts and all limits,
however the texts are cut: `HalfMessagesAreTimed`, `RestartsAreBounded` and
`ChunksDoNotMatter` (for a limit of header names of at least 1). The one
assumption about the texts, `CodecAssumption`, is that they are sequences of
bytes (`Bytes`, in the runs all strings).

* `TimerInv`: while a message is there in part, the timer runs or will, after the
  events in the channel were handled in their order (`Due`). `PartialHasTimer`
  alone says nothing of the time between the call of decode and the handling of
  its events. What the decoders make of the bytes does not matter for this, but
  that every error has a name does.
* What each `decode_*` function makes of a buffer tells what it makes of a longer
  one (`Part`): the same, or it has asked for more bytes, or it is one of the cases
  of `CutInLineBreak`. There is one lemma for each function, and `StepPart` for
  all. Every part lowers a rank, so that the loop ends (`RunStops`), and by
  induction on the rank the same holds of a whole `decode` (`DecodeChunk`).
* Line breaks in front of a message may be skipped in several goes (`StripChunk`).
  With that it holds of a call of the codec (`CodecChunk`), which chooses the
  decoder by the first five bytes.
* `RestartInv`: between messages each start was for one more byte at least, and
  the first word of a message is refused when it is as long as the bound.
* `ChunkInv`: after as many messages as have come out, the reference is where the
  codec would be with its buffer and all that is unread, and bytes that were tried
  in vain change nothing when they are tried again. That the reference ends, and
  only adds messages, are `TurnsStop` and `TurnsExtend`.

`EncodingProofs` proves `EncodedMessagesAreDecoded` (the property `EncodedIsDecoded`)
for all sequences of messages within the limits, all limits (the one of header
names at least 1) and all chunks: what is decoded is a prefix of what was sent,
and all of it, with nothing left over, once all bytes were read.
`SentAssumption` says which messages these are (`Fits`): each part is one that the
library builds, a header value is shorter than its limit by 2 (the encoder writes
a space before it, and a chunk may end inside of the line break after it) and
does not begin with a blank, and the body's length is a number the decoder takes.
The encoder checks none of this. TLC evaluates the assumption for the messages of
the run.

* For each stage of a decoder there is a lemma that on what the encoder writes for
  it, followed by anything, the stage completes with the part that was encoded
  (`MethodStage` ... `BodyStage`, `HeaderLineReads`), and that no chunk of it is
  refused (`NoCut`): with `StepPart` of `CodecProofs` this is what `Good` needs.
* The headers are received line by line (`HeaderLinesStage`), by induction over the
  lines, with the encoder's `Content-Length` in front and every other one of that
  name left out (`ReceivedHeaders`).
* `SentInv`: what has come out is what was received of the first messages, and the
  decoders with the buffer and all unread bytes stand where the encoding of the
  remaining messages begins, or inside of the next one (`Expects`). With `ChunkInv`
  it follows that an end of the bytes is the end of a message.

`HeadersProofs` proves what `WireFormsExact` and `TypedHeadersRoundTrip` check on
short texts, for all numbers and texts of every length: `NumbersAreParsed`,
`HeaderValuesAreFolded`, `TrimmingIsExact`, `StatusDigitsAreRead`,
`TypedInsertReplaces`, `InsertedHeadersAreRead` and `DecodedHeadersAreEncodable`,
the last two for Content-Length, CSeq and Session. `InsertedHeadersAreRead` is
about every header that the constructors and setters allow, a session with a
timeout above the maximum too, of which it says that it is refused.

* `FormatUnsigned`, `ParseUnsigned`, `HeaderValueTryFrom`, `TrimWhitespace`,
  `GetAll` and `Without` are recursive functions. That a recursive function has the
  values its definition says is `RecursionExists`, for a step given as a function;
  the two loops that trim, which go on by one or by two, have `SkipExists` and
  `BackExists`.
* `TrimmingIsExact`: the loops stop at no white space (`StopsFirst`, `StopsLast`) and
  run over nothing else (`PrefixIsWhite`, `SuffixIsWhite`). The second loop starts on
  what the first one left, where the white space is the same but for a line break
  that is cut through (`PieceSpace`).
* The values of a name, and the entries of the other names, are those of the parts
  of a map put together (`GetAllConcat`, `WithoutConcat`). With the map cut at the
  first entry of the name (`MapParts`) this gives `TypedInsertReplaces`.
* A session is written as its ID, or as the ID, a semicolon and the timeout with
  spaces around; splitting at the first separator and trimming give the parts back
  (`SplitAtFirst`, `TrimOneSpace`, `LongSession`), and what is decoded is one of the
  sessions again (`DecodedSession`). A default timeout comes back as none, which
  means the same. A timeout above the maximum is split off in the same way and
  then refused (`TooLongSession`).

From these `ValuesProofs` proves `RequestsKeepTypedHeader` and
`ResponsesKeepTypedHeader`: after any operations on a builder or a message, the
CSeq that was given last as a typed header is the only one it has. The invariants
`RequestTypedInv` and `ResponseTypedInv` add that a builder is empty once its
message was built, so that nothing of it comes back. Their hypothesis is that the
value that stands for "no message" is not a message.

The library's theorems for induction take a formula as a parameter, which the
provers cannot instantiate. These proofs use the well-foundedness of the natural
numbers for a set instead (`SetInduction`: a set with 0 and all successors has all
natural numbers).

The inductive invariants stand beside the properties or at the beginning of the
proofs; TLC finds them invariant on the instances of the runs.

Only model-checked: all liveness properties, since fairness is out of the prover's
reach; and of `WireFormsExact` and `TypedHeadersRoundTrip`, which no single theorem
states, these parts. The tables of names are searched by the lengths of strings,
which the provers know nothing of. The headers that are lists (Public,
Accept-Ranges) are decoded with a fold whose step is an operator, and so is what
the service announces in such a header.

## Not modelled

* The headers Transport, Accept, Date and Expires: formats of their own, which no
  modelled part reads. The sender adds a Date to each message; it is left out.
* `Server::run`: it accepts sockets and keeps every handle in a vector that never
  shrinks, so that a server's connections are never ended by their last handle.
  `ServerSession` is never constructed: there is no session table in use, no
  expiry and no touch to model.
* `client.rs`: it connects a socket and spawns a connection without a service,
  which `Connection` covers.
* `rtsp-1`, a stub; `Display`, `Error`, comparison and conversion traits of names
  and values that restate the string; getters and builders of the configuration.
* The grammar of URIs and percent encoding: the crate uriparse. Which errors it
  returns decides whether `expect("unexpected URI reference error")`
  (`uri/request.rs:957`) can panic, so the model has no such path.

## Plan

1. Done: the request path, the handler, the requests of this side, the
   connection and its shutdown, the sender; the codec with decoders and encoders;
   URIs, messages, headers and the service; the proofs above, which cover every
   safety property of the runs, the parts named there excepted.
2. The round trip of the headers that are lists, for lists of any length.
3. Refinements: `RequestHandler` implements the handler of `Connection`, `Sender`
   the sender of `Connection`.
