# A TLA+ model of swift-nio-ssl

swift-nio-ssl puts TLS into a SwiftNIO pipeline: a channel handler that drives a
BoringSSL connection through in-memory buffers. This directory models the handler, the
connection it drives, the buffers between them, the handshake of two BoringSSL endpoints
and the check of the peer's identity; it checks them with TLC on small instances, and
proves part of it with TLAPS for all instances. Paths below are relative to the repository root.

## 1. Inventory

| Component | State | Operations |
|---|---|---|
| `NIOSSLHandler` (`Sources/NIOSSL/NIOSSLHandler.swift`) | `state`, `plaintextReadBuffer`, `bufferedActions` and its mark, the promises `closePromise`, `shutdownPromise`, `closeOutputPromise`, `storedContext`, the scheduled task in the payload of `.closing`/`.unwrapping` | channel events (`handlerAdded`, `channelActive`, `channelInactive`, `channelRead`, `channelReadComplete`, `userInboundEventTriggered`, `handlerRemoved`), user operations (`write`, `flush`, `close`, `stopTLS`), the shutdown timeout, the completion of verifications |
| `SSLConnection` (`SSLConnection.swift`) | the `SSL` object, the BIO, the verification and private key managers | `doHandshake`, `doShutdown`, `readDataFromNetwork`, `writeDataToNetwork`, `consumeDataFromNetwork`, `getDataForNetwork`, `extractUnconsumedData`, `close` |
| `ByteBufferBIO` | inbound and outbound buffers, `mustClearOutboundBuffer` | `receiveFromNetwork`, `outboundCiphertext`, `evacuateInboundData`, `sslRead`, `sslWrite`, `close` |
| Custom verification, custom private keys (`SSLCallbacks.swift`, `CustomPrivateKey.swift`) | the pending result | start of the user's callback, its result, resuming the handshake |
| BoringSSL's handshake (`Sources/CNIOBoringSSL/ssl`) | the state of the state machine and what it waits for, transcript, secrets, keys of both directions, buffered messages and records | one function per state, in TLS 1.2 and 1.3, for client and server; key updates, session tickets, renegotiation |
| BoringSSL's entry points | `read_shutdown`, `write_shutdown`, sticky errors | `SSL_do_handshake`, `SSL_read`, `SSL_write`, `SSL_shutdown` |
| `IdentityVerification` | the loop over the alternative names | host name and address matching |
| Contexts, configuration, certificates, keys, platform support | immutable after creation | parsing, accessors |

**Interaction.** Everything runs on one event loop thread. The channel calls the handler
with events; the handler calls the connection, synchronously; the connection calls the
user's verification callbacks from inside `SSL_do_handshake`, and takes their result in a
later tick. The handler calls out again: it fires events to the next handler, completes
promises, writes to and closes the channel. What it writes is the outbound buffer of the
BIO itself, which the channel may hold long after the BIO goes on writing.

**What is hard.** No two threads race. But each of those call-outs runs code that may
call the handler again before the outer call returns: `flush` from a `read` callback,
`close` from a promise's callback, `stopTLS` from a user event; and `context.close` may
run `channelInactive` before it returns. A method that goes on after a call-out works with
decisions it took before. On top of this the timeout, the additional verification and the
private key answer arrive in ticks of their own, after the connection may have been
closed, unwrapped or lost.

The handshake is left in the middle of a function whenever the peer's bytes or a user's
answer are missing, and that function is entered again from its start. Messages are packed
into records, which are cut off where they are full; records are delivered in any portions;
keys change between them. Two state machines, each written in sixteen to nineteen
functions, have to come to the same conclusions.

The unit tests hardly nest calls, and run a few handshakes; the hazards are listed at their
lines in `PROJECT.json`.

**What makes it correct.** Each direction of the stream is delivered in order and once;
nothing follows our closing alert; nothing is sent before the peer is trusted; every
promise is completed; a shutdown ends, by the peer or by its timeout; no precondition of
the code can fail. A handshake ends, in success unless the configurations or the users are
against it, with the same parameters and keys on both sides and with the peers
authenticated; everything that is sent can be decrypted. The BIO is a pair of streams. A
certificate is accepted exactly if one of its names stands for the host, where the common
name counts only if there is no other to check.

## 2. Modules

| Module | Content |
|---|---|
| `SSLConnection` | a connection as a record; each entry point is a function from a connection to a result and a connection |
| `NIOSSLHandler` | the handler, with the channel, the user and the peer around it: state, one action per method or per piece of one between call-outs, fairness, properties |
| `MCNIOSSLHandler` | the peer's scripts and the symmetry for TLC |
| `NIOSSLHandlerProofs` | type correctness; then what each action does to the stack of calls, and which action can run when |
| `TrustProofs` | the handshake completes once, and no data leaves before it has; our side of the stream ends once, shutdowns have their timeout, flushed writes leave; what an unwrapping that will succeed has behind it |
| `FlowProofs` | writes leave in order, a success means that all of the write left, the peer's data arrives in order, no ciphertext stays behind, and a `stopTLS` that succeeds was clean |
| `ByteBufferBIO` | the BIO at the level of bytes and storage, with the channel that holds its buffers |
| `ByteStreams` | what a BIO promises: two byte streams |
| `MCByteBufferBIO`, `ByteBufferBIOProofs` | its instance for TLC; its theorems |
| `HandshakeLayer` | an endpoint as a record; messages, records, keys, transcript, the two user callbacks |
| `TLS12Client`, `TLS12Server`, `TLS13Client`, `TLS13Server` | one operator per function of the four state machines, from an endpoint to an endpoint |
| `PostHandshake` | application data, KeyUpdate, renegotiation |
| `Handshake` | the composition: two endpoints, the wire, the users; properties |
| `MCHandshake` | the pairs of configurations for TLC |
| `HandshakeLayerProofs` | what the operations of `HandshakeLayer` do to an endpoint's buffers; the invariant of an endpoint, and when a change keeps it |
| `HandshakeProofs` | one lemma for each function of the four state machines and of `PostHandshake`; the theorems about one endpoint |
| `AgreementProofs` | what binds the two endpoints of `Handshake`; those that complete agree |
| `IdentityVerification` | the matching of names, the loop over them, and what a wildcard stands for |
| `MCIdentityVerification`, `IdentityVerificationProofs` | its instance for TLC; its theorems |

`NIOSSLHandler` uses `SSLConnection`, which has both the BIO and the handshake in a coarse
form: records instead of bytes, flights instead of messages. `ByteBufferBIO` and
`Handshake` justify that form: the first shows that the BIO is a pair of streams, the second
that flights which are delivered in any portions complete the handshake.

### The call stack of the handler

The variable `stack` holds what is left to run, innermost first. A frame either names a
piece of a method that runs without calling out, or is a call-out: `"callout"` (an event
or a promise callback) or `"netout"` (a write or close of the channel, in which the channel
itself may report that it is gone). An action pops the top frame, does what the piece
does, and pushes what follows it. While a call-out is on top the environment may push
further frames; `Return` pops it. So a method is split exactly where foreign code may run
in it, and nowhere else:

| Code | Actions |
|---|---|
| `doHandshakeStep` | `DoHandshakeStep`, `HandshakeIncomplete` (the assignment of `.handshaking` follows a call that may run the user's callback) |
| `doShutdownStep` | `DoShutdownStep`, `ShutdownIncomplete`, then `ChannelClose`, `ChannelUnwrap`, `ChannelCloseOutput` |
| `doDecodeData` | `DoDecodeData`, `AfterZeroReturn` |
| `doUnbufferActions` | one `DoUnbufferActions` for each round of its loop, `InvokeCloseOutput`, `FailEncoded`, `FailCloseOutput` |
| `channelUnwrap` | `ChannelUnwrap` (with `handlerRemoved`), `Discard`, `RemovalFuture` |
| `discardBufferedActions` | one `Discard` per buffered action |
| the others | one action each |

`fatal` records that a `preconditionFailure` or `assert` was reached, or that a loop runs
for ever; nothing runs afterwards. `timers` counts the scheduled shutdown tasks that have
not run, and `scheduled` says that the task in the payload of `state` is one of them: a
state that is overwritten drops the task, but does not cancel it.

### What is abstracted

* Cryptography, byte counts and partial records. A record is one element, of a kind:
  handshake flight, data, `close_notify`, alert, something BoringSSL refuses, or plain
  text. A partial record is answered by WANT_READ, as no record is.
* A handshake is `HsFlights` flights of the peer, each answered by one of ours; the last
  may need an asynchronous callback (`AsyncVerify`): a custom verification or a private
  key operation. Messages, tickets, key updates and renegotiation are in `Handshake`.
* BoringSSL is modelled only as far as the handler depends on it: which results the four
  entry points give, what they do to `read_shutdown` and `write_shutdown`, when an alert
  is written, and which errors are sticky.
* The host name check is the variable `hostnameMatches`, chosen at the start.
* The BIO's retry flag is kept (`retryRead`): once the BIO is closed its calls fail without
  touching it, and `SSL_get_error` reports what an earlier call left behind.
* Application data carries the promise and the number of its slice, so that order, loss
  and repetition are visible.

### The BIO

A `ByteBuffer` is storage, two indices and a capacity; it is a value, so that a write into
storage that someone else refers to copies it first. `outboundCiphertext` hands the buffer
on without a copy, so the channel's bytes are cells of the BIO's own storage (`handed`)
until one of the two leaves it. A write then clears the buffer if all of it was handed on,
or replaces it if it is larger than `maximumPreservedOutboundBufferCapacity`. The socket
takes any number of bytes at any time (`SocketWrite`). The limit is the constant
`MaxPreserved`: `PreservedCapacity` shows that the class keeps to whatever limit it is given.
Its only caller, `handlerAdded` (`NIOSSLHandler.swift:94`), always gives it `Int.max`, so in
production the branch at `ByteBufferBIO.swift:387` is never taken, and the field of
`NIOSSLHandler.Configuration` that should set the limit (`Configured`) is ignored: the run
`configured_capacity` shows it. The growth of capacities is the
constant operator `RoundUp`, of which only monotonicity is assumed. What `ByteBuffer`
itself does is modelled from its use, as external code.

One edge is outside the model's properties: an empty buffer passed to `channelRead` makes
`inboundBuffer` non-nil and empty, and the next read of the BIO returns 0 without the retry
flag. Channels do not read empty buffers.

### The handshake

An endpoint is a record; an operator such as `do_read_server_hello` maps it to the endpoint
in which the function of that name leaves it: another `state`, something it `wait`s for, or
an `error`, with what was sent and hashed on the way. `Do` applies the one that `state`
calls for, and `Flush`, `Open`, `WantRead` and `WantCallback` are the branches of
`ssl_run_handshake`. The states that exist only for features that NIOSSL never enables are
passed through.

* A message is its type and what decides anything; a hash is the sequence of what was
  hashed, a secret what it was derived from, a signature or MAC its key and what it covers.
  Two endpoints hold the same key only if they hashed the same messages.
* A message has a length in units (`CertificateUnits` for a Certificate, otherwise 1) and a
  record has at most `MaxFragment`, so messages share records, fill them exactly, and spill
  over.
* A configuration (`Config`) has versions, groups, an offered session, tickets, a
  certificate, how its key signs, whether and by whom the peer is verified and what the
  verdict will be. As in NIOSSL, verification means that a missing certificate fails
  (`SSLContext.swift:574`), a custom callback keeps the mode that is set
  (`SSLConnection.swift:163`), and the client's order of groups wins. NIOSSL itself offers
  no session; sessions are here because BoringSSL's state machines differ with them.
* Calls of one endpoint touch nothing of the other's, so one is over before the next
  begins; every order of deliveries and answers remains.
* NIOSSL calls neither `SSL_key_update` nor `SSL_renegotiate`, but its peer may. A server
  that asks for a renegotiation is not BoringSSL's, which has none: it is modelled as one
  that is like it in all else (`RequestRenegotiation`, external). No data is written in
  configurations with renegotiation, and its `renegotiation_info` is left out.

### Identity verification

A name is a sequence of characters, of which only the period and the asterisk, membership in
the acceptable ones, and lower case matter. Each turn of the loop over the alternative names
is an action; `matchHostname` and what it calls are operators that follow the code's
indices, prefixes and suffixes. `StandsFor` is the reference: the name with its asterisk
replaced by some text.

### The environment of the handler

The peer sends a script: an orderly one (data, `close_notify`, then plain text), one that
loses the framing, and two that abort the handshake. It may stop anywhere. One
`channelRead` delivers any number of the records that are available, and comes only between
events: a channel reads when its event loop tells it to, never inside a call of a handler, so
no decoding runs inside another. When it reads is left open, and with it `context.read()` at
the end of `doFlushReadData` (`NIOSSLHandler.swift:656`), which only asks for more. The
channel may go
away at any time, before it is connected, between events or inside a write or close of the
handler; it may succeed or fail what it was asked. The user may call every operation in
`Api` between events and, if `Reentrant`, from every call-out. The completion of an
additional verification may come from a call-out in every run, as the handler calls the
user's closure directly. `handlerRemoved` runs after an unwrapping, or after the channel
has closed.

## 3. Runs

| Run | Instance | Shows |
|---|---|---|
| `lifecycle` | client, half closure allowed, calls between events, fairness | no precondition fails (`NoPreconditionFailure`), `OutputClosedIsSealed`, an unwrapping passes on exactly what followed the `close_notify` although the connection is closed first (`UnwrapPassesOnTheRest`), `close(.all)` and `stopTLS` complete, a shutdown ends |
| `reentrant` | server, 2 flights, asynchronous and additional verification, calls from every call-out | types, `CloseNotifyIsLast`, order of both streams with empty and sliced writes, `SuccessMeansSent`, `NoLostWrite`; `HandshakeCompletesOnce`, `NoDataSentBeforeTrust`; buffered flushes and ciphertext leave (`FlushedWritesLeave`, `OutboundDrains`), shutdowns are timed and never stall (`ShutdownHasTimeout`, `ClosingNeverStalls`), a `stopTLS` that succeeds was clean or found the handler `.unwrapped` (`UnwrapIsClean`) |
| `byte_buffer_bio` | the BIO, small capacities, writes and reads below, at and above them | `IsByteStreams` (refinement), `PreservedCapacity`: the limit the BIO was given |
| `handshake` | 491 pairs of configurations, fairness | see below |
| `identity_verification` | names of up to four characters over five, up to two alternative names | `Decision`: a matching alternative name decides wherever it stands, nothing is accepted by a common name beside a host name or an address; `MatchIsSubstitution` |

All passing runs of the handler have 2 promises, one flush and all four scripts of the peer.

What `handshake` shows: endpoints fail only for reasons that lie in their configurations or
with their users (`NoSpuriousFailure`); two that complete agree on version, resumption and
keys, and the version is the highest both enable (`Agreement`); one that verifies completes
only with a peer that has signed and was accepted (`Authenticated`), and asks its user once,
however often it is re-entered (`AskedOnce`); who waits for the peer has sent all it has
(`NothingHeldBack`), so the handshake ends and all data is read (`Terminates`); no message is
left over when it ends (`NothingLeftOver`), everything that is sent after it can be decrypted
whatever keys are updated (`StillReadable`), and answers to key updates do not pile up
(`WriteObligations`).

**Bounds.** Two promises are the least that let one operation overtake, cascade into or
overwrite another; each user operation takes one, so every pair of operations is tried in
every order and nesting. A flush needs none and is bounded by `MaxFlush`. One flight has
every handshake branch but the wait between flights, which `reentrant` has with
two. Sizes 0, 1 and 3 under `maxWriteSize` 2 are the empty write, one slice, and a full
slice with a remainder. The depth of re-entrancy is bounded only by these.

The BIO's buffer holds a few bytes, its limit is below and above what a write needs, and the
streams are long enough for two hand-overs that the channel has not sent. In the handshake
records of 2 units and certificates of 3 make every message end inside, at the end of, and
across records; `MaxKeyUpdates` is 1 so that the limit is met. The configurations are three
complete products (negotiation; authentication; both at once for each version), as the
questions of one hardly depend on the answers of the other, and lists for renegotiation and
data. Names of four characters have every position of the asterisk with text, nothing, or a
period on either side, in targets shorter and longer than the wildcard.

**Deadlock** is not checked: a connection that has ended, or whose peer is silent, rightly
does nothing.

**Fairness.** `FairSpec` assumes that the event loop runs what it has begun, that user code
returns, that a scheduled task runs, that a channel which is closed reports it and that it
completes the promises it was handed: this is what SwiftNIO's event loop and channels
guarantee. Nothing is assumed of the peer or of the user, who may stay silent for ever. The
three liveness properties make one exception: a thread that spins in `doUnbufferActions`
(`write_loop`, below) completes nothing.

In `Handshake` a call that has begun goes on (weak fairness of `Step`), and as long as there
is a record to deliver or an answer to give, one is delivered or given at last (strong
fairness, as deliveries of part of a record, which the handler answers by another call, may
come in between): the network and the users are assumed not to stop, since nothing else
makes a handshake end; NIOSSL has no handshake timeout.

### What the source says and the model refutes

Seven runs each check one statement of a comment, an assertion or a document that the code
does not keep. The quotations and the steps are under `findings` in `PROJECT.json`.

| Run | Statement |
|---|---|
| `write_loop` | "Ok, we can't write. Let's stop." The loop over the marked actions does not stop: it goes round with the same element |
| `timeout_state` | the timeout never finds a handler that is not shutting down, as "TLS shutdown […] has a higher priority" than closing the output; a close of the output that was buffered replaces `.closing` |
| `late_resume` | after `channelInactive` "we end up in the closed state" |
| `close_output_promise` | the promise of `close(.output)` is completed |
| `custom_key_renegotiation` | "post-connection authentication *as a client*" is supported; a client with a custom private key fails in it |
| `common_name` | "If there are no SAN fields to validate against, we'll check commonName"; one that could never be validated against, such as an e-mail address, is enough for the code to refuse the certificate |
| `configured_capacity` | `maximumPreservedOutboundBufferCapacity` is "the maximum number of bytes we'll preserve in the outbound buffer"; the handler passes `.max` |

`late_resume` needs a verification callback, `timeout_state` an additional verification;
those about the handler only need calls between events. `configured_capacity` is the instance
of `byte_buffer_bio` with the limit that `handlerAdded` passes: `IntMax`, which is above every
capacity reached. In `common_name` the code errs on the safe side.

This delimits the passing runs, and so do the following behaviours of the code, which have no run:

* `NoPreconditionFailure` is checked for calls between events, without additional
  verification. With it, a `close(.output)` buffered in the handshake and run by a flush
  while unwrapping (`NIOSSLHandler.swift:949`) leaves `.outputClosed` behind, in which the
  completion of the verification fails its precondition (`:428`).
  Nor with calls from callbacks: `doDecodeData` delivers data between entering `.closing`
  and `doShutdownStep` (`:604`), which fails its precondition (`:475`) if the reader flushes
  a buffered `closeOutput` and calls `stopTLS` in between.
* The same overwriting of `.closing` or `.unwrapping` (`:949`, and `:483` with calls from
  callbacks) lets a second `close(.all)` or `stopTLS` replace the promise of the first, which
  is never completed. It takes three promises, one of them of a `close(.output)`.
  `CloseAllCompletes` and `StopTLSCompletes` are therefore checked for calls between events
  without additional verification; `NoLostWrite` speaks of writes, which are not concerned,
  with three promises neither.
* `ClosingNeverStalls` is checked without half closure. With it, the peer's `close_notify`
  in `.closing` takes the default branch (`:599`) and the close waits for its timeout.
* `UnwrapPassesOnTheRest` speaks of an unwrapping ended by a `close_notify`. `stopTLS`
  during the handshake unwraps at once, and passes on ciphertext the BIO still holds.
* Writes pending when an unwrapping ends are failed with `unflushedWriteOnUnwrap` (`:729`);
  the documentation of `stopTLS` (`:811`) says that they are passed on.
* `channelInactive` reports an unclean shutdown from `.inputClosed`, a state entered only on
  a `close_notify`, under the comment "we weren't sent a CLOSE_NOTIFY" (`:154`).
* `stopTLS` succeeds in `.unwrapped` ("We are already unwrapped. Succeed the promise",
  `:856`), also when that unwrapping timed out and its own promise failed. `UnwrapIsClean`
  names this as its only exception.
* `Decision` leaves open what becomes of a matching common name beside alternative names of
  other types only, about which the comment and the code differ (`common_name`).
* Of a name that ends in two periods, behind a wildcard, the second is lost: the empty label
  and its absence are the same to the code. `MatchIsSubstitution` leaves such names out.

With additional verification the handler may already pass on *received* data when a close
comes before the verification has ended, as `.closing` decodes what arrives.
`NoDataSentBeforeTrust` speaks of what is sent.

## 4. Proofs

The theorems hold for every set of promises and operations, every number of flights, every
peer script, client and server, with and without half closure, verification and
re-entrancy, under the assumptions `ConnectionAssumption` and `HandlerAssumption`, which
only give the constants their types.

* `TypeCorrect`: `Spec => []TypeOK`. `TypeOK` is inductive. Beyond types it says that the
  mark lies within the buffer, which needs that every round of `doUnbufferActions` pops
  one marked action, and that a task the state refers to has not run.
* `StreamEnds`: `Spec => []CloseNotifyIsLast`. The property alone is not inductive: it
  speaks of the records, and an operation that wrote behind a closing alert would be
  stopped by nothing in it. The invariant `Sealed(wire, conn)` relates the records on the
  wire and in the BIO with `writeShutdown`: as long as it is `none` no closing alert was
  written; a wire that ends in one leaves the BIO empty; and a connection that wrote one
  during the handshake has a sticky error, since the handshake does not look at
  `writeShutdown` before it writes a flight. There is one lemma for each operation of the
  connection, and ten of the 38 actions touch the stream.

The other theorems about the handler speak of what is still to run. A call that was
interrupted by a call-out goes on later, in a state it did not see, and re-entrant calls make
the stack as deep as one likes. `NIOSSLHandlerProofs` therefore describes each action once by three
things: the set of pending calls (`Pending`), the innermost one (`TopOp`), and a few facts on
order that suffice (a step of the handshake is the outermost call; a discarding of actions
waits for a call that closes the channel or its output). The invariants below are stated in
these terms, and their proofs never look at the stack itself.

* `CompletesOnce`: `Spec => []HandshakeCompletesOnce`, and `TrustedBeforeData`:
  `Spec => []NoDataSentBeforeTrust`. The first needs that no step of the handshake is pending
  when the handshake is complete, the second that nothing which encodes data can run while
  the handshake is complete and the peer is not trusted: during the additional verification,
  or after the hostname did not match. `TrustInv` has nine parts for this; the one that took
  longest to find, `HeldBack`, says that the calls pending in such a state are among
  `DistrustOps` until a shutdown has begun. `SSL_write` runs the handshake itself, so
  `Waits` has to say in addition that nobody but `doHandshakeStep` can complete it.
* `ShutdownsAreTimed`: `Spec => []ShutdownHasTimeout`. Between events a handler in `.closing`
  or `.unwrapping` has its timeout armed. The invariant `Timed` adds the moments in between:
  without a timeout there is a `doShutdownStep` or a call that closes or unwraps pending.
* `FlushedWritesDoLeave`: `Spec => []FlushedWritesLeave`. An open handler between events has
  no marked action. `Flushed` says that as long as there is one, a call that will process or
  discard it is pending, or the handler is not open yet.
* `WritesLeaveInOrder`: `Spec => []WritesInOrder`. The invariant `Flow` counts: the n-th data
  record that left or is ready to leave is the n-th slice the user wrote, and the buffered
  actions are the slices from the first one that is not encoded. It would break if an action
  were discarded and a later one written. That this cannot happen is the part `Guarded`:
  actions are discarded only when the connection or the channel takes no more data, or behind
  a pending call that sees to it; it holds for every re-entrant order of `flush`, `close` and
  `stopTLS`.
* `SuccessIsSent`: `Spec => []SuccessMeansSent`. `doUnbufferActions` gathers the promises of
  all writes it encoded and completes them with one write. `Ledger` follows a promise from
  the call of `write` to there. A promise in the buffer comes behind all slices of its write
  (`Kept`, by the same counting); one that was gathered belongs to slices that are out or
  ready (`Encoded`); one that is in the channel's hands or has succeeded belongs to slices
  that are out (`Honest`). The rest keeps promises apart: one that is not used is nowhere
  (`Unused`), one of a write that was just called only there (`Called`), and one of a write
  never in the fields for closing, nor in a call but the four that handle writes (`Apart`).
  TLC checked `Ledger` with and without calls from callbacks before it was proved.
* `DataArrivesInOrder`: `Spec => []DeliveredInOrder`. The invariant `Inbox` says that what was
  decrypted is the peer's data from the first piece on, and that as long as the connection
  reads, its input is what the channel fed, from right behind the last piece it decrypted.
  Nothing is asked of the input of a connection that has stopped reading, since it never
  starts again: a failed handshake, the end of the input and a closed BIO are final. That
  is what lets the removal future take the remaining bytes: the BIO is closed before.
  TLC checked `Inbox` with and without calls from callbacks, and on a server with both
  verifications and half closure, before it was proved.
* `CiphertextLeaves`: `Spec => []OutboundDrains`. The invariant `Draining` says that what is
  left in the BIO waits for a call that writes it or closes the channel (`WillDrain`), and
  that the handler is not removed and no unwrapping pending meanwhile: nobody would write
  after it. The last is the hard part. An unwrapping is called for behind a
  `writeDataToNetwork` and a call-out, in which the user may flush, close and read; but then
  TLS never began or both streams have ended (`Clean`), and no operation
  of such a connection writes. TLC checked `Draining` with either role, with and without half
  closure and additional verification, always with calls from callbacks, before it was proved.
* `UnwrapsClean`: `Spec => UnwrapIsClean`, an action property of every promise that was given
  to `stopTLS`, whichever action completes it: it succeeds only after both close_notify
  alerts, or when there was no TLS yet, or in a `stopTLS` that finds `.unwrapped`. It takes
  two invariants. `Stopping` follows the promise: it is in `shutdownPromise` or in a pending
  `stopTLS` or `removalFuture`, and never where it could succeed in another way: not in the
  fields for closing, in a buffered action, in another call or in the hands of the channel.
  `Clean` (in `TrustProofs`) says of every pending `channelUnwrap` and `removalFuture` that
  does not report an error what has to be so when it succeeds; it is kept
  because `readShutdown` and `writeShutdown` never change once they are `closeNotify`.
  TLC checked `Stopping` with calls from callbacks and additional verification before it was
  proved.

* `ByteBufferBIOProofs!TypeCorrect`: `Spec => []TypeOK`, by which every cell the channel
  refers to lies within the storage: needed because clearing keeps the storage of a buffer
  that nobody else refers to, and only of such a one.
* `ImplementsStreams`: `Spec => IsByteStreams`, for every allocator and limit. The mapping
  takes `pipe` to what the channel would find in its cells now, followed by the readable
  bytes of the buffer. Each action is a step of `ByteStreams` or a stutter; the case that
  matters is `BIOWrite`, where the cells change their storage and must not change their
  value: either the channel shares the storage, and is detached with the old values, or it
  does not, and nothing it holds is in the buffer. The lemmas are about sequences: what a
  write leaves of the prefix, and what detaching yields.
* `CapacityIsBounded`: `Spec => PreservedCapacity`. The clearing either keeps a capacity
  that is within the limit or allocates one, and the write that follows grows it only to its
  own length; monotonicity of `RoundUp` does the rest. It rests on `TypeOK`. The limit is the
  one the BIO was given, for every limit, `Int.max` included.
* `DecisionIsByAllNames`: `Spec => []Decision`, for every certificate and host: no matching
  name is missed and no common name accepted beside a host name or an address. `Decision`
  speaks of the verdict only; the invariant adds that while there is none, no name before
  `next` matches. The same invariant gives `IdentityVerificationProofs!TypeCorrect`.
* `MatchesBySubstitution`: `Spec => []MatchIsSubstitution`, for names of any length over any
  alphabet. No induction is needed: both sides are brought to statements about the character
  at each place (`Pieces` for the comparisons of the code, `Replaced` for the reference), with
  the length of the text behind the asterisk as the witness. `LowCharacters` carries what case
  folding must do: it never makes a period or unmakes one. That neither name ends in a period
  is used in one place, where the lengths of what follows the first periods tell whether
  there is one.

The theorems about the handshake hold for every set of pairs of configurations, every size
of records and certificates and every limit on KeyUpdates, under `LayerAssumption` and
`HandshakeAssumption`, which give the constants their types. (A configuration has at least
one group: an empty list of curves is BoringSSL's default list.) All but `CompletedAgree` follow from
one invariant, `Good(e, g)` of an endpoint `e` with the peer `g`, for both endpoints:

* `Typed`: the fields hold what they are meant to hold; `HandshakeProofs!TypeCorrect`
  (`Spec => []TypeOK`) follows.
* `Wire`: every message that `e` has built or sent is one `e` may send, everything that it has
  to read is one `g` may have sent. In particular a certificate is the sender's, and a
  CertificateVerify (of TLS 1.3, or of a TLS 1.2 client) or ServerKeyExchange exists only
  after its sender signed.
* `Trust`: for each state, what the endpoint knows by then: it has the certificate, then a
  verdict on it, then a signature, or it has resumed a session. With `Wire` it gives
  `AuthenticatedPeers` (`Spec => []Authenticated`). The proof found what the property had
  left out: a client that resumed a session and later renegotiates takes over the session's
  certificate and is not asked for a verdict, so the property names that case and
  the configurations of the run now include clients that do not trust the server there.
* `Asking`: a verdict that has not started was not asked for, and a handshake that has not
  reached its signature has none yet, unless it is pending; it gives `AsksOnce`
  (`Spec => []AskedOnce`).
* `Buffers`: where the buffer of messages is empty, where it holds the ClientHello that is
  looked at in four states before it is taken, and where a flight is being written: in no
  other state is anything held back. It gives `HoldsNothingBack`
  (`Spec => []NothingHeldBack`) and `LeavesNothingOver` (`Spec => []NothingLeftOver`).

`Good(e, g)` depends on `g` only by its side and by its having signed, which it never
unlearns, as it never forgets that it renegotiated (`Grows`). A step of one endpoint therefore keeps the other's invariant
(`PeerGrows`), and each function is judged by itself: `Steps(e, f, g)` says that it takes a
good endpoint to a good one that has not unlearnt anything. Most lemmas name the fields a
function changes (`Same`) and leave the rest to those of `HandshakeLayerProofs`.

`CompletedAgree` (`Spec => [](Server.total_renegotiations = 0 => Agreement)`) is about both
endpoints at once: until the server asks for a renegotiation, hence always in TLS 1.3, two
that have completed have the same version, the highest both enable, have both resumed or both
not, and have matching keys in both directions, whatever keys were updated since. `Agreement`
says nothing of a handshake under way, and `Good` nothing of what the peers have in common.
The invariant `BondInv` adds it:

* `ServerOwn` and `ClientOwn`: for each state, the version, the beginning of the transcript
  and the secrets from which the keys in use were made. The client's part is relative to the
  server: from the ServerHello on it has its version and its decision to resume, from the
  server's Finished on its master secret (TLS 1.2) or traffic secrets (TLS 1.3).
* `Told` and `Offers`: every message that is being built, in a flight, on the wire or half
  read says something that is so: a ServerHello or HelloRetryRequest names the server's version, a
  Finished is over its transcript and secret, a ClientHello offers the client's versions.
  There is no HelloRequest, and with one this would end.
* `Fixed`: what the server has settled (`Decided`, `Sealed`) it does not change, so that what
  a message told is still so when it is read, many steps later.

The client learns that the secrets agree from the Finished: it accepts one only over its own
transcript and secret. About half of the functions touch none of this (`Stays`, `Goes`, with
the moves `ClientMoves` and `ServerMoves`); the others, which send or read a hello or a Finished or install
a key, have a lemma each. TLC checked `BondInv` on the instance of `handshake` before it was
proved. After a renegotiation `Agreement` is model-checked only: the endpoints go from one set
of keys to the next at different times, while both sets of messages are under way.

Model-checked only:

* liveness (fairness is out of the prover's reach);
* `ClosingNeverStalls` and `NoPreconditionFailure`, which are not true for every value of the
  constants: the first fails with half closure, the second when the user calls from its
  callbacks or verifies in addition. The runs check them where they hold;
* `NoLostWrite`, which would need an invariant like `Ledger` on all calls that hold a promise;
* `UnwrapPassesOnTheRest` and `OutputClosedIsSealed`, which the user's calls from callbacks
  can break. The first: a `close(mode: .output)` that was buffered is flushed in a call-out
  before `channelUnwrap`, then a second `stopTLS` lets the removal future run twice. The
  second, with half closure and three promises: a write and a `close(mode: .output)` are
  buffered during the handshake, which completes in the same read as the peer's close_notify
  arrives; `stopTLS`, called while the buffered write is handed to the channel, removes the
  handler; then `doUnbufferActions` goes on to the buffered close and enters `.outputClosed`
  although the handler is gone and the channel's output stays open;
* `Agreement` after a renegotiation, `NoSpuriousFailure`, `StillReadable` and
  `WriteObligations`. They need to know exactly where each endpoint is in its state machine,
  which messages and in which order are in flight between them, and how often each direction
  changed its keys. `Good` asks of the peer only that it has signed, and `BondInv` only that
  each message by itself is true.

## 5. Not modelled

* `NIOSSLContext`, `TLSConfiguration`, certificates, keys, PKCS#12, platform trust
  evaluation, system call wrappers: immutable objects and pass-through; no state changes
  after creation.
* The client and server handlers and the bootstrap: initialisers; their role is `IsClient`.
* Of BoringSSL: cryptography, the encoding and parsing of messages, certificates and
  extensions, and what NIOSSL never enables: early data, ECH, false start, NPN, channel IDs,
  stapled OCSP, delegated credentials, QUIC, DTLS, SSLv2 hellos, handshake hints. These and
  the tables are almost all of the vendored lines.
* Static RSA key exchange in TLS 1.2, and with it `customPrivateKeyDecrypt`, whose protocol
  is that of `customPrivateKeySign`.
* `SSL_shutdown` between two endpoints that exchange messages; in `NIOSSLHandler` the peer is
  a script.
* Logging, error descriptions, channel options other than half closure.

## 6. Plan

1. *(done)* `SSLConnection`, `NIOSSLHandler`, `TypeCorrect`, `StreamEnds`.
2. *(done)* `ByteBufferBIO`, its refinement to `ByteStreams`, both proved.
3. *(done)* The handshake of two endpoints with the callbacks of their users, data, key
   updates and renegotiation.
4. *(done)* `IdentityVerification` against a reference definition.
5. `TLSSession`: an abstract session (opening, open, half closed either way, closed,
   unwrapped) as a specification of the handler, shown to be implemented by calls between
   events.
6. Two handlers over one connection, with close and unwrap from both ends.
7. Proofs. *(done)* The handshake and the trust in the peer, the ends of a connection, the
   order and the promises of writes, the order of the peer's data, the
   ciphertext in the BIO; the types of `Handshake`, whom an endpoint trusts, what it asks, what
   it holds back and leaves over; `Agreement` until a renegotiation. To do: `StillReadable` and
   `NoSpuriousFailure`, from an invariant on the order of the messages in flight.
