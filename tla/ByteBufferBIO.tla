--------------------------- MODULE ByteBufferBIO ---------------------------
(***************************************************************************)
(* ByteBufferBIO.swift at the level of bytes and of memory: the BIO        *)
(* between BoringSSL, which reads and writes ciphertext, and the channel,  *)
(* which is handed the outbound buffer itself and not a copy of it.  The   *)
(* BIO then writes into the same memory again, or into new memory, while   *)
(* the channel may still have bytes of it to put on the socket.            *)
(*                                                                         *)
(* A byte is named by the position at which it entered its stream.         *)
(***************************************************************************)
EXTENDS Integers, Sequences, FiniteSets

CONSTANTS InitialCapacity,  \* SSL_MAX_RECORD_SIZE
          MaxPreserved,     \* maximumPreservedOutboundBufferCapacity, as setAllocator was told
          Configured,       \* ... and as the user set it in NIOSSLHandler.Configuration
          RoundUp(_),       \* the capacity the allocator gives when asked for n
          WriteLens,        \* lengths of BoringSSL's writes ...
          ReadLens,         \* ... and of its reads
          Arrivals,         \* sizes of the buffers the channel reads
          MaxWritten, MaxReceived  \* bounds on the two streams

ASSUME BIOAssumption ==
    /\ InitialCapacity \in Nat /\ MaxPreserved \in Nat /\ Configured \in Nat
    /\ WriteLens \subseteq Nat /\ ReadLens \subseteq Nat /\ Arrivals \subseteq Nat
    /\ MaxWritten \in Nat /\ MaxReceived \in Nat
    /\ \A n \in 0..(InitialCapacity + MaxPreserved + Configured + MaxWritten) :
           /\ RoundUp(n) \in Nat /\ RoundUp(n) >= n
           /\ \A m \in 0..n : RoundUp(m) <= RoundUp(n)

VARIABLES
    inboundBuffer,  \* its readable bytes; <<>> when it is nil, too
    inboundNil,     \* it is nil
    out,            \* outboundBuffer
    handed,         \* the bytes the channel holds and has not sent
    sent,           \* the bytes on the socket
    open,           \* BIO_get_data is not nil
    retryRead,      \* BIO_FLAGS_READ and BIO_FLAGS_SHOULD_RETRY are set
    rc,             \* what the last BIO_read or BIO_write returned
    written, received  \* bytes that have entered the two streams

vars == <<inboundBuffer, inboundNil, out, handed, sent, open, retryRead, rc,
          written, received>>

\* `bytes' is the storage, which may hold bytes beyond writer from before.
Buffer == [bytes : Seq(Nat), reader : Nat, writer : Nat, capacity : Nat]

\* A byte the channel holds: in a cell of the storage of outboundBuffer, or,
\* itself, in storage that outboundBuffer has left behind and nobody changes.
Held == [shared : BOOLEAN, cell : Nat]

TypeOK ==
    /\ inboundBuffer \in Seq(Nat) /\ inboundNil \in BOOLEAN
    /\ out \in Buffer /\ out.reader <= out.writer /\ out.writer <= Len(out.bytes)
    /\ handed \in Seq(Held)
    /\ \A i \in 1..Len(handed) : handed[i].shared => handed[i].cell \in 1..Len(out.bytes)
    /\ sent \in Seq(Nat)
    /\ open \in BOOLEAN /\ retryRead \in BOOLEAN /\ rc \in Int
    /\ written \in out.writer..MaxWritten /\ received \in Nat

-----------------------------------------------------------------------------
(***************************************************************************)
(* ByteBuffer and its allocator (swift-nio).  A buffer is a value: before  *)
(* it writes into storage that another buffer refers to, it takes storage  *)
(* of its own.  The second component says that it did.                     *)
(***************************************************************************)
Allocate(n) == [bytes |-> <<>>, reader |-> 0, writer |-> 0, capacity |-> RoundUp(n)]

Clear(b, shared) ==
    <<[b EXCEPT !.bytes = IF shared THEN <<>> ELSE @, !.reader = 0, !.writer = 0], shared>>

\* s with bs written into it behind its first k bytes.
Overwritten(s, k, bs) == SubSeq(s, 1, k) \o bs \o SubSeq(s, k + Len(bs) + 1, Len(s))

WriteBytes(b, shared, bs) ==
    LET end == b.writer + Len(bs)
    IN  <<[b EXCEPT !.bytes = Overwritten(@, b.writer, bs),
                    !.writer = end,
                    !.capacity = IF end > @ THEN RoundUp(end) ELSE @], shared>>

\* The channel holds bytes in the storage of outboundBuffer.
Shared == \E i \in 1..Len(handed) : handed[i].shared

\* The byte h of the channel, when outboundBuffer's storage is s.
Value(h, s) == IF h.shared THEN s[h.cell] ELSE h.cell

\* The storage the channel refers to is its own from now on.
Detached == [i \in 1..Len(handed) |-> [shared |-> FALSE, cell |-> Value(handed[i], out.bytes)]]

\* What the channel has to send, as the socket would find it now; and what the
\* next outboundCiphertext would add to it.
HeldBytes == [i \in 1..Len(handed) |-> Value(handed[i], out.bytes)]
Readable == SubSeq(out.bytes, out.reader + 1, out.writer)

-----------------------------------------------------------------------------
Init ==
    /\ inboundBuffer = <<>> /\ inboundNil = TRUE
    /\ out = Allocate(InitialCapacity)
    /\ handed = <<>> /\ sent = <<>>
    /\ open = TRUE /\ retryRead = FALSE /\ rc = 0
    /\ written = 0 /\ received = 0

Bytes(from, n) == [i \in 1..n |-> from + i]
Larger(m, n) == IF m > n THEN m ELSE n
Smaller(m, n) == IF m < n THEN m ELSE n

mustClearOutboundBuffer == out.reader = out.writer /\ out.reader > 0

\* Mutants of Cleared: the buffer is kept however large it is; and it is
\* cleared whether or not its bytes were handed on.
ClearedAlwaysKept(n) == IF mustClearOutboundBuffer THEN Clear(out, Shared) ELSE <<out, FALSE>>
ClearedUnhanded(n) == Clear(out, Shared)

\* The delayed clearing of a buffer that was handed on, before a write of n.
Cleared(n) ==
    IF ~mustClearOutboundBuffer THEN <<out, FALSE>>
    ELSE IF out.capacity > MaxPreserved THEN <<Allocate(Larger(n, MaxPreserved)), TRUE>>
    ELSE Clear(out, Shared)

\* boringSSLBIOWriteFunc, and sslWrite in it; boringSSLBIOPutsFunc is the same.
BIOWrite(n) ==
    /\ written + n <= MaxWritten
    /\ \/ /\ ~open
          /\ rc' = -1
          /\ UNCHANGED <<out, handed, retryRead, written>>
       \/ /\ open /\ n = 0
          /\ rc' = 0 /\ retryRead' = FALSE
          /\ UNCHANGED <<out, handed, written>>
       \/ /\ open /\ n > 0
          /\ LET c == Cleared(n)
                 w == WriteBytes(c[1], Shared /\ ~c[2], Bytes(written, n))
             IN  /\ out' = w[1]
                 /\ handed' = IF c[2] \/ w[2] THEN Detached ELSE handed
          /\ rc' = n /\ retryRead' = FALSE
          /\ written' = written + n
    /\ UNCHANGED <<inboundBuffer, inboundNil, sent, open, received>>

\* boringSSLBIOReadFunc, and sslRead in it.
BIORead(n) ==
    /\ \/ /\ ~open
          /\ rc' = -1
          /\ UNCHANGED <<inboundBuffer, inboundNil, retryRead>>
       \/ /\ open /\ n = 0
          /\ rc' = 0 /\ retryRead' = FALSE
          /\ UNCHANGED <<inboundBuffer, inboundNil>>
       \/ /\ open /\ n > 0 /\ inboundNil
          /\ rc' = -1 /\ retryRead' = TRUE
          /\ UNCHANGED <<inboundBuffer, inboundNil>>
       \/ /\ open /\ n > 0 /\ ~inboundNil
          /\ LET m == Smaller(n, Len(inboundBuffer))
             IN  /\ rc' = m /\ retryRead' = FALSE
                 /\ inboundBuffer' = SubSeq(inboundBuffer, m + 1, Len(inboundBuffer))
                 /\ inboundNil' = (m = Len(inboundBuffer))
    /\ UNCHANGED <<out, handed, sent, open, written, received>>

\* Mutant of OutboundCiphertext: the reader index ends behind the writer's.
OutboundCiphertextPast ==
    /\ out.writer > out.reader
    /\ handed' = handed \o [i \in 1..(out.writer - out.reader) |->
                              [shared |-> TRUE, cell |-> out.reader + i]]
    /\ out' = [out EXCEPT !.reader = out.writer + 1]
    /\ UNCHANGED <<inboundBuffer, inboundNil, sent, open, retryRead, rc, written, received>>

\* outboundCiphertext: the channel gets the buffer itself, or nil.
OutboundCiphertext ==
    /\ out.writer > out.reader
    /\ handed' = handed \o [i \in 1..(out.writer - out.reader) |->
                              [shared |-> TRUE, cell |-> out.reader + i]]
    /\ out' = [out EXCEPT !.reader = out.writer]
    /\ UNCHANGED <<inboundBuffer, inboundNil, sent, open, retryRead, rc, written, received>>

ReceiveFromNetwork(n) ==
    /\ received + n <= MaxReceived
    /\ inboundBuffer' = inboundBuffer \o Bytes(received, n)
    /\ inboundNil' = FALSE /\ received' = received + n
    /\ UNCHANGED <<out, handed, sent, open, retryRead, rc, written>>

EvacuateInboundData ==
    /\ ~inboundNil
    /\ inboundBuffer' = <<>> /\ inboundNil' = TRUE
    /\ UNCHANGED <<out, handed, sent, open, retryRead, rc, written, received>>

Close ==
    /\ open /\ open' = FALSE
    /\ UNCHANGED <<inboundBuffer, inboundNil, out, handed, sent, retryRead, rc, written, received>>

\* The socket takes n of the bytes the channel holds.
SocketTakes(n) ==
    /\ sent' = sent \o SubSeq(HeldBytes, 1, n)
    /\ handed' = SubSeq(handed, n + 1, Len(handed))
    /\ UNCHANGED <<inboundBuffer, inboundNil, out, open, retryRead, rc, written, received>>

SocketWrite == \E n \in 1..Len(handed) : SocketTakes(n)

Next == \/ \E n \in WriteLens : BIOWrite(n)
        \/ \E n \in ReadLens : BIORead(n)
        \/ OutboundCiphertext
        \/ \E n \in Arrivals : ReceiveFromNetwork(n)
        \/ EvacuateInboundData \/ Close \/ SocketWrite

Spec == Init /\ [][Next]_vars

-----------------------------------------------------------------------------
(***************************************************************************)
(* Properties.                                                             *)
(***************************************************************************)
Streams == INSTANCE ByteStreams WITH
    incoming <- inboundBuffer,
    pipe     <- HeldBytes \o Readable

\* The BIO is a pair of byte streams: whichever storage a byte is in, and
\* however late the channel sends what outboundCiphertext handed to it, the
\* socket gets what BoringSSL wrote, and BoringSSL reads what was received.
IsByteStreams == Streams!StreamSpec

\* The first write after a hand-over leaves no larger buffer than the limit, or
\* than the write itself needs.
Keeps(limit) == mustClearOutboundBuffer /\ written' > written
                    => out'.capacity <= RoundUp(Larger(limit, written' - written))

\* sslWrite keeps to the limit that its BIO was given.  (The one caller,
\* handlerAdded, gives it Int.max: see ConfiguredCapacity.)
PreservedCapacity == [][Keeps(MaxPreserved)]_vars

-----------------------------------------------------------------------------
(***************************************************************************)
(* What the source says of itself and does not keep.                       *)
(***************************************************************************)
\* Configuration.maximumPreservedOutboundBufferCapacity: "The maximum number of
\* bytes we'll preserve in the outbound buffer that NIOSSLHandler holds."
ConfiguredCapacity == [][Keeps(Configured)]_vars
=============================================================================
