-------------------------- MODULE MCByteBufferBIO --------------------------
(***************************************************************************)
(* The instances of ByteBufferBIO that TLC checks: the class with a limit, *)
(* and the class as NIOSSLHandler uses it.                                 *)
(***************************************************************************)
EXTENDS ByteBufferBIO

\* The allocator of swift-nio rounds up to a power of two.
PowerOfTwo(n) == LET sizes == {2^k : k \in 0..n}
                 IN  CHOOSE c \in sizes : c >= n /\ \A d \in sizes : d >= n => c <= d

\* handlerAdded passes .max, whatever its Configuration says: more than any
\* buffer of the instance.
IntMax == 16
=============================================================================
