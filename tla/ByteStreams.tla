---------------------------- MODULE ByteStreams ----------------------------
(***************************************************************************)
(* What BoringSSL and the channel may expect of the BIO between them: two  *)
(* byte streams.  Bytes leave a stream in the order in which they entered  *)
(* it, none twice, none missing, and none changed on the way.              *)
(***************************************************************************)
EXTENDS Naturals, Sequences

VARIABLES incoming,  \* received from the network, not read by BoringSSL
          pipe,      \* written by BoringSSL, not on the socket
          sent       \* on the socket

streamVars == <<incoming, pipe, sent>>

StreamInit == incoming = <<>> /\ pipe = <<>> /\ sent = <<>>

\* The first n elements of s, and what follows them.
Front(s, n) == SubSeq(s, 1, n)
After(s, n) == SubSeq(s, n + 1, Len(s))

Deposit(bs)  == incoming' = incoming \o bs /\ UNCHANGED <<pipe, sent>>
Withdraw(n)  == /\ n \in 1..Len(incoming)
                /\ incoming' = After(incoming, n)
                /\ UNCHANGED <<pipe, sent>>
Put(bs)      == pipe' = pipe \o bs /\ UNCHANGED <<incoming, sent>>
Transmit(n)  == /\ n \in 1..Len(pipe)
                /\ sent' = sent \o Front(pipe, n) /\ pipe' = After(pipe, n)
                /\ UNCHANGED incoming

StreamNext == \/ Deposit(After(incoming', Len(incoming)))
              \/ \E n \in 1..Len(incoming) : Withdraw(n)
              \/ Put(After(pipe', Len(pipe)))
              \/ \E n \in 1..Len(pipe) : Transmit(n)

StreamSpec == StreamInit /\ [][StreamNext]_streamVars
=============================================================================
