-------------------------- MODULE MCNIOSSLHandler --------------------------
(***************************************************************************)
(* NIOSSLHandler for TLC: what the peer may send, and the symmetry of the  *)
(* user's promises.                                                        *)
(***************************************************************************)
EXTENDS NIOSSLHandler, TLC

Piece(i) == [kind |-> "data", id |-> None, n |-> i]

\* An orderly peer that goes on in plain text, one that loses the framing, and
\* peers that end the connection in the middle of the handshake, with a
\* close_notify or with an alert.
Orderly(flights) == [i \in 1..flights |-> Rec("hs")]
                    \o <<Piece(1), Rec("closeNotify"), Rec("clear")>>
Garbled(flights) == [i \in 1..flights |-> Rec("hs")] \o <<Piece(1), Piece(2), Rec("junk")>>
Aborting(k) == <<Rec(k)>>

MCScripts == {Orderly(HsFlights), Garbled(HsFlights), Aborting("closeNotify"), Aborting("alert")}
OrderlyScripts == {Orderly(HsFlights)}

Symm == Permutations(Promises)
=============================================================================
