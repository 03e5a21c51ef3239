--------------------------- MODULE SSLConnection ---------------------------
(***************************************************************************)
(* One TLS connection as NIOSSLHandler sees it: SSLConnection.swift on top *)
(* of BoringSSL's SSL object and of the two buffers of ByteBufferBIO.      *)
(*                                                                         *)
(* A connection is a record; an operation is a function from a connection  *)
(* to a result and the connection after it, as every entry point of        *)
(* SSLConnection is synchronous.  Cryptography, record sizes and partial   *)
(* records are abstracted: a record is one element of a sequence, and a    *)
(* partial record is no record yet (BoringSSL answers WANT_READ to both).  *)
(***************************************************************************)
EXTENDS Naturals, Sequences, FiniteSets

CONSTANTS IsClient,     \* setConnectState (TRUE) or setAcceptState (FALSE)
          HsFlights,    \* handshake flights the peer has to send
          AsyncVerify,  \* the last flight needs an asynchronous user callback
                        \* (custom verification or custom private key)
          Promises,     \* the user's operations, each named by its promise
          None          \* the absence of one

ASSUME ConnectionAssumption == /\ IsClient \in BOOLEAN
                               /\ AsyncVerify \in BOOLEAN
                               /\ HsFlights \in Nat \ {0}
                               /\ None \notin Promises

Kinds == {"hs", "data", "closeNotify", "alert", "junk", "clear"}

\* A record on the wire.  "clear" are bytes outside TLS, "junk" is anything
\* BoringSSL refuses; id and n name the application data a record carries:
\* slice n of the write id, or the peer's n-th piece of data.
Record == [kind : Kinds, id : Promises \cup {None}, n : Nat]
Rec(k) == [kind |-> k, id |-> None, n |-> 0]

Verify == {"notStarted", "pendingResult", "certificateVerified", "failed"}
Shutdown == {"none", "closeNotify", "error"}

Connection == [inInit : BOOLEAN, started : BOOLEAN, flights : Nat,
               verify : Verify, hsError : BOOLEAN,
               readShutdown : Shutdown, writeShutdown : Shutdown,
               bioClosed : BOOLEAN, retryRead : BOOLEAN,
               inbound : Seq(Record), outbound : Seq(Record)]

NewConnection == [inInit |-> TRUE, started |-> FALSE, flights |-> 0,
                  verify |-> "notStarted", hsError |-> FALSE,
                  readShutdown |-> "none", writeShutdown |-> "none",
                  bioClosed |-> FALSE, retryRead |-> FALSE, inbound |-> <<>>, outbound |-> <<>>]

Result(r, c) == [res |-> r, conn |-> c]

\* Every call of the BIO clears its retry flags; a read that finds nothing sets
\* the one for reading.  Once the BIO is closed its calls fail and leave the
\* flags alone, so that SSL_get_error reports what the last call had left.
RetryRead(c, b) == [c EXCEPT !.retryRead = b]
Send(c, rec) == [RetryRead(c, FALSE) EXCEPT !.outbound = Append(@, rec)]
Consume(c) == [RetryRead(c, FALSE) EXCEPT !.inbound = Tail(@)]
WantRead(c) == Result("incomplete", RetryRead(c, TRUE))
BIOClosed(c) == Result(IF c.retryRead THEN "incomplete" ELSE "failed", c)

(***************************************************************************)
(* ssl_send_alert: a closing alert is sent at most once, and never after   *)
(* a close_notify.                                                         *)
(***************************************************************************)
FatalAlert(c) == IF c.writeShutdown # "none" \/ c.bioClosed THEN c
                 ELSE [Send(c, Rec("alert")) EXCEPT !.writeShutdown = "error"]

\* A record that ends the stream in error is answered by a fatal alert, unless
\* it is one itself.
Refuse(c) == IF Head(c.inbound).kind = "alert" THEN Consume(c) ELSE FatalAlert(Consume(c))

-----------------------------------------------------------------------------
(***************************************************************************)
(* SSL_do_handshake.  The errors of a handshake are sticky.                *)
(***************************************************************************)
HandshakeError(c) == [FatalAlert(c) EXCEPT !.hsError = TRUE]

\* The next record is not a handshake record.
RefuseInHandshake(c) ==
    Result("failed",
           IF Head(c.inbound).kind = "closeNotify"
           THEN [Consume(c) EXCEPT !.readShutdown = "closeNotify"]
           ELSE [Refuse(c) EXCEPT !.hsError = TRUE])

\* A flight is processed: reply to it, and look for the next one.
FinishFlight(c) ==
    LET t == [Send(c, Rec("hs")) EXCEPT !.flights = @ + 1]
    IN  IF t.flights = HsFlights THEN Result("complete", [t EXCEPT !.inInit = FALSE])
        ELSE IF t.inbound = <<>> THEN WantRead(t)
        ELSE RefuseInHandshake(t)

\* The client speaks first.
StartHandshake(c) == IF c.started \/ ~IsClient THEN [c EXCEPT !.started = TRUE]
                     ELSE [Send(c, Rec("hs")) EXCEPT !.started = TRUE]

NeedsCallback(c) == AsyncVerify /\ c.flights + 1 = HsFlights

ReadFlight(c) ==
    IF c.inbound = <<>> THEN WantRead(c)
    ELSE IF Head(c.inbound).kind # "hs" THEN RefuseInHandshake(c)
    ELSE IF NeedsCallback(c)
         THEN Result("startsCallback", [Consume(c) EXCEPT !.verify = "pendingResult"])
         ELSE FinishFlight(Consume(c))

\* "startsCallback" is an .incomplete whose call ran user code on the way.
DoHandshake(c) ==
    IF ~c.inInit THEN Result("complete", c)
    ELSE IF c.hsError \/ c.readShutdown # "none" THEN Result("failed", c)
    ELSE IF c.bioClosed THEN BIOClosed(c)
    ELSE CASE c.verify = "pendingResult"       -> Result("incomplete", c)
           [] c.verify = "failed"              -> Result("failed", HandshakeError(c))
           [] c.verify = "certificateVerified" -> FinishFlight(c)
           [] c.verify = "notStarted"          -> ReadFlight(StartHandshake(c))

-----------------------------------------------------------------------------
(***************************************************************************)
(* SSL_shutdown: exactly one action per call, first sending close_notify,  *)
(* then waiting for the peer's.                                            *)
(***************************************************************************)
SendCloseNotify(c) ==
    IF c.writeShutdown = "error" THEN Result("failed", c)
    ELSE IF c.bioClosed THEN BIOClosed([c EXCEPT !.writeShutdown = "closeNotify"])
    ELSE Result(IF c.readShutdown = "closeNotify" THEN "complete" ELSE "incomplete",
                [Send(c, Rec("closeNotify")) EXCEPT !.writeShutdown = "closeNotify"])

AwaitCloseNotify(c) ==
    IF c.readShutdown = "closeNotify" THEN Result("complete", c)
    ELSE IF c.readShutdown = "error" THEN Result("failed", c)
    ELSE IF c.bioClosed THEN BIOClosed(c)
    ELSE IF c.inbound = <<>> THEN WantRead(c)
    ELSE CASE Head(c.inbound).kind = "closeNotify"
                -> Result("complete", [Consume(c) EXCEPT !.readShutdown = "closeNotify"])
           [] Head(c.inbound).kind = "data"   \* APPLICATION_DATA_ON_SHUTDOWN
                -> Result("failed", RetryRead(c, FALSE))
           [] OTHER
                -> Result("failed", [Refuse(c) EXCEPT !.readShutdown = "error"])

\* Mutant of DoShutdown: every call writes its own close_notify.
DoShutdownResending(c) == IF c.inInit THEN Result("complete", c) ELSE SendCloseNotify(c)

DoShutdown(c) ==
    IF c.inInit THEN Result("complete", c)
    ELSE IF c.writeShutdown # "closeNotify" THEN SendCloseNotify(c)
    ELSE AwaitCloseNotify(c)

-----------------------------------------------------------------------------
(***************************************************************************)
(* SSL_read until it stops yielding: the data records at the head of the   *)
(* input, and the reason why the reading stopped.                          *)
(***************************************************************************)
DataPrefix(s) == Cardinality({k \in 1..Len(s) : \A i \in 1..k : s[i].kind = "data"})

ReadableData(c) == IF c.readShutdown # "none" \/ c.bioClosed THEN <<>>
                   ELSE SubSeq(c.inbound, 1, DataPrefix(c.inbound))

ReadData(c) ==
    LET t == [c EXCEPT !.inbound = SubSeq(@, DataPrefix(@) + 1, Len(@))]
    IN  IF c.readShutdown = "closeNotify" THEN Result("zeroReturn", c)
        ELSE IF c.readShutdown = "error" THEN Result("failed", c)
        ELSE IF c.bioClosed THEN BIOClosed(c)
        ELSE IF t.inbound = <<>> THEN WantRead(t)
        ELSE IF Head(t.inbound).kind = "closeNotify"
             THEN Result("zeroReturn", [Consume(t) EXCEPT !.readShutdown = "closeNotify"])
             ELSE Result("failed", [Refuse(t) EXCEPT !.readShutdown = "error"])

-----------------------------------------------------------------------------
(***************************************************************************)
(* SSL_write completes the handshake first when it has to.  Only WANT_READ *)
(* is .incomplete: waiting for a user callback is an error here.           *)
(***************************************************************************)
BeforeWrite(c) ==
    LET h == DoHandshake(c)
    IN  IF h.res = "complete"
        THEN IF h.conn.writeShutdown = "none" /\ h.conn.bioClosed THEN BIOClosed(h.conn)
             ELSE Result(IF h.conn.writeShutdown # "none" THEN "failed" ELSE "complete", h.conn)
        ELSE IF h.res = "incomplete" /\ h.conn.verify # "pendingResult"
             THEN h
             ELSE Result("failed", h.conn)

-----------------------------------------------------------------------------
\* ByteBufferBIO: what the channel reads is queued, what BoringSSL has
\* written is taken at once, and bytes nobody consumed can be evacuated.
ConsumeDataFromNetwork(c, recs) == [c EXCEPT !.inbound = @ \o recs]
GetDataForNetwork(c) == [c EXCEPT !.outbound = <<>>]
ExtractUnconsumedData(c) == [c EXCEPT !.inbound = <<>>]
\* Mutant of CloseConnection: it drops the data stored by the BIO.
CloseDropping(c) == [c EXCEPT !.bioClosed = TRUE, !.inbound = <<>>]
CloseConnection(c) == [c EXCEPT !.bioClosed = TRUE]

\* The user callback answers: CustomVerifyManager.process sees the result the
\* next time BoringSSL asks.
SetVerification(c, r) == [c EXCEPT !.verify = r]
=============================================================================
