-------------------------- MODULE HandshakeProofs ---------------------------
(***************************************************************************)
(* What holds of every handshake, for every pair of configurations, every  *)
(* size of records and certificates and every limit on KeyUpdates: type    *)
(* correctness, Authenticated, AskedOnce, NothingHeldBack and              *)
(* NothingLeftOver.                                                        *)
(*                                                                         *)
(* Each function of the four state machines, and each operation of the     *)
(* established connection, has a lemma: from an endpoint that is in order  *)
(* (Good) it makes one that is.  The theorems are at the end.              *)
(***************************************************************************)
EXTENDS HandshakeLayerProofs

-----------------------------------------------------------------------------
(***************************************************************************)
(* ssl_client_handshake.                                                   *)
(***************************************************************************)
\* do_read_server_certificate.
LEMMA C12ReadServerCertificate ==
    ASSUME NEW e, NEW g, Turn(e, g, "client", "read_server_certificate")
    PROVE  Steps(e, C12!do_read_server_certificate(e), g)
<1> DEFINE f == To(Take([e EXCEPT !.peer = Message(e).cert]), "verify_server_certificate")
           then == IF Message(e).cert = "none" THEN Alert(HashMessage(e), "decode_error") ELSE f
<1>1. C12!do_read_server_certificate(e) = Expect(e, "certificate", then)
  BY Zenon DEF C12!do_read_server_certificate, To, Take, NextMessage, Units, Message,
       HashMessage, Alert, FlushFlight, FlushPendingHsData, Records, Record, Error, HasMessage,
       Expect, Wait, C12!To, C12!Take, C12!NextMessage, C12!Units, C12!Message, C12!HashMessage,
       C12!Alert, C12!FlushFlight, C12!FlushPendingHsData, C12!Records, C12!Record, C12!Error,
       C12!HasMessage, C12!Expect, C12!Wait
<1>2. /\ Good(e, g) /\ DOMAIN e = Fields /\ Wire(e, g) /\ g.side = "server"
      /\ e.side = "client" /\ Peer(e.side) = "server" /\ e.wait = "ok"
      /\ e.state = "read_server_certificate" /\ ClientTrust(e, g)
      /\ Unsigned(e) /\ ~Writing(e) /\ ~HelloHeld(e) /\ ~Emptied(e) /\ MayRead(e)
  BY TurnFacts DEF MayRead, Emptied, HelloHeld, Writing, Unsigned, At, Good, Trust, Peer
<1>3. ASSUME HasMessage(e), Message(e).type = "certificate", Message(e).cert # "none" PROVE Steps(e, f, g)
  <2>1. Same(e, f, {"peer", "transcript", "hs_buf", "state"})
    BY <1>2, Zenon DEF Same, To, Take, NextMessage, HashMessage
  <2>2. /\ f.peer = Message(e).cert /\ f.state = "verify_server_certificate"
        /\ f.hs_buf = NextMessage(e).hs_buf
    BY <1>2, <1>3, SMT DEF To, Take, NextMessage, HashMessage, Message, Fields
  <2> HIDE DEF f
  <2>3. Sound(Message(e), g) /\ SoundUnits(f.hs_buf, g) /\ (~Excess(e) => f.hs_buf = <<>>)
    BY <1>2, <1>3, <2>2, OnMessage DEF Wire, Carries
  <2>4. /\ ClientTrust(f, g) /\ (Unsigned(f) => Unsigned(e))
        /\ ~Emptied(f) /\ ~HelloHeld(f)
    BY <1>2, <1>3, <2>1, <2>2, <2>3, SMT DEF Same, Fields, ClientTrust, Proved12, Proved13,
         Accepted, Judged, At, Unsigned, Emptied, HelloHeld, Sound
  <2>5. /\ f.version \in {0, 12, 13} /\ f.session_reused \in BOOLEAN
        /\ f.used_hello_retry_request \in BOOLEAN /\ f.cert_request \in BOOLEAN
        /\ f.ticket_expected \in BOOLEAN /\ f.key_share \in 0..2
        /\ f.peer \in {"none", "server"} /\ f.state # "done"
        /\ f.wait = "ok"
    BY <1>2, <1>3, <2>1, <2>2, <2>3, SMT DEF Same, Fields, Good, Typed, Sound
  <2>6. Same(e, f, Readable)
    BY <2>1, SameWider DEF Readable
  <2> QED BY <1>2, <2>2, <2>3, <2>4, <2>5, <2>6, GoodRead
<1> HIDE DEF f
<1>4. ASSUME HasMessage(e), Message(e).type = "certificate" PROVE Steps(e, then, g)
  BY <1>2, <1>3, <1>4, GoodHashAlert
<1> QED BY <1>1, <1>2, <1>4, GoodExpect

\* do_verify_server_certificate.
LEMMA C12VerifyServerCertificate ==
    ASSUME NEW e, NEW g, Turn(e, g, "client", "verify_server_certificate")
    PROVE  Steps(e, C12!do_verify_server_certificate(e), g)
<1> DEFINE f == To(e, "read_server_key_exchange")
<1>1. C12!do_verify_server_certificate(e) = AfterVerify(e, f)
  BY Zenon DEF C12!do_verify_server_certificate, To, AfterVerify, Alert, FlushFlight,
       FlushPendingHsData, Records, Record, Error, HasMessage, Units, Message, Wait, C12!To,
       C12!AfterVerify, C12!Alert, C12!FlushFlight, C12!FlushPendingHsData, C12!Records,
       C12!Record, C12!Error, C12!HasMessage, C12!Units, C12!Message, C12!Wait
<1>2. /\ Good(e, g) /\ DOMAIN e = Fields /\ Wire(e, g) /\ g.side = "server"
      /\ e.side = "client" /\ Peer(e.side) = "server" /\ e.wait = "ok"
      /\ e.state = "verify_server_certificate" /\ ClientTrust(e, g)
      /\ Unsigned(e) /\ ~Writing(e) /\ ~HelloHeld(e) /\ ~Emptied(e) /\ MayRead(e)
  BY TurnFacts DEF MayRead, Emptied, HelloHeld, Writing, Unsigned, At, Good, Trust, Peer
<1>3. ASSUME Judged(e) PROVE Steps(e, f, g)
  <2>1. Same(e, f, {"state"})
    BY <1>2, Zenon DEF Same, To
  <2>2. f.state = "read_server_key_exchange"
    BY <1>2, <1>3, SMT DEF To, Message, Fields
  <2> HIDE DEF f
  <2>3. SoundUnits(f.hs_buf, g) /\ f.hs_buf = e.hs_buf
    BY <1>2, <2>1 DEF Same, Fields, Wire, Carries
  <2>4. /\ ClientTrust(f, g) /\ (Unsigned(f) => Unsigned(e))
        /\ ~Emptied(f) /\ ~HelloHeld(f)
    BY <1>2, <1>3, <2>1, <2>2, <2>3, SMT DEF Same, Fields, ClientTrust, Proved12, Proved13,
         Accepted, Judged, At, Unsigned, Emptied, HelloHeld
  <2>5. /\ f.version \in {0, 12, 13} /\ f.session_reused \in BOOLEAN
        /\ f.used_hello_retry_request \in BOOLEAN /\ f.cert_request \in BOOLEAN
        /\ f.ticket_expected \in BOOLEAN /\ f.key_share \in 0..2
        /\ f.peer \in {"none", "server"} /\ f.state # "done"
        /\ f.wait = "ok"
    BY <1>2, <1>3, <2>1, <2>2, <2>3, SMT DEF Same, Fields, Good, Typed
  <2>6. Same(e, f, Readable)
    BY <2>1, SameWider DEF Readable
  <2> QED BY <1>2, <2>2, <2>3, <2>4, <2>5, <2>6, GoodRead
<1> HIDE DEF f
<1> QED BY <1>1, <1>2, <1>3, GoodAfterVerify

\* do_read_server_key_exchange.
LEMMA C12ReadServerKeyExchange ==
    ASSUME NEW e, NEW g, Turn(e, g, "client", "read_server_key_exchange")
    PROVE  Steps(e, C12!do_read_server_key_exchange(e), g)
<1> DEFINE f == To(Take([e EXCEPT !.key_share = Message(e).group]), "read_certificate_request")
           then == IF \A i \in 1..Len(e.cfg.groups) : e.cfg.groups[i] # Message(e).group
                   THEN Alert(HashMessage(e), "illegal_parameter")
                   ELSE IF ~SignedBy(Message(e), e, SubSeq(e.transcript, 1, 2))
                   THEN Alert(HashMessage(e), "decrypt_error") ELSE f
<1>1. C12!do_read_server_key_exchange(e) = Expect(e, "server_key_exchange", then)
  BY Zenon DEF C12!do_read_server_key_exchange, To, Take, NextMessage, Units, Message,
       HashMessage, Alert, FlushFlight, FlushPendingHsData, Records, Record, Error, HasMessage,
       SignedBy, Expect, Wait, C12!To, C12!Take, C12!NextMessage, C12!Units, C12!Message,
       C12!HashMessage, C12!Alert, C12!FlushFlight, C12!FlushPendingHsData, C12!Records,
       C12!Record, C12!Error, C12!HasMessage, C12!SignedBy, C12!Expect, C12!Wait
<1>2. /\ Good(e, g) /\ DOMAIN e = Fields /\ Wire(e, g) /\ g.side = "server"
      /\ e.side = "client" /\ Peer(e.side) = "server" /\ e.wait = "ok"
      /\ e.state = "read_server_key_exchange" /\ ClientTrust(e, g)
      /\ Unsigned(e) /\ ~Writing(e) /\ ~HelloHeld(e) /\ ~Emptied(e) /\ MayRead(e)
  BY TurnFacts DEF MayRead, Emptied, HelloHeld, Writing, Unsigned, At, Good, Trust, Peer
<1>3. ASSUME HasMessage(e), Message(e).type = "server_key_exchange" PROVE Steps(e, f, g)
  <2>1. Same(e, f, {"key_share", "transcript", "hs_buf", "state"})
    BY <1>2, Zenon DEF Same, To, Take, NextMessage, HashMessage
  <2>2. /\ f.key_share = Message(e).group /\ f.state = "read_certificate_request"
        /\ f.hs_buf = NextMessage(e).hs_buf
    BY <1>2, <1>3, SMT DEF To, Take, NextMessage, HashMessage, Message, Fields
  <2> HIDE DEF f
  <2>3. Sound(Message(e), g) /\ SoundUnits(f.hs_buf, g) /\ (~Excess(e) => f.hs_buf = <<>>)
    BY <1>2, <1>3, <2>2, OnMessage DEF Wire, Carries
  <2>4. /\ ClientTrust(f, g) /\ (Unsigned(f) => Unsigned(e))
        /\ ~Emptied(f) /\ ~HelloHeld(f)
    BY <1>2, <1>3, <2>1, <2>2, <2>3, SMT DEF Same, Fields, ClientTrust, Proved12, Proved13,
         Accepted, Judged, At, Unsigned, Emptied, HelloHeld, Sound
  <2>5. /\ f.version \in {0, 12, 13} /\ f.session_reused \in BOOLEAN
        /\ f.used_hello_retry_request \in BOOLEAN /\ f.cert_request \in BOOLEAN
        /\ f.ticket_expected \in BOOLEAN /\ f.key_share \in 0..2
        /\ f.peer \in {"none", "server"} /\ f.state # "done"
        /\ f.wait = "ok"
    BY <1>2, <1>3, <2>1, <2>2, <2>3, SMT DEF Same, Fields, Good, Typed, Sound
  <2>6. Same(e, f, Readable)
    BY <2>1, SameWider DEF Readable
  <2> QED BY <1>2, <2>2, <2>3, <2>4, <2>5, <2>6, GoodRead
<1> HIDE DEF f
<1>4. ASSUME HasMessage(e), Message(e).type = "server_key_exchange" PROVE Steps(e, then, g)
  BY <1>2, <1>3, <1>4, GoodHashAlert
<1> QED BY <1>1, <1>2, <1>4, GoodExpect

\* do_read_certificate_request.
LEMMA C12ReadCertificateRequest ==
    ASSUME NEW e, NEW g, Turn(e, g, "client", "read_certificate_request")
    PROVE  Steps(e, C12!do_read_certificate_request(e), g)
<1> DEFINE f == To(e, "read_server_hello_done")
           h == To(Take([e EXCEPT !.cert_request = TRUE]), "read_server_hello_done")
<1>1. C12!do_read_certificate_request(e) = IF HasMessage(e) /\ Message(e).type = "server_hello_done" THEN f
                                              ELSE Expect(e, "certificate_request", h)
  BY Zenon DEF C12!do_read_certificate_request, To, Take, NextMessage, Units, Message,
       HashMessage, HasMessage, Expect, Wait, Alert, FlushFlight, FlushPendingHsData, Records,
       Record, Error, C12!To, C12!Take, C12!NextMessage, C12!Units, C12!Message,
       C12!HashMessage, C12!HasMessage, C12!Expect, C12!Wait, C12!Alert, C12!FlushFlight,
       C12!FlushPendingHsData, C12!Records, C12!Record, C12!Error
<1>2. /\ Good(e, g) /\ DOMAIN e = Fields /\ Wire(e, g) /\ g.side = "server"
      /\ e.side = "client" /\ Peer(e.side) = "server" /\ e.wait = "ok"
      /\ e.state = "read_certificate_request" /\ ClientTrust(e, g)
      /\ Unsigned(e) /\ ~Writing(e) /\ ~HelloHeld(e) /\ ~Emptied(e) /\ MayRead(e)
  BY TurnFacts DEF MayRead, Emptied, HelloHeld, Writing, Unsigned, At, Good, Trust, Peer
<1>3. Steps(e, f, g)
  <2>1. Same(e, f, {"state"})
    BY <1>2, Zenon DEF Same, To
  <2>2. f.state = "read_server_hello_done"
    BY <1>2, SMT DEF To, Message, Fields
  <2> HIDE DEF f
  <2>3. SoundUnits(f.hs_buf, g) /\ f.hs_buf = e.hs_buf
    BY <1>2, <2>1 DEF Same, Fields, Wire, Carries
  <2>4. /\ ClientTrust(f, g) /\ (Unsigned(f) => Unsigned(e))
        /\ ~Emptied(f) /\ ~HelloHeld(f)
    BY <1>2, <2>1, <2>2, <2>3, SMT DEF Same, Fields, ClientTrust, Proved12, Proved13, Accepted,
         Judged, At, Unsigned, Emptied, HelloHeld
  <2>5. /\ f.version \in {0, 12, 13} /\ f.session_reused \in BOOLEAN
        /\ f.used_hello_retry_request \in BOOLEAN /\ f.cert_request \in BOOLEAN
        /\ f.ticket_expected \in BOOLEAN /\ f.key_share \in 0..2
        /\ f.peer \in {"none", "server"} /\ f.state # "done"
        /\ f.wait = "ok"
    BY <1>2, <2>1, <2>2, <2>3, SMT DEF Same, Fields, Good, Typed
  <2>6. Same(e, f, Readable)
    BY <2>1, SameWider DEF Readable
  <2> QED BY <1>2, <2>2, <2>3, <2>4, <2>5, <2>6, GoodRead
<1>4. ASSUME HasMessage(e), Message(e).type = "certificate_request" PROVE Steps(e, h, g)
  <2>1. Same(e, h, {"cert_request", "transcript", "hs_buf", "state"})
    BY <1>2, Zenon DEF Same, To, Take, NextMessage, HashMessage
  <2>2. /\ h.cert_request \in BOOLEAN /\ h.state = "read_server_hello_done"
        /\ h.hs_buf = NextMessage(e).hs_buf
    BY <1>2, <1>4, SMT DEF To, Take, NextMessage, HashMessage, Message, Fields
  <2> HIDE DEF h
  <2>3. Sound(Message(e), g) /\ SoundUnits(h.hs_buf, g) /\ (~Excess(e) => h.hs_buf = <<>>)
    BY <1>2, <1>4, <2>2, OnMessage DEF Wire, Carries
  <2>4. /\ ClientTrust(h, g) /\ (Unsigned(h) => Unsigned(e))
        /\ ~Emptied(h) /\ ~HelloHeld(h)
    BY <1>2, <1>4, <2>1, <2>2, <2>3, SMT DEF Same, Fields, ClientTrust, Proved12, Proved13,
         Accepted, Judged, At, Unsigned, Emptied, HelloHeld, Sound
  <2>5. /\ h.version \in {0, 12, 13} /\ h.session_reused \in BOOLEAN
        /\ h.used_hello_retry_request \in BOOLEAN /\ h.cert_request \in BOOLEAN
        /\ h.ticket_expected \in BOOLEAN /\ h.key_share \in 0..2
        /\ h.peer \in {"none", "server"} /\ h.state # "done"
        /\ h.wait = "ok"
    BY <1>2, <1>4, <2>1, <2>2, <2>3, SMT DEF Same, Fields, Good, Typed, Sound
  <2>6. Same(e, h, Readable)
    BY <2>1, SameWider DEF Readable
  <2> QED BY <1>2, <2>2, <2>3, <2>4, <2>5, <2>6, GoodRead
<1> HIDE DEF f, h
<1>5. Steps(e, Expect(e, "certificate_request", h), g)
  BY <1>2, <1>4, GoodExpect
<1> QED BY <1>1, <1>3, <1>5

\* do_read_server_hello_done.
LEMMA C12ReadServerHelloDone ==
    ASSUME NEW e, NEW g, Turn(e, g, "client", "read_server_hello_done")
    PROVE  Steps(e, C12!do_read_server_hello_done(e), g)
<1> DEFINE f == To(Take(e), "send_client_certificate")
           then == IF Excess(e) THEN Alert(HashMessage(e), "unexpected_message") ELSE f
<1>1. C12!do_read_server_hello_done(e) = Expect(e, "server_hello_done", then)
  BY Zenon DEF C12!do_read_server_hello_done, To, Take, NextMessage, Units, Message,
       HashMessage, Excess, Alert, FlushFlight, FlushPendingHsData, Records, Record, Error,
       HasMessage, Expect, Wait, C12!To, C12!Take, C12!NextMessage, C12!Units, C12!Message,
       C12!HashMessage, C12!Excess, C12!Alert, C12!FlushFlight, C12!FlushPendingHsData,
       C12!Records, C12!Record, C12!Error, C12!HasMessage, C12!Expect, C12!Wait
<1>2. /\ Good(e, g) /\ DOMAIN e = Fields /\ Wire(e, g) /\ g.side = "server"
      /\ e.side = "client" /\ Peer(e.side) = "server" /\ e.wait = "ok"
      /\ e.state = "read_server_hello_done" /\ ClientTrust(e, g)
      /\ Unsigned(e) /\ ~Writing(e) /\ ~HelloHeld(e) /\ ~Emptied(e) /\ MayRead(e)
  BY TurnFacts DEF MayRead, Emptied, HelloHeld, Writing, Unsigned, At, Good, Trust, Peer
<1>3. ASSUME HasMessage(e) PROVE Steps(e, f, g)
  <2>1. Same(e, f, {"transcript", "hs_buf", "state"})
    BY <1>2, Zenon DEF Same, To, Take, NextMessage, HashMessage
  <2>2. /\ f.state = "send_client_certificate"
        /\ f.hs_buf = NextMessage(e).hs_buf
    BY <1>2, <1>3, SMT DEF To, Take, NextMessage, HashMessage, Message, Fields
  <2> HIDE DEF f
  <2>3. Sound(Message(e), g) /\ SoundUnits(f.hs_buf, g) /\ (~Excess(e) => f.hs_buf = <<>>)
    BY <1>2, <1>3, <2>2, OnMessage DEF Wire, Carries
  <2>4. /\ ClientTrust(f, g) /\ (Unsigned(f) => Unsigned(e))
        /\ ~Emptied(f) /\ ~HelloHeld(f)
    BY <1>2, <1>3, <2>1, <2>2, <2>3, SMT DEF Same, Fields, ClientTrust, Proved12, Proved13,
         Accepted, Judged, At, Unsigned, Emptied, HelloHeld, Sound
  <2>5. /\ f.version \in {0, 12, 13} /\ f.session_reused \in BOOLEAN
        /\ f.used_hello_retry_request \in BOOLEAN /\ f.cert_request \in BOOLEAN
        /\ f.ticket_expected \in BOOLEAN /\ f.key_share \in 0..2
        /\ f.peer \in {"none", "server"} /\ f.state # "done"
        /\ f.wait = "ok"
    BY <1>2, <1>3, <2>1, <2>2, <2>3, SMT DEF Same, Fields, Good, Typed, Sound
  <2>6. Same(e, f, Readable)
    BY <2>1, SameWider DEF Readable
  <2> QED BY <1>2, <2>2, <2>3, <2>4, <2>5, <2>6, GoodRead
<1> HIDE DEF f
<1>4. ASSUME HasMessage(e) PROVE Steps(e, then, g)
  BY <1>2, <1>3, <1>4, GoodHashAlert
<1> QED BY <1>1, <1>2, <1>4, GoodExpect

\* do_send_client_certificate.
LEMMA C12SendClientCertificate ==
    ASSUME NEW e, NEW g, Turn(e, g, "client", "send_client_certificate")
    PROVE  Steps(e, C12!do_send_client_certificate(e), g)
<1> DEFINE d == AddMessage(e, Certificate(e))
           f == To(d, "send_client_key_exchange")
           h == To(e, "send_client_key_exchange")
<1>1. C12!do_send_client_certificate(e) = IF ~e.cert_request THEN h ELSE f
  BY Zenon DEF C12!do_send_client_certificate, AddMessage, NullKey, Records, Record, Units,
       Certificate, To, C12!AddMessage, C12!NullKey, C12!Records, C12!Record, C12!Units,
       C12!Certificate, C12!To
<1>2. /\ Good(e, g) /\ DOMAIN e = Fields /\ Wire(e, g) /\ g.side = "server"
      /\ e.side = "client" /\ Peer(e.side) = "server" /\ e.wait = "ok"
      /\ e.state = "send_client_certificate" /\ ClientTrust(e, g)
      /\ Unsigned(e) /\ ~Writing(e) /\ ~HelloHeld(e) /\ ~Emptied(e) /\ MayRead(e)
  BY TurnFacts DEF MayRead, Emptied, HelloHeld, Writing, Unsigned, At, Good, Trust, Peer
<1>3. Steps(e, f, g)
  <2>1. Draft(e, d, g)
    <3>1. Sound(Certificate(e), e)
      BY DEF Sound, Certificate
    <3>2. Draft(e, d, g)
      BY <1>2, <3>1, DraftStart, DraftAddMessage
    <3> QED BY <3>2
  <2>2. Same(d, f, {"state"}) /\ f.state = "send_client_key_exchange"
    BY <1>2, <2>1, DraftWire, Zenon DEF Same, Fields, To, To13, Wait
  <2> HIDE DEF f, d
  <2>3. Same(d, f, Ending)
    BY <2>2, SameWider DEF Ending
  <2>4. /\ ClientTrust(f, g) /\ (Unsigned(f) => Unsigned(e))
        /\ ~Emptied(f) /\ ~HelloHeld(f) /\ (Writing(f) \/ f.wait = "flush" \/ Quiet(d))
        /\ f.wait = "ok" /\ f.cert_request = e.cert_request
        /\ f.used_hello_retry_request = e.used_hello_retry_request
    BY <1>2, <2>1, <2>2, <2>3, OnWrite DEF Draft, Written, Same, Fields, ClientTrust, Proved12,
         Proved13, Accepted, Judged, At, Unsigned, Emptied, HelloHeld, Writing
  <2>5. /\ f.used_hello_retry_request \in BOOLEAN /\ f.cert_request \in BOOLEAN
        /\ f.state # "done" /\ f.wait \in {"ok", "flush"}
    BY <1>2, <2>2, <2>4 DEF Good, Typed, Same, Fields
  <2> QED BY <1>2, <2>1, <2>2, <2>3, <2>4, <2>5, GoodSend
<1>4. Steps(e, h, g)
  <2>1. Same(e, h, {"state"})
    BY <1>2, Zenon DEF Same, To
  <2>2. h.state = "send_client_key_exchange"
    BY <1>2, SMT DEF To, Message, Fields
  <2> HIDE DEF h
  <2>3. SoundUnits(h.hs_buf, g) /\ h.hs_buf = e.hs_buf
    BY <1>2, <2>1 DEF Same, Fields, Wire, Carries
  <2>4. /\ ClientTrust(h, g) /\ (Unsigned(h) => Unsigned(e))
        /\ ~Emptied(h) /\ ~HelloHeld(h)
    BY <1>2, <2>1, <2>2, <2>3, SMT DEF Same, Fields, ClientTrust, Proved12, Proved13, Accepted,
         Judged, At, Unsigned, Emptied, HelloHeld
  <2>5. /\ h.version \in {0, 12, 13} /\ h.session_reused \in BOOLEAN
        /\ h.used_hello_retry_request \in BOOLEAN /\ h.cert_request \in BOOLEAN
        /\ h.ticket_expected \in BOOLEAN /\ h.key_share \in 0..2
        /\ h.peer \in {"none", "server"} /\ h.state # "done"
        /\ h.wait = "ok"
    BY <1>2, <2>1, <2>2, <2>3, SMT DEF Same, Fields, Good, Typed
  <2>6. Same(e, h, Readable)
    BY <2>1, SameWider DEF Readable
  <2> QED BY <1>2, <2>2, <2>3, <2>4, <2>5, <2>6, GoodRead
<1> HIDE DEF f, h
<1> QED BY <1>1, <1>3, <1>4

\* do_send_client_key_exchange.
LEMMA C12SendClientKeyExchange ==
    ASSUME NEW e, NEW g, Turn(e, g, "client", "send_client_key_exchange")
    PROVE  Steps(e, C12!do_send_client_key_exchange(e), g)
<1> DEFINE m == [type |-> "client_key_exchange", group |-> e.key_share]
           d == AddMessage(e, m)
           f == To([d EXCEPT !.secret = [psk |-> FALSE, dhe |-> d.key_share, transcript |-> d.transcript]],
                   "send_client_certificate_verify")
<1>1. C12!do_send_client_key_exchange(e) = f
  BY Zenon DEF C12!do_send_client_key_exchange, AddMessage, NullKey, Records, Record, Units, To,
       C12!AddMessage, C12!NullKey, C12!Records, C12!Record, C12!Units, C12!To
<1>2. /\ Good(e, g) /\ DOMAIN e = Fields /\ Wire(e, g) /\ g.side = "server"
      /\ e.side = "client" /\ Peer(e.side) = "server" /\ e.wait = "ok"
      /\ e.state = "send_client_key_exchange" /\ ClientTrust(e, g)
      /\ Unsigned(e) /\ Writing(e) /\ ~HelloHeld(e) /\ ~Emptied(e)
  BY TurnFacts DEF MayRead, Emptied, HelloHeld, Writing, Unsigned, At, Good, Trust, Peer
<1>3. Steps(e, f, g)
  <2>1. Draft(e, d, g)
    <3>1. Sound(m, e)
      BY DEF Sound
    <3>2. Draft(e, d, g)
      BY <1>2, <3>1, DraftStart, DraftAddMessage
    <3> QED BY <3>2
  <2>2. Same(d, f, {"secret", "state"}) /\ f.state = "send_client_certificate_verify"
    BY <1>2, <2>1, DraftWire, Zenon DEF Same, Fields, To, To13, Wait
  <2> HIDE DEF f, d
  <2>3. Same(d, f, Ending)
    BY <2>2, SameWider DEF Ending
  <2>4. /\ ClientTrust(f, g) /\ (Unsigned(f) => Unsigned(e))
        /\ ~Emptied(f) /\ ~HelloHeld(f) /\ (Writing(f) \/ f.wait = "flush" \/ Quiet(d))
        /\ f.wait = "ok" /\ f.cert_request = e.cert_request
        /\ f.used_hello_retry_request = e.used_hello_retry_request
    BY <1>2, <2>1, <2>2, <2>3, OnWrite DEF Draft, Written, Same, Fields, ClientTrust, Proved12,
         Proved13, Accepted, Judged, At, Unsigned, Emptied, HelloHeld, Writing
  <2>5. /\ f.used_hello_retry_request \in BOOLEAN /\ f.cert_request \in BOOLEAN
        /\ f.state # "done" /\ f.wait \in {"ok", "flush"}
    BY <1>2, <2>2, <2>4 DEF Good, Typed, Same, Fields
  <2> QED BY <1>2, <2>1, <2>2, <2>3, <2>4, <2>5, GoodSend
<1> HIDE DEF f
<1> QED BY <1>1, <1>3

\* do_send_client_certificate_verify.
LEMMA C12SendClientCertificateVerify ==
    ASSUME NEW e, NEW g, Turn(e, g, "client", "send_client_certificate_verify")
    PROVE  Steps(e, C12!do_send_client_certificate_verify(e), g)
<1> DEFINE f == To(e, "send_client_finished")
           then == To(AddMessage(e, CertificateVerify(e)), "send_client_finished")
<1>1. C12!do_send_client_certificate_verify(e) = IF ~e.cert_request \/ ~e.cfg.cert THEN f
                                                    ELSE AfterSign(e, then)
  BY Zenon DEF C12!do_send_client_certificate_verify, To, AddMessage, NullKey, Records, Record,
       Units, CertificateVerify, AfterSign, Error, Wait, C12!To, C12!AddMessage, C12!NullKey,
       C12!Records, C12!Record, C12!Units, C12!CertificateVerify, C12!AfterSign, C12!Error,
       C12!Wait
<1>2. /\ Good(e, g) /\ DOMAIN e = Fields /\ Wire(e, g) /\ g.side = "server"
      /\ e.side = "client" /\ Peer(e.side) = "server" /\ e.wait = "ok"
      /\ e.state = "send_client_certificate_verify" /\ ClientTrust(e, g)
      /\ Unsigned(e) /\ Writing(e) /\ ~HelloHeld(e) /\ ~Emptied(e)
  BY TurnFacts DEF MayRead, Emptied, HelloHeld, Writing, Unsigned, At, Good, Trust, Peer
<1>3. /\ then.state # "done"
      /\ Same(e, then, {"pending_flight", "pending_hs_data", "transcript", "state", "tls13_state"})
      /\ then.state = "send_client_finished"
  <2> DEFINE d == AddMessage(e, CertificateVerify(e))
  <2>1. Same(e, d, {"pending_flight", "pending_hs_data", "transcript"})
    BY <1>2, Zenon DEF Same, AddMessage
  <2>2. Same(d, then, {"state"}) /\ then.state = "send_client_finished"
    BY <2>1, Zenon DEF Same, To, To13, Fields
  <2> HIDE DEF d, then
  <2>3. Same(e, then, {"pending_flight", "pending_hs_data", "transcript"} \cup {"state"})
    BY <2>1, <2>2, SameTrans
  <2>4. then.state # "done"
    BY <1>2, <2>1, <2>2 DEF Same, Fields
  <2> QED BY <2>2, <2>3, <2>4, SameWider
<1>4. ASSUME NEW o, Grows(e, o), Signed(o) PROVE Carries(then, o, g)
  <2> DEFINE d == AddMessage(e, CertificateVerify(e))
  <2>1. Sound(CertificateVerify(e), o)
    BY <1>2, <1>4 DEF Sound, CertificateVerify, Grows, Good, Typed
  <2>2. Same(e, d, {"pending_flight", "pending_hs_data", "transcript"}) /\ Carries(d, o, g)
    BY <1>2, <1>4, <2>1, OnAddMessage
  <2>3. Same(d, then, {"state"})
    BY <2>2, Zenon DEF Same, To, To13
  <2> HIDE DEF d, then
  <2>4. /\ then.pending_hs_data = d.pending_hs_data /\ then.pending_flight = d.pending_flight
        /\ then.outbound = d.outbound /\ then.inbound = d.inbound /\ then.hs_buf = d.hs_buf
    BY <2>3 DEF Same, Fields
  <2> QED BY <2>2, <2>4, Zenon DEF Carries
<1> HIDE DEF then
<1>5. /\ ClientTrust(then, g) /\ ~Unsigned(then) /\ Writing(then) /\ ~Emptied(then)
      /\ ~HelloHeld(then) /\ then.wait = "ok"
  BY <1>2, <1>3, SMT DEF Same, Fields, ClientTrust, Proved12, Proved13, Accepted, Judged, At,
       Unsigned, Emptied, HelloHeld, Writing
<1>6. Buffers(then)
  BY <1>5 DEF Buffers, Reading
<1>7. Steps(e, AfterSign(e, then), g)
  BY <1>2, <1>3, <1>4, <1>5, <1>6, GoodAfterSign
<1>8. Steps(e, f, g)
  <2>1. Draft(e, e, g)
    <3>1. Draft(e, e, g)
      BY <1>2, DraftStart
    <3> QED BY <3>1
  <2>2. Same(e, f, {"state"}) /\ f.state = "send_client_finished"
    BY <1>2, <2>1, DraftWire, Zenon DEF Same, Fields, To, To13, Wait
  <2> HIDE DEF f
  <2>3. Same(e, f, Ending)
    BY <2>2, SameWider DEF Ending
  <2>4. /\ ClientTrust(f, g) /\ (Unsigned(f) => Unsigned(e))
        /\ ~Emptied(f) /\ ~HelloHeld(f) /\ (Writing(f) \/ f.wait = "flush" \/ Quiet(e))
        /\ f.wait = "ok" /\ f.cert_request = e.cert_request
        /\ f.used_hello_retry_request = e.used_hello_retry_request
    BY <1>2, <2>1, <2>2, <2>3, OnWrite DEF Draft, Written, Same, Fields, ClientTrust, Proved12,
         Proved13, Accepted, Judged, At, Unsigned, Emptied, HelloHeld, Writing
  <2>5. /\ f.used_hello_retry_request \in BOOLEAN /\ f.cert_request \in BOOLEAN
        /\ f.state # "done" /\ f.wait \in {"ok", "flush"}
    BY <1>2, <2>2, <2>4 DEF Good, Typed, Same, Fields
  <2> QED BY <1>2, <2>1, <2>2, <2>3, <2>4, <2>5, GoodSend
<1> HIDE DEF f
<1> QED BY <1>1, <1>7, <1>8

\* do_send_client_finished.
LEMMA C12SendClientFinished ==
    ASSUME NEW e, NEW g, Turn(e, g, "client", "send_client_finished")
    PROVE  Steps(e, C12!do_send_client_finished(e), g)
<1> DEFINE a == AddChangeCipherSpec(e)
           b == SetWriteKey(a, C12!key(e, "client"))
           d == AddMessage(b, Finished("client", b))
           f == Wait(To(d, "finish_flight"), "flush")
<1>1. C12!do_send_client_finished(e) = f
  BY Zenon DEF C12!do_send_client_finished, AddChangeCipherSpec, FlushPendingHsData, Records,
       Record, SetWriteKey, AddMessage, NullKey, Units, Finished, Wait, To,
       C12!AddChangeCipherSpec, C12!FlushPendingHsData, C12!Records, C12!Record,
       C12!SetWriteKey, C12!AddMessage, C12!NullKey, C12!Units, C12!Finished, C12!Wait, C12!To
<1>2. /\ Good(e, g) /\ DOMAIN e = Fields /\ Wire(e, g) /\ g.side = "server"
      /\ e.side = "client" /\ Peer(e.side) = "server" /\ e.wait = "ok"
      /\ e.state = "send_client_finished" /\ ClientTrust(e, g)
      /\ ~Unsigned(e) /\ Writing(e) /\ ~HelloHeld(e)
  BY TurnFacts DEF MayRead, Emptied, HelloHeld, Writing, Unsigned, At, Good, Trust, Peer
<1>3. Steps(e, f, g)
  <2>1. Draft(e, d, g)
    <3>1. Draft(e, a, g)
      BY <1>2, DraftStart, DraftAddChangeCipherSpec
    <3>2. Draft(e, b, g)
      BY <3>1, DraftSetWriteKey
    <3>3. Sound(Finished("client", b), e)
      BY DEF Sound, Finished
    <3>4. Draft(e, d, g)
      BY <3>2, <3>3, DraftAddMessage
    <3> QED BY <3>4
  <2> HIDE DEF d
  <2>2. Same(d, f, {"state", "wait"}) /\ f.state = "finish_flight" /\ f.wait = "flush"
    BY <2>1, DraftWire, SameToWait
  <2> HIDE DEF f
  <2>3. Same(d, f, Ending)
    BY <2>2, SameWider DEF Ending
  <2>4. /\ ClientTrust(f, g) /\ (Unsigned(f) => Unsigned(e))
        /\ (Emptied(f) => e.hs_buf = <<>>) /\ ~HelloHeld(f) /\ (Writing(f) \/ f.wait = "flush" \/ Quiet(d))
        /\ f.cert_request = e.cert_request
        /\ f.used_hello_retry_request = e.used_hello_retry_request
    BY <1>2, <2>1, <2>2, <2>3, OnWrite DEF Draft, Written, Same, Fields, ClientTrust, Proved12,
         Proved13, Accepted, Judged, At, Unsigned, Emptied, HelloHeld, Writing, Good, Buffers
  <2>5. /\ f.used_hello_retry_request \in BOOLEAN /\ f.cert_request \in BOOLEAN
        /\ f.state # "done" /\ f.wait \in {"ok", "flush"}
    BY <1>2, <2>2, <2>4 DEF Good, Typed, Same, Fields
  <2> QED BY <1>2, <2>1, <2>2, <2>3, <2>4, <2>5, GoodSend
<1> HIDE DEF f
<1> QED BY <1>1, <1>3

\* do_finish_flight.
LEMMA C12FinishFlight ==
    ASSUME NEW e, NEW g, Turn(e, g, "client", "finish_flight")
    PROVE  Steps(e, C12!do_finish_flight(e), g)
<1> DEFINE f == To(e, IF e.session_reused THEN "finish_client_handshake" ELSE "read_session_ticket")
<1>1. C12!do_finish_flight(e) = f
  BY Zenon DEF C12!do_finish_flight, To, C12!To
<1>2. /\ Good(e, g) /\ DOMAIN e = Fields /\ Wire(e, g) /\ g.side = "server"
      /\ e.side = "client" /\ Peer(e.side) = "server" /\ e.wait = "ok"
      /\ e.state = "finish_flight" /\ ClientTrust(e, g)
      /\ ~Unsigned(e) /\ ~Writing(e) /\ ~HelloHeld(e)
  BY TurnFacts DEF MayRead, Emptied, HelloHeld, Writing, Unsigned, At, Good, Trust, Peer
<1>3. Steps(e, f, g)
  <2>1. Same(e, f, {"state"})
    BY <1>2, Zenon DEF Same, To
  <2>2. f.state = IF e.session_reused THEN "finish_client_handshake" ELSE "read_session_ticket"
    BY <1>2, SMT DEF To, Message, Fields
  <2> HIDE DEF f
  <2>3. SoundUnits(f.hs_buf, g) /\ f.hs_buf = e.hs_buf
    BY <1>2, <2>1 DEF Same, Fields, Wire, Carries
  <2>4. /\ ClientTrust(f, g) /\ (Unsigned(f) => Unsigned(e))
        /\ (Emptied(f) => f.hs_buf = <<>>) /\ ~HelloHeld(f)
    BY <1>2, <2>1, <2>2, <2>3, SMT DEF Same, Fields, ClientTrust, Proved12, Proved13, Accepted,
         Judged, At, Unsigned, Emptied, HelloHeld, Good, Buffers
  <2>5. /\ f.version \in {0, 12, 13} /\ f.session_reused \in BOOLEAN
        /\ f.used_hello_retry_request \in BOOLEAN /\ f.cert_request \in BOOLEAN
        /\ f.ticket_expected \in BOOLEAN /\ f.key_share \in 0..2
        /\ f.peer \in {"none", "server"} /\ f.state # "done"
        /\ f.wait = "ok"
    BY <1>2, <2>1, <2>2, <2>3, SMT DEF Same, Fields, Good, Typed
  <2>6. Same(e, f, Readable)
    BY <2>1, SameWider DEF Readable
  <2> QED BY <1>2, <2>2, <2>3, <2>4, <2>5, <2>6, GoodRead
<1> HIDE DEF f
<1> QED BY <1>1, <1>3

\* do_read_session_ticket.
LEMMA C12ReadSessionTicket ==
    ASSUME NEW e, NEW g, Turn(e, g, "client", "read_session_ticket")
    PROVE  Steps(e, C12!do_read_session_ticket(e), g)
<1> DEFINE h == To(e, "process_change_cipher_spec")
           f == Wait(h, "read_change_cipher_spec")
           then == Wait(Take(h), "read_change_cipher_spec")
<1>1. C12!do_read_session_ticket(e) = IF ~e.ticket_expected THEN f ELSE Expect(e, "new_session_ticket", then)
  BY Zenon DEF C12!do_read_session_ticket, To, Wait, Take, NextMessage, Units, Message,
       HashMessage, Expect, HasMessage, Alert, FlushFlight, FlushPendingHsData, Records, Record,
       Error, C12!To, C12!Wait, C12!Take, C12!NextMessage, C12!Units, C12!Message,
       C12!HashMessage, C12!Expect, C12!HasMessage, C12!Alert, C12!FlushFlight,
       C12!FlushPendingHsData, C12!Records, C12!Record, C12!Error
<1>2. /\ Good(e, g) /\ DOMAIN e = Fields /\ Wire(e, g) /\ g.side = "server"
      /\ e.side = "client" /\ Peer(e.side) = "server" /\ e.wait = "ok"
      /\ e.state = "read_session_ticket" /\ ClientTrust(e, g)
      /\ ~Unsigned(e) /\ ~Writing(e) /\ ~HelloHeld(e) /\ ~Emptied(e) /\ MayRead(e)
  BY TurnFacts DEF MayRead, Emptied, HelloHeld, Writing, Unsigned, At, Good, Trust, Peer
<1>3. Steps(e, f, g)
  <2>1. Same(e, f, {"state", "wait"})
    BY <1>2, Zenon DEF Same, Wait, To
  <2>2. f.state = "process_change_cipher_spec" /\ f.wait = "read_change_cipher_spec"
    BY <1>2, SMT DEF Wait, To, Message, Fields
  <2> HIDE DEF f
  <2>3. SoundUnits(f.hs_buf, g) /\ f.hs_buf = e.hs_buf
    BY <1>2, <2>1 DEF Same, Fields, Wire, Carries
  <2>4. /\ ClientTrust(f, g) /\ (Unsigned(f) => Unsigned(e))
        /\ ~Emptied(f) /\ ~HelloHeld(f)
    BY <1>2, <2>1, <2>2, <2>3, SMT DEF Same, Fields, ClientTrust, Proved12, Proved13, Accepted,
         Judged, At, Unsigned, Emptied, HelloHeld
  <2>5. /\ f.version \in {0, 12, 13} /\ f.session_reused \in BOOLEAN
        /\ f.used_hello_retry_request \in BOOLEAN /\ f.cert_request \in BOOLEAN
        /\ f.ticket_expected \in BOOLEAN /\ f.key_share \in 0..2
        /\ f.peer \in {"none", "server"} /\ f.state # "done"
        /\ f.wait = "read_change_cipher_spec"
    BY <1>2, <2>1, <2>2, <2>3, SMT DEF Same, Fields, Good, Typed
  <2>6. Same(e, f, Readable)
    BY <2>1, SameWider DEF Readable
  <2> QED BY <1>2, <2>2, <2>3, <2>4, <2>5, <2>6, GoodRead DEF Writing, At
<1>4. ASSUME HasMessage(e) PROVE Steps(e, then, g)
  <2>1. Same(e, then, {"transcript", "hs_buf", "state", "wait"})
    BY <1>2, Zenon DEF Same, Wait, Take, NextMessage, HashMessage, To
  <2>2. /\ then.state = "process_change_cipher_spec" /\ then.wait = "read_change_cipher_spec"
        /\ then.hs_buf = NextMessage(e).hs_buf
    BY <1>2, <1>4, SMT DEF Wait, Take, NextMessage, HashMessage, To, Message, Fields
  <2> HIDE DEF then
  <2>3. Sound(Message(e), g) /\ SoundUnits(then.hs_buf, g) /\ (~Excess(e) => then.hs_buf = <<>>)
    BY <1>2, <1>4, <2>2, OnMessage DEF Wire, Carries
  <2>4. /\ ClientTrust(then, g) /\ (Unsigned(then) => Unsigned(e))
        /\ ~Emptied(then) /\ ~HelloHeld(then)
    BY <1>2, <1>4, <2>1, <2>2, <2>3, SMT DEF Same, Fields, ClientTrust, Proved12, Proved13,
         Accepted, Judged, At, Unsigned, Emptied, HelloHeld, Sound
  <2>5. /\ then.version \in {0, 12, 13} /\ then.session_reused \in BOOLEAN
        /\ then.used_hello_retry_request \in BOOLEAN /\ then.cert_request \in BOOLEAN
        /\ then.ticket_expected \in BOOLEAN /\ then.key_share \in 0..2
        /\ then.peer \in {"none", "server"} /\ then.state # "done"
        /\ then.wait = "read_change_cipher_spec"
    BY <1>2, <1>4, <2>1, <2>2, <2>3, SMT DEF Same, Fields, Good, Typed, Sound
  <2>6. Same(e, then, Readable)
    BY <2>1, SameWider DEF Readable
  <2> QED BY <1>2, <2>2, <2>3, <2>4, <2>5, <2>6, GoodRead DEF Writing, At
<1> HIDE DEF f, then
<1> QED BY <1>1, <1>2, <1>3, <1>4, GoodExpect

\* do_process_change_cipher_spec.
LEMMA C12ProcessChangeCipherSpec ==
    ASSUME NEW e, NEW g, Turn(e, g, "client", "process_change_cipher_spec")
    PROVE  Steps(e, C12!do_process_change_cipher_spec(e), g)
<1> DEFINE k == C12!key(e, "server")
           f == [To(e, "read_server_finished") EXCEPT !.read_key = k]
<1>1. C12!do_process_change_cipher_spec(e) = IF e.hs_buf # <<>> THEN Alert(e, "unexpected_message") ELSE f
  BY Zenon DEF C12!do_process_change_cipher_spec, To, Alert, FlushFlight, FlushPendingHsData,
       Records, Record, Error, HasMessage, Units, Message, SetReadKey, C12!To, C12!Alert,
       C12!FlushFlight, C12!FlushPendingHsData, C12!Records, C12!Record, C12!Error,
       C12!HasMessage, C12!Units, C12!Message, C12!SetReadKey
<1>2. /\ Good(e, g) /\ DOMAIN e = Fields /\ Wire(e, g) /\ g.side = "server"
      /\ e.side = "client" /\ Peer(e.side) = "server" /\ e.wait = "ok"
      /\ e.state = "process_change_cipher_spec" /\ ClientTrust(e, g)
      /\ ~Unsigned(e) /\ ~Writing(e) /\ ~HelloHeld(e) /\ ~Emptied(e) /\ MayRead(e)
  BY TurnFacts DEF MayRead, Emptied, HelloHeld, Writing, Unsigned, At, Good, Trust, Peer
<1>3. Steps(e, f, g)
  <2>1. Same(e, f, {"state", "read_key"})
    BY <1>2, Zenon DEF Same, To
  <2>2. f.state = "read_server_finished"
    BY <1>2, SMT DEF To, Message, Fields
  <2> HIDE DEF f
  <2>3. SoundUnits(f.hs_buf, g) /\ f.hs_buf = e.hs_buf
    BY <1>2, <2>1 DEF Same, Fields, Wire, Carries
  <2>4. /\ ClientTrust(f, g) /\ (Unsigned(f) => Unsigned(e))
        /\ ~Emptied(f) /\ ~HelloHeld(f)
    BY <1>2, <2>1, <2>2, <2>3, SMT DEF Same, Fields, ClientTrust, Proved12, Proved13, Accepted,
         Judged, At, Unsigned, Emptied, HelloHeld
  <2>5. /\ f.version \in {0, 12, 13} /\ f.session_reused \in BOOLEAN
        /\ f.used_hello_retry_request \in BOOLEAN /\ f.cert_request \in BOOLEAN
        /\ f.ticket_expected \in BOOLEAN /\ f.key_share \in 0..2
        /\ f.peer \in {"none", "server"} /\ f.state # "done"
        /\ f.wait = "ok"
    BY <1>2, <2>1, <2>2, <2>3, SMT DEF Same, Fields, Good, Typed
  <2>6. Same(e, f, Readable)
    BY <2>1, SameWider DEF Readable
  <2> QED BY <1>2, <2>2, <2>3, <2>4, <2>5, <2>6, GoodRead
<1> HIDE DEF f
<1> QED BY <1>1, <1>2, <1>3, GoodAlert

\* do_read_server_finished.
LEMMA C12ReadServerFinished ==
    ASSUME NEW e, NEW g, Turn(e, g, "client", "read_server_finished")
    PROVE  Steps(e, C12!do_read_server_finished(e), g)
<1> DEFINE f == To(Take(e), IF e.session_reused THEN "send_client_finished" ELSE "finish_client_handshake")
           then == IF Message(e) # Finished("server", e) THEN Alert(HashMessage(e), "decrypt_error")
                   ELSE IF Excess(e) THEN Alert(HashMessage(e), "unexpected_message") ELSE f
<1>1. C12!do_read_server_finished(e) = Expect(e, "finished", then)
  BY Zenon DEF C12!do_read_server_finished, To, Take, NextMessage, Units, Message, HashMessage,
       Finished, Alert, FlushFlight, FlushPendingHsData, Records, Record, Error, HasMessage,
       Excess, Expect, Wait, C12!To, C12!Take, C12!NextMessage, C12!Units, C12!Message,
       C12!HashMessage, C12!Finished, C12!Alert, C12!FlushFlight, C12!FlushPendingHsData,
       C12!Records, C12!Record, C12!Error, C12!HasMessage, C12!Excess, C12!Expect, C12!Wait
<1>2. /\ Good(e, g) /\ DOMAIN e = Fields /\ Wire(e, g) /\ g.side = "server"
      /\ e.side = "client" /\ Peer(e.side) = "server" /\ e.wait = "ok"
      /\ e.state = "read_server_finished" /\ ClientTrust(e, g)
      /\ ~Unsigned(e) /\ ~Writing(e) /\ ~HelloHeld(e) /\ ~Emptied(e) /\ MayRead(e)
  BY TurnFacts DEF MayRead, Emptied, HelloHeld, Writing, Unsigned, At, Good, Trust, Peer
<1>3. ASSUME HasMessage(e), ~Excess(e) PROVE Steps(e, f, g)
  <2>1. Same(e, f, {"transcript", "hs_buf", "state"})
    BY <1>2, Zenon DEF Same, To, Take, NextMessage, HashMessage
  <2>2. /\ f.state = IF e.session_reused THEN "send_client_finished" ELSE "finish_client_handshake"
        /\ f.hs_buf = NextMessage(e).hs_buf
    BY <1>2, <1>3, SMT DEF To, Take, NextMessage, HashMessage, Message, Fields
  <2> HIDE DEF f
  <2>3. Sound(Message(e), g) /\ SoundUnits(f.hs_buf, g) /\ (~Excess(e) => f.hs_buf = <<>>)
    BY <1>2, <1>3, <2>2, OnMessage DEF Wire, Carries
  <2>4. /\ ClientTrust(f, g) /\ (Unsigned(f) => Unsigned(e))
        /\ (Emptied(f) => f.hs_buf = <<>>) /\ ~HelloHeld(f)
    BY <1>2, <1>3, <2>1, <2>2, <2>3, SMT DEF Same, Fields, ClientTrust, Proved12, Proved13,
         Accepted, Judged, At, Unsigned, Emptied, HelloHeld, Sound
  <2>5. /\ f.version \in {0, 12, 13} /\ f.session_reused \in BOOLEAN
        /\ f.used_hello_retry_request \in BOOLEAN /\ f.cert_request \in BOOLEAN
        /\ f.ticket_expected \in BOOLEAN /\ f.key_share \in 0..2
        /\ f.peer \in {"none", "server"} /\ f.state # "done"
        /\ f.wait = "ok"
    BY <1>2, <1>3, <2>1, <2>2, <2>3, SMT DEF Same, Fields, Good, Typed, Sound
  <2>6. Same(e, f, Readable)
    BY <2>1, SameWider DEF Readable
  <2> QED BY <1>2, <1>3, <2>2, <2>3, <2>4, <2>5, <2>6, GoodRead
<1> HIDE DEF f
<1>4. ASSUME HasMessage(e) PROVE Steps(e, then, g)
  BY <1>2, <1>3, <1>4, GoodHashAlert
<1> QED BY <1>1, <1>2, <1>4, GoodExpect

\* The handshake is over.
LEMMA GoodFinish ==
    ASSUME NEW e, NEW f, NEW g, Good(e, g), e.wait = "ok",
           e.state \in {"finish_client_handshake", "finish_server_handshake"},
           Same(e, f, {"state", "established"}), f.state = "done", f.established # "none",
           IF e.side = "client" THEN ClientTrust(f, g) ELSE ServerTrust(f, g)
    PROVE  Steps(e, f, g)
<1>1. /\ f.side = e.side /\ f.cfg = e.cfg /\ f.running = e.running /\ f.verify = e.verify
      /\ f.pending_private_key_op = e.pending_private_key_op /\ f.key_result = e.key_result
      /\ f.total_renegotiations = e.total_renegotiations /\ f.callbacks = e.callbacks
      /\ f.signatures = e.signatures /\ DOMAIN f = Fields /\ f.wait = e.wait
      /\ f.version = e.version /\ f.session_reused = e.session_reused
      /\ f.used_hello_retry_request = e.used_hello_retry_request
      /\ f.cert_request = e.cert_request /\ f.ticket_expected = e.ticket_expected
      /\ f.key_share = e.key_share /\ f.peer = e.peer
  BY SMT DEF Same, Fields
<1>2. Grows(e, f)
  BY <1>1 DEF Grows, Signed
<1>3. Wire(f, g)
  BY <1>2, WireSame DEF Good
<1>4. Typed(f)
  BY <1>1, Zenon DEF Good, Typed
<1>5. ~Unsigned(f) /\ Writing(f) /\ ~Emptied(f) /\ ~HelloHeld(f) /\ f.wait \notin Reading
  BY <1>1 DEF Unsigned, Writing, Emptied, HelloHeld, At, Reading
<1>6. Asking(f)
  BY <1>1, <1>5, Zenon DEF Good, Asking
<1>7. Trust(f, g)
  BY <1>1, Zenon DEF Good, Trust
<1>8. Buffers(f)
  BY <1>5, Zenon DEF Buffers
<1> QED BY <1>2, <1>3, <1>4, <1>6, <1>7, <1>8, Zenon DEF Steps, Good

\* do_finish_client_handshake.
LEMMA C12FinishClientHandshake ==
    ASSUME NEW e, NEW g, Turn(e, g, "client", "finish_client_handshake")
    PROVE  Steps(e, C12!do_finish_client_handshake(e), g)
<1> DEFINE f == [e EXCEPT !.state = "done", !.established = e.peer]
<1>1. C12!do_finish_client_handshake(e) = f
  BY Zenon DEF C12!do_finish_client_handshake
<1>2. /\ Good(e, g) /\ DOMAIN e = Fields /\ Wire(e, g) /\ g.side = "server"
      /\ e.side = "client" /\ Peer(e.side) = "server" /\ e.wait = "ok"
      /\ e.state = "finish_client_handshake" /\ ClientTrust(e, g)
      /\ ~Unsigned(e) /\ ~Writing(e) /\ ~HelloHeld(e)
  BY TurnFacts DEF MayRead, Emptied, HelloHeld, Writing, Unsigned, At, Good, Trust, Peer
<1>3. Same(e, f, {"state", "established"}) /\ f.state = "done" /\ f.established = e.peer
  BY <1>2, Zenon DEF Same, Fields
<1> HIDE DEF f
<1>4. ClientTrust(f, g) /\ f.established # "none"
  BY <1>2, <1>3, SMT DEF Same, Fields, ClientTrust, Proved12, Proved13, Accepted, Judged, At
<1> QED BY <1>1, <1>2, <1>3, <1>4, GoodFinish

\* do_start_connect.
LEMMA C12StartConnect ==
    ASSUME NEW e, NEW g, Turn(e, g, "client", "start")
    PROVE  Steps(e, C12!do_start_connect(e), g)
<1> DEFINE h == [e EXCEPT !.key_share = e.cfg.groups[1]]
           d == AddMessage(h, ClientHello(h))
           f == Wait(To(d, "read_server_hello"), "flush")
<1>1. C12!do_start_connect(e) = f
  BY Zenon DEF C12!do_start_connect, AddMessage, NullKey, Records, Record, Units, ClientHello,
       Wait, To, C12!AddMessage, C12!NullKey, C12!Records, C12!Record, C12!Units,
       C12!ClientHello, C12!Wait, C12!To
<1>2. /\ Good(e, g) /\ DOMAIN e = Fields /\ Wire(e, g) /\ g.side = "server"
      /\ e.side = "client" /\ Peer(e.side) = "server" /\ e.wait = "ok"
      /\ e.state = "start" /\ ClientTrust(e, g)
      /\ Unsigned(e) /\ ~Writing(e) /\ ~HelloHeld(e) /\ ~Emptied(e) /\ MayRead(e)
  BY TurnFacts DEF MayRead, Emptied, HelloHeld, Writing, Unsigned, At, Good, Trust, Peer
<1>3. e.cfg.groups \in Seq({1, 2}) \ {<<>>}
  BY <1>2 DEF Good, Typed, Config
<1>4. Same(e, h, {"key_share"}) /\ h.key_share = e.cfg.groups[1]
  BY <1>2, Zenon DEF Same, Fields
<1> HIDE DEF h
<1>5. /\ h.key_share \in 0..2 /\ h.side = "client" /\ h.state = "start" /\ h.wait = "ok"
      /\ h.cfg = e.cfg
  BY <1>2, <1>3, <1>4 DEF Same, Fields
<1>6. Steps(e, h, g)
  <2>1. Same(e, h, Incidental)
    BY <1>4, SameWider DEF Incidental
  <2> QED BY <1>2, <1>4, <1>5, <2>1, GoodKept, SMT DEF Same, Fields, Good, Typed
<1>7. Sound(ClientHello(h), h)
  BY <1>3, <1>5 DEF ClientHello, Sound
<1>8. Draft(h, d, g)
  BY <1>4, <1>6, <1>7, DraftStart, DraftAddMessage DEF Steps, Good, Typed
<1>9. Same(d, f, {"state", "wait"}) /\ f.state = "read_server_hello" /\ f.wait = "flush"
  BY <1>8, DraftWire, Zenon DEF Same, To, Wait, Fields
<1> HIDE DEF d, f
<1>10. Same(d, f, Ending)
  BY <1>9, SameWider DEF Ending
<1>11. ClientTrust(f, g) /\ Unsigned(h) /\ ~Emptied(f) /\ ~HelloHeld(f)
  BY <1>5, <1>6, <1>8, <1>9, <1>10, OnWrite
     DEF ClientTrust, At, Proved12, Proved13, Accepted, Steps, Good, Trust, Unsigned, Emptied, HelloHeld
<1>12. f.used_hello_retry_request \in BOOLEAN /\ f.cert_request \in BOOLEAN
  BY <1>6, <1>8, <1>9 DEF Draft, Written, Same, Fields, Steps, Good, Typed
<1>13. Steps(h, f, g)
  BY <1>5, <1>6, <1>8, <1>9, <1>10, <1>11, <1>12, GoodSend DEF Steps
<1> QED BY <1>1, <1>6, <1>13, StepsTrans

\* do_read_server_hello.
LEMMA C12ReadServerHello ==
    ASSUME NEW e, NEW g, Turn(e, g, "client", "read_server_hello")
    PROVE  Steps(e, C12!do_read_server_hello(e), g)
<1> DEFINE m == Message(e)
           v == [e EXCEPT !.version = m.version]
           h == Take([v EXCEPT !.session_reused = m.reused, !.ticket_expected = m.ticket])
           f13 == To13(To(v, "tls13"), "read_hello_retry_request")
           fr == To([h EXCEPT !.secret = [psk |-> TRUE, dhe |-> 0, transcript |-> <<>>], !.peer = "server"],
                    "read_session_ticket")
           ff == To(h, "read_server_certificate")
           wrong == \/ m.downgrade /\ 13 \in e.cfg.versions /\ e.established = "none"
                    \/ m.reused /\ ClientHello(e).session # 12
<1>1. C12!do_read_server_hello(e) = IF ~HasMessage(e) THEN Wait(e, "read_server_hello")
        ELSE IF m.type \notin {"server_hello", "hello_retry_request"} THEN Alert(e, "unexpected_message")
        ELSE IF m.version \notin e.cfg.versions \/ (e.established # "none" /\ m.version # e.version)
        THEN Alert(e, "protocol_version")
        ELSE IF m.version = 13 THEN f13
        ELSE IF wrong THEN Alert(v, "illegal_parameter")
        ELSE IF m.reused THEN fr ELSE ff
  BY Zenon DEF C12!do_read_server_hello, Message, Take, NextMessage, Units, HashMessage, To13,
       To, ClientHello, HasMessage, Wait, Alert, FlushFlight, FlushPendingHsData, Records,
       Record, Error, C12!Message, C12!Take, C12!NextMessage, C12!Units, C12!HashMessage,
       C12!To13, C12!To, C12!ClientHello, C12!HasMessage, C12!Wait, C12!Alert, C12!FlushFlight,
       C12!FlushPendingHsData, C12!Records, C12!Record, C12!Error
<1>2. /\ Good(e, g) /\ DOMAIN e = Fields /\ Wire(e, g) /\ g.side = "server"
      /\ e.side = "client" /\ Peer(e.side) = "server" /\ e.wait = "ok"
      /\ e.state = "read_server_hello" /\ ClientTrust(e, g)
      /\ Unsigned(e) /\ ~Writing(e) /\ ~HelloHeld(e) /\ ~Emptied(e) /\ MayRead(e)
  BY TurnFacts DEF MayRead, Emptied, HelloHeld, Writing, Unsigned, At, Good, Trust, Peer
<1>3. ASSUME HasMessage(e), m.type \in {"server_hello", "hello_retry_request"}
      PROVE  m.version \in {12, 13} /\ (m.version = 12 => m.reused \in BOOLEAN /\ m.ticket \in BOOLEAN)
  <2>1. Sound(m, g)
    BY <1>2, <1>3, OnMessage
  <2> HIDE DEF m
  <2> QED BY <1>3, <2>1 DEF Sound
<1>4. ASSUME m.version = 13 PROVE Steps(e, f13, g)
  <2>1. Same(e, f13, {"version", "state", "tls13_state"})
    BY <1>2, Zenon DEF Same, To13, To
  <2>2. /\ f13.version = 13 /\ f13.state = "tls13"
        /\ f13.tls13_state = "read_hello_retry_request"
    BY <1>2, <1>4, SMT DEF To13, To, Message, Fields
  <2> HIDE DEF f13
  <2>3. SoundUnits(f13.hs_buf, g) /\ f13.hs_buf = e.hs_buf
    BY <1>2, <2>1 DEF Same, Fields, Wire, Carries
  <2>4. /\ ClientTrust(f13, g) /\ (Unsigned(f13) => Unsigned(e))
        /\ ~Emptied(f13) /\ ~HelloHeld(f13)
    BY <1>2, <1>4, <2>1, <2>2, <2>3, SMT DEF Same, Fields, ClientTrust, Proved12, Proved13,
         Accepted, Judged, At, Unsigned, Emptied, HelloHeld
  <2>5. /\ f13.version \in {0, 12, 13} /\ f13.session_reused \in BOOLEAN
        /\ f13.used_hello_retry_request \in BOOLEAN /\ f13.cert_request \in BOOLEAN
        /\ f13.ticket_expected \in BOOLEAN /\ f13.key_share \in 0..2
        /\ f13.peer \in {"none", "server"} /\ f13.state # "done"
        /\ f13.wait = "ok"
    BY <1>2, <1>4, <2>1, <2>2, <2>3, SMT DEF Same, Fields, Good, Typed
  <2>6. Same(e, f13, Readable)
    BY <2>1, SameWider DEF Readable
  <2> QED BY <1>2, <2>2, <2>3, <2>4, <2>5, <2>6, GoodRead
<1>5. ASSUME wrong = FALSE, m.reused PROVE e.cfg.session # 0
  <2>1. ClientHello(e).session = 12
    BY <1>5
  <2> QED BY <2>1 DEF ClientHello
<1>6. ASSUME HasMessage(e), m.type \in {"server_hello", "hello_retry_request"}, m.version = 12, m.reused, wrong = FALSE PROVE Steps(e, fr, g)
  <2>1. Same(e, fr, {"version", "session_reused", "ticket_expected", "transcript", "hs_buf", "secret", "peer", "state"})
    BY <1>2, Zenon DEF Same, To, Take, NextMessage, HashMessage
  <2>2. /\ fr.version = 12 /\ fr.state = "read_session_ticket" /\ fr.session_reused = m.reused
        /\ fr.ticket_expected = m.ticket /\ fr.hs_buf = NextMessage(e).hs_buf
        /\ fr.peer = "server"
    BY <1>2, <1>6, SMT DEF To, Take, NextMessage, HashMessage, Message, Fields
  <2> HIDE DEF fr
  <2>3. Sound(Message(e), g) /\ SoundUnits(fr.hs_buf, g) /\ (~Excess(e) => fr.hs_buf = <<>>)
    BY <1>2, <1>6, <2>2, OnMessage DEF Wire, Carries
  <2>4. /\ ClientTrust(fr, g) /\ (Unsigned(fr) => Unsigned(e))
        /\ ~Emptied(fr) /\ ~HelloHeld(fr)
    BY <1>2, <1>6, <2>1, <2>2, <2>3, <1>3, <1>5, SMT DEF Same, Fields, ClientTrust, Proved12,
         Proved13, Accepted, Judged, At, Unsigned, Emptied, HelloHeld, Sound
  <2>5. /\ fr.version \in {0, 12, 13} /\ fr.session_reused \in BOOLEAN
        /\ fr.used_hello_retry_request \in BOOLEAN /\ fr.cert_request \in BOOLEAN
        /\ fr.ticket_expected \in BOOLEAN /\ fr.key_share \in 0..2
        /\ fr.peer \in {"none", "server"} /\ fr.state # "done"
        /\ fr.wait = "ok"
    BY <1>2, <1>6, <2>1, <2>2, <2>3, <1>3, <1>5, SMT DEF Same, Fields, Good, Typed, Sound
  <2>6. Same(e, fr, Readable)
    BY <2>1, SameWider DEF Readable
  <2> QED BY <1>2, <2>2, <2>3, <2>4, <2>5, <2>6, GoodRead
<1>7. ASSUME HasMessage(e), m.type \in {"server_hello", "hello_retry_request"}, m.version = 12, ~m.reused PROVE Steps(e, ff, g)
  <2>1. Same(e, ff, {"version", "session_reused", "ticket_expected", "transcript", "hs_buf", "state"})
    BY <1>2, Zenon DEF Same, To, Take, NextMessage, HashMessage
  <2>2. /\ ff.version = 12 /\ ff.state = "read_server_certificate" /\ ff.session_reused = m.reused
        /\ ff.ticket_expected = m.ticket /\ ff.hs_buf = NextMessage(e).hs_buf
    BY <1>2, <1>7, SMT DEF To, Take, NextMessage, HashMessage, Message, Fields
  <2> HIDE DEF ff
  <2>3. Sound(Message(e), g) /\ SoundUnits(ff.hs_buf, g) /\ (~Excess(e) => ff.hs_buf = <<>>)
    BY <1>2, <1>7, <2>2, OnMessage DEF Wire, Carries
  <2>4. /\ ClientTrust(ff, g) /\ (Unsigned(ff) => Unsigned(e))
        /\ ~Emptied(ff) /\ ~HelloHeld(ff)
    BY <1>2, <1>7, <2>1, <2>2, <2>3, <1>3, SMT DEF Same, Fields, ClientTrust, Proved12,
         Proved13, Accepted, Judged, At, Unsigned, Emptied, HelloHeld, Sound
  <2>5. /\ ff.version \in {0, 12, 13} /\ ff.session_reused \in BOOLEAN
        /\ ff.used_hello_retry_request \in BOOLEAN /\ ff.cert_request \in BOOLEAN
        /\ ff.ticket_expected \in BOOLEAN /\ ff.key_share \in 0..2
        /\ ff.peer \in {"none", "server"} /\ ff.state # "done"
        /\ ff.wait = "ok"
    BY <1>2, <1>7, <2>1, <2>2, <2>3, <1>3, SMT DEF Same, Fields, Good, Typed, Sound
  <2>6. Same(e, ff, Readable)
    BY <2>1, SameWider DEF Readable
  <2> QED BY <1>2, <2>2, <2>3, <2>4, <2>5, <2>6, GoodRead
<1>8. ASSUME m.version = 12 PROVE Steps(e, Alert(v, "illegal_parameter"), g)
  <2>1. Same(e, v, {"version"}) /\ v.version = 12
    BY <1>2, <1>8, Zenon DEF Same, Fields
  <2> HIDE DEF v
  <2>2. Same(e, v, Incidental)
    BY <2>1, SameWider DEF Incidental
  <2>3. Steps(e, v, g)
    BY <1>2, <2>1, <2>2, GoodKept, SMT DEF Same, Fields, Good, Typed
  <2> QED BY <2>3, GoodAlert, StepsTrans DEF Steps
<1>9. Steps(e, Wait(e, "read_server_hello"), g)
  BY <1>2, GoodWait DEF Reading
<1> HIDE DEF f13, fr, ff, v, wrong, m
<1>10. wrong \in BOOLEAN
  BY DEF wrong
<1> QED BY <1>1, <1>2, <1>3, <1>4, <1>6, <1>7, <1>8, <1>9, <1>10, GoodAlert

-----------------------------------------------------------------------------
(***************************************************************************)
(* tls13_client_handshake.                                                 *)
(***************************************************************************)
\* A flight that is not at its end leaves the endpoint where it is.
LEMMA GoodDraft ==
    ASSUME NEW e, NEW d, NEW g, Good(e, g), e.wait = "ok", Draft(e, d, g), Writing(e) \/ Quiet(d)
    PROVE  /\ Steps(e, d, g) /\ d.side = e.side /\ d.wait = e.wait /\ d.state = e.state
           /\ d.tls13_state = e.tls13_state /\ d.hs_buf = e.hs_buf /\ d.cfg = e.cfg
<1>1. Written \cap Decisive = {}
  BY DEF Written, Decisive
<1>2. Same(e, d, Written)
  BY DEF Draft
<1>3. /\ d.wait = e.wait /\ d.running = e.running /\ d.version = e.version
      /\ d.used_hello_retry_request = e.used_hello_retry_request
      /\ d.ticket_expected = e.ticket_expected /\ d.key_share = e.key_share
      /\ d.state = e.state /\ d.tls13_state = e.tls13_state
  BY <1>2, SMT DEF Same, Fields, Written
<1>4. Typed(d)
  BY <1>1, <1>2, <1>3, TypedKept, Zenon DEF Good, Typed
<1>5. /\ Asking(d) /\ Trust(d, g) /\ Grows(e, d) /\ d.hs_buf = e.hs_buf /\ d.side = e.side
      /\ d.cfg = e.cfg
      /\ Emptied(d) = Emptied(e) /\ HelloHeld(d) = HelloHeld(e) /\ Writing(d) = Writing(e)
  BY <1>1, <1>2, DecisiveKept, Zenon DEF Good
<1>6. Wire(d, g)
  BY DraftWire
<1>7. Buffers(d)
  BY <1>3, <1>5, Zenon DEF Good, Buffers
<1> QED BY <1>3, <1>4, <1>5, <1>6, <1>7, Zenon DEF Steps, Good

\* The ChangeCipherSpec of a flight that is yet to be written, and a key for it.
LEMMA QuietDraft ==
    ASSUME NEW e, NEW g, NEW key, Good(e, g), e.wait = "ok", ~Writing(e)
    PROVE  /\ Draft(e, AddChangeCipherSpec(e), g) /\ Quiet(AddChangeCipherSpec(e))
           /\ Draft(e, SetWriteKey(e, key), g) /\ Quiet(SetWriteKey(e, key))
<1>1. Draft(e, e, g) /\ Quiet(e)
  BY QuietTurn, DraftStart DEF Good, Typed
<1> QED BY <1>1, DraftAddChangeCipherSpec, DraftSetWriteKey

\* The first half of do_read_hello_retry_request: the hello starts over.
LEMMA C13HelloRetryRequest ==
    ASSUME NEW e, NEW g, Turn(e, g, "client", "tls13"), e.tls13_state = "read_hello_retry_request",
           HasMessage(e),
           Message(e).type = "hello_retry_request"
    PROVE  LET h == HashMessage([UpdateForHelloRetryRequest(e) EXCEPT
                                     !.key_share = Message(e).group, !.used_hello_retry_request = TRUE])
           IN  Steps(e, h, g) /\ (~Excess(h) => Steps(e, To13(NextMessage(h), "send_second_client_hello"), g))
<1> DEFINE h == HashMessage([UpdateForHelloRetryRequest(e) EXCEPT
                             !.key_share = Message(e).group, !.used_hello_retry_request = TRUE])
           f == To13(NextMessage(h), "send_second_client_hello")
<1>1. /\ Good(e, g) /\ DOMAIN e = Fields /\ Wire(e, g) /\ g.side = "server"
      /\ e.side = "client" /\ Peer(e.side) = "server" /\ e.wait = "ok"
      /\ e.state = "tls13" /\ ClientTrust(e, g)
      /\ Unsigned(e) /\ ~Writing(e) /\ ~HelloHeld(e) /\ ~Emptied(e) /\ MayRead(e)
  BY TurnFacts DEF MayRead, Emptied, HelloHeld, Writing, Unsigned, At, Good, Trust, Peer
<1>2. Message(e).group \in 0..2
  <2> DEFINE m == Message(e)
  <2>1. Sound(m, g)
    BY <1>1, OnMessage
  <2> HIDE DEF m
  <2>2. m.type = "hello_retry_request"
    BY DEF m
  <2>3. m.group \in 0..2
    BY <2>1, <2>2 DEF Sound
  <2> QED BY <2>3 DEF m
<1>3. Steps(e, h, g)
  <2>1. Same(e, h, {"transcript", "key_share", "used_hello_retry_request"})
    BY <1>1, Zenon DEF Same, HashMessage, UpdateForHelloRetryRequest
  <2>2. /\ h.key_share = Message(e).group
        /\ h.used_hello_retry_request \in BOOLEAN
    BY <1>1, SMT DEF HashMessage, UpdateForHelloRetryRequest, Message, Fields
  <2> HIDE DEF h
  <2>3. SoundUnits(h.hs_buf, g) /\ h.hs_buf = e.hs_buf
    BY <1>1, <2>1 DEF Same, Fields, Wire, Carries
  <2>4. /\ ClientTrust(h, g) /\ (Unsigned(h) => Unsigned(e))
        /\ ~Emptied(h) /\ ~HelloHeld(h)
    BY <1>1, <2>1, <2>2, <2>3, <1>2, SMT DEF Same, Fields, ClientTrust, Proved12, Proved13,
         Accepted, Judged, At, Unsigned, Emptied, HelloHeld
  <2>5. /\ h.version \in {0, 12, 13} /\ h.session_reused \in BOOLEAN
        /\ h.used_hello_retry_request \in BOOLEAN /\ h.cert_request \in BOOLEAN
        /\ h.ticket_expected \in BOOLEAN /\ h.key_share \in 0..2
        /\ h.peer \in {"none", "server"} /\ h.state # "done"
        /\ h.wait = "ok"
    BY <1>1, <2>1, <2>2, <2>3, <1>2, SMT DEF Same, Fields, Good, Typed
  <2>6. Same(e, h, Readable)
    BY <2>1, SameWider DEF Readable
  <2> QED BY <1>1, <2>2, <2>3, <2>4, <2>5, <2>6, GoodRead
<1>4. Steps(e, f, g)
  <2>1. Same(e, f, {"transcript", "key_share", "used_hello_retry_request", "hs_buf", "tls13_state"})
    BY <1>1, Zenon DEF Same, To13, NextMessage, HashMessage, UpdateForHelloRetryRequest
  <2>2. /\ f.key_share = Message(e).group /\ f.hs_buf = NextMessage(e).hs_buf
        /\ f.tls13_state = "send_second_client_hello" /\ f.used_hello_retry_request \in BOOLEAN
    BY <1>1, SMT DEF To13, NextMessage, HashMessage, UpdateForHelloRetryRequest, Message, Fields
  <2> HIDE DEF f
  <2>3. Sound(Message(e), g) /\ SoundUnits(f.hs_buf, g) /\ (~Excess(e) => f.hs_buf = <<>>)
    BY <1>1, <2>2, OnMessage DEF Wire, Carries
  <2>4. /\ ClientTrust(f, g) /\ (Unsigned(f) => Unsigned(e))
        /\ ~Emptied(f) /\ ~HelloHeld(f)
    BY <1>1, <2>1, <2>2, <2>3, <1>2, SMT DEF Same, Fields, ClientTrust, Proved12, Proved13,
         Accepted, Judged, At, Unsigned, Emptied, HelloHeld, Sound
  <2>5. /\ f.version \in {0, 12, 13} /\ f.session_reused \in BOOLEAN
        /\ f.used_hello_retry_request \in BOOLEAN /\ f.cert_request \in BOOLEAN
        /\ f.ticket_expected \in BOOLEAN /\ f.key_share \in 0..2
        /\ f.peer \in {"none", "server"} /\ f.state # "done"
        /\ f.wait = "ok"
    BY <1>1, <2>1, <2>2, <2>3, <1>2, SMT DEF Same, Fields, Good, Typed, Sound
  <2>6. Same(e, f, Readable)
    BY <2>1, SameWider DEF Readable
  <2> QED BY <1>1, <2>2, <2>3, <2>4, <2>5, <2>6, GoodRead
<1> QED BY <1>3, <1>4

\* do_read_hello_retry_request.
LEMMA C13ReadHelloRetryRequest ==
    ASSUME NEW e, NEW g, Turn(e, g, "client", "tls13"), e.tls13_state = "read_hello_retry_request"
    PROVE  Steps(e, C13!do_read_hello_retry_request(e), g)
<1> DEFINE m == Message(e)
           f == AddChangeCipherSpec(e)
           h == HashMessage([UpdateForHelloRetryRequest(f) EXCEPT
                             !.key_share = m.group, !.used_hello_retry_request = TRUE])
           r == To13(NextMessage(h), "send_second_client_hello")
           s == To13(f, "read_server_hello")
<1>1. C13!do_read_hello_retry_request(e) = IF ~HasMessage(e) THEN Wait(e, "read_message")
        ELSE IF m.type # "hello_retry_request" THEN s
        ELSE IF m.group = e.key_share \/ \A i \in 1..Len(e.cfg.groups) : e.cfg.groups[i] # m.group
        THEN Alert(f, "illegal_parameter")
        ELSE IF Excess(e) THEN Alert(h, "unexpected_message") ELSE r
  BY Zenon DEF C13!do_read_hello_retry_request, Message, AddChangeCipherSpec,
       FlushPendingHsData, Records, Record, HashMessage, UpdateForHelloRetryRequest, To13,
       NextMessage, Units, HasMessage, Wait, Alert, FlushFlight, Error, Excess, C13!Message,
       C13!AddChangeCipherSpec, C13!FlushPendingHsData, C13!Records, C13!Record,
       C13!HashMessage, C13!UpdateForHelloRetryRequest, C13!To13, C13!NextMessage, C13!Units,
       C13!HasMessage, C13!Wait, C13!Alert, C13!FlushFlight, C13!Error, C13!Excess
<1>2. /\ Good(e, g) /\ DOMAIN e = Fields /\ Wire(e, g) /\ g.side = "server"
      /\ e.side = "client" /\ Peer(e.side) = "server" /\ e.wait = "ok"
      /\ e.state = "tls13" /\ ClientTrust(e, g)
      /\ Unsigned(e) /\ ~Writing(e) /\ ~HelloHeld(e) /\ ~Emptied(e) /\ MayRead(e)
  BY TurnFacts DEF MayRead, Emptied, HelloHeld, Writing, Unsigned, At, Good, Trust, Peer
<1>3. /\ Draft(e, f, g) /\ Quiet(f) /\ Steps(e, f, g) /\ Turn(f, g, "client", "tls13")
      /\ f.tls13_state = "read_hello_retry_request" /\ f.hs_buf = e.hs_buf
  BY <1>2, QuietDraft, GoodDraft DEF Turn, Steps, Peer
<1>4. Steps(e, s, g)
  <2>1. Draft(e, f, g)
    <3>1. Draft(e, f, g)
      BY <1>3
    <3> QED BY <3>1
  <2> HIDE DEF f
  <2>2. Same(f, s, {"tls13_state"}) /\ s.tls13_state = "read_server_hello"
    BY <2>1, DraftWire, SameTo13
  <2> HIDE DEF s
  <2>3. Same(f, s, Ending)
    BY <2>2, SameWider DEF Ending
  <2>4. /\ ClientTrust(s, g) /\ (Unsigned(s) => Unsigned(e))
        /\ ~Emptied(s) /\ ~HelloHeld(s) /\ (Writing(s) \/ s.wait = "flush" \/ Quiet(f))
        /\ s.wait = "ok" /\ s.state = e.state /\ s.cert_request = e.cert_request
        /\ s.used_hello_retry_request = e.used_hello_retry_request
    BY <1>2, <2>1, <2>2, <2>3, OnWrite, <1>3 DEF Draft, Written, Same, Fields, ClientTrust,
         Proved12, Proved13, Accepted, Judged, At, Unsigned, Emptied, HelloHeld, Writing
  <2>5. /\ s.used_hello_retry_request \in BOOLEAN /\ s.cert_request \in BOOLEAN
        /\ s.state # "done" /\ s.wait \in {"ok", "flush"}
    BY <1>2, <2>2, <2>4 DEF Good, Typed, Same, Fields
  <2> QED BY <1>2, <2>1, <2>2, <2>3, <2>4, <2>5, GoodSend
<1> HIDE DEF f
<1>5. Message(f) = m /\ HasMessage(f) = HasMessage(e) /\ Excess(f) = Excess(e)
  BY <1>3 DEF Message, HasMessage, Excess
<1>6. ASSUME HasMessage(e), m.type = "hello_retry_request"
      PROVE  Steps(e, h, g) /\ (~Excess(e) => Steps(e, r, g))
  <2>1. DOMAIN f = Fields
    BY <1>3 DEF Turn, Good, Typed
  <2>2. h.hs_buf = f.hs_buf
    BY <2>1, SMT DEF HashMessage, UpdateForHelloRetryRequest, Fields
  <2>3. Excess(h) = Excess(e)
    BY <1>3, <2>2 DEF Excess, Message
  <2>4. Steps(f, h, g) /\ (~Excess(h) => Steps(f, r, g))
    BY <1>3, <1>5, <1>6, C13HelloRetryRequest
  <2> HIDE DEF h, r
  <2> QED BY <1>3, <2>3, <2>4, StepsTrans
<1>7. Steps(e, Wait(e, "read_message"), g)
  BY <1>2, GoodWait DEF Reading
<1>8. ASSUME NEW x, NEW why, Steps(e, x, g) PROVE Steps(e, Alert(x, why), g)
  BY <1>8, GoodAlert, StepsTrans DEF Steps
<1> HIDE DEF h, r, s, m
<1> QED BY <1>1, <1>3, <1>4, <1>6, <1>7, <1>8

\* do_send_second_client_hello.
LEMMA C13SendSecondClientHello ==
    ASSUME NEW e, NEW g, Turn(e, g, "client", "tls13"), e.tls13_state = "send_second_client_hello"
    PROVE  Steps(e, C13!do_send_second_client_hello(e), g)
<1> DEFINE d == AddMessage(e, ClientHello(e))
           f == Wait(To13(d, "read_server_hello"), "flush")
<1>1. C13!do_send_second_client_hello(e) = f
  BY Zenon DEF C13!do_send_second_client_hello, AddMessage, NullKey, Records, Record, Units,
       ClientHello, Wait, To13, C13!AddMessage, C13!NullKey, C13!Records, C13!Record, C13!Units,
       C13!ClientHello, C13!Wait, C13!To13
<1>2. /\ Good(e, g) /\ DOMAIN e = Fields /\ Wire(e, g) /\ g.side = "server"
      /\ e.side = "client" /\ Peer(e.side) = "server" /\ e.wait = "ok"
      /\ e.state = "tls13" /\ ClientTrust(e, g)
      /\ Unsigned(e) /\ ~Writing(e) /\ ~HelloHeld(e) /\ ~Emptied(e) /\ MayRead(e)
  BY TurnFacts DEF MayRead, Emptied, HelloHeld, Writing, Unsigned, At, Good, Trust, Peer
<1>3. Steps(e, f, g)
  <2>1. Draft(e, d, g)
    <3>1. e.cfg.groups \in Seq({1, 2})
      BY <1>2 DEF Good, Typed, Config
    <3>2. Sound(ClientHello(e), e)
      BY <3>1 DEF Sound, ClientHello
    <3>3. Draft(e, d, g)
      BY <1>2, <3>2, DraftStart, DraftAddMessage
    <3> QED BY <3>3
  <2>2. /\ Same(d, f, {"tls13_state", "wait"}) /\ f.tls13_state = "read_server_hello"
        /\ f.wait = "flush"
    BY <1>2, <2>1, DraftWire, Zenon DEF Same, Fields, To, To13, Wait
  <2> HIDE DEF f, d
  <2>3. Same(d, f, Ending)
    BY <2>2, SameWider DEF Ending
  <2>4. /\ ClientTrust(f, g) /\ (Unsigned(f) => Unsigned(e))
        /\ ~Emptied(f) /\ ~HelloHeld(f) /\ (Writing(f) \/ f.wait = "flush" \/ Quiet(d))
        /\ f.state = e.state /\ f.cert_request = e.cert_request
        /\ f.used_hello_retry_request = e.used_hello_retry_request
    BY <1>2, <2>1, <2>2, <2>3, OnWrite DEF Draft, Written, Same, Fields, ClientTrust, Proved12,
         Proved13, Accepted, Judged, At, Unsigned, Emptied, HelloHeld, Writing
  <2>5. /\ f.used_hello_retry_request \in BOOLEAN /\ f.cert_request \in BOOLEAN
        /\ f.state # "done" /\ f.wait \in {"ok", "flush"}
    BY <1>2, <2>2, <2>4 DEF Good, Typed, Same, Fields
  <2> QED BY <1>2, <2>1, <2>2, <2>3, <2>4, <2>5, GoodSend
<1> HIDE DEF f
<1> QED BY <1>1, <1>3

\* The first half of do_read_server_hello: the secret is known ...
LEMMA C13ServerHello ==
    ASSUME NEW e, NEW g, Turn(e, g, "client", "tls13"), e.tls13_state = "read_server_hello",
           HasMessage(e),
           Message(e).type = "server_hello",
           Message(e).reused => ClientHello(e).session = 13
    PROVE  LET m == Message(e)
               f == HashMessage([e EXCEPT !.session_reused = m.reused,
                                          !.peer = IF m.reused THEN "server" ELSE @])
               h == [f EXCEPT !.secret = [psk |-> m.reused, dhe |-> m.key_share,
                                          transcript |-> f.transcript]]
           IN  /\ Steps(e, h, g) /\ Turn(h, g, "client", "tls13") /\ h.tls13_state = "read_server_hello"
               /\ h.hs_buf = e.hs_buf /\ (h.session_reused => h.peer = "server")
<1> DEFINE m == Message(e)
           f == HashMessage([e EXCEPT !.session_reused = m.reused, !.peer = IF m.reused THEN "server" ELSE @])
           h == [f EXCEPT !.secret = [psk |-> m.reused, dhe |-> m.key_share, transcript |-> f.transcript]]
<1>1. /\ Good(e, g) /\ DOMAIN e = Fields /\ Wire(e, g) /\ g.side = "server"
      /\ e.side = "client" /\ Peer(e.side) = "server" /\ e.wait = "ok"
      /\ e.state = "tls13" /\ ClientTrust(e, g)
      /\ Unsigned(e) /\ ~Writing(e) /\ ~HelloHeld(e) /\ ~Emptied(e) /\ MayRead(e)
  BY TurnFacts DEF MayRead, Emptied, HelloHeld, Writing, Unsigned, At, Good, Trust, Peer
<1>2. m.reused \in BOOLEAN
  <2>1. Sound(m, g) /\ m.type = "server_hello"
    BY <1>1, OnMessage
  <2> HIDE DEF m
  <2> QED BY <2>1 DEF Sound
<1>3. m.reused => e.cfg.session # 0
  BY DEF ClientHello
<1>4. Steps(e, h, g)
  <2>1. Same(e, h, {"session_reused", "peer", "transcript", "secret"})
    BY <1>1, Zenon DEF Same, HashMessage
  <2>2. /\ h.session_reused = m.reused
        /\ h.peer = IF m.reused THEN "server" ELSE e.peer
    BY <1>1, SMT DEF HashMessage, Message, Fields
  <2> HIDE DEF h
  <2>3. SoundUnits(h.hs_buf, g) /\ h.hs_buf = e.hs_buf
    BY <1>1, <2>1 DEF Same, Fields, Wire, Carries
  <2>4. /\ ClientTrust(h, g) /\ (Unsigned(h) => Unsigned(e))
        /\ ~Emptied(h) /\ ~HelloHeld(h)
    BY <1>1, <2>1, <2>2, <2>3, <1>2, <1>3, SMT DEF Same, Fields, ClientTrust, Proved12,
         Proved13, Accepted, Judged, At, Unsigned, Emptied, HelloHeld
  <2>5. /\ h.version \in {0, 12, 13} /\ h.session_reused \in BOOLEAN
        /\ h.used_hello_retry_request \in BOOLEAN /\ h.cert_request \in BOOLEAN
        /\ h.ticket_expected \in BOOLEAN /\ h.key_share \in 0..2
        /\ h.peer \in {"none", "server"} /\ h.state # "done"
        /\ h.wait = "ok"
    BY <1>1, <2>1, <2>2, <2>3, <1>2, <1>3, SMT DEF Same, Fields, Good, Typed
  <2>6. Same(e, h, Readable)
    BY <2>1, SameWider DEF Readable
  <2> QED BY <1>1, <2>2, <2>3, <2>4, <2>5, <2>6, GoodRead
<1>5. /\ h.hs_buf = e.hs_buf /\ h.session_reused = m.reused
      /\ h.peer = IF m.reused THEN "server" ELSE e.peer
      /\ h.tls13_state = e.tls13_state /\ h.state = e.state /\ h.wait = e.wait /\ h.side = e.side
  BY <1>1, SMT DEF HashMessage, Fields
<1> HIDE DEF h
<1> QED BY <1>1, <1>4, <1>5 DEF Turn, Steps, Peer, h, f, m

\* ... and the second: the server is read under its handshake key.
LEMMA C13EncryptedServerHello ==
    ASSUME NEW e, NEW g, Turn(e, g, "client", "tls13"), e.tls13_state = "read_server_hello",
           NEW key,
           HasMessage(e),
           e.session_reused => e.peer = "server"
    PROVE  Steps(e, To13(NextMessage([e EXCEPT !.read_key = key]), "read_encrypted_extensions"), g)
<1> DEFINE f == To13(NextMessage([e EXCEPT !.read_key = key]), "read_encrypted_extensions")
<1>1. /\ Good(e, g) /\ DOMAIN e = Fields /\ Wire(e, g) /\ g.side = "server"
      /\ e.side = "client" /\ Peer(e.side) = "server" /\ e.wait = "ok"
      /\ e.state = "tls13" /\ ClientTrust(e, g)
      /\ Unsigned(e) /\ ~Writing(e) /\ ~HelloHeld(e) /\ ~Emptied(e) /\ MayRead(e)
  BY TurnFacts DEF MayRead, Emptied, HelloHeld, Writing, Unsigned, At, Good, Trust, Peer
<1>2. Steps(e, f, g)
  <2>1. Same(e, f, {"read_key", "hs_buf", "tls13_state"})
    BY <1>1, Zenon DEF Same, To13, NextMessage
  <2>2. /\ f.hs_buf = NextMessage(e).hs_buf
        /\ f.tls13_state = "read_encrypted_extensions"
    BY <1>1, SMT DEF To13, NextMessage, Message, Fields
  <2> HIDE DEF f
  <2>3. Sound(Message(e), g) /\ SoundUnits(f.hs_buf, g) /\ (~Excess(e) => f.hs_buf = <<>>)
    BY <1>1, <2>2, OnMessage DEF Wire, Carries
  <2>4. /\ ClientTrust(f, g) /\ (Unsigned(f) => Unsigned(e))
        /\ ~Emptied(f) /\ ~HelloHeld(f)
    BY <1>1, <2>1, <2>2, <2>3, SMT DEF Same, Fields, ClientTrust, Proved12, Proved13, Accepted,
         Judged, At, Unsigned, Emptied, HelloHeld, Sound
  <2>5. /\ f.version \in {0, 12, 13} /\ f.session_reused \in BOOLEAN
        /\ f.used_hello_retry_request \in BOOLEAN /\ f.cert_request \in BOOLEAN
        /\ f.ticket_expected \in BOOLEAN /\ f.key_share \in 0..2
        /\ f.peer \in {"none", "server"} /\ f.state # "done"
        /\ f.wait = "ok"
    BY <1>1, <2>1, <2>2, <2>3, SMT DEF Same, Fields, Good, Typed, Sound
  <2>6. Same(e, f, Readable)
    BY <2>1, SameWider DEF Readable
  <2> QED BY <1>1, <2>2, <2>3, <2>4, <2>5, <2>6, GoodRead
<1> QED BY <1>2

\* do_read_server_hello.
LEMMA C13ReadServerHello ==
    ASSUME NEW e, NEW g, Turn(e, g, "client", "tls13"), e.tls13_state = "read_server_hello"
    PROVE  Steps(e, C13!do_read_server_hello(e), g)
<1> DEFINE m == Message(e)
           f == HashMessage([e EXCEPT !.session_reused = m.reused, !.peer = IF m.reused THEN "server" ELSE @])
           b == [f EXCEPT !.secret = [psk |-> m.reused, dhe |-> m.key_share, transcript |-> f.transcript]]
           h == SetWriteKey(b, C13!hs(b, "client"))
           r == To13(NextMessage([h EXCEPT !.read_key = C13!hs(h, "server")]), "read_encrypted_extensions")
           then == IF m.key_share # e.key_share \/ (m.reused /\ ClientHello(e).session # 13)
                   THEN Alert(e, "illegal_parameter")
                   ELSE IF Excess(h) THEN Alert(h, "unexpected_message") ELSE r
<1>1. C13!do_read_server_hello(e) = Expect(e, "server_hello", then)
  BY Zenon DEF C13!do_read_server_hello, Message, HashMessage, SetWriteKey, FlushPendingHsData,
       Records, Record, To13, NextMessage, Units, ClientHello, Alert, FlushFlight, Error,
       HasMessage, Excess, Expect, Wait, SetReadKey, C13!Message, C13!HashMessage,
       C13!SetWriteKey, C13!FlushPendingHsData, C13!Records, C13!Record, C13!To13,
       C13!NextMessage, C13!Units, C13!ClientHello, C13!Alert, C13!FlushFlight, C13!Error,
       C13!HasMessage, C13!Excess, C13!Expect, C13!Wait, C13!SetReadKey
<1>2. /\ Good(e, g) /\ DOMAIN e = Fields /\ Wire(e, g) /\ g.side = "server"
      /\ e.side = "client" /\ Peer(e.side) = "server" /\ e.wait = "ok"
      /\ e.state = "tls13" /\ ClientTrust(e, g)
      /\ Unsigned(e) /\ ~Writing(e) /\ ~HelloHeld(e) /\ ~Emptied(e) /\ MayRead(e)
  BY TurnFacts DEF MayRead, Emptied, HelloHeld, Writing, Unsigned, At, Good, Trust, Peer
<1> HIDE DEF r, h
<1>3. ASSUME HasMessage(e), m.type = "server_hello", m.reused => ClientHello(e).session = 13
      PROVE  Steps(e, h, g) /\ Steps(e, r, g)
  <2>1. /\ Steps(e, b, g) /\ Turn(b, g, "client", "tls13") /\ b.tls13_state = "read_server_hello"
        /\ b.hs_buf = e.hs_buf /\ (b.session_reused => b.peer = "server")
    BY <1>3, C13ServerHello
  <2> HIDE DEF b
  <2>2. Good(b, g) /\ b.wait = "ok" /\ ~Writing(b)
    BY <2>1 DEF Turn, Writing, At
  <2>3. Draft(b, h, g) /\ Quiet(h)
    BY <2>2, QuietDraft DEF h
  <2>4. /\ Steps(b, h, g) /\ Turn(h, g, "client", "tls13") /\ h.tls13_state = "read_server_hello"
        /\ h.hs_buf = e.hs_buf
    BY <2>1, <2>2, <2>3, GoodDraft DEF Turn, Steps
  <2>5. h.session_reused => h.peer = "server"
    BY <2>1, <2>3 DEF Draft, Same, Fields, Written
  <2>6. HasMessage(h)
    BY <1>3, <2>4 DEF HasMessage
  <2>7. Steps(h, r, g)
    BY <2>4, <2>5, <2>6, C13EncryptedServerHello DEF r
  <2> QED BY <2>1, <2>4, <2>7, StepsTrans
<1>4. ASSUME NEW x, NEW why, Steps(e, x, g) PROVE Steps(e, Alert(x, why), g)
  BY <1>4, GoodAlert, StepsTrans DEF Steps
<1>5. ASSUME HasMessage(e), m.type = "server_hello" PROVE Steps(e, then, g)
  BY <1>2, <1>3, <1>4, <1>5, GoodAlert
<1> HIDE DEF then
<1> QED BY <1>1, <1>2, <1>5, GoodExpect

\* do_read_encrypted_extensions.
LEMMA C13ReadEncryptedExtensions ==
    ASSUME NEW e, NEW g, Turn(e, g, "client", "tls13"), e.tls13_state = "read_encrypted_extensions"
    PROVE  Steps(e, C13!do_read_encrypted_extensions(e), g)
<1> DEFINE f == To13(Take(e), "read_certificate_request")
<1>1. C13!do_read_encrypted_extensions(e) = Expect(e, "encrypted_extensions", f)
  BY Zenon DEF C13!do_read_encrypted_extensions, To13, Take, NextMessage, Units, Message,
       HashMessage, Expect, HasMessage, Wait, Alert, FlushFlight, FlushPendingHsData, Records,
       Record, Error, C13!To13, C13!Take, C13!NextMessage, C13!Units, C13!Message,
       C13!HashMessage, C13!Expect, C13!HasMessage, C13!Wait, C13!Alert, C13!FlushFlight,
       C13!FlushPendingHsData, C13!Records, C13!Record, C13!Error
<1>2. /\ Good(e, g) /\ DOMAIN e = Fields /\ Wire(e, g) /\ g.side = "server"
      /\ e.side = "client" /\ Peer(e.side) = "server" /\ e.wait = "ok"
      /\ e.state = "tls13" /\ ClientTrust(e, g)
      /\ Unsigned(e) /\ ~Writing(e) /\ ~HelloHeld(e) /\ ~Emptied(e) /\ MayRead(e)
  BY TurnFacts DEF MayRead, Emptied, HelloHeld, Writing, Unsigned, At, Good, Trust, Peer
<1>3. ASSUME HasMessage(e) PROVE Steps(e, f, g)
  <2>1. Same(e, f, {"transcript", "hs_buf", "tls13_state"})
    BY <1>2, Zenon DEF Same, To13, Take, NextMessage, HashMessage
  <2>2. /\ f.tls13_state = "read_certificate_request"
        /\ f.hs_buf = NextMessage(e).hs_buf
    BY <1>2, <1>3, SMT DEF To13, Take, NextMessage, HashMessage, Message, Fields
  <2> HIDE DEF f
  <2>3. Sound(Message(e), g) /\ SoundUnits(f.hs_buf, g) /\ (~Excess(e) => f.hs_buf = <<>>)
    BY <1>2, <1>3, <2>2, OnMessage DEF Wire, Carries
  <2>4. /\ ClientTrust(f, g) /\ (Unsigned(f) => Unsigned(e))
        /\ ~Emptied(f) /\ ~HelloHeld(f)
    BY <1>2, <1>3, <2>1, <2>2, <2>3, SMT DEF Same, Fields, ClientTrust, Proved12, Proved13,
         Accepted, Judged, At, Unsigned, Emptied, HelloHeld, Sound
  <2>5. /\ f.version \in {0, 12, 13} /\ f.session_reused \in BOOLEAN
        /\ f.used_hello_retry_request \in BOOLEAN /\ f.cert_request \in BOOLEAN
        /\ f.ticket_expected \in BOOLEAN /\ f.key_share \in 0..2
        /\ f.peer \in {"none", "server"} /\ f.state # "done"
        /\ f.wait = "ok"
    BY <1>2, <1>3, <2>1, <2>2, <2>3, SMT DEF Same, Fields, Good, Typed, Sound
  <2>6. Same(e, f, Readable)
    BY <2>1, SameWider DEF Readable
  <2> QED BY <1>2, <2>2, <2>3, <2>4, <2>5, <2>6, GoodRead
<1> HIDE DEF f
<1> QED BY <1>1, <1>2, <1>3, GoodExpect

\* do_read_certificate_request.
LEMMA C13ReadCertificateRequest ==
    ASSUME NEW e, NEW g, Turn(e, g, "client", "tls13"), e.tls13_state = "read_certificate_request"
    PROVE  Steps(e, C13!do_read_certificate_request(e), g)
<1> DEFINE f == To13(e, "read_server_finished")
           h == To13(e, "read_server_certificate")
           r == To13(Take([e EXCEPT !.cert_request = TRUE]), "read_server_certificate")
<1>1. C13!do_read_certificate_request(e) = IF e.session_reused THEN f
        ELSE IF ~HasMessage(e) THEN Wait(e, "read_message")
        ELSE IF Message(e).type # "certificate_request" THEN h ELSE r
  BY Zenon DEF C13!do_read_certificate_request, To13, Take, NextMessage, Units, Message,
       HashMessage, HasMessage, Wait, C13!To13, C13!Take, C13!NextMessage, C13!Units,
       C13!Message, C13!HashMessage, C13!HasMessage, C13!Wait
<1>2. /\ Good(e, g) /\ DOMAIN e = Fields /\ Wire(e, g) /\ g.side = "server"
      /\ e.side = "client" /\ Peer(e.side) = "server" /\ e.wait = "ok"
      /\ e.state = "tls13" /\ ClientTrust(e, g)
      /\ Unsigned(e) /\ ~Writing(e) /\ ~HelloHeld(e) /\ ~Emptied(e) /\ MayRead(e)
  BY TurnFacts DEF MayRead, Emptied, HelloHeld, Writing, Unsigned, At, Good, Trust, Peer
<1>3. ASSUME e.session_reused PROVE Steps(e, f, g)
  <2>1. Same(e, f, {"tls13_state"})
    BY <1>2, Zenon DEF Same, To13
  <2>2. f.tls13_state = "read_server_finished"
    BY <1>2, <1>3, SMT DEF To13, Message, Fields
  <2> HIDE DEF f
  <2>3. SoundUnits(f.hs_buf, g) /\ f.hs_buf = e.hs_buf
    BY <1>2, <2>1 DEF Same, Fields, Wire, Carries
  <2>4. /\ ClientTrust(f, g) /\ (Unsigned(f) => Unsigned(e))
        /\ ~Emptied(f) /\ ~HelloHeld(f)
    BY <1>2, <1>3, <2>1, <2>2, <2>3, SMT DEF Same, Fields, ClientTrust, Proved12, Proved13,
         Accepted, Judged, At, Unsigned, Emptied, HelloHeld
  <2>5. /\ f.version \in {0, 12, 13} /\ f.session_reused \in BOOLEAN
        /\ f.used_hello_retry_request \in BOOLEAN /\ f.cert_request \in BOOLEAN
        /\ f.ticket_expected \in BOOLEAN /\ f.key_share \in 0..2
        /\ f.peer \in {"none", "server"} /\ f.state # "done"
        /\ f.wait = "ok"
    BY <1>2, <2>1, <2>2, <2>3, SMT DEF Same, Fields, Good, Typed
  <2>6. Same(e, f, Readable)
    BY <2>1, SameWider DEF Readable
  <2> QED BY <1>2, <2>2, <2>3, <2>4, <2>5, <2>6, GoodRead
<1>4. Steps(e, h, g)
  <2>1. Same(e, h, {"tls13_state"})
    BY <1>2, Zenon DEF Same, To13
  <2>2. h.tls13_state = "read_server_certificate"
    BY <1>2, SMT DEF To13, Message, Fields
  <2> HIDE DEF h
  <2>3. SoundUnits(h.hs_buf, g) /\ h.hs_buf = e.hs_buf
    BY <1>2, <2>1 DEF Same, Fields, Wire, Carries
  <2>4. /\ ClientTrust(h, g) /\ (Unsigned(h) => Unsigned(e))
        /\ ~Emptied(h) /\ ~HelloHeld(h)
    BY <1>2, <2>1, <2>2, <2>3, SMT DEF Same, Fields, ClientTrust, Proved12, Proved13, Accepted,
         Judged, At, Unsigned, Emptied, HelloHeld
  <2>5. /\ h.version \in {0, 12, 13} /\ h.session_reused \in BOOLEAN
        /\ h.used_hello_retry_request \in BOOLEAN /\ h.cert_request \in BOOLEAN
        /\ h.ticket_expected \in BOOLEAN /\ h.key_share \in 0..2
        /\ h.peer \in {"none", "server"} /\ h.state # "done"
        /\ h.wait = "ok"
    BY <1>2, <2>1, <2>2, <2>3, SMT DEF Same, Fields, Good, Typed
  <2>6. Same(e, h, Readable)
    BY <2>1, SameWider DEF Readable
  <2> QED BY <1>2, <2>2, <2>3, <2>4, <2>5, <2>6, GoodRead
<1>5. ASSUME HasMessage(e) PROVE Steps(e, r, g)
  <2>1. Same(e, r, {"cert_request", "transcript", "hs_buf", "tls13_state"})
    BY <1>2, Zenon DEF Same, To13, Take, NextMessage, HashMessage
  <2>2. /\ r.cert_request \in BOOLEAN /\ r.tls13_state = "read_server_certificate"
        /\ r.hs_buf = NextMessage(e).hs_buf
    BY <1>2, <1>5, SMT DEF To13, Take, NextMessage, HashMessage, Message, Fields
  <2> HIDE DEF r
  <2>3. Sound(Message(e), g) /\ SoundUnits(r.hs_buf, g) /\ (~Excess(e) => r.hs_buf = <<>>)
    BY <1>2, <1>5, <2>2, OnMessage DEF Wire, Carries
  <2>4. /\ ClientTrust(r, g) /\ (Unsigned(r) => Unsigned(e))
        /\ ~Emptied(r) /\ ~HelloHeld(r)
    BY <1>2, <1>5, <2>1, <2>2, <2>3, SMT DEF Same, Fields, ClientTrust, Proved12, Proved13,
         Accepted, Judged, At, Unsigned, Emptied, HelloHeld, Sound
  <2>5. /\ r.version \in {0, 12, 13} /\ r.session_reused \in BOOLEAN
        /\ r.used_hello_retry_request \in BOOLEAN /\ r.cert_request \in BOOLEAN
        /\ r.ticket_expected \in BOOLEAN /\ r.key_share \in 0..2
        /\ r.peer \in {"none", "server"} /\ r.state # "done"
        /\ r.wait = "ok"
    BY <1>2, <1>5, <2>1, <2>2, <2>3, SMT DEF Same, Fields, Good, Typed, Sound
  <2>6. Same(e, r, Readable)
    BY <2>1, SameWider DEF Readable
  <2> QED BY <1>2, <2>2, <2>3, <2>4, <2>5, <2>6, GoodRead
<1>6. Steps(e, Wait(e, "read_message"), g)
  BY <1>2, GoodWait DEF Reading
<1> HIDE DEF f, h, r
<1> QED BY <1>1, <1>3, <1>4, <1>5, <1>6

\* do_read_server_certificate.
LEMMA C13ReadServerCertificate ==
    ASSUME NEW e, NEW g, Turn(e, g, "client", "tls13"), e.tls13_state = "read_server_certificate"
    PROVE  Steps(e, C13!do_read_server_certificate(e), g)
<1> DEFINE f == To13(Take([e EXCEPT !.peer = Message(e).cert]), "read_server_certificate_verify")
           then == IF Message(e).cert = "none" THEN Alert(e, "certificate_required") ELSE f
<1>1. C13!do_read_server_certificate(e) = Expect(e, "certificate", then)
  BY Zenon DEF C13!do_read_server_certificate, To13, Take, NextMessage, Units, Message,
       HashMessage, Alert, FlushFlight, FlushPendingHsData, Records, Record, Error, HasMessage,
       Expect, Wait, C13!To13, C13!Take, C13!NextMessage, C13!Units, C13!Message,
       C13!HashMessage, C13!Alert, C13!FlushFlight, C13!FlushPendingHsData, C13!Records,
       C13!Record, C13!Error, C13!HasMessage, C13!Expect, C13!Wait
<1>2. /\ Good(e, g) /\ DOMAIN e = Fields /\ Wire(e, g) /\ g.side = "server"
      /\ e.side = "client" /\ Peer(e.side) = "server" /\ e.wait = "ok"
      /\ e.state = "tls13" /\ ClientTrust(e, g)
      /\ Unsigned(e) /\ ~Writing(e) /\ ~HelloHeld(e) /\ ~Emptied(e) /\ MayRead(e)
  BY TurnFacts DEF MayRead, Emptied, HelloHeld, Writing, Unsigned, At, Good, Trust, Peer
<1>3. ASSUME HasMessage(e), Message(e).type = "certificate", Message(e).cert # "none" PROVE Steps(e, f, g)
  <2>1. Same(e, f, {"peer", "transcript", "hs_buf", "tls13_state"})
    BY <1>2, Zenon DEF Same, To13, Take, NextMessage, HashMessage
  <2>2. /\ f.peer = Message(e).cert /\ f.tls13_state = "read_server_certificate_verify"
        /\ f.hs_buf = NextMessage(e).hs_buf
    BY <1>2, <1>3, SMT DEF To13, Take, NextMessage, HashMessage, Message, Fields
  <2> HIDE DEF f
  <2>3. Sound(Message(e), g) /\ SoundUnits(f.hs_buf, g) /\ (~Excess(e) => f.hs_buf = <<>>)
    BY <1>2, <1>3, <2>2, OnMessage DEF Wire, Carries
  <2>4. /\ ClientTrust(f, g) /\ (Unsigned(f) => Unsigned(e))
        /\ ~Emptied(f) /\ ~HelloHeld(f)
    BY <1>2, <1>3, <2>1, <2>2, <2>3, SMT DEF Same, Fields, ClientTrust, Proved12, Proved13,
         Accepted, Judged, At, Unsigned, Emptied, HelloHeld, Sound
  <2>5. /\ f.version \in {0, 12, 13} /\ f.session_reused \in BOOLEAN
        /\ f.used_hello_retry_request \in BOOLEAN /\ f.cert_request \in BOOLEAN
        /\ f.ticket_expected \in BOOLEAN /\ f.key_share \in 0..2
        /\ f.peer \in {"none", "server"} /\ f.state # "done"
        /\ f.wait = "ok"
    BY <1>2, <1>3, <2>1, <2>2, <2>3, SMT DEF Same, Fields, Good, Typed, Sound
  <2>6. Same(e, f, Readable)
    BY <2>1, SameWider DEF Readable
  <2> QED BY <1>2, <2>2, <2>3, <2>4, <2>5, <2>6, GoodRead
<1> HIDE DEF f
<1>4. ASSUME HasMessage(e), Message(e).type = "certificate" PROVE Steps(e, then, g)
  BY <1>2, <1>3, <1>4, GoodAlert
<1> QED BY <1>1, <1>2, <1>4, GoodExpect

\* do_read_server_certificate_verify.
LEMMA C13ReadServerCertificateVerify ==
    ASSUME NEW e, NEW g, Turn(e, g, "client", "tls13"), e.tls13_state = "read_server_certificate_verify"
    PROVE  Steps(e, C13!do_read_server_certificate_verify(e), g)
<1> DEFINE f == To13(Take(e), "read_server_finished")
           then == IF ~SignedBy(Message(e), e, e.transcript) THEN Alert(e, "decrypt_error") ELSE f
<1>1. C13!do_read_server_certificate_verify(e) = IF ~HasMessage(e) THEN Wait(e, "read_message")
                                                    ELSE AfterVerify(e, Expect(e, "certificate_verify", then))
  BY Zenon DEF C13!do_read_server_certificate_verify, To13, Take, NextMessage, Units, Message,
       HashMessage, SignedBy, Alert, FlushFlight, FlushPendingHsData, Records, Record, Error,
       HasMessage, Wait, AfterVerify, Expect, C13!To13, C13!Take, C13!NextMessage, C13!Units,
       C13!Message, C13!HashMessage, C13!SignedBy, C13!Alert, C13!FlushFlight,
       C13!FlushPendingHsData, C13!Records, C13!Record, C13!Error, C13!HasMessage, C13!Wait,
       C13!AfterVerify, C13!Expect
<1>2. /\ Good(e, g) /\ DOMAIN e = Fields /\ Wire(e, g) /\ g.side = "server"
      /\ e.side = "client" /\ Peer(e.side) = "server" /\ e.wait = "ok"
      /\ e.state = "tls13" /\ ClientTrust(e, g)
      /\ Unsigned(e) /\ ~Writing(e) /\ ~HelloHeld(e) /\ ~Emptied(e) /\ MayRead(e)
  BY TurnFacts DEF MayRead, Emptied, HelloHeld, Writing, Unsigned, At, Good, Trust, Peer
<1>3. ASSUME Judged(e), HasMessage(e), Message(e).type = "certificate_verify" PROVE Steps(e, f, g)
  <2>1. Same(e, f, {"transcript", "hs_buf", "tls13_state"})
    BY <1>2, Zenon DEF Same, To13, Take, NextMessage, HashMessage
  <2>2. /\ f.tls13_state = "read_server_finished"
        /\ f.hs_buf = NextMessage(e).hs_buf
    BY <1>2, <1>3, SMT DEF To13, Take, NextMessage, HashMessage, Message, Fields
  <2> HIDE DEF f
  <2>3. Sound(Message(e), g) /\ SoundUnits(f.hs_buf, g) /\ (~Excess(e) => f.hs_buf = <<>>)
    BY <1>2, <1>3, <2>2, OnMessage DEF Wire, Carries
  <2>4. /\ ClientTrust(f, g) /\ (Unsigned(f) => Unsigned(e))
        /\ ~Emptied(f) /\ ~HelloHeld(f)
    BY <1>2, <1>3, <2>1, <2>2, <2>3, SMT DEF Same, Fields, ClientTrust, Proved12, Proved13,
         Accepted, Judged, At, Unsigned, Emptied, HelloHeld, Sound
  <2>5. /\ f.version \in {0, 12, 13} /\ f.session_reused \in BOOLEAN
        /\ f.used_hello_retry_request \in BOOLEAN /\ f.cert_request \in BOOLEAN
        /\ f.ticket_expected \in BOOLEAN /\ f.key_share \in 0..2
        /\ f.peer \in {"none", "server"} /\ f.state # "done"
        /\ f.wait = "ok"
    BY <1>2, <1>3, <2>1, <2>2, <2>3, SMT DEF Same, Fields, Good, Typed, Sound
  <2>6. Same(e, f, Readable)
    BY <2>1, SameWider DEF Readable
  <2> QED BY <1>2, <2>2, <2>3, <2>4, <2>5, <2>6, GoodRead
<1> HIDE DEF f
<1>4. ASSUME Judged(e), HasMessage(e), Message(e).type = "certificate_verify" PROVE Steps(e, then, g)
  BY <1>2, <1>3, <1>4, GoodAlert
<1> HIDE DEF then
<1>5. ASSUME Judged(e) PROVE Steps(e, Expect(e, "certificate_verify", then), g)
  BY <1>2, <1>4, <1>5, GoodExpect
<1>6. Steps(e, Wait(e, "read_message"), g)
  BY <1>2, GoodWait DEF Reading
<1> QED BY <1>1, <1>2, <1>5, <1>6, GoodAfterVerify

\* do_read_server_finished.
LEMMA C13ReadServerFinished ==
    ASSUME NEW e, NEW g, Turn(e, g, "client", "tls13"), e.tls13_state = "read_server_finished"
    PROVE  Steps(e, C13!do_read_server_finished(e), g)
<1> DEFINE a == HashMessage(e)
           h == [a EXCEPT !.app = [e.secret EXCEPT !.transcript = a.transcript]]
           f == To13(NextMessage(h), "send_client_certificate")
           then == IF Message(e) # Finished("server", e) THEN Alert(e, "decrypt_error")
                   ELSE IF Excess(h) THEN Alert(h, "unexpected_message") ELSE f
<1>1. C13!do_read_server_finished(e) = Expect(e, "finished", then)
  BY Zenon DEF C13!do_read_server_finished, HashMessage, Message, To13, NextMessage, Units,
       Finished, Alert, FlushFlight, FlushPendingHsData, Records, Record, Error, HasMessage,
       Excess, Expect, Wait, C13!HashMessage, C13!Message, C13!To13, C13!NextMessage, C13!Units,
       C13!Finished, C13!Alert, C13!FlushFlight, C13!FlushPendingHsData, C13!Records,
       C13!Record, C13!Error, C13!HasMessage, C13!Excess, C13!Expect, C13!Wait
<1>2. /\ Good(e, g) /\ DOMAIN e = Fields /\ Wire(e, g) /\ g.side = "server"
      /\ e.side = "client" /\ Peer(e.side) = "server" /\ e.wait = "ok"
      /\ e.state = "tls13" /\ ClientTrust(e, g)
      /\ Unsigned(e) /\ ~Writing(e) /\ ~HelloHeld(e) /\ ~Emptied(e) /\ MayRead(e)
  BY TurnFacts DEF MayRead, Emptied, HelloHeld, Writing, Unsigned, At, Good, Trust, Peer
<1>3. ASSUME HasMessage(e) PROVE Steps(e, f, g)
  <2>1. Same(e, f, {"transcript", "app", "hs_buf", "tls13_state"})
    BY <1>2, Zenon DEF Same, To13, NextMessage, HashMessage
  <2>2. /\ f.tls13_state = "send_client_certificate"
        /\ f.hs_buf = NextMessage(e).hs_buf
    BY <1>2, <1>3, SMT DEF To13, NextMessage, HashMessage, Message, Fields
  <2> HIDE DEF f
  <2>3. Sound(Message(e), g) /\ SoundUnits(f.hs_buf, g) /\ (~Excess(e) => f.hs_buf = <<>>)
    BY <1>2, <1>3, <2>2, OnMessage DEF Wire, Carries
  <2>4. /\ ClientTrust(f, g) /\ (Unsigned(f) => Unsigned(e))
        /\ ~Emptied(f) /\ ~HelloHeld(f)
    BY <1>2, <1>3, <2>1, <2>2, <2>3, SMT DEF Same, Fields, ClientTrust, Proved12, Proved13,
         Accepted, Judged, At, Unsigned, Emptied, HelloHeld, Sound
  <2>5. /\ f.version \in {0, 12, 13} /\ f.session_reused \in BOOLEAN
        /\ f.used_hello_retry_request \in BOOLEAN /\ f.cert_request \in BOOLEAN
        /\ f.ticket_expected \in BOOLEAN /\ f.key_share \in 0..2
        /\ f.peer \in {"none", "server"} /\ f.state # "done"
        /\ f.wait = "ok"
    BY <1>2, <1>3, <2>1, <2>2, <2>3, SMT DEF Same, Fields, Good, Typed, Sound
  <2>6. Same(e, f, Readable)
    BY <2>1, SameWider DEF Readable
  <2> QED BY <1>2, <2>2, <2>3, <2>4, <2>5, <2>6, GoodRead
<1>4. Steps(e, h, g)
  <2>1. Same(e, h, {"transcript", "app"})
    BY <1>2, Zenon DEF Same, HashMessage
  <2>2. h.tls13_state = "read_server_finished"
    BY <1>2, SMT DEF HashMessage, Message, Fields
  <2> HIDE DEF h
  <2>3. SoundUnits(h.hs_buf, g) /\ h.hs_buf = e.hs_buf
    BY <1>2, <2>1 DEF Same, Fields, Wire, Carries
  <2>4. /\ ClientTrust(h, g) /\ (Unsigned(h) => Unsigned(e))
        /\ ~Emptied(h) /\ ~HelloHeld(h)
    BY <1>2, <2>1, <2>2, <2>3, SMT DEF Same, Fields, ClientTrust, Proved12, Proved13, Accepted,
         Judged, At, Unsigned, Emptied, HelloHeld
  <2>5. /\ h.version \in {0, 12, 13} /\ h.session_reused \in BOOLEAN
        /\ h.used_hello_retry_request \in BOOLEAN /\ h.cert_request \in BOOLEAN
        /\ h.ticket_expected \in BOOLEAN /\ h.key_share \in 0..2
        /\ h.peer \in {"none", "server"} /\ h.state # "done"
        /\ h.wait = "ok"
    BY <1>2, <2>1, <2>2, <2>3, SMT DEF Same, Fields, Good, Typed
  <2>6. Same(e, h, Readable)
    BY <2>1, SameWider DEF Readable
  <2> QED BY <1>2, <2>2, <2>3, <2>4, <2>5, <2>6, GoodRead
<1> HIDE DEF f, h
<1>5. Steps(e, Alert(h, "unexpected_message"), g)
  BY <1>4, GoodAlert, StepsTrans DEF Steps
<1>6. ASSUME HasMessage(e) PROVE Steps(e, then, g)
  BY <1>2, <1>3, <1>5, <1>6, GoodAlert
<1> QED BY <1>1, <1>2, <1>6, GoodExpect

\* do_send_client_certificate.
LEMMA C13SendClientCertificate ==
    ASSUME NEW e, NEW g, Turn(e, g, "client", "tls13"), e.tls13_state = "send_client_certificate"
    PROVE  Steps(e, C13!do_send_client_certificate(e), g)
<1> DEFINE d == AddMessage(e, Certificate(e))
           f == To13(d, "send_client_certificate_verify")
           h == To13(e, "complete_second_flight")
<1>1. C13!do_send_client_certificate(e) = IF ~e.cert_request THEN h ELSE f
  BY Zenon DEF C13!do_send_client_certificate, AddMessage, NullKey, Records, Record, Units,
       Certificate, To13, C13!AddMessage, C13!NullKey, C13!Records, C13!Record, C13!Units,
       C13!Certificate, C13!To13
<1>2. /\ Good(e, g) /\ DOMAIN e = Fields /\ Wire(e, g) /\ g.side = "server"
      /\ e.side = "client" /\ Peer(e.side) = "server" /\ e.wait = "ok"
      /\ e.state = "tls13" /\ ClientTrust(e, g)
      /\ Unsigned(e) /\ ~Writing(e) /\ ~HelloHeld(e) /\ ~Emptied(e) /\ MayRead(e)
  BY TurnFacts DEF MayRead, Emptied, HelloHeld, Writing, Unsigned, At, Good, Trust, Peer
<1>3. Steps(e, f, g)
  <2>1. Draft(e, d, g)
    <3>1. Sound(Certificate(e), e)
      BY DEF Sound, Certificate
    <3>2. Draft(e, d, g)
      BY <1>2, <3>1, DraftStart, DraftAddMessage
    <3> QED BY <3>2
  <2> HIDE DEF d
  <2>2. Same(d, f, {"tls13_state"}) /\ f.tls13_state = "send_client_certificate_verify"
    BY <2>1, DraftWire, SameTo13
  <2> HIDE DEF f
  <2>3. Same(d, f, Ending)
    BY <2>2, SameWider DEF Ending
  <2>4. /\ ClientTrust(f, g) /\ (Unsigned(f) => Unsigned(e))
        /\ ~Emptied(f) /\ ~HelloHeld(f) /\ (Writing(f) \/ f.wait = "flush" \/ Quiet(d))
        /\ f.wait = "ok" /\ f.state = e.state /\ f.cert_request = e.cert_request
        /\ f.used_hello_retry_request = e.used_hello_retry_request
    BY <1>2, <2>1, <2>2, <2>3, OnWrite DEF Draft, Written, Same, Fields, ClientTrust, Proved12,
         Proved13, Accepted, Judged, At, Unsigned, Emptied, HelloHeld, Writing
  <2>5. /\ f.used_hello_retry_request \in BOOLEAN /\ f.cert_request \in BOOLEAN
        /\ f.state # "done" /\ f.wait \in {"ok", "flush"}
    BY <1>2, <2>2, <2>4 DEF Good, Typed, Same, Fields
  <2> QED BY <1>2, <2>1, <2>2, <2>3, <2>4, <2>5, GoodSend
<1>4. Steps(e, h, g)
  <2>1. Same(e, h, {"tls13_state"})
    BY <1>2, Zenon DEF Same, To13
  <2>2. h.tls13_state = "complete_second_flight"
    BY <1>2, SMT DEF To13, Message, Fields
  <2> HIDE DEF h
  <2>3. SoundUnits(h.hs_buf, g) /\ h.hs_buf = e.hs_buf
    BY <1>2, <2>1 DEF Same, Fields, Wire, Carries
  <2>4. /\ ClientTrust(h, g) /\ (Unsigned(h) => Unsigned(e))
        /\ ~Emptied(h) /\ ~HelloHeld(h)
    BY <1>2, <2>1, <2>2, <2>3, SMT DEF Same, Fields, ClientTrust, Proved12, Proved13, Accepted,
         Judged, At, Unsigned, Emptied, HelloHeld
  <2>5. /\ h.version \in {0, 12, 13} /\ h.session_reused \in BOOLEAN
        /\ h.used_hello_retry_request \in BOOLEAN /\ h.cert_request \in BOOLEAN
        /\ h.ticket_expected \in BOOLEAN /\ h.key_share \in 0..2
        /\ h.peer \in {"none", "server"} /\ h.state # "done"
        /\ h.wait = "ok"
    BY <1>2, <2>1, <2>2, <2>3, SMT DEF Same, Fields, Good, Typed
  <2>6. Same(e, h, Readable)
    BY <2>1, SameWider DEF Readable
  <2> QED BY <1>2, <2>2, <2>3, <2>4, <2>5, <2>6, GoodRead
<1> HIDE DEF f, h
<1> QED BY <1>1, <1>3, <1>4

\* do_send_client_certificate_verify.
LEMMA C13SendClientCertificateVerify ==
    ASSUME NEW e, NEW g, Turn(e, g, "client", "tls13"), e.tls13_state = "send_client_certificate_verify"
    PROVE  Steps(e, C13!do_send_client_certificate_verify(e), g)
<1> DEFINE f == To13(e, "complete_second_flight")
           then == To13(AddMessage(e, CertificateVerify(e)), "complete_second_flight")
<1>1. C13!do_send_client_certificate_verify(e) = IF ~e.cfg.cert THEN f ELSE AfterSign(e, then)
  BY Zenon DEF C13!do_send_client_certificate_verify, To13, AddMessage, NullKey, Records,
       Record, Units, CertificateVerify, AfterSign, Error, Wait, C13!To13, C13!AddMessage,
       C13!NullKey, C13!Records, C13!Record, C13!Units, C13!CertificateVerify, C13!AfterSign,
       C13!Error, C13!Wait
<1>2. /\ Good(e, g) /\ DOMAIN e = Fields /\ Wire(e, g) /\ g.side = "server"
      /\ e.side = "client" /\ Peer(e.side) = "server" /\ e.wait = "ok"
      /\ e.state = "tls13" /\ ClientTrust(e, g)
      /\ Unsigned(e) /\ Writing(e) /\ ~HelloHeld(e) /\ ~Emptied(e)
  BY TurnFacts DEF MayRead, Emptied, HelloHeld, Writing, Unsigned, At, Good, Trust, Peer
<1>3. /\ then.state # "done"
      /\ Same(e, then, {"pending_flight", "pending_hs_data", "transcript", "state", "tls13_state"})
      /\ then.tls13_state = "complete_second_flight" /\ then.state = "tls13"
  <2> DEFINE d == AddMessage(e, CertificateVerify(e))
  <2>1. Same(e, d, {"pending_flight", "pending_hs_data", "transcript"})
    BY <1>2, Zenon DEF Same, AddMessage
  <2>2. Same(d, then, {"tls13_state"}) /\ then.tls13_state = "complete_second_flight"
    BY <2>1, Zenon DEF Same, To, To13, Fields
  <2> HIDE DEF d, then
  <2>3. Same(e, then, {"pending_flight", "pending_hs_data", "transcript"} \cup {"tls13_state"})
    BY <2>1, <2>2, SameTrans
  <2>4. then.state # "done" /\ then.state = "tls13"
    BY <1>2, <2>1, <2>2 DEF Same, Fields
  <2> QED BY <2>2, <2>3, <2>4, SameWider
<1>4. ASSUME NEW o, Grows(e, o), Signed(o) PROVE Carries(then, o, g)
  <2> DEFINE d == AddMessage(e, CertificateVerify(e))
  <2>1. Sound(CertificateVerify(e), o)
    BY <1>2, <1>4 DEF Sound, CertificateVerify, Grows, Good, Typed
  <2>2. Same(e, d, {"pending_flight", "pending_hs_data", "transcript"}) /\ Carries(d, o, g)
    BY <1>2, <1>4, <2>1, OnAddMessage
  <2>3. Same(d, then, {"tls13_state"})
    BY <2>2, Zenon DEF Same, To, To13
  <2> HIDE DEF d, then
  <2>4. /\ then.pending_hs_data = d.pending_hs_data /\ then.pending_flight = d.pending_flight
        /\ then.outbound = d.outbound /\ then.inbound = d.inbound /\ then.hs_buf = d.hs_buf
    BY <2>3 DEF Same, Fields
  <2> QED BY <2>2, <2>4, Zenon DEF Carries
<1> HIDE DEF then
<1>5. /\ ClientTrust(then, g) /\ ~Unsigned(then) /\ Writing(then) /\ ~Emptied(then)
      /\ ~HelloHeld(then) /\ then.wait = "ok"
  BY <1>2, <1>3, SMT DEF Same, Fields, ClientTrust, Proved12, Proved13, Accepted, Judged, At,
       Unsigned, Emptied, HelloHeld, Writing
<1>6. Buffers(then)
  BY <1>5 DEF Buffers, Reading
<1>7. Steps(e, AfterSign(e, then), g)
  BY <1>2, <1>3, <1>4, <1>5, <1>6, GoodAfterSign
<1>8. Steps(e, f, g)
  <2>1. Draft(e, e, g)
    <3>1. Draft(e, e, g)
      BY <1>2, DraftStart
    <3> QED BY <3>1
  <2>2. Same(e, f, {"tls13_state"}) /\ f.tls13_state = "complete_second_flight"
    BY <1>2, <2>1, DraftWire, Zenon DEF Same, Fields, To, To13, Wait
  <2> HIDE DEF f
  <2>3. Same(e, f, Ending)
    BY <2>2, SameWider DEF Ending
  <2>4. /\ ClientTrust(f, g) /\ (Unsigned(f) => Unsigned(e))
        /\ ~Emptied(f) /\ ~HelloHeld(f) /\ (Writing(f) \/ f.wait = "flush" \/ Quiet(e))
        /\ f.wait = "ok" /\ f.state = e.state /\ f.cert_request = e.cert_request
        /\ f.used_hello_retry_request = e.used_hello_retry_request
    BY <1>2, <2>1, <2>2, <2>3, OnWrite DEF Draft, Written, Same, Fields, ClientTrust, Proved12,
         Proved13, Accepted, Judged, At, Unsigned, Emptied, HelloHeld, Writing
  <2>5. /\ f.used_hello_retry_request \in BOOLEAN /\ f.cert_request \in BOOLEAN
        /\ f.state # "done" /\ f.wait \in {"ok", "flush"}
    BY <1>2, <2>2, <2>4 DEF Good, Typed, Same, Fields
  <2> QED BY <1>2, <2>1, <2>2, <2>3, <2>4, <2>5, GoodSend
<1> HIDE DEF f
<1> QED BY <1>1, <1>7, <1>8

\* do_complete_second_flight.
LEMMA C13CompleteSecondFlight ==
    ASSUME NEW e, NEW g, Turn(e, g, "client", "tls13"), e.tls13_state = "complete_second_flight"
    PROVE  Steps(e, C13!do_complete_second_flight(e), g)
<1> DEFINE a == AddMessage(e, Finished("client", e))
           d == SetWriteKey(a, Key("application", "client", a.app))
           f == [Wait(To13(d, "done"), "flush") EXCEPT !.read_key = Key("application", "server", d.app)]
<1>1. C13!do_complete_second_flight(e) = IF d.hs_buf # <<>> THEN Alert(d, "unexpected_message") ELSE f
  <2> DEFINE aa == C13!AddMessage(e, C13!Finished("client", e))
             dd == C13!SetWriteKey(aa, C13!Key("application", "client", aa.app))
             ff == [C13!Wait(C13!To13(dd, "done"), "flush")
                      EXCEPT !.read_key = C13!Key("application", "server", dd.app)]
  <2>1. C13!do_complete_second_flight(e)
            = IF dd.hs_buf # <<>> THEN C13!Alert(dd, "unexpected_message") ELSE ff
    BY Zenon DEF C13!do_complete_second_flight, C13!SetReadKey
  <2>2. aa = a
    BY Zenon DEF AddMessage, NullKey, Records, Record, Units, Finished, C13!AddMessage,
         C13!NullKey, C13!Records, C13!Record, C13!Units, C13!Finished
  <2> HIDE DEF aa, a
  <2>3. dd = d
    BY <2>2, Zenon DEF SetWriteKey, FlushPendingHsData, Records, Record, Key, C13!SetWriteKey,
         C13!FlushPendingHsData, C13!Records, C13!Record, C13!Key
  <2> HIDE DEF dd, d
  <2>4. ff = f
    BY <2>3, Zenon DEF Wait, To13, Key, C13!Wait, C13!To13, C13!Key
  <2> HIDE DEF ff, f
  <2>5. C13!Alert(d, "unexpected_message") = Alert(d, "unexpected_message")
    BY Zenon DEF Alert, FlushFlight, FlushPendingHsData, Records, Record, Error, C13!Alert,
         C13!FlushFlight, C13!FlushPendingHsData, C13!Records, C13!Record, C13!Error
  <2> QED BY <2>1, <2>3, <2>4, <2>5
<1>2. /\ Good(e, g) /\ DOMAIN e = Fields /\ Wire(e, g) /\ g.side = "server"
      /\ e.side = "client" /\ Peer(e.side) = "server" /\ e.wait = "ok"
      /\ e.state = "tls13" /\ ClientTrust(e, g)
      /\ ~Unsigned(e) /\ Writing(e) /\ ~HelloHeld(e) /\ ~Emptied(e)
  BY TurnFacts DEF MayRead, Emptied, HelloHeld, Writing, Unsigned, At, Good, Trust, Peer
<1>3. Draft(e, d, g) /\ d.hs_buf = e.hs_buf /\ Steps(e, d, g)
  <2>1. Sound(Finished("client", e), e)
    BY DEF Sound, Finished
  <2>2. Draft(e, a, g)
    BY <1>2, <2>1, DraftStart, DraftAddMessage
  <2>3. Draft(e, d, g)
    BY <2>2, DraftSetWriteKey
  <2> QED BY <1>2, <2>3, GoodDraft
<1>4. ASSUME e.hs_buf = <<>> PROVE Steps(e, f, g)
  <2>1. Draft(e, d, g)
    <3>1. Draft(e, d, g)
      BY <1>3
    <3> QED BY <3>1
  <2>2. /\ Same(d, f, {"tls13_state", "wait", "read_key"}) /\ f.tls13_state = "done"
        /\ f.wait = "flush"
    BY <1>2, <1>4, <2>1, DraftWire, Zenon DEF Same, Fields, To, To13, Wait
  <2> HIDE DEF f, d
  <2>3. Same(d, f, Ending)
    BY <2>2, SameWider DEF Ending
  <2>4. /\ ClientTrust(f, g) /\ (Unsigned(f) => Unsigned(e))
        /\ ~HelloHeld(f)
        /\ f.state = e.state /\ f.cert_request = e.cert_request
        /\ f.used_hello_retry_request = e.used_hello_retry_request
    BY <1>2, <1>4, <2>1, <2>2, <2>3, OnWrite DEF Draft, Written, Same, Fields, ClientTrust,
         Proved12, Proved13, Accepted, Judged, At, Unsigned, Emptied, HelloHeld, Writing
  <2>5. /\ f.used_hello_retry_request \in BOOLEAN /\ f.cert_request \in BOOLEAN
        /\ f.state # "done" /\ f.wait \in {"ok", "flush"}
    BY <1>2, <2>2, <2>4 DEF Good, Typed, Same, Fields
  <2> QED BY <1>2, <2>1, <2>2, <2>3, <2>4, <2>5, <1>4, GoodSend
<1> HIDE DEF f, d
<1>5. Steps(e, Alert(d, "unexpected_message"), g)
  BY <1>3, GoodAlert, StepsTrans DEF Steps
<1> QED BY <1>1, <1>3, <1>4, <1>5

\* The machine of TLS 1.3 returns to the one of TLS 1.2.
LEMMA C13Done ==
    ASSUME NEW e, NEW g, Turn(e, g, "client", "tls13"), e.tls13_state = "done"
    PROVE  Steps(e, To(e, "finish_client_handshake"), g)
<1> DEFINE f == To(e, "finish_client_handshake")
<1>1. /\ Good(e, g) /\ DOMAIN e = Fields /\ Wire(e, g) /\ g.side = "server"
      /\ e.side = "client" /\ Peer(e.side) = "server" /\ e.wait = "ok"
      /\ e.state = "tls13" /\ ClientTrust(e, g)
      /\ ~Unsigned(e) /\ ~Writing(e) /\ ~HelloHeld(e)
  BY TurnFacts DEF MayRead, Emptied, HelloHeld, Writing, Unsigned, At, Good, Trust, Peer
<1>2. Steps(e, f, g)
  <2>1. Same(e, f, {"state"})
    BY <1>1, Zenon DEF Same, To
  <2>2. f.state = "finish_client_handshake"
    BY <1>1, SMT DEF To, Message, Fields
  <2> HIDE DEF f
  <2>3. SoundUnits(f.hs_buf, g) /\ f.hs_buf = e.hs_buf
    BY <1>1, <2>1 DEF Same, Fields, Wire, Carries
  <2>4. /\ ClientTrust(f, g) /\ (Unsigned(f) => Unsigned(e))
        /\ (Emptied(f) => f.hs_buf = <<>>) /\ ~HelloHeld(f)
    BY <1>1, <2>1, <2>2, <2>3, SMT DEF Same, Fields, ClientTrust, Proved12, Proved13, Accepted,
         Judged, At, Unsigned, Emptied, HelloHeld, Good, Buffers
  <2>5. /\ f.version \in {0, 12, 13} /\ f.session_reused \in BOOLEAN
        /\ f.used_hello_retry_request \in BOOLEAN /\ f.cert_request \in BOOLEAN
        /\ f.ticket_expected \in BOOLEAN /\ f.key_share \in 0..2
        /\ f.peer \in {"none", "server"} /\ f.state # "done"
        /\ f.wait = "ok"
    BY <1>1, <2>1, <2>2, <2>3, SMT DEF Same, Fields, Good, Typed
  <2>6. Same(e, f, Readable)
    BY <2>1, SameWider DEF Readable
  <2> QED BY <1>1, <2>2, <2>3, <2>4, <2>5, <2>6, GoodRead
<1> QED BY <1>2

-----------------------------------------------------------------------------
(***************************************************************************)
(* ssl_server_handshake.                                                   *)
(***************************************************************************)
\* The ClientHello that is held can be read.
LEMMA HeldHello ==
    ASSUME NEW e, NEW g, Good(e, g), HelloHeld(e)
    PROVE  HasMessage(e) /\ Message(e).type = "client_hello" /\ Sound(Message(e), g)
<1>1. e.hs_buf # <<>> /\ Head(e.hs_buf).type = "client_hello" /\ DOMAIN e = Fields /\ Wire(e, g)
  BY DEF Good, Buffers, Typed
<1>2. IsSeq(e.hs_buf) /\ Len(e.hs_buf) >= 1
  BY <1>1, SeqLen, SeqNone DEF Wire, Carries, SoundUnits
<1>3. Len(Units(Head(e.hs_buf))) = 1
  BY <1>1, UnitsOf
<1>4. HasMessage(e)
  BY <1>1, <1>2, <1>3 DEF HasMessage
<1> QED BY <1>1, <1>4, OnMessage DEF Message

\* A set of numbers has a least one.
LEMMA LeastNumber ==
    ASSUME NEW T, T \subseteq Nat, T # {}
    PROVE  \E x \in T : \A y \in T : x <= y
<1> DEFINE R == OpToRel(<, Nat)
<1>1. IsWellFoundedOn(R, Nat)
  BY NatLessThanWellFounded, Zenon
<1>2. \A x, y \in Nat : <<y, x>> \in R <=> y < x
  BY DEF OpToRel
<1> HIDE DEF R
<1>3. PICK x \in T : \A y \in T : ~(<<y, x>> \in R)
  BY <1>1, WFMin, Zenon
<1>4. ASSUME NEW y \in T PROVE x <= y
  <2>1. x \in Nat /\ y \in Nat /\ ~(y < x)
    BY <1>2, <1>3, Zenon
  <2> QED BY <2>1
<1> QED BY <1>4

\* tls1_get_shared_group returns a group or 0.
LEMMA SharedGroupType ==
    ASSUME NEW e, NEW groups \in Seq({1, 2})
    PROVE  SharedGroup(groups, e) \in 0..2
<1> DEFINE common == {i \in 1..Len(groups) : \E j \in 1..Len(e.cfg.groups) : e.cfg.groups[j] = groups[i]}
           first == CHOOSE i \in common : \A j \in common : i <= j
<1>1. CASE common = {}
  BY <1>1 DEF SharedGroup
<1>2. CASE common # {}
  <2>1. common \in SUBSET Nat
    OBVIOUS
  <2>2. \E i \in common : \A j \in common : i <= j
    <3> HIDE DEF common
    <3> QED BY <1>2, <2>1, LeastNumber
  <2>3. first \in common
    <3> HIDE DEF common
    <3> QED BY <2>2
  <2>4. first \in 1..Len(groups)
    BY <2>3
  <2>5. SharedGroup(groups, e) = groups[first]
    BY <1>2 DEF SharedGroup
  <2> HIDE DEF first
  <2> QED BY <2>4, <2>5
<1> QED BY <1>1, <1>2

\* do_start_accept.
LEMMA S12StartAccept ==
    ASSUME NEW e, NEW g, Turn(e, g, "server", "start")
    PROVE  Steps(e, S12!do_start_accept(e), g)
<1> DEFINE f == To(e, "read_client_hello")
<1>1. S12!do_start_accept(e) = f
  BY Zenon DEF S12!do_start_accept, To, S12!To
<1>2. /\ Good(e, g) /\ DOMAIN e = Fields /\ Wire(e, g) /\ g.side = "client"
      /\ e.side = "server" /\ Peer(e.side) = "client" /\ e.wait = "ok"
      /\ e.state = "start" /\ ServerTrust(e, g)
      /\ Unsigned(e) /\ ~Writing(e) /\ ~HelloHeld(e) /\ ~Emptied(e) /\ MayRead(e)
  BY TurnFacts DEF MayRead, Emptied, HelloHeld, Writing, Unsigned, At, Good, Trust, Peer
<1>3. Steps(e, f, g)
  <2>1. Same(e, f, {"state"})
    BY <1>2, Zenon DEF Same, To
  <2>2. f.state = "read_client_hello"
    BY <1>2, SMT DEF To, Message, Fields
  <2> HIDE DEF f
  <2>3. SoundUnits(f.hs_buf, g) /\ f.hs_buf = e.hs_buf
    BY <1>2, <2>1 DEF Same, Fields, Wire, Carries
  <2>4. /\ ServerTrust(f, g) /\ (Unsigned(f) => Unsigned(e))
        /\ ~Emptied(f) /\ ~HelloHeld(f)
    BY <1>2, <2>1, <2>2, <2>3, SMT DEF Same, Fields, ServerTrust, Checked12, Checked13,
         Accepted, Verifying, At, Unsigned, Emptied, HelloHeld
  <2>5. /\ f.version \in {0, 12, 13} /\ f.session_reused \in BOOLEAN
        /\ f.used_hello_retry_request \in BOOLEAN /\ f.cert_request \in BOOLEAN
        /\ f.ticket_expected \in BOOLEAN /\ f.key_share \in 0..2
        /\ f.peer \in {"none", "client"} /\ f.state # "done"
        /\ f.wait = "ok"
    BY <1>2, <2>1, <2>2, <2>3, SMT DEF Same, Fields, Good, Typed
  <2>6. Same(e, f, Readable)
    BY <2>1, SameWider DEF Readable
  <2> QED BY <1>2, <2>2, <2>3, <2>4, <2>5, <2>6, GoodRead
<1> HIDE DEF f
<1> QED BY <1>1, <1>3

\* do_read_client_hello.
LEMMA S12ReadClientHello ==
    ASSUME NEW e, NEW g, Turn(e, g, "server", "read_client_hello")
    PROVE  Steps(e, S12!do_read_client_hello(e), g)
<1> DEFINE f == To(e, "read_client_hello_after_ech")
           then == IF Excess(e) THEN Alert(e, "unexpected_message") ELSE f
<1>1. S12!do_read_client_hello(e) = Expect(e, "client_hello", then)
  BY Zenon DEF S12!do_read_client_hello, To, Excess, Units, Message, Alert, FlushFlight,
       FlushPendingHsData, Records, Record, Error, HasMessage, Expect, Wait, S12!To, S12!Excess,
       S12!Units, S12!Message, S12!Alert, S12!FlushFlight, S12!FlushPendingHsData, S12!Records,
       S12!Record, S12!Error, S12!HasMessage, S12!Expect, S12!Wait
<1>2. /\ Good(e, g) /\ DOMAIN e = Fields /\ Wire(e, g) /\ g.side = "client"
      /\ e.side = "server" /\ Peer(e.side) = "client" /\ e.wait = "ok"
      /\ e.state = "read_client_hello" /\ ServerTrust(e, g)
      /\ Unsigned(e) /\ ~Writing(e) /\ ~HelloHeld(e) /\ ~Emptied(e) /\ MayRead(e)
  BY TurnFacts DEF MayRead, Emptied, HelloHeld, Writing, Unsigned, At, Good, Trust, Peer
<1>3. ASSUME HasMessage(e), Message(e).type = "client_hello" PROVE Steps(e, f, g)
  <2>1. Same(e, f, {"state"})
    BY <1>2, Zenon DEF Same, To
  <2>2. f.state = "read_client_hello_after_ech"
    BY <1>2, <1>3, SMT DEF To, Message, Fields
  <2> HIDE DEF f
  <2>3. SoundUnits(f.hs_buf, g) /\ f.hs_buf = e.hs_buf
    BY <1>2, <2>1 DEF Same, Fields, Wire, Carries
  <2>4. /\ ServerTrust(f, g) /\ (Unsigned(f) => Unsigned(e))
        /\ (HelloHeld(f) => f.hs_buf # <<>> /\ Head(f.hs_buf).type = "client_hello") /\ ~Emptied(f)
    BY <1>2, <1>3, <2>1, <2>2, <2>3, SMT DEF Same, Fields, ServerTrust, Checked12, Checked13,
         Accepted, Verifying, At, Unsigned, Emptied, HelloHeld, HasMessage, Message
  <2>5. /\ f.version \in {0, 12, 13} /\ f.session_reused \in BOOLEAN
        /\ f.used_hello_retry_request \in BOOLEAN /\ f.cert_request \in BOOLEAN
        /\ f.ticket_expected \in BOOLEAN /\ f.key_share \in 0..2
        /\ f.peer \in {"none", "client"} /\ f.state # "done"
        /\ f.wait = "ok"
    BY <1>2, <1>3, <2>1, <2>2, <2>3, SMT DEF Same, Fields, Good, Typed
  <2>6. Same(e, f, Readable)
    BY <2>1, SameWider DEF Readable
  <2> QED BY <1>2, <1>3, <2>2, <2>3, <2>4, <2>5, <2>6, GoodRead
<1> HIDE DEF f
<1>4. ASSUME HasMessage(e), Message(e).type = "client_hello" PROVE Steps(e, then, g)
  BY <1>2, <1>3, <1>4, GoodAlert
<1> QED BY <1>1, <1>2, <1>4, GoodExpect

\* The version negotiated is one of the two, or none.
LEMMA NegotiatedVersionType ==
    ASSUME NEW e, NEW m, e.cfg.versions \in SUBSET {12, 13}
    PROVE  S12!NegotiatedVersion(m, e) \in {0, 12, 13}
<1> DEFINE common == m.versions \cap e.cfg.versions
           highest == CHOOSE v \in common : \A w \in common : w <= v
<1>1. S12!NegotiatedVersion(m, e) = IF common = {} THEN 0 ELSE highest
  BY Zenon DEF S12!NegotiatedVersion
<1>2. common \in SUBSET {12, 13}
  OBVIOUS
<1>3. ASSUME common # {} PROVE highest \in common
  <2> HIDE DEF common
  <2>1. \E v \in common : \A w \in common : w <= v
    <3>1. CASE 13 \in common
      <4>1. \A w \in common : w <= 13
        BY <1>2
      <4> QED BY <3>1, <4>1
    <3>2. CASE 13 \notin common
      <4>1. PICK v \in common : TRUE
        BY <1>3
      <4>2. \A w \in common : w = 12
        BY <1>2, <3>2
      <4> QED BY <4>1, <4>2
    <3> QED BY <3>1, <3>2
  <2> QED BY <2>1
<1> HIDE DEF common, highest
<1> QED BY <1>1, <1>2, <1>3

\* do_read_client_hello_after_ech.
LEMMA S12ReadClientHelloAfterEch ==
    ASSUME NEW e, NEW g, Turn(e, g, "server", "read_client_hello_after_ech")
    PROVE  Steps(e, S12!do_read_client_hello_after_ech(e), g)
<1> DEFINE v == S12!NegotiatedVersion(Message(e), e)
           f == To([e EXCEPT !.version = v], "select_certificate")
<1>1. S12!do_read_client_hello_after_ech(e) = IF v = 0 THEN Alert(e, "protocol_version") ELSE f
  BY Zenon DEF S12!do_read_client_hello_after_ech, Message, To, Alert, FlushFlight,
       FlushPendingHsData, Records, Record, Error, HasMessage, Units, S12!Message, S12!To,
       S12!Alert, S12!FlushFlight, S12!FlushPendingHsData, S12!Records, S12!Record, S12!Error,
       S12!HasMessage, S12!Units
<1>2. /\ Good(e, g) /\ DOMAIN e = Fields /\ Wire(e, g) /\ g.side = "client"
      /\ e.side = "server" /\ Peer(e.side) = "client" /\ e.wait = "ok"
      /\ e.state = "read_client_hello_after_ech" /\ ServerTrust(e, g)
      /\ Unsigned(e) /\ ~Writing(e) /\ HelloHeld(e) /\ ~Emptied(e)
  BY TurnFacts DEF MayRead, Emptied, HelloHeld, Writing, Unsigned, At, Good, Trust, Peer
<1>3. v \in {0, 12, 13}
  BY <1>2, NegotiatedVersionType DEF Good, Typed, Config
<1> HIDE DEF v
<1>4. Steps(e, f, g)
  <2>1. Same(e, f, {"version", "state"})
    BY <1>2, Zenon DEF Same, To
  <2>2. f.version = v /\ f.state = "select_certificate"
    BY <1>2, SMT DEF To, Message, Fields
  <2> HIDE DEF f
  <2>3. SoundUnits(f.hs_buf, g) /\ f.hs_buf = e.hs_buf
    BY <1>2, <2>1 DEF Same, Fields, Wire, Carries
  <2>4. /\ ServerTrust(f, g) /\ (Unsigned(f) => Unsigned(e))
        /\ (HelloHeld(f) => f.hs_buf # <<>> /\ Head(f.hs_buf).type = "client_hello") /\ ~Emptied(f)
    BY <1>2, <2>1, <2>2, <2>3, <1>3, SMT DEF Same, Fields, ServerTrust, Checked12, Checked13,
         Accepted, Verifying, At, Unsigned, Emptied, HelloHeld, Good, Buffers
  <2>5. /\ f.version \in {0, 12, 13} /\ f.session_reused \in BOOLEAN
        /\ f.used_hello_retry_request \in BOOLEAN /\ f.cert_request \in BOOLEAN
        /\ f.ticket_expected \in BOOLEAN /\ f.key_share \in 0..2
        /\ f.peer \in {"none", "client"} /\ f.state # "done"
        /\ f.wait = "ok"
    BY <1>2, <2>1, <2>2, <2>3, <1>3, SMT DEF Same, Fields, Good, Typed
  <2>6. Same(e, f, Readable)
    BY <2>1, SameWider DEF Readable
  <2> QED BY <1>2, <2>2, <2>3, <2>4, <2>5, <2>6, GoodRead
<1> HIDE DEF f
<1> QED BY <1>1, <1>2, <1>4, GoodAlert

\* do_select_certificate.
LEMMA S12SelectCertificate ==
    ASSUME NEW e, NEW g, Turn(e, g, "server", "select_certificate")
    PROVE  Steps(e, S12!do_select_certificate(e), g)
<1> DEFINE h == To13(To(e, "tls13"), "select_session")
           f == To(e, "select_parameters")
<1>1. S12!do_select_certificate(e) = IF e.version = 13 THEN h
        ELSE IF ~e.cfg.cert \/ SharedGroup(Message(e).groups, e) = 0
        THEN Alert(e, "handshake_failure") ELSE f
  BY Zenon DEF S12!do_select_certificate, To13, To, SharedGroup, Message, Alert, FlushFlight,
       FlushPendingHsData, Records, Record, Error, HasMessage, Units, S12!To13, S12!To,
       S12!SharedGroup, S12!Message, S12!Alert, S12!FlushFlight, S12!FlushPendingHsData,
       S12!Records, S12!Record, S12!Error, S12!HasMessage, S12!Units
<1>2. /\ Good(e, g) /\ DOMAIN e = Fields /\ Wire(e, g) /\ g.side = "client"
      /\ e.side = "server" /\ Peer(e.side) = "client" /\ e.wait = "ok"
      /\ e.state = "select_certificate" /\ ServerTrust(e, g)
      /\ Unsigned(e) /\ ~Writing(e) /\ HelloHeld(e) /\ ~Emptied(e)
  BY TurnFacts DEF MayRead, Emptied, HelloHeld, Writing, Unsigned, At, Good, Trust, Peer
<1>3. Steps(e, f, g)
  <2>1. Same(e, f, {"state"})
    BY <1>2, Zenon DEF Same, To
  <2>2. f.state = "select_parameters"
    BY <1>2, SMT DEF To, Message, Fields
  <2> HIDE DEF f
  <2>3. SoundUnits(f.hs_buf, g) /\ f.hs_buf = e.hs_buf
    BY <1>2, <2>1 DEF Same, Fields, Wire, Carries
  <2>4. /\ ServerTrust(f, g) /\ (Unsigned(f) => Unsigned(e))
        /\ (HelloHeld(f) => f.hs_buf # <<>> /\ Head(f.hs_buf).type = "client_hello") /\ ~Emptied(f)
    BY <1>2, <2>1, <2>2, <2>3, SMT DEF Same, Fields, ServerTrust, Checked12, Checked13,
         Accepted, Verifying, At, Unsigned, Emptied, HelloHeld, Good, Buffers
  <2>5. /\ f.version \in {0, 12, 13} /\ f.session_reused \in BOOLEAN
        /\ f.used_hello_retry_request \in BOOLEAN /\ f.cert_request \in BOOLEAN
        /\ f.ticket_expected \in BOOLEAN /\ f.key_share \in 0..2
        /\ f.peer \in {"none", "client"} /\ f.state # "done"
        /\ f.wait = "ok"
    BY <1>2, <2>1, <2>2, <2>3, SMT DEF Same, Fields, Good, Typed
  <2>6. Same(e, f, Readable)
    BY <2>1, SameWider DEF Readable
  <2> QED BY <1>2, <2>2, <2>3, <2>4, <2>5, <2>6, GoodRead
<1>4. Steps(e, h, g)
  <2>1. Same(e, h, {"state", "tls13_state"})
    BY <1>2, Zenon DEF Same, To13, To
  <2>2. h.state = "tls13" /\ h.tls13_state = "select_session"
    BY <1>2, SMT DEF To13, To, Message, Fields
  <2> HIDE DEF h
  <2>3. SoundUnits(h.hs_buf, g) /\ h.hs_buf = e.hs_buf
    BY <1>2, <2>1 DEF Same, Fields, Wire, Carries
  <2>4. /\ ServerTrust(h, g) /\ (Unsigned(h) => Unsigned(e))
        /\ (HelloHeld(h) => h.hs_buf # <<>> /\ Head(h.hs_buf).type = "client_hello") /\ ~Emptied(h)
    BY <1>2, <2>1, <2>2, <2>3, SMT DEF Same, Fields, ServerTrust, Checked12, Checked13,
         Accepted, Verifying, At, Unsigned, Emptied, HelloHeld, Good, Buffers
  <2>5. /\ h.version \in {0, 12, 13} /\ h.session_reused \in BOOLEAN
        /\ h.used_hello_retry_request \in BOOLEAN /\ h.cert_request \in BOOLEAN
        /\ h.ticket_expected \in BOOLEAN /\ h.key_share \in 0..2
        /\ h.peer \in {"none", "client"} /\ h.state # "done"
        /\ h.wait = "ok"
    BY <1>2, <2>1, <2>2, <2>3, SMT DEF Same, Fields, Good, Typed
  <2>6. Same(e, h, Readable)
    BY <2>1, SameWider DEF Readable
  <2> QED BY <1>2, <2>2, <2>3, <2>4, <2>5, <2>6, GoodRead
<1> HIDE DEF f, h
<1> QED BY <1>1, <1>2, <1>3, <1>4, GoodAlert

\* do_select_parameters.
LEMMA S12SelectParameters ==
    ASSUME NEW e, NEW g, Turn(e, g, "server", "select_parameters")
    PROVE  Steps(e, S12!do_select_parameters(e), g)
<1> DEFINE m == Message(e)
           reused == m.session = 12 /\ e.cfg.resumes
           request == ~reused /\ S12!Verifies(e)
           group == SharedGroup(m.groups, e)
           a == [e EXCEPT !.session_reused = reused, !.ticket_expected = e.cfg.tickets,
                        !.key_share = group, !.cert_request = request]
           b == [a EXCEPT !.secret = [psk |-> TRUE, dhe |-> 0, transcript |-> <<>>]]
           f == To(Take(IF reused THEN b ELSE a), "send_server_hello")
<1>1. S12!do_select_parameters(e) = Expect(e, "client_hello", f)
  BY Zenon DEF S12!do_select_parameters, Message, SharedGroup, To, Take, NextMessage, Units,
       HashMessage, Expect, HasMessage, Wait, Alert, FlushFlight, FlushPendingHsData, Records,
       Record, Error, S12!Message, S12!SharedGroup, S12!To, S12!Take, S12!NextMessage,
       S12!Units, S12!HashMessage, S12!Expect, S12!HasMessage, S12!Wait, S12!Alert,
       S12!FlushFlight, S12!FlushPendingHsData, S12!Records, S12!Record, S12!Error
<1>2. /\ Good(e, g) /\ DOMAIN e = Fields /\ Wire(e, g) /\ g.side = "client"
      /\ e.side = "server" /\ Peer(e.side) = "client" /\ e.wait = "ok"
      /\ e.state = "select_parameters" /\ ServerTrust(e, g)
      /\ Unsigned(e) /\ ~Writing(e) /\ HelloHeld(e) /\ ~Emptied(e)
  BY TurnFacts DEF MayRead, Emptied, HelloHeld, Writing, Unsigned, At, Good, Trust, Peer
<1>3. HasMessage(e) /\ m.type = "client_hello" /\ Sound(m, g)
  BY <1>2, HeldHello
<1>4. group \in 0..2
  <2>1. m.groups \in Seq({1, 2})
    <3> HIDE DEF m
    <3> QED BY <1>3 DEF Sound
  <2> QED BY <2>1, SharedGroupType
<1>5. request \in BOOLEAN /\ reused \in BOOLEAN /\ e.cfg.tickets \in BOOLEAN /\ (Verifying(e) => reused \/ request)
  <2>1. e.established # "none" <=> e.total_renegotiations > 0
    BY <1>2 DEF Good, Trust
  <2>2. e.cfg.tickets \in BOOLEAN
    BY <1>2 DEF Good, Typed, Config
  <2> QED BY <2>1, <2>2 DEF Verifying, S12!Verifies
<1> HIDE DEF request, reused, group
<1>6. Expect(e, "client_hello", f) = f
  BY <1>3 DEF Expect
<1>7. Steps(e, f, g)
  <2>1. Same(e, f, {"session_reused", "ticket_expected", "key_share", "cert_request", "secret", "transcript", "hs_buf", "state"})
    BY <1>2, Zenon DEF Same, To, Take, NextMessage, HashMessage, SharedGroup
  <2>2. /\ f.session_reused = reused /\ f.ticket_expected = e.cfg.tickets /\ f.key_share = group
        /\ f.cert_request = request /\ f.hs_buf = NextMessage(e).hs_buf
        /\ f.state = "send_server_hello"
    BY <1>2, SMT DEF To, Take, NextMessage, HashMessage, SharedGroup, Message, Fields
  <2> HIDE DEF f
  <2>3. Sound(Message(e), g) /\ SoundUnits(f.hs_buf, g) /\ (~Excess(e) => f.hs_buf = <<>>)
    BY <1>2, <2>2, <1>3, OnMessage DEF Wire, Carries
  <2>4. /\ ServerTrust(f, g) /\ (Unsigned(f) => Unsigned(e))
        /\ ~Emptied(f) /\ ~HelloHeld(f)
    BY <1>2, <2>1, <2>2, <2>3, <1>4, <1>5, SMT DEF Same, Fields, ServerTrust, Checked12,
         Checked13, Accepted, Verifying, At, Unsigned, Emptied, HelloHeld, Sound
  <2>5. /\ f.version \in {0, 12, 13} /\ f.session_reused \in BOOLEAN
        /\ f.used_hello_retry_request \in BOOLEAN /\ f.cert_request \in BOOLEAN
        /\ f.ticket_expected \in BOOLEAN /\ f.key_share \in 0..2
        /\ f.peer \in {"none", "client"} /\ f.state # "done"
        /\ f.wait = "ok"
    BY <1>2, <2>1, <2>2, <2>3, <1>4, <1>5, SMT DEF Same, Fields, Good, Typed, Sound
  <2>6. Same(e, f, Readable)
    BY <2>1, SameWider DEF Readable
  <2> QED BY <1>2, <2>2, <2>3, <2>4, <2>5, <2>6, GoodRead
<1> HIDE DEF f
<1> QED BY <1>1, <1>6, <1>7

\* do_send_server_hello.
LEMMA S12SendServerHello ==
    ASSUME NEW e, NEW g, Turn(e, g, "server", "send_server_hello")
    PROVE  Steps(e, S12!do_send_server_hello(e), g)
<1> DEFINE m == [type |-> "server_hello", version |-> 12, reused |-> e.session_reused,
                  key_share |-> 0, downgrade |-> 13 \in e.cfg.versions,
                  ticket |-> e.ticket_expected]
           d == AddMessage(e, m)
           f == To(d, IF e.session_reused THEN "send_server_finished" ELSE "send_server_certificate")
<1>1. S12!do_send_server_hello(e) = f
  BY Zenon DEF S12!do_send_server_hello, AddMessage, NullKey, Records, Record, Units, To,
       S12!AddMessage, S12!NullKey, S12!Records, S12!Record, S12!Units, S12!To
<1>2. /\ Good(e, g) /\ DOMAIN e = Fields /\ Wire(e, g) /\ g.side = "client"
      /\ e.side = "server" /\ Peer(e.side) = "client" /\ e.wait = "ok"
      /\ e.state = "send_server_hello" /\ ServerTrust(e, g)
      /\ Unsigned(e) /\ ~Writing(e) /\ ~HelloHeld(e) /\ ~Emptied(e) /\ MayRead(e)
  BY TurnFacts DEF MayRead, Emptied, HelloHeld, Writing, Unsigned, At, Good, Trust, Peer
<1>3. Steps(e, f, g)
  <2>1. Draft(e, d, g)
    <3>1. e.session_reused \in BOOLEAN /\ e.ticket_expected \in BOOLEAN
      BY <1>2 DEF Good, Typed
    <3>2. Sound(m, e)
      BY <3>1 DEF Sound
    <3>3. Draft(e, d, g)
      BY <1>2, <3>2, DraftStart, DraftAddMessage
    <3> QED BY <3>3
  <2>2. Same(d, f, {"state"}) /\ f.state = IF e.session_reused THEN "send_server_finished" ELSE "send_server_certificate"
    BY <1>2, <2>1, DraftWire, Zenon DEF Same, Fields, To, To13, Wait
  <2> HIDE DEF f, d
  <2>3. Same(d, f, Ending)
    BY <2>2, SameWider DEF Ending
  <2>4. /\ ServerTrust(f, g) /\ (Unsigned(f) => Unsigned(e))
        /\ ~Emptied(f) /\ ~HelloHeld(f) /\ (Writing(f) \/ f.wait = "flush" \/ Quiet(d))
        /\ f.wait = "ok" /\ f.cert_request = e.cert_request
        /\ f.used_hello_retry_request = e.used_hello_retry_request
    BY <1>2, <2>1, <2>2, <2>3, OnWrite DEF Draft, Written, Same, Fields, ServerTrust, Checked12,
         Checked13, Accepted, Verifying, At, Unsigned, Emptied, HelloHeld, Writing
  <2>5. /\ f.used_hello_retry_request \in BOOLEAN /\ f.cert_request \in BOOLEAN
        /\ f.state # "done" /\ f.wait \in {"ok", "flush"}
    BY <1>2, <2>2, <2>4 DEF Good, Typed, Same, Fields
  <2> QED BY <1>2, <2>1, <2>2, <2>3, <2>4, <2>5, GoodSend
<1> HIDE DEF f
<1> QED BY <1>1, <1>3

\* do_send_server_certificate.
LEMMA S12SendServerCertificate ==
    ASSUME NEW e, NEW g, Turn(e, g, "server", "send_server_certificate")
    PROVE  Steps(e, S12!do_send_server_certificate(e), g)
<1> DEFINE d == AddMessage(e, Certificate(e))
           f == To(d, "send_server_key_exchange")
<1>1. S12!do_send_server_certificate(e) = f
  BY Zenon DEF S12!do_send_server_certificate, AddMessage, NullKey, Records, Record, Units,
       Certificate, To, S12!AddMessage, S12!NullKey, S12!Records, S12!Record, S12!Units,
       S12!Certificate, S12!To
<1>2. /\ Good(e, g) /\ DOMAIN e = Fields /\ Wire(e, g) /\ g.side = "client"
      /\ e.side = "server" /\ Peer(e.side) = "client" /\ e.wait = "ok"
      /\ e.state = "send_server_certificate" /\ ServerTrust(e, g)
      /\ Unsigned(e) /\ Writing(e) /\ ~HelloHeld(e) /\ ~Emptied(e)
  BY TurnFacts DEF MayRead, Emptied, HelloHeld, Writing, Unsigned, At, Good, Trust, Peer
<1>3. Steps(e, f, g)
  <2>1. Draft(e, d, g)
    <3>1. Sound(Certificate(e), e)
      BY DEF Sound, Certificate
    <3>2. Draft(e, d, g)
      BY <1>2, <3>1, DraftStart, DraftAddMessage
    <3> QED BY <3>2
  <2>2. Same(d, f, {"state"}) /\ f.state = "send_server_key_exchange"
    BY <1>2, <2>1, DraftWire, Zenon DEF Same, Fields, To, To13, Wait
  <2> HIDE DEF f, d
  <2>3. Same(d, f, Ending)
    BY <2>2, SameWider DEF Ending
  <2>4. /\ ServerTrust(f, g) /\ (Unsigned(f) => Unsigned(e))
        /\ ~Emptied(f) /\ ~HelloHeld(f) /\ (Writing(f) \/ f.wait = "flush" \/ Quiet(d))
        /\ f.wait = "ok" /\ f.cert_request = e.cert_request
        /\ f.used_hello_retry_request = e.used_hello_retry_request
    BY <1>2, <2>1, <2>2, <2>3, OnWrite DEF Draft, Written, Same, Fields, ServerTrust, Checked12,
         Checked13, Accepted, Verifying, At, Unsigned, Emptied, HelloHeld, Writing
  <2>5. /\ f.used_hello_retry_request \in BOOLEAN /\ f.cert_request \in BOOLEAN
        /\ f.state # "done" /\ f.wait \in {"ok", "flush"}
    BY <1>2, <2>2, <2>4 DEF Good, Typed, Same, Fields
  <2> QED BY <1>2, <2>1, <2>2, <2>3, <2>4, <2>5, GoodSend
<1> HIDE DEF f
<1> QED BY <1>1, <1>3

\* do_send_server_key_exchange.
LEMMA S12SendServerKeyExchange ==
    ASSUME NEW e, NEW g, Turn(e, g, "server", "send_server_key_exchange")
    PROVE  Steps(e, S12!do_send_server_key_exchange(e), g)
<1> DEFINE m == [type |-> "server_key_exchange", group |-> e.key_share, key |-> e.side,
                  over |-> SubSeq(e.transcript, 1, 2)]
           then == To(AddMessage(e, m), "send_server_hello_done")
<1>1. S12!do_send_server_key_exchange(e) = AfterSign(e, then)
  BY Zenon DEF S12!do_send_server_key_exchange, To, AddMessage, NullKey, Records, Record, Units,
       AfterSign, Error, Wait, S12!To, S12!AddMessage, S12!NullKey, S12!Records, S12!Record,
       S12!Units, S12!AfterSign, S12!Error, S12!Wait
<1>2. /\ Good(e, g) /\ DOMAIN e = Fields /\ Wire(e, g) /\ g.side = "client"
      /\ e.side = "server" /\ Peer(e.side) = "client" /\ e.wait = "ok"
      /\ e.state = "send_server_key_exchange" /\ ServerTrust(e, g)
      /\ Unsigned(e) /\ Writing(e) /\ ~HelloHeld(e) /\ ~Emptied(e)
  BY TurnFacts DEF MayRead, Emptied, HelloHeld, Writing, Unsigned, At, Good, Trust, Peer
<1>3. /\ then.state # "done"
      /\ Same(e, then, {"pending_flight", "pending_hs_data", "transcript", "state", "tls13_state"})
      /\ then.state = "send_server_hello_done"
  <2> DEFINE d == AddMessage(e, m)
  <2>1. Same(e, d, {"pending_flight", "pending_hs_data", "transcript"})
    BY <1>2, Zenon DEF Same, AddMessage
  <2>2. Same(d, then, {"state"}) /\ then.state = "send_server_hello_done"
    BY <2>1, Zenon DEF Same, To, To13, Fields
  <2> HIDE DEF d, then
  <2>3. Same(e, then, {"pending_flight", "pending_hs_data", "transcript"} \cup {"state"})
    BY <2>1, <2>2, SameTrans
  <2>4. then.state # "done"
    BY <1>2, <2>1, <2>2 DEF Same, Fields
  <2> QED BY <2>2, <2>3, <2>4, SameWider
<1>4. ASSUME NEW o, Grows(e, o), Signed(o) PROVE Carries(then, o, g)
  <2> DEFINE d == AddMessage(e, m)
  <2>1. Sound(m, o)
    BY <1>2, <1>4 DEF Sound, CertificateVerify, Grows, Good, Typed
  <2>2. Same(e, d, {"pending_flight", "pending_hs_data", "transcript"}) /\ Carries(d, o, g)
    BY <1>2, <1>4, <2>1, OnAddMessage
  <2>3. Same(d, then, {"state"})
    BY <2>2, Zenon DEF Same, To, To13
  <2> HIDE DEF d, then
  <2>4. /\ then.pending_hs_data = d.pending_hs_data /\ then.pending_flight = d.pending_flight
        /\ then.outbound = d.outbound /\ then.inbound = d.inbound /\ then.hs_buf = d.hs_buf
    BY <2>3 DEF Same, Fields
  <2> QED BY <2>2, <2>4, Zenon DEF Carries
<1> HIDE DEF then
<1>5. /\ ServerTrust(then, g) /\ ~Unsigned(then) /\ Writing(then) /\ ~Emptied(then)
      /\ ~HelloHeld(then) /\ then.wait = "ok"
  BY <1>2, <1>3, SMT DEF Same, Fields, ServerTrust, Checked12, Checked13, Accepted, Verifying,
       At, Unsigned, Emptied, HelloHeld, Writing
<1>6. Buffers(then)
  BY <1>5 DEF Buffers, Reading
<1>7. Steps(e, AfterSign(e, then), g)
  BY <1>2, <1>3, <1>4, <1>5, <1>6, GoodAfterSign
<1> QED BY <1>1, <1>7

\* do_send_server_hello_done.
LEMMA S12SendServerHelloDone ==
    ASSUME NEW e, NEW g, Turn(e, g, "server", "send_server_hello_done")
    PROVE  Steps(e, S12!do_send_server_hello_done(e), g)
<1> DEFINE request == [type |-> "certificate_request"]
           done == [type |-> "server_hello_done"]
           a == IF e.cert_request THEN AddMessage(e, request) ELSE e
           d == AddMessage(a, done)
           f == Wait(To(d, "read_client_certificate"), "flush")
<1>1. S12!do_send_server_hello_done(e) = f
  BY Zenon DEF S12!do_send_server_hello_done, AddMessage, NullKey, Records, Record, Units, Wait,
       To, S12!AddMessage, S12!NullKey, S12!Records, S12!Record, S12!Units, S12!Wait, S12!To
<1>2. /\ Good(e, g) /\ DOMAIN e = Fields /\ Wire(e, g) /\ g.side = "client"
      /\ e.side = "server" /\ Peer(e.side) = "client" /\ e.wait = "ok"
      /\ e.state = "send_server_hello_done" /\ ServerTrust(e, g)
      /\ ~Unsigned(e) /\ Writing(e) /\ ~HelloHeld(e) /\ ~Emptied(e)
  BY TurnFacts DEF MayRead, Emptied, HelloHeld, Writing, Unsigned, At, Good, Trust, Peer
<1>3. Steps(e, f, g)
  <2>1. Draft(e, d, g)
    <3>1. Sound(request, e) /\ Sound(done, e)
      BY DEF Sound
    <3>2. Draft(e, a, g)
      BY <1>2, <3>1, DraftStart, DraftAddMessage
    <3>3. Draft(e, d, g)
      BY <3>1, <3>2, DraftAddMessage
    <3> QED BY <3>3
  <2> HIDE DEF d
  <2>2. Same(d, f, {"state", "wait"}) /\ f.state = "read_client_certificate" /\ f.wait = "flush"
    BY <2>1, DraftWire, SameToWait
  <2> HIDE DEF f
  <2>3. Same(d, f, Ending)
    BY <2>2, SameWider DEF Ending
  <2>4. /\ ServerTrust(f, g) /\ (Unsigned(f) => Unsigned(e))
        /\ ~Emptied(f) /\ ~HelloHeld(f) /\ (Writing(f) \/ f.wait = "flush" \/ Quiet(d))
        /\ f.cert_request = e.cert_request
        /\ f.used_hello_retry_request = e.used_hello_retry_request
    BY <1>2, <2>1, <2>2, <2>3, OnWrite DEF Draft, Written, Same, Fields, ServerTrust, Checked12,
         Checked13, Accepted, Verifying, At, Unsigned, Emptied, HelloHeld, Writing
  <2>5. /\ f.used_hello_retry_request \in BOOLEAN /\ f.cert_request \in BOOLEAN
        /\ f.state # "done" /\ f.wait \in {"ok", "flush"}
    BY <1>2, <2>2, <2>4 DEF Good, Typed, Same, Fields
  <2> QED BY <1>2, <2>1, <2>2, <2>3, <2>4, <2>5, GoodSend
<1> HIDE DEF f
<1> QED BY <1>1, <1>3

\* do_read_client_certificate.
LEMMA S12ReadClientCertificate ==
    ASSUME NEW e, NEW g, Turn(e, g, "server", "read_client_certificate")
    PROVE  Steps(e, S12!do_read_client_certificate(e), g)
<1> DEFINE h == To(e, "verify_client_certificate")
           f == To(Take([e EXCEPT !.peer = Message(e).cert]), "verify_client_certificate")
           then == IF Message(e).cert = "none" THEN Alert(HashMessage(e), "handshake_failure") ELSE f
<1>1. S12!do_read_client_certificate(e) = IF ~e.cert_request THEN h ELSE Expect(e, "certificate", then)
  BY Zenon DEF S12!do_read_client_certificate, To, Take, NextMessage, Units, Message,
       HashMessage, Alert, FlushFlight, FlushPendingHsData, Records, Record, Error, HasMessage,
       Expect, Wait, S12!To, S12!Take, S12!NextMessage, S12!Units, S12!Message, S12!HashMessage,
       S12!Alert, S12!FlushFlight, S12!FlushPendingHsData, S12!Records, S12!Record, S12!Error,
       S12!HasMessage, S12!Expect, S12!Wait
<1>2. /\ Good(e, g) /\ DOMAIN e = Fields /\ Wire(e, g) /\ g.side = "client"
      /\ e.side = "server" /\ Peer(e.side) = "client" /\ e.wait = "ok"
      /\ e.state = "read_client_certificate" /\ ServerTrust(e, g)
      /\ ~Unsigned(e) /\ ~Writing(e) /\ ~HelloHeld(e) /\ ~Emptied(e) /\ MayRead(e)
  BY TurnFacts DEF MayRead, Emptied, HelloHeld, Writing, Unsigned, At, Good, Trust, Peer
<1>3. ASSUME ~e.cert_request PROVE Steps(e, h, g)
  <2>1. Same(e, h, {"state"})
    BY <1>2, Zenon DEF Same, To
  <2>2. h.state = "verify_client_certificate"
    BY <1>2, <1>3, SMT DEF To, Message, Fields
  <2> HIDE DEF h
  <2>3. SoundUnits(h.hs_buf, g) /\ h.hs_buf = e.hs_buf
    BY <1>2, <2>1 DEF Same, Fields, Wire, Carries
  <2>4. /\ ServerTrust(h, g) /\ (Unsigned(h) => Unsigned(e))
        /\ ~Emptied(h) /\ ~HelloHeld(h)
    BY <1>2, <1>3, <2>1, <2>2, <2>3, SMT DEF Same, Fields, ServerTrust, Checked12, Checked13,
         Accepted, Verifying, At, Unsigned, Emptied, HelloHeld
  <2>5. /\ h.version \in {0, 12, 13} /\ h.session_reused \in BOOLEAN
        /\ h.used_hello_retry_request \in BOOLEAN /\ h.cert_request \in BOOLEAN
        /\ h.ticket_expected \in BOOLEAN /\ h.key_share \in 0..2
        /\ h.peer \in {"none", "client"} /\ h.state # "done"
        /\ h.wait = "ok"
    BY <1>2, <2>1, <2>2, <2>3, SMT DEF Same, Fields, Good, Typed
  <2>6. Same(e, h, Readable)
    BY <2>1, SameWider DEF Readable
  <2> QED BY <1>2, <2>2, <2>3, <2>4, <2>5, <2>6, GoodRead
<1>4. ASSUME HasMessage(e), Message(e).type = "certificate", Message(e).cert # "none" PROVE Steps(e, f, g)
  <2>1. Same(e, f, {"peer", "transcript", "hs_buf", "state"})
    BY <1>2, Zenon DEF Same, To, Take, NextMessage, HashMessage
  <2>2. /\ f.peer = Message(e).cert /\ f.state = "verify_client_certificate"
        /\ f.hs_buf = NextMessage(e).hs_buf
    BY <1>2, <1>4, SMT DEF To, Take, NextMessage, HashMessage, Message, Fields
  <2> HIDE DEF f
  <2>3. Sound(Message(e), g) /\ SoundUnits(f.hs_buf, g) /\ (~Excess(e) => f.hs_buf = <<>>)
    BY <1>2, <1>4, <2>2, OnMessage DEF Wire, Carries
  <2>4. /\ ServerTrust(f, g) /\ (Unsigned(f) => Unsigned(e))
        /\ ~Emptied(f) /\ ~HelloHeld(f)
    BY <1>2, <1>4, <2>1, <2>2, <2>3, SMT DEF Same, Fields, ServerTrust, Checked12, Checked13,
         Accepted, Verifying, At, Unsigned, Emptied, HelloHeld, Sound
  <2>5. /\ f.version \in {0, 12, 13} /\ f.session_reused \in BOOLEAN
        /\ f.used_hello_retry_request \in BOOLEAN /\ f.cert_request \in BOOLEAN
        /\ f.ticket_expected \in BOOLEAN /\ f.key_share \in 0..2
        /\ f.peer \in {"none", "client"} /\ f.state # "done"
        /\ f.wait = "ok"
    BY <1>2, <1>4, <2>1, <2>2, <2>3, SMT DEF Same, Fields, Good, Typed, Sound
  <2>6. Same(e, f, Readable)
    BY <2>1, SameWider DEF Readable
  <2> QED BY <1>2, <2>2, <2>3, <2>4, <2>5, <2>6, GoodRead
<1> HIDE DEF f, h
<1>5. ASSUME HasMessage(e), Message(e).type = "certificate" PROVE Steps(e, then, g)
  BY <1>2, <1>4, <1>5, GoodHashAlert
<1> HIDE DEF then
<1> QED BY <1>1, <1>2, <1>3, <1>5, GoodExpect

\* do_verify_client_certificate.
LEMMA S12VerifyClientCertificate ==
    ASSUME NEW e, NEW g, Turn(e, g, "server", "verify_client_certificate")
    PROVE  Steps(e, S12!do_verify_client_certificate(e), g)
<1> DEFINE f == To(e, "read_client_key_exchange")
<1>1. S12!do_verify_client_certificate(e) = IF e.peer = "none" THEN f ELSE AfterVerify(e, f)
  BY Zenon DEF S12!do_verify_client_certificate, To, AfterVerify, Alert, FlushFlight,
       FlushPendingHsData, Records, Record, Error, HasMessage, Units, Message, Wait, S12!To,
       S12!AfterVerify, S12!Alert, S12!FlushFlight, S12!FlushPendingHsData, S12!Records,
       S12!Record, S12!Error, S12!HasMessage, S12!Units, S12!Message, S12!Wait
<1>2. /\ Good(e, g) /\ DOMAIN e = Fields /\ Wire(e, g) /\ g.side = "client"
      /\ e.side = "server" /\ Peer(e.side) = "client" /\ e.wait = "ok"
      /\ e.state = "verify_client_certificate" /\ ServerTrust(e, g)
      /\ ~Unsigned(e) /\ ~Writing(e) /\ ~HelloHeld(e) /\ ~Emptied(e) /\ MayRead(e)
  BY TurnFacts DEF MayRead, Emptied, HelloHeld, Writing, Unsigned, At, Good, Trust, Peer
<1>3. ASSUME e.peer = "none" \/ Judged(e) PROVE Steps(e, f, g)
  <2>1. Same(e, f, {"state"})
    BY <1>2, Zenon DEF Same, To
  <2>2. f.state = "read_client_key_exchange"
    BY <1>2, <1>3, SMT DEF To, Message, Fields
  <2> HIDE DEF f
  <2>3. SoundUnits(f.hs_buf, g) /\ f.hs_buf = e.hs_buf
    BY <1>2, <2>1 DEF Same, Fields, Wire, Carries
  <2>4. /\ ServerTrust(f, g) /\ (Unsigned(f) => Unsigned(e))
        /\ ~Emptied(f) /\ ~HelloHeld(f)
    BY <1>2, <1>3, <2>1, <2>2, <2>3, SMT DEF Same, Fields, ServerTrust, Checked12, Checked13,
         Accepted, Verifying, At, Unsigned, Emptied, HelloHeld, Judged
  <2>5. /\ f.version \in {0, 12, 13} /\ f.session_reused \in BOOLEAN
        /\ f.used_hello_retry_request \in BOOLEAN /\ f.cert_request \in BOOLEAN
        /\ f.ticket_expected \in BOOLEAN /\ f.key_share \in 0..2
        /\ f.peer \in {"none", "client"} /\ f.state # "done"
        /\ f.wait = "ok"
    BY <1>2, <1>3, <2>1, <2>2, <2>3, SMT DEF Same, Fields, Good, Typed
  <2>6. Same(e, f, Readable)
    BY <2>1, SameWider DEF Readable
  <2> QED BY <1>2, <2>2, <2>3, <2>4, <2>5, <2>6, GoodRead
<1> HIDE DEF f
<1> QED BY <1>1, <1>2, <1>3, GoodAfterVerify

\* do_read_client_key_exchange.
LEMMA S12ReadClientKeyExchange ==
    ASSUME NEW e, NEW g, Turn(e, g, "server", "read_client_key_exchange")
    PROVE  Steps(e, S12!do_read_client_key_exchange(e), g)
<1> DEFINE a == Take(e)
           f == To([a EXCEPT !.secret = [psk |-> FALSE, dhe |-> e.key_share, transcript |-> a.transcript]],
                   "read_client_certificate_verify")
<1>1. S12!do_read_client_key_exchange(e) = Expect(e, "client_key_exchange", f)
  BY Zenon DEF S12!do_read_client_key_exchange, Take, NextMessage, Units, Message, HashMessage,
       To, Expect, HasMessage, Wait, Alert, FlushFlight, FlushPendingHsData, Records, Record,
       Error, S12!Take, S12!NextMessage, S12!Units, S12!Message, S12!HashMessage, S12!To,
       S12!Expect, S12!HasMessage, S12!Wait, S12!Alert, S12!FlushFlight, S12!FlushPendingHsData,
       S12!Records, S12!Record, S12!Error
<1>2. /\ Good(e, g) /\ DOMAIN e = Fields /\ Wire(e, g) /\ g.side = "client"
      /\ e.side = "server" /\ Peer(e.side) = "client" /\ e.wait = "ok"
      /\ e.state = "read_client_key_exchange" /\ ServerTrust(e, g)
      /\ ~Unsigned(e) /\ ~Writing(e) /\ ~HelloHeld(e) /\ ~Emptied(e) /\ MayRead(e)
  BY TurnFacts DEF MayRead, Emptied, HelloHeld, Writing, Unsigned, At, Good, Trust, Peer
<1>3. ASSUME HasMessage(e) PROVE Steps(e, f, g)
  <2>1. Same(e, f, {"transcript", "hs_buf", "secret", "state"})
    BY <1>2, Zenon DEF Same, To, Take, NextMessage, HashMessage
  <2>2. /\ f.state = "read_client_certificate_verify"
        /\ f.hs_buf = NextMessage(e).hs_buf
    BY <1>2, <1>3, SMT DEF To, Take, NextMessage, HashMessage, Message, Fields
  <2> HIDE DEF f
  <2>3. Sound(Message(e), g) /\ SoundUnits(f.hs_buf, g) /\ (~Excess(e) => f.hs_buf = <<>>)
    BY <1>2, <1>3, <2>2, OnMessage DEF Wire, Carries
  <2>4. /\ ServerTrust(f, g) /\ (Unsigned(f) => Unsigned(e))
        /\ ~Emptied(f) /\ ~HelloHeld(f)
    BY <1>2, <1>3, <2>1, <2>2, <2>3, SMT DEF Same, Fields, ServerTrust, Checked12, Checked13,
         Accepted, Verifying, At, Unsigned, Emptied, HelloHeld, Sound
  <2>5. /\ f.version \in {0, 12, 13} /\ f.session_reused \in BOOLEAN
        /\ f.used_hello_retry_request \in BOOLEAN /\ f.cert_request \in BOOLEAN
        /\ f.ticket_expected \in BOOLEAN /\ f.key_share \in 0..2
        /\ f.peer \in {"none", "client"} /\ f.state # "done"
        /\ f.wait = "ok"
    BY <1>2, <1>3, <2>1, <2>2, <2>3, SMT DEF Same, Fields, Good, Typed, Sound
  <2>6. Same(e, f, Readable)
    BY <2>1, SameWider DEF Readable
  <2> QED BY <1>2, <2>2, <2>3, <2>4, <2>5, <2>6, GoodRead
<1> HIDE DEF f
<1> QED BY <1>1, <1>2, <1>3, GoodExpect

\* do_read_client_certificate_verify.
LEMMA S12ReadClientCertificateVerify ==
    ASSUME NEW e, NEW g, Turn(e, g, "server", "read_client_certificate_verify")
    PROVE  Steps(e, S12!do_read_client_certificate_verify(e), g)
<1> DEFINE h == To(e, "read_change_cipher_spec")
           f == To(Take(e), "read_change_cipher_spec")
           then == IF ~SignedBy(Message(e), e, e.transcript) THEN Alert(e, "decrypt_error") ELSE f
<1>1. S12!do_read_client_certificate_verify(e) = IF e.peer = "none" THEN h ELSE Expect(e, "certificate_verify", then)
  BY Zenon DEF S12!do_read_client_certificate_verify, To, Take, NextMessage, Units, Message,
       HashMessage, SignedBy, Alert, FlushFlight, FlushPendingHsData, Records, Record, Error,
       HasMessage, Expect, Wait, S12!To, S12!Take, S12!NextMessage, S12!Units, S12!Message,
       S12!HashMessage, S12!SignedBy, S12!Alert, S12!FlushFlight, S12!FlushPendingHsData,
       S12!Records, S12!Record, S12!Error, S12!HasMessage, S12!Expect, S12!Wait
<1>2. /\ Good(e, g) /\ DOMAIN e = Fields /\ Wire(e, g) /\ g.side = "client"
      /\ e.side = "server" /\ Peer(e.side) = "client" /\ e.wait = "ok"
      /\ e.state = "read_client_certificate_verify" /\ ServerTrust(e, g)
      /\ ~Unsigned(e) /\ ~Writing(e) /\ ~HelloHeld(e) /\ ~Emptied(e) /\ MayRead(e)
  BY TurnFacts DEF MayRead, Emptied, HelloHeld, Writing, Unsigned, At, Good, Trust, Peer
<1>3. ASSUME e.peer = "none" PROVE Steps(e, h, g)
  <2>1. Same(e, h, {"state"})
    BY <1>2, Zenon DEF Same, To
  <2>2. h.state = "read_change_cipher_spec"
    BY <1>2, <1>3, SMT DEF To, Message, Fields
  <2> HIDE DEF h
  <2>3. SoundUnits(h.hs_buf, g) /\ h.hs_buf = e.hs_buf
    BY <1>2, <2>1 DEF Same, Fields, Wire, Carries
  <2>4. /\ ServerTrust(h, g) /\ (Unsigned(h) => Unsigned(e))
        /\ ~Emptied(h) /\ ~HelloHeld(h)
    BY <1>2, <1>3, <2>1, <2>2, <2>3, SMT DEF Same, Fields, ServerTrust, Checked12, Checked13,
         Accepted, Verifying, At, Unsigned, Emptied, HelloHeld
  <2>5. /\ h.version \in {0, 12, 13} /\ h.session_reused \in BOOLEAN
        /\ h.used_hello_retry_request \in BOOLEAN /\ h.cert_request \in BOOLEAN
        /\ h.ticket_expected \in BOOLEAN /\ h.key_share \in 0..2
        /\ h.peer \in {"none", "client"} /\ h.state # "done"
        /\ h.wait = "ok"
    BY <1>2, <1>3, <2>1, <2>2, <2>3, SMT DEF Same, Fields, Good, Typed
  <2>6. Same(e, h, Readable)
    BY <2>1, SameWider DEF Readable
  <2> QED BY <1>2, <2>2, <2>3, <2>4, <2>5, <2>6, GoodRead
<1>4. ASSUME HasMessage(e), Message(e).type = "certificate_verify" PROVE Steps(e, f, g)
  <2>1. Same(e, f, {"transcript", "hs_buf", "state"})
    BY <1>2, Zenon DEF Same, To, Take, NextMessage, HashMessage
  <2>2. /\ f.state = "read_change_cipher_spec"
        /\ f.hs_buf = NextMessage(e).hs_buf
    BY <1>2, <1>4, SMT DEF To, Take, NextMessage, HashMessage, Message, Fields
  <2> HIDE DEF f
  <2>3. Sound(Message(e), g) /\ SoundUnits(f.hs_buf, g) /\ (~Excess(e) => f.hs_buf = <<>>)
    BY <1>2, <1>4, <2>2, OnMessage DEF Wire, Carries
  <2>4. /\ ServerTrust(f, g) /\ (Unsigned(f) => Unsigned(e))
        /\ ~Emptied(f) /\ ~HelloHeld(f)
    BY <1>2, <1>4, <2>1, <2>2, <2>3, SMT DEF Same, Fields, ServerTrust, Checked12, Checked13,
         Accepted, Verifying, At, Unsigned, Emptied, HelloHeld, Sound
  <2>5. /\ f.version \in {0, 12, 13} /\ f.session_reused \in BOOLEAN
        /\ f.used_hello_retry_request \in BOOLEAN /\ f.cert_request \in BOOLEAN
        /\ f.ticket_expected \in BOOLEAN /\ f.key_share \in 0..2
        /\ f.peer \in {"none", "client"} /\ f.state # "done"
        /\ f.wait = "ok"
    BY <1>2, <1>4, <2>1, <2>2, <2>3, SMT DEF Same, Fields, Good, Typed, Sound
  <2>6. Same(e, f, Readable)
    BY <2>1, SameWider DEF Readable
  <2> QED BY <1>2, <2>2, <2>3, <2>4, <2>5, <2>6, GoodRead
<1> HIDE DEF f, h
<1>5. ASSUME HasMessage(e), Message(e).type = "certificate_verify" PROVE Steps(e, then, g)
  BY <1>2, <1>4, <1>5, GoodAlert
<1> HIDE DEF then
<1> QED BY <1>1, <1>2, <1>3, <1>5, GoodExpect

\* do_read_change_cipher_spec.
LEMMA S12ReadChangeCipherSpec ==
    ASSUME NEW e, NEW g, Turn(e, g, "server", "read_change_cipher_spec")
    PROVE  Steps(e, S12!do_read_change_cipher_spec(e), g)
<1> DEFINE f == Wait(To(e, "process_change_cipher_spec"), "read_change_cipher_spec")
<1>1. S12!do_read_change_cipher_spec(e) = f
  BY Zenon DEF S12!do_read_change_cipher_spec, Wait, To, S12!Wait, S12!To
<1>2. /\ Good(e, g) /\ DOMAIN e = Fields /\ Wire(e, g) /\ g.side = "client"
      /\ e.side = "server" /\ Peer(e.side) = "client" /\ e.wait = "ok"
      /\ e.state = "read_change_cipher_spec" /\ ServerTrust(e, g)
      /\ ~Unsigned(e) /\ ~Writing(e) /\ ~HelloHeld(e) /\ ~Emptied(e) /\ MayRead(e)
  BY TurnFacts DEF MayRead, Emptied, HelloHeld, Writing, Unsigned, At, Good, Trust, Peer
<1>3. Steps(e, f, g)
  <2>1. Same(e, f, {"state", "wait"})
    BY <1>2, Zenon DEF Same, Wait, To
  <2>2. f.state = "process_change_cipher_spec" /\ f.wait = "read_change_cipher_spec"
    BY <1>2, SMT DEF Wait, To, Message, Fields
  <2> HIDE DEF f
  <2>3. SoundUnits(f.hs_buf, g) /\ f.hs_buf = e.hs_buf
    BY <1>2, <2>1 DEF Same, Fields, Wire, Carries
  <2>4. /\ ServerTrust(f, g) /\ (Unsigned(f) => Unsigned(e))
        /\ ~Emptied(f) /\ ~HelloHeld(f)
    BY <1>2, <2>1, <2>2, <2>3, SMT DEF Same, Fields, ServerTrust, Checked12, Checked13,
         Accepted, Verifying, At, Unsigned, Emptied, HelloHeld
  <2>5. /\ f.version \in {0, 12, 13} /\ f.session_reused \in BOOLEAN
        /\ f.used_hello_retry_request \in BOOLEAN /\ f.cert_request \in BOOLEAN
        /\ f.ticket_expected \in BOOLEAN /\ f.key_share \in 0..2
        /\ f.peer \in {"none", "client"} /\ f.state # "done"
        /\ f.wait = "read_change_cipher_spec"
    BY <1>2, <2>1, <2>2, <2>3, SMT DEF Same, Fields, Good, Typed
  <2>6. Same(e, f, Readable)
    BY <2>1, SameWider DEF Readable
  <2> QED BY <1>2, <2>2, <2>3, <2>4, <2>5, <2>6, GoodRead DEF Writing, At
<1> HIDE DEF f
<1> QED BY <1>1, <1>3

\* do_process_change_cipher_spec.
LEMMA S12ProcessChangeCipherSpec ==
    ASSUME NEW e, NEW g, Turn(e, g, "server", "process_change_cipher_spec")
    PROVE  Steps(e, S12!do_process_change_cipher_spec(e), g)
<1> DEFINE k == S12!key(e, "client")
           f == [To(e, "read_client_finished") EXCEPT !.read_key = k]
<1>1. S12!do_process_change_cipher_spec(e) = IF e.hs_buf # <<>> THEN Alert(e, "unexpected_message") ELSE f
  BY Zenon DEF S12!do_process_change_cipher_spec, To, Alert, FlushFlight, FlushPendingHsData,
       Records, Record, Error, HasMessage, Units, Message, SetReadKey, S12!To, S12!Alert,
       S12!FlushFlight, S12!FlushPendingHsData, S12!Records, S12!Record, S12!Error,
       S12!HasMessage, S12!Units, S12!Message, S12!SetReadKey
<1>2. /\ Good(e, g) /\ DOMAIN e = Fields /\ Wire(e, g) /\ g.side = "client"
      /\ e.side = "server" /\ Peer(e.side) = "client" /\ e.wait = "ok"
      /\ e.state = "process_change_cipher_spec" /\ ServerTrust(e, g)
      /\ ~Unsigned(e) /\ ~Writing(e) /\ ~HelloHeld(e) /\ ~Emptied(e) /\ MayRead(e)
  BY TurnFacts DEF MayRead, Emptied, HelloHeld, Writing, Unsigned, At, Good, Trust, Peer
<1>3. Steps(e, f, g)
  <2>1. Same(e, f, {"state", "read_key"})
    BY <1>2, Zenon DEF Same, To
  <2>2. f.state = "read_client_finished"
    BY <1>2, SMT DEF To, Message, Fields
  <2> HIDE DEF f
  <2>3. SoundUnits(f.hs_buf, g) /\ f.hs_buf = e.hs_buf
    BY <1>2, <2>1 DEF Same, Fields, Wire, Carries
  <2>4. /\ ServerTrust(f, g) /\ (Unsigned(f) => Unsigned(e))
        /\ ~Emptied(f) /\ ~HelloHeld(f)
    BY <1>2, <2>1, <2>2, <2>3, SMT DEF Same, Fields, ServerTrust, Checked12, Checked13,
         Accepted, Verifying, At, Unsigned, Emptied, HelloHeld
  <2>5. /\ f.version \in {0, 12, 13} /\ f.session_reused \in BOOLEAN
        /\ f.used_hello_retry_request \in BOOLEAN /\ f.cert_request \in BOOLEAN
        /\ f.ticket_expected \in BOOLEAN /\ f.key_share \in 0..2
        /\ f.peer \in {"none", "client"} /\ f.state # "done"
        /\ f.wait = "ok"
    BY <1>2, <2>1, <2>2, <2>3, SMT DEF Same, Fields, Good, Typed
  <2>6. Same(e, f, Readable)
    BY <2>1, SameWider DEF Readable
  <2> QED BY <1>2, <2>2, <2>3, <2>4, <2>5, <2>6, GoodRead
<1> HIDE DEF f
<1> QED BY <1>1, <1>2, <1>3, GoodAlert

\* do_read_client_finished.
LEMMA S12ReadClientFinished ==
    ASSUME NEW e, NEW g, Turn(e, g, "server", "read_client_finished")
    PROVE  Steps(e, S12!do_read_client_finished(e), g)
<1> DEFINE f == To(Take(e), IF e.session_reused THEN "finish_server_handshake" ELSE "send_server_finished")
           then == IF Message(e) # Finished("client", e) THEN Alert(HashMessage(e), "decrypt_error")
                   ELSE IF Excess(e) THEN Alert(HashMessage(e), "unexpected_message") ELSE f
<1>1. S12!do_read_client_finished(e) = Expect(e, "finished", then)
  BY Zenon DEF S12!do_read_client_finished, To, Take, NextMessage, Units, Message, HashMessage,
       Finished, Alert, FlushFlight, FlushPendingHsData, Records, Record, Error, HasMessage,
       Excess, Expect, Wait, S12!To, S12!Take, S12!NextMessage, S12!Units, S12!Message,
       S12!HashMessage, S12!Finished, S12!Alert, S12!FlushFlight, S12!FlushPendingHsData,
       S12!Records, S12!Record, S12!Error, S12!HasMessage, S12!Excess, S12!Expect, S12!Wait
<1>2. /\ Good(e, g) /\ DOMAIN e = Fields /\ Wire(e, g) /\ g.side = "client"
      /\ e.side = "server" /\ Peer(e.side) = "client" /\ e.wait = "ok"
      /\ e.state = "read_client_finished" /\ ServerTrust(e, g)
      /\ ~Unsigned(e) /\ ~Writing(e) /\ ~HelloHeld(e) /\ ~Emptied(e) /\ MayRead(e)
  BY TurnFacts DEF MayRead, Emptied, HelloHeld, Writing, Unsigned, At, Good, Trust, Peer
<1>3. ASSUME HasMessage(e), ~Excess(e) PROVE Steps(e, f, g)
  <2>1. Same(e, f, {"transcript", "hs_buf", "state"})
    BY <1>2, Zenon DEF Same, To, Take, NextMessage, HashMessage
  <2>2. /\ f.state = IF e.session_reused THEN "finish_server_handshake" ELSE "send_server_finished"
        /\ f.hs_buf = NextMessage(e).hs_buf
    BY <1>2, <1>3, SMT DEF To, Take, NextMessage, HashMessage, Message, Fields
  <2> HIDE DEF f
  <2>3. Sound(Message(e), g) /\ SoundUnits(f.hs_buf, g) /\ (~Excess(e) => f.hs_buf = <<>>)
    BY <1>2, <1>3, <2>2, OnMessage DEF Wire, Carries
  <2>4. /\ ServerTrust(f, g) /\ (Unsigned(f) => Unsigned(e))
        /\ (Emptied(f) => f.hs_buf = <<>>) /\ ~HelloHeld(f)
    BY <1>2, <1>3, <2>1, <2>2, <2>3, SMT DEF Same, Fields, ServerTrust, Checked12, Checked13,
         Accepted, Verifying, At, Unsigned, Emptied, HelloHeld, Sound
  <2>5. /\ f.version \in {0, 12, 13} /\ f.session_reused \in BOOLEAN
        /\ f.used_hello_retry_request \in BOOLEAN /\ f.cert_request \in BOOLEAN
        /\ f.ticket_expected \in BOOLEAN /\ f.key_share \in 0..2
        /\ f.peer \in {"none", "client"} /\ f.state # "done"
        /\ f.wait = "ok"
    BY <1>2, <1>3, <2>1, <2>2, <2>3, SMT DEF Same, Fields, Good, Typed, Sound
  <2>6. Same(e, f, Readable)
    BY <2>1, SameWider DEF Readable
  <2> QED BY <1>2, <1>3, <2>2, <2>3, <2>4, <2>5, <2>6, GoodRead
<1> HIDE DEF f
<1>4. ASSUME HasMessage(e) PROVE Steps(e, then, g)
  BY <1>2, <1>3, <1>4, GoodHashAlert
<1> QED BY <1>1, <1>2, <1>4, GoodExpect

\* do_send_server_finished.
LEMMA S12SendServerFinished ==
    ASSUME NEW e, NEW g, Turn(e, g, "server", "send_server_finished")
    PROVE  Steps(e, S12!do_send_server_finished(e), g)
<1> DEFINE ticket == [type |-> "new_session_ticket"]
           a == IF e.ticket_expected THEN AddMessage(e, ticket) ELSE e
           b == AddChangeCipherSpec(a)
           c == SetWriteKey(b, S12!key(a, "server"))
           d == AddMessage(c, Finished("server", c))
           next == IF e.session_reused THEN "read_change_cipher_spec" ELSE "finish_server_handshake"
           f == Wait(To(d, next), "flush")
<1>1. S12!do_send_server_finished(e) = f
  <2>1. \A x, m : S12!AddMessage(x, m) = AddMessage(x, m)
    BY Zenon DEF AddMessage, NullKey, Records, Record, Units, S12!AddMessage, S12!NullKey,
         S12!Records, S12!Record, S12!Units
  <2>2. \A x : S12!AddChangeCipherSpec(x) = AddChangeCipherSpec(x)
    BY Zenon DEF AddChangeCipherSpec, FlushPendingHsData, Records, Record,
         S12!AddChangeCipherSpec, S12!FlushPendingHsData, S12!Records, S12!Record
  <2>3. \A x, key : S12!SetWriteKey(x, key) = SetWriteKey(x, key)
    BY Zenon DEF SetWriteKey, FlushPendingHsData, Records, Record, S12!SetWriteKey,
         S12!FlushPendingHsData, S12!Records, S12!Record
  <2>4. \A side, x : S12!Finished(side, x) = Finished(side, x)
    BY Zenon DEF Finished, S12!Finished
  <2>5. \A x, state : S12!To(x, state) = To(x, state)
    BY Zenon DEF To, S12!To
  <2>6. \A x, wait : S12!Wait(x, wait) = Wait(x, wait)
    BY Zenon DEF Wait, S12!Wait
  <2> QED BY <2>1, <2>2, <2>3, <2>4, <2>5, <2>6, SMT DEF S12!do_send_server_finished
<1>2. /\ Good(e, g) /\ DOMAIN e = Fields /\ Wire(e, g) /\ g.side = "client"
      /\ e.side = "server" /\ Peer(e.side) = "client" /\ e.wait = "ok"
      /\ e.state = "send_server_finished" /\ ServerTrust(e, g)
      /\ ~Unsigned(e) /\ Writing(e) /\ ~HelloHeld(e)
  BY TurnFacts DEF MayRead, Emptied, HelloHeld, Writing, Unsigned, At, Good, Trust, Peer
<1>3. Steps(e, f, g)
  <2>1. Draft(e, d, g)
    <3>1. Sound(ticket, e) /\ Sound(Finished("server", c), e)
      BY DEF Sound, Finished
    <3>2. Draft(e, a, g)
      BY <1>2, <3>1, DraftStart, DraftAddMessage
    <3>3. Draft(e, b, g)
      BY <3>2, DraftAddChangeCipherSpec
    <3>4. Draft(e, c, g)
      BY <3>3, DraftSetWriteKey
    <3>5. Draft(e, d, g)
      BY <3>1, <3>4, DraftAddMessage
    <3> QED BY <3>5
  <2> HIDE DEF d
  <2>2. Same(d, f, {"state", "wait"}) /\ f.state = next /\ f.wait = "flush"
    BY <2>1, DraftWire, SameToWait
  <2> HIDE DEF f
  <2>3. Same(d, f, Ending)
    BY <2>2, SameWider DEF Ending
  <2>4. /\ ServerTrust(f, g) /\ (Unsigned(f) => Unsigned(e))
        /\ (Emptied(f) => e.hs_buf = <<>>) /\ ~HelloHeld(f)
        /\ f.cert_request = e.cert_request
        /\ f.used_hello_retry_request = e.used_hello_retry_request
    BY <1>2, <2>1, <2>2, <2>3, OnWrite DEF Draft, Written, Same, Fields, ServerTrust, Checked12,
         Checked13, Accepted, Verifying, At, Unsigned, Emptied, HelloHeld, Writing, Good,
         Buffers
  <2>5. /\ f.used_hello_retry_request \in BOOLEAN /\ f.cert_request \in BOOLEAN
        /\ f.state # "done" /\ f.wait \in {"ok", "flush"}
    BY <1>2, <2>2, <2>4 DEF Good, Typed, Same, Fields
  <2> QED BY <1>2, <2>1, <2>2, <2>3, <2>4, <2>5, GoodSend
<1> HIDE DEF f
<1> QED BY <1>1, <1>3

\* do_finish_server_handshake.
LEMMA S12FinishServerHandshake ==
    ASSUME NEW e, NEW g, Turn(e, g, "server", "finish_server_handshake")
    PROVE  Steps(e, S12!do_finish_server_handshake(e), g)
<1> DEFINE f == [e EXCEPT !.state = "done", !.established = "server"]
<1>1. S12!do_finish_server_handshake(e) = f
  BY Zenon DEF S12!do_finish_server_handshake
<1>2. /\ Good(e, g) /\ DOMAIN e = Fields /\ Wire(e, g) /\ g.side = "client"
      /\ e.side = "server" /\ Peer(e.side) = "client" /\ e.wait = "ok"
      /\ e.state = "finish_server_handshake" /\ ServerTrust(e, g)
      /\ ~Unsigned(e) /\ Writing(e) /\ ~HelloHeld(e)
  BY TurnFacts DEF MayRead, Emptied, HelloHeld, Writing, Unsigned, At, Good, Trust, Peer
<1>3. Same(e, f, {"state", "established"}) /\ f.state = "done" /\ f.established = "server"
  BY <1>2, Zenon DEF Same, Fields
<1> HIDE DEF f
<1>4. ServerTrust(f, g) /\ f.established # "none"
  BY <1>2, <1>3, SMT DEF Same, Fields, ServerTrust, Checked12, Checked13, Accepted, Verifying,
       At
<1> QED BY <1>1, <1>2, <1>3, <1>4, GoodFinish

-----------------------------------------------------------------------------
(***************************************************************************)
(* tls13_server_handshake.                                                 *)
(***************************************************************************)
\* An error leaves the flight as it is.
LEMMA GoodDraftError ==
    ASSUME NEW e, NEW d, NEW g, NEW why, Good(e, g), Draft(e, d, g)
    PROVE  Steps(e, Error(d, why), g)
<1> DEFINE f == Error(d, why)
           X == {"wait", "running", "error"}
<1>1. DOMAIN d = Fields /\ Wire(d, g) /\ Grows(e, d) /\ Same(e, d, Written)
  BY DraftWire DEF Draft
<1>2. Same(d, f, X)
  BY <1>1, Zenon DEF Same, Error
<1>3. f.wait = "error" /\ f.running = FALSE
  BY <1>1, SMT DEF Error, Fields
<1> HIDE DEF f
<1>4. Same(e, f, Written \cup X)
  BY <1>1, <1>2, SameTrans
<1> DEFINE Y == Written \cup X
<1>5. Y \cap Decisive = {}
  BY DEF Written, Decisive
<1>6. /\ f.version = e.version /\ f.used_hello_retry_request = e.used_hello_retry_request
      /\ f.ticket_expected = e.ticket_expected /\ f.key_share = e.key_share
  BY <1>4, SMT DEF Same, Fields, Written
<1>7. Same(e, f, Y)
  BY <1>4
<1> HIDE DEF Y
<1>8. Typed(f)
  <2>1. "error" \in Waits
    BY DEF Waits
  <2> QED BY <1>3, <1>5, <1>6, <1>7, <2>1, TypedKept, Zenon DEF Good, Typed
<1>9. /\ Asking(f) /\ Trust(f, g) /\ Grows(e, f) /\ f.hs_buf = e.hs_buf
      /\ Emptied(f) = Emptied(e) /\ HelloHeld(f) = HelloHeld(e)
  BY <1>5, <1>7, DecisiveKept, Zenon DEF Good
<1>10. Wire(f, g)
  <2>1. Grows(d, f)
    BY <1>2, SameGrows
  <2> QED BY <1>1, <1>2, <2>1, WireSame
<1>11. Buffers(f)
  <2>1. f.wait \notin Reading
    BY <1>3 DEF Reading
  <2> QED BY <1>3, <1>9, <2>1, Zenon DEF Good, Buffers
<1> QED BY <1>8, <1>9, <1>10, <1>11, Zenon DEF Steps, Good, f

\* do_select_session.
LEMMA S13SelectSession ==
    ASSUME NEW e, NEW g, Turn(e, g, "server", "tls13"), e.tls13_state = "select_session"
    PROVE  Steps(e, S13!do_select_session(e), g)
<1> DEFINE m == Message(e)
           reused == m.session = 13 /\ e.cfg.resumes
           group == SharedGroup(m.groups, e)
           a == HashMessage([e EXCEPT !.session_reused = reused, !.key_share = group])
           h == To13(UpdateForHelloRetryRequest(NextMessage(a)), "send_hello_retry_request")
           f == To13(NextMessage(a), "send_server_hello")
<1>1. S13!do_select_session(e) = IF reused /\ m.binder # e.transcript THEN Alert(e, "decrypt_error")
        ELSE IF group = 0 THEN Alert(e, "handshake_failure")
        ELSE IF m.key_share # group THEN h ELSE f
  BY Zenon DEF S13!do_select_session, Message, SharedGroup, HashMessage, To13,
       UpdateForHelloRetryRequest, NextMessage, Units, Alert, FlushFlight, FlushPendingHsData,
       Records, Record, Error, HasMessage, S13!Message, S13!SharedGroup, S13!HashMessage,
       S13!To13, S13!UpdateForHelloRetryRequest, S13!NextMessage, S13!Units, S13!Alert,
       S13!FlushFlight, S13!FlushPendingHsData, S13!Records, S13!Record, S13!Error,
       S13!HasMessage
<1>2. /\ Good(e, g) /\ DOMAIN e = Fields /\ Wire(e, g) /\ g.side = "client"
      /\ e.side = "server" /\ Peer(e.side) = "client" /\ e.wait = "ok"
      /\ e.state = "tls13" /\ ServerTrust(e, g)
      /\ Unsigned(e) /\ ~Writing(e) /\ HelloHeld(e) /\ ~Emptied(e)
  BY TurnFacts DEF MayRead, Emptied, HelloHeld, Writing, Unsigned, At, Good, Trust, Peer
<1>3. HasMessage(e) /\ m.type = "client_hello" /\ Sound(m, g)
  BY <1>2, HeldHello
<1>4. group \in 0..2
  <2>1. m.groups \in Seq({1, 2})
    <3> HIDE DEF m
    <3> QED BY <1>3 DEF Sound
  <2> QED BY <2>1, SharedGroupType
<1>5. reused \in BOOLEAN
  OBVIOUS
<1> HIDE DEF reused, group
<1>6. Steps(e, h, g)
  <2>1. Same(e, h, {"session_reused", "key_share", "transcript", "hs_buf", "tls13_state"})
    BY <1>2, Zenon DEF Same, To13, UpdateForHelloRetryRequest, NextMessage, HashMessage,
         SharedGroup
  <2>2. /\ h.session_reused = reused /\ h.key_share = group
        /\ h.hs_buf = NextMessage(e).hs_buf /\ h.tls13_state = "send_hello_retry_request"
    BY <1>2, SMT DEF To13, UpdateForHelloRetryRequest, NextMessage, HashMessage, SharedGroup,
         Message, Fields
  <2> HIDE DEF h
  <2>3. Sound(Message(e), g) /\ SoundUnits(h.hs_buf, g) /\ (~Excess(e) => h.hs_buf = <<>>)
    BY <1>2, <2>2, <1>3, OnMessage DEF Wire, Carries
  <2>4. /\ ServerTrust(h, g) /\ (Unsigned(h) => Unsigned(e))
        /\ ~Emptied(h) /\ ~HelloHeld(h)
    BY <1>2, <2>1, <2>2, <2>3, <1>4, <1>5, SMT DEF Same, Fields, ServerTrust, Checked12,
         Checked13, Accepted, Verifying, At, Unsigned, Emptied, HelloHeld, Sound
  <2>5. /\ h.version \in {0, 12, 13} /\ h.session_reused \in BOOLEAN
        /\ h.used_hello_retry_request \in BOOLEAN /\ h.cert_request \in BOOLEAN
        /\ h.ticket_expected \in BOOLEAN /\ h.key_share \in 0..2
        /\ h.peer \in {"none", "client"} /\ h.state # "done"
        /\ h.wait = "ok"
    BY <1>2, <2>1, <2>2, <2>3, <1>4, <1>5, SMT DEF Same, Fields, Good, Typed, Sound
  <2>6. Same(e, h, Readable)
    BY <2>1, SameWider DEF Readable
  <2> QED BY <1>2, <2>2, <2>3, <2>4, <2>5, <2>6, GoodRead
<1>7. Steps(e, f, g)
  <2>1. Same(e, f, {"session_reused", "key_share", "transcript", "hs_buf", "tls13_state"})
    BY <1>2, Zenon DEF Same, To13, NextMessage, HashMessage, SharedGroup
  <2>2. /\ f.session_reused = reused /\ f.key_share = group
        /\ f.hs_buf = NextMessage(e).hs_buf /\ f.tls13_state = "send_server_hello"
    BY <1>2, SMT DEF To13, NextMessage, HashMessage, SharedGroup, Message, Fields
  <2> HIDE DEF f
  <2>3. Sound(Message(e), g) /\ SoundUnits(f.hs_buf, g) /\ (~Excess(e) => f.hs_buf = <<>>)
    BY <1>2, <2>2, <1>3, OnMessage DEF Wire, Carries
  <2>4. /\ ServerTrust(f, g) /\ (Unsigned(f) => Unsigned(e))
        /\ ~Emptied(f) /\ ~HelloHeld(f)
    BY <1>2, <2>1, <2>2, <2>3, <1>4, <1>5, SMT DEF Same, Fields, ServerTrust, Checked12,
         Checked13, Accepted, Verifying, At, Unsigned, Emptied, HelloHeld, Sound
  <2>5. /\ f.version \in {0, 12, 13} /\ f.session_reused \in BOOLEAN
        /\ f.used_hello_retry_request \in BOOLEAN /\ f.cert_request \in BOOLEAN
        /\ f.ticket_expected \in BOOLEAN /\ f.key_share \in 0..2
        /\ f.peer \in {"none", "client"} /\ f.state # "done"
        /\ f.wait = "ok"
    BY <1>2, <2>1, <2>2, <2>3, <1>4, <1>5, SMT DEF Same, Fields, Good, Typed, Sound
  <2>6. Same(e, f, Readable)
    BY <2>1, SameWider DEF Readable
  <2> QED BY <1>2, <2>2, <2>3, <2>4, <2>5, <2>6, GoodRead
<1> HIDE DEF f, h
<1> QED BY <1>1, <1>2, <1>6, <1>7, GoodAlert

\* The instance of the handshake layer that the server's state machine uses is the layer itself.
LEMMA S13Layer ==
    /\ \A e, m : S13!AddMessage(e, m) = AddMessage(e, m)
    /\ \A e : S13!AddChangeCipherSpec(e) = AddChangeCipherSpec(e)
    /\ \A e, key : S13!SetWriteKey(e, key) = SetWriteKey(e, key)
    /\ \A level, side, secret : S13!Key(level, side, secret) = Key(level, side, secret)
    /\ \A e, state : S13!To13(e, state) = To13(e, state)
    /\ \A e, wait : S13!Wait(e, wait) = Wait(e, wait)
    /\ \A e, why : S13!Error(e, why) = Error(e, why)
    /\ \A e : S13!Certificate(e) = Certificate(e)
    /\ \A side, e : S13!Finished(side, e) = Finished(side, e)
    /\ \A e : S13!CertificateVerify(e) = CertificateVerify(e)
    /\ \A e, then : S13!AfterSign(e, then) = AfterSign(e, then)
<1>1. \A e, m : S13!AddMessage(e, m) = AddMessage(e, m)
  <2> SUFFICES ASSUME NEW e, NEW m PROVE S13!AddMessage(e, m) = AddMessage(e, m)
    OBVIOUS
  <2>1. ASSUME NEW k, NEW us PROVE S13!Records(k, us) = Records(k, us)
    BY Zenon DEF Records, Record, S13!Records, S13!Record
  <2>2. S13!Units(m) = Units(m) /\ S13!NullKey = NullKey
    BY Zenon DEF Units, S13!Units, NullKey, S13!NullKey
  <2> DEFINE us == e.pending_hs_data \o Units(m)
             k  == ((Len(us) - 1) \div MaxFragment) * MaxFragment
             vs == e.pending_hs_data \o S13!Units(m)
             l  == ((Len(vs) - 1) \div MaxFragment) * MaxFragment
             a  == [e EXCEPT !.pending_flight = @ \o Records(e.write_key, SubSeq(us, 1, k)),
                             !.pending_hs_data = SubSeq(us, k + 1, Len(us)),
                             !.transcript = Append(@, m)]
             b  == [e EXCEPT !.pending_flight = @ \o S13!Records(e.write_key, SubSeq(vs, 1, l)),
                             !.pending_hs_data = SubSeq(vs, l + 1, Len(vs)),
                             !.transcript = Append(@, m)]
             c  == [e EXCEPT !.pending_flight = @ \o Records(NullKey, Units(m)),
                             !.transcript = Append(@, m)]
             d  == [e EXCEPT !.pending_flight = @ \o S13!Records(S13!NullKey, S13!Units(m)),
                             !.transcript = Append(@, m)]
  <2>3. AddMessage(e, m) = IF e.write_key = NullKey THEN c ELSE a
    BY Zenon DEF AddMessage
  <2>4. S13!AddMessage(e, m) = IF e.write_key = S13!NullKey THEN d ELSE b
    BY Zenon DEF S13!AddMessage
  <2>5. us = vs
    BY <2>2, Zenon
  <2> HIDE DEF us, vs
  <2>6. k = l
    BY <2>5, Zenon
  <2> HIDE DEF k, l
  <2>7. S13!Records(S13!NullKey, S13!Units(m)) = Records(NullKey, Units(m))
    BY <2>1, <2>2
  <2>8. S13!Records(e.write_key, SubSeq(vs, 1, l)) = Records(e.write_key, SubSeq(us, 1, k))
    BY <2>1, <2>5, <2>6
  <2>9. a = b
    BY <2>5, <2>6, <2>8, Zenon
  <2>10. c = d
    BY <2>7, Zenon
  <2> HIDE DEF a, b, c, d
  <2> QED BY <2>2, <2>3, <2>4, <2>9, <2>10, Zenon
<1>2. \A e : S13!AddChangeCipherSpec(e) = AddChangeCipherSpec(e)
  BY Zenon DEF AddChangeCipherSpec, FlushPendingHsData, Records, Record,
       S13!AddChangeCipherSpec, S13!FlushPendingHsData, S13!Records, S13!Record
<1>3. \A e, key : S13!SetWriteKey(e, key) = SetWriteKey(e, key)
  BY Zenon DEF SetWriteKey, FlushPendingHsData, Records, Record, S13!SetWriteKey,
       S13!FlushPendingHsData, S13!Records, S13!Record
<1>4. \A level, side, secret : S13!Key(level, side, secret) = Key(level, side, secret)
  BY Zenon DEF Key, S13!Key
<1>5. \A e, state : S13!To13(e, state) = To13(e, state)
  BY Zenon DEF To13, S13!To13
<1>6. \A e, wait : S13!Wait(e, wait) = Wait(e, wait)
  BY Zenon DEF Wait, S13!Wait
<1>7. \A e, why : S13!Error(e, why) = Error(e, why)
  BY Zenon DEF Error, S13!Error
<1>8. \A e : S13!Certificate(e) = Certificate(e)
  BY Zenon DEF Certificate, S13!Certificate
<1>9. \A side, e : S13!Finished(side, e) = Finished(side, e)
  BY Zenon DEF Finished, S13!Finished
<1>10. \A e : S13!CertificateVerify(e) = CertificateVerify(e)
  BY Zenon DEF CertificateVerify, S13!CertificateVerify
<1>11. \A e, then : S13!AfterSign(e, then) = AfterSign(e, then)
  BY Zenon DEF AfterSign, Error, Wait, S13!AfterSign, S13!Error, S13!Wait
<1> QED BY <1>1, <1>2, <1>3, <1>4, <1>5, <1>6, <1>7, <1>8, <1>9, <1>10, <1>11

\* do_send_hello_retry_request.
LEMMA S13SendHelloRetryRequest ==
    ASSUME NEW e, NEW g, Turn(e, g, "server", "tls13"), e.tls13_state = "send_hello_retry_request"
    PROVE  Steps(e, S13!do_send_hello_retry_request(e), g)
<1> DEFINE m == [type |-> "hello_retry_request", version |-> 13, group |-> e.key_share]
           a == AddMessage(e, m)
           d == AddChangeCipherSpec(a)
           f == Wait(To13([d EXCEPT !.used_hello_retry_request = TRUE], "read_second_client_hello"), "flush")
<1>1. S13!do_send_hello_retry_request(e) = f
  <2> DEFINE aa == S13!AddMessage(e, m)
             dd == S13!AddChangeCipherSpec(aa)
             ff == S13!Wait(S13!To13([dd EXCEPT !.used_hello_retry_request = TRUE], "read_second_client_hello"), "flush")
  <2>1. S13!do_send_hello_retry_request(e) = ff
    BY Zenon DEF S13!do_send_hello_retry_request
  <2>2. aa = a
    BY S13Layer
  <2> HIDE DEF aa, a
  <2>3. dd = d
    BY <2>2, S13Layer
  <2> HIDE DEF dd, d
  <2>4. ff = f
    BY <2>3, S13Layer
  <2> HIDE DEF ff, f
  <2> QED BY <2>1, <2>4, <2>2, <2>3, S13Layer
<1>2. /\ Good(e, g) /\ DOMAIN e = Fields /\ Wire(e, g) /\ g.side = "client"
      /\ e.side = "server" /\ Peer(e.side) = "client" /\ e.wait = "ok"
      /\ e.state = "tls13" /\ ServerTrust(e, g)
      /\ Unsigned(e) /\ ~Writing(e) /\ ~HelloHeld(e) /\ ~Emptied(e) /\ MayRead(e)
  BY TurnFacts DEF MayRead, Emptied, HelloHeld, Writing, Unsigned, At, Good, Trust, Peer
<1>3. Steps(e, f, g)
  <2>1. Draft(e, d, g)
    <3>1. e.key_share \in 0..2
      BY <1>2 DEF Good, Typed
    <3>2. Sound(m, e)
      BY <3>1 DEF Sound
    <3>3. Draft(e, a, g)
      BY <1>2, <3>2, DraftStart, DraftAddMessage
    <3>4. Draft(e, d, g)
      BY <3>3, DraftAddChangeCipherSpec
    <3> QED BY <3>4
  <2>2. /\ Same(d, f, {"used_hello_retry_request", "tls13_state", "wait"})
        /\ f.used_hello_retry_request = TRUE /\ f.tls13_state = "read_second_client_hello"
        /\ f.wait = "flush"
    BY <1>2, <2>1, DraftWire, Zenon DEF Same, Fields, To, To13, Wait
  <2> HIDE DEF f, d
  <2>3. Same(d, f, Ending)
    BY <2>2, SameWider DEF Ending
  <2>4. /\ ServerTrust(f, g) /\ (Unsigned(f) => Unsigned(e))
        /\ ~Emptied(f) /\ ~HelloHeld(f) /\ (Writing(f) \/ f.wait = "flush" \/ Quiet(d))
        /\ f.state = e.state /\ f.cert_request = e.cert_request
    BY <1>2, <2>1, <2>2, <2>3, OnWrite DEF Draft, Written, Same, Fields, ServerTrust, Checked12,
         Checked13, Accepted, Verifying, At, Unsigned, Emptied, HelloHeld, Writing
  <2>5. /\ f.used_hello_retry_request \in BOOLEAN /\ f.cert_request \in BOOLEAN
        /\ f.state # "done" /\ f.wait \in {"ok", "flush"}
    BY <1>2, <2>2, <2>4 DEF Good, Typed, Same, Fields
  <2> QED BY <1>2, <2>1, <2>2, <2>3, <2>4, <2>5, GoodSend
<1> HIDE DEF f
<1> QED BY <1>1, <1>3

\* do_read_second_client_hello.
LEMMA S13ReadSecondClientHello ==
    ASSUME NEW e, NEW g, Turn(e, g, "server", "tls13"), e.tls13_state = "read_second_client_hello"
    PROVE  Steps(e, S13!do_read_second_client_hello(e), g)
<1> DEFINE f == To13(Take(e), "send_server_hello")
           then == IF e.session_reused /\ Message(e).session # 13 THEN Alert(e, "illegal_parameter")
                   ELSE IF e.session_reused /\ Message(e).binder # e.transcript
                   THEN Alert(e, "decrypt_error")
                   ELSE IF Message(e).key_share # e.key_share THEN Alert(e, "illegal_parameter")
                   ELSE IF Excess(e) THEN Alert(HashMessage(e), "unexpected_message") ELSE f
<1>1. S13!do_read_second_client_hello(e) = Expect(e, "client_hello", then)
  BY Zenon DEF S13!do_read_second_client_hello, To13, Take, NextMessage, Units, Message,
       HashMessage, Alert, FlushFlight, FlushPendingHsData, Records, Record, Error, HasMessage,
       Excess, Expect, Wait, S13!To13, S13!Take, S13!NextMessage, S13!Units, S13!Message,
       S13!HashMessage, S13!Alert, S13!FlushFlight, S13!FlushPendingHsData, S13!Records,
       S13!Record, S13!Error, S13!HasMessage, S13!Excess, S13!Expect, S13!Wait
<1>2. /\ Good(e, g) /\ DOMAIN e = Fields /\ Wire(e, g) /\ g.side = "client"
      /\ e.side = "server" /\ Peer(e.side) = "client" /\ e.wait = "ok"
      /\ e.state = "tls13" /\ ServerTrust(e, g)
      /\ Unsigned(e) /\ ~Writing(e) /\ ~HelloHeld(e) /\ ~Emptied(e) /\ MayRead(e)
  BY TurnFacts DEF MayRead, Emptied, HelloHeld, Writing, Unsigned, At, Good, Trust, Peer
<1>3. ASSUME HasMessage(e) PROVE Steps(e, f, g)
  <2>1. Same(e, f, {"transcript", "hs_buf", "tls13_state"})
    BY <1>2, Zenon DEF Same, To13, Take, NextMessage, HashMessage
  <2>2. /\ f.tls13_state = "send_server_hello"
        /\ f.hs_buf = NextMessage(e).hs_buf
    BY <1>2, <1>3, SMT DEF To13, Take, NextMessage, HashMessage, Message, Fields
  <2> HIDE DEF f
  <2>3. Sound(Message(e), g) /\ SoundUnits(f.hs_buf, g) /\ (~Excess(e) => f.hs_buf = <<>>)
    BY <1>2, <1>3, <2>2, OnMessage DEF Wire, Carries
  <2>4. /\ ServerTrust(f, g) /\ (Unsigned(f) => Unsigned(e))
        /\ ~Emptied(f) /\ ~HelloHeld(f)
    BY <1>2, <1>3, <2>1, <2>2, <2>3, SMT DEF Same, Fields, ServerTrust, Checked12, Checked13,
         Accepted, Verifying, At, Unsigned, Emptied, HelloHeld, Sound
  <2>5. /\ f.version \in {0, 12, 13} /\ f.session_reused \in BOOLEAN
        /\ f.used_hello_retry_request \in BOOLEAN /\ f.cert_request \in BOOLEAN
        /\ f.ticket_expected \in BOOLEAN /\ f.key_share \in 0..2
        /\ f.peer \in {"none", "client"} /\ f.state # "done"
        /\ f.wait = "ok"
    BY <1>2, <1>3, <2>1, <2>2, <2>3, SMT DEF Same, Fields, Good, Typed, Sound
  <2>6. Same(e, f, Readable)
    BY <2>1, SameWider DEF Readable
  <2> QED BY <1>2, <2>2, <2>3, <2>4, <2>5, <2>6, GoodRead
<1> HIDE DEF f
<1>4. ASSUME HasMessage(e) PROVE Steps(e, then, g)
  BY <1>2, <1>3, <1>4, GoodAlert, GoodHashAlert
<1> HIDE DEF then
<1> QED BY <1>1, <1>2, <1>4, GoodExpect

\* The flight of do_send_server_hello, whichever way it ends.
LEMMA S13ServerFlight ==
    ASSUME NEW e, NEW g, Turn(e, g, "server", "tls13"), e.tls13_state = "send_server_hello",
           NEW hello,
           NEW ccs,
           NEW key,
           Sound(hello, e),
           ~Verifying(e) \/ e.session_reused \/ e.cert_request
    PROVE  LET f == AddMessage(e, hello)
               b == SetWriteKey(IF ccs THEN f ELSE AddChangeCipherSpec(f), key)
               h == AddMessage(b, [type |-> "encrypted_extensions"])
               i == IF b.cert_request THEN AddMessage(h, [type |-> "certificate_request"]) ELSE h
           IN  /\ Steps(e, To13(i, "send_server_finished"), g)
               /\ Steps(e, Error(i, "no_certificate_set"), g)
               /\ Steps(e, To13(AddMessage(i, Certificate(e)), "send_server_certificate_verify"), g)
<1> DEFINE f == AddMessage(e, hello)
           a == IF ccs THEN f ELSE AddChangeCipherSpec(f)
           b == SetWriteKey(a, key)
           h == AddMessage(b, [type |-> "encrypted_extensions"])
           i == IF b.cert_request THEN AddMessage(h, [type |-> "certificate_request"]) ELSE h
           d == AddMessage(i, Certificate(e))
           r == To13(i, "send_server_finished")
           s == To13(d, "send_server_certificate_verify")
<1>1. /\ Good(e, g) /\ DOMAIN e = Fields /\ Wire(e, g) /\ g.side = "client"
      /\ e.side = "server" /\ Peer(e.side) = "client" /\ e.wait = "ok"
      /\ e.state = "tls13" /\ ServerTrust(e, g)
      /\ Unsigned(e) /\ ~Writing(e) /\ ~HelloHeld(e) /\ ~Emptied(e) /\ MayRead(e)
  BY TurnFacts DEF MayRead, Emptied, HelloHeld, Writing, Unsigned, At, Good, Trust, Peer
<1>2. Draft(e, i, g) /\ Draft(e, d, g)
  <2>1. /\ Sound([type |-> "encrypted_extensions"], e) /\ Sound([type |-> "certificate_request"], e)
        /\ Sound(Certificate(e), e)
    BY DEF Sound, Certificate
  <2>2. Draft(e, f, g)
    BY <1>1, DraftStart, DraftAddMessage
  <2> HIDE DEF f
  <2>3. Draft(e, b, g)
    BY <2>2, DraftAddChangeCipherSpec, DraftSetWriteKey
  <2> HIDE DEF b
  <2>4. Draft(e, i, g)
    BY <2>1, <2>3, DraftAddMessage
  <2> HIDE DEF i
  <2> QED BY <2>1, <2>4, DraftAddMessage
<1> HIDE DEF i
<1>3. Steps(e, r, g)
  <2>1. Draft(e, i, g)
    <3>1. Draft(e, i, g)
      BY <1>2
    <3> QED BY <3>1
  <2> HIDE DEF i
  <2>2. Same(i, r, {"tls13_state"}) /\ r.tls13_state = "send_server_finished"
    BY <2>1, DraftWire, SameTo13
  <2> HIDE DEF r
  <2>3. Same(i, r, Ending)
    BY <2>2, SameWider DEF Ending
  <2>4. /\ ServerTrust(r, g) /\ (Unsigned(r) => Unsigned(e))
        /\ ~Emptied(r) /\ ~HelloHeld(r) /\ (Writing(r) \/ r.wait = "flush" \/ Quiet(i))
        /\ r.wait = "ok" /\ r.state = e.state /\ r.cert_request = e.cert_request
        /\ r.used_hello_retry_request = e.used_hello_retry_request
    BY <1>1, <2>1, <2>2, <2>3, OnWrite DEF Draft, Written, Same, Fields, ServerTrust, Checked12,
         Checked13, Accepted, Verifying, At, Unsigned, Emptied, HelloHeld, Writing
  <2>5. /\ r.used_hello_retry_request \in BOOLEAN /\ r.cert_request \in BOOLEAN
        /\ r.state # "done" /\ r.wait \in {"ok", "flush"}
    BY <1>1, <2>2, <2>4 DEF Good, Typed, Same, Fields
  <2> QED BY <1>1, <2>1, <2>2, <2>3, <2>4, <2>5, GoodSend
<1>4. Steps(e, s, g)
  <2>1. Draft(e, d, g)
    <3>1. Draft(e, d, g)
      BY <1>2
    <3> QED BY <3>1
  <2> HIDE DEF d
  <2>2. Same(d, s, {"tls13_state"}) /\ s.tls13_state = "send_server_certificate_verify"
    BY <2>1, DraftWire, SameTo13
  <2> HIDE DEF s
  <2>3. Same(d, s, Ending)
    BY <2>2, SameWider DEF Ending
  <2>4. /\ ServerTrust(s, g) /\ (Unsigned(s) => Unsigned(e))
        /\ ~Emptied(s) /\ ~HelloHeld(s) /\ (Writing(s) \/ s.wait = "flush" \/ Quiet(d))
        /\ s.wait = "ok" /\ s.state = e.state /\ s.cert_request = e.cert_request
        /\ s.used_hello_retry_request = e.used_hello_retry_request
    BY <1>1, <2>1, <2>2, <2>3, OnWrite DEF Draft, Written, Same, Fields, ServerTrust, Checked12,
         Checked13, Accepted, Verifying, At, Unsigned, Emptied, HelloHeld, Writing
  <2>5. /\ s.used_hello_retry_request \in BOOLEAN /\ s.cert_request \in BOOLEAN
        /\ s.state # "done" /\ s.wait \in {"ok", "flush"}
    BY <1>1, <2>2, <2>4 DEF Good, Typed, Same, Fields
  <2> QED BY <1>1, <2>1, <2>2, <2>3, <2>4, <2>5, GoodSend
<1>5. Steps(e, Error(i, "no_certificate_set"), g)
  BY <1>1, <1>2, GoodDraftError
<1> QED BY <1>3, <1>4, <1>5 DEF i

\* do_send_server_hello.
LEMMA S13SendServerHello ==
    ASSUME NEW e, NEW g, Turn(e, g, "server", "tls13"), e.tls13_state = "send_server_hello"
    PROVE  Steps(e, S13!do_send_server_hello(e), g)
<1> DEFINE hello == [type |-> "server_hello", version |-> 13, reused |-> e.session_reused,
                      key_share |-> e.key_share, downgrade |-> FALSE, ticket |-> FALSE]
           request == e.cfg.verify /\ ~e.session_reused
           secret == [psk |-> e.session_reused, dhe |-> e.key_share, transcript |-> Append(e.transcript, hello)]
           x == [e EXCEPT !.secret = secret, !.cert_request = request]
           f == AddMessage(x, hello)
           b == SetWriteKey(IF e.used_hello_retry_request THEN f ELSE AddChangeCipherSpec(f),
                            Key("handshake", "server", secret))
           h == AddMessage(b, [type |-> "encrypted_extensions"])
           i == IF b.cert_request THEN AddMessage(h, [type |-> "certificate_request"]) ELSE h
           d == AddMessage(i, Certificate(e))
<1>1. S13!do_send_server_hello(e) = IF e.session_reused THEN To13(i, "send_server_finished")
        ELSE IF ~e.cfg.cert THEN Error(i, "no_certificate_set")
        ELSE To13(d, "send_server_certificate_verify")
  <2> DEFINE ff == S13!AddMessage(x, hello)
             bb == S13!SetWriteKey(IF e.used_hello_retry_request THEN ff ELSE S13!AddChangeCipherSpec(ff),
                            S13!Key("handshake", "server", secret))
             ii == S13!AddExtensions(bb)
             dd == S13!AddMessage(ii, S13!Certificate(e))
  <2>1. S13!do_send_server_hello(e) = IF e.session_reused THEN S13!To13(ii, "send_server_finished")
        ELSE IF ~e.cfg.cert THEN S13!Error(ii, "no_certificate_set")
        ELSE S13!To13(dd, "send_server_certificate_verify")
    BY Zenon DEF S13!do_send_server_hello
  <2>2. ff = f
    BY S13Layer
  <2> HIDE DEF ff, f
  <2>3. bb = b
    BY <2>2, S13Layer
  <2> HIDE DEF bb, b
  <2>4. ii = i
    BY <2>3, S13Layer DEF S13!AddExtensions
  <2> HIDE DEF ii, i
  <2>5. dd = d
    BY <2>4, S13Layer
  <2> HIDE DEF dd, d
  <2> QED BY <2>1, <2>5, <2>2, <2>3, <2>4, S13Layer
<1>2. /\ Good(e, g) /\ DOMAIN e = Fields /\ Wire(e, g) /\ g.side = "client"
      /\ e.side = "server" /\ Peer(e.side) = "client" /\ e.wait = "ok"
      /\ e.state = "tls13" /\ ServerTrust(e, g)
      /\ Unsigned(e) /\ ~Writing(e) /\ ~HelloHeld(e) /\ ~Emptied(e) /\ MayRead(e)
  BY TurnFacts DEF MayRead, Emptied, HelloHeld, Writing, Unsigned, At, Good, Trust, Peer
<1> HIDE DEF secret
<1>3. request \in BOOLEAN /\ (Verifying(e) => e.session_reused \/ request)
  <2>1. e.cfg.verify \in BOOLEAN /\ e.session_reused \in BOOLEAN
    BY <1>2 DEF Good, Typed, Config
  <2> QED BY <2>1 DEF Verifying
<1> HIDE DEF request
<1>4. /\ x.cert_request = request /\ x.session_reused = e.session_reused /\ x.side = e.side
      /\ x.used_hello_retry_request = e.used_hello_retry_request /\ x.cfg = e.cfg
      /\ x.total_renegotiations = e.total_renegotiations /\ x.tls13_state = e.tls13_state
      /\ x.state = e.state /\ x.wait = e.wait
  BY <1>2, SMT DEF Fields
<1>5. Steps(e, x, g)
  <2>1. Same(e, x, {"secret", "cert_request"})
    BY <1>2, Zenon DEF Same
  <2>2. x.cert_request = request
    BY <1>2, SMT DEF Message, Fields
  <2> HIDE DEF x
  <2>3. SoundUnits(x.hs_buf, g) /\ x.hs_buf = e.hs_buf
    BY <1>2, <2>1 DEF Same, Fields, Wire, Carries
  <2>4. /\ ServerTrust(x, g) /\ (Unsigned(x) => Unsigned(e))
        /\ ~Emptied(x) /\ ~HelloHeld(x)
    BY <1>2, <2>1, <2>2, <2>3, <1>3, SMT DEF Same, Fields, ServerTrust, Checked12, Checked13,
         Accepted, Verifying, At, Unsigned, Emptied, HelloHeld
  <2>5. /\ x.version \in {0, 12, 13} /\ x.session_reused \in BOOLEAN
        /\ x.used_hello_retry_request \in BOOLEAN /\ x.cert_request \in BOOLEAN
        /\ x.ticket_expected \in BOOLEAN /\ x.key_share \in 0..2
        /\ x.peer \in {"none", "client"} /\ x.state # "done"
        /\ x.wait = "ok"
    BY <1>2, <2>1, <2>2, <2>3, <1>3, SMT DEF Same, Fields, Good, Typed
  <2>6. Same(e, x, Readable)
    BY <2>1, SameWider DEF Readable
  <2> QED BY <1>2, <2>2, <2>3, <2>4, <2>5, <2>6, GoodRead
<1> HIDE DEF x
<1>6. Turn(x, g, "server", "tls13") /\ (~Verifying(x) \/ x.session_reused \/ x.cert_request) /\ Certificate(x) = Certificate(e)
  BY <1>2, <1>3, <1>4, <1>5 DEF Turn, Steps, Peer, Verifying, Certificate
<1>7. Sound(hello, x)
  <2>1. e.session_reused \in BOOLEAN
    BY <1>2 DEF Good, Typed
  <2> QED BY <2>1 DEF Sound
<1> HIDE DEF hello
<1>8. /\ Steps(x, To13(i, "send_server_finished"), g) /\ Steps(x, Error(i, "no_certificate_set"), g)
      /\ Steps(x, To13(d, "send_server_certificate_verify"), g)
  BY <1>4, <1>6, <1>7, S13ServerFlight
<1> HIDE DEF i, d
<1> QED BY <1>1, <1>5, <1>8, StepsTrans

\* do_send_server_certificate_verify.
LEMMA S13SendServerCertificateVerify ==
    ASSUME NEW e, NEW g, Turn(e, g, "server", "tls13"), e.tls13_state = "send_server_certificate_verify"
    PROVE  Steps(e, S13!do_send_server_certificate_verify(e), g)
<1> DEFINE then == To13(AddMessage(e, CertificateVerify(e)), "send_server_finished")
<1>1. S13!do_send_server_certificate_verify(e) = AfterSign(e, then)
  <2> DEFINE thenthen == S13!To13(S13!AddMessage(e, S13!CertificateVerify(e)), "send_server_finished")
  <2>1. S13!do_send_server_certificate_verify(e) = S13!AfterSign(e, thenthen)
    BY Zenon DEF S13!do_send_server_certificate_verify
  <2>2. thenthen = then
    BY S13Layer
  <2> HIDE DEF thenthen, then
  <2> QED BY <2>1, <2>2, S13Layer
<1>2. /\ Good(e, g) /\ DOMAIN e = Fields /\ Wire(e, g) /\ g.side = "client"
      /\ e.side = "server" /\ Peer(e.side) = "client" /\ e.wait = "ok"
      /\ e.state = "tls13" /\ ServerTrust(e, g)
      /\ Unsigned(e) /\ Writing(e) /\ ~HelloHeld(e) /\ ~Emptied(e)
  BY TurnFacts DEF MayRead, Emptied, HelloHeld, Writing, Unsigned, At, Good, Trust, Peer
<1>3. /\ then.state # "done"
      /\ Same(e, then, {"pending_flight", "pending_hs_data", "transcript", "state", "tls13_state"})
      /\ then.tls13_state = "send_server_finished" /\ then.state = "tls13"
  <2> DEFINE d == AddMessage(e, CertificateVerify(e))
  <2>1. Same(e, d, {"pending_flight", "pending_hs_data", "transcript"})
    BY <1>2, Zenon DEF Same, AddMessage
  <2> HIDE DEF d
  <2>2. Same(d, then, {"tls13_state"}) /\ then.tls13_state = "send_server_finished"
    BY <2>1, SameTo13 DEF d, Same
  <2> HIDE DEF then
  <2>3. Same(e, then, {"pending_flight", "pending_hs_data", "transcript"} \cup {"tls13_state"})
    BY <2>1, <2>2, SameTrans
  <2>4. then.state # "done" /\ then.state = "tls13"
    BY <1>2, <2>1, <2>2 DEF Same, Fields
  <2> QED BY <2>2, <2>3, <2>4, SameWider
<1>4. ASSUME NEW o, Grows(e, o), Signed(o) PROVE Carries(then, o, g)
  <2> DEFINE d == AddMessage(e, CertificateVerify(e))
  <2>1. Sound(CertificateVerify(e), o)
    BY <1>2, <1>4 DEF Sound, CertificateVerify, Grows, Good, Typed
  <2>2. Same(e, d, {"pending_flight", "pending_hs_data", "transcript"}) /\ Carries(d, o, g)
    BY <1>2, <1>4, <2>1, OnAddMessage
  <2>3. Same(d, then, {"tls13_state"})
    BY <2>2, Zenon DEF Same, To, To13
  <2> HIDE DEF d, then
  <2>4. /\ then.pending_hs_data = d.pending_hs_data /\ then.pending_flight = d.pending_flight
        /\ then.outbound = d.outbound /\ then.inbound = d.inbound /\ then.hs_buf = d.hs_buf
    BY <2>3 DEF Same, Fields
  <2> QED BY <2>2, <2>4, Zenon DEF Carries
<1> HIDE DEF then
<1>5. /\ ServerTrust(then, g) /\ ~Unsigned(then) /\ Writing(then) /\ ~Emptied(then)
      /\ ~HelloHeld(then) /\ then.wait = "ok"
  BY <1>2, <1>3, SMT DEF Same, Fields, ServerTrust, Checked12, Checked13, Accepted, Verifying,
       At, Unsigned, Emptied, HelloHeld, Writing
<1>6. Buffers(then)
  BY <1>5 DEF Buffers, Reading
<1>7. Steps(e, AfterSign(e, then), g)
  BY <1>2, <1>3, <1>4, <1>5, <1>6, GoodAfterSign
<1> QED BY <1>1, <1>7

\* The flight of do_send_server_finished ends under a new key.
LEMMA S13FinishedFlight ==
    ASSUME NEW e, NEW g, Turn(e, g, "server", "tls13"), e.tls13_state = "send_server_finished",
           NEW key
    PROVE  Steps(e, To13(SetWriteKey(e, key), "send_half_rtt_ticket"), g)
<1> DEFINE d == SetWriteKey(e, key)
           f == To13(d, "send_half_rtt_ticket")
<1>1. /\ Good(e, g) /\ DOMAIN e = Fields /\ Wire(e, g) /\ g.side = "client"
      /\ e.side = "server" /\ Peer(e.side) = "client" /\ e.wait = "ok"
      /\ e.state = "tls13" /\ ServerTrust(e, g)
      /\ ~Unsigned(e) /\ Writing(e) /\ ~HelloHeld(e) /\ ~Emptied(e)
  BY TurnFacts DEF MayRead, Emptied, HelloHeld, Writing, Unsigned, At, Good, Trust, Peer
<1>2. Steps(e, f, g)
  <2>1. Draft(e, d, g)
    <3>1. Draft(e, d, g)
      BY <1>1, DraftStart, DraftSetWriteKey
    <3> QED BY <3>1
  <2> HIDE DEF d
  <2>2. Same(d, f, {"tls13_state"}) /\ f.tls13_state = "send_half_rtt_ticket"
    BY <2>1, DraftWire, SameTo13
  <2> HIDE DEF f
  <2>3. Same(d, f, Ending)
    BY <2>2, SameWider DEF Ending
  <2>4. /\ ServerTrust(f, g) /\ (Unsigned(f) => Unsigned(e))
        /\ ~Emptied(f) /\ ~HelloHeld(f) /\ (Writing(f) \/ f.wait = "flush" \/ Quiet(d))
        /\ f.wait = "ok" /\ f.state = e.state /\ f.cert_request = e.cert_request
        /\ f.used_hello_retry_request = e.used_hello_retry_request
    BY <1>1, <2>1, <2>2, <2>3, OnWrite DEF Draft, Written, Same, Fields, ServerTrust, Checked12,
         Checked13, Accepted, Verifying, At, Unsigned, Emptied, HelloHeld, Writing
  <2>5. /\ f.used_hello_retry_request \in BOOLEAN /\ f.cert_request \in BOOLEAN
        /\ f.state # "done" /\ f.wait \in {"ok", "flush"}
    BY <1>1, <2>2, <2>4 DEF Good, Typed, Same, Fields
  <2> QED BY <1>1, <2>1, <2>2, <2>3, <2>4, <2>5, GoodSend
<1> QED BY <1>2

\* do_send_server_finished.
LEMMA S13SendServerFinished ==
    ASSUME NEW e, NEW g, Turn(e, g, "server", "tls13"), e.tls13_state = "send_server_finished"
    PROVE  Steps(e, S13!do_send_server_finished(e), g)
<1> DEFINE a == AddMessage(e, Finished("server", e))
           b == [a EXCEPT !.app = [a.secret EXCEPT !.transcript = a.transcript]]
           d == SetWriteKey(b, Key("application", "server", b.app))
           f == To13(d, "send_half_rtt_ticket")
<1>1. S13!do_send_server_finished(e) = f
  <2> DEFINE aa == S13!AddMessage(e, S13!Finished("server", e))
             bb == [aa EXCEPT !.app = [aa.secret EXCEPT !.transcript = aa.transcript]]
             dd == S13!SetWriteKey(bb, S13!Key("application", "server", bb.app))
             ff == S13!To13(dd, "send_half_rtt_ticket")
  <2>1. S13!do_send_server_finished(e) = ff
    BY Zenon DEF S13!do_send_server_finished
  <2>2. aa = a
    BY S13Layer
  <2> HIDE DEF aa, a
  <2>3. bb = b
    BY <2>2, S13Layer
  <2> HIDE DEF bb, b
  <2>4. dd = d
    BY <2>3, S13Layer
  <2> HIDE DEF dd, d
  <2>5. ff = f
    BY <2>4, S13Layer
  <2> HIDE DEF ff, f
  <2> QED BY <2>1, <2>5, <2>2, <2>3, <2>4, S13Layer
<1>2. /\ Good(e, g) /\ DOMAIN e = Fields /\ Wire(e, g) /\ g.side = "client"
      /\ e.side = "server" /\ Peer(e.side) = "client" /\ e.wait = "ok"
      /\ e.state = "tls13" /\ ServerTrust(e, g)
      /\ ~Unsigned(e) /\ Writing(e) /\ ~HelloHeld(e) /\ ~Emptied(e)
  BY TurnFacts DEF MayRead, Emptied, HelloHeld, Writing, Unsigned, At, Good, Trust, Peer
<1>3. Steps(e, a, g) /\ Turn(a, g, "server", "tls13") /\ a.tls13_state = "send_server_finished"
  <2>1. Sound(Finished("server", e), e)
    BY DEF Sound, Finished
  <2>2. Draft(e, a, g)
    BY <1>2, <2>1, DraftStart, DraftAddMessage
  <2> QED BY <1>2, <2>2, GoodDraft DEF Turn, Steps, Peer
<1> HIDE DEF a
<1>4. Steps(a, b, g) /\ Turn(b, g, "server", "tls13") /\ b.tls13_state = "send_server_finished"
  <2>1. DOMAIN a = Fields /\ Good(a, g)
    BY <1>3 DEF Turn, Good, Typed
  <2>2. Same(a, b, {"app"})
    BY <2>1, Zenon DEF Same
  <2> HIDE DEF b
  <2>3. Same(a, b, Incidental)
    BY <2>2, SameWider DEF Incidental
  <2>4. /\ b.running = a.running /\ b.version = a.version /\ b.key_share = a.key_share
        /\ b.used_hello_retry_request = a.used_hello_retry_request
        /\ b.ticket_expected = a.ticket_expected /\ b.side = a.side /\ b.wait = a.wait
        /\ b.state = a.state /\ b.tls13_state = a.tls13_state
    BY <2>2, SMT DEF Same, Fields
  <2>5. Steps(a, b, g)
    BY <2>1, <2>3, <2>4, GoodKept, Zenon DEF Good, Typed
  <2> QED BY <1>3, <2>4, <2>5 DEF Turn, Steps
<1> HIDE DEF b
<1>5. Steps(b, f, g)
  BY <1>4, S13FinishedFlight
<1> HIDE DEF f
<1> QED BY <1>1, <1>3, <1>4, <1>5, StepsTrans

\* do_send_half_rtt_ticket.
LEMMA S13SendHalfRttTicket ==
    ASSUME NEW e, NEW g, Turn(e, g, "server", "tls13"), e.tls13_state = "send_half_rtt_ticket"
    PROVE  Steps(e, S13!do_send_half_rtt_ticket(e), g)
<1> DEFINE f == Wait(To13(e, "process_end_of_early_data"), "flush")
<1>1. S13!do_send_half_rtt_ticket(e) = f
  BY Zenon DEF S13!do_send_half_rtt_ticket, Wait, To13, S13!Wait, S13!To13
<1>2. /\ Good(e, g) /\ DOMAIN e = Fields /\ Wire(e, g) /\ g.side = "client"
      /\ e.side = "server" /\ Peer(e.side) = "client" /\ e.wait = "ok"
      /\ e.state = "tls13" /\ ServerTrust(e, g)
      /\ ~Unsigned(e) /\ Writing(e) /\ ~HelloHeld(e) /\ ~Emptied(e)
  BY TurnFacts DEF MayRead, Emptied, HelloHeld, Writing, Unsigned, At, Good, Trust, Peer
<1>3. Steps(e, f, g)
  <2>1. Draft(e, e, g)
    <3>1. Draft(e, e, g)
      BY <1>2, DraftStart
    <3> QED BY <3>1
  <2>2. /\ Same(e, f, {"tls13_state", "wait"}) /\ f.tls13_state = "process_end_of_early_data"
        /\ f.wait = "flush"
    BY <1>2, <2>1, DraftWire, Zenon DEF Same, Fields, To, To13, Wait
  <2> HIDE DEF f
  <2>3. Same(e, f, Ending)
    BY <2>2, SameWider DEF Ending
  <2>4. /\ ServerTrust(f, g) /\ (Unsigned(f) => Unsigned(e))
        /\ ~Emptied(f) /\ ~HelloHeld(f) /\ (Writing(f) \/ f.wait = "flush" \/ Quiet(e))
        /\ f.state = e.state /\ f.cert_request = e.cert_request
        /\ f.used_hello_retry_request = e.used_hello_retry_request
    BY <1>2, <2>1, <2>2, <2>3, OnWrite DEF Draft, Written, Same, Fields, ServerTrust, Checked12,
         Checked13, Accepted, Verifying, At, Unsigned, Emptied, HelloHeld, Writing
  <2>5. /\ f.used_hello_retry_request \in BOOLEAN /\ f.cert_request \in BOOLEAN
        /\ f.state # "done" /\ f.wait \in {"ok", "flush"}
    BY <1>2, <2>2, <2>4 DEF Good, Typed, Same, Fields
  <2> QED BY <1>2, <2>1, <2>2, <2>3, <2>4, <2>5, GoodSend
<1> HIDE DEF f
<1> QED BY <1>1, <1>3

\* do_process_end_of_early_data.
LEMMA S13ProcessEndOfEarlyData ==
    ASSUME NEW e, NEW g, Turn(e, g, "server", "tls13"), e.tls13_state = "process_end_of_early_data"
    PROVE  Steps(e, S13!do_process_end_of_early_data(e), g)
<1> DEFINE k == S13!hs(e, "client")
           f == [To13(e, "read_client_certificate") EXCEPT !.read_key = k]
<1>1. S13!do_process_end_of_early_data(e) = IF e.hs_buf # <<>> THEN Alert(e, "unexpected_message") ELSE f
  BY Zenon DEF S13!do_process_end_of_early_data, To13, Alert, FlushFlight, FlushPendingHsData,
       Records, Record, Error, HasMessage, Units, Message, SetReadKey, S13!To13, S13!Alert,
       S13!FlushFlight, S13!FlushPendingHsData, S13!Records, S13!Record, S13!Error,
       S13!HasMessage, S13!Units, S13!Message, S13!SetReadKey
<1>2. /\ Good(e, g) /\ DOMAIN e = Fields /\ Wire(e, g) /\ g.side = "client"
      /\ e.side = "server" /\ Peer(e.side) = "client" /\ e.wait = "ok"
      /\ e.state = "tls13" /\ ServerTrust(e, g)
      /\ ~Unsigned(e) /\ ~Writing(e) /\ ~HelloHeld(e) /\ ~Emptied(e) /\ MayRead(e)
  BY TurnFacts DEF MayRead, Emptied, HelloHeld, Writing, Unsigned, At, Good, Trust, Peer
<1>3. Steps(e, f, g)
  <2>1. Same(e, f, {"tls13_state", "read_key"})
    BY <1>2, Zenon DEF Same, To13
  <2>2. f.tls13_state = "read_client_certificate"
    BY <1>2, SMT DEF To13, Message, Fields
  <2> HIDE DEF f
  <2>3. SoundUnits(f.hs_buf, g) /\ f.hs_buf = e.hs_buf
    BY <1>2, <2>1 DEF Same, Fields, Wire, Carries
  <2>4. /\ ServerTrust(f, g) /\ (Unsigned(f) => Unsigned(e))
        /\ ~Emptied(f) /\ ~HelloHeld(f)
    BY <1>2, <2>1, <2>2, <2>3, SMT DEF Same, Fields, ServerTrust, Checked12, Checked13,
         Accepted, Verifying, At, Unsigned, Emptied, HelloHeld
  <2>5. /\ f.version \in {0, 12, 13} /\ f.session_reused \in BOOLEAN
        /\ f.used_hello_retry_request \in BOOLEAN /\ f.cert_request \in BOOLEAN
        /\ f.ticket_expected \in BOOLEAN /\ f.key_share \in 0..2
        /\ f.peer \in {"none", "client"} /\ f.state # "done"
        /\ f.wait = "ok"
    BY <1>2, <2>1, <2>2, <2>3, SMT DEF Same, Fields, Good, Typed
  <2>6. Same(e, f, Readable)
    BY <2>1, SameWider DEF Readable
  <2> QED BY <1>2, <2>2, <2>3, <2>4, <2>5, <2>6, GoodRead
<1> HIDE DEF f
<1> QED BY <1>1, <1>2, <1>3, GoodAlert

\* do_read_client_certificate.
LEMMA S13ReadClientCertificate ==
    ASSUME NEW e, NEW g, Turn(e, g, "server", "tls13"), e.tls13_state = "read_client_certificate"
    PROVE  Steps(e, S13!do_read_client_certificate(e), g)
<1> DEFINE h == To13(e, "read_client_finished")
           f == To13(Take([e EXCEPT !.peer = Message(e).cert]), "read_client_certificate_verify")
           then == IF Message(e).cert = "none" THEN Alert(e, "certificate_required") ELSE f
<1>1. S13!do_read_client_certificate(e) = IF ~e.cert_request THEN h ELSE Expect(e, "certificate", then)
  BY Zenon DEF S13!do_read_client_certificate, To13, Take, NextMessage, Units, Message,
       HashMessage, Alert, FlushFlight, FlushPendingHsData, Records, Record, Error, HasMessage,
       Expect, Wait, S13!To13, S13!Take, S13!NextMessage, S13!Units, S13!Message,
       S13!HashMessage, S13!Alert, S13!FlushFlight, S13!FlushPendingHsData, S13!Records,
       S13!Record, S13!Error, S13!HasMessage, S13!Expect, S13!Wait
<1>2. /\ Good(e, g) /\ DOMAIN e = Fields /\ Wire(e, g) /\ g.side = "client"
      /\ e.side = "server" /\ Peer(e.side) = "client" /\ e.wait = "ok"
      /\ e.state = "tls13" /\ ServerTrust(e, g)
      /\ ~Unsigned(e) /\ ~Writing(e) /\ ~HelloHeld(e) /\ ~Emptied(e) /\ MayRead(e)
  BY TurnFacts DEF MayRead, Emptied, HelloHeld, Writing, Unsigned, At, Good, Trust, Peer
<1>3. ASSUME ~e.cert_request PROVE Steps(e, h, g)
  <2>1. Same(e, h, {"tls13_state"})
    BY <1>2, Zenon DEF Same, To13
  <2>2. h.tls13_state = "read_client_finished"
    BY <1>2, <1>3, SMT DEF To13, Message, Fields
  <2> HIDE DEF h
  <2>3. SoundUnits(h.hs_buf, g) /\ h.hs_buf = e.hs_buf
    BY <1>2, <2>1 DEF Same, Fields, Wire, Carries
  <2>4. /\ ServerTrust(h, g) /\ (Unsigned(h) => Unsigned(e))
        /\ ~Emptied(h) /\ ~HelloHeld(h)
    BY <1>2, <1>3, <2>1, <2>2, <2>3, SMT DEF Same, Fields, ServerTrust, Checked12, Checked13,
         Accepted, Verifying, At, Unsigned, Emptied, HelloHeld
  <2>5. /\ h.version \in {0, 12, 13} /\ h.session_reused \in BOOLEAN
        /\ h.used_hello_retry_request \in BOOLEAN /\ h.cert_request \in BOOLEAN
        /\ h.ticket_expected \in BOOLEAN /\ h.key_share \in 0..2
        /\ h.peer \in {"none", "client"} /\ h.state # "done"
        /\ h.wait = "ok"
    BY <1>2, <2>1, <2>2, <2>3, SMT DEF Same, Fields, Good, Typed
  <2>6. Same(e, h, Readable)
    BY <2>1, SameWider DEF Readable
  <2> QED BY <1>2, <2>2, <2>3, <2>4, <2>5, <2>6, GoodRead
<1>4. ASSUME HasMessage(e), Message(e).type = "certificate", Message(e).cert # "none" PROVE Steps(e, f, g)
  <2>1. Same(e, f, {"peer", "transcript", "hs_buf", "tls13_state"})
    BY <1>2, Zenon DEF Same, To13, Take, NextMessage, HashMessage
  <2>2. /\ f.peer = Message(e).cert /\ f.tls13_state = "read_client_certificate_verify"
        /\ f.hs_buf = NextMessage(e).hs_buf
    BY <1>2, <1>4, SMT DEF To13, Take, NextMessage, HashMessage, Message, Fields
  <2> HIDE DEF f
  <2>3. Sound(Message(e), g) /\ SoundUnits(f.hs_buf, g) /\ (~Excess(e) => f.hs_buf = <<>>)
    BY <1>2, <1>4, <2>2, OnMessage DEF Wire, Carries
  <2>4. /\ ServerTrust(f, g) /\ (Unsigned(f) => Unsigned(e))
        /\ ~Emptied(f) /\ ~HelloHeld(f)
    BY <1>2, <1>4, <2>1, <2>2, <2>3, SMT DEF Same, Fields, ServerTrust, Checked12, Checked13,
         Accepted, Verifying, At, Unsigned, Emptied, HelloHeld, Sound
  <2>5. /\ f.version \in {0, 12, 13} /\ f.session_reused \in BOOLEAN
        /\ f.used_hello_retry_request \in BOOLEAN /\ f.cert_request \in BOOLEAN
        /\ f.ticket_expected \in BOOLEAN /\ f.key_share \in 0..2
        /\ f.peer \in {"none", "client"} /\ f.state # "done"
        /\ f.wait = "ok"
    BY <1>2, <1>4, <2>1, <2>2, <2>3, SMT DEF Same, Fields, Good, Typed, Sound
  <2>6. Same(e, f, Readable)
    BY <2>1, SameWider DEF Readable
  <2> QED BY <1>2, <2>2, <2>3, <2>4, <2>5, <2>6, GoodRead
<1> HIDE DEF f, h
<1>5. ASSUME HasMessage(e), Message(e).type = "certificate" PROVE Steps(e, then, g)
  BY <1>2, <1>4, <1>5, GoodAlert
<1> HIDE DEF then
<1> QED BY <1>1, <1>2, <1>3, <1>5, GoodExpect

\* do_read_client_certificate_verify.
LEMMA S13ReadClientCertificateVerify ==
    ASSUME NEW e, NEW g, Turn(e, g, "server", "tls13"), e.tls13_state = "read_client_certificate_verify"
    PROVE  Steps(e, S13!do_read_client_certificate_verify(e), g)
<1> DEFINE h == To13(e, "read_client_finished")
           f == To13(Take(e), "read_client_finished")
           then == IF ~SignedBy(Message(e), e, e.transcript) THEN Alert(e, "decrypt_error") ELSE f
<1>1. S13!do_read_client_certificate_verify(e) = IF e.peer = "none" THEN h
        ELSE IF ~HasMessage(e) THEN Wait(e, "read_message")
        ELSE AfterVerify(e, Expect(e, "certificate_verify", then))
  BY Zenon DEF S13!do_read_client_certificate_verify, To13, Take, NextMessage, Units, Message,
       HashMessage, SignedBy, Alert, FlushFlight, FlushPendingHsData, Records, Record, Error,
       HasMessage, Wait, AfterVerify, Expect, S13!To13, S13!Take, S13!NextMessage, S13!Units,
       S13!Message, S13!HashMessage, S13!SignedBy, S13!Alert, S13!FlushFlight,
       S13!FlushPendingHsData, S13!Records, S13!Record, S13!Error, S13!HasMessage, S13!Wait,
       S13!AfterVerify, S13!Expect
<1>2. /\ Good(e, g) /\ DOMAIN e = Fields /\ Wire(e, g) /\ g.side = "client"
      /\ e.side = "server" /\ Peer(e.side) = "client" /\ e.wait = "ok"
      /\ e.state = "tls13" /\ ServerTrust(e, g)
      /\ ~Unsigned(e) /\ ~Writing(e) /\ ~HelloHeld(e) /\ ~Emptied(e) /\ MayRead(e)
  BY TurnFacts DEF MayRead, Emptied, HelloHeld, Writing, Unsigned, At, Good, Trust, Peer
<1>3. ASSUME e.peer = "none" PROVE Steps(e, h, g)
  <2>1. Same(e, h, {"tls13_state"})
    BY <1>2, Zenon DEF Same, To13
  <2>2. h.tls13_state = "read_client_finished"
    BY <1>2, <1>3, SMT DEF To13, Message, Fields
  <2> HIDE DEF h
  <2>3. SoundUnits(h.hs_buf, g) /\ h.hs_buf = e.hs_buf
    BY <1>2, <2>1 DEF Same, Fields, Wire, Carries
  <2>4. /\ ServerTrust(h, g) /\ (Unsigned(h) => Unsigned(e))
        /\ ~Emptied(h) /\ ~HelloHeld(h)
    BY <1>2, <1>3, <2>1, <2>2, <2>3, SMT DEF Same, Fields, ServerTrust, Checked12, Checked13,
         Accepted, Verifying, At, Unsigned, Emptied, HelloHeld
  <2>5. /\ h.version \in {0, 12, 13} /\ h.session_reused \in BOOLEAN
        /\ h.used_hello_retry_request \in BOOLEAN /\ h.cert_request \in BOOLEAN
        /\ h.ticket_expected \in BOOLEAN /\ h.key_share \in 0..2
        /\ h.peer \in {"none", "client"} /\ h.state # "done"
        /\ h.wait = "ok"
    BY <1>2, <1>3, <2>1, <2>2, <2>3, SMT DEF Same, Fields, Good, Typed
  <2>6. Same(e, h, Readable)
    BY <2>1, SameWider DEF Readable
  <2> QED BY <1>2, <2>2, <2>3, <2>4, <2>5, <2>6, GoodRead
<1>4. ASSUME Judged(e), HasMessage(e), Message(e).type = "certificate_verify" PROVE Steps(e, f, g)
  <2>1. Same(e, f, {"transcript", "hs_buf", "tls13_state"})
    BY <1>2, Zenon DEF Same, To13, Take, NextMessage, HashMessage
  <2>2. /\ f.tls13_state = "read_client_finished"
        /\ f.hs_buf = NextMessage(e).hs_buf
    BY <1>2, <1>4, SMT DEF To13, Take, NextMessage, HashMessage, Message, Fields
  <2> HIDE DEF f
  <2>3. Sound(Message(e), g) /\ SoundUnits(f.hs_buf, g) /\ (~Excess(e) => f.hs_buf = <<>>)
    BY <1>2, <1>4, <2>2, OnMessage DEF Wire, Carries
  <2>4. /\ ServerTrust(f, g) /\ (Unsigned(f) => Unsigned(e))
        /\ ~Emptied(f) /\ ~HelloHeld(f)
    BY <1>2, <1>4, <2>1, <2>2, <2>3, SMT DEF Same, Fields, ServerTrust, Checked12, Checked13,
         Accepted, Verifying, At, Unsigned, Emptied, HelloHeld, Sound, Judged
  <2>5. /\ f.version \in {0, 12, 13} /\ f.session_reused \in BOOLEAN
        /\ f.used_hello_retry_request \in BOOLEAN /\ f.cert_request \in BOOLEAN
        /\ f.ticket_expected \in BOOLEAN /\ f.key_share \in 0..2
        /\ f.peer \in {"none", "client"} /\ f.state # "done"
        /\ f.wait = "ok"
    BY <1>2, <1>4, <2>1, <2>2, <2>3, SMT DEF Same, Fields, Good, Typed, Sound
  <2>6. Same(e, f, Readable)
    BY <2>1, SameWider DEF Readable
  <2> QED BY <1>2, <2>2, <2>3, <2>4, <2>5, <2>6, GoodRead
<1> HIDE DEF f, h
<1>5. ASSUME Judged(e), HasMessage(e), Message(e).type = "certificate_verify" PROVE Steps(e, then, g)
  BY <1>2, <1>4, <1>5, GoodAlert
<1> HIDE DEF then
<1>6. ASSUME Judged(e) PROVE Steps(e, Expect(e, "certificate_verify", then), g)
  BY <1>2, <1>5, <1>6, GoodExpect
<1>7. Steps(e, Wait(e, "read_message"), g)
  BY <1>2, GoodWait DEF Reading
<1> QED BY <1>1, <1>2, <1>3, <1>6, <1>7, GoodAfterVerify

\* do_read_client_finished.
LEMMA S13ReadClientFinished ==
    ASSUME NEW e, NEW g, Turn(e, g, "server", "tls13"), e.tls13_state = "read_client_finished"
    PROVE  Steps(e, S13!do_read_client_finished(e), g)
<1> DEFINE f == To13(Take([e EXCEPT !.read_key = Key("application", "client", e.app)]), "send_new_session_ticket")
           then == IF Message(e) # Finished("client", e) THEN Alert(e, "decrypt_error")
                   ELSE IF Excess(e) THEN Alert(e, "unexpected_message") ELSE f
<1>1. S13!do_read_client_finished(e) = Expect(e, "finished", then)
  BY Zenon DEF S13!do_read_client_finished, To13, Take, NextMessage, Units, Message,
       HashMessage, Key, Finished, Alert, FlushFlight, FlushPendingHsData, Records, Record,
       Error, HasMessage, Excess, Expect, Wait, SetReadKey, S13!To13, S13!Take, S13!NextMessage,
       S13!Units, S13!Message, S13!HashMessage, S13!Key, S13!Finished, S13!Alert,
       S13!FlushFlight, S13!FlushPendingHsData, S13!Records, S13!Record, S13!Error,
       S13!HasMessage, S13!Excess, S13!Expect, S13!Wait, S13!SetReadKey
<1>2. /\ Good(e, g) /\ DOMAIN e = Fields /\ Wire(e, g) /\ g.side = "client"
      /\ e.side = "server" /\ Peer(e.side) = "client" /\ e.wait = "ok"
      /\ e.state = "tls13" /\ ServerTrust(e, g)
      /\ ~Unsigned(e) /\ ~Writing(e) /\ ~HelloHeld(e) /\ ~Emptied(e) /\ MayRead(e)
  BY TurnFacts DEF MayRead, Emptied, HelloHeld, Writing, Unsigned, At, Good, Trust, Peer
<1>3. ASSUME HasMessage(e), ~Excess(e) PROVE Steps(e, f, g)
  <2>1. Same(e, f, {"read_key", "transcript", "hs_buf", "tls13_state"})
    BY <1>2, Zenon DEF Same, To13, Take, NextMessage, HashMessage, Key
  <2>2. /\ f.tls13_state = "send_new_session_ticket"
        /\ f.hs_buf = NextMessage(e).hs_buf
    BY <1>2, <1>3, SMT DEF To13, Take, NextMessage, HashMessage, Key, Message, Fields
  <2> HIDE DEF f
  <2>3. Sound(Message(e), g) /\ SoundUnits(f.hs_buf, g) /\ (~Excess(e) => f.hs_buf = <<>>)
    BY <1>2, <1>3, <2>2, OnMessage DEF Wire, Carries
  <2>4. /\ ServerTrust(f, g) /\ (Unsigned(f) => Unsigned(e))
        /\ (Emptied(f) => f.hs_buf = <<>>) /\ ~HelloHeld(f)
    BY <1>2, <1>3, <2>1, <2>2, <2>3, SMT DEF Same, Fields, ServerTrust, Checked12, Checked13,
         Accepted, Verifying, At, Unsigned, Emptied, HelloHeld, Sound
  <2>5. /\ f.version \in {0, 12, 13} /\ f.session_reused \in BOOLEAN
        /\ f.used_hello_retry_request \in BOOLEAN /\ f.cert_request \in BOOLEAN
        /\ f.ticket_expected \in BOOLEAN /\ f.key_share \in 0..2
        /\ f.peer \in {"none", "client"} /\ f.state # "done"
        /\ f.wait = "ok"
    BY <1>2, <1>3, <2>1, <2>2, <2>3, SMT DEF Same, Fields, Good, Typed, Sound
  <2>6. Same(e, f, Readable)
    BY <2>1, SameWider DEF Readable
  <2> QED BY <1>2, <1>3, <2>2, <2>3, <2>4, <2>5, <2>6, GoodRead
<1> HIDE DEF f
<1>4. ASSUME HasMessage(e) PROVE Steps(e, then, g)
  BY <1>2, <1>3, <1>4, GoodAlert
<1> QED BY <1>1, <1>2, <1>4, GoodExpect

\* do_send_new_session_ticket.
LEMMA S13SendNewSessionTicket ==
    ASSUME NEW e, NEW g, Turn(e, g, "server", "tls13"), e.tls13_state = "send_new_session_ticket"
    PROVE  Steps(e, S13!do_send_new_session_ticket(e), g)
<1> DEFINE m == [type |-> "new_session_ticket"]
           d == IF e.cfg.tickets THEN AddMessage(e, m) ELSE e
           f == To13(d, "done")
<1>1. S13!do_send_new_session_ticket(e) = f
  <2> DEFINE dd == IF e.cfg.tickets THEN S13!AddMessage(e, m) ELSE e
             ff == S13!To13(dd, "done")
  <2>1. S13!do_send_new_session_ticket(e) = ff
    BY Zenon DEF S13!do_send_new_session_ticket
  <2>2. dd = d
    BY S13Layer
  <2> HIDE DEF dd, d
  <2>3. ff = f
    BY <2>2, S13Layer
  <2> HIDE DEF ff, f
  <2> QED BY <2>1, <2>3, <2>2, S13Layer
<1>2. /\ Good(e, g) /\ DOMAIN e = Fields /\ Wire(e, g) /\ g.side = "client"
      /\ e.side = "server" /\ Peer(e.side) = "client" /\ e.wait = "ok"
      /\ e.state = "tls13" /\ ServerTrust(e, g)
      /\ ~Unsigned(e) /\ ~Writing(e) /\ ~HelloHeld(e)
  BY TurnFacts DEF MayRead, Emptied, HelloHeld, Writing, Unsigned, At, Good, Trust, Peer
<1>3. Steps(e, f, g)
  <2>1. Draft(e, d, g)
    <3>1. Sound(m, e)
      BY DEF Sound
    <3>2. Draft(e, d, g)
      BY <1>2, <3>1, DraftStart, DraftAddMessage
    <3> QED BY <3>2
  <2> HIDE DEF d
  <2>2. Same(d, f, {"tls13_state"}) /\ f.tls13_state = "done"
    BY <2>1, DraftWire, SameTo13
  <2> HIDE DEF f
  <2>3. Same(d, f, Ending)
    BY <2>2, SameWider DEF Ending
  <2>4. /\ ServerTrust(f, g) /\ (Unsigned(f) => Unsigned(e))
        /\ (Emptied(f) => e.hs_buf = <<>>) /\ ~HelloHeld(f) /\ Writing(f)
        /\ f.wait = "ok" /\ f.state = e.state /\ f.cert_request = e.cert_request
        /\ f.used_hello_retry_request = e.used_hello_retry_request
    BY <1>2, <2>1, <2>2, <2>3, OnWrite DEF Draft, Written, Same, Fields, ServerTrust, Checked12,
         Checked13, Accepted, Verifying, At, Unsigned, Emptied, HelloHeld, Writing, Good,
         Buffers
  <2>5. /\ f.used_hello_retry_request \in BOOLEAN /\ f.cert_request \in BOOLEAN
        /\ f.state # "done" /\ f.wait \in {"ok", "flush"}
    BY <1>2, <2>2, <2>4 DEF Good, Typed, Same, Fields
  <2> QED BY <1>2, <2>1, <2>2, <2>3, <2>4, <2>5, GoodSend
<1> HIDE DEF f
<1> QED BY <1>1, <1>3

\* The machine of TLS 1.3 returns to the one of TLS 1.2.
LEMMA S13Done ==
    ASSUME NEW e, NEW g, Turn(e, g, "server", "tls13"), e.tls13_state = "done"
    PROVE  Steps(e, To(e, "finish_server_handshake"), g)
<1> DEFINE f == To(e, "finish_server_handshake")
<1>1. /\ Good(e, g) /\ DOMAIN e = Fields /\ Wire(e, g) /\ g.side = "client"
      /\ e.side = "server" /\ Peer(e.side) = "client" /\ e.wait = "ok"
      /\ e.state = "tls13" /\ ServerTrust(e, g)
      /\ ~Unsigned(e) /\ Writing(e) /\ ~HelloHeld(e)
  BY TurnFacts DEF MayRead, Emptied, HelloHeld, Writing, Unsigned, At, Good, Trust, Peer
<1>2. Steps(e, f, g)
  <2>1. Draft(e, e, g)
    <3>1. Draft(e, e, g)
      BY <1>1, DraftStart
    <3> QED BY <3>1
  <2>2. Same(e, f, {"state"}) /\ f.state = "finish_server_handshake"
    BY <1>1, <2>1, DraftWire, Zenon DEF Same, Fields, To, To13, Wait
  <2> HIDE DEF f
  <2>3. Same(e, f, Ending)
    BY <2>2, SameWider DEF Ending
  <2>4. /\ ServerTrust(f, g) /\ (Unsigned(f) => Unsigned(e))
        /\ (Emptied(f) => e.hs_buf = <<>>) /\ ~HelloHeld(f) /\ Writing(f)
        /\ f.wait = "ok" /\ f.cert_request = e.cert_request
        /\ f.used_hello_retry_request = e.used_hello_retry_request
    BY <1>1, <2>1, <2>2, <2>3, OnWrite DEF Draft, Written, Same, Fields, ServerTrust, Checked12,
         Checked13, Accepted, Verifying, At, Unsigned, Emptied, HelloHeld, Writing, Good,
         Buffers
  <2>5. /\ f.used_hello_retry_request \in BOOLEAN /\ f.cert_request \in BOOLEAN
        /\ f.state # "done" /\ f.wait \in {"ok", "flush"}
    BY <1>1, <2>2, <2>4 DEF Good, Typed, Same, Fields
  <2> QED BY <1>1, <2>1, <2>2, <2>3, <2>4, <2>5, GoodSend
<1> QED BY <1>2

-----------------------------------------------------------------------------
(***************************************************************************)
(* The wire, and the established connection.                               *)
(***************************************************************************)
\* The invariant speaks of the peer only in ways that last.
LEMMA PeerGrows ==
    ASSUME NEW e, NEW g, NEW h, Good(e, g), Grows(g, h)
    PROVE  Good(e, h)
<1>1. Wire(e, h)
  BY UnitsGrow, RecordsGrow DEF Good, Wire, Carries
<1>2. Signed(g) => Signed(h)
  BY DEF Grows
<1>3. (ClientTrust(e, g) => ClientTrust(e, h)) /\ (ServerTrust(e, g) => ServerTrust(e, h))
  BY <1>2, Zenon DEF ClientTrust, ServerTrust
<1> QED BY <1>1, <1>3, Zenon DEF Good, Trust

\* The fields in which the established connection changes, but for a renegotiation.
Data12 == {"running", "inbound", "hs_buf", "pending_hs_data", "pending_flight", "outbound",
           "read_key", "write_key", "transcript", "key_update_pending", "key_update_count",
           "sent", "received"}

\* What an established connection may do to its buffers, but for a renegotiation.
LEMMA GoodData ==
    ASSUME NEW e, NEW f, NEW g, Good(e, g), e.state = "done", Same(e, f, Data12),
           f.running \in BOOLEAN, Carries(f, e, g)
    PROVE  Steps(e, f, g) /\ f.state = "done" /\ f.side = e.side
<1>1. /\ f.side = e.side /\ f.cfg = e.cfg /\ f.state = e.state /\ f.tls13_state = e.tls13_state
      /\ f.session_reused = e.session_reused /\ f.cert_request = e.cert_request
      /\ f.peer = e.peer /\ f.verify = e.verify /\ f.established = e.established
      /\ f.pending_private_key_op = e.pending_private_key_op /\ f.key_result = e.key_result
      /\ f.total_renegotiations = e.total_renegotiations /\ f.callbacks = e.callbacks
      /\ f.signatures = e.signatures /\ DOMAIN f = Fields
      /\ f.version = e.version /\ f.wait = e.wait
      /\ f.used_hello_retry_request = e.used_hello_retry_request
      /\ f.ticket_expected = e.ticket_expected /\ f.key_share = e.key_share
  BY SMT DEF Same, Fields, Data12
<1>2. Typed(f)
  BY <1>1, Zenon DEF Good, Typed
<1>3. /\ Unsigned(f) = Unsigned(e) /\ Emptied(f) = Emptied(e) /\ HelloHeld(f) = HelloHeld(e)
      /\ Writing(f) = Writing(e)
  BY <1>1, SamePlace
<1>4. Asking(f)
  BY <1>1, <1>3, Zenon DEF Good, Asking
<1>5. Trust(f, g)
  BY <1>1, SameTrust DEF Good
<1>6. Writing(e) /\ ~Emptied(e) /\ ~HelloHeld(e)
  BY DEF Writing, Emptied, HelloHeld, At
<1>7. Buffers(f)
  BY <1>1, <1>3, <1>6, Zenon DEF Good, Buffers
<1>8. Grows(e, f)
  BY <1>1 DEF Grows, Signed
<1>9. Wire(f, g)
  BY <1>8, CarriesGrow DEF Wire
<1> QED BY <1>1, <1>2, <1>4, <1>5, <1>7, <1>8, <1>9, Zenon DEF Steps, Good

\* A record of the peer is taken out of the queue.
LEMMA OnTail ==
    ASSUME NEW e, NEW g, DOMAIN e = Fields, Wire(e, g), e.inbound # <<>>
    PROVE  LET f == [e EXCEPT !.inbound = Tail(@)]
           IN  /\ Same(e, f, {"inbound"}) /\ Carries(f, e, g)
               /\ SoundUnits(Head(e.inbound).units, g) /\ f.hs_buf = e.hs_buf
<1> DEFINE f == [e EXCEPT !.inbound = Tail(@)]
<1>1. Same(e, f, {"inbound"}) /\ f.inbound = Tail(e.inbound)
  BY Zenon DEF Same, Fields
<1> HIDE DEF f
<1>2. /\ f.pending_hs_data = e.pending_hs_data /\ f.pending_flight = e.pending_flight
      /\ f.outbound = e.outbound /\ f.hs_buf = e.hs_buf
  BY <1>1 DEF Same, Fields
<1>3. SoundRecords(Tail(e.inbound), g) /\ SoundUnits(Head(e.inbound).units, g)
  BY RecordsTail DEF Wire, Carries
<1>4. Carries(f, e, g)
  BY <1>1, <1>2, <1>3, Zenon DEF Wire, Carries
<1> QED BY <1>1, <1>2, <1>3, <1>4 DEF f

\* The next record is taken off the channel.
LEMMA GoodTail ==
    ASSUME NEW e, NEW g, Good(e, g), e.inbound # <<>>
    PROVE  LET f == [e EXCEPT !.inbound = Tail(@)]
           IN  /\ Steps(e, f, g) /\ f.side = e.side /\ f.state = e.state /\ f.wait = e.wait
               /\ f.hs_buf = e.hs_buf /\ SoundUnits(Head(e.inbound).units, g)
<1> DEFINE f == [e EXCEPT !.inbound = Tail(@)]
           X == {"inbound"}
<1>1. /\ Same(e, f, X) /\ Carries(f, e, g) /\ SoundUnits(Head(e.inbound).units, g)
      /\ f.hs_buf = e.hs_buf
  BY OnTail DEF Good, Typed
<1> HIDE DEF f
<1>2. /\ f.side = e.side /\ f.state = e.state /\ f.wait = e.wait /\ f.running = e.running
      /\ f.version = e.version /\ f.used_hello_retry_request = e.used_hello_retry_request
      /\ f.ticket_expected = e.ticket_expected /\ f.key_share = e.key_share
      /\ f.pending_hs_data = e.pending_hs_data /\ f.pending_flight = e.pending_flight
  BY <1>1, SMT DEF Same, Fields
<1>3. X \cap Decisive = {}
  BY DEF Decisive
<1>4. Same(e, f, X)
  BY <1>1
<1> HIDE DEF X
<1>5. Typed(f)
  BY <1>2, <1>3, <1>4, TypedKept, Zenon DEF Good, Typed
<1>6. /\ Asking(f) /\ Trust(f, g) /\ Grows(e, f)
      /\ Emptied(f) = Emptied(e) /\ HelloHeld(f) = HelloHeld(e) /\ Writing(f) = Writing(e)
  BY <1>3, <1>4, DecisiveKept, Zenon DEF Good
<1>7. Buffers(f)
  BY <1>1, <1>2, <1>6, Zenon DEF Good, Buffers, Quiet
<1>8. Wire(f, g)
  BY <1>1, <1>6, CarriesGrow DEF Wire
<1>9. Steps(e, f, g)
  BY <1>5, <1>6, <1>7, <1>8, Zenon DEF Steps, Good
<1> QED BY <1>1, <1>2, <1>9 DEF f

\* tls_open_handshake and tls_open_change_cipher_spec.
LEMMA GoodOpenRecord ==
    ASSUME NEW e, NEW g, Good(e, g), e.wait \in Reading, e.inbound # <<>>
    PROVE  Steps(e, OpenRecord(e), g)
<1> DEFINE f == [e EXCEPT !.inbound = Tail(@)]
           r == Head(e.inbound)
           a == [f EXCEPT !.hs_buf = @ \o r.units]
           h == Wait(a, "ok")
<1>1. /\ Steps(e, f, g) /\ f.side = e.side /\ f.state = e.state /\ f.wait = e.wait
      /\ f.hs_buf = e.hs_buf /\ SoundUnits(r.units, g)
  BY GoodTail
<1> HIDE DEF f, r
<1>2. /\ Good(f, g) /\ DOMAIN f = Fields /\ ~Emptied(f) /\ ~HelloHeld(f) /\ ~Writing(f)
      /\ f.wait \in Reading
  BY <1>1, Zenon DEF Steps, Good, Typed, Buffers
<1>3. Quiet(f)
  BY <1>2 DEF Good, Buffers, Reading
<1>4. Steps(f, h, g)
  <2>1. Same(f, h, {"hs_buf", "wait"}) /\ h.hs_buf = f.hs_buf \o r.units /\ h.wait = "ok"
    BY <1>2, Zenon DEF Same, Fields, Wait
  <2> HIDE DEF h
  <2>2. /\ h.side = f.side /\ h.cfg = f.cfg /\ h.state = f.state /\ h.tls13_state = f.tls13_state
        /\ h.session_reused = f.session_reused /\ h.cert_request = f.cert_request
        /\ h.peer = f.peer /\ h.verify = f.verify /\ h.established = f.established
        /\ h.pending_private_key_op = f.pending_private_key_op /\ h.key_result = f.key_result
        /\ h.total_renegotiations = f.total_renegotiations /\ h.callbacks = f.callbacks
        /\ h.signatures = f.signatures /\ DOMAIN h = Fields
        /\ h.version = f.version /\ h.running = f.running
        /\ h.used_hello_retry_request = f.used_hello_retry_request
        /\ h.ticket_expected = f.ticket_expected /\ h.key_share = f.key_share
        /\ h.pending_hs_data = f.pending_hs_data /\ h.pending_flight = f.pending_flight
        /\ h.outbound = f.outbound /\ h.inbound = f.inbound
    BY <2>1, SMT DEF Same, Fields
  <2>3. Typed(h)
    BY <1>2, <2>1, <2>2, Zenon DEF Good, Typed, Waits
  <2>4. /\ Unsigned(h) = Unsigned(f) /\ Emptied(h) = Emptied(f) /\ HelloHeld(h) = HelloHeld(f)
        /\ Writing(h) = Writing(f)
    BY <2>2, SamePlace
  <2>5. Asking(h)
    BY <1>2, <2>2, <2>4, Zenon DEF Good, Asking
  <2>6. Trust(h, g)
    BY <1>2, <2>2, SameTrust DEF Good
  <2>7. h.wait \notin Reading
    BY <2>1 DEF Reading
  <2>8. Buffers(h)
    BY <1>2, <1>3, <2>2, <2>4, <2>7, Zenon DEF Buffers, Quiet
  <2>9. Grows(f, h)
    BY <2>2 DEF Grows, Signed
  <2>10. SoundUnits(h.hs_buf, g)
    BY <1>1, <1>2, <2>1, UnitsConcat DEF Good, Wire, Carries
  <2>11. Carries(h, f, g)
    BY <1>2, <2>2, <2>10, Zenon DEF Good, Wire, Carries
  <2>12. Wire(h, g)
    BY <2>9, <2>11, CarriesGrow DEF Wire
  <2> QED BY <2>3, <2>5, <2>6, <2>8, <2>9, <2>12, Zenon DEF Steps, Good
<1> HIDE DEF a, h
<1>5. ASSUME NEW why PROVE Steps(e, Alert(f, why), g) /\ Steps(e, Error(f, why), g) /\ Steps(e, Alert(e, why), g)
  BY <1>1, <1>2, GoodAlert, GoodError, StepsTrans
<1>6. Steps(e, h, g)
  BY <1>1, <1>4, StepsTrans
<1>7. OpenRecord(e) \in {f, h, Error(f, "peer_alert"), Alert(e, "internal_error"),
                          Alert(f, "bad_record_mac"), Alert(f, "unexpected_message")}
  BY Zenon DEF OpenRecord, f, r, a, h
<1> QED BY <1>1, <1>5, <1>6, <1>7

\* The instance of the layer that the established connection uses is the layer itself.
LEMMA DataLayer ==
    /\ \A e, m : Data!AddMessage(e, m) = AddMessage(e, m)
    /\ \A e, key : Data!SetWriteKey(e, key) = SetWriteKey(e, key)
    /\ \A e : Data!FlushFlight(e) = FlushFlight(e)
    /\ \A type, key, units : Data!Record(type, key, units) = Record(type, key, units)
    /\ \A e, why : Data!Alert(e, why) = Alert(e, why)
    /\ \A e, why : Data!Error(e, why) = Error(e, why)
    /\ \A e : Data!HasMessage(e) = HasMessage(e)
    /\ \A e : Data!Message(e) = Message(e)
    /\ \A e : Data!NextMessage(e) = NextMessage(e)
    /\ \A e : Data!Excess(e) = Excess(e)
    /\ \A side, cfg : Data!NewEndpoint(side, cfg) = NewEndpoint(side, cfg)
<1>1. \A e, m : Data!AddMessage(e, m) = AddMessage(e, m)
  <2> SUFFICES ASSUME NEW e, NEW m PROVE Data!AddMessage(e, m) = AddMessage(e, m)
    OBVIOUS
  <2>1. ASSUME NEW k, NEW us PROVE Data!Records(k, us) = Records(k, us)
    BY Zenon DEF Records, Record, Data!Records, Data!Record
  <2>2. Data!Units(m) = Units(m) /\ Data!NullKey = NullKey
    BY Zenon DEF Units, Data!Units, NullKey, Data!NullKey
  <2> DEFINE us == e.pending_hs_data \o Units(m)
             k  == ((Len(us) - 1) \div MaxFragment) * MaxFragment
             vs == e.pending_hs_data \o Data!Units(m)
             l  == ((Len(vs) - 1) \div MaxFragment) * MaxFragment
             a  == [e EXCEPT !.pending_flight = @ \o Records(e.write_key, SubSeq(us, 1, k)),
                             !.pending_hs_data = SubSeq(us, k + 1, Len(us)),
                             !.transcript = Append(@, m)]
             b  == [e EXCEPT !.pending_flight = @ \o Data!Records(e.write_key, SubSeq(vs, 1, l)),
                             !.pending_hs_data = SubSeq(vs, l + 1, Len(vs)),
                             !.transcript = Append(@, m)]
             c  == [e EXCEPT !.pending_flight = @ \o Records(NullKey, Units(m)),
                             !.transcript = Append(@, m)]
             d  == [e EXCEPT !.pending_flight = @ \o Data!Records(Data!NullKey, Data!Units(m)),
                             !.transcript = Append(@, m)]
  <2>3. AddMessage(e, m) = IF e.write_key = NullKey THEN c ELSE a
    BY Zenon DEF AddMessage
  <2>4. Data!AddMessage(e, m) = IF e.write_key = Data!NullKey THEN d ELSE b
    BY Zenon DEF Data!AddMessage
  <2>5. us = vs
    BY <2>2, Zenon
  <2> HIDE DEF us, vs
  <2>6. k = l
    BY <2>5, Zenon
  <2> HIDE DEF k, l
  <2>7. Data!Records(Data!NullKey, Data!Units(m)) = Records(NullKey, Units(m))
    BY <2>1, <2>2
  <2>8. Data!Records(e.write_key, SubSeq(vs, 1, l)) = Records(e.write_key, SubSeq(us, 1, k))
    BY <2>1, <2>5, <2>6
  <2>9. a = b
    BY <2>5, <2>6, <2>8, Zenon
  <2>10. c = d
    BY <2>7, Zenon
  <2> HIDE DEF a, b, c, d
  <2> QED BY <2>2, <2>3, <2>4, <2>9, <2>10, Zenon
<1>2. \A e, key : Data!SetWriteKey(e, key) = SetWriteKey(e, key)
  BY Zenon DEF SetWriteKey, FlushPendingHsData, Records, Record, Data!SetWriteKey,
       Data!FlushPendingHsData, Data!Records, Data!Record
<1>3. \A e : Data!FlushFlight(e) = FlushFlight(e)
  BY Zenon DEF FlushFlight, FlushPendingHsData, Records, Record, Data!FlushFlight,
       Data!FlushPendingHsData, Data!Records, Data!Record
<1>4. \A type, key, units : Data!Record(type, key, units) = Record(type, key, units)
  BY Zenon DEF Record, Data!Record
<1>5. \A e, why : Data!Alert(e, why) = Alert(e, why)
  BY Zenon DEF Alert, FlushFlight, FlushPendingHsData, Records, Record, Error, HasMessage,
       Units, Message, Data!Alert, Data!FlushFlight, Data!FlushPendingHsData, Data!Records,
       Data!Record, Data!Error, Data!HasMessage, Data!Units, Data!Message
<1>6. \A e, why : Data!Error(e, why) = Error(e, why)
  BY Zenon DEF Error, Data!Error
<1>7. \A e : Data!HasMessage(e) = HasMessage(e)
  BY Zenon DEF HasMessage, Units, Data!HasMessage, Data!Units
<1>8. \A e : Data!Message(e) = Message(e)
  BY Zenon DEF Message, Data!Message
<1>9. \A e : Data!NextMessage(e) = NextMessage(e)
  BY Zenon DEF NextMessage, Units, Message, Data!NextMessage, Data!Units, Data!Message
<1>10. \A e : Data!Excess(e) = Excess(e)
  BY Zenon DEF Excess, Units, Message, Data!Excess, Data!Units, Data!Message
<1>11. \A side, cfg : Data!NewEndpoint(side, cfg) = NewEndpoint(side, cfg)
  BY Zenon DEF NewEndpoint, NullKey, Records, Record, Data!NewEndpoint, Data!NullKey,
       Data!Records, Data!Record
<1> QED BY <1>1, <1>2, <1>3, <1>4, <1>5, <1>6, <1>7, <1>8, <1>9, <1>10, <1>11

\* A message that has been read is taken.
LEMMA GoodNextMessage ==
    ASSUME NEW e, NEW g, Good(e, g), e.state = "done", HasMessage(e)
    PROVE  Steps(e, NextMessage(e), g)
<1> DEFINE f == NextMessage(e)
<1>1. Same(e, f, {"hs_buf"}) /\ Wire(f, g)
  BY OnMessage DEF Good, Typed
<1> HIDE DEF f
<1>2. Same(e, f, Data12)
  BY <1>1, SameWider DEF Data12
<1>3. f.running \in BOOLEAN
  BY <1>1, SMT DEF Same, Fields, Good, Typed
<1>4. Grows(f, e)
  BY <1>1, SameGrows
<1>5. Carries(f, e, g)
  BY <1>1, <1>4, CarriesGrow DEF Wire
<1> QED BY <1>2, <1>3, <1>5, GoodData DEF f

\* tls13_add_key_update.
LEMMA GoodAddKeyUpdate ==
    ASSUME NEW e, NEW g, NEW requested, Good(e, g), e.state = "done"
    PROVE  LET f == Data!tls13_add_key_update(e, requested)
           IN  Steps(e, f, g) /\ f.state = "done" /\ f.hs_buf = e.hs_buf
<1> DEFINE m == [type |-> "key_update", requested |-> requested]
           a == AddMessage(e, m)
           d == SetWriteKey(a, Data!Rotated(a.write_key))
           f == [d EXCEPT !.key_update_pending = TRUE, !.transcript = e.transcript]
<1>1. Data!tls13_add_key_update(e, requested) = f
  <2> DEFINE aa == Data!AddMessage(e, m)
             dd == Data!SetWriteKey(aa, Data!Rotated(aa.write_key))
  <2>1. Data!tls13_add_key_update(e, requested) = [dd EXCEPT !.key_update_pending = TRUE, !.transcript = e.transcript]
    BY Zenon DEF Data!tls13_add_key_update
  <2>2. aa = a
    BY DataLayer
  <2> HIDE DEF aa, a
  <2>3. dd = d
    BY <2>2, DataLayer
  <2> HIDE DEF dd, d
  <2> QED BY <2>1, <2>3
<1>2. Draft(e, d, g)
  <2>1. Sound(m, e)
    BY DEF Sound
  <2>2. Draft(e, a, g)
    BY <2>1, DraftStart, DraftAddMessage DEF Good, Typed
  <2> HIDE DEF a
  <2> QED BY <2>2, DraftSetWriteKey
<1> HIDE DEF d
<1>3. Same(d, f, {"key_update_pending", "transcript"}) /\ DOMAIN d = Fields
  BY <1>2, DraftWire, Zenon DEF Same
<1> HIDE DEF f
<1>4. Same(e, f, Data12) /\ f.running = e.running /\ f.hs_buf = e.hs_buf
  <2>1. Same(e, f, Written \cup {"key_update_pending", "transcript"})
    BY <1>2, <1>3, SameTrans DEF Draft
  <2>2. Same(e, f, Data12)
    BY <2>1, SameWider DEF Written, Data12
  <2> QED BY <2>1, <2>2, SMT DEF Same, Fields, Written
<1>5. Carries(f, e, g)
  <2>1. /\ f.pending_hs_data = d.pending_hs_data /\ f.pending_flight = d.pending_flight
        /\ f.outbound = d.outbound /\ f.inbound = d.inbound /\ f.hs_buf = d.hs_buf
    BY <1>3 DEF Same, Fields
  <2> QED BY <1>2, <2>1, Zenon DEF Carries, Draft
<1>6. f.running \in BOOLEAN
  BY <1>4 DEF Good, Typed
<1> QED BY <1>1, <1>4, <1>5, <1>6, GoodData

\* SSL_key_update.
LEMMA GoodKeyUpdate ==
    ASSUME NEW e, NEW g, NEW requested, Good(e, g), e.state = "done"
    PROVE  LET f == Data!SSL_key_update(e, requested)
           IN  Steps(e, f, g) /\ f.state = "done" /\ f.hs_buf = e.hs_buf
<1> DEFINE a == Data!tls13_add_key_update(e, requested)
<1>1. Steps(e, a, g) /\ a.state = "done" /\ a.hs_buf = e.hs_buf
  BY GoodAddKeyUpdate
<1>2. Steps(e, e, g)
  BY DEF Steps, Grows
<1> HIDE DEF a
<1>3. Data!SSL_key_update(e, requested) = IF e.key_update_pending THEN e ELSE a
  BY DEF Data!SSL_key_update, a
<1> QED BY <1>1, <1>2, <1>3

\* tls13_receive_key_update.
LEMMA GoodReceiveKeyUpdate ==
    ASSUME NEW e, NEW g, Good(e, g), e.state = "done", HasMessage(e)
    PROVE  Steps(e, Data!tls13_receive_key_update(e), g)
<1> DEFINE f == [e EXCEPT !.read_key = Data!Rotated(@), !.key_update_count = @ + 1]
           a == Data!SSL_key_update(f, FALSE)
           x == IF Message(e).requested THEN a ELSE f
<1>1. Same(e, f, {"read_key", "key_update_count"}) /\ f.hs_buf = e.hs_buf /\ f.state = e.state
  BY Zenon DEF Same, Fields, Good, Typed
<1>2. Data!tls13_receive_key_update(e) = IF Excess(e) THEN Alert(e, "unexpected_message") ELSE NextMessage(x)
  <2>1. Data!tls13_receive_key_update(e) =
          IF Data!Excess(e) THEN Data!Alert(e, "unexpected_message")
          ELSE Data!NextMessage(IF Data!Message(e).requested THEN a ELSE f)
    BY Zenon DEF Data!tls13_receive_key_update
  <2> HIDE DEF a, f
  <2> QED BY <2>1, DataLayer
<1> HIDE DEF f
<1>3. Steps(e, f, g) /\ f.state = "done" /\ f.hs_buf = e.hs_buf
  <2>1. Same(e, f, Incidental)
    BY <1>1, SameWider DEF Incidental
  <2>2. /\ f.running = e.running /\ f.version = e.version /\ f.key_share = e.key_share
        /\ f.used_hello_retry_request = e.used_hello_retry_request
        /\ f.ticket_expected = e.ticket_expected
    BY <1>1, SMT DEF Same, Fields
  <2> QED BY <1>1, <2>1, <2>2, GoodKept, Zenon DEF Good, Typed
<1>4. Steps(e, x, g) /\ x.state = "done" /\ x.hs_buf = e.hs_buf
  <2>1. Steps(f, a, g) /\ a.state = "done" /\ a.hs_buf = e.hs_buf
    BY <1>3, GoodKeyUpdate DEF Steps
  <2> HIDE DEF a
  <2> QED BY <1>3, <2>1, StepsTrans
<1> HIDE DEF x
<1>5. Steps(e, NextMessage(x), g)
  <2>1. HasMessage(x)
    BY <1>4 DEF HasMessage
  <2> QED BY <1>4, <2>1, GoodNextMessage, StepsTrans DEF Steps
<1> QED BY <1>2, <1>5, GoodAlert

\* tls13_post_handshake.
LEMMA GoodPostHandshake13 ==
    ASSUME NEW e, NEW g, Good(e, g), e.state = "done", HasMessage(e)
    PROVE  Steps(e, Data!tls13_post_handshake(e), g)
<1> DEFINE f == [e EXCEPT !.key_update_count = 0]
           r == Data!tls13_receive_key_update(e)
<1>1. Same(e, f, {"key_update_count"}) /\ f.hs_buf = e.hs_buf /\ f.state = e.state
  BY Zenon DEF Same, Fields, Good, Typed
<1>2. Data!tls13_post_handshake(e) \in {r, NextMessage(f), Alert(e, "unexpected_message")}
  <2>1. Data!tls13_post_handshake(e) \in {r, Data!NextMessage(f), Data!Alert(e, "unexpected_message")}
    BY Zenon DEF Data!tls13_post_handshake
  <2> HIDE DEF r, f
  <2> QED BY <2>1, DataLayer
<1> HIDE DEF f
<1>3. Steps(e, f, g) /\ f.state = "done" /\ HasMessage(f)
  <2>1. Same(e, f, Incidental)
    BY <1>1, SameWider DEF Incidental
  <2>2. /\ f.running = e.running /\ f.version = e.version /\ f.key_share = e.key_share
        /\ f.used_hello_retry_request = e.used_hello_retry_request
        /\ f.ticket_expected = e.ticket_expected
    BY <1>1, SMT DEF Same, Fields
  <2>3. Steps(e, f, g)
    BY <2>1, <2>2, GoodKept, Zenon DEF Good, Typed
  <2> QED BY <1>1, <2>3 DEF HasMessage
<1>4. Steps(e, NextMessage(f), g)
  BY <1>3, GoodNextMessage, StepsTrans DEF Steps
<1>5. Steps(e, r, g)
  BY GoodReceiveKeyUpdate
<1> HIDE DEF r
<1> QED BY <1>2, <1>4, <1>5, GoodAlert

\* A new handshake on the connection.
LEMMA GoodRenewed ==
    ASSUME NEW e, NEW f, NEW g, Good(e, g), e.state = "done", DOMAIN f = Fields,
           f.side = e.side, f.cfg = e.cfg, f.running = e.running, f.version = e.version,
           f.established = e.established, f.verify = e.verify, f.key_result = e.key_result,
           f.callbacks = e.callbacks, f.signatures = e.signatures, f.inbound = e.inbound,
           f.total_renegotiations = e.total_renegotiations + 1,
           f.state \in {"start", "read_client_hello"}, f.wait = "ok",
           f.session_reused = FALSE, f.used_hello_retry_request = FALSE,
           f.cert_request = FALSE, f.ticket_expected = FALSE, f.key_share = 0, f.peer = "none",
           f.pending_private_key_op = FALSE, f.pending_hs_data = <<>>, f.pending_flight = <<>>,
           SoundRecords(f.outbound, e), SoundUnits(f.hs_buf, g)
    PROVE  Steps(e, f, g)
<1>1. Typed(f)
  <2>1. e.total_renegotiations + 1 \in Nat
    BY DEF Good, Typed
  <2>2. 0 \in 0..2 /\ "ok" \in Waits
    BY DEF Waits
  <2> QED BY <2>1, <2>2, Zenon DEF Good, Typed
<1>2. Asking(f)
  BY DEF Good, Typed, Asking
<1>3. ~Emptied(f) /\ ~HelloHeld(f) /\ ~Writing(f) /\ f.wait \notin Reading
  BY DEF Emptied, HelloHeld, Writing, At, Reading
<1>4. Quiet(f)
  BY DEF Quiet
<1>5. Buffers(f)
  BY <1>3, <1>4 DEF Buffers
<1>6. Grows(e, f)
  BY DEF Grows, Signed, Good, Typed
<1>7. Wire(f, g)
  <2>1. Len(f.pending_hs_data) <= MaxFragment
    BY LayerAssumption
  <2>2. SoundRecords(f.outbound, f)
    BY <1>6, RecordsGrow
  <2> QED BY <2>1, <2>2, UnitsEmpty, RecordsEmpty DEF Good, Wire, Carries
<1>8. f.total_renegotiations > 0 /\ e.established # "none"
  BY DEF Good, Typed, Trust
<1>9. e.side = "client" => ClientTrust(f, g)
  BY <1>8 DEF Good, Trust, ClientTrust, At, Proved12, Proved13, Accepted
<1>10. e.side # "client" => ServerTrust(f, g)
  BY DEF ServerTrust, At, Checked12, Checked13
<1>11. Trust(f, g)
  BY <1>8, <1>9, <1>10 DEF Good, Trust
<1> QED BY <1>1, <1>2, <1>5, <1>6, <1>7, <1>11, Zenon DEF Steps, Good

\* What Renewed keeps, and what it resets.
LEMMA OnRenewed ==
    ASSUME NEW e
    PROVE  LET n == Data!Renewed(e)
           IN  /\ DOMAIN n = Fields /\ n.side = e.side /\ n.cfg = e.cfg
               /\ n.running = e.running /\ n.version = e.version /\ n.established = e.established
               /\ n.verify = e.verify /\ n.key_result = e.key_result /\ n.callbacks = e.callbacks
               /\ n.signatures = e.signatures /\ n.inbound = e.inbound
               /\ n.total_renegotiations = e.total_renegotiations + 1
               /\ n.state = "start" /\ n.wait = "ok" /\ n.session_reused = FALSE
               /\ n.used_hello_retry_request = FALSE /\ n.cert_request = FALSE
               /\ n.ticket_expected = FALSE /\ n.key_share = 0 /\ n.peer = "none"
               /\ n.pending_private_key_op = FALSE /\ n.pending_hs_data = <<>>
               /\ n.pending_flight = <<>> /\ n.outbound = e.outbound /\ n.hs_buf = e.hs_buf
<1> DEFINE b == NewEndpoint(e.side, e.cfg)
           c == Data!NewEndpoint(e.side, e.cfg)
           n == [b EXCEPT !.running = e.running, !.version = e.version, !.established = e.established,
                          !.total_renegotiations = e.total_renegotiations + 1,
                          !.read_key = e.read_key, !.write_key = e.write_key,
                          !.inbound = e.inbound, !.hs_buf = e.hs_buf, !.outbound = e.outbound,
                          !.sent = e.sent, !.received = e.received,
                          !.verify = e.verify, !.key_result = e.key_result,
                          !.callbacks = e.callbacks, !.signatures = e.signatures]
<1>1. /\ DOMAIN b = Fields /\ b.side = e.side /\ b.cfg = e.cfg
      /\ b.state = "start" /\ b.wait = "ok" /\ b.session_reused = FALSE
      /\ b.used_hello_retry_request = FALSE /\ b.cert_request = FALSE
      /\ b.ticket_expected = FALSE /\ b.key_share = 0 /\ b.peer = "none"
      /\ b.pending_private_key_op = FALSE /\ b.pending_hs_data = <<>> /\ b.pending_flight = <<>>
  BY SMT DEF NewEndpoint, Fields
<1>2. b = c
  BY DataLayer
<1> HIDE DEF b, c
<1>3. Data!Renewed(e) = n
  BY <1>2, Zenon DEF Data!Renewed, c
<1>4. /\ DOMAIN n = Fields /\ n.side = e.side /\ n.cfg = e.cfg
      /\ n.running = e.running /\ n.version = e.version /\ n.established = e.established
      /\ n.verify = e.verify /\ n.key_result = e.key_result /\ n.callbacks = e.callbacks
      /\ n.signatures = e.signatures /\ n.inbound = e.inbound
      /\ n.total_renegotiations = e.total_renegotiations + 1
      /\ n.outbound = e.outbound /\ n.hs_buf = e.hs_buf
  <2>0. DOMAIN b = Fields
    BY <1>1
  <2>1. DOMAIN n = Fields /\ n.side = e.side /\ n.cfg = e.cfg
    <3>1. n.side = b.side /\ n.cfg = b.cfg
      BY <2>0, SMT DEF Fields
    <3>2. DOMAIN n = Fields
      BY <2>0, Zenon
    <3>3. b.side = e.side /\ b.cfg = e.cfg
      BY <1>1
    <3> QED BY <3>1, <3>2, <3>3
  <2>2. /\ n.running = e.running /\ n.version = e.version /\ n.established = e.established
        /\ n.verify = e.verify /\ n.key_result = e.key_result
    BY <2>0, SMT DEF Fields
  <2>3. /\ n.callbacks = e.callbacks
        /\ n.signatures = e.signatures /\ n.inbound = e.inbound
        /\ n.outbound = e.outbound /\ n.hs_buf = e.hs_buf
    BY <2>0, SMT DEF Fields
  <2>4. n.total_renegotiations = e.total_renegotiations + 1
    BY <2>0, SMT DEF Fields
  <2> QED BY <2>1, <2>2, <2>3, <2>4
<1>5. /\ n.state = "start" /\ n.wait = "ok" /\ n.session_reused = FALSE
      /\ n.used_hello_retry_request = FALSE /\ n.cert_request = FALSE
      /\ n.ticket_expected = FALSE /\ n.key_share = 0 /\ n.peer = "none"
      /\ n.pending_private_key_op = FALSE /\ n.pending_hs_data = <<>> /\ n.pending_flight = <<>>
  BY <1>1, SMT DEF Fields
<1> HIDE DEF n
<1> QED BY <1>3, <1>4, <1>5

\* ssl_do_post_handshake.
LEMMA GoodPostHandshake ==
    ASSUME NEW e, NEW g, Good(e, g), e.state = "done", HasMessage(e)
    PROVE  Steps(e, Data!ssl_do_post_handshake(e), g)
<1> DEFINE n == Data!Renewed(e)
           f == NextMessage(n)
           r == Data!tls13_post_handshake(e)
<1>1. Data!ssl_do_post_handshake(e) \in {r, f, Alert(e, "decode_error"), Alert(e, "no_renegotiation")}
  <2>1. Data!ssl_do_post_handshake(e) \in {r, Data!NextMessage(n), Data!Alert(e, "decode_error"), Data!Alert(e, "no_renegotiation")}
    BY Zenon DEF Data!ssl_do_post_handshake
  <2> HIDE DEF r, n
  <2> QED BY <2>1, DataLayer
<1>2. Steps(e, r, g)
  BY GoodPostHandshake13
<1> HIDE DEF r
<1>3. /\ DOMAIN n = Fields /\ n.side = e.side /\ n.cfg = e.cfg
      /\ n.running = e.running /\ n.version = e.version /\ n.established = e.established
      /\ n.verify = e.verify /\ n.key_result = e.key_result /\ n.callbacks = e.callbacks
      /\ n.signatures = e.signatures /\ n.inbound = e.inbound
      /\ n.total_renegotiations = e.total_renegotiations + 1
      /\ n.state = "start" /\ n.wait = "ok" /\ n.session_reused = FALSE
      /\ n.used_hello_retry_request = FALSE /\ n.cert_request = FALSE
      /\ n.ticket_expected = FALSE /\ n.key_share = 0 /\ n.peer = "none"
      /\ n.pending_private_key_op = FALSE /\ n.pending_hs_data = <<>>
      /\ n.pending_flight = <<>> /\ n.outbound = e.outbound /\ n.hs_buf = e.hs_buf
  BY OnRenewed
<1> HIDE DEF n
<1>4. Same(n, f, {"hs_buf"}) /\ f.hs_buf = NextMessage(e).hs_buf
  <2>1. Same(n, f, {"hs_buf"})
    BY <1>3, Zenon DEF Same, NextMessage
  <2>2. f.hs_buf = SubSeq(n.hs_buf, Len(Units(Head(n.hs_buf))) + 1, Len(n.hs_buf))
    <3>1. DOMAIN n = Fields
      BY <1>3
    <3> QED BY <3>1, SMT DEF NextMessage, Message, Fields
  <2>3. NextMessage(e).hs_buf = SubSeq(e.hs_buf, Len(Units(Head(e.hs_buf))) + 1, Len(e.hs_buf))
    <3>1. DOMAIN e = Fields
      BY DEF Good, Typed
    <3> QED BY <3>1, SMT DEF NextMessage, Message, Fields
  <2> QED BY <1>3, <2>1, <2>2, <2>3
<1> HIDE DEF f
<1>5. /\ f.side = n.side /\ f.cfg = n.cfg
      /\ f.running = n.running /\ f.version = n.version /\ f.established = n.established
      /\ f.verify = n.verify /\ f.key_result = n.key_result /\ f.callbacks = n.callbacks
      /\ f.signatures = n.signatures /\ f.inbound = n.inbound
      /\ f.total_renegotiations = n.total_renegotiations
      /\ f.state = n.state /\ f.wait = n.wait /\ f.session_reused = n.session_reused
      /\ f.used_hello_retry_request = n.used_hello_retry_request /\ f.cert_request = n.cert_request
      /\ f.ticket_expected = n.ticket_expected /\ f.key_share = n.key_share /\ f.peer = n.peer
      /\ f.pending_private_key_op = n.pending_private_key_op
      /\ f.pending_hs_data = n.pending_hs_data /\ DOMAIN f = Fields
      /\ f.pending_flight = n.pending_flight /\ f.outbound = n.outbound
  BY <1>4, SMT DEF Same, Fields
<1>6. SoundUnits(f.hs_buf, g) /\ SoundRecords(f.outbound, e)
  <2>1. Wire(NextMessage(e), g)
    BY OnMessage DEF Good, Typed
  <2> QED BY <1>3, <1>4, <1>5, <2>1 DEF Good, Wire, Carries
<1>7. Steps(e, f, g)
  BY <1>3, <1>5, <1>6, GoodRenewed, ZenonT(60)
<1> QED BY <1>1, <1>2, <1>7, GoodAlert

\* tls_open_app_data.
LEMMA GoodOpenAppData ==
    ASSUME NEW e, NEW g, Good(e, g), e.state = "done", e.inbound # <<>>
    PROVE  Steps(e, Data!OpenAppData(e), g)
<1> DEFINE r == Head(e.inbound)
           f == [e EXCEPT !.inbound = Tail(@)]
           h == [f EXCEPT !.hs_buf = @ \o r.units]
           a == [f EXCEPT !.received = @ + 1, !.key_update_count = 0]
<1>1. Data!OpenAppData(e) \in {h, a, Error(f, "peer_alert"), Alert(f, "bad_record_mac"),
                               Alert(f, "unexpected_message"), Alert(f, "no_renegotiation")}
  <2>1. Data!OpenAppData(e) \in {h, a, Data!Error(f, "peer_alert"), Data!Alert(f, "bad_record_mac"),
                               Data!Alert(f, "unexpected_message"), Data!Alert(f, "no_renegotiation")}
    BY Zenon DEF Data!OpenAppData
  <2> HIDE DEF h, a, f
  <2> QED BY <2>1, DataLayer
<1>2. /\ Steps(e, f, g) /\ f.side = e.side /\ f.state = e.state /\ f.wait = e.wait
      /\ f.hs_buf = e.hs_buf /\ SoundUnits(r.units, g)
  BY GoodTail
<1> HIDE DEF f, r
<1>3. Good(f, g) /\ DOMAIN f = Fields /\ f.state = "done"
  BY <1>2 DEF Steps, Good, Typed
<1>4. Steps(f, h, g)
  <2>1. Same(f, h, {"hs_buf"}) /\ h.hs_buf = f.hs_buf \o r.units
    BY <1>3, Zenon DEF Same, Fields
  <2> HIDE DEF h
  <2>2. Same(f, h, Data12)
    BY <2>1, SameWider DEF Data12
  <2>3. /\ h.running = f.running /\ h.pending_hs_data = f.pending_hs_data
        /\ h.pending_flight = f.pending_flight /\ h.outbound = f.outbound /\ h.inbound = f.inbound
    BY <2>1, SMT DEF Same, Fields
  <2>4. SoundUnits(h.hs_buf, g)
    BY <1>2, <1>3, <2>1, UnitsConcat DEF Good, Wire, Carries
  <2>5. Carries(h, f, g)
    BY <1>3, <2>3, <2>4, Zenon DEF Good, Wire, Carries
  <2>6. h.running \in BOOLEAN
    BY <1>3, <2>3 DEF Good, Typed
  <2> QED BY <1>3, <2>2, <2>5, <2>6, GoodData
<1>5. Steps(f, a, g)
  <2>1. Same(f, a, {"received", "key_update_count"})
    BY <1>3, Zenon DEF Same
  <2> HIDE DEF a
  <2>2. Same(f, a, Incidental)
    BY <2>1, SameWider DEF Incidental
  <2>3. /\ a.running = f.running /\ a.version = f.version /\ a.key_share = f.key_share
        /\ a.used_hello_retry_request = f.used_hello_retry_request
        /\ a.ticket_expected = f.ticket_expected
    BY <2>1, SMT DEF Same, Fields
  <2> QED BY <1>3, <2>2, <2>3, GoodKept, Zenon DEF Good, Typed
<1> HIDE DEF h, a
<1>6. ASSUME NEW why PROVE Steps(e, Alert(f, why), g) /\ Steps(e, Error(f, why), g)
  BY <1>2, <1>3, GoodAlert, GoodError, StepsTrans
<1>7. Steps(e, h, g) /\ Steps(e, a, g)
  BY <1>2, <1>4, <1>5, StepsTrans
<1> QED BY <1>1, <1>6, <1>7

\* A call returns to the channel.
LEMMA GoodReturn ==
    ASSUME NEW e, NEW g, Good(e, g), NEW b \in BOOLEAN
    PROVE  Steps(e, [e EXCEPT !.running = b], g)
<1> DEFINE f == [e EXCEPT !.running = b]
<1>1. Same(e, f, {"running"}) /\ f.running = b
  BY Zenon DEF Same, Good, Typed, Fields
<1> HIDE DEF f
<1>2. Same(e, f, Incidental)
  BY <1>1, SameWider DEF Incidental
<1>3. /\ f.version = e.version /\ f.key_share = e.key_share
      /\ f.used_hello_retry_request = e.used_hello_retry_request
      /\ f.ticket_expected = e.ticket_expected
  BY <1>1, SMT DEF Same, Fields
<1>4. Steps(e, f, g)
  BY <1>1, <1>2, <1>3, GoodKept, Zenon DEF Good, Typed
<1> QED BY <1>4 DEF f

\* ssl_read_impl.
LEMMA GoodSSLRead ==
    ASSUME NEW e, NEW g, Good(e, g), e.state = "done"
    PROVE  Steps(e, Data!SSL_read(e), g)
<1> DEFINE a == Data!ssl_do_post_handshake(e)
           b == Data!OpenAppData(e)
           c == [e EXCEPT !.running = FALSE]
<1>1. Data!SSL_read(e) = IF Data!HasMessage(e) THEN a ELSE IF e.inbound # <<>> THEN b ELSE c
  BY Zenon DEF Data!SSL_read
<1>2. Steps(e, c, g)
  BY GoodReturn
<1>3. Data!HasMessage(e) = HasMessage(e)
  BY DataLayer
<1>4. HasMessage(e) => Steps(e, a, g)
  BY GoodPostHandshake
<1>5. e.inbound # <<>> => Steps(e, b, g)
  BY GoodOpenAppData
<1> HIDE DEF a, b, c
<1> QED BY <1>1, <1>2, <1>3, <1>4, <1>5

\* tls_write_app_data.
LEMMA GoodSSLWrite ==
    ASSUME NEW e, NEW g, Good(e, g), e.state = "done"
    PROVE  Steps(e, Data!SSL_write(e), g)
<1> DEFINE r == Record("application_data", e.write_key, <<>>)
           h == FlushFlight(e)
           f == [h EXCEPT !.outbound = Append(@, r), !.sent = @ + 1, !.key_update_pending = FALSE]
<1>1. Data!SSL_write(e) = f
  <2> DEFINE rr == Data!Record("application_data", e.write_key, <<>>)
             hh == Data!FlushFlight(e)
  <2>1. Data!SSL_write(e) = [hh EXCEPT !.outbound = Append(@, rr), !.sent = @ + 1, !.key_update_pending = FALSE]
    BY Zenon DEF Data!SSL_write
  <2>2. rr = r /\ hh = h
    BY DataLayer
  <2> HIDE DEF rr, r, hh, h
  <2> QED BY <2>1, <2>2
<1>2. Same(e, h, {"pending_flight", "pending_hs_data", "outbound"}) /\ Wire(h, g)
  BY OnFlushFlight DEF Good, Typed
<1>3. r.units = <<>>
  BY DEF Record
<1> HIDE DEF h, r
<1>4. Same(h, f, {"outbound", "sent", "key_update_pending"}) /\ f.outbound = Append(h.outbound, r)
  BY <1>2, Zenon DEF Same, Fields
<1> HIDE DEF f
<1>5. Same(e, f, Data12)
  <2>1. Same(e, f, {"pending_flight", "pending_hs_data", "outbound"} \cup {"outbound", "sent", "key_update_pending"})
    BY <1>2, <1>4, SameTrans
  <2> QED BY <2>1, SameWider DEF Data12
<1>6. /\ f.running = e.running /\ f.pending_hs_data = h.pending_hs_data
      /\ f.pending_flight = h.pending_flight /\ f.inbound = h.inbound /\ f.hs_buf = h.hs_buf
  BY <1>2, <1>4, SMT DEF Same, Fields
<1>7. SoundRecords(f.outbound, h)
  <2>1. SoundUnits(r.units, h) /\ Len(r.units) <= MaxFragment
    BY <1>3, UnitsEmpty, LayerAssumption
  <2> QED BY <1>2, <1>4, <2>1, RecordsAppend DEF Wire, Carries
<1>8. Carries(f, h, g)
  BY <1>2, <1>6, <1>7, Zenon DEF Wire, Carries
<1>9. Grows(h, e)
  BY <1>2, SameGrows
<1>10. Carries(f, e, g)
  BY <1>8, <1>9, CarriesGrow
<1>11. f.running \in BOOLEAN
  BY <1>6 DEF Good, Typed
<1> QED BY <1>1, <1>5, <1>10, <1>11, GoodData

-----------------------------------------------------------------------------
(***************************************************************************)
(* What the calls of SSL_do_handshake do around the state machines.        *)
(***************************************************************************)
\* The flight has left.
LEMMA GoodFlush ==
    ASSUME NEW e, NEW g, Good(e, g)
    PROVE  Steps(e, Wait(FlushFlight(e), "ok"), g)
<1> DEFINE h == FlushFlight(e)
           f == [h EXCEPT !.wait = "ok"]
           X == {"pending_flight", "pending_hs_data", "outbound"} \cup {"wait"}
<1>1. Same(e, h, {"pending_flight", "pending_hs_data", "outbound"}) /\ Wire(h, g) /\ Quiet(h)
  BY OnFlushFlight DEF Good, Typed
<1>2. Wait(h, "ok") = f
  BY Zenon DEF Wait
<1> HIDE DEF h
<1>3. Same(h, f, {"wait"}) /\ f.wait = "ok"
  BY <1>1, Zenon DEF Same, Fields
<1> HIDE DEF f
<1>4. Same(e, f, X)
  BY <1>1, <1>3, SameTrans
<1>5. X \cap Decisive = {}
  BY DEF Decisive
<1>6. Wire(f, g)
  <2>1. Grows(h, f)
    BY <1>3, SameGrows
  <2> QED BY <1>1, <1>3, <2>1, WireSame
<1>7. /\ f.running = e.running /\ f.version = e.version /\ f.key_share = e.key_share
      /\ f.used_hello_retry_request = e.used_hello_retry_request
      /\ f.ticket_expected = e.ticket_expected
  BY <1>4, SMT DEF Same, Fields
<1>8. f.wait \in Waits /\ f.wait \notin Reading
  BY <1>3 DEF Waits, Reading
<1>9. Quiet(f)
  <2>1. f.pending_hs_data = h.pending_hs_data /\ f.pending_flight = h.pending_flight
    BY <1>3, SMT DEF Same, Fields
  <2> QED BY <1>1, <2>1 DEF Quiet
<1> HIDE DEF X
<1>10. Typed(f)
  BY <1>4, <1>5, <1>7, <1>8, TypedKept, Zenon DEF Good, Typed
<1>11. Asking(f) /\ Trust(f, g) /\ Grows(e, f) /\ f.hs_buf = e.hs_buf
       /\ Emptied(f) = Emptied(e) /\ HelloHeld(f) = HelloHeld(e)
  BY <1>4, <1>5, DecisiveKept, Zenon DEF Good
<1>12. Buffers(f)
  BY <1>8, <1>9, <1>11, Zenon DEF Good, Buffers
<1>13. Steps(e, f, g)
  BY <1>6, <1>10, <1>11, <1>12, Zenon DEF Steps, Good
<1> QED BY <1>2, <1>13 DEF h

\* A callback is awaited, and the call returns.
LEMMA GoodWantCallback ==
    ASSUME NEW e, NEW g, Good(e, g), e.wait \in {"certificate_verify", "private_key_operation"}
    PROVE  Steps(e, [Wait(e, "ok") EXCEPT !.running = FALSE], g)
<1> DEFINE f == [Wait(e, "ok") EXCEPT !.running = FALSE]
<1>1. Same(e, f, {"wait", "running", "error"}) /\ f.wait = "ok" /\ f.running = FALSE
  BY Zenon DEF Same, Good, Typed, Fields, Wait
<1> HIDE DEF f
<1>2. f.wait \in Waits /\ f.wait \notin Reading
  BY <1>1 DEF Waits, Reading
<1>3. f.running \in BOOLEAN
  BY <1>1
<1>4. Steps(e, f, g)
  BY <1>1, <1>2, <1>3, GoodWaiting
<1> QED BY <1>4 DEF f

\* What the answer of a callback leaves as it is.
LEMMA Answered ==
    ASSUME NEW e, NEW f, NEW g, Good(e, g), Same(e, f, {"verify", "key_result", "running"}),
           f.running \in BOOLEAN, f.verify \in {"notStarted", "pending", "ok", "invalid"},
           f.key_result \in {"none", "signature", "failure"}, Grows(e, f),
           f.verify = "notStarted" => e.verify = "notStarted",
           f.verify = "ok" => e.cfg.trusts, e.verify = "ok" => f.verify = "ok"
    PROVE  Steps(e, f, g)
<1>1. /\ f.side = e.side /\ f.cfg = e.cfg /\ f.state = e.state /\ f.tls13_state = e.tls13_state
      /\ f.session_reused = e.session_reused /\ f.cert_request = e.cert_request /\ f.peer = e.peer
      /\ f.hs_buf = e.hs_buf /\ f.pending_private_key_op = e.pending_private_key_op
      /\ f.established = e.established /\ f.total_renegotiations = e.total_renegotiations
      /\ f.callbacks = e.callbacks /\ f.signatures = e.signatures
  BY SMT DEF Same, Fields
<1>2. /\ f.version = e.version /\ f.wait = e.wait /\ f.key_share = e.key_share
      /\ f.used_hello_retry_request = e.used_hello_retry_request
      /\ f.ticket_expected = e.ticket_expected
      /\ f.pending_hs_data = e.pending_hs_data /\ f.pending_flight = e.pending_flight
      /\ DOMAIN f = Fields
  BY SMT DEF Same, Fields
<1>3. Typed(f)
  BY <1>1, <1>2, Zenon DEF Good, Typed
<1>4. Wire(f, g)
  <2>1. {"verify", "key_result", "running"}
          \cap {"inbound", "hs_buf", "pending_hs_data", "pending_flight", "outbound"} = {}
    OBVIOUS
  <2> QED BY <2>1, WireSame DEF Good
<1>5. /\ Unsigned(f) = Unsigned(e) /\ Emptied(f) = Emptied(e)
      /\ HelloHeld(f) = HelloHeld(e) /\ Writing(f) = Writing(e)
  BY <1>1, SamePlace
<1>6. Asking(f)
  BY <1>1, <1>5, Zenon DEF Good, Asking
<1>7. \A a, b : At(f, a, b) = At(e, a, b)
  BY <1>1, Zenon DEF At
<1>8. \/ Accepted(f) /\ Judged(f)
      \/ Accepted(f) = Accepted(e) /\ Judged(f) = Judged(e)
  BY <1>1, Zenon DEF Accepted, Judged
<1>9. /\ ClientTrust(e, g) => ClientTrust(f, g)
      /\ ServerTrust(e, g) => ServerTrust(f, g)
  BY <1>1, <1>8, MoreTrust
<1>11. Trust(f, g)
  BY <1>1, <1>9, Zenon DEF Good, Trust
<1>12. Buffers(f)
  BY <1>1, <1>2, <1>5, Zenon DEF Good, Buffers, Quiet
<1> QED BY <1>3, <1>4, <1>6, <1>11, <1>12, Zenon DEF Steps, Good

\* AnswerVerify and AnswerKey.
LEMMA GoodAnswerVerify ==
    ASSUME NEW e, NEW g, Good(e, g), e.verify = "pending"
    PROVE  Steps(e, [[e EXCEPT !.verify = IF e.cfg.trusts THEN "ok" ELSE "invalid"]
                         EXCEPT !.running = TRUE], g)
<1> DEFINE v == IF e.cfg.trusts THEN "ok" ELSE "invalid"
           f == [[e EXCEPT !.verify = v] EXCEPT !.running = TRUE]
<1>0. v \in {"ok", "invalid"} /\ (v = "ok" => e.cfg.trusts)
  OBVIOUS
<1> HIDE DEF v
<1>1. Same(e, f, {"verify", "running"}) /\ f.verify = v /\ f.running = TRUE
  BY Zenon DEF Same, Good, Typed, Fields
<1> HIDE DEF f
<1>2. Same(e, f, {"verify", "key_result", "running"})
  BY <1>1, SameWider
<1>3. f.key_result = e.key_result
  BY <1>1, SMT DEF Same, Fields
<1>4. Grows(e, f)
  BY <1>1, SameGrows
<1>5. f.running \in BOOLEAN
  BY <1>1
<1>6. f.key_result \in {"none", "signature", "failure"}
  BY <1>3 DEF Good, Typed
<1>7. Steps(e, f, g)
  BY <1>0, <1>1, <1>2, <1>4, <1>5, <1>6, Answered
<1> QED BY <1>7 DEF f, v

\* The signature is there, or refused: it cannot have counted as made before.
LEMMA GoodAnswerKey ==
    ASSUME NEW e, NEW g, Good(e, g), e.pending_private_key_op, e.key_result = "none"
    PROVE  Steps(e, [[e EXCEPT !.key_result = IF e.cfg.signs THEN "signature" ELSE "failure"]
                         EXCEPT !.running = TRUE], g)
<1> DEFINE v == IF e.cfg.signs THEN "signature" ELSE "failure"
           f == [[e EXCEPT !.key_result = v] EXCEPT !.running = TRUE]
<1>0. v \in {"none", "signature", "failure"}
  OBVIOUS
<1> HIDE DEF v
<1>1. Same(e, f, {"key_result", "running"}) /\ f.key_result = v /\ f.running = TRUE
  BY Zenon DEF Same, Good, Typed, Fields
<1> HIDE DEF f
<1>2. Same(e, f, {"verify", "key_result", "running"})
  BY <1>1, SameWider
<1>3. f.verify = e.verify /\ f.side = e.side /\ f.total_renegotiations = e.total_renegotiations
  BY <1>1, SMT DEF Same, Fields
<1>4. Grows(e, f)
  <2>1. ~Signed(e)
    BY Zenon DEF Good, Asking, Signed
  <2> QED BY <1>3, <2>1 DEF Grows
<1>5. f.running \in BOOLEAN
  BY <1>1
<1>6. f.verify \in {"notStarted", "pending", "ok", "invalid"} /\ (f.verify = "ok" => e.cfg.trusts)
  BY <1>3 DEF Good, Typed, Trust
<1>7. Steps(e, f, g)
  BY <1>0, <1>1, <1>2, <1>3, <1>4, <1>5, <1>6, Answered
<1> QED BY <1>7 DEF f, v

\* RequestRenegotiation.
LEMMA GoodRequestRenegotiation ==
    ASSUME NEW e, NEW g, Good(e, g), e.state = "done"
    PROVE  Steps(e, [Data!Renewed(e) EXCEPT
                         !.state = "read_client_hello",
                         !.outbound = Append(@, Record("handshake", e.write_key,
                                                       <<[type |-> "hello_request"]>>))], g)
<1> DEFINE m == [type |-> "hello_request"]
           r == Record("handshake", e.write_key, <<m>>)
           n == Data!Renewed(e)
           f == [n EXCEPT !.state = "read_client_hello", !.outbound = Append(@, r)]
<1>1. Sound(m, e)
  BY DEF Sound
<1>2. SoundUnits(r.units, e) /\ Len(r.units) <= MaxFragment
  <2>1. r.units = <<m>>
    BY DEF Record
  <2> HIDE DEF m, r
  <2>2. IsSeq(<<m>>) /\ Len(<<m>>) = 1 /\ <<m>>[1] = m
    <3>1. <<m>> \in Seq({m})
      OBVIOUS
    <3> QED BY <3>1 DEF IsSeq
  <2> QED BY <1>1, <2>1, <2>2, LayerAssumption DEF SoundUnits
<1> HIDE DEF r
<1>3. /\ DOMAIN n = Fields /\ n.side = e.side /\ n.cfg = e.cfg
      /\ n.running = e.running /\ n.version = e.version /\ n.established = e.established
      /\ n.verify = e.verify /\ n.key_result = e.key_result /\ n.callbacks = e.callbacks
      /\ n.signatures = e.signatures /\ n.inbound = e.inbound
      /\ n.total_renegotiations = e.total_renegotiations + 1
      /\ n.state = "start" /\ n.wait = "ok" /\ n.session_reused = FALSE
      /\ n.used_hello_retry_request = FALSE /\ n.cert_request = FALSE
      /\ n.ticket_expected = FALSE /\ n.key_share = 0 /\ n.peer = "none"
      /\ n.pending_private_key_op = FALSE /\ n.pending_hs_data = <<>>
      /\ n.pending_flight = <<>> /\ n.outbound = e.outbound /\ n.hs_buf = e.hs_buf
  BY OnRenewed
<1> HIDE DEF n
<1>4. Same(n, f, {"state", "outbound"}) /\ f.state = "read_client_hello"
      /\ f.outbound = Append(n.outbound, r)
  <2>1. DOMAIN n = Fields
    BY <1>3
  <2> QED BY <2>1, Zenon DEF Same, Fields
<1>5. /\ f.side = n.side /\ f.cfg = n.cfg
      /\ f.running = n.running /\ f.version = n.version /\ f.established = n.established
      /\ f.verify = n.verify /\ f.key_result = n.key_result /\ f.callbacks = n.callbacks
      /\ f.signatures = n.signatures /\ f.inbound = n.inbound
      /\ f.total_renegotiations = n.total_renegotiations
      /\ f.wait = n.wait /\ f.session_reused = n.session_reused
      /\ f.used_hello_retry_request = n.used_hello_retry_request /\ f.cert_request = n.cert_request
      /\ f.ticket_expected = n.ticket_expected /\ f.key_share = n.key_share /\ f.peer = n.peer
      /\ f.pending_private_key_op = n.pending_private_key_op
      /\ f.pending_hs_data = n.pending_hs_data /\ DOMAIN f = Fields
      /\ f.pending_flight = n.pending_flight /\ f.hs_buf = n.hs_buf
  <2> HIDE DEF f
  <2> QED BY <1>4, SMT DEF Same, Fields
<1>6. SoundRecords(Append(e.outbound, r), e) /\ SoundUnits(e.hs_buf, g)
  BY <1>2, RecordsAppend DEF Good, Wire, Carries
<1> HIDE DEF f
<1>7. Steps(e, f, g)
  BY <1>3, <1>4, <1>5, <1>6, GoodRenewed, ZenonT(60)
<1> QED BY <1>7 DEF f, r, m, n

\* Records move along.
LEMMA GoodRecords ==
    ASSUME NEW e, NEW f, NEW g, Good(e, g), Same(e, f, {"inbound", "outbound", "running"}),
           f.running \in BOOLEAN, SoundRecords(f.inbound, g), SoundRecords(f.outbound, e)
    PROVE  Steps(e, f, g)
<1> DEFINE X == {"inbound", "outbound", "running"}
<1>2. /\ f.wait = e.wait /\ f.hs_buf = e.hs_buf
      /\ f.version = e.version /\ f.used_hello_retry_request = e.used_hello_retry_request
      /\ f.ticket_expected = e.ticket_expected /\ f.key_share = e.key_share
      /\ f.pending_hs_data = e.pending_hs_data /\ f.pending_flight = e.pending_flight
  BY SMT DEF Same, Fields
<1>3. X \cap Decisive = {}
  BY DEF Decisive
<1>4. Same(e, f, X)
  OBVIOUS
<1> HIDE DEF X
<1>5. Typed(f)
  BY <1>2, <1>3, <1>4, TypedKept, Zenon DEF Good, Typed
<1>6. /\ Asking(f) /\ Trust(f, g) /\ Grows(e, f)
      /\ Emptied(f) = Emptied(e) /\ HelloHeld(f) = HelloHeld(e) /\ Writing(f) = Writing(e)
  BY <1>3, <1>4, DecisiveKept, Zenon DEF Good
<1>7. Buffers(f)
  BY <1>2, <1>6, Zenon DEF Good, Buffers, Quiet
<1>8. Carries(f, e, g)
  BY <1>2, Zenon DEF Good, Wire, Carries
<1>9. Wire(f, g)
  BY <1>6, <1>8, CarriesGrow DEF Wire
<1> QED BY <1>5, <1>6, <1>7, <1>9, Zenon DEF Steps, Good

\* Receive, at the endpoint that reads ...
LEMMA GoodReceive ==
    ASSUME NEW e, NEW g, Good(e, g), SoundRecords(g.outbound, g), NEW n \in 0..Len(g.outbound)
    PROVE  Steps(e, [[e EXCEPT !.inbound = @ \o SubSeq(g.outbound, 1, n)]
                         EXCEPT !.running = TRUE], g)
<1> DEFINE q == SubSeq(g.outbound, 1, n)
           f == [[e EXCEPT !.inbound = @ \o q] EXCEPT !.running = TRUE]
<1>1. Len(g.outbound) \in Nat
  BY SeqLen DEF SoundRecords
<1>2. SoundRecords(q, g)
  <2>1. 1 \in 1..(Len(g.outbound) + 1) /\ n \in (1 - 1)..Len(g.outbound)
    BY <1>1
  <2> QED BY <2>1, RecordsSub
<1> HIDE DEF q
<1>3. Same(e, f, {"inbound", "running"}) /\ f.inbound = e.inbound \o q /\ f.running = TRUE
  BY Zenon DEF Same, Good, Typed, Fields
<1> HIDE DEF f
<1>4. Same(e, f, {"inbound", "outbound", "running"})
  BY <1>3, SameWider
<1>5. f.outbound = e.outbound
  BY <1>3, SMT DEF Same, Fields
<1>6. SoundRecords(f.inbound, g)
  BY <1>2, <1>3, RecordsConcat DEF Good, Wire, Carries
<1>7. f.running \in BOOLEAN /\ SoundRecords(f.outbound, e)
  BY <1>3, <1>5 DEF Good, Wire, Carries
<1>8. Steps(e, f, g)
  BY <1>4, <1>6, <1>7, GoodRecords
<1> QED BY <1>8 DEF f, q

\* ... and at the one that wrote.
LEMMA GoodSent ==
    ASSUME NEW e, NEW g, Good(e, g), NEW n \in 0..Len(e.outbound)
    PROVE  Steps(e, [e EXCEPT !.outbound = SubSeq(@, n + 1, Len(@))], g)
<1> DEFINE q == SubSeq(e.outbound, n + 1, Len(e.outbound))
           f == [e EXCEPT !.outbound = q]
<1>0. SoundRecords(e.outbound, e) /\ SoundRecords(e.inbound, g) /\ e.running \in BOOLEAN
      /\ DOMAIN e = Fields
  BY DEF Good, Typed, Wire, Carries
<1>1. Len(e.outbound) \in Nat
  BY <1>0, SeqLen DEF SoundRecords
<1>2. SoundRecords(q, e)
  <2>1. n + 1 \in 1..(Len(e.outbound) + 1) /\ Len(e.outbound) \in (n + 1 - 1)..Len(e.outbound)
    BY <1>1
  <2> QED BY <1>0, <2>1, RecordsSub
<1> HIDE DEF q
<1>3. Same(e, f, {"outbound"}) /\ f.outbound = q
  BY <1>0, Zenon DEF Same, Fields
<1> HIDE DEF f
<1>4. Same(e, f, {"inbound", "outbound", "running"})
  BY <1>3, SameWider
<1>5. f.inbound = e.inbound /\ f.running = e.running
  BY <1>3, SMT DEF Same, Fields
<1>6. Steps(e, f, g)
  BY <1>0, <1>2, <1>3, <1>4, <1>5, GoodRecords
<1> QED BY <1>6 DEF f, q

-----------------------------------------------------------------------------
\* The invariant: each endpoint is in order, given the other one.
Inv == /\ ep = [p \in Sides |-> ep[p]]
       /\ \A p \in Sides : ep[p].side = p /\ Good(ep[p], ep[Peer(p)])

\* There are two sides.
LEMMA Sidedness == ASSUME NEW p \in Sides
                   PROVE  Peer(p) \in Sides /\ Peer(p) # p /\ Peer(Peer(p)) = p
                          /\ \A q \in Sides : q = p \/ q = Peer(p)
BY DEF Sides, Peer

\* An endpoint that takes a step preserves it.
LEMMA Stepping ==
    ASSUME Inv, NEW p \in Sides, NEW e, Steps(ep[p], e, ep[Peer(p)]), Update(p, e)
    PROVE  Inv'
<1> DEFINE q == Peer(p)
<1>1. q \in Sides /\ q # p /\ Peer(q) = p /\ \A r \in Sides : r = p \/ r = q
  BY Sidedness
<1>2. Peer(p) = q
  OBVIOUS
<1> HIDE DEF q
<1>3. ep' = [r \in Sides |-> ep'[r]] /\ ep'[p] = e /\ ep'[q] = ep[q]
  BY <1>1 DEF Inv, Update
<1>4. e.side = p /\ Good(e, ep[q])
  BY <1>2 DEF Inv, Steps, Grows
<1>5. ep[q].side = q /\ Good(ep[q], e)
  <2>1. ep[q].side = q /\ Good(ep[q], ep[p])
    BY <1>1 DEF Inv
  <2>2. Grows(ep[p], e)
    BY DEF Steps
  <2> QED BY <2>1, <2>2, PeerGrows
<1>6. \A r \in Sides : ep'[r].side = r /\ Good(ep'[r], ep'[Peer(r)])
  BY <1>1, <1>2, <1>3, <1>4, <1>5
<1> QED BY <1>3, <1>6 DEF Inv

\* What the invariant says of one side.
LEMMA AtRest ==
    ASSUME Inv, NEW p \in Sides
    PROVE  /\ Good(ep[p], ep[Peer(p)]) /\ ep[p].side = p /\ ep[Peer(p)].side = Peer(p)
BY Sidedness DEF Inv

\* New endpoints are in order.
LEMMA InitInv == ASSUME Init PROVE Inv
<1>1. PICK c \in Configs : ep = [p \in Sides |-> NewEndpoint(p, c[p])]
  BY DEF Init
<1>2. ASSUME NEW p \in Sides, NEW g PROVE LET e == NewEndpoint(p, c[p]) IN e.side = p /\ Good(e, g)
  <2> DEFINE e == NewEndpoint(p, c[p])
  <2>1. /\ DOMAIN e = Fields /\ e.side = p /\ e.cfg = c[p] /\ e.running = FALSE
        /\ e.state = "start" /\ e.wait = "ok" /\ e.version = 0 /\ e.session_reused = FALSE
        /\ e.used_hello_retry_request = FALSE /\ e.cert_request = FALSE
        /\ e.ticket_expected = FALSE /\ e.key_share = 0 /\ e.peer = "none"
    BY SMT DEF NewEndpoint, Fields
  <2>2. /\ e.inbound = <<>> /\ e.hs_buf = <<>> /\ e.pending_hs_data = <<>>
        /\ e.pending_flight = <<>> /\ e.outbound = <<>> /\ e.verify = "notStarted"
        /\ e.pending_private_key_op = FALSE /\ e.key_result = "none" /\ e.established = "none"
        /\ e.total_renegotiations = 0 /\ e.callbacks = 0 /\ e.signatures = 0
    BY SMT DEF NewEndpoint
  <2> HIDE DEF e
  <2>3. c[p] \in Config
    BY HandshakeAssumption DEF Sides
  <2>4. Typed(e)
    <3>1. 0 \in 0..2 /\ 0 \in Nat /\ "ok" \in Waits
      BY DEF Waits
    <3> QED BY <2>1, <2>2, <2>3, <3>1, Zenon DEF Typed
  <2>5. Wire(e, g)
    <3>1. Len(<<>>) <= MaxFragment
      BY LayerAssumption
    <3> QED BY <2>2, <3>1, UnitsEmpty, RecordsEmpty DEF Wire, Carries
  <2>6. Asking(e)
    BY <2>2 DEF Asking
  <2>7. ~Emptied(e) /\ ~HelloHeld(e) /\ ~Writing(e) /\ e.wait \notin Reading
    BY <2>1 DEF Emptied, HelloHeld, Writing, At, Reading
  <2>8. Quiet(e)
    BY <2>2 DEF Quiet
  <2>9. Buffers(e)
    BY <2>7, <2>8 DEF Buffers
  <2>10. ClientTrust(e, g)
    BY <2>1, <2>2 DEF ClientTrust, At, Proved12, Proved13
  <2>11. ServerTrust(e, g)
    BY <2>1, <2>2 DEF ServerTrust, At, Checked12, Checked13
  <2>12. Trust(e, g)
    BY <2>1, <2>2, <2>10, <2>11 DEF Trust
  <2>13. Good(e, g)
    BY <2>4, <2>5, <2>6, <2>9, <2>12, Zenon DEF Good
  <2> QED BY <2>1, <2>13 DEF e
<1>3. ASSUME NEW p \in Sides PROVE ep[p].side = p /\ Good(ep[p], ep[Peer(p)])
  <2>1. ep[p] = NewEndpoint(p, c[p])
    BY <1>1
  <2> QED BY <2>1, <1>2
<1>4. ep = [p \in Sides |-> ep[p]]
  BY <1>1
<1> QED BY <1>3, <1>4 DEF Inv

\* The functions of the client up to TLS 1.2 ...
LEMMA ClientHandshake ==
    ASSUME Inv, ssl_client_handshake
    PROVE  Inv'
<1> DEFINE e == ep["client"]
           g == ep[Peer("client")]
<1>1. "client" \in Sides /\ Peer("client") = "server"
  BY DEF Sides, Peer
<1>2. Good(e, g) /\ e.side = "client" /\ g.side = Peer("client")
  BY <1>1, AtRest
<1>3. ASSUME NEW f, Steps(e, f, g), Update("client", f) PROVE Inv'
  BY <1>1, <1>3, Stepping
<1>4. ASSUME NEW s, NEW f, Do("client", s, f) PROVE Turn(e, g, "client", s) /\ Update("client", f)
  BY <1>2, <1>4 DEF Do, Turn
<1> HIDE DEF g
<1>6. CASE Do("client", "start", C12!do_start_connect(ep["client"]))
  BY <1>3, <1>4, <1>6, C12StartConnect
<1>7. CASE Do("client", "read_server_hello", C12!do_read_server_hello(ep["client"]))
  BY <1>3, <1>4, <1>7, C12ReadServerHello
<1>8. CASE Do("client", "read_server_certificate", C12!do_read_server_certificate(ep["client"]))
  BY <1>3, <1>4, <1>8, C12ReadServerCertificate
<1>9. CASE Do("client", "verify_server_certificate", C12!do_verify_server_certificate(ep["client"]))
  BY <1>3, <1>4, <1>9, C12VerifyServerCertificate
<1>10. CASE Do("client", "read_server_key_exchange", C12!do_read_server_key_exchange(ep["client"]))
  BY <1>3, <1>4, <1>10, C12ReadServerKeyExchange
<1>11. CASE Do("client", "read_certificate_request", C12!do_read_certificate_request(ep["client"]))
  BY <1>3, <1>4, <1>11, C12ReadCertificateRequest
<1>12. CASE Do("client", "read_server_hello_done", C12!do_read_server_hello_done(ep["client"]))
  BY <1>3, <1>4, <1>12, C12ReadServerHelloDone
<1>13. CASE Do("client", "send_client_certificate", C12!do_send_client_certificate(ep["client"]))
  BY <1>3, <1>4, <1>13, C12SendClientCertificate
<1>14. CASE Do("client", "send_client_key_exchange", C12!do_send_client_key_exchange(ep["client"]))
  BY <1>3, <1>4, <1>14, C12SendClientKeyExchange
<1>15. CASE Do("client", "send_client_certificate_verify", C12!do_send_client_certificate_verify(ep["client"]))
  BY <1>3, <1>4, <1>15, C12SendClientCertificateVerify
<1>16. CASE Do("client", "send_client_finished", C12!do_send_client_finished(ep["client"]))
  BY <1>3, <1>4, <1>16, C12SendClientFinished
<1>17. CASE Do("client", "finish_flight", C12!do_finish_flight(ep["client"]))
  BY <1>3, <1>4, <1>17, C12FinishFlight
<1>18. CASE Do("client", "read_session_ticket", C12!do_read_session_ticket(ep["client"]))
  BY <1>3, <1>4, <1>18, C12ReadSessionTicket
<1>19. CASE Do("client", "process_change_cipher_spec", C12!do_process_change_cipher_spec(ep["client"]))
  BY <1>3, <1>4, <1>19, C12ProcessChangeCipherSpec
<1>20. CASE Do("client", "read_server_finished", C12!do_read_server_finished(ep["client"]))
  BY <1>3, <1>4, <1>20, C12ReadServerFinished
<1>21. CASE Do("client", "finish_client_handshake", C12!do_finish_client_handshake(ep["client"]))
  BY <1>3, <1>4, <1>21, C12FinishClientHandshake
<1> QED BY <1>6, <1>7, <1>8, <1>9, <1>10, <1>11, <1>12, <1>13, <1>14, <1>15, <1>16, <1>17, <1>18,
           <1>19, <1>20, <1>21, Zenon DEF ssl_client_handshake

\* ... and of TLS 1.3.
LEMMA ClientHandshake13 ==
    ASSUME Inv, tls13_client_handshake
    PROVE  Inv'
<1> DEFINE e == ep["client"]
           g == ep[Peer("client")]
<1>1. "client" \in Sides /\ Peer("client") = "server"
  BY DEF Sides, Peer
<1>2. Good(e, g) /\ e.side = "client" /\ g.side = Peer("client")
  BY <1>1, AtRest
<1>3. ASSUME NEW f, Steps(e, f, g), Update("client", f) PROVE Inv'
  BY <1>1, <1>3, Stepping
<1>4. ASSUME NEW s, NEW f, Do("client", s, f) PROVE Turn(e, g, "client", s) /\ Update("client", f)
  BY <1>2, <1>4 DEF Do, Turn
<1>5. ASSUME NEW s, NEW f, Do13("client", s, f)
      PROVE  Turn(e, g, "client", "tls13") /\ e.tls13_state = s /\ Update("client", f)
  BY <1>4, <1>5 DEF Do13
<1> HIDE DEF g
<1>6. CASE Do13("client", "read_hello_retry_request", C13!do_read_hello_retry_request(ep["client"]))
  BY <1>3, <1>5, <1>6, C13ReadHelloRetryRequest
<1>7. CASE Do13("client", "send_second_client_hello", C13!do_send_second_client_hello(ep["client"]))
  BY <1>3, <1>5, <1>7, C13SendSecondClientHello
<1>8. CASE Do13("client", "read_server_hello", C13!do_read_server_hello(ep["client"]))
  BY <1>3, <1>5, <1>8, C13ReadServerHello
<1>9. CASE Do13("client", "read_encrypted_extensions", C13!do_read_encrypted_extensions(ep["client"]))
  BY <1>3, <1>5, <1>9, C13ReadEncryptedExtensions
<1>10. CASE Do13("client", "read_certificate_request", C13!do_read_certificate_request(ep["client"]))
  BY <1>3, <1>5, <1>10, C13ReadCertificateRequest
<1>11. CASE Do13("client", "read_server_certificate", C13!do_read_server_certificate(ep["client"]))
  BY <1>3, <1>5, <1>11, C13ReadServerCertificate
<1>12. CASE Do13("client", "read_server_certificate_verify", C13!do_read_server_certificate_verify(ep["client"]))
  BY <1>3, <1>5, <1>12, C13ReadServerCertificateVerify
<1>13. CASE Do13("client", "read_server_finished", C13!do_read_server_finished(ep["client"]))
  BY <1>3, <1>5, <1>13, C13ReadServerFinished
<1>14. CASE Do13("client", "send_client_certificate", C13!do_send_client_certificate(ep["client"]))
  BY <1>3, <1>5, <1>14, C13SendClientCertificate
<1>15. CASE Do13("client", "send_client_certificate_verify", C13!do_send_client_certificate_verify(ep["client"]))
  BY <1>3, <1>5, <1>15, C13SendClientCertificateVerify
<1>16. CASE Do13("client", "complete_second_flight", C13!do_complete_second_flight(ep["client"]))
  BY <1>3, <1>5, <1>16, C13CompleteSecondFlight
<1>17. CASE Do13("client", "done", To(ep["client"], "finish_client_handshake"))
  BY <1>3, <1>5, <1>17, C13Done
<1> QED BY <1>6, <1>7, <1>8, <1>9, <1>10, <1>11, <1>12, <1>13, <1>14, <1>15, <1>16, <1>17,
           Zenon DEF tls13_client_handshake

\* The functions of the server up to TLS 1.2 ...
LEMMA ServerHandshake ==
    ASSUME Inv, ssl_server_handshake
    PROVE  Inv'
<1> DEFINE e == ep["server"]
           g == ep[Peer("server")]
<1>1. "server" \in Sides /\ Peer("server") = "client"
  BY DEF Sides, Peer
<1>2. Good(e, g) /\ e.side = "server" /\ g.side = Peer("server")
  BY <1>1, AtRest
<1>3. ASSUME NEW f, Steps(e, f, g), Update("server", f) PROVE Inv'
  BY <1>1, <1>3, Stepping
<1>4. ASSUME NEW s, NEW f, Do("server", s, f) PROVE Turn(e, g, "server", s) /\ Update("server", f)
  BY <1>2, <1>4 DEF Do, Turn
<1> HIDE DEF g
<1>6. CASE Do("server", "start", S12!do_start_accept(ep["server"]))
  BY <1>3, <1>4, <1>6, S12StartAccept
<1>7. CASE Do("server", "read_client_hello", S12!do_read_client_hello(ep["server"]))
  BY <1>3, <1>4, <1>7, S12ReadClientHello
<1>8. CASE Do("server", "read_client_hello_after_ech", S12!do_read_client_hello_after_ech(ep["server"]))
  BY <1>3, <1>4, <1>8, S12ReadClientHelloAfterEch
<1>9. CASE Do("server", "select_certificate", S12!do_select_certificate(ep["server"]))
  BY <1>3, <1>4, <1>9, S12SelectCertificate
<1>10. CASE Do("server", "select_parameters", S12!do_select_parameters(ep["server"]))
  BY <1>3, <1>4, <1>10, S12SelectParameters
<1>11. CASE Do("server", "send_server_hello", S12!do_send_server_hello(ep["server"]))
  BY <1>3, <1>4, <1>11, S12SendServerHello
<1>12. CASE Do("server", "send_server_certificate", S12!do_send_server_certificate(ep["server"]))
  BY <1>3, <1>4, <1>12, S12SendServerCertificate
<1>13. CASE Do("server", "send_server_key_exchange", S12!do_send_server_key_exchange(ep["server"]))
  BY <1>3, <1>4, <1>13, S12SendServerKeyExchange
<1>14. CASE Do("server", "send_server_hello_done", S12!do_send_server_hello_done(ep["server"]))
  BY <1>3, <1>4, <1>14, S12SendServerHelloDone
<1>15. CASE Do("server", "read_client_certificate", S12!do_read_client_certificate(ep["server"]))
  BY <1>3, <1>4, <1>15, S12ReadClientCertificate
<1>16. CASE Do("server", "verify_client_certificate", S12!do_verify_client_certificate(ep["server"]))
  BY <1>3, <1>4, <1>16, S12VerifyClientCertificate
<1>17. CASE Do("server", "read_client_key_exchange", S12!do_read_client_key_exchange(ep["server"]))
  BY <1>3, <1>4, <1>17, S12ReadClientKeyExchange
<1>18. CASE Do("server", "read_client_certificate_verify", S12!do_read_client_certificate_verify(ep["server"]))
  BY <1>3, <1>4, <1>18, S12ReadClientCertificateVerify
<1>19. CASE Do("server", "read_change_cipher_spec", S12!do_read_change_cipher_spec(ep["server"]))
  BY <1>3, <1>4, <1>19, S12ReadChangeCipherSpec
<1>20. CASE Do("server", "process_change_cipher_spec", S12!do_process_change_cipher_spec(ep["server"]))
  BY <1>3, <1>4, <1>20, S12ProcessChangeCipherSpec
<1>21. CASE Do("server", "read_client_finished", S12!do_read_client_finished(ep["server"]))
  BY <1>3, <1>4, <1>21, S12ReadClientFinished
<1>22. CASE Do("server", "send_server_finished", S12!do_send_server_finished(ep["server"]))
  BY <1>3, <1>4, <1>22, S12SendServerFinished
<1>23. CASE Do("server", "finish_server_handshake", S12!do_finish_server_handshake(ep["server"]))
  BY <1>3, <1>4, <1>23, S12FinishServerHandshake
<1> QED BY <1>6, <1>7, <1>8, <1>9, <1>10, <1>11, <1>12, <1>13, <1>14, <1>15, <1>16, <1>17, <1>18,
           <1>19, <1>20, <1>21, <1>22, <1>23, Zenon DEF ssl_server_handshake

\* ... and of TLS 1.3.
LEMMA ServerHandshake13 ==
    ASSUME Inv, tls13_server_handshake
    PROVE  Inv'
<1> DEFINE e == ep["server"]
           g == ep[Peer("server")]
<1>1. "server" \in Sides /\ Peer("server") = "client"
  BY DEF Sides, Peer
<1>2. Good(e, g) /\ e.side = "server" /\ g.side = Peer("server")
  BY <1>1, AtRest
<1>3. ASSUME NEW f, Steps(e, f, g), Update("server", f) PROVE Inv'
  BY <1>1, <1>3, Stepping
<1>4. ASSUME NEW s, NEW f, Do("server", s, f) PROVE Turn(e, g, "server", s) /\ Update("server", f)
  BY <1>2, <1>4 DEF Do, Turn
<1>5. ASSUME NEW s, NEW f, Do13("server", s, f)
      PROVE  Turn(e, g, "server", "tls13") /\ e.tls13_state = s /\ Update("server", f)
  BY <1>4, <1>5 DEF Do13
<1> HIDE DEF g
<1>6. CASE Do13("server", "select_session", S13!do_select_session(ep["server"]))
  BY <1>3, <1>5, <1>6, S13SelectSession
<1>7. CASE Do13("server", "send_hello_retry_request", S13!do_send_hello_retry_request(ep["server"]))
  BY <1>3, <1>5, <1>7, S13SendHelloRetryRequest
<1>8. CASE Do13("server", "read_second_client_hello", S13!do_read_second_client_hello(ep["server"]))
  BY <1>3, <1>5, <1>8, S13ReadSecondClientHello
<1>9. CASE Do13("server", "send_server_hello", S13!do_send_server_hello(ep["server"]))
  BY <1>3, <1>5, <1>9, S13SendServerHello
<1>10. CASE Do13("server", "send_server_certificate_verify", S13!do_send_server_certificate_verify(ep["server"]))
  BY <1>3, <1>5, <1>10, S13SendServerCertificateVerify
<1>11. CASE Do13("server", "send_server_finished", S13!do_send_server_finished(ep["server"]))
  BY <1>3, <1>5, <1>11, S13SendServerFinished
<1>12. CASE Do13("server", "send_half_rtt_ticket", S13!do_send_half_rtt_ticket(ep["server"]))
  BY <1>3, <1>5, <1>12, S13SendHalfRttTicket
<1>13. CASE Do13("server", "process_end_of_early_data", S13!do_process_end_of_early_data(ep["server"]))
  BY <1>3, <1>5, <1>13, S13ProcessEndOfEarlyData
<1>14. CASE Do13("server", "read_client_certificate", S13!do_read_client_certificate(ep["server"]))
  BY <1>3, <1>5, <1>14, S13ReadClientCertificate
<1>15. CASE Do13("server", "read_client_certificate_verify", S13!do_read_client_certificate_verify(ep["server"]))
  BY <1>3, <1>5, <1>15, S13ReadClientCertificateVerify
<1>16. CASE Do13("server", "read_client_finished", S13!do_read_client_finished(ep["server"]))
  BY <1>3, <1>5, <1>16, S13ReadClientFinished
<1>17. CASE Do13("server", "send_new_session_ticket", S13!do_send_new_session_ticket(ep["server"]))
  BY <1>3, <1>5, <1>17, S13SendNewSessionTicket
<1>18. CASE Do13("server", "done", To(ep["server"], "finish_server_handshake"))
  BY <1>3, <1>5, <1>18, S13Done
<1> QED BY <1>6, <1>7, <1>8, <1>9, <1>10, <1>11, <1>12, <1>13, <1>14, <1>15, <1>16, <1>17, <1>18,
           Zenon DEF tls13_server_handshake

-----------------------------------------------------------------------------
(***************************************************************************)
(* The invariant and the properties.                                       *)
(***************************************************************************)
\* A step of the call that is being made.
LEMMA StepInv == ASSUME Inv, Step PROVE Inv'
<1>1. ASSUME NEW p \in Sides, Flush(p) \/ Open(p) \/ WantRead(p) \/ WantCallback(p) \/ ReadData(p)
      PROVE  Inv'
  <2> DEFINE e == ep[p]
             g == ep[Peer(p)]
  <2>1. Good(e, g)
    BY AtRest
  <2>2. ASSUME NEW f, Steps(e, f, g), Update(p, f) PROVE Inv'
    BY <2>2, Stepping
  <2> HIDE DEF g
  <2>3. CASE Flush(p)
    BY <2>1, <2>2, <2>3, GoodFlush DEF Flush
  <2>4. CASE Open(p)
    BY <2>1, <2>2, <2>4, GoodOpenRecord DEF Open
  <2>5. CASE WantRead(p)
    BY <2>1, <2>2, <2>5, GoodReturn DEF WantRead
  <2>6. CASE WantCallback(p)
    <3>1. CASE Update(p, Error(e, "read_failed"))
      BY <2>1, <2>2, <3>1, GoodError
    <3>2. CASE Update(p, [Wait(e, "ok") EXCEPT !.running = FALSE])
      BY <2>1, <2>2, <2>6, <3>2, GoodWantCallback DEF WantCallback
    <3> QED BY <2>6, <3>1, <3>2, Zenon DEF WantCallback
  <2>7. CASE ReadData(p)
    BY <2>1, <2>2, <2>7, GoodSSLRead DEF ReadData, Completed
  <2> QED BY <1>1, <2>3, <2>4, <2>5, <2>6, <2>7
<1> QED BY <1>1, ClientHandshake, ClientHandshake13, ServerHandshake, ServerHandshake13,
           Zenon DEF Step

\* The channel reads what the peer has written.
LEMMA ReceiveInv ==
    ASSUME Inv, NEW p \in Sides, NEW n \in 0..Len(ep[Peer(p)].outbound), Receive(p, n)
    PROVE  Inv'
<1> DEFINE q == Peer(p)
           e == ep[p]
           g == ep[q]
           f == [[e EXCEPT !.inbound = @ \o SubSeq(g.outbound, 1, n)] EXCEPT !.running = TRUE]
           h == [g EXCEPT !.outbound = SubSeq(@, n + 1, Len(@))]
<1>1. q \in Sides /\ q # p /\ Peer(q) = p /\ \A r \in Sides : r = p \/ r = q
  BY Sidedness
<1>2. Good(e, g) /\ e.side = p /\ Good(g, e) /\ g.side = q
  BY <1>1, AtRest
<1>3. Steps(e, f, g)
  BY <1>2, GoodReceive DEF Good, Wire, Carries
<1>4. Steps(g, h, e)
  BY <1>2, GoodSent
<1>5. Good(f, h) /\ Good(h, f) /\ f.side = p /\ h.side = q
  <2> HIDE DEF f, h, e, g
  <2> QED BY <1>2, <1>3, <1>4, PeerGrows DEF Steps, Grows
<1>6. ep' = [r \in Sides |-> ep'[r]] /\ ep'[p] = f /\ ep'[q] = h
  BY <1>1 DEF Receive, Inv
<1>7. Peer(p) = q
  OBVIOUS
<1> HIDE DEF f, h, e, g, q
<1>8. \A r \in Sides : ep'[r].side = r /\ Good(ep'[r], ep'[Peer(r)])
  BY <1>1, <1>5, <1>6, <1>7
<1> QED BY <1>6, <1>8 DEF Inv

\* What brings the next call about.
LEMMA EventInv == ASSUME Inv, NEW p \in Sides, Event(p) PROVE Inv'
<1> DEFINE e == ep[p]
           g == ep[Peer(p)]
<1>1. Good(e, g)
  BY AtRest
<1>2. ASSUME NEW f, Steps(e, f, g), Update(p, f) PROVE Inv'
  BY <1>2, Stepping
<1>3. Len(g.outbound) \in Nat
  <2>1. Good(g, e)
    BY Sidedness, AtRest
  <2> QED BY <2>1, SeqLen DEF Good, Wire, Carries, SoundRecords
<1> HIDE DEF g
<1>4. CASE Start(p)
  BY <1>1, <1>2, <1>4, GoodReturn DEF Start, Enter
<1>5. CASE AnswerVerify(p)
  BY <1>1, <1>2, <1>5, GoodAnswerVerify DEF AnswerVerify, Enter
<1>6. CASE AnswerKey(p)
  BY <1>1, <1>2, <1>6, GoodAnswerKey DEF AnswerKey, Enter
<1>7. CASE ChannelInactive(p)
  BY <1>1, <1>2, <1>7, GoodError DEF ChannelInactive
<1>8. CASE \E n \in 1..Len(ep[Peer(p)].outbound) : Receive(p, n)
  BY <1>3, <1>8, ReceiveInv DEF g
<1> QED BY <1>4, <1>5, <1>6, <1>7, <1>8, Zenon DEF Event

\* Every step keeps the invariant.
LEMMA NextInv == ASSUME Inv, [Next]_vars PROVE Inv'
<1>1. CASE Step
  BY <1>1, StepInv
<1>2. ASSUME NEW p \in Sides, Event(p) PROVE Inv'
  BY <1>2, EventInv
<1>3. ASSUME NEW p \in Sides, Receive(p, 0) PROVE Inv'
  <2>1. Good(ep[Peer(p)], ep[p])
    BY Sidedness, AtRest
  <2>2. 0 \in 0..Len(ep[Peer(p)].outbound)
    BY <2>1, SeqLen DEF Good, Wire, Carries, SoundRecords
  <2> QED BY <1>3, <2>2, ReceiveInv
<1>4. ASSUME NEW p \in Sides, WriteData(p) PROVE Inv'
  <2>1. Steps(ep[p], Data!SSL_write(ep[p]), ep[Peer(p)])
    BY <1>4, AtRest, GoodSSLWrite DEF WriteData, Use, Established, Completed
  <2> QED BY <1>4, <2>1, Stepping DEF WriteData, Use
<1>5. ASSUME NEW p \in Sides, NEW requested, UpdateKey(p, requested) PROVE Inv'
  <2>1. Steps(ep[p], Data!SSL_key_update(ep[p], requested), ep[Peer(p)])
    BY <1>5, AtRest, GoodKeyUpdate DEF UpdateKey, Use, Established, Completed
  <2> QED BY <1>5, <2>1, Stepping DEF UpdateKey, Use
<1>6. CASE RequestRenegotiation
  <2> DEFINE e == ep["server"]
             f == [Data!Renewed(e) EXCEPT
                         !.state = "read_client_hello",
                         !.outbound = Append(@, Record("handshake", e.write_key,
                                                       <<[type |-> "hello_request"]>>))]
  <2>1. e.state = "done" /\ Update("server", f)
    BY <1>6, Zenon DEF RequestRenegotiation, Use, Established, Completed
  <2>2. "server" \in Sides
    BY DEF Sides
  <2>3. Steps(e, f, ep[Peer("server")])
    BY <2>1, <2>2, AtRest, GoodRequestRenegotiation
  <2> HIDE DEF f
  <2> QED BY <2>1, <2>2, <2>3, Stepping
<1>7. CASE UNCHANGED vars
  BY <1>7 DEF vars, Inv
<1> QED BY <1>1, <1>2, <1>3, <1>4, <1>5, <1>6, <1>7, Zenon DEF Next

\* Both endpoints are in order in every reachable state, whatever the two are
\* configured with, however records are cut and whenever the callbacks answer.
THEOREM Invariance == Spec => []Inv
<1>1. Init => Inv
  BY InitInv
<1>2. Inv /\ [Next]_vars => Inv'
  BY NextInv
<1> QED BY <1>1, <1>2, PTL DEF Spec

-----------------------------------------------------------------------------
\* The fields of both endpoints hold what they are meant to hold.
THEOREM TypeCorrect == Spec => []TypeOK
<1>1. Inv => TypeOK
  <2> SUFFICES ASSUME Inv, NEW p \in Sides
               PROVE  LET e == ep[p]
                      IN  /\ e.side = p /\ e.cfg \in Config
                          /\ e.running \in BOOLEAN /\ e.version \in {0, 12, 13}
                          /\ e.wait \in Reading \cup {"ok", "flush", "error", "certificate_verify",
                                                     "private_key_operation"}
                          /\ e.session_reused \in BOOLEAN /\ e.used_hello_retry_request \in BOOLEAN
                          /\ e.cert_request \in BOOLEAN /\ e.ticket_expected \in BOOLEAN
                          /\ e.key_share \in 0..2 /\ e.peer \in {"none", Peer(p)}
                          /\ e.verify \in {"notStarted", "pending", "ok", "invalid"}
                          /\ e.pending_private_key_op \in BOOLEAN
                          /\ e.key_result \in {"none", "signature", "failure"}
                          /\ Len(e.pending_hs_data) <= MaxFragment
                          /\ \A q \in {e.inbound, e.pending_flight, e.outbound} :
                                 \A i \in 1..Len(q) : Len(q[i].units) <= MaxFragment
    BY Zenon DEF TypeOK
  <2>1. Typed(ep[p]) /\ Wire(ep[p], ep[Peer(p)]) /\ ep[p].side = p
    BY AtRest DEF Good
  <2>2. ep[p].peer \in {"none", Peer(p)}
    BY <2>1 DEF Typed
  <2>3. ep[p].wait \in Reading \cup {"ok", "flush", "error", "certificate_verify",
                                    "private_key_operation"}
    BY <2>1 DEF Typed, Waits
  <2>4. /\ Len(ep[p].pending_hs_data) <= MaxFragment
        /\ \A q \in {ep[p].inbound, ep[p].pending_flight, ep[p].outbound} :
               \A i \in 1..Len(q) : Len(q[i].units) <= MaxFragment
    BY <2>1 DEF Wire, Carries, SoundRecords
  <2> QED BY <2>1, <2>2, <2>3, <2>4, Zenon DEF Typed
<1> QED BY <1>1, Invariance, PTL

\* An endpoint that verifies completes only when the other one has signed and
\* its certificate has been accepted.
THEOREM AuthenticatedPeers == Spec => []Authenticated
<1>1. Inv => Authenticated
  <2> SUFFICES ASSUME Inv, NEW p \in Sides, Completed(ep[p]), ~ep[p].session_reused,
                      ep[p].cfg.verify, ep[p].cfg.verifyLater => ep[p].total_renegotiations > 0
               PROVE  LET e == ep[p]
                          f == ep[Peer(p)]
                      IN  /\ e.peer = Peer(p)
                          /\ \/ e.cfg.trusts /\ (e.cfg.callback => e.verify = "ok")
                             \/ p = "client" /\ e.cfg.session # 0 /\ e.total_renegotiations > 0
                          /\ f.signatures > 0 /\ (f.cfg.customKey => f.key_result = "signature")
    BY Zenon DEF Authenticated
  <2> DEFINE e == ep[p]
             g == ep[Peer(p)]
  <2>1. Trust(e, g) /\ e.side = p /\ e.state = "done"
    BY AtRest DEF Good, Completed
  <2>2. Verifying(e)
    BY DEF Verifying
  <2> HIDE DEF g
  <2>3. CASE p = "client"
    <3>1. At(e, Proved12 \cup {"read_server_key_exchange", "verify_server_certificate"},
                Proved13 \cup {"read_server_certificate_verify"})
          /\ At(e, Proved12 \cup {"read_server_key_exchange"}, Proved13)
          /\ At(e, Proved12, Proved13)
      BY <2>1 DEF At, Proved12
    <3>2. e.peer = "server" /\ Judged(e) /\ Signed(g)
      BY <2>1, <2>3, <3>1, Zenon DEF Trust, ClientTrust
    <3> QED BY <2>1, <2>3, <3>2, Zenon DEF Judged, Accepted, Signed, Peer, g
  <2>4. CASE p = "server"
    <3>1. At(e, Checked12 \cup {"send_server_hello", "send_server_certificate",
                             "send_server_key_exchange", "send_server_hello_done",
                             "read_client_certificate", "verify_client_certificate",
                             "read_client_key_exchange", "read_client_certificate_verify"},
             Checked13 \cup {"send_server_certificate_verify", "send_server_finished",
                             "send_half_rtt_ticket", "process_end_of_early_data",
                             "read_client_certificate", "read_client_certificate_verify"})
          /\ At(e, Checked12, Checked13)
      BY <2>1 DEF At, Checked12
    <3>2. ServerTrust(e, g)
      BY <2>1, <2>4 DEF Trust
    <3>3. e.peer = "client" /\ Accepted(e) /\ Signed(g)
      BY <2>2, <3>1, <3>2, Zenon DEF ServerTrust
    <3> QED BY <2>1, <2>4, <3>3, Zenon DEF Accepted, Signed, Peer, g
  <2> QED BY <2>3, <2>4 DEF Sides
<1> QED BY <1>1, Invariance, PTL

\* No question is put to the user twice.
THEOREM AsksOnce == Spec => []AskedOnce
<1>1. Inv => AskedOnce
  BY AtRest DEF AskedOnce, Good, Asking
<1> QED BY <1>1, Invariance, PTL

\* An endpoint that waits for the peer has sent all it has for it.
THEOREM HoldsNothingBack == Spec => []NothingHeldBack
<1>1. Inv => NothingHeldBack
  <2> SUFFICES ASSUME Inv, NEW p \in Sides, ep[p].wait \in Reading
               PROVE  Quiet(ep[p])
    BY DEF NothingHeldBack, Quiet
  <2>1. Buffers(ep[p])
    BY AtRest DEF Good
  <2> QED BY <2>1 DEF Buffers, Reading
<1> QED BY <1>1, Invariance, PTL

\* The handshake ends with no handshake data left over.
THEOREM LeavesNothingOver == Spec => []NothingLeftOver
<1>1. Inv => NothingLeftOver
  <2> SUFFICES ASSUME Inv PROVE NothingLeftOver
    OBVIOUS
  <2>1. ASSUME NEW p \in Sides PROVE Buffers(ep[p]) /\ ep[p].side = p
    BY AtRest DEF Good
  <2>2. Client.state = "finish_client_handshake" => Client.hs_buf = <<>>
    BY <2>1 DEF Client, Sides, Buffers, Emptied, At
  <2>3. Server.state = "finish_server_handshake" => Server.hs_buf = <<>>
    BY <2>1 DEF Server, Sides, Buffers, Emptied, At
  <2> QED BY <2>2, <2>3 DEF NothingLeftOver
<1> QED BY <1>1, Invariance, PTL
=============================================================================
