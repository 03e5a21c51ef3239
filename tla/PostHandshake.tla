---------------------------- MODULE PostHandshake ----------------------------
(***************************************************************************)
(* An established connection: application data (s3_pkt.cc, ssl_lib.cc),    *)
(* the messages of TLS 1.3 that come between it (tls13_both.cc), and in    *)
(* TLS 1.2 the client's renegotiation.  Of the data only its amount is     *)
(* modelled, one unit for each SSL_write.                                  *)
(***************************************************************************)
EXTENDS HandshakeLayer

CONSTANT MaxKeyUpdates  \* kMaxKeyUpdates

\* tls13_rotate_traffic_key: the secret is replaced by one derived from it.
Rotated(key) == [key EXCEPT !.generation = @ + 1]

\* Mutant of tls13_add_key_update: the key is replaced before the message is written.
tls13_add_key_update_Early(e, requested) ==
    LET f == SetWriteKey(e, Rotated(e.write_key))
    IN  [AddMessage(f, [type |-> "key_update", requested |-> requested]) EXCEPT
             !.key_update_pending = TRUE, !.transcript = e.transcript]

\* Not part of any transcript: the SSL_HANDSHAKE is gone.
tls13_add_key_update(e, requested) ==
    LET f == AddMessage(e, [type |-> "key_update", requested |-> requested])
    IN  [SetWriteKey(f, Rotated(f.write_key)) EXCEPT !.key_update_pending = TRUE,
                                                     !.transcript = e.transcript]

\* Mutant of SSL_key_update: KeyUpdates are not suppressed.
SSL_key_update_Always(e, requested) == tls13_add_key_update(e, requested)

SSL_key_update(e, requested) ==
    IF e.key_update_pending THEN e ELSE tls13_add_key_update(e, requested)

\* A request is not acknowledged while a KeyUpdate waits to be written.
tls13_receive_key_update(e) ==
    LET f == [e EXCEPT !.read_key = Rotated(@), !.key_update_count = @ + 1]
    IN  IF Excess(e) THEN Alert(e, "unexpected_message")
        ELSE NextMessage(IF Message(e).requested THEN SSL_key_update(f, FALSE) ELSE f)

tls13_post_handshake(e) ==
    CASE Message(e).type = "key_update" /\ e.key_update_count < MaxKeyUpdates ->
             tls13_receive_key_update(e)
      [] Message(e).type = "new_session_ticket" /\ e.side = "client" ->
             NextMessage([e EXCEPT !.key_update_count = 0])
      [] OTHER -> Alert(e, "unexpected_message")

-----------------------------------------------------------------------------
\* A new SSL_HANDSHAKE on the connection (ssl_handshake_new).
Renewed(e) ==
    [NewEndpoint(e.side, e.cfg) EXCEPT
         !.running = e.running, !.version = e.version, !.established = e.established,
         !.total_renegotiations = e.total_renegotiations + 1,
         !.read_key = e.read_key, !.write_key = e.write_key,
         !.inbound = e.inbound, !.hs_buf = e.hs_buf, !.outbound = e.outbound,
         !.sent = e.sent, !.received = e.received,
         !.verify = e.verify, !.key_result = e.key_result,
         !.callbacks = e.callbacks, !.signatures = e.signatures]

ssl_can_renegotiate(e) == \/ e.cfg.renegotiation = "always"
                          \/ e.cfg.renegotiation = "once" /\ e.total_renegotiations = 0

ssl_do_post_handshake(e) ==
    IF e.version = 13 THEN tls13_post_handshake(e)
    ELSE IF Message(e).type # "hello_request" THEN Alert(e, "decode_error")
    ELSE IF ~ssl_can_renegotiate(e) THEN Alert(e, "no_renegotiation")
    ELSE NextMessage(Renewed(e))

-----------------------------------------------------------------------------
\* tls_open_app_data on the next record.
OpenAppData(e) ==
    LET r == Head(e.inbound)
        f == [e EXCEPT !.inbound = Tail(@)]
    IN  IF r.key # e.read_key THEN Alert(f, "bad_record_mac")
        ELSE IF r.type = "alert" THEN Error(f, "peer_alert")
        ELSE IF r.type # "handshake" /\ e.hs_buf # <<>> THEN Alert(f, "unexpected_message")
        ELSE CASE r.type = "handshake" ->
                      IF e.side = "server" /\ e.version = 12 THEN Alert(f, "no_renegotiation")
                      ELSE [f EXCEPT !.hs_buf = @ \o r.units]
               [] r.type = "application_data" ->
                      [f EXCEPT !.received = @ + 1, !.key_update_count = 0]
               [] OTHER -> Alert(f, "unexpected_message")

\* A turn of the loop of ssl_read_impl, which ends when it wants to read.
SSL_read(e) == IF HasMessage(e) THEN ssl_do_post_handshake(e)
               ELSE IF e.inbound # <<>> THEN OpenAppData(e)
               ELSE [e EXCEPT !.running = FALSE]

\* tls_write_app_data: what the flight still holds goes first.
SSL_write(e) ==
    [FlushFlight(e) EXCEPT
         !.outbound = Append(@, Record("application_data", e.write_key, <<>>)),
         !.sent = @ + 1, !.key_update_pending = FALSE]
=============================================================================
