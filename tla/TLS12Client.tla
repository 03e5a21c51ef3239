----------------------------- MODULE TLS12Client -----------------------------
(***************************************************************************)
(* handshake_client.cc: the client's first flight, which every version     *)
(* has, and its handshake in TLS 1.2 with ECDHE and an extended master     *)
(* secret, in full or abbreviated by a session.  False start, stapled OCSP *)
(* responses, NPN and channel IDs are never negotiated by NIOSSL.          *)
(***************************************************************************)
EXTENDS HandshakeLayer

\* tls1_change_cipher_state: the key block comes from the master secret and the
\* two randoms, which the hellos stand for.
key(e, side) ==
    Key("tls12", side, [master |-> e.secret, hellos |-> SubSeq(e.transcript, 1, 2)])

do_start_connect(e) ==
    LET f == [e EXCEPT !.key_share = e.cfg.groups[1]]
    IN  Wait(To(AddMessage(f, ClientHello(f)), "read_server_hello"), "flush")

do_read_server_hello(e) ==
    LET m == Message(e)
        f == [e EXCEPT !.version = m.version]
        g == Take([f EXCEPT !.session_reused = m.reused, !.ticket_expected = m.ticket])
        master == [psk |-> TRUE, dhe |-> 0, transcript |-> <<>>]
    IN  IF ~HasMessage(e) THEN Wait(e, "read_server_hello")
        ELSE IF m.type \notin {"server_hello", "hello_retry_request"}
        THEN Alert(e, "unexpected_message")
        ELSE IF m.version \notin e.cfg.versions \/ (e.established # "none" /\ m.version # e.version)
        THEN Alert(e, "protocol_version")
        ELSE IF m.version = 13
        THEN To13(To(f, "tls13"), "read_hello_retry_request")
        ELSE IF \/ m.downgrade /\ 13 \in e.cfg.versions /\ e.established = "none"
                \/ m.reused /\ ClientHello(e).session # 12
        THEN Alert(f, "illegal_parameter")
        ELSE IF m.reused THEN To([g EXCEPT !.secret = master, !.peer = "server"], "read_session_ticket")
        ELSE To(g, "read_server_certificate")

do_read_server_certificate(e) == Expect(e, "certificate",
    IF Message(e).cert = "none" THEN Alert(HashMessage(e), "decode_error")
    ELSE To(Take([e EXCEPT !.peer = Message(e).cert]), "verify_server_certificate"))

do_verify_server_certificate(e) == AfterVerify(e, To(e, "read_server_key_exchange"))

\* The signature covers the two randoms and the parameters.
do_read_server_key_exchange(e) == Expect(e, "server_key_exchange",
    LET m == Message(e)
    IN  IF \A i \in 1..Len(e.cfg.groups) : e.cfg.groups[i] # m.group
        THEN Alert(HashMessage(e), "illegal_parameter")
        ELSE IF ~SignedBy(m, e, SubSeq(e.transcript, 1, 2))
        THEN Alert(HashMessage(e), "decrypt_error")
        ELSE To(Take([e EXCEPT !.key_share = m.group]), "read_certificate_request"))

do_read_certificate_request(e) ==
    IF HasMessage(e) /\ Message(e).type = "server_hello_done" THEN To(e, "read_server_hello_done")
    ELSE Expect(e, "certificate_request",
             To(Take([e EXCEPT !.cert_request = TRUE]), "read_server_hello_done"))

do_read_server_hello_done(e) == Expect(e, "server_hello_done",
    IF Excess(e) THEN Alert(HashMessage(e), "unexpected_message")
    ELSE To(Take(e), "send_client_certificate"))

do_send_client_certificate(e) ==
    IF ~e.cert_request THEN To(e, "send_client_key_exchange")
    ELSE To(AddMessage(e, Certificate(e)), "send_client_key_exchange")

\* The extended master secret covers the transcript up to this message.
do_send_client_key_exchange(e) ==
    LET f == AddMessage(e, [type |-> "client_key_exchange", group |-> e.key_share])
    IN  To([f EXCEPT !.secret = [psk |-> FALSE, dhe |-> f.key_share, transcript |-> f.transcript]],
           "send_client_certificate_verify")

do_send_client_certificate_verify(e) ==
    IF ~e.cert_request \/ ~e.cfg.cert THEN To(e, "send_client_finished")
    ELSE AfterSign(e, To(AddMessage(e, CertificateVerify(e)), "send_client_finished"))

do_send_client_finished(e) ==
    LET f == SetWriteKey(AddChangeCipherSpec(e), key(e, "client"))
    IN  Wait(To(AddMessage(f, Finished("client", f)), "finish_flight"), "flush")

do_finish_flight(e) ==
    To(e, IF e.session_reused THEN "finish_client_handshake" ELSE "read_session_ticket")

do_read_session_ticket(e) ==
    LET f == To(e, "process_change_cipher_spec")
    IN  IF ~e.ticket_expected THEN Wait(f, "read_change_cipher_spec")
        ELSE Expect(e, "new_session_ticket", Wait(Take(f), "read_change_cipher_spec"))

do_process_change_cipher_spec(e) ==
    SetReadKey(e, key(e, "server"), To(e, "read_server_finished"))

\* Mutant of do_read_server_finished: the message is not taken.
do_read_server_finished_Left(e) == Expect(e, "finished",
    To(HashMessage(e), IF e.session_reused THEN "send_client_finished"
                       ELSE "finish_client_handshake"))

\* ssl_get_finished, and who is next.
do_read_server_finished(e) == Expect(e, "finished",
    IF Message(e) # Finished("server", e) THEN Alert(HashMessage(e), "decrypt_error")
    ELSE IF Excess(e) THEN Alert(HashMessage(e), "unexpected_message")
    ELSE To(Take(e), IF e.session_reused THEN "send_client_finished"
                     ELSE "finish_client_handshake"))

\* The handler goes on to read in the same call (completeHandshake).
do_finish_client_handshake(e) == [e EXCEPT !.state = "done", !.established = e.peer]
=============================================================================
