----------------------------- MODULE TLS13Server -----------------------------
(***************************************************************************)
(* tls13_server.cc: the server of TLS 1.3, from a ClientHello whose        *)
(* version has been negotiated.  What NIOSSL never enables (see            *)
(* TLS13Client) is passed through here, too.                               *)
(***************************************************************************)
EXTENDS HandshakeLayer

hs(e, side) == Key("handshake", side, e.secret)

\* select_session, the group, and the key share or the request for another one.
do_select_session(e) ==
    LET m      == Message(e)
        reused == m.session = 13 /\ e.cfg.resumes
        group  == SharedGroup(m.groups, e)
        f      == HashMessage([e EXCEPT !.session_reused = reused, !.key_share = group])
    IN  IF reused /\ m.binder # e.transcript THEN Alert(e, "decrypt_error")
        ELSE IF group = 0 THEN Alert(e, "handshake_failure")
        ELSE IF m.key_share # group
        THEN To13(UpdateForHelloRetryRequest(NextMessage(f)), "send_hello_retry_request")
        ELSE To13(NextMessage(f), "send_server_hello")

do_send_hello_retry_request(e) ==
    LET f == AddMessage(e, [type |-> "hello_retry_request", version |-> 13, group |-> e.key_share])
    IN  Wait(To13([AddChangeCipherSpec(f) EXCEPT !.used_hello_retry_request = TRUE],
                  "read_second_client_hello"), "flush")

do_read_second_client_hello(e) == Expect(e, "client_hello",
    LET m == Message(e)
    IN  IF e.session_reused /\ m.session # 13 THEN Alert(e, "illegal_parameter")
        ELSE IF e.session_reused /\ m.binder # e.transcript THEN Alert(e, "decrypt_error")
        ELSE IF m.key_share # e.key_share THEN Alert(e, "illegal_parameter")
        ELSE IF Excess(e) THEN Alert(HashMessage(e), "unexpected_message")
        ELSE To13(Take(e), "send_server_hello"))

\* What follows ServerHello in every handshake.
AddExtensions(e) ==
    LET f == AddMessage(e, [type |-> "encrypted_extensions"])
    IN  IF e.cert_request THEN AddMessage(f, [type |-> "certificate_request"]) ELSE f

\* ServerHello and everything up to the certificate.
do_send_server_hello(e) ==
    LET hello   == [type |-> "server_hello", version |-> 13, reused |-> e.session_reused,
                    key_share |-> e.key_share, downgrade |-> FALSE, ticket |-> FALSE]
        request == e.cfg.verify /\ ~e.session_reused
        secret  == [psk |-> e.session_reused, dhe |-> e.key_share,
                    transcript |-> Append(e.transcript, hello)]
        f == AddMessage([e EXCEPT !.secret = secret, !.cert_request = request], hello)
        g == SetWriteKey(IF e.used_hello_retry_request THEN f ELSE AddChangeCipherSpec(f),
                         Key("handshake", "server", secret))
        h == AddExtensions(g)
    IN  IF e.session_reused THEN To13(h, "send_server_finished")
        ELSE IF ~e.cfg.cert THEN Error(h, "no_certificate_set")
        ELSE To13(AddMessage(h, Certificate(e)), "send_server_certificate_verify")

do_send_server_certificate_verify(e) ==
    AfterSign(e, To13(AddMessage(e, CertificateVerify(e)), "send_server_finished"))

do_send_server_finished(e) ==
    LET f == AddMessage(e, Finished("server", e))
        g == [f EXCEPT !.app = [f.secret EXCEPT !.transcript = f.transcript]]
    IN  To13(SetWriteKey(g, Key("application", "server", g.app)), "send_half_rtt_ticket")

\* Mutant of do_send_half_rtt_ticket: the flight is not flushed.
do_send_half_rtt_ticket_Unflushed(e) == To13(e, "process_end_of_early_data")

do_send_half_rtt_ticket(e) == Wait(To13(e, "process_end_of_early_data"), "flush")

do_process_end_of_early_data(e) ==
    SetReadKey(e, hs(e, "client"), To13(e, "read_client_certificate"))

do_read_client_certificate(e) ==
    IF ~e.cert_request THEN To13(e, "read_client_finished")
    ELSE Expect(e, "certificate",
             IF Message(e).cert = "none" THEN Alert(e, "certificate_required")
             ELSE To13(Take([e EXCEPT !.peer = Message(e).cert]),
                       "read_client_certificate_verify"))

do_read_client_certificate_verify(e) ==
    IF e.peer = "none" THEN To13(e, "read_client_finished")
    ELSE IF ~HasMessage(e) THEN Wait(e, "read_message")
    ELSE AfterVerify(e, Expect(e, "certificate_verify",
             IF ~SignedBy(Message(e), e, e.transcript) THEN Alert(e, "decrypt_error")
             ELSE To13(Take(e), "read_client_finished")))

do_read_client_finished(e) == Expect(e, "finished",
    IF Message(e) # Finished("client", e) THEN Alert(e, "decrypt_error")
    ELSE IF Excess(e) THEN Alert(e, "unexpected_message")
    ELSE To13(Take([e EXCEPT !.read_key = Key("application", "client", e.app)]),
              "send_new_session_ticket"))

\* The tickets are written with the first data the server sends.
do_send_new_session_ticket(e) ==
    To13(IF e.cfg.tickets THEN AddMessage(e, [type |-> "new_session_ticket"]) ELSE e, "done")
=============================================================================
