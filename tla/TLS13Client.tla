----------------------------- MODULE TLS13Client -----------------------------
(***************************************************************************)
(* tls13_client.cc: the client of TLS 1.3, from the message that answered  *)
(* its ClientHello.  Early data, ECH, channel IDs and application settings *)
(* are never negotiated by NIOSSL; the states that exist only for them     *)
(* change nothing and are passed through here.                             *)
(***************************************************************************)
EXTENDS HandshakeLayer

hs(e, side) == Key("handshake", side, e.secret)

\* The flight begins with the ChangeCipherSpec of middlebox compatibility mode.
do_read_hello_retry_request(e) ==
    IF ~HasMessage(e) THEN Wait(e, "read_message")
    ELSE LET m == Message(e)
             f == AddChangeCipherSpec(e)
             g == HashMessage([UpdateForHelloRetryRequest(f) EXCEPT
                                   !.key_share = m.group, !.used_hello_retry_request = TRUE])
         IN  IF m.type # "hello_retry_request" THEN To13(f, "read_server_hello")
             ELSE IF m.group = e.key_share \/ \A i \in 1..Len(e.cfg.groups) : e.cfg.groups[i] # m.group
             THEN Alert(f, "illegal_parameter")
             ELSE IF Excess(e) THEN Alert(g, "unexpected_message")
             ELSE To13(NextMessage(g), "send_second_client_hello")

do_send_second_client_hello(e) ==
    Wait(To13(AddMessage(e, ClientHello(e)), "read_server_hello"), "flush")

do_read_server_hello(e) == Expect(e, "server_hello",
    LET m == Message(e)
        f == HashMessage([e EXCEPT !.session_reused = m.reused,
                                   !.peer = IF m.reused THEN "server" ELSE @])
        g == [f EXCEPT !.secret = [psk |-> m.reused, dhe |-> m.key_share,
                                   transcript |-> f.transcript]]
        h == SetWriteKey(g, hs(g, "client"))
    IN  IF m.key_share # e.key_share \/ (m.reused /\ ClientHello(e).session # 13)
        THEN Alert(e, "illegal_parameter")
        ELSE IF Excess(h) THEN Alert(h, "unexpected_message")
        ELSE To13(NextMessage([h EXCEPT !.read_key = hs(h, "server")]),
                  "read_encrypted_extensions"))

do_read_encrypted_extensions(e) == Expect(e, "encrypted_extensions",
    To13(Take(e), "read_certificate_request"))

\* The request is optional: another message is left for the next state.
do_read_certificate_request(e) ==
    IF e.session_reused THEN To13(e, "read_server_finished")
    ELSE IF ~HasMessage(e) THEN Wait(e, "read_message")
    ELSE IF Message(e).type # "certificate_request" THEN To13(e, "read_server_certificate")
    ELSE To13(Take([e EXCEPT !.cert_request = TRUE]), "read_server_certificate")

do_read_server_certificate(e) == Expect(e, "certificate",
    IF Message(e).cert = "none" THEN Alert(e, "certificate_required")
    ELSE To13(Take([e EXCEPT !.peer = Message(e).cert]), "read_server_certificate_verify"))

\* Mutant of do_read_server_certificate_verify: the message is hashed on every entry.
do_read_server_certificate_verify_Hashed(e) ==
    IF ~HasMessage(e) THEN Wait(e, "read_message")
    ELSE AfterVerify(HashMessage(e), Expect(e, "certificate_verify",
             IF ~SignedBy(Message(e), e, e.transcript) THEN Alert(e, "decrypt_error")
             ELSE To13(Take(e), "read_server_finished")))

\* The certificate is judged before the message is looked at.
do_read_server_certificate_verify(e) ==
    IF ~HasMessage(e) THEN Wait(e, "read_message")
    ELSE AfterVerify(e, Expect(e, "certificate_verify",
             IF ~SignedBy(Message(e), e, e.transcript) THEN Alert(e, "decrypt_error")
             ELSE To13(Take(e), "read_server_finished")))

\* Mutant of do_read_server_finished: the application secrets do not cover the server's Finished.
do_read_server_finished_Early(e) == Expect(e, "finished",
    IF Message(e) # Finished("server", e) THEN Alert(e, "decrypt_error")
    ELSE To13(Take([e EXCEPT !.app = [e.secret EXCEPT !.transcript = e.transcript]]),
              "send_client_certificate"))

do_read_server_finished(e) == Expect(e, "finished",
    LET f == HashMessage(e)
        g == [f EXCEPT !.app = [e.secret EXCEPT !.transcript = f.transcript]]
    IN  IF Message(e) # Finished("server", e) THEN Alert(e, "decrypt_error")
        ELSE IF Excess(g) THEN Alert(g, "unexpected_message")
        ELSE To13(NextMessage(g), "send_client_certificate"))

do_send_client_certificate(e) ==
    IF ~e.cert_request THEN To13(e, "complete_second_flight")
    ELSE To13(AddMessage(e, Certificate(e)), "send_client_certificate_verify")

do_send_client_certificate_verify(e) ==
    IF ~e.cfg.cert THEN To13(e, "complete_second_flight")
    ELSE AfterSign(e, To13(AddMessage(e, CertificateVerify(e)), "complete_second_flight"))

do_complete_second_flight(e) ==
    LET f == AddMessage(e, Finished("client", e))
        g == SetWriteKey(f, Key("application", "client", f.app))
    IN  SetReadKey(g, Key("application", "server", g.app), Wait(To13(g, "done"), "flush"))
=============================================================================
