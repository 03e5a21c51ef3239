----------------------------- MODULE TLS12Server -----------------------------
(***************************************************************************)
(* handshake_server.cc: the server's reading of a ClientHello, which every *)
(* version has, and its handshake in TLS 1.2; see TLS12Client for what of  *)
(* TLS 1.2 is left out.                                                    *)
(***************************************************************************)
EXTENDS HandshakeLayer

key(e, side) ==
    Key("tls12", side, [master |-> e.secret, hellos |-> SubSeq(e.transcript, 1, 2)])

do_start_accept(e) == To(e, "read_client_hello")

do_read_client_hello(e) == Expect(e, "client_hello",
    IF Excess(e) THEN Alert(e, "unexpected_message")
    ELSE To(e, "read_client_hello_after_ech"))

\* negotiate_version: the server's highest version that the client offers.
NegotiatedVersion(m, e) ==
    LET common == m.versions \cap e.cfg.versions
    IN  IF common = {} THEN 0 ELSE CHOOSE v \in common : \A w \in common : w <= v

do_read_client_hello_after_ech(e) ==
    LET v == NegotiatedVersion(Message(e), e)
    IN  IF v = 0 THEN Alert(e, "protocol_version")
        ELSE To([e EXCEPT !.version = v], "select_certificate")

\* A cipher of TLS 1.2 needs a certificate and a group in common.
do_select_certificate(e) ==
    IF e.version = 13 THEN To13(To(e, "tls13"), "select_session")
    ELSE IF ~e.cfg.cert \/ SharedGroup(Message(e).groups, e) = 0
    THEN Alert(e, "handshake_failure")
    ELSE To(e, "select_parameters")

\* SSL_VERIFY_PEER; a server other than BoringSSL may set it for a renegotiation.
Verifies(e) == e.cfg.verify /\ (e.cfg.verifyLater => e.established # "none")

do_select_parameters(e) == Expect(e, "client_hello",
    LET m      == Message(e)
        reused == m.session = 12 /\ e.cfg.resumes
        f      == [e EXCEPT !.session_reused = reused, !.ticket_expected = e.cfg.tickets,
                            !.key_share = SharedGroup(m.groups, e),
                            !.cert_request = ~reused /\ Verifies(e)]
    IN  To(Take(IF reused THEN [f EXCEPT !.secret = [psk |-> TRUE, dhe |-> 0, transcript |-> <<>>]]
                ELSE f),
           "send_server_hello"))

do_send_server_hello(e) ==
    LET f == AddMessage(e, [type |-> "server_hello", version |-> 12, reused |-> e.session_reused,
                            key_share |-> 0, downgrade |-> 13 \in e.cfg.versions,
                            ticket |-> e.ticket_expected])
    IN  To(f, IF e.session_reused THEN "send_server_finished" ELSE "send_server_certificate")

do_send_server_certificate(e) == To(AddMessage(e, Certificate(e)), "send_server_key_exchange")

do_send_server_key_exchange(e) ==
    LET m == [type |-> "server_key_exchange", group |-> e.key_share,
              key |-> e.side, over |-> SubSeq(e.transcript, 1, 2)]
    IN  AfterSign(e, To(AddMessage(e, m), "send_server_hello_done"))

do_send_server_hello_done(e) ==
    LET f == IF e.cert_request THEN AddMessage(e, [type |-> "certificate_request"]) ELSE e
    IN  Wait(To(AddMessage(f, [type |-> "server_hello_done"]), "read_client_certificate"), "flush")

do_read_client_certificate(e) ==
    IF ~e.cert_request THEN To(e, "verify_client_certificate")
    ELSE Expect(e, "certificate",
             IF Message(e).cert = "none" THEN Alert(HashMessage(e), "handshake_failure")
             ELSE To(Take([e EXCEPT !.peer = Message(e).cert]), "verify_client_certificate"))

do_verify_client_certificate(e) ==
    IF e.peer = "none" THEN To(e, "read_client_key_exchange")
    ELSE AfterVerify(e, To(e, "read_client_key_exchange"))

do_read_client_key_exchange(e) == Expect(e, "client_key_exchange",
    LET f == Take(e)
    IN  To([f EXCEPT !.secret = [psk |-> FALSE, dhe |-> e.key_share, transcript |-> f.transcript]],
           "read_client_certificate_verify"))

do_read_client_certificate_verify(e) ==
    IF e.peer = "none" THEN To(e, "read_change_cipher_spec")
    ELSE Expect(e, "certificate_verify",
             IF ~SignedBy(Message(e), e, e.transcript) THEN Alert(e, "decrypt_error")
             ELSE To(Take(e), "read_change_cipher_spec"))

do_read_change_cipher_spec(e) ==
    Wait(To(e, "process_change_cipher_spec"), "read_change_cipher_spec")

do_process_change_cipher_spec(e) ==
    SetReadKey(e, key(e, "client"), To(e, "read_client_finished"))

do_read_client_finished(e) == Expect(e, "finished",
    IF Message(e) # Finished("client", e) THEN Alert(HashMessage(e), "decrypt_error")
    ELSE IF Excess(e) THEN Alert(HashMessage(e), "unexpected_message")
    ELSE To(Take(e), IF e.session_reused THEN "finish_server_handshake"
                     ELSE "send_server_finished"))

do_send_server_finished(e) ==
    LET f == IF e.ticket_expected THEN AddMessage(e, [type |-> "new_session_ticket"]) ELSE e
        g == SetWriteKey(AddChangeCipherSpec(f), key(f, "server"))
    IN  Wait(To(AddMessage(g, Finished("server", g)),
                IF e.session_reused THEN "read_change_cipher_spec" ELSE "finish_server_handshake"),
             "flush")

do_finish_server_handshake(e) == [e EXCEPT !.state = "done", !.established = "server"]
=============================================================================
