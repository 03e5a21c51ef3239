----------------------------- MODULE Handshake -----------------------------
(***************************************************************************)
(* Two endpoints shake hands: each is an SSL object of BoringSSL driven by *)
(* a NIOSSLHandler, which feeds it what the channel reads, calls           *)
(* SSL_do_handshake on every read and on every answer of a user callback,  *)
(* and closes the channel when the handshake fails.                        *)
(*                                                                         *)
(* A call of SSL_do_handshake takes many steps (ssl_run_handshake), one    *)
(* per function of the state machine.  The endpoints share nothing but the *)
(* wire, so that one call is over before another one begins.               *)
(***************************************************************************)
EXTENDS HandshakeLayer, FiniteSets

CONSTANTS MaxKeyUpdates,  \* see PostHandshake
          Configs  \* the configurations of a client and a server to check

Config == [versions : SUBSET {12, 13},   \* enabled versions
           groups : Seq({1, 2}) \ {<<>>},  \* enabled groups, in order of preference
           session : {0, 12, 13},        \* the version of the session a client offers
           resumes : BOOLEAN,            \* a server knows and accepts such a session
           tickets : BOOLEAN,            \* a server issues (renews) tickets
           cert : BOOLEAN,               \* a certificate and its key are configured
           customKey : BOOLEAN,          \* the key is a NIOSSLCustomPrivateKey, which ...
           signs : BOOLEAN,              \* ... will sign
           verify : BOOLEAN,             \* VERIFY_PEER and FAIL_IF_NO_PEER_CERT
           callback : BOOLEAN,           \* a custom verification callback is set
           trusts : BOOLEAN,             \* the verdict on the peer's chain
           renegotiation : {"never", "once", "always"},  \* what a client allows
           renegotiates : Nat,           \* how often a server asks for it, and ...
           verifyLater : BOOLEAN,        \* ... that it verifies only then
           writes : Nat,                 \* how often the endpoint writes, and ...
           updates : Nat]                \* ... up to which generation it updates its key

Sides == {"client", "server"}
Peer(p) == IF p = "client" THEN "server" ELSE "client"

ASSUME HandshakeAssumption ==
    /\ MaxKeyUpdates \in Nat \ {0}
    /\ \A c \in Configs : c.client \in Config /\ c.server \in Config

VARIABLE ep
vars == <<ep>>

C13 == INSTANCE TLS13Client
S13 == INSTANCE TLS13Server
C12 == INSTANCE TLS12Client
S12 == INSTANCE TLS12Server
Data == INSTANCE PostHandshake

Init == \E c \in Configs : ep = [p \in Sides |-> NewEndpoint(p, c[p])]

Update(p, e) == ep' = [ep EXCEPT ![p] = e]
Completed(e) == e.state = "done"
Failed(e) == e.error # "none"
Over(e) == Completed(e) \/ Failed(e)
Established(e) == Completed(e) /\ ~Failed(e)

-----------------------------------------------------------------------------
(***************************************************************************)
(* The calls of SSL_do_handshake.                                          *)
(***************************************************************************)
Enter(p, e) == /\ \A q \in Sides : ~ep[q].running
               /\ ~Over(ep[p])
               /\ Update(p, [e EXCEPT !.running = TRUE])

Start(p) == ep[p].state = "start" /\ Enter(p, ep[p])

\* The channel reads the next n records of the peer, or part of one.
Receive(p, n) ==
    LET q == Peer(p)
    IN  /\ ep[p].state # "start" /\ (~Over(ep[p]) \/ Established(ep[p]))
        /\ \A r \in Sides : ~ep[r].running
        /\ ep[q].outbound # <<>>
        /\ ep' = [ep EXCEPT ![p].inbound = @ \o SubSeq(ep[q].outbound, 1, n),
                            ![p].running = TRUE,
                            ![q].outbound = SubSeq(@, n + 1, Len(@))]

\* The user's verdict on the certificate; its signature, or its refusal.  They
\* resume the handshake.
AnswerVerify(p) ==
    /\ ep[p].verify = "pending"
    /\ Enter(p, [ep[p] EXCEPT !.verify = IF ep[p].cfg.trusts THEN "ok" ELSE "invalid"])

\* Mutant of AnswerKey: the answer is stored and the handshake not resumed.
AnswerKeyStored(p) ==
    /\ ep[p].pending_private_key_op /\ ep[p].key_result = "none"
    /\ \A q \in Sides : ~ep[q].running
    /\ Update(p, [ep[p] EXCEPT !.key_result = "signature"])

AnswerKey(p) ==
    /\ ep[p].pending_private_key_op /\ ep[p].key_result = "none"
    /\ Enter(p, [ep[p] EXCEPT !.key_result = IF ep[p].cfg.signs THEN "signature" ELSE "failure"])

\* The peer's channel is closed, and so is this one.
ChannelInactive(p) ==
    /\ \A q \in Sides : ~ep[q].running
    /\ Failed(ep[Peer(p)]) /\ ep[Peer(p)].outbound = <<>> /\ ~Over(ep[p])
    /\ Update(p, Error(ep[p], "eof"))

-----------------------------------------------------------------------------
(***************************************************************************)
(* ssl_run_handshake: what is done about each way of waiting, and the      *)
(* state machine when there is none.                                       *)
(***************************************************************************)
Reading == {"read_server_hello", "read_message", "read_change_cipher_spec"}

Flush(p) == /\ ep[p].running /\ ep[p].wait = "flush"
            /\ Update(p, Wait(FlushFlight(ep[p]), "ok"))

Open(p) == /\ ep[p].running /\ ep[p].wait \in Reading /\ ep[p].inbound # <<>>
           /\ Update(p, OpenRecord(ep[p]))

\* SSL_ERROR_WANT_READ.
WantRead(p) == /\ ep[p].running /\ ep[p].wait \in Reading /\ ep[p].inbound = <<>>
               /\ Update(p, [ep[p] EXCEPT !.running = FALSE])

\* SSL_ERROR_WANT_CERTIFICATE_VERIFY and SSL_ERROR_WANT_PRIVATE_KEY_OPERATION.  A
\* renegotiation runs inside SSL_read, and readDataFromNetwork takes both for
\* failures.
WantCallback(p) ==
    /\ ep[p].running /\ ep[p].wait \in {"certificate_verify", "private_key_operation"}
    /\ Update(p, IF p = "client" /\ ep[p].established # "none" THEN Error(ep[p], "read_failed")
                 ELSE [Wait(ep[p], "ok") EXCEPT !.running = FALSE])

-----------------------------------------------------------------------------
(***************************************************************************)
(* The established connection.  NIOSSL asks neither for new keys nor for a *)
(* renegotiation, but the peer may: a server that renegotiates is not a    *)
(* BoringSSL one, which never does, but behaves like one in all else.      *)
(***************************************************************************)
ReadData(p) == /\ ep[p].running /\ Completed(ep[p])
               /\ Update(p, Data!SSL_read(ep[p]))

Use(p, e) == /\ \A q \in Sides : ~ep[q].running
             /\ Established(ep[p])
             /\ Update(p, e)

WriteData(p) == ep[p].sent < ep[p].cfg.writes /\ Use(p, Data!SSL_write(ep[p]))

\* Each KeyUpdate adds one to the generation of the key.
UpdateKey(p, requested) ==
    /\ ep[p].version = 13 /\ ep[p].write_key.generation < ep[p].cfg.updates
    /\ Use(p, Data!SSL_key_update(ep[p], requested))

RequestRenegotiation ==
    LET e == ep["server"]
        r == Record("handshake", e.write_key, <<[type |-> "hello_request"]>>)
    IN  /\ e.version = 12 /\ e.total_renegotiations < e.cfg.renegotiates
        /\ Use("server", [Data!Renewed(e) EXCEPT !.state = "read_client_hello",
                                                 !.outbound = Append(@, r)])

-----------------------------------------------------------------------------
Do(p, state, e) == /\ ep[p].running /\ ep[p].wait = "ok" /\ ep[p].state = state
                   /\ Update(p, e)
Do13(p, state, e) == ep[p].tls13_state = state /\ Do(p, "tls13", e)

ssl_client_handshake ==
    LET e == ep["client"]
        do(state, f) == Do("client", state, f)
    IN  \/ do("start", C12!do_start_connect(e))
        \/ do("read_server_hello", C12!do_read_server_hello(e))
        \/ do("read_server_certificate", C12!do_read_server_certificate(e))
        \/ do("verify_server_certificate", C12!do_verify_server_certificate(e))
        \/ do("read_server_key_exchange", C12!do_read_server_key_exchange(e))
        \/ do("read_certificate_request", C12!do_read_certificate_request(e))
        \/ do("read_server_hello_done", C12!do_read_server_hello_done(e))
        \/ do("send_client_certificate", C12!do_send_client_certificate(e))
        \/ do("send_client_key_exchange", C12!do_send_client_key_exchange(e))
        \/ do("send_client_certificate_verify", C12!do_send_client_certificate_verify(e))
        \/ do("send_client_finished", C12!do_send_client_finished(e))
        \/ do("finish_flight", C12!do_finish_flight(e))
        \/ do("read_session_ticket", C12!do_read_session_ticket(e))
        \/ do("process_change_cipher_spec", C12!do_process_change_cipher_spec(e))
        \/ do("read_server_finished", C12!do_read_server_finished(e))
        \/ do("finish_client_handshake", C12!do_finish_client_handshake(e))

tls13_client_handshake ==
    LET e == ep["client"]
        do(state, f) == Do13("client", state, f)
    IN  \/ do("read_hello_retry_request", C13!do_read_hello_retry_request(e))
        \/ do("send_second_client_hello", C13!do_send_second_client_hello(e))
        \/ do("read_server_hello", C13!do_read_server_hello(e))
        \/ do("read_encrypted_extensions", C13!do_read_encrypted_extensions(e))
        \/ do("read_certificate_request", C13!do_read_certificate_request(e))
        \/ do("read_server_certificate", C13!do_read_server_certificate(e))
        \/ do("read_server_certificate_verify", C13!do_read_server_certificate_verify(e))
        \/ do("read_server_finished", C13!do_read_server_finished(e))
        \/ do("send_client_certificate", C13!do_send_client_certificate(e))
        \/ do("send_client_certificate_verify", C13!do_send_client_certificate_verify(e))
        \/ do("complete_second_flight", C13!do_complete_second_flight(e))
        \/ do("done", To(e, "finish_client_handshake"))

ssl_server_handshake ==
    LET e == ep["server"]
        do(state, f) == Do("server", state, f)
    IN  \/ do("start", S12!do_start_accept(e))
        \/ do("read_client_hello", S12!do_read_client_hello(e))
        \/ do("read_client_hello_after_ech", S12!do_read_client_hello_after_ech(e))
        \/ do("select_certificate", S12!do_select_certificate(e))
        \/ do("select_parameters", S12!do_select_parameters(e))
        \/ do("send_server_hello", S12!do_send_server_hello(e))
        \/ do("send_server_certificate", S12!do_send_server_certificate(e))
        \/ do("send_server_key_exchange", S12!do_send_server_key_exchange(e))
        \/ do("send_server_hello_done", S12!do_send_server_hello_done(e))
        \/ do("read_client_certificate", S12!do_read_client_certificate(e))
        \/ do("verify_client_certificate", S12!do_verify_client_certificate(e))
        \/ do("read_client_key_exchange", S12!do_read_client_key_exchange(e))
        \/ do("read_client_certificate_verify", S12!do_read_client_certificate_verify(e))
        \/ do("read_change_cipher_spec", S12!do_read_change_cipher_spec(e))
        \/ do("process_change_cipher_spec", S12!do_process_change_cipher_spec(e))
        \/ do("read_client_finished", S12!do_read_client_finished(e))
        \/ do("send_server_finished", S12!do_send_server_finished(e))
        \/ do("finish_server_handshake", S12!do_finish_server_handshake(e))

tls13_server_handshake ==
    LET e == ep["server"]
        do(state, f) == Do13("server", state, f)
    IN  \/ do("select_session", S13!do_select_session(e))
        \/ do("send_hello_retry_request", S13!do_send_hello_retry_request(e))
        \/ do("read_second_client_hello", S13!do_read_second_client_hello(e))
        \/ do("send_server_hello", S13!do_send_server_hello(e))
        \/ do("send_server_certificate_verify", S13!do_send_server_certificate_verify(e))
        \/ do("send_server_finished", S13!do_send_server_finished(e))
        \/ do("send_half_rtt_ticket", S13!do_send_half_rtt_ticket(e))
        \/ do("process_end_of_early_data", S13!do_process_end_of_early_data(e))
        \/ do("read_client_certificate", S13!do_read_client_certificate(e))
        \/ do("read_client_certificate_verify", S13!do_read_client_certificate_verify(e))
        \/ do("read_client_finished", S13!do_read_client_finished(e))
        \/ do("send_new_session_ticket", S13!do_send_new_session_ticket(e))
        \/ do("done", To(e, "finish_server_handshake"))

\* One step of the call that is being made ...
Step == \/ \E p \in Sides : Flush(p) \/ Open(p) \/ WantRead(p) \/ WantCallback(p) \/ ReadData(p)
        \/ ssl_client_handshake \/ tls13_client_handshake
        \/ ssl_server_handshake \/ tls13_server_handshake

\* ... and what brings the next one about.
Event(p) == \/ Start(p) \/ AnswerVerify(p) \/ AnswerKey(p) \/ ChannelInactive(p)
            \/ \E n \in 1..Len(ep[Peer(p)].outbound) : Receive(p, n)

Next == \/ Step
        \/ \E p \in Sides :
               \/ Event(p) \/ Receive(p, 0) \/ WriteData(p)
               \/ \E requested \in BOOLEAN : UpdateKey(p, requested)
        \/ RequestRenegotiation

Spec == Init /\ [][Next]_vars

-----------------------------------------------------------------------------
(***************************************************************************)
(* What the handshake promises.                                            *)
(***************************************************************************)
Client == ep["client"]
Server == ep["server"]

\* The fields of both endpoints hold what they are meant to hold, and the data
\* of a record never exceeds the maximum.
TypeOK ==
    \A p \in Sides :
        LET e == ep[p]
        IN  /\ e.side = p /\ e.cfg \in Config
            /\ e.running \in BOOLEAN /\ e.version \in {0, 12, 13}
            /\ e.wait \in Reading \cup {"ok", "flush", "error", "certificate_verify",
                                       "private_key_operation"}
            /\ e.session_reused \in BOOLEAN /\ e.used_hello_retry_request \in BOOLEAN
            /\ e.cert_request \in BOOLEAN /\ e.ticket_expected \in BOOLEAN
            /\ e.key_share \in 0..2 /\ e.peer \in {"none", Peer(p)}
            /\ e.verify \in {"notStarted", "pending", "ok", "invalid"}
            /\ e.pending_private_key_op \in BOOLEAN
            /\ e.key_result \in {"none", "signature", "failure"}
            /\ Len(e.pending_hs_data) <= MaxFragment
            /\ \A q \in {e.inbound, e.pending_flight, e.outbound} :
                   \A i \in 1..Len(q) : Len(q[i].units) <= MaxFragment

\* An endpoint fails for a reason that lies in the configurations or with the
\* users: never because the peer's messages, records, keys, signatures or MACs
\* are not what it expects, however they are cut up and delivered and however
\* long the callbacks take.
NoSpuriousFailure ==
    \A p \in Sides :
        LET e == ep[p]
            f == ep[Peer(p)]
            groups(g) == {g.cfg.groups[i] : i \in 1..Len(g.cfg.groups)}
        IN  CASE e.error = "none" -> TRUE
              [] e.error \in {"peer_alert", "eof"} -> Failed(f)
              [] e.error = "protocol_version" -> e.cfg.versions \cap f.cfg.versions = {}
              [] e.error = "certificate_unknown" -> e.cfg.verify /\ ~e.cfg.trusts
              [] e.error = "private_key" -> e.cfg.customKey /\ ~e.cfg.signs
              [] e.error = "no_renegotiation" ->
                     e.cfg.renegotiation = "never" \/ e.total_renegotiations > 0
              [] e.error = "no_certificate_set" -> e.version = 13 /\ ~e.cfg.cert
              [] e.error = "certificate_required" -> e.version = 13 /\ e.cfg.verify /\ ~f.cfg.cert
              [] e.error = "handshake_failure" ->
                     \/ groups(e) \cap groups(f) = {}
                     \/ e.version = 12 /\ (~e.cfg.cert \/ (e.cfg.verify /\ ~f.cfg.cert))
              [] OTHER -> FALSE

SameSecret(k, l) == k.level = l.level /\ k.side = l.side /\ k.secret = l.secret

\* Endpoints that complete agree on the version, which is the highest that both
\* enable, on whether a session was resumed, and on the keys of both directions,
\* which cover the transcript: neither was led to other parameters.
Agreement ==
    Completed(Client) /\ Completed(Server) =>
        /\ Client.version = Server.version
        /\ \A v \in Client.cfg.versions \cap Server.cfg.versions : v <= Client.version
        /\ Client.session_reused = Server.session_reused
        /\ SameSecret(Client.write_key, Server.read_key)
        /\ SameSecret(Server.write_key, Client.read_key)
        /\ Client.write_key.level # "null"

\* Whatever an endpoint that has completed will still be sent (data, session
\* tickets, new keys, the alert of a peer that refuses its certificate) can be
\* decrypted by it: no key is replaced before the last record under it has been
\* read, and every record under a new key follows the message that announces it.
StillReadable ==
    \A p \in Sides : Established(ep[p]) /\ ~ep[p].running =>
        LET f == FlushFlight(ep[Peer(p)])
            unread == ep[p].inbound \o f.outbound
            updates(i) == {j \in 1..(i - 1) : \E k \in 1..Len(unread[j].units) :
                               unread[j].units[k].type = "key_update"}
        IN  \A i \in 1..Len(unread) :
                unread[i].key = [ep[p].read_key EXCEPT !.generation = @ + Cardinality(updates(i))]

\* However many KeyUpdates the peer asks for, at most one of its own waits to be
\* written by an endpoint, and none once data has been: obligations to answer do
\* not pile up.
WriteObligations ==
    \A p \in Sides : Completed(ep[p]) =>
        LET flight == FlushPendingHsData(ep[p]).pending_flight
        IN  Cardinality({i \in 1..Len(flight) : \E k \in 1..Len(flight[i].units) :
                             flight[i].units[k].type = "key_update"})
                <= (IF ep[p].key_update_pending THEN 1 ELSE 0)

\* A peer counts as authenticated only when its key has signed and its
\* certificate has been accepted by the one who had to accept it: an endpoint
\* that verifies (in this handshake) completes only then, or by resuming a session.
\* A client that resumed one and renegotiates is not asked again: the certificate
\* is the session's, and the server signs with its key.
Authenticated ==
    \A p \in Sides :
        LET e == ep[p]
            f == ep[Peer(p)]
            verifies == e.cfg.verify /\ (e.cfg.verifyLater => e.total_renegotiations > 0)
        IN  Completed(e) /\ ~e.session_reused /\ verifies =>
                /\ e.peer = Peer(p)
                /\ \/ e.cfg.trusts /\ (e.cfg.callback => e.verify = "ok")
                   \/ p = "client" /\ e.cfg.session # 0 /\ e.total_renegotiations > 0
                /\ f.signatures > 0 /\ (f.cfg.customKey => f.key_result = "signature")

\* The user is asked once for a verdict, and once in each handshake for a
\* signature: re-entering the handshake, because data arrived or another callback
\* answered, repeats no question.
AskedOnce == \A p \in Sides :
    ep[p].callbacks <= 1 /\ ep[p].signatures <= 1 + ep[p].total_renegotiations

\* An endpoint that has returned to wait for the peer has sent all it has for
\* the peer, but for a ChangeCipherSpec, which says nothing: the two never wait
\* for each other.
NothingHeldBack ==
    \A p \in Sides :
        ~ep[p].running /\ ep[p].wait \in Reading =>
            /\ ep[p].pending_hs_data = <<>>
            /\ \A i \in 1..Len(ep[p].pending_flight) :
                   ep[p].pending_flight[i].type = "change_cipher_spec"

\* tls_on_handshake_complete, which is called next, asserts that no handshake
\* data is left over.
NothingLeftOver ==
    /\ Client.state = "finish_client_handshake" => Client.hs_buf = <<>>
    /\ Server.state = "finish_server_handshake" => Server.hs_buf = <<>>

\* "The only supported use-case is to perform post-connection authentication *as
\* a client*" (TLSConfiguration.swift): a client that allows renegotiation comes
\* through one with a NIOSSLCustomPrivateKey, too.
PostConnectionAuthentication == Client.error \notin {"precondition", "read_failed"}

\* A call that is made runs to its end.  As long as anything can still happen
\* (a record to deliver, an answer to give), something does at last: partial
\* records, of which there are only so many, do not go on for ever.
Fairness == WF_vars(Step) /\ SF_vars(\E p \in Sides : Event(p))

FairSpec == Spec /\ Fairness

\* Every handshake ends, and in success unless an endpoint has failed; and an
\* endpoint that has not failed has read all that its peer has written.
Terminates ==
    <>[](\A p \in Sides : Over(ep[p]) /\ (Failed(ep[p]) \/ ep[p].received = ep[Peer(p)].sent))

=============================================================================
