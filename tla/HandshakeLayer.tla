--------------------------- MODULE HandshakeLayer ---------------------------
(***************************************************************************)
(* What the handshake state machines of BoringSSL are built from: the      *)
(* messages, the records that carry them (s3_both.cc, tls_record.cc), the  *)
(* keys, the transcript, and the two calls that leave the machine while    *)
(* the user decides (CustomVerifyManager, NIOSSLCustomPrivateKey).         *)
(*                                                                         *)
(* An endpoint is a record, and every operation here maps endpoints to     *)
(* endpoints.  A message is named by its type and by the contents that     *)
(* decide anything; a hash is what was hashed, a secret what it was        *)
(* derived from, a signature or a MAC its key and what it covers.  The     *)
(* length of a message is counted in units, so that messages share         *)
(* records and spill over into the next one.                               *)
(***************************************************************************)
EXTENDS Naturals, Sequences

CONSTANTS MaxFragment,      \* max_send_fragment, in units
          CertificateUnits  \* the length of a Certificate; other messages have 1

ASSUME LayerAssumption == /\ MaxFragment \in Nat \ {0}
                          /\ CertificateUnits \in Nat \ {0}

NullKey == [level |-> "null", generation |-> 0]
Key(level, side, secret) ==
    [level |-> level, side |-> side, secret |-> secret, generation |-> 0]

\* cfg is what the context was configured with; see Config in Handshake.
NewEndpoint(side, cfg) ==
    [side |-> side, cfg |-> cfg, running |-> FALSE, error |-> "none",
     state |-> "start", tls13_state |-> "none", wait |-> "ok",
     version |-> 0, session_reused |-> FALSE, used_hello_retry_request |-> FALSE,
     cert_request |-> FALSE, ticket_expected |-> FALSE,
     key_share |-> 0, peer |-> "none",
     inbound |-> <<>>, hs_buf |-> <<>>, pending_hs_data |-> <<>>, pending_flight |-> <<>>,
     outbound |-> <<>>,
     read_key |-> NullKey, write_key |-> NullKey, transcript |-> <<>>,
     secret |-> <<>>, app |-> <<>>,
     verify |-> "notStarted", pending_private_key_op |-> FALSE, key_result |-> "none",
     established |-> "none", total_renegotiations |-> 0,
     key_update_pending |-> FALSE, key_update_count |-> 0, sent |-> 0, received |-> 0,
     callbacks |-> 0, signatures |-> 0]

-----------------------------------------------------------------------------
(***************************************************************************)
(* Records out.  Without encryption a message has records of its own, with *)
(* encryption messages are packed.                                         *)
(***************************************************************************)
Units(m) == [i \in 1..(IF m.type = "certificate" THEN CertificateUnits ELSE 1) |-> m]

Record(type, key, units) == [type |-> type, key |-> key, units |-> units]

\* us in records of at most MaxFragment.
Records(key, us) ==
    LET n == (Len(us) + MaxFragment - 1) \div MaxFragment
    IN  [i \in 1..n |-> Record("handshake", key,
                               SubSeq(us, (i - 1) * MaxFragment + 1,
                                      IF i = n THEN Len(us) ELSE i * MaxFragment))]

FlushPendingHsData(e) == [e EXCEPT !.pending_flight = @ \o Records(e.write_key, e.pending_hs_data),
                                   !.pending_hs_data = <<>>]

\* Mutant of AddMessage: messages are packed without regard to the size of a record.
AddMessageUnlimited(e, m) == [e EXCEPT !.pending_hs_data = @ \o Units(m),
                                       !.transcript = Append(@, m)]

\* tls_add_message.  What fills records is added to the flight, the rest, a
\* full record included, waits for the next message.
AddMessage(e, m) ==
    IF e.write_key = NullKey
    THEN [e EXCEPT !.pending_flight = @ \o Records(NullKey, Units(m)),
                   !.transcript = Append(@, m)]
    ELSE LET us == e.pending_hs_data \o Units(m)
             k  == ((Len(us) - 1) \div MaxFragment) * MaxFragment
         IN  [e EXCEPT !.pending_flight = @ \o Records(e.write_key, SubSeq(us, 1, k)),
                       !.pending_hs_data = SubSeq(us, k + 1, Len(us)),
                       !.transcript = Append(@, m)]

AddChangeCipherSpec(e) ==
    [FlushPendingHsData(e) EXCEPT
         !.pending_flight = Append(@, Record("change_cipher_spec", e.write_key, <<>>))]

FlushFlight(e) ==
    LET f == FlushPendingHsData(e)
    IN  [f EXCEPT !.outbound = @ \o f.pending_flight, !.pending_flight = <<>>]

\* A key takes effect behind everything written before it.
SetWriteKey(e, key) == [FlushPendingHsData(e) EXCEPT !.write_key = key]

-----------------------------------------------------------------------------
(***************************************************************************)
(* How a function of the state machine ends: it goes on in another state,  *)
(* it waits, it fails, or it fails and sends an alert, behind all that the *)
(* flight still holds.                                                     *)
(***************************************************************************)
To(e, state) == [e EXCEPT !.state = state]
To13(e, state) == [e EXCEPT !.tls13_state = state]
Wait(e, wait) == [e EXCEPT !.wait = wait]
Error(e, why) == [e EXCEPT !.wait = "error", !.error = why, !.running = FALSE]
Alert(e, why) ==
    LET f == FlushFlight(e)
    IN  Error([f EXCEPT !.outbound = Append(@, Record("alert", e.write_key, <<>>))], why)

-----------------------------------------------------------------------------
(***************************************************************************)
(* Records in.  HasMessage and Message are get_message.                    *)
(***************************************************************************)
HasMessage(e) == e.hs_buf # <<>> /\ Len(e.hs_buf) >= Len(Units(Head(e.hs_buf)))
Message(e) == Head(e.hs_buf)
HashMessage(e) == [e EXCEPT !.transcript = Append(@, Message(e))]
NextMessage(e) == [e EXCEPT !.hs_buf = SubSeq(@, Len(Units(Message(e))) + 1, Len(@))]
Take(e) == NextMessage(HashMessage(e))

\* has_unprocessed_handshake_data while the current message is being read;
\* while none is, it is hs_buf # <<>>.
Excess(e) == Len(e.hs_buf) > Len(Units(Message(e)))

\* get_message and ssl_check_message_type, then the rest of the function.
Expect(e, type, then) ==
    IF ~HasMessage(e) THEN Wait(e, "read_message")
    ELSE IF Message(e).type # type THEN Alert(e, "unexpected_message")
    ELSE then

\* tls_set_read_state, after the current message has been taken.
SetReadKey(e, key, then) ==
    IF e.hs_buf # <<>> THEN Alert(e, "unexpected_message")
    ELSE [then EXCEPT !.read_key = key]

\* tls_open_handshake and tls_open_change_cipher_spec on the next record.
OpenRecord(e) ==
    LET r    == Head(e.inbound)
        f    == [e EXCEPT !.inbound = Tail(@)]
        type == IF e.wait = "read_change_cipher_spec" THEN "change_cipher_spec" ELSE "handshake"
    IN  CASE HasMessage(e) -> Alert(e, "internal_error")
          [] ~HasMessage(e) /\ r.type = "change_cipher_spec" /\ e.version = 13 -> f
          [] OTHER ->
                 IF r.key # e.read_key THEN Alert(f, "bad_record_mac")
                 ELSE IF r.type = "alert" THEN Error(f, "peer_alert")
                 ELSE IF r.type # type \/ (r.type # "handshake" /\ e.hs_buf # <<>>)
                 THEN Alert(f, "unexpected_message")
                 ELSE Wait([f EXCEPT !.hs_buf = @ \o r.units], "ok")

-----------------------------------------------------------------------------
(***************************************************************************)
(* The messages of both versions, the transcript and the secrets.          *)
(***************************************************************************)
\* ssl_add_client_hello.  A session the client may not use, and any session in
\* a renegotiation, is not offered; the binder of one for TLS 1.3 covers the
\* transcript before the hello.
ClientHello(e) ==
    LET versions == IF e.established = "none" THEN e.cfg.versions ELSE {e.version}
        session  == IF e.established = "none" /\ e.cfg.session \in versions
                    THEN e.cfg.session ELSE 0
    IN  [type |-> "client_hello", versions |-> versions, groups |-> e.cfg.groups,
         key_share |-> e.key_share, session |-> session, binder |-> e.transcript]

Certificate(e) == [type |-> "certificate", cert |-> IF e.cfg.cert THEN e.side ELSE "none"]

\* What tls13_add_certificate_verify signs in TLS 1.3, and
\* do_send_client_certificate_verify (handshake_client.cc) in TLS 1.2.
CertificateVerify(e) == [type |-> "certificate_verify", key |-> e.side, over |-> e.transcript]

Finished(side, e) == [type |-> "finished", side |-> side, secret |-> e.secret,
                      over |-> e.transcript]

\* UpdateForHelloRetryRequest.
UpdateForHelloRetryRequest(e) ==
    [e EXCEPT !.transcript = <<[type |-> "message_hash", of |-> @]>>]

\* tls1_get_shared_group: 0 if there is none.
SharedGroup(groups, e) ==
    LET common == {i \in 1..Len(groups) : \E j \in 1..Len(e.cfg.groups) : e.cfg.groups[j] = groups[i]}
    IN  IF common = {} THEN 0
        ELSE groups[CHOOSE i \in common : \A j \in common : i <= j]

\* The certificate the peer's CertificateVerify is checked with, and over what.
SignedBy(m, e, over) == m.key = e.peer /\ m.over = over

-----------------------------------------------------------------------------
(***************************************************************************)
(* ssl_verify_peer_cert.  With a custom callback it is asked once and      *)
(* answers later (CustomVerifyManager.process); until then the function    *)
(* is left, and entered again from its start.  Without, the chain is       *)
(* verified at once.  No verdict counts when verification is off.  In a    *)
(* renegotiation the certificate must be the one from before, and nobody   *)
(* is asked.                                                               *)
(***************************************************************************)
\* Mutant of AfterVerify: only the first call waits for the callback.
AfterVerifyAsked(e, then) ==
    IF e.cfg.callback /\ e.verify = "notStarted"
    THEN Wait([e EXCEPT !.verify = "pending", !.callbacks = @ + 1], "certificate_verify")
    ELSE then

\* Mutant of AfterVerify: the callback is asked whenever the function is entered without a verdict.
AfterVerifyAsking(e, then) ==
    IF e.cfg.callback /\ e.verify \in {"notStarted", "pending"}
    THEN Wait([e EXCEPT !.verify = "pending", !.callbacks = @ + 1], "certificate_verify")
    ELSE then

AfterVerify(e, then) ==
    LET asked   == e.verify # "notStarted"
        refused == IF e.cfg.callback THEN e.verify = "invalid" ELSE ~e.cfg.trusts
    IN  IF e.side = "client" /\ e.established # "none"
        THEN IF e.peer # e.established THEN Alert(e, "illegal_parameter") ELSE then
        ELSE IF e.cfg.callback /\ e.verify \in {"notStarted", "pending"}
        THEN Wait([e EXCEPT !.verify = "pending", !.callbacks = IF asked THEN @ ELSE @ + 1],
                  "certificate_verify")
        ELSE IF refused /\ e.cfg.verify THEN Alert(e, "certificate_unknown")
        ELSE then

(***************************************************************************)
(* ssl_private_key_sign, over customPrivateKeySign and                     *)
(* customPrivateKeyComplete.  Nothing ever clears the result, and asking   *)
(* for a second one fails the precondition that there is none.             *)
(***************************************************************************)
AfterSign(e, then) ==
    IF ~e.cfg.customKey THEN [then EXCEPT !.signatures = @ + 1]
    ELSE IF ~e.pending_private_key_op /\ e.key_result # "none" THEN Error(e, "precondition")
    ELSE IF ~e.pending_private_key_op
    THEN Wait([e EXCEPT !.pending_private_key_op = TRUE, !.signatures = @ + 1],
              "private_key_operation")
    ELSE CASE e.key_result = "none" -> Wait(e, "private_key_operation")
           [] e.key_result = "failure" -> Error(e, "private_key")
           [] e.key_result = "signature" -> [then EXCEPT !.pending_private_key_op = FALSE]
=============================================================================
