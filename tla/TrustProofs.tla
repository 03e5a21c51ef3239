----------------------------- MODULE TrustProofs -----------------------------
(***************************************************************************)
(* When a connection may carry data, and how it ends.  First: the handshake *)
(* completes at most once, and no application data reaches the channel     *)
(* before it has, whatever the order of reads, writes, closes,             *)
(* verification callbacks and re-entrant calls.                            *)
(*                                                                         *)
(* Neither property is inductive.  A step of the handshake that is pending in *)
(* the stack must not find the handshake complete (StackAgrees, Waits), the *)
(* state .handshaking excludes every call that encodes or decodes data     *)
(* (Handshaking), and a handshake that is complete while the peer is not   *)
(* trusted - the hostname does not match, or the additional verification is *)
(* under way - must keep every call that encodes from running (HeldBack) until *)
(* a shutdown has begun or the channel is closed.  TrustInv is their       *)
(* conjunction.                                                            *)
(***************************************************************************)
EXTENDS NIOSSLHandlerProofs

NoData(s) == \A i \in 1..Len(s) : ~IsData(s[i])

\* SSL_do_handshake cannot complete: it has failed, or it waits.
Quiet(c) == \/ c.hsError \/ c.readShutdown # "none" \/ c.bioClosed
            \/ c.verify = "pendingResult" \/ (c.verify = "notStarted" /\ c.inbound = <<>>)

\* The user's verdict is asked for in the last flight, and in the handshake.
LastFlight(c) == /\ c.verify = "pendingResult" => c.inInit
                 /\ c.inInit /\ c.verify \in {"pendingResult", "certificateVerified"}
                      => c.flights + 1 = HsFlights

\* What d keeps of c, whatever an operation of the connection did.
Advances(c, d) ==
    /\ c.bioClosed => d.bioClosed
    /\ d.writeShutdown = "none" => c.writeShutdown = "none"
    /\ c.hsError => d.hsError
    /\ c.readShutdown # "none" => d.readShutdown # "none"
    /\ c.readShutdown = "closeNotify" => d.readShutdown = "closeNotify"
    /\ c.writeShutdown = "closeNotify" => d.writeShutdown = "closeNotify"
    /\ d.inInit => c.inInit
    /\ NoData(c.outbound) => NoData(d.outbound)

\* The fields of the handshake.
SameHandshake(c, d) == d.inInit = c.inInit /\ d.verify = c.verify /\ d.flights = c.flights

\* Records that carry no data, appended.
LEMMA NoDataGrows ==
    ASSUME NEW s \in Seq(Record), NoData(s)
    PROVE  /\ \A r \in Record : ~IsData(r) => NoData(Append(s, r))
           /\ \A t \in Seq(Record) : NoData(t) => NoData(s \o t)
<1>1. ASSUME NEW r \in Record, ~IsData(r) PROVE NoData(Append(s, r))
  <2>1. Len(Append(s, r)) = Len(s) + 1 /\ Len(s) \in Nat
    OBVIOUS
  <2>2. \A i \in 1..Len(Append(s, r)) : Append(s, r)[i] = IF i <= Len(s) THEN s[i] ELSE r
    OBVIOUS
  <2> QED BY <1>1, <2>1, <2>2 DEF NoData
<1>2. ASSUME NEW t \in Seq(Record), NoData(t) PROVE NoData(s \o t)
  <2>1. Len(s \o t) = Len(s) + Len(t) /\ Len(s) \in Nat /\ Len(t) \in Nat
    OBVIOUS
  <2>2. \A i \in 1..Len(s \o t) : (s \o t)[i] = IF i <= Len(s) THEN s[i] ELSE t[i - Len(s)]
    OBVIOUS
  <2> SUFFICES ASSUME NEW i \in 1..Len(s \o t) PROVE ~IsData((s \o t)[i])
    BY DEF NoData
  <2>3. CASE i <= Len(s)
    BY <2>1, <2>2, <2>3 DEF NoData
  <2>4. CASE ~(i <= Len(s))
    <3>1. i - Len(s) \in 1..Len(t)
      BY <2>1, <2>4
    <3> QED BY <1>2, <2>2, <2>4, <3>1 DEF NoData
  <2> QED BY <2>3, <2>4
<1> QED BY <1>1, <1>2

\* Reading without a record: the connection is as it was.
LEMMA RetryReadTrust ==
    ASSUME NEW c \in Connection, NEW b \in BOOLEAN
    PROVE  LET d == RetryRead(c, b) IN
           /\ SameHandshake(c, d) /\ d.bioClosed = c.bioClosed /\ d.hsError = c.hsError
                /\ d.readShutdown = c.readShutdown
           /\ d.inbound = c.inbound /\ d.outbound = c.outbound
           /\ d.writeShutdown = c.writeShutdown
BY DEF RetryRead, Connection, SameHandshake

\* Writing a record.
LEMMA SendTrust ==
    ASSUME NEW c \in Connection, NEW r \in Record
    PROVE  LET d == Send(c, r) IN
           /\ SameHandshake(c, d) /\ d.bioClosed = c.bioClosed /\ d.hsError = c.hsError
                /\ d.readShutdown = c.readShutdown
           /\ d.inbound = c.inbound /\ d.outbound = Append(c.outbound, r)
           /\ d.writeShutdown = c.writeShutdown
           /\ NoData(c.outbound) /\ ~IsData(r) => NoData(d.outbound)
<1> DEFINE e == RetryRead(c, FALSE)
<1>1. e \in Connection
  BY RetryReadType
<1>2. /\ SameHandshake(c, e) /\ e.bioClosed = c.bioClosed /\ e.hsError = c.hsError
           /\ e.readShutdown = c.readShutdown
      /\ e.inbound = c.inbound /\ e.outbound = c.outbound /\ e.writeShutdown = c.writeShutdown
  BY RetryReadTrust
<1> HIDE DEF e
<1>3. Send(c, r) = [e EXCEPT !.outbound = Append(e.outbound, r)]
  BY DEF Send, e
<1>4. LET d == [e EXCEPT !.outbound = Append(e.outbound, r)] IN
      /\ SameHandshake(e, d) /\ d.bioClosed = e.bioClosed /\ d.hsError = e.hsError
           /\ d.readShutdown = e.readShutdown
      /\ d.inbound = e.inbound /\ d.outbound = Append(e.outbound, r)
      /\ d.writeShutdown = e.writeShutdown
  BY <1>1 DEF Connection, SameHandshake
<1>5. c.outbound \in Seq(Record)
  BY ConnectionOpsType
<1> QED BY <1>2, <1>3, <1>4, <1>5, NoDataGrows DEF SameHandshake

\* Reading a record.
LEMMA ConsumeTrust ==
    ASSUME NEW c \in Connection
    PROVE  LET d == Consume(c) IN
           /\ SameHandshake(c, d) /\ d.bioClosed = c.bioClosed /\ d.hsError = c.hsError
                /\ d.readShutdown = c.readShutdown
           /\ d.inbound = Tail(c.inbound) /\ d.outbound = c.outbound
           /\ d.writeShutdown = c.writeShutdown
<1> DEFINE e == RetryRead(c, FALSE)
<1>1. e \in Connection
  BY RetryReadType
<1>2. /\ SameHandshake(c, e) /\ e.bioClosed = c.bioClosed /\ e.hsError = c.hsError
           /\ e.readShutdown = c.readShutdown
      /\ e.inbound = c.inbound /\ e.outbound = c.outbound /\ e.writeShutdown = c.writeShutdown
  BY RetryReadTrust
<1> HIDE DEF e
<1>3. Consume(c) = [e EXCEPT !.inbound = Tail(e.inbound)]
  BY DEF Consume, e
<1>4. LET d == [e EXCEPT !.inbound = Tail(e.inbound)] IN
      /\ SameHandshake(e, d) /\ d.bioClosed = e.bioClosed /\ d.hsError = e.hsError
           /\ d.readShutdown = e.readShutdown
      /\ d.inbound = Tail(e.inbound) /\ d.outbound = e.outbound
      /\ d.writeShutdown = e.writeShutdown
  BY <1>1 DEF Connection, SameHandshake
<1> QED BY <1>2, <1>3, <1>4 DEF SameHandshake

\* Sending a fatal alert.
LEMMA FatalAlertTrust ==
    ASSUME NEW c \in Connection
    PROVE  LET d == FatalAlert(c) IN
           /\ SameHandshake(c, d) /\ d.bioClosed = c.bioClosed /\ d.hsError = c.hsError
                /\ d.readShutdown = c.readShutdown
           /\ d.inbound = c.inbound /\ Advances(c, d)
<1> DEFINE e == Send(c, Rec("alert"))
<1>1. Rec("alert") \in Record /\ ~IsData(Rec("alert"))
  BY RecType DEF Kinds, IsData
<1>2. e \in Connection
  BY <1>1, SendType
<1>3. /\ SameHandshake(c, e) /\ e.bioClosed = c.bioClosed /\ e.hsError = c.hsError
           /\ e.readShutdown = c.readShutdown
      /\ e.inbound = c.inbound
      /\ NoData(c.outbound) => NoData(e.outbound)
  BY <1>1, SendTrust
<1> HIDE DEF e
<1> DEFINE d == [e EXCEPT !.writeShutdown = "error"]
<1>4. /\ SameHandshake(e, d) /\ d.bioClosed = e.bioClosed /\ d.hsError = e.hsError
           /\ d.readShutdown = e.readShutdown
      /\ d.inbound = e.inbound /\ d.outbound = e.outbound /\ d.writeShutdown = "error"
  BY <1>2 DEF Connection, SameHandshake
<1>5. FatalAlert(c) = c \/ (FatalAlert(c) = d /\ c.writeShutdown = "none")
  BY DEF FatalAlert, e
<1> HIDE DEF d
<1> QED BY <1>3, <1>4, <1>5 DEF SameHandshake, Advances

\* Refusing a record after the handshake.
LEMMA RefuseTrust ==
    ASSUME NEW c \in Connection, c.inbound # <<>>
    PROVE  LET d == Refuse(c) IN
           /\ SameHandshake(c, d) /\ d.bioClosed = c.bioClosed /\ d.hsError = c.hsError
                /\ d.readShutdown = c.readShutdown
           /\ Advances(c, d) /\ d.inbound = Tail(c.inbound)
<1> DEFINE e == Consume(c)
<1>1. e \in Connection
  BY ConsumeType
<1>2. /\ SameHandshake(c, e) /\ e.bioClosed = c.bioClosed /\ e.hsError = c.hsError
           /\ e.readShutdown = c.readShutdown
      /\ e.inbound = Tail(c.inbound) /\ Advances(c, e)
  BY ConsumeTrust DEF Advances, SameHandshake
<1>3. Refuse(c) \in {e, FatalAlert(e)}
  BY DEF Refuse
<1> HIDE DEF e
<1> QED BY <1>1, <1>2, <1>3, FatalAlertTrust DEF Advances, SameHandshake

\* Refusing a record in the handshake.
LEMMA RefuseInHandshakeTrust ==
    ASSUME NEW c \in Connection, c.inbound # <<>>
    PROVE  LET d == RefuseInHandshake(c).conn IN
           /\ SameHandshake(c, d) /\ Advances(c, d)
           /\ d.hsError \/ d.readShutdown # "none"
<1> DEFINE e == Consume(c)
           f == Refuse(c)
           d == [e EXCEPT !.readShutdown = "closeNotify"]
           g == [f EXCEPT !.hsError = TRUE]
<1>1. e \in Connection /\ f \in Connection
  BY ConsumeType, RefuseType
<1>2. SameHandshake(c, e) /\ Advances(c, e) /\ SameHandshake(c, f) /\ Advances(c, f)
  BY ConsumeTrust, RefuseTrust DEF Advances, SameHandshake
<1>3. RefuseInHandshake(c).conn \in {d, g}
  BY DEF RefuseInHandshake, Result
<1> HIDE DEF e, f
<1>4. SameHandshake(e, d) /\ Advances(e, d) /\ d.readShutdown = "closeNotify"
  BY <1>1 DEF Connection, SameHandshake, Advances
<1>5. SameHandshake(f, g) /\ Advances(f, g) /\ g.hsError
  BY <1>1 DEF Connection, SameHandshake, Advances
<1> HIDE DEF d, g
<1> QED BY <1>2, <1>3, <1>4, <1>5 DEF SameHandshake, Advances

\* Answering a flight.
LEMMA FinishFlightTrust ==
    ASSUME NEW c \in Connection, c.inInit
    PROVE  LET r == FinishFlight(c) IN
           /\ Advances(c, r.conn) /\ r.conn.verify = c.verify
           /\ r.conn.inInit <=> r.res # "complete"
           /\ c.flights + 1 = HsFlights => r.res = "complete"
           /\ \/ ~r.conn.inInit \/ r.conn.hsError \/ r.conn.readShutdown # "none"
              \/ r.conn.inbound = <<>>
<1> DEFINE d == Send(c, Rec("hs"))
           t == [d EXCEPT !.flights = d.flights + 1]
           u == [t EXCEPT !.inInit = FALSE]
<1>1. Rec("hs") \in Record /\ ~IsData(Rec("hs"))
  BY RecType DEF Kinds, IsData
<1>2. d \in Connection /\ SameHandshake(c, d) /\ Advances(c, d)
  BY <1>1, SendType, SendTrust DEF Advances, SameHandshake
<1> HIDE DEF d
<1>3. t \in Connection
  <2>1. d.flights + 1 \in Nat
    BY <1>2 DEF Connection
  <2> QED BY <1>2, <2>1 DEF Connection
<1>4. /\ t.inInit = c.inInit /\ t.verify = c.verify /\ t.flights = c.flights + 1 /\ Advances(c, t)
  BY <1>2 DEF Connection, SameHandshake, Advances
<1> HIDE DEF t
<1>5. u.verify = t.verify /\ u.inInit = FALSE /\ Advances(t, u)
  BY <1>3 DEF Connection, Advances
<1>6. /\ FinishFlight(c) = IF t.flights = HsFlights THEN Result("complete", u)
                           ELSE IF t.inbound = <<>> THEN WantRead(t) ELSE RefuseInHandshake(t)
  BY DEF FinishFlight, t, d
<1> HIDE DEF u
<1>7. /\ Result("complete", u).conn = u /\ Result("complete", u).res = "complete"
  BY DEF Result
<1>8. /\ WantRead(t).conn = RetryRead(t, TRUE) /\ WantRead(t).res = "incomplete"
      /\ SameHandshake(t, RetryRead(t, TRUE)) /\ Advances(t, RetryRead(t, TRUE))
      /\ RetryRead(t, TRUE).inbound = t.inbound
  BY <1>3, NothingToReadType, RetryReadTrust DEF Advances, SameHandshake
<1>9. t.inbound # <<>> =>
        LET v == RefuseInHandshake(t).conn IN
        /\ SameHandshake(t, v) /\ Advances(t, v) /\ (v.hsError \/ v.readShutdown # "none")
        /\ RefuseInHandshake(t).res = "failed"
  BY <1>3, RefuseInHandshakeTrust, RefuseInHandshakeType
<1>10. CASE t.flights = HsFlights
  BY <1>4, <1>5, <1>6, <1>7, <1>10 DEF Advances
<1>11. CASE t.flights # HsFlights /\ t.inbound = <<>>
  BY <1>4, <1>6, <1>8, <1>11 DEF Advances, SameHandshake
<1>12. CASE t.flights # HsFlights /\ t.inbound # <<>>
  <2> DEFINE v == RefuseInHandshake(t)
  <2>1. FinishFlight(c) = v
    BY <1>6, <1>12
  <2>2. /\ SameHandshake(t, v.conn) /\ Advances(t, v.conn) /\ v.res = "failed"
        /\ v.conn.hsError \/ v.conn.readShutdown # "none"
    BY <1>9, <1>12
  <2> HIDE DEF v
  <2> QED BY <1>4, <1>12, <2>1, <2>2 DEF Advances, SameHandshake
<1> QED BY <1>10, <1>11, <1>12

\* What SSL_do_handshake may do to a handshake.
LEMMA DoHandshakeTrust ==
    ASSUME NEW c \in Connection, LastFlight(c)
    PROVE  LET r == DoHandshake(c) IN
           /\ Advances(c, r.conn) /\ LastFlight(r.conn)
           /\ ~c.inInit => r.conn = c
           /\ r.conn.inInit <=> r.res # "complete"
           /\ r.conn.inInit => Quiet(r.conn)
           /\ c.inInit /\ Quiet(c) => r.conn.inInit
           /\ c.verify = "notStarted" /\ c.inbound = <<>> =>
                r.conn.verify = "notStarted" /\ r.conn.inbound = <<>>
<1> DEFINE r == DoHandshake(c)
<1>1. CASE ~c.inInit
  BY <1>1 DEF DoHandshake, Result, Advances
<1>2. CASE c.inInit /\ (c.hsError \/ c.readShutdown # "none" \/ c.bioClosed)
  <2>1. r.conn = c /\ r.res \in {"failed", "incomplete"}
    BY <1>2, NothingToReadType DEF DoHandshake, Result
  <2> QED BY <1>2, <2>1 DEF Advances, Quiet
<1>3. CASE /\ c.inInit /\ ~(c.hsError \/ c.readShutdown # "none" \/ c.bioClosed)
           /\ c.verify = "pendingResult"
  <2>1. r.conn = c /\ r.res = "incomplete"
    BY <1>3 DEF DoHandshake, Result
  <2> QED BY <1>3, <2>1 DEF Advances, Quiet
<1>4. CASE /\ c.inInit /\ ~(c.hsError \/ c.readShutdown # "none" \/ c.bioClosed)
           /\ c.verify = "failed"
  <2> DEFINE d == FatalAlert(c)
             e == [d EXCEPT !.hsError = TRUE]
  <2>1. d \in Connection /\ SameHandshake(c, d) /\ Advances(c, d)
    BY FatalAlertType, FatalAlertTrust
  <2>2. r.conn = e /\ r.res = "failed"
    BY <1>4 DEF DoHandshake, Result, HandshakeError
  <2> HIDE DEF d, r
  <2>3. SameHandshake(d, e) /\ Advances(d, e) /\ e.hsError
    BY <2>1 DEF Connection, SameHandshake, Advances
  <2> HIDE DEF e
  <2>4. Advances(c, e) /\ SameHandshake(c, e)
    BY <2>1, <2>3 DEF Advances, SameHandshake
  <2>5. LastFlight(e) /\ e.inInit /\ Quiet(e)
    BY <1>4, <2>3, <2>4 DEF SameHandshake, LastFlight, Quiet
  <2> QED BY <1>4, <2>2, <2>4, <2>5 DEF r
<1>5. CASE /\ c.inInit /\ ~(c.hsError \/ c.readShutdown # "none" \/ c.bioClosed)
           /\ c.verify = "certificateVerified"
  <2>1. r = FinishFlight(c)
    BY <1>5 DEF DoHandshake
  <2>2. c.flights + 1 = HsFlights
    BY <1>5 DEF LastFlight
  <2>3. r.res = "complete" /\ ~r.conn.inInit /\ Advances(c, r.conn) /\ r.conn.verify = c.verify
    BY <1>5, <2>1, <2>2, FinishFlightTrust
  <2> HIDE DEF r
  <2>4. LastFlight(r.conn) /\ ~Quiet(c)
    BY <1>5, <2>3 DEF LastFlight, Quiet
  <2> QED BY <1>5, <2>3, <2>4 DEF r
<1>6. CASE /\ c.inInit /\ ~(c.hsError \/ c.readShutdown # "none" \/ c.bioClosed)
           /\ c.verify = "notStarted"
  <2> DEFINE d == StartHandshake(c)
             e == Send(c, Rec("hs"))
  <2>1. Rec("hs") \in Record /\ ~IsData(Rec("hs"))
    BY RecType DEF Kinds, IsData
  <2>2. e \in Connection /\ SameHandshake(c, e) /\ Advances(c, e) /\ e.inbound = c.inbound
    BY <2>1, SendType, SendTrust DEF Advances, SameHandshake
  <2>3. d \in {[c EXCEPT !.started = TRUE], [e EXCEPT !.started = TRUE]}
    BY DEF StartHandshake
  <2> HIDE DEF e
  <2>4. \A x \in Connection : LET y == [x EXCEPT !.started = TRUE] IN
          y \in Connection /\ SameHandshake(x, y) /\ Advances(x, y) /\ y.inbound = x.inbound
    BY DEF Connection, SameHandshake, Advances
  <2>5. d \in Connection /\ SameHandshake(c, d) /\ Advances(c, d) /\ d.inbound = c.inbound
    <3> DEFINE x == [c EXCEPT !.started = TRUE]
               y == [e EXCEPT !.started = TRUE]
    <3>1. /\ x \in Connection /\ SameHandshake(c, x) /\ Advances(c, x) /\ x.inbound = c.inbound
          /\ y \in Connection /\ SameHandshake(e, y) /\ Advances(e, y) /\ y.inbound = e.inbound
      BY <2>2, <2>4
    <3>2. d = x \/ d = y
      BY <2>3
    <3> HIDE DEF x, y, d
    <3> QED BY <2>2, <3>1, <3>2 DEF Advances, SameHandshake
  <2>6. r = ReadFlight(d)
    BY <1>6 DEF DoHandshake
  <2> HIDE DEF d, r
  <2>7. d.inInit /\ d.verify = "notStarted"
    BY <1>6, <2>5 DEF SameHandshake
  <2>8. CASE d.inbound = <<>>
    <3>1. r.conn = RetryRead(d, TRUE) /\ r.res = "incomplete"
      BY <2>6, <2>8, NothingToReadType, <2>5 DEF ReadFlight
    <3>2. SameHandshake(d, r.conn) /\ Advances(d, r.conn) /\ r.conn.inbound = <<>>
      <4> DEFINE e1 == RetryRead(d, TRUE)
      <4>1. /\ SameHandshake(d, e1) /\ e1.bioClosed = d.bioClosed /\ e1.hsError = d.hsError
                 /\ e1.readShutdown = d.readShutdown
            /\ e1.inbound = d.inbound /\ e1.outbound = d.outbound
            /\ e1.writeShutdown = d.writeShutdown
        BY <2>5, RetryReadTrust
      <4> HIDE DEF e1
      <4>2. SameHandshake(d, e1) /\ Advances(d, e1) /\ e1.inbound = <<>>
        BY <4>1, <2>8 DEF Advances, SameHandshake
      <4> QED BY <3>1, <4>2 DEF e1
    <3>3. Advances(c, r.conn) /\ r.conn.inInit /\ r.conn.verify = "notStarted"
      BY <2>5, <2>7, <3>2 DEF Advances, SameHandshake
    <3> QED BY <1>6, <3>1, <3>2, <3>3 DEF Quiet, LastFlight, r
  <2>9. CASE d.inbound # <<>> /\ Head(d.inbound).kind # "hs"
    <3>1. r = RefuseInHandshake(d)
      BY <2>6, <2>9 DEF ReadFlight
    <3>2. /\ SameHandshake(d, r.conn) /\ Advances(d, r.conn) /\ r.res = "failed"
          /\ r.conn.hsError \/ r.conn.readShutdown # "none"
      BY <2>5, <2>9, <3>1, RefuseInHandshakeTrust, RefuseInHandshakeType
    <3>3. Advances(c, r.conn) /\ r.conn.inInit /\ r.conn.verify = "notStarted"
      BY <2>5, <2>7, <3>2 DEF Advances, SameHandshake
    <3> QED BY <1>6, <2>5, <2>9, <3>2, <3>3 DEF Quiet, LastFlight, r
  <2>10. CASE d.inbound # <<>> /\ Head(d.inbound).kind = "hs" /\ NeedsCallback(d)
    <3> DEFINE f == Consume(d)
               g == [f EXCEPT !.verify = "pendingResult"]
    <3>1. r.conn = g /\ r.res = "startsCallback"
      BY <2>6, <2>10 DEF ReadFlight, Result
    <3>2. f \in Connection /\ SameHandshake(d, f) /\ Advances(d, f)
      BY <2>5, <2>10, ConsumeType, ConsumeTrust DEF Advances, SameHandshake
    <3> HIDE DEF f
    <3>3. /\ g.inInit = f.inInit /\ g.flights = f.flights /\ Advances(f, g)
          /\ g.verify = "pendingResult"
      BY <3>2 DEF Connection, Advances
    <3> HIDE DEF g
    <3>4. d.flights + 1 = HsFlights
      BY <2>10 DEF NeedsCallback
    <3>5. g.inInit /\ g.flights + 1 = HsFlights /\ Advances(c, g)
      BY <2>5, <2>7, <3>2, <3>3, <3>4 DEF Advances, SameHandshake
    <3>6. ~Quiet(c)
      BY <1>6, <2>5, <2>10 DEF Quiet
    <3> QED BY <1>6, <2>5, <2>10, <3>1, <3>3, <3>5, <3>6 DEF Quiet, LastFlight, r
  <2>11. CASE d.inbound # <<>> /\ Head(d.inbound).kind = "hs" /\ ~NeedsCallback(d)
    <3> DEFINE f == Consume(d)
    <3>1. r = FinishFlight(f)
      BY <2>6, <2>11 DEF ReadFlight
    <3>2. f \in Connection /\ SameHandshake(d, f) /\ Advances(d, f)
      BY <2>5, <2>11, ConsumeType, ConsumeTrust DEF Advances, SameHandshake
    <3> HIDE DEF f
    <3>3. f.inInit /\ f.verify = "notStarted"
      BY <2>7, <3>2 DEF SameHandshake
    <3>4. /\ Advances(f, r.conn) /\ r.conn.verify = "notStarted"
          /\ r.conn.inInit <=> r.res # "complete"
          /\ \/ ~r.conn.inInit \/ r.conn.hsError \/ r.conn.readShutdown # "none"
             \/ r.conn.inbound = <<>>
      BY <3>1, <3>2, <3>3, FinishFlightTrust
    <3>5. Advances(c, r.conn)
      BY <2>5, <3>2, <3>4 DEF Advances
    <3>6. ~Quiet(c)
      BY <1>6, <2>5, <2>11 DEF Quiet
    <3> QED BY <1>6, <2>5, <2>11, <3>4, <3>5, <3>6 DEF Quiet, LastFlight, r
  <2> QED BY <2>8, <2>9, <2>10, <2>11
<1>7. c.verify \in Verify
  BY DEF Connection
<1> QED BY <1>1, <1>2, <1>3, <1>4, <1>5, <1>6, <1>7 DEF Verify

\* What SSL_shutdown does to the handshake, and what its result says.
LEMMA DoShutdownTrust ==
    ASSUME NEW c \in Connection
    PROVE  LET r == DoShutdown(c) IN
           /\ SameHandshake(c, r.conn) /\ Advances(c, r.conn)
           /\ c.inInit => r.conn = c /\ r.res = "complete"
           /\ ~c.inInit => r.conn.writeShutdown # "none"
           /\ ~c.inInit /\ r.res = "complete" =>
                r.conn.readShutdown = "closeNotify" /\ r.conn.writeShutdown = "closeNotify"
<1> DEFINE r == DoShutdown(c)
<1>1. CASE c.inInit
  <2>1. r.conn = c /\ r.res = "complete"
    BY <1>1 DEF DoShutdown, Result
  <2> QED BY <1>1, <2>1 DEF SameHandshake, Advances
<1>2. CASE ~c.inInit /\ c.writeShutdown # "closeNotify"
  <2> DEFINE x == Rec("closeNotify")
             e == Send(c, x)
             d == [e EXCEPT !.writeShutdown = "closeNotify"]
             b == [c EXCEPT !.writeShutdown = "closeNotify"]
  <2>1. x \in Record /\ ~IsData(x)
    BY RecType DEF Kinds, IsData
  <2>2. /\ e \in Connection /\ SameHandshake(c, e) /\ Advances(c, e)
        /\ e.readShutdown = c.readShutdown
    BY <2>1, SendType, SendTrust DEF Advances, SameHandshake
  <2> HIDE DEF x, e
  <2>3. /\ SameHandshake(e, d) /\ Advances(e, d) /\ d.writeShutdown = "closeNotify"
        /\ d.readShutdown = e.readShutdown
    BY <2>2 DEF Connection, SameHandshake, Advances
  <2>4. /\ SameHandshake(c, b) /\ Advances(c, b) /\ b.writeShutdown = "closeNotify"
    BY DEF Connection, SameHandshake, Advances
  <2>5. \/ r.conn = c /\ c.writeShutdown = "error" /\ r.res = "failed"
        \/ r.conn = b /\ r.res # "complete"
        \/ r.conn = d /\ (r.res = "complete" => c.readShutdown = "closeNotify")
    BY <1>2 DEF DoShutdown, SendCloseNotify, BIOClosed, Result, e, x
  <2> HIDE DEF d, b, r
  <2> QED BY <1>2, <2>2, <2>3, <2>4, <2>5 DEF SameHandshake, Advances, r
<1>3. CASE ~c.inInit /\ c.writeShutdown = "closeNotify"
  <2> DEFINE e == Consume(c)
             f == Refuse(c)
             d == [e EXCEPT !.readShutdown = "closeNotify"]
             g == [f EXCEPT !.readShutdown = "error"]
             k == RetryRead(c, TRUE)
             l == RetryRead(c, FALSE)
  <2>1. c.inbound # <<>> => /\ e \in Connection /\ SameHandshake(c, e) /\ Advances(c, e)
                            /\ e.writeShutdown = c.writeShutdown
                            /\ f \in Connection /\ SameHandshake(c, f) /\ Advances(c, f)
                            /\ f.readShutdown = c.readShutdown
    BY ConsumeType, RefuseType, ConsumeTrust, RefuseTrust DEF Advances, SameHandshake
  <2>2. SameHandshake(c, k) /\ Advances(c, k) /\ SameHandshake(c, l) /\ Advances(c, l)
    BY RetryReadTrust DEF Advances, SameHandshake
  <2>3. \/ r.conn = c /\ (r.res = "complete" => c.readShutdown = "closeNotify")
        \/ (r.conn = k \/ r.conn = l) /\ r.res # "complete"
        \/ c.inbound # <<>> /\ r.conn = d
        \/ c.inbound # <<>> /\ r.conn = g /\ r.res = "failed" /\ c.readShutdown # "closeNotify"
    BY <1>3 DEF DoShutdown, AwaitCloseNotify, BIOClosed, WantRead, Result
  <2> HIDE DEF e, f, k, l, r
  <2>4. c.inbound # <<>> =>
          /\ SameHandshake(e, d) /\ Advances(e, d) /\ d.writeShutdown = e.writeShutdown
          /\ d.readShutdown = "closeNotify"
          /\ SameHandshake(f, g) /\ (f.readShutdown # "closeNotify" => Advances(f, g))
    BY <2>1 DEF Connection, SameHandshake, Advances
  <2> HIDE DEF d, g
  <2> QED BY <1>3, <2>1, <2>2, <2>3, <2>4 DEF SameHandshake, Advances, r
<1> QED BY <1>1, <1>2, <1>3

\* What SSL_read does to the handshake.
LEMMA ReadDataTrust ==
    ASSUME NEW c \in Connection
    PROVE  LET d == ReadData(c).conn IN
           /\ SameHandshake(c, d) /\ Advances(c, d)
           /\ c.inbound = <<>> => d.inbound = <<>>
<1> DEFINE rest == SubSeq(c.inbound, DataPrefix(c.inbound) + 1, Len(c.inbound))
           t == [c EXCEPT !.inbound = rest]
<1>1. rest \in Seq(Record) /\ (c.inbound = <<>> => rest = <<>>)
  <2>1. c.inbound \in Seq(Record) /\ DataPrefix(c.inbound) \in 0..Len(c.inbound)
    BY ConnectionOpsType, DataPrefixType
  <2>2. rest \in Seq(Record)
    BY <2>1
  <2>3. c.inbound = <<>> => Len(rest) = 0
    BY <2>1
  <2> QED BY <2>2, <2>3
<1> HIDE DEF rest
<1>2. t \in Connection /\ SameHandshake(c, t) /\ Advances(c, t) /\ t.inbound = rest
      /\ t.readShutdown = c.readShutdown
  BY <1>1 DEF Connection, SameHandshake, Advances
<1> DEFINE e == Consume(t)
           f == Refuse(t)
           d == [e EXCEPT !.readShutdown = "closeNotify"]
           g == [f EXCEPT !.readShutdown = "error"]
           k == RetryRead(t, TRUE)
<1>3. \/ ReadData(c).conn \in {c, RetryRead(t, TRUE)}
      \/ /\ t.inbound # <<>> /\ c.readShutdown # "closeNotify"
         /\ ReadData(c).conn \in {[Consume(t) EXCEPT !.readShutdown = "closeNotify"],
                                  [Refuse(t) EXCEPT !.readShutdown = "error"]}
  BY DEF ReadData, BIOClosed, WantRead, Result, rest
<1> HIDE DEF t
<1>4. t.inbound # <<>> => /\ e \in Connection /\ SameHandshake(t, e) /\ Advances(t, e)
                          /\ f \in Connection /\ SameHandshake(t, f) /\ Advances(t, f)
                          /\ f.readShutdown = t.readShutdown
  BY <1>2, ConsumeType, RefuseType, ConsumeTrust, RefuseTrust DEF Advances, SameHandshake
<1>5. SameHandshake(t, k) /\ Advances(t, k) /\ k.inbound = t.inbound
  BY <1>2, RetryReadTrust DEF Advances, SameHandshake
<1> HIDE DEF e, f, k
<1>6. t.inbound # <<>> => /\ SameHandshake(e, d) /\ Advances(e, d)
                          /\ SameHandshake(f, g) /\ (f.readShutdown # "closeNotify"
                               => Advances(f, g))
  BY <1>4 DEF Connection, SameHandshake, Advances
<1> HIDE DEF d, g
<1>7. c.inbound = <<>> => t.inbound = <<>>
  BY <1>1, <1>2
<1>8. \/ ReadData(c).conn = c \/ ReadData(c).conn = k
      \/ /\ t.inbound # <<>> /\ c.readShutdown # "closeNotify"
         /\ ReadData(c).conn = d \/ ReadData(c).conn = g
  BY <1>3 DEF e, f, d, g, k
<1> QED BY <1>2, <1>8, <1>4, <1>5, <1>6, <1>7 DEF SameHandshake, Advances

\* What SSL_write does to a handshake that cannot complete, and after one.
LEMMA EncodeTrust ==
    ASSUME NEW c \in Connection, NEW a \in Action, LastFlight(c), c.inInit => Quiet(c)
    PROVE  LET d == EncodeSingleWrite(c, a).conn IN
           /\ d.inInit = c.inInit /\ LastFlight(d)
           /\ d.writeShutdown = "none" => c.writeShutdown = "none"
           /\ c.inInit \/ c.writeShutdown # "none" => Advances(c, d)
           /\ c.inInit => Quiet(d)
           /\ c.verify = "notStarted" /\ c.inbound = <<>> =>
                d.verify = "notStarted" /\ d.inbound = <<>>
<1> DEFINE h == DoHandshake(c)
           x == DataRecord(a.id, a.n)
           w == EncodeSingleWrite(c, a)
<1>1. /\ h.conn \in Connection /\ Advances(c, h.conn) /\ LastFlight(h.conn)
      /\ ~c.inInit => h.conn = c
      /\ h.conn.inInit <=> h.res # "complete"
      /\ h.conn.inInit => Quiet(h.conn)
      /\ c.inInit => h.conn.inInit
      /\ c.verify = "notStarted" /\ c.inbound = <<>> =>
           h.conn.verify = "notStarted" /\ h.conn.inbound = <<>>
  BY DoHandshakeType, DoHandshakeTrust
<1>2. x \in Record
  BY DEF DataRecord, Record, Action, Kinds
<1>3. /\ BeforeWrite(c).conn = h.conn
      /\ BeforeWrite(c).res = "complete" => h.conn.writeShutdown = "none" /\ h.res = "complete"
  BY DEF BeforeWrite, BIOClosed, Result
<1> HIDE DEF h, x
<1>4. \/ w.conn = c \/ w.conn = h.conn
      \/ w.conn = Send(h.conn, x) /\ h.conn.writeShutdown = "none" /\ h.res = "complete"
  BY <1>3 DEF EncodeSingleWrite, Result, x
<1> HIDE DEF w
<1>5. CASE w.conn = c
  BY <1>5 DEF Advances, w
<1>6. CASE w.conn = h.conn
  BY <1>1, <1>6 DEF Advances, w
<1>7. CASE w.conn = Send(h.conn, x) /\ h.conn.writeShutdown = "none" /\ h.res = "complete"
  <2>1. ~c.inInit /\ h.conn = c
    BY <1>1, <1>7
  <2> DEFINE d == Send(c, x)
  <2>2. /\ SameHandshake(c, d) /\ d.bioClosed = c.bioClosed /\ d.hsError = c.hsError
             /\ d.readShutdown = c.readShutdown
        /\ d.inbound = c.inbound /\ d.writeShutdown = c.writeShutdown
    BY <1>2, SendTrust
  <2>3. w.conn = d
    BY <1>7, <2>1
  <2> HIDE DEF d
  <2> QED BY <1>7, <2>1, <2>2, <2>3 DEF SameHandshake, LastFlight, w
<1> QED BY <1>4, <1>5, <1>6, <1>7

\* Feeding, emptying and closing the BIO, and the user's verdict.
LEMMA ConnectionOpsTrust ==
    ASSUME NEW c \in Connection
    PROVE  /\ LET d == GetDataForNetwork(c) IN
                /\ SameHandshake(c, d) /\ Advances(c, d) /\ d.inbound = c.inbound
                /\ d.outbound = <<>> /\ NoData(d.outbound)
           /\ LET d == ExtractUnconsumedData(c) IN
                SameHandshake(c, d) /\ Advances(c, d) /\ d.inbound = <<>>
           /\ LET d == CloseConnection(c) IN
                SameHandshake(c, d) /\ Advances(c, d) /\ d.bioClosed /\ d.inbound = c.inbound
           /\ \A v : LET d == SetVerification(c, v) IN
                /\ d.inInit = c.inInit /\ d.verify = v /\ d.flights = c.flights
                /\ d.inbound = c.inbound /\ Advances(c, d)
           /\ \A recs : LET d == ConsumeDataFromNetwork(c, recs) IN
                SameHandshake(c, d) /\ Advances(c, d)
<1> USE DEF Connection, SameHandshake, Advances
<1>1. LET d == GetDataForNetwork(c) IN
        /\ SameHandshake(c, d) /\ Advances(c, d) /\ d.inbound = c.inbound
        /\ d.outbound = <<>> /\ NoData(d.outbound)
  <2>1. NoData(<<>>)
    BY DEF NoData
  <2> QED BY <2>1 DEF GetDataForNetwork
<1>2. LET d == ExtractUnconsumedData(c) IN
        SameHandshake(c, d) /\ Advances(c, d) /\ d.inbound = <<>>
  BY DEF ExtractUnconsumedData
<1>3. LET d == CloseConnection(c) IN
        SameHandshake(c, d) /\ Advances(c, d) /\ d.bioClosed /\ d.inbound = c.inbound
  BY DEF CloseConnection
<1>4. \A v : LET d == SetVerification(c, v) IN
        /\ d.inInit = c.inInit /\ d.verify = v /\ d.flights = c.flights
        /\ d.inbound = c.inbound /\ Advances(c, d)
  BY DEF SetVerification
<1>5. \A recs : LET d == ConsumeDataFromNetwork(c, recs) IN
        SameHandshake(c, d) /\ Advances(c, d)
  BY DEF ConsumeDataFromNetwork
<1> QED BY <1>1, <1>2, <1>3, <1>4, <1>5

-----------------------------------------------------------------------------
\* The channel can still be written to, now or once it is active.
Open == ~removed /\ channel # "closed" /\ outputOpen

\* A shutdown has begun and its first step is what runs next.
ShuttingDown == TopOp(stack) = "doShutdownStep" /\ state \in {"closing", "unwrapping"}

\* Calls that end in closing the channel or in leaving the pipeline.
Ending == {"channelClose", "contextClose", "channelUnwrap"}

\* What can be under way while the state is .handshaking ...
HandshakingOps == {"callout", "netout", "write", "flush", "closeAll", "closeOutput", "stopTLS",
                   "channelClose", "writeDataToNetwork", "doFlushReadData",
                   "doHandshakeStep", "handshakeIncomplete"}

\* ... and while the handshake is complete and the peer not yet trusted.
DistrustOps == {"callout", "netout", "write", "flush", "closeAll", "closeOutput", "stopTLS",
                "channelClose", "contextClose", "doShutdownStep", "writeDataToNetwork",
                "doFlushReadData"}

Distrusted == completions = 0 /\ ~conn.inInit /\ Open /\ conn.writeShutdown = "none"

\* The stack and the connection agree on whether there is a handshake.
StackAgrees ==
    /\ LastOnly(stack)
    /\ HandshakeOps \cap Pending(stack) # {} \/ channel = "registered" => conn.inInit
    /\ "doDecodeData" \in Pending(stack) => ~conn.inInit
    /\ channel = "registered" => /\ conn.verify = "notStarted" /\ conn.inbound = <<>>
                                 /\ HandshakeOps \cap Pending(stack) = {}

Counts == conn.inInit => completions = 0 /\ pendingAdditional = 0

\* Only a step of the handshake can complete it.
Waits == conn.inInit => \/ Quiet(conn)
                        \/ TopOp(stack) = "doHandshakeStep" /\ (state = "handshaking" \/ ~Open)

Handshaking == state = "handshaking" =>
                  /\ conn.inInit \/ "channelClose" \in Pending(stack)
                  /\ Pending(stack) \subseteq HandshakingOps

\* A handshake that is not over goes on, or the connection is being closed.
InProgress ==
    conn.inInit /\ channel = "active" /\ ~removed =>
        \/ state = "handshaking" \/ ShuttingDown
        \/ Pending(stack) \cap (HandshakeOps \cup Ending) # {}

\* SSL_shutdown in a handshake is done at once.
NoShutdownInInit ==
    conn.inInit /\ Open =>
        /\ state \in {"closing", "unwrapping"} => ShuttingDown
        /\ shutdownPromise # {} =>
             ShuttingDown \/ Pending(stack) \cap {"channelUnwrap", "channelClose"} # {}

HeldBack == Distrusted =>
    /\ \/ state \in {"handshaking", "additionalVerification"} /\ shutdownPromise = {}
       \/ ShuttingDown \/ TopOp(stack) = "contextClose"
    /\ Pending(stack) \subseteq DistrustOps

Clear == Open /\ completions = 0 => NoData(conn.outbound)

TrustInv == /\ StackAgrees /\ LastFlight(conn) /\ Counts /\ Waits
            /\ Handshaking /\ InProgress /\ NoShutdownInInit /\ HeldBack /\ Clear

\* An operation of the connection that is not a step of the handshake.
Steady(c, d) == /\ SameHandshake(c, d) /\ Advances(c, d)
                /\ c.inInit /\ c.inbound = <<>> => d.inbound = <<>>

\* A step that leaves the connection alone.
LEMMA SteadyKeep == \A c : Steady(c, c)
BY DEF Steady, SameHandshake, Advances

\* The part that a step leaves alone when it runs no step of the handshake.
LEMMA CalmStep ==
    ASSUME TrustInv, Steady(conn, conn'), UNCHANGED <<completions, pendingAdditional>>,
           Open' => Open,
           TopOp(stack) # "doHandshakeStep", channel' = "registered" => channel = "registered",
           HandshakeOps \cap Pending(stack') \subseteq Pending(stack),
           "doDecodeData" \in Pending(stack') => "doDecodeData" \in Pending(stack),
           LastOnly(stack')
    PROVE  StackAgrees' /\ LastFlight(conn)' /\ Counts' /\ Waits' /\ Clear'
<1> USE DEF Steady, SameHandshake, Advances
<1>1. StackAgrees'
  BY DEF TrustInv, StackAgrees
<1>2. LastFlight(conn)' /\ Counts'
  BY DEF TrustInv, LastFlight, Counts
<1>3. Waits'
  BY DEF TrustInv, Waits, Quiet
<1>4. Clear'
  BY DEF TrustInv, Clear
<1> QED BY <1>1, <1>2, <1>3, <1>4

\* Return keeps the invariant.
LEMMA ReturnTrust ==
    ASSUME TypeOK, TrustInv, Return PROVE TrustInv'
<1>1. (Pops("callout") \/ Pops("netout")) /\ Drops
  BY NetworkStack DEF Enter, EnterTimed, timerVars
<1>2. UNCHANGED <<state, conn, completions, pendingAdditional, removed, channel, outputOpen,
        shutdownPromise>>
  BY DEF Return, chanVars, slotVars, timerVars, histVars
<1> USE DEF Pops, Goes, Drops, Starts, Pushes, CallsOut
<1>3. StackAgrees' /\ LastFlight(conn)' /\ Counts' /\ Waits' /\ Clear'
  BY <1>1, <1>2, CalmStep, SteadyKeep DEF HandshakeOps, Open, TrustInv, StackAgrees, TypeOK
<1>4. Handshaking'
  BY <1>1, <1>2, PendingEmpty DEF TrustInv, Handshaking, HandshakingOps, BuffersFlush,
     StackAgrees, HandshakeOps, Steady, SameHandshake
<1>5. InProgress'
  BY <1>1, <1>2, PendingEmpty DEF TrustInv, Handshaking, HandshakingOps, InProgress, ShuttingDown,
     HandshakeOps, Ending, Steady, SameHandshake
<1>6. NoShutdownInInit'
  BY <1>1, <1>2 DEF TrustInv, NoShutdownInInit, StackAgrees, ShuttingDown, Open, Steady,
     SameHandshake
<1>7. HeldBack'
  BY <1>1, <1>2 DEF TrustInv, HeldBack, Distrusted, ShuttingDown, Open, DistrustOps, BuffersFlush,
     Steady, SameHandshake, Advances
<1> QED BY <1>3, <1>4, <1>5, <1>6, <1>7 DEF TrustInv

\* ContextClose keeps the invariant.
LEMMA ContextCloseTrust ==
    ASSUME TypeOK, TrustInv, ContextClose PROVE TrustInv'
<1>1. Pops("contextClose") /\ (Goes({"callout"}, "callout") \/ Goes({"netout"}, "netout"))
  BY NetworkStack DEF Enter, EnterTimed, timerVars
<1>2. /\ UNCHANGED <<state, conn, completions, pendingAdditional, removed, outputOpen,
           shutdownPromise>>
      /\ removed \/ channel' = "closed"
      /\ channel' \in {channel, "closed"}
  BY DEF ContextClose, chanVars, slotVars, timerVars, histVars
<1> USE DEF Pops, Goes, Drops, Starts, Pushes, CallsOut
<1>3. StackAgrees' /\ LastFlight(conn)' /\ Counts' /\ Waits' /\ Clear'
  BY <1>1, <1>2, CalmStep, SteadyKeep DEF HandshakeOps, Open, TrustInv, StackAgrees, TypeOK
<1>4. Handshaking'
  BY <1>1, <1>2, PendingEmpty DEF TrustInv, Handshaking, HandshakingOps, BuffersFlush,
     StackAgrees, HandshakeOps, Steady, SameHandshake
<1>5. InProgress'
  BY <1>1, <1>2, PendingEmpty DEF TrustInv, Handshaking, HandshakingOps, InProgress, ShuttingDown,
     HandshakeOps, Ending, Steady, SameHandshake
<1>6. NoShutdownInInit'
  BY <1>1, <1>2 DEF TrustInv, NoShutdownInInit, StackAgrees, ShuttingDown, Open, Steady,
     SameHandshake
<1>7. HeldBack'
  BY <1>1, <1>2 DEF TrustInv, HeldBack, Distrusted, ShuttingDown, Open, DistrustOps, BuffersFlush,
     Steady, SameHandshake, Advances
<1> QED BY <1>3, <1>4, <1>5, <1>6, <1>7 DEF TrustInv

\* ContextCloseOutput keeps the invariant.
LEMMA ContextCloseOutputTrust ==
    ASSUME TypeOK, TrustInv, ContextCloseOutput PROVE TrustInv'
<1>1. Pops("contextCloseOutput") /\ (Goes({"callout"}, "callout") \/ Goes({"netout"}, "netout"))
  BY NetworkStack DEF Enter, EnterTimed, timerVars
<1>2. /\ UNCHANGED <<state, conn, completions, pendingAdditional, removed, channel,
           shutdownPromise>>
      /\ outputOpen' => outputOpen
  BY DEF ContextCloseOutput, Writable, chanVars, slotVars, timerVars, histVars
<1> USE DEF Pops, Goes, Drops, Starts, Pushes, CallsOut
<1>3. StackAgrees' /\ LastFlight(conn)' /\ Counts' /\ Waits' /\ Clear'
  BY <1>1, <1>2, CalmStep, SteadyKeep DEF HandshakeOps, Open, TrustInv, StackAgrees, TypeOK
<1>4. Handshaking'
  BY <1>1, <1>2, PendingEmpty DEF TrustInv, Handshaking, HandshakingOps, BuffersFlush,
     StackAgrees, HandshakeOps, Steady, SameHandshake
<1>5. InProgress'
  BY <1>1, <1>2, PendingEmpty DEF TrustInv, Handshaking, HandshakingOps, InProgress, ShuttingDown,
     HandshakeOps, Ending, Steady, SameHandshake
<1>6. NoShutdownInInit'
  BY <1>1, <1>2 DEF TrustInv, NoShutdownInInit, StackAgrees, ShuttingDown, Open, Steady,
     SameHandshake
<1>7. HeldBack'
  BY <1>1, <1>2 DEF TrustInv, HeldBack, Distrusted, ShuttingDown, Open, DistrustOps, BuffersFlush,
     Steady, SameHandshake, Advances
<1> QED BY <1>3, <1>4, <1>5, <1>6, <1>7 DEF TrustInv

\* ChannelClose keeps the invariant.
LEMMA ChannelCloseTrust ==
    ASSUME TypeOK, TrustInv, ChannelClose PROVE TrustInv'
<1>1. /\ Pops("channelClose")
      /\ (shutdownPromise = {} /\ Goes({"contextClose"}, "contextClose"))
           \/ (shutdownPromise # {} /\ Goes({"callout", "contextClose"}, "callout"))
  BY EndStack DEF Enter, EnterTimed, timerVars
<1>2. /\ UNCHANGED <<conn, completions, pendingAdditional, removed, channel, outputOpen>>
      /\ state' = "closed"
      /\ shutdownPromise' = {}
  BY DEF ChannelClose, Enter, chanVars, slotVars, timerVars, histVars
<1> USE DEF Pops, Goes, Drops, Starts, Pushes, CallsOut
<1>3. StackAgrees' /\ LastFlight(conn)' /\ Counts' /\ Waits' /\ Clear'
  BY <1>1, <1>2, CalmStep, SteadyKeep DEF HandshakeOps, Open, TrustInv, StackAgrees, TypeOK
<1>4. Handshaking'
  BY <1>1, <1>2, PendingEmpty DEF TrustInv, Handshaking, HandshakingOps, BuffersFlush,
     StackAgrees, HandshakeOps, Steady, SameHandshake
<1>5. InProgress'
  BY <1>1, <1>2, PendingEmpty DEF TrustInv, Handshaking, HandshakingOps, InProgress, ShuttingDown,
     HandshakeOps, Ending, Steady, SameHandshake
<1>6. NoShutdownInInit'
  BY <1>1, <1>2 DEF TrustInv, NoShutdownInInit, StackAgrees, ShuttingDown, Open, Steady,
     SameHandshake
<1>7. HeldBack'
  BY <1>1, <1>2 DEF TrustInv, HeldBack, Distrusted, ShuttingDown, Open, DistrustOps, BuffersFlush,
     Steady, SameHandshake, Advances
<1> QED BY <1>3, <1>4, <1>5, <1>6, <1>7 DEF TrustInv

\* ChannelCloseOutput keeps the invariant.
LEMMA ChannelCloseOutputTrust ==
    ASSUME TypeOK, TrustInv, ChannelCloseOutput PROVE TrustInv'
<1>1. Pops("channelCloseOutput") /\ Goes({"contextCloseOutput"}, "contextCloseOutput")
  BY EndStack DEF Enter, EnterTimed, timerVars
<1>2. UNCHANGED <<state, conn, completions, pendingAdditional, removed, channel, outputOpen,
        shutdownPromise>>
  BY DEF ChannelCloseOutput, chanVars, slotVars, timerVars, histVars
<1> USE DEF Pops, Goes, Drops, Starts, Pushes, CallsOut
<1>3. StackAgrees' /\ LastFlight(conn)' /\ Counts' /\ Waits' /\ Clear'
  BY <1>1, <1>2, CalmStep, SteadyKeep DEF HandshakeOps, Open, TrustInv, StackAgrees, TypeOK
<1>4. Handshaking'
  BY <1>1, <1>2, PendingEmpty DEF TrustInv, Handshaking, HandshakingOps, BuffersFlush,
     StackAgrees, HandshakeOps, Steady, SameHandshake
<1>5. InProgress'
  BY <1>1, <1>2, PendingEmpty DEF TrustInv, Handshaking, HandshakingOps, InProgress, ShuttingDown,
     HandshakeOps, Ending, Steady, SameHandshake
<1>6. NoShutdownInInit'
  BY <1>1, <1>2 DEF TrustInv, NoShutdownInInit, StackAgrees, ShuttingDown, Open, Steady,
     SameHandshake
<1>7. HeldBack'
  BY <1>1, <1>2 DEF TrustInv, HeldBack, Distrusted, ShuttingDown, Open, DistrustOps, BuffersFlush,
     Steady, SameHandshake, Advances
<1> QED BY <1>3, <1>4, <1>5, <1>6, <1>7 DEF TrustInv

\* BufferWrite keeps the invariant.
LEMMA BufferWriteTrust ==
    ASSUME TypeOK, TrustInv, BufferWrite PROVE TrustInv'
<1>1. Pops("write") /\ (Drops \/ Goes({"callout"}, "callout"))
  BY BufferStack DEF Enter, EnterTimed, timerVars
<1>2. UNCHANGED <<state, conn, completions, pendingAdditional, removed, channel, outputOpen,
        shutdownPromise>>
  BY DEF BufferWrite, chanVars, slotVars, timerVars, histVars
<1> USE DEF Pops, Goes, Drops, Starts, Pushes, CallsOut
<1>3. StackAgrees' /\ LastFlight(conn)' /\ Counts' /\ Waits' /\ Clear'
  BY <1>1, <1>2, CalmStep, SteadyKeep DEF HandshakeOps, Open, TrustInv, StackAgrees, TypeOK
<1>4. Handshaking'
  BY <1>1, <1>2, PendingEmpty DEF TrustInv, Handshaking, HandshakingOps, BuffersFlush,
     StackAgrees, HandshakeOps, Steady, SameHandshake
<1>5. InProgress'
  BY <1>1, <1>2, PendingEmpty DEF TrustInv, Handshaking, HandshakingOps, InProgress, ShuttingDown,
     HandshakeOps, Ending, Steady, SameHandshake
<1>6. NoShutdownInInit'
  BY <1>1, <1>2 DEF TrustInv, NoShutdownInInit, StackAgrees, ShuttingDown, Open, Steady,
     SameHandshake
<1>7. HeldBack'
  BY <1>1, <1>2 DEF TrustInv, HeldBack, Distrusted, ShuttingDown, Open, DistrustOps, BuffersFlush,
     Steady, SameHandshake, Advances
<1> QED BY <1>3, <1>4, <1>5, <1>6, <1>7 DEF TrustInv

\* Flush keeps the invariant.
LEMMA FlushTrust ==
    ASSUME TypeOK, TrustInv, Flush PROVE TrustInv'
<1>1. /\ Pops("flush")
      /\ Drops \/ (~BuffersFlush /\ Goes({"doUnbufferActions"}, "doUnbufferActions"))
  BY BufferStack DEF Enter, EnterTimed, timerVars
<1>2. UNCHANGED <<state, conn, completions, pendingAdditional, removed, channel, outputOpen,
        shutdownPromise>>
  BY DEF Flush, chanVars, slotVars, timerVars, histVars
<1> USE DEF Pops, Goes, Drops, Starts, Pushes, CallsOut
<1>3. StackAgrees' /\ LastFlight(conn)' /\ Counts' /\ Waits' /\ Clear'
  BY <1>1, <1>2, CalmStep, SteadyKeep DEF HandshakeOps, Open, TrustInv, StackAgrees, TypeOK
<1>4. Handshaking'
  BY <1>1, <1>2, PendingEmpty DEF TrustInv, Handshaking, HandshakingOps, BuffersFlush,
     StackAgrees, HandshakeOps, Steady, SameHandshake
<1>5. InProgress'
  BY <1>1, <1>2, PendingEmpty DEF TrustInv, Handshaking, HandshakingOps, InProgress, ShuttingDown,
     HandshakeOps, Ending, Steady, SameHandshake
<1>6. NoShutdownInInit'
  BY <1>1, <1>2 DEF TrustInv, NoShutdownInInit, StackAgrees, ShuttingDown, Open, Steady,
     SameHandshake
<1>7. HeldBack'
  BY <1>1, <1>2 DEF TrustInv, HeldBack, Distrusted, ShuttingDown, Open, DistrustOps, BuffersFlush,
     Steady, SameHandshake, Advances
<1> QED BY <1>3, <1>4, <1>5, <1>6, <1>7 DEF TrustInv

\* Discard keeps the invariant.
LEMMA DiscardTrust ==
    ASSUME TypeOK, TrustInv, Discard PROVE TrustInv'
<1>1. /\ Pops("discard")
      /\ Drops \/ Goes({"discard"}, "discard") \/ Goes({"callout", "discard"}, "callout")
  BY BufferStack DEF Enter, EnterTimed, timerVars
<1>2. UNCHANGED <<state, conn, completions, pendingAdditional, removed, channel, outputOpen,
        shutdownPromise>>
  BY DEF Discard, chanVars, slotVars, timerVars, histVars
<1> USE DEF Pops, Goes, Drops, Starts, Pushes, CallsOut
<1>3. StackAgrees' /\ LastFlight(conn)' /\ Counts' /\ Waits' /\ Clear'
  BY <1>1, <1>2, CalmStep, SteadyKeep DEF HandshakeOps, Open, TrustInv, StackAgrees, TypeOK
<1>4. Handshaking'
  BY <1>1, <1>2, PendingEmpty DEF TrustInv, Handshaking, HandshakingOps, BuffersFlush,
     StackAgrees, HandshakeOps, Steady, SameHandshake
<1>5. InProgress'
  BY <1>1, <1>2, PendingEmpty DEF TrustInv, Handshaking, HandshakingOps, InProgress, ShuttingDown,
     HandshakeOps, Ending, Steady, SameHandshake
<1>6. NoShutdownInInit'
  BY <1>1, <1>2 DEF TrustInv, NoShutdownInInit, StackAgrees, ShuttingDown, Open, Steady,
     SameHandshake
<1>7. HeldBack'
  BY <1>1, <1>2 DEF TrustInv, HeldBack, Distrusted, ShuttingDown, Open, DistrustOps, BuffersFlush,
     Steady, SameHandshake, Advances
<1> QED BY <1>3, <1>4, <1>5, <1>6, <1>7 DEF TrustInv

\* InvokeCloseOutput keeps the invariant.
LEMMA InvokeCloseOutputTrust ==
    ASSUME TypeOK, TrustInv, InvokeCloseOutput PROVE TrustInv'
<1>1. Pops("invokeCloseOutput") /\ Goes({"doShutdownStep", "discard"}, "doShutdownStep")
  BY BufferStack DEF Enter, EnterTimed, timerVars
<1>2. /\ UNCHANGED <<conn, completions, pendingAdditional, removed, channel, outputOpen,
           shutdownPromise>>
      /\ state' = "outputClosed"
  BY DEF InvokeCloseOutput, Enter, chanVars, slotVars, timerVars, histVars
<1> USE DEF Pops, Goes, Drops, Starts, Pushes, CallsOut
<1>3. StackAgrees' /\ LastFlight(conn)' /\ Counts' /\ Waits' /\ Clear'
  BY <1>1, <1>2, CalmStep, SteadyKeep DEF HandshakeOps, Open, TrustInv, StackAgrees, TypeOK
<1>4. Handshaking'
  BY <1>1, <1>2, PendingEmpty DEF TrustInv, Handshaking, HandshakingOps, BuffersFlush,
     StackAgrees, HandshakeOps, Steady, SameHandshake
<1>5. InProgress'
  BY <1>1, <1>2, PendingEmpty DEF TrustInv, Handshaking, HandshakingOps, InProgress, ShuttingDown,
     HandshakeOps, Ending, Steady, SameHandshake
<1>6. NoShutdownInInit'
  BY <1>1, <1>2 DEF TrustInv, NoShutdownInInit, StackAgrees, ShuttingDown, Open, Steady,
     SameHandshake
<1>7. HeldBack'
  BY <1>1, <1>2 DEF TrustInv, HeldBack, Distrusted, ShuttingDown, Open, DistrustOps, BuffersFlush,
     Steady, SameHandshake, Advances
<1> QED BY <1>3, <1>4, <1>5, <1>6, <1>7 DEF TrustInv

\* FailEncoded keeps the invariant.
LEMMA FailEncodedTrust ==
    ASSUME TypeOK, TrustInv, FailEncoded PROVE TrustInv'
<1>1. Pops("failEncoded") /\ (Drops \/ Goes({"callout"}, "callout"))
  BY BufferStack DEF Enter, EnterTimed, timerVars
<1>2. UNCHANGED <<state, conn, completions, pendingAdditional, removed, channel, outputOpen,
        shutdownPromise>>
  BY DEF FailEncoded, chanVars, slotVars, timerVars, histVars
<1> USE DEF Pops, Goes, Drops, Starts, Pushes, CallsOut
<1>3. StackAgrees' /\ LastFlight(conn)' /\ Counts' /\ Waits' /\ Clear'
  BY <1>1, <1>2, CalmStep, SteadyKeep DEF HandshakeOps, Open, TrustInv, StackAgrees, TypeOK
<1>4. Handshaking'
  BY <1>1, <1>2, PendingEmpty DEF TrustInv, Handshaking, HandshakingOps, BuffersFlush,
     StackAgrees, HandshakeOps, Steady, SameHandshake
<1>5. InProgress'
  BY <1>1, <1>2, PendingEmpty DEF TrustInv, Handshaking, HandshakingOps, InProgress, ShuttingDown,
     HandshakeOps, Ending, Steady, SameHandshake
<1>6. NoShutdownInInit'
  BY <1>1, <1>2 DEF TrustInv, NoShutdownInInit, StackAgrees, ShuttingDown, Open, Steady,
     SameHandshake
<1>7. HeldBack'
  BY <1>1, <1>2 DEF TrustInv, HeldBack, Distrusted, ShuttingDown, Open, DistrustOps, BuffersFlush,
     Steady, SameHandshake, Advances
<1> QED BY <1>3, <1>4, <1>5, <1>6, <1>7 DEF TrustInv

\* FailCloseOutput keeps the invariant.
LEMMA FailCloseOutputTrust ==
    ASSUME TypeOK, TrustInv, FailCloseOutput PROVE TrustInv'
<1>1. Pops("failCloseOutput") /\ (Drops \/ Goes({"callout"}, "callout"))
  BY BufferStack DEF Enter, EnterTimed, timerVars
<1>2. UNCHANGED <<state, conn, completions, pendingAdditional, removed, channel, outputOpen,
        shutdownPromise>>
  BY DEF FailCloseOutput, chanVars, slotVars, timerVars, histVars
<1> USE DEF Pops, Goes, Drops, Starts, Pushes, CallsOut
<1>3. StackAgrees' /\ LastFlight(conn)' /\ Counts' /\ Waits' /\ Clear'
  BY <1>1, <1>2, CalmStep, SteadyKeep DEF HandshakeOps, Open, TrustInv, StackAgrees, TypeOK
<1>4. Handshaking'
  BY <1>1, <1>2, PendingEmpty DEF TrustInv, Handshaking, HandshakingOps, BuffersFlush,
     StackAgrees, HandshakeOps, Steady, SameHandshake
<1>5. InProgress'
  BY <1>1, <1>2, PendingEmpty DEF TrustInv, Handshaking, HandshakingOps, InProgress, ShuttingDown,
     HandshakeOps, Ending, Steady, SameHandshake
<1>6. NoShutdownInInit'
  BY <1>1, <1>2 DEF TrustInv, NoShutdownInInit, StackAgrees, ShuttingDown, Open, Steady,
     SameHandshake
<1>7. HeldBack'
  BY <1>1, <1>2 DEF TrustInv, HeldBack, Distrusted, ShuttingDown, Open, DistrustOps, BuffersFlush,
     Steady, SameHandshake, Advances
<1> QED BY <1>3, <1>4, <1>5, <1>6, <1>7 DEF TrustInv

\* ShutdownIncomplete keeps the invariant.
LEMMA ShutdownIncompleteTrust ==
    ASSUME TypeOK, TrustInv, ShutdownIncomplete PROVE TrustInv'
<1>1. Pops("shutdownIncomplete") /\ Goes({"channelCloseOutput"}, "channelCloseOutput")
  BY ReadStack DEF Enter, EnterTimed, timerVars
<1>2. /\ UNCHANGED <<conn, completions, pendingAdditional, removed, channel, outputOpen,
           shutdownPromise>>
      /\ state' = "outputClosed"
  BY DEF ShutdownIncomplete, Enter, chanVars, slotVars, timerVars, histVars
<1> USE DEF Pops, Goes, Drops, Starts, Pushes, CallsOut
<1>3. StackAgrees' /\ LastFlight(conn)' /\ Counts' /\ Waits' /\ Clear'
  BY <1>1, <1>2, CalmStep, SteadyKeep DEF HandshakeOps, Open, TrustInv, StackAgrees, TypeOK
<1>4. Handshaking'
  BY <1>1, <1>2, PendingEmpty DEF TrustInv, Handshaking, HandshakingOps, BuffersFlush,
     StackAgrees, HandshakeOps, Steady, SameHandshake
<1>5. InProgress'
  BY <1>1, <1>2, PendingEmpty DEF TrustInv, Handshaking, HandshakingOps, InProgress, ShuttingDown,
     HandshakeOps, Ending, Steady, SameHandshake
<1>6. NoShutdownInInit'
  BY <1>1, <1>2 DEF TrustInv, NoShutdownInInit, StackAgrees, ShuttingDown, Open, Steady,
     SameHandshake
<1>7. HeldBack'
  BY <1>1, <1>2 DEF TrustInv, HeldBack, Distrusted, ShuttingDown, Open, DistrustOps, BuffersFlush,
     Steady, SameHandshake, Advances
<1> QED BY <1>3, <1>4, <1>5, <1>6, <1>7 DEF TrustInv

\* DoFlushReadData keeps the invariant.
LEMMA DoFlushReadDataTrust ==
    ASSUME TypeOK, TrustInv, DoFlushReadData PROVE TrustInv'
<1>1. Pops("doFlushReadData") /\ (Drops \/ Goes({"callout"}, "callout"))
  BY ReadStack DEF Enter, EnterTimed, timerVars
<1>2. UNCHANGED <<state, conn, completions, pendingAdditional, removed, channel, outputOpen,
        shutdownPromise>>
  BY DEF DoFlushReadData, chanVars, slotVars, timerVars, histVars
<1> USE DEF Pops, Goes, Drops, Starts, Pushes, CallsOut
<1>3. StackAgrees' /\ LastFlight(conn)' /\ Counts' /\ Waits' /\ Clear'
  BY <1>1, <1>2, CalmStep, SteadyKeep DEF HandshakeOps, Open, TrustInv, StackAgrees, TypeOK
<1>4. Handshaking'
  BY <1>1, <1>2, PendingEmpty DEF TrustInv, Handshaking, HandshakingOps, BuffersFlush,
     StackAgrees, HandshakeOps, Steady, SameHandshake
<1>5. InProgress'
  BY <1>1, <1>2, PendingEmpty DEF TrustInv, Handshaking, HandshakingOps, InProgress, ShuttingDown,
     HandshakeOps, Ending, Steady, SameHandshake
<1>6. NoShutdownInInit'
  BY <1>1, <1>2 DEF TrustInv, NoShutdownInInit, StackAgrees, ShuttingDown, Open, Steady,
     SameHandshake
<1>7. HeldBack'
  BY <1>1, <1>2 DEF TrustInv, HeldBack, Distrusted, ShuttingDown, Open, DistrustOps, BuffersFlush,
     Steady, SameHandshake, Advances
<1> QED BY <1>3, <1>4, <1>5, <1>6, <1>7 DEF TrustInv

\* ChannelFulfills keeps the invariant.
LEMMA ChannelFulfillsTrust ==
    ASSUME TypeOK, TrustInv, ChannelFulfills PROVE TrustInv'
<1>1. stack' = stack /\ TopOp(stack) \in {"none", "netout"}
  BY ChannelStack DEF Enter, EnterTimed, timerVars
<1>2. UNCHANGED <<state, conn, completions, pendingAdditional, removed, channel, outputOpen,
        shutdownPromise>>
  BY DEF ChannelFulfills, chanVars, slotVars, timerVars, histVars
<1> USE DEF Pops, Goes, Drops, Starts, Pushes, CallsOut
<1>3. StackAgrees' /\ LastFlight(conn)' /\ Counts' /\ Waits' /\ Clear'
  BY <1>1, <1>2, CalmStep, SteadyKeep DEF HandshakeOps, Open, TrustInv, StackAgrees, TypeOK
<1>4. Handshaking'
  BY <1>1, <1>2, PendingEmpty DEF TrustInv, Handshaking, HandshakingOps, BuffersFlush,
     StackAgrees, HandshakeOps, Steady, SameHandshake
<1>5. InProgress'
  BY <1>1, <1>2, PendingEmpty DEF TrustInv, Handshaking, HandshakingOps, InProgress, ShuttingDown,
     HandshakeOps, Ending, Steady, SameHandshake
<1>6. NoShutdownInInit'
  BY <1>1, <1>2 DEF TrustInv, NoShutdownInInit, StackAgrees, ShuttingDown, Open, Steady,
     SameHandshake
<1>7. HeldBack'
  BY <1>1, <1>2 DEF TrustInv, HeldBack, Distrusted, ShuttingDown, Open, DistrustOps, BuffersFlush,
     Steady, SameHandshake, Advances
<1> QED BY <1>3, <1>4, <1>5, <1>6, <1>7 DEF TrustInv

\* ConnectFails keeps the invariant.
LEMMA ConnectFailsTrust ==
    ASSUME TypeOK, TrustInv, ConnectFails PROVE TrustInv'
<1>1. stack' = stack /\ Starts({}, "none")
  BY ChannelStack DEF Enter, EnterTimed, timerVars
<1>2. /\ UNCHANGED <<state, conn, completions, pendingAdditional, removed, outputOpen,
           shutdownPromise>>
      /\ channel' = "closed"
  BY DEF ConnectFails, chanVars, slotVars, timerVars, histVars
<1> USE DEF Pops, Goes, Drops, Starts, Pushes, CallsOut
<1>3. StackAgrees' /\ LastFlight(conn)' /\ Counts' /\ Waits' /\ Clear'
  BY <1>1, <1>2, CalmStep, SteadyKeep DEF HandshakeOps, Open, TrustInv, StackAgrees, TypeOK
<1>4. Handshaking'
  BY <1>1, <1>2, PendingEmpty DEF TrustInv, Handshaking, HandshakingOps, BuffersFlush,
     StackAgrees, HandshakeOps, Steady, SameHandshake
<1>5. InProgress'
  BY <1>1, <1>2, PendingEmpty DEF TrustInv, Handshaking, HandshakingOps, InProgress, ShuttingDown,
     HandshakeOps, Ending, Steady, SameHandshake
<1>6. NoShutdownInInit'
  BY <1>1, <1>2 DEF TrustInv, NoShutdownInInit, StackAgrees, ShuttingDown, Open, Steady,
     SameHandshake
<1>7. HeldBack'
  BY <1>1, <1>2 DEF TrustInv, HeldBack, Distrusted, ShuttingDown, Open, DistrustOps, BuffersFlush,
     Steady, SameHandshake, Advances
<1> QED BY <1>3, <1>4, <1>5, <1>6, <1>7 DEF TrustInv

\* ChannelInactive keeps the invariant.
LEMMA ChannelInactiveTrust ==
    ASSUME TypeOK, TrustInv, ChannelInactive PROVE TrustInv'
<1>1. /\ TopOp(stack) \in {"none", "netout"}
      /\ Pushes({"discard", "callout"}, "discard") \/ Pushes({"callout", "discard"}, "callout")
  BY ChannelStack DEF Enter, EnterTimed, timerVars
<1>2. /\ UNCHANGED <<conn, completions, pendingAdditional, removed, outputOpen>>
      /\ channel' = "closed"
      /\ state' = "closed"
  BY DEF ChannelInactive, Enter, chanVars, slotVars, timerVars, histVars
<1> USE DEF Pops, Goes, Drops, Starts, Pushes, CallsOut
<1>3. StackAgrees' /\ LastFlight(conn)' /\ Counts' /\ Waits' /\ Clear'
  BY <1>1, <1>2, CalmStep, SteadyKeep DEF HandshakeOps, Open, TrustInv, StackAgrees, TypeOK
<1>4. Handshaking'
  BY <1>1, <1>2, PendingEmpty DEF TrustInv, Handshaking, HandshakingOps, BuffersFlush,
     StackAgrees, HandshakeOps, Steady, SameHandshake
<1>5. InProgress'
  BY <1>1, <1>2, PendingEmpty DEF TrustInv, Handshaking, HandshakingOps, InProgress, ShuttingDown,
     HandshakeOps, Ending, Steady, SameHandshake
<1>6. NoShutdownInInit'
  BY <1>1, <1>2 DEF TrustInv, NoShutdownInInit, StackAgrees, ShuttingDown, Open, Steady,
     SameHandshake
<1>7. HeldBack'
  BY <1>1, <1>2 DEF TrustInv, HeldBack, Distrusted, ShuttingDown, Open, DistrustOps, BuffersFlush,
     Steady, SameHandshake, Advances
<1> QED BY <1>3, <1>4, <1>5, <1>6, <1>7 DEF TrustInv

\* ChannelReadComplete keeps the invariant.
LEMMA ChannelReadCompleteTrust ==
    ASSUME TypeOK, TrustInv, ChannelReadComplete PROVE TrustInv'
<1>1. Starts({"doFlushReadData", "writeDataToNetwork"}, "doFlushReadData")
  BY ChannelStack DEF Enter, EnterTimed, timerVars
<1>2. UNCHANGED <<state, conn, completions, pendingAdditional, removed, channel, outputOpen,
        shutdownPromise>>
  BY DEF ChannelReadComplete, chanVars, slotVars, timerVars, histVars
<1> USE DEF Pops, Goes, Drops, Starts, Pushes, CallsOut
<1>3. StackAgrees' /\ LastFlight(conn)' /\ Counts' /\ Waits' /\ Clear'
  BY <1>1, <1>2, CalmStep, SteadyKeep DEF HandshakeOps, Open, TrustInv, StackAgrees, TypeOK
<1>4. Handshaking'
  BY <1>1, <1>2, PendingEmpty DEF TrustInv, Handshaking, HandshakingOps, BuffersFlush,
     StackAgrees, HandshakeOps, Steady, SameHandshake
<1>5. InProgress'
  BY <1>1, <1>2, PendingEmpty DEF TrustInv, Handshaking, HandshakingOps, InProgress, ShuttingDown,
     HandshakeOps, Ending, Steady, SameHandshake
<1>6. NoShutdownInInit'
  BY <1>1, <1>2 DEF TrustInv, NoShutdownInInit, StackAgrees, ShuttingDown, Open, Steady,
     SameHandshake
<1>7. HeldBack'
  BY <1>1, <1>2 DEF TrustInv, HeldBack, Distrusted, ShuttingDown, Open, DistrustOps, BuffersFlush,
     Steady, SameHandshake, Advances
<1> QED BY <1>3, <1>4, <1>5, <1>6, <1>7 DEF TrustInv

\* InputClosedTriggered keeps the invariant.
LEMMA InputClosedTriggeredTrust ==
    ASSUME TypeOK, TrustInv, InputClosedTriggered PROVE TrustInv'
<1>1. Starts({}, "none") \/ Starts({"callout"}, "callout")
  BY ChannelStack DEF Enter, EnterTimed, timerVars
<1>2. UNCHANGED <<state, conn, completions, pendingAdditional, removed, channel, outputOpen,
        shutdownPromise>>
  BY DEF InputClosedTriggered, chanVars, slotVars, timerVars, histVars
<1> USE DEF Pops, Goes, Drops, Starts, Pushes, CallsOut
<1>3. StackAgrees' /\ LastFlight(conn)' /\ Counts' /\ Waits' /\ Clear'
  BY <1>1, <1>2, CalmStep, SteadyKeep DEF HandshakeOps, Open, TrustInv, StackAgrees, TypeOK
<1>4. Handshaking'
  BY <1>1, <1>2, PendingEmpty DEF TrustInv, Handshaking, HandshakingOps, BuffersFlush,
     StackAgrees, HandshakeOps, Steady, SameHandshake
<1>5. InProgress'
  BY <1>1, <1>2, PendingEmpty DEF TrustInv, Handshaking, HandshakingOps, InProgress, ShuttingDown,
     HandshakeOps, Ending, Steady, SameHandshake
<1>6. NoShutdownInInit'
  BY <1>1, <1>2 DEF TrustInv, NoShutdownInInit, StackAgrees, ShuttingDown, Open, Steady,
     SameHandshake
<1>7. HeldBack'
  BY <1>1, <1>2 DEF TrustInv, HeldBack, Distrusted, ShuttingDown, Open, DistrustOps, BuffersFlush,
     Steady, SameHandshake, Advances
<1> QED BY <1>3, <1>4, <1>5, <1>6, <1>7 DEF TrustInv

\* CloseAll keeps the invariant.
LEMMA CloseAllTrust ==
    ASSUME TypeOK, TrustInv, CloseAll PROVE TrustInv'
<1>1. /\ Pops("closeAll")
      /\ \/ state \in {"closing", "unwrapping"} /\ state' = "closing" /\ Drops
         \/ state \in {"idle", "closed", "unwrapped"} /\ state' \in {"closed", "unwrapped"}
              /\ Goes({"contextClose"}, "contextClose")
         \/ state' = "closing" /\ Goes({"doShutdownStep"}, "doShutdownStep")
  BY CloseStack DEF Enter, EnterTimed, timerVars
<1>2. UNCHANGED <<conn, completions, pendingAdditional, removed, channel, outputOpen,
        shutdownPromise>>
  BY DEF CloseAll, chanVars, slotVars, timerVars, histVars
<1> USE DEF Pops, Goes, Drops, Starts, Pushes, CallsOut
<1>3. StackAgrees' /\ LastFlight(conn)' /\ Counts' /\ Waits' /\ Clear'
  BY <1>1, <1>2, CalmStep, SteadyKeep DEF HandshakeOps, Open, TrustInv, StackAgrees, TypeOK
<1>4. Handshaking'
  BY <1>1, <1>2, PendingEmpty DEF TrustInv, Handshaking, HandshakingOps, BuffersFlush,
     StackAgrees, HandshakeOps, Steady, SameHandshake
<1>5. InProgress'
  BY <1>1, <1>2, PendingEmpty DEF TrustInv, Handshaking, HandshakingOps, InProgress, ShuttingDown,
     HandshakeOps, Ending, Steady, SameHandshake
<1>6. NoShutdownInInit'
  BY <1>1, <1>2 DEF TrustInv, NoShutdownInInit, StackAgrees, ShuttingDown, Open, Steady,
     SameHandshake
<1>7. HeldBack'
  BY <1>1, <1>2 DEF TrustInv, HeldBack, Distrusted, ShuttingDown, Open, DistrustOps, BuffersFlush,
     Steady, SameHandshake, Advances
<1> QED BY <1>3, <1>4, <1>5, <1>6, <1>7 DEF TrustInv

\* CloseOutput keeps the invariant.
LEMMA CloseOutputTrust ==
    ASSUME TypeOK, TrustInv, CloseOutput PROVE TrustInv'
<1>1. /\ Pops("closeOutput")
      /\ \/ Drops /\ UNCHANGED state
         \/ state \notin {"handshaking", "additionalVerification"}
              /\ Goes({"contextCloseOutput"}, "contextCloseOutput") /\ UNCHANGED state
         \/ state = "inputClosed" /\ Goes({"closeAll"}, "closeAll") /\ UNCHANGED state
         \/ state = "active" /\ state' = "outputClosed"
              /\ Goes({"flush", "doShutdownStep"}, "flush")
  BY CloseStack DEF Enter, EnterTimed, timerVars
<1>2. UNCHANGED <<conn, completions, pendingAdditional, removed, channel, outputOpen,
        shutdownPromise>>
  BY DEF CloseOutput, chanVars, slotVars, timerVars, histVars
<1> USE DEF Pops, Goes, Drops, Starts, Pushes, CallsOut
<1>3. StackAgrees' /\ LastFlight(conn)' /\ Counts' /\ Waits' /\ Clear'
  BY <1>1, <1>2, CalmStep, SteadyKeep DEF HandshakeOps, Open, TrustInv, StackAgrees, TypeOK
<1>4. Handshaking'
  BY <1>1, <1>2, PendingEmpty DEF TrustInv, Handshaking, HandshakingOps, BuffersFlush,
     StackAgrees, HandshakeOps, Steady, SameHandshake
<1>5. InProgress'
  BY <1>1, <1>2, PendingEmpty DEF TrustInv, Handshaking, HandshakingOps, InProgress, ShuttingDown,
     HandshakeOps, Ending, Steady, SameHandshake
<1>6. NoShutdownInInit'
  BY <1>1, <1>2 DEF TrustInv, NoShutdownInInit, StackAgrees, ShuttingDown, Open, Steady,
     SameHandshake
<1>7. HeldBack'
  BY <1>1, <1>2 DEF TrustInv, HeldBack, Distrusted, ShuttingDown, Open, DistrustOps, BuffersFlush,
     Steady, SameHandshake, Advances
<1> QED BY <1>3, <1>4, <1>5, <1>6, <1>7 DEF TrustInv

\* StopTLS keeps the invariant.
LEMMA StopTLSTrust ==
    ASSUME TypeOK, TrustInv, StopTLS PROVE TrustInv'
<1>1. /\ Pops("stopTLS")
      /\ \/ state \in {"unwrapping", "closing"} /\ Drops /\ UNCHANGED state
         \/ state = "idle" /\ state' = "unwrapped" /\ Goes({"channelUnwrap"}, "channelUnwrap")
         \/ state' = "unwrapping" /\ Goes({"doShutdownStep"}, "doShutdownStep")
         \/ Goes({"callout"}, "callout") /\ UNCHANGED <<state, shutdownPromise>>
  BY CloseStack DEF Enter, EnterTimed, timerVars
<1>2. UNCHANGED <<conn, completions, pendingAdditional, removed, channel, outputOpen>>
  BY DEF StopTLS, chanVars, slotVars, timerVars, histVars
<1> USE DEF Pops, Goes, Drops, Starts, Pushes, CallsOut
<1>3. StackAgrees' /\ LastFlight(conn)' /\ Counts' /\ Waits' /\ Clear'
  BY <1>1, <1>2, CalmStep, SteadyKeep DEF HandshakeOps, Open, TrustInv, StackAgrees, TypeOK
<1>4. Handshaking'
  BY <1>1, <1>2, PendingEmpty DEF TrustInv, Handshaking, HandshakingOps, BuffersFlush,
     StackAgrees, HandshakeOps, Steady, SameHandshake
<1>5. InProgress'
  BY <1>1, <1>2, PendingEmpty DEF TrustInv, Handshaking, HandshakingOps, InProgress, ShuttingDown,
     HandshakeOps, Ending, Steady, SameHandshake
<1>6. NoShutdownInInit'
  BY <1>1, <1>2 DEF TrustInv, NoShutdownInInit, StackAgrees, ShuttingDown, Open, Steady,
     SameHandshake
<1>7. HeldBack'
  BY <1>1, <1>2 DEF TrustInv, HeldBack, Distrusted, ShuttingDown, Open, DistrustOps, BuffersFlush,
     Steady, SameHandshake, Advances
<1> QED BY <1>3, <1>4, <1>5, <1>6, <1>7 DEF TrustInv

\* AfterZeroReturn keeps the invariant.
LEMMA AfterZeroReturnTrust ==
    ASSUME TypeOK, TrustInv, AfterZeroReturn PROVE TrustInv'
<1>1. /\ Pops("afterZeroReturn")
      /\ \/ Goes({"doShutdownStep", "writeDataToNetwork"}, "doShutdownStep") /\ UNCHANGED state
         \/ state \in {"active", "unwrapping"} /\ state' = "inputClosed"
              /\ Goes({"callout", "writeDataToNetwork"}, "callout")
         \/ state = "outputClosed" /\ Goes({"closeAll", "callout", "writeDataToNetwork"},
              "closeAll") /\ UNCHANGED state
         \/ Goes({"callout", "writeDataToNetwork"}, "callout") /\ UNCHANGED state
  BY ReadStack DEF Enter, EnterTimed, timerVars
<1>2. UNCHANGED <<conn, completions, pendingAdditional, removed, channel, outputOpen,
        shutdownPromise>>
  BY DEF AfterZeroReturn, chanVars, slotVars, timerVars, histVars
<1> USE DEF Pops, Goes, Drops, Starts, Pushes, CallsOut
<1>3. StackAgrees' /\ LastFlight(conn)' /\ Counts' /\ Waits' /\ Clear'
  BY <1>1, <1>2, CalmStep, SteadyKeep DEF HandshakeOps, Open, TrustInv, StackAgrees, TypeOK
<1>4. Handshaking'
  BY <1>1, <1>2, PendingEmpty DEF TrustInv, Handshaking, HandshakingOps, BuffersFlush,
     StackAgrees, HandshakeOps, Steady, SameHandshake
<1>5. InProgress'
  BY <1>1, <1>2, PendingEmpty DEF TrustInv, Handshaking, HandshakingOps, InProgress, ShuttingDown,
     HandshakeOps, Ending, Steady, SameHandshake
<1>6. NoShutdownInInit'
  BY <1>1, <1>2 DEF TrustInv, NoShutdownInInit, StackAgrees, ShuttingDown, Open, Steady,
     SameHandshake
<1>7. HeldBack'
  BY <1>1, <1>2 DEF TrustInv, HeldBack, Distrusted, ShuttingDown, Open, DistrustOps, BuffersFlush,
     Steady, SameHandshake, Advances
<1> QED BY <1>3, <1>4, <1>5, <1>6, <1>7 DEF TrustInv

\* HandshakeIncomplete keeps the invariant.
LEMMA HandshakeIncompleteTrust ==
    ASSUME TypeOK, TrustInv, HandshakeIncomplete PROVE TrustInv'
<1>1. /\ Pops("handshakeIncomplete")
      /\ Goes({"writeDataToNetwork"}, "writeDataToNetwork")
      /\ state' = "handshaking"
  BY ReadStack DEF Enter, EnterTimed, timerVars
<1>2. UNCHANGED <<conn, completions, pendingAdditional, removed, channel, outputOpen,
        shutdownPromise>>
  BY DEF HandshakeIncomplete, chanVars, slotVars, timerVars, histVars
<1> USE DEF Pops, Goes, Drops, Starts, Pushes, CallsOut
<1>3. StackAgrees' /\ LastFlight(conn)' /\ Counts' /\ Waits' /\ Clear'
  BY <1>1, <1>2, CalmStep, SteadyKeep DEF HandshakeOps, Open, TrustInv, StackAgrees, TypeOK
<1>4. Handshaking'
  BY <1>1, <1>2, PendingEmpty DEF TrustInv, Handshaking, HandshakingOps, BuffersFlush,
     StackAgrees, HandshakeOps, Steady, SameHandshake
<1>5. InProgress'
  BY <1>1, <1>2, PendingEmpty DEF TrustInv, Handshaking, HandshakingOps, InProgress, ShuttingDown,
     HandshakeOps, Ending, Steady, SameHandshake
<1>6. NoShutdownInInit'
  BY <1>1, <1>2 DEF TrustInv, NoShutdownInInit, StackAgrees, ShuttingDown, Open, Steady,
     SameHandshake
<1>7. HeldBack'
  BY <1>1, <1>2 DEF TrustInv, HeldBack, Distrusted, ShuttingDown, Open, DistrustOps, BuffersFlush,
     Steady, SameHandshake, Advances
<1> QED BY <1>3, <1>4, <1>5, <1>6, <1>7 DEF TrustInv

\* UserFlushes keeps the invariant.
LEMMA UserFlushesTrust ==
    ASSUME TypeOK, TrustInv, UserFlushes PROVE TrustInv'
<1>1. CallsOut /\ Pushes({"flush"}, "flush")
  BY UserStack DEF Enter, EnterTimed, timerVars
<1>2. UNCHANGED <<state, conn, completions, pendingAdditional, removed, channel, outputOpen,
        shutdownPromise>>
  BY DEF UserFlushes, chanVars, slotVars, timerVars, histVars
<1> USE DEF Pops, Goes, Drops, Starts, Pushes, CallsOut
<1>3. StackAgrees' /\ LastFlight(conn)' /\ Counts' /\ Waits' /\ Clear'
  BY <1>1, <1>2, CalmStep, SteadyKeep DEF HandshakeOps, Open, TrustInv, StackAgrees, TypeOK
<1>4. Handshaking'
  BY <1>1, <1>2, PendingEmpty DEF TrustInv, Handshaking, HandshakingOps, BuffersFlush,
     StackAgrees, HandshakeOps, Steady, SameHandshake
<1>5. InProgress'
  BY <1>1, <1>2, PendingEmpty DEF TrustInv, Handshaking, HandshakingOps, InProgress, ShuttingDown,
     HandshakeOps, Ending, Steady, SameHandshake
<1>6. NoShutdownInInit'
  BY <1>1, <1>2 DEF TrustInv, NoShutdownInInit, StackAgrees, ShuttingDown, Open, Steady,
     SameHandshake
<1>7. HeldBack'
  BY <1>1, <1>2 DEF TrustInv, HeldBack, Distrusted, ShuttingDown, Open, DistrustOps, BuffersFlush,
     Steady, SameHandshake, Advances
<1> QED BY <1>3, <1>4, <1>5, <1>6, <1>7 DEF TrustInv

\* WriteDataToNetwork keeps the invariant.
LEMMA WriteDataToNetworkTrust ==
    ASSUME TypeOK, TrustInv, WriteDataToNetwork, fatal' = "none" PROVE TrustInv'
<1>1. Pops("writeDataToNetwork") /\ (Drops \/ Goes({"netout"}, "netout"))
  BY NetworkStack DEF Enter, EnterTimed, CancelAndEnter, timerVars
<1>2. /\ UNCHANGED <<state, completions, pendingAdditional, removed, channel, outputOpen,
           shutdownPromise>>
      /\ Steady(conn, conn')
  BY ConnectionOpsTrust, SteadyKeep DEF WriteDataToNetwork, chanVars, slotVars, timerVars,
     histVars, TypeOK, Steady
<1> USE DEF Pops, Goes, Drops, Starts, Pushes, CallsOut
<1>3. StackAgrees' /\ LastFlight(conn)' /\ Counts' /\ Waits' /\ Clear'
  BY <1>1, <1>2, CalmStep, SteadyKeep DEF HandshakeOps, Open, TrustInv, StackAgrees, TypeOK
<1>4. Handshaking'
  BY <1>1, <1>2, PendingEmpty DEF TrustInv, Handshaking, HandshakingOps, BuffersFlush,
     StackAgrees, HandshakeOps, Steady, SameHandshake
<1>5. InProgress'
  BY <1>1, <1>2, PendingEmpty DEF TrustInv, Handshaking, HandshakingOps, InProgress, ShuttingDown,
     HandshakeOps, Ending, Steady, SameHandshake
<1>6. NoShutdownInInit'
  BY <1>1, <1>2 DEF TrustInv, NoShutdownInInit, StackAgrees, ShuttingDown, Open, Steady,
     SameHandshake
<1>7. HeldBack'
  BY <1>1, <1>2 DEF TrustInv, HeldBack, Distrusted, ShuttingDown, Open, DistrustOps, BuffersFlush,
     Steady, SameHandshake, Advances
<1> QED BY <1>3, <1>4, <1>5, <1>6, <1>7 DEF TrustInv

\* RemovalFuture keeps the invariant.
LEMMA RemovalFutureTrust ==
    ASSUME TypeOK, TrustInv, RemovalFuture, fatal' = "none" PROVE TrustInv'
<1>1. Pops("removalFuture") /\ Goes({"callout"}, "callout")
  BY EndStack DEF Enter, EnterTimed, CancelAndEnter, timerVars
<1>2. /\ UNCHANGED <<state, completions, pendingAdditional, removed, channel, outputOpen,
           shutdownPromise>>
      /\ Steady(conn, conn')
  BY ConnectionOpsTrust DEF RemovalFuture, chanVars, slotVars, timerVars, histVars, TypeOK, Steady
<1> USE DEF Pops, Goes, Drops, Starts, Pushes, CallsOut
<1>3. StackAgrees' /\ LastFlight(conn)' /\ Counts' /\ Waits' /\ Clear'
  BY <1>1, <1>2, CalmStep, SteadyKeep DEF HandshakeOps, Open, TrustInv, StackAgrees, TypeOK
<1>4. Handshaking'
  BY <1>1, <1>2, PendingEmpty DEF TrustInv, Handshaking, HandshakingOps, BuffersFlush,
     StackAgrees, HandshakeOps, Steady, SameHandshake
<1>5. InProgress'
  BY <1>1, <1>2, PendingEmpty DEF TrustInv, Handshaking, HandshakingOps, InProgress, ShuttingDown,
     HandshakeOps, Ending, Steady, SameHandshake
<1>6. NoShutdownInInit'
  BY <1>1, <1>2 DEF TrustInv, NoShutdownInInit, StackAgrees, ShuttingDown, Open, Steady,
     SameHandshake
<1>7. HeldBack'
  BY <1>1, <1>2 DEF TrustInv, HeldBack, Distrusted, ShuttingDown, Open, DistrustOps, BuffersFlush,
     Steady, SameHandshake, Advances
<1> QED BY <1>3, <1>4, <1>5, <1>6, <1>7 DEF TrustInv

\* ChannelUnwrap keeps the invariant.
LEMMA ChannelUnwrapTrust ==
    ASSUME TypeOK, TrustInv, ChannelUnwrap, fatal' = "none" PROVE TrustInv'
<1>1. Pops("channelUnwrap") /\ Goes({"discard", "removalFuture"}, "discard")
  BY EndStack DEF Enter, EnterTimed, CancelAndEnter, timerVars
<1>2. /\ UNCHANGED <<completions, pendingAdditional, channel, outputOpen>>
      /\ Steady(conn, conn')
      /\ removed'
      /\ state' = "unwrapped"
  BY ConnectionOpsTrust DEF ChannelUnwrap, Enter, Crash, chanVars, slotVars, timerVars, histVars,
     TypeOK, Steady
<1> USE DEF Pops, Goes, Drops, Starts, Pushes, CallsOut
<1>3. StackAgrees' /\ LastFlight(conn)' /\ Counts' /\ Waits' /\ Clear'
  BY <1>1, <1>2, CalmStep, SteadyKeep DEF HandshakeOps, Open, TrustInv, StackAgrees, TypeOK
<1>4. Handshaking'
  BY <1>1, <1>2, PendingEmpty DEF TrustInv, Handshaking, HandshakingOps, BuffersFlush,
     StackAgrees, HandshakeOps, Steady, SameHandshake
<1>5. InProgress'
  BY <1>1, <1>2, PendingEmpty DEF TrustInv, Handshaking, HandshakingOps, InProgress, ShuttingDown,
     HandshakeOps, Ending, Steady, SameHandshake
<1>6. NoShutdownInInit'
  BY <1>1, <1>2 DEF TrustInv, NoShutdownInInit, StackAgrees, ShuttingDown, Open, Steady,
     SameHandshake
<1>7. HeldBack'
  BY <1>1, <1>2 DEF TrustInv, HeldBack, Distrusted, ShuttingDown, Open, DistrustOps, BuffersFlush,
     Steady, SameHandshake, Advances
<1> QED BY <1>3, <1>4, <1>5, <1>6, <1>7 DEF TrustInv

\* HandlerRemoved keeps the invariant.
LEMMA HandlerRemovedTrust ==
    ASSUME TypeOK, TrustInv, HandlerRemoved, fatal' = "none" PROVE TrustInv'
<1>1. stack' = stack /\ Starts({}, "none")
  BY ChannelStack DEF Enter, EnterTimed, CancelAndEnter, timerVars
<1>2. /\ UNCHANGED <<state, completions, pendingAdditional, channel, outputOpen, shutdownPromise>>
      /\ Steady(conn, conn')
      /\ removed'
  BY ConnectionOpsTrust DEF HandlerRemoved, chanVars, slotVars, timerVars, histVars, TypeOK, Steady
<1> USE DEF Pops, Goes, Drops, Starts, Pushes, CallsOut
<1>3. StackAgrees' /\ LastFlight(conn)' /\ Counts' /\ Waits' /\ Clear'
  BY <1>1, <1>2, CalmStep, SteadyKeep DEF HandshakeOps, Open, TrustInv, StackAgrees, TypeOK
<1>4. Handshaking'
  BY <1>1, <1>2, PendingEmpty DEF TrustInv, Handshaking, HandshakingOps, BuffersFlush,
     StackAgrees, HandshakeOps, Steady, SameHandshake
<1>5. InProgress'
  BY <1>1, <1>2, PendingEmpty DEF TrustInv, Handshaking, HandshakingOps, InProgress, ShuttingDown,
     HandshakeOps, Ending, Steady, SameHandshake
<1>6. NoShutdownInInit'
  BY <1>1, <1>2 DEF TrustInv, NoShutdownInInit, StackAgrees, ShuttingDown, Open, Steady,
     SameHandshake
<1>7. HeldBack'
  BY <1>1, <1>2 DEF TrustInv, HeldBack, Distrusted, ShuttingDown, Open, DistrustOps, BuffersFlush,
     Steady, SameHandshake, Advances
<1> QED BY <1>3, <1>4, <1>5, <1>6, <1>7 DEF TrustInv

\* DoShutdownStep keeps the invariant.
LEMMA DoShutdownStepTrust ==
    ASSUME TypeOK, TrustInv, DoShutdownStep, fatal' = "none" PROVE TrustInv'
<1>1. /\ Pops("doShutdownStep")
      /\ \/ state = "closed" /\ Drops /\ UNCHANGED <<state, conn>>
         \/ /\ state \in {"outputClosed", "closing", "unwrapping"}
            /\ conn' = DoShutdown(conn).conn
            /\ \/ /\ DoShutdown(conn).res = "incomplete" /\ UNCHANGED state
                  /\ \/ Goes({"writeDataToNetwork"}, "writeDataToNetwork")
                     \/ Goes({"writeDataToNetwork", "shutdownIncomplete"}, "writeDataToNetwork")
               \/ /\ state = "outputClosed" /\ UNCHANGED state
                  /\ Goes({"writeDataToNetwork", "callout", "channelCloseOutput"},
                          "writeDataToNetwork")
               \/ /\ state = "closing" /\ state' = "closed"
                  /\ Goes({"writeDataToNetwork", "callout", "channelClose"}, "writeDataToNetwork")
               \/ /\ state = "unwrapping" /\ state' = "unwrapped"
                  /\ Goes({"writeDataToNetwork", "callout", "channelUnwrap"}, "writeDataToNetwork")
               \/ /\ DoShutdown(conn).res = "failed" /\ UNCHANGED state
                  /\ Goes({"callout", "channelClose"}, "callout")
  BY ShutdownStack DEF Enter, EnterTimed, CancelAndEnter, TargetComplete, ShutdownEnd
<1>2. /\ UNCHANGED <<completions, pendingAdditional, removed, channel, outputOpen,
           shutdownPromise>>
      /\ Steady(conn, conn')
      /\ state # "closed" /\ conn.inInit => DoShutdown(conn).res = "complete"
      /\ state # "closed" /\ ~conn.inInit => conn'.writeShutdown # "none"
  BY DoShutdownTrust, SteadyKeep, <1>1 DEF DoShutdownStep, Crash, chanVars, slotVars, timerVars,
     histVars, TypeOK, Steady
<1> USE DEF Pops, Goes, Drops, Starts, Pushes, CallsOut
<1>3. StackAgrees' /\ LastFlight(conn)' /\ Counts' /\ Waits' /\ Clear'
  BY <1>1, <1>2, CalmStep, SteadyKeep DEF HandshakeOps, Open, TrustInv, StackAgrees, TypeOK
<1>4. Handshaking'
  BY <1>1, <1>2, PendingEmpty DEF TrustInv, Handshaking, HandshakingOps, BuffersFlush,
     StackAgrees, HandshakeOps, Steady, SameHandshake
<1>5. InProgress'
  BY <1>1, <1>2, PendingEmpty DEF TrustInv, Handshaking, HandshakingOps, InProgress, ShuttingDown,
     HandshakeOps, Ending, Steady, SameHandshake
<1>6. NoShutdownInInit'
  BY <1>1, <1>2 DEF TrustInv, NoShutdownInInit, StackAgrees, ShuttingDown, Open, Steady,
     SameHandshake
<1>7. HeldBack'
  BY <1>1, <1>2 DEF TrustInv, HeldBack, Distrusted, ShuttingDown, Open, DistrustOps, BuffersFlush,
     Steady, SameHandshake, Advances
<1> QED BY <1>3, <1>4, <1>5, <1>6, <1>7 DEF TrustInv

\* DoDecodeData keeps the invariant.
LEMMA DoDecodeDataTrust ==
    ASSUME TypeOK, TrustInv, DoDecodeData, fatal' = "none" PROVE TrustInv'
<1>1. /\ Pops("doDecodeData") /\ conn' = ReadData(conn).conn
      /\ \/ Drops /\ UNCHANGED state
         \/ /\ state \in {"active", "outputClosed"} /\ state' \in {state, "closing"}
            /\ Goes({"doFlushReadData", "afterZeroReturn"}, "doFlushReadData")
         \/ /\ state \in {"unwrapping", "closing", "inputClosed"} /\ UNCHANGED state
            /\ Goes({"doFlushReadData", "afterZeroReturn"}, "doFlushReadData")
         \/ state' = "closed" /\ Goes({"callout", "channelClose"}, "callout")
  BY ReadStack DEF Enter, EnterTimed, CancelAndEnter, timerVars
<1>2. /\ UNCHANGED <<completions, pendingAdditional, removed, channel, outputOpen,
           shutdownPromise>>
      /\ Steady(conn, conn')
  BY ReadDataTrust, <1>1 DEF DoDecodeData, chanVars, slotVars, timerVars, histVars, TypeOK, Steady
<1> USE DEF Pops, Goes, Drops, Starts, Pushes, CallsOut
<1>3. StackAgrees' /\ LastFlight(conn)' /\ Counts' /\ Waits' /\ Clear'
  BY <1>1, <1>2, CalmStep, SteadyKeep DEF HandshakeOps, Open, TrustInv, StackAgrees, TypeOK
<1>4. Handshaking'
  BY <1>1, <1>2, PendingEmpty DEF TrustInv, Handshaking, HandshakingOps, BuffersFlush,
     StackAgrees, HandshakeOps, Steady, SameHandshake
<1>5. InProgress'
  BY <1>1, <1>2, PendingEmpty DEF TrustInv, Handshaking, HandshakingOps, InProgress, ShuttingDown,
     HandshakeOps, Ending, Steady, SameHandshake
<1>6. NoShutdownInInit'
  BY <1>1, <1>2 DEF TrustInv, NoShutdownInInit, StackAgrees, ShuttingDown, Open, Steady,
     SameHandshake
<1>7. HeldBack'
  BY <1>1, <1>2 DEF TrustInv, HeldBack, Distrusted, ShuttingDown, Open, DistrustOps, BuffersFlush,
     Steady, SameHandshake, Advances
<1> QED BY <1>3, <1>4, <1>5, <1>6, <1>7 DEF TrustInv

\* TimedOutShutdown keeps the invariant.
LEMMA TimedOutShutdownTrust ==
    ASSUME TypeOK, TrustInv, TimedOutShutdown, fatal' = "none" PROVE TrustInv'
<1>1. \/ state \in {"closed", "unwrapped"} /\ UNCHANGED <<state, stack>> /\ Starts({}, "none")
      \/ state = "closing" /\ state' = "closed" /\ Starts({"channelClose"}, "channelClose")
      \/ state = "unwrapping" /\ state' = "unwrapped" /\ Starts({"channelUnwrap"}, "channelUnwrap")
  BY UserStack DEF Enter, EnterTimed, CancelAndEnter, timerVars
<1>2. /\ UNCHANGED <<completions, pendingAdditional, removed, channel, outputOpen,
           shutdownPromise>>
      /\ Steady(conn, conn')
  BY SteadyKeep DEF TimedOutShutdown, chanVars, slotVars, timerVars, histVars, TypeOK, Steady
<1> USE DEF Pops, Goes, Drops, Starts, Pushes, CallsOut
<1>3. StackAgrees' /\ LastFlight(conn)' /\ Counts' /\ Waits' /\ Clear'
  BY <1>1, <1>2, CalmStep, SteadyKeep DEF HandshakeOps, Open, TrustInv, StackAgrees, TypeOK
<1>4. Handshaking'
  BY <1>1, <1>2, PendingEmpty DEF TrustInv, Handshaking, HandshakingOps, BuffersFlush,
     StackAgrees, HandshakeOps, Steady, SameHandshake
<1>5. InProgress'
  BY <1>1, <1>2, PendingEmpty DEF TrustInv, Handshaking, HandshakingOps, InProgress, ShuttingDown,
     HandshakeOps, Ending, Steady, SameHandshake
<1>6. NoShutdownInInit'
  BY <1>1, <1>2 DEF TrustInv, NoShutdownInInit, StackAgrees, ShuttingDown, Open, Steady,
     SameHandshake
<1>7. HeldBack'
  BY <1>1, <1>2 DEF TrustInv, HeldBack, Distrusted, ShuttingDown, Open, DistrustOps, BuffersFlush,
     Steady, SameHandshake, Advances
<1> QED BY <1>3, <1>4, <1>5, <1>6, <1>7 DEF TrustInv

\* A stack of at most one call.
LEMMA LastOnlyShort == /\ \A f : LastOnly(<<f>>)
                       /\ \A c, f : c.op \notin HandshakeOps => LastOnly(<<c, f>>)
<1>1. ASSUME NEW f PROVE LastOnly(<<f>>)
  BY DEF LastOnly
<1>2. ASSUME NEW c, NEW f, c.op \notin HandshakeOps PROVE LastOnly(<<c, f>>)
  <2> DEFINE s == <<c, f>>
  <2>1. Len(s) = 2 /\ s[1] = c
    OBVIOUS
  <2>2. \A i \in 1..2 : i = 1 \/ i = 2
    OBVIOUS
  <2> HIDE DEF s
  <2>3. LastOnly(s)
    BY <1>2, <2>1, <2>2 DEF LastOnly
  <2> QED BY <2>3 DEF s
<1> QED BY <1>1, <1>2

\* UserCalls keeps the invariant.
LEMMA UserCallsTrust ==
    ASSUME TypeOK, TrustInv, NEW op \in {"write", "closeAll", "closeOutput", "stopTLS"},
           UserCalls(op)
    PROVE  TrustInv'
<1>1. CallsOut /\ Pushes({op}, op)
  BY UserStack
<1>2. UNCHANGED <<state, conn, completions, pendingAdditional, removed, channel, outputOpen,
        shutdownPromise>>
  BY DEF UserCalls, chanVars, slotVars, timerVars, histVars
<1>3. StackAgrees' /\ LastFlight(conn)' /\ Counts' /\ Waits' /\ Clear'
  BY <1>1, <1>2, CalmStep, SteadyKeep DEF Pushes, CallsOut, HandshakeOps, Open, TrustInv,
     StackAgrees
<1>4. Handshaking'
  BY <1>1, <1>2 DEF Pushes, TrustInv, Handshaking, HandshakingOps
<1>5. InProgress' /\ NoShutdownInInit'
  BY <1>1, <1>2 DEF Pushes, CallsOut, TrustInv, InProgress, NoShutdownInInit, ShuttingDown, Open,
     HandshakeOps, Ending
<1>6. HeldBack'
  BY <1>1, <1>2 DEF Pushes, CallsOut, TrustInv, HeldBack, Distrusted, ShuttingDown, Open,
     DistrustOps
<1> QED BY <1>3, <1>4, <1>5, <1>6 DEF TrustInv

\* ChannelActive keeps the invariant.
LEMMA ChannelActiveTrust ==
    ASSUME TypeOK, TrustInv, ChannelActive PROVE TrustInv'
<1>1. Starts({"callout", "doHandshakeStep"}, "callout")
  BY ChannelStack
<1>2. /\ UNCHANGED <<state, conn, completions, pendingAdditional, removed, outputOpen,
           shutdownPromise>>
      /\ channel = "registered" /\ channel' = "active"
  BY DEF ChannelActive, slotVars, timerVars, histVars
<1>3. /\ conn.inInit /\ Quiet(conn)
      /\ LastFlight(conn) /\ Counts
  BY <1>2 DEF TrustInv, StackAgrees, Quiet
<1>4. StackAgrees'
  BY <1>1, <1>2, <1>3 DEF Starts, StackAgrees
<1>5. LastFlight(conn)' /\ Counts' /\ Waits'
  BY <1>1, <1>2, <1>3 DEF LastFlight, Counts, Waits, Quiet
<1>6. Clear'
  BY <1>2 DEF TrustInv, Clear, Open
<1>7. Handshaking' /\ InProgress' /\ HeldBack'
  BY <1>1, <1>2, <1>3 DEF Starts, Handshaking, HandshakingOps, InProgress, HandshakeOps, HeldBack,
     Distrusted
<1>8. NoShutdownInInit'
  BY <1>1, <1>2 DEF Starts, TrustInv, NoShutdownInInit, ShuttingDown, Open
<1> QED BY <1>4, <1>5, <1>6, <1>7, <1>8 DEF TrustInv

\* ChannelRead keeps the invariant.
LEMMA ChannelReadTrust ==
    ASSUME TypeOK, TrustInv, ChannelRead PROVE TrustInv'
<1>1. /\ \/ state = "handshaking" /\ Starts({"doHandshakeStep"}, "doHandshakeStep")
         \/ /\ state \in {"active", "outputClosed"}
            /\ Starts({"doDecodeData", "doUnbufferActions"}, "doDecodeData")
         \/ state = "closing" /\ Starts({"doDecodeData"}, "doDecodeData")
         \/ state = "unwrapping" /\ Starts({"doShutdownStep"}, "doShutdownStep")
         \/ /\ state \notin {"handshaking", "active", "outputClosed", "closing", "unwrapping"}
            /\ Starts({"callout", "channelClose"}, "callout")
  BY ChannelStack
<1>2. /\ UNCHANGED <<state, completions, pendingAdditional, removed, channel, outputOpen,
           shutdownPromise>>
      /\ channel = "active" /\ ~removed
  BY DEF ChannelRead, chanVars, slotVars, timerVars, histVars
<1>3. SameHandshake(conn, conn') /\ Advances(conn, conn')
  BY ConnectionOpsTrust DEF ChannelRead, TypeOK
<1>4. conn.inInit <=> state = "handshaking"
  BY <1>1, <1>2 DEF Starts, TrustInv, Handshaking, InProgress, ShuttingDown
<1> USE DEF SameHandshake, Advances
<1>5. StackAgrees'
  BY <1>1, <1>2, <1>3, <1>4 DEF Starts, StackAgrees, HandshakeOps
<1>6. LastFlight(conn)' /\ Counts'
  BY <1>2, <1>3 DEF TrustInv, LastFlight, Counts
<1>7. Waits'
  BY <1>1, <1>2, <1>3, <1>4 DEF Starts, Waits
<1>8. Clear'
  BY <1>2, <1>3 DEF TrustInv, Clear, Open
<1>9. Handshaking' /\ InProgress' /\ NoShutdownInInit'
  BY <1>1, <1>2, <1>3, <1>4 DEF Starts, TrustInv, Handshaking, HandshakingOps, InProgress,
     HandshakeOps, NoShutdownInInit, ShuttingDown, Open
<1>10. HeldBack'
  BY <1>1, <1>2, <1>3, <1>4 DEF Starts, TrustInv, HeldBack, Distrusted, ShuttingDown, Open,
     DistrustOps
<1> QED BY <1>5, <1>6, <1>7, <1>8, <1>9, <1>10 DEF TrustInv

\* ResumeHandshake keeps the invariant.
LEMMA ResumeHandshakeTrust ==
    ASSUME TypeOK, TrustInv, ResumeHandshake PROVE TrustInv'
<1>1. Starts({"doHandshakeStep"}, "doHandshakeStep")
  BY UserStack
<1>2. /\ UNCHANGED <<state, completions, pendingAdditional, removed, channel, outputOpen,
           shutdownPromise>>
      /\ conn.verify = "pendingResult" /\ ~removed
  BY DEF ResumeHandshake, chanVars, slotVars, timerVars, histVars
<1>3. /\ conn'.inInit = conn.inInit /\ conn'.flights = conn.flights /\ Advances(conn, conn')
      /\ conn'.verify \in {"certificateVerified", "failed"}
  BY ConnectionOpsTrust DEF ResumeHandshake, TypeOK
<1>4. /\ conn.inInit /\ conn.flights + 1 = HsFlights /\ channel # "registered"
      /\ channel = "active" => state = "handshaking"
  BY <1>1, <1>2 DEF Starts, TrustInv, LastFlight, StackAgrees, InProgress, ShuttingDown
<1>5. StackAgrees'
  BY <1>1, <1>2, <1>3, <1>4 DEF Starts, StackAgrees
<1>6. LastFlight(conn)' /\ Counts'
  BY <1>2, <1>3, <1>4 DEF TrustInv, LastFlight, Counts
<1>7. Waits'
  <2>1. channel \in {"active", "closed"}
    BY <1>4 DEF TypeOK
  <2> QED BY <1>1, <1>2, <1>4, <2>1 DEF Starts, Waits, Open
<1>8. Clear'
  BY <1>2, <1>3 DEF TrustInv, Clear, Open, Advances
<1>9. Handshaking' /\ InProgress' /\ HeldBack'
  BY <1>1, <1>2, <1>3, <1>4 DEF Starts, Handshaking, HandshakingOps, InProgress, HandshakeOps,
     HeldBack, Distrusted
<1>10. NoShutdownInInit'
  BY <1>1, <1>2, <1>3, <1>4 DEF Starts, TrustInv, NoShutdownInInit, ShuttingDown, Open
<1> QED BY <1>5, <1>6, <1>7, <1>8, <1>9, <1>10 DEF TrustInv

\* completedAdditionalPeerCertificateVerification keeps the invariant.
LEMMA AdditionalTrust ==
    ASSUME TypeOK, TrustInv, CompletedAdditionalPeerCertificateVerification, fatal' = "none"
    PROVE  TrustInv'
<1>1. /\ CallsOut /\ pendingAdditional > 0
      /\ \/ /\ removed \/ state \in {"unwrapping", "closing", "unwrapped", "closed"}
            /\ UNCHANGED <<state, stack, completions>>
         \/ /\ state = "additionalVerification"
            /\ Pushes({"callout", "channelClose"}, "callout")
            /\ UNCHANGED <<state, completions>>
         \/ /\ state' = "active" /\ completions' = completions + 1
            /\ Pushes({"writeDataToNetwork", "callout", "doDecodeData", "doFlushReadData",
                       "doUnbufferActions"}, "writeDataToNetwork")
  BY UserStack DEF Enter
<1>2. UNCHANGED <<conn, removed, channel, outputOpen, shutdownPromise>>
  BY DEF CompletedAdditionalPeerCertificateVerification, chanVars, slotVars
<1>3. ~conn.inInit /\ completions \in Nat /\ channel # "registered"
      /\ HandshakeOps \cap Pending(stack) = {}
  BY <1>1 DEF TrustInv, Counts, TypeOK, StackAgrees
<1>4. StackAgrees'
  <2>1. LastOnly(stack')
    BY <1>1 DEF TrustInv, StackAgrees, Pushes, HandshakeOps
  <2>2. HandshakeOps \cap Pending(stack') = {}
    BY <1>1, <1>3 DEF Pushes, HandshakeOps
  <2> QED BY <1>2, <1>3, <2>1, <2>2 DEF StackAgrees
<1>5. LastFlight(conn)' /\ Counts' /\ Waits' /\ InProgress' /\ NoShutdownInInit'
  BY <1>2, <1>3 DEF TrustInv, LastFlight, Counts, Waits, InProgress, NoShutdownInInit
<1>6. Clear'
  BY <1>1, <1>2, <1>3 DEF TrustInv, Clear, Open
<1>7. Handshaking'
  BY <1>1, <1>2 DEF TrustInv, Handshaking
<1>8. HeldBack'
  BY <1>1, <1>2, <1>3 DEF TrustInv, HeldBack, Distrusted, ShuttingDown, Open, Pushes, CallsOut,
     DistrustOps
<1> QED BY <1>4, <1>5, <1>6, <1>7, <1>8 DEF TrustInv

\* DoUnbufferActions keeps the invariant.
LEMMA UnbufferTrust ==
    ASSUME TypeOK, TrustInv, DoUnbufferActions, fatal' = "none" PROVE TrustInv'
<1> DEFINE a == Head(bufferedActions)
           d == EncodeSingleWrite(conn, a).conn
<1>1. /\ Pops("doUnbufferActions")
      /\ \/ UNCHANGED conn
         \/ marked > 0 /\ conn' = d
      /\ \/ Drops \/ Goes({"writeDataToNetwork"}, "writeDataToNetwork")
         \/ Goes({"invokeCloseOutput"}, "invokeCloseOutput")
         \/ Goes({"writeDataToNetwork", "invokeCloseOutput"}, "writeDataToNetwork")
         \/ Goes({"doUnbufferActions"}, "doUnbufferActions")
         \/ Goes({"channelClose", "failEncoded", "failCloseOutput", "discard"}, "channelClose")
  BY UnbufferStack
<1>2. UNCHANGED <<state, completions, pendingAdditional, removed, channel, outputOpen,
        shutdownPromise>>
  BY DEF DoUnbufferActions, chanVars, slotVars, histVars
<1>3. LastFlight(conn) /\ (conn.inInit => Quiet(conn)) /\ ~Distrusted
  BY <1>1 DEF Pops, TrustInv, Waits, HeldBack, DistrustOps
<1>4. marked > 0 => a \in Action
  BY DEF TypeOK
<1>5. /\ conn'.inInit = conn.inInit /\ LastFlight(conn')
      /\ conn'.writeShutdown = "none" => conn.writeShutdown = "none"
      /\ conn.inInit \/ conn.writeShutdown # "none" => Advances(conn, conn')
      /\ conn.inInit => Quiet(conn')
      /\ conn.verify = "notStarted" /\ conn.inbound = <<>> =>
           conn'.verify = "notStarted" /\ conn'.inbound = <<>>
  <2>1. CASE UNCHANGED conn
    BY <1>3, <2>1 DEF Advances
  <2>2. CASE marked > 0 /\ conn' = d
    <3>1. conn \in Connection /\ a \in Action
      BY <1>4, <2>2 DEF TypeOK
    <3> HIDE DEF a
    <3> QED BY <1>3, <2>2, <3>1, EncodeTrust
  <2> QED BY <1>1, <2>1, <2>2
<1>6. HandshakeOps \cap Pending(stack') \subseteq Pending(stack)
      /\ ("doDecodeData" \in Pending(stack') => "doDecodeData" \in Pending(stack))
  BY <1>1 DEF Pops, Goes, Drops, HandshakeOps
<1>7. LastOnly(stack')
  BY <1>1 DEF Pops, Goes, Drops, HandshakeOps, TrustInv, StackAgrees
<1>8. StackAgrees'
  BY <1>2, <1>5, <1>6, <1>7 DEF TrustInv, StackAgrees
<1>9. LastFlight(conn)' /\ Counts' /\ Waits'
  BY <1>2, <1>5 DEF TrustInv, Counts, Waits, LastFlight, Quiet
<1>10. HeldBack' /\ Clear'
  BY <1>2, <1>3, <1>5 DEF TrustInv, HeldBack, Distrusted, Open, Clear, Advances
<1>11. Handshaking'
  BY <1>1, <1>2, <1>5 DEF TrustInv, Handshaking, HandshakingOps, Pops
<1>12. InProgress' /\ NoShutdownInInit'
  BY <1>1, <1>2, <1>5 DEF TrustInv, InProgress, NoShutdownInInit, Open, ShuttingDown, Pops, Goes,
     Drops, HandshakeOps, Ending
<1> QED BY <1>8, <1>9, <1>10, <1>11, <1>12 DEF TrustInv

\* DoHandshakeStep keeps the invariant.
LEMMA HandshakeStepTrust ==
    ASSUME TypeOK, TrustInv, DoHandshakeStep PROVE TrustInv'
<1> DEFINE r == DoHandshake(conn)
<1>1. /\ Pops("doHandshakeStep") /\ conn' = r.conn
      /\ UNCHANGED <<removed, channel, outputOpen, shutdownPromise>>
  BY HandshakeStack DEF DoHandshakeStep, chanVars, slotVars
<1>2. /\ conn.inInit /\ completions = 0 /\ pendingAdditional = 0 /\ channel # "registered"
      /\ LastFlight(conn) /\ Rest = <<>> /\ Pending(Rest) = {}
  BY <1>1, PendingEmpty DEF Pops, TrustInv, StackAgrees, Counts, HandshakeOps
<1>3. Open => state \notin {"closing", "unwrapping"} /\ shutdownPromise = {}
  BY <1>1, <1>2 DEF Pops, TrustInv, NoShutdownInInit, ShuttingDown
<1>4. /\ Advances(conn, conn') /\ LastFlight(conn')
      /\ conn'.inInit <=> r.res # "complete"
      /\ conn'.inInit => Quiet(conn')
      /\ Quiet(conn) => conn'.inInit
  BY <1>1, <1>2, DoHandshakeTrust DEF TypeOK
<1>5. r.res = "complete" => state = "handshaking" \/ ~Open
  BY <1>2, <1>4 DEF TrustInv, Waits
<1>6. Clear' /\ LastFlight(conn)'
  BY <1>1, <1>2, <1>4 DEF TrustInv, Clear, Advances, Open, LastFlight
<1>7. CASE r.res \in {"incomplete", "startsCallback"}
  <2>1. /\ Goes({"handshakeIncomplete"}, "handshakeIncomplete")
           \/ Goes({"callout", "handshakeIncomplete"}, "callout")
        /\ UNCHANGED <<state, pendingAdditional, completions>>
    BY <1>7, HandshakeStack
  <2>2. LastOnly(stack')
    <3>1. stack' = <<Run("handshakeIncomplete")>> \/ stack' = <<Callout,
            Run("handshakeIncomplete")>>
      BY <1>2, <1>7 DEF DoHandshakeStep, Goto
    <3> DEFINE f == Run("handshakeIncomplete")
               c == Callout
    <3>2. c.op = "callout" /\ (stack' = <<f>> \/ stack' = <<c, f>>)
      BY <3>1, CallOps
    <3> HIDE DEF f, c
    <3> QED BY <3>2, LastOnlyShort DEF HandshakeOps
  <2>3. StackAgrees'
    BY <1>1, <1>2, <1>4, <1>7, <2>1, <2>2 DEF StackAgrees, Goes
  <2>4. Counts' /\ Waits'
    BY <1>2, <1>4, <1>7, <2>1 DEF Counts, Waits, Quiet
  <2>5. Handshaking' /\ InProgress' /\ HeldBack'
    BY <1>2, <1>4, <1>7, <2>1 DEF Goes, Handshaking, HandshakingOps, InProgress, HandshakeOps,
       HeldBack, Distrusted
  <2>6. NoShutdownInInit'
    BY <1>1, <1>3, <2>1 DEF NoShutdownInInit, Open
  <2> QED BY <1>6, <2>3, <2>4, <2>5, <2>6 DEF TrustInv
<1>8. CASE r.res = "failed"
  <2>1. /\ Goes({"writeDataToNetwork", "callout", "channelClose"}, "writeDataToNetwork")
        /\ UNCHANGED <<state, pendingAdditional, completions>>
    BY <1>8, HandshakeStack
  <2>3. StackAgrees'
    BY <1>1, <1>2, <1>4, <1>8, <2>1, PendingEmpty DEF StackAgrees, Goes, HandshakeOps
  <2>4. Counts' /\ Waits'
    BY <1>2, <1>4, <1>8, <2>1 DEF Counts, Waits, Quiet
  <2>5. Handshaking' /\ InProgress' /\ HeldBack'
    BY <1>2, <1>4, <1>8, <2>1 DEF Goes, Handshaking, HandshakingOps, InProgress, Ending, HeldBack,
       Distrusted
  <2>6. NoShutdownInInit'
    BY <1>1, <1>3, <2>1 DEF NoShutdownInInit, Open
  <2> QED BY <1>6, <2>3, <2>4, <2>5, <2>6 DEF TrustInv
<1>9. CASE r.res = "complete"
  <2>1. \/ /\ Goes({"callout", "channelClose"}, "callout")
           /\ UNCHANGED <<state, pendingAdditional, completions>>
        \/ /\ Goes({"callout"}, "callout") /\ state' = "additionalVerification"
           /\ UNCHANGED completions
        \/ /\ state' = "active" /\ completions' = completions + 1
           /\ Goes({"writeDataToNetwork", "callout", "doDecodeData", "doFlushReadData",
                    "doUnbufferActions"}, "writeDataToNetwork")
    BY <1>9, HandshakeStack DEF Enter
  <2>2. ~conn'.inInit
    BY <1>4, <1>9
  <2>3. StackAgrees'
    BY <1>1, <1>2, <2>1, <2>2, PendingEmpty DEF StackAgrees, Goes, HandshakeOps
  <2>4. Counts' /\ Waits' /\ InProgress' /\ NoShutdownInInit'
    BY <2>2 DEF Counts, Waits, InProgress, NoShutdownInInit
  <2>5. Handshaking'
    BY <1>2, <2>1 DEF Goes, Handshaking, HandshakingOps
  <2>6. HeldBack'
    BY <1>1, <1>2, <1>3, <1>5, <1>9, <2>1 DEF Goes, HeldBack, Distrusted, Open, DistrustOps
  <2> QED BY <1>6, <2>3, <2>4, <2>5, <2>6 DEF TrustInv
<1>10. r.res \in {"incomplete", "startsCallback", "failed", "complete"}
  BY DEF DoHandshakeStep
<1> QED BY <1>7, <1>8, <1>9, <1>10

\* Every action keeps the invariant, unless it ends in a fatal error.
LEMMA NextTrust ==
    ASSUME TypeOK, TrustInv, Next, fatal' = "none"
    PROVE  TrustInv'
<1>1. ASSUME Handler PROVE TrustInv'
  BY <1>1, WriteDataToNetworkTrust, ContextCloseTrust, ContextCloseOutputTrust, ChannelCloseTrust,
     ChannelCloseOutputTrust, ChannelUnwrapTrust, RemovalFutureTrust, BufferWriteTrust,
     FlushTrust, DiscardTrust, UnbufferTrust, InvokeCloseOutputTrust, FailEncodedTrust,
     FailCloseOutputTrust, CloseAllTrust, CloseOutputTrust, StopTLSTrust, DoShutdownStepTrust,
     ShutdownIncompleteTrust, HandshakeStepTrust, HandshakeIncompleteTrust, DoDecodeDataTrust,
     AfterZeroReturnTrust, DoFlushReadDataTrust DEF Handler
<1>2. ASSUME Channel PROVE TrustInv'
  BY <1>2, ChannelActiveTrust, ConnectFailsTrust, ChannelInactiveTrust, HandlerRemovedTrust,
     ChannelReadTrust, ChannelReadCompleteTrust, InputClosedTriggeredTrust,
     ChannelFulfillsTrust DEF Channel
<1>3. ASSUME User PROVE TrustInv'
  BY <1>3, UserCallsTrust, UserFlushesTrust, AdditionalTrust DEF User
<1> QED BY <1>1, <1>2, <1>3, ReturnTrust, ResumeHandshakeTrust, TimedOutShutdownTrust DEF Next

Trusted == /\ fatal = "none" => TrustInv
           /\ completions + pendingAdditional <= 1
           /\ completions = 0 => NoData(wire)

\* The invariant holds at first.
LEMMA InitTrusted == Init => Trusted
<1> SUFFICES ASSUME Init PROVE Trusted
  OBVIOUS
<1> DEFINE f == Run("doHandshakeStep")
<1>1. f.op = "doHandshakeStep" /\ \/ stack = <<>> /\ channel = "registered"
                                  \/ stack = <<f>> /\ channel = "active"
  BY CallOps DEF Init
<1>2. /\ conn.inInit /\ conn.inbound = <<>> /\ conn.outbound = <<>> /\ conn.verify = "notStarted"
      /\ completions = 0 /\ pendingAdditional = 0 /\ wire = <<>> /\ state = "idle"
      /\ shutdownPromise = {}
  BY DEF Init, NewConnection
<1> HIDE DEF f
<1>3. LastOnly(stack) /\ (channel = "registered" => Pending(stack) = {})
      /\ (channel = "active" => Pending(stack) = {"doHandshakeStep"})
  BY <1>1, PendingEmpty, PendingOne, LastOnlyShort
<1>4. StackAgrees /\ LastFlight(conn) /\ Counts /\ Waits /\ Clear /\ NoData(wire)
  BY <1>1, <1>2, <1>3 DEF StackAgrees, LastFlight, Counts, Waits, Quiet, Clear, NoData
<1>5. Handshaking /\ InProgress /\ NoShutdownInInit /\ HeldBack
  BY <1>1, <1>2, <1>3 DEF Handshaking, InProgress, NoShutdownInInit, HeldBack, Distrusted,
     HandshakeOps
<1> QED BY <1>2, <1>4, <1>5 DEF Trusted, TrustInv

\* With what is counted and sent, the invariant is inductive.
LEMMA NextTrusted ==
    ASSUME TypeOK, Trusted, [Next]_vars
    PROVE  Trusted'
<1>1. CASE UNCHANGED vars
  <2>1. UNCHANGED <<state, conn, stack, fatal, wire, completions, pendingAdditional, removed,
                    channel, outputOpen, shutdownPromise>>
    BY <1>1 DEF vars, chanVars, slotVars, histVars
  <2>2. TrustInv => StackAgrees' /\ LastFlight(conn)' /\ Counts' /\ Waits' /\ Clear'
    BY <2>1 DEF TrustInv, StackAgrees, LastFlight, Counts, Waits, Quiet, Clear, Open
  <2>3. TrustInv => Handshaking' /\ InProgress' /\ NoShutdownInInit' /\ HeldBack'
    BY <2>1 DEF TrustInv, Handshaking, InProgress, NoShutdownInInit, HeldBack, Distrusted,
       ShuttingDown, Open
  <2> QED BY <2>1, <2>2, <2>3 DEF Trusted, TrustInv, NoData
<1>2. CASE Next
  <2>1. TrustInv
    BY <1>2, NextRuns DEF Trusted
  <2>2. fatal' = "none" => TrustInv'
    BY <1>2, <2>1, NextTrust
  <2>3. completions' + pendingAdditional' <= 1 /\ (completions' = 0 => completions = 0)
    <3>1. CASE DoHandshakeStep
      <4>1. completions = 0 /\ pendingAdditional = 0
        <5>1. Pops("doHandshakeStep")
          BY <3>1, HandshakeStack
        <5> QED BY <2>1, <5>1 DEF Pops, TrustInv, StackAgrees, Counts, HandshakeOps
      <4> QED BY <3>1, <4>1 DEF DoHandshakeStep
    <3>2. CASE CompletedAdditionalPeerCertificateVerification
      BY <3>2 DEF CompletedAdditionalPeerCertificateVerification, Trusted, TypeOK
    <3>3. CASE UNCHANGED <<completions, pendingAdditional>>
      BY <3>3 DEF Trusted
    <3>4. \/ DoHandshakeStep \/ CompletedAdditionalPeerCertificateVerification
          \/ UNCHANGED <<completions, pendingAdditional>>
      BY <1>2 DEF Next, Handler, Channel, User, histVars, Return, WriteDataToNetwork,
         ContextClose, ContextCloseOutput, ChannelClose, ChannelCloseOutput, ChannelUnwrap,
         RemovalFuture, BufferWrite, Flush, Discard, DoUnbufferActions, InvokeCloseOutput,
         FailEncoded, FailCloseOutput, CloseAll, CloseOutput, StopTLS, DoShutdownStep,
         ShutdownIncomplete, HandshakeIncomplete, DoDecodeData, AfterZeroReturn, DoFlushReadData,
         ChannelActive, ConnectFails, ChannelInactive, HandlerRemoved, ChannelRead,
         ChannelReadComplete, InputClosedTriggered, ChannelFulfills, UserCalls, UserFlushes,
         ResumeHandshake, TimedOutShutdown
    <3> QED BY <3>1, <3>2, <3>3, <3>4
  <2>4. completions = 0 => NoData(wire')
    <3> SUFFICES ASSUME completions = 0 PROVE NoData(wire')
      OBVIOUS
    <3>1. NoData(wire) /\ wire \in Seq(Record) /\ conn.outbound \in Seq(Record)
      BY DEF Trusted, TypeOK, Connection
    <3>2. CASE WriteDataToNetwork
      <4>1. wire' = wire \/ (Writable /\ wire' = wire \o conn.outbound)
        BY <3>2 DEF WriteDataToNetwork
      <4>2. Writable => NoData(conn.outbound)
        BY <2>1 DEF TrustInv, Clear, Open, Writable
      <4> QED BY <3>1, <4>1, <4>2, NoDataGrows
    <3>3. CASE UNCHANGED wire
      BY <3>1, <3>3
    <3>4. WriteDataToNetwork \/ UNCHANGED wire
      BY <1>2 DEF Next, Handler, Channel, User, histVars, Return, ContextClose,
         ContextCloseOutput, ChannelClose, ChannelCloseOutput, ChannelUnwrap, RemovalFuture,
         BufferWrite, Flush, Discard, DoUnbufferActions, InvokeCloseOutput, FailEncoded,
         FailCloseOutput, CloseAll, CloseOutput, StopTLS, DoShutdownStep, ShutdownIncomplete,
         DoHandshakeStep, HandshakeIncomplete, DoDecodeData, AfterZeroReturn, DoFlushReadData,
         ChannelActive, ConnectFails, ChannelInactive, HandlerRemoved, ChannelRead,
         ChannelReadComplete, InputClosedTriggered, ChannelFulfills, UserCalls, UserFlushes,
         CompletedAdditionalPeerCertificateVerification, ResumeHandshake, TimedOutShutdown
    <3> QED BY <3>2, <3>3, <3>4
  <2> QED BY <2>2, <2>3, <2>4 DEF Trusted, NoData
<1> QED BY <1>1, <1>2

\* It holds in every behaviour.
LEMMA AlwaysTrusted == Spec => []Trusted
<1>1. Init => Trusted
  BY InitTrusted
<1>2. TypeOK /\ Trusted /\ [Next]_vars => Trusted'
  BY NextTrusted
<1> QED BY <1>1, <1>2, TypeCorrect, PTL DEF Spec

\* However verification callbacks, reads, closes and unwraps interleave,
\* handshakeCompleted is fired at most once (doHandshakeStep,
\* completedAdditionalPeerCertificateVerification).
THEOREM CompletesOnce == Spec => []HandshakeCompletesOnce
<1>1. TypeOK /\ Trusted => HandshakeCompletesOnce
  BY DEF TypeOK, Trusted, HandshakeCompletesOnce
<1> QED BY <1>1, AlwaysTrusted, TypeCorrect, PTL

\* No application data leaves before handshakeCompleted is fired: flushes are
\* buffered until the handshake, the hostname check and the additional
\* verification have succeeded (doUnbufferActions, writeDataToNetwork).
THEOREM TrustedBeforeData == Spec => []NoDataSentBeforeTrust
<1>1. TypeOK /\ Trusted => NoDataSentBeforeTrust
  <2>1. TypeOK => wire \in Seq(Record)
    BY DEF TypeOK
  <2>2. \A s \in Seq(Record) : NoData(s) => \A i \in DOMAIN s : ~IsData(s[i])
    BY DEF NoData
  <2> QED BY <2>1, <2>2 DEF Trusted, NoDataSentBeforeTrust
<1> QED BY <1>1, AlwaysTrusted, TypeCorrect, PTL

-----------------------------------------------------------------------------
(***************************************************************************)
(* How a connection ends: a shutdown that waits for the peer has its timeout *)
(* armed, stopTLS reports success only after both close_notify alerts, and *)
(* what the user flushed does not stay behind in an open handler.          *)
(*                                                                         *)
(* Timed, Clean and Flushed are the inductive forms of the three properties. *)
(* A call that was interrupted can still act on what it decided before, so *)
(* each of them speaks of the calls that are pending as well as of the state. *)
(***************************************************************************)
\* A shutdown has its timeout, or a pending call closes the channel.
Timed == fatal = "none" /\ state \in {"closing", "unwrapping"}
            => scheduled \/ "channelClose" \in Pending(stack)

\* Every action keeps it: the timeout is disarmed only by what ends the
\* shutdown.
LEMMA NextTimed ==
    ASSUME TypeOK, Timed, Next
    PROVE  Timed'
<1> SUFFICES ASSUME fatal' = "none", state' \in {"closing", "unwrapping"}, ~scheduled'
             PROVE  "channelClose" \in Pending(stack')
  BY DEF Timed
<1>1. fatal = "none"
  BY NextRuns
<1> USE DEF Enter, EnterTimed, CancelAndEnter, timerVars
<1>2. CASE UNCHANGED <<state, timerVars>>
  <2>1. "channelClose" \in Pending(stack)
    BY <1>1, <1>2 DEF Timed
  <2>2. TopOp(stack) # "channelClose"
    <3>1. SUFFICES ASSUME TopOp(stack) = "channelClose" PROVE FALSE
      OBVIOUS
    <3>2. Running("channelClose")
      BY <1>1, <3>1 DEF TopOp, Running, Top
    <3> QED BY <1>2, <3>2, DispatchEnds DEF ChannelClose
  <2> QED BY <2>1, <2>2, NextPending
<1>3. CASE CloseAll
  <2>1. state \in {"closing", "unwrapping"} /\ ~scheduled
    BY <1>3 DEF CloseAll
  <2>2. Pops("closeAll") /\ Drops
    BY <1>3, <2>1, CloseStack
  <2> QED BY <1>1, <2>1, <2>2 DEF Timed, Pops, Drops, Goes
<1>4. CASE CloseOutput
  <2>1. /\ Pops("closeOutput") /\ state' = state /\ scheduled' = scheduled
        /\ Drops \/ Goes({"contextCloseOutput"}, "contextCloseOutput")
    BY <1>4, CloseStack
  <2> QED BY <1>1, <2>1 DEF Timed, Pops, Drops, Goes
<1>5. CASE StopTLS
  <2>1. /\ Pops("stopTLS") /\ state' = state /\ scheduled' = scheduled
        /\ Drops \/ Goes({"callout"}, "callout")
    BY <1>5, CloseStack
  <2> QED BY <1>1, <2>1 DEF Timed, Pops, Drops, Goes
<1>6. CASE DoShutdownStep
  <2>1. /\ Pops("doShutdownStep")
        /\ \/ /\ state' = state /\ scheduled' = scheduled
              /\ Goes({"writeDataToNetwork"}, "writeDataToNetwork")
           \/ Goes({"callout", "channelClose"}, "callout")
    BY <1>6, ShutdownStack DEF TargetComplete
  <2> QED BY <1>1, <2>1 DEF Timed, Pops, Drops, Goes
<1>7. CASE DoHandshakeStep
  <2>1. /\ Pops("doHandshakeStep") /\ state' = state /\ scheduled' = scheduled
        /\ \E ops, op : Goes(ops, op)
    BY <1>7, HandshakeStack
  <2> QED BY <1>1, <2>1 DEF Timed, Pops, Goes
<1>8. CASE DoDecodeData
  <2>1. /\ Pops("doDecodeData") /\ state' = state /\ scheduled' = scheduled
        /\ Drops \/ Goes({"doFlushReadData", "afterZeroReturn"}, "doFlushReadData")
    BY <1>8, ReadStack
  <2> QED BY <1>1, <2>1 DEF Timed, Pops, Drops, Goes
<1>9. CASE AfterZeroReturn
  <2>1. /\ Pops("afterZeroReturn") /\ state' = state /\ scheduled' = scheduled
        /\ \E ops, op : Goes(ops, op)
    BY <1>9, ReadStack
  <2> QED BY <1>1, <2>1 DEF Timed, Pops, Goes
<1>10. CASE CompletedAdditionalPeerCertificateVerification
  <2>1. /\ state' = state /\ scheduled' = scheduled
        /\ stack' = stack \/ \E ops, op : Pushes(ops, op)
    BY <1>10, UserStack
  <2> QED BY <1>1, <2>1 DEF Timed, Pushes
<1>11. CASE ChannelClose \/ ChannelUnwrap \/ InvokeCloseOutput \/ ShutdownIncomplete
            \/ HandshakeIncomplete \/ ChannelInactive \/ TimedOutShutdown
  BY <1>11 DEF ChannelClose, ChannelUnwrap, Crash, Fatals, InvokeCloseOutput, ShutdownIncomplete,
     HandshakeIncomplete, ChannelInactive, TimedOutShutdown
<1> QED BY StateSteps, <1>2, <1>3, <1>4, <1>5, <1>6, <1>7, <1>8, <1>9, <1>10, <1>11

\* Between events, a handler that waits for the peer's close_notify has its
\* timeout armed (closeAll, stopTLS, doShutdownStep, timedOutShutdown).
THEOREM ShutdownsAreTimed == Spec => []ShutdownHasTimeout
<1>1. Init => Timed
  BY DEF Init, Timed
<1>2. TypeOK /\ Timed /\ [Next]_vars => Timed'
  <2>1. ASSUME Timed, UNCHANGED vars PROVE Timed'
    BY <2>1 DEF vars, Timed, timerVars
  <2> QED BY <2>1, NextTimed
<1>3. TypeOK /\ Timed => ShutdownHasTimeout
  BY PendingEmpty DEF Timed, ShutdownHasTimeout, Idle
<1> QED BY <1>1, <1>2, <1>3, TypeCorrect, PTL DEF Spec
\* An unwrapping may report success.
CleanEnd(c) == \/ c.inInit
               \/ c.readShutdown = "closeNotify" /\ c.writeShutdown = "closeNotify"

UnwrapOps == {"channelUnwrap", "removalFuture"}

Fresh == state = "idle" => conn.inInit /\ conn.verify = "notStarted" /\ conn.inbound = <<>>

CleanFrames == \A f \in Frames(stack) : f.op \in UnwrapOps /\ ~f.e => CleanEnd(conn)

Clean == fatal = "none" => Fresh /\ CleanFrames

\* No step leads back to .idle.
LEMMA NeverIdleAgain ==
    ASSUME Next, state' = "idle"
    PROVE  state = "idle" /\ UNCHANGED state
<1> USE DEF Enter, EnterTimed, CancelAndEnter
<1>1. CASE ChannelClose \/ ChannelUnwrap \/ InvokeCloseOutput \/ CloseAll \/ CloseOutput \/ StopTLS
  BY <1>1 DEF ChannelClose, ChannelUnwrap, InvokeCloseOutput, CloseAll, CloseOutput, StopTLS
<1>2. CASE ShutdownIncomplete \/ DoHandshakeStep \/ HandshakeIncomplete \/ DoDecodeData
           \/ AfterZeroReturn \/ ChannelInactive \/ TimedOutShutdown
           \/ CompletedAdditionalPeerCertificateVerification
  BY <1>2 DEF ShutdownIncomplete, DoHandshakeStep, HandshakeIncomplete, DoDecodeData,
     AfterZeroReturn, ChannelInactive, TimedOutShutdown,
     CompletedAdditionalPeerCertificateVerification
<1>3. CASE DoShutdownStep
  BY <1>3 DEF DoShutdownStep, TargetComplete
<1> QED BY StateSteps, <1>1, <1>2, <1>3

\* The connection keeps what an unwrapping needs, except while the handshake
\* is what runs.
LEMMA CleanKept ==
    ASSUME TypeOK, TrustInv, Next
    PROVE  /\ CleanEnd(conn) => CleanEnd(conn') \/ Pending(stack) = {"doHandshakeStep"}
           /\ Fresh => Fresh'
<1>1. SUFFICES /\ CleanEnd(conn) => CleanEnd(conn') \/ Pending(stack) = {"doHandshakeStep"}
               /\ state = "idle" /\ Fresh =>
                    conn'.inInit /\ conn'.verify = "notStarted" /\ conn'.inbound = <<>>
  BY NeverIdleAgain DEF Fresh
<1>2. conn \in Connection
  BY DEF TypeOK
<1>3. CASE Steady(conn, conn')
  BY <1>3 DEF Steady, SameHandshake, Advances, CleanEnd, Fresh
<1>4. CASE UNCHANGED conn
  BY <1>3, <1>4, SteadyKeep
<1>5. CASE WriteDataToNetwork \/ RemovalFuture \/ HandlerRemoved \/ ChannelUnwrap
  <2>1. Steady(conn, conn')
    BY <1>2, <1>5, ConnectionOpsTrust, SteadyKeep
       DEF WriteDataToNetwork, RemovalFuture, HandlerRemoved, ChannelUnwrap, Steady
  <2> QED BY <2>1, <1>3
<1>6. CASE DoUnbufferActions
  <2> DEFINE a == Head(bufferedActions)
             d == EncodeSingleWrite(conn, a).conn
  <2>1. Pops("doUnbufferActions") /\ (UNCHANGED conn \/ (marked > 0 /\ conn' = d))
    BY <1>6, UnbufferStack DEF DoUnbufferActions
  <2>2. LastFlight(conn) /\ (conn.inInit => Quiet(conn))
    BY <2>1 DEF Pops, TrustInv, Waits
  <2>3. CASE marked > 0 /\ conn' = d
    <3>1. a \in Action
      BY <2>3 DEF TypeOK
    <3> HIDE DEF a
    <3>2. /\ d.inInit = conn.inInit
          /\ conn.inInit \/ conn.writeShutdown # "none" => Advances(conn, d)
          /\ conn.verify = "notStarted" /\ conn.inbound = <<>> =>
               d.verify = "notStarted" /\ d.inbound = <<>>
      BY <1>2, <2>2, <3>1, EncodeTrust
    <3> HIDE DEF d
    <3> QED BY <2>3, <3>2 DEF CleanEnd, Advances, Fresh
  <2> QED BY <1>4, <2>1, <2>3
<1>7. CASE DoShutdownStep
  <2>1. Steady(conn, conn')
    BY <1>2, <1>7, DoShutdownTrust, SteadyKeep DEF DoShutdownStep, Steady
  <2> QED BY <2>1, <1>3
<1>8. CASE DoHandshakeStep
  <2>1. /\ Pops("doHandshakeStep") /\ conn' = DoHandshake(conn).conn
        /\ LastFlight(conn) /\ conn.inInit /\ Pending(Rest) = {}
    BY <1>8, HandshakeStack, PendingEmpty DEF Pops, TrustInv, StackAgrees, HandshakeOps
  <2>2. conn.verify = "notStarted" /\ conn.inbound = <<>> =>
          conn'.inInit /\ conn'.verify = "notStarted" /\ conn'.inbound = <<>>
    BY <1>2, <2>1, DoHandshakeTrust DEF Quiet
  <2> QED BY <2>1, <2>2 DEF Pops, Fresh
<1>9. CASE DoDecodeData
  <2>1. Steady(conn, conn')
    BY <1>2, <1>9, ReadDataTrust DEF DoDecodeData, Steady
  <2> QED BY <2>1, <1>3
<1>10. CASE ChannelRead
  <2>1. SameHandshake(conn, conn') /\ Advances(conn, conn')
    BY <1>2, <1>10, ConnectionOpsTrust DEF ChannelRead
  <2>2. conn.inInit => state = "handshaking"
    BY <1>10, PendingEmpty DEF ChannelRead, Idle, TrustInv, InProgress, ShuttingDown
  <2> QED BY <2>1, <2>2 DEF SameHandshake, Advances, CleanEnd, Fresh
<1>11. CASE ResumeHandshake
  <2>1. conn'.inInit = conn.inInit /\ Advances(conn, conn') /\ conn.verify = "pendingResult"
    BY <1>2, <1>11, ConnectionOpsTrust DEF ResumeHandshake
  <2> QED BY <2>1 DEF Advances, CleanEnd, Fresh
<1> QED BY ConnSteps, <1>4, <1>5, <1>6, <1>7, <1>8, <1>9, <1>10, <1>11
\* Only these steps call for an unwrapping, or go on with one.
LEMMA UnwrapFrames ==
    ASSUME TypeOK, Next, fatal' = "none"
    PROVE  \/ \A f \in Frames(stack') : f.op \in UnwrapOps => f \in Frames(stack)
           \/ ChannelUnwrap \/ StopTLS \/ DoShutdownStep \/ TimedOutShutdown
<1> DEFINE P == \A f \in Frames(stack') : f.op \in UnwrapOps => f \in Frames(stack)
<1>1. \A f \in Frames(stack') : f.op \in Pending(stack')
  BY DEF Frames, Pending
<1> USE DEF UnwrapOps, Pops, Drops, Goes, Starts, Pushes
<1>5. CASE WriteDataToNetwork \/ ContextClose \/ ContextCloseOutput \/ Return
  BY <1>5, NetworkStack
<1>6. CASE ChannelClose \/ ChannelCloseOutput \/ RemovalFuture
  BY <1>6, EndStack
<1>7. CASE BufferWrite \/ Flush \/ Discard \/ InvokeCloseOutput \/ FailEncoded \/ FailCloseOutput
  BY <1>7, BufferStack
<1>8. CASE CloseAll \/ CloseOutput
  BY <1>8, CloseStack
<1>9. CASE DoUnbufferActions
  BY <1>9, UnbufferStack
<1>10. CASE DoHandshakeStep
  BY <1>10, HandshakeStack
<1>11. CASE DoDecodeData \/ AfterZeroReturn \/ DoFlushReadData \/ HandshakeIncomplete
            \/ ShutdownIncomplete
  BY <1>11, ReadStack
<1>12. CASE Channel
  BY <1>1, <1>12, ChannelStack DEF Channel
<1>13. CASE User \/ ResumeHandshake
  <2>1. CASE CompletedAdditionalPeerCertificateVerification
    BY <2>1, UserStack
  <2> QED BY <1>1, <1>13, <2>1, UserStack DEF User
<1> QED BY <1>5, <1>6, <1>7, <1>8, <1>9, <1>10, <1>11, <1>12, <1>13 DEF Next, Handler, P

\* Every action keeps Clean.
LEMMA NextClean ==
    ASSUME TypeOK, TrustInv, Clean, Next
    PROVE  Clean'
<1> SUFFICES ASSUME fatal' = "none" PROVE Fresh' /\ CleanFrames'
  BY DEF Clean
<1>1. Fresh /\ CleanFrames
  BY NextRuns DEF Clean
<1>2. Fresh'
  BY <1>1, CleanKept
<1>3. ASSUME NEW f \in Frames(stack), f.op \in UnwrapOps, ~f.e
      PROVE  CleanEnd(conn')
  <2>1. f.op \in Pending(stack)
    BY <1>3 DEF Frames, Pending
  <2> QED BY <1>1, <1>3, <2>1, CleanKept DEF CleanFrames, UnwrapOps
<1>4. SUFFICES ASSUME NEW f \in Frames(stack'), f.op \in UnwrapOps, ~f.e
               PROVE  CleanEnd(conn')
  BY <1>2 DEF CleanFrames
<1>5. CASE f \in Frames(stack)
  BY <1>3, <1>4, <1>5
<1>6. CASE ChannelUnwrap
  <2> DEFINE g == [Call("removalFuture", shutdownPromise) EXCEPT !.e = Top.e]
             d == Run("discard")
  <2>1. stack' = <<d, g>> \o Rest /\ Pops("channelUnwrap") /\ Top.op = "channelUnwrap"
    BY <1>6, EndStack DEF ChannelUnwrap, Goto, Crash, Running
  <2>2. d.op = "discard" /\ g.op = "removalFuture" /\ g.e = Top.e
    BY CallOps DEF Call
  <2> HIDE DEF d, g
  <2>3. f \in {d, g} \/ f \in Frames(Rest)
    <3>1. Rest \in Seq(Frame)
      BY <2>1 DEF Pops
    <3>2. PICK i \in 1..Len(stack') : f = stack'[i]
      BY DEF Frames
    <3>3. Len(stack') = 2 + Len(Rest) /\ Len(Rest) \in Nat /\ stack'[1] = d /\ stack'[2] = g
          /\ \A j \in 3..Len(stack') : stack'[j] = Rest[j - 2]
      BY <2>1, <3>1
    <3>4. CASE i > 2
      <4>1. i - 2 \in 1..Len(Rest) /\ f = Rest[i - 2]
        BY <3>2, <3>3, <3>4
      <4> QED BY <4>1 DEF Frames
    <3> QED BY <3>2, <3>3, <3>4
  <2>4. CASE f = g
    <3>1. Top \in Frames(stack) /\ Top.op \in UnwrapOps /\ ~Top.e
      BY <1>4, <2>1, <2>2, <2>4 DEF Pops, UnwrapOps
    <3> QED BY <1>3, <3>1
  <2> QED BY <1>4, <1>5, <2>1, <2>2, <2>3, <2>4 DEF UnwrapOps, Pops
<1>7. CASE StopTLS
  <2>1. Pops("stopTLS") /\ (state = "idle" \/ f \in Frames(stack)) /\ UNCHANGED conn
    BY <1>4, <1>7, CloseStack DEF StopTLS, UnwrapOps, Pops, Drops, Goes
  <2> QED BY <1>1, <1>5, <2>1 DEF Fresh, CleanEnd
<1>8. CASE DoShutdownStep
  <2>1. \/ f \in Frames(stack)
        \/ conn' = DoShutdown(conn).conn /\ DoShutdown(conn).res = "complete"
    BY <1>4, <1>8, ShutdownStack DEF UnwrapOps, Pops, Drops, Goes, ShutdownEnd, TargetComplete
  <2> DEFINE r == DoShutdown(conn)
  <2>2. (conn.inInit => r.conn = conn)
        /\ (~conn.inInit /\ r.res = "complete" =>
              r.conn.readShutdown = "closeNotify" /\ r.conn.writeShutdown = "closeNotify")
    BY DoShutdownTrust DEF TypeOK
  <2> HIDE DEF r
  <2>3. f \in Frames(stack) \/ (conn' = r.conn /\ r.res = "complete")
    BY <2>1 DEF r
  <2> QED BY <1>5, <2>2, <2>3 DEF CleanEnd
<1>9. CASE TimedOutShutdown
  <2>1. stack' = <<Run("channelClose")>> \/ stack' = <<TimedOutUnwrap>> \/ stack' = stack
    BY <1>9 DEF TimedOutShutdown
  <2>2. f = Run("channelClose") \/ f = TimedOutUnwrap \/ f \in Frames(stack)
    BY <2>1 DEF Frames
  <2> QED BY <1>4, <1>5, <2>2, CallOps DEF UnwrapOps, TimedOutUnwrap, Run, Call
<1> QED BY <1>4, <1>5, <1>6, <1>7, <1>8, <1>9, UnwrapFrames

\* It holds in every behaviour.
LEMMA AlwaysClean == Spec => []Clean
<1>1. Init => Clean
  <2> SUFFICES ASSUME Init PROVE Fresh /\ CleanFrames
    BY DEF Clean
  <2>1. conn.inInit /\ conn.verify = "notStarted" /\ conn.inbound = <<>>
    BY DEF Init, NewConnection
  <2> QED BY <2>1 DEF Fresh, CleanFrames, CleanEnd
<1>2. TypeOK /\ Trusted /\ Clean /\ [Next]_vars => Clean'
  <2>1. ASSUME Clean, UNCHANGED vars PROVE Clean'
    BY <2>1 DEF vars, Clean, Fresh, CleanFrames
  <2>2. ASSUME TypeOK, Trusted, Clean, Next PROVE Clean'
    BY <2>2, NextClean, NextRuns DEF Trusted
  <2> QED BY <2>1, <2>2
<1> QED BY <1>1, <1>2, TypeCorrect, AlwaysTrusted, PTL DEF Spec

-----------------------------------------------------------------------------
\* The states before the peer is trusted, and the calls that exist only after.
EarlyStates == {"idle", "handshaking", "additionalVerification"}
LateOps == {"doDecodeData", "afterZeroReturn", "shutdownIncomplete"}
OpenStates == {"active", "inputClosed", "outputClosed"}

Early == state \in EarlyStates => LateOps \cap Pending(stack) = {}

\* Flushed actions will be looked at: sent, or discarded.
Processing == {"doUnbufferActions", "invokeCloseOutput", "discard"} \cap Pending(stack) # {}

\* The handler is open, or a call under way can open it again.
Reopens == \/ state \in OpenStates
           \/ "shutdownIncomplete" \in Pending(stack)
           \/ state = "unwrapping" /\ {"doDecodeData", "afterZeroReturn"} \cap Pending(stack) # {}

Flushed == fatal = "none" => Early /\ (Reopens => marked = 0 \/ Processing)

\* Every action keeps Early.
LEMMA NextEarly ==
    ASSUME TypeOK, TrustInv, Early, Next, fatal' = "none"
    PROVE  Early'
<1> USE DEF Early, EarlyStates, LateOps, Pops, Goes, Drops, Starts, Pushes, Enter, EnterTimed,
            CancelAndEnter
<1>1. CASE WriteDataToNetwork \/ ContextClose \/ ContextCloseOutput \/ Return
  BY <1>1, NetworkStack DEF WriteDataToNetwork, ContextClose, ContextCloseOutput, Return
<1>2. CASE ChannelClose \/ ChannelCloseOutput \/ RemovalFuture \/ ChannelUnwrap
  BY <1>2, EndStack DEF ChannelClose, ChannelCloseOutput, RemovalFuture, ChannelUnwrap, Crash
<1>3. CASE BufferWrite \/ Flush \/ Discard \/ InvokeCloseOutput \/ FailEncoded \/ FailCloseOutput
  BY <1>3, BufferStack DEF BufferWrite, Flush, Discard, InvokeCloseOutput, FailEncoded,
     FailCloseOutput
<1>4. CASE CloseAll \/ CloseOutput \/ StopTLS
  BY <1>4, CloseStack DEF timerVars
<1>5. CASE DoUnbufferActions
  BY <1>5, UnbufferStack DEF DoUnbufferActions
<1>6. CASE DoShutdownStep
  BY <1>6, ShutdownStack DEF TargetComplete
<1>7. CASE DoHandshakeStep \/ HandshakeIncomplete
  <2>1. Pending(Rest) = {}
    BY <1>7, HandshakeStack, ReadStack, PendingEmpty DEF TrustInv, StackAgrees, HandshakeOps
  <2> QED BY <1>7, <2>1, HandshakeStack, ReadStack
<1>8. CASE DoDecodeData \/ AfterZeroReturn \/ ShutdownIncomplete
  BY <1>8, ReadStack
<1>9. CASE DoFlushReadData
  BY <1>9, ReadStack DEF DoFlushReadData
<1>10. CASE Channel
  BY <1>10, ChannelStack DEF Channel, ChannelActive, ConnectFails, ChannelInactive,
     HandlerRemoved, ChannelRead, ChannelReadComplete, InputClosedTriggered, ChannelFulfills
<1>11. CASE User \/ ResumeHandshake \/ TimedOutShutdown
  <2>1. CASE CompletedAdditionalPeerCertificateVerification
    BY <2>1, UserStack
  <2>2. CASE \E op \in {"write", "closeAll", "closeOutput", "stopTLS"} : UserCalls(op)
    <3>1. PICK op \in {"write", "closeAll", "closeOutput", "stopTLS"} : UserCalls(op)
      BY <2>2
    <3> QED BY <3>1, UserStack DEF UserCalls
  <2> QED BY <1>11, <2>1, <2>2, UserStack DEF User, UserFlushes, ResumeHandshake
<1> QED BY <1>1, <1>2, <1>3, <1>4, <1>5, <1>6, <1>7, <1>8, <1>9, <1>10, <1>11 DEF Next, Handler

\* What marks actions, and what becomes of the marks.
LEMMA Marks ==
    ASSUME TypeOK, Next, fatal' = "none"
    PROVE  /\ marked' = 0 \/ marked > 0 \/ Processing' \/ (state \in EarlyStates /\ UNCHANGED state
                                                /\ Pending(stack') \subseteq Pending(stack))
           /\ Processing => marked' = 0 \/ Processing'
<1> USE DEF Pops, Goes, Drops, Processing, EarlyStates, bufVars
<1>1. CASE Flush
  BY <1>1, BufferStack, NextPending DEF Flush, BuffersFlush
<1>2. CASE CloseOutput
  <2>1. TopOp(stack) = "closeOutput"
    BY <1>2, CloseStack
  <2>2. \/ UNCHANGED bufVars
        \/ state \in {"handshaking", "additionalVerification"}
    BY <1>2 DEF CloseOutput
  <2>3. state \in {"handshaking", "additionalVerification"} =>
          UNCHANGED state /\ Pending(stack') \subseteq Pending(stack)
    BY <1>2, CloseStack
  <2>4. Processing => Processing'
    BY <2>1, NextPending
  <2> QED BY <2>2, <2>3, <2>4 DEF TypeOK
<1>3. CASE DoUnbufferActions
  BY <1>3, UnbufferStack DEF TypeOK, PopAction
<1>4. CASE InvokeCloseOutput
  BY <1>4, BufferStack
<1>5. CASE Discard
  <2>1. bufferedActions = <<>> => marked = 0
    BY DEF TypeOK
  <2> QED BY <1>5, <2>1, BufferStack DEF Discard, TypeOK
<1>6. CASE ~(Flush \/ CloseOutput \/ DoUnbufferActions \/ InvokeCloseOutput \/ Discard)
  <2>1. UNCHANGED marked
    BY <1>6 DEF Next, Handler, Channel, User, Return, WriteDataToNetwork, ContextClose,
       ContextCloseOutput, ChannelClose, ChannelUnwrap, ChannelCloseOutput, RemovalFuture,
       BufferWrite, CloseAll, StopTLS, DoShutdownStep, ShutdownIncomplete, DoHandshakeStep,
       HandshakeIncomplete, DoDecodeData, AfterZeroReturn, FailEncoded, FailCloseOutput,
       DoFlushReadData, ChannelActive, ConnectFails, ChannelInactive, HandlerRemoved, ChannelRead,
       ChannelReadComplete, InputClosedTriggered, ChannelFulfills, UserCalls, UserFlushes,
       CompletedAdditionalPeerCertificateVerification, ResumeHandshake, TimedOutShutdown
  <2>2. TopOp(stack) \notin {"doUnbufferActions", "invokeCloseOutput", "discard"}
    <3> SUFFICES ASSUME TopOp(stack) \in {"doUnbufferActions", "invokeCloseOutput", "discard"}
                 PROVE  FALSE
      OBVIOUS
    <3>1. Running(TopOp(stack))
      BY NextRuns DEF TopOp, Top, Running
    <3>2. Handler
      BY <3>1, Dispatch DEF Ops
    <3> QED BY <1>6, <3>1, <3>2 DEF Handler, Running, WriteDataToNetwork, ContextClose,
               ContextCloseOutput, ChannelClose, RemovalFuture, ChannelCloseOutput, ChannelUnwrap,
               BufferWrite, FailEncoded, FailCloseOutput, CloseAll, StopTLS, DoShutdownStep,
               ShutdownIncomplete, DoHandshakeStep, HandshakeIncomplete, DoDecodeData,
               AfterZeroReturn, DoFlushReadData
  <2> QED BY <2>1, <2>2, NextPending DEF TypeOK
<1> QED BY <1>1, <1>2, <1>3, <1>4, <1>5, <1>6

\* An action that may open the handler also processes what is buffered.
LEMMA NextReopens ==
    ASSUME TypeOK, TrustInv, Early, Next, fatal' = "none", Reopens'
    PROVE  Reopens \/ Processing'
<1> USE DEF Reopens, Processing, OpenStates, Early, EarlyStates, LateOps, Pops, Goes, Drops,
            Starts, Pushes, Enter, EnterTimed, CancelAndEnter, timerVars
<1>1. CASE WriteDataToNetwork \/ ContextClose \/ ContextCloseOutput \/ Return
  BY <1>1, NetworkStack DEF WriteDataToNetwork, ContextClose, ContextCloseOutput, Return
<1>2. CASE ChannelClose \/ ChannelCloseOutput \/ RemovalFuture \/ ChannelUnwrap
  BY <1>2, EndStack DEF ChannelClose, ChannelCloseOutput, RemovalFuture, ChannelUnwrap, Crash
<1>3. CASE BufferWrite \/ Flush \/ Discard \/ InvokeCloseOutput \/ FailEncoded \/ FailCloseOutput
  BY <1>3, BufferStack DEF BufferWrite, Flush, Discard, InvokeCloseOutput, FailEncoded,
     FailCloseOutput
<1>4. CASE CloseAll
  BY <1>4, CloseStack
<1>12. CASE CloseOutput
  BY <1>12, CloseStack
<1>13. CASE StopTLS
  BY <1>13, CloseStack
<1>5. CASE DoUnbufferActions
  BY <1>5, UnbufferStack DEF DoUnbufferActions
<1>6. CASE DoShutdownStep
  BY <1>6, ShutdownStack DEF TargetComplete, ShutdownEnd
<1>7. CASE DoHandshakeStep \/ HandshakeIncomplete
  BY <1>7, HandshakeStack, ReadStack
<1>8. CASE DoDecodeData \/ AfterZeroReturn \/ ShutdownIncomplete
  BY <1>8, ReadStack
<1>9. CASE DoFlushReadData
  BY <1>9, ReadStack DEF DoFlushReadData
<1>10. CASE Channel
  <2>1. CASE ChannelInactive
    BY <2>1, ChannelStack DEF ChannelInactive
  <2>2. CASE ChannelRead
    BY <2>2, ChannelStack DEF ChannelRead
  <2>3. CASE ConnectFails \/ HandlerRemoved \/ ChannelFulfills
    BY <2>3 DEF ConnectFails, HandlerRemoved, ChannelFulfills
  <2>4. CASE ChannelActive
    BY <2>4, ChannelStack DEF ChannelActive
  <2>5. CASE ChannelReadComplete
    BY <2>5, ChannelStack DEF ChannelReadComplete
  <2>6. CASE InputClosedTriggered
    BY <2>6, ChannelStack DEF InputClosedTriggered
  <2> QED BY <1>10, <2>1, <2>2, <2>3, <2>4, <2>5, <2>6 DEF Channel
<1>11. CASE User \/ ResumeHandshake \/ TimedOutShutdown
  <2>1. CASE CompletedAdditionalPeerCertificateVerification
    BY <2>1, UserStack
  <2>2. CASE \E op \in {"write", "closeAll", "closeOutput", "stopTLS"} : UserCalls(op)
    <3>1. PICK op \in {"write", "closeAll", "closeOutput", "stopTLS"} : UserCalls(op)
      BY <2>2
    <3> QED BY <3>1, UserStack DEF UserCalls
  <2> QED BY <1>11, <2>1, <2>2, UserStack DEF User, UserFlushes, ResumeHandshake
<1> QED BY <1>1, <1>2, <1>3, <1>4, <1>12, <1>13, <1>5, <1>6, <1>7, <1>8, <1>9, <1>10, <1>11
           DEF Next, Handler

\* Every action keeps Flushed.
LEMMA NextFlushed ==
    ASSUME TypeOK, TrustInv, Flushed, Next
    PROVE  Flushed'
<1> SUFFICES ASSUME fatal' = "none" PROVE Early' /\ (Reopens' => marked' = 0 \/ Processing')
  BY DEF Flushed
<1>1. Early /\ (Reopens => marked = 0 \/ Processing)
  BY NextRuns DEF Flushed
<1>2. Early'
  BY <1>1, NextEarly
<1>3. ASSUME Reopens', marked' # 0, ~Processing' PROVE FALSE
  <2>1. Reopens
    BY <1>1, <1>3, NextReopens
  <2>2. marked = 0 /\ ~Processing
    BY <1>1, <1>3, <2>1, Marks
  <2>3. state \in EarlyStates /\ UNCHANGED state /\ Pending(stack') \subseteq Pending(stack)
    BY <1>3, <2>2, Marks
  <2> QED BY <1>2, <1>3, <2>3 DEF Early, EarlyStates, LateOps, Reopens, OpenStates
<1> QED BY <1>2, <1>3

\* It holds in every behaviour.
LEMMA AlwaysFlushed == Spec => []Flushed
<1>1. Init => Flushed
  <2> SUFFICES ASSUME Init PROVE Early /\ marked = 0
    BY DEF Flushed
  <2>1. stack = <<>> \/ stack = <<Run("doHandshakeStep")>>
    BY DEF Init
  <2>2. Pending(stack) = {} \/ Pending(stack) = {Run("doHandshakeStep").op}
    BY <2>1, PendingEmpty, PendingOne, Zenon
  <2> QED BY <2>2, CallOps DEF Init, Early, LateOps
<1>2. TypeOK /\ Trusted /\ Flushed /\ [Next]_vars => Flushed'
  <2>1. ASSUME Flushed, UNCHANGED vars PROVE Flushed'
    BY <2>1 DEF vars, bufVars, Flushed, Early, Reopens, Processing
  <2>2. ASSUME TypeOK, Trusted, Flushed, Next PROVE Flushed'
    BY <2>2, NextFlushed, NextRuns DEF Trusted
  <2> QED BY <2>1, <2>2
<1> QED BY <1>1, <1>2, TypeCorrect, AlwaysTrusted, PTL DEF Spec

\* An open handler at rest has no flushed action left in its buffer: each was
\* encoded and handed to the channel, or failed (flush, doUnbufferActions,
\* discardBufferedActions).
THEOREM FlushedWritesDoLeave == Spec => []FlushedWritesLeave
<1>1. Flushed => FlushedWritesLeave
  BY PendingEmpty DEF Flushed, Reopens, OpenStates, Processing, FlushedWritesLeave, Idle
<1> QED BY <1>1, AlwaysFlushed, PTL

-----------------------------------------------------------------------------
(***************************************************************************)
(* Our side of the TLS stream ends once: CloseNotifyIsLast holds in every  *)
(* behaviour of the handler, for every peer, every set of promises and     *)
(* every nesting of calls.                                                 *)
(*                                                                         *)
(* CloseNotifyIsLast alone is not inductive.  It speaks of the records,    *)
(* and what keeps them in order is the connection's own account of them:   *)
(* writeShutdown says whether a closing alert was written, so no operation *)
(* that writes records may run once it is set.  Data and close_notify look *)
(* at it themselves; a handshake flight does not, and is held back by the  *)
(* sticky errors of the handshake instead.  Sealed states both.            *)
(***************************************************************************)

Closing == {"closeNotify", "alert"}
Unended(s) == \A i \in 1..Len(s) : s[i].kind \notin Closing
EndsOnce(s) == \A i \in 1..Len(s) : s[i].kind \in Closing => i = Len(s)

\* What is on the wire, w, and in the BIO, o, agrees with writeShutdown, ws.
Stream(w, o, ws) ==
    /\ EndsOnce(w) /\ EndsOnce(o)
    /\ ~Unended(w) => o = <<>>
    /\ ws = "none" => Unended(w) /\ Unended(o)

\* A handshake that was answered by a closing alert is over.
Stuck(c) == c.writeShutdown # "none" /\ c.inInit => c.hsError \/ c.readShutdown # "none"

Sealed(w, c) == Stream(w, c.outbound, c.writeShutdown) /\ Stuck(c)

-----------------------------------------------------------------------------
\* A record that closes nothing extends a stream that is open.
LEMMA StreamPlain ==
    ASSUME NEW w \in Seq(Record), NEW o \in Seq(Record), NEW r \in Record,
           Stream(w, o, "none"), r.kind \notin Closing
    PROVE  Stream(w, Append(o, r), "none")
<1>1. Len(Append(o, r)) = Len(o) + 1 /\ Len(o) \in Nat
  OBVIOUS
<1>2. \A i \in 1..Len(Append(o, r)) :
        Append(o, r)[i] = IF i <= Len(o) THEN o[i] ELSE r
  OBVIOUS
<1>3. Unended(Append(o, r))
  BY <1>1, <1>2 DEF Stream, Unended
<1> QED BY <1>3 DEF Stream, Unended, EndsOnce

\* A closing alert ends a stream that is open.
LEMMA StreamEnd ==
    ASSUME NEW w \in Seq(Record), NEW o \in Seq(Record), NEW r \in Record,
           Stream(w, o, "none"), NEW ws, ws # "none"
    PROVE  Stream(w, Append(o, r), ws)
<1>1. Len(Append(o, r)) = Len(o) + 1 /\ Len(o) \in Nat
  OBVIOUS
<1>2. \A i \in 1..Len(Append(o, r)) :
        Append(o, r)[i] = IF i <= Len(o) THEN o[i] ELSE r
  OBVIOUS
<1>3. EndsOnce(Append(o, r))
  BY <1>1, <1>2 DEF Stream, Unended, EndsOnce
<1> QED BY <1>3 DEF Stream

\* Handing the BIO's records to the channel keeps the stream.
LEMMA StreamMove ==
    ASSUME NEW w \in Seq(Record), NEW o \in Seq(Record), NEW ws, Stream(w, o, ws)
    PROVE  /\ EndsOnce(w \o o)
           /\ Stream(w \o o, <<>>, ws)
           /\ Stream(w, <<>>, ws)
<1>1. Len(w \o o) = Len(w) + Len(o) /\ Len(w) \in Nat /\ Len(o) \in Nat
  OBVIOUS
<1>2. \A i \in 1..Len(w \o o) :
        (w \o o)[i] = IF i <= Len(w) THEN w[i] ELSE o[i - Len(w)]
  OBVIOUS
<1>3. EndsOnce(<<>>) /\ Unended(<<>>)
  BY DEF EndsOnce, Unended
<1>4. EndsOnce(w \o o)
  <2>1. CASE Unended(w)
    <3> SUFFICES ASSUME NEW i \in 1..Len(w \o o), (w \o o)[i].kind \in Closing
                 PROVE  i = Len(w \o o)
      BY DEF EndsOnce
    <3>1. ~(i <= Len(w))
      BY <1>1, <1>2, <2>1 DEF Unended
    <3>2. i - Len(w) \in 1..Len(o) /\ o[i - Len(w)].kind \in Closing
      BY <1>1, <1>2, <3>1
    <3>3. i - Len(w) = Len(o)
      BY <3>2 DEF Stream, EndsOnce
    <3> QED BY <1>1, <3>3
  <2>2. CASE ~Unended(w)
    <3>1. o = <<>>
      BY <2>2 DEF Stream
    <3>2. w \o o = w
      BY <3>1
    <3> QED BY <3>2 DEF Stream
  <2> QED BY <2>1, <2>2
<1>5. ws = "none" => Unended(w \o o)
  BY <1>1, <1>2 DEF Unended, Stream
<1> QED BY <1>3, <1>4, <1>5 DEF Stream

-----------------------------------------------------------------------------
(***************************************************************************)
(* What each operation of the connection does to the stream.               *)
(***************************************************************************)
\* The retry flag of the BIO says nothing of the stream.
LEMMA RetrySeals ==
    ASSUME NEW w \in Seq(Record), NEW c \in Connection, NEW b \in BOOLEAN, Sealed(w, c)
    PROVE  Sealed(w, RetryRead(c, b))
BY RetryReadType DEF Sealed, Stuck

\* A record that is no closing alert is written while writeShutdown is none.
LEMMA SendSeals ==
    ASSUME NEW w \in Seq(Record), NEW c \in Connection, NEW r \in Record,
           Stream(w, c.outbound, c.writeShutdown), c.writeShutdown = "none",
           r.kind \notin Closing
    PROVE  /\ Stream(w, Send(c, r).outbound, Send(c, r).writeShutdown)
           /\ Send(c, r).writeShutdown = "none"
<1>1. c.outbound \in Seq(Record)
  BY ConnectionOpsType
<1>2. Send(c, r).outbound = Append(c.outbound, r) /\ Send(c, r).writeShutdown = "none"
  BY RetryReadType DEF Send, Connection
<1> QED BY <1>1, <1>2, StreamPlain

\* ssl_send_alert keeps the stream, and leaves the rest of the connection.
LEMMA FatalAlertSeals ==
    ASSUME NEW w \in Seq(Record), NEW c \in Connection,
           Stream(w, c.outbound, c.writeShutdown)
    PROVE  /\ Stream(w, FatalAlert(c).outbound, FatalAlert(c).writeShutdown)
           /\ FatalAlert(c).inInit = c.inInit /\ FatalAlert(c).hsError = c.hsError
           /\ FatalAlert(c).readShutdown = c.readShutdown
<1>1. CASE c.writeShutdown # "none" \/ c.bioClosed
  BY <1>1 DEF FatalAlert
<1>2. CASE ~(c.writeShutdown # "none" \/ c.bioClosed)
  <2> DEFINE d == [Send(c, Rec("alert")) EXCEPT !.writeShutdown = "error"]
  <2>1. FatalAlert(c) = d
    BY <1>2 DEF FatalAlert
  <2>2. /\ d.outbound = Append(c.outbound, Rec("alert")) /\ d.writeShutdown = "error"
        /\ d.inInit = c.inInit /\ d.hsError = c.hsError /\ d.readShutdown = c.readShutdown
    BY RetryReadType DEF Send, Connection
  <2>3. c.outbound \in Seq(Record) /\ Rec("alert") \in Record
    BY ConnectionOpsType, RecType DEF Kinds
  <2>4. Stream(w, Append(c.outbound, Rec("alert")), "error")
    BY <1>2, <2>3, StreamEnd
  <2> HIDE DEF d
  <2> QED BY <2>1, <2>2, <2>4
<1> QED BY <1>1, <1>2

\* Consuming a record, and answering it by an alert, keeps the stream.
LEMMA RefuseSeals ==
    ASSUME NEW w \in Seq(Record), NEW c \in Connection, c.inbound # <<>>,
           Stream(w, c.outbound, c.writeShutdown)
    PROVE  /\ Stream(w, Refuse(c).outbound, Refuse(c).writeShutdown)
           /\ Consume(c).outbound = c.outbound /\ Consume(c).writeShutdown = c.writeShutdown
           /\ Consume(c).inInit = c.inInit /\ Consume(c).hsError = c.hsError
           /\ Consume(c).readShutdown = c.readShutdown
<1>1. /\ Consume(c).outbound = c.outbound /\ Consume(c).writeShutdown = c.writeShutdown
      /\ Consume(c).inInit = c.inInit /\ Consume(c).hsError = c.hsError
      /\ Consume(c).readShutdown = c.readShutdown
  BY RetryReadType DEF Consume, Connection
<1>2. Consume(c) \in Connection
  BY ConsumeType
<1> QED BY <1>1, <1>2, FatalAlertSeals DEF Refuse

\* A record that ends the handshake leaves the connection sealed.
LEMMA RefuseInHandshakeSeals ==
    ASSUME NEW w \in Seq(Record), NEW c \in Connection, c.inbound # <<>>,
           Stream(w, c.outbound, c.writeShutdown), c.writeShutdown = "none"
    PROVE  Sealed(w, RefuseInHandshake(c).conn)
<1>1. Consume(c) \in Connection /\ Refuse(c) \in Connection
  BY ConsumeType, RefuseType
<1>2. LET d == [Consume(c) EXCEPT !.readShutdown = "closeNotify"]
      IN  d.outbound = c.outbound /\ d.writeShutdown = c.writeShutdown
  BY <1>1, RefuseSeals DEF Connection
<1>3. LET d == [Refuse(c) EXCEPT !.hsError = TRUE]
      IN  /\ d.outbound = Refuse(c).outbound /\ d.writeShutdown = Refuse(c).writeShutdown
          /\ d.hsError = TRUE
  BY <1>1 DEF Connection
<1> QED BY <1>2, <1>3, RefuseSeals DEF RefuseInHandshake, Result, Sealed, Stuck

\* The answer to a flight is written while nothing was shut down.
LEMMA FinishFlightSeals ==
    ASSUME NEW w \in Seq(Record), NEW c \in Connection,
           Stream(w, c.outbound, c.writeShutdown), c.writeShutdown = "none"
    PROVE  Sealed(w, FinishFlight(c).conn)
<1> DEFINE t == [Send(c, Rec("hs")) EXCEPT !.flights = @ + 1]
           u == [t EXCEPT !.inInit = FALSE]
<1>1. Rec("hs") \in Record /\ Rec("hs").kind \notin Closing
  BY RecType DEF Kinds, Closing
<1>2. Send(c, Rec("hs")) \in Connection
  BY <1>1, SendType
<1>3. t \in Connection
  <2> DEFINE d == Send(c, Rec("hs"))
  <2>1. d \in Connection
    BY <1>2
  <2> HIDE DEF d
  <2>2. d.flights + 1 \in Nat
    BY <2>1 DEF Connection
  <2>3. [d EXCEPT !.flights = @ + 1] \in Connection
    BY <2>1, <2>2 DEF Connection
  <2> QED BY <2>3 DEF d
<1>4. t.outbound = Send(c, Rec("hs")).outbound /\ t.writeShutdown = Send(c, Rec("hs")).writeShutdown
  BY <1>2 DEF Connection
<1>5. Stream(w, t.outbound, t.writeShutdown) /\ t.writeShutdown = "none"
  BY <1>1, <1>4, SendSeals
<1> HIDE DEF t
<1>6. u.outbound = t.outbound /\ u.writeShutdown = t.writeShutdown
  BY <1>3 DEF Connection
<1> HIDE DEF u
<1>7. Sealed(w, t) /\ Sealed(w, u)
  BY <1>5, <1>6 DEF Sealed, Stuck
<1>8. t.inbound # <<>> => Sealed(w, RefuseInHandshake(t).conn)
  BY <1>3, <1>5, RefuseInHandshakeSeals
<1>9. \/ FinishFlight(c).conn \in {u, RetryRead(t, TRUE)}
      \/ t.inbound # <<>> /\ FinishFlight(c).conn = RefuseInHandshake(t).conn
  BY DEF FinishFlight, WantRead, Result, t, u
<1>10. Sealed(w, RetryRead(t, TRUE))
  BY <1>3, <1>7, RetrySeals
<1> QED BY <1>7, <1>8, <1>9, <1>10

\* Reading a flight: the peer's record is answered, refused or kept for the
\* user's callback.
LEMMA ReadFlightSeals ==
    ASSUME NEW w \in Seq(Record), NEW c \in Connection,
           Stream(w, c.outbound, c.writeShutdown), c.writeShutdown = "none"
    PROVE  Sealed(w, ReadFlight(c).conn)
<1>1. CASE c.inbound = <<>>
  <2>1. ReadFlight(c).conn = RetryRead(c, TRUE)
    BY <1>1 DEF ReadFlight, WantRead, Result
  <2>2. Sealed(w, c)
    BY DEF Sealed, Stuck
  <2> QED BY <2>1, <2>2, RetrySeals
<1>2. CASE c.inbound # <<>>
  <2> DEFINE d == Consume(c)
             v == [d EXCEPT !.verify = "pendingResult"]
  <2>1. /\ d \in Connection /\ d.writeShutdown = "none"
        /\ Stream(w, d.outbound, d.writeShutdown)
    BY <1>2, ConsumeType, RefuseSeals
  <2> HIDE DEF d
  <2>2. v.outbound = d.outbound /\ v.writeShutdown = d.writeShutdown
    BY <2>1 DEF Connection
  <2> HIDE DEF v
  <2>3. Sealed(w, v)
    BY <2>1, <2>2 DEF Sealed, Stuck
  <2>4. Sealed(w, FinishFlight(d).conn) /\ Sealed(w, RefuseInHandshake(c).conn)
    BY <1>2, <2>1, FinishFlightSeals, RefuseInHandshakeSeals
  <2>5. ReadFlight(c).conn \in {RefuseInHandshake(c).conn, v, FinishFlight(d).conn}
    BY <1>2 DEF ReadFlight, Result, d, v
  <2> QED BY <2>3, <2>4, <2>5
<1> QED BY <1>1, <1>2

\* SSL_do_handshake writes nothing behind a closing alert: the errors of a
\* handshake are sticky.
LEMMA DoHandshakeSeals ==
    ASSUME NEW w \in Seq(Record), NEW c \in Connection, Sealed(w, c)
    PROVE  Sealed(w, DoHandshake(c).conn)
<1>1. CASE ~c.inInit \/ c.hsError \/ c.bioClosed \/ c.readShutdown # "none"
  BY <1>1 DEF DoHandshake, BIOClosed, Result
<1>2. CASE ~(~c.inInit \/ c.hsError \/ c.bioClosed \/ c.readShutdown # "none")
  <2>1. Stream(w, c.outbound, c.writeShutdown) /\ c.writeShutdown = "none"
    BY <1>2 DEF Sealed, Stuck
  <2>2. Sealed(w, FinishFlight(c).conn)
    BY <2>1, FinishFlightSeals
  <2>3. Sealed(w, HandshakeError(c))
    <3>1. FatalAlert(c) \in Connection
      BY FatalAlertType
    <3>2. /\ HandshakeError(c).outbound = FatalAlert(c).outbound
          /\ HandshakeError(c).writeShutdown = FatalAlert(c).writeShutdown
          /\ HandshakeError(c).hsError = TRUE
      BY <3>1 DEF HandshakeError, Connection
    <3> QED BY <2>1, <3>2, FatalAlertSeals DEF Sealed, Stuck
  <2>4. Sealed(w, ReadFlight(StartHandshake(c)).conn)
    <3> DEFINE d == StartHandshake(c)
    <3>1. Rec("hs") \in Record /\ Rec("hs").kind \notin Closing
      BY RecType DEF Kinds, Closing
    <3>2. Send(c, Rec("hs")) \in Connection
      BY <3>1, SendType
    <3>3. /\ d \in Connection
          /\ \/ d.outbound = c.outbound /\ d.writeShutdown = c.writeShutdown
             \/ /\ d.outbound = Send(c, Rec("hs")).outbound
                /\ d.writeShutdown = Send(c, Rec("hs")).writeShutdown
      BY <3>2 DEF StartHandshake, Connection
    <3>4. Stream(w, d.outbound, d.writeShutdown) /\ d.writeShutdown = "none"
      BY <2>1, <3>1, <3>3, SendSeals
    <3> HIDE DEF d
    <3>5. Sealed(w, ReadFlight(d).conn)
      BY <3>3, <3>4, ReadFlightSeals
    <3> QED BY <3>5 DEF d
  <2>5. c.verify \in Verify
    BY DEF Connection
  <2>6. DoHandshake(c).conn \in {c, HandshakeError(c), FinishFlight(c).conn,
                                 ReadFlight(StartHandshake(c)).conn}
    BY <1>2, <2>5 DEF DoHandshake, Result, Verify
  <2> QED BY <2>2, <2>3, <2>4, <2>6
<1> QED BY <1>1, <1>2

\* SSL_write completes the handshake and writes data, or writes none.
LEMMA EncodeSingleWriteSeals ==
    ASSUME NEW w \in Seq(Record), NEW c \in Connection, NEW a \in Action, Sealed(w, c)
    PROVE  Sealed(w, EncodeSingleWrite(c, a).conn)
<1> DEFINE d == DoHandshake(c).conn
           r == DataRecord(a.id, a.n)
<1>1. d \in Connection /\ Sealed(w, d)
  BY DoHandshakeType, DoHandshakeSeals
<1>2. r \in Record /\ r.kind \notin Closing
  BY DEF DataRecord, Record, Action, Kinds, Closing
<1>3. /\ BeforeWrite(c).conn = d
      /\ BeforeWrite(c).res = "complete" => d.writeShutdown = "none"
  BY DEF BeforeWrite, BIOClosed, Result
<1> HIDE DEF d, r
<1>4. d.writeShutdown = "none" => Sealed(w, Send(d, r))
  BY <1>1, <1>2, SendSeals DEF Sealed, Stuck
<1>5. \/ EncodeSingleWrite(c, a).conn \in {c, d}
      \/ EncodeSingleWrite(c, a).conn = Send(d, r) /\ d.writeShutdown = "none"
  BY <1>3 DEF EncodeSingleWrite, Result, r
<1> QED BY <1>1, <1>4, <1>5

\* What ends the reading, a close_notify or a refused record, is answered by
\* at most one alert.
LEMMA AnswerSeals ==
    ASSUME NEW w \in Seq(Record), NEW c \in Connection, Sealed(w, c), c.inbound # <<>>
    PROVE  /\ Sealed(w, [Consume(c) EXCEPT !.readShutdown = "closeNotify"])
           /\ Sealed(w, [Refuse(c) EXCEPT !.readShutdown = "error"])
<1> DEFINE d == [Consume(c) EXCEPT !.readShutdown = "closeNotify"]
           e == [Refuse(c) EXCEPT !.readShutdown = "error"]
<1>1. Consume(c) \in Connection /\ Refuse(c) \in Connection
  BY ConsumeType, RefuseType
<1>2. Stream(w, c.outbound, c.writeShutdown)
  BY DEF Sealed
<1>3. /\ d.outbound = c.outbound /\ d.writeShutdown = c.writeShutdown
      /\ d.readShutdown = "closeNotify"
  BY <1>1, <1>2, RefuseSeals DEF Connection
<1>4. /\ e.outbound = Refuse(c).outbound /\ e.writeShutdown = Refuse(c).writeShutdown
      /\ e.readShutdown = "error"
  BY <1>1 DEF Connection
<1> HIDE DEF d, e
<1>5. Sealed(w, d) /\ Sealed(w, e)
  BY <1>2, <1>3, <1>4, RefuseSeals DEF Sealed, Stuck
<1> QED BY <1>5 DEF d, e

\* SSL_shutdown writes its close_notify once, and only to an open stream.
LEMMA DoShutdownSeals ==
    ASSUME NEW w \in Seq(Record), NEW c \in Connection, Sealed(w, c)
    PROVE  Sealed(w, DoShutdown(c).conn)
<1>1. CASE c.inInit
  BY <1>1 DEF DoShutdown, Result
<1>2. CASE ~c.inInit /\ c.writeShutdown # "closeNotify"
  <2> DEFINE r == Rec("closeNotify")
             d == [Send(c, r) EXCEPT !.writeShutdown = "closeNotify"]
             e == [c EXCEPT !.writeShutdown = "closeNotify"]
  <2>1. r \in Record /\ c.outbound \in Seq(Record)
    BY RecType, ConnectionOpsType DEF Kinds
  <2>2. /\ d.outbound = Append(c.outbound, r) /\ d.writeShutdown = "closeNotify"
        /\ d.inInit = c.inInit
        /\ e.outbound = c.outbound /\ e.writeShutdown = "closeNotify" /\ e.inInit = c.inInit
    BY RetryReadType DEF Send, Connection
  <2>3. c.writeShutdown \in {"none", "error"}
    BY <1>2 DEF Connection, Shutdown
  <2>4. c.writeShutdown = "none" => Stream(w, Append(c.outbound, r), "closeNotify")
    BY <2>1, StreamEnd DEF Sealed
  <2>5. Stream(w, c.outbound, "closeNotify")
    BY DEF Sealed, Stream
  <2> HIDE DEF r
  <2>6. \/ DoShutdown(c).conn \in {c, e}
        \/ DoShutdown(c).conn = d /\ c.writeShutdown = "none"
    BY <1>2, <2>3 DEF DoShutdown, SendCloseNotify, BIOClosed, Result, r
  <2> HIDE DEF d, e
  <2> QED BY <1>2, <2>2, <2>4, <2>5, <2>6 DEF Sealed, Stuck
<1>3. CASE ~c.inInit /\ c.writeShutdown = "closeNotify"
  <2> DEFINE d == [Consume(c) EXCEPT !.readShutdown = "closeNotify"]
             e == [Refuse(c) EXCEPT !.readShutdown = "error"]
  <2>1. \/ DoShutdown(c).conn \in {c, RetryRead(c, TRUE), RetryRead(c, FALSE)}
        \/ c.inbound # <<>> /\ DoShutdown(c).conn \in {d, e}
    BY <1>3 DEF DoShutdown, AwaitCloseNotify, BIOClosed, WantRead, Result
  <2>2. c.inbound # <<>> => Sealed(w, d) /\ Sealed(w, e)
    BY AnswerSeals
  <2> QED BY <2>1, <2>2, RetrySeals
<1> QED BY <1>1, <1>2, <1>3

\* SSL_read answers at most the record it stops at.
LEMMA ReadDataSeals ==
    ASSUME NEW w \in Seq(Record), NEW c \in Connection, Sealed(w, c)
    PROVE  Sealed(w, ReadData(c).conn)
<1> DEFINE rest == SubSeq(c.inbound, DataPrefix(c.inbound) + 1, Len(c.inbound))
           t == [c EXCEPT !.inbound = rest]
<1>1. rest \in Seq(Record)
  <2>1. c.inbound \in Seq(Record) /\ DataPrefix(c.inbound) \in 0..Len(c.inbound)
    BY ConnectionOpsType, DataPrefixType
  <2> QED BY <2>1
<1> HIDE DEF rest
<1>2. t \in Connection
  BY <1>1 DEF Connection
<1>3. Sealed(w, t)
  BY DEF Sealed, Stuck, Connection
<1>4. t.inbound # <<>> =>
        /\ Sealed(w, [Consume(t) EXCEPT !.readShutdown = "closeNotify"])
        /\ Sealed(w, [Refuse(t) EXCEPT !.readShutdown = "error"])
  BY <1>2, <1>3, AnswerSeals
<1>5. \/ ReadData(c).conn \in {c, RetryRead(t, TRUE)}
      \/ /\ t.inbound # <<>>
         /\ ReadData(c).conn \in {[Consume(t) EXCEPT !.readShutdown = "closeNotify"],
                                  [Refuse(t) EXCEPT !.readShutdown = "error"]}
  BY DEF ReadData, BIOClosed, WantRead, Result, rest
<1>6. Sealed(w, RetryRead(t, TRUE))
  BY <1>2, <1>3, RetrySeals
<1> QED BY <1>3, <1>4, <1>5, <1>6

-----------------------------------------------------------------------------
(***************************************************************************)
(* The invariant of the handler.                                           *)
(***************************************************************************)
\* Feeding, emptying and closing the BIO, and the user's verdict, leave the
\* stream alone.
LEMMA ConnectionOpsSeal ==
    ASSUME NEW w \in Seq(Record), NEW c \in Connection, Sealed(w, c)
    PROVE  /\ Sealed(w, ExtractUnconsumedData(c)) /\ Sealed(w, CloseConnection(c))
           /\ \A r : Sealed(w, SetVerification(c, r))
           /\ \A recs : Sealed(w, ConsumeDataFromNetwork(c, recs))
           /\ Sealed(w, GetDataForNetwork(c))
           /\ Sealed(w \o c.outbound, GetDataForNetwork(c))
<1>1. Sealed(w, ExtractUnconsumedData(c)) /\ Sealed(w, CloseConnection(c))
  BY DEF Sealed, Stuck, ExtractUnconsumedData, CloseConnection, Connection
<1>2. /\ \A r : Sealed(w, SetVerification(c, r))
      /\ \A recs : Sealed(w, ConsumeDataFromNetwork(c, recs))
  BY DEF Sealed, Stuck, SetVerification, ConsumeDataFromNetwork, Connection
<1>3. LET d == GetDataForNetwork(c)
      IN  /\ d.outbound = <<>> /\ d.writeShutdown = c.writeShutdown /\ d.inInit = c.inInit
          /\ d.hsError = c.hsError /\ d.readShutdown = c.readShutdown
  BY DEF GetDataForNetwork, Connection
<1>4. c.outbound \in Seq(Record) /\ Stream(w, c.outbound, c.writeShutdown)
  BY ConnectionOpsType DEF Sealed
<1>5. Sealed(w, GetDataForNetwork(c)) /\ Sealed(w \o c.outbound, GetDataForNetwork(c))
  BY <1>3, <1>4, StreamMove DEF Sealed, Stuck
<1> QED BY <1>1, <1>2, <1>5

\* Every step keeps the wire and the connection sealed: ten actions touch
\* them, each through one operation of the connection.
LEMMA SealedStep ==
    ASSUME TypeOK, Sealed(wire, conn), [Next]_vars
    PROVE  Sealed(wire, conn)'
<1> USE DEF chanVars, envVars, histVars
<1>0. wire \in Seq(Record) /\ conn \in Connection
  BY DEF TypeOK
<1>1. CASE WriteDataToNetwork
  BY <1>0, <1>1, ConnectionOpsSeal DEF WriteDataToNetwork
<1>2. CASE ChannelUnwrap \/ RemovalFuture \/ HandlerRemoved
  BY <1>0, <1>2, ConnectionOpsSeal DEF ChannelUnwrap, RemovalFuture, HandlerRemoved
<1>3. CASE ResumeHandshake \/ ChannelRead
  BY <1>0, <1>3, ConnectionOpsSeal DEF ResumeHandshake, ChannelRead
<1>4. CASE DoUnbufferActions
  <2>1. marked > 0 => Head(bufferedActions) \in Action
    BY PopType DEF TypeOK
  <2>2. /\ wire' = wire
        /\ \/ conn' = conn
           \/ marked > 0 /\ conn' = EncodeSingleWrite(conn, Head(bufferedActions)).conn
    BY <1>4, Zenon DEF DoUnbufferActions
  <2> QED BY <1>0, <2>1, <2>2, EncodeSingleWriteSeals
<1>5. CASE DoShutdownStep
  BY <1>0, <1>5, DoShutdownSeals DEF DoShutdownStep
<1>6. CASE DoHandshakeStep
  BY <1>0, <1>6, DoHandshakeSeals DEF DoHandshakeStep
<1>7. CASE DoDecodeData
  BY <1>0, <1>7, ReadDataSeals DEF DoDecodeData
<1>8. CASE UNCHANGED <<wire, conn>>
  BY <1>8
<1>9. CASE \/ ContextClose \/ ContextCloseOutput \/ ChannelClose \/ ChannelCloseOutput
          \/ BufferWrite \/ Flush \/ Discard \/ InvokeCloseOutput \/ FailEncoded
          \/ FailCloseOutput \/ CloseAll \/ CloseOutput \/ StopTLS
  BY <1>8, <1>9 DEF ContextClose, ContextCloseOutput, ChannelClose, ChannelCloseOutput,
                    BufferWrite, Flush, Discard, InvokeCloseOutput, FailEncoded, FailCloseOutput,
                    CloseAll, CloseOutput, StopTLS
<1>10. CASE \/ ShutdownIncomplete \/ HandshakeIncomplete \/ AfterZeroReturn \/ DoFlushReadData
           \/ Return \/ ChannelActive \/ ConnectFails \/ ChannelInactive
           \/ ChannelReadComplete \/ InputClosedTriggered \/ ChannelFulfills
  BY <1>8, <1>10 DEF ShutdownIncomplete, HandshakeIncomplete, AfterZeroReturn, DoFlushReadData,
                     Return, ChannelActive, ConnectFails, ChannelInactive, ChannelReadComplete,
                     InputClosedTriggered, ChannelFulfills
<1>11. CASE \/ \E op \in {"write", "closeAll", "closeOutput", "stopTLS"} : UserCalls(op)
           \/ UserFlushes \/ CompletedAdditionalPeerCertificateVerification \/ TimedOutShutdown
           \/ UNCHANGED vars
  BY <1>8, <1>11 DEF UserCalls, UserFlushes, CompletedAdditionalPeerCertificateVerification,
                     TimedOutShutdown, vars
<1> QED BY <1>1, <1>2, <1>3, <1>4, <1>5, <1>6, <1>7, <1>9, <1>10, <1>11
        DEF Next, Handler, Channel, User

\* Whatever the user flushes, closes or unwraps, from whatever callback, and
\* whatever the peer sends, nothing is queued or sent behind our close_notify
\* or fatal alert, and none is sent twice: what doShutdownStep, doHandshakeStep,
\* doDecodeData and doUnbufferActions write ends with it.
THEOREM StreamEnds == Spec => []CloseNotifyIsLast
<1>1. Init => Sealed(wire, conn)
  BY DEF Init, Sealed, Stream, Stuck, NewConnection, Unended, EndsOnce
<1>2. TypeOK /\ Sealed(wire, conn) /\ [Next]_vars => Sealed(wire, conn)'
  BY SealedStep
<1>3. TypeOK /\ Sealed(wire, conn) => CloseNotifyIsLast
  <2> SUFFICES ASSUME TypeOK, Sealed(wire, conn) PROVE CloseNotifyIsLast
    OBVIOUS
  <2>1. wire \in Seq(Record) /\ conn.outbound \in Seq(Record)
    BY ConnectionOpsType DEF TypeOK
  <2>2. EndsOnce(wire \o conn.outbound)
    BY <2>1, StreamMove DEF Sealed
  <2>3. DOMAIN (wire \o conn.outbound) = 1..Len(wire \o conn.outbound)
    BY <2>1
  <2> QED BY <2>2, <2>3 DEF CloseNotifyIsLast, EndsOnce, Closing
<1> QED BY <1>1, <1>2, <1>3, TypeCorrect, PTL DEF Spec
=============================================================================
