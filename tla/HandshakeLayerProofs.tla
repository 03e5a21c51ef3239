------------------------ MODULE HandshakeLayerProofs ------------------------
(***************************************************************************)
(* The inductive invariant of the handshake, and what the building blocks  *)
(* of its state machines do to it.                                         *)
(*                                                                         *)
(* Good(e, g) is said of an endpoint e and its peer g.  It speaks of the   *)
(* peer only in ways that last (Grows): messages on their way to e are     *)
(* messages that g can have sent, and a signature among them means that g  *)
(* has signed.  A step of one endpoint is therefore judged by itself, as   *)
(* Steps(e, f, g), whatever the other one does in the meantime.            *)
(***************************************************************************)
EXTENDS Handshake, WellFoundedInduction, SequenceTheorems, TLAPS

-----------------------------------------------------------------------------
(***************************************************************************)
(* Sequences, of which it does not matter what they are sequences of.      *)
(***************************************************************************)
\* A sequence, of whatever.
IsSeq(s) == \E S : s \in Seq(S)

\* A sequence has a length, and its indices are those up to it.
LEMMA SeqLen == ASSUME NEW s, IsSeq(s) PROVE Len(s) \in Nat /\ DOMAIN s = 1..Len(s)
BY DEF IsSeq

\* The empty sequence.
LEMMA SeqEmpty == IsSeq(<<>>) /\ Len(<<>>) = 0
<1>1. <<>> \in Seq({})
  OBVIOUS
<1> QED BY <1>1 DEF IsSeq

\* Every element of a concatenation is one of its parts.
LEMMA SeqConcat ==
    ASSUME NEW s, NEW t, IsSeq(s), IsSeq(t)
    PROVE  /\ IsSeq(s \o t) /\ Len(s \o t) = Len(s) + Len(t)
           /\ \A i \in 1..Len(s \o t) : \/ i \in 1..Len(s) /\ (s \o t)[i] = s[i]
                                        \/ i - Len(s) \in 1..Len(t) /\ (s \o t)[i] = t[i - Len(s)]
<1>1. PICK S, T : s \in Seq(S) /\ t \in Seq(T)
  BY DEF IsSeq
<1>2. s \in Seq(S \cup T) /\ t \in Seq(S \cup T)
  BY <1>1
<1>3. s \o t \in Seq(S \cup T)
  BY <1>2
<1> QED BY <1>2, <1>3 DEF IsSeq

\* Every element of a subsequence is one of the sequence.
LEMMA SeqSub ==
    ASSUME NEW s, IsSeq(s), NEW m \in 1..(Len(s) + 1), NEW n \in (m - 1)..Len(s)
    PROVE  /\ IsSeq(SubSeq(s, m, n)) /\ Len(SubSeq(s, m, n)) = n - m + 1
           /\ \A i \in 1..Len(SubSeq(s, m, n)) : m + i - 1 \in 1..Len(s) /\ SubSeq(s, m, n)[i] = s[m + i - 1]
<1>1. PICK S : s \in Seq(S)
  BY DEF IsSeq
<1>2. Len(s) \in Nat
  BY <1>1
<1>3. SubSeq(s, m, n) \in Seq(S)
  BY <1>1, <1>2
<1>4. Len(SubSeq(s, m, n)) = n - m + 1
  BY <1>1, <1>2
<1>5. ASSUME NEW i \in 1..Len(SubSeq(s, m, n))
      PROVE  m + i - 1 \in 1..Len(s) /\ SubSeq(s, m, n)[i] = s[m + i - 1]
  <2>1. i \in Int /\ 1 <= i /\ i <= n - m + 1
    BY <1>2, <1>4
  <2>2. m + i - 1 \in 1..Len(s)
    BY <1>2, <2>1
  <2>3. SubSeq(s, m, n)[i] = s[m + i - 1]
    BY <1>1, <1>2, <2>1
  <2> QED BY <2>2, <2>3
<1>6. IsSeq(SubSeq(s, m, n))
  BY <1>3 DEF IsSeq
<1> QED BY <1>4, <1>5, <1>6

\* Every element of an extended sequence is old or the new one.
LEMMA SeqAppend ==
    ASSUME NEW s, NEW x, IsSeq(s)
    PROVE  /\ IsSeq(Append(s, x)) /\ Len(Append(s, x)) = Len(s) + 1
           /\ \A i \in 1..Len(Append(s, x)) : \/ i \in 1..Len(s) /\ Append(s, x)[i] = s[i]
                                              \/ Append(s, x)[i] = x
<1>1. PICK S : s \in Seq(S)
  BY DEF IsSeq
<1>2. s \in Seq(S \cup {x})
  BY <1>1
<1>3. Append(s, x) \in Seq(S \cup {x})
  BY <1>2
<1> QED BY <1>2, <1>3 DEF IsSeq

\* The first element and the others.
LEMMA SeqHead ==
    ASSUME NEW s, IsSeq(s), s # <<>>
    PROVE  Head(s) = s[1] /\ 1 \in 1..Len(s) /\ IsSeq(Tail(s)) /\ Len(Tail(s)) = Len(s) - 1
           /\ \A i \in 1..Len(Tail(s)) : i + 1 \in 1..Len(s) /\ Tail(s)[i] = s[i + 1]
<1>1. PICK S : s \in Seq(S)
  BY DEF IsSeq
<1>2. Len(s) \in Nat /\ Len(s) > 0 /\ Head(s) = s[1]
  BY <1>1
<1>3. Tail(s) \in Seq(S) /\ Len(Tail(s)) = Len(s) - 1
  BY <1>1
<1>4. ASSUME NEW i \in 1..Len(Tail(s)) PROVE i + 1 \in 1..Len(s) /\ Tail(s)[i] = s[i + 1]
  BY <1>1, <1>2, <1>3
<1>5. IsSeq(Tail(s)) /\ 1 \in 1..Len(s)
  BY <1>2, <1>3 DEF IsSeq
<1> QED BY <1>2, <1>3, <1>4, <1>5

\* A function on 1..n is a sequence.
LEMMA SeqFunction ==
    ASSUME NEW n \in Nat, NEW f, DOMAIN f = 1..n, f = [i \in 1..n |-> f[i]]
    PROVE  IsSeq(f) /\ Len(f) = n
<1> DEFINE S == {f[i] : i \in 1..n}
<1>1. f \in [1..n -> S]
  BY Zenon
<1> HIDE DEF S
<1>2. f \in Seq(S) /\ Len(f) = n
  BY <1>1
<1> QED BY <1>2 DEF IsSeq

\* The only sequence of length 0.
LEMMA SeqNone == ASSUME NEW s, IsSeq(s), Len(s) = 0 PROVE s = <<>>
BY DEF IsSeq

-----------------------------------------------------------------------------
(***************************************************************************)
(* Messages, and the records they travel in.                               *)
(***************************************************************************)
\* The endpoint has signed, with the key it is configured with.
Signed(f) == f.signatures > 0 /\ (f.cfg.customKey => f.key_result = "signature")

\* A message that f may have sent: it carries only f's certificate, and what is
\* signed says that f has signed.
Sound(m, f) ==
    /\ m.type = "certificate" => m.cert \in {"none", f.side}
    /\ m.type \in {"certificate_verify", "server_key_exchange"} => Signed(f)
    /\ m.type = "server_key_exchange" => m.group \in 0..2
    /\ m.type = "server_hello" => m.version \in {12, 13} /\ m.reused \in BOOLEAN /\ m.ticket \in BOOLEAN
    /\ m.type = "hello_retry_request" => m.version = 13 /\ m.group \in 0..2
    /\ m.type = "client_hello" => m.groups \in Seq({1, 2})

\* Units, and records of units, of such messages.
SoundUnits(us, f) == IsSeq(us) /\ \A i \in 1..Len(us) : Sound(us[i], f)
SoundRecords(q, f) ==
    IsSeq(q) /\ \A i \in 1..Len(q) : SoundUnits(q[i].units, f) /\ Len(q[i].units) <= MaxFragment

\* f is e, later: who has signed has signed, who has renegotiated has renegotiated.
Grows(e, f) == /\ f.side = e.side /\ (Signed(e) => Signed(f))
               /\ e.total_renegotiations > 0 => f.total_renegotiations > 0

\* What was sound to send stays so.
LEMMA UnitsGrow == ASSUME NEW us, NEW e, NEW f, SoundUnits(us, e), Grows(e, f) PROVE SoundUnits(us, f)
BY DEF SoundUnits, Sound, Grows

\* What was sound to send in records stays so.
LEMMA RecordsGrow == ASSUME NEW q, NEW e, NEW f, SoundRecords(q, e), Grows(e, f) PROVE SoundRecords(q, f)
BY UnitsGrow DEF SoundRecords

\* No units are sound units.
LEMMA UnitsEmpty == ASSUME NEW f PROVE SoundUnits(<<>>, f)
BY SeqEmpty DEF SoundUnits

\* Sound units behind sound units are sound, and their lengths add up.
LEMMA UnitsConcat ==
    ASSUME NEW us, NEW vs, NEW f, SoundUnits(us, f), SoundUnits(vs, f)
    PROVE  SoundUnits(us \o vs, f) /\ Len(us \o vs) = Len(us) + Len(vs)
BY SeqConcat DEF SoundUnits

\* A part of sound units is sound.
LEMMA UnitsSub ==
    ASSUME NEW us, NEW f, SoundUnits(us, f), NEW m \in 1..(Len(us) + 1), NEW n \in (m - 1)..Len(us)
    PROVE  SoundUnits(SubSeq(us, m, n), f) /\ Len(SubSeq(us, m, n)) = n - m + 1
BY SeqSub DEF SoundUnits

\* The units of a message, at least one, are the message itself.
LEMMA UnitsOf ==
    ASSUME NEW m
    PROVE  /\ IsSeq(Units(m)) /\ Len(Units(m)) \in Nat \ {0}
           /\ Len(Units(m)) = IF m.type = "certificate" THEN CertificateUnits ELSE 1
           /\ \A i \in 1..Len(Units(m)) : Units(m)[i] = m
<1> DEFINE n == IF m.type = "certificate" THEN CertificateUnits ELSE 1
<1>1. n \in Nat \ {0}
  BY LayerAssumption
<1>2. Units(m) = [i \in 1..n |-> m]
  BY DEF Units
<1> HIDE DEF n
<1>3. IsSeq(Units(m)) /\ Len(Units(m)) = n
  BY <1>1, <1>2, SeqFunction
<1> QED BY <1>1, <1>2, <1>3 DEF n

\* The units of a sound message are sound.
LEMMA UnitsSound == ASSUME NEW m, NEW f, Sound(m, f) PROVE SoundUnits(Units(m), f)
BY UnitsOf DEF SoundUnits

\* No records are sound records.
LEMMA RecordsEmpty == ASSUME NEW f PROVE SoundRecords(<<>>, f)
BY SeqEmpty DEF SoundRecords

\* Sound records behind sound records are sound.
LEMMA RecordsConcat ==
    ASSUME NEW q, NEW r, NEW f, SoundRecords(q, f), SoundRecords(r, f)
    PROVE  SoundRecords(q \o r, f)
BY SeqConcat DEF SoundRecords

\* A part of sound records is sound.
LEMMA RecordsSub ==
    ASSUME NEW q, NEW f, SoundRecords(q, f), NEW m \in 1..(Len(q) + 1), NEW n \in (m - 1)..Len(q)
    PROVE  SoundRecords(SubSeq(q, m, n), f)
BY SeqSub DEF SoundRecords

\* A sound record behind sound records.
LEMMA RecordsAppend ==
    ASSUME NEW q, NEW f, SoundRecords(q, f), NEW r, SoundUnits(r.units, f), Len(r.units) <= MaxFragment
    PROVE  SoundRecords(Append(q, r), f)
BY SeqAppend DEF SoundRecords

\* The first record and the others.
LEMMA RecordsTail ==
    ASSUME NEW q, NEW f, SoundRecords(q, f), q # <<>>
    PROVE  SoundRecords(Tail(q), f) /\ SoundUnits(Head(q).units, f)
BY SeqHead DEF SoundRecords

\* n records of M units each cover l units, and n - 1 do not.
LEMMA Quotient ==
    ASSUME NEW l \in Nat, NEW M \in Nat \ {0}, NEW n, n = (l + M - 1) \div M
    PROVE  n \in Nat /\ l <= n * M /\ (n * M) <= l + M - 1 /\ (l = 0 => n = 0)
OBVIOUS

\* The units that record i of n takes are units there are, at most M.
LEMMA Slices ==
    ASSUME NEW l \in Nat, NEW M \in Nat \ {0}, NEW n \in Nat, l <= n * M, n * M <= l + M - 1,
           NEW i \in 1..n
    PROVE  /\ (i - 1) * M + 1 \in 1..(l + 1)
           /\ i # n => i * M \in ((i - 1) * M)..l /\ i * M = (i - 1) * M + M
           /\ i = n => l \in ((i - 1) * M)..l /\ l <= (i - 1) * M + M
<1>1. i * M = (i - 1) * M + M
  OBVIOUS
<1>2. (i - 1) * M \in Nat
  OBVIOUS
<1>3. CASE i = n
  BY <1>1, <1>2, <1>3
<1>4. CASE i # n
  <2>1. i + 1 <= n
    BY <1>4
  <2>2. (i + 1) * M <= n * M
    BY <2>1
  <2>3. (i + 1) * M = i * M + M
    OBVIOUS
  <2> QED BY <1>1, <1>2, <1>4, <2>2, <2>3
<1> QED BY <1>3, <1>4

\* Records cuts sound units into sound records, none longer than MaxFragment.
LEMMA RecordsSound ==
    ASSUME NEW us, NEW f, NEW key, SoundUnits(us, f)
    PROVE  SoundRecords(Records(key, us), f) /\ (us = <<>> => Records(key, us) = <<>>)
<1> DEFINE n == (Len(us) + MaxFragment - 1) \div MaxFragment
           part(i) == SubSeq(us, (i - 1) * MaxFragment + 1, IF i = n THEN Len(us) ELSE i * MaxFragment)
           rs == Records(key, us)
<1>0. Len(us) \in Nat /\ MaxFragment \in Nat \ {0}
  BY SeqLen, LayerAssumption DEF SoundUnits
<1>1. n \in Nat /\ Len(us) <= n * MaxFragment /\ n * MaxFragment <= Len(us) + MaxFragment - 1 /\ (Len(us) = 0 => n = 0)
  BY <1>0, Quotient
<1>2. rs = [i \in 1..n |-> Record("handshake", key, part(i))]
  BY Zenon DEF Records
<1> HIDE DEF n, rs
<1>3. IsSeq(rs) /\ Len(rs) = n
  BY <1>1, <1>2, SeqFunction
<1>4. ASSUME NEW i \in 1..n PROVE SoundUnits(part(i), f) /\ Len(part(i)) <= MaxFragment
  <2>1. /\ (i - 1) * MaxFragment + 1 \in 1..(Len(us) + 1)
        /\ i # n => i * MaxFragment \in ((i - 1) * MaxFragment)..Len(us) /\ i * MaxFragment = (i - 1) * MaxFragment + MaxFragment
        /\ i = n => Len(us) \in ((i - 1) * MaxFragment)..Len(us) /\ Len(us) <= (i - 1) * MaxFragment + MaxFragment
    BY <1>0, <1>1, Slices
  <2> DEFINE a == (i - 1) * MaxFragment
             b == i * MaxFragment
  <2>2. a + 1 \in 1..(Len(us) + 1) /\ (i # n => b \in a..Len(us) /\ b = a + MaxFragment) /\ (i = n => Len(us) \in a..Len(us) /\ Len(us) <= a + MaxFragment)
    BY <2>1
  <2>3. part(i) = SubSeq(us, a + 1, IF i = n THEN Len(us) ELSE b)
    OBVIOUS
  <2> HIDE DEF a, b, part
  <2>4. a \in Nat
    BY <1>0, <2>2, <1>4 DEF a
  <2>5. CASE i = n
    <3>1. part(i) = SubSeq(us, a + 1, Len(us)) /\ Len(us) \in ((a + 1) - 1)..Len(us)
      BY <1>0, <2>2, <2>3, <2>4, <2>5
    <3>2. SoundUnits(part(i), f) /\ Len(part(i)) = Len(us) - (a + 1) + 1
      BY <2>2, <3>1, UnitsSub
    <3> QED BY <1>0, <2>2, <2>4, <2>5, <3>2
  <2>6. CASE i # n
    <3>1. part(i) = SubSeq(us, a + 1, b) /\ b \in ((a + 1) - 1)..Len(us)
      BY <1>0, <2>2, <2>3, <2>4, <2>6
    <3>2. SoundUnits(part(i), f) /\ Len(part(i)) = b - (a + 1) + 1
      BY <2>2, <3>1, UnitsSub
    <3> QED BY <1>0, <2>2, <2>4, <2>6, <3>2
  <2> QED BY <2>5, <2>6
<1>5. \A i \in 1..n : rs[i].units = part(i)
  BY <1>2 DEF Record
<1>6. SoundRecords(rs, f)
  BY <1>3, <1>4, <1>5 DEF SoundRecords
<1>7. us = <<>> => rs = <<>>
  BY <1>1, <1>3, SeqNone, SeqEmpty
<1> QED BY <1>6, <1>7 DEF rs

-----------------------------------------------------------------------------
(***************************************************************************)
(* Changes to an endpoint, and what the operations of HandshakeLayer do to *)
(* its buffers.                                                            *)
(***************************************************************************)
\* The fields of an endpoint.
Fields ==
    {"side", "cfg", "running", "error", "state", "tls13_state", "wait", "version",
     "session_reused", "used_hello_retry_request", "cert_request", "ticket_expected",
     "key_share", "peer", "inbound", "hs_buf", "pending_hs_data", "pending_flight",
     "outbound", "read_key", "write_key", "transcript", "secret", "app", "verify",
     "pending_private_key_op", "key_result", "established", "total_renegotiations",
     "key_update_pending", "key_update_count", "sent", "received", "callbacks", "signatures"}

\* f is an endpoint that differs from e in the fields X at most.
Same(e, f, X) == DOMAIN f = Fields /\ \A x \in Fields : x \in X \/ f[x] = e[x]

\* What e has to send are messages of o, what it has to read are messages of g.
Carries(e, o, g) ==
    /\ SoundUnits(e.pending_hs_data, o) /\ Len(e.pending_hs_data) <= MaxFragment
    /\ SoundRecords(e.pending_flight, o) /\ SoundRecords(e.outbound, o)
    /\ SoundRecords(e.inbound, g) /\ SoundUnits(e.hs_buf, g)

Wire(e, g) == Carries(e, e, g)

\* Nothing that the peer waits for is held back.
Quiet(e) == /\ e.pending_hs_data = <<>>
            /\ \A i \in 1..Len(e.pending_flight) : e.pending_flight[i].type = "change_cipher_spec"

\* Changes add up.
LEMMA SameTrans ==
    ASSUME NEW e, NEW f, NEW h, NEW X, NEW Y, Same(e, f, X), Same(f, h, Y)
    PROVE  Same(e, h, X \cup Y)
BY DEF Same

\* A change in X is one in more than X.
LEMMA SameWider ==
    ASSUME NEW e, NEW f, NEW X, NEW Y, Same(e, f, X), X \subseteq Y
    PROVE  Same(e, f, Y)
BY DEF Same

\* What an endpoint carries stays sound as its sender goes on.
LEMMA CarriesGrow ==
    ASSUME NEW e, NEW o, NEW p, NEW g, Carries(e, o, g), Grows(o, p)
    PROVE  Carries(e, p, g)
BY UnitsGrow, RecordsGrow DEF Carries

\* A change that leaves the buffers alone leaves them sound.
LEMMA WireSame ==
    ASSUME NEW e, NEW f, NEW g, NEW X, Same(e, f, X), Wire(e, g), Grows(e, f),
           X \cap {"inbound", "hs_buf", "pending_hs_data", "pending_flight", "outbound"} = {}
    PROVE  Wire(f, g)
<1>1. /\ f.pending_hs_data = e.pending_hs_data /\ f.pending_flight = e.pending_flight
      /\ f.outbound = e.outbound /\ f.inbound = e.inbound /\ f.hs_buf = e.hs_buf
  BY DEF Same, Fields
<1> QED BY <1>1, UnitsGrow, RecordsGrow DEF Wire, Carries

\* A change that leaves the signing alone unsigns nothing.
LEMMA SameGrows ==
    ASSUME NEW e, NEW f, NEW X, Same(e, f, X), X \cap {"side", "cfg", "key_result", "signatures", "total_renegotiations"} = {}
    PROVE  Grows(e, f) /\ Grows(f, e)
<1>1. /\ f.side = e.side /\ f.cfg = e.cfg /\ f.key_result = e.key_result /\ f.signatures = e.signatures
      /\ f.total_renegotiations = e.total_renegotiations
  BY DEF Same, Fields
<1> QED BY <1>1 DEF Grows, Signed

\* Flushing the packed messages moves them, in sound records, to the flight.
LEMMA OnFlushPendingHsData ==
    ASSUME NEW e, NEW g, DOMAIN e = Fields, Wire(e, g)
    PROVE  LET h == FlushPendingHsData(e)
           IN  /\ Same(e, h, {"pending_flight", "pending_hs_data"}) /\ Wire(h, g)
               /\ h.pending_hs_data = <<>> /\ (Quiet(e) => Quiet(h))
<1> DEFINE h == FlushPendingHsData(e)
           rs == Records(e.write_key, e.pending_hs_data)
<1>1. Same(e, h, {"pending_flight", "pending_hs_data"})
  BY Zenon DEF Same, FlushPendingHsData
<1>2. h.pending_hs_data = <<>> /\ h.pending_flight = e.pending_flight \o rs
  BY SMT DEF Fields, FlushPendingHsData
<1>3. h.outbound = e.outbound /\ h.inbound = e.inbound /\ h.hs_buf = e.hs_buf
  BY <1>1 DEF Same, Fields
<1>4. Grows(e, h)
  BY <1>1, SameGrows
<1> HIDE DEF h, rs
<1>5. SoundRecords(rs, e) /\ (e.pending_hs_data = <<>> => rs = <<>>)
  BY RecordsSound DEF Wire, Carries, rs
<1>6. SoundRecords(h.pending_flight, h)
  BY <1>2, <1>4, <1>5, RecordsConcat, RecordsGrow DEF Wire, Carries
<1>7. MaxFragment \in Nat /\ Len(<<>>) = 0
  BY LayerAssumption, SeqEmpty
<1>8. Wire(h, g)
  BY <1>2, <1>3, <1>4, <1>6, <1>7, RecordsGrow, UnitsEmpty DEF Wire, Carries
<1>9. ASSUME Quiet(e) PROVE Quiet(h)
  <2>1. rs = <<>>
    BY <1>5, <1>9 DEF Quiet
  <2>2. IsSeq(e.pending_flight)
    BY DEF Wire, Carries, SoundRecords
  <2>3. h.pending_flight = e.pending_flight
    BY <1>2, <2>1, <2>2 DEF IsSeq
  <2> QED BY <1>2, <1>9, <2>3 DEF Quiet
<1> QED BY <1>1, <1>2, <1>8, <1>9 DEF h

\* A message that is sound for o, the endpoint as it will be, makes sound buffers for it.
LEMMA OnAddMessage ==
    ASSUME NEW e, NEW g, NEW m, NEW o, DOMAIN e = Fields, Wire(e, g), Grows(e, o), Sound(m, o)
    PROVE  LET h == AddMessage(e, m)
           IN  Same(e, h, {"pending_flight", "pending_hs_data", "transcript"}) /\ Carries(h, o, g)
<1> DEFINE h == AddMessage(e, m)
           us == e.pending_hs_data \o Units(m)
           k  == ((Len(us) - 1) \div MaxFragment) * MaxFragment
           now == IF e.write_key = NullKey THEN Records(NullKey, Units(m)) ELSE Records(e.write_key, SubSeq(us, 1, k))
           later == IF e.write_key = NullKey THEN e.pending_hs_data ELSE SubSeq(us, k + 1, Len(us))
<1>1. Same(e, h, {"pending_flight", "pending_hs_data", "transcript"})
  BY Zenon DEF Same, AddMessage
<1>2. h.pending_hs_data = later /\ h.pending_flight = e.pending_flight \o now
  <2>1. CASE e.write_key = NullKey
    BY <2>1, SMT DEF Fields, AddMessage
  <2>2. CASE e.write_key # NullKey
    <3> DEFINE r == Records(e.write_key, SubSeq(us, 1, k))
               l == SubSeq(us, k + 1, Len(us))
    <3>1. h = [e EXCEPT !.pending_flight = @ \o r, !.pending_hs_data = l, !.transcript = Append(@, m)]
      BY <2>2, Zenon DEF AddMessage
    <3> HIDE DEF h, r, l
    <3>2. h.pending_hs_data = l /\ h.pending_flight = e.pending_flight \o r
      BY <3>1, SMT DEF Fields
    <3> QED BY <2>2, <3>2, Zenon DEF r, l
  <2> QED BY <2>1, <2>2
<1>3. h.outbound = e.outbound /\ h.inbound = e.inbound /\ h.hs_buf = e.hs_buf
  BY <1>1 DEF Same, Fields
<1>4. Carries(e, o, g)
  BY CarriesGrow DEF Wire
<1>5. /\ SoundUnits(Units(m), o) /\ SoundUnits(us, o)
      /\ Len(us) = Len(e.pending_hs_data) + Len(Units(m))
  BY <1>4, UnitsSound, UnitsConcat DEF Carries
<1>6. Len(us) \in Nat \ {0} /\ MaxFragment \in Nat \ {0}
  <2>1. Len(e.pending_hs_data) \in Nat
    BY SeqLen DEF Wire, Carries, SoundUnits
  <2>2. Len(Units(m)) \in Nat \ {0}
    BY UnitsOf
  <2> HIDE DEF us
  <2> QED BY <1>5, <2>1, <2>2, LayerAssumption
<1>7. k \in 0..Len(us) /\ Len(us) - k <= MaxFragment
  <2> DEFINE l == Len(us)
             q == (l - 1) \div MaxFragment
  <2> HIDE DEF us
  <2>1. q \in Nat /\ q * MaxFragment <= l - 1 /\ l - 1 < q * MaxFragment + MaxFragment
    BY <1>6
  <2> QED BY <2>1, <1>6
<1> HIDE DEF us, k, h
<1>8. /\ SoundUnits(SubSeq(us, 1, k), o) /\ SoundUnits(SubSeq(us, k + 1, Len(us)), o)
      /\ Len(SubSeq(us, k + 1, Len(us))) <= MaxFragment
  <2>1. /\ 1 \in 1..(Len(us) + 1) /\ k \in (1 - 1)..Len(us) /\ k + 1 \in 1..(Len(us) + 1)
        /\ Len(us) \in ((k + 1) - 1)..Len(us)
    BY <1>6, <1>7
  <2>2. Len(SubSeq(us, k + 1, Len(us))) = Len(us) - (k + 1) + 1
    BY <1>5, <2>1, UnitsSub
  <2> QED BY <1>5, <1>6, <1>7, <2>1, <2>2, UnitsSub
<1>9. SoundRecords(now, o) /\ SoundUnits(later, o) /\ Len(later) <= MaxFragment
  BY <1>4, <1>5, <1>8, RecordsSound DEF Carries
<1> HIDE DEF now, later
<1>10. Carries(h, o, g)
  BY <1>2, <1>3, <1>4, <1>9, RecordsConcat DEF Carries
<1> QED BY <1>1, <1>10 DEF h

\* A ChangeCipherSpec adds nothing that the peer waits for.
LEMMA OnAddChangeCipherSpec ==
    ASSUME NEW e, NEW g, DOMAIN e = Fields, Wire(e, g)
    PROVE  LET h == AddChangeCipherSpec(e)
           IN  /\ Same(e, h, {"pending_flight", "pending_hs_data"}) /\ Wire(h, g)
               /\ Quiet(e) => Quiet(h)
<1> DEFINE f == FlushPendingHsData(e)
           r == Record("change_cipher_spec", e.write_key, <<>>)
           h == AddChangeCipherSpec(e)
<1>1. Same(e, f, {"pending_flight", "pending_hs_data"}) /\ Wire(f, g) /\ (Quiet(e) => Quiet(f))
  BY OnFlushPendingHsData
<1>2. h = [f EXCEPT !.pending_flight = Append(@, r)]
  BY Zenon DEF AddChangeCipherSpec
<1>3. DOMAIN f = Fields
  BY <1>1 DEF Same
<1> HIDE DEF f, h
<1>4. Same(f, h, {"pending_flight"})
  BY <1>2, <1>3, Zenon DEF Same
<1>5. h.pending_flight = Append(f.pending_flight, r)
  BY <1>2, <1>3, SMT DEF Fields
<1>6. Same(e, h, {"pending_flight", "pending_hs_data"})
  <2>1. Same(e, h, {"pending_flight", "pending_hs_data"} \cup {"pending_flight"})
    BY <1>1, <1>4, SameTrans
  <2> QED BY <2>1, SameWider
<1>7. Grows(f, h)
  BY <1>4, SameGrows
<1>8. /\ h.pending_hs_data = f.pending_hs_data /\ h.outbound = f.outbound
      /\ h.inbound = f.inbound /\ h.hs_buf = f.hs_buf
  BY <1>4 DEF Same, Fields
<1>9. r.units = <<>> /\ r.type = "change_cipher_spec"
  BY DEF Record
<1>10. MaxFragment \in Nat /\ Len(<<>>) = 0
  BY LayerAssumption, SeqEmpty
<1> HIDE DEF r
<1>11. SoundRecords(h.pending_flight, h)
  <2>1. SoundRecords(f.pending_flight, h)
    BY <1>1, <1>7, RecordsGrow DEF Wire, Carries
  <2>2. SoundUnits(r.units, h) /\ Len(r.units) <= MaxFragment
    BY <1>9, <1>10, UnitsEmpty
  <2> QED BY <1>5, <2>1, <2>2, RecordsAppend
<1>12. Wire(h, g)
  BY <1>1, <1>7, <1>8, <1>11, RecordsGrow, UnitsGrow DEF Wire, Carries
<1>13. ASSUME Quiet(f) PROVE Quiet(h)
  <2>1. IsSeq(f.pending_flight)
    BY <1>1 DEF Wire, Carries, SoundRecords
  <2> QED BY <1>5, <1>8, <1>9, <1>13, <2>1, SeqAppend DEF Quiet
<1> QED BY <1>1, <1>6, <1>12, <1>13 DEF h

\* Flushing the flight leaves nothing behind.
LEMMA OnFlushFlight ==
    ASSUME NEW e, NEW g, DOMAIN e = Fields, Wire(e, g)
    PROVE  LET h == FlushFlight(e)
           IN  /\ Same(e, h, {"pending_flight", "pending_hs_data", "outbound"}) /\ Wire(h, g)
               /\ Quiet(h) /\ h.pending_flight = <<>>
<1> DEFINE f == FlushPendingHsData(e)
           h == FlushFlight(e)
<1>1. Same(e, f, {"pending_flight", "pending_hs_data"}) /\ Wire(f, g) /\ f.pending_hs_data = <<>>
  BY OnFlushPendingHsData
<1>2. h = [f EXCEPT !.outbound = @ \o f.pending_flight, !.pending_flight = <<>>]
  BY Zenon DEF FlushFlight
<1>3. DOMAIN f = Fields
  BY <1>1 DEF Same
<1> HIDE DEF f, h
<1>4. Same(f, h, {"pending_flight", "outbound"})
  BY <1>2, <1>3, Zenon DEF Same
<1>5. h.pending_flight = <<>> /\ h.outbound = f.outbound \o f.pending_flight
  BY <1>2, <1>3, SMT DEF Fields
<1>6. Same(e, h, {"pending_flight", "pending_hs_data", "outbound"})
  <2>1. Same(e, h, {"pending_flight", "pending_hs_data"} \cup {"pending_flight", "outbound"})
    BY <1>1, <1>4, SameTrans
  <2> QED BY <2>1, SameWider
<1>7. Grows(f, h)
  BY <1>4, SameGrows
<1>8. h.pending_hs_data = f.pending_hs_data /\ h.inbound = f.inbound /\ h.hs_buf = f.hs_buf
  BY <1>4 DEF Same, Fields
<1>9. SoundRecords(h.outbound, h)
  BY <1>1, <1>5, <1>7, RecordsConcat, RecordsGrow DEF Wire, Carries
<1>10. Wire(h, g)
  BY <1>1, <1>5, <1>7, <1>8, <1>9, RecordsEmpty, RecordsGrow, UnitsGrow DEF Wire, Carries
<1>11. Quiet(h)
  BY <1>1, <1>5, <1>8, SeqEmpty DEF Quiet
<1> QED BY <1>5, <1>6, <1>10, <1>11 DEF h

\* A new key flushes what was packed under the old one.
LEMMA OnSetWriteKey ==
    ASSUME NEW e, NEW g, NEW key, DOMAIN e = Fields, Wire(e, g)
    PROVE  LET h == SetWriteKey(e, key)
           IN  /\ Same(e, h, {"pending_flight", "pending_hs_data", "write_key"}) /\ Wire(h, g)
               /\ Quiet(e) => Quiet(h)
<1> DEFINE f == FlushPendingHsData(e)
           h == SetWriteKey(e, key)
<1>1. Same(e, f, {"pending_flight", "pending_hs_data"}) /\ Wire(f, g) /\ (Quiet(e) => Quiet(f))
  BY OnFlushPendingHsData
<1>2. h = [f EXCEPT !.write_key = key]
  BY Zenon DEF SetWriteKey
<1>3. DOMAIN f = Fields
  BY <1>1 DEF Same
<1> HIDE DEF f, h
<1>4. Same(f, h, {"write_key"})
  BY <1>2, <1>3, Zenon DEF Same
<1>5. Same(e, h, {"pending_flight", "pending_hs_data", "write_key"})
  <2>1. Same(e, h, {"pending_flight", "pending_hs_data"} \cup {"write_key"})
    BY <1>1, <1>4, SameTrans
  <2> QED BY <2>1, SameWider
<1>6. Wire(h, g)
  BY <1>1, <1>4, SameGrows, WireSame
<1>7. h.pending_hs_data = f.pending_hs_data /\ h.pending_flight = f.pending_flight
  BY <1>4 DEF Same, Fields
<1> QED BY <1>1, <1>5, <1>6, <1>7 DEF h, Quiet

\* An alert takes the flight with it.
LEMMA OnAlert ==
    ASSUME NEW e, NEW g, NEW why, DOMAIN e = Fields, Wire(e, g)
    PROVE  LET h == Alert(e, why)
           IN  /\ Same(e, h, {"pending_flight", "pending_hs_data", "outbound", "wait", "error", "running"})
               /\ Wire(h, g) /\ h.wait = "error" /\ h.running = FALSE
<1> DEFINE f == FlushFlight(e)
           r == Record("alert", e.write_key, <<>>)
           h == Alert(e, why)
<1>1. Same(e, f, {"pending_flight", "pending_hs_data", "outbound"}) /\ Wire(f, g)
  BY OnFlushFlight
<1>2. h = [f EXCEPT !.outbound = Append(@, r), !.wait = "error", !.error = why, !.running = FALSE]
  BY Zenon DEF Alert, Error
<1>3. DOMAIN f = Fields
  BY <1>1 DEF Same
<1> HIDE DEF f, h
<1>4. Same(f, h, {"outbound", "wait", "error", "running"})
  BY <1>2, <1>3, Zenon DEF Same
<1>5. h.outbound = Append(f.outbound, r) /\ h.wait = "error" /\ h.running = FALSE
  BY <1>2, <1>3, SMT DEF Fields
<1>6. Same(e, h, {"pending_flight", "pending_hs_data", "outbound", "wait", "error", "running"})
  <2>1. Same(e, h, {"pending_flight", "pending_hs_data", "outbound"} \cup {"outbound", "wait", "error", "running"})
    BY <1>1, <1>4, SameTrans
  <2> QED BY <2>1, SameWider
<1>7. Grows(f, h)
  BY <1>4, SameGrows
<1>8. /\ h.pending_hs_data = f.pending_hs_data /\ h.pending_flight = f.pending_flight
      /\ h.inbound = f.inbound /\ h.hs_buf = f.hs_buf
  BY <1>4 DEF Same, Fields
<1>9. r.units = <<>> /\ MaxFragment \in Nat /\ Len(<<>>) = 0
  BY LayerAssumption, SeqEmpty DEF Record
<1> HIDE DEF r
<1>10. SoundRecords(h.outbound, h)
  <2>1. SoundRecords(f.outbound, h)
    BY <1>1, <1>7, RecordsGrow DEF Wire, Carries
  <2>2. SoundUnits(r.units, h) /\ Len(r.units) <= MaxFragment
    BY <1>9, UnitsEmpty
  <2> QED BY <1>5, <2>1, <2>2, RecordsAppend
<1>11. Wire(h, g)
  BY <1>1, <1>7, <1>8, <1>10, RecordsGrow, UnitsGrow DEF Wire, Carries
<1> QED BY <1>5, <1>6, <1>11 DEF h

\* Hashing a message touches only the transcript.
LEMMA OnHashMessage ==
    ASSUME NEW e, NEW g, DOMAIN e = Fields, Wire(e, g)
    PROVE  Same(e, HashMessage(e), {"transcript"}) /\ Wire(HashMessage(e), g)
<1>1. Same(e, HashMessage(e), {"transcript"})
  BY Zenon DEF Same, HashMessage
<1> QED BY <1>1, SameGrows, WireSame

\* What is read is a message of the peer, and taking the last one empties hs_buf.
LEMMA OnMessage ==
    ASSUME NEW e, NEW g, DOMAIN e = Fields, Wire(e, g), HasMessage(e)
    PROVE  /\ Sound(Message(e), g)
           /\ Same(e, NextMessage(e), {"hs_buf"}) /\ Wire(NextMessage(e), g)
           /\ ~Excess(e) => NextMessage(e).hs_buf = <<>>
<1> DEFINE h == NextMessage(e)
           n == Len(Units(Message(e)))
<1>1. IsSeq(e.hs_buf) /\ e.hs_buf # <<>> /\ Len(e.hs_buf) >= n
  BY DEF Wire, Carries, SoundUnits, HasMessage, Message
<1>2. Sound(Message(e), g)
  BY <1>1, SeqHead DEF Wire, Carries, SoundUnits, Message
<1>3. n \in Nat \ {0} /\ Len(e.hs_buf) \in Nat
  BY <1>1, UnitsOf, SeqLen
<1>4. Same(e, h, {"hs_buf"})
  BY Zenon DEF Same, NextMessage
<1>5. h.hs_buf = SubSeq(e.hs_buf, n + 1, Len(e.hs_buf))
  BY SMT DEF Fields, NextMessage
<1> HIDE DEF h, n
<1>6. n + 1 \in 1..(Len(e.hs_buf) + 1) /\ Len(e.hs_buf) \in ((n + 1) - 1)..Len(e.hs_buf)
  BY <1>1, <1>3
<1>7. SoundUnits(h.hs_buf, g) /\ Len(h.hs_buf) = Len(e.hs_buf) - (n + 1) + 1
  BY <1>5, <1>6, UnitsSub DEF Wire, Carries
<1>8. Grows(e, h)
  BY <1>4, SameGrows
<1>9. /\ h.pending_hs_data = e.pending_hs_data /\ h.pending_flight = e.pending_flight
      /\ h.inbound = e.inbound /\ h.outbound = e.outbound
  BY <1>4 DEF Same, Fields
<1>10. Wire(h, g)
  BY <1>7, <1>8, <1>9, RecordsGrow, UnitsGrow DEF Wire, Carries
<1>11. ASSUME ~Excess(e) PROVE h.hs_buf = <<>>
  <2>1. Len(e.hs_buf) <= n
    BY <1>3, <1>11 DEF Excess, n
  <2>2. Len(h.hs_buf) = 0
    BY <1>1, <1>3, <1>7, <2>1
  <2> QED BY <1>7, <2>2, SeqNone DEF SoundUnits
<1> QED BY <1>2, <1>4, <1>10, <1>11 DEF h

-----------------------------------------------------------------------------
(***************************************************************************)
(* The invariant of an endpoint.                                           *)
(***************************************************************************)
Waits == Reading \cup {"ok", "flush", "error", "certificate_verify", "private_key_operation"}

\* The fields of an endpoint hold what they are meant to hold.
Typed(e) ==
    /\ DOMAIN e = Fields
    /\ e.side \in Sides /\ e.cfg \in Config
    /\ e.running \in BOOLEAN /\ e.version \in {0, 12, 13} /\ e.wait \in Waits
    /\ e.session_reused \in BOOLEAN /\ e.used_hello_retry_request \in BOOLEAN
    /\ e.cert_request \in BOOLEAN /\ e.ticket_expected \in BOOLEAN
    /\ e.key_share \in 0..2 /\ e.peer \in {"none", Peer(e.side)}
    /\ e.verify \in {"notStarted", "pending", "ok", "invalid"}
    /\ e.pending_private_key_op \in BOOLEAN
    /\ e.key_result \in {"none", "signature", "failure"}
    /\ e.total_renegotiations \in Nat /\ e.callbacks \in Nat /\ e.signatures \in Nat

\* The endpoint is in one of the states a of TLS 1.2 and of the hellos, or b of TLS 1.3.
At(e, a, b) == IF e.state = "tls13" THEN e.tls13_state \in b ELSE e.state \in a

\* The signature of this handshake has not been made.
Unsigned(e) ==
    IF e.side = "client"
    THEN At(e, {"start", "read_server_hello", "read_server_certificate",
                "verify_server_certificate", "read_server_key_exchange",
                "read_certificate_request", "read_server_hello_done", "send_client_certificate",
                "send_client_key_exchange", "send_client_certificate_verify"},
               {"read_hello_retry_request", "send_second_client_hello", "read_server_hello",
                "read_encrypted_extensions", "read_certificate_request",
                "read_server_certificate", "read_server_certificate_verify",
                "read_server_finished", "send_client_certificate",
                "send_client_certificate_verify"})
    ELSE At(e, {"start", "read_client_hello", "read_client_hello_after_ech",
                "select_certificate", "select_parameters", "send_server_hello",
                "send_server_certificate", "send_server_key_exchange"},
               {"select_session", "send_hello_retry_request", "read_second_client_hello",
                "send_server_hello", "send_server_certificate_verify"})

\* The callbacks: the verdict is asked for once, and a signature once a handshake.
Asking(e) ==
    /\ e.callbacks <= 1 /\ (e.verify = "notStarted" => e.callbacks = 0)
    /\ e.signatures <= 1 + e.total_renegotiations
    /\ Unsigned(e) /\ ~e.pending_private_key_op => e.signatures <= e.total_renegotiations
    /\ e.pending_private_key_op => e.signatures > 0 /\ e.cfg.customKey

\* The verdict on the peer.  A client that resumed a session trusts the session's
\* certificate in a renegotiation.
Accepted(e) == e.cfg.verify => e.cfg.trusts /\ (e.cfg.callback => e.verify = "ok")
Judged(e) == \/ Accepted(e)
             \/ e.side = "client" /\ e.cfg.session # 0 /\ e.total_renegotiations > 0

\* The server's signature has been checked.
Proved12 == {"read_certificate_request", "read_server_hello_done", "send_client_certificate",
             "send_client_key_exchange", "send_client_certificate_verify",
             "send_client_finished", "finish_flight", "read_session_ticket",
             "process_change_cipher_spec", "read_server_finished",
             "finish_client_handshake", "done"}
Proved13 == {"read_server_finished", "send_client_certificate",
             "send_client_certificate_verify", "complete_second_flight", "done"}

\* Why the client may trust the server: it has its certificate, then a verdict on
\* it, then a signature; or it resumed a session.
ClientTrust(e, g) ==
    /\ e.session_reused => e.cfg.session # 0
    /\ e.established # "none" => Accepted(e) \/ e.cfg.session # 0
    /\ At(e, {"read_server_certificate", "verify_server_certificate",
              "read_server_key_exchange", "read_certificate_request", "read_server_hello_done",
              "send_client_certificate", "send_client_key_exchange",
              "send_client_certificate_verify"}, {}) => ~e.session_reused
    /\ At(e, Proved12 \cup {"read_server_key_exchange", "verify_server_certificate"},
             Proved13 \cup {"read_server_certificate_verify"}) => e.peer = "server"
    /\ At(e, {}, {"read_encrypted_extensions", "read_certificate_request"}) /\ e.session_reused
           => e.peer = "server"
    /\ At(e, Proved12 \cup {"read_server_key_exchange"}, Proved13) => e.session_reused \/ Judged(e)
    /\ At(e, Proved12, Proved13) => e.session_reused \/ Signed(g)

\* The server asks for the client's certificate in this handshake.
Verifying(e) == e.cfg.verify /\ (e.cfg.verifyLater => e.total_renegotiations > 0)

\* What the client was asked for has been checked.
Checked12 == {"read_change_cipher_spec", "process_change_cipher_spec", "read_client_finished",
              "send_server_finished", "finish_server_handshake", "done"}
Checked13 == {"read_client_finished", "send_new_session_ticket", "done"}

\* Why the server may trust the client: it asked for its certificate unless it
\* resumed a session or need not ask, then it has it, then a verdict, then a signature.
ServerTrust(e, g) ==
    /\ At(e, Checked12 \cup {"send_server_hello", "send_server_certificate",
                             "send_server_key_exchange", "send_server_hello_done",
                             "read_client_certificate", "verify_client_certificate",
                             "read_client_key_exchange", "read_client_certificate_verify"},
             Checked13 \cup {"send_server_certificate_verify", "send_server_finished",
                             "send_half_rtt_ticket", "process_end_of_early_data",
                             "read_client_certificate", "read_client_certificate_verify"})
           => ~Verifying(e) \/ e.session_reused \/ e.cert_request
    /\ At(e, {"verify_client_certificate", "read_client_key_exchange",
              "read_client_certificate_verify"}, {"read_client_certificate_verify"})
           /\ e.cert_request => e.peer = "client"
    /\ At(e, {"read_client_key_exchange", "read_client_certificate_verify"}, {})
           /\ e.cert_request => Accepted(e)
    /\ At(e, Checked12, Checked13) /\ e.cert_request /\ ~e.session_reused
           => e.peer = "client" /\ Accepted(e) /\ Signed(g)

\* established says that a handshake was completed.
Trust(e, g) ==
    /\ e.verify = "ok" => e.cfg.trusts
    /\ e.established # "none" <=> e.state = "done" \/ e.total_renegotiations > 0
    /\ IF e.side = "client" THEN ClientTrust(e, g) ELSE ServerTrust(e, g)

\* The last message of the peer has been taken.
Emptied(e) ==
    IF e.side = "client"
    THEN \/ At(e, {"finish_client_handshake"}, {"done"})
         \/ At(e, {"send_client_finished", "finish_flight"}, {}) /\ e.session_reused
    ELSE \/ At(e, {"finish_server_handshake"}, {"send_new_session_ticket", "done"})
         \/ At(e, {"send_server_finished"}, {}) /\ ~e.session_reused

\* The ClientHello has been looked at and not been taken.
HelloHeld(e) ==
    /\ e.side = "server"
    /\ At(e, {"read_client_hello_after_ech", "select_certificate", "select_parameters"},
             {"select_session"})

\* A flight is being written.
Writing(e) ==
    IF e.side = "client"
    THEN At(e, {"send_client_key_exchange", "send_client_certificate_verify",
                "send_client_finished", "done"},
               {"send_client_certificate_verify", "complete_second_flight"})
    ELSE At(e, {"send_server_certificate", "send_server_key_exchange",
                "send_server_hello_done", "send_server_finished", "finish_server_handshake",
                "done"},
               {"send_server_certificate_verify", "send_server_finished",
                "send_half_rtt_ticket", "done"})

\* What the buffers hold where: nothing is left over at the end, the hello is
\* there while it is looked at, and an endpoint that waits for the peer is quiet.
Buffers(e) ==
    /\ Emptied(e) => e.hs_buf = <<>>
    /\ HelloHeld(e) => e.hs_buf # <<>> /\ Head(e.hs_buf).type = "client_hello"
    /\ e.wait \in Reading => ~Emptied(e) /\ ~HelloHeld(e) /\ ~Writing(e)
    /\ Writing(e) \/ e.wait \in {"flush", "error"} \/ Quiet(e)

\* The invariant of an endpoint e whose peer is g, and a step that keeps it.
Good(e, g) == Typed(e) /\ Wire(e, g) /\ Asking(e) /\ Trust(e, g) /\ Buffers(e)

Steps(e, f, g) == Good(f, g) /\ Grows(e, f)

\* What decides the invariant, but for the wire.
Decisive == {"side", "cfg", "state", "tls13_state", "session_reused", "cert_request", "peer",
             "hs_buf", "verify", "pending_private_key_op", "key_result", "established",
             "total_renegotiations", "callbacks", "signatures"}

\* Where an endpoint is follows from four of its fields.
LEMMA SamePlace ==
    ASSUME NEW e, NEW f, f.side = e.side, f.state = e.state, f.tls13_state = e.tls13_state,
           f.session_reused = e.session_reused
    PROVE  /\ Unsigned(f) = Unsigned(e) /\ Emptied(f) = Emptied(e)
           /\ HelloHeld(f) = HelloHeld(e) /\ Writing(f) = Writing(e)
<1>1. \A a, b : At(f, a, b) = At(e, a, b)
  BY Zenon DEF At
<1> QED BY <1>1, Zenon DEF Unsigned, Emptied, HelloHeld, Writing

\* Whom it trusts follows from eleven.
LEMMA SameTrust ==
    ASSUME NEW e, NEW f, NEW g, f.side = e.side, f.state = e.state, f.tls13_state = e.tls13_state,
           f.session_reused = e.session_reused, f.cfg = e.cfg, f.cert_request = e.cert_request,
           f.peer = e.peer, f.verify = e.verify, f.established = e.established,
           f.total_renegotiations = e.total_renegotiations
    PROVE  /\ ClientTrust(e, g) => ClientTrust(f, g) 
           /\ ServerTrust(e, g) => ServerTrust(f, g) 
           /\ Trust(e, g) => Trust(f, g)
<1>1. \A a, b : At(f, a, b) = At(e, a, b)
  BY Zenon DEF At
<1>2. Accepted(f) = Accepted(e) /\ Judged(f) = Judged(e) /\ Verifying(f) = Verifying(e)
  BY Zenon DEF Accepted, Judged, Verifying
<1>3. ClientTrust(e, g) => ClientTrust(f, g) 
  BY <1>1, <1>2, Zenon DEF ClientTrust
<1>4. ServerTrust(e, g) => ServerTrust(f, g) 
  BY <1>1, <1>2, Zenon DEF ServerTrust
<1> QED BY <1>3, <1>4, Zenon DEF Trust

\* A verdict on the peer only adds to the trust in it.
LEMMA MoreTrust ==
    ASSUME NEW e, NEW f, NEW g, f.side = e.side, f.state = e.state, f.tls13_state = e.tls13_state,
           f.session_reused = e.session_reused, f.cfg = e.cfg, f.cert_request = e.cert_request,
           f.peer = e.peer, f.established = e.established,
           f.total_renegotiations = e.total_renegotiations,
           \/ Accepted(f) /\ Judged(f)
           \/ Accepted(f) = Accepted(e) /\ Judged(f) = Judged(e)
    PROVE  /\ ClientTrust(e, g) => ClientTrust(f, g)
           /\ ServerTrust(e, g) => ServerTrust(f, g)
<1>1. \A a, b : At(f, a, b) = At(e, a, b)
  BY Zenon DEF At
<1>2. Verifying(f) = Verifying(e)
  BY Zenon DEF Verifying
<1>3. CASE Accepted(f) = Accepted(e) /\ Judged(f) = Judged(e)
  <2>1. ClientTrust(e, g) => ClientTrust(f, g)
    BY <1>1, <1>3, Zenon DEF ClientTrust
  <2>2. ServerTrust(e, g) => ServerTrust(f, g)
    BY <1>1, <1>2, <1>3, Zenon DEF ServerTrust
  <2> QED BY <2>1, <2>2
<1>4. CASE Accepted(f) /\ Judged(f)
  <2>1. ClientTrust(e, g) => ClientTrust(f, g)
    BY <1>1, <1>4, Zenon DEF ClientTrust
  <2>2. ServerTrust(e, g) => ServerTrust(f, g)
    BY <1>1, <1>2, <1>4, Zenon DEF ServerTrust
  <2> QED BY <2>1, <2>2
<1> QED BY <1>3, <1>4

\* A change outside Decisive keeps the parts of the invariant about callbacks and trust.
LEMMA DecisiveKept ==
    ASSUME NEW e, NEW f, NEW g, NEW X, Same(e, f, X), X \cap Decisive = {}
    PROVE  /\ Asking(e) => Asking(f)
           /\ Trust(e, g) => Trust(f, g)
           /\ f.hs_buf = e.hs_buf /\ f.cfg = e.cfg /\ f.side = e.side /\ Grows(e, f)
           /\ Emptied(f) = Emptied(e) /\ HelloHeld(f) = HelloHeld(e) /\ Writing(f) = Writing(e)
<1>1. /\ f.side = e.side /\ f.cfg = e.cfg /\ f.state = e.state /\ f.tls13_state = e.tls13_state
      /\ f.session_reused = e.session_reused /\ f.cert_request = e.cert_request /\ f.peer = e.peer
      /\ f.hs_buf = e.hs_buf /\ f.verify = e.verify
      /\ f.pending_private_key_op = e.pending_private_key_op /\ f.key_result = e.key_result
      /\ f.established = e.established /\ f.total_renegotiations = e.total_renegotiations
      /\ f.callbacks = e.callbacks /\ f.signatures = e.signatures
  BY SMT DEF Same, Fields, Decisive
<1>2. Grows(e, f)
  BY <1>1 DEF Grows, Signed
<1>6. /\ Unsigned(f) = Unsigned(e) /\ Emptied(f) = Emptied(e)
      /\ HelloHeld(f) = HelloHeld(e) /\ Writing(f) = Writing(e)
  BY <1>1, SamePlace
<1>4. Asking(e) => Asking(f)
  BY <1>1, <1>6, Zenon DEF Asking
<1>5. Trust(e, g) => Trust(f, g)
  BY <1>1, SameTrust
<1> QED BY <1>1, <1>2, <1>4, <1>5, <1>6

\* A change outside Decisive keeps the types, if the new values have theirs.
LEMMA TypedKept ==
    ASSUME NEW e, NEW f, NEW X, Same(e, f, X), Typed(e),
           X \cap Decisive = {},
           f.running \in BOOLEAN, f.version \in {0, 12, 13}, f.wait \in Waits,
           f.used_hello_retry_request \in BOOLEAN,
           f.ticket_expected \in BOOLEAN, f.key_share \in 0..2
    PROVE  Typed(f)
<1>1. /\ f.side = e.side /\ f.cfg = e.cfg 
      /\ f.session_reused = e.session_reused /\ f.cert_request = e.cert_request /\ f.peer = e.peer
      /\ f.verify = e.verify
      /\ f.pending_private_key_op = e.pending_private_key_op /\ f.key_result = e.key_result
      /\ f.total_renegotiations = e.total_renegotiations
      /\ f.callbacks = e.callbacks /\ f.signatures = e.signatures
  BY SMT DEF Same, Fields, Decisive
<1>2. DOMAIN f = Fields
  BY DEF Same
<1> QED BY <1>1, <1>2, Zenon DEF Typed

\* Failing with an alert is always in order ...
LEMMA GoodAlert ==
    ASSUME NEW e, NEW g, NEW why, Good(e, g)
    PROVE  Steps(e, Alert(e, why), g)
<1> DEFINE h == Alert(e, why)
           X == {"pending_flight", "pending_hs_data", "outbound", "wait", "error", "running"}
<1>1. Same(e, h, X) /\ Wire(h, g) /\ h.wait = "error" /\ h.running = FALSE
  BY OnAlert DEF Good, Typed
<1>2. X \cap Decisive = {}
  BY DEF Decisive
<1>3. /\ h.version = e.version /\ h.used_hello_retry_request = e.used_hello_retry_request
      /\ h.ticket_expected = e.ticket_expected /\ h.key_share = e.key_share
  BY <1>1, SMT DEF Same, Fields
<1> HIDE DEF h, X
<1>4. Typed(h)
  <2>1. "error" \in Waits
    BY DEF Waits
  <2> QED BY <1>1, <1>2, <1>3, <2>1, TypedKept, Zenon DEF Good, Typed
<1>5. Asking(h) /\ Trust(h, g) /\ Grows(e, h)
  BY <1>1, <1>2, DecisiveKept, Zenon DEF Good
<1>6. h.wait \notin Reading
  BY <1>1 DEF Reading
<1>7. Buffers(h)
  <2>1. /\ h.hs_buf = e.hs_buf /\ Emptied(h) = Emptied(e) /\ HelloHeld(h) = HelloHeld(e)
        /\ Writing(h) = Writing(e)
    BY <1>1, <1>2, DecisiveKept, Zenon DEF Good
  <2> QED BY <1>1, <1>6, <2>1, Zenon DEF Good, Buffers
<1> QED BY <1>1, <1>4, <1>5, <1>7, Zenon DEF Steps, Good, h

-----------------------------------------------------------------------------
(***************************************************************************)
(* Steps that fail, wait or move on.                                       *)
(***************************************************************************)
\* What decides none of it.
Incidental == {"running", "error", "version", "used_hello_retry_request", "ticket_expected",
               "key_share", "read_key", "write_key", "transcript", "secret", "app",
               "key_update_pending", "key_update_count", "sent", "received"}

\* Fields that no part of the invariant speaks of, but for their types.
LEMMA GoodKept ==
    ASSUME NEW e, NEW f, NEW g, Good(e, g), Same(e, f, Incidental),
           f.running \in BOOLEAN, f.version \in {0, 12, 13},
           f.used_hello_retry_request \in BOOLEAN, f.ticket_expected \in BOOLEAN, f.key_share \in 0..2
    PROVE  Steps(e, f, g)
<1>1. Incidental \cap Decisive = {}
  BY DEF Incidental, Decisive
<1>2. Incidental \cap {"inbound", "hs_buf", "pending_hs_data", "pending_flight", "outbound"} = {}
  BY DEF Incidental
<1>3. /\ f.wait = e.wait /\ f.pending_hs_data = e.pending_hs_data
      /\ f.pending_flight = e.pending_flight
  BY SMT DEF Same, Fields, Incidental
<1>4. Typed(f)
  BY <1>1, <1>3, TypedKept, Zenon DEF Good, Typed
<1>5. Asking(f) /\ Trust(f, g) /\ Grows(e, f) /\ f.hs_buf = e.hs_buf
      /\ Emptied(f) = Emptied(e) /\ HelloHeld(f) = HelloHeld(e) /\ Writing(f) = Writing(e)
  BY <1>1, DecisiveKept, Zenon DEF Good
<1>6. Wire(f, g)
  BY <1>2, <1>5, WireSame, Zenon DEF Good
<1>7. Buffers(f)
  BY <1>3, <1>5, Zenon DEF Good, Buffers, Quiet
<1> QED BY <1>4, <1>5, <1>6, <1>7, Zenon DEF Steps, Good

\* Another way of waiting.
LEMMA GoodWaiting ==
    ASSUME NEW e, NEW f, NEW g, Good(e, g), Same(e, f, {"wait", "running", "error"}),
           f.running \in BOOLEAN, f.wait \in Waits,
           f.wait \in Reading => ~Emptied(e) /\ ~HelloHeld(e) /\ ~Writing(e),
           f.wait = "error" \/ e.wait \notin {"flush", "error"}
    PROVE  Steps(e, f, g)
<1> DEFINE X == {"wait", "running", "error"}
<1>1. X \cap Decisive = {}
  BY DEF Decisive
<1>2. X \cap {"inbound", "hs_buf", "pending_hs_data", "pending_flight", "outbound"} = {}
  OBVIOUS
<1>3. f.pending_hs_data = e.pending_hs_data /\ f.pending_flight = e.pending_flight
      /\ f.version = e.version /\ f.used_hello_retry_request = e.used_hello_retry_request
      /\ f.ticket_expected = e.ticket_expected /\ f.key_share = e.key_share
  BY SMT DEF Same, Fields
<1>0. Same(e, f, X)
  OBVIOUS
<1> HIDE DEF X
<1>4. Typed(f)
  BY <1>0, <1>1, <1>3, TypedKept, Zenon DEF Good, Typed
<1>5. Asking(f) /\ Trust(f, g) /\ Grows(e, f) /\ f.hs_buf = e.hs_buf
      /\ Emptied(f) = Emptied(e) /\ HelloHeld(f) = HelloHeld(e) /\ Writing(f) = Writing(e)
  BY <1>0, <1>1, DecisiveKept, Zenon DEF Good
<1>6. Wire(f, g)
  BY <1>0, <1>2, <1>5, WireSame, Zenon DEF Good
<1>7. Buffers(f)
  BY <1>3, <1>5, Zenon DEF Good, Buffers, Quiet
<1> QED BY <1>4, <1>5, <1>6, <1>7, Zenon DEF Steps, Good

\* Where a function of the state machine may wait for a record.
MayRead(e) == e.wait = "ok" /\ ~Emptied(e) /\ ~HelloHeld(e) /\ ~Writing(e)

\* Waiting is, where the endpoint may wait.
LEMMA GoodWait ==
    ASSUME NEW e, NEW g, NEW w, Good(e, g), e.wait = "ok",
           \/ w \in Reading /\ MayRead(e)
           \/ w \in {"certificate_verify", "private_key_operation", "flush"}
    PROVE  Steps(e, Wait(e, w), g)
<1>1. Same(e, Wait(e, w), {"wait"}) /\ Wait(e, w).wait = w
  BY Zenon DEF Good, Typed, Same, Wait, Fields
<1>2. Same(e, Wait(e, w), {"wait", "running", "error"})
  BY <1>1, SameWider
<1>3. Wait(e, w).running = e.running
  BY <1>1 DEF Same, Fields
<1>4. w \in Waits /\ (w \in Reading => MayRead(e))
  BY DEF Waits, Reading
<1> QED BY <1>1, <1>2, <1>3, <1>4, GoodWaiting DEF MayRead, Good, Typed

\* ... and so is failing without one.
LEMMA GoodError ==
    ASSUME NEW e, NEW g, NEW why, Good(e, g)
    PROVE  Steps(e, Error(e, why), g)
<1>1. Same(e, Error(e, why), {"wait", "running", "error"})
  BY Zenon DEF Good, Typed, Same, Error
<1>2. Error(e, why).wait = "error" /\ Error(e, why).running = FALSE
  BY SMT DEF Good, Typed, Error, Fields
<1>3. "error" \in Waits /\ "error" \notin Reading
  BY DEF Waits, Reading
<1> QED BY <1>1, <1>2, <1>3, GoodWaiting

\* A function that expects a message is in order if it is once the message is there.
LEMMA GoodExpect ==
    ASSUME NEW e, NEW g, NEW type, NEW then, Good(e, g), MayRead(e),
           HasMessage(e) /\ Message(e).type = type => Steps(e, then, g)
    PROVE  Steps(e, Expect(e, type, then), g)
<1>1. CASE ~HasMessage(e)
  <2>1. "read_message" \in Reading
    BY DEF Reading
  <2>2. Expect(e, type, then) = Wait(e, "read_message")
    BY <1>1 DEF Expect
  <2> QED BY <2>1, <2>2, GoodWait DEF MayRead
<1>2. CASE HasMessage(e) /\ Message(e).type # type
  <2>1. Expect(e, type, then) = Alert(e, "unexpected_message")
    BY <1>2 DEF Expect
  <2> QED BY <2>1, GoodAlert
<1>3. CASE HasMessage(e) /\ Message(e).type = type
  BY <1>3 DEF Expect
<1> QED BY <1>1, <1>2, <1>3

\* A step through the state machine.  What it leaves alone is what the users have
\* said, and what the connection has been through.
Constant == {"side", "cfg", "running", "error", "inbound", "outbound", "verify", "pending_private_key_op",
             "key_result", "established", "total_renegotiations", "key_update_pending",
             "key_update_count", "sent", "received", "callbacks", "signatures"}

\* A step from state to state that asks nobody.
LEMMA GoodMove ==
    ASSUME NEW e, NEW f, NEW g, Good(e, g), Same(e, f, Fields \ Constant), Carries(f, e, g),
           e.state # "done", f.state # "done",
           f.version \in {0, 12, 13}, f.wait \in {"ok", "flush", "read_change_cipher_spec"},
           f.session_reused \in BOOLEAN, f.used_hello_retry_request \in BOOLEAN,
           f.cert_request \in BOOLEAN, f.ticket_expected \in BOOLEAN,
           f.key_share \in 0..2, f.peer \in {"none", Peer(e.side)},
           Unsigned(f) => Unsigned(e),
           IF e.side = "client" THEN ClientTrust(f, g) ELSE ServerTrust(f, g),
           Buffers(f)
    PROVE  Steps(e, f, g)
<1>1. /\ f.side = e.side /\ f.cfg = e.cfg /\ f.running = e.running /\ f.verify = e.verify
      /\ f.pending_private_key_op = e.pending_private_key_op /\ f.key_result = e.key_result
      /\ f.established = e.established /\ f.total_renegotiations = e.total_renegotiations
      /\ f.callbacks = e.callbacks /\ f.signatures = e.signatures /\ DOMAIN f = Fields
  BY SMT DEF Same, Fields, Constant
<1>2. Grows(e, f)
  BY <1>1 DEF Grows, Signed
<1>3. Wire(f, g)
  BY <1>2, CarriesGrow DEF Wire
<1>4. f.wait \in Waits
  BY DEF Waits, Reading
<1>5. Typed(f)
  BY <1>1, <1>4, Zenon DEF Good, Typed
<1>6. Asking(f)
  BY <1>1, Zenon DEF Good, Asking
<1>7. Trust(f, g)
  BY <1>1, Zenon DEF Good, Trust
<1> QED BY <1>2, <1>3, <1>5, <1>6, <1>7, Zenon DEF Steps, Good

-----------------------------------------------------------------------------
(***************************************************************************)
(* Steps that ask the user.                                                *)
(***************************************************************************)
\* ssl_verify_peer_cert: what follows may rely on the verdict.
LEMMA GoodAfterVerify ==
    ASSUME NEW e, NEW g, NEW then, Good(e, g), e.wait = "ok", e.state # "done",
           Judged(e) => Steps(e, then, g)
    PROVE  Steps(e, AfterVerify(e, then), g)
<1> DEFINE n == IF e.verify # "notStarted" THEN e.callbacks ELSE e.callbacks + 1
           a == [e EXCEPT !.verify = "pending", !.callbacks = n]
           refused == IF e.cfg.callback THEN e.verify = "invalid" ELSE ~e.cfg.trusts
<1>1. CASE e.side = "client" /\ e.established # "none"
  <2>1. CASE e.peer # e.established
    BY <1>1, <2>1, GoodAlert DEF AfterVerify
  <2>2. CASE e.peer = e.established
    <3>1. Judged(e)
      BY <1>1 DEF Good, Trust, ClientTrust, Judged
    <3> QED BY <1>1, <2>2, <3>1 DEF AfterVerify
  <2> QED BY <2>1, <2>2
<1>2. CASE /\ ~(e.side = "client" /\ e.established # "none")
           /\ e.cfg.callback /\ e.verify \in {"notStarted", "pending"}
  <2>1. AfterVerify(e, then) = Wait(a, "certificate_verify")
    <3>1. a = [e EXCEPT !.verify = "pending", !.callbacks = IF e.verify # "notStarted" THEN @ ELSE @ + 1]
      BY Zenon
    <3> QED BY <1>2, <3>1, Zenon DEF AfterVerify
  <2>2. Same(e, a, {"verify", "callbacks"}) /\ a.verify = "pending" /\ a.callbacks = n
    <3> HIDE DEF n
    <3>1. Same(e, a, {"verify", "callbacks"})
      BY Zenon DEF Same, Good, Typed
    <3>2. a.verify = "pending" /\ a.callbacks = n
      BY SMT DEF Good, Typed, Fields
    <3> QED BY <3>1, <3>2
  <2>3. /\ a.side = e.side /\ a.cfg = e.cfg /\ a.state = e.state /\ a.tls13_state = e.tls13_state
        /\ a.session_reused = e.session_reused /\ a.cert_request = e.cert_request /\ a.peer = e.peer
        /\ a.hs_buf = e.hs_buf /\ a.wait = e.wait
        /\ a.pending_private_key_op = e.pending_private_key_op /\ a.key_result = e.key_result
        /\ a.established = e.established /\ a.total_renegotiations = e.total_renegotiations
        /\ a.signatures = e.signatures /\ DOMAIN a = Fields
        /\ a.running = e.running /\ a.version = e.version
        /\ a.used_hello_retry_request = e.used_hello_retry_request
        /\ a.ticket_expected = e.ticket_expected /\ a.key_share = e.key_share
        /\ a.pending_hs_data = e.pending_hs_data /\ a.pending_flight = e.pending_flight
    BY <2>2 DEF Same, Fields
  <2> HIDE DEF a
  <2>4. Grows(e, a)
    BY <2>3 DEF Grows, Signed
  <2>5. Wire(a, g)
    <3>1. {"verify", "callbacks"} \cap {"inbound", "hs_buf", "pending_hs_data", "pending_flight", "outbound"} = {}
      OBVIOUS
    <3> QED BY <2>2, <2>4, <3>1, WireSame DEF Good
  <2>6. n \in Nat /\ n <= 1
    BY DEF Good, Typed, Asking
  <2> HIDE DEF n
  <2>7. Typed(a)
    BY <2>2, <2>3, <2>6, Zenon DEF Good, Typed
  <2>9. Asking(a)
    <3>1. Unsigned(a) = Unsigned(e)
      BY <2>3, SamePlace
    <3>2. a.verify # "notStarted"
      BY <2>2
    <3> QED BY <2>2, <2>3, <2>6, <3>1, <3>2, Zenon DEF Good, Asking
  <2>10. Accepted(a) = Accepted(e) /\ Judged(a) = Judged(e) /\ Verifying(a) = Verifying(e)
    BY <1>2, <2>2, <2>3 DEF Accepted, Judged, Verifying
  <2>11. Trust(a, g)
    <3>1. a.verify # "ok"
      BY <2>2
    <3>2. /\ ClientTrust(e, g) => ClientTrust(a, g)
          /\ ServerTrust(e, g) => ServerTrust(a, g)
      BY <2>3, <2>10, MoreTrust
    <3> QED BY <2>3, <3>1, <3>2, Zenon DEF Good, Trust
  <2>12. Buffers(a)
    <3>1. Emptied(a) = Emptied(e) /\ HelloHeld(a) = HelloHeld(e) /\ Writing(a) = Writing(e)
      BY <2>3, SamePlace
    <3> QED BY <2>3, <3>1, Zenon DEF Good, Buffers, Quiet
  <2>13. Good(a, g) /\ a.wait = "ok"
    BY <2>3, <2>5, <2>7, <2>9, <2>11, <2>12 DEF Good
  <2>14. Steps(a, Wait(a, "certificate_verify"), g)
    BY <2>13, GoodWait
  <2> QED BY <2>1, <2>4, <2>14 DEF Steps, Grows
<1>3. CASE /\ ~(e.side = "client" /\ e.established # "none")
           /\ ~(e.cfg.callback /\ e.verify \in {"notStarted", "pending"})
  <2>1. CASE refused /\ e.cfg.verify
    BY <1>3, <2>1, GoodAlert DEF AfterVerify
  <2>2. CASE ~(refused /\ e.cfg.verify)
    <3>1. Accepted(e)
      BY <1>3, <2>2 DEF Good, Typed, Trust, Accepted
    <3> QED BY <1>3, <2>2, <3>1 DEF AfterVerify, Judged
  <2> QED BY <2>1, <2>2
<1> QED BY <1>1, <1>2, <1>3

\* The message that the signature is for is sound once it has been made.
LEMMA GoodAfterSign ==
    ASSUME NEW e, NEW g, NEW then, Good(e, g), e.wait = "ok", e.state # "done", then.state # "done",
           Unsigned(e), ~Unsigned(then),
           Same(e, then, {"pending_flight", "pending_hs_data", "transcript", "state", "tls13_state"}),
           \A o : Grows(e, o) /\ Signed(o) => Carries(then, o, g),
           IF e.side = "client" THEN ClientTrust(then, g) ELSE ServerTrust(then, g),
           Buffers(then)
    PROVE  Steps(e, AfterSign(e, then), g)
<1> DEFINE r == AfterSign(e, then)
<1>1. CASE e.cfg.customKey /\ ~e.pending_private_key_op /\ e.key_result # "none"
  BY <1>1, GoodError DEF AfterSign
<1>2. CASE e.cfg.customKey /\ e.pending_private_key_op /\ e.key_result = "none"
  BY <1>2, GoodWait DEF AfterSign
<1>3. CASE e.cfg.customKey /\ e.pending_private_key_op /\ e.key_result = "failure"
  BY <1>3, GoodError DEF AfterSign
<1>4. CASE e.cfg.customKey /\ ~e.pending_private_key_op /\ e.key_result = "none"
  <2> DEFINE a == [e EXCEPT !.pending_private_key_op = TRUE, !.signatures = @ + 1]
  <2>1. r = Wait(a, "private_key_operation")
    BY <1>4 DEF AfterSign
  <2>2. Same(e, a, {"pending_private_key_op", "signatures"})
    BY Zenon DEF Same, Good, Typed
  <2>3. a.pending_private_key_op = TRUE /\ a.signatures = e.signatures + 1
    BY SMT DEF Good, Typed, Fields
  <2>4. /\ a.side = e.side /\ a.cfg = e.cfg /\ a.state = e.state /\ a.tls13_state = e.tls13_state
        /\ a.session_reused = e.session_reused /\ a.cert_request = e.cert_request /\ a.peer = e.peer
        /\ a.hs_buf = e.hs_buf /\ a.wait = e.wait /\ a.verify = e.verify
        /\ a.callbacks = e.callbacks
        /\ a.key_result = e.key_result
        /\ a.established = e.established /\ a.total_renegotiations = e.total_renegotiations
        /\ DOMAIN a = Fields
        /\ a.running = e.running /\ a.version = e.version
        /\ a.used_hello_retry_request = e.used_hello_retry_request
        /\ a.ticket_expected = e.ticket_expected /\ a.key_share = e.key_share
        /\ a.pending_hs_data = e.pending_hs_data /\ a.pending_flight = e.pending_flight
    BY <2>2 DEF Same, Fields
  <2> HIDE DEF a, r
  <2>5. Grows(e, a)
    BY <2>3, <2>4, <1>4 DEF Grows, Signed
  <2>6. Wire(a, g)
    <3>1. {"pending_private_key_op", "signatures"} \cap {"inbound", "hs_buf", "pending_hs_data", "pending_flight", "outbound"} = {}
      OBVIOUS
    <3> QED BY <2>2, <2>5, <3>1, WireSame DEF Good
  <2>7. a.signatures \in Nat /\ a.signatures > 0 /\ a.signatures <= 1 + a.total_renegotiations
    BY <1>4, <2>3, <2>4 DEF Good, Typed, Asking
  <2>8. Typed(a)
    BY <2>3, <2>4, <2>7, Zenon DEF Good, Typed
  <2>9. Asking(a)
    BY <1>4, <2>3, <2>4, <2>7, Zenon DEF Good, Asking
  <2>11. Trust(a, g)
    BY <2>4, SameTrust DEF Good
  <2>12. Buffers(a)
    <3>1. Emptied(a) = Emptied(e) /\ HelloHeld(a) = HelloHeld(e) /\ Writing(a) = Writing(e)
      BY <2>4, SamePlace
    <3> QED BY <2>4, <3>1, Zenon DEF Good, Buffers, Quiet
  <2>13. Good(a, g) /\ a.wait = "ok"
    BY <2>4, <2>6, <2>8, <2>9, <2>11, <2>12 DEF Good
  <2>14. Steps(a, Wait(a, "private_key_operation"), g)
    BY <2>13, GoodWait
  <2> QED BY <2>1, <2>5, <2>14 DEF Steps, Grows, r
<1>5. CASE \/ ~e.cfg.customKey
           \/ e.cfg.customKey /\ e.pending_private_key_op /\ e.key_result = "signature"
  <2> DEFINE n == IF e.cfg.customKey THEN e.signatures ELSE e.signatures + 1
             b == IF e.cfg.customKey THEN FALSE ELSE e.pending_private_key_op
             X == {"pending_flight", "pending_hs_data", "transcript", "state", "tls13_state"}
  <2>0. ~e.cfg.customKey => ~e.pending_private_key_op
    BY DEF Good, Typed, Asking, Config
  <2>1. /\ DOMAIN then = Fields /\ then.signatures = e.signatures
        /\ then.pending_private_key_op = e.pending_private_key_op
    BY DEF Same, Fields
  <2>2. /\ Same(then, r, {"pending_private_key_op", "signatures"}) /\ r.signatures = n
        /\ r.pending_private_key_op = b
    <3>1. CASE ~e.cfg.customKey
      <4>1. r = [then EXCEPT !.signatures = @ + 1]
        BY <3>1 DEF AfterSign
      <4> HIDE DEF r
      <4>2. Same(then, r, {"pending_private_key_op", "signatures"})
        BY <2>1, <4>1, Zenon DEF Same
      <4>3. /\ r.signatures = then.signatures + 1
            /\ r.pending_private_key_op = then.pending_private_key_op
        BY <2>1, <4>1, SMT DEF Fields
      <4> QED BY <2>1, <3>1, <4>2, <4>3
    <3>2. CASE e.cfg.customKey /\ e.pending_private_key_op /\ e.key_result = "signature"
      <4>1. r = [then EXCEPT !.pending_private_key_op = FALSE]
        BY <3>2 DEF AfterSign
      <4> HIDE DEF r
      <4>2. Same(then, r, {"pending_private_key_op", "signatures"})
        BY <2>1, <4>1, Zenon DEF Same
      <4>3. r.signatures = then.signatures /\ r.pending_private_key_op = FALSE
        BY <2>1, <4>1, SMT DEF Fields
      <4> QED BY <2>1, <3>2, <4>2, <4>3
    <3> QED BY <1>5, <3>1, <3>2
  <2> HIDE DEF r
  <2>3. /\ r.side = then.side /\ r.cfg = then.cfg /\ r.state = then.state
        /\ r.tls13_state = then.tls13_state
        /\ r.session_reused = then.session_reused /\ r.cert_request = then.cert_request
        /\ r.peer = then.peer
        /\ r.hs_buf = then.hs_buf /\ r.wait = then.wait /\ r.verify = then.verify
        /\ r.callbacks = then.callbacks
        /\ r.key_result = then.key_result
        /\ r.established = then.established /\ r.total_renegotiations = then.total_renegotiations
        /\ DOMAIN r = Fields
        /\ r.running = then.running /\ r.version = then.version
        /\ r.used_hello_retry_request = then.used_hello_retry_request
        /\ r.ticket_expected = then.ticket_expected /\ r.key_share = then.key_share
        /\ r.pending_hs_data = then.pending_hs_data /\ r.pending_flight = then.pending_flight
        /\ r.inbound = then.inbound /\ r.outbound = then.outbound
    BY <2>2 DEF Same, Fields
  <2>4. /\ then.side = e.side /\ then.cfg = e.cfg
        /\ then.session_reused = e.session_reused /\ then.cert_request = e.cert_request
        /\ then.peer = e.peer
        /\ then.wait = e.wait /\ then.verify = e.verify /\ then.callbacks = e.callbacks
        /\ then.key_result = e.key_result
        /\ then.established = e.established /\ then.total_renegotiations = e.total_renegotiations
        /\ then.running = e.running /\ then.version = e.version
        /\ then.used_hello_retry_request = e.used_hello_retry_request
        /\ then.ticket_expected = e.ticket_expected /\ then.key_share = e.key_share
    BY DEF Same, Fields
  <2>5. n \in Nat /\ n > 0 /\ n <= 1 + e.total_renegotiations
    BY <1>5, <2>0 DEF Good, Typed, Asking
  <2>6. Signed(r) /\ Grows(e, r)
    BY <1>5, <2>2, <2>3, <2>4, <2>5 DEF Signed, Grows
  <2>7. Wire(r, g)
    <3>1. Carries(then, r, g)
      BY <2>6
    <3> QED BY <2>3, <3>1, Zenon DEF Wire, Carries
  <2>8. b = FALSE
    BY <2>0 DEF Good, Typed
  <2> HIDE DEF n, b
  <2>9. Typed(r)
    <3>1. /\ r.side = e.side /\ r.cfg = e.cfg /\ r.running = e.running /\ r.version = e.version
          /\ r.wait = e.wait /\ r.session_reused = e.session_reused
          /\ r.used_hello_retry_request = e.used_hello_retry_request
          /\ r.cert_request = e.cert_request /\ r.ticket_expected = e.ticket_expected
          /\ r.key_share = e.key_share /\ r.peer = e.peer /\ r.verify = e.verify
          /\ r.key_result = e.key_result /\ r.callbacks = e.callbacks
          /\ r.total_renegotiations = e.total_renegotiations /\ DOMAIN r = Fields
      BY <2>3, <2>4, Zenon
    <3>2. r.signatures \in Nat /\ r.pending_private_key_op \in BOOLEAN
      BY <2>2, <2>5, <2>8
    <3> QED BY <3>1, <3>2, Zenon DEF Good, Typed
  <2>11. Asking(r)
    <3>1. ~Unsigned(r)
      BY <2>3, SamePlace
    <3> QED BY <2>2, <2>3, <2>4, <2>5, <2>8, <3>1, Zenon DEF Good, Asking
  <2>12. Trust(r, g)
    <3>1. IF e.side = "client" THEN ClientTrust(r, g) ELSE ServerTrust(r, g)
      BY <2>3, SameTrust
    <3> QED BY <2>3, <2>4, <3>1, Zenon DEF Good, Trust
  <2>13. Buffers(r)
    <3>1. Emptied(r) = Emptied(then) /\ HelloHeld(r) = HelloHeld(then) /\ Writing(r) = Writing(then)
      BY <2>3, SamePlace
    <3> QED BY <2>3, <3>1, Zenon DEF Buffers, Quiet
  <2> QED BY <2>6, <2>7, <2>9, <2>11, <2>12, <2>13 DEF Steps, Good, r
<1>6. /\ e.key_result \in {"none", "signature", "failure"}
      /\ e.pending_private_key_op \in BOOLEAN /\ e.cfg.customKey \in BOOLEAN
  BY DEF Good, Typed, Config
<1> QED BY <1>1, <1>2, <1>3, <1>4, <1>5, <1>6

-----------------------------------------------------------------------------
(***************************************************************************)
(* Steps that read a message, and steps that write a flight.               *)
(***************************************************************************)
\* The fields in which an endpoint changes when it reads a message.
Readable == {"state", "tls13_state", "wait", "version", "session_reused",
             "used_hello_retry_request", "cert_request", "ticket_expected", "key_share", "peer",
             "hs_buf", "read_key", "transcript", "secret", "app"}

\* A step that reads a message.
LEMMA GoodRead ==
    ASSUME NEW e, NEW f, NEW g, Good(e, g), Same(e, f, Readable), e.wait = "ok", ~Writing(e),
           SoundUnits(f.hs_buf, g),
           e.state # "done", f.state # "done", f.version \in {0, 12, 13},
           f.session_reused \in BOOLEAN, f.used_hello_retry_request \in BOOLEAN,
           f.cert_request \in BOOLEAN, f.ticket_expected \in BOOLEAN,
           f.key_share \in 0..2, f.peer \in {"none", Peer(e.side)},
           f.wait \in {"ok", "read_change_cipher_spec"},
           f.wait # "ok" => ~Emptied(f) /\ ~HelloHeld(f) /\ ~Writing(f),
           Unsigned(f) => Unsigned(e),
           IF e.side = "client" THEN ClientTrust(f, g) ELSE ServerTrust(f, g),
           Emptied(f) => f.hs_buf = <<>>,
           HelloHeld(f) => f.hs_buf # <<>> /\ Head(f.hs_buf).type = "client_hello"
    PROVE  Steps(e, f, g)
<1>1. Same(e, f, Fields \ Constant)
  <2>1. Readable \subseteq Fields \ Constant
    BY DEF Readable, Fields, Constant
  <2> QED BY <2>1, SameWider
<1>2. /\ f.pending_hs_data = e.pending_hs_data /\ f.pending_flight = e.pending_flight
      /\ f.outbound = e.outbound /\ f.inbound = e.inbound
  BY SMT DEF Same, Fields, Readable
<1>3. Carries(f, e, g)
  BY <1>2, Zenon DEF Good, Wire, Carries
<1>4. Quiet(f)
  <2>1. Quiet(e)
    BY DEF Good, Buffers
  <2> QED BY <1>2, <2>1, Zenon DEF Quiet
<1>5. f.wait \in Reading => f.wait # "ok"
  BY DEF Reading
<1>6. Buffers(f)
  BY <1>4, <1>5, Zenon DEF Buffers
<1> QED BY <1>1, <1>3, <1>6, GoodMove

\* Two steps in a row.
LEMMA StepsTrans ==
    ASSUME NEW e, NEW f, NEW h, NEW g, Steps(e, f, g), Steps(f, h, g)
    PROVE  Steps(e, h, g)
BY DEF Steps, Grows

\* Failing on a message that has been hashed.
LEMMA GoodHashAlert ==
    ASSUME NEW e, NEW g, NEW why, Good(e, g)
    PROVE  Steps(e, Alert(HashMessage(e), why), g)
<1> DEFINE h == HashMessage(e)
<1>1. Same(e, h, {"transcript"})
  BY OnHashMessage DEF Good, Typed
<1>2. Same(e, h, Incidental)
  BY <1>1, SameWider DEF Incidental
<1>3. Steps(e, h, g)
  <2> HIDE DEF h
  <2> QED BY <1>1, <1>2, GoodKept DEF Same, Fields, Good, Typed
<1> QED BY <1>3, GoodAlert, StepsTrans DEF Steps

\* The fields in which writing a flight changes an endpoint.
Written == {"pending_flight", "pending_hs_data", "transcript", "write_key"}
\* f is e with (part of) a flight written.
Draft(e, f, g) == Same(e, f, Written) /\ Carries(f, e, g)

\* A flight begins ...
LEMMA DraftStart ==
    ASSUME NEW e, NEW g, DOMAIN e = Fields, Wire(e, g)
    PROVE  Draft(e, e, g)
BY DEF Draft, Same, Wire

\* ... stays sound as it is written ...
LEMMA DraftWire ==
    ASSUME NEW e, NEW f, NEW g, Draft(e, f, g)
    PROVE  DOMAIN f = Fields /\ Wire(f, g) /\ Grows(e, f) /\ Grows(f, e)
<1>1. Written \cap {"side", "cfg", "key_result", "signatures", "total_renegotiations"} = {}
  BY DEF Written
<1>2. Grows(e, f) /\ Grows(f, e)
  BY <1>1, SameGrows DEF Draft
<1> QED BY <1>2, CarriesGrow DEF Draft, Same, Wire

\* ... by changes that keep it sound ...
LEMMA DraftStep ==
    ASSUME NEW e, NEW f, NEW h, NEW g, NEW X, Draft(e, f, g), Same(f, h, X), X \subseteq Written,
           Wire(h, g)
    PROVE  Draft(e, h, g)
<1>1. Same(e, h, Written \cup X)
  BY SameTrans DEF Draft
<1>2. Same(e, h, Written)
  BY <1>1, SameWider
<1>3. Grows(h, e)
  <2>1. Written \cap {"side", "cfg", "key_result", "signatures", "total_renegotiations"} = {}
    BY DEF Written
  <2> QED BY <1>2, <2>1, SameGrows
<1> QED BY <1>2, <1>3, CarriesGrow DEF Draft, Wire

\* ... a message ...
LEMMA DraftAddMessage ==
    ASSUME NEW e, NEW f, NEW g, NEW m, Draft(e, f, g), Sound(m, e)
    PROVE  Draft(e, AddMessage(f, m), g)
<1> DEFINE h == AddMessage(f, m)
           X == {"pending_flight", "pending_hs_data", "transcript"}
<1>1. Same(f, h, X) /\ Carries(h, e, g)
  BY DraftWire, OnAddMessage
<1> HIDE DEF h
<1>2. Same(e, h, Written \cup X)
  BY <1>1, SameTrans DEF Draft
<1>3. Same(e, h, Written)
  BY <1>2, SameWider DEF Written
<1> QED BY <1>1, <1>3 DEF Draft, h

\* ... a ChangeCipherSpec ...
LEMMA DraftAddChangeCipherSpec ==
    ASSUME NEW e, NEW f, NEW g, Draft(e, f, g)
    PROVE  Draft(e, AddChangeCipherSpec(f), g) /\ (Quiet(f) => Quiet(AddChangeCipherSpec(f)))
<1> DEFINE h == AddChangeCipherSpec(f)
<1>1. Same(f, h, {"pending_flight", "pending_hs_data"}) /\ Wire(h, g) /\ (Quiet(f) => Quiet(h))
  BY DraftWire, OnAddChangeCipherSpec
<1>2. {"pending_flight", "pending_hs_data"} \subseteq Written
  BY DEF Written
<1> HIDE DEF h
<1> QED BY <1>1, <1>2, DraftStep DEF h

\* ... or a new key.
LEMMA DraftSetWriteKey ==
    ASSUME NEW e, NEW f, NEW g, NEW key, Draft(e, f, g)
    PROVE  Draft(e, SetWriteKey(f, key), g) /\ (Quiet(f) => Quiet(SetWriteKey(f, key)))
<1> DEFINE h == SetWriteKey(f, key)
<1>1. Same(f, h, {"pending_flight", "pending_hs_data", "write_key"}) /\ Wire(h, g) /\ (Quiet(f) => Quiet(h))
  BY DraftWire, OnSetWriteKey
<1>2. {"pending_flight", "pending_hs_data", "write_key"} \subseteq Written
  BY DEF Written
<1> HIDE DEF h
<1> QED BY <1>1, <1>2, DraftStep DEF h

\* The fields in which an endpoint changes when it writes a message and goes on.
Writable == Written \cup {"state", "tls13_state", "wait", "used_hello_retry_request", "cert_request",
                          "key_share", "secret", "app", "read_key"}

\* A step that writes a flight, as far as d.
LEMMA GoodWrite ==
    ASSUME NEW e, NEW d, NEW f, NEW g, Good(e, g), Carries(d, e, g), e.wait = "ok",
           Same(e, f, Writable), f.pending_flight = d.pending_flight, f.pending_hs_data = d.pending_hs_data,
           e.state # "done", f.state # "done", f.used_hello_retry_request \in BOOLEAN,
           f.cert_request \in BOOLEAN, f.key_share \in 0..2,
           f.wait \in {"ok", "flush"},
           Unsigned(f) => Unsigned(e),
           IF e.side = "client" THEN ClientTrust(f, g) ELSE ServerTrust(f, g),
           Emptied(f) => f.hs_buf = <<>>, ~HelloHeld(f),
           Writing(f) \/ f.wait = "flush" \/ Quiet(d)
    PROVE  Steps(e, f, g)
<1>1. Same(e, f, Fields \ Constant)
  <2>1. Writable \subseteq Fields \ Constant
    BY DEF Writable, Written, Fields, Constant
  <2> QED BY <2>1, SameWider
<1>2. /\ f.hs_buf = e.hs_buf /\ f.outbound = e.outbound /\ f.inbound = e.inbound
      /\ f.version = e.version
      /\ f.session_reused = e.session_reused /\ f.ticket_expected = e.ticket_expected
      /\ f.peer = e.peer
  BY SMT DEF Same, Fields, Writable, Written
<1>3. Carries(f, e, g)
  BY <1>2, Zenon DEF Good, Wire, Carries
<1>4. f.wait \notin Reading
  BY DEF Reading
<1>5. Buffers(f)
  BY <1>4, Zenon DEF Buffers, Quiet
<1> QED BY <1>1, <1>2, <1>3, <1>5, GoodMove DEF Good, Typed

\* It is the turn of a function of p's state machine.
Turn(e, g, p, state) == /\ Good(e, g) /\ g.side = Peer(p)
                        /\ e.side = p /\ e.wait = "ok" /\ e.state = state

\* How a written flight ends.
Ending == {"state", "tls13_state", "wait", "used_hello_retry_request", "cert_request", "secret",
           "app", "read_key"}

\* Going to a state changes the state.
LEMMA SameTo13 ==
    ASSUME NEW e, DOMAIN e = Fields, NEW state
    PROVE  Same(e, To13(e, state), {"tls13_state"}) /\ To13(e, state).tls13_state = state
BY Zenon DEF Same, Fields, To13

\* Going to a state and waiting there changes no more.
LEMMA SameToWait ==
    ASSUME NEW e, DOMAIN e = Fields, NEW state, NEW wait
    PROVE  /\ Same(e, Wait(To(e, state), wait), {"state", "wait"})
           /\ Wait(To(e, state), wait).state = state /\ Wait(To(e, state), wait).wait = wait
BY Zenon DEF Same, Fields, To, Wait

\* What the end of a flight leaves alone.
LEMMA OnWrite ==
    ASSUME NEW e, NEW d, NEW f, NEW g, Draft(e, d, g), Same(d, f, Ending)
    PROVE  /\ Same(e, f, Writable) /\ Carries(d, e, g)
           /\ f.pending_flight = d.pending_flight /\ f.pending_hs_data = d.pending_hs_data
           /\ f.side = e.side /\ f.cfg = e.cfg /\ f.verify = e.verify
           /\ f.established = e.established /\ f.total_renegotiations = e.total_renegotiations
           /\ f.hs_buf = e.hs_buf /\ f.session_reused = e.session_reused /\ f.peer = e.peer
           /\ f.key_share = e.key_share
<1>1. Same(e, f, Written \cup Ending)
  BY SameTrans DEF Draft
<1>2. Same(e, f, Writable)
  <2>1. Written \cup Ending \subseteq Writable
    BY DEF Writable, Ending
  <2> QED BY <1>1, <2>1, SameWider
<1>3. f.pending_flight = d.pending_flight /\ f.pending_hs_data = d.pending_hs_data
  BY SMT DEF Same, Fields, Ending
<1>4. /\ f.side = e.side /\ f.cfg = e.cfg /\ f.verify = e.verify
      /\ f.established = e.established /\ f.total_renegotiations = e.total_renegotiations
      /\ f.hs_buf = e.hs_buf /\ f.session_reused = e.session_reused /\ f.peer = e.peer
      /\ f.key_share = e.key_share
  BY <1>1, SMT DEF Same, Fields, Written, Ending
<1> QED BY <1>2, <1>3, <1>4 DEF Draft

\* What a function of the state machine finds.
LEMMA TurnFacts ==
    ASSUME NEW e, NEW g, NEW p, NEW s, Turn(e, g, p, s)
    PROVE  /\ Good(e, g) /\ DOMAIN e = Fields /\ Wire(e, g) /\ g.side = Peer(p)
           /\ e.side = p /\ e.wait = "ok" /\ e.state = s
BY DEF Turn, Good, Typed

\* A step that drafts a flight and ends it.
LEMMA GoodSend ==
    ASSUME NEW e, NEW d, NEW f, NEW g, Good(e, g), e.wait = "ok", e.state # "done",
           Draft(e, d, g), Same(d, f, Ending), f.state # "done", f.wait \in {"ok", "flush"},
           f.used_hello_retry_request \in BOOLEAN, f.cert_request \in BOOLEAN,
           Unsigned(f) => Unsigned(e),
           IF e.side = "client" THEN ClientTrust(f, g) ELSE ServerTrust(f, g),
           Emptied(f) => e.hs_buf = <<>>, ~HelloHeld(f),
           Writing(f) \/ f.wait = "flush" \/ Quiet(d)
    PROVE  Steps(e, f, g)
<1>1. /\ Same(e, f, Writable) /\ Carries(d, e, g)
      /\ f.pending_flight = d.pending_flight /\ f.pending_hs_data = d.pending_hs_data
      /\ f.hs_buf = e.hs_buf /\ f.key_share = e.key_share
  BY OnWrite
<1>2. e.key_share \in 0..2
  BY DEF Good, Typed
<1> QED BY <1>1, <1>2, GoodWrite

\* An endpoint that does not write has nothing to flush.
LEMMA QuietTurn ==
    ASSUME NEW e, NEW g, Good(e, g), e.wait = "ok", ~Writing(e)
    PROVE  Quiet(e)
BY DEF Good, Buffers
=============================================================================
